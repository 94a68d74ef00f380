--------------------------- MODULE WriteAccessProofs ---------------------------
(***************************************************************************)
(* That a write reference implies a barrier, whatever it was derived from,    *)
(* and that no pointer is stored behind the collector's back.                *)
(***************************************************************************)
EXTENDS WriteAccess, TLAPS

\* each guard has its share in the flag of its RefCell
GuardsFlagged ==
    \A r \in refs : /\ r.access = "RefMut" => borrowed[r.owner][r.node] = -1
                    /\ r.access = "Ref" => borrowed[r.owner][r.node] >= 1

\* nothing outlives a callback
IdleIsClean == mode = "idle" => refs = {} /\ barriered = {}

\* who may be written to is not traced
TracedNotWritable ==
    /\ traced \cap barriered = {}
    /\ mode = "mutate_root" => Root \notin traced

StaticHoldsNone == \A o \in Owners, n \in Static : holds[o][n] = {}

\* TracedIsSeen, lock by lock
LocksSeen == \A o \in traced, n \in Nodes : holds[o][n] \subseteq saw[o]

AInv ==
    /\ AccessTypeOK /\ WritesCovered
    /\ GuardsFlagged /\ IdleIsClean /\ TracedNotWritable /\ StaticHoldsNone /\ LocksSeen

WriteAccesses == {"write", "mut", "unlocked", "RefMut"}

-----------------------------------------------------------------------------
(* Every owner has a top, and References are what To makes.                  *)
LEMMA TopType == AccessTypeOK => top \in [Owners -> Nodes]
  BY OwnersAssumption DEF AccessTypeOK

LEMMA ToType ==
  ASSUME NEW o \in Owners, NEW n \in Nodes, NEW a \in Access
  PROVE  /\ To(o, n, a) \in References
         /\ To(o, n, a).owner = o /\ To(o, n, a).node = n /\ To(o, n, a).access = a
  BY DEF To, References

LEMMA PartType ==
  ASSUME NEW n \in Nodes, NEW p \in Parts[n]
  PROVE  p \in Nodes /\ (n \in Static => p \in Static)
  BY NodesAssumption

(* A reference is exclusive, or leads to what may be written to: then the     *)
(* owner is not traced.                                                     *)
LEMMA WrittenNotTraced ==
  ASSUME AInv, NEW r \in refs, r.access \in WriteAccesses
  PROVE  r.node \in Static \/ r.owner \notin traced
  <1>1. r.node \in Static \/ Writable(r.owner)
    BY DEF AInv, WritesCovered, WriteAccesses
  <1>2. r.owner \in Owners /\ traced \subseteq allocated \cup {Root} /\ allocated \subseteq Boxes
    BY DEF AInv, AccessTypeOK, References
  <1>3. ASSUME Writable(r.owner) PROVE r.owner \notin traced
    BY <1>2, <1>3, OwnersAssumption DEF AInv, TracedNotWritable, Writable, Owners
  <1>4. QED BY <1>1, <1>3

-----------------------------------------------------------------------------
(* A step that only makes a reference: it has to be covered like the others,  *)
(* and a guard is not made this way.                                        *)
LEMMA NewReference ==
  ASSUME AInv, InCallback, RefFrame,
         NEW new \in References, refs' \subseteq refs \cup {new},
         new.access \notin Guards,
         new.access \in WriteAccesses => new.node \in Static \/ Writable(new.owner)
  PROVE  AInv'
  <1> USE DEF RefFrame, AInv
  <1>1. AccessTypeOK' BY DEF AccessTypeOK
  <1>2. WritesCovered' BY DEF WritesCovered, WriteAccesses, Writable
  <1>3. GuardsFlagged' BY DEF GuardsFlagged, Guards
  <1>4. IdleIsClean' BY DEF IdleIsClean, InCallback
  <1>5. TracedNotWritable' /\ StaticHoldsNone' /\ LocksSeen'
    BY DEF TracedNotWritable, StaticHoldsNone, LocksSeen
  <1>6. QED BY <1>1, <1>2, <1>3, <1>4, <1>5

LEMMA ReadRootKeeps ==
  ASSUME AInv, ReadRoot PROVE AInv'
  <1>1. To(Root, top[Root], "shared") \in References /\ To(Root, top[Root], "shared").access = "shared"
    BY TopType, ToType DEF AInv, Owners, Access
  <1>2. QED BY <1>1, NewReference DEF ReadRoot, Gain, Guards, WriteAccesses

LEMMA BorrowKeeps ==
  ASSUME AInv, NEW o \in Owners, Borrow(o) PROVE AInv'
  <1>1. /\ To(o, top[o], "mut") \in References /\ To(o, top[o], "mut").access = "mut"
        /\ To(o, top[o], "mut").owner = o
    BY TopType, ToType DEF AInv, Access
  <1>2. Writable(o) BY OwnersAssumption DEF Borrow, Writable, Owners
  <1>3. QED BY <1>1, <1>2, NewReference DEF Borrow, Gain, Guards

LEMMA AsRefKeeps ==
  ASSUME AInv, NEW b \in Boxes, AsRef(b) PROVE AInv'
  <1>1. To(b, top[b], "shared") \in References /\ To(b, top[b], "shared").access = "shared"
    BY TopType, ToType DEF AInv, Owners, Access
  <1>2. QED BY <1>1, NewReference DEF AsRef, Gain, Guards, WriteAccesses

(* A reference made from r, to the same node or a part of it, that writes     *)
(* only where r does, or to what is 'static.                                *)
LEMMA DerivedKeeps ==
  ASSUME AInv, RefFrame, NEW r \in refs, NEW n \in Nodes, NEW a \in Access \ Guards,
         n = r.node \/ n \in Parts[r.node],
         a \in WriteAccesses => r.access \in WriteAccesses \/ n \in Static,
         Derive(r, To(r.owner, n, a)) \/ Gain(To(r.owner, n, a))
  PROVE  AInv'
  <1> DEFINE new == To(r.owner, n, a)
  <1>1. r \in References /\ r.owner \in Owners /\ r.node \in Nodes
    BY DEF AInv, AccessTypeOK, References
  <1>2. new \in References /\ new.owner = r.owner /\ new.node = n /\ new.access = a
    BY <1>1, ToType
  <1>3. r.node \in Static => n \in Static BY <1>1, PartType
  <1>4. a \in WriteAccesses => n \in Static \/ Writable(r.owner)
    BY <1>3 DEF AInv, WritesCovered, WriteAccesses
  <1>5. refs' \subseteq refs \cup {new} BY DEF Derive, Gain
  <1>6. InCallback BY DEF AInv, IdleIsClean, InCallback
  <1> HIDE DEF new
  <1>7. QED BY <1>2, <1>4, <1>5, <1>6, NewReference

LEMMA ProjectKeeps ==
  ASSUME AInv, NEW r \in refs, Project(r) PROVE AInv'
  <1>0. r.node \in Nodes /\ r.owner \in Owners BY DEF AInv, AccessTypeOK, References
  <1>1. CASE Weaken(r)
    BY <1>0, <1>1, DerivedKeeps DEF Weaken, Access, Guards, WriteAccesses
  <1>2. CASE FromMut(r)
    BY <1>0, <1>2, DerivedKeeps DEF FromMut, Access, Guards, WriteAccesses
  <1>3. CASE FromStatic(r)
    BY <1>0, <1>3, DerivedKeeps DEF FromStatic, Access, Guards, WriteAccesses
  <1>4. CASE Unlock(r)
    BY <1>0, <1>4, DerivedKeeps DEF Unlock, Access, Guards, WriteAccesses
  <1>5. CASE LetGo(r)
    <2> USE <1>5 DEF LetGo, RefFrame, AInv
    <2>1. AccessTypeOK' BY DEF AccessTypeOK
    <2>2. WritesCovered' BY DEF WritesCovered, Writable
    <2>3. GuardsFlagged' /\ IdleIsClean' BY DEF GuardsFlagged, IdleIsClean
    <2>4. TracedNotWritable' /\ StaticHoldsNone' /\ LocksSeen'
      BY DEF TracedNotWritable, StaticHoldsNone, LocksSeen
    <2>5. QED BY <2>1, <2>2, <2>3, <2>4
  <1>6. ASSUME NEW n \in Nodes, Part(r, n) PROVE AInv'
    <2>1. n \in Parts[r.node] /\ RefFrame BY <1>6 DEF Part
    <2>2. CASE r.access = "shared" /\ Derive(r, To(r.owner, n, "shared"))
      BY <2>1, <2>2, DerivedKeeps DEF Access, Guards, WriteAccesses
    <2>3. CASE r.access = "mut" /\ Derive(r, To(r.owner, n, "mut"))
      BY <2>1, <2>3, DerivedKeeps DEF Access, Guards, WriteAccesses
    <2>4. CASE r.access = "Ref" /\ Gain(To(r.owner, n, "shared"))
      BY <2>1, <2>4, DerivedKeeps DEF Access, Guards, WriteAccesses
    <2>5. CASE r.access = "RefMut" /\ Gain(To(r.owner, n, "mut"))
      BY <2>1, <2>5, DerivedKeeps DEF Access, Guards, WriteAccesses
    <2>6. QED BY <1>6, <2>2, <2>3, <2>4, <2>5 DEF Part
  <1>7. ASSUME NEW n \in Nodes, Field(r, n) PROVE AInv'
    BY <1>7, DerivedKeeps DEF Field, Access, Guards, WriteAccesses
  <1>8. ASSUME NEW n \in Nodes, AsWrite(r, n) PROVE AInv'
    BY <1>8, DerivedKeeps DEF AsWrite, Access, Guards, WriteAccesses
  <1>9. QED BY <1>1, <1>2, <1>3, <1>4, <1>5, <1>6, <1>7, <1>8 DEF Project

-----------------------------------------------------------------------------
(* After its barrier a box is not traced, so that anything may be done to the *)
(* pointers in it, and any reference to it made.                            *)
LEMMA BarrierKeeps ==
  ASSUME AInv, NEW b \in Boxes, Barrier(b), UNCHANGED <<top, allocated, mode>>,
         \A r \in refs' \ refs : r \in References /\ r.owner = b,
         holds' \in [Owners -> [Nodes -> SUBSET Pointers]],
         \A o \in Owners \ {b} : holds'[o] = holds[o],
         borrowed' \in [Owners -> [Nodes -> -1..MaxReaders]],
         StaticHoldsNone', GuardsFlagged'
  PROVE  AInv'
  <1> USE DEF AInv
  <1>1. b # Root BY OwnersAssumption
  <1>2. barriered' = barriered \cup {b} /\ traced' = traced \ {b}
    BY DEF Barrier, Untrace
  <1>3. /\ saw' \in [Owners -> SUBSET Pointers]
        /\ \A o \in Owners \ {b} : saw'[o] = saw[o]
    BY DEF Barrier, Untrace, AccessTypeOK, Owners
  <1>4. AccessTypeOK' BY <1>2, <1>3 DEF AccessTypeOK, Barrier
  <1>5. WritesCovered'
    <2> SUFFICES ASSUME NEW r \in refs', r.access \in WriteAccesses
                 PROVE  r.node \in Static \/ Writable(r.owner)'
      BY DEF WritesCovered, WriteAccesses
    <2>1. CASE r \in refs
      BY <1>2, <2>1 DEF WritesCovered, WriteAccesses, Writable
    <2>2. CASE r \notin refs
      BY <1>1, <1>2, <2>2 DEF Writable
    <2>3. QED BY <2>1, <2>2
  <1>6. IdleIsClean' BY DEF IdleIsClean, Barrier, InCallback
  <1>7. TracedNotWritable' BY <1>2 DEF TracedNotWritable
  <1>8. LocksSeen'
    <2>1. traced \subseteq Owners BY DEF AccessTypeOK, Owners
    <2>2. QED BY <1>2, <1>3, <2>1 DEF LocksSeen
  <1>9. QED BY <1>4, <1>5, <1>6, <1>7, <1>8

(* A store: no pointer goes into a lock of a type that is 'static.           *)
LEMMA PutInType ==
  ASSUME AInv, NEW o \in Owners, NEW n \in Nodes, NEW S \in SUBSET Pointers, PutIn(o, n, S)
  PROVE  /\ holds' \in [Owners -> [Nodes -> SUBSET Pointers]]
         /\ \A q \in Owners \ {o} : holds'[q] = holds[q]
         /\ \A m \in Nodes : holds'[o][m] = IF m = n THEN S ELSE holds[o][m]
         /\ StaticHoldsNone'
  <1>1. holds \in [Owners -> [Nodes -> SUBSET Pointers]] BY DEF AInv, AccessTypeOK
  <1>2. holds' = [holds EXCEPT ![o][n] = S] /\ (n \in Static => S = {}) BY DEF PutIn
  <1>3. /\ holds' \in [Owners -> [Nodes -> SUBSET Pointers]]
        /\ \A q \in Owners \ {o} : holds'[q] = holds[q]
        /\ \A m \in Nodes : holds'[o][m] = IF m = n THEN S ELSE holds[o][m]
    BY <1>1, <1>2
  <1>4. StaticHoldsNone'
    BY <1>2, <1>3, NodesAssumption DEF AInv, StaticHoldsNone
  <1>5. QED BY <1>3, <1>4

(* A new guard: its flag is taken from a value that no other guard goes with. *)
LEMMA TakeFlagType ==
  ASSUME AInv, NEW o \in Owners, NEW n \in Nodes, NEW step \in Int, TakeFlag(o, n, step),
         borrowed[o][n] + step \in -1..MaxReaders
  PROVE  /\ borrowed' \in [Owners -> [Nodes -> -1..MaxReaders]]
         /\ borrowed'[o][n] = borrowed[o][n] + step
         /\ \A q \in Owners, m \in Nodes : q # o \/ m # n => borrowed'[q][m] = borrowed[q][m]
  BY DEF AInv, AccessTypeOK, TakeFlag

LEMMA NewRefMutFlagged ==
  ASSUME AInv, NEW o \in Owners, NEW n \in Nodes, TakeFlag(o, n, -1), borrowed[o][n] = 0,
         refs' = refs \cup {To(o, n, "RefMut")}
  PROVE  /\ borrowed' \in [Owners -> [Nodes -> -1..MaxReaders]]
         /\ GuardsFlagged'
  <1>1. /\ borrowed' \in [Owners -> [Nodes -> -1..MaxReaders]]
        /\ borrowed'[o][n] = -1
        /\ \A q \in Owners, m \in Nodes : q # o \/ m # n => borrowed'[q][m] = borrowed[q][m]
    BY TakeFlagType, ReadersAssumption
  <1>2. To(o, n, "RefMut").owner = o /\ To(o, n, "RefMut").node = n
        /\ To(o, n, "RefMut").access = "RefMut"
    BY DEF To
  <1>3. ASSUME NEW r \in refs, r.access \in Guards
        PROVE  r.owner \in Owners /\ r.node \in Nodes /\ (r.owner # o \/ r.node # n)
    BY <1>3 DEF AInv, AccessTypeOK, References, GuardsFlagged, Guards
  <1>4. QED BY <1>1, <1>2, <1>3 DEF AInv, GuardsFlagged, Guards

LEMMA WriteKeeps ==
  ASSUME AInv, NEW b \in Boxes, Write(b) \/ GcUnlock(b) PROVE AInv'
  <1>1. /\ Barrier(b) /\ UNCHANGED <<top, allocated, holds, borrowed, mode>>
        /\ \E a \in {"write", "unlocked"} : refs' = refs \cup {To(b, top[b], a)}
    BY DEF Write, GcUnlock, Gain
  <1>2. PICK a \in {"write", "unlocked"} : refs' = refs \cup {To(b, top[b], a)}
    BY <1>1
  <1>3. /\ To(b, top[b], a) \in References /\ To(b, top[b], a).owner = b
        /\ To(b, top[b], a).access = a
    BY TopType, ToType DEF AInv, Owners, Access
  <1>4. GuardsFlagged' BY <1>1, <1>2, <1>3 DEF AInv, GuardsFlagged
  <1>5. StaticHoldsNone' BY <1>1 DEF AInv, StaticHoldsNone
  <1>6. QED BY <1>1, <1>2, <1>3, <1>4, <1>5, BarrierKeeps DEF AInv, AccessTypeOK

LEMMA GcSetKeeps ==
  ASSUME AInv, NEW b \in Boxes, NEW S \in SUBSET Pointers, GcSet(b, S) PROVE AInv'
  <1>1. /\ Barrier(b) /\ PutIn(b, top[b], S)
        /\ UNCHANGED <<top, allocated, borrowed, refs, mode>>
    BY DEF GcSet
  <1>2. b \in Owners /\ top[b] \in Nodes BY TopType DEF AInv, Owners
  <1>3. GuardsFlagged' BY <1>1 DEF AInv, GuardsFlagged
  <1>4. QED BY <1>1, <1>2, <1>3, PutInType, BarrierKeeps DEF AInv, AccessTypeOK

LEMMA GcBorrowMutKeeps ==
  ASSUME AInv, NEW b \in Boxes, GcBorrowMut(b) PROVE AInv'
  <1>1. Barrier(b) /\ UNCHANGED <<top, allocated, holds, mode>> BY DEF GcBorrowMut
  <1>2. b \in Owners /\ top[b] \in Nodes BY TopType DEF AInv, Owners
  <1>3. StaticHoldsNone' /\ holds' \in [Owners -> [Nodes -> SUBSET Pointers]]
    BY <1>1 DEF AInv, StaticHoldsNone, AccessTypeOK
  <1>4. CASE borrowed[b][top[b]] = 0
    <2>1. refs' = refs \cup {To(b, top[b], "RefMut")} /\ TakeFlag(b, top[b], -1)
      BY <1>4 DEF GcBorrowMut, Gain
    <2>2. To(b, top[b], "RefMut") \in References /\ To(b, top[b], "RefMut").owner = b
      BY <1>2, ToType DEF Access
    <2>3. QED BY <1>1, <1>2, <1>3, <1>4, <2>1, <2>2, NewRefMutFlagged, BarrierKeeps
  <1>5. CASE borrowed[b][top[b]] # 0
    <2>1. UNCHANGED <<refs, borrowed>> BY <1>5 DEF GcBorrowMut
    <2>2. GuardsFlagged' BY <2>1 DEF AInv, GuardsFlagged
    <2>3. QED BY <1>1, <1>3, <2>1, <2>2, BarrierKeeps DEF AInv, AccessTypeOK
  <1>6. QED BY <1>4, <1>5

-----------------------------------------------------------------------------
(* What is done to a lock without a barrier: if pointers are put in it, then  *)
(* where no one has traced; what stands for a new guard is covered.          *)
LEMMA LockKeeps ==
  ASSUME AInv, InCallback, LockFrame,
         holds' \in [Owners -> [Nodes -> SUBSET Pointers]], StaticHoldsNone',
         \A o \in traced, n \in Nodes : holds'[o][n] \subseteq holds[o][n],
         borrowed' \in [Owners -> [Nodes -> -1..MaxReaders]], GuardsFlagged',
         \A r \in refs' \ refs : /\ r \in References
                                 /\ r.access \in WriteAccesses =>
                                        r.node \in Static \/ Writable(r.owner)
  PROVE  AInv'
  <1> USE DEF AInv, LockFrame
  <1>1. AccessTypeOK' BY DEF AccessTypeOK
  <1>2. WritesCovered' BY DEF WritesCovered, WriteAccesses, Writable
  <1>3. IdleIsClean' BY DEF IdleIsClean, InCallback
  <1>4. TracedNotWritable' BY DEF TracedNotWritable
  <1>5. LocksSeen' BY DEF LocksSeen
  <1>6. QED BY <1>1, <1>2, <1>3, <1>4, <1>5

(* Pointers put into the lock that r is of.                                 *)
LEMMA PutKeeps ==
  ASSUME AInv, NEW r \in refs, NEW S \in SUBSET Pointers, PutIn(r.owner, r.node, S),
         S = {} \/ r.access \in WriteAccesses,
         UNCHANGED <<borrowed, refs>>, LockFrame
  PROVE  AInv'
  <1>1. r.owner \in Owners /\ r.node \in Nodes BY DEF AInv, AccessTypeOK, References
  <1>2. S = {} \/ r.owner \notin traced
    BY WrittenNotTraced DEF PutIn
  <1>3. traced \subseteq Owners BY DEF AInv, AccessTypeOK, Owners
  <1>4. \A o \in traced, n \in Nodes : holds'[o][n] \subseteq holds[o][n]
    BY <1>1, <1>2, <1>3, PutInType
  <1>5. InCallback BY DEF AInv, IdleIsClean, InCallback
  <1>6. GuardsFlagged' BY DEF AInv, GuardsFlagged
  <1>7. QED BY <1>1, <1>4, <1>5, <1>6, PutInType, LockKeeps DEF AInv, AccessTypeOK

LEMMA UseKeeps ==
  ASSUME AInv, NEW r \in refs, Use(r) PROVE AInv'
  <1>0. r \in References /\ r.owner \in Owners /\ r.node \in Nodes /\ r.access \in Access
    BY DEF AInv, AccessTypeOK, References
  <1>a. InCallback BY DEF AInv, IdleIsClean, InCallback
  <1>1. ASSUME NEW S \in SUBSET Pointers, Store(r, S) PROVE AInv'
    BY <1>1, PutKeeps DEF Store, WriteAccesses
  <1>2. CASE Take(r)
    BY <1>2, PutKeeps DEF Take
  <1>b. ASSUME UNCHANGED holds
        PROVE  /\ holds' \in [Owners -> [Nodes -> SUBSET Pointers]] /\ StaticHoldsNone'
               /\ \A o \in traced, n \in Nodes : holds'[o][n] \subseteq holds[o][n]
    BY <1>b DEF AInv, AccessTypeOK, StaticHoldsNone
  <1>3. CASE BorrowMut(r)
    <2>1. /\ r.access = "unlocked" /\ borrowed[r.owner][r.node] = 0
          /\ refs' = refs \cup {To(r.owner, r.node, "RefMut")} /\ TakeFlag(r.owner, r.node, -1)
          /\ UNCHANGED holds /\ LockFrame
      BY <1>3 DEF BorrowMut, Gain
    <2>2. /\ To(r.owner, r.node, "RefMut") \in References
          /\ To(r.owner, r.node, "RefMut").owner = r.owner
          /\ To(r.owner, r.node, "RefMut").node = r.node
      BY <1>0, ToType DEF Access
    <2>3. r.node \in Static \/ Writable(r.owner)
      BY <2>1 DEF AInv, WritesCovered
    <2>4. QED BY <1>0, <1>a, <1>b, <2>1, <2>2, <2>3, NewRefMutFlagged, LockKeeps
  <1>4. CASE BorrowShared(r)
    <2> DEFINE ref == To(r.owner, r.node, "Ref")
    <2>1. /\ borrowed[r.owner][r.node] \in 0..(MaxReaders - 1) /\ ref \notin refs
          /\ refs' = refs \cup {ref} /\ TakeFlag(r.owner, r.node, 1)
          /\ UNCHANGED holds /\ LockFrame
      BY <1>4 DEF BorrowShared, Gain
    <2>2. ref \in References /\ ref.owner = r.owner /\ ref.node = r.node /\ ref.access = "Ref"
      BY <1>0, ToType DEF Access
    <2>3. /\ borrowed' \in [Owners -> [Nodes -> -1..MaxReaders]]
          /\ borrowed'[r.owner][r.node] = borrowed[r.owner][r.node] + 1
          /\ \A q \in Owners, m \in Nodes :
                q # r.owner \/ m # r.node => borrowed'[q][m] = borrowed[q][m]
      <3>1. borrowed[r.owner][r.node] + 1 \in -1..MaxReaders
        BY <2>1, ReadersAssumption
      <3>2. QED BY <1>0, <2>1, <3>1, TakeFlagType
    <2> HIDE DEF ref
    <2>4. GuardsFlagged'
      <3> SUFFICES ASSUME NEW q \in refs', q.access \in Guards
                   PROVE  /\ q.access = "RefMut" => borrowed'[q.owner][q.node] = -1
                          /\ q.access = "Ref" => borrowed'[q.owner][q.node] >= 1
        BY DEF GuardsFlagged, Guards
      <3>1. CASE q = ref BY <2>1, <2>2, <2>3, <3>1
      <3>2. CASE q \in refs
        <4>1. q.owner \in Owners /\ q.node \in Nodes
          BY <3>2 DEF AInv, AccessTypeOK, References
        <4>2. CASE q.owner # r.owner \/ q.node # r.node
          BY <2>3, <3>2, <4>1, <4>2 DEF AInv, GuardsFlagged
        <4>3. CASE q.owner = r.owner /\ q.node = r.node
          BY <2>1, <2>3, <3>2, <4>3, ReadersAssumption DEF AInv, GuardsFlagged
        <4>4. QED BY <4>2, <4>3
      <3>3. QED BY <2>1, <3>1, <3>2
    <2>5. QED BY <1>a, <1>b, <2>1, <2>2, <2>3, <2>4, LockKeeps DEF WriteAccesses
  <1>5. CASE DropGuard(r)
    <2> DEFINE step == IF r.access = "Ref" THEN -1 ELSE 1
    <2>1. /\ r.access \in Guards /\ refs' = refs \ {r}
          /\ TakeFlag(r.owner, r.node, step) /\ UNCHANGED holds /\ LockFrame
      BY <1>5 DEF DropGuard, Release
    <2>2. borrowed[r.owner][r.node] \in -1..MaxReaders
      BY <1>0 DEF AInv, AccessTypeOK
    <2>3. /\ borrowed' \in [Owners -> [Nodes -> -1..MaxReaders]]
          /\ \A q \in Owners, m \in Nodes :
                q # r.owner \/ m # r.node => borrowed'[q][m] = borrowed[q][m]
      <3>1. step \in Int /\ borrowed[r.owner][r.node] + step \in -1..MaxReaders
        BY <2>1, <2>2, ReadersAssumption DEF AInv, GuardsFlagged, Guards
      <3> HIDE DEF step
      <3>2. QED BY <1>0, <2>1, <3>1, TakeFlagType
    <2>4. \A q \in refs \ {r} : q.access \in Guards => q.owner # r.owner \/ q.node # r.node
      <3> SUFFICES ASSUME NEW q \in refs \ {r}, q.access \in Guards,
                          q.owner = r.owner, q.node = r.node
                   PROVE  FALSE
        OBVIOUS
      <3>1. q.access = r.access
        BY <2>1 DEF AInv, GuardsFlagged, Guards
      <3>2. q \in References BY DEF AInv, AccessTypeOK
      <3>3. QED BY <1>0, <3>1, <3>2 DEF References
    <2>5. GuardsFlagged'
      <3>1. \A q \in refs : q.owner \in Owners /\ q.node \in Nodes
        BY DEF AInv, AccessTypeOK, References
      <3>2. QED BY <2>1, <2>3, <2>4, <3>1 DEF AInv, GuardsFlagged, Guards
    <2>6. QED BY <1>a, <1>b, <2>1, <2>3, <2>5, LockKeeps
  <1>6. CASE ForgetGuard(r)
    <2>1. refs' \subseteq refs /\ UNCHANGED <<holds, borrowed>> /\ LockFrame
      BY <1>6 DEF ForgetGuard
    <2>2. GuardsFlagged' BY <2>1 DEF AInv, GuardsFlagged
    <2>3. borrowed' \in [Owners -> [Nodes -> -1..MaxReaders]]
      BY <2>1 DEF AInv, AccessTypeOK
    <2>4. QED BY <1>a, <1>b, <2>1, <2>2, <2>3, LockKeeps
  <1>7. QED BY <1>1, <1>2, <1>3, <1>4, <1>5, <1>6 DEF Use

-----------------------------------------------------------------------------
LEMMA AllocateKeeps ==
  ASSUME AInv, NEW b \in Boxes, Allocate(b) PROVE AInv'
  <1> USE DEF AInv, Allocate
  <1>1. AccessTypeOK' BY DEF AccessTypeOK
  <1>2. WritesCovered' BY DEF WritesCovered, Writable
  <1>3. GuardsFlagged' /\ IdleIsClean' BY DEF GuardsFlagged, IdleIsClean, InCallback
  <1>4. TracedNotWritable' /\ StaticHoldsNone' /\ LocksSeen'
    BY DEF TracedNotWritable, StaticHoldsNone, LocksSeen
  <1>5. QED BY <1>1, <1>2, <1>3, <1>4

(* What happens between callbacks, where nothing is borrowed.                *)
LEMMA IdleKeeps ==
  ASSUME AInv, \/ \E m \in {"mutate", "mutate_root"} : Begin(m)
               \/ EndCallback
               \/ \E o \in Owners : Trace(o)
               \/ NewCycle
  PROVE  AInv'
  <1> USE DEF AInv
  <1>1. /\ refs = {} /\ refs' = {} /\ barriered' = {}
        /\ UNCHANGED <<top, allocated, holds, borrowed>>
    BY DEF Begin, EndCallback, Trace, NewCycle, IdleIsClean
  <1>2. WritesCovered' /\ GuardsFlagged' /\ IdleIsClean' /\ StaticHoldsNone'
    BY <1>1 DEF WritesCovered, GuardsFlagged, IdleIsClean, StaticHoldsNone
  <1>3. ASSUME NEW m \in {"mutate", "mutate_root"}, Begin(m)
        PROVE  AccessTypeOK' /\ TracedNotWritable' /\ LocksSeen'
    <2>1. CASE m = "mutate_root"
      <3>1. traced' = traced \ {Root} /\ saw' = [saw EXCEPT ![Root] = {}] /\ mode' = m
        BY <1>3, <2>1 DEF Begin, Untrace
      <3>2. AccessTypeOK' BY <1>1, <2>1, <3>1 DEF AccessTypeOK
      <3>3. \A o \in traced' : o \in traced /\ saw'[o] = saw[o]
        BY <3>1 DEF AccessTypeOK, Owners
      <3>4. LocksSeen' BY <1>1, <3>3 DEF LocksSeen
      <3>5. TracedNotWritable' BY <1>1, <3>1 DEF TracedNotWritable
      <3>6. QED BY <3>2, <3>4, <3>5
    <2>2. CASE m = "mutate"
      <3>1. UNCHANGED <<traced, saw>> /\ mode' = m
        BY <1>3, <2>2 DEF Begin
      <3>2. QED BY <1>1, <2>2, <3>1 DEF AccessTypeOK, LocksSeen, TracedNotWritable
    <2>3. QED BY <2>1, <2>2
  <1>4. CASE EndCallback
    <2>1. UNCHANGED <<traced, saw>> /\ mode' = "idle"
      BY <1>4 DEF EndCallback
    <2>2. AccessTypeOK' BY <1>1, <2>1 DEF AccessTypeOK
    <2>3. LocksSeen' BY <1>1, <2>1 DEF LocksSeen
    <2>4. TracedNotWritable' BY <1>1, <2>1 DEF TracedNotWritable
    <2>5. QED BY <1>2, <2>2, <2>3, <2>4
  <1>5. ASSUME NEW o \in Owners, Trace(o)
        PROVE  AccessTypeOK' /\ TracedNotWritable' /\ LocksSeen'
    <2>1. /\ mode = "idle" /\ o \in allocated \cup {Root} /\ UNCHANGED <<mode, barriered>>
          /\ traced' = traced \cup {o} /\ saw' = [saw EXCEPT ![o] = Contents(o)]
      BY <1>5 DEF Trace
    <2>2. Contents(o) \in SUBSET Pointers /\ \A n \in Nodes : holds[o][n] \subseteq Contents(o)
      BY DEF AccessTypeOK, Contents
    <2>3. AccessTypeOK' BY <1>1, <2>1, <2>2 DEF AccessTypeOK
    <2>4. LocksSeen' BY <1>1, <2>1, <2>2 DEF LocksSeen, AccessTypeOK, Owners
    <2>5. TracedNotWritable' BY <1>1, <2>1 DEF TracedNotWritable
    <2>6. QED BY <2>3, <2>4, <2>5
  <1>6. CASE NewCycle
    <2>1. traced' = {} /\ saw' = [o \in Owners |-> {}] /\ UNCHANGED mode
      BY <1>6 DEF NewCycle
    <2>2. AccessTypeOK' BY <1>1, <2>1 DEF AccessTypeOK
    <2>3. LocksSeen' BY <2>1 DEF LocksSeen
    <2>4. TracedNotWritable' BY <1>1, <2>1 DEF TracedNotWritable
    <2>5. QED BY <1>2, <2>2, <2>3, <2>4
  <1>7. QED BY <1>2, <1>3, <1>4, <1>5, <1>6

(* The inductive invariant: covered references, and the owners that they can  *)
(* store into kept apart from those the collector is done with.              *)
THEOREM AccessInvariance == AccessSpec => []AInv
  <1>1. AccessInit => AInv
    <2> SUFFICES ASSUME AccessInit PROVE AInv
      OBVIOUS
    <2> USE DEF AccessInit
    <2>1. AccessTypeOK BY ReadersAssumption DEF AccessTypeOK, Owners
    <2>2. WritesCovered /\ GuardsFlagged /\ IdleIsClean
      BY DEF WritesCovered, GuardsFlagged, IdleIsClean
    <2>3. TracedNotWritable /\ StaticHoldsNone /\ LocksSeen
      BY NodesAssumption DEF TracedNotWritable, StaticHoldsNone, LocksSeen
    <2>4. QED BY <2>1, <2>2, <2>3 DEF AInv
  <1>2. AInv /\ [AccessNext]_accessVars => AInv'
    <2> SUFFICES ASSUME AInv, [AccessNext]_accessVars PROVE AInv'
      OBVIOUS
    <2>1. CASE ReadRoot BY <2>1, ReadRootKeeps
    <2>2. ASSUME NEW o \in Owners, Borrow(o) PROVE AInv' BY <2>2, BorrowKeeps
    <2>3. ASSUME NEW b \in Boxes, AsRef(b) PROVE AInv' BY <2>3, AsRefKeeps
    <2>4. ASSUME NEW b \in Boxes, Write(b) \/ GcUnlock(b) PROVE AInv' BY <2>4, WriteKeeps
    <2>5. ASSUME NEW b \in Boxes, GcBorrowMut(b) PROVE AInv' BY <2>5, GcBorrowMutKeeps
    <2>6. ASSUME NEW b \in Boxes, Allocate(b) PROVE AInv' BY <2>6, AllocateKeeps
    <2>7. ASSUME NEW b \in Boxes, NEW S \in SUBSET Pointers, GcSet(b, S) PROVE AInv'
      BY <2>7, GcSetKeeps
    <2>8. ASSUME NEW r \in refs, Project(r) PROVE AInv' BY <2>8, ProjectKeeps
    <2>9. ASSUME NEW r \in refs, Use(r) PROVE AInv' BY <2>9, UseKeeps
    <2>10. CASE \/ \E m \in {"mutate", "mutate_root"} : Begin(m)
                \/ EndCallback
                \/ \E o \in Owners : Trace(o)
                \/ NewCycle
      BY <2>10, IdleKeeps
    <2>11. CASE UNCHANGED accessVars
      BY <2>11 DEF accessVars, AInv, AccessTypeOK, WritesCovered, Writable, GuardsFlagged,
                   IdleIsClean, TracedNotWritable, StaticHoldsNone, LocksSeen
    <2>12. QED
      BY <2>1, <2>2, <2>3, <2>4, <2>5, <2>6, <2>7, <2>8, <2>9, <2>10, <2>11 DEF AccessNext
  <1>3. QED BY <1>1, <1>2, PTL DEF AccessSpec

(* Type correctness: barriers are on boxes only, and no flag of a RefCell     *)
(* leaves its range.                                                        *)
THEOREM AccessTyped == AccessSpec => []AccessTypeOK
  <1>1. AInv => AccessTypeOK BY DEF AInv
  <1>2. QED BY <1>1, AccessInvariance, PTL

(* Whatever a write reference was made from, by any number of projections,    *)
(* unlocks and borrows of any type, its owner is behind a barrier, is the     *)
(* root in mutate_root, or is not in the heap yet.                           *)
THEOREM EveryWriteIsCovered == AccessSpec => []WritesCovered
  <1>1. AInv => WritesCovered BY DEF AInv
  <1>2. QED BY <1>1, AccessInvariance, PTL

(* Safe code cannot put a pointer where the collector has already been: every *)
(* set, borrow_mut, unlock, take or get_mut leaves what was traced valid.    *)
THEOREM StoresAreSeen == AccessSpec => []TracedIsSeen
  <1>1. AInv => TracedIsSeen BY DEF AInv, LocksSeen, TracedIsSeen, Contents
  <1>2. QED BY <1>1, AccessInvariance, PTL
===============================================================================
