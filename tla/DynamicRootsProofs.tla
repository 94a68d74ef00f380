-------------------------- MODULE DynamicRootsProofs --------------------------
(***************************************************************************)
(* Proofs about DynamicRoots, for any number of sets, handles and objects    *)
(* and any largest reference count.                                         *)
(***************************************************************************)
EXTENDS DynamicRoots, FiniteSetTheorems, SequenceTheorems, TLAPS

(* A slot is replaced in place. *)
LEMMA SlotReplaced ==
    ASSUME NEW s \in Seq(Slot), NEW i \in 1..Len(s), NEW t \in Slot
    PROVE  LET r == [s EXCEPT ![i] = t] IN
           /\ r \in Seq(Slot) /\ Len(r) = Len(s) /\ r[i] = t
           /\ \A j \in 1..Len(s) : j # i => r[j] = s[j]
  BY ExceptSeq

(* A slot is added at the end. *)
LEMMA SlotAppended ==
    ASSUME NEW s \in Seq(Slot), NEW t \in Slot
    PROVE  LET r == Append(s, t) IN
           /\ r \in Seq(Slot) /\ Len(r) = Len(s) + 1 /\ r[Len(s) + 1] = t
           /\ \A j \in 1..Len(s) : r[j] = s[j]
  OBVIOUS

LEMMA FewVacant ==
    ASSUME NEW s \in Seq(Slot)
    PROVE  IsFiniteSet(VacantIn(s)) /\ Cardinality(VacantIn(s)) \in Nat
<1>1. Len(s) \in Nat
  OBVIOUS
<1>2. IsFiniteSet(1..Len(s))
  BY <1>1, FS_Interval
<1> QED
  BY <1>2, FS_Subset, FS_CardinalityType DEF VacantIn

-----------------------------------------------------------------------------
(* What the steps do to the list of the vacant slots.                       *)

(* An occupied slot is replaced by an occupied one. *)
LEMMA ListUntouched ==
    ASSUME NEW s \in Seq(Slot), NEW f \in Nat, ListThrough(s, f),
           NEW r \in Seq(Slot), VacantIn(r) = VacantIn(s),
           \A j \in VacantIn(s) : r[j] = s[j]
    PROVE  ListThrough(r, f)
  BY DEF ListThrough, Ordered

(* The head of the list is taken. *)
LEMMA HeadTaken ==
    ASSUME NEW s \in Seq(Slot), NEW f \in Nat, ListThrough(s, f), f # NULL_INDEX,
           NEW t \in Slot, IsOccupied(t)
    PROVE  /\ f \in 1..Len(s) /\ ~IsOccupied(s[f])
           /\ ListThrough([s EXCEPT ![f] = t], s[f].nextFree)
<1> DEFINE V == VacantIn(s)
           r == [s EXCEPT ![f] = t]
           W == VacantIn(r)
           n == s[f].nextFree
<1>1. PICK rank \in [V -> 1..Cardinality(V)] : Ordered(s, f, rank)
  BY DEF ListThrough
<1>2. f \in V /\ rank[f] = Cardinality(V)
  BY <1>1 DEF Ordered
<1>3. f \in 1..Len(s) /\ ~IsOccupied(s[f])
  BY <1>2 DEF VacantIn
<1>4. r \in Seq(Slot) /\ Len(r) = Len(s) /\ r[f] = t
      /\ \A j \in 1..Len(s) : j # f => r[j] = s[j]
  BY <1>3, SlotReplaced
<1>5. W = V \ {f}
  BY <1>3, <1>4 DEF VacantIn
<1>6. /\ Cardinality(V) \in Nat
      /\ Cardinality(W) = Cardinality(V) - 1
  BY <1>2, <1>5, FewVacant, FS_RemoveElement
<1>7. \A i \in W : rank[i] \in 1..Cardinality(W)
  <2> SUFFICES ASSUME NEW i \in W PROVE rank[i] \in 1..Cardinality(W)
    OBVIOUS
  <2>1. i \in V /\ i # f
    BY <1>5
  <2>2. rank[i] # rank[f]
    BY <1>1, <1>2, <2>1 DEF Ordered
  <2> QED
    BY <1>2, <1>6, <2>1, <2>2
<1> DEFINE lower == [i \in W |-> rank[i]]
<1>8. lower \in [W -> 1..Cardinality(W)]
  BY <1>7
<1>9. \A i, j \in W : lower[i] = lower[j] => i = j
  BY <1>1, <1>5 DEF Ordered
<1>10. ASSUME NEW i \in W
       PROVE  IF r[i].nextFree = NULL_INDEX THEN lower[i] = 1
              ELSE r[i].nextFree \in W /\ lower[i] = lower[r[i].nextFree] + 1
  <2>1. i \in V /\ i # f /\ r[i] = s[i]
    BY <1>4, <1>5 DEF VacantIn
  <2>2. IF s[i].nextFree = NULL_INDEX THEN rank[i] = 1
        ELSE s[i].nextFree \in V /\ rank[i] = rank[s[i].nextFree] + 1
    BY <1>1, <2>1 DEF Ordered
  <2>3. s[i].nextFree # f
    <3> SUFFICES ASSUME s[i].nextFree = f PROVE FALSE
      OBVIOUS
    <3>1. rank[i] = rank[f] + 1
      BY <2>2
    <3>2. rank[i] \in 1..(Cardinality(V) - 1)
      BY <1>6, <1>7
    <3> QED
      BY <1>2, <1>6, <3>1, <3>2
  <2> QED
    BY <1>5, <2>1, <2>2, <2>3
<1>11. IF n = NULL_INDEX THEN W = {} ELSE n \in W /\ lower[n] = Cardinality(W)
  <2>1. IF n = NULL_INDEX THEN rank[f] = 1 ELSE n \in V /\ rank[f] = rank[n] + 1
    BY <1>1, <1>2 DEF Ordered
  <2>2. CASE n = NULL_INDEX
    <3>1. Cardinality(W) = 0
      BY <1>2, <1>6, <2>1, <2>2
    <3>2. W = {}
      <4> SUFFICES ASSUME NEW i \in W PROVE FALSE
        OBVIOUS
      <4>1. rank[i] \in 1..0
        BY <1>7, <3>1
      <4> QED
        BY <4>1
    <3> QED
      BY <2>2, <3>2
  <2>3. CASE n # NULL_INDEX
    <3>1. n \in V /\ rank[f] = rank[n] + 1 /\ rank[n] \in Nat
      BY <2>1, <2>3
    <3>2. n \in W
      <4>1. n # f
        BY <3>1
      <4> QED
        BY <1>5, <3>1, <4>1
    <3>3. lower[n] = Cardinality(W)
      BY <1>2, <1>6, <3>1, <3>2
    <3> QED
      BY <2>3, <3>2, <3>3
  <2> QED
    BY <2>2, <2>3
<1>12. Ordered(r, n, lower)
  BY <1>9, <1>10, <1>11 DEF Ordered
<1>13. ListThrough(r, n)
  BY <1>8, <1>12 DEF ListThrough
<1> QED
  BY <1>3, <1>13

(* A slot is made the head of the list. *)
LEMMA HeadGiven ==
    ASSUME NEW s \in Seq(Slot), NEW f \in Nat, ListThrough(s, f),
           NEW i \in 1..Len(s), IsOccupied(s[i])
    PROVE  ListThrough([s EXCEPT ![i] = Vacant(f)], i)
<1> DEFINE V == VacantIn(s)
           r == [s EXCEPT ![i] = Vacant(f)]
           W == VacantIn(r)
<1>1. PICK rank \in [V -> 1..Cardinality(V)] : Ordered(s, f, rank)
  BY DEF ListThrough
<1>2. Vacant(f) \in Slot /\ ~IsOccupied(Vacant(f)) /\ Vacant(f).nextFree = f
  BY MaxCountAssumption DEF Vacant, Slot, IsOccupied
<1>3. r \in Seq(Slot) /\ Len(r) = Len(s) /\ r[i] = Vacant(f)
      /\ \A j \in 1..Len(s) : j # i => r[j] = s[j]
  BY <1>2, SlotReplaced
<1>4. i \notin V
  BY DEF VacantIn
<1>5. W = V \cup {i}
  BY <1>2, <1>3 DEF VacantIn
<1>6. Cardinality(V) \in Nat /\ Cardinality(W) = Cardinality(V) + 1
  BY <1>4, <1>5, FewVacant, FS_AddElement
<1> DEFINE higher == [j \in W |-> IF j = i THEN Cardinality(W) ELSE rank[j]]
<1>7. /\ i \in W /\ higher[i] = Cardinality(W)
      /\ \A j \in V : j \in W /\ j # i /\ higher[j] = rank[j] /\ rank[j] \in 1..Cardinality(V)
  BY <1>4, <1>5
<1>8. higher \in [W -> 1..Cardinality(W)]
  <2> SUFFICES ASSUME NEW j \in W PROVE higher[j] \in 1..Cardinality(W)
    OBVIOUS
  <2>1. CASE j = i
    BY <1>6, <1>7, <2>1
  <2>2. CASE j # i
    <3>1. j \in V
      BY <1>5, <2>2
    <3>2. higher[j] = rank[j] /\ rank[j] \in 1..Cardinality(V)
      BY <1>7, <3>1
    <3> QED
      BY <1>6, <3>2
  <2> QED
    BY <2>1, <2>2
<1>9. \A j, k \in W : higher[j] = higher[k] => j = k
  <2> SUFFICES ASSUME NEW j \in W, NEW k \in W, higher[j] = higher[k] PROVE j = k
    OBVIOUS
  <2>1. CASE j \in V /\ k \in V
    BY <1>1, <1>7, <2>1 DEF Ordered
  <2>2. CASE j \in V /\ k = i
    BY <1>6, <1>7, <2>2
  <2>3. CASE j = i /\ k \in V
    BY <1>6, <1>7, <2>3
  <2> QED
    BY <1>5, <2>1, <2>2, <2>3
<1>10. ASSUME NEW j \in W
       PROVE  IF r[j].nextFree = NULL_INDEX THEN higher[j] = 1
              ELSE r[j].nextFree \in W /\ higher[j] = higher[r[j].nextFree] + 1
  <2>1. CASE j = i
    <3>1. IF f = NULL_INDEX THEN V = {} ELSE f \in V /\ rank[f] = Cardinality(V)
      BY <1>1 DEF Ordered
    <3>2. r[j].nextFree = f
      BY <1>2, <1>3, <2>1
    <3>3. CASE f = NULL_INDEX
      <4>1. Cardinality(V) = 0
        BY <3>1, <3>3, FS_EmptySet
      <4> QED
        BY <1>6, <1>7, <2>1, <3>2, <3>3, <4>1
    <3>4. CASE f # NULL_INDEX
      BY <1>6, <1>7, <2>1, <3>1, <3>2, <3>4
    <3> QED
      BY <3>3, <3>4
  <2>2. CASE j # i
    <3>1. j \in V /\ r[j] = s[j]
      BY <1>3, <1>5, <2>2 DEF VacantIn
    <3>2. IF s[j].nextFree = NULL_INDEX THEN rank[j] = 1
          ELSE s[j].nextFree \in V /\ rank[j] = rank[s[j].nextFree] + 1
      BY <1>1, <3>1 DEF Ordered
    <3> QED
      BY <1>7, <3>1, <3>2
  <2> QED
    BY <2>1, <2>2
<1>11. i # NULL_INDEX
  BY DEF NULL_INDEX
<1>12. Ordered(r, i, higher)
  BY <1>7, <1>9, <1>10, <1>11 DEF Ordered
<1> QED
  BY <1>8, <1>12 DEF ListThrough

-----------------------------------------------------------------------------
(* The inductive invariant: the reference count of a slot is one less than   *)
(* the handles that hold its index, so that the handle that finds 0 is the   *)
(* last one; every vacant slot is on the free list once, so that no slot     *)
(* handed out is in use; and what a dropped set leaves has no slots.         *)
CountsExact ==
    \A a \in alive : \A i \in 1..Len(slots[a]) :
        IsOccupied(slots[a][i]) => Cardinality(HandlesOf(a, i)) = slots[a][i].refCount + 1

DroppedEmpty == \A a \in Sets \ alive : slots[a] = << >>

RootsInv == HandlesKeepRoots /\ CountsExact /\ DroppedEmpty /\ FreeListExact

LEMMA FewHandles ==
    \A a, i : IsFiniteSet(HandlesOf(a, i)) /\ Cardinality(HandlesOf(a, i)) \in Nat
<1> SUFFICES ASSUME NEW a, NEW i
             PROVE  IsFiniteSet(HandlesOf(a, i)) /\ Cardinality(HandlesOf(a, i)) \in Nat
  OBVIOUS
<1>1. HandlesOf(a, i) \in SUBSET Handles
  BY DEF HandlesOf
<1> QED
  BY <1>1, HandlesAssumption, FS_Subset, FS_CardinalityType

(* What a live set and a handle to it are. *)
LEMMA SetShape ==
    ASSUME RootsInv, NEW a \in alive
    PROVE  /\ a \in Sets /\ slots[a] \in Seq(Slot) /\ nextFree[a] \in Nat
           /\ Len(slots[a]) \in Nat
           /\ \A i \in 1..Len(slots[a]) : slots[a][i] \in Slot
           /\ ListThrough(slots[a], nextFree[a])
  BY DEF RootsInv, HandlesKeepRoots, RootsTypeOK, FreeListExact

LEMMA HandleShape ==
    ASSUME RootsInv, NEW h \in Handles, Exists(h)
    PROVE  /\ handle[h] \in HandleRecords
           /\ handle[h].set \in Sets /\ handle[h].index \in Nat \ {0} /\ handle[h].ptr \in Roots
           /\ handle[h] = [set |-> handle[h].set, index |-> handle[h].index, ptr |-> handle[h].ptr]
           /\ handle[h].set \in alive =>
                 /\ handle[h].index \in 1..Len(slots[handle[h].set])
                 /\ slots[handle[h].set][handle[h].index].root = handle[h].ptr
                 /\ IsOccupied(slots[handle[h].set][handle[h].index])
<1>1. handle[h] \in HandleRecords
  BY DEF RootsInv, HandlesKeepRoots, RootsTypeOK, Exists
<1>2. handle[h].ptr \in Roots
  BY <1>1 DEF HandleRecords
<1>3. handle[h].ptr # None
  BY <1>2, NoneAssumption
<1> QED
  BY <1>1, <1>3 DEF HandleRecords, NULL_INDEX, RootsInv, HandlesKeepRoots, Indices, IsOccupied

(* stash: the slot that add hands out was vacant or is new. *)
LEMMA Added ==
    ASSUME RootsInv, NEW a \in alive, NEW o \in Roots
    PROVE  LET s == slots[a]
               r == Add(a, o).slots
               i == Add(a, o).index
           IN
           /\ r \in Seq(Slot) /\ Add(a, o).nextFree \in Nat /\ Len(r) \in Nat
           /\ i \in 1..Len(r) /\ r[i] = Occupied(o, 0)
           /\ \A j \in 1..Len(s) : j \in 1..Len(r) /\ (j # i => r[j] = s[j])
           /\ \A j \in 1..Len(r) : j # i => j \in 1..Len(s)
           /\ i \in 1..Len(s) => ~IsOccupied(s[i])
           /\ ListThrough(r, Add(a, o).nextFree)
           /\ Len(r) > Len(s) => VacantIn(s) = {}
<1> DEFINE s == slots[a]
           f == nextFree[a]
           t == Occupied(o, 0)
<1>0. s \in Seq(Slot) /\ f \in Nat /\ Len(s) \in Nat /\ ListThrough(s, f)
  BY SetShape
<1>1. t \in Slot /\ IsOccupied(t)
  BY MaxCountAssumption, NoneAssumption DEF Occupied, Slot, IsOccupied, NULL_INDEX
<1>2. CASE f # NULL_INDEX
  <2> DEFINE r == [s EXCEPT ![f] = t]
  <2>1. f \in 1..Len(s) /\ ~IsOccupied(s[f]) /\ ListThrough(r, s[f].nextFree)
    BY <1>0, <1>1, <1>2, HeadTaken
  <2>2. /\ r \in Seq(Slot) /\ Len(r) = Len(s) /\ r[f] = t
        /\ \A j \in 1..Len(s) : j # f => r[j] = s[j]
    BY <1>0, <1>1, <2>1, SlotReplaced
  <2>3. s[f].nextFree \in Nat
    <3>1. s[f] \in Slot
      BY <1>0, <2>1
    <3> QED
      BY <3>1 DEF Slot
  <2>4. Add(a, o) = [index |-> f, slots |-> r, nextFree |-> s[f].nextFree]
    BY <1>2 DEF Add
  <2>5. Add(a, o).index = f /\ Add(a, o).slots = r /\ Add(a, o).nextFree = s[f].nextFree
    BY <2>4
  <2> HIDE DEF r, s, f, t
  <2> QED
    BY <1>0, <2>1, <2>2, <2>3, <2>5 DEF s, t
<1>3. CASE f = NULL_INDEX
  <2> DEFINE r == Append(s, t)
             n == Len(s) + 1
  <2>1. /\ r \in Seq(Slot) /\ Len(r) = n /\ r[n] = t
        /\ \A j \in 1..Len(s) : r[j] = s[j]
    BY <1>0, <1>1, SlotAppended
  <2>2. VacantIn(s) = {}
    BY <1>0, <1>3 DEF ListThrough, Ordered
  <2>3. VacantIn(r) = VacantIn(s)
    BY <1>0, <1>1, <2>1 DEF VacantIn
  <2>4. ListThrough(r, f)
    BY <1>0, <2>1, <2>2, <2>3, ListUntouched
  <2>5. Add(a, o) = [index |-> n, slots |-> r, nextFree |-> f]
    BY <1>3 DEF Add, AppendSlot
  <2>6. Add(a, o).index = n /\ Add(a, o).slots = r /\ Add(a, o).nextFree = f
    BY <2>5
  <2> HIDE DEF r, s, f, t
  <2> QED
    BY <1>0, <2>1, <2>2, <2>4, <2>6 DEF s, t
<1> QED
  BY <1>2, <1>3

LEMMA Recounted ==
    ASSUME NEW slot \in Slot, NEW n \in 0..MaxCount, IsOccupied(slot)
    PROVE  LET t == [slot EXCEPT !.refCount = n] IN
           t \in Slot /\ t.root = slot.root /\ t.refCount = n /\ IsOccupied(t)
<1>1. slot.root \in Roots \cup {None} /\ slot.nextFree \in Nat
      /\ slot = [root |-> slot.root, refCount |-> slot.refCount, nextFree |-> slot.nextFree]
  BY DEF Slot
<1>2. [slot EXCEPT !.refCount = n] = [root |-> slot.root, refCount |-> n, nextFree |-> slot.nextFree]
  BY <1>1
<1> QED
  BY <1>1, <1>2 DEF Slot, IsOccupied

(* clone: one slot is counted once more. *)
LEMMA Incremented ==
    ASSUME RootsInv, NEW a \in alive, NEW i \in 1..Len(slots[a]), Inc(a, i)
    PROVE  LET s == slots[a]
               r == slots'[a]
           IN
           /\ slots' = [slots EXCEPT ![a] = r]
           /\ r \in Seq(Slot) /\ Len(r) = Len(s)
           /\ r[i].root = s[i].root /\ r[i].refCount = s[i].refCount + 1
           /\ \A j \in 1..Len(s) : j # i => r[j] = s[j]
           /\ ListThrough(r, nextFree[a])
<1> DEFINE s == slots[a]
           t == [s[i] EXCEPT !.refCount = @ + 1]
           r == [s EXCEPT ![i] = t]
<1>0. /\ s \in Seq(Slot) /\ Len(s) \in Nat /\ s[i] \in Slot
      /\ nextFree[a] \in Nat /\ ListThrough(s, nextFree[a])
      /\ slots \in [Sets -> Seq(Slot)] /\ a \in Sets
  BY SetShape DEF RootsInv, HandlesKeepRoots, RootsTypeOK
<1>1. slots' = [slots EXCEPT ![a] = r]
  BY <1>0 DEF Inc
<1>2. slots'[a] = r
  BY <1>0, <1>1
<1>3. IsOccupied(s[i]) /\ s[i].refCount < MaxCount
  BY DEF Inc
<1>4. /\ t \in Slot /\ t.root = s[i].root /\ t.refCount = s[i].refCount + 1
      /\ IsOccupied(t)
  <2>1. s[i].refCount \in 0..MaxCount
    BY <1>0 DEF Slot
  <2>2. s[i].refCount + 1 \in 0..MaxCount
    BY <1>3, <2>1, MaxCountAssumption
  <2> QED
    BY <1>0, <1>3, <2>2, Recounted
<1>5. /\ r \in Seq(Slot) /\ Len(r) = Len(s) /\ r[i] = t
      /\ \A j \in 1..Len(s) : j # i => r[j] = s[j]
  BY <1>0, <1>4, SlotReplaced
<1>6. VacantIn(r) = VacantIn(s) /\ i \notin VacantIn(s)
  BY <1>3, <1>4, <1>5 DEF VacantIn
<1>7. ListThrough(r, nextFree[a])
  <2>1. \A j \in VacantIn(s) : r[j] = s[j]
    BY <1>5, <1>6 DEF VacantIn
  <2> QED
    BY <1>0, <1>5, <1>6, <2>1, ListUntouched
<1> QED
  BY <1>1, <1>2, <1>4, <1>5, <1>7

(* The drop of a handle: one slot is counted once less, or vacated where no  *)
(* count is left.                                                           *)
LEMMA Decremented ==
    ASSUME RootsInv, NEW a \in alive, NEW i \in 1..Len(slots[a]), IsOccupied(slots[a][i]),
           Dec(a, i)
    PROVE  LET s == slots[a]
               r == slots'[a]
           IN
           /\ slots' = [slots EXCEPT ![a] = r]
           /\ nextFree' \in [Sets -> Nat]
           /\ \A b \in Sets \ {a} : nextFree'[b] = nextFree[b]
           /\ r \in Seq(Slot) /\ Len(r) = Len(s)
           /\ IF s[i].refCount = 0 THEN ~IsOccupied(r[i])
              ELSE r[i].root = s[i].root /\ r[i].refCount = s[i].refCount - 1
           /\ \A j \in 1..Len(s) : j # i => r[j] = s[j]
           /\ ListThrough(r, nextFree'[a])
<1> DEFINE s == slots[a]
           f == nextFree[a]
<1>0. /\ s \in Seq(Slot) /\ Len(s) \in Nat /\ s[i] \in Slot
      /\ f \in Nat /\ ListThrough(s, f) /\ nextFree \in [Sets -> Nat]
      /\ slots \in [Sets -> Seq(Slot)] /\ a \in Sets
  BY SetShape DEF RootsInv, HandlesKeepRoots, RootsTypeOK
<1>1. CASE s[i].refCount = 0
  <2> DEFINE r == [s EXCEPT ![i] = Vacant(f)]
  <2>1. slots' = [slots EXCEPT ![a] = r] /\ nextFree' = [nextFree EXCEPT ![a] = i]
    BY <1>0, <1>1 DEF Dec
  <2>2. slots'[a] = r /\ nextFree'[a] = i
    BY <1>0, <2>1
  <2>3. Vacant(f) \in Slot /\ ~IsOccupied(Vacant(f))
    BY <1>0, MaxCountAssumption DEF Vacant, Slot, IsOccupied
  <2>4. /\ r \in Seq(Slot) /\ Len(r) = Len(s) /\ r[i] = Vacant(f)
        /\ \A j \in 1..Len(s) : j # i => r[j] = s[j]
    BY <1>0, <2>3, SlotReplaced
  <2>5. ListThrough(r, i)
    BY <1>0, HeadGiven
  <2>6. nextFree' \in [Sets -> Nat] /\ \A b \in Sets \ {a} : nextFree'[b] = nextFree[b]
    BY <1>0, <2>1
  <2> QED
    BY <1>1, <2>1, <2>2, <2>3, <2>4, <2>5, <2>6, ZenonT(60)
<1>2. CASE s[i].refCount # 0
  <2> DEFINE t == [s[i] EXCEPT !.refCount = @ - 1]
             r == [s EXCEPT ![i] = t]
  <2>1. slots' = [slots EXCEPT ![a] = r] /\ nextFree' = nextFree
    BY <1>0, <1>2 DEF Dec
  <2>2. slots'[a] = r
    BY <1>0, <2>1
  <2>3. /\ t \in Slot /\ t.root = s[i].root /\ t.refCount = s[i].refCount - 1
        /\ IsOccupied(t)
    <3>1. s[i].refCount \in 0..MaxCount
      BY <1>0 DEF Slot
    <3>2. s[i].refCount - 1 \in 0..MaxCount
      BY <1>2, <3>1, MaxCountAssumption
    <3> QED
      BY <1>0, <3>2, Recounted
  <2>4. /\ r \in Seq(Slot) /\ Len(r) = Len(s) /\ r[i] = t
        /\ \A j \in 1..Len(s) : j # i => r[j] = s[j]
    BY <1>0, <2>3, SlotReplaced
  <2>5. VacantIn(r) = VacantIn(s) /\ i \notin VacantIn(s)
    BY <2>3, <2>4 DEF VacantIn
  <2>6. ListThrough(r, f)
    <3>1. \A j \in VacantIn(s) : r[j] = s[j]
      BY <2>4, <2>5 DEF VacantIn
    <3> QED
      BY <1>0, <2>4, <2>5, <3>1, ListUntouched
  <2> QED
    BY <1>0, <1>2, <2>1, <2>2, <2>3, <2>4, <2>6
<1> QED
  BY <1>1, <1>2

-----------------------------------------------------------------------------
(* What the steps do to the handles that hold an index.                     *)
LEMMA HandleMade ==
    ASSUME RootsInv, NEW h \in Handles, ~Exists(h), NEW r \in HandleRecords,
           handle' = [handle EXCEPT ![h] = r]
    PROVE  /\ handle' \in [Handles -> HandleRecords \cup {None}]
           /\ handle'[h] = r /\ \A k \in Handles \ {h} : handle'[k] = handle[k]
           /\ Cardinality(HandlesOf(r.set, r.index)') = Cardinality(HandlesOf(r.set, r.index)) + 1
           /\ \A b, i : b # r.set \/ i # r.index => HandlesOf(b, i)' = HandlesOf(b, i)
<1>1. handle \in [Handles -> HandleRecords \cup {None}]
  BY DEF RootsInv, HandlesKeepRoots, RootsTypeOK
<1>2. /\ handle' \in [Handles -> HandleRecords \cup {None}]
      /\ handle'[h] = r /\ \A k \in Handles \ {h} : handle'[k] = handle[k]
  BY <1>1
<1>3. r # None
  BY NoneAssumption
<1>4. HandlesOf(r.set, r.index)' = HandlesOf(r.set, r.index) \cup {h}
  BY <1>2, <1>3 DEF HandlesOf, Exists
<1>5. h \notin HandlesOf(r.set, r.index)
  BY DEF HandlesOf
<1>6. \A b, i : b # r.set \/ i # r.index => HandlesOf(b, i)' = HandlesOf(b, i)
  BY <1>2, <1>3 DEF HandlesOf, Exists
<1> QED
  BY <1>2, <1>4, <1>5, <1>6, FewHandles, FS_AddElement

LEMMA HandleGone ==
    ASSUME RootsInv, NEW a, NEW i, NEW h \in HandlesOf(a, i),
           handle' = [handle EXCEPT ![h] = None]
    PROVE  /\ handle' \in [Handles -> HandleRecords \cup {None}]
           /\ handle'[h] = None /\ \A k \in Handles \ {h} : handle'[k] = handle[k]
           /\ HandlesOf(a, i)' = HandlesOf(a, i) \ {h}
           /\ Cardinality(HandlesOf(a, i)') = Cardinality(HandlesOf(a, i)) - 1
           /\ \A b, j : b # a \/ j # i => HandlesOf(b, j)' = HandlesOf(b, j)
<1>1. handle \in [Handles -> HandleRecords \cup {None}]
  BY DEF RootsInv, HandlesKeepRoots, RootsTypeOK
<1>2. /\ handle' \in [Handles -> HandleRecords \cup {None}]
      /\ handle'[h] = None /\ \A k \in Handles \ {h} : handle'[k] = handle[k]
  BY <1>1 DEF HandlesOf
<1>3. h \in HandlesOf(a, i)
  OBVIOUS
<1>4. HandlesOf(a, i)' = HandlesOf(a, i) \ {h}
  BY <1>2 DEF HandlesOf, Exists
<1>5. \A b, j : b # a \/ j # i => HandlesOf(b, j)' = HandlesOf(b, j)
  BY <1>2 DEF HandlesOf, Exists
<1> QED
  BY <1>2, <1>3, <1>4, <1>5, FewHandles, FS_RemoveElement

LEMMA EmptyList == VacantIn(<< >>) = {} /\ ListThrough(<< >>, NULL_INDEX)
<1>1. VacantIn(<< >>) = {}
  BY DEF VacantIn
<1>2. [x \in {} |-> 1] \in [{} -> 1..Cardinality({})]
  OBVIOUS
<1> QED
  BY <1>1, <1>2 DEF ListThrough, Ordered

(* new, and the drop of a set: its slots are empty, and no handle moves. *)
LEMMA SetMadeOrDropped ==
    ASSUME RootsInv, NEW a \in Sets, New(a) \/ DropSet(a)
    PROVE  RootsInv'
<1>0. RootsTypeOK
  BY DEF RootsInv, HandlesKeepRoots
<1>1. /\ alive' \in SUBSET Sets /\ alive' \subseteq alive \cup {a}
      /\ slots' = [slots EXCEPT ![a] = << >>]
      /\ nextFree' = [nextFree EXCEPT ![a] = NULL_INDEX]
      /\ handle' = handle
      /\ \A b \in Sets \ {a} : b \in alive' <=> b \in alive
  BY <1>0 DEF RootsTypeOK, New, DropSet
<1>2. /\ slots'[a] = << >> /\ nextFree'[a] = NULL_INDEX
      /\ \A b \in Sets \ {a} : slots'[b] = slots[b] /\ nextFree'[b] = nextFree[b]
  BY <1>0, <1>1 DEF RootsTypeOK
<1>3. \A h \in Handles : Exists(h) /\ handle[h].set = a => a \notin alive'
  BY DEF New, DropSet, Unused
<1>4. RootsTypeOK'
  BY <1>0, <1>1 DEF RootsTypeOK, NULL_INDEX
<1>5. HandlesKeepRoots'
  <2> SUFFICES ASSUME NEW h \in Handles, Exists(h), handle[h].set \in alive'
               PROVE  /\ handle[h].index \in 1..Len(slots'[handle[h].set])
                      /\ slots'[handle[h].set][handle[h].index].root = handle[h].ptr
    BY <1>1, <1>4 DEF HandlesKeepRoots, Exists, Indices
  <2>1. handle[h].set \in Sets \ {a} /\ handle[h].set \in alive
    BY <1>1, <1>3, HandleShape
  <2> QED
    BY <1>2, <2>1, HandleShape
<1>6. CountsExact'
  <2> SUFFICES ASSUME NEW b \in alive', NEW i \in 1..Len(slots'[b]), IsOccupied(slots'[b][i])
               PROVE  Cardinality(HandlesOf(b, i)') = slots'[b][i].refCount + 1
    BY DEF CountsExact, IsOccupied
  <2>1. b \in Sets /\ b # a
    BY <1>1, <1>2
  <2>2. b \in alive /\ slots'[b] = slots[b]
    BY <1>1, <1>2, <2>1
  <2>3. HandlesOf(b, i)' = HandlesOf(b, i)
    BY <1>1 DEF HandlesOf, Exists
  <2> QED
    BY <2>2, <2>3 DEF RootsInv, CountsExact
<1>7. DroppedEmpty'
  BY <1>1, <1>2 DEF RootsInv, DroppedEmpty
<1>8. FreeListExact'
  <2> SUFFICES ASSUME NEW b \in alive' PROVE ListThrough(slots'[b], nextFree'[b])
    BY DEF FreeListExact, ListThrough, Ordered, VacantIn, IsOccupied
  <2>1. CASE b = a
    BY <1>2, <2>1, EmptyList
  <2>2. CASE b # a
    <3>1. b \in alive /\ b \in Sets \ {a}
      BY <1>1, <2>2
    <3> QED
      BY <1>2, <3>1, SetShape
  <2> QED
    BY <2>1, <2>2
<1> QED
  BY <1>5, <1>6, <1>7, <1>8 DEF RootsInv

LEMMA Stashed ==
    ASSUME RootsInv, NEW a \in Sets, NEW h \in Handles, NEW o \in Roots, Stash(a, h, o)
    PROVE  RootsInv'
<1> DEFINE s == slots[a]
           i == Add(a, o).index
<1>0. a \in alive /\ ~Exists(h) /\ RootsTypeOK
  BY DEF Stash, RootsInv, HandlesKeepRoots
<1>1. PICK r : r = Add(a, o).slots
  OBVIOUS
<1>2. PICK x : x = [set |-> a, index |-> i, ptr |-> o]
  OBVIOUS
<1>3. /\ slots' = [slots EXCEPT ![a] = r] /\ nextFree' = [nextFree EXCEPT ![a] = Add(a, o).nextFree]
      /\ handle' = [handle EXCEPT ![h] = x] /\ alive' = alive
  BY <1>1, <1>2 DEF Stash
<1>4. /\ r \in Seq(Slot) /\ Add(a, o).nextFree \in Nat /\ Len(r) \in Nat
      /\ i \in 1..Len(r) /\ r[i] = Occupied(o, 0)
      /\ \A j \in 1..Len(s) : j \in 1..Len(r) /\ (j # i => r[j] = s[j])
      /\ \A j \in 1..Len(r) : j # i => j \in 1..Len(s)
      /\ i \in 1..Len(s) => ~IsOccupied(s[i])
      /\ ListThrough(r, Add(a, o).nextFree)
  BY <1>0, <1>1, Added
<1>5. x \in HandleRecords /\ x.set = a /\ x.index = i /\ x.ptr = o
  BY <1>2, <1>4 DEF HandleRecords, NULL_INDEX
<1>6. /\ handle' \in [Handles -> HandleRecords \cup {None}]
      /\ handle'[h] = x /\ \A k \in Handles \ {h} : handle'[k] = handle[k]
      /\ Cardinality(HandlesOf(a, x.index)') = Cardinality(HandlesOf(a, x.index)) + 1
      /\ \A b, j : b # a \/ j # x.index => HandlesOf(b, j)' = HandlesOf(b, j)
  <2>1. /\ handle' \in [Handles -> HandleRecords \cup {None}]
        /\ handle'[h] = x /\ \A k \in Handles \ {h} : handle'[k] = handle[k]
        /\ Cardinality(HandlesOf(x.set, x.index)') = Cardinality(HandlesOf(x.set, x.index)) + 1
        /\ \A b, j : b # x.set \/ j # x.index => HandlesOf(b, j)' = HandlesOf(b, j)
    BY <1>0, <1>3, <1>5, HandleMade
  <2>2. HandlesOf(x.set, x.index)' = HandlesOf(a, x.index)'
    BY <1>5 DEF HandlesOf
  <2>3. HandlesOf(x.set, x.index) = HandlesOf(a, x.index)
    BY <1>5 DEF HandlesOf
  <2> QED
    BY <1>5, <2>1, <2>2, <2>3
<1>7. /\ slots'[a] = r /\ nextFree'[a] = Add(a, o).nextFree
      /\ \A b \in Sets \ {a} : slots'[b] = slots[b] /\ nextFree'[b] = nextFree[b]
  BY <1>0, <1>3 DEF RootsTypeOK
<1>8. RootsTypeOK'
  BY <1>0, <1>3, <1>4, <1>6 DEF RootsTypeOK
<1> HIDE DEF i
<1>9. HandlesKeepRoots'
  <2> SUFFICES ASSUME NEW k \in Handles, handle'[k] # None, handle'[k].set \in alive
               PROVE  /\ handle'[k].index \in 1..Len(slots'[handle'[k].set])
                      /\ slots'[handle'[k].set][handle'[k].index].root = handle'[k].ptr
    BY <1>3, <1>8 DEF HandlesKeepRoots, Exists, Indices
  <2>1. CASE k = h
    BY <1>4, <1>5, <1>6, <1>7, <2>1 DEF Occupied
  <2>2. CASE k # h
    <3>1. Exists(k) /\ handle'[k] = handle[k]
      BY <1>6, <2>2 DEF Exists
    <3>2. /\ handle[k].set \in alive /\ handle[k].set \in Sets
          /\ handle[k].index \in 1..Len(slots[handle[k].set])
          /\ slots[handle[k].set][handle[k].index].root = handle[k].ptr
          /\ IsOccupied(slots[handle[k].set][handle[k].index])
      BY <3>1, HandleShape
    <3>3. CASE handle[k].set = a
      <4>1. handle[k].index # i
        BY <1>4, <3>2, <3>3
      <4> QED
        BY <1>4, <1>7, <3>1, <3>2, <3>3, <4>1
    <3>4. CASE handle[k].set # a
      BY <1>7, <3>1, <3>2, <3>4
    <3> QED
      BY <3>3, <3>4
  <2> QED
    BY <2>1, <2>2
<1>10. CountsExact'
  <2> SUFFICES ASSUME NEW b \in alive, NEW j \in 1..Len(slots'[b]), IsOccupied(slots'[b][j])
               PROVE  Cardinality(HandlesOf(b, j)') = slots'[b][j].refCount + 1
    BY <1>3 DEF CountsExact, IsOccupied
  <2>0. b \in Sets
    BY <1>0 DEF RootsTypeOK
  <2>1. CASE b = a /\ j = i
    <3>1. HandlesOf(a, i) = {}
      <4> SUFFICES ASSUME NEW k \in HandlesOf(a, i) PROVE FALSE
        OBVIOUS
      <4>1. k \in Handles /\ Exists(k) /\ handle[k].set = a /\ handle[k].index = i
        BY DEF HandlesOf
      <4>2. i \in 1..Len(s) /\ IsOccupied(s[i])
        BY <1>0, <4>1, HandleShape
      <4> QED
        BY <1>4, <4>2
    <3>2. Cardinality(HandlesOf(a, x.index)) = 0
      BY <1>5, <3>1, FS_EmptySet
    <3>3. slots'[b][j].refCount = 0
      BY <1>4, <1>7, <2>1 DEF Occupied
    <3>4. Cardinality(HandlesOf(a, x.index)') = 1
      BY <1>6, <3>2
    <3>5. b = a /\ j = x.index
      BY <1>5, <2>1
    <3> QED
      BY <3>3, <3>4, <3>5
  <2>2. CASE b # a \/ j # i
    <3>1. HandlesOf(b, j)' = HandlesOf(b, j)
      BY <1>5, <1>6, <2>2
    <3>2. j \in 1..Len(slots[b]) /\ slots'[b][j] = slots[b][j]
      BY <1>4, <1>7, <2>0, <2>2
    <3> QED
      BY <3>1, <3>2 DEF RootsInv, CountsExact
  <2> QED
    BY <2>1, <2>2
<1>11. DroppedEmpty'
  BY <1>0, <1>3, <1>7 DEF RootsInv, DroppedEmpty
<1>12. FreeListExact'
  <2> SUFFICES ASSUME NEW b \in alive PROVE ListThrough(slots'[b], nextFree'[b])
    BY <1>3 DEF FreeListExact, ListThrough, Ordered, VacantIn, IsOccupied
  <2>1. b \in Sets
    BY <1>0 DEF RootsTypeOK
  <2> QED
    BY <1>4, <1>7, <2>1, SetShape
<1> QED
  BY <1>9, <1>10, <1>11, <1>12 DEF RootsInv

LEMMA Cloned ==
    ASSUME RootsInv, NEW h \in Handles, NEW k \in Handles, Clone(h, k)
    PROVE  RootsInv'
<1>0. Exists(h) /\ ~Exists(k) /\ RootsTypeOK
  BY DEF Clone, RootsInv, HandlesKeepRoots
<1>1. PICK x : x = handle[h]
  OBVIOUS
<1>2. /\ handle' = [handle EXCEPT ![k] = x] /\ alive' = alive /\ nextFree' = nextFree
      /\ IF x.set \in alive THEN Inc(x.set, x.index) ELSE slots' = slots
  BY <1>1 DEF Clone
<1>3. /\ x \in HandleRecords /\ x.set \in Sets
      /\ x.set \in alive => /\ x.index \in 1..Len(slots[x.set])
                            /\ slots[x.set][x.index].root = x.ptr
                            /\ IsOccupied(slots[x.set][x.index])
  BY <1>0, <1>1, HandleShape
<1>4. /\ handle' \in [Handles -> HandleRecords \cup {None}]
      /\ handle'[k] = x /\ \A m \in Handles \ {k} : handle'[m] = handle[m]
      /\ Cardinality(HandlesOf(x.set, x.index)') = Cardinality(HandlesOf(x.set, x.index)) + 1
      /\ \A b, j : b # x.set \/ j # x.index => HandlesOf(b, j)' = HandlesOf(b, j)
  BY <1>0, <1>2, <1>3, HandleMade, ZenonT(60)
<1>5. x.set \in alive =>
        LET s == slots[x.set]
            r == slots'[x.set]
        IN  /\ slots' = [slots EXCEPT ![x.set] = r]
            /\ r \in Seq(Slot) /\ Len(r) = Len(s)
            /\ r[x.index].root = s[x.index].root
            /\ r[x.index].refCount = s[x.index].refCount + 1
            /\ \A j \in 1..Len(s) : j # x.index => r[j] = s[j]
            /\ ListThrough(r, nextFree[x.set])
  BY <1>2, <1>3, Incremented
<1>6. \A b \in Sets : b # x.set \/ b \notin alive => slots'[b] = slots[b]
  BY <1>0, <1>2, <1>5 DEF RootsTypeOK
<1>7. RootsTypeOK'
  <2>1. slots' \in [Sets -> Seq(Slot)]
    BY <1>0, <1>2, <1>5 DEF RootsTypeOK
  <2> QED
    BY <1>0, <1>2, <1>4, <2>1 DEF RootsTypeOK
<1>8. \A b \in alive : /\ b \in Sets /\ Len(slots'[b]) = Len(slots[b])
                       /\ \A j \in 1..Len(slots[b]) : slots'[b][j].root = slots[b][j].root
                       /\ \A j \in 1..Len(slots[b]) :
                              b # x.set \/ j # x.index => slots'[b][j] = slots[b][j]
  BY <1>0, <1>5, <1>6 DEF RootsTypeOK
<1>9. HandlesKeepRoots'
  <2> SUFFICES ASSUME NEW m \in Handles, handle'[m] # None, handle'[m].set \in alive
               PROVE  /\ handle'[m].index \in 1..Len(slots'[handle'[m].set])
                      /\ slots'[handle'[m].set][handle'[m].index].root = handle'[m].ptr
    BY <1>2, <1>7 DEF HandlesKeepRoots, Exists, Indices
  <2>1. CASE m = k
    BY <1>3, <1>4, <1>8, <2>1
  <2>2. CASE m # k
    <3>1. Exists(m) /\ handle'[m] = handle[m]
      BY <1>4, <2>2 DEF Exists
    <3>2. /\ handle[m].set \in alive
          /\ handle[m].index \in 1..Len(slots[handle[m].set])
          /\ slots[handle[m].set][handle[m].index].root = handle[m].ptr
      BY <3>1, HandleShape
    <3> QED
      BY <1>8, <3>1, <3>2
  <2> QED
    BY <2>1, <2>2
<1>10. CountsExact'
  <2> SUFFICES ASSUME NEW b \in alive, NEW j \in 1..Len(slots'[b]), slots'[b][j].root # None
               PROVE  Cardinality(HandlesOf(b, j)') = slots'[b][j].refCount + 1
    BY <1>2 DEF CountsExact, IsOccupied
  <2>1. j \in 1..Len(slots[b]) /\ IsOccupied(slots[b][j])
    BY <1>8 DEF IsOccupied
  <2>2. Cardinality(HandlesOf(b, j)) = slots[b][j].refCount + 1 /\ slots[b][j].refCount \in Nat
    BY <2>1, MaxCountAssumption, SetShape DEF RootsInv, CountsExact, Slot
  <2>3. CASE b = x.set /\ j = x.index
    BY <1>4, <1>5, <2>2, <2>3
  <2>4. CASE b # x.set \/ j # x.index
    BY <1>4, <1>8, <2>1, <2>2, <2>4
  <2> QED
    BY <2>3, <2>4
<1>11. DroppedEmpty'
  BY <1>2, <1>6 DEF RootsInv, DroppedEmpty
<1>12. FreeListExact'
  <2> SUFFICES ASSUME NEW b \in alive PROVE ListThrough(slots'[b], nextFree[b])
    BY <1>2 DEF FreeListExact, ListThrough, Ordered, VacantIn, IsOccupied
  <2>1. b \in Sets
    BY <1>0 DEF RootsTypeOK
  <2> QED
    BY <1>5, <1>6, <2>1, SetShape
<1> QED
  BY <1>9, <1>10, <1>11, <1>12 DEF RootsInv

(* What the drop of a handle does to the slots, whether its set lives or not. *)
LEMMA DropEffect ==
    ASSUME RootsInv, NEW h \in Handles, DropHandle(h), NEW a, NEW i,
           handle[h].set = a, handle[h].index = i
    PROVE  /\ Exists(h) /\ a \in Sets /\ alive' = alive
           /\ handle' = [handle EXCEPT ![h] = None]
           /\ slots' \in [Sets -> Seq(Slot)] /\ nextFree' \in [Sets -> Nat]
           /\ \A b \in Sets : b # a \/ b \notin alive =>
                 slots'[b] = slots[b] /\ nextFree'[b] = nextFree[b]
           /\ \A b \in alive : /\ b \in Sets /\ Len(slots'[b]) = Len(slots[b])
                               /\ ListThrough(slots'[b], nextFree'[b])
                               /\ \A j \in 1..Len(slots[b]) :
                                     b # a \/ j # i => slots'[b][j] = slots[b][j]
           /\ a \in alive =>
                 /\ i \in 1..Len(slots[a]) /\ slots[a][i].root = handle[h].ptr
                 /\ IsOccupied(slots[a][i])
                 /\ Cardinality(HandlesOf(a, i)) = slots[a][i].refCount + 1
                 /\ IF slots[a][i].refCount = 0 THEN ~IsOccupied(slots'[a][i])
                    ELSE /\ slots'[a][i].root = slots[a][i].root
                         /\ slots'[a][i].refCount = slots[a][i].refCount - 1
<1>0. /\ Exists(h) /\ RootsTypeOK /\ alive' = alive /\ a \in Sets
      /\ handle' = [handle EXCEPT ![h] = None]
  BY HandleShape DEF DropHandle, RootsInv, HandlesKeepRoots
<1>1. CASE a \notin alive
  <2>1. slots' = slots /\ nextFree' = nextFree
    BY <1>1 DEF DropHandle
  <2>2. \A b \in alive : b \in Sets
    BY <1>0 DEF RootsTypeOK
  <2> QED
    BY <1>0, <1>1, <2>1, <2>2, SetShape DEF RootsTypeOK
<1>2. CASE a \in alive
  <2>1. /\ i \in 1..Len(slots[a]) /\ slots[a][i].root = handle[h].ptr /\ IsOccupied(slots[a][i])
    BY <1>0, <1>2, HandleShape
  <2>2. Dec(a, i)
    BY <1>2 DEF DropHandle, Dec
  <2>3. PICK r : r = slots'[a]
    OBVIOUS
  <2>4. /\ slots' = [slots EXCEPT ![a] = r]
        /\ nextFree' \in [Sets -> Nat]
        /\ \A b \in Sets \ {a} : nextFree'[b] = nextFree[b]
        /\ r \in Seq(Slot) /\ Len(r) = Len(slots[a])
        /\ IF slots[a][i].refCount = 0 THEN ~IsOccupied(r[i])
           ELSE r[i].root = slots[a][i].root /\ r[i].refCount = slots[a][i].refCount - 1
        /\ \A j \in 1..Len(slots[a]) : j # i => r[j] = slots[a][j]
        /\ ListThrough(r, nextFree'[a])
    BY <1>2, <2>1, <2>2, <2>3, Decremented
  <2>5. Cardinality(HandlesOf(a, i)) = slots[a][i].refCount + 1
    BY <1>2, <2>1 DEF RootsInv, CountsExact
  <2>6. slots' \in [Sets -> Seq(Slot)] /\ \A b \in Sets \ {a} : slots'[b] = slots[b]
    BY <1>0, <2>4 DEF RootsTypeOK
  <2>7. \A b \in alive : b \in Sets
    BY <1>0 DEF RootsTypeOK
  <2>8. ASSUME NEW b \in alive
        PROVE  /\ Len(slots'[b]) = Len(slots[b]) /\ ListThrough(slots'[b], nextFree'[b])
               /\ \A j \in 1..Len(slots[b]) : b # a \/ j # i => slots'[b][j] = slots[b][j]
    <3>1. CASE b = a
      BY <2>3, <2>4, <3>1
    <3>2. CASE b # a
      BY <2>4, <2>6, <2>7, <3>2, SetShape
    <3> QED
      BY <3>1, <3>2
  <2> QED
    BY <1>0, <1>2, <2>1, <2>3, <2>4, <2>5, <2>6, <2>7, <2>8
<1> QED
  BY <1>1, <1>2

LEMMA Dropped ==
    ASSUME RootsInv, NEW h \in Handles, DropHandle(h)
    PROVE  RootsInv'
<1>0. PICK a, i : handle[h].set = a /\ handle[h].index = i
  OBVIOUS
<1>1. RootsTypeOK
  BY DEF RootsInv, HandlesKeepRoots
<1>2. /\ Exists(h) /\ a \in Sets /\ alive' = alive
      /\ handle' = [handle EXCEPT ![h] = None]
      /\ slots' \in [Sets -> Seq(Slot)] /\ nextFree' \in [Sets -> Nat]
      /\ \A b \in Sets : b \notin alive => slots'[b] = slots[b]
      /\ \A b \in alive : /\ b \in Sets /\ Len(slots'[b]) = Len(slots[b])
                          /\ ListThrough(slots'[b], nextFree'[b])
                          /\ \A j \in 1..Len(slots[b]) :
                                b # a \/ j # i => slots'[b][j] = slots[b][j]
  BY <1>0, DropEffect
<1>3. a \in alive =>
        /\ i \in 1..Len(slots[a]) /\ IsOccupied(slots[a][i])
        /\ Cardinality(HandlesOf(a, i)) = slots[a][i].refCount + 1
        /\ IF slots[a][i].refCount = 0 THEN ~IsOccupied(slots'[a][i])
           ELSE /\ slots'[a][i].root = slots[a][i].root
                /\ slots'[a][i].refCount = slots[a][i].refCount - 1
  BY <1>0, DropEffect
<1>4. /\ handle' \in [Handles -> HandleRecords \cup {None}]
      /\ handle'[h] = None /\ \A k \in Handles \ {h} : handle'[k] = handle[k]
      /\ HandlesOf(a, i)' = HandlesOf(a, i) \ {h}
      /\ h \in HandlesOf(a, i)
      /\ Cardinality(HandlesOf(a, i)') = Cardinality(HandlesOf(a, i)) - 1
      /\ \A b, j : b # a \/ j # i => HandlesOf(b, j)' = HandlesOf(b, j)
  <2>1. h \in HandlesOf(a, i)
    BY <1>0, <1>2 DEF HandlesOf
  <2>2. handle' = [handle EXCEPT ![h] = None]
    BY <1>2
  <2>3. /\ handle' \in [Handles -> HandleRecords \cup {None}]
        /\ handle'[h] = None /\ \A k \in Handles \ {h} : handle'[k] = handle[k]
    BY <2>1, <2>2, HandleGone
  <2>4. HandlesOf(a, i)' = HandlesOf(a, i) \ {h}
    BY <2>1, <2>2, HandleGone
  <2>5. Cardinality(HandlesOf(a, i)') = Cardinality(HandlesOf(a, i)) - 1
    BY <2>1, <2>2, HandleGone
  <2>6. \A b, j : b # a \/ j # i => HandlesOf(b, j)' = HandlesOf(b, j)
    BY <1>0, <2>3 DEF HandlesOf, Exists
  <2> QED
    BY <2>1, <2>3, <2>4, <2>5, <2>6
<1>5. RootsTypeOK'
  BY <1>1, <1>2, <1>4 DEF RootsTypeOK
<1>6. HandlesKeepRoots'
  <2> SUFFICES ASSUME NEW k \in Handles, handle'[k] # None, handle'[k].set \in alive
               PROVE  /\ handle'[k].index \in 1..Len(slots'[handle'[k].set])
                      /\ slots'[handle'[k].set][handle'[k].index].root = handle'[k].ptr
    BY <1>2, <1>5 DEF HandlesKeepRoots, Exists, Indices
  <2>1. k # h /\ Exists(k) /\ handle'[k] = handle[k]
    BY <1>4 DEF Exists
  <2>2. /\ handle[k].set \in alive
        /\ handle[k].index \in 1..Len(slots[handle[k].set])
        /\ slots[handle[k].set][handle[k].index].root = handle[k].ptr
    BY <2>1, HandleShape
  <2>3. CASE handle[k].set = a /\ handle[k].index = i
    <3>1. k \in HandlesOf(a, i)
      BY <2>1, <2>3 DEF HandlesOf
    <3>2. Cardinality(HandlesOf(a, i)) # 1
      BY <1>4, <2>1, <3>1, FewHandles, FS_Singleton
    <3>3. slots'[a][i].root = slots[a][i].root
      BY <1>3, <2>2, <2>3, <3>2
    <3> QED
      BY <1>2, <2>1, <2>2, <2>3, <3>3
  <2>4. CASE handle[k].set # a \/ handle[k].index # i
    BY <1>2, <2>1, <2>2, <2>4
  <2> QED
    BY <2>3, <2>4
<1>7. CountsExact'
  <2> SUFFICES ASSUME NEW b \in alive, NEW j \in 1..Len(slots'[b]), IsOccupied(slots'[b][j])
               PROVE  Cardinality(HandlesOf(b, j)') = slots'[b][j].refCount + 1
    BY <1>2 DEF CountsExact, IsOccupied
  <2>1. j \in 1..Len(slots[b])
    BY <1>2
  <2>2. CASE b = a /\ j = i
    <3>1. slots[a][i].refCount \in Nat
      BY <2>1, <2>2, MaxCountAssumption, SetShape DEF Slot
    <3>2. HandlesOf(b, j)' = HandlesOf(a, i)'
      BY <2>2 DEF HandlesOf
    <3>3. a \in alive /\ IsOccupied(slots'[a][i])
      BY <2>2
    <3>4. /\ Cardinality(HandlesOf(a, i)) = slots[a][i].refCount + 1
          /\ slots'[a][i].refCount = slots[a][i].refCount - 1
      BY <1>3, <3>3
    <3>5. Cardinality(HandlesOf(a, i)') = slots'[a][i].refCount + 1
      BY <1>4, <3>1, <3>4
    <3>6. slots'[b][j].refCount = slots'[a][i].refCount
      BY <2>2
    <3> QED
      BY <3>2, <3>5, <3>6
  <2>3. CASE b # a \/ j # i
    <3>1. slots'[b][j] = slots[b][j]
      BY <1>2, <2>1, <2>3
    <3>2. HandlesOf(b, j)' = HandlesOf(b, j)
      BY <1>4, <2>3
    <3> QED
      BY <2>1, <3>1, <3>2 DEF RootsInv, CountsExact
  <2> QED
    BY <2>2, <2>3
<1>8. DroppedEmpty'
  BY <1>2 DEF RootsInv, DroppedEmpty
<1>9. FreeListExact'
  BY <1>2 DEF FreeListExact, ListThrough, Ordered, VacantIn, IsOccupied
<1> QED
  BY <1>6, <1>7, <1>8, <1>9 DEF RootsInv

-----------------------------------------------------------------------------
LEMMA RootsInitially == RootsInit => RootsInv
<1> SUFFICES ASSUME RootsInit PROVE RootsInv
  OBVIOUS
<1>1. RootsTypeOK
  BY DEF RootsInit, RootsTypeOK, NULL_INDEX
<1> QED
  BY <1>1 DEF RootsInit, RootsInv, HandlesKeepRoots, Exists, CountsExact, DroppedEmpty, FreeListExact

LEMMA RootsStep == RootsInv /\ [RootsNext]_rootVars => RootsInv'
<1> SUFFICES ASSUME RootsInv, [RootsNext]_rootVars PROVE RootsInv'
  OBVIOUS
<1>1. ASSUME NEW a \in Sets, New(a) \/ DropSet(a) PROVE RootsInv'
  BY <1>1, SetMadeOrDropped
<1>2. ASSUME NEW a \in Sets, NEW h \in Handles, NEW o \in Roots, Stash(a, h, o) PROVE RootsInv'
  BY <1>2, Stashed
<1>3. ASSUME NEW h \in Handles, NEW k \in Handles, Clone(h, k) PROVE RootsInv'
  BY <1>3, Cloned
<1>4. ASSUME NEW h \in Handles, DropHandle(h) PROVE RootsInv'
  BY <1>4, Dropped
<1>5. CASE UNCHANGED rootVars
  <2>0. alive' = alive /\ slots' = slots /\ nextFree' = nextFree /\ handle' = handle
    BY <1>5 DEF rootVars
  <2>1. HandlesKeepRoots'
    BY <2>0 DEF RootsInv, HandlesKeepRoots, RootsTypeOK, Exists, Indices
  <2>2. \A a, i : HandlesOf(a, i)' = HandlesOf(a, i)
    BY <2>0 DEF HandlesOf, Exists
  <2>3. CountsExact'
    BY <2>0, <2>2 DEF RootsInv, CountsExact, IsOccupied
  <2>4. DroppedEmpty'
    BY <2>0 DEF RootsInv, DroppedEmpty
  <2>5. FreeListExact'
    <3> SUFFICES ASSUME NEW a \in alive PROVE ListThrough(slots'[a], nextFree'[a])
      BY <2>0 DEF FreeListExact, ListThrough, Ordered, VacantIn, IsOccupied
    <3> QED
      BY <2>0, SetShape
  <2> QED
    BY <2>1, <2>3, <2>4, <2>5 DEF RootsInv
<1> QED
  BY <1>1, <1>2, <1>3, <1>4, <1>5 DEF RootsNext

LEMMA RootsInvariant == RootsSpec => []RootsInv
  BY RootsInitially, RootsStep, PTL DEF RootsSpec

(* Every handle to a live set finds its slot occupied by its own object, in   *)
(* whatever order handles are cloned and dropped and slots and addresses      *)
(* reused: inc and dec do not panic, and fetch gives out a rooted object.    *)
THEOREM HandlesTheorem == RootsSpec => []HandlesKeepRoots
<1>1. RootsInv => HandlesKeepRoots
  BY DEF RootsInv
<1> QED
  BY <1>1, RootsInvariant, PTL

(* next_free starts a list through every vacant slot, and no other, once.    *)
THEOREM FreeListTheorem == RootsSpec => []FreeListExact
<1>1. RootsInv => FreeListExact
  BY DEF RootsInv
<1> QED
  BY <1>1, RootsInvariant, PTL

(* The vector of slots grows only when every slot is in use.                 *)
THEOREM SlotsReusedTheorem == RootsSpec => SlotsReused
<1>1. ASSUME RootsInv, [RootsNext]_rootVars
      PROVE  [\A a \in Sets : Len(slots[a]') > Len(slots[a]) => VacantIn(slots[a]) = {}]_rootVars
  <2> SUFFICES ASSUME RootsNext, NEW b \in Sets, Len(slots'[b]) > Len(slots[b])
               PROVE  VacantIn(slots[b]) = {}
    BY <1>1
  <2>0. RootsTypeOK /\ Len(slots[b]) \in Nat
    BY <1>1 DEF RootsInv, HandlesKeepRoots, RootsTypeOK
  <2>1. ASSUME NEW a \in Sets, New(a) \/ DropSet(a) PROVE FALSE
    <3>1. slots' = [slots EXCEPT ![a] = << >>]
      BY <2>1 DEF New, DropSet
    <3> QED
      BY <2>0, <3>1 DEF RootsTypeOK
  <2>2. ASSUME NEW a \in Sets, NEW h \in Handles, NEW o \in Roots, Stash(a, h, o)
        PROVE  VacantIn(slots[b]) = {}
    <3>1. a \in alive /\ slots' = [slots EXCEPT ![a] = Add(a, o).slots]
      BY <2>2 DEF Stash
    <3>2. b = a /\ Len(Add(a, o).slots) > Len(slots[a])
      BY <2>0, <3>1 DEF RootsTypeOK
    <3> QED
      BY <1>1, <3>1, <3>2, Added
  <2>3. ASSUME NEW h \in Handles, NEW k \in Handles, Clone(h, k) PROVE FALSE
    <3>1. Exists(h) /\ IF handle[h].set \in alive THEN Inc(handle[h].set, handle[h].index)
                       ELSE slots' = slots
      BY <2>3 DEF Clone
    <3>2. PICK a, i : a = handle[h].set /\ i = handle[h].index
      OBVIOUS
    <3>3. a \in alive /\ Inc(a, i)
      BY <2>0, <3>1, <3>2 DEF Inc
    <3>4. i \in 1..Len(slots[a])
      BY <1>1, <3>1, <3>2, <3>3, HandleShape
    <3>5. slots' = [slots EXCEPT ![a] = slots'[a]] /\ Len(slots'[a]) = Len(slots[a])
      BY <1>1, <3>3, <3>4, Incremented
    <3> QED
      BY <2>0, <3>5 DEF RootsTypeOK
  <2>4. ASSUME NEW h \in Handles, DropHandle(h) PROVE FALSE
    <3>1. PICK a, i : handle[h].set = a /\ handle[h].index = i
      OBVIOUS
    <3>2. Len(slots'[b]) = Len(slots[b])
      BY <1>1, <2>4, <3>1, DropEffect
    <3> QED
      BY <2>0, <3>2
  <2> QED
    BY <2>1, <2>2, <2>3, <2>4 DEF RootsNext
<1> QED
  BY <1>1, RootsInvariant, PTL DEF RootsSpec, SlotsReused

-----------------------------------------------------------------------------
(* The refinement: what the handles stand for, and what the slots root.      *)
Pointers ==
    [h \in Handles |->
        IF Exists(h) THEN [set |-> handle[h].set, ptr |-> handle[h].ptr] ELSE None]

Rooted == [a \in Sets |-> RootsIn(slots[a])]

LEMMA InRoots ==
    ASSUME NEW s, NEW o
    PROVE  o \in RootsIn(s) <=> o # None /\ \E j \in 1..Len(s) : s[j].root = o
  BY DEF RootsIn

(* The slots of a set root what its handles stand for. *)
LEMMA RootsMeant ==
    RootsInv => \A a \in alive :
        RootsIn(slots[a]) =
            {handle[h].ptr : h \in {k \in Handles : Exists(k) /\ handle[k].set = a}}
<1> SUFFICES ASSUME RootsInv, NEW a \in alive
             PROVE  \A o : o \in RootsIn(slots[a]) <=>
                        \E k \in Handles : Exists(k) /\ handle[k].set = a /\ handle[k].ptr = o
  OBVIOUS
<1> TAKE o
<1>1. ASSUME NEW k \in Handles, Exists(k), handle[k].set = a, handle[k].ptr = o
      PROVE  o \in RootsIn(slots[a])
  <2>1. /\ o \in Roots /\ handle[k].index \in 1..Len(slots[a])
        /\ slots[a][handle[k].index].root = o
    BY <1>1, HandleShape
  <2> QED
    BY <2>1, NoneAssumption, InRoots
<1>2. ASSUME o \in RootsIn(slots[a])
      PROVE  \E k \in Handles : Exists(k) /\ handle[k].set = a /\ handle[k].ptr = o
  <2>1. PICK j \in 1..Len(slots[a]) : slots[a][j].root = o /\ o # None
    BY <1>2, InRoots
  <2>2. /\ Cardinality(HandlesOf(a, j)) = slots[a][j].refCount + 1
        /\ slots[a][j].refCount \in Nat
    BY <2>1, MaxCountAssumption, SetShape DEF RootsInv, CountsExact, IsOccupied, Slot
  <2>3. Cardinality(HandlesOf(a, j)) # 0
    BY <2>2
  <2>4. PICK k \in HandlesOf(a, j) : TRUE
    BY <2>3, FS_EmptySet
  <2>5. k \in Handles /\ Exists(k) /\ handle[k].set = a /\ handle[k].index = j
    BY <2>4 DEF HandlesOf
  <2>6. handle[k].ptr = o
    BY <2>1, <2>5, HandleShape
  <2> QED
    BY <2>5, <2>6
<1> QED
  BY <1>1, <1>2

LEMMA PointerMade ==
    ASSUME RootsInv, NEW h \in Handles, NEW x \in HandleRecords,
           handle' = [handle EXCEPT ![h] = x]
    PROVE  Pointers' = [Pointers EXCEPT ![h] = [set |-> x.set, ptr |-> x.ptr]]
<1>1. x # None /\ handle \in [Handles -> HandleRecords \cup {None}]
  BY NoneAssumption DEF RootsInv, HandlesKeepRoots, RootsTypeOK
<1>2. handle'[h] = x /\ \A k \in Handles \ {h} : handle'[k] = handle[k]
  BY <1>1
<1> QED
  BY <1>1, <1>2 DEF Pointers, Exists

LEMMA SetMadeOrDroppedMaps ==
    ASSUME RootsInv, NEW a \in Sets
    PROVE  /\ New(a) => Registry!Create(a)
           /\ DropSet(a) => Registry!Collect(a)
<1>0. RootsTypeOK
  BY DEF RootsInv, HandlesKeepRoots
<1>1. RootsIn(<< >>) = {}
  BY DEF RootsIn
<1>2. ASSUME handle' = handle PROVE Pointers' = Pointers
  BY <1>2 DEF Pointers, Exists
<1>3. ASSUME slots' = [slots EXCEPT ![a] = << >>]
      PROVE  Rooted' = [Rooted EXCEPT ![a] = {}]
  BY <1>0, <1>1, <1>3 DEF RootsTypeOK, Rooted
<1>4. ASSUME New(a) PROVE Registry!Create(a)
  <2>1. Rooted[a] = {}
    <3>1. slots[a] = << >>
      BY <1>4 DEF New, Unused, RootsInv, DroppedEmpty
    <3> QED
      BY <1>1, <3>1 DEF Rooted
  <2>2. Rooted' = Rooted
    <3>1. Rooted' = [Rooted EXCEPT ![a] = {}]
      BY <1>3, <1>4 DEF New
    <3> QED
      BY <2>1, <3>1 DEF Rooted
  <2>3. Pointers' = Pointers
    BY <1>2, <1>4 DEF New
  <2>4. a \notin alive /\ alive' = alive \cup {a}
    BY <1>4 DEF New, Unused
  <2>5. \A h \in Handles, o \in Roots : ~Registry!Stands(h, a, o)
    <3> SUFFICES ASSUME NEW h \in Handles, NEW o \in Roots, Exists(h),
                        [set |-> handle[h].set, ptr |-> handle[h].ptr] = [set |-> a, ptr |-> o]
                 PROVE  FALSE
      BY DEF Registry!Stands
    <3>1. handle[h].set = a
      OBVIOUS
    <3> QED
      BY <1>4, <3>1 DEF New, Unused
  <2> QED
    BY <2>2, <2>3, <2>4, <2>5 DEF Registry!Create, Pointers, Rooted
<1>5. ASSUME DropSet(a) PROVE Registry!Collect(a)
  <2>1. Pointers' = Pointers /\ Rooted' = [Rooted EXCEPT ![a] = {}]
    BY <1>2, <1>3, <1>5 DEF DropSet
  <2> QED
    BY <1>5, <2>1 DEF DropSet, Registry!Collect, Pointers, Rooted
<1> QED
  BY <1>4, <1>5

LEMMA StashMaps ==
    ASSUME RootsInv, NEW a \in Sets, NEW h \in Handles, NEW o \in Roots, Stash(a, h, o)
    PROVE  Registry!Register(a, h, o)
<1> DEFINE s == slots[a]
           i == Add(a, o).index
<1>0. a \in alive /\ ~Exists(h) /\ RootsTypeOK /\ Len(s) \in Nat
  BY DEF Stash, RootsInv, HandlesKeepRoots, RootsTypeOK
<1>1. PICK r : r = Add(a, o).slots
  OBVIOUS
<1>2. PICK x : x = [set |-> a, index |-> i, ptr |-> o]
  OBVIOUS
<1>3. /\ slots' = [slots EXCEPT ![a] = r]
      /\ handle' = [handle EXCEPT ![h] = x] /\ alive' = alive
  BY <1>1, <1>2 DEF Stash
<1>4. /\ i \in 1..Len(r) /\ r[i] = Occupied(o, 0)
      /\ \A j \in 1..Len(s) : j \in 1..Len(r) /\ (j # i => r[j] = s[j])
      /\ \A j \in 1..Len(r) : j # i => j \in 1..Len(s)
      /\ i \in 1..Len(s) => ~IsOccupied(s[i])
  BY <1>0, <1>1, Added
<1>5. i \in Nat \ {0}
  <2>1. Len(r) \in Nat
    BY <1>0, <1>1, Added
  <2> QED
    BY <1>4, <2>1
<1>6. x \in HandleRecords /\ [set |-> x.set, ptr |-> x.ptr] = [set |-> a, ptr |-> o]
  BY <1>2, <1>5 DEF HandleRecords, NULL_INDEX
<1>7. Pointers' = [Pointers EXCEPT ![h] = [set |-> a, ptr |-> o]]
  BY <1>3, <1>6, PointerMade
<1> HIDE DEF i
<1>8. RootsIn(r) = RootsIn(s) \cup {o}
  <2>1. o # None /\ r[i].root = o
    BY <1>4, NoneAssumption DEF Occupied
  <2>2. ASSUME NEW p, p \in RootsIn(r) PROVE p \in RootsIn(s) \cup {o}
    BY <1>4, <2>1, <2>2, InRoots
  <2>3. ASSUME NEW p, p \in RootsIn(s) PROVE p \in RootsIn(r)
    <3>1. PICK j \in 1..Len(s) : s[j].root = p /\ p # None
      BY <2>3, InRoots
    <3>2. j # i
      BY <1>4, <3>1 DEF IsOccupied
    <3>3. j \in 1..Len(r) /\ r[j].root = p
      BY <1>4, <3>1, <3>2
    <3> QED
      BY <3>1, <3>3, InRoots
  <2>4. o \in RootsIn(r)
    BY <1>4, <2>1, InRoots
  <2> QED
    BY <2>2, <2>3, <2>4
<1>9. Rooted' = [Rooted EXCEPT ![a] = @ \cup {o}]
  BY <1>0, <1>3, <1>8 DEF RootsTypeOK, Rooted
<1>10. Pointers[h] = None
  BY <1>0 DEF Pointers
<1> QED
  BY <1>0, <1>3, <1>7, <1>9, <1>10 DEF Registry!Register, Pointers, Rooted

LEMMA CloneMaps ==
    ASSUME RootsInv, NEW h \in Handles, NEW k \in Handles, Clone(h, k)
    PROVE  Registry!Copy(h, k)
<1>0. Exists(h) /\ ~Exists(k) /\ RootsTypeOK
  BY DEF Clone, RootsInv, HandlesKeepRoots
<1>1. PICK x : x = handle[h]
  OBVIOUS
<1>2. /\ handle' = [handle EXCEPT ![k] = x] /\ alive' = alive
      /\ IF x.set \in alive THEN Inc(x.set, x.index) ELSE slots' = slots
  BY <1>1 DEF Clone
<1>3. /\ x \in HandleRecords /\ x.set \in Sets
      /\ x.set \in alive => x.index \in 1..Len(slots[x.set])
  BY <1>0, <1>1, HandleShape
<1>4. Pointers' = [Pointers EXCEPT ![k] = [set |-> x.set, ptr |-> x.ptr]]
  BY <1>2, <1>3, PointerMade
<1>5. Pointers[h] = [set |-> x.set, ptr |-> x.ptr] /\ Pointers[k] = None
  BY <1>0, <1>1 DEF Pointers
<1>6. Pointers[h] # None
  BY <1>3, <1>5, NoneAssumption DEF HandleRecords
<1>7. ASSUME NEW a \in Sets PROVE RootsIn(slots'[a]) = RootsIn(slots[a])
  <2>1. CASE x.set \in alive
    <3>1. /\ slots' = [slots EXCEPT ![x.set] = slots'[x.set]]
          /\ Len(slots'[x.set]) = Len(slots[x.set])
          /\ slots'[x.set][x.index].root = slots[x.set][x.index].root
          /\ \A j \in 1..Len(slots[x.set]) : j # x.index => slots'[x.set][j] = slots[x.set][j]
      BY <1>2, <1>3, <2>1, Incremented
    <3>2. CASE a = x.set
      <4>1. \A j \in 1..Len(slots[a]) : slots'[a][j].root = slots[a][j].root
        BY <3>1, <3>2
      <4>2. Len(slots'[a]) = Len(slots[a])
        BY <3>1, <3>2
      <4>3. \A o : o \in RootsIn(slots'[a]) <=> o \in RootsIn(slots[a])
        BY <4>1, <4>2, InRoots
      <4> QED
        BY <4>3
    <3>3. CASE a # x.set
      BY <1>0, <3>1, <3>3 DEF RootsTypeOK
    <3> QED
      BY <3>2, <3>3
  <2>2. CASE x.set \notin alive
    BY <1>2, <2>2
  <2> QED
    BY <2>1, <2>2
<1>8. Rooted' = Rooted
  BY <1>7 DEF Rooted
<1> QED
  BY <1>2, <1>4, <1>5, <1>6, <1>8 DEF Registry!Copy, Pointers, Rooted

(* What a handle stands for. *)
LEMMA StandsFor ==
    ASSUME RootsInv, NEW h \in Handles, NEW a, NEW o
    PROVE  Registry!Stands(h, a, o) <=> Exists(h) /\ handle[h].set = a /\ handle[h].ptr = o
<1>1. Registry!Stands(h, a, o) =>
         Exists(h) /\ [set |-> handle[h].set, ptr |-> handle[h].ptr] = [set |-> a, ptr |-> o]
  BY DEF Registry!Stands
<1>2. Registry!Stands(h, a, o) => Exists(h) /\ handle[h].set = a /\ handle[h].ptr = o
  BY <1>1
<1>3. ASSUME Exists(h), handle[h].set = a, handle[h].ptr = o
      PROVE  Registry!Stands(h, a, o)
  <2>1. a \in Sets /\ o \in Roots
    BY <1>3, HandleShape
  <2>2. [set |-> a, ptr |-> o] # None
    BY <2>1, NoneAssumption
  <2> QED
    BY <1>3, <2>2 DEF Registry!Stands
<1> QED
  BY <1>2, <1>3

LEMMA DropMaps ==
    ASSUME RootsInv, NEW h \in Handles, DropHandle(h)
    PROVE  Registry!Release(h)
<1>0. PICK a, i : handle[h].set = a /\ handle[h].index = i
  OBVIOUS
<1>1. RootsTypeOK
  BY DEF RootsInv, HandlesKeepRoots
<1>2. /\ Exists(h) /\ a \in Sets /\ alive' = alive
      /\ handle' = [handle EXCEPT ![h] = None]
      /\ \A b \in Sets : b # a \/ b \notin alive => slots'[b] = slots[b]
      /\ \A b \in alive : /\ Len(slots'[b]) = Len(slots[b])
                          /\ \A j \in 1..Len(slots[b]) :
                                b # a \/ j # i => slots'[b][j] = slots[b][j]
  BY <1>0, DropEffect
<1>3. a \in alive =>
        /\ i \in 1..Len(slots[a]) /\ slots[a][i].root = handle[h].ptr
        /\ Cardinality(HandlesOf(a, i)) = slots[a][i].refCount + 1
        /\ IF slots[a][i].refCount = 0 THEN ~IsOccupied(slots'[a][i])
           ELSE slots'[a][i].root = slots[a][i].root
  BY <1>0, DropEffect
<1>4. Pointers' = [Pointers EXCEPT ![h] = None]
  <2>1. handle'[h] = None /\ \A k \in Handles \ {h} : handle'[k] = handle[k]
    BY <1>1, <1>2 DEF RootsTypeOK
  <2> QED
    BY <2>1 DEF Pointers, Exists
<1>5. ASSUME NEW b \in Sets
      PROVE  RootsIn(slots'[b]) =
                {o \in RootsIn(slots[b]) :
                    Registry!Stands(h, b, o) =>
                        \E k \in Handles \ {h} : Registry!Stands(k, b, o)}
  <2>1. CASE b # a
    <3>1. \A o : ~Registry!Stands(h, b, o)
      BY <1>0, <2>1, StandsFor
    <3> QED
      BY <1>2, <2>1, <3>1
  <2>2. CASE b = a /\ a \notin alive
    <3>1. slots[b] = << >> /\ slots'[b] = << >>
      BY <1>2, <2>2 DEF RootsInv, DroppedEmpty
    <3>2. RootsIn(<< >>) = {}
      BY DEF RootsIn
    <3> QED
      BY <3>1, <3>2
  <2>3. CASE b = a /\ a \in alive
    <3>1. h \in HandlesOf(a, i)
      BY <1>0, <1>2 DEF HandlesOf
    <3>2. Len(slots'[a]) = Len(slots[a])
      BY <1>2, <2>3
    <3>3. ASSUME NEW o, o \in RootsIn(slots'[a])
          PROVE  /\ o \in RootsIn(slots[a])
                 /\ Registry!Stands(h, a, o) =>
                       \E k \in Handles \ {h} : Registry!Stands(k, a, o)
      <4>1. PICK j \in 1..Len(slots[a]) : slots'[a][j].root = o /\ o # None
        BY <3>2, <3>3, InRoots
      <4>2. slots[a][j].root = o /\ (j = i => slots[a][i].refCount # 0)
        BY <1>2, <1>3, <2>3, <4>1 DEF IsOccupied
      <4>3. Cardinality(HandlesOf(a, j)) = slots[a][j].refCount + 1
            /\ slots[a][j].refCount \in Nat
        BY <2>3, <4>1, <4>2, MaxCountAssumption, SetShape, SMTT(60)
           DEF RootsInv, CountsExact, IsOccupied, Slot
      <4>4. PICK k \in HandlesOf(a, j) : k # h
        <5>1. CASE j = i
          <6>1. Cardinality(HandlesOf(a, j)) # 1
            BY <4>2, <4>3, <5>1
          <6>2. HandlesOf(a, j) # {h}
            BY <6>1, FS_Singleton
          <6> QED
            BY <3>1, <5>1, <6>2
        <5>2. CASE j # i
          <6>1. HandlesOf(a, j) # {}
            <7>1. Cardinality(HandlesOf(a, j)) # 0
              BY <4>3
            <7> QED
              BY <7>1, FS_EmptySet
          <6>2. h \notin HandlesOf(a, j)
            BY <1>0, <5>2 DEF HandlesOf
          <6> QED
            BY <6>1, <6>2
        <5> QED
          BY <5>1, <5>2
      <4>5. k \in Handles \ {h} /\ Exists(k) /\ handle[k].set = a /\ handle[k].index = j
        BY <4>4 DEF HandlesOf
      <4>6. handle[k].ptr = o
        BY <2>3, <4>2, <4>5, HandleShape
      <4>7. Registry!Stands(k, a, o)
        BY <4>5, <4>6, StandsFor
      <4> QED
        BY <4>1, <4>2, <4>5, <4>7, InRoots
    <3>4. ASSUME NEW o, o \in RootsIn(slots[a]),
                 Registry!Stands(h, a, o) =>
                     \E k \in Handles \ {h} : Registry!Stands(k, a, o)
          PROVE  o \in RootsIn(slots'[a])
      <4>1. PICK j \in 1..Len(slots[a]) : slots[a][j].root = o /\ o # None
        BY <3>4, InRoots
      <4>2. CASE j # i
        BY <1>2, <2>3, <3>2, <4>1, <4>2, InRoots
      <4>3. CASE j = i
        <5>1. Registry!Stands(h, a, o)
          BY <1>0, <1>2, <1>3, <2>3, <4>1, <4>3, StandsFor
        <5>2. PICK k \in Handles \ {h} : Registry!Stands(k, a, o)
          BY <3>4, <5>1
        <5>3. Exists(k) /\ handle[k].set = a /\ handle[k].ptr = o
          BY <5>2, StandsFor
        <5>4. PICK m : m = handle[k].index
          OBVIOUS
        <5>5. m \in 1..Len(slots[a]) /\ slots[a][m].root = o
          BY <2>3, <5>3, <5>4, HandleShape
        <5>6. CASE m # i
          BY <1>2, <2>3, <3>2, <4>1, <5>5, <5>6, InRoots
        <5>7. CASE m = i
          <6>1. k \in HandlesOf(a, i)
            BY <5>3, <5>4, <5>7 DEF HandlesOf
          <6>2. Cardinality(HandlesOf(a, i)) # 1
            BY <3>1, <6>1, FewHandles, FS_Singleton
          <6>3. slots[a][i].refCount # 0
            BY <1>3, <2>3, <6>2
          <6>4. slots'[a][i].root = o
            BY <1>3, <2>3, <4>1, <4>3, <6>3
          <6> QED
            BY <3>2, <4>1, <4>3, <6>4, InRoots
        <5> QED
          BY <5>6, <5>7
      <4> QED
        BY <4>2, <4>3
    <3> QED
      BY <2>3, <3>3, <3>4
  <2> QED
    BY <2>1, <2>2, <2>3
<1>6. Rooted' = [b \in Sets |->
          {o \in Rooted[b] : Registry!Stands(h, b, o) =>
                                \E k \in Handles \ {h} : Registry!Stands(k, b, o)}]
  BY <1>5 DEF Rooted
<1>7. Pointers[h] # None
  <2>1. handle[h].set \in Sets /\ handle[h].ptr \in Roots
    BY <1>2, HandleShape
  <2>2. [set |-> handle[h].set, ptr |-> handle[h].ptr] # None
    BY <2>1, NoneAssumption
  <2> QED
    BY <1>2, <2>2 DEF Pointers
<1> QED
  BY <1>2, <1>4, <1>6, <1>7 DEF Registry!Release, Pointers, Rooted

LEMMA RegistryStep ==
    RootsInv /\ [RootsNext]_rootVars => [Registry!RegistryNext]_(Registry!registryVars)
<1> SUFFICES ASSUME RootsInv, [RootsNext]_rootVars
             PROVE  [Registry!RegistryNext]_(Registry!registryVars)
  OBVIOUS
<1>1. ASSUME NEW a \in Sets, New(a) \/ DropSet(a) PROVE Registry!RegistryNext
  BY <1>1, SetMadeOrDroppedMaps DEF Registry!RegistryNext
<1>2. ASSUME NEW a \in Sets, NEW h \in Handles, NEW o \in Roots, Stash(a, h, o)
      PROVE  Registry!RegistryNext
  BY <1>2, StashMaps DEF Registry!RegistryNext
<1>3. ASSUME NEW h \in Handles, NEW k \in Handles, Clone(h, k) PROVE Registry!RegistryNext
  BY <1>3, CloneMaps DEF Registry!RegistryNext
<1>4. ASSUME NEW h \in Handles, DropHandle(h) PROVE Registry!RegistryNext
  BY <1>4, DropMaps DEF Registry!RegistryNext
<1>5. CASE UNCHANGED rootVars
  BY <1>5 DEF rootVars, Registry!registryVars, Exists
<1> QED
  BY <1>1, <1>2, <1>3, <1>4, <1>5 DEF RootsNext

(* Slots, free list and reference counts implement the registry: while a set *)
(* is alive it roots exactly the objects that some handle to it stands for.  *)
THEOREM RegistryTheorem == RootsSpec => ImplementsRegistry
<1>1. RootsInit => Registry!RegistryInit
  BY DEF RootsInit, Registry!RegistryInit, Exists, RootsIn
<1> QED
  BY <1>1, RegistryStep, RootsInvariant, PTL DEF RootsSpec, ImplementsRegistry, Registry!RegistrySpec
=============================================================================
