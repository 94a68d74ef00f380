--------------------------- MODULE RootedHeapProofs ---------------------------
(***************************************************************************)
(* Proofs about RootedHeap: a collector whose heap holds root sets keeps all *)
(* that GcContextProofs proves of one without, though slots change at any    *)
(* moment; and the sets keep what DynamicRootsProofs proves of them alone.   *)
(***************************************************************************)
EXTENDS RootedHeap, GcContextProofs

Alone == INSTANCE DynamicRootsProofs WITH Sets <- Obj, Roots <- Obj

(* How the slots, the handles and the heap agree: a set is alive for its     *)
(* handles while its object is, and that object holds what the slots root.   *)
SetsInHeap ==
    /\ alive \subseteq 1..births
    /\ \A h \in Handles : Dyn!Exists(h) => handle[h].set \in 1..births
    /\ Running => /\ \A a \in alive : /\ isLive[a] /\ needsTrace[a]
                                      /\ strong[a] = Dyn!RootsIn(slots[a])
                  /\ \A h \in Handles : Dyn!Exists(h) /\ handle[h].set \notin alive
                                            => ~isLive[handle[h].set]

MeantBy(a) == {handle[h].ptr : h \in {k \in Handles : Dyn!Exists(k) /\ handle[k].set = a}}

SlotsAsMeant == \A a \in alive : Dyn!RootsIn(slots[a]) = MeantBy(a)

RootedInv == IndInv /\ Alone!RootsInv /\ SetsInHeap

-----------------------------------------------------------------------------
(* The sets alone. *)
LEMMA Assumed ==
    /\ MaxCount \in Nat /\ Alone!IsFiniteSet(Handles)
    /\ None \notin Alone!HandleRecords /\ None \notin [set : Obj, ptr : Obj] /\ None \notin Obj
<1>1. Alone!IsFiniteSet(Handles)
  BY SetsAssumption DEF IsFiniteSet, Alone!IsFiniteSet
<1>2. Dyn!HandleRecords = Alone!HandleRecords
  BY DEF Dyn!HandleRecords, Alone!HandleRecords, Dyn!NULL_INDEX, Alone!NULL_INDEX
<1> QED
  BY <1>1, <1>2, SetsAssumption

(* An operation on a set in the heap is the operation on a set alone.        *)
LEMMA SameSteps ==
    /\ \A a : Dyn!New(a) => Alone!New(a)
    /\ \A a : Dyn!DropSet(a) => Alone!DropSet(a)
    /\ \A a, h, o : Dyn!Stash(a, h, o) => Alone!Stash(a, h, o)
    /\ \A h, k : Dyn!Clone(h, k) => Alone!Clone(h, k)
    /\ \A h : Dyn!DropHandle(h) => Alone!DropHandle(h)
<1> USE DEF Dyn!Exists, Alone!Exists, Dyn!IsOccupied, Alone!IsOccupied,
            Dyn!NULL_INDEX, Alone!NULL_INDEX
<1>1. ASSUME NEW a, Dyn!New(a) PROVE Alone!New(a)
  BY <1>1 DEF Dyn!New, Alone!New, Dyn!Unused, Alone!Unused
<1>2. ASSUME NEW a, Dyn!DropSet(a) PROVE Alone!DropSet(a)
  BY <1>2 DEF Dyn!DropSet, Alone!DropSet
<1>3. ASSUME NEW a, NEW h, NEW o, Dyn!Stash(a, h, o) PROVE Alone!Stash(a, h, o)
  BY <1>3 DEF Dyn!Stash, Alone!Stash, Dyn!Add, Alone!Add, Dyn!AppendSlot, Alone!AppendSlot,
     Dyn!Occupied, Alone!Occupied
<1>4. ASSUME NEW h, NEW k, Dyn!Clone(h, k) PROVE Alone!Clone(h, k)
  BY <1>4 DEF Dyn!Clone, Alone!Clone, Dyn!Inc, Alone!Inc
<1>5. ASSUME NEW h, Dyn!DropHandle(h) PROVE Alone!DropHandle(h)
  BY <1>5 DEF Dyn!DropHandle, Alone!DropHandle, Dyn!Dec, Alone!Dec, Dyn!Vacant, Alone!Vacant
<1> QED
  BY <1>1, <1>2, <1>3, <1>4, <1>5

(* A set roots what its handles mean, before and after a step.               *)
LEMMA SlotsMeant == Alone!RootsInv => SlotsAsMeant
  BY Assumed, Alone!RootsMeant
     DEF SlotsAsMeant, MeantBy, Dyn!Exists, Alone!Exists, Dyn!RootsIn, Alone!RootsIn

LEMMA SlotsMeantNext == Alone!RootsInv' => SlotsAsMeant'
  BY SlotsMeant, PTL

(* A step of the composition is a step of the sets or leaves them alone.     *)
LEMMA SetsStep == TypeOK /\ alive \subseteq Obj /\ [RootedNext]_rootedVars =>
                      [Alone!RootsNext]_(Alone!rootVars)
<1> SUFFICES ASSUME TypeOK, alive \subseteq Obj, [RootedNext]_rootedVars
             PROVE  [Alone!RootsNext]_(Alone!rootVars)
  OBVIOUS
<1> USE DEF Alone!RootsNext
<1>1. CASE NewSet
  <2>1. births + 1 \in Obj
    BY <1>1, MaxAllocsAssumption DEF NewSet, Alloc, TypeOK, MemoryType, Obj
  <2> QED
    BY <1>1, <2>1, SameSteps DEF NewSet
<1>2. ASSUME NEW a \in held, NEW o \in held, NEW h \in Handles, Stash(a, h, o)
      PROVE  Alone!RootsNext
  <2>1. a \in Obj /\ o \in Obj
    BY DEF TypeOK, HandleType
  <2> QED
    BY <1>2, <2>1, SameSteps DEF Stash
<1>3. ASSUME NEW h \in Handles, NEW k \in Handles, CloneHandle(h, k)
      PROVE  Alone!RootsNext
  BY <1>3, SameSteps DEF CloneHandle
<1>4. ASSUME NEW h \in Handles, DropHandle(h) PROVE Alone!RootsNext
  BY <1>4, SameSteps DEF DropHandle
<1>5. CASE Run
  BY <1>5, SameSteps DEF Run, SlotsFollow, setVars, Alone!rootVars
<1>6. CASE OtherUse
  BY <1>6 DEF OtherUse, setVars, Alone!rootVars
<1>7. ASSUME NEW a \in held, NEW h \in Handles, Fetch(a, h) PROVE UNCHANGED Alone!rootVars
  BY <1>7 DEF Fetch, setVars, Alone!rootVars
<1>8. CASE UNCHANGED rootedVars
  BY <1>8 DEF rootedVars, setVars, Alone!rootVars
<1> QED
  BY <1>1, <1>2, <1>3, <1>4, <1>5, <1>6, <1>7, <1>8 DEF RootedNext

(* So the invariant of the sets alone is kept.                              *)
LEMMA SetsKept == RootedInv /\ [RootedNext]_rootedVars => Alone!RootsInv'
<1> SUFFICES ASSUME RootedInv, [RootedNext]_rootedVars PROVE Alone!RootsInv'
  OBVIOUS
<1>1. alive \subseteq Obj
  BY MaxAllocsAssumption DEF RootedInv, SetsInHeap, IndInv, TypeOK, MemoryType, Obj
<1>2. [Alone!RootsNext]_(Alone!rootVars)
  BY <1>1, SetsStep DEF RootedInv, IndInv
<1> QED
  BY <1>2, Assumed, Alone!RootsStep DEF RootedInv

-----------------------------------------------------------------------------
(* The heap: the steps that GcContext does not have.                        *)

(* What HeapFrame leaves alone. *)
LEMMA FrameStill ==
    HeapFrame => HeapStill /\ RootStill
                 /\ UNCHANGED <<rootNeedsTrace, weak, gray, barrierVars, mode, historyVars>>
  BY DEF HeapFrame, HeapStill, RootStill, listVars, headerVars, memoryVars, rootVars

(* A set is written to only where this says, and what its slots hold then is *)
(* what it held, with or without one object.                                *)
LEMMA StashWrites ==
    ASSUME RootedInv, Alone!RootsInv', NEW a \in held, NEW o \in held, NEW h \in Handles,
           Stash(a, h, o)
    PROVE  /\ a \in Obj /\ o \in Obj /\ a \in alive /\ alive' = alive
           /\ strong' = [strong EXCEPT ![a] = @ \cup {o}]
           /\ \A b \in alive : strong'[b] = Dyn!RootsIn(slots'[b])
           /\ \A k \in Handles : Dyn!Exists(k)' =>
                 handle'[k].set \in alive \/ (Dyn!Exists(k) /\ handle'[k] = handle[k])
<1> USE DEF RootedInv
<1>1. /\ a \in Obj /\ o \in Obj /\ a \in alive /\ alive' = alive /\ Running
      /\ Dyn!Stash(a, h, o) /\ strong' = [strong EXCEPT ![a] = Dyn!RootsIn(slots'[a])]
      /\ strong \in [Obj -> SUBSET Obj]
  BY DEF Stash, Dyn!Stash, IndInv, TypeOK, HandleType, ValueType, HandlesMatchMode, Running
<1>2. PICK i : i = Dyn!Add(a, o).index
  OBVIOUS
<1>3. PICK x : x = [set |-> a, index |-> i, ptr |-> o]
  OBVIOUS
<1>4. handle' = [handle EXCEPT ![h] = x] /\ ~Dyn!Exists(h)
  BY <1>1, <1>2, <1>3 DEF Dyn!Stash
<1>5. /\ handle \in [Handles -> Dyn!HandleRecords \cup {None}]
      /\ handle' \in [Handles -> Dyn!HandleRecords \cup {None}]
      /\ slots = [b \in Obj |-> slots[b]]
  BY DEF Alone!RootsInv, Alone!HandlesKeepRoots, Alone!RootsTypeOK,
     Dyn!HandleRecords, Alone!HandleRecords, Dyn!NULL_INDEX, Alone!NULL_INDEX
<1>6. /\ handle'[h] = x /\ x # None /\ x.set = a /\ x.ptr = o
      /\ \A k \in Handles \ {h} : handle'[k] = handle[k]
  <2>1. handle'[h] = x /\ \A k \in Handles \ {h} : handle'[k] = handle[k]
    BY <1>4, <1>5
  <2>2. x # None
    <3>1. Alone!Add(a, o).index \in Nat \ {0}
      BY Assumed, Alone!Added, <1>1
    <3>2. x \in Dyn!HandleRecords
      BY <1>1, <1>2, <1>3, <3>1
         DEF Dyn!HandleRecords, Dyn!NULL_INDEX, Dyn!Add, Alone!Add, Dyn!AppendSlot,
             Alone!AppendSlot, Alone!NULL_INDEX, Dyn!Occupied, Alone!Occupied
    <3> QED
      BY <3>2, SetsAssumption
  <2> QED
    BY <1>3, <2>1, <2>2
<1>7. MeantBy(a)' = MeantBy(a) \cup {o}
  BY <1>4, <1>6 DEF MeantBy, Dyn!Exists
<1>8. Dyn!RootsIn(slots'[a]) = Dyn!RootsIn(slots[a]) \cup {o}
  BY <1>1, <1>7, SlotsMeant, SlotsMeantNext DEF SlotsAsMeant
<1>9. strong' = [strong EXCEPT ![a] = @ \cup {o}]
  BY <1>1, <1>8 DEF SetsInHeap
<1>10. \A b \in alive : b # a => slots'[b] = slots[b] /\ b \in Obj
  BY <1>1, <1>5 DEF Dyn!Stash, Alone!RootsInv, Alone!HandlesKeepRoots, Alone!RootsTypeOK
<1>11. \A b \in alive : strong'[b] = Dyn!RootsIn(slots'[b])
  BY <1>1, <1>10 DEF SetsInHeap
<1>12. \A k \in Handles : Dyn!Exists(k)' =>
          handle'[k].set \in alive \/ (Dyn!Exists(k) /\ handle'[k] = handle[k])
  BY <1>1, <1>6 DEF Dyn!Exists
<1> QED
  BY <1>1, <1>9, <1>11, <1>12

(* A dropped handle takes pointers away and adds none. *)
LEMMA DropWrites ==
    ASSUME RootedInv, Alone!RootsInv', NEW h \in Handles, DropHandle(h)
    PROVE  /\ alive' = alive /\ strong' \in [Obj -> SUBSET Obj]
           /\ \A o \in Obj : strong'[o] \subseteq strong[o]
           /\ Running => \A b \in alive : strong'[b] = Dyn!RootsIn(slots'[b])
           /\ \A k \in Handles : Dyn!Exists(k)' => Dyn!Exists(k) /\ handle'[k] = handle[k]
<1> USE DEF RootedInv
<1>0. PICK a, i : a = handle[h].set /\ i = handle[h].index
  OBVIOUS
<1>1. /\ alive' = alive /\ handle' = [handle EXCEPT ![h] = None] /\ Dyn!Exists(h)
      /\ strong' = IF Running /\ a \in alive
                   THEN [strong EXCEPT ![a] = Dyn!RootsIn(slots'[a])] ELSE strong
      /\ strong \in [Obj -> SUBSET Obj] /\ alive \subseteq Obj
  BY <1>0, MaxAllocsAssumption
     DEF DropHandle, Dyn!DropHandle, TracesSlots, IndInv, TypeOK, ValueType, MemoryType,
         SetsInHeap, Obj
<1>2. handle \in [Handles -> Alone!HandleRecords \cup {None}]
  BY DEF Alone!RootsInv, Alone!HandlesKeepRoots, Alone!RootsTypeOK
<1>3. handle'[h] = None /\ \A k \in Handles \ {h} : handle'[k] = handle[k]
  BY <1>1, <1>2
<1>4. \A k \in Handles : Dyn!Exists(k)' => Dyn!Exists(k) /\ handle'[k] = handle[k]
  BY <1>3 DEF Dyn!Exists
<1>5. \A b \in alive : Dyn!RootsIn(slots'[b]) \subseteq Dyn!RootsIn(slots[b])
  <2> SUFFICES ASSUME NEW b \in alive PROVE MeantBy(b)' \subseteq MeantBy(b)
    BY <1>1, SlotsMeant, SlotsMeantNext DEF SlotsAsMeant
  <2> QED
    BY <1>4 DEF MeantBy, Dyn!Exists
<1>6. ASSUME NEW b \in alive, b # a PROVE slots'[b] = slots[b]
  <2>1. Alone!DropHandle(h)
    BY SameSteps DEF DropHandle
  <2>2. b \in Obj
    BY <1>1
  <2> QED
    BY <1>0, <1>6, <2>1, <2>2, Assumed, Alone!DropEffect
<1>7. CASE Running /\ a \in alive
  <2>1. strong' = [strong EXCEPT ![a] = Dyn!RootsIn(slots'[a])]
    BY <1>1, <1>7
  <2>2. strong[a] = Dyn!RootsIn(slots[a]) /\ strong[a] \subseteq Obj /\ a \in Obj
    BY <1>1, <1>7 DEF SetsInHeap
  <2>3. Dyn!RootsIn(slots'[a]) \subseteq strong[a]
    BY <1>5, <1>7, <2>2
  <2>4. \A b \in alive : strong'[b] = Dyn!RootsIn(slots'[b])
    BY <1>1, <1>6, <1>7, <2>1 DEF SetsInHeap
  <2> QED
    BY <1>1, <1>4, <2>1, <2>2, <2>3, <2>4
<1>8. CASE ~(Running /\ a \in alive)
  <2>1. strong' = strong
    BY <1>1, <1>8
  <2>2. Running => \A b \in alive : strong'[b] = Dyn!RootsIn(slots'[b])
    BY <1>6, <1>8, <2>1 DEF SetsInHeap
  <2> QED
    BY <1>1, <1>4, <2>1, <2>2
<1> QED
  BY <1>7, <1>8

(* Values that lose pointers leave the heap in order. *)
LEMMA LossKeeps ==
    ASSUME IndInv, HeapFrame, UNCHANGED <<color, grayAgain, held, heldWeak>>,
           strong' \in [Obj -> SUBSET Obj], \A o \in Obj : strong'[o] \subseteq strong[o]
    PROVE  IndInv'
<1> USE DEF IndInv
<1>1. /\ HeapStill /\ RootStill /\ ColorStill
      /\ UNCHANGED <<rootNeedsTrace, weak, barrierVars, mode, held, heldWeak, historyVars>>
  BY FrameStill DEF ColorStill
<1> USE <1>1 DEF HeapStill, RootStill, ColorStill
<1>2. TypeOK'
  BY DEF TypeOK, ListType, QueueType, HeaderType, ValueType, MemoryType, HandleType, BarrierType,
     barrierVars, historyVars
<1>3. ListIntact'
  BY DEF ListIntact, Below, Linked, Running
<1>4. GrayIffQueued' /\ ColorsMatchPhase'
  BY DEF GrayIffQueued, ColorsMatchPhase, Linked, Pending
<1>5. TriColor'
  BY DEF TriColor, Linked, TypeOK, MemoryType
<1>6. BarrierStaysGood'
  BY DEF BarrierStaysGood, Linked, barrierVars
<1>7. HandlesMatchMode' /\ RootWillBeTraced'
  BY DEF HandlesMatchMode, RootWillBeTraced, InCallback
<1>8. ValuesAreLive'
  BY DEF ValuesAreLive, Linked
<1>9. (Running => SurvivorsClosed)'
  <2>1. Survivors' = Survivors /\ (Linked \ Unlinking)' = Linked \ Unlinking /\ Running' = Running
    BY DEF Survivors, Condemned, Unlinking, Pending, Linked, Running
  <2>2. Survivors \subseteq Obj
    BY DEF Survivors, Linked, TypeOK, MemoryType
  <2> QED
    BY <2>1, <2>2 DEF SurvivorsClosed
<1> QED
  BY <1>2, <1>3, <1>4, <1>5, <1>6, <1>7, <1>8, <1>9

(* A stash adds a pointer behind the barrier that stash calls. *)
LEMMA StashKeeps ==
    ASSUME IndInv, NEW a \in held, NEW o \in held, HeapFrame, UNCHANGED <<held, heldWeak>>,
           InCallback, StashBarrier(a, o), needsTrace[a],
           strong' = [strong EXCEPT ![a] = @ \cup {o}]
    PROVE  IndInv'
<1> USE DEF IndInv
<1>1. /\ HeapStill /\ RootStill
      /\ UNCHANGED <<rootNeedsTrace, weak, gray, barrierVars, mode, held, heldWeak, historyVars>>
  BY FrameStill
<1> USE <1>1 DEF HeapStill, RootStill
<1>2. Running /\ a \in Obj /\ o \in Obj /\ o # NULL /\ a # NULL
  BY DEF HandlesMatchMode, Running, TypeOK, HandleType, Obj, NULL
<1>3. /\ a \in Survivors /\ o \in Survivors /\ a \in Linked /\ o \in Linked
      /\ isLive[a] /\ isLive[o]
  BY <1>2 DEF SurvivorsClosed, Survivors
<1>4. /\ strong' \in [Obj -> SUBSET Obj] /\ strong'[a] = strong[a] \cup {o}
      /\ \A p \in Obj \ {a} : strong'[p] = strong[p]
  BY <1>2 DEF TypeOK, ValueType
\* either the barrier was not needed, or the set is gray again
<1>5. \/ /\ UNCHANGED <<color, grayAgain>>
         /\ phase = "Mark" /\ color[a] = "Black" => color[o] \notin Whites
      \/ /\ phase = "Mark" /\ color[a] = "Black" /\ MakeGrayAgain(a)
  BY <1>2 DEF StashBarrier, BarrierNeeded, MaybeWhite
<1>6. /\ color' \in [Obj -> Colors] /\ grayAgain' \in [Obj -> Nat]
      /\ \A p \in Obj \ {a} : color'[p] = color[p] /\ grayAgain'[p] = grayAgain[p]
      /\ \/ color'[a] = color[a] /\ grayAgain'[a] = grayAgain[a]
            /\ (phase = "Mark" /\ color[a] = "Black" => color[o] \notin Whites)
         \/ /\ phase = "Mark" /\ color[a] = "Black" /\ color'[a] = "Gray"
            /\ grayAgain'[a] = grayAgain[a] + 1
  BY <1>2, <1>5 DEF MakeGrayAgain, TypeOK, HeaderType, QueueType, Colors
<1>7. \A p \in Obj : /\ color'[p] = "Black" => color[p] = "Black"
                     /\ color[p] \notin Whites => color'[p] \notin Whites
                     /\ color[p] # "White" => color'[p] # "White"
                     /\ color'[p] # color[p] => p = a /\ phase = "Mark" /\ color'[p] = "Gray"
  BY <1>6 DEF Whites
<1>8. TypeOK'
  BY <1>4, <1>6 DEF TypeOK, ListType, QueueType, HeaderType, ValueType, MemoryType, HandleType,
     BarrierType, barrierVars, historyVars
<1>9. ListIntact'
  BY DEF ListIntact, Below, Linked, Running
<1>10. GrayIffQueued'
  <2> SUFFICES ASSUME NEW p \in Obj
               PROVE  gray[p] + grayAgain'[p] =
                          IF p \in Linked /\ color'[p] = "Gray" THEN 1 ELSE 0
    BY DEF GrayIffQueued, Linked
  <2>1. gray[p] + grayAgain[p] = IF p \in Linked /\ color[p] = "Gray" THEN 1 ELSE 0
    BY DEF GrayIffQueued
  <2>2. gray[p] \in Nat /\ grayAgain[p] \in Nat
    BY DEF TypeOK, QueueType
  <2>3. CASE p # a
    BY <1>6, <2>1, <2>3
  <2>4. CASE p = a
    BY <1>3, <1>6, <2>1, <2>2, <2>4
  <2> QED
    BY <2>3, <2>4
<1>11. ColorsMatchPhase'
  BY <1>7 DEF ColorsMatchPhase, Linked, Pending, TypeOK, MemoryType
<1>12. TriColor'
  <2> SUFFICES ASSUME phase = "Mark" PROVE TriColor'
    BY DEF TriColor
  <2>1. TriColor /\ Linked \subseteq Obj /\ Linked' = Linked
    BY DEF Linked, TypeOK, MemoryType
  <2>2. ASSUME NEW p \in Linked, color'[p] = "Black"
        PROVE  /\ \A c \in strong'[p] : color'[c] \notin Whites
               /\ \A c \in weak[p] : color'[c] # "White"
    <3>1. color[p] = "Black" /\ p \in Obj /\ strong[p] \subseteq Obj /\ weak[p] \subseteq Obj
      BY <1>7, <2>1, <2>2 DEF TypeOK, ValueType
    <3>2. /\ \A c \in strong[p] : color[c] \notin Whites
          /\ \A c \in weak[p] : color[c] # "White"
      BY <2>1, <3>1 DEF TriColor
    <3>3. CASE p = a
      <4>1. color[o] \notin Whites
        BY <1>6, <2>2, <3>3
      <4> QED
        BY <1>2, <1>4, <1>7, <3>1, <3>2, <3>3, <4>1
    <3>4. CASE p # a
      BY <1>4, <1>7, <3>1, <3>2, <3>4
    <3> QED
      BY <3>3, <3>4
  <2>3. ASSUME ~rootNeedsTrace
        PROVE  /\ \A c \in rootStrong : color'[c] \notin Whites
               /\ \A c \in rootWeak : color'[c] # "White"
    BY <1>7, <2>1, <2>3 DEF TriColor, TypeOK, ValueType
  <2> QED
    BY <2>1, <2>2, <2>3 DEF TriColor
<1>13. BarrierStaysGood'
  BY <1>7 DEF BarrierStaysGood, Linked, barrierVars, TypeOK, MemoryType
<1>14. HandlesMatchMode' /\ RootWillBeTraced'
  BY DEF HandlesMatchMode, RootWillBeTraced, InCallback
<1>15. ValuesAreLive'
  <2>1. \A p \in Obj : ~needsTrace[p] \/ ~isLive[p] => strong'[p] = {} /\ weak[p] = {}
    BY <1>3, <1>4 DEF ValuesAreLive
  <2>2. \A p \in Obj : p \notin Linked => color'[p] = "White" /\ ~isLive[p]
    BY <1>3, <1>7 DEF ValuesAreLive
  <2>3. \A p \in Linked : color'[p] \notin Whites => isLive[p]
    BY <1>3, <1>7 DEF ValuesAreLive, Linked, TypeOK, MemoryType
  <2> QED
    BY <2>1, <2>2, <2>3 DEF ValuesAreLive, Linked
<1>16. (Running => SurvivorsClosed)'
  <2>1. Linked' = Linked /\ Pending' = Pending /\ Linked \subseteq Obj
    BY DEF Pending, Linked, TypeOK, MemoryType
  <2>2. \A p \in Pending : color'[p] = color[p]
    BY <1>7, <2>1 DEF Pending
  <2>3. Survivors' = Survivors /\ (Linked \ Unlinking)' = Linked \ Unlinking
    BY <2>1, <2>2 DEF Survivors, Condemned, Unlinking
  <2>4. Survivors \subseteq Obj
    BY <2>1 DEF Survivors
  <2> QED
    BY <1>2, <1>3, <1>4, <2>3, <2>4 DEF SurvivorsClosed
<1> QED
  BY <1>8, <1>9, <1>10, <1>11, <1>12, <1>13, <1>14, <1>15, <1>16

(* A fetch adds to what the callback holds. *)
LEMMA FetchKeeps ==
    ASSUME IndInv, NEW o \in Survivors, HeapFrame, UNCHANGED <<color, grayAgain, strong>>,
           InCallback, held' = held \cup Reach({o}),
           heldWeak' = (heldWeak \cup WeakOf(Reach({o}))) \ held'
    PROVE  IndInv'
<1> USE DEF IndInv
<1>1. /\ HeapStill /\ RootStill /\ ColorStill /\ ValueStill
      /\ UNCHANGED <<rootNeedsTrace, barrierVars, mode, historyVars>>
  BY FrameStill DEF ColorStill, ValueStill
<1> USE <1>1 DEF HeapStill, RootStill, ColorStill, ValueStill
<1>2. Running
  BY DEF HandlesMatchMode, Running
<1>3. Reach({o}) \subseteq Survivors /\ WeakOf(Reach({o})) \subseteq Linked \ Unlinking
  BY <1>2, SurvivorsReach
<1>4. Survivors \subseteq Obj /\ Linked \subseteq Obj
  BY DEF Survivors, Linked, TypeOK, MemoryType
<1>5. TypeOK'
  BY <1>3, <1>4 DEF TypeOK, ListType, QueueType, HeaderType, ValueType, MemoryType, HandleType,
     BarrierType, barrierVars, historyVars
<1>6. ListIntact'
  BY DEF ListIntact, Below, Linked, Running
<1>7. GrayIffQueued' /\ ColorsMatchPhase'
  BY DEF GrayIffQueued, ColorsMatchPhase, Linked, Pending
<1>8. TriColor' /\ BarrierStaysGood'
  BY DEF TriColor, BarrierStaysGood, Linked, barrierVars
<1>9. HandlesMatchMode' /\ RootWillBeTraced'
  BY DEF HandlesMatchMode, RootWillBeTraced, InCallback
<1>10. ValuesAreLive'
  BY DEF ValuesAreLive, Linked
<1>11. (Running => SurvivorsClosed)'
  <2>1. Survivors' = Survivors /\ (Linked \ Unlinking)' = Linked \ Unlinking
    BY DEF Survivors, Condemned, Unlinking, Pending, Linked
  <2> QED
    BY <1>2, <1>3, <2>1 DEF SurvivorsClosed
<1> QED
  BY <1>5, <1>6, <1>7, <1>8, <1>9, <1>10, <1>11

-----------------------------------------------------------------------------
(* What the steps of GcContext do to the objects that are sets.             *)
LEMMA UserFrame ==
    ASSUME TypeOK, Callback \/ Mutator
    PROVE  /\ phase' = phase /\ births' \in Nat /\ births <= births'
           /\ \A o \in 1..births : isLive'[o] = isLive[o] /\ needsTrace'[o] = needsTrace[o]
<1> USE DEF TypeOK, MemoryType, HeaderType, Obj
<1>1. CASE AllocStep
  <2>1. PICK S \in SUBSET held, W \in SUBSET WeakHandles, nt \in BOOLEAN : Alloc(S, W, nt)
    BY <1>1 DEF AllocStep
  <2>2. /\ births' = births + 1 /\ phase' = phase
        /\ isLive' = [isLive EXCEPT ![births + 1] = TRUE]
        /\ needsTrace' = [needsTrace EXCEPT ![births + 1] = nt]
    BY <2>1 DEF Alloc
  <2>3. \A o \in 1..births : o # births + 1 /\ o \in Obj
    BY MaxAllocsAssumption
  <2>4. births \in Nat /\ births + 1 \in Nat /\ births <= births + 1
        /\ isLive \in [Obj -> BOOLEAN] /\ needsTrace \in [Obj -> BOOLEAN]
    BY MaxAllocsAssumption
  <2> HIDE DEF TypeOK, MemoryType, HeaderType, Obj
  <2>5. \A o \in 1..births : isLive'[o] = isLive[o] /\ needsTrace'[o] = needsTrace[o]
    BY <2>2, <2>3, <2>4
  <2> QED
    BY <2>2, <2>4, <2>5
<1>2. CASE HeapStill
  BY <1>2, MaxAllocsAssumption DEF HeapStill
<1> QED
  BY <1>1, <1>2, HandleFrame, BarrierStepFrame, ResurrectFrame, ValueStepFrame, RootStepFrame
     DEF Callback, Mutator, HandleStep, AllocStep, BarrierStep, ResurrectStep, ValueStep, RootStep

(* The collector drops at most one value in a step.                         *)
LEMMA CollectorFrame ==
    ASSUME IndInv, Collector \/ Teardown
    PROVE  /\ births' = births
           /\ Running' =>
                 /\ Running /\ needsTrace' = needsTrace
                 /\ \A o \in Obj : isLive'[o] => isLive[o] /\ strong'[o] = strong[o]
                 /\ \E x \in Obj \cup {NULL} : \A o \in Obj \ {x} : isLive'[o] = isLive[o]
<1> USE DEF IndInv
<1>1. CASE HeapStill /\ ValueStill
  BY <1>1 DEF HeapStill, ValueStill, Running
<1>2. CASE Wake \/ StartSweep \/ FinishCycle
  BY <1>2 DEF Wake, StartSweep, FinishCycle, CollectorTurn, valueVars, Running
<1>3. ASSUME NEW o \in Obj, Forget(o), UNCHANGED <<births, needsTrace>>, Running
      PROVE  /\ births' = births
             /\ Running' =>
                   /\ Running /\ needsTrace' = needsTrace
                   /\ \A p \in Obj : isLive'[p] => isLive[p] /\ strong'[p] = strong[p]
                   /\ \E x \in Obj \cup {NULL} : \A p \in Obj \ {x} : isLive'[p] = isLive[p]
  BY <1>3 DEF Forget, TypeOK, HeaderType, ValueType
<1>4. ASSUME NEW panics \in BOOLEAN, SweepWhite(panics)
      PROVE  sweep \in Obj /\ Forget(sweep) /\ UNCHANGED <<births, needsTrace>> /\ Running
  BY <1>4 DEF SweepWhite, DropAndDealloc, CollectorTurn, TypeOK, ListType, Running
<1>5. ASSUME SweepWhiteWeak
      PROVE  sweep \in Obj /\ Forget(sweep) /\ UNCHANGED <<births, needsTrace>> /\ Running
  BY <1>5 DEF SweepWhiteWeak, CollectorTurn, TypeOK, ListType, Running
<1>6. CASE SweepBlack
  BY <1>6 DEF SweepBlack, CollectorTurn, valueVars, Running
<1>7. CASE Teardown
  BY <1>7 DEF Teardown, BeginDrop, DropOne, memoryVars, Running
<1>8. CASE MarkStep
  BY <1>1, <1>8, MarkFrames
<1> QED
  BY <1>2, <1>3, <1>4, <1>5, <1>6, <1>7, <1>8 DEF Collector, MarkStep

(* A set is dropped with its object: the heap and the sets stay in step. *)
LEMMA SetsInHeapStep == RootedInv /\ [RootedNext]_rootedVars /\ Alone!RootsInv' => SetsInHeap'
<1> SUFFICES ASSUME RootedInv, [RootedNext]_rootedVars, Alone!RootsInv' PROVE SetsInHeap'
  OBVIOUS
<1> USE DEF RootedInv
<1>0. /\ TypeOK /\ births \in Nat /\ births <= MaxAllocs /\ 1..births \subseteq Obj
      /\ alive \subseteq 1..births
      /\ \A h \in Handles : Dyn!Exists(h) => handle[h].set \in 1..births
  BY MaxAllocsAssumption DEF IndInv, TypeOK, MemoryType, Obj, SetsInHeap
<1>1. CASE NewSet
  <2> DEFINE a == births + 1
  <2>1. /\ births' = a /\ phase' = phase /\ Running
        /\ isLive' = [isLive EXCEPT ![a] = TRUE] /\ needsTrace' = [needsTrace EXCEPT ![a] = TRUE]
        /\ strong' = [strong EXCEPT ![a] = {}] /\ a \in Obj
    <3>1. Alloc({}, {}, TRUE)
      BY <1>1 DEF NewSet
    <3>2. /\ births' = a /\ phase' = phase /\ InCallback /\ births < MaxAllocs
          /\ isLive' = [isLive EXCEPT ![a] = TRUE] /\ needsTrace' = [needsTrace EXCEPT ![a] = TRUE]
          /\ strong' = [strong EXCEPT ![a] = {}]
      BY <3>1 DEF Alloc
    <3>3. Running
      BY <3>2 DEF IndInv, HandlesMatchMode, Running
    <3>4. a \in Obj
      BY <1>0, <3>2, MaxAllocsAssumption DEF Obj
    <3> QED
      BY <3>2, <3>3, <3>4
  <2>2. /\ alive' = alive \cup {a} /\ handle' = handle
        /\ slots' = [slots EXCEPT ![a] = << >>]
    BY <1>1 DEF NewSet, Dyn!New
  <2>3. /\ slots = [b \in Obj |-> slots[b]]
        /\ isLive \in [Obj -> BOOLEAN] /\ needsTrace \in [Obj -> BOOLEAN]
        /\ strong \in [Obj -> SUBSET Obj]
    BY <1>0 DEF TypeOK, HeaderType, ValueType, Alone!RootsInv, Alone!HandlesKeepRoots,
       Alone!RootsTypeOK
  <2>4. Dyn!RootsIn(<< >>) = {}
    BY DEF Dyn!RootsIn
  <2>5. \A o \in 1..births : o # a /\ o \in Obj
    BY <1>0
  <2>6. \A b \in alive' : isLive'[b] /\ needsTrace'[b] /\ strong'[b] = Dyn!RootsIn(slots'[b])
    BY <1>0, <2>1, <2>2, <2>3, <2>4, <2>5 DEF SetsInHeap
  <2>7. \A h \in Handles : Dyn!Exists(h) /\ handle[h].set \notin alive'
                              => ~isLive'[handle[h].set]
    BY <1>0, <2>1, <2>2, <2>3, <2>5 DEF SetsInHeap
  <2>8. alive' \subseteq 1..births'
    BY <1>0, <2>1, <2>2
  <2>9. \A h \in Handles : Dyn!Exists(h) => handle[h].set \in 1..births'
    BY <1>0, <2>1
  <2> QED
    BY <2>2, <2>6, <2>7, <2>8, <2>9 DEF SetsInHeap, Dyn!Exists
<1>2. ASSUME NEW a \in held, NEW o \in held, NEW h \in Handles, Stash(a, h, o)
      PROVE  SetsInHeap'
  <2>1. HeapStill
    BY <1>2, FrameStill DEF Stash
  <2>2. /\ a \in Obj /\ alive' = alive
        /\ \A b \in alive : strong'[b] = Dyn!RootsIn(slots'[b])
        /\ \A k \in Handles : Dyn!Exists(k)' =>
                 handle'[k].set \in alive \/ (Dyn!Exists(k) /\ handle'[k] = handle[k])
    BY <1>2, StashWrites
  <2>3. \A k \in Handles : Dyn!Exists(k)' =>
           /\ handle'[k].set \in 1..births
           /\ Running /\ handle'[k].set \notin alive => ~isLive[handle'[k].set]
    BY <1>0, <2>2 DEF SetsInHeap
  <2> QED
    BY <2>1, <2>2, <2>3, <1>0 DEF SetsInHeap, HeapStill, Running, Dyn!Exists
<1>3. ASSUME NEW a \in held, NEW h \in Handles, Fetch(a, h) PROVE SetsInHeap'
  <2>1. HeapStill /\ strong' = strong /\ UNCHANGED setVars
    BY <1>3, FrameStill DEF Fetch
  <2> QED
    BY <2>1 DEF SetsInHeap, HeapStill, setVars, Running, Dyn!Exists, Dyn!RootsIn
<1>4. ASSUME NEW h \in Handles, NEW k \in Handles, CloneHandle(h, k) PROVE SetsInHeap'
  <2>1. UNCHANGED vars /\ Dyn!Clone(h, k)
    BY <1>4 DEF CloneHandle
  <2>2. /\ alive' = alive /\ Dyn!Exists(h) /\ handle' = [handle EXCEPT ![k] = handle[h]]
    BY <2>1 DEF Dyn!Clone
  <2>3. handle \in [Handles -> Alone!HandleRecords \cup {None}]
    BY DEF Alone!RootsInv, Alone!HandlesKeepRoots, Alone!RootsTypeOK
  <2>4. handle'[k] = handle[h] /\ \A m \in Handles \ {k} : handle'[m] = handle[m]
    BY <2>2, <2>3
  <2>5. \A b \in alive : MeantBy(b)' = MeantBy(b)
    <3> SUFFICES ASSUME NEW b \in alive
                 PROVE  \A o : o \in MeantBy(b)' <=> o \in MeantBy(b)
      OBVIOUS
    <3>1. ~Dyn!Exists(k)
      BY <2>1 DEF Dyn!Clone
    <3> QED
      BY <2>2, <2>4, <3>1 DEF MeantBy, Dyn!Exists
  <2>6. \A b \in alive : Dyn!RootsIn(slots'[b]) = Dyn!RootsIn(slots[b])
    BY <2>2, <2>5, SlotsMeant, SlotsMeantNext DEF SlotsAsMeant
  <2>7. births' = births /\ isLive' = isLive /\ needsTrace' = needsTrace /\ strong' = strong
        /\ phase' = phase
    BY <2>1 DEF vars, memoryVars, headerVars, valueVars
  <2>8. \A m \in Handles : Dyn!Exists(m)' =>
           /\ handle'[m].set \in 1..births
           /\ Running /\ handle'[m].set \notin alive => ~isLive[handle'[m].set]
    BY <1>0, <2>2, <2>4 DEF SetsInHeap, Dyn!Exists
  <2> QED
    BY <1>0, <2>2, <2>6, <2>7, <2>8 DEF SetsInHeap, Running, Dyn!Exists
<1>5. ASSUME NEW h \in Handles, DropHandle(h) PROVE SetsInHeap'
  <2>1. HeapStill
    BY <1>5, FrameStill DEF DropHandle
  <2>2. /\ alive' = alive
        /\ Running => \A b \in alive : strong'[b] = Dyn!RootsIn(slots'[b])
        /\ \A k \in Handles : Dyn!Exists(k)' => Dyn!Exists(k) /\ handle'[k] = handle[k]
    BY <1>5, DropWrites
  <2>3. \A k \in Handles : Dyn!Exists(k)' =>
           /\ handle'[k].set \in 1..births
           /\ Running /\ handle'[k].set \notin alive => ~isLive[handle'[k].set]
    BY <1>0, <2>2 DEF SetsInHeap
  <2> QED
    BY <2>1, <2>2, <2>3, <1>0 DEF SetsInHeap, HeapStill, Running, Dyn!Exists
<1>6. CASE OtherUse
  <2>1. /\ phase' = phase /\ births' \in Nat /\ births <= births'
        /\ \A o \in 1..births : isLive'[o] = isLive[o] /\ needsTrace'[o] = needsTrace[o]
    BY <1>0, <1>6, UserFrame DEF OtherUse
  <2>2. /\ \A a \in alive : strong'[a] = strong[a]
        /\ alive' = alive /\ slots' = slots /\ handle' = handle
    BY <1>6 DEF OtherUse, setVars
  <2>3. 1..births \subseteq 1..births'
    BY <1>0, <2>1
  <2> QED
    BY <1>0, <2>1, <2>2, <2>3 DEF SetsInHeap, Running, Dyn!Exists
<1>7. CASE Run
  <2>1. /\ births' = births
        /\ Running' =>
              /\ Running /\ needsTrace' = needsTrace
              /\ \A o \in Obj : isLive'[o] => isLive[o] /\ strong'[o] = strong[o]
              /\ \E x \in Obj \cup {NULL} : \A o \in Obj \ {x} : isLive'[o] = isLive[o]
    BY <1>7, CollectorFrame DEF Run
  <2>2. handle' = handle /\ alive' \subseteq alive
    BY <1>7 DEF Run, SlotsFollow, setVars, Dyn!DropSet
  <2>3. ASSUME Running'
        PROVE  /\ \A b \in alive' : isLive'[b] /\ needsTrace'[b]
                                    /\ strong'[b] = Dyn!RootsIn(slots'[b])
               /\ \A h \in Handles : Dyn!Exists(h) /\ handle[h].set \notin alive'
                                        => ~isLive'[handle[h].set]
    <3>1. CASE \E a \in alive : ~isLive'[a]
      <4>1. PICK a \in alive : ~isLive'[a] /\ Dyn!DropSet(a)
        BY <1>7, <3>1 DEF Run, SlotsFollow
      <4>2. \A b \in alive \ {a} : isLive'[b]
        BY <1>0, <2>1, <2>3, <4>1 DEF SetsInHeap
      <4>3. alive' = alive \ {a} /\ slots' = [slots EXCEPT ![a] = << >>]
        BY <4>1 DEF Dyn!DropSet
      <4>4. \A b \in alive \ {a} : slots'[b] = slots[b] /\ b \in Obj
        BY <1>0, <4>3 DEF Alone!RootsInv, Alone!HandlesKeepRoots, Alone!RootsTypeOK
      <4>5. \A b \in alive' : isLive'[b] /\ needsTrace'[b]
                              /\ strong'[b] = Dyn!RootsIn(slots'[b])
        BY <2>1, <2>3, <4>2, <4>3, <4>4 DEF SetsInHeap
      <4>6. \A h \in Handles : Dyn!Exists(h) /\ handle[h].set \notin alive'
                                  => ~isLive'[handle[h].set]
        BY <1>0, <2>1, <2>3, <4>1, <4>3 DEF SetsInHeap
      <4> QED
        BY <4>5, <4>6
    <3>2. CASE ~\E a \in alive : ~isLive'[a]
      <4>1. alive' = alive /\ slots' = slots
        BY <1>7, <3>2 DEF Run, SlotsFollow, setVars
      <4> QED
        BY <1>0, <2>1, <2>3, <3>2, <4>1 DEF SetsInHeap
    <3> QED
      BY <3>1, <3>2
  <2> QED
    BY <1>0, <2>1, <2>2, <2>3 DEF SetsInHeap, Dyn!Exists
<1>8. CASE UNCHANGED rootedVars
  BY <1>8 DEF rootedVars, vars, setVars, memoryVars, headerVars, valueVars, SetsInHeap,
     Running, Dyn!Exists, Dyn!RootsIn
<1> QED
  BY <1>1, <1>2, <1>3, <1>4, <1>5, <1>6, <1>7, <1>8 DEF RootedNext
-----------------------------------------------------------------------------
(* The heap stays in order. *)
LEMMA HeapKept == RootedInv /\ [RootedNext]_rootedVars /\ Alone!RootsInv' => IndInv'
<1> SUFFICES ASSUME RootedInv, [RootedNext]_rootedVars, Alone!RootsInv' PROVE IndInv'
  OBVIOUS
<1>0. IndInv /\ SetsInHeap
  BY DEF RootedInv
<1>1. CASE Next \/ UNCHANGED vars
  BY <1>0, <1>1, InvStep
<1>2. CASE NewSet
  <2>1. Next
    BY <1>2 DEF NewSet, Next, Mutator
  <2> QED
    BY <1>1, <2>1
<1>3. ASSUME NEW a \in held, NEW o \in held, NEW h \in Handles, Stash(a, h, o) PROVE IndInv'
  <2>1. /\ a \in alive /\ strong' = [strong EXCEPT ![a] = @ \cup {o}]
    BY <1>3, StashWrites
  <2>2. /\ InCallback /\ StashBarrier(a, o) /\ UNCHANGED <<held, heldWeak>> /\ HeapFrame
    BY <1>3 DEF Stash
  <2>3. Running
    BY <1>0, <2>2 DEF IndInv, HandlesMatchMode, Running
  <2>4. needsTrace[a]
    BY <1>0, <2>1, <2>3 DEF SetsInHeap
  <2> QED
    BY <1>0, <2>1, <2>2, <2>4, StashKeeps
<1>4. ASSUME NEW a \in held, NEW h \in Handles, Fetch(a, h) PROVE IndInv'
  <2>1. PICK o : o = handle[h].ptr
    OBVIOUS
  <2>2. /\ InCallback /\ a \in alive /\ Dyn!Exists(h) /\ handle[h].set = a /\ HeapFrame
        /\ UNCHANGED <<color, grayAgain, strong>> /\ held' = held \cup Reach({o})
        /\ heldWeak' = (heldWeak \cup WeakOf(Reach({o}))) \ held'
    BY <1>4, <2>1 DEF Fetch, Contains
  <2>3. Running
    BY <1>0, <2>2 DEF IndInv, HandlesMatchMode, Running
  <2>4. o \in strong[a]
    BY <1>0, <2>1, <2>2, <2>3, SlotsMeant DEF SetsInHeap, SlotsAsMeant, MeantBy, RootedInv
  <2>5. o \in Survivors
    BY <1>0, <2>3, <2>4 DEF IndInv, SurvivorsClosed
  <2> QED
    BY <1>0, <2>2, <2>5, FetchKeeps
<1>5. ASSUME NEW h \in Handles, DropHandle(h) PROVE IndInv'
  <2>1. HeapFrame /\ UNCHANGED <<color, grayAgain, held, heldWeak>>
    BY <1>5 DEF DropHandle
  <2>2. strong' \in [Obj -> SUBSET Obj] /\ \A o \in Obj : strong'[o] \subseteq strong[o]
    BY <1>5, DropWrites
  <2> QED
    BY <1>0, <2>1, <2>2, LossKeeps
<1> QED
  BY <1>1, <1>2, <1>3, <1>4, <1>5 DEF RootedNext, CloneHandle, OtherUse, Run, Next, rootedVars

(* An empty heap without sets.                                              *)
LEMMA RootedInitially == RootedInit => RootedInv
<1> SUFFICES ASSUME RootedInit PROVE RootedInv
  OBVIOUS
<1>1. IndInv
  BY InvInit DEF RootedInit
<1>2. Alone!RootsInit
  BY DEF RootedInit, Dyn!RootsInit, Alone!RootsInit, Dyn!NULL_INDEX, Alone!NULL_INDEX
<1>3. SetsInHeap
  BY DEF RootedInit, Dyn!RootsInit, SetsInHeap, Dyn!Exists
<1> QED
  BY <1>1, <1>2, <1>3, Assumed, Alone!RootsInitially DEF RootedInv

(* The heap, the sets and their agreement, each kept with the help of the    *)
(* others.                                                                  *)
LEMMA RootedInvariant == RootedSpec => []RootedInv
<1>1. RootedInv /\ [RootedNext]_rootedVars => RootedInv'
  BY SetsKept, SetsInHeapStep, HeapKept DEF RootedInv
<1> QED
  BY <1>1, RootedInitially, PTL DEF RootedSpec

-----------------------------------------------------------------------------
(* The collector is as much in order as one without root sets: all that      *)
(* GcContextProofs derives from its invariant holds with them too.           *)
THEOREM RootedInvariance == RootedSpec => []IndInv
<1>1. RootedInv => IndInv
  BY DEF RootedInv
<1> QED
  BY <1>1, RootedInvariant, PTL

(* What a handle fetches from a set in reach is alive and is not about to be *)
(* swept, whenever it was stashed.                                          *)
THEOREM FetchIsSafe == RootedSpec => []HandlesFetchLive
<1>1. RootedInv => HandlesFetchLive
  <2> SUFFICES ASSUME RootedInv, Running, NEW h \in Handles, Dyn!Exists(h), handle[h].set \in InHand
               PROVE  LET o == handle[h].ptr IN o \in boxes /\ isLive[o] /\ o \notin Condemned
    BY DEF HandlesFetchLive
  <2>1. IndInv /\ SetsInHeap /\ SlotsAsMeant
    BY SlotsMeant DEF RootedInv
  <2>2. PICK a, o : a = handle[h].set /\ o = handle[h].ptr
    OBVIOUS
  <2>3. a \in Survivors
    BY <2>1, <2>2, SurvivorsReach DEF InHand, IndInv, SurvivorsClosed
  <2>4. a \in alive
    BY <2>1, <2>2, <2>3 DEF SetsInHeap, Survivors
  <2>5. o \in strong[a]
    BY <2>1, <2>2, <2>4 DEF SetsInHeap, SlotsAsMeant, MeantBy
  <2>6. o \in Survivors
    BY <2>1, <2>3, <2>5 DEF IndInv, SurvivorsClosed
  <2> QED
    BY <2>2, <2>6 DEF Survivors, Linked
<1> QED
  BY <1>1, RootedInvariant, PTL

(* The collector finds in a set the objects of its handles and no others.    *)
THEOREM SetsAgree == RootedSpec => []SetsHoldWhatHandlesMean
<1>1. RootedInv => SetsHoldWhatHandlesMean
  BY SlotsMeant DEF RootedInv, SetsInHeap, SlotsAsMeant, MeantBy, SetsHoldWhatHandlesMean
<1> QED
  BY <1>1, RootedInvariant, PTL

(* No pointer that user code can reach dangles, with root sets in the heap.  *)
THEOREM RootedMemorySafety == RootedSpec => []NoDanglingPointers
<1>1. IndInv => NoDanglingPointers
  <2> SUFFICES ASSUME IndInv, Running
               PROVE  /\ \A o \in InHand : o \in boxes /\ isLive[o]
                      /\ WeakInHand \subseteq boxes
    BY DEF NoDanglingPointers
  <2>1. rootStrong \cup held \subseteq Survivors /\ rootWeak \cup heldWeak \subseteq Linked
    BY DEF IndInv, SurvivorsClosed
  <2>2. InHand \subseteq Survivors /\ WeakOf(InHand) \subseteq Linked
    BY <2>1, SurvivorsReach DEF InHand
  <2> QED
    BY <2>1, <2>2 DEF WeakInHand, Survivors, Linked
<1> QED
  BY <1>1, RootedInvariance, PTL

(* The list of boxes stays intact while slots change at any moment.          *)
THEOREM RootedListIntact == RootedSpec => []ListIntact
<1>1. IndInv => ListIntact
  BY DEF IndInv
<1> QED
  BY <1>1, RootedInvariance, PTL

(* In a heap, the sets do only what they do alone, each New at an address    *)
(* that no Weak refers to any more.                                         *)
THEOREM SetsAloneRefined == RootedSpec => Alone!RootsSpec
<1>1. RootedInit => Alone!RootsInit
  BY DEF RootedInit, Dyn!RootsInit, Alone!RootsInit, Dyn!NULL_INDEX, Alone!NULL_INDEX
<1>2. RootedInv /\ [RootedNext]_rootedVars => [Alone!RootsNext]_(Alone!rootVars)
  <2> SUFFICES ASSUME RootedInv, [RootedNext]_rootedVars
               PROVE  [Alone!RootsNext]_(Alone!rootVars)
    OBVIOUS
  <2>1. TypeOK /\ alive \subseteq Obj
    BY MaxAllocsAssumption DEF RootedInv, SetsInHeap, IndInv, TypeOK, MemoryType, Obj
  <2> QED
    BY <2>1, SetsStep
<1> QED
  BY <1>1, <1>2, RootedInvariant, PTL DEF RootedSpec, Alone!RootsSpec
=============================================================================
