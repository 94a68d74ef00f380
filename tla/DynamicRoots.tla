----------------------------- MODULE DynamicRoots -----------------------------
(***************************************************************************)
(* DynamicRootSet and DynamicRoot (src/dynamic_roots.rs): roots kept in a    *)
(* vector of slots with a free list and reference counts, used through       *)
(* handles that live outside the arena.                                     *)
(*                                                                         *)
(* A handle holds a Weak to the slots, which tells whether the set is still   *)
(* alive and by its address which set it is.  The memory of an Rc is not     *)
(* reused while a Weak points at it, but it is afterwards: a place of Sets    *)
(* is the address of such an Rc.  Slots are numbered from 1.  Handles may be  *)
(* dropped and cloned at any time; one that is forgotten is never dropped.    *)
(***************************************************************************)
EXTENDS Integers, Sequences, FiniteSets

CONSTANTS
    Sets,       \* addresses where the slots of a set may live
    Handles,    \* bound: DynamicRoot handles that exist at a time
    Roots,      \* the objects that are stashed
    None,
    MaxCount    \* the largest reference count, usize::MAX in the code

ASSUME MaxCountAssumption == MaxCount \in Nat

ASSUME HandlesAssumption == IsFiniteSet(Handles)

NULL_INDEX == 0

HandleRecords == [set : Sets, index : Nat \ {NULL_INDEX}, ptr : Roots]

ASSUME NoneAssumption == None \notin HandleRecords /\ None \notin [set : Sets, ptr : Roots]
                         /\ None \notin Roots

VARIABLES
    alive,      \* the sets whose Rc has its strong count, Inner, not dropped
    slots, nextFree,    \* struct Slots, for each set
    handle      \* struct DynamicRoot: set, index and ptr

rootVars == <<alive, slots, nextFree, handle>>

\* enum Slot; what the other variant would hold is blank
Occupied(o, n) == [root |-> o, refCount |-> n, nextFree |-> NULL_INDEX]
Vacant(next)   == [root |-> None, refCount |-> 0, nextFree |-> next]
IsOccupied(slot) == slot.root # None

Indices(a) == 1..Len(slots[a])

(* The roots that the tracing of a vector of slots finds.                    *)
RootsIn(s) == {slot.root : slot \in {s[i] : i \in 1..Len(s)}} \ {None}

Exists(h) == handle[h] # None

RootsInit ==
    /\ alive = {}
    /\ slots = [a \in Sets |-> << >>]
    /\ nextFree = [a \in Sets |-> NULL_INDEX]
    /\ handle = [h \in Handles |-> None]

-----------------------------------------------------------------------------
(* Mutant: a Weak does not keep the memory of its Rc. *)
UnusedByRc(a) == a \notin alive

(* The address is free once the set is dropped and no Weak is left.          *)
Unused(a) == a \notin alive /\ \A h \in Handles : Exists(h) => handle[h].set # a

New(a) ==
    /\ Unused(a)
    /\ alive' = alive \cup {a}
    /\ slots' = [slots EXCEPT ![a] = << >>]
    /\ nextFree' = [nextFree EXCEPT ![a] = NULL_INDEX]
    /\ UNCHANGED handle

(* Mutant: the free list is never used. *)
AppendSlot(a, o) ==
    [index |-> Len(slots[a]) + 1,
     slots |-> Append(slots[a], Occupied(o, 0)),
     nextFree |-> nextFree[a]]

(* Mutant: the slot taken stays the head of the free list. *)
AddKeepsHead(a, o) ==
    IF nextFree[a] # NULL_INDEX
    THEN [index |-> nextFree[a],
          slots |-> [slots[a] EXCEPT ![nextFree[a]] = Occupied(o, 0)],
          nextFree |-> nextFree[a]]
    ELSE AppendSlot(a, o)

(* Slots::add: the head of the free list, or a new slot.  A reference count  *)
(* of 0 stands for one handle.                                              *)
Add(a, o) ==
    IF nextFree[a] # NULL_INDEX
    THEN [index |-> nextFree[a],
          slots |-> [slots[a] EXCEPT ![nextFree[a]] = Occupied(o, 0)],
          nextFree |-> slots[a][nextFree[a]].nextFree]
    ELSE AppendSlot(a, o)

(* DynamicRootSet::stash.                                                   *)
Stash(a, h, o) ==
    /\ a \in alive /\ ~Exists(h)
    /\ LET added == Add(a, o) IN
       /\ slots' = [slots EXCEPT ![a] = added.slots]
       /\ nextFree' = [nextFree EXCEPT ![a] = added.nextFree]
       /\ handle' = [handle EXCEPT ![h] = [set |-> a, index |-> added.index, ptr |-> o]]
    /\ UNCHANGED alive

(* Mutant: a clone is not counted. *)
NoInc(a, i) == UNCHANGED slots

(* Mutant: the reference count is not checked for overflow. *)
IncUnchecked(a, i) ==
    /\ IsOccupied(slots[a][i])
    /\ slots' = [slots EXCEPT ![a][i].refCount = @ + 1]

(* Slots::inc; clone panics, and makes no handle, where the count is full.   *)
Inc(a, i) ==
    /\ IsOccupied(slots[a][i]) /\ slots[a][i].refCount < MaxCount
    /\ slots' = [slots EXCEPT ![a][i].refCount = @ + 1]

(* Clone for DynamicRoot.  The handle of a dropped set can be cloned too.    *)
Clone(h, k) ==
    /\ Exists(h) /\ ~Exists(k)
    /\ IF handle[h].set \in alive
       THEN Inc(handle[h].set, handle[h].index)
       ELSE UNCHANGED slots
    /\ handle' = [handle EXCEPT ![k] = handle[h]]
    /\ UNCHANGED <<alive, nextFree>>

(* Mutant: a count of 1 is taken for the last handle. *)
DecAtOne(a, i) ==
    IF slots[a][i].refCount <= 1
    THEN /\ slots' = [slots EXCEPT ![a][i] = Vacant(nextFree[a])]
         /\ nextFree' = [nextFree EXCEPT ![a] = i]
    ELSE /\ slots' = [slots EXCEPT ![a][i].refCount = @ - 1]
         /\ UNCHANGED nextFree

(* Slots::dec                                                               *)
Dec(a, i) ==
    IF slots[a][i].refCount = 0
    THEN /\ slots' = [slots EXCEPT ![a][i] = Vacant(nextFree[a])]
         /\ nextFree' = [nextFree EXCEPT ![a] = i]
    ELSE /\ slots' = [slots EXCEPT ![a][i].refCount = @ - 1]
         /\ UNCHANGED nextFree

(* Drop for DynamicRoot.                                                    *)
DropHandle(h) ==
    /\ Exists(h)
    /\ IF handle[h].set \in alive
       THEN /\ IsOccupied(slots[handle[h].set][handle[h].index])
            /\ Dec(handle[h].set, handle[h].index)
       ELSE UNCHANGED <<slots, nextFree>>
    /\ handle' = [handle EXCEPT ![h] = None]
    /\ UNCHANGED alive

(* The Inner of a set is dropped, and with it the only Rc of its slots.      *)
DropSet(a) ==
    /\ a \in alive
    /\ alive' = alive \ {a}
    /\ slots' = [slots EXCEPT ![a] = << >>]
    /\ nextFree' = [nextFree EXCEPT ![a] = NULL_INDEX]
    /\ UNCHANGED handle

RootsNext ==
    \/ \E a \in Sets : New(a) \/ DropSet(a)
    \/ \E a \in Sets, h \in Handles, o \in Roots : Stash(a, h, o)
    \/ \E h, k \in Handles : Clone(h, k)
    \/ \E h \in Handles : DropHandle(h)

RootsSpec == RootsInit /\ [][RootsNext]_rootVars

-----------------------------------------------------------------------------
Slot == [root : Roots \cup {None}, refCount : 0..MaxCount, nextFree : Nat]

RootsTypeOK ==
    /\ alive \in SUBSET Sets
    /\ slots \in [Sets -> Seq(Slot)]
    /\ nextFree \in [Sets -> Nat]
    /\ handle \in [Handles -> HandleRecords \cup {None}]

HandlesOf(a, i) ==
    {h \in Handles : Exists(h) /\ handle[h].set = a /\ handle[h].index = i}

VacantIn(s) == {i \in 1..Len(s) : ~IsOccupied(s[i])}

(* Every handle to a live set finds its slot occupied by its own object:     *)
(* inc and dec never panic ("taken slot has been improperly freed"), and     *)
(* fetch, which trusts the handle's pointer once the addresses agree, gives  *)
(* out an object that the set roots.  No slot is reused, and no set's        *)
(* address, while a handle still means the old one.                         *)
HandlesKeepRoots ==
    /\ RootsTypeOK
    /\ \A h \in Handles : Exists(h) /\ handle[h].set \in alive =>
          /\ handle[h].index \in Indices(handle[h].set)
          /\ slots[handle[h].set][handle[h].index].root = handle[h].ptr

(* The vacant slots of s in the order of the list that starts at first: the  *)
(* first has the highest rank, and every slot links to the one below it.     *)
Ordered(s, first, rank) ==
    LET V == VacantIn(s) IN
    /\ \A i, j \in V : rank[i] = rank[j] => i = j
    /\ \A i \in V : IF s[i].nextFree = NULL_INDEX THEN rank[i] = 1
                    ELSE s[i].nextFree \in V /\ rank[i] = rank[s[i].nextFree] + 1
    /\ IF first = NULL_INDEX THEN V = {}
       ELSE first \in V /\ rank[first] = Cardinality(V)

ListThrough(s, first) ==
    \E rank \in [VacantIn(s) -> 1..Cardinality(VacantIn(s))] : Ordered(s, first, rank)

(* next_free starts a list through every vacant slot, and no other, once     *)
(* ("free slot linked list corrupted").                                     *)
FreeListExact == \A a \in alive : ListThrough(slots[a], nextFree[a])

(* The vector grows only when every slot is in use, so a set never holds     *)
(* more slots than there were handles to it at one time.                    *)
SlotsReused ==
    [][ \A a \in Sets : Len(slots[a]') > Len(slots[a]) => VacantIn(slots[a]) = {} ]_rootVars

(* The set of slots implements the registry of roots.                       *)
Registry == INSTANCE RootRegistry WITH
    pointer <- [h \in Handles |->
                   IF Exists(h) THEN [set |-> handle[h].set, ptr |-> handle[h].ptr] ELSE None],
    rooted <- [a \in Sets |-> RootsIn(slots[a])]

ImplementsRegistry == Registry!RegistrySpec
=============================================================================
