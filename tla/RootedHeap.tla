------------------------------ MODULE RootedHeap ------------------------------
(***************************************************************************)
(* DynamicRootSet at work in an arena: the collector of GcContext and the    *)
(* slots and handles of DynamicRoots together.                              *)
(*                                                                         *)
(* A set is an object of the arena, the Gc<Inner>, and the pointers it holds *)
(* are the roots in its occupied slots.  They change without user code       *)
(* writing to the object: stash adds one, behind a write barrier of its own, *)
(* and the last handle takes one away when it is dropped, at any moment:     *)
(* between two callbacks, between two steps of the collector, or while the   *)
(* arena is dropped, by the destructor of a value that owns the handle.      *)
(* The sweep, or the drop of the arena, drops the slots with the Inner.      *)
(*                                                                         *)
(* A callback holds here all that the root leads to, and so what the slots   *)
(* of its sets hold: that is more than fetch gives it.                      *)
(***************************************************************************)
EXTENDS GcContext

CONSTANTS
    Handles,    \* bound: DynamicRoot handles that exist at a time
    None,       \* no handle, no root
    MaxCount    \* the largest reference count

VARIABLES
    alive,              \* the objects that are sets and not dropped yet
    slots, nextFree,    \* their slots
    handle              \* the handles

Dyn == INSTANCE DynamicRoots WITH Sets <- Obj, Roots <- Obj

ASSUME SetsAssumption ==
    /\ MaxCount \in Nat /\ IsFiniteSet(Handles)
    /\ None \notin Dyn!HandleRecords /\ None \notin [set : Obj, ptr : Obj] /\ None \notin Obj

setVars    == <<alive, slots, nextFree, handle>>
rootedVars == <<vars, setVars>>

RootedInit == Init /\ Dyn!RootsInit

HeapFrame ==
    UNCHANGED <<phase, rootNeedsTrace, dropAll, listVars, headerVars, weak,
                gray, rootVars, memoryVars, barrierVars, mode, historyVars>>

-----------------------------------------------------------------------------
(* DynamicRootSet::new.                                                     *)
NewSet ==
    /\ Alloc({}, {}, TRUE)
    /\ Dyn!New(births + 1)

(* Mutant: stash adds the root without a write barrier. *)
NoBarrier(a, o) == UNCHANGED <<color, grayAgain>>

(* backward_barrier, as stash calls it.                                     *)
StashBarrier(a, o) ==
    IF BarrierNeeded(a) /\ MaybeWhite(o)
    THEN MakeGrayAgain(a)
    ELSE UNCHANGED <<color, grayAgain>>

(* DynamicRootSet::stash.  The type of a set itself is private, so that no   *)
(* Gc to it can be stashed.                                                 *)
Stash(a, h, o) ==
    /\ InCallback /\ a \in held \cap alive /\ o \in held \ alive
    /\ StashBarrier(a, o)
    /\ Dyn!Stash(a, h, o)
    /\ strong' = [strong EXCEPT ![a] = Dyn!RootsIn(slots'[a])]
    /\ UNCHANGED <<held, heldWeak>>
    /\ HeapFrame

(* DynamicRootSet::contains: a Weak and an Rc with the same address.         *)
Contains(a, h) == handle[h].set = a

(* fetch and try_fetch; a mismatch is a panic or an error and changes        *)
(* nothing.                                                                 *)
Fetch(a, h) ==
    /\ InCallback /\ a \in held \cap alive
    /\ Dyn!Exists(h) /\ Contains(a, h)
    /\ held' = held \cup Reach({handle[h].ptr})
    /\ heldWeak' = (heldWeak \cup WeakOf(Reach({handle[h].ptr}))) \ held'
    /\ UNCHANGED <<color, grayAgain, strong, setVars>>
    /\ HeapFrame

CloneHandle(h, k) ==
    /\ Dyn!Clone(h, k)
    /\ UNCHANGED vars

(* The pointers that the marking finds in a set, after a slot of it changed. *)
TracesSlots(a) ==
    strong' = IF Running /\ a \in alive
              THEN [strong EXCEPT ![a] = Dyn!RootsIn(slots'[a])] ELSE strong

DropHandle(h) ==
    /\ Dyn!DropHandle(h)
    /\ TracesSlots(handle[h].set)
    /\ UNCHANGED <<color, grayAgain, held, heldWeak>>
    /\ HeapFrame

(* Everything else user code does; none of it writes to a set.              *)
OtherUse ==
    /\ Callback \/ Mutator
    /\ \A a \in alive : strong'[a] = strong[a] /\ weak'[a] = weak[a]
    /\ UNCHANGED setVars

(* A set whose value is dropped drops its slots.                            *)
SlotsFollow ==
    IF \E a \in alive : ~isLive'[a]
    THEN \E a \in alive : ~isLive'[a] /\ Dyn!DropSet(a)
    ELSE UNCHANGED setVars

Run == (Collector \/ Teardown) /\ SlotsFollow

RootedNext ==
    \/ NewSet
    \/ \E a, o \in held, h \in Handles : Stash(a, h, o)
    \/ \E a \in held, h \in Handles : Fetch(a, h)
    \/ \E h, k \in Handles : CloneHandle(h, k)
    \/ \E h \in Handles : DropHandle(h)
    \/ OtherUse
    \/ Run

RootedSpec == RootedInit /\ [][RootedNext]_rootedVars

-----------------------------------------------------------------------------
(* "Will keep the root alive across garbage collections": while the set can  *)
(* be got at, now or in the next callback, what any of its handles fetches   *)
(* is alive and is not about to be swept, wherever in its cycle the          *)
(* collector was when it was stashed.                                       *)
HandlesFetchLive ==
    Running => \A h \in Handles :
        Dyn!Exists(h) /\ handle[h].set \in InHand =>
            LET o == handle[h].ptr IN o \in boxes /\ isLive[o] /\ o \notin Condemned

(* The collector finds in a set the objects of its handles and no others, so *)
(* that it neither frees an object in use nor keeps one nobody can fetch;    *)
(* and a set is alive for its handles exactly as long as its object is.      *)
SetsHoldWhatHandlesMean ==
    Running => /\ \A a \in alive : isLive[a] /\ strong[a] =
                    {handle[h].ptr : h \in {k \in Handles :
                                     Dyn!Exists(k) /\ handle[k].set = a}}
               /\ \A h \in Handles : Dyn!Exists(h) =>
                    (handle[h].set \in alive <=> isLive[handle[h].set])
=============================================================================
