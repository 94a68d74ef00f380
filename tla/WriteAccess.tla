------------------------------ MODULE WriteAccess ------------------------------
(***************************************************************************)
(* How user code comes by the right to store pointers: Write references and  *)
(* their projections (src/barrier.rs), Lock and RefLock (src/lock.rs) and     *)
(* Gc::write, Gc::unlock and Gc::as_ref (src/gc.rs).  What GcContext takes    *)
(* for granted, that a store follows a barrier on the box stored into, is     *)
(* here what the references allow.                                          *)
(*                                                                         *)
(* A value is a tree of nodes.  A reference leads to a node of the value of   *)
(* one owner: of a box, of the root, or of a value that is not yet moved into *)
(* a box.  Unsafe functions (assume, unlock_unchecked, as_cell) are left out. *)
(***************************************************************************)
EXTENDS Integers, FiniteSets

CONSTANTS
    Boxes,      \* the boxes, allocated or still to be
    Root,       \* the root of the arena
    Nodes,      \* the nodes of the types in use
    Kind,       \* what each node is
    Parts,      \* the fields of a struct, the payload of an Option or Result,
                \* what a lock is around
    Tops,       \* the types that the values of the owners may have
    Static,     \* the nodes of types that are 'static
    Pointers,   \* the Gc pointers stored in locks
    MaxRefs,    \* bound: references at a time
    MaxReaders  \* bound: the Refs a lock is borrowed by, forgotten ones included

Owners == Boxes \cup {Root}
Kinds  == {"struct", "sum", "gc", "lock", "reflock"}
LockKinds == {"lock", "reflock"}

ASSUME OwnersAssumption == Root \notin Boxes /\ Tops \subseteq [Owners -> Nodes]
ASSUME ReadersAssumption == MaxReaders \in Nat \ {0}
ASSUME NodesAssumption ==
    /\ Kind \in [Nodes -> Kinds] /\ Parts \in [Nodes -> SUBSET Nodes] /\ Static \subseteq Nodes
    \* the parts of a type that is 'static are, and it has no Gc<'gc, _> in it
    /\ \A n \in Static : Kind[n] # "gc" /\ Parts[n] \subseteq Static

VARIABLES
    top,        \* the type of each owner's value
    allocated,  \* the boxes; the other values are local variables
    holds,      \* the pointers in each lock of each owner
    borrowed,   \* the flag of each RefCell: the number of readers, -1: a writer
    refs,       \* the references and guards user code has
    mode,       \* the callback in progress
    barriered,  \* boxes that had an unrestricted barrier in this callback
    traced,     \* the owners that are traced in this cycle and not again gray
    saw         \* the pointers that were found in them

accessVars == <<top, allocated, holds, borrowed, refs, mode, barriered, traced, saw>>

\* &T, &Write<T>, &mut T or &mut Write<T>, the unlocked &Cell<T> or
\* &RefCell<T>, and the guards Ref<T> and RefMut<T>
Access == {"shared", "write", "mut", "unlocked", "Ref", "RefMut"}
Guards == {"Ref", "RefMut"}
References == [owner : Owners, node : Nodes, access : Access]

To(o, n, a) == [owner |-> o, node |-> n, access |-> a]

IsLock(n) == Kind[n] \in LockKinds

\* the nodes inside of n, at any depth
Inside == [n \in Nodes |->
    LET down[k \in Nat] == IF k = 0 THEN Parts[n]
                            ELSE down[k - 1] \cup UNION {Parts[m] : m \in down[k - 1]}
    IN down[Cardinality(Nodes)]]

Contents(o) == UNION {holds[o][n] : n \in Nodes}

InCallback == mode # "idle"

AccessInit ==
    /\ top \in Tops /\ allocated = {} /\ traced = {}
    /\ holds = [o \in Owners |-> [n \in Nodes |-> {}]]
    /\ saw = [o \in Owners |-> {}]
    /\ borrowed = [o \in Owners |-> [n \in Nodes |-> 0]]
    /\ refs = {} /\ mode = "mutate_root" /\ barriered = {}

-----------------------------------------------------------------------------
(* References.                                                              *)

Gain(new) ==
    /\ refs' = refs \cup {new}
    /\ Cardinality(refs') <= MaxRefs

\* a reference made from r, by its side or in its place
Derive(r, new) == Gain(new) \/ refs' = (refs \ {r}) \cup {new}

RefFrame == UNCHANGED <<top, allocated, holds, borrowed, mode, barriered, traced, saw>>

(* Gc::as_ref and Deref for Gc, of any Gc that user code has read.           *)
AsRef(b) ==
    /\ InCallback /\ b \in allocated
    /\ Gain(To(b, top[b], "shared"))
    /\ RefFrame

\* a local value is its owner's; the root is, in mutate_root
Borrow(o) ==
    /\ InCallback
    /\ o \in Boxes \ allocated \/ (o = Root /\ mode = "mutate_root")
    /\ Gain(To(o, top[o], "mut"))
    /\ RefFrame

ReadRoot ==
    /\ InCallback /\ Gain(To(Root, top[Root], "shared"))
    /\ RefFrame

(* A part of what a reference, exclusive or not, or a guard leads to; it     *)
(* takes a guard to get inside a lock, or exclusive access (get_mut).        *)
Part(r, n) ==
    /\ n \in Parts[r.node]
    /\ \/ r.access = "shared" /\ ~IsLock(r.node) /\ Derive(r, To(r.owner, n, "shared"))
       \/ r.access = "mut" /\ Derive(r, To(r.owner, n, "mut"))
       \/ r.access = "Ref" /\ Gain(To(r.owner, n, "shared"))
       \/ r.access = "RefMut" /\ Gain(To(r.owner, n, "mut"))
    /\ RefFrame

(* Deref for Write; and a &mut serves as a &.                               *)
Weaken(r) ==
    /\ r.access \in {"write", "mut"}
    /\ Derive(r, To(r.owner, r.node, "shared"))
    /\ RefFrame

(* Write::from_mut.                                                         *)
FromMut(r) ==
    /\ r.access = "mut"
    /\ Derive(r, To(r.owner, r.node, "write"))
    /\ RefFrame

(* Mutant: from_static without the bound. *)
FromStaticUnbound(r) ==
    /\ r.access = "shared"
    /\ Derive(r, To(r.owner, r.node, "write"))
    /\ RefFrame

(* Write::from_static.                                                      *)
FromStatic(r) ==
    /\ r.access = "shared" /\ r.node \in Static
    /\ Derive(r, To(r.owner, r.node, "write"))
    /\ RefFrame

(* Mutant: a projection may go through a Gc. *)
FieldCoerced(r, n) ==
    /\ r.access = "write"
    /\ \/ Kind[r.node] = "struct" /\ n \in Parts[r.node] /\ Derive(r, To(r.owner, n, "write"))
       \/ Kind[r.node] = "gc" /\ \E b \in allocated :
              n = top[b] /\ Derive(r, To(b, n, "write"))
    /\ RefFrame

(* field!: a pattern takes the field, so that nothing is dereferenced.       *)
Field(r, n) ==
    /\ r.access = "write" /\ Kind[r.node] = "struct" /\ n \in Parts[r.node]
    /\ Derive(r, To(r.owner, n, "write"))
    /\ RefFrame

(* as_write, of an Option or a Result.                                      *)
AsWrite(r, n) ==
    /\ r.access = "write" /\ Kind[r.node] = "sum" /\ n \in Parts[r.node]
    /\ Derive(r, To(r.owner, n, "write"))
    /\ RefFrame

(* Write::unlock.                                                           *)
Unlock(r) ==
    /\ r.access = "write" /\ IsLock(r.node)
    /\ Derive(r, To(r.owner, r.node, "unlocked"))
    /\ RefFrame

(* A reference is used no more.                                             *)
LetGo(r) ==
    /\ r.access \notin Guards
    /\ refs' = refs \ {r}
    /\ RefFrame

-----------------------------------------------------------------------------
(* What goes through a barrier of the box.                                  *)

Untrace(o) ==
    /\ traced' = traced \ {o}
    /\ saw' = [saw EXCEPT ![o] = {}]

(* Mutant: the barrier is left out. *)
NoBarrier(b) == UNCHANGED <<barriered, traced, saw>>

(* backward_barrier(gc, None): the box is traced again.                      *)
Barrier(b) ==
    /\ InCallback /\ b \in allocated
    /\ barriered' = barriered \cup {b}
    /\ Untrace(b)

(* Gc::write.                                                               *)
Write(b) ==
    /\ Barrier(b)
    /\ Gain(To(b, top[b], "write"))
    /\ UNCHANGED <<top, allocated, holds, borrowed, mode>>

(* Gc::unlock.                                                              *)
GcUnlock(b) ==
    /\ IsLock(top[b])
    /\ Barrier(b)
    /\ Gain(To(b, top[b], "unlocked"))
    /\ UNCHANGED <<top, allocated, holds, borrowed, mode>>

PutIn(o, n, S) ==
    /\ n \in Static => S = {}
    /\ holds' = [holds EXCEPT ![o][n] = S]

(* Gc<Lock>::set.                                                           *)
GcSet(b, S) ==
    /\ b \in allocated /\ Kind[top[b]] = "lock"
    /\ Barrier(b)
    /\ PutIn(b, top[b], S)
    /\ UNCHANGED <<top, allocated, borrowed, refs, mode>>

TakeFlag(o, n, step) == borrowed' = [borrowed EXCEPT ![o][n] = @ + step]

(* Gc<RefLock>::borrow_mut and try_borrow_mut: the barrier comes first, and   *)
(* stays where the borrow fails.                                            *)
GcBorrowMut(b) ==
    /\ b \in allocated /\ Kind[top[b]] = "reflock"
    /\ Barrier(b)
    /\ IF borrowed[b][top[b]] = 0
       THEN Gain(To(b, top[b], "RefMut")) /\ TakeFlag(b, top[b], -1)
       ELSE UNCHANGED <<refs, borrowed>>
    /\ UNCHANGED <<top, allocated, holds, mode>>

-----------------------------------------------------------------------------
(* Cell and RefCell.                                                        *)

LockFrame == UNCHANGED <<top, allocated, mode, barriered, traced, saw>>

\* a store by Cell::set, a RefMut, get_mut or a plain assignment
Store(r, S) ==
    /\ IsLock(r.node)
    /\ \/ r.access = "unlocked" /\ Kind[r.node] = "lock"
       \/ r.access \in {"mut", "RefMut"}
    /\ PutIn(r.owner, r.node, S)
    /\ UNCHANGED <<borrowed, refs>>
    /\ LockFrame

BorrowMut(r) ==
    /\ r.access = "unlocked" /\ Kind[r.node] = "reflock" /\ borrowed[r.owner][r.node] = 0
    /\ Gain(To(r.owner, r.node, "RefMut")) /\ TakeFlag(r.owner, r.node, -1)
    /\ UNCHANGED holds /\ LockFrame

(* RefLock::borrow and try_borrow.  Refs of the same lock that are in use     *)
(* together are one here.                                                   *)
BorrowShared(r) ==
    /\ r.access \in {"shared", "unlocked"} /\ Kind[r.node] = "reflock"
    /\ borrowed[r.owner][r.node] \in 0..(MaxReaders - 1)
    /\ To(r.owner, r.node, "Ref") \notin refs
    /\ Gain(To(r.owner, r.node, "Ref")) /\ TakeFlag(r.owner, r.node, 1)
    /\ UNCHANGED holds /\ LockFrame

Release(r) == TakeFlag(r.owner, r.node, IF r.access = "Ref" THEN -1 ELSE 1)

(* A guard is dropped, when nothing borrows from it any more, or forgotten.  *)
DropGuard(r) ==
    /\ r.access \in Guards
    /\ \A q \in refs : q.owner = r.owner => q.node \notin Inside[r.node]
    /\ refs' = refs \ {r} /\ Release(r)
    /\ UNCHANGED holds /\ LockFrame

ForgetGuard(r) ==
    /\ r.access \in Guards
    /\ refs' = refs \ {r}
    /\ UNCHANGED <<holds, borrowed>> /\ LockFrame

(* Mutant: take is made into a replace. *)
TakeReplaces(r) ==
    /\ r.access = "shared" /\ IsLock(r.node)
    /\ Kind[r.node] = "reflock" => borrowed[r.owner][r.node] = 0
    /\ \E S \in SUBSET Pointers : PutIn(r.owner, r.node, S)
    /\ UNCHANGED <<borrowed, refs>> /\ LockFrame

(* Lock::take and RefLock::take need neither Write nor barrier.  The value    *)
(* that is left is a Default, and that has no Gc pointers.                   *)
Take(r) ==
    /\ r.access = "shared" /\ IsLock(r.node)
    /\ Kind[r.node] = "reflock" => borrowed[r.owner][r.node] = 0
    /\ PutIn(r.owner, r.node, {})
    /\ UNCHANGED <<borrowed, refs>> /\ LockFrame

-----------------------------------------------------------------------------
(* Boxes, callbacks and the collector.                                      *)

(* Gc::new: the value moves, and every reference to it has ended.            *)
Allocate(b) ==
    /\ InCallback /\ b \notin allocated
    /\ \A r \in refs : r.owner # b
    /\ allocated' = allocated \cup {b}
    /\ UNCHANGED <<top, holds, borrowed, refs, mode, barriered, traced, saw>>

(* mutate, and mutate_root with its root barrier.                           *)
Begin(m) ==
    /\ mode = "idle" /\ mode' = m
    /\ IF m = "mutate_root" THEN Untrace(Root) ELSE UNCHANGED <<traced, saw>>
    /\ UNCHANGED <<top, allocated, holds, borrowed, refs, barriered>>

(* Nothing that borrows from a callback is left when it ends: references and *)
(* guards have the lifetime of its Gc pointers.                             *)
EndCallback ==
    /\ InCallback /\ refs = {}
    /\ mode' = "idle" /\ barriered' = {}
    /\ UNCHANGED <<top, allocated, holds, borrowed, refs, traced, saw>>

(* The collector traces an owner's value, unless a RefLock in it is still    *)
(* mutably borrowed, when trace panics and the box stays gray.               *)
Trace(o) ==
    /\ mode = "idle" /\ o \in allocated \cup {Root} /\ o \notin traced
    /\ \A n \in Nodes : borrowed[o][n] # -1
    /\ traced' = traced \cup {o}
    /\ saw' = [saw EXCEPT ![o] = Contents(o)]
    /\ UNCHANGED <<top, allocated, holds, borrowed, refs, mode, barriered>>

(* A cycle ends: everything is white.                                       *)
NewCycle ==
    /\ mode = "idle" /\ traced # {}
    /\ traced' = {} /\ saw' = [o \in Owners |-> {}]
    /\ UNCHANGED <<top, allocated, holds, borrowed, refs, mode, barriered>>

Project(r) ==
    \/ Weaken(r) \/ FromMut(r) \/ FromStatic(r) \/ Unlock(r) \/ LetGo(r)
    \/ \E n \in Nodes : Part(r, n) \/ Field(r, n) \/ AsWrite(r, n)

Use(r) ==
    \/ \E S \in SUBSET Pointers : Store(r, S)
    \/ BorrowMut(r) \/ BorrowShared(r) \/ DropGuard(r) \/ ForgetGuard(r) \/ Take(r)

AccessNext ==
    \/ ReadRoot
    \/ \E o \in Owners : Borrow(o)
    \/ \E b \in Boxes : AsRef(b) \/ Write(b) \/ GcUnlock(b) \/ GcBorrowMut(b) \/ Allocate(b)
    \/ \E b \in Boxes, S \in SUBSET Pointers : GcSet(b, S)
    \/ \E r \in refs : Project(r) \/ Use(r)
    \/ \E m \in {"mutate", "mutate_root"} : Begin(m)
    \/ EndCallback
    \/ \E o \in Owners : Trace(o)
    \/ NewCycle

AccessSpec == AccessInit /\ [][AccessNext]_accessVars

-----------------------------------------------------------------------------
AccessTypeOK ==
    /\ top \in Tops
    /\ allocated \subseteq Boxes /\ barriered \subseteq allocated
    /\ traced \subseteq allocated \cup {Root}
    /\ holds \in [Owners -> [Nodes -> SUBSET Pointers]]
    /\ saw \in [Owners -> SUBSET Pointers]
    /\ borrowed \in [Owners -> [Nodes -> -1..MaxReaders]]
    /\ refs \subseteq References
    /\ mode \in {"idle", "mutate", "mutate_root"}

(* Who may be written to: a box behind its barrier, the root behind the root *)
(* barrier, and a value that no one else can see.                           *)
Writable(o) == IF o = Root THEN mode = "mutate_root" ELSE o \in barriered \/ o \notin allocated

(* "A &Write<T> implies that a write barrier was triggered on the parent Gc" *)
(* (src/barrier.rs:81): so does whatever a Write was made into, by any       *)
(* number of projections, unlocks and borrows, unless no pointer can ever be *)
(* stored by way of it.                                                     *)
WritesCovered ==
    \A r \in refs : r.access \in {"write", "mut", "unlocked", "RefMut"} =>
                        r.node \in Static \/ Writable(r.owner)

(* What the references are for: a value that the collector has traced holds  *)
(* no pointer that it did not find there.                                   *)
TracedIsSeen == \A o \in traced : Contents(o) \subseteq saw[o]
=============================================================================
