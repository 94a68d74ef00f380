----------------------------- MODULE RootRegistry -----------------------------
(***************************************************************************)
(* What a DynamicRootSet (src/dynamic_roots.rs) promises to its users,       *)
(* without slots, free lists and reference counts: while the set is alive    *)
(* it roots exactly the objects that some handle to it stands for.           *)
(***************************************************************************)
CONSTANTS
    Sets,       \* places where a root set may live
    Handles,    \* DynamicRoot handles that may exist at a time
    Roots,      \* the objects that are stashed
    None        \* a handle that does not exist

VARIABLES
    alive,      \* the sets that exist and are not collected
    pointer,    \* what each handle stands for
    rooted      \* the objects each set keeps alive

registryVars == <<alive, pointer, rooted>>

RegistryInit ==
    /\ alive = {}
    /\ pointer = [h \in Handles |-> None]
    /\ rooted = [a \in Sets |-> {}]

Stands(h, a, o) == pointer[h] # None /\ pointer[h] = [set |-> a, ptr |-> o]

(* DynamicRootSet::new; handles to an earlier set at this place are gone.    *)
Create(a) ==
    /\ a \notin alive
    /\ \A h \in Handles, o \in Roots : ~Stands(h, a, o)
    /\ alive' = alive \cup {a}
    /\ UNCHANGED <<pointer, rooted>>

(* DynamicRootSet::stash                                                    *)
Register(a, h, o) ==
    /\ a \in alive /\ pointer[h] = None
    /\ pointer' = [pointer EXCEPT ![h] = [set |-> a, ptr |-> o]]
    /\ rooted' = [rooted EXCEPT ![a] = @ \cup {o}]
    /\ UNCHANGED alive

(* Clone for DynamicRoot                                                    *)
Copy(h, k) ==
    /\ pointer[h] # None /\ pointer[k] = None
    /\ pointer' = [pointer EXCEPT ![k] = pointer[h]]
    /\ UNCHANGED <<alive, rooted>>

(* Drop for DynamicRoot: the last handle for an object lets it go.           *)
Release(h) ==
    /\ pointer[h] # None
    /\ pointer' = [pointer EXCEPT ![h] = None]
    /\ rooted' = [a \in Sets |->
          {o \in rooted[a] : Stands(h, a, o) =>
                                 \E k \in Handles \ {h} : Stands(k, a, o)}]
    /\ UNCHANGED alive

(* The set is collected, or dropped with its arena.                         *)
Collect(a) ==
    /\ a \in alive
    /\ alive' = alive \ {a}
    /\ rooted' = [rooted EXCEPT ![a] = {}]
    /\ UNCHANGED pointer

RegistryNext ==
    \/ \E a \in Sets : Create(a) \/ Collect(a)
    \/ \E a \in Sets, h \in Handles, o \in Roots : Register(a, h, o)
    \/ \E h, k \in Handles : Copy(h, k)
    \/ \E h \in Handles : Release(h)

RegistrySpec == RegistryInit /\ [][RegistryNext]_registryVars
=============================================================================
