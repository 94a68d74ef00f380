---- MODULE MCDynamicRoots ----
(* DynamicRoots, for TLC: handles are interchangeable, and so are objects. *)
EXTENDS DynamicRoots, TLC

Alike == Permutations(Handles) \cup Permutations(Roots)
====
