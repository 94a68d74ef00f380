---- MODULE MCBoxHeader ----
(* BoxHeader, for TLC: types of two alignments, and their vtables; boxes are *)
(* interchangeable.                                                         *)
EXTENDS BoxHeader, TLC
CONSTANTS wide, unit

Vtables    == wide :> 6 @@ unit :> 9
Sizes      == wide :> 40 @@ unit :> 0
Alignments == wide :> 32 @@ unit :> 1

\* Gc::erase
Erasures == {<<t, unit>> : t \in Types}

Alike == Permutations(Boxes)
====
