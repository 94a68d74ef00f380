---- MODULE MCWriteAccess ----
(* WriteAccess, for TLC: a box with a struct of one of everything, a box that *)
(* is a Lock or a RefLock, and a root that is a Lock.                        *)
EXTENDS WriteAccess, TLC
CONSTANTS a, b, p
CONSTANTS record, option, reflock, inner, gc, plain, cell, alone

TestKind ==
    record :> "struct" @@ option :> "sum" @@ reflock :> "reflock" @@ inner :> "lock"
    @@ gc :> "gc" @@ plain :> "lock" @@ cell :> "lock" @@ alone :> "reflock"

TestParts == [n \in Nodes |->
    CASE n = record  -> {option, gc, plain}
      [] n = option  -> {reflock}
      [] n = reflock -> {inner}
      [] OTHER       -> {}]

TestTops == {a :> record @@ b :> t @@ Root :> cell : t \in {cell, alone}}
====
