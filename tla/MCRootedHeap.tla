---- MODULE MCRootedHeap ----
(* RootedHeap, for TLC: handles are interchangeable, and states that differ *)
(* only in what has happened to the dead are one: no action and no property *)
(* of this run reads drops, doomed or resurrected.                          *)
EXTENDS RootedHeap, TLC

Alike == Permutations(Handles)

NoHistory ==
    <<phase, rootNeedsTrace, dropAll, color, listVars, queueVars, headerVars,
      valueVars, rootVars, births, boxes, leaked, barrierVars, handleVars, setVars>>
====
