---- MODULE MCExternalBytes ----
(* ExternalBytes, for TLC: the two Pacing values of src/metrics.rs, in halves *)
(* of a byte, DEFAULT rounded to them.                                      *)
EXTENDS ExternalBytes
CONSTANT MinSleep

DEFAULT ==
    [sleep |-> 1, minSleep |-> MinSleep,
     factor |-> [k \in Kinds |-> IF k \in {"traced", "freed"} THEN 1 ELSE 0]]

STOP_THE_WORLD ==
    [sleep |-> 2, minSleep |-> MinSleep, factor |-> NoWork]

BothPacings == {DEFAULT, STOP_THE_WORLD}
====
