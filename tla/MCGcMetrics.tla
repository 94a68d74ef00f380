----------------------------- MODULE MCGcMetrics -----------------------------
(* GcMetrics, for TLC. *)
EXTENDS GcMetrics

(* States without two histories of GcContext: no guard reads drops or doomed, *)
(* no other variable is computed from them, and no property of the runs that  *)
(* use this view mentions them.                                             *)
NoHistory ==
    <<phase, rootNeedsTrace, dropAll, color, listVars, queueVars, headerVars, valueVars,
      rootVars, births, boxes, leaked, barrierVars, handleVars, resurrected, metricsVars>>
=============================================================================
