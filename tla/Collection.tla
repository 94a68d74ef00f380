------------------------------ MODULE Collection ------------------------------
(***************************************************************************)
(* When the collector of GcContext runs: Context::do_collection             *)
(* (src/context.rs) and the entry points of src/arena.rs that call it,      *)
(* collect_debt, mark_debt, finish_marking, cycle_debt, finish_cycle and    *)
(* MarkedArena::start_sweeping, with the MarkedArena that marking hands     *)
(* out.                                                                     *)
(*                                                                         *)
(* A call is a sequence of steps of GcContext's collector, one per turn of  *)
(* the loop of do_collection.  Whether there is allocation debt left is     *)
(* taken to be arbitrary at each test of it: GcMetrics models the debt.     *)
(***************************************************************************)
EXTENDS GcContext

VARIABLES
    call,       \* the call to do_collection in progress
    outcome     \* how the last one ended, until something else happens

collectionVars == <<call, outcome>>
allVars == <<vars, collectionVars>>

\* RunUntil
RunUntils == {"PayDebt", "Stop"}

\* Stop, an enum whose order the code relies on
Stops == {"FullyMarked", "AtSweep", "FinishCycle", "Full"}
Rank  == [s \in Stops |-> CASE s = "FullyMarked" -> 1 [] s = "AtSweep" -> 2
                            [] s = "FinishCycle" -> 3 [] s = "Full" -> 4]
StopsBy(s, limit) == Rank[s] <= Rank[limit]

(* The entry points, and what each of them asks of do_collection.           *)
Request(u, s) == [until |-> u, stop |-> s]

CollectDebt   == Request("PayDebt", "Full")
MarkDebt      == Request("PayDebt", "FullyMarked")
FinishMarking == Request("Stop", "FullyMarked")
CycleDebt     == Request("PayDebt", "FinishCycle")
FinishCycleNow == Request("Stop", "FinishCycle")
StartSweeping == Request("Stop", "AtSweep")

Requests == {CollectDebt, MarkDebt, FinishMarking, CycleDebt, FinishCycleNow,
             StartSweeping}

\* from: the phase the call found, which only properties read
Calls == [until : RunUntils, stop : Stops, hasSlept : BOOLEAN, from : Phases]
NoCall == [until |-> "Stop", stop |-> "FullyMarked", hasSlept |-> FALSE,
           from |-> "Drop"]

Calling == call # NoCall

Outcomes == {"none", "returned", "marked", "panicked"}

CollectionInit == Init /\ call = NoCall /\ outcome = "none"

-----------------------------------------------------------------------------
(* Mutant: a MarkedArena is returned without a look at the root. *)
EndsUnchecked(stop) ==
    /\ call' = NoCall
    /\ outcome' = IF stop = "FullyMarked" /\ phase' = "Mark" /\ ~QueuesRemaining'
                  THEN "marked" ELSE "returned"

(* mark_debt and finish_marking return a MarkedArena if marking is complete *)
(* when they end, also if they did nothing.                                 *)
Ends(stop) ==
    /\ call' = NoCall
    /\ outcome' = IF stop = "FullyMarked" /\ phase' = "Mark" /\ ~GrayRemaining'
                  THEN "marked" ELSE "returned"

Panics == call' = NoCall /\ outcome' = "panicked"

(* The end of a turn of the loop: go on, unless it was enough that there is *)
(* no debt left.                                                            *)
Goes(hasSlept) ==
    \/ call' = [call EXCEPT !.hasSlept = hasSlept] /\ UNCHANGED outcome
    \/ call.until = "PayDebt" /\ Ends(call.stop)

(* A call begins between callbacks; start_sweeping consumes a MarkedArena.  *)
(* Without debt a call that only pays debt does nothing.                    *)
Begin(r) ==
    /\ ~Calling /\ mode = "idle" /\ phase # "Drop"
    /\ r = StartSweeping => outcome = "marked"
    /\ UNCHANGED vars
    /\ \/ /\ call' = [until |-> r.until, stop |-> r.stop, hasSlept |-> FALSE,
                      from |-> phase]
          /\ outcome' = "none"
       \/ r.until = "PayDebt" /\ Ends(r.stop)

(* Mutant: the call does not remember that it began the cycle. *)
LoopSleepsOnly == Wake /\ Goes(FALSE)

LoopSleep == Wake /\ Goes(TRUE)

(* A turn of the loop while marking: a step of mark_one that found work.    *)
LoopMark ==
    \/ \E o \in Obj : MarkOne(o) /\ Goes(call.hasSlept)
    \/ MarkRoot /\ Goes(call.hasSlept)
    \/ \E o \in Obj : \E S \in SUBSET strong[o], W \in SUBSET weak[o] :
           MarkOnePanics(o, S, W) /\ Panics
    \/ \E S \in SUBSET rootStrong, W \in SUBSET rootWeak :
           MarkRootPanics(S, W) /\ Panics

(* Mutant: marking stops before the sweep for start_sweeping too. *)
LoopMarkedAtSweep ==
    /\ phase = "Mark" /\ ~GrayRemaining
    /\ IF StopsBy(call.stop, "AtSweep")
       THEN UNCHANGED vars /\ Ends(call.stop)
       ELSE StartSweep /\ Goes(call.hasSlept)

(* ... or found none.                                                       *)
LoopMarked ==
    /\ phase = "Mark" /\ ~GrayRemaining
    /\ IF StopsBy(call.stop, "FullyMarked")
       THEN UNCHANGED vars /\ Ends(call.stop)
       ELSE StartSweep /\ Goes(call.hasSlept)

SweepOne ==
    \/ SweepWhite(FALSE) /\ Goes(call.hasSlept)
    \/ SweepWhiteWeak /\ (Goes(call.hasSlept) \/ (MayPanic /\ isLive[sweep] /\ Panics))
    \/ SweepBlack /\ Goes(call.hasSlept)
    \/ SweepWhite(TRUE) /\ Panics

(* Mutant: FinishCycle is not told apart from Full. *)
CycleEndsWhenSlept ==
    /\ FinishCycle
    /\ IF call.hasSlept THEN Ends(call.stop) ELSE Goes(call.hasSlept)

(* The cycle ends.  The call ends with it if it was asked to, or if it has  *)
(* done the whole cycle.                                                    *)
CycleEnds ==
    /\ FinishCycle
    /\ IF call.stop = "FinishCycle" \/ call.hasSlept
       THEN Ends(call.stop)
       ELSE Goes(call.hasSlept)

LoopSweep ==
    /\ phase = "Sweep"
    /\ IF StopsBy(call.stop, "AtSweep")
       THEN UNCHANGED vars /\ Ends(call.stop)
       ELSE SweepOne \/ CycleEnds

Loop == Calling /\ (LoopSleep \/ LoopMark \/ LoopMarked \/ LoopSweep)

(* Everything else happens between calls.  A finalizer takes the MarkedArena *)
(* that the call before it returned; whatever else happens drops it.        *)
Outside ==
    /\ ~Calling
    /\ \/ BeginFinalize /\ outcome = "marked"
       \/ BeginMutate \/ BeginMutateRoot \/ EndCallback
       \/ Mutator \/ Teardown
    /\ outcome' = "none" /\ UNCHANGED call

CollectionNext == (\E r \in Requests : Begin(r)) \/ Loop \/ Outside

(* The loop of do_collection does not wait for anything.                    *)
CollectionSpec ==
    CollectionInit /\ [][CollectionNext]_allVars /\ WF_allVars(Loop)

-----------------------------------------------------------------------------
CollectionTypeOK ==
    /\ TypeOK
    /\ call \in Calls /\ outcome \in Outcomes
    /\ Calling => mode = "idle" /\ Running
    /\ outcome = "marked" => phase = "Mark" /\ ~GrayRemaining

Returns == Calling /\ ~Calling' /\ outcome' # "panicked"

(* Every call comes to an end, with any debt and at any phase: no sequence  *)
(* of turns runs round the phases for ever, and a call that stops for a     *)
(* panic has stopped too.                                                   *)
CallsEnd == Calling ~> ~Calling

(* The way a call still has to go: it may find a cycle in any phase, end it,  *)
(* and do one of its own; while marking colours only darken, root included,  *)
(* and sweeping leaves less of the list.                                     *)
LegsLeft == (IF call.hasSlept THEN 0 ELSE 3)
            + CASE phase = "Mark" -> 2 [] phase = "Sweep" -> 1 [] OTHER -> 0

ToDarken == Cardinality({o \in Linked : color[o] = "White"})
            + Cardinality({o \in Linked : color[o] \in Whites})
            + Cardinality({o \in Linked : color[o] # "Black"})
            + IF rootNeedsTrace THEN 1 ELSE 0

TurnsLeft == IF phase = "Mark" THEN ToDarken ELSE Cardinality(Pending)

(* Why: no turn of the loop is in vain, and one that wakes the collector or   *)
(* ends a cycle never leads back to where the call has been.  So a call ends *)
(* after no more turns than the heap it met allows, with any debt.           *)
TurnsRunOut ==
    [][ Calling /\ Calling' =>
            \/ LegsLeft' < LegsLeft
            \/ LegsLeft' = LegsLeft /\ TurnsLeft' < TurnsLeft
      ]_allVars

(* What the enum Stop says of a full cycle done in one call: all that is    *)
(* unreachable has been freed.  The heap is then exactly what the root      *)
(* reaches, and the boxes are those of that and of the weak pointers in it, *)
(* but for boxes that an earlier panic leaked.                              *)
AtomicCycleExact ==
    [][ (FinishCycle /\ call.hasSlept) =>
            /\ {o \in Linked : isLive[o]}' = RootReach'
            /\ Linked' = RootReach' \cup rootWeak' \cup WeakOf(RootReach)'
      ]_allVars

(* The postconditions the documentation of the entry points gives, for the  *)
(* calls that no panic interrupts: finish_marking returns a MarkedArena     *)
(* unless the sweep had begun; start_sweeping leaves the arena sweeping, as *)
(* it asserts; finish_cycle leaves it sleeping.                             *)
StopsWhereAsked ==
    [][ Returns =>
            LET r == Request(call.until, call.stop) IN
            /\ r = FinishMarking => outcome' = "marked" \/ call.from = "Sweep"
            /\ r = StartSweeping => phase' = "Sweep"
            /\ r = FinishCycleNow => phase' = "Sleep"
      ]_allVars

(* The two entry points for users who track phases never go past the one    *)
(* they promise to stop at: mark_debt and finish_marking never sweep,       *)
(* cycle_debt and finish_cycle never start a cycle after ending one; and,   *)
(* as do_collection asserts, a call that did a full cycle and was not asked  *)
(* to stop after it was asked to run until Full.                            *)
KeepsToItsPhases ==
    [][ Calling =>
            /\ call.stop = "FullyMarked" => phase' # "Sweep" \/ call.from = "Sweep"
            /\ call.stop = "FinishCycle" /\ Wake => call.from = "Sleep"
            /\ FinishCycle /\ call.hasSlept => call.stop \in {"FinishCycle", "Full"}
      ]_allVars
=============================================================================
