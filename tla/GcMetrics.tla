------------------------------- MODULE GcMetrics -------------------------------
(***************************************************************************)
(* The pacing of the collector: the counters of src/metrics.rs, the calls    *)
(* that src/context.rs makes to them at every step of GcContext, and the     *)
(* allocation debt that decides how long a call that pays debt goes on.      *)
(*                                                                         *)
(* Every box has size 1.  The counters are unsigned words that wrap beyond   *)
(* MaxWord, as the release build's do; a debug build panics where they would. *)
(* Work and debt are counted in twentieths of a byte, which makes the        *)
(* factors of Pacing::DEFAULT whole numbers.  External bytes, added debt and  *)
(* changes of Pacing are in ExternalBytes.                                  *)
(***************************************************************************)
EXTENDS GcContext

CONSTANTS
    MaxWord,        \* usize::MAX
    MinSleep        \* Pacing::min_sleep, in boxes

ASSUME MaxWordAssumption  == MaxWord \in Nat
ASSUME MinSleepAssumption == MinSleep \in Nat

VARIABLES
    totalGcs, allocated, dropped, freed, marked, traced, remembered,
    wakeupAmount, artificialDebt,
    work        \* history: the work recorded for each box in this cycle

metricsVars == <<totalGcs, allocated, dropped, freed, marked, traced, remembered,
                 wakeupAmount, artificialDebt, work>>
pacedVars == <<vars, metricsVars>>

Wrap == MaxWord + 1
Plus(c, n)  == (c + n) % Wrap
Minus(c, n) == (c - n) % Wrap
SaturatingPlus(c, n) == IF c + n < Wrap THEN c + n ELSE Wrap - 1

\* Pacing::DEFAULT, in twentieths
Byte  == 20
Sleep == 10
Mark  == 2
Trace == 8
Keep  == 1
Drop  == 4
Free  == 6

Larger(x, y) == IF x >= y THEN x ELSE y

(* Metrics::allocation_debt.                                                *)
Debits  == allocated * Byte - wakeupAmount + artificialDebt
Credits == marked * Mark + traced * Trace + remembered * Keep
           + dropped * Drop + freed * Free

(* Mutant: more credits than debits make a negative debt. *)
AllocationDebtSigned ==
    IF totalGcs = 0 \/ Debits <= 0 THEN 0 ELSE Debits - Credits

AllocationDebt ==
    IF totalGcs = 0 \/ Debits <= 0 THEN 0 ELSE Larger(Debits - Credits, 0)

MetricsInit ==
    /\ Init
    /\ totalGcs = 0 /\ allocated = 0 /\ dropped = 0 /\ freed = 0
    /\ marked = 0 /\ traced = 0 /\ remembered = 0
    /\ wakeupAmount = 0 /\ artificialDebt = 0
    /\ work = NoQueue

-----------------------------------------------------------------------------
(* The calls of Metrics, by what happened to the boxes in a step.           *)

Worked(S, amount) == [o \in Obj |-> IF o \in S THEN work[o] + amount ELSE work[o]]

(* Mutant: every colour change of an unmarked box counts as a mark. *)
MarkedAgain == {o \in Obj : color[o] \in Whites /\ color'[o] # color[o]}

(* Context::trace, trace_weak and resurrect: marking counts once, when a box *)
(* stops being white.                                                       *)
FirstMarked == {o \in Obj : color[o] = "White" /\ color'[o] # "White"}

(* make_gray_again takes the tracing of a black box back.                   *)
TakenBack == {o \in Obj : color[o] = "Black" /\ color'[o] = "Gray"}

CountMarked == marked' = Plus(marked, Cardinality(FirstMarked))

(* A box has an address of its own, and the allocator none for one more than *)
(* there are addresses.                                                     *)
MAlloc ==
    /\ Cardinality(boxes) < MaxWord
    /\ \E S \in SUBSET held, W \in SUBSET WeakHandles, nt \in BOOLEAN :
           Alloc(S, W, nt)
    /\ totalGcs' = Plus(totalGcs, 1) /\ allocated' = SaturatingPlus(allocated, 1)
    /\ UNCHANGED <<dropped, freed, marked, traced, remembered, wakeupAmount,
                   artificialDebt, work>>

(* Mutant: a backward barrier does not take the tracing back. *)
TracedOnce == UNCHANGED <<traced, work>>

(* Mutant: a backward barrier counts another trace. *)
TracedTwice ==
    /\ traced' = Plus(traced, Cardinality(TakenBack))
    /\ work' = Worked(TakenBack, Trace)

UndoTrace ==
    /\ traced' = Minus(traced, Cardinality(TakenBack))
    /\ work' = Worked(TakenBack, -Trace)

MBackwardBarrier ==
    /\ \/ \E p \in held, c \in held \cup {NULL} : BackwardBarrier(p, c)
       \/ \E p \in held, c \in WeakHandles : BackwardBarrierWeak(p, c)
    /\ UndoTrace
    /\ UNCHANGED <<totalGcs, allocated, dropped, freed, marked, remembered,
                   wakeupAmount, artificialDebt>>

(* Forward barriers and resurrection mark.                                  *)
MForwardBarrier ==
    /\ \/ \E p \in held \cup {NULL}, c \in held : ForwardBarrier(p, c)
       \/ \E p \in held \cup {NULL}, c \in WeakHandles : ForwardBarrierWeak(p, c)
       \/ \E o \in WeakHandles : Resurrect(o)
    /\ CountMarked
    /\ work' = Worked(FirstMarked, Mark)
    /\ UNCHANGED <<totalGcs, allocated, dropped, freed, traced, remembered,
                   wakeupAmount, artificialDebt>>

MMarkOne(o) ==
    /\ MarkOne(o)
    /\ CountMarked /\ traced' = Plus(traced, 1)
    /\ work' = [Worked(FirstMarked, Mark) EXCEPT ![o] = @ + Trace]
    /\ UNCHANGED <<totalGcs, allocated, dropped, freed, remembered, wakeupAmount,
                   artificialDebt>>

(* Mutant: the guard of mark_one queues the box but keeps its trace counted. *)
TraceKept == traced' = Plus(traced, 1)

(* A trace is counted before Collect::trace is called and taken back when   *)
(* it panics.                                                               *)
TraceUndone == traced' = Minus(Plus(traced, 1), 1)

MMarkOnePanics ==
    /\ \E o \in Obj : \E S \in SUBSET strong[o], W \in SUBSET weak[o] :
           MarkOnePanics(o, S, W)
    /\ CountMarked /\ TraceUndone
    /\ work' = Worked(FirstMarked, Mark)
    /\ UNCHANGED <<totalGcs, allocated, dropped, freed, remembered, wakeupAmount,
                   artificialDebt>>

MMarkRoot ==
    /\ \/ MarkRoot
       \/ \E S \in SUBSET rootStrong, W \in SUBSET rootWeak : MarkRootPanics(S, W)
    /\ CountMarked
    /\ work' = Worked(FirstMarked, Mark)
    /\ UNCHANGED <<totalGcs, allocated, dropped, freed, traced, remembered,
                   wakeupAmount, artificialDebt>>

(* What dropping the value of o counts, if it had not been dropped.         *)
Drops(o) == IF isLive[o] THEN 1 ELSE 0

MSweepWhite ==
    /\ SweepWhite(FALSE)
    /\ dropped' = SaturatingPlus(dropped, Drops(sweep)) /\ freed' = SaturatingPlus(freed, 1)
    /\ totalGcs' = Minus(totalGcs, 1)
    /\ work' = Worked({sweep}, Drops(sweep) * Drop + Free)
    /\ UNCHANGED <<allocated, marked, traced, remembered, wakeupAmount, artificialDebt>>

MSweepWhiteWeak ==
    /\ SweepWhiteWeak
    /\ dropped' = SaturatingPlus(dropped, Drops(sweep)) /\ remembered' = Plus(remembered, 1)
    /\ work' = Worked({sweep}, Drops(sweep) * Drop + Keep)
    /\ UNCHANGED <<totalGcs, allocated, freed, marked, traced, wakeupAmount, artificialDebt>>

MSweepBlack ==
    /\ SweepBlack
    /\ remembered' = Plus(remembered, 1)
    /\ work' = Worked({sweep}, Keep)
    /\ UNCHANGED <<totalGcs, allocated, dropped, freed, marked, traced, wakeupAmount,
                   artificialDebt>>

(* A destructor that panics leaves nothing counted.                         *)
MSweepPanics ==
    /\ SweepWhite(TRUE) \/ (MayPanic /\ SweepWhiteWeak /\ isLive[sweep])
    /\ UNCHANGED metricsVars

(* Mutant: the next cycle inherits this cycle's marks. *)
CountersKept == UNCHANGED <<marked, traced>>

CountersReset == marked' = 0 /\ traced' = 0

(* Metrics::finish_cycle: the debt is inherited unless the call that ends    *)
(* the cycle has done all of it.                                            *)
MFinishCycle(reset) ==
    /\ FinishCycle
    /\ wakeupAmount' = Larger(remembered * Sleep, MinSleep * Byte)
    /\ artificialDebt' = IF reset THEN 0 ELSE AllocationDebt
    /\ CountersReset
    /\ allocated' = 0 /\ dropped' = 0 /\ freed' = 0 /\ remembered' = 0
    /\ work' = NoQueue
    /\ UNCHANGED totalGcs

MDropOne(panics) ==
    /\ DropOne(panics)
    /\ dropped' = IF panics THEN dropped ELSE SaturatingPlus(dropped, Drops(dropAll))
    /\ freed' = IF panics THEN freed ELSE SaturatingPlus(freed, 1)
    /\ totalGcs' = IF panics THEN totalGcs ELSE Minus(totalGcs, 1)
    /\ UNCHANGED <<allocated, marked, traced, remembered, wakeupAmount, artificialDebt,
                   work>>

MOther ==
    /\ \/ Callback
       \/ \E p, c \in held : Adopt(p, c)
       \/ \E p \in held, c \in WeakHandles : AdoptWeak(p, c)
       \/ \E p \in held : Take(p)
       \/ \E S \in SUBSET held, W \in SUBSET WeakHandles : SetRoot(S, W)
       \/ \E o \in heldWeak : Upgrade(o)
       \/ Wake \/ StartSweep \/ BeginDrop
    /\ UNCHANGED metricsVars

MetricsNext ==
    \/ MAlloc \/ MBackwardBarrier \/ MForwardBarrier
    \/ \E o \in Obj : MMarkOne(o)
    \/ MMarkOnePanics \/ MMarkRoot
    \/ MSweepWhite \/ MSweepWhiteWeak \/ MSweepBlack \/ MSweepPanics
    \/ \E reset \in BOOLEAN : MFinishCycle(reset)
    \/ \E panics \in BOOLEAN : MDropOne(panics)
    \/ MOther

MetricsSpec == MetricsInit /\ [][MetricsNext]_pacedVars

-----------------------------------------------------------------------------
MetricsTypeOK ==
    /\ \A c \in {totalGcs, allocated, dropped, freed, marked, traced, remembered} :
           c \in 0..(Wrap - 1)
    /\ wakeupAmount \in Nat /\ artificialDebt \in Nat
    /\ work \in [Obj -> Int]

(* The boxes that hold no pointers and have been queued by a barrier: trace   *)
(* turned them black without counting a trace, make_gray_again takes one      *)
(* back, and mark_one counts it when the box comes up.                       *)
GrayLeaves == {o \in Linked : color[o] = "Gray" /\ ~needsTrace[o]}

TracedBoxes(S) == {o \in Linked : color[o] = "Black" /\ (needsTrace[o] \/ o \in S)}

(* The counters tell the truth about the heap: how many boxes there are, in  *)
(* every phase, and how many of them are marked and traced, while marking.   *)
(* Barriers that undo a trace, resurrections, weak pointers and panics must  *)
(* all count so that no box is marked or traced twice.  Only traces of gray   *)
(* leaves may be missing, one each; the counter may have wrapped by as many. *)
CountersMatchHeap ==
    /\ MetricsTypeOK
    /\ totalGcs = Cardinality(boxes)
    /\ phase = "Mark" =>
          /\ marked = Cardinality({o \in Linked : color[o] # "White"})
          /\ \E missing \in 0..Cardinality(GrayLeaves) :
                Plus(traced, missing) \in Cardinality(TracedBoxes({}))
                                         ..Cardinality(TracedBoxes(resurrected))

(* The worst of the three cases that the documentation of Pacing gives.      *)
MostWork == Larger(Mark + Trace + Keep, Larger(Drop + Free, Mark + Drop + Keep))

(* The promise on which pacing rests, that no path of a value through a      *)
(* cycle does as much work as one unit for each byte.                        *)
WorkBelowAllocation == \A o \in Obj : work[o] <= MostWork

(* What there is to WorkBelowAllocation: while marking, and for the boxes the *)
(* sweep has yet to visit, colour and work agree.                           *)
WorkMatchesColor(o) ==
    /\ color[o] = "White" => work[o] = 0
    /\ color[o] = "WhiteWeak" => work[o] = Mark
    /\ color[o] = "Gray" =>
          \/ work[o] = Mark /\ (needsTrace[o] \/ o \in resurrected)
          \/ work[o] = Mark - Trace /\ ~needsTrace[o]
    /\ color[o] = "Black" =>
          \/ work[o] = Mark /\ ~needsTrace[o]
          \/ work[o] = Mark + Trace /\ (needsTrace[o] \/ o \in resurrected)

(* The boxes whose trace is counted in this cycle.                          *)
TraceCounted == {o \in Obj : work[o] = Mark + Trace}

(* The boxes a trace of which was taken back that had not been counted.      *)
TraceOwed == {o \in Obj : work[o] < 0}

(* The inductive invariant, with that of GcContext: counters are exact, every  *)
(* box that marking or the sweep will still meet has done the work that its  *)
(* colour says, and a cycle begins with nothing marked.                     *)
MetricsInv ==
    /\ MetricsTypeOK
    /\ totalGcs = Cardinality(boxes)
    /\ phase = "Sleep" => marked = 0 /\ traced = 0 /\ work = NoQueue
    /\ phase = "Mark" => /\ marked = Cardinality({o \in Linked : color[o] # "White"})
                         /\ traced = (Cardinality(TraceCounted) - Cardinality(TraceOwed)) % Wrap
                         /\ \A o \in Obj : WorkMatchesColor(o)
    /\ phase = "Sweep" => TraceOwed = {} /\ \A o \in Pending : WorkMatchesColor(o)
    /\ WorkBelowAllocation

(* What the promise is for, said of the counters that the collector goes by: *)
(* a cycle whose debt is paid has allocated no more than the boxes it found  *)
(* and the sleep before it account for, however callbacks and collection     *)
(* took turns, so a collector that keeps on paying ends the cycle before the *)
(* heap outgrows that.  The boxes it found are those there are and those it  *)
(* freed, less those allocated since.  As long as a trace is owed the debt   *)
(* is not what it should be, which lasts until marking is complete at most.  *)
CollectionKeepsPace ==
    phase # "Drop" /\ totalGcs > 0 /\ AllocationDebt = 0 /\ TraceOwed = {} =>
        (Byte - MostWork) * allocated + artificialDebt
            <= wakeupAmount + MostWork * (totalGcs + freed - allocated)

(* What there is to CollectionKeepsPace: a marked box is traced, and kept, or *)
(* it may have its value dropped; the sweep keeps no box twice and unlinks   *)
(* none that is marked.                                                     *)
WeaklyPending == {o \in Pending : color[o] = "WhiteWeak"}
KeptPending   == {o \in Pending : color[o] # "White"}

SweepCounted ==
    /\ phase \in {"Sleep", "Mark"} => dropped = 0 /\ freed = 0 /\ remembered = 0
    /\ phase = "Sweep" =>
          /\ traced + Cardinality(WeaklyPending) <= marked
          /\ traced + dropped + Cardinality(WeaklyPending) <= marked + freed
          /\ remembered + Cardinality(KeptPending) <= marked
          /\ marked <= Cardinality(Linked \ Unlinking)

(* The inductive invariant of both, with that of GcContext: what marking did *)
(* and what the sweep has done since match what it has yet to do.            *)
PacingInv == MetricsInv /\ SweepCounted

(* What the comment in backward_barrier says of parents that need no tracing *)
(* ("not harmful (just wasteful)"): a barrier never makes the collector      *)
(* believe it has less left to do.                                          *)
BarriersNotHarmful ==
    [][ MBackwardBarrier => AllocationDebt' >= AllocationDebt ]_pacedVars
=============================================================================
