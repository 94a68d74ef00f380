---------------------------- MODULE CollectorProofs ----------------------------
(***************************************************************************)
(* Proofs about how far the collector goes.  Of GcMetrics: the counters tell *)
(* the truth about the heap, no box is worked on for more than it was        *)
(* allocated for, and a cycle that is paid for keeps pace with allocation.   *)
(* Of Collection: what a call of each entry point does and leaves.          *)
(***************************************************************************)
EXTENDS Collection, GcMetrics, GcContextProofs, FiniteSetTheorems

-----------------------------------------------------------------------------
(* Words, and sets of boxes.                                                *)

(* What fits into a word is not changed by wrapping.                       *)
LEMMA Words ==
  ASSUME NEW n \in Int
  PROVE  /\ n % Wrap \in 0..(Wrap - 1)
         /\ n \in 0..(Wrap - 1) => n % Wrap = n
  BY MaxWordAssumption DEF Wrap

(* No value makes for more work than one that is marked, traced and kept.    *)
LEMMA WorstCase == MostWork = 11
  BY DEF MostWork, Larger, Mark, Trace, Keep, Drop, Free

(* A panic that takes a count back leaves the counter as it was.           *)
LEMMA UndoneIsUnchanged ==
  ASSUME NEW c \in 0..(Wrap - 1)
  PROVE  Minus(Plus(c, 1), 1) = c
<1>1. CASE c < MaxWord
  <2>1. Plus(c, 1) = c + 1
    BY <1>1, Words, MaxWordAssumption DEF Plus, Wrap
  <2> QED
    BY <2>1, Words, MaxWordAssumption DEF Minus, Wrap
<1>2. CASE c = MaxWord
  <2>1. Plus(c, 1) = 0
    BY <1>2, MaxWordAssumption DEF Plus, Wrap
  <2>2. (0 - 1) % Wrap = Wrap - 1
    BY MaxWordAssumption DEF Wrap
  <2> QED
    BY <1>2, <2>1, <2>2, MaxWordAssumption DEF Minus, Wrap
<1> QED
  BY <1>1, <1>2, MaxWordAssumption DEF Wrap

(* Counting up and down commutes with wrapping.                             *)
LEMMA WrapSteps ==
  ASSUME NEW n \in Int, -Wrap < n, n < Wrap
  PROVE  /\ n + 1 < Wrap => Plus(n % Wrap, 1) = (n + 1) % Wrap
         /\ -Wrap < n - 1 => Minus(n % Wrap, 1) = (n - 1) % Wrap
<1>w. Wrap \in Nat \ {0}
  BY MaxWordAssumption DEF Wrap
<1>1. ASSUME NEW k \in Int, -Wrap < k, k < 0 PROVE k % Wrap = k + Wrap
  BY <1>w, <1>1
<1>2. ASSUME NEW k \in Int, 0 <= k, k < Wrap PROVE k % Wrap = k
  BY <1>2, Words, <1>w
<1>3. Wrap % Wrap = 0
  BY <1>w
<1>4. CASE n < -1
  BY <1>1, <1>4, <1>w, <1>2 DEF Plus, Minus
<1>5. CASE n = -1
  BY <1>1, <1>2, <1>3, <1>5, <1>w DEF Plus, Minus
<1>6. CASE n = 0
  BY <1>1, <1>2, <1>6, <1>w DEF Plus, Minus
<1>7. CASE n > 0
  BY <1>2, <1>7, <1>w DEF Plus, Minus
<1> QED
  BY <1>4, <1>5, <1>6, <1>7

(* What was taken off before wrapping can be added afterwards.               *)
LEMMA WrapBack ==
  ASSUME NEW c \in 0..(Wrap - 1), NEW m \in 0..(Wrap - 1)
  PROVE  (((c - m) % Wrap) + m) % Wrap = c
<1>w. Wrap \in Nat \ {0}
  BY MaxWordAssumption DEF Wrap
<1>1. CASE c - m < 0
  <2>1. (c - m) % Wrap = c - m + Wrap
    BY <1>w, <1>1
  <2>2. (c + Wrap) % Wrap = c
    BY <1>w
  <2> QED
    BY <1>w, <2>1, <2>2
<1>2. CASE c - m >= 0
  BY <1>2, <1>w, Words
<1> QED
  BY <1>1, <1>2, <1>w

(* There are finitely many boxes, and only boxes are in the list.          *)
LEMMA BoxesFinite ==
  ASSUME IndInv
  PROVE  /\ IsFiniteSet(Obj) /\ IsFiniteSet(boxes) /\ Cardinality(boxes) \in Nat
         /\ boxes \in SUBSET Obj /\ Linked \subseteq boxes
<1>1. IsFiniteSet(Obj)
  BY FS_Interval, MaxAllocsAssumption DEF Obj
<1>2. boxes \in SUBSET Obj
  BY DEF IndInv, TypeOK, MemoryType
<1> QED
  BY <1>1, <1>2, FS_Subset, FS_CardinalityType DEF Linked

(* A set of boxes has a word's worth of elements at most.                    *)
LEMMA FewBoxes ==
  ASSUME IndInv, Cardinality(boxes) <= MaxWord, NEW S \in SUBSET boxes
  PROVE  IsFiniteSet(S) /\ Cardinality(S) \in Nat /\ Cardinality(S) \in 0..(Wrap - 1)
<1>1. IsFiniteSet(S) /\ Cardinality(S) \in Nat /\ Cardinality(S) <= Cardinality(boxes)
  BY BoxesFinite, FS_Subset, FS_CardinalityType
<1> QED
  BY <1>1, BoxesFinite, MaxWordAssumption DEF Wrap

-----------------------------------------------------------------------------
(* The pacing adds counters to the steps of GcContext and takes none away.   *)

(* Every step with counters is a step of GcContext.                        *)
LEMMA MetricsAreSteps == [MetricsNext]_pacedVars => [Next]_vars
<1> SUFFICES ASSUME [MetricsNext]_pacedVars PROVE [Next]_vars
  OBVIOUS
<1>1. CASE MAlloc \/ MBackwardBarrier \/ MForwardBarrier
  BY <1>1 DEF MAlloc, MBackwardBarrier, MForwardBarrier, Next, Mutator
<1>2. CASE (\E o \in Obj : MMarkOne(o)) \/ MMarkOnePanics \/ MMarkRoot
  BY <1>2 DEF MMarkOne, MMarkOnePanics, MMarkRoot, Next, Collector
<1>3. CASE MSweepWhite \/ MSweepWhiteWeak \/ MSweepBlack \/ MSweepPanics
  BY <1>3 DEF MSweepWhite, MSweepWhiteWeak, MSweepBlack, MSweepPanics, Next, Collector
<1>4. CASE (\E reset \in BOOLEAN : MFinishCycle(reset)) \/ \E panics \in BOOLEAN : MDropOne(panics)
  BY <1>4 DEF MFinishCycle, MDropOne, Next, Collector, Teardown
<1>5. CASE MOther
  BY <1>5 DEF MOther, Next, Callback, Mutator, Collector, Teardown
<1>6. CASE UNCHANGED pacedVars
  BY <1>6 DEF pacedVars
<1> QED
  BY <1>1, <1>2, <1>3, <1>4, <1>5, <1>6 DEF MetricsNext

(* Everything proved of GcContext holds under the pacing.                    *)
THEOREM PacingRefines == MetricsSpec => Spec
<1>1. MetricsInit => Init
  BY DEF MetricsInit
<1> QED
  BY <1>1, MetricsAreSteps, PTL DEF MetricsSpec, Spec

-----------------------------------------------------------------------------
(* What marking does to the counters.                                       *)

Marked == {o \in Linked : color[o] # "White"}

(* What is queued by marking needs tracing, or was resurrected.              *)
QueuedForCause(o) ==
    color[o] \in Whites /\ color'[o] = "Gray" => needsTrace[o] \/ o \in resurrected'

(* The steps that mark and trace nothing to the end.                         *)
OnlyMarks ==
    /\ HeapStill /\ resurrected \subseteq resurrected'
    /\ \A o \in Obj : Moves(o) /\ QueuedForCause(o)
    /\ \A o \in Obj : color[o] \in {"Gray", "Black"} => color'[o] = color[o]

(* The traces that traced_gcs stands for.                                    *)
Traces == Cardinality(TraceCounted) - Cardinality(TraceOwed)

(* While marking, the traces counted and those owed are of boxes, and owed are *)
(* only those of gray boxes without pointers.                               *)
LEMMA TraceSets ==
  ASSUME IndInv, MetricsInv, phase = "Mark"
  PROVE  /\ Cardinality(boxes) <= MaxWord
         /\ TraceCounted \in SUBSET boxes /\ TraceOwed \in SUBSET boxes
         /\ TraceOwed \subseteq GrayLeaves
<1>1. Linked \subseteq boxes /\ boxes \in SUBSET Obj /\ Cardinality(boxes) \in Nat
  BY BoxesFinite
<1>2. \A o \in Obj : WorkMatchesColor(o) /\ color[o] \in Colors
  BY DEF MetricsInv, IndInv, TypeOK, HeaderType
<1>3. \A o \in Obj : color[o] # "White" => o \in Linked
  BY DEF IndInv, ValuesAreLive
<1>4. Cardinality(boxes) <= MaxWord
  BY <1>1, MaxWordAssumption DEF MetricsInv, MetricsTypeOK, Wrap
<1>5. TraceCounted \in SUBSET boxes
  BY <1>1, <1>2, <1>3 DEF TraceCounted, WorkMatchesColor, Mark, Trace
<1>6. \A o \in TraceOwed : o \in Linked /\ color[o] = "Gray" /\ ~needsTrace[o]
  BY <1>2, <1>3 DEF TraceOwed, WorkMatchesColor, Colors, Mark, Trace
<1> QED
  BY <1>1, <1>4, <1>5, <1>6 DEF GrayLeaves

(* A trace that is counted goes to the boxes counted or pays for one owed;    *)
(* one that is taken back, the other way round.                             *)
LEMMA TracesMove ==
  ASSUME IndInv, Cardinality(boxes) <= MaxWord, NEW o,
         TraceCounted \in SUBSET boxes, TraceOwed \in SUBSET boxes,
         TraceCounted' \in SUBSET boxes, TraceOwed' \in SUBSET boxes
  PROVE  /\ \/ o \notin TraceCounted /\ TraceCounted' = TraceCounted \cup {o}
               /\ TraceOwed' = TraceOwed
            \/ o \in TraceOwed /\ TraceOwed' = TraceOwed \ {o}
               /\ TraceCounted' = TraceCounted
            => Plus(Traces % Wrap, 1) = Traces' % Wrap
         /\ \/ o \in TraceCounted /\ TraceCounted' = TraceCounted \ {o}
               /\ TraceOwed' = TraceOwed
            \/ o \notin TraceOwed /\ TraceOwed' = TraceOwed \cup {o}
               /\ TraceCounted' = TraceCounted
            => Minus(Traces % Wrap, 1) = Traces' % Wrap
<1>w. Wrap \in Nat
  BY MaxWordAssumption DEF Wrap
<1>1. /\ IsFiniteSet(TraceCounted) /\ IsFiniteSet(TraceOwed)
      /\ Cardinality(TraceCounted) \in 0..(Wrap - 1) /\ Cardinality(TraceOwed) \in 0..(Wrap - 1)
      /\ Cardinality(TraceCounted') \in 0..(Wrap - 1) /\ Cardinality(TraceOwed') \in 0..(Wrap - 1)
  BY FewBoxes
<1>2. /\ Traces \in Int /\ -Wrap < Traces /\ Traces < Wrap
      /\ Traces' \in Int /\ -Wrap < Traces' /\ Traces' < Wrap
  BY <1>1, <1>w DEF Traces
<1>3. Traces' = Traces + 1 => Plus(Traces % Wrap, 1) = Traces' % Wrap
  BY <1>2, WrapSteps
<1>4. Traces' = Traces - 1 => Minus(Traces % Wrap, 1) = Traces' % Wrap
  BY <1>2, WrapSteps
<1>5. CASE o \notin TraceCounted /\ TraceCounted' = TraceCounted \cup {o} /\ TraceOwed' = TraceOwed
  <2>1. Cardinality(TraceCounted') = Cardinality(TraceCounted) + 1
    BY <1>1, <1>5, FS_AddElement
  <2>2. Traces' = Traces + 1
    BY <1>1, <1>5, <1>w, <2>1 DEF Traces
  <2> QED
    BY <1>3, <1>5, <2>2
<1>6. CASE o \in TraceOwed /\ TraceOwed' = TraceOwed \ {o} /\ TraceCounted' = TraceCounted
  <2>1. Cardinality(TraceOwed') = Cardinality(TraceOwed) - 1
    BY <1>1, <1>6, FS_RemoveElement
  <2>2. Traces' = Traces + 1
    BY <1>1, <1>6, <1>w, <2>1 DEF Traces
  <2> QED
    BY <1>3, <1>6, <2>2
<1>7. CASE o \in TraceCounted /\ TraceCounted' = TraceCounted \ {o} /\ TraceOwed' = TraceOwed
  <2>1. Cardinality(TraceCounted') = Cardinality(TraceCounted) - 1
    BY <1>1, <1>7, FS_RemoveElement
  <2>2. Traces' = Traces - 1
    BY <1>1, <1>7, <1>w, <2>1 DEF Traces
  <2> QED
    BY <1>4, <1>7, <2>2
<1>8. CASE o \notin TraceOwed /\ TraceOwed' = TraceOwed \cup {o} /\ TraceCounted' = TraceCounted
  <2>1. Cardinality(TraceOwed') = Cardinality(TraceOwed) + 1
    BY <1>1, <1>8, FS_AddElement
  <2>2. Traces' = Traces - 1
    BY <1>1, <1>8, <1>w, <2>1 DEF Traces
  <2> QED
    BY <1>4, <1>8, <2>2
<1> QED
  BY <1>5, <1>6, <1>7, <1>8

(* If no trace is owed, the counter is what it should be.                   *)
LEMMA NoneOwed ==
  ASSUME IndInv, MetricsInv, phase = "Mark", TraceOwed = {}
  PROVE  traced = Cardinality(TraceCounted)
<1>1. Cardinality(TraceCounted) \in 0..(Wrap - 1) /\ Cardinality(TraceCounted) \in Nat
  BY TraceSets, FewBoxes
<1>2. Cardinality(TraceOwed) = 0
  BY FS_EmptySet
<1>3. traced = (Cardinality(TraceCounted) - Cardinality(TraceOwed)) % Wrap
  BY DEF MetricsInv
<1>4. Cardinality(TraceCounted) - Cardinality(TraceOwed) = Cardinality(TraceCounted)
  BY <1>1, <1>2
<1> QED
  BY <1>1, <1>3, <1>4, Words

(* When marking is complete no trace is owed, as no box is gray.             *)
LEMMA NothingOwed ==
  ASSUME IndInv, MetricsInv, StartSweep
  PROVE  TraceOwed = {}
<1>1. phase = "Mark" /\ ~GrayRemaining
  BY DEF StartSweep
<1>2. \A o \in Linked : color[o] # "Gray"
  BY <1>1, BoxesFinite DEF GrayRemaining, IndInv, GrayIffQueued, NoQueue
<1>3. Linked \subseteq Obj
  BY BoxesFinite
<1> QED
  BY <1>1, <1>2, <1>3, TraceSets DEF GrayLeaves

(* What is marked for the first time is what CountMarked counts.           *)
LEMMA MarkedGrows ==
  ASSUME IndInv, IndInv', HeapStill, Cardinality(boxes) <= MaxWord,
         \A o \in Obj : Moves(o), marked = Cardinality(Marked), CountMarked
  PROVE  marked' = Cardinality(Marked')
<1>1. Linked' = Linked /\ Linked \subseteq boxes /\ boxes \in SUBSET Obj
  BY BoxesFinite DEF HeapStill, Linked
<1>2. \A o \in Obj : color'[o] # "White" => o \in Linked
  BY <1>1 DEF IndInv, ValuesAreLive
<1>3. \A o \in Obj : color[o] # "White" => color'[o] # "White"
  BY MovesMonotone
<1>4. Marked' = Marked \cup FirstMarked /\ Marked \cap FirstMarked = {}
  BY <1>1, <1>2, <1>3 DEF Marked, FirstMarked
<1>5. Marked \in SUBSET boxes /\ FirstMarked \in SUBSET boxes /\ Marked' \in SUBSET boxes
  BY <1>1, <1>2 DEF Marked, FirstMarked
<1>6. Cardinality(Marked') = Cardinality(Marked) + Cardinality(FirstMarked)
  BY <1>4, <1>5, FewBoxes, FS_Union, FS_EmptySet
<1> QED
  BY <1>5, <1>6, FewBoxes, Words DEF CountMarked, Plus

(* Outside of marking barriers and resurrection do nothing to the counters.  *)
LEMMA NothingMarked ==
  ASSUME color' = color
  PROVE  FirstMarked = {} /\ TakenBack = {} /\ Cardinality({}) = 0
  BY FS_EmptySet DEF FirstMarked, TakenBack

(* Marking an object once accounts for the colour it gets.                 *)
LEMMA MarkedWork ==
  ASSUME HeapStill, resurrected \subseteq resurrected', work \in [Obj -> Int],
         NEW o \in Obj, Moves(o), QueuedForCause(o), color[o] \in {"Gray", "Black"} => color'[o] = color[o],
         work'[o] = Worked(FirstMarked, Mark)[o], WorkMatchesColor(o), color[o] \in Colors
  PROVE  /\ WorkMatchesColor(o)'
         /\ work'[o] = Mark + Trace <=> work[o] = Mark + Trace
         /\ work'[o] < 0 <=> work[o] < 0
<1> USE DEF Mark, Trace
<1>1. work'[o] = IF color[o] = "White" /\ color'[o] # "White" THEN work[o] + 2 ELSE work[o]
  BY DEF Worked, FirstMarked
<1>2. needsTrace'[o] = needsTrace[o] /\ (o \in resurrected => o \in resurrected')
  BY DEF HeapStill
<1>3. CASE color'[o] = color[o]
  BY <1>1, <1>2, <1>3 DEF WorkMatchesColor
<1>4. CASE Grayed(o) \/ Weakened(o)
  BY <1>1, <1>2, <1>4 DEF WorkMatchesColor, Grayed, Weakened, Whites, QueuedForCause
<1>5. CASE Blackened(o)
  BY <1>1, <1>2, <1>5 DEF WorkMatchesColor, Blackened, Whites
<1> QED
  BY <1>3, <1>4, <1>5 DEF Moves, Kept, Regrayed, Traced

(* The invariant is kept by whatever marks objects and traces none.        *)
LEMMA MarkingKeeps ==
  ASSUME IndInv, IndInv', MetricsInv, OnlyMarks, phase = "Mark", CountMarked,
         UNCHANGED <<totalGcs, allocated, dropped, freed, traced, remembered,
                     wakeupAmount, artificialDebt>>,
         work' = Worked(FirstMarked, Mark)
  PROVE  MetricsInv'
<1>1. /\ phase' = "Mark" /\ boxes' = boxes /\ Cardinality(boxes) <= MaxWord
      /\ color \in [Obj -> Colors] /\ work \in [Obj -> Int]
      /\ marked = Cardinality(Marked) /\ \A o \in Obj : WorkMatchesColor(o)
  BY BoxesFinite, MaxWordAssumption DEF OnlyMarks, HeapStill, MetricsInv, MetricsTypeOK, Wrap,
     IndInv, TypeOK, HeaderType, Marked
<1>2. marked' = Cardinality(Marked')
  BY <1>1, MarkedGrows DEF OnlyMarks
<1>3. \A o \in Obj : WorkMatchesColor(o)'
  BY <1>1, MarkedWork DEF OnlyMarks
<1>4. TraceCounted' = TraceCounted /\ TraceOwed' = TraceOwed
  BY <1>1, MarkedWork DEF OnlyMarks, TraceCounted, TraceOwed
<1>5. marked' \in 0..(Wrap - 1)
  <2>1. Cardinality(FirstMarked) \in Int
    BY BoxesFinite, FS_Subset, FS_CardinalityType DEF FirstMarked
  <2> QED
    BY <1>1, <2>1, Words DEF CountMarked, Plus, MetricsInv, MetricsTypeOK
<1>6. work' \in [Obj -> Int]
  BY <1>1 DEF Worked, Mark
<1>7. MetricsTypeOK'
  BY <1>5, <1>6 DEF MetricsInv, MetricsTypeOK
<1>8. \A o \in Obj : color'[o] \in Colors
  BY DEF IndInv, TypeOK, HeaderType
<1>9. WorkBelowAllocation'
  BY <1>3, <1>8, WorstCase DEF WorkBelowAllocation, WorkMatchesColor, Colors, Mark, Trace, Keep,
     Drop, Free
<1> QED
  BY <1>1, <1>2, <1>3, <1>4, <1>7, <1>9 DEF MetricsInv, Marked

(* The invariant is kept by what changes neither colours nor counters.     *)
LEMMA StillKeeps ==
  ASSUME MetricsInv, HeapStill, color' = color, resurrected \subseteq resurrected',
         UNCHANGED metricsVars
  PROVE  MetricsInv'
<1>1. \A o \in Obj \cup Pending : WorkMatchesColor(o) => WorkMatchesColor(o)'
  BY DEF WorkMatchesColor, HeapStill, metricsVars
<1>2. /\ Pending' = Pending /\ Linked' = Linked /\ Pending \subseteq Linked
      /\ TraceCounted' = TraceCounted /\ TraceOwed' = TraceOwed
  BY DEF HeapStill, Pending, Linked, TraceCounted, TraceOwed, metricsVars
<1>3. MetricsTypeOK' /\ WorkBelowAllocation'
  BY DEF MetricsInv, MetricsTypeOK, WorkBelowAllocation, metricsVars
<1>4. phase' = phase /\ boxes' = boxes /\ UNCHANGED <<totalGcs, marked, traced, work>>
  BY DEF HeapStill, metricsVars
<1> QED
  BY <1>1, <1>2, <1>3, <1>4 DEF MetricsInv

-----------------------------------------------------------------------------
(* The invariant, kind of step by kind of step.                              *)

(* Counting nothing leaves the counters as they are.                         *)
LEMMA NothingCounted ==
  ASSUME MetricsInv
  PROVE  /\ Plus(marked, 0) = marked /\ Minus(traced, 0) = traced
         /\ Worked({}, Mark) = work /\ Worked({}, -Trace) = work
<1>1. marked \in 0..(Wrap - 1) /\ traced \in 0..(Wrap - 1) /\ work \in [Obj -> Int]
  BY DEF MetricsInv, MetricsTypeOK
<1>2. marked \in Int /\ traced \in Int
  BY <1>1
<1> QED
  BY <1>1, <1>2, Words DEF Plus, Minus, Worked

(* Forward barriers and resurrection mark objects and trace none.          *)
LEMMA ForwardMarks ==
  ASSUME IndInv, MForwardBarrier
  PROVE  OnlyMarks /\ (phase = "Mark" \/ color' = color)
<1> USE DEF MForwardBarrier
<1>1. BarrierStep \/ ResurrectStep
  BY DEF BarrierStep, ResurrectStep
<1>2. /\ HeapStill /\ \A o \in Obj : Moves(o)
      /\ phase = "Mark" \/ color' = color
  BY <1>1, BarrierMoves, BarrierStepFrame, ResurrectMoves, ResurrectFrame DEF ColorStill
<1>3. resurrected \subseteq resurrected'
  BY DEF ForwardBarrier, ForwardBarrierWeak, BarrierFrame, historyVars, Resurrect
<1>t. color \in [Obj -> Colors]
  BY DEF IndInv, TypeOK, HeaderType
<1>4. ASSUME NEW o \in Obj, color[o] \in {"Gray", "Black"} PROVE color'[o] = color[o]
  <2>1. ASSUME NEW q \in held \cup {NULL}, NEW c \in held, ForwardBarrier(q, c)
        PROVE  color'[o] = color[o]
    BY <1>4, <2>1 DEF ForwardBarrier, TraceColor, Whites
  <2>2. ASSUME NEW q \in held \cup {NULL}, NEW c \in WeakHandles, ForwardBarrierWeak(q, c)
        PROVE  color'[o] = color[o]
    BY <1>4, <2>2 DEF ForwardBarrierWeak, TraceColor, Whites
  <2>3. ASSUME NEW c \in WeakHandles, Resurrect(c)
        PROVE  color'[o] = color[o]
    BY <1>4, <1>t, <2>3 DEF Resurrect, Enqueue, Whites
  <2> QED
    BY <2>1, <2>2, <2>3
<1>5. ASSUME NEW o \in Obj, color[o] \in Whites, color'[o] = "Gray"
      PROVE  needsTrace[o] \/ o \in resurrected'
  <2>1. ASSUME NEW q \in held \cup {NULL}, NEW c \in held, ForwardBarrier(q, c)
        PROVE  needsTrace[o]
    BY <1>5, <2>1 DEF ForwardBarrier, TraceColor, Whites
  <2>2. ASSUME NEW q \in held \cup {NULL}, NEW c \in WeakHandles, ForwardBarrierWeak(q, c)
        PROVE  needsTrace[o]
    BY <1>5, <2>2 DEF ForwardBarrierWeak, TraceColor, Whites
  <2>3. ASSUME NEW c \in WeakHandles, Resurrect(c)
        PROVE  o \in resurrected'
    BY <1>5, <1>t, <2>3 DEF Resurrect, Enqueue, Whites
  <2> QED
    BY <2>1, <2>2, <2>3
<1> QED
  BY <1>2, <1>3, <1>4, <1>5 DEF OnlyMarks, QueuedForCause

(* Forward barriers and resurrection keep the invariant.                   *)
LEMMA ForwardKeeps ==
  ASSUME IndInv, IndInv', MetricsInv, MForwardBarrier
  PROVE  MetricsInv'
<1>1. /\ CountMarked /\ work' = Worked(FirstMarked, Mark)
      /\ UNCHANGED <<totalGcs, allocated, dropped, freed, traced, remembered,
                     wakeupAmount, artificialDebt>>
  BY DEF MForwardBarrier
<1>2. CASE phase = "Mark"
  BY <1>1, <1>2, ForwardMarks, MarkingKeeps
<1>3. CASE color' = color
  <2>1. marked' = marked /\ work' = work
    BY <1>1, <1>3, NothingMarked, NothingCounted DEF CountMarked
  <2> QED
    BY <1>1, <1>3, <2>1, ForwardMarks, StillKeeps DEF OnlyMarks, metricsVars
<1> QED
  BY <1>2, <1>3, ForwardMarks

(* The barrier's parent loses its trace: the one that was counted, or, if it   *)
(* holds no pointers and was blackened without one, one that is owed.        *)
LEMMA BackwardKeeps ==
  ASSUME IndInv, IndInv', MetricsInv, MBackwardBarrier
  PROVE  MetricsInv'
<1>1. BarrierStep /\ HeapStill /\ resurrected' = resurrected
  BY BarrierStepFrame DEF MBackwardBarrier, BarrierStep, BackwardBarrier, BackwardBarrierWeak,
     BarrierFrame, historyVars
<1>2. /\ UndoTrace
      /\ UNCHANGED <<totalGcs, allocated, dropped, freed, marked, remembered,
                     wakeupAmount, artificialDebt>>
  BY DEF MBackwardBarrier
<1>3. CASE color' = color
  <2>1. traced' = traced /\ work' = work
    BY <1>2, <1>3, NothingMarked, NothingCounted DEF UndoTrace
  <2> QED
    BY <1>1, <1>2, <1>3, <2>1, StillKeeps DEF metricsVars
<1>4. CASE color' # color
  <2>t. color \in [Obj -> Colors] /\ work \in [Obj -> Int] /\ color' \in [Obj -> Colors]
    BY DEF IndInv, TypeOK, HeaderType, MetricsInv, MetricsTypeOK
  <2>1. PICK p \in held : BarrierNeeded(p) /\ p # NULL /\ color' = [color EXCEPT ![p] = "Gray"]
    <3>1. held \subseteq Obj /\ NULL \notin Obj
      BY DEF IndInv, TypeOK, HandleType, Obj, NULL
    <3> QED
      BY <1>4, <3>1 DEF MBackwardBarrier, BackwardBarrier, BackwardBarrierWeak, MakeGrayAgain
  <2>2. p \in Obj /\ color[p] = "Black" /\ phase = "Mark" /\ p \in Linked
    BY <2>1 DEF IndInv, TypeOK, HandleType, BarrierNeeded, ValuesAreLive
  <2>3. /\ \A o \in Obj : WorkMatchesColor(o)
        /\ phase' = "Mark" /\ boxes' = boxes
        /\ Linked' = Linked /\ needsTrace' = needsTrace /\ Cardinality(boxes) <= MaxWord
        /\ marked = Cardinality(Marked) /\ traced = Traces % Wrap
        /\ totalGcs = Cardinality(boxes)
    BY <1>1, <2>2, TraceSets DEF MetricsInv, HeapStill, Linked, Marked, Traces
  <2>4. /\ TakenBack = {p}
        /\ \/ work[p] = Mark + Trace /\ (needsTrace[p] \/ p \in resurrected)
           \/ work[p] = Mark /\ ~needsTrace[p]
    BY <2>1, <2>2, <2>3, <2>t DEF TakenBack, WorkMatchesColor
  <2>5. work' = [work EXCEPT ![p] = work[p] - Trace]
    <3>1. work' = [o \in Obj |-> IF o \in {p} THEN work[o] + (-Trace) ELSE work[o]]
      BY <1>2, <2>4 DEF UndoTrace, Worked
    <3>2. work[p] + (-Trace) = work[p] - Trace
      BY <2>4 DEF Mark, Trace
    <3> QED
      BY <2>t, <3>1, <3>2
  <2>6. Marked' = Marked
    BY <2>1, <2>2, <2>3, <2>t DEF Marked
  <2>7. \/ p \in TraceCounted /\ TraceCounted' = TraceCounted \ {p} /\ TraceOwed' = TraceOwed
        \/ p \notin TraceOwed /\ TraceOwed' = TraceOwed \cup {p} /\ TraceCounted' = TraceCounted
    <3>1. CASE work[p] = Mark + Trace
      BY <2>2, <2>5, <2>t, <3>1 DEF TraceCounted, TraceOwed, Mark, Trace
    <3>2. CASE work[p] = Mark
      BY <2>2, <2>5, <2>t, <3>2 DEF TraceCounted, TraceOwed, Mark, Trace
    <3> QED
      BY <2>4, <3>1, <3>2
  <2>8. /\ TraceCounted \in SUBSET boxes /\ TraceCounted' \in SUBSET boxes
        /\ TraceOwed \in SUBSET boxes /\ TraceOwed' \in SUBSET boxes
    BY <2>2, <2>7, TraceSets, BoxesFinite
  <2>9. traced' = Traces' % Wrap
    <3>1. traced' = Minus(traced, 1)
      BY <1>2, <2>4, FS_Singleton DEF UndoTrace
    <3> QED
      BY <2>3, <2>7, <2>8, <3>1, TracesMove
  <2>10. ASSUME NEW o \in Obj PROVE WorkMatchesColor(o)'
    <3>1. CASE o = p
      BY <1>1, <2>1, <2>2, <2>3, <2>4, <2>5, <2>t, <3>1 DEF WorkMatchesColor, Mark, Trace
    <3>2. CASE o # p
      BY <1>1, <2>1, <2>2, <2>3, <2>5, <2>t, <3>2 DEF WorkMatchesColor
    <3> QED
      BY <3>1, <3>2
  <2>11. MetricsTypeOK' /\ WorkBelowAllocation'
    <3>1. traced' \in 0..(Wrap - 1)
      <4>1. traced \in 0..(Wrap - 1) /\ Cardinality({p}) = 1
        BY FS_Singleton DEF MetricsInv, MetricsTypeOK
      <4>2. traced - 1 \in Int
        BY <4>1
      <4> QED
        BY <1>2, <2>4, <4>1, <4>2, Words DEF UndoTrace, Minus
    <3>2. work' \in [Obj -> Int]
      <4>1. work[p] - Trace \in Int
        BY <2>4 DEF Mark, Trace
      <4> QED
        BY <2>5, <2>t, <4>1
    <3>3. MetricsTypeOK'
      BY <1>2, <3>1, <3>2 DEF MetricsInv, MetricsTypeOK
    <3>4. WorkBelowAllocation'
      BY <2>4, <2>5, <2>t, WorstCase
         DEF MetricsInv, WorkBelowAllocation, Mark, Trace, Keep, Drop, Free
    <3> QED
      BY <3>3, <3>4
  <2> QED
    BY <1>2, <2>3, <2>6, <2>9, <2>10, <2>11 DEF MetricsInv, Marked, Traces
<1> QED
  BY <1>3, <1>4

(* Tracing an object counts it once, and what it marks once each.          *)
LEMMA MarkOneKeeps ==
  ASSUME IndInv, IndInv', MetricsInv, NEW o \in Obj, MMarkOne(o)
  PROVE  MetricsInv'
<1>t. /\ color \in [Obj -> Colors] /\ color' \in [Obj -> Colors] /\ work \in [Obj -> Int]
      /\ marked \in Int /\ traced \in Int
  BY DEF IndInv, TypeOK, HeaderType, MetricsInv, MetricsTypeOK
<1>1. MarkOne(o) /\ MarkStep
  BY DEF MMarkOne, MarkStep
<1>2. /\ HeapStill /\ phase = "Mark" /\ \A x \in Obj : Moves(x)
      /\ resurrected' = resurrected
  BY <1>1, MarkFrames, MarkMoves DEF MarkOne, MarkFrame, historyVars
<1>3. /\ CountMarked /\ traced' = Plus(traced, 1)
      /\ work' = [Worked(FirstMarked, Mark) EXCEPT ![o] = @ + Trace]
      /\ UNCHANGED <<totalGcs, allocated, dropped, freed, remembered, wakeupAmount,
                     artificialDebt>>
  BY DEF MMarkOne
<1>4. /\ \A x \in Obj : WorkMatchesColor(x)
      /\ Cardinality(boxes) <= MaxWord
      /\ marked = Cardinality(Marked) /\ traced = Traces % Wrap
      /\ totalGcs = Cardinality(boxes)
  BY <1>2, TraceSets DEF MetricsInv, Marked, Traces
<1>5. /\ color[o] = "Gray" /\ color'[o] = "Black"
      /\ \A x \in Obj : x # o /\ color[x] \in {"Gray", "Black"} => color'[x] = color[x]
      /\ \A x \in Obj : QueuedForCause(x)
  <2>1. PopGray(o) \/ PopGrayAgain(o)
    BY <1>1 DEF MarkOne
  <2>2. color[o] = "Gray"
    BY <2>1 DEF PopGray, PopGrayAgain, IndInv, GrayIffQueued, TypeOK, QueueType
  <2>3. color' = TraceColor([color EXCEPT ![o] = "Black"], strong[o], weak[o])
    BY <1>1 DEF MarkOne
  <2> QED
    BY <1>t, <2>2, <2>3 DEF TraceColor, Whites, QueuedForCause
<1>6. /\ \A x \in Obj : x # o => work'[x] = Worked(FirstMarked, Mark)[x]
      /\ work'[o] = work[o] + Trace
      /\ \/ work[o] = Mark /\ (needsTrace[o] \/ o \in resurrected)
         \/ work[o] = Mark - Trace /\ ~needsTrace[o]
  <2>1. o \notin FirstMarked
    BY <1>5 DEF FirstMarked
  <2>2. \/ work[o] = Mark /\ (needsTrace[o] \/ o \in resurrected)
        \/ work[o] = Mark - Trace /\ ~needsTrace[o]
    BY <1>4, <1>5 DEF WorkMatchesColor
  <2>3. Worked(FirstMarked, Mark)[o] = work[o] /\ DOMAIN Worked(FirstMarked, Mark) = Obj
    BY <2>1 DEF Worked
  <2> QED
    BY <1>3, <2>2, <2>3 DEF Worked
<1>7. ASSUME NEW x \in Obj, x # o
      PROVE  /\ WorkMatchesColor(x)' /\ (work'[x] = Mark + Trace <=> work[x] = Mark + Trace)
             /\ work'[x] < 0 <=> work[x] < 0
  <2>1. /\ QueuedForCause(x) /\ color[x] \in Colors /\ WorkMatchesColor(x)
        /\ work'[x] = Worked(FirstMarked, Mark)[x]
        /\ color[x] \in {"Gray", "Black"} => color'[x] = color[x]
    BY <1>t, <1>4, <1>5, <1>6, <1>7
  <2> QED
    BY <1>2, <1>t, <2>1, MarkedWork
<1>8. WorkMatchesColor(o)'
  <2>1. needsTrace'[o] = needsTrace[o] /\ resurrected' = resurrected
    BY <1>2 DEF HeapStill
  <2> QED
    BY <1>5, <1>6, <2>1 DEF WorkMatchesColor, Mark, Trace
<1>9. \/ o \notin TraceCounted /\ TraceCounted' = TraceCounted \cup {o} /\ TraceOwed' = TraceOwed
      \/ o \in TraceOwed /\ TraceOwed' = TraceOwed \ {o} /\ TraceCounted' = TraceCounted
  <2>1. CASE work[o] = Mark
    BY <1>6, <1>7, <2>1 DEF TraceCounted, TraceOwed, Mark, Trace
  <2>2. CASE work[o] = Mark - Trace
    BY <1>6, <1>7, <2>2 DEF TraceCounted, TraceOwed, Mark, Trace
  <2> QED
    BY <1>6, <2>1, <2>2
<1>10. /\ TraceCounted' \in SUBSET boxes /\ TraceCounted \in SUBSET boxes
       /\ TraceOwed' \in SUBSET boxes /\ TraceOwed \in SUBSET boxes
  <2>1. o \in boxes
    BY <1>5 DEF IndInv, ValuesAreLive, Linked
  <2> QED
    BY <1>2, <1>9, <2>1, TraceSets
<1>11. traced' = Traces' % Wrap
  BY <1>3, <1>4, <1>9, <1>10, TracesMove
<1>12. marked' = Cardinality(Marked')
  BY <1>2, <1>3, <1>4, MarkedGrows
<1>13. MetricsTypeOK' /\ WorkBelowAllocation'
  <2>1. marked' \in 0..(Wrap - 1) /\ traced' \in 0..(Wrap - 1)
    <3>1. Cardinality(FirstMarked) \in Int
      BY BoxesFinite, FS_Subset, FS_CardinalityType DEF FirstMarked
    <3>2. marked + Cardinality(FirstMarked) \in Int /\ traced + 1 \in Int
      BY <1>t, <3>1
    <3> QED
      BY <1>3, <3>2, Words DEF CountMarked, Plus
  <2>2. work' \in [Obj -> Int]
    BY <1>3, <1>t DEF Worked, Mark, Trace
  <2>3. MetricsTypeOK'
    BY <1>3, <2>1, <2>2 DEF MetricsInv, MetricsTypeOK
  <2>4. \A x \in Obj : color'[x] \in Colors /\ WorkMatchesColor(x)'
    BY <1>t, <1>7, <1>8
  <2>5. WorkBelowAllocation'
    BY <2>4, WorstCase DEF WorkBelowAllocation, WorkMatchesColor, Colors, Mark, Trace, Keep,
       Drop, Free
  <2> QED
    BY <2>3, <2>5
<1>14. phase' = "Mark" /\ totalGcs' = Cardinality(boxes')
  BY <1>2, <1>3, <1>4 DEF HeapStill
<1>15. \A x \in Obj : WorkMatchesColor(x)'
  BY <1>7, <1>8
<1> QED
  BY <1>11, <1>12, <1>13, <1>14, <1>15 DEF MetricsInv, Marked, Traces

(* A trace that panics, and the root's, mark only.                           *)
LEMMA MarkRestKeeps ==
  ASSUME IndInv, IndInv', MetricsInv, MMarkOnePanics \/ MMarkRoot
  PROVE  MetricsInv'
<1>t. color \in [Obj -> Colors] /\ traced \in 0..(Wrap - 1)
  BY DEF IndInv, TypeOK, HeaderType, MetricsInv, MetricsTypeOK
<1>1. MarkStep
  BY DEF MMarkOnePanics, MMarkRoot, MarkStep
<1>2. /\ HeapStill /\ phase = "Mark" /\ \A x \in Obj : Moves(x)
  BY <1>1, MarkFrames, MarkMoves
<1>3. resurrected' = resurrected
  BY DEF MMarkOnePanics, MMarkRoot, MarkOnePanics, MarkRoot, MarkRootPanics, MarkFrame, historyVars
<1>4. /\ CountMarked /\ traced' = traced
      /\ work' = Worked(FirstMarked, Mark)
      /\ UNCHANGED <<totalGcs, allocated, dropped, freed, remembered, wakeupAmount,
                     artificialDebt>>
  BY <1>t, UndoneIsUnchanged DEF MMarkOnePanics, MMarkRoot, TraceUndone
<1>5. ASSUME NEW x \in Obj
      PROVE  /\ QueuedForCause(x)
             /\ color[x] \in {"Gray", "Black"} => color'[x] = color[x]
  <2>1. ASSUME NEW o \in Obj, NEW S \in SUBSET strong[o], NEW W \in SUBSET weak[o],
               MarkOnePanics(o, S, W)
        PROVE  /\ QueuedForCause(x)
               /\ color[x] \in {"Gray", "Black"} => color'[x] = color[x]
    <3>1. /\ PopGray(o) \/ PopGrayAgain(o)
          /\ color' = [TraceColor([color EXCEPT ![o] = "Black"], S, W) EXCEPT ![o] = "Gray"]
      BY <2>1 DEF MarkOnePanics
    <3>2. color[o] = "Gray"
      BY <3>1 DEF PopGray, PopGrayAgain, IndInv, GrayIffQueued, TypeOK, QueueType
    <3> QED
      BY <1>t, <3>1, <3>2 DEF TraceColor, Whites, QueuedForCause
  <2>2. CASE MMarkRoot
    BY <1>t, <2>2 DEF MMarkRoot, MarkRoot, MarkRootPanics, TraceColor, Whites, QueuedForCause
  <2> QED
    BY <2>1, <2>2 DEF MMarkOnePanics
<1> QED
  BY <1>2, <1>3, <1>4, <1>5, MarkingKeeps DEF OnlyMarks

(* A new box is counted, and its old work is forgotten with its address.   *)
LEMMA AllocKeeps ==
  ASSUME IndInv, IndInv', MetricsInv, MAlloc
  PROVE  MetricsInv'
<1>1. PICK S \in SUBSET held, W \in SUBSET WeakHandles, nt \in BOOLEAN : Alloc(S, W, nt)
  BY DEF MAlloc
<1>2. /\ Cardinality(boxes) < MaxWord /\ totalGcs' = Plus(totalGcs, 1)
      /\ allocated' = SaturatingPlus(allocated, 1)
      /\ UNCHANGED <<dropped, freed, marked, traced, remembered, wakeupAmount,
                     artificialDebt, work>>
  BY DEF MAlloc
<1>3. /\ boxes' = boxes \cup {births + 1} /\ leaked' = leaked /\ phase' = phase
      /\ color' = color /\ sweep' = sweep /\ resurrected' = resurrected
      /\ needsTrace' = [needsTrace EXCEPT ![births + 1] = nt]
      /\ births + 1 \in Obj /\ births \in Nat /\ births + 1 \notin boxes
  BY <1>1, MaxAllocsAssumption
     DEF Alloc, historyVars, IndInv, TypeOK, MemoryType, ListIntact, Obj
<1>t. needsTrace \in [Obj -> BOOLEAN] /\ color[births + 1] = "White"
  BY <1>3 DEF IndInv, TypeOK, HeaderType, ValuesAreLive, Linked
<1>4. totalGcs' = Cardinality(boxes')
  <2>1. Cardinality(boxes') = Cardinality(boxes) + 1 /\ Cardinality(boxes) \in Nat
    BY <1>3, BoxesFinite, FS_AddElement
  <2>2. Cardinality(boxes) + 1 \in Int /\ Cardinality(boxes) + 1 \in 0..(Wrap - 1)
    BY <1>2, <2>1, MaxWordAssumption DEF Wrap
  <2> QED
    BY <1>2, <2>1, <2>2, Words DEF Plus, MetricsInv
<1>5. \A o \in Obj : o # births + 1 /\ WorkMatchesColor(o) => WorkMatchesColor(o)'
  BY <1>2, <1>3, <1>t DEF WorkMatchesColor
<1>6. \A o \in Obj : color[o] = "White" /\ WorkMatchesColor(o) => WorkMatchesColor(o)'
  BY <1>2, <1>3 DEF WorkMatchesColor
<1>7. /\ Marked' = Marked /\ TraceCounted' = TraceCounted /\ TraceOwed' = TraceOwed
      /\ Pending' \subseteq Pending /\ births + 1 \notin Pending' /\ Pending \subseteq Obj
  <2>1. phase = "Sweep" => sweep < births + 1 /\ sweep \in Int
    BY <1>3 DEF IndInv, ListIntact, Linked, TypeOK, ListType, NULL, Obj
  <2>2. Linked' \subseteq Linked \cup {births + 1} /\ Linked \subseteq Linked'
        /\ Linked \subseteq Obj
    BY <1>3, BoxesFinite DEF Linked
  <2>3. Marked' = Marked
    BY <1>3, <1>t, <2>2 DEF Marked
  <2> QED
    BY <1>2, <1>3, <2>1, <2>2, <2>3 DEF TraceCounted, TraceOwed, Pending
<1>8. MetricsTypeOK' /\ WorkBelowAllocation'
  <2>1. totalGcs' \in 0..(Wrap - 1)
    BY <1>2, BoxesFinite, Words DEF Plus, MetricsInv
  <2>2. allocated' \in 0..(Wrap - 1)
    BY <1>2, MaxWordAssumption DEF SaturatingPlus, MetricsInv, MetricsTypeOK, Wrap
  <2> QED
    BY <1>2, <2>1, <2>2 DEF MetricsInv, MetricsTypeOK, WorkBelowAllocation
<1>9. phase = "Mark" => \A o \in Obj : WorkMatchesColor(o)'
  BY <1>5, <1>6, <1>t DEF MetricsInv
<1>10. phase = "Sweep" => \A o \in Pending' : WorkMatchesColor(o)'
  BY <1>5, <1>7 DEF MetricsInv
<1> QED
  BY <1>2, <1>3, <1>4, <1>7, <1>8, <1>9, <1>10 DEF MetricsInv, Marked

(* The sweep leaves the boxes it has yet to visit as they are.                *)
LEMMA PendingKeeps ==
  ASSUME IndInv, MetricsInv, SweepStep, NEW amount \in Nat,
         work' = Worked({sweep}, amount) \/ work' = work
  PROVE  /\ \A o \in Pending' : WorkMatchesColor(o)'
         /\ phase = "Sweep" /\ phase' = "Sweep"
         /\ sweep \in Obj /\ sweep \in Linked /\ WorkMatchesColor(sweep)
         /\ work' \in [Obj -> Int] /\ TraceOwed' = {}
         /\ \A o \in Obj : work'[o] = work[o] \/ (o = sweep /\ work'[o] = work[o] + amount)
<1>1. /\ phase = "Sweep" /\ phase' = "Sweep" /\ sweep # NULL /\ sweep' = next[sweep]
      /\ needsTrace' = needsTrace /\ resurrected' = resurrected
  BY DEF SweepStep, SweepWhite, SweepWhiteWeak, SweepBlack, CollectorTurn, historyVars
<1>2. /\ sweep \in Linked /\ sweep \in Pending /\ next[sweep] \in Obj \cup {NULL}
      /\ next[sweep] < sweep
      /\ \A o \in Linked : o <= next[sweep] <=> o < sweep
  BY <1>1, SweepAdvance
<1>t. /\ work \in [Obj -> Int] /\ Linked \subseteq Obj /\ color \in [Obj -> Colors]
      /\ sweep \in Obj /\ boxes \in SUBSET Obj
  BY <1>2, BoxesFinite DEF MetricsInv, MetricsTypeOK, IndInv, TypeOK, HeaderType
<1>3. /\ color' = [color EXCEPT ![sweep] = "White"]
      /\ Linked' \subseteq Linked
  BY DEF SweepStep, SweepWhite, SweepWhiteWeak, SweepBlack, DropAndDealloc, Forget, Linked
<1>4. Pending' \subseteq Pending /\ sweep \notin Pending'
  <2>1. Obj \subseteq Int /\ NULL \in Int
    BY DEF Obj, NULL
  <2>2. ASSUME NEW o \in Pending' PROVE o \in Pending /\ o # sweep
    <3>1. o \in Linked /\ o <= next[sweep]
      BY <1>1, <1>3, <2>2 DEF Pending
    <3>2. o < sweep
      BY <1>2, <3>1
    <3> QED
      BY <1>1, <1>t, <2>1, <3>1, <3>2 DEF Pending
  <2> QED
    BY <2>2
<1>5. /\ work' \in [Obj -> Int]
      /\ \A o \in Obj : work'[o] = work[o] \/ (o = sweep /\ work'[o] = work[o] + amount)
  BY <1>t DEF Worked
<1>6. ASSUME NEW o \in Pending' PROVE WorkMatchesColor(o)'
  <2>1. o \in Pending /\ o # sweep /\ o \in Obj
    BY <1>4, <1>6, <1>t DEF Pending
  <2>2. color'[o] = color[o] /\ work'[o] = work[o]
    BY <1>3, <1>5, <1>t, <2>1
  <2>3. WorkMatchesColor(o)
    BY <1>1, <2>1 DEF MetricsInv
  <2> QED
    BY <1>1, <2>2, <2>3 DEF WorkMatchesColor
<1>7. TraceOwed' = {}
  <2>1. \A o \in Obj : ~(work[o] < 0)
    BY <1>1 DEF MetricsInv, TraceOwed
  <2> QED
    BY <1>5, <1>t, <2>1 DEF TraceOwed
<1> QED
  BY <1>1, <1>2, <1>5, <1>6, <1>7, <1>t DEF MetricsInv

(* Freeing a box takes one off the number of boxes.                        *)
LEMMA OneBoxLess ==
  ASSUME IndInv, MetricsInv, NEW o \in boxes, boxes' = boxes \ {o}
  PROVE  Minus(totalGcs, 1) = Cardinality(boxes') /\ Minus(totalGcs, 1) \in 0..(Wrap - 1)
<1>1. /\ Cardinality(boxes') = Cardinality(boxes) - 1 /\ Cardinality(boxes') \in Nat
      /\ Cardinality(boxes) = totalGcs
  BY BoxesFinite, FS_RemoveElement, FS_CardinalityType DEF MetricsInv
<1>2. totalGcs \in 0..(Wrap - 1)
  BY DEF MetricsInv, MetricsTypeOK
<1>3. totalGcs - 1 \in Int /\ totalGcs - 1 \in 0..(Wrap - 1)
  BY <1>1, <1>2, MaxWordAssumption DEF Wrap
<1> QED
  BY <1>1, <1>3, Words DEF Minus

(* Adding to a counter leaves it a word.                                   *)
LEMMA StillWords ==
  ASSUME NEW c \in 0..(Wrap - 1)
  PROVE  /\ SaturatingPlus(c, 1) \in 0..(Wrap - 1) /\ Plus(c, 1) \in 0..(Wrap - 1)
         /\ \A o : SaturatingPlus(c, Drops(o)) \in 0..(Wrap - 1)
<1>1. Plus(c, 1) \in 0..(Wrap - 1)
  BY Words DEF Plus
<1> QED
  BY <1>1, MaxWordAssumption DEF SaturatingPlus, Drops, Wrap

(* Sweeping an object adds to its work what its colour leaves room for.    *)
LEMMA SweepKeeps ==
  ASSUME IndInv, MetricsInv, MSweepWhite \/ MSweepWhiteWeak \/ MSweepBlack \/ MSweepPanics
  PROVE  MetricsInv'
<1>w. /\ dropped \in 0..(Wrap - 1) /\ freed \in 0..(Wrap - 1) /\ remembered \in 0..(Wrap - 1)
      /\ \A o \in Obj : work[o] <= 11 /\ work[o] \in Int
  <2>2. \A o \in Obj : work[o] <= 11
    BY WorstCase DEF MetricsInv, WorkBelowAllocation
  <2> QED
    BY <2>2 DEF MetricsInv, MetricsTypeOK
<1>s. SweepStep
  BY DEF MSweepWhite, MSweepWhiteWeak, MSweepBlack, MSweepPanics, SweepStep
<1>d. Drops(sweep) * Drop + Free \in Nat /\ Drops(sweep) * Drop + Keep \in Nat
      /\ Drops(sweep) * Drop + Free <= 10 /\ Drops(sweep) * Drop + Keep <= 5
  BY DEF Drops, Drop, Free, Keep
<1>1. CASE MSweepWhite
  <2>1. /\ SweepWhite(FALSE) /\ color[sweep] = "White"
        /\ work' = Worked({sweep}, Drops(sweep) * Drop + Free)
        /\ dropped' = SaturatingPlus(dropped, Drops(sweep)) /\ freed' = SaturatingPlus(freed, 1)
        /\ totalGcs' = Minus(totalGcs, 1)
        /\ UNCHANGED <<allocated, marked, traced, remembered, wakeupAmount, artificialDebt>>
    BY <1>1 DEF MSweepWhite, SweepWhite
  <2>2. /\ \A o \in Pending' : WorkMatchesColor(o)'
        /\ phase' = "Sweep" /\ sweep \in Linked /\ WorkMatchesColor(sweep)
        /\ work' \in [Obj -> Int] /\ TraceOwed' = {}
        /\ \A o \in Obj : \/ work'[o] = work[o]
                          \/ o = sweep /\ work'[o] = work[o] + (Drops(sweep) * Drop + Free)
    BY <1>s, <1>d, <2>1, PendingKeeps
  <2>3. totalGcs' = Cardinality(boxes') /\ totalGcs' \in 0..(Wrap - 1)
    <3>1. boxes' = boxes \ {sweep} /\ sweep \in boxes
      BY <2>1, <2>2 DEF SweepWhite, DropAndDealloc, Linked
    <3> QED
      BY <2>1, <3>1, OneBoxLess
  <2>4. work[sweep] = 0
    BY <2>1, <2>2 DEF WorkMatchesColor
  <2>5. WorkBelowAllocation'
    BY <1>w, <1>d, <2>2, <2>4, WorstCase DEF WorkBelowAllocation, Mark, Trace, Keep, Drop, Free
  <2>6. MetricsTypeOK'
    BY <1>w, <2>1, <2>2, <2>3, StillWords DEF MetricsInv, MetricsTypeOK
  <2> QED
    BY <2>2, <2>3, <2>5, <2>6 DEF MetricsInv
<1>2. CASE MSweepWhiteWeak
  <2>1. /\ SweepWhiteWeak /\ color[sweep] = "WhiteWeak" /\ boxes' = boxes
        /\ work' = Worked({sweep}, Drops(sweep) * Drop + Keep)
        /\ dropped' = SaturatingPlus(dropped, Drops(sweep)) /\ remembered' = Plus(remembered, 1)
        /\ UNCHANGED <<totalGcs, allocated, freed, marked, traced, wakeupAmount, artificialDebt>>
    BY <1>2 DEF MSweepWhiteWeak, SweepWhiteWeak
  <2>2. /\ \A o \in Pending' : WorkMatchesColor(o)'
        /\ phase' = "Sweep" /\ sweep \in Linked /\ WorkMatchesColor(sweep)
        /\ work' \in [Obj -> Int] /\ TraceOwed' = {}
        /\ \A o \in Obj : \/ work'[o] = work[o]
                          \/ o = sweep /\ work'[o] = work[o] + (Drops(sweep) * Drop + Keep)
    BY <1>s, <1>d, <2>1, PendingKeeps
  <2>3. work[sweep] = 2
    BY <2>1, <2>2 DEF WorkMatchesColor, Mark
  <2>4. WorkBelowAllocation'
    BY <1>w, <1>d, <2>2, <2>3, WorstCase DEF WorkBelowAllocation, Mark, Trace, Keep, Drop, Free
  <2>5. MetricsTypeOK'
    <3>1. dropped' \in 0..(Wrap - 1) /\ remembered' \in 0..(Wrap - 1)
      BY <1>w, <2>1, StillWords
    <3> QED
      BY <2>1, <2>2, <3>1 DEF MetricsInv, MetricsTypeOK
  <2> QED
    BY <2>1, <2>2, <2>4, <2>5 DEF MetricsInv
<1>3. CASE MSweepBlack
  <2>1. /\ SweepBlack /\ color[sweep] = "Black" /\ boxes' = boxes
        /\ work' = Worked({sweep}, Keep) /\ Keep \in Nat
        /\ remembered' = Plus(remembered, 1)
        /\ UNCHANGED <<totalGcs, allocated, dropped, freed, marked, traced, wakeupAmount,
                       artificialDebt>>
    BY <1>3 DEF MSweepBlack, SweepBlack, Keep
  <2>2. /\ \A o \in Pending' : WorkMatchesColor(o)'
        /\ phase' = "Sweep" /\ sweep \in Linked /\ WorkMatchesColor(sweep)
        /\ work' \in [Obj -> Int] /\ TraceOwed' = {}
        /\ \A o \in Obj : work'[o] = work[o] \/ (o = sweep /\ work'[o] = work[o] + Keep)
    BY <1>s, <2>1, PendingKeeps
  <2>3. work[sweep] <= 10
    BY <2>1, <2>2 DEF WorkMatchesColor, Mark, Trace
  <2>4. WorkBelowAllocation'
    BY <1>w, <2>2, <2>3, WorstCase DEF WorkBelowAllocation, Mark, Trace, Keep, Drop, Free
  <2>5. MetricsTypeOK'
    BY <1>w, <2>1, <2>2, StillWords DEF MetricsInv, MetricsTypeOK
  <2> QED
    BY <2>1, <2>2, <2>4, <2>5 DEF MetricsInv
<1>4. CASE MSweepPanics
  <2>1. boxes' = boxes /\ UNCHANGED metricsVars
    BY <1>4 DEF MSweepPanics, SweepWhite, SweepWhiteWeak, DropAndDealloc
  <2>2. /\ \A o \in Pending' : WorkMatchesColor(o)'
        /\ phase' = "Sweep" /\ TraceOwed' = {}
    BY <1>s, <2>1, PendingKeeps DEF metricsVars
  <2> QED
    BY <2>1, <2>2 DEF MetricsInv, MetricsTypeOK, WorkBelowAllocation, metricsVars
<1> QED
  BY <1>1, <1>2, <1>3, <1>4

(* The end of a cycle starts all counts again.                             *)
LEMMA FinishKeeps ==
  ASSUME MetricsInv, NEW reset \in BOOLEAN, MFinishCycle(reset)
  PROVE  MetricsInv'
<1>1. /\ phase' = "Sleep" /\ boxes' = boxes /\ totalGcs' = totalGcs
      /\ marked' = 0 /\ traced' = 0 /\ work' = NoQueue
      /\ allocated' = 0 /\ dropped' = 0 /\ freed' = 0 /\ remembered' = 0
      /\ wakeupAmount' = Larger(remembered * Sleep, MinSleep * Byte)
      /\ artificialDebt' = IF reset THEN 0 ELSE AllocationDebt
  BY DEF MFinishCycle, FinishCycle, CountersReset
<1>t. /\ totalGcs \in 0..(Wrap - 1) /\ 0 \in 0..(Wrap - 1)
      /\ allocated \in Nat /\ dropped \in Nat /\ freed \in Nat /\ marked \in Nat
      /\ traced \in Nat /\ remembered \in Nat /\ wakeupAmount \in Nat /\ artificialDebt \in Nat
  <2>1. /\ totalGcs \in 0..(Wrap - 1) /\ allocated \in 0..(Wrap - 1)
        /\ dropped \in 0..(Wrap - 1) /\ freed \in 0..(Wrap - 1)
        /\ marked \in 0..(Wrap - 1) /\ traced \in 0..(Wrap - 1)
        /\ remembered \in 0..(Wrap - 1) /\ wakeupAmount \in Nat /\ artificialDebt \in Nat
    BY DEF MetricsInv, MetricsTypeOK
  <2> QED
    BY <2>1, MaxWordAssumption DEF Wrap
<1>2. wakeupAmount' \in Nat
  BY <1>1, <1>t, MinSleepAssumption DEF Larger, Sleep, Byte
<1>3. AllocationDebt \in Nat
  <2>1. Debits \in Int /\ Credits \in Int
    BY <1>t DEF Debits, Credits, Byte, Mark, Trace, Keep, Drop, Free
  <2> QED
    BY <2>1 DEF AllocationDebt, Larger
<1>4. MetricsTypeOK' /\ WorkBelowAllocation'
  BY <1>1, <1>2, <1>3, <1>t, WorstCase DEF MetricsTypeOK, WorkBelowAllocation, NoQueue, Mark, Trace,
     Keep, Drop, Free
<1> QED
  BY <1>1, <1>4 DEF MetricsInv

(* Dropping the arena keeps the number of boxes right.                     *)
LEMMA DropKeeps ==
  ASSUME IndInv, MetricsInv, NEW panics \in BOOLEAN, MDropOne(panics)
  PROVE  MetricsInv'
<1>1. /\ phase' = "Drop" /\ dropAll # NULL /\ phase = "Drop"
      /\ boxes' = IF panics THEN boxes ELSE boxes \ {dropAll}
      /\ dropped' = IF panics THEN dropped ELSE SaturatingPlus(dropped, Drops(dropAll))
      /\ freed' = IF panics THEN freed ELSE SaturatingPlus(freed, 1)
      /\ totalGcs' = IF panics THEN totalGcs ELSE Minus(totalGcs, 1)
      /\ UNCHANGED <<allocated, marked, traced, remembered, wakeupAmount, artificialDebt, work>>
  BY DEF MDropOne, DropOne, DropAndDealloc
<1>2. dropAll \in boxes
  BY <1>1 DEF IndInv, ListIntact, Below, Running, Linked
<1>3. totalGcs' = Cardinality(boxes') /\ totalGcs' \in 0..(Wrap - 1)
  BY <1>1, <1>2, OneBoxLess DEF MetricsInv, MetricsTypeOK
<1>4. dropped' \in 0..(Wrap - 1) /\ freed' \in 0..(Wrap - 1)
  BY <1>1, StillWords DEF MetricsInv, MetricsTypeOK
<1>5. MetricsTypeOK' /\ WorkBelowAllocation'
  BY <1>1, <1>3, <1>4 DEF MetricsInv, MetricsTypeOK, WorkBelowAllocation
<1> QED
  BY <1>1, <1>3, <1>5 DEF MetricsInv

(* What calls no counter changes nothing that is counted.                  *)
LEMMA OtherKeeps ==
  ASSUME IndInv, IndInv', MetricsInv, MOther \/ UNCHANGED pacedVars
  PROVE  MetricsInv'
<1>u. UNCHANGED metricsVars
  BY DEF MOther, pacedVars
<1>1. CASE HandleStep \/ ValueStep \/ RootStep
  <2>1. HeapStill /\ color' = color
    BY <1>1, HandleFrame, ValueStepFrame, RootStepFrame DEF ColorStill
  <2>2. resurrected' = resurrected
    BY <1>1 DEF HandleStep, BeginMutate, BeginMutateRoot, BeginFinalize, EndCallback, Upgrade,
       ValueStep, Adopt, AdoptWeak, Take, ValueFrame, RootStep, SetRoot, historyVars, vars
  <2> QED
    BY <1>u, <2>1, <2>2, StillKeeps
<1>2. CASE Wake
  <2>1. /\ phase = "Sleep" /\ phase' = "Mark" /\ boxes' = boxes /\ color' = color
        /\ leaked' = leaked
    BY <1>2 DEF Wake
  <2>2. \A o \in Obj : color[o] = "White"
    BY <2>1 DEF IndInv, ColorsMatchPhase, ValuesAreLive
  <2>3. marked = 0 /\ traced = 0 /\ work = NoQueue
    BY <2>1 DEF MetricsInv
  <2>4. Marked' = {} /\ TraceCounted' = {} /\ TraceOwed' = {}
    <3>1. Linked' \subseteq Obj
      BY <2>1, BoxesFinite DEF Linked
    <3> QED
      BY <1>u, <2>1, <2>2, <2>3, <3>1 DEF Marked, TraceCounted, TraceOwed, NoQueue, Mark, Trace,
         metricsVars
  <2>5. \A o \in Obj : WorkMatchesColor(o)'
    BY <1>u, <2>1, <2>2, <2>3 DEF WorkMatchesColor, NoQueue, metricsVars
  <2>6. MetricsTypeOK' /\ WorkBelowAllocation' /\ totalGcs' = Cardinality(boxes')
    BY <1>u, <2>1 DEF MetricsInv, MetricsTypeOK, WorkBelowAllocation, metricsVars
  <2> QED
    <3>1. (Cardinality({}) - Cardinality({})) % Wrap = 0
      BY FS_EmptySet, Words, MaxWordAssumption DEF Wrap
    <3> QED
      BY <1>u, <2>1, <2>3, <2>4, <2>5, <2>6, <3>1, FS_EmptySet DEF MetricsInv, Marked, metricsVars
<1>3. CASE StartSweep
  <2>1. /\ phase = "Mark" /\ phase' = "Sweep" /\ boxes' = boxes /\ color' = color
        /\ leaked' = leaked /\ needsTrace' = needsTrace /\ resurrected' = resurrected
    BY <1>3 DEF StartSweep, CollectorTurn, historyVars
  <2>2. Pending' \subseteq Obj
    BY <2>1, BoxesFinite DEF Pending, Linked
  <2>3. \A o \in Pending' : WorkMatchesColor(o)'
    BY <1>u, <2>1, <2>2 DEF MetricsInv, WorkMatchesColor, metricsVars
  <2>4. TraceOwed' = {}
    BY <1>3, <1>u, NothingOwed DEF TraceOwed, metricsVars
  <2> QED
    BY <1>u, <2>1, <2>3, <2>4 DEF MetricsInv, MetricsTypeOK, WorkBelowAllocation, metricsVars
<1>4. CASE BeginDrop
  <2>1. phase' = "Drop" /\ boxes' = boxes
    BY <1>4 DEF BeginDrop, memoryVars
  <2> QED
    BY <1>u, <2>1 DEF MetricsInv, MetricsTypeOK, WorkBelowAllocation, metricsVars
<1> QED
  BY <1>1, <1>2, <1>3, <1>4
     DEF MOther, Callback, HandleStep, ValueStep, RootStep, pacedVars

(* The empty arena has the invariant.                                      *)
LEMMA MetricsInvInit == MetricsInit => MetricsInv
<1> SUFFICES ASSUME MetricsInit PROVE MetricsInv
  OBVIOUS
<1>1. /\ totalGcs = 0 /\ allocated = 0 /\ dropped = 0 /\ freed = 0
      /\ marked = 0 /\ traced = 0 /\ remembered = 0
      /\ wakeupAmount = 0 /\ artificialDebt = 0
      /\ work = [o \in Obj |-> 0] /\ boxes = {} /\ phase = "Sleep"
  BY DEF MetricsInit, Init, NoQueue
<1>2. MetricsTypeOK
  BY <1>1, MaxWordAssumption DEF MetricsTypeOK, Wrap
<1>3. WorkBelowAllocation
  BY <1>1, WorstCase DEF WorkBelowAllocation, Mark, Trace, Keep, Drop, Free
<1> QED
  BY <1>1, <1>2, <1>3, FS_EmptySet DEF MetricsInv, NoQueue

(* Every step keeps the invariant.                                         *)
LEMMA MetricsInvStep ==
  IndInv /\ MetricsInv /\ [MetricsNext]_pacedVars => MetricsInv'
<1> SUFFICES ASSUME IndInv, MetricsInv, [MetricsNext]_pacedVars PROVE MetricsInv'
  OBVIOUS
<1>1. IndInv'
  BY MetricsAreSteps, InvStep
<1> QED
  BY <1>1, AllocKeeps, BackwardKeeps, ForwardKeeps, MarkOneKeeps, MarkRestKeeps, SweepKeeps,
     FinishKeeps, DropKeeps, OtherKeeps DEF MetricsNext

(* The counters, the colours and the work done for each box agree at every   *)
(* moment, but for the traces that barriers on boxes without pointers take   *)
(* back uncounted: one for each such box at most, and none once marking ends. *)
THEOREM PacingInvariance == MetricsSpec => []MetricsInv
<1>1. MetricsSpec => []IndInv
  BY PacingRefines, Invariance, PTL
<1> QED
  BY <1>1, MetricsInvInit, MetricsInvStep, PTL DEF MetricsSpec

-----------------------------------------------------------------------------
(* What follows from it.                                                    *)

(* The invariant gives the counts; the traces missing are those owed.        *)
LEMMA InvCounts == IndInv /\ MetricsInv => CountersMatchHeap
<1> SUFFICES ASSUME IndInv, MetricsInv PROVE CountersMatchHeap
  OBVIOUS
<1> DEFINE Surely   == TracedBoxes({})
           Possibly == TracedBoxes(resurrected)
           missing  == Cardinality(TraceOwed)
<1>1. MetricsTypeOK /\ totalGcs = Cardinality(boxes)
  BY DEF MetricsInv
<1>2. ASSUME phase = "Mark"
      PROVE  /\ marked = Cardinality({o \in Linked : color[o] # "White"})
             /\ missing \in 0..Cardinality(GrayLeaves)
             /\ Plus(traced, missing) \in Cardinality(Surely)..Cardinality(Possibly)
  <2>1. /\ marked = Cardinality({o \in Linked : color[o] # "White"})
        /\ traced = Traces % Wrap
        /\ \A o \in Obj : WorkMatchesColor(o)
    BY <1>2 DEF MetricsInv, Traces
  <2>2. Linked \subseteq Obj /\ \A o \in Obj : color[o] \in Colors
    BY BoxesFinite DEF IndInv, TypeOK, HeaderType
  <2>3. Surely \in SUBSET TraceCounted
    BY <2>1, <2>2 DEF TracedBoxes, TraceCounted, WorkMatchesColor
  <2>4. TraceCounted \in SUBSET Possibly
    <3>1. \A o \in Obj : o \notin Linked => color[o] = "White"
      BY DEF IndInv, ValuesAreLive
    <3> QED
      BY <2>1, <2>2, <3>1 DEF TracedBoxes, TraceCounted, WorkMatchesColor, Colors, Mark, Trace
  <2>5. /\ IsFiniteSet(TraceCounted) /\ IsFiniteSet(Possibly) /\ IsFiniteSet(GrayLeaves)
        /\ IsFiniteSet(TraceOwed)
    BY <2>2, BoxesFinite, FS_Subset DEF TracedBoxes, TraceCounted, TraceOwed, GrayLeaves
  <2>6. IsFiniteSet(Surely)
    BY <2>3, <2>5, FS_Subset
  <2>7. /\ Cardinality(Surely) <= Cardinality(TraceCounted)
        /\ Cardinality(TraceCounted) <= Cardinality(Possibly)
        /\ missing <= Cardinality(GrayLeaves)
        /\ Cardinality(Surely) \in Nat /\ Cardinality(TraceCounted) \in Nat
        /\ Cardinality(Possibly) \in Nat
        /\ missing \in Nat /\ Cardinality(GrayLeaves) \in Nat
    BY <1>2, <2>3, <2>4, <2>5, <2>6, TraceSets, FS_Subset, FS_CardinalityType
  <2>8. Plus(traced, missing) = Cardinality(TraceCounted)
    <3>1. /\ Cardinality(TraceCounted) \in 0..(Wrap - 1) /\ missing \in 0..(Wrap - 1)
          /\ Wrap \in Nat
      BY <1>2, TraceSets, FewBoxes, MaxWordAssumption DEF Wrap
    <3> QED
      BY <2>1, <3>1, WrapBack DEF Plus, Traces
  <2> QED
    BY <2>1, <2>7, <2>8
<1> QED
  BY <1>1, <1>2 DEF CountersMatchHeap

(* total_gcs is the number of boxes, and while marking marked_gcs counts the    *)
(* marked and traced_gcs the traced boxes: no path through barriers,          *)
(* resurrection, weak pointers and panics counts twice or forgets to, but that *)
(* traced_gcs lacks one trace at most for each gray box without pointers, and  *)
(* wraps by no more than that.                                                *)
THEOREM CountersAreTrue == MetricsSpec => []CountersMatchHeap
<1>1. MetricsSpec => []IndInv
  BY PacingRefines, Invariance, PTL
<1> QED
  BY <1>1, PacingInvariance, InvCounts, PTL

(* A byte allocated never causes more than a byte of work in a cycle: the     *)
(* premise under which the pacing ends every cycle in time.                   *)
THEOREM WorkIsBounded == MetricsSpec => []WorkBelowAllocation
<1>1. MetricsInv => WorkBelowAllocation
  BY DEF MetricsInv
<1> QED
  BY <1>1, PacingInvariance, PTL

-----------------------------------------------------------------------------
(* The pace of a cycle: the counters of the sweep against those of marking.   *)

(* The sets that SweepCounted counts are sets of boxes.                    *)
LEMMA CountedSets ==
  ASSUME IndInv
  PROVE  /\ IsFiniteSet(KeptPending) /\ IsFiniteSet(WeaklyPending)
         /\ IsFiniteSet(Linked \ Unlinking)
         /\ Cardinality(KeptPending) \in Nat /\ Cardinality(WeaklyPending) \in Nat
         /\ Cardinality(Linked \ Unlinking) \in Nat
         /\ Cardinality(Linked \ Unlinking) <= Cardinality(boxes)
         /\ Cardinality(boxes) \in Nat
<1>1. /\ KeptPending \in SUBSET boxes /\ WeaklyPending \in SUBSET boxes
      /\ Linked \ Unlinking \in SUBSET boxes
  BY BoxesFinite DEF KeptPending, WeaklyPending, Pending
<1> QED
  BY <1>1, BoxesFinite, FS_Subset, FS_CardinalityType

(* The counters are natural numbers below Wrap.                            *)
LEMMA CounterTypes ==
  ASSUME MetricsInv
  PROVE  /\ totalGcs \in Nat /\ allocated \in Nat /\ dropped \in Nat /\ freed \in Nat
         /\ marked \in Nat /\ traced \in Nat /\ remembered \in Nat
         /\ wakeupAmount \in Nat /\ artificialDebt \in Nat
         /\ dropped < Wrap /\ freed < Wrap /\ marked < Wrap /\ remembered < Wrap
         /\ Wrap \in Nat
<1>1. Wrap \in Nat
  BY MaxWordAssumption DEF Wrap
<1>2. /\ totalGcs \in 0..(Wrap - 1) /\ allocated \in 0..(Wrap - 1)
      /\ dropped \in 0..(Wrap - 1) /\ freed \in 0..(Wrap - 1)
      /\ marked \in 0..(Wrap - 1) /\ traced \in 0..(Wrap - 1)
      /\ remembered \in 0..(Wrap - 1) /\ wakeupAmount \in Nat /\ artificialDebt \in Nat
  BY DEF MetricsInv, MetricsTypeOK
<1> QED
  BY <1>1, <1>2

(* What counts nothing and lets no more boxes await the sweep.             *)
LEMMA FewerPendingKeeps ==
  ASSUME IndInv, IndInv', MetricsInv, SweepCounted, phase' = phase,
         UNCHANGED <<dropped, freed, remembered>>,
         phase = "Sweep" =>
            /\ UNCHANGED <<marked, traced>>
            /\ WeaklyPending' \subseteq WeaklyPending /\ KeptPending' \subseteq KeptPending
            /\ Linked \ Unlinking \subseteq (Linked \ Unlinking)'
  PROVE  SweepCounted'
<1>1. CASE phase # "Sweep"
  BY <1>1 DEF SweepCounted
<1>2. CASE phase = "Sweep"
  <2>1. IsFiniteSet((Linked \ Unlinking)')
    <3>1. IsFiniteSet(Obj)
      BY BoxesFinite
    <3>2. (Linked \ Unlinking)' \in SUBSET Obj
      BY DEF IndInv, TypeOK, MemoryType, Linked
    <3> QED
      BY <3>1, <3>2, FS_Subset
  <2>2. /\ Cardinality(WeaklyPending') <= Cardinality(WeaklyPending)
        /\ Cardinality(KeptPending') <= Cardinality(KeptPending)
        /\ Cardinality(WeaklyPending') \in Nat /\ Cardinality(KeptPending') \in Nat
    BY <1>2, CountedSets, FS_Subset, FS_CardinalityType
  <2>3. /\ Cardinality(Linked \ Unlinking) <= Cardinality((Linked \ Unlinking)')
        /\ Cardinality((Linked \ Unlinking)') \in Nat
    BY <1>2, <2>1, FS_Subset, FS_CardinalityType
  <2> QED
    BY <1>2, <2>2, <2>3, CountedSets, CounterTypes DEF SweepCounted
<1> QED
  BY <1>1, <1>2

(* What marks, or changes no colour.                                        *)
LEMMA StillSwept ==
  ASSUME IndInv, IndInv', MetricsInv, SweepCounted, HeapStill,
         UNCHANGED <<dropped, freed, remembered>>,
         phase = "Sweep" => UNCHANGED <<color, marked, traced>>
  PROVE  SweepCounted'
<1>1. phase = "Sweep" => /\ WeaklyPending' = WeaklyPending /\ KeptPending' = KeptPending
                         /\ (Linked \ Unlinking)' = Linked \ Unlinking
  BY DEF HeapStill, WeaklyPending, KeptPending, Unlinking, Pending, Linked
<1> QED
  BY <1>1, FewerPendingKeeps DEF HeapStill

(* Barriers and resurrection.                                               *)
LEMMA BarrierSwept ==
  ASSUME IndInv, IndInv', MetricsInv, SweepCounted, MBackwardBarrier \/ MForwardBarrier
  PROVE  SweepCounted'
<1>1. UNCHANGED <<dropped, freed, remembered>>
  BY DEF MBackwardBarrier, MForwardBarrier
<1>2. CASE MForwardBarrier
  <2>1. HeapStill /\ (phase = "Mark" \/ color' = color) /\ traced' = traced /\ CountMarked
    BY <1>2, ForwardMarks DEF OnlyMarks, MForwardBarrier
  <2>2. color' = color => marked' = marked
    BY <2>1, NothingMarked, NothingCounted DEF CountMarked
  <2> QED
    BY <1>1, <2>1, <2>2, StillSwept
<1>3. CASE MBackwardBarrier
  <2>1. BarrierStep /\ UndoTrace /\ marked' = marked
    BY <1>3 DEF MBackwardBarrier, BarrierStep
  <2>2. HeapStill /\ (phase = "Mark" \/ color' = color)
    BY <2>1, BarrierStepFrame, BarrierMoves DEF ColorStill
  <2>3. color' = color => traced' = traced
    BY <2>1, NothingMarked, NothingCounted DEF UndoTrace
  <2> QED
    BY <1>1, <2>1, <2>2, <2>3, StillSwept
<1> QED
  BY <1>2, <1>3

(* Marking.                                                                 *)
LEMMA MarkSwept ==
  ASSUME IndInv, IndInv', MetricsInv, SweepCounted,
         (\E o \in Obj : MMarkOne(o)) \/ MMarkOnePanics \/ MMarkRoot
  PROVE  SweepCounted'
<1>1. MarkStep /\ UNCHANGED <<dropped, freed, remembered>>
  BY DEF MMarkOne, MMarkOnePanics, MMarkRoot, MarkStep
<1>2. HeapStill /\ phase = "Mark"
  BY <1>1, MarkFrames
<1> QED
  BY <1>1, <1>2, StillSwept

(* A box allocated while the list is swept is above `sweep`.                *)
LEMMA AllocSwept ==
  ASSUME IndInv, IndInv', MetricsInv, SweepCounted, MAlloc
  PROVE  SweepCounted'
<1>1. PICK S \in SUBSET held, W \in SUBSET WeakHandles, nt \in BOOLEAN : Alloc(S, W, nt)
  BY DEF MAlloc
<1>2. UNCHANGED <<dropped, freed, marked, traced, remembered>>
  BY DEF MAlloc
<1>3. /\ boxes' = boxes \cup {births + 1} /\ leaked' = leaked /\ phase' = phase
      /\ color' = color /\ sweep' = sweep
      /\ births + 1 \in Obj /\ births \in Nat
  BY <1>1, MaxAllocsAssumption DEF Alloc, IndInv, TypeOK, MemoryType, ListIntact, Obj
<1>4. Linked \subseteq Linked' /\ Linked' \subseteq Linked \cup {births + 1}
  BY <1>3 DEF Linked
<1>5. phase = "Sweep" => Pending' \subseteq Pending
  <2>1. phase = "Sweep" => sweep < births + 1 /\ sweep \in Int
    BY <1>3 DEF IndInv, ListIntact, Linked, TypeOK, ListType, NULL, Obj
  <2> QED
    BY <1>3, <1>4, <2>1 DEF Pending
<1>6. phase = "Sweep" => /\ WeaklyPending' \subseteq WeaklyPending
                         /\ KeptPending' \subseteq KeptPending
                         /\ Linked \ Unlinking \subseteq (Linked \ Unlinking)'
  BY <1>3, <1>4, <1>5 DEF WeaklyPending, KeptPending, Unlinking
<1> QED
  BY <1>2, <1>3, <1>6, FewerPendingKeeps

(* Sweeping takes the swept box off what is pending, and unlinks no box that *)
(* is not white.                                                            *)
LEMMA SweepTakesOne ==
  ASSUME IndInv, SweepStep
  PROVE  /\ phase = "Sweep" /\ phase' = "Sweep" /\ sweep \in Pending
         /\ Pending' \subseteq Pending \ {sweep}
         /\ WeaklyPending' \subseteq WeaklyPending \ {sweep}
         /\ KeptPending' \subseteq KeptPending \ {sweep}
         /\ Linked \ Unlinking \subseteq (Linked \ Unlinking)'
<1>1. /\ phase = "Sweep" /\ phase' = "Sweep" /\ sweep # NULL /\ sweep' = next[sweep]
      /\ color' = [color EXCEPT ![sweep] = "White"]
      /\ color[sweep] # "White" => Linked' = Linked
      /\ Linked \ {sweep} \subseteq Linked' /\ Linked' \subseteq Linked
  BY DEF SweepStep, SweepWhite, SweepWhiteWeak, SweepBlack, CollectorTurn, DropAndDealloc, Forget,
     Linked
<1>2. /\ sweep \in Linked /\ sweep \in Pending /\ next[sweep] \in Obj \cup {NULL}
      /\ \A o \in Linked : o <= next[sweep] <=> o < sweep
  BY <1>1, SweepAdvance
<1>t. Linked \subseteq Obj /\ Obj \subseteq Int /\ color \in [Obj -> Colors]
  BY BoxesFinite DEF IndInv, TypeOK, HeaderType, Obj
<1>3. Pending' \subseteq Pending /\ sweep \notin Pending'
  <2>1. ASSUME NEW o \in Pending' PROVE o \in Pending /\ o # sweep
    <3>1. o \in Linked /\ o < sweep
      BY <1>1, <1>2, <2>1 DEF Pending
    <3> QED
      BY <1>1, <1>2, <1>t, <3>1 DEF Pending
  <2> QED
    BY <2>1
<1>4. \A o \in Linked : o # sweep => color'[o] = color[o]
  BY <1>1, <1>t
<1>5. Pending \subseteq Linked
  BY DEF Pending
<1>6. ASSUME NEW o \in Linked \ Unlinking PROVE o \in (Linked \ Unlinking)'
  <2>1. CASE o = sweep
    BY <1>1, <1>2, <1>3, <1>6, <2>1 DEF Unlinking
  <2>2. CASE o # sweep
    BY <1>1, <1>3, <1>4, <1>6, <2>2 DEF Unlinking
  <2> QED
    BY <2>1, <2>2
<1> QED
  BY <1>1, <1>2, <1>3, <1>4, <1>5, <1>6 DEF WeaklyPending, KeptPending

(* A set without one of its elements has an element less.                   *)
LEMMA OneFewer ==
  ASSUME NEW S, IsFiniteSet(S), NEW x \in S, NEW T, T \subseteq S \ {x}
  PROVE  /\ Cardinality(T) \in Nat /\ Cardinality(S) \in Nat
         /\ Cardinality(T) + 1 <= Cardinality(S)
<1>1. Cardinality(S \ {x}) = Cardinality(S) - 1 /\ IsFiniteSet(S \ {x})
  BY FS_RemoveElement
<1> QED
  BY <1>1, FS_Subset, FS_CardinalityType

(* The elements of two disjoint sets.                                       *)
LEMMA Disjoint ==
  ASSUME NEW S, IsFiniteSet(S), NEW T, IsFiniteSet(T), S \cap T = {}
  PROVE  Cardinality(S \cup T) = Cardinality(S) + Cardinality(T)
<1>1. Cardinality(S \cap T) = 0
  BY FS_EmptySet
<1>2. Cardinality(S) \in Nat /\ Cardinality(T) \in Nat
  BY FS_CardinalityType
<1>3. Cardinality(S \cup T) = Cardinality(S) + Cardinality(T) - Cardinality(S \cap T)
  BY FS_Union
<1> QED
  BY <1>1, <1>2, <1>3

(* What the sweep counts it takes off what was left to count; a saturated     *)
(* count of freed boxes is more than every other count.                     *)
LEMMA SweepSwept ==
  ASSUME IndInv, IndInv', MetricsInv, SweepCounted,
         MSweepWhite \/ MSweepWhiteWeak \/ MSweepBlack \/ MSweepPanics
  PROVE  SweepCounted'
<1> DEFINE wp == Cardinality(WeaklyPending)
           kp == Cardinality(KeptPending)
           lk == Cardinality(Linked \ Unlinking)
<1>s. SweepStep
  BY DEF MSweepWhite, MSweepWhiteWeak, MSweepBlack, MSweepPanics, SweepStep
<1>1. /\ phase = "Sweep" /\ phase' = "Sweep" /\ sweep \in Pending
      /\ WeaklyPending' \subseteq WeaklyPending \ {sweep}
      /\ KeptPending' \subseteq KeptPending \ {sweep}
      /\ Linked \ Unlinking \subseteq (Linked \ Unlinking)'
  BY <1>s, SweepTakesOne
<1>2. /\ wp \in Nat /\ kp \in Nat /\ lk \in Nat
      /\ wp' \in Nat /\ kp' \in Nat /\ lk' \in Nat
      /\ wp' <= wp /\ kp' <= kp /\ lk <= lk'
  <2>1. IsFiniteSet((Linked \ Unlinking)')
    <3>1. IsFiniteSet(Obj)
      BY BoxesFinite
    <3>2. (Linked \ Unlinking)' \in SUBSET Obj
      BY DEF IndInv, TypeOK, MemoryType, Linked
    <3> QED
      BY <3>1, <3>2, FS_Subset
  <2>2. WeaklyPending' \subseteq WeaklyPending /\ KeptPending' \subseteq KeptPending
    BY <1>1
  <2> QED
    BY <1>1, <2>1, <2>2, CountedSets, FS_Subset, FS_CardinalityType
<1>3. color[sweep] = "WhiteWeak" => wp' + 1 <= wp
  BY <1>1, CountedSets, OneFewer DEF WeaklyPending
<1>4. color[sweep] # "White" => kp' + 1 <= kp
  BY <1>1, CountedSets, OneFewer DEF KeptPending
<1>5. /\ traced + wp <= marked /\ traced + dropped + wp <= marked + freed
      /\ remembered + kp <= marked /\ marked <= lk
  BY <1>1 DEF SweepCounted
<1>t. /\ dropped \in Nat /\ freed \in Nat /\ marked \in Nat /\ traced \in Nat
      /\ remembered \in Nat /\ dropped < Wrap /\ freed < Wrap /\ marked < Wrap /\ Wrap \in Nat
  BY CounterTypes
<1>d. Drops(sweep) \in 0..1
  BY DEF Drops
<1>6. color[sweep] # "White" => Plus(remembered, 1) = remembered + 1
  <2> SUFFICES ASSUME color[sweep] # "White" PROVE Plus(remembered, 1) = remembered + 1
    OBVIOUS
  <2>1. remembered + 1 \in Int /\ remembered + 1 \in 0..(Wrap - 1)
    BY <1>2, <1>4, <1>5, <1>t
  <2> QED
    BY <2>1, Words DEF Plus
<1>7. /\ traced' + wp' <= marked' /\ traced' + dropped' + wp' <= marked' + freed'
      /\ remembered' + kp' <= marked' /\ marked' <= lk'
  <2>1. CASE MSweepWhite
    <3>1. /\ dropped' = SaturatingPlus(dropped, Drops(sweep))
          /\ freed' = SaturatingPlus(freed, 1)
          /\ UNCHANGED <<marked, traced, remembered>>
      BY <2>1 DEF MSweepWhite
    <3>2. \/ freed' = freed + 1 /\ dropped' <= dropped + 1 /\ dropped' \in Nat
          \/ freed' = Wrap - 1 /\ dropped' <= Wrap - 1 /\ dropped' \in Nat
      BY <1>d, <1>t, <3>1 DEF SaturatingPlus
    <3> QED
      BY <1>2, <1>5, <1>t, <3>1, <3>2
  <2>2. CASE MSweepWhiteWeak
    <3>1. /\ dropped' = SaturatingPlus(dropped, Drops(sweep))
          /\ remembered' = Plus(remembered, 1) /\ color[sweep] = "WhiteWeak"
          /\ UNCHANGED <<marked, traced, freed>>
      BY <2>2 DEF MSweepWhiteWeak, SweepWhiteWeak
    <3>2. dropped' <= dropped + 1 /\ dropped' \in Nat
      BY <1>d, <1>t, <3>1 DEF SaturatingPlus
    <3> QED
      BY <1>2, <1>3, <1>4, <1>5, <1>6, <1>t, <3>1, <3>2
  <2>3. CASE MSweepBlack
    <3>1. /\ remembered' = Plus(remembered, 1) /\ color[sweep] = "Black"
          /\ UNCHANGED <<marked, traced, dropped, freed>>
      BY <2>3 DEF MSweepBlack, SweepBlack
    <3> QED
      BY <1>2, <1>4, <1>5, <1>6, <1>t, <3>1
  <2>4. CASE MSweepPanics
    <3>1. UNCHANGED <<marked, traced, remembered, dropped, freed>>
      BY <2>4 DEF MSweepPanics, metricsVars
    <3> QED
      BY <1>2, <1>5, <1>t, <3>1
  <2> QED
    BY <2>1, <2>2, <2>3, <2>4
<1> QED
  BY <1>1, <1>7 DEF SweepCounted

(* When marking ends, what is marked is kept or may have its value dropped.  *)
LEMMA StartSwept ==
  ASSUME IndInv, IndInv', MetricsInv, SweepCounted, StartSweep, UNCHANGED metricsVars
  PROVE  SweepCounted'
<1>1. /\ phase = "Mark" /\ phase' = "Sweep" /\ color' = color /\ Linked' = Linked
      /\ UNCHANGED <<marked, traced, remembered, dropped, freed>>
  BY DEF StartSweep, CollectorTurn, metricsVars, Linked
<1>2. /\ marked = Cardinality(Marked) /\ traced = Cardinality(TraceCounted)
      /\ \A o \in Obj : WorkMatchesColor(o)
      /\ dropped = 0 /\ freed = 0 /\ remembered = 0
  BY <1>1, NothingOwed, NoneOwed DEF MetricsInv, SweepCounted, Marked
<1>3. Marked \in SUBSET Linked /\ Linked \in SUBSET Obj /\ IsFiniteSet(Linked)
      /\ color \in [Obj -> Colors]
  BY BoxesFinite, FS_Subset DEF Marked, IndInv, TypeOK, HeaderType
<1>4. /\ KeptPending' \subseteq Marked /\ WeaklyPending' \subseteq Marked
      /\ Marked \subseteq (Linked \ Unlinking)' /\ (Linked \ Unlinking)' \subseteq Linked
  BY <1>1 DEF KeptPending, WeaklyPending, Pending, Marked, Unlinking
<1>5. TraceCounted \subseteq Marked /\ TraceCounted \cap WeaklyPending' = {}
  <2>1. \A o \in Obj : o \notin Linked => color[o] = "White"
    BY DEF IndInv, ValuesAreLive
  <2> QED
    BY <1>1, <1>2, <1>3, <2>1 DEF TraceCounted, WorkMatchesColor, WeaklyPending, Marked, Colors,
       Mark, Trace
<1>6. IsFiniteSet(Marked) /\ IsFiniteSet(TraceCounted) /\ IsFiniteSet(WeaklyPending')
      /\ IsFiniteSet((Linked \ Unlinking)')
  BY <1>3, <1>4, <1>5, FS_Subset
<1>7. Cardinality(TraceCounted \cup WeaklyPending')
        = Cardinality(TraceCounted) + Cardinality(WeaklyPending')
  BY <1>5, <1>6, Disjoint
<1>8. Cardinality(TraceCounted \cup WeaklyPending') <= Cardinality(Marked)
  BY <1>4, <1>5, <1>6, FS_Subset
<1>9. /\ Cardinality(KeptPending') <= Cardinality(Marked)
      /\ Cardinality(Marked) <= Cardinality((Linked \ Unlinking)')
      /\ Cardinality(KeptPending') \in Nat
  BY <1>4, <1>6, FS_Subset, FS_CardinalityType
<1>10. /\ traced' + Cardinality(WeaklyPending') <= marked'
       /\ dropped' = 0 /\ freed' = 0 /\ remembered' = 0
       /\ marked' = Cardinality(Marked) /\ marked' \in Nat /\ traced' \in Nat
       /\ Cardinality(WeaklyPending') \in Nat
  BY <1>1, <1>2, <1>6, <1>7, <1>8, FS_CardinalityType
<1> QED
  BY <1>1, <1>9, <1>10 DEF SweepCounted

(* What calls no counter.                                                   *)
LEMMA OtherSwept ==
  ASSUME IndInv, IndInv', MetricsInv, SweepCounted, MOther \/ UNCHANGED pacedVars
  PROVE  SweepCounted'
<1>u. UNCHANGED metricsVars /\ UNCHANGED <<dropped, freed, remembered, marked, traced>>
  BY DEF MOther, pacedVars, metricsVars
<1>1. CASE HandleStep \/ ValueStep \/ RootStep
  <2>1. HeapStill /\ color' = color
    BY <1>1, HandleFrame, ValueStepFrame, RootStepFrame DEF ColorStill
  <2> QED
    BY <1>u, <2>1, StillSwept
<1>2. CASE Wake
  BY <1>2, <1>u DEF Wake, SweepCounted
<1>3. CASE StartSweep
  BY <1>3, <1>u, StartSwept
<1>4. CASE BeginDrop
  BY <1>4 DEF BeginDrop, SweepCounted
<1> QED
  BY <1>1, <1>2, <1>3, <1>4
     DEF MOther, Callback, HandleStep, ValueStep, RootStep, pacedVars

(* Every step keeps the pace.                                              *)
LEMMA PacingInvStep ==
  IndInv /\ PacingInv /\ [MetricsNext]_pacedVars => PacingInv'
<1> SUFFICES ASSUME IndInv, MetricsInv, SweepCounted, [MetricsNext]_pacedVars
             PROVE  PacingInv'
  BY DEF PacingInv
<1>1. IndInv' /\ MetricsInv'
  BY MetricsAreSteps, InvStep, MetricsInvStep
<1>2. CASE MAlloc \/ MBackwardBarrier \/ MForwardBarrier
  BY <1>1, <1>2, AllocSwept, BarrierSwept DEF PacingInv
<1>3. CASE (\E o \in Obj : MMarkOne(o)) \/ MMarkOnePanics \/ MMarkRoot
  BY <1>1, <1>3, MarkSwept DEF PacingInv
<1>4. CASE MSweepWhite \/ MSweepWhiteWeak \/ MSweepBlack \/ MSweepPanics
  BY <1>1, <1>4, SweepSwept DEF PacingInv
<1>5. ASSUME NEW reset \in BOOLEAN, MFinishCycle(reset) PROVE PacingInv'
  BY <1>1, <1>5 DEF PacingInv, MFinishCycle, FinishCycle, SweepCounted
<1>6. ASSUME NEW panics \in BOOLEAN, MDropOne(panics) PROVE PacingInv'
  BY <1>1, <1>6 DEF PacingInv, MDropOne, DropOne, SweepCounted
<1>7. CASE MOther \/ UNCHANGED pacedVars
  BY <1>1, <1>7, OtherSwept DEF PacingInv
<1> QED
  BY <1>2, <1>3, <1>4, <1>5, <1>6, <1>7 DEF MetricsNext

(* At every moment the counters of the sweep, those of marking and the colours *)
(* of the boxes still to be swept agree.                                    *)
THEOREM PaceInvariance == MetricsSpec => []PacingInv
<1>1. MetricsSpec => []IndInv
  BY PacingRefines, Invariance, PTL
<1>2. MetricsInit => PacingInv
  <2>1. MetricsInit => SweepCounted
    BY DEF MetricsInit, Init, SweepCounted
  <2> QED
    BY <2>1, MetricsInvInit DEF PacingInv
<1> QED
  BY <1>1, <1>2, PacingInvStep, PTL DEF MetricsSpec

(* All the work of a cycle is paid for by the boxes it has marked, that are   *)
(* still there, and by those it has freed.                                  *)
LEMMA CreditsBounded ==
  ASSUME IndInv, MetricsInv, SweepCounted, phase # "Drop", TraceOwed = {}
  PROVE  Credits <= MostWork * totalGcs + (Drop + Free) * freed
<1>t. /\ totalGcs \in Nat /\ dropped \in Nat /\ freed \in Nat
      /\ marked \in Nat /\ traced \in Nat /\ remembered \in Nat
      /\ totalGcs = Cardinality(boxes)
  BY CounterTypes DEF MetricsInv
<1>c. /\ Credits = marked * 2 + traced * 8 + remembered * 1 + dropped * 4 + freed * 6
      /\ MostWork = 11 /\ Drop + Free = 10
  BY WorstCase DEF Credits, Mark, Trace, Keep, Drop, Free
<1>1. CASE phase = "Sleep"
  BY <1>1, <1>t, <1>c DEF MetricsInv, SweepCounted
<1>2. CASE phase = "Mark"
  <2>1. /\ marked = Cardinality(Marked) /\ traced = Cardinality(TraceCounted)
        /\ \A o \in Obj : WorkMatchesColor(o)
        /\ dropped = 0 /\ freed = 0 /\ remembered = 0
    BY <1>2, NoneOwed DEF MetricsInv, SweepCounted, Marked
  <2>2. \A o \in Obj : o \notin Linked => color[o] = "White"
    BY DEF IndInv, ValuesAreLive
  <2>3. TraceCounted \subseteq Marked /\ Marked \in SUBSET boxes
    BY <2>1, <2>2, BoxesFinite DEF TraceCounted, WorkMatchesColor, Marked, Mark, Trace
  <2>4. Cardinality(TraceCounted) <= Cardinality(Marked)
        /\ Cardinality(Marked) <= Cardinality(boxes)
    BY <2>3, BoxesFinite, FS_Subset
  <2>5. traced <= marked /\ marked <= totalGcs
    BY <1>t, <2>1, <2>4
  <2> QED
    BY <1>t, <1>c, <2>1, <2>5
<1>3. CASE phase = "Sweep"
  <2>1. /\ traced <= marked /\ traced + dropped <= marked + freed
        /\ remembered <= marked /\ marked <= totalGcs
    BY <1>3, <1>t, CountedSets DEF SweepCounted
  <2> QED
    BY <1>t, <1>c, <2>1
<1> QED
  BY <1>1, <1>2, <1>3 DEF IndInv, TypeOK, ListType, Phases

(* A cycle that is paid for has not let the heap outgrow what it found and the *)
(* sleep before it, for all interleavings of callbacks and collection, and   *)
(* though counters of the sweep saturate, unless marking still owes a trace.  *)
THEOREM CyclesKeepPace == MetricsSpec => []CollectionKeepsPace
<1>1. ASSUME IndInv, PacingInv PROVE CollectionKeepsPace
  <2> SUFFICES ASSUME phase # "Drop", totalGcs > 0, AllocationDebt = 0, TraceOwed = {}
               PROVE  (Byte - MostWork) * allocated + artificialDebt
                        <= wakeupAmount + MostWork * (totalGcs + freed - allocated)
    BY DEF CollectionKeepsPace
  <2>t. /\ totalGcs \in Nat /\ allocated \in Nat /\ dropped \in Nat /\ freed \in Nat
        /\ marked \in Nat /\ traced \in Nat /\ remembered \in Nat
        /\ wakeupAmount \in Nat /\ artificialDebt \in Nat
    BY <1>1, CounterTypes DEF PacingInv
  <2>1. Debits = allocated * 20 - wakeupAmount + artificialDebt /\ Credits \in Int
    BY <2>t DEF Debits, Credits, Byte, Mark, Trace, Keep, Drop, Free
  <2>2. Debits <= 0 \/ Debits <= Credits
    BY <2>t, <2>1 DEF AllocationDebt, Larger
  <2>3. Credits <= 11 * totalGcs + 10 * freed /\ MostWork = 11 /\ Byte = 20
    BY <1>1, CreditsBounded, WorstCase DEF PacingInv, Drop, Free, Byte
  <2> QED
    BY <2>t, <2>1, <2>2, <2>3
<1>2. MetricsSpec => []IndInv
  BY PacingRefines, Invariance, PTL
<1> QED
  BY <1>1, <1>2, PaceInvariance, PTL

-----------------------------------------------------------------------------
(* Every turn of the loop is a step of the collector of GcContext, or ends   *)
(* the call and leaves the heap alone.                                      *)
LEMMA LoopIsCollector == Loop => Collector \/ UNCHANGED vars
<1> SUFFICES ASSUME Loop PROVE Collector \/ UNCHANGED vars
  OBVIOUS
<1>1. CASE LoopSleep
  BY <1>1 DEF LoopSleep, Collector
<1>2. CASE LoopMark
  BY <1>2 DEF LoopMark, Collector
<1>3. CASE LoopMarked
  BY <1>3 DEF LoopMarked, Collector
<1>4. CASE LoopSweep
  BY <1>4 DEF LoopSweep, SweepOne, CycleEnds, Collector
<1> QED
  BY <1>1, <1>2, <1>3, <1>4 DEF Loop

LEMMA CollectionStep == [CollectionNext]_allVars => [Next]_vars
<1> SUFFICES ASSUME [CollectionNext]_allVars PROVE [Next]_vars
  OBVIOUS
<1>1. ASSUME NEW r \in Requests, Begin(r) PROVE UNCHANGED vars
  BY <1>1 DEF Begin
<1>2. CASE Loop
  BY <1>2, LoopIsCollector DEF Next
<1>3. CASE Outside
  BY <1>3 DEF Outside, Next, Callback
<1>4. CASE UNCHANGED allVars
  BY <1>4 DEF allVars
<1> QED
  BY <1>1, <1>2, <1>3, <1>4 DEF CollectionNext

(* The entry points drive the collector in no way that GcContext does not    *)
(* allow: Collection implements GcContext.                                  *)
THEOREM CollectionRefines == CollectionSpec => Spec
BY CollectionStep, PTL DEF CollectionSpec, CollectionInit, Spec

(* Memory is safe under any sequence of calls into the collector.           *)
THEOREM CollectionMemorySafety == CollectionSpec => []NoDanglingPointers
BY CollectionRefines, MemorySafety, PTL

-----------------------------------------------------------------------------
(* What is known of a call in progress.                                     *)
CallInv ==
    /\ call \in Calls /\ outcome \in Outcomes
    /\ Calling => /\ mode = "idle" /\ Running
                  /\ outcome = "none" /\ call.from # "Drop"
                  /\ call.stop = "FullyMarked" /\ phase = "Sweep" => call.from = "Sweep"
                  /\ call.stop = "FinishCycle" /\ phase = "Sleep" => call.from = "Sleep"
    /\ outcome = "marked" => phase = "Mark" /\ ~GrayRemaining

LEMMA CallTypes ==
    /\ NoCall \in Calls
    /\ \A r \in Requests : r.until \in RunUntils /\ r.stop \in Stops
BY DEF NoCall, Calls, RunUntils, Stops, Phases, Requests, Request, CollectDebt, MarkDebt,
   FinishMarking, CycleDebt, FinishCycleNow, StartSweeping

(* The call that ends, and the call that goes on.                           *)
LEMMA EndsKeeps ==
    ASSUME NEW s \in Stops, Ends(s) PROVE CallInv'
BY CallTypes DEF Ends, CallInv, Calling, Outcomes

LEMMA PanicsKeeps == Panics => CallInv'
BY CallTypes DEF Panics, CallInv, Calling, Outcomes

LEMMA GoesOn ==
    ASSUME CallInv, Calling, NEW b \in BOOLEAN, Goes(b),
           mode' = "idle", Running',
           (call.stop = "FullyMarked" /\ phase' = "Sweep") => phase = "Sweep",
           (call.stop = "FinishCycle" /\ phase' = "Sleep") => phase = "Sleep"
    PROVE  CallInv'
<1>1. CASE Ends(call.stop)
  BY <1>1, EndsKeeps DEF CallInv, Calls
<1>2. CASE call' = [call EXCEPT !.hasSlept = b] /\ UNCHANGED outcome
  <2>1. /\ call' \in Calls /\ call'.stop = call.stop /\ call'.from = call.from
    BY <1>2 DEF CallInv, Calls
  <2> QED
    BY <1>2, <2>1 DEF CallInv, Calling, NoCall, Outcomes
<1> QED
  BY <1>1, <1>2 DEF Goes

(* What the steps of the collector do to the phase.                         *)
LEMMA CollectorPhases ==
    /\ Wake => mode' = mode /\ phase = "Sleep" /\ phase' = "Mark"
    /\ \A o \in Obj : MarkOne(o) => mode' = mode /\ phase' = "Mark"
    /\ MarkRoot => mode' = mode /\ phase' = "Mark"
    /\ StartSweep => mode' = mode /\ phase = "Mark" /\ phase' = "Sweep"
    /\ \A b \in BOOLEAN : SweepWhite(b) => mode' = mode /\ phase' = phase /\ phase = "Sweep"
    /\ SweepWhiteWeak => mode' = mode /\ phase' = phase /\ phase = "Sweep"
    /\ SweepBlack => mode' = mode /\ phase' = phase /\ phase = "Sweep"
    /\ FinishCycle => mode' = mode /\ phase = "Sweep" /\ phase' = "Sleep"
BY DEF Wake, MarkOne, MarkRoot, StartSweep, SweepWhite, SweepWhiteWeak, SweepBlack,
   FinishCycle, CollectorTurn, MarkFrame, handleVars

LEMMA StopOrder ==
    /\ \A s \in Stops : StopsBy(s, "FullyMarked") <=> s = "FullyMarked"
    /\ \A s \in Stops : StopsBy(s, "AtSweep") <=> s \in {"FullyMarked", "AtSweep"}
BY DEF Stops, StopsBy, Rank

LEMMA CallStep == TypeOK /\ CallInv /\ [CollectionNext]_allVars => CallInv'
<1> SUFFICES ASSUME TypeOK, CallInv, [CollectionNext]_allVars PROVE CallInv'
  OBVIOUS
<1>1. ASSUME NEW r \in Requests, Begin(r) PROVE CallInv'
  <2>1. CASE r.until = "PayDebt" /\ Ends(r.stop)
    BY <2>1, EndsKeeps, CallTypes
  <2>2. CASE /\ call' = [until |-> r.until, stop |-> r.stop, hasSlept |-> FALSE, from |-> phase]
             /\ outcome' = "none"
    <3>1. phase \in Phases /\ phase' = phase /\ mode' = mode
      BY <1>1 DEF Begin, vars, handleVars, TypeOK
    <3> QED
      BY <1>1, <2>2, <3>1, CallTypes DEF Begin, CallInv, Calls, Calling, Running, Outcomes
  <2> QED
    BY <1>1, <2>1, <2>2 DEF Begin
<1>2. CASE Loop
  <2>s. Calling /\ mode = "idle" /\ Running /\ call.stop \in Stops /\ call.hasSlept \in BOOLEAN
    BY <1>2 DEF Loop, CallInv, Calls
  <2>1. CASE LoopSleep
    BY <2>1, <2>s, GoesOn, CollectorPhases DEF LoopSleep, Running
  <2>2. CASE LoopMark
    BY <2>2, <2>s, GoesOn, PanicsKeeps, CollectorPhases DEF LoopMark, Running
  <2>3. CASE LoopMarked
    BY <2>3, <2>s, GoesOn, EndsKeeps, CollectorPhases, StopOrder DEF LoopMarked, Running
  <2>4. CASE LoopSweep
    <3>1. CASE StopsBy(call.stop, "AtSweep")
      BY <2>4, <2>s, <3>1, EndsKeeps DEF LoopSweep
    <3>2. CASE SweepOne
      BY <2>s, <3>2, GoesOn, PanicsKeeps, CollectorPhases DEF SweepOne, Running
    <3>3. CASE CycleEnds
      BY <2>s, <3>3, GoesOn, EndsKeeps, CollectorPhases DEF CycleEnds, Running
    <3> QED
      BY <2>4, <3>1, <3>2, <3>3 DEF LoopSweep
  <2> QED
    BY <1>2, <2>1, <2>2, <2>3, <2>4 DEF Loop
<1>3. CASE Outside
  BY <1>3 DEF Outside, CallInv, Calling, Outcomes
<1>4. CASE UNCHANGED allVars
  BY <1>4 DEF allVars, collectionVars, vars, handleVars, queueVars, CallInv, Calling, Running,
     GrayRemaining, NoQueue
<1> QED
  BY <1>1, <1>2, <1>3, <1>4 DEF CollectionNext

LEMMA CallInvariant == CollectionSpec => []CallInv
<1>1. CollectionInit => CallInv
  BY CallTypes DEF CollectionInit, Init, CallInv, Calling, Outcomes
<1>2. CollectionSpec => []TypeOK
  BY CollectionRefines, TypeCorrect, PTL
<1> QED
  BY <1>1, <1>2, CallStep, PTL DEF CollectionSpec

(* Calls begin and end between callbacks, and a MarkedArena exists only      *)
(* while marking is complete.                                               *)
THEOREM CollectionTyped == CollectionSpec => []CollectionTypeOK
<1>1. TypeOK /\ CallInv => CollectionTypeOK
  BY DEF CallInv, CollectionTypeOK
<1> QED
  BY <1>1, CallInvariant, CollectionRefines, TypeCorrect, PTL

(* A turn that goes on without a look at the debt does not return.           *)
LEMMA GoesReturns ==
    ASSUME CallInv, Calling, NEW b \in BOOLEAN, Goes(b), call.until = "Stop"
    PROVE  Calling'
BY DEF Goes, CallInv, Calls, Calling, NoCall

LEMMA RequestFields ==
    \A u \in RunUntils, s \in Stops :
        /\ Request(u, s).until = u /\ Request(u, s).stop = s
BY DEF Request

StopStep ==
    Returns =>
        LET r == Request(call.until, call.stop) IN
        /\ r = FinishMarking => outcome' = "marked" \/ call.from = "Sweep"
        /\ r = StartSweeping => phase' = "Sweep"
        /\ r = FinishCycleNow => phase' = "Sleep"

LEMMA LoopStops ==
    ASSUME CallInv, Loop, Returns, call.until = "Stop"
    PROVE  /\ call.stop = "FullyMarked" => outcome' = "marked" \/ call.from = "Sweep"
           /\ call.stop = "AtSweep" => phase' = "Sweep"
           /\ call.stop = "FinishCycle" => phase' = "Sleep"
<1>s. Calling /\ ~Calling' /\ outcome' # "panicked" /\ call.stop \in Stops
      /\ call.hasSlept \in BOOLEAN
  BY DEF Returns, CallInv, Calls
<1>1. CASE LoopSleep
  BY <1>1, <1>s, GoesReturns DEF LoopSleep
<1>2. CASE LoopMark
  BY <1>2, <1>s, GoesReturns DEF LoopMark, Panics
<1>3. CASE LoopMarked
  <2>1. StopsBy(call.stop, "FullyMarked") /\ UNCHANGED vars /\ Ends(call.stop)
    BY <1>3, <1>s, GoesReturns DEF LoopMarked
  <2>2. phase' = "Mark" /\ ~GrayRemaining'
    BY <1>3, <2>1 DEF LoopMarked, vars, queueVars, GrayRemaining, NoQueue
  <2> QED
    BY <1>s, <2>1, <2>2, StopOrder DEF Ends
<1>4. CASE LoopSweep
  <2>1. CASE StopsBy(call.stop, "AtSweep")
    BY <1>4, <1>s, <2>1, StopOrder DEF LoopSweep, vars, CallInv
  <2>2. CASE SweepOne
    BY <1>s, <2>2, GoesReturns DEF SweepOne, Panics
  <2>3. CASE CycleEnds /\ ~StopsBy(call.stop, "AtSweep")
    BY <1>s, <2>3, StopOrder, CollectorPhases DEF CycleEnds
  <2> QED
    BY <1>4, <2>1, <2>2, <2>3 DEF LoopSweep
<1> QED
  BY <1>1, <1>2, <1>3, <1>4 DEF Loop

(* The postconditions of the entry points that run until they stop.          *)
THEOREM EntryPointsStop == CollectionSpec => StopsWhereAsked
<1>1. CallInv /\ [CollectionNext]_allVars => [StopStep]_allVars
  <2> SUFFICES ASSUME CallInv, CollectionNext, Returns PROVE StopStep
    BY DEF StopStep
  <2>1. Loop
    BY DEF Returns, CollectionNext, Begin, Outside
  <2>2. /\ Request(call.until, call.stop) = FinishMarking
              => call.until = "Stop" /\ call.stop = "FullyMarked"
        /\ Request(call.until, call.stop) = StartSweeping
              => call.until = "Stop" /\ call.stop = "AtSweep"
        /\ Request(call.until, call.stop) = FinishCycleNow
              => call.until = "Stop" /\ call.stop = "FinishCycle"
    BY DEF Request, FinishMarking, StartSweeping, FinishCycleNow
  <2> QED
    BY <2>1, <2>2, LoopStops DEF StopStep
<1> QED
  BY <1>1, CallInvariant, PTL DEF CollectionSpec, StopsWhereAsked, StopStep

PhaseStep ==
    Calling =>
        /\ call.stop = "FullyMarked" => phase' # "Sweep" \/ call.from = "Sweep"
        /\ call.stop = "FinishCycle" /\ Wake => call.from = "Sleep"
        /\ FinishCycle /\ call.hasSlept => call.stop \in {"FinishCycle", "Full"}

(* mark_debt and finish_marking never sweep, cycle_debt and finish_cycle      *)
(* never begin a second cycle, and the assertion of do_collection holds.     *)
THEOREM CallsKeepToPhases == CollectionSpec => KeepsToItsPhases
<1>1. CallInv /\ [CollectionNext]_allVars => [PhaseStep]_allVars
  <2> SUFFICES ASSUME CallInv, CollectionNext, Calling PROVE PhaseStep
    BY DEF PhaseStep
  <2>s. Loop /\ call.stop \in Stops
    BY DEF CollectionNext, Begin, Outside, CallInv, Calls
  <2>1. call.stop = "FullyMarked" => phase' # "Sweep" \/ call.from = "Sweep"
    <3> SUFFICES ASSUME call.stop = "FullyMarked", phase' = "Sweep", phase # "Sweep"
                 PROVE  FALSE
      BY DEF CallInv
    <3>1. CASE LoopSleep
      BY <3>1, CollectorPhases DEF LoopSleep
    <3>2. CASE LoopMark
      BY <3>2 DEF LoopMark, MarkOne, MarkOnePanics, MarkRoot, MarkRootPanics, MarkFrame
    <3>3. CASE LoopMarked
      BY <2>s, <3>3, StopOrder DEF LoopMarked, vars
    <3>4. CASE LoopSweep
      BY <3>4 DEF LoopSweep
    <3> QED
      BY <2>s, <3>1, <3>2, <3>3, <3>4 DEF Loop
  <2>2. call.stop = "FinishCycle" /\ Wake => call.from = "Sleep"
    BY CollectorPhases DEF CallInv
  <2>3. FinishCycle => call.stop \in {"FinishCycle", "Full"}
    <3> SUFFICES ASSUME FinishCycle PROVE ~StopsBy(call.stop, "AtSweep")
      BY <2>s, StopOrder DEF Stops
    <3>1. phase = "Sweep" /\ phase' = "Sleep"
      BY CollectorPhases
    <3>2. LoopSweep
      BY <2>s, <3>1, CollectorPhases
         DEF Loop, LoopSleep, LoopMark, LoopMarked, MarkOne, MarkOnePanics, MarkRoot,
             MarkRootPanics
    <3> QED
      BY <3>1, <3>2 DEF LoopSweep, vars
  <2> QED
    BY <2>1, <2>2, <2>3 DEF PhaseStep
<1> QED
  BY <1>1, CallInvariant, PTL DEF CollectionSpec, KeepsToItsPhases, PhaseStep

-----------------------------------------------------------------------------
(* A cycle done in one call.                                                *)

(* What weak pointers reach from the root. *)
WeakReach == rootWeak \cup WeakOf(RootReach)

(* What is marked was reached from the root.                                *)
ReachedFromRoot(o) ==
    /\ color[o] \in {"Gray", "Black"} => o \in RootReach
    /\ color[o] = "WhiteWeak" => o \in WeakReach

(* What the sweep has left is reachable, or an empty box of a weak pointer.  *)
KeptForRoot(o) == o \in RootReach \/ (o \in WeakReach /\ ~isLive[o])

(* A call that began the cycle is alone with the heap: the root is the one   *)
(* marking began with, and it is all that was marked from.                  *)
RootAlone ==
    /\ phase \in {"Mark", "Sweep"}
    /\ phase = "Mark" => \A o \in Obj : ReachedFromRoot(o)
    /\ phase = "Sweep" => /\ \A o \in Pending : ReachedFromRoot(o)
                          /\ \A o \in Linked \ Pending : KeptForRoot(o)

(* A call that has slept began the cycle it is in. *)
SleptInv == call.hasSlept => RootAlone

(* Changes to what the root does not reach do not change what it reaches.    *)
LEMMA RootReachStays ==
    ASSUME TypeOK, TypeOK', rootStrong' = rootStrong, rootWeak' = rootWeak,
           \A o \in RootReach : strong'[o] = strong[o] /\ weak'[o] = weak[o]
    PROVE  RootReach' = RootReach /\ WeakReach' = WeakReach
<1>t. /\ rootStrong \in SUBSET Obj
      /\ \A o \in Obj : strong[o] \subseteq Obj /\ strong'[o] \subseteq Obj
  BY DEF TypeOK, ValueType
<1>1. /\ rootStrong \subseteq RootReach /\ RootReach \subseteq Obj
      /\ \A o \in RootReach : strong[o] \subseteq RootReach
  BY <1>t, ReachClosed DEF RootReach, Closed
<1>2. /\ RootReach' = {o \in Obj : \A S \in SUBSET Obj :
                           (rootStrong' \subseteq S /\ \A q \in S : strong'[q] \subseteq S) => o \in S}
  BY DEF RootReach, Reach, Closed
<1>3. RootReach' \subseteq RootReach
  BY <1>1, <1>2
<1>4. ASSUME NEW o \in RootReach', NEW c \in strong'[o] PROVE c \in RootReach'
  BY <1>t, <1>2, <1>4
<1>5. rootStrong \subseteq RootReach' /\ RootReach' \in SUBSET Obj
  BY <1>t, <1>2
<1>6. \A o \in RootReach' : strong[o] \subseteq RootReach'
  BY <1>3, <1>4
<1>7. RootReach \subseteq RootReach'
  BY <1>5, <1>6, ReachLeast DEF RootReach
<1>8. RootReach' = RootReach
  BY <1>3, <1>7
<1> QED
  BY <1>8 DEF WeakReach, WeakOf

(* Tracing what was reached reaches its pointers.                           *)
LEMMA TraceReaches ==
    ASSUME NEW S \in SUBSET RootReach, NEW W \in SUBSET WeakReach, NEW base \in [Obj -> Colors],
           NEW o \in Obj, ReachedFromRoot(o),
           base[o] = color[o] \/ (base[o] = "Black" /\ o \in RootReach),
           color'[o] = TraceColor(base, S, W)[o],
           RootReach' = RootReach, WeakReach' = WeakReach
    PROVE  ReachedFromRoot(o)'
<1>1. \/ color'[o] \in {"Gray", "Black"} /\ o \in S
      \/ color'[o] = "WhiteWeak" /\ o \in W
      \/ color'[o] = base[o]
  BY DEF TraceColor
<1> QED
  BY <1>1 DEF ReachedFromRoot

(* Tracing a reached object reaches what it points at. *)
LEMMA SleptMarkOne ==
    ASSUME IndInv, IndInv', RootAlone, NEW o \in Obj, MarkOne(o)
    PROVE  RootAlone'
<1>1. /\ phase = "Mark" /\ phase' = "Mark"
      /\ UNCHANGED <<strong, weak, rootStrong, rootWeak>>
      /\ color' = TraceColor([color EXCEPT ![o] = "Black"], strong[o], weak[o])
      /\ gray[o] > 0 \/ grayAgain[o] > 0
  BY DEF MarkOne, MarkFrame, CollectorTurn, valueVars, rootVars, PopGray, PopGrayAgain
<1>t. /\ color \in [Obj -> Colors] /\ gray[o] \in Nat /\ grayAgain[o] \in Nat
      /\ rootStrong \in SUBSET Obj /\ \A q \in Obj : strong[q] \subseteq Obj
      /\ TypeOK /\ TypeOK'
  BY DEF IndInv, TypeOK, HeaderType, QueueType, ValueType
<1>2. color[o] = "Gray"
  BY <1>1, <1>t DEF IndInv, GrayIffQueued
<1>3. o \in RootReach
  BY <1>1, <1>2 DEF RootAlone, ReachedFromRoot
<1>4. strong[o] \subseteq RootReach /\ weak[o] \subseteq WeakReach
  BY <1>3, <1>t, ReachClosed DEF RootReach, Closed, WeakReach, WeakOf
<1>5. RootReach' = RootReach /\ WeakReach' = WeakReach
  BY <1>1, <1>t, RootReachStays
<1>6. [color EXCEPT ![o] = "Black"] \in [Obj -> Colors]
  BY <1>t DEF Colors
<1>7. ASSUME NEW q \in Obj PROVE ReachedFromRoot(q)'
  <2>1. ReachedFromRoot(q)
    BY <1>1 DEF RootAlone
  <2> QED
    BY <2>1, <1>1, <1>3, <1>4, <1>5, <1>6, <1>t, TraceReaches
<1> QED
  BY <1>1, <1>7 DEF RootAlone

(* Tracing the root marks what it points at. *)
LEMMA SleptMarkRoot ==
    ASSUME IndInv, IndInv', RootAlone, MarkRoot
    PROVE  RootAlone'
<1>1. /\ phase = "Mark" /\ phase' = "Mark"
      /\ UNCHANGED <<strong, weak, rootStrong, rootWeak>>
      /\ color' = TraceColor(color, rootStrong, rootWeak)
  BY DEF MarkRoot, MarkFrame, CollectorTurn, valueVars, rootVars
<1>t. /\ color \in [Obj -> Colors] /\ TypeOK /\ TypeOK'
      /\ rootStrong \in SUBSET Obj /\ \A q \in Obj : strong[q] \subseteq Obj
  BY DEF IndInv, TypeOK, HeaderType, ValueType
<1>2. rootStrong \subseteq RootReach /\ rootWeak \subseteq WeakReach
  BY <1>t, ReachClosed DEF RootReach, WeakReach
<1>3. RootReach' = RootReach /\ WeakReach' = WeakReach
  BY <1>1, <1>t, RootReachStays
<1>4. ASSUME NEW q \in Obj PROVE ReachedFromRoot(q)'
  <2>1. ReachedFromRoot(q)
    BY <1>1 DEF RootAlone
  <2> QED
    BY <2>1, <1>1, <1>2, <1>3, <1>t, TraceReaches
<1> QED
  BY <1>1, <1>4 DEF RootAlone

(* Waking finds nothing marked.                                             *)
LEMMA SleptWake ==
    ASSUME IndInv, Wake
    PROVE  RootAlone'
<1>1. phase = "Sleep" /\ phase' = "Mark" /\ color' = color
  BY DEF Wake
<1>2. \A o \in Obj : color[o] = "White"
  BY <1>1 DEF IndInv, ColorsMatchPhase, ValuesAreLive
<1> QED
  BY <1>1, <1>2 DEF RootAlone, ReachedFromRoot

(* The sweep has all boxes before it, coloured by what was reached. *)
LEMMA SleptStartSweep ==
    ASSUME IndInv, IndInv', RootAlone, StartSweep
    PROVE  RootAlone'
<1>1. /\ phase = "Mark" /\ phase' = "Sweep" /\ color' = color /\ sweep' = all
      /\ UNCHANGED <<strong, weak, rootStrong, rootWeak, boxes, leaked, isLive, births>>
  BY DEF StartSweep, CollectorTurn, valueVars, rootVars
<1>2. RootReach' = RootReach /\ WeakReach' = WeakReach
  BY <1>1, RootReachStays DEF IndInv
<1>3. Pending' = Linked' /\ Linked' \subseteq Obj
  <2>1. Below(all, births + 1) /\ Linked \subseteq Obj /\ boxes \subseteq 1..births
        /\ births \in Nat /\ all \in Obj \cup {NULL}
    BY <1>1 DEF IndInv, ListIntact, Running, TypeOK, ListType, MemoryType, Linked
  <2>2. \A o \in Linked : o <= all
    BY <2>1 DEF Below, Linked, Obj, NULL
  <2> QED
    BY <1>1, <2>1, <2>2 DEF Pending, Linked
<1> QED
  BY <1>1, <1>2, <1>3 DEF RootAlone, ReachedFromRoot

(* The sweep keeps a marked box, and of a weakly marked one the shell. *)
LEMMA SleptSweep ==
    ASSUME IndInv, IndInv', RootAlone,
           SweepWhite(FALSE) \/ SweepWhiteWeak \/ SweepBlack
    PROVE  RootAlone'
<1>0. SweepStep
  BY DEF SweepStep
<1>1. /\ phase = "Sweep" /\ phase' = "Sweep" /\ sweep # NULL /\ sweep' = next[sweep]
      /\ UNCHANGED <<rootStrong, rootWeak>> /\ Running
      /\ \A o \in Obj : o # sweep => color'[o] = color[o] /\ isLive'[o] = isLive[o]
      /\ leaked' = leaked
  BY DEF SweepWhite, SweepWhiteWeak, SweepBlack, CollectorTurn, DropAndDealloc, Forget,
     rootVars, valueVars, Running, IndInv, TypeOK, HeaderType
<1>2. /\ sweep \in Linked /\ Linked \subseteq Obj /\ sweep \in Pending
      /\ \A o \in Linked : o <= next[sweep] <=> o < sweep
  BY <1>1, SweepAdvance DEF IndInv, TypeOK, MemoryType, Linked
<1>3. /\ Survivors' = Survivors /\ Linked' \in {Linked, Linked \ {sweep}}
      /\ \A p \in Survivors : strong'[p] = strong[p] /\ weak'[p] = weak[p]
  BY <1>0, SweepSurvivors
<1>4. RootReach \subseteq Survivors
  BY <1>1, SurvivorsReach DEF RootReach, IndInv, SurvivorsClosed
<1>5. RootReach' = RootReach /\ WeakReach' = WeakReach
  BY <1>1, <1>3, <1>4, RootReachStays DEF IndInv
<1>6. Pending' = Pending \ {sweep}
  <2>1. Linked \subseteq Int /\ sweep \in Int
    BY <1>2 DEF Obj
  <2>2. \A o \in Linked : o # sweep => (o <= next[sweep] <=> o <= sweep)
    BY <1>2, <2>1
  <2>3. ~(sweep <= next[sweep])
    BY <1>2, <2>1
  <2> QED
    BY <1>1, <1>3, <2>2, <2>3 DEF Pending
<1>7. ASSUME NEW o \in Pending' PROVE ReachedFromRoot(o)'
  BY <1>1, <1>2, <1>5, <1>6, <1>7 DEF RootAlone, ReachedFromRoot, Pending
<1>8. ASSUME NEW o \in (Linked \ Pending)', o # sweep PROVE KeptForRoot(o)'
  BY <1>1, <1>2, <1>3, <1>5, <1>6, <1>8 DEF RootAlone, KeptForRoot
<1>9. ASSUME NEW o \in (Linked \ Pending)', o = sweep PROVE KeptForRoot(o)'
  <2>0. ReachedFromRoot(o) /\ o \in Obj
    BY <1>1, <1>2, <1>9 DEF RootAlone
  <2>1. CASE SweepWhite(FALSE)
    BY <1>9, <2>1 DEF SweepWhite, DropAndDealloc, Linked
  <2>2. CASE SweepWhiteWeak
    <3>1. color[o] = "WhiteWeak" /\ ~isLive'[o]
      BY <1>9, <2>0, <2>2 DEF SweepWhiteWeak, Forget, IndInv, TypeOK, HeaderType
    <3> QED
      BY <1>5, <2>0, <3>1 DEF ReachedFromRoot, KeptForRoot
  <2>3. CASE SweepBlack
    BY <1>5, <1>9, <2>0, <2>3 DEF SweepBlack, ReachedFromRoot, KeptForRoot
  <2> QED
    BY <2>1, <2>2, <2>3
<1> QED
  BY <1>1, <1>7, <1>8, <1>9 DEF RootAlone

(* The call goes on, or is over.                                            *)
LEMMA SleptEnds ==
    /\ \A s : Ends(s) => SleptInv'
    /\ Panics => SleptInv'
BY DEF Ends, Panics, NoCall, SleptInv

(* What the turn of the loop keeps, the call keeps. *)
LEMMA SleptGoes ==
    ASSUME CallInv, NEW b \in BOOLEAN, Goes(b), b => RootAlone'
    PROVE  SleptInv'
<1>1. CASE Ends(call.stop)
  BY <1>1, SleptEnds
<1>2. CASE call' = [call EXCEPT !.hasSlept = b]
  <2>1. call'.hasSlept = b
    BY <1>2 DEF CallInv, Calls
  <2> QED
    BY <2>1 DEF SleptInv
<1> QED
  BY <1>1, <1>2 DEF Goes

(* Begin, the turns of the loop, and what user code does between calls. *)
LEMMA SleptStep == IndInv /\ CallInv /\ SleptInv /\ [CollectionNext]_allVars => SleptInv'
<1> SUFFICES ASSUME IndInv, CallInv, SleptInv, [CollectionNext]_allVars PROVE SleptInv'
  OBVIOUS
<1>0. IndInv'
  BY CollectionStep, InvStep
<1>1. ASSUME NEW r \in Requests, Begin(r) PROVE SleptInv'
  BY <1>1, SleptEnds DEF Begin, SleptInv
<1>2. CASE Loop
  <2>s. call.hasSlept \in BOOLEAN /\ (call.hasSlept => RootAlone)
    BY DEF CallInv, Calls, SleptInv
  <2>1. CASE LoopSleep
    BY <1>0, <2>1, SleptWake, SleptGoes DEF LoopSleep
  <2>2. CASE LoopMark
    BY <1>0, <2>2, <2>s, SleptMarkOne, SleptMarkRoot, SleptGoes, SleptEnds DEF LoopMark
  <2>3. CASE LoopMarked
    BY <1>0, <2>3, <2>s, SleptStartSweep, SleptGoes, SleptEnds DEF LoopMarked
  <2>4. CASE LoopSweep
    <3>1. CASE SweepOne
      BY <1>0, <3>1, <2>s, SleptSweep, SleptGoes, SleptEnds DEF SweepOne
    <3>2. CASE CycleEnds
      BY <3>2, <2>s, SleptGoes, SleptEnds DEF CycleEnds
    <3> QED
      BY <2>4, <3>1, <3>2, SleptEnds DEF LoopSweep
  <2> QED
    BY <1>2, <2>1, <2>2, <2>3, <2>4 DEF Loop
<1>3. CASE Outside
  BY <1>3 DEF Outside, Calling, NoCall, SleptInv
<1>4. CASE UNCHANGED allVars
  <2>1. RootAlone' = RootAlone
    BY <1>4 DEF allVars, vars, listVars, valueVars, rootVars, headerVars, memoryVars, RootAlone,
       ReachedFromRoot, KeptForRoot, WeakReach, WeakOf, RootReach, Reach, Closed, Pending, Linked
  <2> QED
    BY <1>4, <2>1 DEF allVars, collectionVars, SleptInv
<1> QED
  BY <1>1, <1>2, <1>3, <1>4 DEF CollectionNext

(* AtomicCycleExact of one step. *)
ExactStep ==
    FinishCycle /\ call.hasSlept =>
        /\ {o \in Linked : isLive[o]}' = RootReach'
        /\ Linked' = RootReach' \cup rootWeak' \cup WeakOf(RootReach)'

(* A cycle done in one call leaves exactly what the root reaches, and the     *)
(* boxes of weak pointers in that.                                          *)
THEOREM FullCycleIsExact == CollectionSpec => AtomicCycleExact
<1>1. IndInv /\ SleptInv => ExactStep
  <2> SUFFICES ASSUME IndInv, SleptInv, FinishCycle, call.hasSlept PROVE ExactStep
    BY DEF ExactStep
  <2>1. /\ phase = "Sweep" /\ sweep = NULL
        /\ UNCHANGED <<strong, weak, rootStrong, rootWeak, boxes, leaked, isLive>>
    BY DEF FinishCycle, CollectorTurn, valueVars, rootVars
  <2>2. /\ RootReach' = RootReach /\ Linked' = Linked
        /\ WeakOf(RootReach)' = WeakOf(RootReach)
    BY <2>1 DEF RootReach, Reach, Closed, Linked, WeakOf
  <2>3. Linked \subseteq Obj /\ Pending = {}
    <3>1. Linked \subseteq Obj
      BY DEF IndInv, TypeOK, MemoryType, Linked
    <3>2. \A o \in Obj : ~(o <= sweep)
      BY <2>1, MaxAllocsAssumption DEF Obj, NULL
    <3> QED
      BY <2>1, <3>1, <3>2 DEF Pending
  <2>4. \A o \in Linked : KeptForRoot(o)
    BY <2>1, <2>3 DEF SleptInv, RootAlone
  <2>5. RootReach \subseteq Survivors /\ WeakReach \subseteq Linked
    <3>1. Running /\ rootStrong \in SUBSET Survivors /\ rootWeak \subseteq Linked
      BY <2>1 DEF Running, IndInv, SurvivorsClosed
    <3> QED
      BY <3>1, SurvivorsReach DEF RootReach, WeakReach
  <2>6. {o \in Linked : isLive[o]} = RootReach
    BY <2>4, <2>5 DEF KeptForRoot, Survivors
  <2>7. Linked = RootReach \cup WeakReach
    BY <2>4, <2>5 DEF KeptForRoot, Survivors
  <2> QED
    BY <2>1, <2>2, <2>6, <2>7 DEF ExactStep, WeakReach
<1>2. CollectionInit => SleptInv
  BY DEF CollectionInit, NoCall, SleptInv
<1>3. CollectionSpec => []IndInv
  BY CollectionRefines, Invariance, PTL
<1>4. CollectionSpec => []SleptInv
  BY <1>2, <1>3, CallInvariant, SleptStep, PTL DEF CollectionSpec
<1> QED
  BY <1>1, <1>3, <1>4, PTL DEF CollectionSpec, AtomicCycleExact, ExactStep

-----------------------------------------------------------------------------
(* Calls end: what a turn of the loop uses up.                               *)

(* The part of LegsLeft that the phase decides.                             *)
LegOf(p) == CASE p = "Mark" -> 2 [] p = "Sweep" -> 1 [] OTHER -> 0

(* A turn that goes on changes nothing of the call but that it has slept.   *)
LEMMA GoesOnly ==
    ASSUME CallInv, Calling, Calling', NEW b \in BOOLEAN, Goes(b)
    PROVE  call'.hasSlept = b
BY DEF Goes, Ends, Calling, CallInv, Calls

(* Sets that shrink while the list stays have fewer boxes.                  *)
LEMMA Darkens ==
  ASSUME IndInv, Linked' = Linked,
         \A o \in Linked : color'[o] = "White" => color[o] = "White",
         \A o \in Linked : color'[o] \in Whites => color[o] \in Whites,
         \A o \in Linked : color'[o] # "Black" => color[o] # "Black",
         rootNeedsTrace' => rootNeedsTrace,
         \/ rootNeedsTrace /\ ~rootNeedsTrace'
         \/ \E o \in Linked : color[o] # "Black" /\ color'[o] = "Black"
  PROVE  ToDarken' < ToDarken
<1> DEFINE A == {o \in Linked : color[o] = "White"}
           B == {o \in Linked : color[o] \in Whites}
           C == {o \in Linked : color[o] # "Black"}
           r == IF rootNeedsTrace THEN 1 ELSE 0
<1>1. /\ IsFiniteSet(A) /\ IsFiniteSet(B) /\ IsFiniteSet(C)
      /\ A' \subseteq A /\ B' \subseteq B /\ C' \subseteq C
  <2>1. A \subseteq boxes /\ B \subseteq boxes /\ C \subseteq boxes
    BY BoxesFinite
  <2>2. A' \subseteq A /\ B' \subseteq B /\ C' \subseteq C
    OBVIOUS
  <2> QED
    BY <2>1, <2>2, BoxesFinite, FS_Subset
<1>2. /\ Cardinality(A') <= Cardinality(A) /\ Cardinality(B') <= Cardinality(B)
      /\ Cardinality(C') <= Cardinality(C)
      /\ Cardinality(A) \in Nat /\ Cardinality(B) \in Nat /\ Cardinality(C) \in Nat
      /\ Cardinality(A') \in Nat /\ Cardinality(B') \in Nat /\ Cardinality(C') \in Nat
  BY <1>1, FS_Subset, FS_CardinalityType
<1>3. /\ ToDarken = Cardinality(A) + Cardinality(B) + Cardinality(C) + r
      /\ ToDarken' = Cardinality(A') + Cardinality(B') + Cardinality(C') + r'
  BY DEF ToDarken
<1>4. CASE rootNeedsTrace /\ ~rootNeedsTrace'
  BY <1>2, <1>3, <1>4
<1>5. CASE \E o \in Linked : color[o] # "Black" /\ color'[o] = "Black"
  <2>1. PICK o \in C : C' \subseteq C \ {o}
    BY <1>5
  <2>2. Cardinality(C') + 1 <= Cardinality(C)
    BY <1>1, <2>1, OneFewer
  <2> QED
    BY <1>2, <1>3, <2>2
<1> QED
  BY <1>4, <1>5

(* Each turn of mark_one darkens something for good.                        *)
LEMMA MarkingTurn ==
  ASSUME IndInv, (\E o \in Obj : MarkOne(o)) \/ MarkRoot
  PROVE  phase = "Mark" /\ phase' = "Mark" /\ ToDarken' < ToDarken
<1>1. phase = "Mark" /\ phase' = "Mark" /\ Linked' = Linked
  BY DEF MarkOne, MarkRoot, MarkFrame, Linked
<1>t. color \in [Obj -> Colors] /\ Linked \subseteq Obj
  BY BoxesFinite DEF IndInv, TypeOK, HeaderType
<1>2. CASE MarkRoot
  <2>1. color' = TraceColor(color, rootStrong, rootWeak) /\ rootNeedsTrace /\ ~rootNeedsTrace'
    BY <1>2 DEF MarkRoot
  <2>2. \A o \in Linked : /\ color'[o] = "White" => color[o] = "White"
                          /\ color'[o] \in Whites => color[o] \in Whites
                          /\ color'[o] # "Black" => color[o] # "Black"
    BY <1>t, <2>1 DEF TraceColor, Whites
  <2> QED
    BY <1>1, <2>1, <2>2, Darkens
<1>3. ASSUME NEW o \in Obj, MarkOne(o) PROVE ToDarken' < ToDarken
  <2>1. /\ color' = TraceColor([color EXCEPT ![o] = "Black"], strong[o], weak[o])
        /\ rootNeedsTrace' = rootNeedsTrace /\ (PopGray(o) \/ PopGrayAgain(o))
    BY <1>3 DEF MarkOne
  <2>2. color[o] = "Gray" /\ o \in Linked
    BY <2>1 DEF PopGray, PopGrayAgain, IndInv, GrayIffQueued, TypeOK, QueueType
  <2>3. \A x \in Linked : /\ color'[x] = "White" => color[x] = "White"
                          /\ color'[x] \in Whites => color[x] \in Whites
                          /\ color'[x] # "Black" => color[x] # "Black"
    BY <1>t, <2>1, <2>2 DEF TraceColor, Whites
  <2>4. color'[o] = "Black" /\ color[o] # "Black"
    BY <1>t, <2>1, <2>2 DEF TraceColor, Whites
  <2> QED
    BY <1>1, <2>1, <2>2, <2>3, <2>4, Darkens
<1> QED
  BY <1>1, <1>2, <1>3

(* Each turn of sweep_one that finds a box leaves one less to visit.        *)
LEMMA SweepingTurn ==
  ASSUME IndInv, SweepStep
  PROVE  phase = "Sweep" /\ phase' = "Sweep" /\ Cardinality(Pending') < Cardinality(Pending)
<1>1. /\ phase = "Sweep" /\ phase' = "Sweep" /\ sweep \in Pending
      /\ Pending' \subseteq Pending \ {sweep}
  BY SweepTakesOne
<1>2. IsFiniteSet(Pending)
  <2>1. Pending \subseteq boxes
    BY BoxesFinite DEF Pending
  <2> QED
    BY <2>1, BoxesFinite, FS_Subset
<1>3. /\ Cardinality(Pending') \in Nat /\ Cardinality(Pending) \in Nat
      /\ Cardinality(Pending') + 1 <= Cardinality(Pending)
  BY <1>1, <1>2, OneFewer
<1> QED
  BY <1>1, <1>3

TurnStep ==
    Calling /\ Calling' =>
        \/ LegsLeft' < LegsLeft
        \/ LegsLeft' = LegsLeft /\ TurnsLeft' < TurnsLeft

LEMMA EachTurnCounts ==
  ASSUME IndInv, CallInv, SleptInv, [CollectionNext]_allVars, ~UNCHANGED allVars
  PROVE  TurnStep
<1> SUFFICES ASSUME Calling, Calling'
             PROVE  \/ LegsLeft' < LegsLeft
                    \/ LegsLeft' = LegsLeft /\ TurnsLeft' < TurnsLeft
  BY DEF TurnStep
<1>s. Loop /\ call.hasSlept \in BOOLEAN
  BY DEF CollectionNext, Begin, Outside, CallInv, Calls
<1>e. \A s \in Stops : ~Ends(s) /\ ~Panics
  BY DEF Ends, Panics, Calling
<1>c. call.stop \in Stops
  BY DEF CallInv, Calls
<1>l. /\ LegsLeft = (IF call.hasSlept THEN 0 ELSE 3) + LegOf(phase)
      /\ LegsLeft' = (IF call'.hasSlept THEN 0 ELSE 3) + LegOf(phase')
      /\ LegOf("Mark") = 2 /\ LegOf("Sweep") = 1 /\ LegOf("Sleep") = 0
  BY DEF LegsLeft, LegOf
<1>1. CASE LoopSleep
  <2>1. /\ Goes(TRUE) /\ phase = "Sleep" /\ phase' = "Mark"
    BY <1>1, CollectorPhases DEF LoopSleep
  <2>2. call'.hasSlept = TRUE /\ ~call.hasSlept
    BY <2>1, GoesOnly DEF SleptInv, RootAlone
  <2> QED
    BY <1>l, <2>1, <2>2
<1>2. CASE LoopMark
  <2>1. ((\E o \in Obj : MarkOne(o)) \/ MarkRoot) /\ Goes(call.hasSlept)
    BY <1>2, <1>c, <1>e DEF LoopMark
  <2>2. phase = "Mark" /\ phase' = "Mark" /\ ToDarken' < ToDarken
    BY <2>1, MarkingTurn
  <2>3. call'.hasSlept = call.hasSlept
    BY <1>s, <2>1, GoesOnly
  <2> QED
    BY <1>l, <2>2, <2>3 DEF TurnsLeft
<1>3. CASE LoopMarked
  <2>1. Goes(call.hasSlept) /\ phase = "Mark" /\ phase' = "Sweep"
    BY <1>3, <1>c, <1>e, CollectorPhases DEF LoopMarked
  <2>2. call'.hasSlept = call.hasSlept
    BY <1>s, <2>1, GoesOnly
  <2> QED
    BY <1>l, <2>1, <2>2
<1>4. CASE LoopSweep
  <2>1. SweepOne \/ CycleEnds
    BY <1>4, <1>c, <1>e DEF LoopSweep
  <2>2. CASE SweepOne
    <3>1. SweepStep /\ Goes(call.hasSlept)
      BY <1>c, <1>e, <2>2 DEF SweepOne, SweepStep
    <3>2. phase = "Sweep" /\ phase' = "Sweep" /\ Cardinality(Pending') < Cardinality(Pending)
      BY <3>1, SweepingTurn
    <3>3. call'.hasSlept = call.hasSlept
      BY <1>s, <3>1, GoesOnly
    <3> QED
      BY <1>l, <3>2, <3>3 DEF TurnsLeft
  <2>3. CASE CycleEnds
    <3>1. Goes(call.hasSlept) /\ phase = "Sweep" /\ phase' = "Sleep"
      BY <1>c, <1>e, <2>3, CollectorPhases DEF CycleEnds
    <3>2. call'.hasSlept = call.hasSlept
      BY <1>s, <3>1, GoesOnly
    <3> QED
      BY <1>l, <1>s, <3>1, <3>2
  <2> QED
    BY <2>1, <2>2, <2>3
<1> QED
  BY <1>s, <1>1, <1>2, <1>3, <1>4 DEF Loop

(* Every turn of do_collection that goes on uses up some of what the call may *)
(* still do: no call runs for ever, whatever the debt says at each turn.     *)
THEOREM TurnsAreFew == CollectionSpec => TurnsRunOut
<1>1. IndInv /\ CallInv /\ SleptInv /\ [CollectionNext]_allVars => [TurnStep]_allVars
  BY EachTurnCounts
<1>2. CollectionInit => SleptInv
  BY DEF CollectionInit, NoCall, SleptInv
<1>3. CollectionSpec => []IndInv
  BY CollectionRefines, Invariance, PTL
<1>4. CollectionSpec => []SleptInv
  BY <1>2, <1>3, CallInvariant, SleptStep, PTL DEF CollectionSpec
<1> QED
  BY <1>1, <1>3, <1>4, CallInvariant, PTL DEF CollectionSpec, TurnsRunOut, TurnStep

(* A turn the loop can take: mark_one has an object or the root to trace, or *)
(* neither is left, and sweep_one is at the end of the list or at a box of a *)
(* colour that it has an arm for.                                           *)
TurnReady ==
    /\ mode = "idle"
    /\ \/ phase = "Sleep"
       \/ phase = "Mark" /\ \/ \E o \in Obj : PopGray(o) \/ PopGrayAgain(o)
                            \/ QueuesEmpty /\ rootNeedsTrace
                            \/ ~GrayRemaining
       \/ phase = "Sweep" /\ (sweep = NULL \/ color[sweep] \in {"White", "WhiteWeak", "Black"})

(* While a call lasts there is always a turn to take, and the sweep never    *)
(* comes to the arm for gray boxes, which is only asserted against.         *)
THEOREM TurnsAreReady == CollectionSpec => [](Calling => TurnReady)
<1>1. ASSUME IndInv, CallInv, Calling PROVE TurnReady
  <2>1. mode = "idle" /\ phase \in {"Sleep", "Mark", "Sweep"}
    BY <1>1 DEF CallInv, Running, IndInv, TypeOK, ListType, Phases
  <2>2. CASE phase = "Mark"
    <3>1. gray \in [Obj -> Nat] /\ grayAgain \in [Obj -> Nat]
      BY <1>1 DEF IndInv, TypeOK, QueueType
    <3>2. CASE gray # NoQueue
      <4>1. PICK o \in Obj : gray[o] # 0
        BY <3>1, <3>2 DEF NoQueue
      <4> QED
        BY <2>1, <2>2, <3>1, <4>1 DEF TurnReady, PopGray
    <3>3. CASE gray = NoQueue /\ grayAgain # NoQueue
      <4>1. PICK o \in Obj : grayAgain[o] # 0
        BY <3>1, <3>3 DEF NoQueue
      <4> QED
        BY <2>1, <2>2, <3>1, <3>3, <4>1 DEF TurnReady, PopGrayAgain
    <3>4. CASE gray = NoQueue /\ grayAgain = NoQueue
      BY <2>1, <2>2, <3>4 DEF TurnReady, GrayRemaining, QueuesEmpty
    <3> QED
      BY <3>2, <3>3, <3>4
  <2>3. CASE phase = "Sweep" /\ sweep # NULL
    <3>1. sweep \in Pending /\ sweep \in Obj
      BY <1>1, <2>3, SweepAdvance, BoxesFinite
    <3>2. color[sweep] \in Colors /\ color[sweep] # "Gray"
      BY <1>1, <2>3, <3>1 DEF IndInv, ColorsMatchPhase, TypeOK, HeaderType
    <3> QED
      BY <2>1, <2>3, <3>2 DEF TurnReady, Colors
  <2> QED
    BY <2>1, <2>2, <2>3 DEF TurnReady
<1>2. CollectionSpec => []IndInv
  BY CollectionRefines, Invariance, PTL
<1> QED
  BY <1>1, <1>2, CallInvariant, PTL
=============================================================================
