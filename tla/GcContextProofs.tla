--------------------------- MODULE GcContextProofs ---------------------------
(***************************************************************************)
(* Proofs about GcContext, for every value of its constants.               *)
(***************************************************************************)
EXTENDS GcContext, TLAPS

(* Every step keeps the state well typed.                                   *)
LEMMA TypeStep == TypeOK /\ [Next]_vars => TypeOK'
<1> SUFFICES ASSUME TypeOK, [Next]_vars PROVE TypeOK'
  OBVIOUS
<1> USE DEF TypeOK
<1>1. CASE BeginMutate
  <2>1. HandleType'
    BY <1>1 DEF BeginMutate, HandleType, EnterCallback, Modes, Callbacks,
           ValueType, RootReach, Reach, WeakOf, historyVars
  <2>2. phase' \in Phases /\ rootNeedsTrace' \in BOOLEAN /\ ListType' /\
        QueueType' /\ HeaderType' /\ ValueType' /\ MemoryType' /\
        BarrierType'
    BY <1>1 DEF BeginMutate, ListType, listVars, QueueType, queueVars,
           HeaderType, headerVars, ValueType, valueVars, rootVars,
           MemoryType, memoryVars, BarrierType, barrierVars
  <2> QED
    BY <2>1, <2>2 DEF TypeOK
<1>2. CASE BeginMutateRoot
  <2>1. phase' \in Phases /\ rootNeedsTrace' \in BOOLEAN
    BY <1>2 DEF BeginMutateRoot, EnterCallback, RootBarrier
  <2>2. HandleType'
    BY <1>2 DEF BeginMutateRoot, HandleType, EnterCallback, Modes,
           Callbacks, ValueType, RootReach, Reach, WeakOf, historyVars
  <2>3. ListType' /\ QueueType' /\ HeaderType' /\ ValueType' /\ MemoryType'
        /\ BarrierType'
    BY <1>2 DEF BeginMutateRoot, ListType, listVars, QueueType, queueVars,
           HeaderType, headerVars, ValueType, valueVars, rootVars,
           MemoryType, memoryVars, BarrierType, barrierVars
  <2> QED
    BY <2>1, <2>2, <2>3 DEF TypeOK
<1>3. CASE BeginFinalize
  <2>1. HandleType'
    BY <1>3 DEF BeginFinalize, HandleType, EnterCallback, Modes, Callbacks,
           ValueType, RootReach, Reach, WeakOf, historyVars
  <2>2. phase' \in Phases /\ rootNeedsTrace' \in BOOLEAN /\ ListType' /\
        QueueType' /\ HeaderType' /\ ValueType' /\ MemoryType' /\
        BarrierType'
    BY <1>3 DEF BeginFinalize, ListType, listVars, QueueType, queueVars,
           HeaderType, headerVars, ValueType, valueVars, rootVars,
           MemoryType, memoryVars, BarrierType, barrierVars
  <2> QED
    BY <2>1, <2>2 DEF TypeOK
<1>4. CASE EndCallback
  <2>1. HandleType'
    BY <1>4 DEF EndCallback, HandleType, Modes, historyVars
  <2>2. phase' \in Phases /\ rootNeedsTrace' \in BOOLEAN /\ ListType' /\
        QueueType' /\ HeaderType' /\ ValueType' /\ MemoryType' /\
        BarrierType'
    BY <1>4 DEF EndCallback, ListType, listVars, QueueType, queueVars,
           HeaderType, headerVars, ValueType, valueVars, rootVars,
           MemoryType, memoryVars, BarrierType, barrierVars
  <2> QED
    BY <2>1, <2>2 DEF TypeOK
<1>5. ASSUME NEW S \in SUBSET held, NEW W \in SUBSET WeakHandles,
            NEW nt \in BOOLEAN, Alloc(S, W, nt) PROVE TypeOK'
  <2>1. births + 1 \in Obj
    BY <1>5, MaxAllocsAssumption DEF Alloc, MemoryType, Obj
  <2>2. ListType'
    BY <1>5, <2>1 DEF Alloc, ListType, SweepPrevWith
  <2>3. HeaderType'
    BY <1>5, <2>1 DEF Alloc, HeaderType
  <2>4. ValueType'
    BY <1>5 DEF Alloc, ValueType, HandleType, WeakHandles, rootVars
  <2>5. MemoryType'
    BY <1>5, <2>1 DEF Alloc, MemoryType, Obj
  <2>6. HandleType'
    BY <1>5, <2>1 DEF Alloc, HandleType, historyVars
  <2>7. phase' \in Phases /\ rootNeedsTrace' \in BOOLEAN /\ QueueType' /\
        BarrierType'
    BY <1>5 DEF Alloc, QueueType, queueVars, BarrierType, barrierVars
  <2> QED
    BY <2>1, <2>2, <2>3, <2>4, <2>5, <2>6, <2>7 DEF TypeOK
<1>6. ASSUME NEW p \in held, NEW c \in held \cup {NULL},
            BackwardBarrier(p, c) PROVE TypeOK'
  <2>1. QueueType'
    BY <1>6 DEF BackwardBarrier, QueueType, MakeGrayAgain, HandleType
  <2>2. HeaderType'
    BY <1>6 DEF BackwardBarrier, HeaderType, MakeGrayAgain, BarrierFrame,
           headerVars, Colors
  <2>3. BarrierType'
    BY <1>6, MaxBarriersAssumption DEF BackwardBarrier, BarrierType,
           BarrierFrame, Covered, Named, HandleType, NULL
  <2>4. phase' \in Phases /\ rootNeedsTrace' \in BOOLEAN /\ ListType' /\
        ValueType' /\ MemoryType' /\ HandleType'
    BY <1>6 DEF BackwardBarrier, BarrierFrame, ListType, listVars,
           ValueType, valueVars, rootVars, MemoryType, memoryVars,
           HandleType, handleVars, historyVars
  <2> QED
    BY <2>1, <2>2, <2>3, <2>4 DEF TypeOK
<1>7. ASSUME NEW p \in held, NEW c \in WeakHandles,
            BackwardBarrierWeak(p, c) PROVE TypeOK'
  <2>1. QueueType'
    BY <1>7 DEF BackwardBarrierWeak, QueueType, MakeGrayAgain, HandleType
  <2>2. HeaderType'
    BY <1>7 DEF BackwardBarrierWeak, HeaderType, MakeGrayAgain,
           BarrierFrame, headerVars, Colors
  <2>3. BarrierType'
    BY <1>7, MaxBarriersAssumption DEF BackwardBarrierWeak, BarrierType,
           BarrierFrame, Covered, Named, HandleType, WeakHandles
  <2>4. phase' \in Phases /\ rootNeedsTrace' \in BOOLEAN /\ ListType' /\
        ValueType' /\ MemoryType' /\ HandleType'
    BY <1>7 DEF BackwardBarrierWeak, BarrierFrame, ListType, listVars,
           ValueType, valueVars, rootVars, MemoryType, memoryVars,
           HandleType, handleVars, historyVars
  <2> QED
    BY <2>1, <2>2, <2>3, <2>4 DEF TypeOK
<1>8. ASSUME NEW p \in held \cup {NULL}, NEW c \in held,
            ForwardBarrier(p, c) PROVE TypeOK'
  <2>1. QueueType'
    BY <1>8 DEF ForwardBarrier, QueueType, TraceQueue
  <2>2. HeaderType'
    BY <1>8 DEF ForwardBarrier, HeaderType, TraceColor, BarrierFrame,
           headerVars, Colors
  <2>3. BarrierType'
    BY <1>8, MaxBarriersAssumption DEF ForwardBarrier, BarrierType,
           BarrierFrame, Covered, Named, HandleType, NULL
  <2>4. phase' \in Phases /\ rootNeedsTrace' \in BOOLEAN /\ ListType' /\
        ValueType' /\ MemoryType' /\ HandleType'
    BY <1>8 DEF ForwardBarrier, BarrierFrame, ListType, listVars, ValueType,
           valueVars, rootVars, MemoryType, memoryVars, HandleType,
           handleVars, historyVars
  <2> QED
    BY <2>1, <2>2, <2>3, <2>4 DEF TypeOK
<1>9. ASSUME NEW p \in held \cup {NULL}, NEW c \in WeakHandles,
            ForwardBarrierWeak(p, c) PROVE TypeOK'
  <2>1. HeaderType'
    BY <1>9 DEF ForwardBarrierWeak, HeaderType, TraceColor, BarrierFrame,
           headerVars, Colors
  <2>2. BarrierType'
    BY <1>9, MaxBarriersAssumption DEF ForwardBarrierWeak, BarrierType,
           BarrierFrame, Covered, Named, HandleType, NULL, WeakHandles
  <2>3. phase' \in Phases /\ rootNeedsTrace' \in BOOLEAN /\ ListType' /\
        QueueType' /\ ValueType' /\ MemoryType' /\ HandleType'
    BY <1>9 DEF ForwardBarrierWeak, BarrierFrame, ListType, listVars,
           QueueType, queueVars, ValueType, valueVars, rootVars, MemoryType,
           memoryVars, HandleType, handleVars, historyVars
  <2> QED
    BY <2>1, <2>2, <2>3 DEF TypeOK
<1>10. ASSUME NEW p \in held, NEW c \in held, Adopt(p, c) PROVE TypeOK'
  <2>1. ValueType'
    BY <1>10 DEF Adopt, ValueType, ValueFrame, rootVars, HandleType
  <2>2. phase' \in Phases /\ rootNeedsTrace' \in BOOLEAN /\ ListType' /\
        QueueType' /\ HeaderType' /\ MemoryType' /\ HandleType' /\
        BarrierType'
    BY <1>10 DEF Adopt, ValueFrame, ListType, listVars, QueueType,
           queueVars, HeaderType, headerVars, MemoryType, memoryVars,
           HandleType, handleVars, historyVars, BarrierType, barrierVars
  <2> QED
    BY <2>1, <2>2 DEF TypeOK
<1>11. ASSUME NEW p \in held, NEW c \in WeakHandles, AdoptWeak(p, c) PROVE
            TypeOK'
  <2>1. ValueType'
    BY <1>11 DEF AdoptWeak, ValueType, ValueFrame, rootVars, HandleType,
           WeakHandles
  <2>2. phase' \in Phases /\ rootNeedsTrace' \in BOOLEAN /\ ListType' /\
        QueueType' /\ HeaderType' /\ MemoryType' /\ HandleType' /\
        BarrierType'
    BY <1>11 DEF AdoptWeak, ValueFrame, ListType, listVars, QueueType,
           queueVars, HeaderType, headerVars, MemoryType, memoryVars,
           HandleType, handleVars, historyVars, BarrierType, barrierVars
  <2> QED
    BY <2>1, <2>2 DEF TypeOK
<1>12. ASSUME NEW p \in held, Take(p) PROVE TypeOK'
  <2>1. ValueType'
    BY <1>12 DEF Take, ValueType, ValueFrame, rootVars
  <2>2. phase' \in Phases /\ rootNeedsTrace' \in BOOLEAN /\ ListType' /\
        QueueType' /\ HeaderType' /\ MemoryType' /\ HandleType' /\
        BarrierType'
    BY <1>12 DEF Take, ValueFrame, ListType, listVars, QueueType, queueVars,
           HeaderType, headerVars, MemoryType, memoryVars, HandleType,
           handleVars, historyVars, BarrierType, barrierVars
  <2> QED
    BY <2>1, <2>2 DEF TypeOK
<1>13. ASSUME NEW S \in SUBSET held, NEW W \in SUBSET WeakHandles,
            SetRoot(S, W) PROVE TypeOK'
  <2>1. ValueType'
    BY <1>13 DEF SetRoot, ValueType, HandleType, WeakHandles, valueVars
  <2>2. phase' \in Phases /\ rootNeedsTrace' \in BOOLEAN /\ ListType' /\
        QueueType' /\ HeaderType' /\ MemoryType' /\ HandleType' /\
        BarrierType'
    BY <1>13 DEF SetRoot, ListType, listVars, QueueType, queueVars,
           HeaderType, headerVars, MemoryType, memoryVars, HandleType,
           handleVars, historyVars, BarrierType, barrierVars
  <2> QED
    BY <2>1, <2>2 DEF TypeOK
<1>14. ASSUME NEW o \in heldWeak, Upgrade(o) PROVE TypeOK'
  <2>1. HandleType'
    BY <1>14 DEF Upgrade, HandleType, Reach, WeakOf, ValueType
  <2>2. phase' \in Phases /\ rootNeedsTrace' \in BOOLEAN /\ ListType' /\
        QueueType' /\ HeaderType' /\ ValueType' /\ MemoryType' /\
        BarrierType'
    BY <1>14 DEF Upgrade, ListType, listVars, QueueType, queueVars,
           HeaderType, headerVars, ValueType, valueVars, rootVars,
           MemoryType, memoryVars, BarrierType, barrierVars
  <2> QED
    BY <2>1, <2>2 DEF TypeOK
<1>15. ASSUME NEW o \in WeakHandles, Resurrect(o) PROVE TypeOK'
  <2>1. QueueType'
    BY <1>15 DEF Resurrect, QueueType, Enqueue
  <2>2. HeaderType'
    BY <1>15 DEF Resurrect, HeaderType, Enqueue, Colors, headerVars
  <2>3. HandleType'
    BY <1>15 DEF Resurrect, HandleType, Reach, WeakOf, WeakHandles,
           ValueType
  <2>4. phase' \in Phases /\ rootNeedsTrace' \in BOOLEAN /\ ListType' /\
        ValueType' /\ MemoryType' /\ BarrierType'
    BY <1>15 DEF Resurrect, ListType, listVars, ValueType, valueVars,
           rootVars, MemoryType, memoryVars, BarrierType, barrierVars
  <2> QED
    BY <2>1, <2>2, <2>3, <2>4 DEF TypeOK
<1>16. CASE Wake
  <2>1. phase' \in Phases /\ rootNeedsTrace' \in BOOLEAN
    BY <1>16 DEF Wake, Phases
  <2>2. HandleType'
    BY <1>16 DEF Wake, HandleType, CollectorTurn, Linked, MemoryType,
           handleVars
  <2>3. BarrierType'
    BY <1>16, MaxBarriersAssumption DEF Wake, BarrierType, CollectorTurn
  <2>4. ListType' /\ QueueType' /\ HeaderType' /\ ValueType' /\ MemoryType'
    BY <1>16 DEF Wake, CollectorTurn, ListType, listVars, QueueType,
           queueVars, HeaderType, headerVars, ValueType, valueVars,
           rootVars, MemoryType, memoryVars
  <2> QED
    BY <2>1, <2>2, <2>3, <2>4 DEF TypeOK
<1>17. ASSUME NEW o \in Obj, MarkOne(o) PROVE TypeOK'
  <2>1. QueueType'
    BY <1>17 DEF MarkOne, QueueType, PopGray, PopGrayAgain, Popped, Without,
           TraceQueue
  <2>2. HeaderType'
    BY <1>17 DEF MarkOne, HeaderType, TraceColor, Colors, MarkFrame,
           CollectorTurn
  <2>3. HandleType'
    BY <1>17 DEF MarkOne, HandleType, MarkFrame, CollectorTurn, handleVars,
           historyVars
  <2>4. BarrierType'
    BY <1>17, MaxBarriersAssumption DEF MarkOne, BarrierType, CollectorTurn
  <2>5. phase' \in Phases /\ rootNeedsTrace' \in BOOLEAN /\ ListType' /\
        ValueType' /\ MemoryType'
    BY <1>17 DEF MarkOne, MarkFrame, CollectorTurn, ListType, listVars,
           ValueType, valueVars, rootVars, MemoryType, memoryVars
  <2> QED
    BY <2>1, <2>2, <2>3, <2>4, <2>5 DEF TypeOK
<1>18. ASSUME NEW o \in Obj, NEW S \in SUBSET strong[o],
            NEW W \in SUBSET weak[o], MarkOnePanics(o, S, W) PROVE TypeOK'
  <2>1. QueueType'
    BY <1>18 DEF MarkOnePanics, QueueType, PopGray, PopGrayAgain, Popped,
           Without, TraceQueue
  <2>2. HeaderType'
    BY <1>18 DEF MarkOnePanics, HeaderType, TraceColor, Colors, MarkFrame,
           CollectorTurn
  <2>3. HandleType'
    BY <1>18 DEF MarkOnePanics, HandleType, MarkFrame, CollectorTurn,
           handleVars, historyVars
  <2>4. BarrierType'
    BY <1>18, MaxBarriersAssumption DEF MarkOnePanics, BarrierType,
           CollectorTurn
  <2>5. phase' \in Phases /\ rootNeedsTrace' \in BOOLEAN /\ ListType' /\
        ValueType' /\ MemoryType'
    BY <1>18 DEF MarkOnePanics, MarkFrame, CollectorTurn, ListType,
           listVars, ValueType, valueVars, rootVars, MemoryType, memoryVars
  <2> QED
    BY <2>1, <2>2, <2>3, <2>4, <2>5 DEF TypeOK
<1>19. CASE MarkRoot
  <2>1. phase' \in Phases /\ rootNeedsTrace' \in BOOLEAN
    BY <1>19 DEF MarkRoot, MarkFrame
  <2>2. QueueType'
    BY <1>19 DEF MarkRoot, QueueType, TraceQueue
  <2>3. HeaderType'
    BY <1>19 DEF MarkRoot, HeaderType, TraceColor, Colors, MarkFrame,
           CollectorTurn
  <2>4. HandleType'
    BY <1>19 DEF MarkRoot, HandleType, MarkFrame, CollectorTurn, handleVars,
           historyVars
  <2>5. BarrierType'
    BY <1>19, MaxBarriersAssumption DEF MarkRoot, BarrierType, CollectorTurn
  <2>6. ListType' /\ ValueType' /\ MemoryType'
    BY <1>19 DEF MarkRoot, MarkFrame, CollectorTurn, ListType, listVars,
           ValueType, valueVars, rootVars, MemoryType, memoryVars
  <2> QED
    BY <2>1, <2>2, <2>3, <2>4, <2>5, <2>6 DEF TypeOK
<1>20. ASSUME NEW S \in SUBSET rootStrong, NEW W \in SUBSET rootWeak,
            MarkRootPanics(S, W) PROVE TypeOK'
  <2>1. QueueType'
    BY <1>20 DEF MarkRootPanics, QueueType, TraceQueue
  <2>2. HeaderType'
    BY <1>20 DEF MarkRootPanics, HeaderType, TraceColor, Colors, MarkFrame,
           CollectorTurn
  <2>3. HandleType'
    BY <1>20 DEF MarkRootPanics, HandleType, MarkFrame, CollectorTurn,
           handleVars, historyVars
  <2>4. BarrierType'
    BY <1>20, MaxBarriersAssumption DEF MarkRootPanics, BarrierType,
           CollectorTurn
  <2>5. phase' \in Phases /\ rootNeedsTrace' \in BOOLEAN /\ ListType' /\
        ValueType' /\ MemoryType'
    BY <1>20 DEF MarkRootPanics, MarkFrame, CollectorTurn, ListType,
           listVars, ValueType, valueVars, rootVars, MemoryType, memoryVars
  <2> QED
    BY <2>1, <2>2, <2>3, <2>4, <2>5 DEF TypeOK
<1>21. CASE StartSweep
  <2>1. phase' \in Phases /\ rootNeedsTrace' \in BOOLEAN
    BY <1>21 DEF StartSweep, Phases
  <2>2. ListType'
    BY <1>21 DEF StartSweep, ListType, CollectorTurn
  <2>3. HandleType'
    BY <1>21 DEF StartSweep, HandleType, CollectorTurn, handleVars,
           historyVars
  <2>4. BarrierType'
    BY <1>21, MaxBarriersAssumption DEF StartSweep, BarrierType,
           CollectorTurn
  <2>5. QueueType' /\ HeaderType' /\ ValueType' /\ MemoryType'
    BY <1>21 DEF StartSweep, CollectorTurn, QueueType, queueVars,
           HeaderType, headerVars, ValueType, valueVars, rootVars,
           MemoryType, memoryVars
  <2> QED
    BY <2>1, <2>2, <2>3, <2>4, <2>5 DEF TypeOK
<1>22. ASSUME NEW panics \in BOOLEAN, SweepWhite(panics) PROVE TypeOK'
  <2>1. ListType'
    BY <1>22 DEF SweepWhite, ListType, CollectorTurn
  <2>2. HeaderType'
    BY <1>22 DEF SweepWhite, HeaderType, DropAndDealloc, Forget, Colors,
           CollectorTurn
  <2>3. ValueType'
    BY <1>22 DEF SweepWhite, ValueType, DropAndDealloc, Forget,
           CollectorTurn, rootVars
  <2>4. MemoryType'
    BY <1>22 DEF SweepWhite, MemoryType, DropAndDealloc, CollectorTurn,
           ListType
  <2>5. HandleType'
    BY <1>22 DEF SweepWhite, HandleType, CollectorTurn, handleVars,
           historyVars
  <2>6. BarrierType'
    BY <1>22, MaxBarriersAssumption DEF SweepWhite, BarrierType,
           CollectorTurn
  <2>7. phase' \in Phases /\ rootNeedsTrace' \in BOOLEAN /\ QueueType'
    BY <1>22 DEF SweepWhite, CollectorTurn, QueueType, queueVars
  <2> QED
    BY <2>1, <2>2, <2>3, <2>4, <2>5, <2>6, <2>7 DEF TypeOK
<1>23. CASE SweepWhiteWeak
  <2>1. ListType'
    BY <1>23 DEF SweepWhiteWeak, ListType, CollectorTurn
  <2>2. HeaderType'
    BY <1>23 DEF SweepWhiteWeak, HeaderType, Forget, Colors, CollectorTurn
  <2>3. ValueType'
    BY <1>23 DEF SweepWhiteWeak, ValueType, Forget, CollectorTurn, rootVars
  <2>4. MemoryType'
    BY <1>23 DEF SweepWhiteWeak, MemoryType, CollectorTurn, ListType
  <2>5. HandleType'
    BY <1>23 DEF SweepWhiteWeak, HandleType, CollectorTurn, handleVars,
           historyVars
  <2>6. BarrierType'
    BY <1>23, MaxBarriersAssumption DEF SweepWhiteWeak, BarrierType,
           CollectorTurn
  <2>7. phase' \in Phases /\ rootNeedsTrace' \in BOOLEAN /\ QueueType'
    BY <1>23 DEF SweepWhiteWeak, CollectorTurn, QueueType, queueVars
  <2> QED
    BY <2>1, <2>2, <2>3, <2>4, <2>5, <2>6, <2>7 DEF TypeOK
<1>24. CASE SweepBlack
  <2>1. ListType'
    BY <1>24 DEF SweepBlack, ListType, CollectorTurn
  <2>2. HeaderType'
    BY <1>24 DEF SweepBlack, HeaderType, Colors, CollectorTurn
  <2>3. HandleType'
    BY <1>24 DEF SweepBlack, HandleType, CollectorTurn, handleVars,
           historyVars
  <2>4. BarrierType'
    BY <1>24, MaxBarriersAssumption DEF SweepBlack, BarrierType,
           CollectorTurn
  <2>5. phase' \in Phases /\ rootNeedsTrace' \in BOOLEAN /\ QueueType' /\
        ValueType' /\ MemoryType'
    BY <1>24 DEF SweepBlack, CollectorTurn, QueueType, queueVars, ValueType,
           valueVars, rootVars, MemoryType, memoryVars
  <2> QED
    BY <2>1, <2>2, <2>3, <2>4, <2>5 DEF TypeOK
<1>25. CASE FinishCycle
  <2>1. phase' \in Phases /\ rootNeedsTrace' \in BOOLEAN
    BY <1>25 DEF FinishCycle, Phases
  <2>2. ListType'
    BY <1>25 DEF FinishCycle, ListType, CollectorTurn
  <2>3. HandleType'
    BY <1>25 DEF FinishCycle, HandleType, CollectorTurn, handleVars,
           historyVars
  <2>4. BarrierType'
    BY <1>25, MaxBarriersAssumption DEF FinishCycle, BarrierType,
           CollectorTurn
  <2>5. QueueType' /\ HeaderType' /\ ValueType' /\ MemoryType'
    BY <1>25 DEF FinishCycle, CollectorTurn, QueueType, queueVars,
           HeaderType, headerVars, ValueType, valueVars, rootVars,
           MemoryType, memoryVars
  <2> QED
    BY <2>1, <2>2, <2>3, <2>4, <2>5 DEF TypeOK
<1>26. CASE BeginDrop
  <2>1. phase' \in Phases /\ rootNeedsTrace' \in BOOLEAN
    BY <1>26 DEF BeginDrop, Phases
  <2>2. ListType'
    BY <1>26 DEF BeginDrop, ListType
  <2>3. QueueType'
    BY <1>26 DEF BeginDrop, QueueType, NoQueue
  <2>4. HeaderType'
    BY <1>26 DEF BeginDrop, HeaderType, headerVars, Colors
  <2>5. ValueType'
    BY <1>26 DEF BeginDrop, ValueType
  <2>6. HandleType'
    BY <1>26 DEF BeginDrop, HandleType, Modes
  <2>7. BarrierType'
    BY <1>26, MaxBarriersAssumption DEF BeginDrop, BarrierType
  <2>8. MemoryType'
    BY <1>26 DEF BeginDrop, MemoryType, memoryVars
  <2> QED
    BY <2>1, <2>2, <2>3, <2>4, <2>5, <2>6, <2>7, <2>8 DEF TypeOK
<1>27. ASSUME NEW panics \in BOOLEAN, DropOne(panics) PROVE TypeOK'
  <2>1. ListType'
    BY <1>27 DEF DropOne, ListType, listVars
  <2>2. HeaderType'
    BY <1>27 DEF DropOne, HeaderType, DropAndDealloc, Forget, Colors
  <2>3. ValueType'
    BY <1>27 DEF DropOne, ValueType, DropAndDealloc, Forget, rootVars
  <2>4. MemoryType'
    BY <1>27 DEF DropOne, MemoryType, DropAndDealloc, ListType
  <2>5. HandleType'
    BY <1>27 DEF DropOne, HandleType, Modes, historyVars
  <2>6. phase' \in Phases /\ rootNeedsTrace' \in BOOLEAN /\ QueueType' /\
        BarrierType'
    BY <1>27 DEF DropOne, QueueType, queueVars, BarrierType, barrierVars
  <2> QED
    BY <2>1, <2>2, <2>3, <2>4, <2>5, <2>6 DEF TypeOK
<1>28. CASE UNCHANGED vars
  BY <1>28 DEF vars, ListType, QueueType, HeaderType, ValueType, MemoryType,
            HandleType, BarrierType, listVars, queueVars, headerVars,
            valueVars, rootVars, memoryVars, barrierVars, handleVars,
            historyVars
<1> QED
  BY <1>1, <1>2, <1>3, <1>4, <1>5, <1>6, <1>7, <1>8, <1>9, <1>10, <1>11,
     <1>12, <1>13, <1>14, <1>15, <1>16, <1>17, <1>18, <1>19, <1>20, <1>21,
     <1>22, <1>23, <1>24, <1>25, <1>26, <1>27, <1>28 DEF Next, Callback,
     Mutator, Collector, Teardown

(* The arena starts well typed.                                             *)
LEMMA TypeInit == Init => TypeOK
  BY MaxBarriersAssumption, MaxAllocsAssumption
     DEF Init, TypeOK, ListType, QueueType, HeaderType, ValueType, MemoryType,
         HandleType, BarrierType, Phases, Colors, Modes, Callbacks, NoQueue

(* The state is always well typed: in particular the two queues never lose a *)
(* box twice and a header only ever has one of the four colours.            *)
THEOREM TypeCorrect == Spec => []TypeOK
  BY TypeInit, TypeStep, PTL DEF Spec

-----------------------------------------------------------------------------
(* The kinds of steps, by what they leave alone.                            *)

(* The list of boxes and the memory.                                        *)
HeapStill ==
    UNCHANGED <<phase, births, boxes, leaked, drops, all, sweep, sweepPrev,
                next, dropAll, isLive, needsTrace>>

ColorStill == UNCHANGED <<color, gray, grayAgain>>

ValueStill == UNCHANGED <<strong, weak>>

RootStill == UNCHANGED <<rootStrong, rootWeak>>

HandleStep ==
    \/ BeginMutate \/ BeginMutateRoot \/ BeginFinalize \/ EndCallback
    \/ \E o \in heldWeak : Upgrade(o)
    \/ UNCHANGED vars

AllocStep ==
    \E S \in SUBSET held, W \in SUBSET WeakHandles, nt \in BOOLEAN :
        Alloc(S, W, nt)

BarrierStep ==
    \/ \E p \in held, c \in held \cup {NULL} : BackwardBarrier(p, c)
    \/ \E p \in held, c \in WeakHandles : BackwardBarrierWeak(p, c)
    \/ \E p \in held \cup {NULL}, c \in held : ForwardBarrier(p, c)
    \/ \E p \in held \cup {NULL}, c \in WeakHandles : ForwardBarrierWeak(p, c)

ResurrectStep == \E o \in WeakHandles : Resurrect(o)

ValueStep ==
    \/ \E p, c \in held : Adopt(p, c)
    \/ \E p \in held, c \in WeakHandles : AdoptWeak(p, c)
    \/ \E p \in held : Take(p)

RootStep == \E S \in SUBSET held, W \in SUBSET WeakHandles : SetRoot(S, W)

MarkStep ==
    \/ \E o \in Obj : MarkOne(o)
    \/ \E o \in Obj : \E S \in SUBSET strong[o], W \in SUBSET weak[o] :
           MarkOnePanics(o, S, W)
    \/ MarkRoot
    \/ \E S \in SUBSET rootStrong, W \in SUBSET rootWeak : MarkRootPanics(S, W)

SweepStep ==
    \/ \E panics \in BOOLEAN : SweepWhite(panics)
    \/ SweepWhiteWeak
    \/ SweepBlack

StepKind ==
    \/ HandleStep \/ AllocStep \/ BarrierStep \/ ResurrectStep
    \/ ValueStep \/ RootStep \/ MarkStep \/ SweepStep
    \/ Wake \/ StartSweep \/ FinishCycle
    \/ BeginDrop \/ \E panics \in BOOLEAN : DropOne(panics)

LEMMA StepKinds == [Next]_vars => StepKind
  BY DEF Next, Callback, Mutator, Collector, Teardown, StepKind, HandleStep,
         AllocStep, BarrierStep, ResurrectStep, ValueStep, RootStep, MarkStep,
         SweepStep

LEMMA HandleFrame ==
    HandleStep => HeapStill /\ ColorStill /\ ValueStill /\ RootStill
                  /\ UNCHANGED barrierVars
<1> USE DEF HeapStill, ColorStill, ValueStill, RootStill, listVars, queueVars,
            headerVars, valueVars, rootVars, memoryVars
<1>1. CASE BeginMutate
  BY <1>1 DEF BeginMutate
<1>2. CASE BeginMutateRoot
  BY <1>2 DEF BeginMutateRoot
<1>3. CASE BeginFinalize
  BY <1>3 DEF BeginFinalize
<1>4. CASE EndCallback
  BY <1>4 DEF EndCallback
<1>5. ASSUME NEW o \in heldWeak, Upgrade(o)
      PROVE  HeapStill /\ ColorStill /\ ValueStill /\ RootStill
             /\ UNCHANGED barrierVars
  BY <1>5 DEF Upgrade
<1>6. CASE UNCHANGED vars
  BY <1>6 DEF vars
<1> QED
  BY <1>1, <1>2, <1>3, <1>4, <1>5, <1>6 DEF HandleStep

LEMMA BarrierStepFrame ==
    BarrierStep => HeapStill /\ ValueStill /\ RootStill
                   /\ UNCHANGED <<rootNeedsTrace, mode, held, heldWeak>>
  BY DEF BarrierStep, BackwardBarrier, BackwardBarrierWeak, ForwardBarrier,
         ForwardBarrierWeak, BarrierFrame, HeapStill, ValueStill, RootStill,
         listVars, headerVars, valueVars, rootVars, memoryVars, handleVars

LEMMA ResurrectFrame ==
    ResurrectStep => HeapStill /\ ValueStill /\ RootStill
                     /\ UNCHANGED <<rootNeedsTrace, barrierVars, mode>>
  BY DEF ResurrectStep, Resurrect, HeapStill, ValueStill, RootStill,
         listVars, headerVars, valueVars, rootVars, memoryVars

LEMMA ValueStepFrame ==
    ValueStep => HeapStill /\ ColorStill /\ RootStill
                 /\ UNCHANGED <<rootNeedsTrace, barrierVars, mode, held, heldWeak>>
  BY DEF ValueStep, Adopt, AdoptWeak, Take, ValueFrame, HeapStill, ColorStill,
         RootStill, listVars, queueVars, headerVars, rootVars, memoryVars,
         handleVars

LEMMA RootStepFrame ==
    RootStep => HeapStill /\ ColorStill /\ ValueStill
                /\ UNCHANGED <<rootNeedsTrace, barrierVars, mode, held, heldWeak>>
  BY DEF RootStep, SetRoot, HeapStill, ColorStill, ValueStill, listVars,
         queueVars, headerVars, valueVars, memoryVars, handleVars

LEMMA MarkFrames ==
    MarkStep => /\ HeapStill /\ ValueStill /\ RootStill
                /\ UNCHANGED <<mode, held, heldWeak>>
                /\ mode = "idle" /\ phase = "Mark"
                /\ mayAdopt' = {} /\ mayAdoptWeak' = {}
  BY DEF MarkStep, MarkOne, MarkOnePanics, MarkRoot, MarkRootPanics, MarkFrame,
         CollectorTurn, HeapStill, ValueStill, RootStill, listVars, valueVars,
         rootVars, handleVars

-----------------------------------------------------------------------------
(* The list of boxes.                                                       *)

LEMMA ListStep == IndInv /\ [Next]_vars => ListIntact'
<1> SUFFICES ASSUME IndInv, [Next]_vars PROVE ListIntact'
  OBVIOUS
<1> USE DEF IndInv
<1>t. TypeOK /\ TypeOK'
  BY TypeStep
<1>1. CASE HeapStill
  BY <1>1 DEF HeapStill, ListIntact, Below, Linked, Running
<1>2. ASSUME NEW S \in SUBSET held, NEW W \in SUBSET WeakHandles,
             NEW nt \in BOOLEAN, Alloc(S, W, nt)
      PROVE  ListIntact'
  <2> USE DEF TypeOK, ListType, MemoryType, Obj, NULL
  <2>1. /\ births' = births + 1 /\ births + 1 \in Obj /\ all' = births + 1
        /\ next' = [next EXCEPT ![births + 1] = all]
        /\ boxes' = boxes \cup {births + 1} /\ leaked' = leaked
        /\ sweep' = sweep /\ phase' = phase
        /\ sweepPrev' = SweepPrevWith(births + 1)
    BY <1>2, <1>t DEF Alloc
  <2>2. Running
    BY <1>2 DEF Alloc, HandlesMatchMode, Running
  <2>3. Linked' = Linked \cup {births + 1} /\ births + 1 \notin boxes
    BY <1>t, <2>1 DEF ListIntact, Linked
  <2>4. Below(all, births + 1)'
    BY <1>t, <2>1, <2>3 DEF ListIntact, Below, Linked
  <2>5. ASSUME NEW o \in Linked' PROVE Below(next[o], o)'
    <3>1. CASE o = births + 1
      BY <3>1, <1>t, <2>1, <2>2, <2>3 DEF ListIntact, Below, Linked
    <3>2. CASE o \in Linked
      BY <3>2, <1>t, <2>1, <2>3 DEF ListIntact, Below, Linked
    <3> QED
      BY <3>1, <3>2, <2>3
  <2>6. IF sweepPrev' = NULL
        THEN phase' = "Sweep" => all' = sweep'
        ELSE sweepPrev' \in Linked' /\ Below(sweep, sweepPrev)'
    <3>1. CASE sweepPrev # NULL
      BY <3>1, <1>t, <2>1, <2>3 DEF ListIntact, Below, Linked, SweepPrevWith
    <3>2. CASE sweepPrev = NULL
      BY <3>2, <1>t, <2>1, <2>2, <2>3
         DEF ListIntact, Below, Linked, SweepPrevWith, Running
    <3> QED
      BY <3>1, <3>2
  <2> QED
    BY <1>t, <2>1, <2>2, <2>3, <2>4, <2>5, <2>6
       DEF ListIntact, Linked, Running, SweepPrevWith
<1>3. CASE Wake
  BY <1>3 DEF Wake, CollectorTurn, ListIntact, Below, Linked, Running, listVars
<1>4. CASE StartSweep
  BY <1>4, <1>t DEF StartSweep, CollectorTurn, ListIntact, Below, Linked, Running,
     TypeOK, ListType, MemoryType, Obj, NULL
<1>5. ASSUME NEW panics \in BOOLEAN, SweepWhite(panics) PROVE ListIntact'
  <2> USE DEF TypeOK, ListType, MemoryType, Obj, NULL
  <2>1. /\ sweep \in Linked /\ Linked' = Linked \ {sweep}
        /\ phase = "Sweep" /\ phase' = phase /\ births' = births
        /\ sweep' = next[sweep] /\ sweepPrev' = sweepPrev
        /\ boxes' \subseteq boxes /\ leaked' \subseteq boxes'
    BY <1>5, <1>t DEF SweepWhite, DropAndDealloc, CollectorTurn, ListIntact, Linked
  <2>2. Below(next[sweep], sweep) /\ next[sweep] # sweep
    BY <2>1, <1>t DEF ListIntact, Below, Linked
  <2>3. CASE sweepPrev = NULL
    <3>1. all = sweep /\ all' = next[sweep]
          /\ next' = [next EXCEPT ![sweep] = NULL]
      BY <1>5, <2>1, <2>3 DEF SweepWhite, ListIntact
    <3>2. Below(all, births + 1)'
      BY <1>t, <2>1, <2>2, <3>1 DEF ListIntact, Below, Linked, Running
    <3>3. ASSUME NEW o \in Linked' PROVE Below(next[o], o)'
      BY <1>t, <2>1, <2>2, <3>1 DEF ListIntact, Below, Linked, Running
    <3> QED
      BY <1>t, <2>1, <2>2, <2>3, <3>1, <3>2, <3>3
         DEF ListIntact, Below, Linked, Running
  <2>4. CASE sweepPrev # NULL
    <3>1. /\ all' = all
          /\ next' = [next EXCEPT ![sweepPrev] = next[sweep], ![sweep] = NULL]
      BY <1>5, <2>4 DEF SweepWhite
    <3>2. sweepPrev \in Linked' /\ Below(sweep, sweepPrev) /\ sweep < sweepPrev
      BY <1>t, <2>1, <2>4 DEF ListIntact, Below, Linked
    <3>3. Below(all, births + 1)'
      BY <1>t, <2>1, <2>2, <3>1, <3>2 DEF ListIntact, Below, Linked, Running
    <3>4. Below(next[sweepPrev], sweepPrev)'
      BY <1>t, <2>1, <2>2, <2>4, <3>1, <3>2 DEF ListIntact, Below, Linked
    <3>5. ASSUME NEW o \in Linked' PROVE Below(next[o], o)'
      <4>1. CASE o = sweepPrev
        BY <4>1, <2>1, <3>4
      <4>2. CASE o # sweepPrev
        <5>1. next'[o] = next[o] /\ Below(next[o], o) /\ o \in Linked
          BY <4>2, <1>t, <2>1, <3>1 DEF ListIntact, Linked
        <5>2. next[o] # sweep
          BY <4>2, <5>1, <1>t, <2>1, <3>2 DEF Below, Linked
        <5> QED
          BY <5>1, <5>2, <1>t, <2>1 DEF Below, Linked
      <4> QED
        BY <4>1, <4>2
    <3> QED
      BY <1>t, <2>1, <2>2, <2>4, <3>1, <3>2, <3>3, <3>4, <3>5
         DEF ListIntact, Below, Linked, Running
  <2> QED
    BY <2>3, <2>4
<1>6. CASE SweepWhiteWeak
  BY <1>6, <1>t DEF SweepWhiteWeak, CollectorTurn, ListIntact, Below,
     Linked, Running, TypeOK, ListType, MemoryType, Obj, NULL
<1>7. CASE SweepBlack
  BY <1>7, <1>t DEF SweepBlack, CollectorTurn, ListIntact, Below,
     Linked, Running, TypeOK, ListType, MemoryType, Obj, NULL
<1>8. CASE FinishCycle
  BY <1>8, <1>t DEF FinishCycle, CollectorTurn, ListIntact, Below,
     Linked, Running, TypeOK, ListType, MemoryType, Obj, NULL
<1>9. CASE BeginDrop
  BY <1>9 DEF BeginDrop, ListIntact, Below, Linked, Running, memoryVars
<1>10. ASSUME NEW panics \in BOOLEAN, DropOne(panics) PROVE ListIntact'
  <2> USE DEF TypeOK, ListType, MemoryType, Obj, NULL
  <2>1. /\ dropAll \in Linked /\ Linked' = Linked \ {dropAll}
        /\ dropAll' = next[dropAll] /\ next' = next /\ ~Running /\ ~Running'
        /\ boxes' \subseteq boxes /\ leaked' \subseteq boxes'
    BY <1>10, <1>t DEF DropOne, DropAndDealloc, ListIntact, Below, Linked,
       Running, listVars
  <2>2. Below(next[dropAll], dropAll)
    BY <2>1 DEF ListIntact
  <2>3. \A o \in Linked : o <= dropAll
    BY <1>t, <2>1 DEF ListIntact, Below, Linked
  <2> QED
    BY <1>10, <1>t, <2>1, <2>2, <2>3
       DEF DropOne, ListIntact, Below, Linked, listVars
<1> QED
  BY StepKinds, HandleFrame, BarrierStepFrame, ResurrectFrame, ValueStepFrame,
     RootStepFrame, MarkFrames, <1>1, <1>2, <1>3, <1>4, <1>5, <1>6, <1>7, <1>8,
     <1>9, <1>10 DEF StepKind, AllocStep, SweepStep

-----------------------------------------------------------------------------
(* Handles, values, queues and colours.                                     *)

LEMMA HandlesStep == IndInv /\ [Next]_vars => HandlesMatchMode'
<1> SUFFICES ASSUME IndInv, [Next]_vars PROVE HandlesMatchMode'
  OBVIOUS
<1> USE DEF IndInv, HandlesMatchMode, InCallback, Callbacks
<1>1. CASE HandleStep
  BY <1>1, HandleFrame DEF HandleStep, BeginMutate, BeginMutateRoot, BeginFinalize,
     EnterCallback, EndCallback, Upgrade, HeapStill, RootStill, vars, handleVars,
     rootVars
<1>2. CASE AllocStep
  BY <1>2 DEF AllocStep, Alloc, rootVars
<1>3. CASE BarrierStep
  BY <1>3, BarrierStepFrame DEF HeapStill, RootStill
<1>4. CASE ResurrectStep
  BY <1>4, ResurrectFrame DEF HeapStill, RootStill, ResurrectStep, Resurrect
<1>5. CASE ValueStep
  BY <1>5, ValueStepFrame DEF HeapStill, RootStill
<1>6. CASE RootStep
  BY <1>6, RootStepFrame DEF HeapStill, RootStep, SetRoot
<1>7. CASE MarkStep
  BY <1>7, MarkFrames DEF HeapStill, RootStill
<1>8. CASE SweepStep
  BY <1>8 DEF SweepStep, SweepWhite, SweepWhiteWeak, SweepBlack, CollectorTurn,
     handleVars, rootVars
<1>9. CASE Wake \/ StartSweep \/ FinishCycle
  BY <1>9 DEF Wake, StartSweep, FinishCycle, CollectorTurn, handleVars, rootVars
<1>10. CASE BeginDrop
  BY <1>10 DEF BeginDrop
<1>11. ASSUME NEW panics \in BOOLEAN, DropOne(panics) PROVE HandlesMatchMode'
  BY <1>11 DEF DropOne, rootVars
<1> QED
  BY StepKinds, <1>1, <1>2, <1>3, <1>4, <1>5, <1>6, <1>7, <1>8, <1>9, <1>10,
     <1>11 DEF StepKind

(* What a barrier, a resurrection or a step of marking can do to a box.     *)
SameQueues(o) == gray'[o] = gray[o] /\ grayAgain'[o] = grayAgain[o]

Kept(o)     == color'[o] = color[o] /\ SameQueues(o)
Regrayed(o) == /\ color[o] = "Black" /\ color'[o] = "Gray" /\ o \in held
               /\ gray'[o] = gray[o] /\ grayAgain'[o] = grayAgain[o] + 1
Grayed(o)   == /\ color[o] \in Whites /\ color'[o] = "Gray"
               /\ o \in Linked /\ isLive[o]
               /\ gray'[o] = gray[o] + 1 /\ grayAgain'[o] = grayAgain[o]
Blackened(o) == /\ color[o] \in Whites /\ color'[o] = "Black"
                /\ o \in Linked /\ isLive[o] /\ ~needsTrace[o]
                /\ SameQueues(o)
Weakened(o) == /\ color[o] = "White" /\ color'[o] = "WhiteWeak" /\ o \in Linked
               /\ SameQueues(o)
Traced(o)   == /\ color[o] = "Gray" /\ color'[o] \in {"Gray", "Black"}
               /\ color'[o] = "Gray" =>
                      gray'[o] + grayAgain'[o] = gray[o] + grayAgain[o]
               /\ color'[o] = "Black" =>
                      gray'[o] + grayAgain'[o] = gray[o] + grayAgain[o] - 1

Moves(o) == Kept(o) \/ Regrayed(o) \/ Grayed(o) \/ Blackened(o)
            \/ Weakened(o) \/ Traced(o)

Blackening(o) == color'[o] = "Black" /\ color[o] # "Black"

LEMMA HandlesAlive ==
  ASSUME IndInv, Running
  PROVE  /\ held \subseteq Linked /\ heldWeak \subseteq Linked
         /\ rootStrong \subseteq Linked /\ rootWeak \subseteq Linked
         /\ \A o \in held \cup rootStrong : isLive[o] /\ o \notin Condemned
  BY DEF IndInv, SurvivorsClosed, Survivors, Running

LEMMA BarrierMoves ==
  ASSUME IndInv, BarrierStep
  PROVE  /\ phase = "Mark" \/ ColorStill
         /\ \A o \in Obj : Moves(o)
         /\ \A o \in Obj : Blackening(o) => ~needsTrace[o]
<1> USE DEF IndInv, TypeOK, QueueType, HeaderType, HandleType, Moves, Kept,
            SameQueues, Blackening
<1>h. held \subseteq Linked /\ heldWeak \subseteq Linked /\ NULL \notin Obj
      /\ \A o \in held : isLive[o]
  BY HandlesAlive DEF BarrierStep, BackwardBarrier, BackwardBarrierWeak, ForwardBarrier,
     ForwardBarrierWeak, BarrierFrame, HandlesMatchMode, Running, Obj, NULL
<1>1. ASSUME NEW p \in held, NEW c \in held \cup {NULL}, BackwardBarrier(p, c)
      PROVE  /\ phase = "Mark" \/ ColorStill
             /\ \A o \in Obj : Moves(o)
             /\ \A o \in Obj : Blackening(o) => ~needsTrace[o]
  BY <1>1, <1>h DEF BackwardBarrier, BarrierNeeded, MakeGrayAgain, ColorStill, Regrayed
<1>2. ASSUME NEW p \in held, NEW c \in WeakHandles, BackwardBarrierWeak(p, c)
      PROVE  /\ phase = "Mark" \/ ColorStill
             /\ \A o \in Obj : Moves(o)
             /\ \A o \in Obj : Blackening(o) => ~needsTrace[o]
  BY <1>2, <1>h DEF BackwardBarrierWeak, BarrierNeeded, MakeGrayAgain, ColorStill, Regrayed
<1>3. ASSUME NEW p \in held \cup {NULL}, NEW c \in held, ForwardBarrier(p, c)
      PROVE  /\ phase = "Mark" \/ ColorStill
             /\ \A o \in Obj : Moves(o)
             /\ \A o \in Obj : Blackening(o) => ~needsTrace[o]
  BY <1>3, <1>h DEF ForwardBarrier, BarrierNeeded, TraceColor, TraceQueue, ColorStill,
     Grayed, Blackened
<1>4. ASSUME NEW p \in held \cup {NULL}, NEW c \in WeakHandles, ForwardBarrierWeak(p, c)
      PROVE  /\ phase = "Mark" \/ ColorStill
             /\ \A o \in Obj : Moves(o)
             /\ \A o \in Obj : Blackening(o) => ~needsTrace[o]
  BY <1>4, <1>h DEF ForwardBarrierWeak, BarrierNeeded, TraceColor, ColorStill,
     Weakened, WeakHandles
<1> QED
  BY <1>1, <1>2, <1>3, <1>4 DEF BarrierStep

LEMMA ResurrectMoves ==
  ASSUME IndInv, ResurrectStep
  PROVE  /\ phase = "Mark"
         /\ \A o \in Obj : Moves(o)
         /\ \A o \in Obj : ~Blackening(o)
<1> USE DEF IndInv, TypeOK, QueueType, HeaderType, HandleType
<1>1. phase = "Mark"
  BY DEF ResurrectStep, Resurrect, HandlesMatchMode
<1>h. held \subseteq Linked /\ heldWeak \subseteq Linked
  BY <1>1, HandlesAlive DEF Running
<1> QED
  BY <1>1, <1>h DEF ResurrectStep, Resurrect, Enqueue, WeakHandles, Moves, Kept,
     SameQueues, Grayed, Blackening

LEMMA MarkMoves ==
  ASSUME IndInv, MarkStep
  PROVE  \A o \in Obj : Moves(o)
<1> USE DEF IndInv, TypeOK, QueueType, HeaderType, ValueType, Moves, Kept, SameQueues
<1>m. phase = "Mark" /\ Running
  BY MarkFrames DEF Running
<1>q. ASSUME NEW o \in Obj, PopGray(o) \/ PopGrayAgain(o)
      PROVE  color[o] = "Gray" /\ o \in Linked /\ isLive[o]
  BY <1>q DEF PopGray, PopGrayAgain, GrayIffQueued, ValuesAreLive, Whites
<1>s. ASSUME NEW o \in Obj, color[o] = "Gray", o \in Linked
      PROVE  /\ strong[o] \subseteq Linked /\ weak[o] \subseteq Linked
             /\ \A c \in strong[o] : isLive[c]
  BY <1>s, <1>m DEF SurvivorsClosed, Survivors, Condemned, Pending, ValuesAreLive, Whites
<1>1. ASSUME NEW o \in Obj, MarkOne(o) PROVE \A x \in Obj : Moves(x)
  <2>1. /\ PopGray(o) \/ PopGrayAgain(o)
        /\ color' = TraceColor([color EXCEPT ![o] = "Black"], strong[o], weak[o])
        /\ gray' = TraceQueue(Popped(o).gray, [color EXCEPT ![o] = "Black"], strong[o])
        /\ grayAgain' = Popped(o).again
    BY <1>1 DEF MarkOne
  <2>2. color[o] = "Gray" /\ strong[o] \subseteq Linked /\ weak[o] \subseteq Linked
        /\ \A c \in strong[o] : isLive[c]
    BY <2>1, <1>q, <1>s
  <2>3. ASSUME NEW x \in Obj, x # o PROVE Moves(x)
    BY <2>1, <2>2, <2>3 DEF TraceColor, TraceQueue, Popped, Without, Grayed, Blackened,
       Weakened
  <2>4. Traced(o)
    BY <2>1, <2>2 DEF TraceColor, TraceQueue, Popped, Without, Traced, PopGray, PopGrayAgain, Whites
  <2> QED
    BY <2>3, <2>4
<1>2. ASSUME NEW o \in Obj, NEW S \in SUBSET strong[o], NEW W \in SUBSET weak[o],
             MarkOnePanics(o, S, W)
      PROVE  \A x \in Obj : Moves(x)
  <2>1. /\ PopGray(o) \/ PopGrayAgain(o)
        /\ color' = [TraceColor([color EXCEPT ![o] = "Black"], S, W) EXCEPT ![o] = "Gray"]
        /\ gray' = TraceQueue(Popped(o).gray, [color EXCEPT ![o] = "Black"], S)
        /\ grayAgain' = [Popped(o).again EXCEPT ![o] = @ + 1]
    BY <1>2 DEF MarkOnePanics
  <2>2. color[o] = "Gray" /\ strong[o] \subseteq Linked /\ weak[o] \subseteq Linked
        /\ \A c \in strong[o] : isLive[c]
    BY <2>1, <1>q, <1>s
  <2>3. ASSUME NEW x \in Obj, x # o PROVE Moves(x)
    BY <2>1, <2>2, <2>3 DEF TraceColor, TraceQueue, Popped, Without, Grayed, Blackened,
       Weakened
  <2>4. Traced(o)
    BY <2>1, <2>2 DEF TraceColor, TraceQueue, Popped, Without, Traced, PopGray, PopGrayAgain, Whites
  <2> QED
    BY <2>3, <2>4
<1>3. CASE MarkRoot
  BY <1>3, <1>m, HandlesAlive DEF MarkRoot, TraceColor, TraceQueue, Grayed, Blackened, Weakened
<1>4. ASSUME NEW S \in SUBSET rootStrong, NEW W \in SUBSET rootWeak, MarkRootPanics(S, W)
      PROVE  \A x \in Obj : Moves(x)
  BY <1>4, <1>m, HandlesAlive
     DEF MarkRootPanics, TraceColor, TraceQueue, Grayed, Blackened, Weakened
<1> QED
  BY <1>1, <1>2, <1>3, <1>4 DEF MarkStep

(* Moves keep what the values and the queues depend on.                      *)
LEMMA MovesKeep ==
  ASSUME IndInv, HeapStill, ValueStill, \A o \in Obj : Moves(o)
  PROVE  ValuesAreLive' /\ GrayIffQueued'
<1> USE DEF IndInv, ValuesAreLive, HeapStill, ValueStill, Linked, TypeOK, HeaderType,
            QueueType
<1>1. ASSUME NEW o \in Obj
      PROVE  /\ o \notin Linked => color'[o] = "White"
             /\ o \in Linked /\ color'[o] \notin Whites => isLive[o]
  BY <1>1 DEF Moves, Kept, Regrayed, Grayed, Blackened, Weakened, Traced, Whites, MemoryType
<1>2. ASSUME NEW o \in Obj
      PROVE  gray'[o] + grayAgain'[o] =
                 IF o \in Linked /\ color'[o] = "Gray" THEN 1 ELSE 0
  <2>1. gray[o] + grayAgain[o] = IF o \in Linked /\ color[o] = "Gray" THEN 1 ELSE 0
    BY DEF GrayIffQueued
  <2>2. color[o] \in {"Gray", "Black"} => o \in Linked
    BY DEF Whites
  <2> QED
    BY <2>1, <2>2 DEF Moves, Kept, Regrayed, Grayed, Blackened, Weakened, Traced, Whites,
       SameQueues
<1>3. ValuesAreLive'
  BY <1>1 DEF MemoryType
<1>4. GrayIffQueued'
  BY <1>2 DEF GrayIffQueued
<1> QED
  BY <1>3, <1>4

(* Nothing that was traced or weakly traced becomes less so.                 *)
LEMMA MovesMonotone ==
  ASSUME NEW o \in Obj, Moves(o)
  PROVE  /\ color[o] \notin Whites => color'[o] \notin Whites
         /\ color[o] # "White" => color'[o] # "White"
  BY DEF Moves, Kept, Regrayed, Grayed, Blackened, Weakened, Traced, Whites

(* The sweep advances by one box.                                            *)
LEMMA SweepAdvance ==
  ASSUME IndInv, phase = "Sweep", sweep # NULL
  PROVE  /\ sweep \in Linked /\ sweep \in Pending
         /\ next[sweep] \in Obj \cup {NULL} /\ next[sweep] < sweep
         /\ \A o \in Linked : o <= next[sweep] <=> o < sweep
<1> USE DEF IndInv, TypeOK, ListType, MemoryType, Obj, NULL
<1>1. sweep \in Linked /\ Below(next[sweep], sweep)
  BY DEF ListIntact
<1>2. sweep \in Pending
  BY <1>1 DEF Pending, Linked
<1> QED
  BY <1>1, <1>2 DEF Below, Linked

LEMMA ValuesStep == IndInv /\ [Next]_vars => ValuesAreLive'
<1> SUFFICES ASSUME IndInv, [Next]_vars PROVE ValuesAreLive'
  OBVIOUS
<1> USE DEF IndInv
<1>t. TypeOK /\ TypeOK'
  BY TypeStep
<1>1. CASE HandleStep \/ RootStep
  BY <1>1, HandleFrame, RootStepFrame
     DEF HeapStill, ColorStill, ValueStill, ValuesAreLive, Linked
<1>2. CASE AllocStep
  BY <1>2, <1>t DEF AllocStep, Alloc, ValuesAreLive, Linked, ListIntact, TypeOK,
     HeaderType, ValueType, MemoryType, Obj
<1>3. CASE BarrierStep \/ ResurrectStep \/ MarkStep
  BY <1>3, MovesKeep, BarrierMoves, ResurrectMoves, MarkMoves, BarrierStepFrame,
     ResurrectFrame, MarkFrames
<1>5. CASE ValueStep
  <2>1. \A p \in held : isLive[p]
    BY <1>5, HandlesAlive DEF ValueStep, Adopt, AdoptWeak, Take, HandlesMatchMode, Running
  <2>2. HeapStill /\ ColorStill
    BY <1>5, ValueStepFrame
  <2>3. \A o \in Obj : ~needsTrace[o] \/ ~isLive[o] => strong'[o] = {} /\ weak'[o] = {}
    <3>1. ASSUME NEW p \in held, NEW c \in held, Adopt(p, c)
          PROVE  \A o \in Obj : ~needsTrace[o] \/ ~isLive[o] =>
                     strong'[o] = {} /\ weak'[o] = {}
      BY <1>t, <2>1, <3>1 DEF Adopt, ValuesAreLive, TypeOK, ValueType
    <3>2. ASSUME NEW p \in held, NEW c \in WeakHandles, AdoptWeak(p, c)
          PROVE  \A o \in Obj : ~needsTrace[o] \/ ~isLive[o] =>
                     strong'[o] = {} /\ weak'[o] = {}
      BY <1>t, <2>1, <3>2 DEF AdoptWeak, ValuesAreLive, TypeOK, ValueType
    <3>3. ASSUME NEW p \in held, Take(p)
          PROVE  \A o \in Obj : ~needsTrace[o] \/ ~isLive[o] =>
                     strong'[o] = {} /\ weak'[o] = {}
      BY <1>t, <2>1, <3>3 DEF Take, ValuesAreLive, TypeOK, ValueType
    <3> QED
      BY <1>5, <3>1, <3>2, <3>3 DEF ValueStep
  <2> QED
    BY <2>2, <2>3 DEF HeapStill, ColorStill, ValuesAreLive, Linked
<1>8. CASE SweepStep
  <2>1. phase = "Sweep" /\ sweep # NULL
    BY <1>8 DEF SweepStep, SweepWhite, SweepWhiteWeak, SweepBlack
  <2>2. sweep \in Linked /\ leaked \subseteq boxes
    BY <2>1, SweepAdvance DEF ListIntact
  <2> USE DEF ValuesAreLive, Linked, TypeOK, HeaderType, ValueType, MemoryType, CollectorTurn
  <2>3. ASSUME NEW panics \in BOOLEAN, SweepWhite(panics) PROVE ValuesAreLive'
    BY <1>t, <2>2, <2>3 DEF SweepWhite, DropAndDealloc, Forget
  <2>4. CASE SweepWhiteWeak
    BY <1>t, <2>2, <2>4 DEF SweepWhiteWeak, Forget, Whites
  <2>5. CASE SweepBlack
    BY <1>t, <2>2, <2>5 DEF SweepBlack, Whites, valueVars
  <2> QED
    BY <1>8, <2>3, <2>4, <2>5 DEF SweepStep
<1>9. CASE Wake \/ StartSweep \/ FinishCycle
  BY <1>9 DEF Wake, StartSweep, FinishCycle, CollectorTurn, ValuesAreLive, Linked, valueVars
<1>10. CASE BeginDrop
  BY <1>10, <1>t DEF BeginDrop, ValuesAreLive, Linked, memoryVars, headerVars, Whites,
     TypeOK, MemoryType
<1>11. ASSUME NEW panics \in BOOLEAN, DropOne(panics) PROVE ValuesAreLive'
  BY <1>11, <1>t DEF DropOne, DropAndDealloc, Forget, ValuesAreLive, Linked, ListIntact,
     TypeOK, HeaderType, ValueType, MemoryType, ListType
<1> QED
  BY StepKinds, <1>1, <1>2, <1>3, <1>5, <1>8, <1>9, <1>10,
     <1>11 DEF StepKind

LEMMA QueueStep == IndInv /\ [Next]_vars => GrayIffQueued'
<1> SUFFICES ASSUME IndInv, [Next]_vars PROVE GrayIffQueued'
  OBVIOUS
<1> USE DEF IndInv
<1>t. TypeOK /\ TypeOK'
  BY TypeStep
<1>1. CASE HandleStep \/ RootStep \/ ValueStep
  BY <1>1, HandleFrame, RootStepFrame, ValueStepFrame
     DEF HeapStill, ColorStill, GrayIffQueued, Linked
<1>2. CASE AllocStep
  BY <1>2, <1>t DEF AllocStep, Alloc, GrayIffQueued, Linked, ListIntact, ValuesAreLive,
     queueVars, TypeOK, MemoryType, Obj
<1>3. CASE BarrierStep \/ ResurrectStep \/ MarkStep
  BY <1>3, MovesKeep, BarrierMoves, ResurrectMoves, MarkMoves, BarrierStepFrame,
     ResurrectFrame, MarkFrames
<1>8. CASE SweepStep
  <2>1. phase = "Sweep" /\ sweep # NULL /\ UNCHANGED <<gray, grayAgain>>
    BY <1>8 DEF SweepStep, SweepWhite, SweepWhiteWeak, SweepBlack, queueVars
  <2>2. sweep \in Linked /\ color[sweep] # "Gray" /\ leaked \subseteq boxes
    BY <1>8, <2>1, SweepAdvance
       DEF ListIntact, SweepStep, SweepWhite, SweepWhiteWeak, SweepBlack
  <2> USE DEF GrayIffQueued, Linked, TypeOK, HeaderType, MemoryType
  <2>3. ASSUME NEW panics \in BOOLEAN, SweepWhite(panics) PROVE GrayIffQueued'
    BY <1>t, <2>1, <2>2, <2>3 DEF SweepWhite, DropAndDealloc, Forget
  <2>4. CASE SweepWhiteWeak
    BY <1>t, <2>1, <2>2, <2>4 DEF SweepWhiteWeak, Forget
  <2>5. CASE SweepBlack
    BY <1>t, <2>1, <2>2, <2>5 DEF SweepBlack
  <2> QED
    BY <1>8, <2>3, <2>4, <2>5 DEF SweepStep
<1>9. CASE Wake \/ StartSweep \/ FinishCycle
  BY <1>9 DEF Wake, StartSweep, FinishCycle, CollectorTurn, GrayIffQueued, Linked, queueVars
<1>10. CASE BeginDrop
  BY <1>10 DEF BeginDrop, GrayIffQueued, NoQueue
<1>11. ASSUME NEW panics \in BOOLEAN, DropOne(panics) PROVE GrayIffQueued'
  <2>1. dropAll \in Linked /\ color[dropAll] = "White" /\ leaked \subseteq boxes
        /\ UNCHANGED <<gray, grayAgain>>
    BY <1>11, <1>t DEF DropOne, ListIntact, Below, Running, ColorsMatchPhase, queueVars
  <2> QED
    BY <1>11, <1>t, <2>1 DEF DropOne, DropAndDealloc, Forget, GrayIffQueued, Linked,
       TypeOK, HeaderType, MemoryType
<1> QED
  BY StepKinds, <1>1, <1>2, <1>3, <1>8, <1>9, <1>10,
     <1>11 DEF StepKind

LEMMA ColorsStep == IndInv /\ [Next]_vars => ColorsMatchPhase'
<1> SUFFICES ASSUME IndInv, [Next]_vars PROVE ColorsMatchPhase'
  OBVIOUS
<1> USE DEF IndInv
<1>t. TypeOK /\ TypeOK'
  BY TypeStep
<1>1. CASE HeapStill /\ ColorStill
  BY <1>1 DEF HeapStill, ColorStill, ColorsMatchPhase, Linked, Pending
<1>2. CASE HeapStill /\ phase = "Mark"
  BY <1>2 DEF HeapStill, ColorsMatchPhase
<1>3. CASE BarrierStep \/ ResurrectStep \/ MarkStep
  BY <1>1, <1>2, <1>3, BarrierMoves, ResurrectMoves, BarrierStepFrame,
     ResurrectFrame, MarkFrames
<1>4. CASE AllocStep
  <2>1. /\ births + 1 \in Obj /\ Linked' = Linked \cup {births + 1}
        /\ phase' = phase /\ color' = color /\ sweep' = sweep
        /\ color[births + 1] = "White"
    BY <1>4, <1>t DEF AllocStep, Alloc, ListIntact, Linked, ValuesAreLive, TypeOK,
       MemoryType, Obj
  <2>2. Pending' = Pending
    <3>1. sweep \in Nat /\ sweep <= births /\ births \in Nat
      BY <1>t DEF ListIntact, Linked, TypeOK, ListType, MemoryType, Obj, NULL
    <3> QED
      BY <2>1, <3>1 DEF Pending
  <2> QED
    BY <2>1, <2>2 DEF ColorsMatchPhase
<1>5. CASE Wake
  BY <1>5 DEF Wake, ColorsMatchPhase
<1>6. CASE StartSweep
  <2>1. \A o \in Linked : o <= all
    BY <1>6, <1>t DEF StartSweep, ListIntact, Below, Running, Linked, TypeOK, ListType,
       MemoryType, Obj, NULL
  <2>2. \A o \in Linked : color[o] # "Gray"
    BY <1>6, <1>t DEF StartSweep, GrayRemaining, NoQueue, GrayIffQueued, Linked, TypeOK,
       MemoryType
  <2>3. Linked' = Linked /\ color' = color /\ phase' = "Sweep" /\ sweep' = all
    BY <1>6 DEF StartSweep, Linked
  <2> QED
    BY <2>1, <2>2, <2>3 DEF ColorsMatchPhase, Pending
<1>7. CASE FinishCycle
  BY <1>7, <1>t DEF FinishCycle, ColorsMatchPhase, Pending, Linked, TypeOK, MemoryType,
     Obj, NULL
<1>8. CASE SweepStep
  <2>1. phase = "Sweep" /\ phase' = "Sweep" /\ sweep # NULL /\ sweep' = next[sweep]
    BY <1>8 DEF SweepStep, SweepWhite, SweepWhiteWeak, SweepBlack
  <2>2. /\ Linked' \subseteq Linked
        /\ \A o \in Linked' \ {sweep} : color'[o] = color[o]
        /\ sweep \in Linked' => color'[sweep] = "White"
    <3>1. sweep \in Linked
      BY <2>1, SweepAdvance
    <3> USE DEF TypeOK, HeaderType, MemoryType, Linked
    <3>2. ASSUME NEW panics \in BOOLEAN, SweepWhite(panics)
          PROVE  Linked' \subseteq Linked /\ sweep \notin Linked'
                 /\ \A o \in Linked' \ {sweep} : color'[o] = color[o]
      BY <1>t, <3>1, <3>2 DEF SweepWhite, DropAndDealloc, Forget
    <3>3. CASE SweepWhiteWeak
      BY <1>t, <3>1, <3>3 DEF SweepWhiteWeak, Forget
    <3>4. CASE SweepBlack
      BY <1>t, <3>1, <3>4 DEF SweepBlack
    <3> QED
      BY <1>8, <3>2, <3>3, <3>4 DEF SweepStep
  <2>3. ASSUME NEW o \in Linked'
        PROVE  IF o \in Pending' THEN o \in Pending \ {sweep}
               ELSE o = sweep \/ o \in Linked \ Pending
    BY <1>t, <2>1, <2>2, SweepAdvance DEF Pending, TypeOK, ListType, MemoryType, Linked,
       Obj, NULL
  <2> QED
    BY <2>1, <2>2, <2>3 DEF ColorsMatchPhase, Pending
<1>10. CASE BeginDrop
  BY <1>10, <1>t DEF BeginDrop, ColorsMatchPhase, Linked, TypeOK, MemoryType, memoryVars
<1>11. ASSUME NEW panics \in BOOLEAN, DropOne(panics) PROVE ColorsMatchPhase'
  BY <1>11, <1>t DEF DropOne, DropAndDealloc, Forget, ColorsMatchPhase, Linked, TypeOK,
     HeaderType, MemoryType
<1> QED
  BY StepKinds, HandleFrame, RootStepFrame, ValueStepFrame, <1>1, <1>3, <1>4, <1>5, <1>6,
     <1>7, <1>8, <1>10, <1>11 DEF StepKind

LEMMA RootStepTraced == IndInv /\ [Next]_vars => RootWillBeTraced'
<1> SUFFICES ASSUME IndInv, [Next]_vars PROVE RootWillBeTraced'
  OBVIOUS
<1> USE DEF IndInv, RootWillBeTraced
<1>1. CASE HandleStep
  <2>1. phase' = phase
    BY <1>1, HandleFrame DEF HeapStill
  <2>2. CASE BeginMutateRoot
    BY <2>1, <2>2 DEF BeginMutateRoot, RootBarrier
  <2>3. CASE rootNeedsTrace' = rootNeedsTrace /\ mode' \in {mode, "mutate", "finalize", "idle"}
    BY <2>1, <2>3
  <2> QED
    BY <1>1, <2>2, <2>3 DEF HandleStep, BeginMutate, BeginFinalize, EnterCallback,
       EndCallback, Upgrade, vars, handleVars
<1>2. CASE AllocStep
  BY <1>2 DEF AllocStep, Alloc
<1>3. CASE BarrierStep \/ ResurrectStep \/ ValueStep \/ RootStep
  BY <1>3, BarrierStepFrame, ResurrectFrame, ValueStepFrame, RootStepFrame DEF HeapStill
<1>4. CASE MarkStep \/ SweepStep
  BY <1>4, MarkFrames DEF HeapStill, SweepStep, SweepWhite, SweepWhiteWeak, SweepBlack
<1>5. CASE Wake \/ StartSweep \/ FinishCycle
  BY <1>5 DEF Wake, StartSweep, FinishCycle, CollectorTurn, handleVars
<1>6. CASE BeginDrop
  BY <1>6 DEF BeginDrop
<1>7. ASSUME NEW panics \in BOOLEAN, DropOne(panics) PROVE RootWillBeTraced'
  BY <1>7 DEF DropOne
<1> QED
  BY StepKinds, <1>1, <1>2, <1>3, <1>4, <1>5, <1>6, <1>7 DEF StepKind

-----------------------------------------------------------------------------
(* The colour invariant of marking.                                         *)

LEMMA TriColorStep == IndInv /\ [Next]_vars => TriColor'
<1> SUFFICES ASSUME IndInv, [Next]_vars, phase' = "Mark" PROVE TriColor'
  BY DEF TriColor
<1> USE DEF IndInv
<1>t. TypeOK /\ TypeOK'
  BY TypeStep
<1> USE DEF TypeOK, ValueType, MemoryType, Linked
\* what is left alone, and what only grows darker, stays good
<1>a. ASSUME HeapStill, ValueStill, RootStill, rootNeedsTrace' = FALSE => ~rootNeedsTrace,
             \A o \in Obj : Moves(o),
             \A o \in Obj : Blackening(o) => ~needsTrace[o]
      PROVE  TriColor'
  <2>1. \A o \in Obj : /\ color[o] \notin Whites => color'[o] \notin Whites
                       /\ color[o] # "White" => color'[o] # "White"
    BY <1>a, MovesMonotone
  <2>2. \A p \in Linked : color'[p] = "Black" =>
            color[p] = "Black" \/ (strong[p] = {} /\ weak[p] = {})
    BY <1>a DEF Blackening, ValuesAreLive
  <2>3. phase = "Mark" /\ rootNeedsTrace' \in BOOLEAN
    BY <1>a, <1>t DEF HeapStill
  <2> QED
    BY <1>a, <1>t, <2>1, <2>2, <2>3 DEF TriColor, HeapStill, ValueStill, RootStill
<1>1. CASE HandleStep
  <2>1. rootNeedsTrace => rootNeedsTrace'
    BY <1>1 DEF HandleStep, BeginMutate, BeginMutateRoot, BeginFinalize, RootBarrier,
       EndCallback, Upgrade, vars
  <2> QED
    BY <1>1, <2>1, HandleFrame DEF TriColor, HeapStill, ColorStill, ValueStill, RootStill
<1>2. CASE BarrierStep
  BY <1>2, <1>a, BarrierMoves, BarrierStepFrame
<1>3. CASE ResurrectStep
  BY <1>3, <1>a, ResurrectMoves, ResurrectFrame
<1>4. CASE AllocStep
  <2>1. color[births + 1] = "White" /\ color' = color /\ births + 1 \in Obj
    BY <1>4, <1>t DEF AllocStep, Alloc, ListIntact, ValuesAreLive, Obj
  <2>2. \A p \in Obj : p # births + 1 => strong'[p] = strong[p] /\ weak'[p] = weak[p]
    BY <1>4, <1>t DEF AllocStep, Alloc
  <2>3. phase = "Mark" /\ UNCHANGED <<rootNeedsTrace, rootStrong, rootWeak>>
        /\ Linked' \subseteq Linked \cup {births + 1}
    BY <1>4 DEF AllocStep, Alloc, rootVars
  <2> QED
    BY <1>t, <2>1, <2>2, <2>3 DEF TriColor
<1>5. CASE ValueStep
  <2>1. HeapStill /\ ColorStill /\ RootStill /\ rootNeedsTrace' = rootNeedsTrace
    BY <1>5, ValueStepFrame
  <2>2. ASSUME NEW p \in held, NEW c \in held, Adopt(p, c) PROVE TriColor'
    BY <1>t, <2>1, <2>2 DEF Adopt, TriColor, BarrierStaysGood, HeapStill, ColorStill,
       RootStill, HandleType
  <2>3. ASSUME NEW p \in held, NEW c \in WeakHandles, AdoptWeak(p, c) PROVE TriColor'
    BY <1>t, <2>1, <2>3 DEF AdoptWeak, TriColor, BarrierStaysGood, HeapStill, ColorStill,
       RootStill, HandleType, WeakHandles
  <2>4. ASSUME NEW p \in held, Take(p) PROVE TriColor'
    BY <1>t, <2>1, <2>4 DEF Take, TriColor, HeapStill, ColorStill, RootStill
  <2> QED
    BY <1>5, <2>2, <2>3, <2>4 DEF ValueStep
<1>6. CASE RootStep
  <2>1. rootNeedsTrace /\ rootNeedsTrace'
    BY <1>6, RootStepFrame DEF RootWillBeTraced, RootStep, SetRoot, HeapStill
  <2> QED
    BY <1>6, <2>1, RootStepFrame DEF TriColor, HeapStill, ColorStill, ValueStill
<1>7. CASE MarkStep
  <2> USE MarkFrames, <1>7
  <2>m. \A o \in Obj : /\ color[o] \notin Whites => color'[o] \notin Whites
                       /\ color[o] # "White" => color'[o] # "White"
    BY MarkMoves, MovesMonotone
  \* a value is traced, completely or not
  <2>1. ASSUME NEW o \in Obj, rootNeedsTrace' = rootNeedsTrace,
               \A p \in Linked : p # o /\ color'[p] = "Black" =>
                   color[p] = "Black" \/ ~needsTrace[p],
               color'[o] = "Black" =>
                   /\ \A c \in strong[o] : color'[c] \notin Whites
                   /\ \A c \in weak[o] : color'[c] # "White"
        PROVE  TriColor'
    <3>1. \A p \in Linked : p # o /\ color'[p] = "Black" =>
              color[p] = "Black" \/ (strong[p] = {} /\ weak[p] = {})
      BY <2>1 DEF ValuesAreLive
    <3> QED
      BY <1>t, <2>1, <2>m, <3>1 DEF TriColor, HeapStill, ValueStill, RootStill
  <2>2. ASSUME NEW o \in Obj, MarkOne(o) PROVE TriColor'
    <3>1. \A p \in Linked : p # o /\ color'[p] = "Black" =>
              color[p] = "Black" \/ ~needsTrace[p]
      BY <1>t, <2>2 DEF MarkOne, TraceColor, HeaderType, Whites
    <3>2. \A c \in strong[o] : color'[c] \notin Whites
      BY <1>t, <2>2 DEF MarkOne, TraceColor, HeaderType, Whites
    <3>3. \A c \in weak[o] : color'[c] # "White"
      BY <1>t, <2>2 DEF MarkOne, TraceColor, HeaderType, Whites
    <3> QED
      BY <2>1, <2>2, <3>1, <3>2, <3>3 DEF MarkOne
  <2>3. ASSUME NEW o \in Obj, NEW S \in SUBSET strong[o], NEW W \in SUBSET weak[o],
               MarkOnePanics(o, S, W)
        PROVE  TriColor'
    <3>1. color'[o] = "Gray"
      BY <1>t, <2>3 DEF MarkOnePanics, TraceColor, HeaderType
    <3>2. \A p \in Linked : p # o /\ color'[p] = "Black" =>
              color[p] = "Black" \/ ~needsTrace[p]
      BY <1>t, <2>3 DEF MarkOnePanics, TraceColor, HeaderType, Whites
    <3> QED
      BY <2>1, <2>3, <3>1, <3>2 DEF MarkOnePanics
  <2>4. ASSUME MarkRoot \/ \E S \in SUBSET rootStrong, W \in SUBSET rootWeak :
                               MarkRootPanics(S, W)
        PROVE  /\ \A p \in Linked : color'[p] = "Black" =>
                      color[p] = "Black" \/ (strong[p] = {} /\ weak[p] = {})
    <3>1. \A p \in Linked : color'[p] = "Black" => color[p] = "Black" \/ ~needsTrace[p]
      BY <1>t, <2>4 DEF MarkRoot, MarkRootPanics, TraceColor, HeaderType, Whites
    <3> QED
      BY <3>1 DEF ValuesAreLive
  <2>5. CASE MarkRoot
    <3>1. \A c \in rootStrong : color'[c] \notin Whites
      BY <1>t, <2>5 DEF MarkRoot, TraceColor, HeaderType, Whites
    <3>2. \A c \in rootWeak : color'[c] # "White"
      BY <1>t, <2>5 DEF MarkRoot, TraceColor, HeaderType, Whites
    <3> QED
      BY <1>t, <2>4, <2>5, <2>m, <3>1, <3>2
         DEF TriColor, HeapStill, ValueStill, RootStill
  <2>6. ASSUME NEW S \in SUBSET rootStrong, NEW W \in SUBSET rootWeak, MarkRootPanics(S, W)
        PROVE  TriColor'
    <3>1. rootNeedsTrace /\ rootNeedsTrace'
      BY <2>6 DEF MarkRootPanics
    <3> QED
      BY <1>t, <2>4, <2>6, <2>m, <3>1 DEF TriColor, HeapStill, ValueStill, RootStill
  <2> QED
    BY <2>2, <2>3, <2>5, <2>6 DEF MarkStep
<1>8. CASE Wake
  BY <1>8 DEF Wake, TriColor, ColorsMatchPhase, RootWillBeTraced
<1>9. CASE SweepStep \/ StartSweep \/ FinishCycle \/ BeginDrop
           \/ \E panics \in BOOLEAN : DropOne(panics)
  BY <1>9 DEF SweepStep, SweepWhite, SweepWhiteWeak, SweepBlack, StartSweep, FinishCycle,
     BeginDrop, DropOne
<1> QED
  BY StepKinds, <1>1, <1>2, <1>3, <1>4, <1>5, <1>6, <1>7, <1>8, <1>9 DEF StepKind

LEMMA BarrierGoodStep == IndInv /\ [Next]_vars => BarrierStaysGood'
<1> SUFFICES ASSUME IndInv, [Next]_vars, phase' = "Mark" PROVE BarrierStaysGood'
  BY DEF BarrierStaysGood
<1> USE DEF IndInv
<1>t. TypeOK /\ TypeOK'
  BY TypeStep
<1> USE DEF TypeOK, MemoryType, Linked
\* the licences given before stay good
<1>a. ASSUME HeapStill, \A o \in Obj : Moves(o),
             \A o \in Obj : Blackening(o) => ~needsTrace[o],
             NEW p \in Linked, color'[p] = "Black", needsTrace[p], NEW c \in Obj
      PROVE  /\ color[p] = "Black"
             /\ <<p, c>> \in mayAdopt => c \in Linked /\ color'[c] \notin Whites
             /\ <<p, c>> \in mayAdoptWeak => c \in Linked /\ color'[c] # "White"
  <2>1. color[p] = "Black" /\ phase = "Mark"
    BY <1>a DEF Blackening, HeapStill
  <2> QED
    BY <1>a, <2>1, MovesMonotone DEF BarrierStaysGood
<1>1. CASE HandleStep \/ ValueStep \/ RootStep
  BY <1>1, HandleFrame, ValueStepFrame, RootStepFrame
     DEF BarrierStaysGood, HeapStill, ColorStill, barrierVars
<1>2. CASE AllocStep
  <2>1. /\ color[births + 1] = "White" /\ color' = color /\ births + 1 \in Obj
        /\ Linked' = Linked \cup {births + 1} /\ phase = "Mark"
        /\ UNCHANGED <<mayAdopt, mayAdoptWeak>>
        /\ \A o \in Linked : needsTrace'[o] = needsTrace[o]
    BY <1>2, <1>t DEF AllocStep, Alloc, ListIntact, ValuesAreLive, Obj, barrierVars, HeaderType
  <2> QED
    BY <2>1 DEF BarrierStaysGood
<1>3. CASE BarrierStep
  <2>f. HeapStill /\ UNCHANGED <<held, heldWeak>> /\ phase = "Mark"
    BY <1>3, BarrierStepFrame DEF HeapStill
  <2>m. /\ \A o \in Obj : Moves(o)
        /\ \A o \in Obj : Blackening(o) => ~needsTrace[o]
    BY <1>3, BarrierMoves
  <2>h. held \subseteq Linked /\ heldWeak \subseteq Linked /\ NULL \notin Obj
    BY <2>f, HandlesAlive DEF Running, Obj, NULL
  <2> SUFFICES ASSUME NEW p \in Linked, color'[p] = "Black", needsTrace[p], NEW c \in Obj
               PROVE  /\ <<p, c>> \in mayAdopt' => c \in Linked /\ color'[c] \notin Whites
                      /\ <<p, c>> \in mayAdoptWeak' => c \in Linked /\ color'[c] # "White"
    BY <2>f DEF HeapStill, BarrierStaysGood
  <2>a. /\ color[p] = "Black"
        /\ <<p, c>> \in mayAdopt => c \in Linked /\ color'[c] \notin Whites
        /\ <<p, c>> \in mayAdoptWeak => c \in Linked /\ color'[c] # "White"
    BY <2>f, <2>m, <1>a
  <2> USE DEF HeaderType, HandleType
  <2>1. ASSUME NEW q \in held, NEW d \in held \cup {NULL}, BackwardBarrier(q, d)
        PROVE  /\ <<p, c>> \in mayAdopt' => c \in Linked /\ color'[c] \notin Whites
               /\ <<p, c>> \in mayAdoptWeak' => c \in Linked /\ color'[c] # "White"
    <3>1. CASE q = p
      <4>1. ~(BarrierNeeded(p) /\ MaybeWhite(d)) /\ color' = color
        BY <1>t, <2>1, <2>h, <3>1 DEF BackwardBarrier, MakeGrayAgain
      <4>2. d # NULL /\ color[d] \notin Whites
        BY <4>1, <2>f, <2>a DEF BarrierNeeded, MaybeWhite
      <4> QED
        BY <2>1, <2>a, <2>h, <3>1, <4>1, <4>2 DEF BackwardBarrier, Covered, Named
    <3>2. CASE q # p
      BY <2>1, <2>a, <2>h, <3>2 DEF BackwardBarrier, Covered, Named
    <3> QED
      BY <3>1, <3>2
  <2>2. ASSUME NEW q \in held, NEW d \in WeakHandles, BackwardBarrierWeak(q, d)
        PROVE  /\ <<p, c>> \in mayAdopt' => c \in Linked /\ color'[c] \notin Whites
               /\ <<p, c>> \in mayAdoptWeak' => c \in Linked /\ color'[c] # "White"
    <3>1. CASE q = p
      <4>1. ~(BarrierNeeded(p) /\ color[d] = "White") /\ color' = color
        BY <1>t, <2>2, <2>h, <3>1 DEF BackwardBarrierWeak, MakeGrayAgain
      <4>2. color[d] # "White"
        BY <4>1, <2>f, <2>a DEF BarrierNeeded
      <4> QED
        BY <2>2, <2>a, <2>h, <3>1, <4>1, <4>2
           DEF BackwardBarrierWeak, Covered, Named, WeakHandles
    <3>2. CASE q # p
      BY <2>2, <2>a, <2>h, <3>2 DEF BackwardBarrierWeak, Covered, Named
    <3> QED
      BY <3>1, <3>2
  <2>3. ASSUME NEW q \in held \cup {NULL}, NEW d \in held, ForwardBarrier(q, d)
        PROVE  /\ <<p, c>> \in mayAdopt' => c \in Linked /\ color'[c] \notin Whites
               /\ <<p, c>> \in mayAdoptWeak' => c \in Linked /\ color'[c] # "White"
    <3>1. CASE q \in {p, NULL}
      <4>1. BarrierNeeded(q)
        BY <3>1, <2>f, <2>a DEF BarrierNeeded
      <4>2. color'[d] \notin Whites
        BY <1>t, <2>3, <2>h, <4>1 DEF ForwardBarrier, TraceColor, Whites
      <4> QED
        BY <2>3, <2>a, <2>h, <3>1, <4>2 DEF ForwardBarrier, Covered, Named
    <3>2. CASE q \notin {p, NULL}
      BY <2>3, <2>a, <2>h, <3>2 DEF ForwardBarrier, Covered, Named
    <3> QED
      BY <3>1, <3>2
  <2>4. ASSUME NEW q \in held \cup {NULL}, NEW d \in WeakHandles, ForwardBarrierWeak(q, d)
        PROVE  /\ <<p, c>> \in mayAdopt' => c \in Linked /\ color'[c] \notin Whites
               /\ <<p, c>> \in mayAdoptWeak' => c \in Linked /\ color'[c] # "White"
    <3>1. CASE q \in {p, NULL}
      <4>1. BarrierNeeded(q)
        BY <3>1, <2>f, <2>a DEF BarrierNeeded
      <4>2. color'[d] # "White"
        BY <1>t, <2>4, <2>h, <4>1 DEF ForwardBarrierWeak, TraceColor, WeakHandles
      <4> QED
        BY <2>4, <2>a, <2>h, <3>1, <4>2 DEF ForwardBarrierWeak, Covered, Named, WeakHandles
    <3>2. CASE q \notin {p, NULL}
      BY <2>4, <2>a, <2>h, <3>2 DEF ForwardBarrierWeak, Covered, Named
    <3> QED
      BY <3>1, <3>2
  <2> QED
    BY <1>3, <2>1, <2>2, <2>3, <2>4 DEF BarrierStep
<1>4. CASE ResurrectStep
  <2>1. /\ HeapStill /\ \A o \in Obj : Moves(o)
        /\ \A o \in Obj : Blackening(o) => ~needsTrace[o]
        /\ UNCHANGED barrierVars
    BY <1>4, ResurrectMoves, ResurrectFrame
  <2> QED
    BY <2>1, <1>a DEF BarrierStaysGood, HeapStill, barrierVars
<1>5. CASE MarkStep
  BY <1>5, MarkFrames DEF BarrierStaysGood
<1>6. CASE Wake
  BY <1>6 DEF Wake, CollectorTurn, BarrierStaysGood
<1>7. CASE SweepStep \/ StartSweep \/ FinishCycle \/ BeginDrop
           \/ \E panics \in BOOLEAN : DropOne(panics)
  BY <1>7 DEF SweepStep, SweepWhite, SweepWhiteWeak, SweepBlack, StartSweep, FinishCycle,
     BeginDrop, DropOne
<1> QED
  BY StepKinds, <1>1, <1>2, <1>3, <1>4, <1>5, <1>6, <1>7 DEF StepKind

-----------------------------------------------------------------------------
(* What survives.                                                           *)

(* Reach gives the least closed superset.                                   *)
LEMMA ReachLeast ==
  ASSUME NEW S \in SUBSET Obj, NEW R \in SUBSET S, \A o \in S : strong[o] \subseteq S
  PROVE  Reach(R) \subseteq S
  BY DEF Reach, Closed

LEMMA SurvivorsReach ==
  ASSUME IndInv, Running, NEW R \in SUBSET Survivors
  PROVE  /\ Reach(R) \subseteq Survivors
         /\ WeakOf(Reach(R)) \subseteq Linked \ Unlinking
<1>1. Survivors \in SUBSET Obj /\ \A o \in Survivors : strong[o] \subseteq Survivors
  BY DEF IndInv, TypeOK, MemoryType, Survivors, Linked, SurvivorsClosed
<1>2. Reach(R) \subseteq Survivors
  BY <1>1, ReachLeast
<1> QED
  BY <1>2 DEF IndInv, SurvivorsClosed, WeakOf

(* A survivor is not about to lose its box.                                 *)
LEMMA SurvivorsLinked == Survivors \subseteq Linked \ Unlinking
  BY DEF Survivors, Unlinking, Condemned, Whites

(* A new object survives, even one allocated while the sweep is on.          *)
LEMMA AllocSurvivors ==
  ASSUME IndInv, NEW S \in SUBSET held, NEW W \in SUBSET WeakHandles, NEW nt \in BOOLEAN,
         Alloc(S, W, nt)
  PROVE  /\ births + 1 \in Obj /\ births + 1 \notin Linked
         /\ Linked' = Linked \cup {births + 1}
         /\ Survivors' = Survivors \cup {births + 1}
         /\ (Linked \ Unlinking)' = (Linked \ Unlinking) \cup {births + 1}
         /\ \A p \in Survivors : strong'[p] = strong[p] /\ weak'[p] = weak[p]
         /\ strong'[births + 1] = S /\ weak'[births + 1] = W
<1>t. TypeOK
  BY DEF IndInv
<1> DEFINE o == births + 1
           Stay == Linked \ Unlinking
<1>0. births \in Nat /\ o \in Obj /\ boxes \subseteq 1..births /\ leaked \subseteq boxes
  BY <1>t, MaxAllocsAssumption DEF Alloc, IndInv, ListIntact, TypeOK, MemoryType, Obj
<1>1. /\ Linked' = Linked \cup {o} /\ o \notin Linked
      /\ phase' = phase /\ sweep' = sweep /\ color' = color
      /\ isLive' = [isLive EXCEPT ![o] = TRUE]
      /\ strong' = [strong EXCEPT ![o] = S] /\ weak' = [weak EXCEPT ![o] = W]
  BY <1>0 DEF Alloc, Linked
<1>2. Pending' = Pending
  <2>1. sweep \in Nat /\ sweep <= births /\ births \in Nat
    BY <1>t DEF IndInv, ListIntact, Linked, TypeOK, ListType, MemoryType, Obj, NULL
  <2> QED
    BY <1>0, <1>1, <2>1 DEF Pending
<1>3. o \notin Pending
  BY <1>0, <1>1 DEF Pending
<1>4. Condemned' = Condemned /\ Unlinking' = Unlinking
  BY <1>1, <1>2 DEF Condemned, Unlinking
<1>5. Survivors' = Survivors \cup {o} /\ Stay' = Stay \cup {o}
  <2>1. \A x \in Linked : isLive'[x] = isLive[x]
    BY <1>t, <1>0, <1>1 DEF TypeOK, HeaderType, MemoryType, Linked
  <2>2. isLive'[o]
    BY <1>t, <1>0, <1>1 DEF TypeOK, HeaderType
  <2> QED
    BY <1>1, <1>3, <1>4, <2>1, <2>2 DEF Survivors, Condemned, Unlinking
<1>6. \A p \in Survivors : strong'[p] = strong[p] /\ weak'[p] = weak[p]
  BY <1>t, <1>0, <1>1 DEF TypeOK, ValueType, MemoryType, Linked, Survivors
<1>7. strong'[o] = S /\ weak'[o] = W
  BY <1>t, <1>0, <1>1 DEF TypeOK, ValueType
<1> QED
  BY <1>0, <1>1, <1>5, <1>6, <1>7

(* The sweep changes nothing about what survives it.                         *)
LEMMA SweepSurvivors ==
  ASSUME IndInv, SweepStep
  PROVE  /\ sweep \in Linked \ Survivors \/ Linked' = Linked
         /\ Linked' \in {Linked, Linked \ {sweep}}
         /\ sweep \in Linked' \/ sweep \in Unlinking
         /\ Survivors' = Survivors
         /\ (Linked \ Unlinking)' = Linked \ Unlinking
         /\ \A p \in Survivors : strong'[p] = strong[p] /\ weak'[p] = weak[p]
<1>t. TypeOK
  BY DEF IndInv
<1> DEFINE Stay == Linked \ Unlinking
<1>0. phase = "Sweep" /\ sweep # NULL /\ Running
  BY DEF SweepStep, SweepWhite, SweepWhiteWeak, SweepBlack, Running
<1>1. /\ sweep \in Linked /\ sweep \in Pending /\ leaked \subseteq boxes
      /\ \A o \in Linked : o <= next[sweep] <=> o < sweep
      /\ sweep \in Obj
  BY <1>0, <1>t, SweepAdvance DEF IndInv, ListIntact, TypeOK, MemoryType, Linked
<1>2. /\ phase' = "Sweep" /\ sweep' = next[sweep]
      /\ UNCHANGED <<rootStrong, rootWeak, held, heldWeak>>
  BY DEF SweepStep, SweepWhite, SweepWhiteWeak, SweepBlack, CollectorTurn, rootVars,
     handleVars
<1>3. /\ Linked' \in {Linked, Linked \ {sweep}}
      /\ \A o \in Obj \ {sweep} : /\ color'[o] = color[o] /\ isLive'[o] = isLive[o]
                                  /\ strong'[o] = strong[o] /\ weak'[o] = weak[o]
      /\ \/ color[sweep] = "White" /\ sweep \notin Linked'
         \/ /\ color[sweep] = "WhiteWeak" /\ sweep \in Linked' /\ ~isLive'[sweep]
         \/ /\ color[sweep] = "Black" /\ sweep \in Linked'
            /\ isLive'[sweep] = isLive[sweep] /\ strong'[sweep] = strong[sweep]
            /\ weak'[sweep] = weak[sweep]
  <2> USE DEF Linked, TypeOK, HeaderType, ValueType
  <2>1. ASSUME NEW panics \in BOOLEAN, SweepWhite(panics)
        PROVE  /\ Linked' = Linked \ {sweep} /\ color[sweep] = "White"
               /\ \A o \in Obj \ {sweep} :
                     /\ color'[o] = color[o] /\ isLive'[o] = isLive[o]
                     /\ strong'[o] = strong[o] /\ weak'[o] = weak[o]
    BY <1>t, <1>1, <2>1 DEF SweepWhite, DropAndDealloc, Forget
  <2>2. CASE SweepWhiteWeak
    BY <1>t, <1>1, <2>2 DEF SweepWhiteWeak, Forget
  <2>3. CASE SweepBlack
    BY <1>t, <1>1, <2>3 DEF SweepBlack, valueVars
  <2> QED
    BY <1>1, <2>1, <2>2, <2>3 DEF SweepStep
<1>4. Pending' = Pending \ {sweep}
  <2>1. \A o \in Linked : o <= sweep /\ o # sweep <=> o < sweep
    BY <1>t, <1>1 DEF TypeOK, MemoryType, Linked, Obj
  <2>2. \A o \in Linked' : o <= sweep' <=> o < sweep
    BY <1>1, <1>2, <1>3
  <2>3. sweep \notin Pending'
    BY <1>1, <1>2, <2>2, <1>t DEF Pending, TypeOK, MemoryType, Linked, Obj
  <2> QED
    BY <1>0, <1>2, <1>3, <2>1, <2>2, <2>3 DEF Pending
<1>5. Survivors' = Survivors /\ Stay' = Stay
  <2>1. \A o \in Linked \ {sweep} : /\ o \in Survivors' <=> o \in Survivors
                                    /\ o \in Stay' <=> o \in Stay
    BY <1>3, <1>4, <1>t DEF Survivors, Condemned, Unlinking, TypeOK, MemoryType, Linked
  <2>2. sweep \in Survivors' <=> sweep \in Survivors
    BY <1>1, <1>3, <1>4 DEF Survivors, Condemned, Whites
  <2>3. sweep \in Stay' <=> sweep \in Stay
    BY <1>1, <1>3, <1>4 DEF Unlinking
  <2> QED
    BY <1>3, <2>1, <2>2, <2>3 DEF Survivors
<1>6. \A p \in Survivors : strong'[p] = strong[p] /\ weak'[p] = weak[p]
  <2>1. sweep \in Survivors => color[sweep] = "Black"
    BY <1>1, <1>3 DEF Survivors, Condemned, Whites
  <2> QED
    BY <1>3, <2>1, <1>t DEF Survivors, TypeOK, MemoryType, Linked
<1>7. sweep \in Linked' \/ sweep \in Unlinking
  BY <1>1, <1>3 DEF Unlinking
<1>8. sweep \in Linked \ Survivors \/ Linked' = Linked
  BY <1>1, <1>3, <1>7 DEF Survivors, Condemned, Unlinking, Whites
<1> QED
  BY <1>3, <1>5, <1>6, <1>7, <1>8

LEMMA FinishSurvivors ==
  ASSUME IndInv, FinishCycle
  PROVE  Survivors' = Survivors /\ (Linked \ Unlinking)' = Linked \ Unlinking
<1>1. Pending = {} /\ Pending' = {}
  <2>1. sweep = 0 /\ \A o \in Linked : o >= 1 /\ o \in Nat
    BY DEF FinishCycle, IndInv, Linked, TypeOK, MemoryType, Obj, NULL
  <2>2. \A o \in Linked : ~(o <= sweep)
    BY <2>1
  <2> QED
    BY <2>2 DEF FinishCycle, Pending
<1> QED
  BY <1>1 DEF FinishCycle, Survivors, Unlinking, Condemned, Linked

LEMMA SurvivorsStep == IndInv /\ [Next]_vars => (Running => SurvivorsClosed)'
<1> SUFFICES ASSUME IndInv, [Next]_vars, Running' PROVE SurvivorsClosed'
  OBVIOUS
<1>t. TypeOK /\ TypeOK'
  BY TypeStep DEF IndInv
<1> DEFINE Stay == Linked \ Unlinking
<1>g. Survivors \subseteq Linked \ Unlinking
  BY SurvivorsLinked
\* the survivors and the values stay, the pointers in hand come from them
<1>a. ASSUME Running, Survivors' = Survivors, Stay \subseteq Stay',
             \A p \in Survivors : /\ strong'[p] \subseteq strong[p] \cup held
                                  /\ weak'[p] \subseteq weak[p] \cup WeakHandles,
             rootStrong' \subseteq rootStrong \cup held,
             rootWeak' \subseteq rootWeak \cup WeakHandles,
             held' \subseteq Survivors, heldWeak' \subseteq Stay
      PROVE  SurvivorsClosed'
  <2>1. SurvivorsClosed /\ held \subseteq Stay
    BY <1>a, <1>g DEF IndInv, SurvivorsClosed
  <2> QED
    BY <1>a, <2>1 DEF SurvivorsClosed, WeakHandles
<1>1. CASE HandleStep
  <2>1. Survivors' = Survivors /\ Stay' = Stay /\ ValueStill /\ RootStill /\ Running
    BY <1>1, HandleFrame DEF HeapStill, ColorStill, Survivors, Unlinking, Condemned, Pending,
       Linked, Running
  <2>2. SurvivorsClosed /\ rootStrong \in SUBSET Survivors
    BY <2>1 DEF IndInv, SurvivorsClosed
  <2>3. held' \subseteq Survivors /\ heldWeak' \subseteq Stay
    <3>1. ASSUME NEW m \in Modes, EnterCallback(m)
          PROVE  held' \subseteq Survivors /\ heldWeak' \subseteq Stay
      BY <2>1, <2>2, <3>1, SurvivorsReach DEF EnterCallback, RootReach, SurvivorsClosed
    <3>2. CASE EndCallback
      BY <3>2 DEF EndCallback
    <3>3. ASSUME NEW o \in heldWeak, Upgrade(o)
          PROVE  held' \subseteq Survivors /\ heldWeak' \subseteq Stay
      <4>1. o \in Linked \ Unlinking /\ isLive[o] /\ ~(phase = "Sweep" /\ color[o] = "WhiteWeak")
        BY <2>2, <3>3 DEF Upgrade, Upgradable, SurvivorsClosed
      <4>2. {o} \in SUBSET Survivors
        BY <4>1 DEF Survivors, Condemned, Unlinking, Pending, Whites
      <4> QED
        BY <2>1, <2>2, <3>3, <4>2, SurvivorsReach DEF Upgrade, SurvivorsClosed
    <3>4. CASE UNCHANGED vars
      BY <2>2, <3>4 DEF vars, handleVars, SurvivorsClosed
    <3> QED
      BY <1>1, <3>1, <3>2, <3>3, <3>4 DEF HandleStep, BeginMutate, BeginMutateRoot,
         BeginFinalize, Modes, Callbacks
  <2> QED
    BY <1>a, <2>1, <2>3 DEF ValueStill, RootStill
<1>2. CASE AllocStep
  <2> PICK S \in SUBSET held, W \in SUBSET WeakHandles, nt \in BOOLEAN : Alloc(S, W, nt)
    BY <1>2 DEF AllocStep
  <2> DEFINE o == births + 1
  <2>1. /\ Survivors' = Survivors \cup {o} /\ Stay' = Stay \cup {o}
        /\ \A p \in Survivors : strong'[p] = strong[p] /\ weak'[p] = weak[p]
        /\ strong'[o] = S /\ weak'[o] = W
    BY AllocSurvivors
  <2>2. held' = held \cup {o} /\ UNCHANGED <<heldWeak, rootStrong, rootWeak>> /\ Running
    BY DEF Alloc, rootVars, Running
  <2>3. SurvivorsClosed
    BY <2>2 DEF IndInv
  <2>4. W \subseteq Stay
    BY <2>3, <1>g DEF WeakHandles, SurvivorsClosed
  <2> QED
    BY <2>1, <2>2, <2>3, <2>4 DEF SurvivorsClosed
<1>3. CASE BarrierStep
  <2>1. Survivors' = Survivors /\ Stay' = Stay /\ ValueStill /\ RootStill /\ Running
        /\ held' = held /\ heldWeak' = heldWeak
    BY <1>3, BarrierMoves, BarrierStepFrame DEF HeapStill, ColorStill, Survivors, Unlinking,
       Condemned, Pending, Linked, Running
  <2> QED
    BY <1>a, <2>1 DEF IndInv, SurvivorsClosed, ValueStill, RootStill
<1>4. CASE ResurrectStep
  <2>1. Survivors' = Survivors /\ Stay' = Stay /\ ValueStill /\ RootStill /\ Running
        /\ Condemned = {} /\ Unlinking = {}
    BY <1>4, ResurrectMoves, ResurrectFrame DEF HeapStill, Survivors, Unlinking,
       Condemned, Pending, Linked, Running
  <2> PICK o \in WeakHandles : Resurrect(o)
    BY <1>4 DEF ResurrectStep
  <2>2. SurvivorsClosed
    BY <2>1 DEF IndInv
  <2>3. {o} \in SUBSET Survivors
    BY <2>1, <2>2, <1>g DEF Resurrect, Survivors, SurvivorsClosed, WeakHandles
  <2>4. held' \subseteq Survivors /\ heldWeak' \subseteq Stay
    BY <2>1, <2>2, <2>3, SurvivorsReach DEF Resurrect, SurvivorsClosed
  <2> QED
    BY <1>a, <2>1, <2>4 DEF ValueStill, RootStill
<1>5. CASE ValueStep
  <2>1. Survivors' = Survivors /\ Stay' = Stay /\ RootStill /\ Running
        /\ held' = held /\ heldWeak' = heldWeak
    BY <1>5, ValueStepFrame DEF HeapStill, ColorStill, Survivors, Unlinking,
       Condemned, Pending, Linked, Running
  <2>2. \A p \in Obj : /\ strong'[p] \subseteq strong[p] \cup held
                       /\ weak'[p] \subseteq weak[p] \cup WeakHandles
    <3> USE DEF TypeOK, ValueType
    <3>1. ASSUME NEW q \in held, NEW c \in held, Adopt(q, c)
          PROVE  \A p \in Obj : /\ strong'[p] \subseteq strong[p] \cup held
                               /\ weak'[p] = weak[p]
      BY <1>t, <3>1 DEF Adopt
    <3>2. ASSUME NEW q \in held, NEW c \in WeakHandles, AdoptWeak(q, c)
          PROVE  \A p \in Obj : /\ strong'[p] = strong[p]
                               /\ weak'[p] \subseteq weak[p] \cup WeakHandles
      BY <1>t, <3>2 DEF AdoptWeak
    <3>3. ASSUME NEW q \in held, Take(q)
          PROVE  \A p \in Obj : strong'[p] \subseteq strong[p] /\ weak'[p] \subseteq weak[p]
      BY <1>t, <3>3 DEF Take
    <3> QED
      BY <1>5, <3>1, <3>2, <3>3 DEF ValueStep
  <2> QED
    BY <1>a, <1>t, <2>1, <2>2
       DEF IndInv, SurvivorsClosed, RootStill, Survivors, TypeOK, MemoryType, Linked
<1>6. CASE RootStep
  <2>1. Survivors' = Survivors /\ Stay' = Stay /\ ValueStill /\ Running
        /\ held' = held /\ heldWeak' = heldWeak
    BY <1>6, RootStepFrame DEF HeapStill, ColorStill, Survivors, Unlinking,
       Condemned, Pending, Linked, Running
  <2>2. rootStrong' \subseteq held /\ rootWeak' \subseteq WeakHandles
    BY <1>6 DEF RootStep, SetRoot
  <2> QED
    BY <1>a, <2>1, <2>2 DEF IndInv, SurvivorsClosed, ValueStill
<1>7. CASE MarkStep
  <2>1. Survivors' = Survivors /\ Stay' = Stay /\ ValueStill /\ RootStill /\ Running
        /\ held' = held /\ heldWeak' = heldWeak
    BY <1>7, MarkFrames DEF HeapStill, Survivors, Unlinking, Condemned, Pending, Linked,
       Running
  <2> QED
    BY <1>a, <2>1 DEF IndInv, SurvivorsClosed, ValueStill, RootStill
<1>8. CASE Wake
  <2>1. Survivors' = Survivors /\ Stay' = Stay /\ Running
        /\ UNCHANGED <<strong, weak, rootStrong, rootWeak, held, heldWeak>>
    BY <1>8 DEF Wake, CollectorTurn, Survivors, Unlinking, Condemned, Pending, Linked,
       Running, valueVars, rootVars, handleVars
  <2> QED
    BY <1>a, <2>1 DEF IndInv, SurvivorsClosed
<1>9. CASE StartSweep
  <2>1. /\ phase = "Mark" /\ ~rootNeedsTrace /\ mode = "idle"
        /\ phase' = "Sweep" /\ color' = color /\ isLive' = isLive /\ Linked' = Linked
        /\ UNCHANGED <<strong, weak, rootStrong, rootWeak, held, heldWeak>>
    BY <1>9 DEF StartSweep, CollectorTurn, GrayRemaining, Linked, valueVars, rootVars,
       handleVars
  <2>2. \A o \in Linked : color[o] # "Gray"
    BY <1>9, <1>t DEF StartSweep, GrayRemaining, NoQueue, IndInv, GrayIffQueued, Linked,
       TypeOK, MemoryType
  <2>3. Survivors = {o \in Linked : isLive[o]} /\ Stay = Linked
    BY <2>1 DEF Survivors, Condemned, Unlinking, Pending
  <2>4. Survivors' \subseteq {o \in Survivors : color[o] = "Black"}
    <3>1. Pending' = Linked
      <4>1. \A o \in Linked : o <= all
        BY <1>9, <1>t DEF StartSweep, IndInv, ListIntact, Below, Running, Linked, TypeOK,
           ListType, MemoryType, Obj, NULL
      <4> QED
        BY <1>9, <2>1, <4>1 DEF StartSweep, Pending
    <3> QED
      BY <1>t, <2>1, <2>2, <2>3, <3>1
         DEF Survivors, Condemned, Whites, TypeOK, HeaderType, MemoryType, Linked, Colors
  <2>5. {o \in Survivors : color[o] \notin Whites} \subseteq Survivors'
    BY <2>1, <2>3 DEF Survivors, Condemned
  <2>6. {o \in Linked : color[o] # "White"} \subseteq Stay'
    BY <2>1 DEF Unlinking
  <2>7. TriColor /\ SurvivorsClosed /\ held = {} /\ heldWeak = {}
    BY <2>1 DEF IndInv, Running, HandlesMatchMode, InCallback, Callbacks
  <2>8. ASSUME NEW p \in Survivors'
        PROVE  strong[p] \subseteq Survivors' /\ weak[p] \subseteq Stay'
    <3>1. p \in Survivors /\ p \in Linked /\ color[p] = "Black"
      BY <2>3, <2>4
    <3>2. \A c \in strong[p] : c \in Survivors /\ color[c] \notin Whites
      BY <2>1, <2>7, <3>1 DEF TriColor, SurvivorsClosed
    <3>3. \A c \in weak[p] : c \in Linked /\ color[c] # "White"
      BY <2>1, <2>7, <3>1 DEF TriColor, SurvivorsClosed
    <3> QED
      BY <3>2, <3>3, <2>5, <2>6
  <2>9. rootStrong \subseteq Survivors' /\ rootWeak \subseteq Stay'
    BY <2>1, <2>5, <2>6, <2>7 DEF TriColor, SurvivorsClosed
  <2> QED
    BY <2>1, <2>7, <2>8, <2>9 DEF SurvivorsClosed
<1>10. CASE FinishCycle
  <2>1. Survivors' = Survivors /\ Stay' = Stay
    BY <1>10, FinishSurvivors
  <2>2. Running /\ UNCHANGED <<strong, weak, rootStrong, rootWeak, held, heldWeak>>
    BY <1>10 DEF FinishCycle, CollectorTurn, Running, valueVars, rootVars, handleVars
  <2> QED
    BY <1>a, <2>1, <2>2 DEF IndInv, SurvivorsClosed
<1>11. CASE SweepStep
  <2>1. /\ Survivors' = Survivors /\ Stay' = Stay
        /\ \A p \in Survivors : strong'[p] = strong[p] /\ weak'[p] = weak[p]
    BY <1>11, SweepSurvivors
  <2>2. Running /\ UNCHANGED <<rootStrong, rootWeak, held, heldWeak>>
    BY <1>11 DEF SweepStep, SweepWhite, SweepWhiteWeak, SweepBlack, CollectorTurn, rootVars,
       handleVars, Running
  <2> QED
    BY <1>a, <2>1, <2>2 DEF IndInv, SurvivorsClosed
<1>12. ASSUME BeginDrop \/ \E panics \in BOOLEAN : DropOne(panics) PROVE FALSE
  BY <1>12 DEF BeginDrop, DropOne, Running
<1> QED
  BY StepKinds, <1>1, <1>2, <1>3, <1>4, <1>5, <1>6, <1>7, <1>8, <1>9, <1>10, <1>11, <1>12
     DEF StepKind

-----------------------------------------------------------------------------
(* The invariant.                                                           *)

LEMMA InvInit == Init => IndInv
<1> SUFFICES ASSUME Init PROVE IndInv
  OBVIOUS
<1> USE DEF Init
<1>1. TypeOK
  BY TypeInit
<1>2. ListIntact
  BY DEF ListIntact, Below, Linked, Running, Obj, NULL
<1>3. GrayIffQueued
  BY DEF GrayIffQueued, NoQueue
<1>4. ColorsMatchPhase /\ TriColor /\ BarrierStaysGood /\ RootWillBeTraced
  BY DEF ColorsMatchPhase, TriColor, BarrierStaysGood, RootWillBeTraced, Linked
<1>5. HandlesMatchMode /\ ValuesAreLive
  BY DEF HandlesMatchMode, ValuesAreLive, InCallback, Callbacks, Linked, Whites
<1>6. SurvivorsClosed
  BY DEF SurvivorsClosed, Survivors, Unlinking, Linked
<1> QED
  BY <1>1, <1>2, <1>3, <1>4, <1>5, <1>6 DEF IndInv

LEMMA InvStep == IndInv /\ [Next]_vars => IndInv'
<1> SUFFICES ASSUME IndInv, [Next]_vars PROVE IndInv'
  OBVIOUS
<1>1. TypeOK'
  BY TypeStep DEF IndInv
<1> QED
  BY <1>1, ListStep, QueueStep, ColorsStep, TriColorStep, BarrierGoodStep, HandlesStep,
     RootStepTraced, ValuesStep, SurvivorsStep DEF IndInv

(* The inductive invariant, in which each part needs the others: the list,  *)
(* the queues, the colours and what the sweep condemns.                     *)
THEOREM Invariance == Spec => []IndInv
  BY InvInit, InvStep, PTL DEF Spec

(* The singly linked list survives sweeping, leaking and allocation in the  *)
(* middle of a sweep.                                                       *)
THEOREM ListStaysIntact == Spec => []ListIntact
<1>1. IndInv => ListIntact
  BY DEF IndInv
<1> QED
  BY <1>1, Invariance, PTL

(* The incremental marking never leaves a traced value with a pointer to an *)
(* untraced one, whatever the barriers, the mutations between them and      *)
(* panics of Collect::trace.                                                *)
THEOREM MarkingIsTriColor == Spec => []TriColor
<1>1. IndInv => TriColor
  BY DEF IndInv
<1> QED
  BY <1>1, Invariance, PTL

(* A box is queued once exactly while it is gray, through barriers,         *)
(* resurrections, panics that give boxes back, and the sweep that must meet *)
(* no gray box.                                                             *)
THEOREM QueuesAreExact == Spec => []GrayIffQueued
<1>1. IndInv => GrayIffQueued
  BY DEF IndInv
<1> QED
  BY <1>1, Invariance, PTL

(* No colour of one cycle is left over for the next.                        *)
THEOREM ColorsFollowPhases == Spec => []ColorsMatchPhase
<1>1. IndInv => ColorsMatchPhase
  BY DEF IndInv
<1> QED
  BY <1>1, Invariance, PTL

(* What one write barrier covered stays safe to store until the collector   *)
(* next runs, whatever comes in between.                                    *)
THEOREM BarriersStayGood == Spec => []BarrierStaysGood
<1>1. IndInv => BarrierStaysGood
  BY DEF IndInv
<1> QED
  BY <1>1, Invariance, PTL

(* No pointer that user code can reach dangles: this is the memory safety   *)
(* of the collector.                                                        *)
THEOREM MemorySafety == Spec => []NoDanglingPointers
<1>1. IndInv => NoDanglingPointers
  <2> SUFFICES ASSUME IndInv, Running
               PROVE  /\ \A o \in InHand : o \in boxes /\ isLive[o]
                      /\ WeakInHand \subseteq boxes
    BY DEF NoDanglingPointers
  <2>1. rootStrong \cup held \in SUBSET Survivors
        /\ rootWeak \cup heldWeak \subseteq Linked \ Unlinking
    BY DEF IndInv, SurvivorsClosed
  <2> QED
    BY <2>1, SurvivorsReach DEF InHand, WeakInHand, Survivors, Linked
<1> QED
  BY <1>1, Invariance, PTL

(* The sweep and user code never meet: nothing condemned can be reached, or *)
(* upgraded to.                                                             *)
THEOREM SweepIsolation == Spec => []CondemnedOutOfReach
<1>1. IndInv => CondemnedOutOfReach
  <2> SUFFICES ASSUME IndInv, Running
               PROVE  /\ InHand \cap Condemned = {}
                      /\ \A o \in WeakInHand : Upgradable(o) => o \notin Condemned
    BY DEF CondemnedOutOfReach
  <2>1. rootStrong \cup held \in SUBSET Survivors
        /\ rootWeak \cup heldWeak \subseteq Linked \ Unlinking
    BY DEF IndInv, SurvivorsClosed
  <2>2. InHand \subseteq Survivors /\ WeakInHand \subseteq Linked \ Unlinking
    BY <2>1, SurvivorsReach DEF InHand, WeakInHand
  <2>3. \A o \in Condemned : o \notin Unlinking => phase = "Sweep" /\ color[o] = "WhiteWeak"
    BY DEF Condemned, Unlinking, Pending, Whites
  <2> QED
    BY <2>2, <2>3 DEF Survivors, Upgradable
<1> QED
  BY <1>1, Invariance, PTL

(* A weak pointer to an object that is strongly reachable always upgrades.  *)
THEOREM UpgradeComplete == Spec => []ReachableUpgrades
<1>1. IndInv => ReachableUpgrades
  <2> SUFFICES ASSUME IndInv, Running, NEW o \in InHand PROVE Upgradable(o)
    BY DEF ReachableUpgrades
  <2>1. o \in Survivors
    BY SurvivorsReach DEF IndInv, SurvivorsClosed, InHand
  <2>2. isLive[o] /\ o \in Linked /\ o \notin Condemned
    BY <2>1 DEF Survivors
  <2>3. ASSUME phase = "Sweep", color[o] = "WhiteWeak" PROVE FALSE
    BY <2>2, <2>3 DEF Condemned, Whites, IndInv, ColorsMatchPhase
  <2> QED
    BY <2>2, <2>3 DEF Upgradable
<1> QED
  BY <1>1, Invariance, PTL

(* When marking is complete, what a finalizer is told is dead is not        *)
(* reachable.                                                               *)
THEOREM MarkingIsComplete == Spec => []MarkedMeansReached
<1>1. IndInv => MarkedMeansReached
  <2> SUFFICES ASSUME IndInv, phase = "Mark", ~GrayRemaining
               PROVE  /\ \A o \in RootReach : ~IsDead(o)
                      /\ \A o \in rootWeak \cup WeakOf(RootReach) : color[o] # "White"
    BY DEF MarkedMeansReached
  <2> DEFINE S == {o \in Survivors : color[o] = "Black"}
  <2> USE DEF IndInv
  <2>1. SurvivorsClosed /\ Survivors \subseteq Linked /\ Linked \subseteq Obj
    BY DEF Running, Survivors, Linked, TypeOK, MemoryType
  <2>2. \A o \in Linked : color[o] \notin Whites => color[o] = "Black"
    BY <2>1 DEF GrayRemaining, GrayIffQueued, NoQueue, TypeOK, HeaderType, Colors, Whites
  <2>3. rootStrong \subseteq S
    BY <2>1, <2>2 DEF SurvivorsClosed, TriColor, GrayRemaining
  <2>4. \A o \in S : strong[o] \subseteq S /\ \A c \in weak[o] : color[c] # "White"
    BY <2>1, <2>2 DEF SurvivorsClosed, TriColor
  <2>5. RootReach \subseteq S
    BY <2>1, <2>3, <2>4, ReachLeast DEF RootReach
  <2> QED
    BY <2>4, <2>5 DEF IsDead, Whites, WeakOf, TriColor, GrayRemaining
<1> QED
  BY <1>1, Invariance, PTL

-----------------------------------------------------------------------------
(* Destructors.                                                             *)

LEMMA DropsStep == IndInv /\ DroppedOnce /\ [Next]_vars => DroppedOnce'
<1> SUFFICES ASSUME IndInv, DroppedOnce, [Next]_vars PROVE DroppedOnce'
  OBVIOUS
<1>t. TypeOK /\ TypeOK'
  BY TypeStep DEF IndInv
<1> USE DEF TypeOK, HeaderType, MemoryType, Obj
<1>1. CASE HeapStill
  BY <1>1 DEF HeapStill, DroppedOnce, Linked
<1>2. CASE AllocStep
  <2>1. /\ births' = births + 1 /\ births + 1 \in Obj /\ drops' = drops
        /\ isLive' = [isLive EXCEPT ![births + 1] = TRUE]
        /\ Linked' = Linked \cup {births + 1} /\ Linked \subseteq 1..births
    BY <1>2, <1>t DEF AllocStep, Alloc, IndInv, ListIntact, Linked
  <2>2. \A o \in Obj : o # births + 1 => isLive'[o] = isLive[o]
    BY <1>t, <2>1
  <2>3. isLive'[births + 1]
    BY <1>t, <2>1
  <2> QED
    BY <1>t, <2>1, <2>2, <2>3 DEF DroppedOnce
\* a box is dropped, and deallocated, leaked or kept
<1>3. ASSUME NEW b \in Linked, births' = births,
             drops' = IF isLive[b] THEN [drops EXCEPT ![b] = @ + 1] ELSE drops,
             Linked' \in {Linked, Linked \ {b}},
             isLive' = [isLive EXCEPT ![b] = FALSE]
      PROVE  DroppedOnce'
  <2>1. b \in Obj /\ b <= births
    BY <1>t DEF IndInv, ListIntact, Linked
  <2>2. drops'[b] = 1
    BY <1>3, <1>t, <2>1 DEF DroppedOnce
  <2>3. \A o \in Obj \ {b} : drops'[o] = drops[o] /\ isLive'[o] = isLive[o]
                             /\ (o \in Linked' <=> o \in Linked)
    BY <1>3, <1>t
  <2>4. ~isLive'[b]
    BY <1>3, <1>t, <2>1
  <2> QED
    BY <1>3, <1>t, <2>1, <2>2, <2>3, <2>4 DEF DroppedOnce
<1>4. ASSUME NEW b \in Linked, NEW panics \in BOOLEAN, DropAndDealloc(b, panics),
             births' = births
      PROVE  DroppedOnce'
  <2>1. Linked' = Linked \ {b} /\ isLive' = [isLive EXCEPT ![b] = FALSE]
    BY <1>4, <1>t DEF DropAndDealloc, Forget, Linked, IndInv, ListIntact
  <2> QED
    BY <1>3, <1>4, <2>1 DEF DropAndDealloc
<1>5. CASE SweepStep
  <2>1. sweep \in Linked /\ births' = births
    BY <1>5, SweepAdvance
       DEF SweepStep, SweepWhite, SweepWhiteWeak, SweepBlack, CollectorTurn
  <2>2. ASSUME NEW panics \in BOOLEAN, SweepWhite(panics) PROVE DroppedOnce'
    BY <1>4, <2>1, <2>2 DEF SweepWhite
  <2>3. CASE SweepWhiteWeak
    BY <1>3, <2>1, <2>3 DEF SweepWhiteWeak, Forget, Linked
  <2>4. CASE SweepBlack
    BY <2>1, <2>4 DEF SweepBlack, DroppedOnce, Linked
  <2> QED
    BY <1>5, <2>2, <2>3, <2>4 DEF SweepStep
<1>6. CASE Wake \/ StartSweep \/ FinishCycle \/ BeginDrop
  BY <1>6 DEF Wake, StartSweep, FinishCycle, BeginDrop, CollectorTurn, DroppedOnce, Linked,
     memoryVars, headerVars
<1>7. ASSUME NEW panics \in BOOLEAN, DropOne(panics) PROVE DroppedOnce'
  <2>1. dropAll \in Linked
    BY <1>7, <1>t DEF DropOne, IndInv, ListIntact, Below, Running
  <2> QED
    BY <1>4, <1>7, <2>1 DEF DropOne
<1> QED
  BY StepKinds, HandleFrame, BarrierStepFrame, ResurrectFrame, ValueStepFrame,
     RootStepFrame, MarkFrames, <1>1, <1>2, <1>5, <1>6, <1>7 DEF StepKind

(* Every destructor runs at most once, and before its box is given back:    *)
(* through panics, weak pointers that outlive a value, and arena drop.      *)
THEOREM DestructorsRunOnce == Spec => []DroppedOnce
<1>1. Init => DroppedOnce
  BY DEF Init, DroppedOnce, NoQueue, Linked, Obj
<1> QED
  BY <1>1, DropsStep, Invariance, PTL DEF Spec

(* Dropping the arena frees every box and runs every destructor that has    *)
(* not run, but for the boxes that panicking destructors leaked.            *)
THEOREM ArenaDropIsComplete == Spec => []ArenaDropFreesAll
<1>1. IndInv /\ DroppedOnce => ArenaDropFreesAll
  <2> SUFFICES ASSUME IndInv, DroppedOnce, phase = "Drop", dropAll = NULL
               PROVE  boxes = leaked /\ \A o \in 1..births : drops[o] = 1
    BY DEF ArenaDropFreesAll
  <2>1. leaked \subseteq boxes /\ boxes \subseteq 1..births /\ 1..births \subseteq Obj
        /\ births \in Nat
    BY MaxAllocsAssumption DEF IndInv, ListIntact, TypeOK, MemoryType, Obj
  <2>2. Linked = {}
    BY <2>1 DEF IndInv, ListIntact, Below, Running, Linked
  <2>3. boxes = leaked
    BY <2>1, <2>2 DEF Linked
  <2>4. ASSUME NEW o \in 1..births PROVE drops[o] = 1
    BY <2>1, <2>2 DEF DroppedOnce
  <2> QED
    BY <2>3, <2>4
<1> QED
  BY <1>1, Invariance, DestructorsRunOnce, PTL

-----------------------------------------------------------------------------
(* Garbage.                                                                 *)

(* Reach is closed, and contains what it starts from.                       *)
LEMMA ReachClosed ==
  ASSUME NEW R \in SUBSET Obj, \A o \in Obj : strong[o] \subseteq Obj
  PROVE  R \subseteq Reach(R) /\ Closed(Reach(R)) /\ Reach(R) \subseteq Obj
<1>1. R \subseteq Reach(R) /\ Reach(R) \subseteq Obj
  BY DEF Reach
<1>2. ASSUME NEW o \in Reach(R), NEW c \in strong[o] PROVE c \in Reach(R)
  BY DEF Reach, Closed
<1> QED
  BY <1>1, <1>2 DEF Closed

(* What was unreachable when the cycle began stays out of reach and unmarked *)
(* until the sweep has dropped it, unless it is upgraded or resurrected.    *)
DoomedInv ==
    /\ doomed \subseteq 1..births
    /\ Running => (rootStrong \cup held) \cap doomed = {}
    /\ Running => \A p \in Obj \ doomed : strong[p] \cap doomed = {}
    /\ phase = "Mark" => \A o \in doomed : color[o] \in Whites
    /\ phase = "Sweep" => \A o \in doomed : drops[o] = 1 \/ o \in Condemned
    /\ phase \in {"Sleep", "Drop"} => \A o \in doomed : drops[o] = 1

LEMMA DoomedStep ==
  IndInv /\ DroppedOnce /\ DoomedInv /\ [Next]_vars => DoomedInv'
<1> SUFFICES ASSUME IndInv, DroppedOnce, DoomedInv, [Next]_vars PROVE DoomedInv'
  OBVIOUS
<1>t. TypeOK /\ TypeOK' /\ DroppedOnce'
  BY TypeStep, DropsStep DEF IndInv
<1>o. \A o \in Obj : strong[o] \subseteq Obj
  BY <1>t DEF TypeOK, ValueType
<1> USE DEF DoomedInv
\* colours, values and memory stay; fewer objects are doomed
<1>a. ASSUME HeapStill, \A o \in doomed' : color'[o] = color[o], doomed' \subseteq doomed,
             (rootStrong' \cup held') \cap doomed' = {},
             \A p \in Obj \ doomed' : strong'[p] \cap doomed' = {}
      PROVE  DoomedInv'
  BY <1>a DEF HeapStill, Condemned, Pending, Linked
\* an object comes back to hand with all it leads to
<1>b. ASSUME NEW o \in Obj, HeapStill, ValueStill, RootStill, Running,
             \A x \in Obj \ {o} : color'[x] = color[x],
             held' = held \cup Reach({o}), doomed' = doomed \ Reach({o})
      PROVE  DoomedInv'
  <2>1. Closed(Reach({o})) /\ o \in Reach({o})
    BY <1>o, ReachClosed
  <2>2. doomed \subseteq Obj
    BY <1>t DEF TypeOK, HandleType
  <2>3. \A p \in Obj \ doomed' : strong[p] \cap doomed' = {}
    BY <1>b, <2>1 DEF Closed
  <2>4. (rootStrong' \cup held') \cap doomed' = {}
    BY <1>b DEF RootStill
  <2> QED
    BY <1>a, <1>b, <2>1, <2>2, <2>3, <2>4 DEF ValueStill
<1>1. CASE HandleStep
  <2>1. HeapStill /\ ColorStill /\ ValueStill /\ RootStill
    BY <1>1, HandleFrame
  <2>2. ASSUME NEW m \in Modes, EnterCallback(m), UNCHANGED historyVars PROVE DoomedInv'
    <3>1. Running /\ rootStrong \subseteq Obj \ doomed
      BY <1>t, <2>2 DEF EnterCallback, Running, TypeOK, ValueType
    <3>2. held' \subseteq Obj \ doomed
      BY <1>o, <2>2, <3>1, ReachLeast DEF EnterCallback, RootReach
    <3> QED
      BY <1>a, <2>1, <2>2, <3>1, <3>2 DEF historyVars, ColorStill, ValueStill, RootStill
  <2>3. ASSUME UNCHANGED <<doomed>>, held' \subseteq held PROVE DoomedInv'
    BY <2>1, <2>3 DEF HeapStill, ColorStill, ValueStill, RootStill, Condemned, Pending, Linked,
       Running
  <2>4. ASSUME NEW o \in heldWeak, Upgrade(o) PROVE DoomedInv'
    <3>1. Running /\ o \in Obj
      BY <1>t, <2>4 DEF Upgrade, IndInv, HandlesMatchMode, Running, TypeOK, HandleType
    <3> QED
      BY <1>b, <2>1, <2>4, <3>1 DEF Upgrade, ColorStill
  <2> QED
    BY <1>1, <2>2, <2>3, <2>4 DEF HandleStep, BeginMutate, BeginMutateRoot, BeginFinalize,
       EndCallback, Modes, Callbacks, vars, handleVars, historyVars
<1>2. CASE AllocStep
  <2> PICK S \in SUBSET held, W \in SUBSET WeakHandles, nt \in BOOLEAN : Alloc(S, W, nt)
    BY <1>2 DEF AllocStep
  <2> DEFINE o == births + 1
  <2>1. /\ o \in Obj /\ births \in Nat /\ births' = births + 1 /\ phase' = phase /\ sweep' = sweep
        /\ strong' = [strong EXCEPT ![o] = S] /\ color' = color
        /\ held' = held \cup {o} /\ UNCHANGED <<rootStrong, doomed, drops>>
        /\ Linked' = Linked \cup {o} /\ Running
    BY <1>t DEF Alloc, IndInv, HandlesMatchMode, Running, TypeOK, MemoryType, Obj, rootVars,
       historyVars, Linked, ListIntact
  <2>2. o \notin doomed
    BY <2>1
  <2>3. Condemned \subseteq Condemned'
    BY <2>1 DEF Condemned, Pending
  <2>4. \A p \in Obj \ doomed : strong'[p] \cap doomed = {}
    BY <1>t, <2>1, <2>2 DEF TypeOK, ValueType
  <2>5. doomed \subseteq 1..births'
    BY <2>1
  <2> QED
    BY <2>1, <2>2, <2>3, <2>4, <2>5
<1>3. CASE BarrierStep
  <2>1. HeapStill /\ ValueStill /\ RootStill /\ held' = held
    BY <1>3, BarrierStepFrame
  <2>2. doomed' = doomed /\ Running
    BY <1>3 DEF BarrierStep, BackwardBarrier, BackwardBarrierWeak, ForwardBarrier,
       ForwardBarrierWeak, BarrierFrame, historyVars, IndInv, HandlesMatchMode, Running
  <2>3. phase = "Mark" => \A o \in doomed : color'[o] \in Whites
    <3> USE DEF TypeOK, HeaderType, HandleType
    <3> SUFFICES ASSUME phase = "Mark", NEW o \in doomed PROVE color'[o] \in Whites
      OBVIOUS
    <3>1. o \in Obj /\ color[o] \in Whites /\ o \notin held
      BY <1>t, <2>2
    <3>2. ASSUME NEW p \in held, NEW c \in held \cup {NULL}, BackwardBarrier(p, c)
          PROVE  color'[o] \in Whites
      BY <1>t, <3>1, <3>2 DEF BackwardBarrier, MakeGrayAgain
    <3>3. ASSUME NEW p \in held, NEW c \in WeakHandles, BackwardBarrierWeak(p, c)
          PROVE  color'[o] \in Whites
      BY <1>t, <3>1, <3>3 DEF BackwardBarrierWeak, MakeGrayAgain
    <3>4. ASSUME NEW p \in held \cup {NULL}, NEW c \in held, ForwardBarrier(p, c)
          PROVE  color'[o] \in Whites
      BY <1>t, <3>1, <3>4 DEF ForwardBarrier, TraceColor
    <3>5. ASSUME NEW p \in held \cup {NULL}, NEW c \in WeakHandles, ForwardBarrierWeak(p, c)
          PROVE  color'[o] \in Whites
      BY <1>t, <3>1, <3>5 DEF ForwardBarrierWeak, TraceColor, Whites
    <3> QED
      BY <1>3, <3>2, <3>3, <3>4, <3>5 DEF BarrierStep
  <2>4. phase = "Mark" \/ ColorStill
    BY <1>3, BarrierMoves
  <2> QED
    BY <2>1, <2>2, <2>3, <2>4
       DEF HeapStill, ColorStill, ValueStill, RootStill, Condemned, Pending, Linked
<1>4. CASE ResurrectStep
  <2> PICK o \in WeakHandles : Resurrect(o)
    BY <1>4 DEF ResurrectStep
  <2>1. o \in Obj /\ Running
    BY <1>4, <1>t, ResurrectMoves DEF WeakHandles, TypeOK, HandleType, Running
  <2>2. \A x \in Obj \ {o} : color'[x] = color[x]
    BY <1>t DEF Resurrect, Enqueue, TypeOK, HeaderType
  <2> QED
    BY <1>4, <1>b, <2>1, <2>2, ResurrectFrame DEF Resurrect
<1>5. CASE ValueStep
  <2>1. HeapStill /\ ColorStill /\ RootStill /\ held' = held
    BY <1>5, ValueStepFrame
  <2>2. doomed' = doomed /\ Running
    BY <1>5 DEF ValueStep, Adopt, AdoptWeak, Take, ValueFrame, historyVars, IndInv,
       HandlesMatchMode, Running
  <2>3. \A p \in Obj \ doomed : strong'[p] \cap doomed = {}
    <3> USE DEF TypeOK, ValueType
    <3>1. ASSUME NEW q \in held, NEW c \in held, Adopt(q, c)
          PROVE  \A p \in Obj \ doomed : strong'[p] \cap doomed = {}
      BY <1>t, <2>2, <3>1 DEF Adopt
    <3>2. ASSUME NEW q \in held, NEW c \in WeakHandles, AdoptWeak(q, c)
          PROVE  \A p \in Obj \ doomed : strong'[p] \cap doomed = {}
      BY <1>t, <2>2, <3>2 DEF AdoptWeak
    <3>3. ASSUME NEW q \in held, Take(q)
          PROVE  \A p \in Obj \ doomed : strong'[p] \cap doomed = {}
      BY <1>t, <2>2, <3>3 DEF Take
    <3> QED
      BY <1>5, <3>1, <3>2, <3>3 DEF ValueStep
  <2> QED
    BY <1>a, <2>1, <2>2, <2>3 DEF ColorStill, RootStill
<1>6. CASE RootStep
  <2>1. HeapStill /\ ColorStill /\ ValueStill /\ held' = held
    BY <1>6, RootStepFrame
  <2>2. doomed' = doomed /\ Running /\ rootStrong' \subseteq held
    BY <1>6 DEF RootStep, SetRoot, historyVars, IndInv, HandlesMatchMode, Running, InCallback,
       Callbacks
  <2> QED
    BY <1>a, <2>1, <2>2 DEF ColorStill, ValueStill
<1>7. CASE MarkStep
  <2>1. HeapStill /\ ValueStill /\ RootStill /\ held' = held /\ phase = "Mark"
    BY <1>7, MarkFrames
  <2>2. doomed' = doomed /\ Running
    BY <1>7, <2>1 DEF MarkStep, MarkOne, MarkOnePanics, MarkRoot, MarkRootPanics, MarkFrame,
       historyVars, Running
  <2>3. \A o \in doomed : color'[o] \in Whites
    <3> USE DEF TypeOK, HeaderType, HandleType, Whites
    <3> SUFFICES ASSUME NEW o \in doomed PROVE color'[o] \in Whites
      OBVIOUS
    <3>1. o \in Obj /\ color[o] \in Whites /\ o \notin rootStrong
      BY <1>t, <2>1, <2>2
    <3>2. ASSUME NEW p \in Obj, PopGray(p) \/ PopGrayAgain(p) PROVE p # o /\ o \notin strong[p]
      <4>1. color[p] = "Gray"
        BY <1>t, <3>2 DEF PopGray, PopGrayAgain, IndInv, GrayIffQueued, TypeOK, QueueType
      <4> QED
        BY <2>1, <2>2, <3>1, <4>1
    <3>3. ASSUME NEW p \in Obj, MarkOne(p) PROVE color'[o] \in Whites
      BY <1>t, <3>1, <3>2, <3>3 DEF MarkOne, TraceColor
    <3>4. ASSUME NEW p \in Obj, NEW S \in SUBSET strong[p], NEW W \in SUBSET weak[p],
                 MarkOnePanics(p, S, W)
          PROVE  color'[o] \in Whites
      BY <1>t, <3>1, <3>2, <3>4 DEF MarkOnePanics, TraceColor
    <3>5. CASE MarkRoot
      BY <1>t, <3>1, <3>5 DEF MarkRoot, TraceColor
    <3>6. ASSUME NEW S \in SUBSET rootStrong, NEW W \in SUBSET rootWeak, MarkRootPanics(S, W)
          PROVE  color'[o] \in Whites
      BY <1>t, <3>1, <3>6 DEF MarkRootPanics, TraceColor
    <3> QED
      BY <1>7, <3>3, <3>4, <3>5, <3>6 DEF MarkStep
  <2> QED
    BY <2>1, <2>2, <2>3 DEF HeapStill, ValueStill, RootStill
<1>8. CASE Wake
  <2>1. /\ doomed' = {o \in Linked : isLive[o]} \ RootReach /\ color' = color
        /\ phase = "Sleep" /\ phase' = "Mark" /\ mode = "idle"
        /\ UNCHANGED <<births, strong, rootStrong, held>>
    BY <1>8 DEF Wake, CollectorTurn, valueVars, rootVars, handleVars
  <2>2. held = {} /\ Linked \subseteq 1..births /\ \A o \in Linked : color[o] = "White"
    BY <2>1 DEF IndInv, HandlesMatchMode, InCallback, Callbacks, ListIntact, Linked,
       ColorsMatchPhase
  <2>3. rootStrong \subseteq RootReach /\ Closed(RootReach)
    BY <1>o, <1>t, ReachClosed DEF RootReach, TypeOK, ValueType
  <2>4. \A p \in Obj \ doomed' : strong[p] \cap doomed' = {}
    <3> SUFFICES ASSUME NEW p \in Obj, p \notin RootReach, p \notin {o \in Linked : isLive[o]}
                 PROVE  strong[p] = {}
      BY <2>1, <2>3 DEF Closed
    <3> QED
      BY DEF IndInv, ValuesAreLive
  <2> QED
    BY <2>1, <2>2, <2>3, <2>4 DEF Whites
<1>9. CASE StartSweep
  <2>1. /\ UNCHANGED <<births, strong, rootStrong, held, doomed, drops, color>>
        /\ phase = "Mark" /\ phase' = "Sweep" /\ sweep' = all /\ Linked' = Linked
    BY <1>9 DEF StartSweep, CollectorTurn, valueVars, rootVars, handleVars, historyVars, Linked
  <2>2. \A o \in Linked : o <= all
    BY <2>1, <1>t DEF IndInv, ListIntact, Below, Running, Linked, TypeOK, ListType,
       MemoryType, Obj, NULL
  <2>3. \A o \in doomed \cap Linked : o \in Condemned'
    BY <2>1, <2>2 DEF Condemned, Pending
  <2>4. \A o \in doomed \ Linked : drops[o] = 1
    BY <1>t DEF DroppedOnce, TypeOK, MemoryType, HandleType, Obj
  <2> QED
    BY <2>1, <2>3, <2>4 DEF Running
<1>10. CASE FinishCycle
  <2>1. /\ UNCHANGED <<births, strong, rootStrong, held, doomed, drops>>
        /\ phase = "Sweep" /\ phase' = "Sleep" /\ sweep = 0
    BY <1>10 DEF FinishCycle, CollectorTurn, valueVars, rootVars, handleVars, historyVars, NULL
  <2>2. Condemned = {}
    <3>1. \A o \in Linked : o >= 1 /\ o \in Nat
      BY <1>t DEF Linked, TypeOK, MemoryType, Obj
    <3>2. \A o \in Linked : ~(o <= sweep)
      BY <2>1, <3>1
    <3> QED
      BY <2>1, <3>2 DEF Condemned, Pending
  <2> QED
    BY <2>1, <2>2 DEF Running
<1>11. CASE SweepStep
  <2>0. phase = "Sweep" /\ sweep # NULL /\ Running
    BY <1>11 DEF SweepStep, SweepWhite, SweepWhiteWeak, SweepBlack, Running
  <2>1. /\ sweep \in Linked /\ sweep \in Pending /\ sweep \in Obj /\ leaked \subseteq boxes
        /\ \A o \in Linked : o <= next[sweep] <=> o < sweep
    BY <2>0, <1>t, SweepAdvance DEF IndInv, ListIntact, TypeOK, MemoryType, Linked
  <2>2. /\ phase' = "Sweep" /\ sweep' = next[sweep]
        /\ UNCHANGED <<rootStrong, held, doomed, births>>
    BY <1>11 DEF SweepStep, SweepWhite, SweepWhiteWeak, SweepBlack, CollectorTurn, rootVars,
       handleVars, historyVars
  <2>3. /\ Linked' \in {Linked, Linked \ {sweep}}
        /\ \A o \in Obj \ {sweep} : color'[o] = color[o] /\ drops'[o] = drops[o]
        /\ \A o \in Obj : strong'[o] \subseteq strong[o]
        /\ color[sweep] \in Whites => sweep \notin Linked' \/ ~isLive'[sweep]
        /\ color[sweep] \notin Whites => drops' = drops
    <3> USE DEF Linked, TypeOK, HeaderType, ValueType, MemoryType
    <3>1. ASSUME NEW panics \in BOOLEAN, SweepWhite(panics)
          PROVE  /\ Linked' = Linked \ {sweep} /\ color[sweep] = "White"
                 /\ \A o \in Obj \ {sweep} : color'[o] = color[o] /\ drops'[o] = drops[o]
                 /\ \A o \in Obj : strong'[o] \subseteq strong[o]
      BY <1>t, <2>1, <3>1 DEF SweepWhite, DropAndDealloc, Forget
    <3>2. CASE SweepWhiteWeak
      BY <1>t, <2>1, <3>2 DEF SweepWhiteWeak, Forget, Whites
    <3>3. CASE SweepBlack
      BY <1>t, <2>1, <3>3 DEF SweepBlack, valueVars, Whites
    <3> QED
      BY <1>11, <2>1, <3>1, <3>2, <3>3 DEF SweepStep, Whites
  <2>4. \A o \in Condemned \ {sweep} : o \in Condemned'
    <3>1. \A o \in Pending \ {sweep} : o < sweep /\ o \in Obj
      BY <1>t, <2>0, <2>1 DEF Pending, TypeOK, MemoryType, Linked, Obj
    <3> QED
      BY <2>0, <2>1, <2>2, <2>3, <3>1 DEF Condemned, Pending
  <2>5. sweep \in Condemned => drops'[sweep] = 1
    <3>1. sweep <= births'
      <4>1. Linked \subseteq 1..births
        BY DEF IndInv, ListIntact, Linked
      <4> QED
        BY <2>1, <2>2, <4>1
    <3> QED
      BY <1>t, <2>1, <2>3, <3>1 DEF Condemned, DroppedOnce, TypeOK, MemoryType, Obj
  <2>6. ASSUME NEW o \in doomed PROVE drops'[o] = 1 \/ o \in Condemned'
    <3>1. o \in Obj /\ (drops[o] = 1 \/ o \in Condemned)
      BY <1>t, <2>0 DEF TypeOK, HandleType
    <3>2. CASE o # sweep
      BY <2>3, <2>4, <3>1, <3>2
    <3>3. CASE o = sweep
      <4>1. CASE color[sweep] \in Whites
        BY <2>1, <2>5, <3>3, <4>1 DEF Condemned
      <4>2. CASE color[sweep] \notin Whites
        BY <2>3, <3>1, <3>3, <4>2 DEF Condemned
      <4> QED
        BY <4>1, <4>2
    <3> QED
      BY <3>2, <3>3
  <2> QED
    BY <2>0, <2>2, <2>3, <2>6
<1>12. CASE BeginDrop
  BY <1>12 DEF BeginDrop, Running
<1>13. ASSUME NEW panics \in BOOLEAN, DropOne(panics) PROVE DoomedInv'
  <2>1. phase = "Drop" /\ phase' = "Drop" /\ doomed' = doomed /\ births' = births
        /\ dropAll \in Linked
    BY <1>13, <1>t DEF DropOne, historyVars, IndInv, ListIntact, Below, Running
  <2>2. \A o \in doomed : drops'[o] = 1
    <3>1. ASSUME NEW o \in doomed PROVE drops'[o] = 1
      <4>1. drops[o] = 1 /\ o \in Obj
        BY <2>1, <1>t DEF TypeOK, HandleType
      <4>2. ~isLive[o] \/ o \notin Linked
        <5>1. drops[o] = IF o > births \/ (o \in Linked /\ isLive[o]) THEN 0 ELSE 1
          BY <4>1 DEF DroppedOnce
        <5> QED
          BY <4>1, <5>1
      <4> QED
        BY <1>13, <1>t, <2>1, <4>1, <4>2
           DEF DropOne, DropAndDealloc, TypeOK, MemoryType, Linked
    <3> QED
      BY <3>1
  <2> QED
    BY <2>1, <2>2 DEF Running
<1> QED
  BY StepKinds, <1>1, <1>2, <1>3, <1>4, <1>5, <1>6, <1>7, <1>8, <1>9, <1>10, <1>11, <1>12,
     <1>13 DEF StepKind

(* One cycle drops all the garbage there was when it began, however it is   *)
(* interleaved with user code.                                              *)
THEOREM CycleIsComplete == Spec => []CycleDropsDoomed
<1>1. Init => DoomedInv
  BY DEF Init, DoomedInv
<1>2. DoomedInv => CycleDropsDoomed
  BY DEF DoomedInv, CycleDropsDoomed
<1> QED
  BY <1>1, <1>2, DoomedStep, Invariance, DestructorsRunOnce, PTL DEF Spec

(* What finalization resurrected is marked, and then survives the sweep.    *)
ResurrectedInv ==
    /\ phase = "Mark" => \A o \in resurrected : o \in Linked /\ color[o] \notin Whites
    /\ phase = "Sweep" => resurrected \subseteq Survivors

LEMMA ResurrectedStep == IndInv /\ ResurrectedInv /\ [Next]_vars => ResurrectedInv'
<1> SUFFICES ASSUME IndInv, ResurrectedInv, [Next]_vars PROVE ResurrectedInv'
  OBVIOUS
<1>t. TypeOK /\ TypeOK'
  BY TypeStep DEF IndInv
<1> USE DEF ResurrectedInv
<1>1. CASE HandleStep \/ ValueStep \/ RootStep
  <2>1. HeapStill /\ ColorStill
    BY <1>1, HandleFrame, ValueStepFrame, RootStepFrame
  <2>2. resurrected' = resurrected
    BY <1>1 DEF HandleStep, BeginMutate, BeginMutateRoot, BeginFinalize, EndCallback, Upgrade,
       ValueStep, Adopt, AdoptWeak, Take, ValueFrame, RootStep, SetRoot, vars, historyVars
  <2> QED
    BY <2>1, <2>2 DEF HeapStill, ColorStill, Survivors, Condemned, Pending, Linked
<1>2. CASE AllocStep
  <2>1. /\ births + 1 \in Obj /\ Linked' = Linked \cup {births + 1}
        /\ births + 1 \notin Linked /\ resurrected' = resurrected
        /\ phase' = phase /\ color' = color /\ sweep' = sweep
        /\ isLive' = [isLive EXCEPT ![births + 1] = TRUE]
    BY <1>2, <1>t DEF AllocStep, Alloc, IndInv, ListIntact, Linked, TypeOK, MemoryType, Obj,
       historyVars
  <2>2. Pending' = Pending
    <3>1. sweep \in Nat /\ sweep <= births /\ births \in Nat
      BY <1>t DEF IndInv, ListIntact, Linked, TypeOK, ListType, MemoryType, Obj, NULL
    <3> QED
      BY <2>1, <3>1 DEF Pending
  <2>3. \A o \in Linked : isLive'[o] = isLive[o]
    BY <1>t, <2>1 DEF TypeOK, HeaderType, MemoryType, Linked
  <2>4. Survivors \subseteq Survivors'
    BY <2>1, <2>2, <2>3 DEF Survivors, Condemned
  <2> QED
    BY <2>1, <2>4
<1>3. CASE BarrierStep
  <2>1. resurrected' = resurrected
    BY <1>3 DEF BarrierStep, BackwardBarrier, BackwardBarrierWeak, ForwardBarrier,
       ForwardBarrierWeak, BarrierFrame, historyVars
  <2>2. HeapStill /\ (phase = "Mark" \/ ColorStill) /\ \A o \in Obj : Moves(o)
    BY <1>3, BarrierStepFrame, BarrierMoves
  <2> QED
    BY <1>t, <2>1, <2>2, MovesMonotone DEF HeapStill, ColorStill, Survivors, Condemned, Pending,
       Linked, TypeOK, MemoryType
<1>4. CASE ResurrectStep
  <2> PICK o \in WeakHandles : Resurrect(o)
    BY <1>4 DEF ResurrectStep
  <2>1. HeapStill /\ phase = "Mark" /\ (\A x \in Obj : Moves(x))
        /\ resurrected' = resurrected \cup {o}
    BY <1>4, ResurrectFrame, ResurrectMoves DEF Resurrect
  <2>2. o \in Linked
    BY <2>1, HandlesAlive DEF WeakHandles, Running
  <2>3. color'[o] \notin Whites
    BY <1>t, <2>2 DEF Resurrect, Enqueue, TypeOK, HeaderType, MemoryType, Linked, Whites
  <2> QED
    BY <1>t, <2>1, <2>2, <2>3, MovesMonotone DEF HeapStill, Linked, TypeOK, MemoryType
<1>5. CASE MarkStep
  <2>1. HeapStill /\ phase = "Mark" /\ \A x \in Obj : Moves(x)
    BY <1>5, MarkFrames, MarkMoves
  <2>2. resurrected' = resurrected
    BY <1>5 DEF MarkStep, MarkOne, MarkOnePanics, MarkRoot, MarkRootPanics, MarkFrame,
       historyVars
  <2> QED
    BY <1>t, <2>1, <2>2, MovesMonotone DEF HeapStill, Linked, TypeOK, MemoryType
<1>6. CASE Wake
  BY <1>6 DEF Wake
<1>7. CASE StartSweep
  BY <1>7 DEF StartSweep, historyVars, Survivors, Condemned, Linked, IndInv, ValuesAreLive
<1>8. CASE SweepStep
  <2>0. phase = "Sweep" /\ sweep # NULL
    BY <1>8 DEF SweepStep, SweepWhite, SweepWhiteWeak, SweepBlack
  <2>1. sweep \in Pending /\ phase' = "Sweep" /\ resurrected' = resurrected
        /\ sweep' = next[sweep] /\ next[sweep] < sweep /\ next[sweep] \in Nat
        /\ leaked \subseteq boxes
    BY <1>8, <2>0, SweepAdvance DEF SweepStep, SweepWhite, SweepWhiteWeak, SweepBlack,
       historyVars, Obj, NULL, IndInv, ListIntact
  <2>2. \A o \in Linked \ {sweep} : o \in Linked' /\ color'[o] = color[o] /\ isLive'[o] = isLive[o]
    <3> USE DEF Linked, TypeOK, HeaderType, MemoryType
    <3>1. ASSUME NEW panics \in BOOLEAN, SweepWhite(panics), NEW o \in Linked \ {sweep}
          PROVE  o \in Linked' /\ color'[o] = color[o] /\ isLive'[o] = isLive[o]
      BY <1>t, <3>1 DEF SweepWhite, DropAndDealloc, Forget
    <3>2. ASSUME SweepWhiteWeak, NEW o \in Linked \ {sweep}
          PROVE  o \in Linked' /\ color'[o] = color[o] /\ isLive'[o] = isLive[o]
      BY <1>t, <3>2 DEF SweepWhiteWeak, Forget
    <3>3. ASSUME SweepBlack, NEW o \in Linked \ {sweep}
          PROVE  o \in Linked' /\ color'[o] = color[o] /\ isLive'[o] = isLive[o]
      BY <1>t, <3>3 DEF SweepBlack
    <3> QED
      BY <1>8, <3>1, <3>2, <3>3 DEF SweepStep
  <2>3. \A o \in Linked \ {sweep} : o \in Survivors => o \in Survivors'
    <3>1. \A o \in Linked : o <= next[sweep] => o <= sweep
      BY <2>0, <2>1, SweepAdvance, <1>t DEF TypeOK, MemoryType, ListType, Linked, Obj, NULL
    <3> QED
      BY <2>0, <2>1, <2>2, <3>1 DEF Survivors, Condemned, Pending
  <2>4. sweep \in Survivors => sweep \in Survivors'
    <3>1. ASSUME sweep \in Survivors PROVE SweepBlack
      BY <1>8, <2>1, <3>1
         DEF Survivors, Condemned, Whites, SweepStep, SweepWhite, SweepWhiteWeak
    <3>2. sweep \notin Pending'
      BY <2>1, <1>t DEF Pending, TypeOK, ListType, Obj, NULL
    <3> QED
      BY <3>1, <3>2 DEF SweepBlack, Survivors, Condemned, Linked
  <2> QED
    BY <2>0, <2>1, <2>3, <2>4 DEF Survivors
<1>9. CASE FinishCycle \/ BeginDrop \/ \E panics \in BOOLEAN : DropOne(panics)
  BY <1>9 DEF FinishCycle, BeginDrop, DropOne
<1> QED
  BY StepKinds, <1>1, <1>2, <1>3, <1>4, <1>5, <1>6, <1>7, <1>8, <1>9 DEF StepKind

(* What a finalizer resurrects is not dropped by the sweep that follows, and *)
(* neither is anything it leads to.                                         *)
THEOREM ResurrectionIsEffective == Spec => []ResurrectedSurvive
<1>1. Init => ResurrectedInv
  BY DEF Init, ResurrectedInv
<1>2. IndInv /\ ResurrectedInv => ResurrectedSurvive
  <2> SUFFICES ASSUME IndInv, ResurrectedInv, phase = "Sweep"
               PROVE  /\ \A o \in resurrected : o \in boxes /\ isLive[o]
                      /\ Reach(resurrected) \cap Condemned = {}
    BY DEF ResurrectedSurvive
  <2>1. Reach(resurrected) \subseteq Survivors
    BY SurvivorsReach DEF ResurrectedInv, Running
  <2> QED
    BY <2>1 DEF ResurrectedInv, Survivors, Linked
<1> QED
  BY <1>1, <1>2, ResurrectedStep, Invariance, PTL DEF Spec

-----------------------------------------------------------------------------
(* GcContext implements ManagedHeap: user code cannot tell the incremental   *)
(* collector from one that collects at a stroke.                             *)

(* The abstract heap in terms of the concrete one.                          *)

LEMMA UsableFacts ==
  ASSUME IndInv
  PROVE  /\ Usable \in SUBSET Obj
         /\ Running => Usable = Survivors /\ SurvivorsClosed
         /\ \A o \in Usable : strong[o] \subseteq Usable
BY DEF IndInv, TypeOK, MemoryType, Usable, Survivors, Linked, SurvivorsClosed

(* Reachability is not changed by forgetting what dead objects point at.     *)
LEMMA HeapReach ==
  ASSUME IndInv, NEW R \in SUBSET Usable
  PROVE  /\ Heap!Reach(R) = Reach(R)
         /\ Reach(R) \subseteq Usable
         /\ Heap!WeakOf(Reach(R)) = WeakOf(Reach(R))
<1>u. Usable \in SUBSET Obj /\ \A o \in Usable : strong[o] \subseteq Usable
  BY UsableFacts
<1>1. Reach(R) \subseteq Usable
  BY <1>u, ReachLeast
<1>2. ASSUME NEW o \in Reach(R) PROVE o \in Heap!Reach(R)
  <2>1. ASSUME NEW S \in SUBSET Obj, R \subseteq S,
               \A p \in S : OfUsable(strong)[p] \subseteq S
        PROVE  o \in S
    <3>1. S \cap Usable \in SUBSET Obj /\ R \subseteq S \cap Usable
      BY <2>1, <1>u
    <3>2. \A p \in S \cap Usable : strong[p] \subseteq S \cap Usable
      BY <2>1, <1>u DEF OfUsable
    <3> QED
      BY <1>2, <3>1, <3>2, ReachLeast
  <2> QED
    BY <1>2, <2>1 DEF Heap!Reach, Heap!Closed, Reach
<1>3. ASSUME NEW o \in Heap!Reach(R) PROVE o \in Reach(R)
  <2>1. ASSUME NEW S \in SUBSET Obj, R \subseteq S, Closed(S)
        PROVE  o \in S
    <3>1. \A p \in S : OfUsable(strong)[p] \subseteq S
      BY <2>1 DEF OfUsable, Closed
    <3> QED
      BY <1>3, <2>1, <3>1 DEF Heap!Reach, Heap!Closed
  <2> QED
    BY <1>3, <2>1 DEF Heap!Reach, Reach
<1>4. Heap!WeakOf(Reach(R)) = WeakOf(Reach(R))
  BY <1>1, <1>u DEF Heap!WeakOf, WeakOf, OfUsable
<1> QED
  BY <1>1, <1>2, <1>3, <1>4

-----------------------------------------------------------------------------
(* What the steps do to the abstract heap.                                  *)

HeapParts == <<1..births, Usable, Linked, OfUsable(strong), OfUsable(weak), ~Running>>

Visible == <<HeapParts, rootStrong, rootWeak, UserMode, held, heldWeak>>

LEMMA UsableFrame ==
  ASSUME HeapStill, ColorStill \/ phase # "Sweep"
  PROVE  UNCHANGED <<1..births, Usable, Linked, Running>>
BY DEF HeapStill, ColorStill, Usable, Survivors, Condemned, Pending, Linked, Running

LEMMA PartsFrame ==
  ASSUME HeapStill, ColorStill \/ phase # "Sweep", ValueStill
  PROVE  UNCHANGED HeapParts
BY UsableFrame DEF ValueStill, HeapParts, OfUsable

LEMMA EnterIsEnter ==
  ASSUME IndInv, UNCHANGED HeapParts, RootStill, NEW m \in Callbacks, EnterCallback(m)
  PROVE  Heap!Enter
<1>1. Running /\ rootStrong \in SUBSET Usable
  BY UsableFacts DEF EnterCallback, Running, SurvivorsClosed
<1>2. Heap!Reach(rootStrong) = RootReach /\ Heap!WeakOf(RootReach) = WeakOf(RootReach)
  BY <1>1, HeapReach DEF RootReach
<1> QED
  BY <1>1, <1>2 DEF EnterCallback, Heap!Enter, HeapParts, RootStill, UserMode, Callbacks,
     Heap!Callbacks, Heap!rootVars

LEMMA StrengthenFrame ==
  ASSUME IndInv, UNCHANGED HeapParts, RootStill, UNCHANGED mode, InCallback,
         NEW o \in WeakHandles, o \in Usable,
         held' = held \cup Reach({o}),
         heldWeak' = (heldWeak \cup WeakOf(Reach({o}))) \ held'
  PROVE  Heap!Strengthen(o) /\ o \in Heap!WeakHandles
<1>1. Heap!Reach({o}) = Reach({o}) /\ Heap!WeakOf(Reach({o})) = WeakOf(Reach({o}))
  BY HeapReach
<1> QED
  BY <1>1 DEF Heap!Strengthen, HeapParts, RootStill, UserMode, InCallback, Callbacks,
     Heap!Callbacks, Heap!rootVars, Heap!WeakHandles, WeakHandles

LEMMA HandleStepHeap ==
  ASSUME IndInv, HandleStep
  PROVE  [Heap!HeapNext]_(Heap!heapVars)
<1>f. UNCHANGED HeapParts /\ RootStill
  BY HandleFrame, PartsFrame
<1>1. ASSUME NEW m \in Callbacks, EnterCallback(m) PROVE Heap!HeapNext
  BY <1>f, <1>1, EnterIsEnter DEF Heap!HeapNext
<1>2. CASE EndCallback
  BY <1>f, <1>2 DEF EndCallback, Heap!HeapNext, Heap!Leave, HeapParts, RootStill, UserMode,
     InCallback, Callbacks, Heap!Callbacks, Heap!rootVars
<1>3. ASSUME NEW o \in heldWeak, Upgrade(o) PROVE Heap!HeapNext
  <2>1. Running
    BY <1>3 DEF Upgrade, InCallback, IndInv, HandlesMatchMode, Running
  <2>2. o \in Linked \ Unlinking /\ isLive[o] /\ ~(phase = "Sweep" /\ color[o] = "WhiteWeak")
    BY <1>3, <2>1, UsableFacts DEF Upgrade, Upgradable, SurvivorsClosed
  <2>3. o \in Usable
    BY <2>1, <2>2 DEF Usable, Survivors, Condemned, Unlinking, Pending, Whites
  <2> QED
    BY <1>f, <1>3, <2>3, StrengthenFrame DEF Upgrade, WeakHandles, Heap!HeapNext
<1>4. CASE UNCHANGED vars
  BY <1>f, <1>4 DEF vars, handleVars, HeapParts, RootStill, Heap!heapVars, Heap!rootVars,
     Heap!userVars, UserMode
<1> QED
  BY <1>1, <1>2, <1>3, <1>4 DEF HandleStep, BeginMutate, BeginMutateRoot, BeginFinalize,
     Callbacks

LEMMA AllocHeap ==
  ASSUME IndInv, AllocStep
  PROVE  Heap!HeapNext
<1> PICK S \in SUBSET held, W \in SUBSET WeakHandles, nt \in BOOLEAN : Alloc(S, W, nt)
  BY DEF AllocStep
<1> DEFINE o == births + 1
<1>1. /\ Running /\ Running' /\ births' = o /\ births \in Nat
      /\ held' = held \cup {o} /\ InCallback
      /\ UNCHANGED <<rootStrong, rootWeak, mode, heldWeak>>
  BY DEF Alloc, InCallback, IndInv, HandlesMatchMode, Running, rootVars, TypeOK, MemoryType
<1>2. /\ o \in Obj /\ o \notin Linked /\ Linked' = Linked \cup {o}
      /\ Usable' = Usable \cup {o} /\ o \notin Usable
      /\ \A p \in Usable : strong'[p] = strong[p] /\ weak'[p] = weak[p]
      /\ strong'[o] = S /\ weak'[o] = W
  BY <1>1, AllocSurvivors DEF Usable, Survivors
<1>3. (1..births)' = (1..births) \cup {o} /\ o \notin 1..births
  BY <1>1
<1>4. /\ OfUsable(strong)' = [OfUsable(strong) EXCEPT ![o] = S]
      /\ OfUsable(weak)' = [OfUsable(weak) EXCEPT ![o] = W]
  BY <1>2 DEF OfUsable
<1>5. Heap!New(o)
  BY <1>1, <1>2, <1>3, <1>4 DEF Heap!New, InCallback, UserMode, Callbacks, Heap!Callbacks,
     Heap!rootVars, WeakHandles, Heap!WeakHandles
<1> QED
  BY <1>2, <1>5 DEF Heap!HeapNext

(* Barriers, resurrection and the marking steps change colours that user      *)
(* code does not see.                                                       *)
LEMMA ColoursHidden ==
  ASSUME IndInv, BarrierStep \/ MarkStep \/ Wake
  PROVE  UNCHANGED Heap!heapVars
<1>1. CASE BarrierStep
  <2>1. HeapStill /\ ValueStill /\ (ColorStill \/ phase # "Sweep")
    BY <1>1, BarrierMoves, BarrierStepFrame
  <2> QED
    BY <1>1, <2>1, PartsFrame, BarrierStepFrame DEF HeapParts, RootStill, UserMode,
       Heap!heapVars, Heap!rootVars, Heap!userVars
<1>2. CASE MarkStep
  BY <1>2, MarkFrames, PartsFrame DEF HeapParts, RootStill, UserMode,
     Heap!heapVars, Heap!rootVars, Heap!userVars
<1>3. CASE Wake
  <2>1. Usable' = Usable /\ Linked' = Linked /\ Running /\ Running'
        /\ UNCHANGED <<births, strong, weak, rootStrong, rootWeak, mode, held, heldWeak>>
    BY <1>3 DEF Wake, CollectorTurn, Usable, Survivors, Condemned, Pending, Linked,
       Running, valueVars, rootVars, handleVars
  <2> QED
    BY <2>1 DEF OfUsable, UserMode, Heap!heapVars, Heap!rootVars, Heap!userVars
<1> QED
  BY <1>1, <1>2, <1>3

LEMMA ResurrectHeap ==
  ASSUME IndInv, ResurrectStep
  PROVE  Heap!HeapNext
<1> PICK o \in WeakHandles : Resurrect(o)
  BY DEF ResurrectStep
<1>1. phase = "Mark" /\ Running /\ InCallback
  BY ResurrectMoves DEF Running, Resurrect, InCallback, Callbacks
<1>2. UNCHANGED HeapParts /\ RootStill /\ UNCHANGED mode
  BY <1>1, ResurrectFrame, PartsFrame
<1>3. o \in Usable
  BY <1>1, HandlesAlive DEF Resurrect, WeakHandles, Usable, Survivors, Condemned, Pending
<1> QED
  BY <1>1, <1>2, <1>3, StrengthenFrame DEF Resurrect, Heap!HeapNext

LEMMA ValueHeap ==
  ASSUME IndInv, ValueStep
  PROVE  Heap!HeapNext
<1>1. HeapStill /\ ColorStill /\ RootStill /\ UNCHANGED <<mode, held, heldWeak>>
  BY ValueStepFrame
<1>2. UNCHANGED <<1..births, Usable, Linked, Running>>
  BY <1>1, UsableFrame
<1>3. InCallback /\ Running /\ held \subseteq Usable /\ held \subseteq Obj
  BY UsableFacts DEF ValueStep, Adopt, AdoptWeak, Take, InCallback, IndInv, HandlesMatchMode,
     Running, SurvivorsClosed
<1>w. ASSUME NEW p \in held, NEW S \in SUBSET (strong[p] \cup held),
             NEW W \in SUBSET (weak[p] \cup WeakHandles),
             strong' = [strong EXCEPT ![p] = S], weak' = [weak EXCEPT ![p] = W]
      PROVE  Heap!HeapNext
  <2>1. p \in Usable /\ p \in Obj /\ OfUsable(strong)[p] = strong[p]
        /\ OfUsable(weak)[p] = weak[p]
    BY <1>3 DEF OfUsable
  <2>2. /\ OfUsable(strong)' = [OfUsable(strong) EXCEPT ![p] = S]
        /\ OfUsable(weak)' = [OfUsable(weak) EXCEPT ![p] = W]
    BY <1>w, <1>2, <2>1 DEF OfUsable, IndInv, TypeOK, ValueType
  <2>3. Heap!Write(p)
    BY <1>1, <1>2, <1>3, <2>1, <2>2 DEF Heap!Write, InCallback, UserMode, Callbacks,
       Heap!Callbacks, RootStill, Heap!rootVars, Heap!userVars, WeakHandles,
       Heap!WeakHandles
  <2> QED
    BY <2>3 DEF Heap!HeapNext
<1> USE DEF IndInv, TypeOK, ValueType
<1>4. ASSUME NEW p \in held, NEW c \in held, Adopt(p, c) PROVE Heap!HeapNext
  <2>1. strong' = [strong EXCEPT ![p] = strong[p] \cup {c}]
        /\ weak' = [weak EXCEPT ![p] = weak[p]]
    BY <1>3, <1>4 DEF Adopt
  <2> QED
    BY <1>w, <2>1
<1>5. ASSUME NEW p \in held, NEW c \in WeakHandles, AdoptWeak(p, c) PROVE Heap!HeapNext
  <2>1. strong' = [strong EXCEPT ![p] = strong[p]]
        /\ weak' = [weak EXCEPT ![p] = weak[p] \cup {c}]
    BY <1>3, <1>5 DEF AdoptWeak
  <2> QED
    BY <1>w, <2>1
<1>6. ASSUME NEW p \in held, Take(p) PROVE Heap!HeapNext
  BY <1>w, <1>6 DEF Take
<1> QED
  BY <1>4, <1>5, <1>6 DEF ValueStep

LEMMA RootHeap ==
  ASSUME IndInv, RootStep
  PROVE  Heap!HeapNext
<1>1. UNCHANGED HeapParts /\ UNCHANGED <<mode, held, heldWeak>>
  BY RootStepFrame, PartsFrame
<1>2. mode = "mutate_root" /\ rootStrong' \subseteq held /\ rootWeak' \subseteq WeakHandles
  BY DEF RootStep, SetRoot
<1>3. Heap!WriteRoot
  BY <1>1, <1>2 DEF Heap!WriteRoot, HeapParts, UserMode, Heap!userVars, WeakHandles,
     Heap!WeakHandles
<1> QED
  BY <1>3 DEF Heap!HeapNext

(* The whole collection happens, as far as user code can tell, when the      *)
(* sweep begins.                                                            *)
LEMMA StartSweepHeap ==
  ASSUME IndInv, IndInv', StartSweep
  PROVE  Heap!CollectGarbage
<1>1. /\ phase = "Mark" /\ Running /\ Running' /\ mode = "idle" /\ isLive' = isLive
      /\ Linked' = Linked
      /\ UNCHANGED <<births, strong, weak, rootStrong, rootWeak, mode, held, heldWeak>>
  BY DEF StartSweep, CollectorTurn, Running, Linked, valueVars, rootVars, handleVars
<1>2. Usable' \subseteq Usable
  BY <1>1 DEF Usable, Survivors, Condemned, Pending
<1>3. /\ Usable' \in SUBSET Obj /\ rootStrong \in SUBSET Usable'
      /\ \A o \in Usable' : strong[o] \subseteq Usable'
  BY <1>1, <1>2, UsableFacts DEF IndInv, Usable, SurvivorsClosed
<1>4. Heap!Reach(rootStrong) \subseteq Usable'
  BY <1>2, <1>3, HeapReach, ReachLeast
<1>5. Heap!Closed(Usable')
  BY <1>2, <1>3 DEF Heap!Closed, OfUsable
<1>6. Heap!Bury(Usable \ Usable')
  BY <1>1, <1>2 DEF Heap!Bury, OfUsable
<1> QED
  BY <1>1, <1>2, <1>4, <1>5, <1>6 DEF Heap!CollectGarbage, UserMode, Heap!rootVars,
     Heap!userVars

(* Afterwards the sweep only gives memory back.                              *)
LEMMA SweepHeap ==
  ASSUME IndInv, SweepStep
  PROVE  [Heap!HeapNext]_(Heap!heapVars)
<1>1. /\ phase = "Sweep" /\ Running /\ Running' /\ mode = "idle"
      /\ UNCHANGED <<births, rootStrong, rootWeak, mode, held, heldWeak>>
  BY DEF SweepStep, SweepWhite, SweepWhiteWeak, SweepBlack, CollectorTurn, Running, rootVars,
     handleVars
<1>2. /\ Usable' = Usable /\ Usable = Survivors
      /\ \A p \in Usable : strong'[p] = strong[p] /\ weak'[p] = weak[p]
  BY <1>1, SweepSurvivors DEF Usable
<1>3. /\ UNCHANGED OfUsable(strong) /\ UNCHANGED OfUsable(weak)
  BY <1>2 DEF OfUsable
<1>4. CASE Linked' = Linked
  BY <1>1, <1>2, <1>3, <1>4 DEF Heap!heapVars, Heap!rootVars, Heap!userVars, UserMode
<1>5. CASE Linked' # Linked
  <2>1. Linked' = Linked \ {sweep} /\ sweep \in Linked \ Usable /\ sweep \in Unlinking
    BY <1>2, <1>5, SweepSurvivors
  <2>2. sweep \in Obj
    BY <2>1 DEF IndInv, TypeOK, MemoryType, Linked
  <2>3. sweep \notin rootWeak \cup Heap!WeakOf(Usable)
    <3>1. \A p \in Usable : OfUsable(weak)[p] = weak[p] /\ sweep \notin weak[p]
      BY <1>1, <1>2, <2>1, UsableFacts DEF SurvivorsClosed, OfUsable
    <3>2. sweep \notin rootWeak
      BY <1>1, <2>1, UsableFacts DEF SurvivorsClosed
    <3> QED
      BY <3>1, <3>2 DEF Heap!WeakOf
  <2>4. Heap!Reclaim(sweep)
    BY <1>1, <1>2, <1>3, <2>1, <2>3 DEF Heap!Reclaim, Heap!rootVars, Heap!userVars, UserMode
  <2> QED
    BY <2>2, <2>4 DEF Heap!HeapNext
<1> QED
  BY <1>4, <1>5

LEMMA FinishHeap ==
  ASSUME IndInv, FinishCycle
  PROVE  UNCHANGED Heap!heapVars
<1>1. Running /\ Running' /\ Linked' = Linked
      /\ UNCHANGED <<births, strong, weak, rootStrong, rootWeak, mode, held, heldWeak>>
  BY DEF FinishCycle, CollectorTurn, Running, Linked, valueVars, rootVars, handleVars
<1>2. Usable' = Usable
  BY <1>1, FinishSurvivors DEF Usable
<1> QED
  BY <1>1, <1>2 DEF OfUsable, UserMode, Heap!heapVars, Heap!rootVars, Heap!userVars

LEMMA BeginDropHeap ==
  ASSUME IndInv, BeginDrop
  PROVE  Heap!HeapNext
<1>1. Running /\ ~Running' /\ Usable' = {} /\ Linked' = Linked /\ births' = births
  BY DEF BeginDrop, Running, Usable, Linked, memoryVars
<1>2. UserMode \in {"idle", "mutate_root"} /\ UserMode' = "idle"
  BY DEF BeginDrop, UserMode
<1>3. Heap!Bury(Usable)
  BY <1>1 DEF Heap!Bury, OfUsable
<1>4. Heap!DropArena
  BY <1>1, <1>2, <1>3 DEF Heap!DropArena, BeginDrop
<1> QED
  BY <1>4 DEF Heap!HeapNext

LEMMA DropOneHeap ==
  ASSUME IndInv, NEW panics \in BOOLEAN, DropOne(panics)
  PROVE  Heap!HeapNext
<1>1. /\ ~Running /\ ~Running' /\ Usable = {} /\ Usable' = {} /\ births' = births
      /\ rootStrong = {} /\ rootWeak = {}
      /\ UNCHANGED <<rootStrong, rootWeak, held, heldWeak>>
  BY DEF DropOne, Running, Usable, rootVars, IndInv, HandlesMatchMode
<1>2. UserMode = "idle" /\ UserMode' = "idle"
  BY DEF DropOne, UserMode, IndInv, HandlesMatchMode, InCallback, Callbacks, TypeOK,
     HandleType, Modes
<1>3. dropAll \in Linked /\ dropAll \in Obj
  BY DEF DropOne, Running, IndInv, ListIntact, Below, TypeOK, ListType, NULL, Obj
<1>4. Linked' = Linked \ {dropAll}
  BY <1>3 DEF DropOne, DropAndDealloc, Linked, IndInv, ListIntact
<1>5. /\ UNCHANGED OfUsable(strong) /\ UNCHANGED OfUsable(weak)
  BY <1>1 DEF OfUsable
<1>6. Heap!Reclaim(dropAll)
  BY <1>1, <1>2, <1>3, <1>4, <1>5 DEF Heap!Reclaim, Heap!rootVars, Heap!userVars, Heap!WeakOf
<1> QED
  BY <1>3, <1>6 DEF Heap!HeapNext

-----------------------------------------------------------------------------
LEMMA HeapStarts == Init => Heap!HeapInit
<1> SUFFICES ASSUME Init PROVE Heap!HeapInit
  OBVIOUS
<1>1. 1..births = {} /\ Linked = {} /\ Usable = {} /\ Running
  BY DEF Init, Linked, Usable, Survivors, Running
<1> QED
  BY <1>1 DEF Init, Heap!HeapInit, OfUsable, UserMode

LEMMA HeapStep ==
  IndInv /\ IndInv' /\ [Next]_vars => [Heap!HeapNext]_(Heap!heapVars)
<1> SUFFICES ASSUME IndInv, IndInv', [Next]_vars
             PROVE  [Heap!HeapNext]_(Heap!heapVars)
  OBVIOUS
<1>1. CASE StartSweep
  BY <1>1, StartSweepHeap DEF Heap!HeapNext
<1> QED
  BY <1>1, StepKinds, HandleStepHeap, AllocHeap, ColoursHidden, ResurrectHeap, ValueHeap,
     RootHeap, SweepHeap, FinishHeap, BeginDropHeap, DropOneHeap DEF StepKind

(* The collector, its barriers and its incremental steps implement a heap    *)
(* whose garbage goes away at one stroke: upgrade succeeds for exactly the   *)
(* objects alive in that heap, and whatever a pointer leads to is alive.     *)
THEOREM CollectsAtOneStroke == Spec => ImplementsHeap
BY HeapStarts, HeapStep, Invariance, PTL DEF Spec, ImplementsHeap, Heap!HeapSpec
=============================================================================
