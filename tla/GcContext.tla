------------------------------ MODULE GcContext ------------------------------
(***************************************************************************)
(* The garbage collector of one arena: src/context.rs (Context, its write   *)
(* barriers, the incremental mark and sweep steps and its Drop), the        *)
(* callbacks of src/arena.rs that hand the heap to user code, and the       *)
(* operations of src/gc.rs, src/gc_weak.rs and src/lock.rs by which user    *)
(* code changes the object graph.                                           *)
(*                                                                         *)
(* An object is named by the order of its allocation and a name is never    *)
(* reused, so a dangling pointer stays visible as one.  A value (an object  *)
(* or the root) is abstracted to the Gc and the GcWeak pointers it holds.   *)
(* Between two callbacks the collector may take any number of its steps,    *)
(* none included: when it runs and when it stops is decided by              *)
(* Context::do_collection, which the module Collection models.              *)
(***************************************************************************)
EXTENDS Integers, FiniteSets

CONSTANTS
    MaxAllocs,  \* bound: allocations in the life of the arena
    MaxFields,  \* bound: pointers held by one object
    MaxRoot,    \* bound: pointers held by the root
    MaxWeak,    \* bound: weak pointers among those of one value
    MaxBarriers, \* bound: write barriers between two runs of the collector
    MayPanic    \* may Collect::trace and the destructors of user values panic?

ASSUME MaxAllocsAssumption == MaxAllocs \in Nat
ASSUME MaxFieldsAssumption == MaxFields \in Nat
ASSUME MaxRootAssumption   == MaxRoot \in Nat
ASSUME MaxWeakAssumption   == MaxWeak \in Nat
ASSUME MaxBarriersAssumption == MaxBarriers \in Nat
ASSUME MayPanicAssumption  == MayPanic \in BOOLEAN

Obj  == 1..MaxAllocs
NULL == 0                       \* the None of Option<GcBox>

Phases == {"Sleep", "Mark", "Sweep", "Drop"}
Colors == {"White", "WhiteWeak", "Gray", "Black"}
Callbacks == {"mutate", "mutate_root", "finalize"}
Modes  == Callbacks \cup {"idle", "unwinding"}

VARIABLES
    \* struct Context
    phase, rootNeedsTrace,
    all, sweep, sweepPrev,      \* heads into the list of boxes
    gray, grayAgain,            \* how often each box is in the two queues
    dropAll,                    \* the cursor of DropAll, while the arena is dropped
    \* GcBoxHeader, for each box
    next, color, isLive, needsTrace,
    \* the values: the pointers each object and the root hold
    strong, weak, rootStrong, rootWeak,
    \* the allocator, and what happened to each object
    births,                     \* objects allocated so far are 1..births
    boxes,                      \* boxes allocated and not yet deallocated
    leaked,                     \* boxes lost because a destructor panicked
    drops,                      \* how often the destructor of an object ran
    \* the callback in progress
    mode,
    held, heldWeak,             \* Gc and further GcWeak pointers user code holds
    barriers,                   \* write barriers since the collector last ran
    mayAdopt, mayAdoptWeak,     \* <<parent, child>> pairs they covered
    \* history, read by properties only
    doomed,                     \* unreachable when the cycle began, and not
                                \* brought back by upgrade or resurrect since
    resurrected                 \* resurrected in this cycle

listVars    == <<all, sweep, sweepPrev, next>>
queueVars   == <<gray, grayAgain>>
headerVars  == <<isLive, needsTrace>>
valueVars   == <<strong, weak>>
rootVars    == <<rootStrong, rootWeak>>
memoryVars  == <<births, boxes, leaked, drops>>
barrierVars == <<barriers, mayAdopt, mayAdoptWeak>>
handleVars  == <<mode, held, heldWeak>>
historyVars == <<doomed, resurrected>>

vars == <<phase, rootNeedsTrace, dropAll, color, listVars, queueVars,
          headerVars, valueVars, rootVars, memoryVars, barrierVars,
          handleVars, historyVars>>

-----------------------------------------------------------------------------
(* Reachability, on which the collector's promises rest.                    *)

Closed(S) == \A o \in S : strong[o] \subseteq S

Reach(R) == {o \in Obj : \A S \in SUBSET Obj :
                             (R \subseteq S /\ Closed(S)) => o \in S}

WeakOf(S) == UNION {weak[o] : o \in S}

RootReach == Reach(rootStrong)

(* What the code of a callback may hold a pointer to at this moment.        *)
InHand     == Reach(rootStrong \cup held)
WeakInHand == rootWeak \cup heldWeak \cup WeakOf(InHand)

(* Gc::downgrade makes a weak pointer of any strong one.                    *)
WeakHandles == held \cup heldWeak

Linked == boxes \ leaked

InCallback == mode \in Callbacks

NoQueue == [o \in Obj |-> 0]
(* Mutant: a root that needs tracing is forgotten. *)
QueuesRemaining == gray # NoQueue \/ grayAgain # NoQueue

(* Context::gray_remaining; while it is false the arena is CollectionPhase  *)
(* Marked.                                                                  *)
GrayRemaining == gray # NoQueue \/ grayAgain # NoQueue \/ rootNeedsTrace

-----------------------------------------------------------------------------
(* Arena::new starts with a callback that builds the root; the collector is *)
(* asleep and the heap is empty.                                            *)
Init ==
    /\ phase = "Sleep" /\ rootNeedsTrace = TRUE
    /\ all = NULL /\ sweep = NULL /\ sweepPrev = NULL /\ dropAll = NULL
    /\ gray = NoQueue /\ grayAgain = NoQueue
    /\ next = [o \in Obj |-> NULL]
    /\ color = [o \in Obj |-> "White"]
    /\ isLive = [o \in Obj |-> FALSE]
    /\ needsTrace = [o \in Obj |-> FALSE]
    /\ strong = [o \in Obj |-> {}] /\ weak = [o \in Obj |-> {}]
    /\ rootStrong = {} /\ rootWeak = {}
    /\ births = 0 /\ boxes = {} /\ leaked = {} /\ drops = NoQueue
    /\ mode = "mutate_root" /\ held = {} /\ heldWeak = {}
    /\ doomed = {} /\ resurrected = {}
    /\ barriers = 0 /\ mayAdopt = {} /\ mayAdoptWeak = {}

-----------------------------------------------------------------------------
(* The callbacks of Arena.  A callback can reach everything the root        *)
(* reaches, keeps every pointer it has read until it returns, and loses     *)
(* them all when it returns.                                                *)

EnterCallback(m) ==
    /\ mode = "idle" /\ phase # "Drop"
    /\ mode' = m
    /\ held' = RootReach
    /\ heldWeak' = (rootWeak \cup WeakOf(RootReach)) \ RootReach

BeginMutate ==
    /\ EnterCallback("mutate")
    /\ UNCHANGED <<phase, rootNeedsTrace, dropAll, color, listVars, queueVars,
                   headerVars, valueVars, rootVars, memoryVars, barrierVars,
                   historyVars>>

(* Mutant: mutate_root without a root barrier. *)
NoRootBarrier == UNCHANGED rootNeedsTrace

(* Context::root_barrier.                                                   *)
RootBarrier == rootNeedsTrace' = (phase = "Mark" \/ rootNeedsTrace)

(* mutate_root and map_root.                                                *)
BeginMutateRoot ==
    /\ EnterCallback("mutate_root")
    /\ RootBarrier
    /\ UNCHANGED <<phase, dropAll, color, listVars, queueVars,
                   headerVars, valueVars, rootVars, memoryVars, barrierVars,
                   historyVars>>

(* MarkedArena::finalize: mark_debt and finish_marking hand out a           *)
(* MarkedArena only when marking is complete.                               *)
BeginFinalize ==
    /\ phase = "Mark" /\ ~GrayRemaining
    /\ EnterCallback("finalize")
    /\ UNCHANGED <<phase, rootNeedsTrace, dropAll, color, listVars, queueVars,
                   headerVars, valueVars, rootVars, memoryVars, barrierVars,
                   historyVars>>

EndCallback ==
    /\ InCallback
    /\ mode' = "idle" /\ held' = {} /\ heldWeak' = {}
    /\ UNCHANGED <<phase, rootNeedsTrace, dropAll, color, listVars, queueVars,
                   headerVars, valueVars, rootVars, memoryVars, barrierVars,
                   historyVars>>

-----------------------------------------------------------------------------
(* What user code does inside a callback.                                   *)

(* Mutant: allocate does not look after sweep_prev. *)
SweepPrevForgotten(o) == sweepPrev

(* An object allocated first during the sweep, with no box kept so far, is  *)
(* the one whose next pointer sweep_one has to patch.                       *)
SweepPrevWith(o) ==
    IF phase = "Sweep" /\ sweepPrev = NULL THEN o ELSE sweepPrev

(* Context::allocate, with the pointers the new value is built from.  Only  *)
(* a type whose NEEDS_TRACE is true can hold any.                           *)
Alloc(S, W, nt) ==
    LET o == births + 1 IN
    /\ InCallback /\ births < MaxAllocs
    /\ S \subseteq held /\ W \subseteq WeakHandles
    /\ Cardinality(S) + Cardinality(W) <= MaxFields
    /\ Cardinality(W) <= MaxWeak
    /\ S \cup W # {} => nt
    /\ births' = o /\ boxes' = boxes \cup {o}
    /\ next' = [next EXCEPT ![o] = all]
    /\ isLive' = [isLive EXCEPT ![o] = TRUE]
    /\ needsTrace' = [needsTrace EXCEPT ![o] = nt]
    /\ strong' = [strong EXCEPT ![o] = S]
    /\ weak' = [weak EXCEPT ![o] = W]
    /\ all' = o
    /\ sweepPrev' = SweepPrevWith(o)
    /\ held' = held \cup {o}
    /\ UNCHANGED <<phase, rootNeedsTrace, dropAll, color, sweep, queueVars,
                   rootVars, leaked, drops, barrierVars, historyVars,
                   mode, heldWeak>>

(* Context::make_gray_again.                                                *)
MakeGrayAgain(p) ==
    /\ color' = [color EXCEPT ![p] = "Gray"]
    /\ grayAgain' = [grayAgain EXCEPT ![p] = @ + 1]

(* Context::trace on each object of S and Context::trace_weak on each of W, *)
(* in any order: what is found unmarked turns gray and is queued, or turns  *)
(* black at once if it holds no pointers.                                   *)
Whites == {"White", "WhiteWeak"}

(* Mutant: trace_weak leaves a white box white. *)
TraceColorIgnoresWeak(base, S, W) ==
    [o \in Obj |->
        IF o \in S /\ base[o] \in Whites
        THEN IF needsTrace[o] THEN "Gray" ELSE "Black"
        ELSE base[o]]

(* Mutant: trace blackens what it queues, as the queue will see to the rest. *)
TraceColorBlackens(base, S, W) ==
    [o \in Obj |->
        IF o \in S /\ base[o] \in Whites THEN "Black"
        ELSE IF o \in W /\ base[o] = "White" THEN "WhiteWeak" ELSE base[o]]

(* Mutant: trace_weak marks like trace. *)
TraceColorWeakIsStrong(base, S, W) ==
    [o \in Obj |->
        IF o \in S \cup W /\ base[o] \in Whites THEN "Black" ELSE base[o]]

TraceColor(base, S, W) ==
    [o \in Obj |->
        IF o \in S /\ base[o] \in Whites
        THEN IF needsTrace[o] THEN "Gray" ELSE "Black"
        ELSE IF o \in W /\ base[o] = "White" THEN "WhiteWeak" ELSE base[o]]

(* Mutant: trace queues a box that is gray already. *)
TraceQueueAgain(queue, base, S) ==
    [o \in Obj |-> IF o \in S /\ base[o] # "Black" /\ needsTrace[o]
                   THEN queue[o] + 1 ELSE queue[o]]

TraceQueue(queue, base, S) ==
    [o \in Obj |-> IF o \in S /\ base[o] \in Whites /\ needsTrace[o]
                   THEN queue[o] + 1 ELSE queue[o]]

Without(queue, o) == [queue EXCEPT ![o] = @ - 1]

BarrierFrame ==
    /\ InCallback
    /\ phase = "Mark" => barriers < MaxBarriers
    /\ barriers' = IF phase = "Mark" THEN barriers + 1 ELSE barriers
    /\ UNCHANGED <<phase, rootNeedsTrace, dropAll, listVars, headerVars,
                   valueVars, rootVars, memoryVars, handleVars, historyVars>>

(* The adoptions a barrier covers; a parent or a child that is None stands  *)
(* for every object.  Outside of marking no barrier is needed: there the    *)
(* model lets user code adopt freely, which is more than the types allow.   *)
Named(o) == IF o = NULL THEN Obj ELSE {o}
Covered(p, c) == IF phase = "Mark" THEN Named(p) \X Named(c) ELSE {}

(* Mutant: a barrier without a parent does nothing. *)
BarrierNeededByParent(p) == phase = "Mark" /\ p # NULL /\ color[p] = "Black"

(* A write barrier acts only while marking, for a black or unnamed parent.  *)
BarrierNeeded(p) == phase = "Mark" /\ (p # NULL => color[p] = "Black")

(* Mutant: the backward barrier looks out for plain white children only. *)
PlainWhite(c) == c # NULL => color[c] = "White"

MaybeWhite(c) == c # NULL => color[c] \in Whites

(* Context::backward_barrier.  Without a child it is the barrier of         *)
(* Gc::write, Gc::unlock, Lock::set and RefLock::borrow_mut, after which    *)
(* the parent may adopt anything, weak pointers included.                   *)
BackwardBarrier(p, c) ==
    /\ p \in held /\ c \in held \cup {NULL}
    /\ IF BarrierNeeded(p) /\ MaybeWhite(c)
       THEN MakeGrayAgain(p)
       ELSE UNCHANGED <<color, grayAgain>>
    /\ mayAdopt' = mayAdopt \cup Covered(p, c)
    /\ mayAdoptWeak' = IF c = NULL THEN mayAdoptWeak \cup Covered(p, NULL)
                                   ELSE mayAdoptWeak
    /\ UNCHANGED gray
    /\ BarrierFrame

BackwardBarrierWeak(p, c) ==
    /\ p \in held /\ c \in WeakHandles
    /\ IF BarrierNeeded(p) /\ color[c] = "White"
       THEN MakeGrayAgain(p)
       ELSE UNCHANGED <<color, grayAgain>>
    /\ mayAdoptWeak' = mayAdoptWeak \cup Covered(p, c)
    /\ UNCHANGED <<gray, mayAdopt>>
    /\ BarrierFrame

ForwardBarrier(p, c) ==
    /\ p \in held \cup {NULL} /\ c \in held
    /\ IF BarrierNeeded(p)
       THEN /\ color' = TraceColor(color, {c}, {})
            /\ gray' = TraceQueue(gray, color, {c})
       ELSE UNCHANGED <<color, gray>>
    /\ mayAdopt' = mayAdopt \cup Covered(p, c)
    /\ UNCHANGED <<grayAgain, mayAdoptWeak>>
    /\ BarrierFrame

ForwardBarrierWeak(p, c) ==
    /\ p \in held \cup {NULL} /\ c \in WeakHandles
    /\ IF BarrierNeeded(p)
       THEN color' = TraceColor(color, {}, {c})
       ELSE UNCHANGED color
    /\ mayAdoptWeak' = mayAdoptWeak \cup Covered(p, c)
    /\ UNCHANGED <<gray, grayAgain, mayAdopt>>
    /\ BarrierFrame

Fields(o) == Cardinality(strong[o]) + Cardinality(weak[o])

ValueFrame ==
    UNCHANGED <<phase, rootNeedsTrace, dropAll, color, listVars, queueVars,
                headerVars, rootVars, memoryVars, barrierVars, handleVars,
                historyVars>>

(* A write through Write or an unlocked cell: the parent stores a pointer   *)
(* that a barrier has covered.                                              *)
Adopt(p, c) ==
    /\ InCallback /\ p \in held /\ c \in held
    /\ needsTrace[p] /\ Fields(p) < MaxFields
    /\ phase = "Mark" => <<p, c>> \in mayAdopt
    /\ c \notin strong[p]
    /\ strong' = [strong EXCEPT ![p] = @ \cup {c}]
    /\ UNCHANGED weak
    /\ ValueFrame

AdoptWeak(p, c) ==
    /\ InCallback /\ p \in held /\ c \in WeakHandles
    /\ needsTrace[p] /\ Fields(p) < MaxFields
    /\ Cardinality(weak[p]) < MaxWeak
    /\ phase = "Mark" => <<p, c>> \in mayAdoptWeak
    /\ c \notin weak[p]
    /\ weak' = [weak EXCEPT ![p] = @ \cup {c}]
    /\ UNCHANGED strong
    /\ ValueFrame

(* Lock::take and RefLock::take empty a value without any barrier; the      *)
(* pointers taken out stay in hand.                                         *)
Take(p) ==
    /\ InCallback /\ p \in held
    /\ strong[p] \cup weak[p] # {}
    /\ strong' = [strong EXCEPT ![p] = {}]
    /\ weak' = [weak EXCEPT ![p] = {}]
    /\ ValueFrame

(* Assignment through the &mut Root of mutate_root, or the root that        *)
(* map_root and Arena::new return.                                          *)
SetRoot(S, W) ==
    /\ mode = "mutate_root"
    /\ S \subseteq held /\ W \subseteq WeakHandles
    /\ Cardinality(S) + Cardinality(W) <= MaxRoot
    /\ Cardinality(W) <= MaxWeak
    /\ rootStrong' = S /\ rootWeak' = W
    /\ UNCHANGED <<phase, rootNeedsTrace, dropAll, color, listVars, queueVars,
                   headerVars, valueVars, memoryVars, barrierVars, handleVars,
                   historyVars>>

(* Mutant: upgrade forgets that the sweep may be about to drop the object. *)
UpgradableIfLive(o) == isLive[o]

(* Mutant: upgrade refuses every white object of the sweep. *)
UpgradableIfMarked(o) == isLive[o] /\ ~(phase = "Sweep" /\ color[o] \in Whites)

(* Context::upgrade, the answer of GcWeak::upgrade.                         *)
Upgradable(o) == isLive[o] /\ ~(phase = "Sweep" /\ color[o] = "WhiteWeak")

Upgrade(o) ==
    /\ InCallback /\ o \in heldWeak
    /\ Upgradable(o)
    /\ held' = held \cup Reach({o})
    /\ heldWeak' = (heldWeak \cup WeakOf(Reach({o}))) \ held'
    /\ doomed' = doomed \ Reach({o})
    /\ UNCHANGED <<phase, rootNeedsTrace, dropAll, color, listVars, queueVars,
                   headerVars, valueVars, rootVars, memoryVars, barrierVars,
                   mode, resurrected>>

(* Mutant: resurrect blackens the object without queueing it. *)
Blacken(o) ==
    /\ color' = [color EXCEPT ![o] = "Black"]
    /\ UNCHANGED gray

Enqueue(o) ==
    /\ color' = [color EXCEPT ![o] = "Gray"]
    /\ gray' = [gray EXCEPT ![o] = @ + 1]

(* Context::resurrect, by Gc::resurrect or by GcWeak::resurrect, which      *)
(* answers with the strong pointer.                                         *)
Resurrect(o) ==
    /\ mode = "finalize" /\ o \in WeakHandles /\ isLive[o]
    /\ IF color[o] \in Whites
       THEN Enqueue(o)
       ELSE UNCHANGED <<color, gray>>
    /\ held' = held \cup Reach({o})
    /\ heldWeak' = (heldWeak \cup WeakOf(Reach({o}))) \ held'
    /\ doomed' = doomed \ Reach({o})
    /\ resurrected' = resurrected \cup {o}
    /\ UNCHANGED <<phase, rootNeedsTrace, dropAll, listVars, grayAgain,
                   headerVars, valueVars, rootVars, memoryVars, barrierVars,
                   mode>>

-----------------------------------------------------------------------------
(* The steps of Context::do_collection.  A write barrier covers adoptions   *)
(* until collection next runs.                                              *)

CollectorTurn ==
    /\ mode = "idle"
    /\ barriers' = 0 /\ mayAdopt' = {} /\ mayAdoptWeak' = {}
    /\ UNCHANGED <<rootVars, handleVars, births, dropAll, needsTrace>>

Wake ==
    /\ phase = "Sleep" /\ CollectorTurn
    /\ phase' = "Mark"
    /\ doomed' = {o \in Linked : isLive[o]} \ RootReach
    /\ resurrected' = {}
    /\ UNCHANGED <<rootNeedsTrace, color, listVars, queueVars, isLive,
                   valueVars, boxes, leaked, drops>>

MarkFrame ==
    UNCHANGED <<phase, listVars, isLive, valueVars, boxes, leaked, drops,
                historyVars>>

(* The queue mark_one pops o from: gray_again only when gray is empty.      *)
PopGray(o)      == gray[o] > 0
PopGrayAgain(o) == gray = NoQueue /\ grayAgain[o] > 0

(* Mutant: mark_one always pops from gray_again. *)
PoppedAgain(o) == [gray |-> gray, again |-> Without(grayAgain, o)]

Popped(o) ==
    IF PopGray(o) THEN [gray |-> Without(gray, o), again |-> grayAgain]
                  ELSE [gray |-> gray, again |-> Without(grayAgain, o)]

(* mark_one: a gray object turns black and its pointers are traced.         *)
MarkOne(o) ==
    LET black == [color EXCEPT ![o] = "Black"] IN
    /\ phase = "Mark" /\ CollectorTurn
    /\ PopGray(o) \/ PopGrayAgain(o)
    /\ color' = TraceColor(black, strong[o], weak[o])
    /\ gray' = TraceQueue(Popped(o).gray, black, strong[o])
    /\ grayAgain' = Popped(o).again
    /\ UNCHANGED rootNeedsTrace
    /\ MarkFrame

(* Mutant: without its DropGuard mark_one loses the object when trace panics. *)
MarkOneLoses(o, S, W) ==
    LET black == [color EXCEPT ![o] = "Black"] IN
    /\ MayPanic
    /\ phase = "Mark" /\ CollectorTurn
    /\ PopGray(o) \/ PopGrayAgain(o)
    /\ S \subseteq strong[o] /\ W \subseteq weak[o]
    /\ color' = TraceColor(black, S, W)
    /\ gray' = TraceQueue(Popped(o).gray, black, S)
    /\ grayAgain' = Popped(o).again
    /\ UNCHANGED rootNeedsTrace
    /\ MarkFrame

(* Collect::trace panics after tracing S and W only: the DropGuard of       *)
(* mark_one puts the object into gray_again.                                *)
MarkOnePanics(o, S, W) ==
    LET black == [color EXCEPT ![o] = "Black"]
        traced == TraceColor(black, S, W)
    IN
    /\ MayPanic
    /\ phase = "Mark" /\ CollectorTurn
    /\ PopGray(o) \/ PopGrayAgain(o)
    /\ S \subseteq strong[o] /\ W \subseteq weak[o]
    /\ color' = [traced EXCEPT ![o] = "Gray"]
    /\ gray' = TraceQueue(Popped(o).gray, black, S)
    /\ grayAgain' = [Popped(o).again EXCEPT ![o] = @ + 1]
    /\ UNCHANGED rootNeedsTrace
    /\ MarkFrame

QueuesEmpty == gray = NoQueue /\ grayAgain = NoQueue

MarkRoot ==
    /\ phase = "Mark" /\ CollectorTurn
    /\ QueuesEmpty /\ rootNeedsTrace
    /\ color' = TraceColor(color, rootStrong, rootWeak)
    /\ gray' = TraceQueue(gray, color, rootStrong)
    /\ rootNeedsTrace' = FALSE
    /\ UNCHANGED grayAgain
    /\ MarkFrame

MarkRootPanics(S, W) ==
    /\ MayPanic
    /\ phase = "Mark" /\ CollectorTurn
    /\ QueuesEmpty /\ rootNeedsTrace
    /\ S \subseteq rootStrong /\ W \subseteq rootWeak
    /\ color' = TraceColor(color, S, W)
    /\ gray' = TraceQueue(gray, color, S)
    /\ UNCHANGED <<rootNeedsTrace, grayAgain>>
    /\ MarkFrame

StartSweep ==
    /\ phase = "Mark" /\ CollectorTurn
    /\ ~GrayRemaining
    /\ phase' = "Sweep" /\ sweep' = all
    /\ UNCHANGED <<rootNeedsTrace, color, all, sweepPrev, next, queueVars,
                   isLive, valueVars, boxes, leaked, drops, historyVars>>

(* Mutant: a dropped value is not marked as dropped. *)
ForgetLive(o) ==
    /\ color' = [color EXCEPT ![o] = "White"]
    /\ UNCHANGED <<isLive, strong, weak>>

(* Mutant: the sweep does not reset the colour of a box it keeps. *)
ForgetAllButColor(o) ==
    /\ isLive' = [isLive EXCEPT ![o] = FALSE]
    /\ strong' = [strong EXCEPT ![o] = {}]
    /\ weak' = [weak EXCEPT ![o] = {}]
    /\ UNCHANGED color

(* The value and the header of a box that is gone are out of everyone's     *)
(* reach; one form for all of them keeps equal heaps equal states.          *)
Forget(o) ==
    /\ isLive' = [isLive EXCEPT ![o] = FALSE]
    /\ color' = [color EXCEPT ![o] = "White"]
    /\ strong' = [strong EXCEPT ![o] = {}]
    /\ weak' = [weak EXCEPT ![o] = {}]

(* Mutant: a box whose value was dropped before is not deallocated. *)
DropAndDeallocLive(o, panics) ==
    /\ panics => MayPanic /\ isLive[o]
    /\ drops' = IF isLive[o] THEN [drops EXCEPT ![o] = @ + 1] ELSE drops
    /\ boxes' = IF panics \/ ~isLive[o] THEN boxes ELSE boxes \ {o}
    /\ leaked' = IF panics THEN leaked \cup {o} ELSE leaked
    /\ Forget(o)

(* drop_in_place runs the destructor of a live value, and dealloc follows   *)
(* unless the destructor panics, which leaks the box.                       *)
DropAndDealloc(o, panics) ==
    /\ panics => MayPanic /\ isLive[o]
    /\ drops' = IF isLive[o] THEN [drops EXCEPT ![o] = @ + 1] ELSE drops
    /\ boxes' = IF panics THEN boxes ELSE boxes \ {o}
    /\ leaked' = IF panics THEN leaked \cup {o} ELSE leaked
    /\ Forget(o)

(* sweep_one on a white box: unlink it, drop it, deallocate it.             *)
SweepWhite(panics) ==
    /\ phase = "Sweep" /\ CollectorTurn
    /\ sweep # NULL /\ color[sweep] = "White"
    /\ sweep' = next[sweep]
    /\ IF sweepPrev = NULL
       THEN /\ all' = next[sweep]
            /\ next' = [next EXCEPT ![sweep] = NULL]
       ELSE /\ next' = [next EXCEPT ![sweepPrev] = next[sweep],
                                    ![sweep] = NULL]
            /\ UNCHANGED all
    /\ DropAndDealloc(sweep, panics)
    /\ UNCHANGED <<phase, rootNeedsTrace, sweepPrev, queueVars, historyVars>>

(* sweep_one on a box that only weak pointers were found to: its value is   *)
(* dropped, the box stays.  A destructor that panics leaves the same state. *)
SweepWhiteWeak ==
    /\ phase = "Sweep" /\ CollectorTurn
    /\ sweep # NULL /\ color[sweep] = "WhiteWeak"
    /\ sweep' = next[sweep] /\ sweepPrev' = sweep
    /\ drops' = IF isLive[sweep] THEN [drops EXCEPT ![sweep] = @ + 1] ELSE drops
    /\ Forget(sweep)
    /\ UNCHANGED <<phase, rootNeedsTrace, all, next, queueVars, boxes, leaked,
                   historyVars>>

SweepBlack ==
    /\ phase = "Sweep" /\ CollectorTurn
    /\ sweep # NULL /\ color[sweep] = "Black"
    /\ sweep' = next[sweep] /\ sweepPrev' = sweep
    /\ color' = [color EXCEPT ![sweep] = "White"]
    /\ UNCHANGED <<phase, rootNeedsTrace, all, next, queueVars, isLive,
                   valueVars, boxes, leaked, drops, historyVars>>

(* sweep_one at the end of the list, and the end of the cycle.              *)
FinishCycle ==
    /\ phase = "Sweep" /\ CollectorTurn
    /\ sweep = NULL
    /\ sweepPrev' = NULL
    /\ rootNeedsTrace' = TRUE /\ phase' = "Sleep"
    /\ UNCHANGED <<color, all, sweep, next, queueVars, isLive, valueVars,
                   boxes, leaked, drops, historyVars>>

-----------------------------------------------------------------------------
(* Drop of the Context, with its guard DropAll: when the arena is dropped   *)
(* between callbacks, or when the closure of new, try_new, map_root or      *)
(* try_map_root does not return a root.                                     *)

BeginDrop ==
    /\ mode \in {"idle", "mutate_root"} /\ phase # "Drop"
    /\ phase' = "Drop" /\ dropAll' = all
    /\ mode' = "idle" /\ held' = {} /\ heldWeak' = {}
    /\ rootStrong' = {} /\ rootWeak' = {}
    /\ barriers' = 0 /\ mayAdopt' = {} /\ mayAdoptWeak' = {}
    /\ doomed' = {} /\ resurrected' = {}
    \* never read again:
    /\ sweep' = NULL /\ sweepPrev' = NULL
    /\ gray' = NoQueue /\ grayAgain' = NoQueue
    /\ color' = [o \in Obj |-> "White"]
    /\ strong' = [o \in Obj |-> {}] /\ weak' = [o \in Obj |-> {}]
    /\ UNCHANGED <<rootNeedsTrace, all, next, headerVars, memoryVars>>

(* One turn of DropAll.  A destructor that panics leaks its box, and the    *)
(* rest of the list is dropped while unwinding; a second panic would abort. *)
DropOne(panics) ==
    /\ phase = "Drop" /\ dropAll # NULL
    /\ panics => mode = "idle"
    /\ dropAll' = next[dropAll]
    /\ DropAndDealloc(dropAll, panics)
    /\ mode' = IF panics THEN "unwinding" ELSE mode
    /\ UNCHANGED <<phase, rootNeedsTrace, listVars, queueVars, needsTrace,
                   rootVars, births, barrierVars, held, heldWeak, historyVars>>

-----------------------------------------------------------------------------
Callback ==
    \/ BeginMutate \/ BeginMutateRoot \/ BeginFinalize \/ EndCallback

Mutator ==
    \/ \E S \in SUBSET held, W \in SUBSET WeakHandles, nt \in BOOLEAN :
           Alloc(S, W, nt)
    \/ \E p \in held, c \in held \cup {NULL} : BackwardBarrier(p, c)
    \/ \E p \in held, c \in WeakHandles : BackwardBarrierWeak(p, c)
    \/ \E p \in held \cup {NULL}, c \in held : ForwardBarrier(p, c)
    \/ \E p \in held \cup {NULL}, c \in WeakHandles : ForwardBarrierWeak(p, c)
    \/ \E p, c \in held : Adopt(p, c)
    \/ \E p \in held, c \in WeakHandles : AdoptWeak(p, c)
    \/ \E p \in held : Take(p)
    \/ \E S \in SUBSET held, W \in SUBSET WeakHandles : SetRoot(S, W)
    \/ \E o \in heldWeak : Upgrade(o)
    \/ \E o \in WeakHandles : Resurrect(o)

Collector ==
    \/ Wake
    \/ \E o \in Obj : MarkOne(o)
    \/ \E o \in Obj : \E S \in SUBSET strong[o], W \in SUBSET weak[o] :
           MarkOnePanics(o, S, W)
    \/ MarkRoot
    \/ \E S \in SUBSET rootStrong, W \in SUBSET rootWeak : MarkRootPanics(S, W)
    \/ StartSweep
    \/ \E panics \in BOOLEAN : SweepWhite(panics)
    \/ SweepWhiteWeak
    \/ SweepBlack
    \/ FinishCycle

Teardown == BeginDrop \/ \E panics \in BOOLEAN : DropOne(panics)

Next == Callback \/ Mutator \/ Collector \/ Teardown

Spec == Init /\ [][Next]_vars

-----------------------------------------------------------------------------
ListType ==
    /\ all \in Obj \cup {NULL} /\ sweep \in Obj \cup {NULL}
    /\ sweepPrev \in Obj \cup {NULL} /\ dropAll \in Obj \cup {NULL}
    /\ next \in [Obj -> Obj \cup {NULL}]

QueueType == gray \in [Obj -> Nat] /\ grayAgain \in [Obj -> Nat]

HeaderType ==
    /\ color \in [Obj -> Colors]
    /\ isLive \in [Obj -> BOOLEAN] /\ needsTrace \in [Obj -> BOOLEAN]

ValueType ==
    /\ strong \in [Obj -> SUBSET Obj] /\ weak \in [Obj -> SUBSET Obj]
    /\ rootStrong \in SUBSET Obj /\ rootWeak \in SUBSET Obj

MemoryType ==
    /\ births \in 0..MaxAllocs
    /\ boxes \in SUBSET Obj /\ leaked \in SUBSET Obj
    /\ drops \in [Obj -> Nat]

HandleType ==
    /\ mode \in Modes
    /\ held \in SUBSET Obj /\ heldWeak \in SUBSET Obj
    /\ doomed \in SUBSET Obj /\ resurrected \in SUBSET Obj

BarrierType ==
    /\ barriers \in 0..MaxBarriers
    /\ mayAdopt \in SUBSET (Obj \X Obj)
    /\ mayAdoptWeak \in SUBSET (Obj \X Obj)

TypeOK ==
    /\ phase \in Phases /\ rootNeedsTrace \in BOOLEAN
    /\ ListType /\ QueueType /\ HeaderType /\ ValueType
    /\ MemoryType /\ HandleType /\ BarrierType

-----------------------------------------------------------------------------
(* What must hold of the heap, in the parts from which the inductive        *)
(* invariant of GcContextProofs is put together.                            *)

Running == phase # "Drop"

(* The boxes sweep_one has yet to visit, and those it will get rid of.      *)
Pending   == IF phase = "Sweep" THEN {o \in Linked : o <= sweep} ELSE {}
Condemned == {o \in Pending : color[o] \in Whites}
Unlinking == {o \in Pending : color[o] = "White"}

(* The values that are alive and will stay so until the next marking.       *)
Survivors == {o \in Linked : isLive[o]} \ Condemned

(* n is the box below o in the list, None if there is none.                 *)
Below(n, o) ==
    IF n = NULL THEN \A q \in Linked : q >= o
    ELSE n \in Linked /\ n < o /\ \A q \in Linked : q < o => q <= n

(* The list through `all` holds every box that is allocated and not leaked, *)
(* newest first, and while sweeping sweep_prev is the box whose next        *)
(* pointer leads to `sweep`, None only if `all` does: sweep_one and         *)
(* allocate patch the list while sharing these three heads.                 *)
ListIntact ==
    /\ boxes \subseteq 1..births /\ leaked \subseteq boxes
    /\ Below(IF Running THEN all ELSE dropAll, births + 1)
    /\ \A o \in Linked : Below(next[o], o)
    /\ sweep # NULL => sweep \in Linked
    /\ IF sweepPrev = NULL
       THEN phase = "Sweep" => all = sweep
       ELSE sweepPrev \in Linked /\ Below(sweep, sweepPrev)
    /\ phase # "Sweep" => sweep = NULL /\ sweepPrev = NULL

(* A box is in one of the two queues, once, exactly when it is gray: a box  *)
(* queued twice would be traced after it was freed, one that is gray and    *)
(* not queued would never be traced and would be met by the sweep.          *)
GrayIffQueued ==
    \A o \in Obj :
        gray[o] + grayAgain[o] = IF o \in Linked /\ color[o] = "Gray" THEN 1 ELSE 0

(* The phases agree on colours: the heap is white while asleep, and no gray *)
(* box is left for the sweep to find (the last arm of sweep_one).           *)
ColorsMatchPhase ==
    /\ phase \in {"Sleep", "Drop"} => \A o \in Linked : color[o] = "White"
    /\ phase = "Sweep" => /\ \A o \in Pending : color[o] # "Gray"
                         /\ \A o \in Linked \ Pending : color[o] = "White"

(* The colour invariant of marking: nothing already traced holds a strong   *)
(* pointer to an unmarked object or a weak one to an object that is still   *)
(* plain white; the root counts as traced once root_needs_trace is false.   *)
TriColor ==
    phase = "Mark" =>
        /\ \A p \in Linked : color[p] = "Black" =>
              /\ \A c \in strong[p] : color[c] \notin Whites
              /\ \A c \in weak[p] : color[c] # "White"
        /\ ~rootNeedsTrace =>
              /\ \A c \in rootStrong : color[c] \notin Whites
              /\ \A c \in rootWeak : color[c] # "White"

(* What the documentation of the barriers promises: an adoption that one of *)
(* them covered is still harmless at any later moment of the callbacks up   *)
(* to the next run of the collector, whatever other barriers, upgrades,     *)
(* resurrections and allocations came in between.  A barrier does nothing    *)
(* for a parent that is not black, and a later one may mark that parent:     *)
(* the store it covered is still safe only as marking stops short of black.  *)
BarrierStaysGood ==
    phase = "Mark" =>
        /\ \A p \in Linked, c \in Obj :
              (color[p] = "Black" /\ needsTrace[p] /\ <<p, c>> \in mayAdopt)
                  => c \in Linked /\ color[c] \notin Whites
        /\ \A p \in Linked, c \in Obj :
              (color[p] = "Black" /\ needsTrace[p] /\ <<p, c>> \in mayAdoptWeak)
                  => c \in Linked /\ color[c] # "White"

(* Everything user code can get at by strong pointers is alive, and every   *)
(* weak pointer it can get at still has its box: no pointer dangles.        *)
NoDanglingPointers ==
    Running => /\ \A o \in InHand : o \in boxes /\ isLive[o]
               /\ WeakInHand \subseteq boxes

(* During the sweep user code cannot come by an object about to be dropped: *)
(* not through the root, not through what it allocated, and not by          *)
(* upgrading a weak pointer; the argument in the comment of upgrade.        *)
CondemnedOutOfReach ==
    Running => /\ InHand \cap Condemned = {}
               /\ \A o \in WeakInHand : Upgradable(o) => o \notin Condemned

(* The converse for weak pointers: upgrade never refuses an object that is  *)
(* strongly reachable.                                                      *)
ReachableUpgrades == Running => \A o \in InHand : Upgradable(o)

(* Destructors run at most once, no box is deallocated or leaked before its *)
(* destructor has run, and the header knows whether it has.                 *)
DroppedOnce ==
    \A o \in Obj :
        drops[o] = IF o > births \/ (o \in Linked /\ isLive[o]) THEN 0 ELSE 1

(* Nothing is left behind when the arena is gone, but for the boxes whose   *)
(* destructors panicked.                                                    *)
ArenaDropFreesAll ==
    phase = "Drop" /\ dropAll = NULL =>
        boxes = leaked /\ \A o \in 1..births : drops[o] = 1

(* A cycle finds all the garbage there was when it began: what was          *)
(* unreachable then, and was not upgraded or resurrected since, has been    *)
(* dropped when the cycle ends, whatever was mutated in between.            *)
CycleDropsDoomed == phase = "Sleep" => \A o \in doomed : drops[o] = 1

(* What finalization resurrects, and all that it leads to, is not dropped   *)
(* in this cycle.                                                           *)
ResurrectedSurvive ==
    phase = "Sweep" => /\ \A o \in resurrected : o \in boxes /\ isLive[o]
                       /\ Reach(resurrected) \cap Condemned = {}

(* What the documentation of Gc::is_dead says of finalizers: "Any strong     *)
(* pointer reachable from the root will never be dead".                     *)
IsDead(o) == color[o] \in Whites

ReachableNeverDead == mode = "finalize" => \A o \in RootReach : ~IsDead(o)

(* When marking is complete the objects a finalizer is told are dead are    *)
(* not reachable, and no box weakly reachable is going to be deallocated.   *)
MarkedMeansReached ==
    phase = "Mark" /\ ~GrayRemaining /\ mode = "idle" =>
        /\ \A o \in RootReach : ~IsDead(o)
        /\ \A o \in rootWeak \cup WeakOf(RootReach) : color[o] # "White"

-----------------------------------------------------------------------------
(* The rest of the inductive invariant.                                     *)

(* No pointer is in hand between callbacks, and only marking has finalizers. *)
HandlesMatchMode ==
    /\ ~InCallback => held = {} /\ heldWeak = {}
    /\ mode = "finalize" => phase = "Mark"
    /\ phase = "Drop" => ~InCallback /\ rootStrong = {} /\ rootWeak = {}

(* The root is traced after whatever mutate_root did to it, and in every     *)
(* cycle.                                                                   *)
RootWillBeTraced ==
    phase = "Sleep" \/ (phase = "Mark" /\ mode = "mutate_root") => rootNeedsTrace

(* Only live values of traceable types hold pointers, and only live values  *)
(* are ever marked.                                                         *)
ValuesAreLive ==
    /\ \A o \in Obj : ~needsTrace[o] \/ ~isLive[o] => strong[o] = {} /\ weak[o] = {}
    /\ \A o \in Obj : o \notin Linked => color[o] = "White" /\ ~isLive[o]
    /\ \A o \in Linked : color[o] \notin Whites => isLive[o]

(* The survivors point at survivors only, and at boxes that stay; so do the *)
(* root and the callback in progress.                                       *)
SurvivorsClosed ==
    /\ \A p \in Survivors : /\ strong[p] \subseteq Survivors
                            /\ weak[p] \subseteq Linked \ Unlinking
    /\ rootStrong \cup held \subseteq Survivors
    /\ rootWeak \cup heldWeak \subseteq Linked \ Unlinking

IndInv ==
    /\ TypeOK
    /\ ListIntact
    /\ GrayIffQueued
    /\ ColorsMatchPhase
    /\ TriColor
    /\ BarrierStaysGood
    /\ HandlesMatchMode
    /\ RootWillBeTraced
    /\ ValuesAreLive
    /\ Running => SurvivorsClosed

-----------------------------------------------------------------------------
(* To user code the incremental collector is one that works at a stroke:    *)
(* what the sweep is going to get rid of is dead from the moment the sweep  *)
(* begins, and not there to be met with while it goes on.                   *)
Usable == IF Running THEN Survivors ELSE {}

OfUsable(pointers) == [o \in Obj |-> IF o \in Usable THEN pointers[o] ELSE {}]

(* Unwinding after a panic is no callback.                                  *)
UserMode == IF mode = "unwinding" THEN "idle" ELSE mode

Heap == INSTANCE ManagedHeap WITH
    born <- 1..births, alive <- Usable, memory <- Linked,
    strong <- OfUsable(strong), weak <- OfUsable(weak),
    mode <- UserMode, gone <- ~Running

(* The abstract heap has no phases, colours, queues, barriers or lists.     *)
ImplementsHeap == Heap!HeapSpec
=============================================================================
