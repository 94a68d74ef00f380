# A TLA+ verification of gc-arena

gc-arena is an incremental, exact, single-threaded mark-and-sweep collector whose heap lives
inside an `Arena`. User code sees the heap only inside callbacks (`mutate`, `mutate_root`,
`finalize`); the collector runs only between them. What makes it hard is not parallelism but
*incrementality*: marking and sweeping stop after any number of steps, user code changes the
object graph in between, and the collector goes on from a partial result. Panics of user
code (`Collect::trace`, destructors) interrupt it too, and it has to go on from there as
well.

Contents: the inventory of the code, the modules and how they correspond to it, what is
checked and with which bounds, what is proved, what was found, and the plan for what is
left. `PROJECT.json` is the index: it maps every definition to its lines, every property to
a mutant of the code that breaks it, and every hazard to the properties that would catch it.

## 1. Inventory

| component | source | state | operations |
|---|---|---|---|
| `Context` | `src/context.rs` | phase, `root_needs_trace`, list heads `all`, `sweep`, `sweep_prev`, queues `gray`, `gray_again` | `allocate`, `upgrade`, `resurrect`, four write barriers and `root_barrier`, `mark_one`, `sweep_one`, `do_collection`, `Drop` with `DropAll` |
| `Arena`, `MarkedArena` | `src/arena.rs` | root and context | `new`, `try_new`, `map_root`, `try_map_root`, `mutate`, `mutate_root`, `collect_debt`, `mark_debt`, `finish_marking`, `cycle_debt`, `finish_cycle`; `finalize`, `start_sweeping` |
| `Gc`, `GcWeak` and the box header | `src/gc.rs`, `src/gc_weak.rs`, `src/types.rs` | per box: colour, is-live and needs-trace bits, `next`, vtable | `new`, `write`, `downgrade`, `upgrade`, `resurrect`, `is_dead`, `is_dropped`; `cast`, `erase`, `as_ptr`, `from_ptr`; the tagged word, `vtable_for`, `trace_value`, `drop_in_place`, `dealloc` |
| locks and write access | `src/lock.rs`, `src/barrier.rs` | the value in the cell, the flag of a `RefCell` | `get`, `set`, `take`, `borrow`, `borrow_mut` and the `try_` forms, `unlock`, `get_mut`; `Write`, `from_static`, `from_mut`, `as_write`, `field!`, `unlock!` |
| `Metrics`, `Pacing` | `src/metrics.rs` | counters per cycle, wake-up amount, inherited debt | one `mark_*` call for each thing that happens to a box, `allocation_debt`, `finish_cycle`; external allocation, `add_debt`, `set_pacing` |
| `DynamicRootSet`, `DynamicRoot` | `src/dynamic_roots.rs` | slots with counts and a free list, behind an `Rc`; handles with a `Weak` | `new`, `stash`, `fetch`, `contains`, `Clone`, `Drop` |
| `MetricsAlloc` | `src/allocator_api.rs` | none of its own | `allocate`, `deallocate`, `grow`, `shrink`: reports external bytes |
| `Collect`, implementations, derive | `src/collect*.rs`, `src/no_drop.rs`, `src/static_collect.rs`, `src/hashbrown.rs`, `derive` | none | `trace`, `NEEDS_TRACE`; the code the macro generates |
| `unsize` | `src/unsize.rs` | none | coercions |

Paths are relative to `src/src/` (the crate's own `src` directory).

**Interactions.** An entry point of `Arena` calls `do_collection` with a `RunUntil` and a
`Stop`. It loops: each turn is one `mark_one` or `sweep_one`, and between turns it may ask
`Metrics::allocation_debt` whether to go on. `mark_one` calls `Collect::trace` of user
values, which calls back into `Context::trace`/`trace_weak`; `sweep_one` runs destructors.
Both may panic. Between calls, a callback reads pointers from the root, allocates, issues
barriers, writes, upgrades; a `finalize` callback may also resurrect, but only with a
`MarkedArena` in hand. Every colour change and every drop is reported to `Metrics`. A
`DynamicRootSet` is an ordinary traced value, but the handles that change its slots live
outside of the arena and may be cloned and dropped at any time, after the set and its arena
are gone too.

**What makes each part correct.**

* `Context`: no pointer in reach of user code dangles; garbage is found; destructors run
  exactly once; the list and the two queues stay consistent; the barriers preserve the
  colour invariant in every order in which they can be called.
* entry points: each stops exactly where its documentation says, and always ends.
* `Metrics`: the counters agree with the heap, and a cycle never records as much work as it
  had bytes to pay for; otherwise allocation outruns the collector.
* dynamic roots: a live handle always finds its own object, alive, and slots are neither
  lost nor freed early.
* external bytes: the total is what is there, and a debt has a cause and is handed on once.
* the header: colour, flags, vtable and link are independent, though they share words.
* write access: whatever leads to a store has a barrier behind it.
* `Collect`: what a value reports is what it holds, and `NEEDS_TRACE` is exact.

The hazards (what a test would hardly reach, at its line) are listed in `PROJECT.json`. Most
are interleavings of incremental steps with mutation and partial failures through panics; a
few are protocol sequences, liveness of a loop, and numeric edges. There is no I/O, no
thread and no persistent state in this code.

## 2. Modules

    ManagedHeap  <==  GcContext            (refinement)
    GcContext    <--  Collection           (the entry points drive its collector)
    GcContext    <--  GcMetrics            (the counters ride on its steps)
    GcContext    <--  RootedHeap  ==>  DynamicRoots   (root sets in the collected heap)
    RootRegistry <==  DynamicRoots         (refinement)
    TypedBoxes   <==  BoxHeader            (refinement)
    ExternalBytes, WriteAccess, CollectTypes          (the contracts around the heap)
    GcContextProofs, Collection, GcMetrics  <--  CollectorProofs
    GcContext, BoxHeader, DynamicRoots, ExternalBytes, WriteAccess, CollectTypes
                 <--  their Proofs modules
    RootedHeap, GcContextProofs  <--  RootedHeapProofs  ==>  DynamicRootsProofs

`<--` is EXTENDS (with the `MC` modules, which only add what TLC needs), `<==` is INSTANCE
with a refinement mapping, `==>` INSTANCE for its actions. What `GcContext` takes for
granted of the code around it is what the other modules are about: that stores follow
barriers (`WriteAccess`), that `trace` reports the pointers a value holds (`CollectTypes`),
that header fields do not disturb one another (`BoxHeader`).

### GcContext: the heap, user code and the collector

The module contains `Context` and everything that changes the heap through it.

| state | code |
|---|---|
| `phase`, `rootNeedsTrace`, `all`, `sweep`, `sweepPrev` | the fields of `Context` |
| `gray`, `grayAgain` | the two vectors, as bags: how often each box is queued (a stack pops one particular box; the model pops any, so every order is covered, and a box queued twice shows as 2) |
| `dropAll` | the cursor of the guard `DropAll` |
| `next`, `color`, `isLive`, `needsTrace` | `GcBoxHeader` |
| `strong`, `weak`, `rootStrong`, `rootWeak` | the `Gc` and `GcWeak` pointers a value holds: all of a value that the collector can tell apart |
| `births`, `boxes`, `leaked`, `drops` | the allocator, and how often each destructor ran |
| `mode`, `held`, `heldWeak` | the callback in progress, the pointers it has |
| `barriers`, `mayAdopt`, `mayAdoptWeak` | which `<<parent, child>>` stores the barriers since the collector last ran have licensed |
| `doomed`, `resurrected` | history variables: read by properties only |

Objects are named by order of allocation and names are never reused, so a dangling pointer
stays recognisable (in the program its address could be taken again). A freed box gets one
canonical header; nothing can read it, as the theorems show.

Actions: `BeginMutate`, `BeginMutateRoot`, `BeginFinalize`, `EndCallback`; `Alloc`,
`BackwardBarrier`, `BackwardBarrierWeak`, `ForwardBarrier`, `ForwardBarrierWeak`, `Adopt`,
`AdoptWeak`, `Take`, `SetRoot`, `Upgrade`, `Resurrect`; `Wake`, `MarkOne`, `MarkOnePanics`,
`MarkRoot`, `MarkRootPanics`, `StartSweep`, `SweepWhite`, `SweepWhiteWeak`, `SweepBlack`,
`FinishCycle`; `BeginDrop`, `DropOne`.

A barrier and the store it permits are separate actions, as they are in the code:
`Gc::write` returns a `Write` reference that lives to the end of the callback, and other
barriers, allocations and resurrections may come between. In a callback user code has hold
of everything the root reaches. That is the most it could have read. While the collector is
not marking, user code may store without a barrier, which is more than the types permit.

`MarkOnePanics` is `Collect::trace` panicking after any subset of the pointers; a destructor
that panics in `sweep_one` leaks its box (it is unlinked and not yet deallocated) or leaves
a shell, which is already in its final state; one that panics while the arena is dropped
hands over to the guard, and a second panic would abort the process, so it is excluded.

### ManagedHeap: what user code sees

The abstract specification of an arena. It has objects, pointers, a root and callbacks, and
no phases, colours, queues, barriers or lists. Garbage goes away *at one stroke*, between
callbacks (`CollectGarbage`), and only together with everything that points at it; memory is
given back later (`Reclaim`), when no weak pointer is left in anything alive; upgrade and
resurrection succeed for exactly the objects that are alive. `GcContext` implements it
(`ImplementsHeap`) with `alive` mapped to `Usable`: the live objects that the sweep is not
going to get rid of. So the whole collection takes place, as far as user code can tell, at
`StartSweep`, and marking and sweeping in small steps is invisible. `is_dead` and
`is_dropped`, which answer about colours and about progress of the sweep, are deliberately
outside of this promise.

### Collection: when the collector runs

One action per turn of the loop of `do_collection`, each the conjunction of a step of
`GcContext` and what the loop does after it, and `Begin` for the entry points. `Stop` keeps
the order that the code compares with. Whether there is debt is *arbitrary* at each test of
it, so what is shown holds for any pacing. `outcome = "marked"` is a `MarkedArena` in the
user's hand: `finalize` and `start_sweeping` need one, anything else drops it.

### GcMetrics: the counters

Each action of `GcContext` together with the calls to `Metrics` made in it. Boxes have size
1; words go up to `MaxWord` and wrap (the release build; the saturating counters saturate), and
as every box has an address of its own there are never more than `MaxWord` of them; work and
debt are counted in twentieths of a byte, so that `Pacing::DEFAULT` is whole
numbers. `finish_cycle`'s `reset_debt` is arbitrary. `work[o]`, a history variable, is the
work a box has recorded in this cycle; it is what ties the counters to the colours
(`MetricsInv`). `CollectionKeepsPace` is the purpose of pacing: while debt is paid, what was
allocated since the cycle began is bounded by the sleep and by the work that the boxes there
at its beginning can cost, so allocation cannot go on outrunning a collector that is let to
pay its debt. `PacingInv` is the
invariant behind it. Barriers may be called on any parent, also on one that holds no
pointers (a leaf). `backward_barrier` takes back a trace then that `trace` never counted: the
leaf owes it, `work` is below zero for it (`TraceOwed`), until `mark_one` comes to it in the
queue and counts a trace it does not need. `CountersMatchHeap` says that this is all that can
be wrong with the counters, and finding 1 what comes of it.

### DynamicRoots and RootRegistry

`DynamicRoots` has the slots, the free list threaded through vacant slots and the reference
counts (0 means one handle, as in the code), for several sets. A set is the address of its
`Rc`: it can be reused once the set is dropped *and* no `Weak` is left, which is std's
contract for `Rc` (external) and what the comparison in `contains` rests on. `mem::forget`
of a handle is a handle that is never dropped.

`RootRegistry` is the abstract specification: sets, what each handle stands for, and
`rooted[a]`, the objects that the set keeps alive; no slots, no counts. The property
`ImplementsRegistry` is the refinement, with `rooted` mapped to the occupied slots.

### RootedHeap: root sets beside the running collector

The composition of `GcContext` and `DynamicRoots`. A set is an object of the arena, the
pointers in its occupied slots are what `Collect::trace` of it reports, and both models step
together: `Stash` is the backward barrier and the new slot; `DropHandle` vacates a slot at
any moment, between two steps of the collector and between two destructors of the sweep;
`Run` is a step of the collector or of the drop of the arena, after which the slots of a
set that was dropped are gone. `HandlesFetchLive` is the promise of the documentation of
`DynamicRootSet` in terms of the heap, `SetsHoldWhatHandlesMean` that the two models agree.

### ExternalBytes: what an arena answers for outside of its heap

`MetricsInner` with `Metrics`' public operations, `MetricsAlloc` over an inner allocator
that may fail or exceed a request, and the slot vectors of root sets, over several cycles.
Here boxes are counters (`GcMetrics` has them in detail). `Owned` is what blocks, slots and
user code really have. `exact` is chosen at the start: either every caller of `Metrics`
marks as deallocated what was marked as allocated, or not, and then the saturating total
may be anything. `incurred` is a history variable: the debt that a cycle inherited or
incurred, by its cause.

### BoxHeader and TypedBoxes

`BoxHeader` has the packed word (vtable address, colour, needs-trace, is-live) as an
integer, masks as arithmetic, the `repr(C)` layout that `from_ptr` computes a second time,
and a `Gc` on its way through `cast`, `as_ptr` and `from_ptr`. `TypedBoxes` is the abstract
specification: a record of independent fields whose functions are those of the type the box
was allocated with. `handle.at` is the address a `Gc` holds, relative to its box.

### WriteAccess

A value is a tree of nodes (structs, sums, locks, `Gc` fields); a reference is an owner, a
node and a kind of access. An action per way of making a reference from another: `Deref`,
`Write::from_static`, `from_mut`, `as_write`, `field!`, `unlock`, guards of a `RefCell`,
which may be forgotten. The collector is reduced to what matters: which owners are traced
and what pointers it saw in them. What safe Rust guarantees (exclusive borrows, the lifetimes
that end with a callback) is external and only over-approximated. `WritesCovered` is the
comment in `Write::unlock`; `TracedIsSeen` is what all this is for.

### CollectTypes

Each implementation of `Collect` as a record: the bounds on its arguments, those that
`NEEDS_TRACE` is taken from and those `trace` visits; and `Derived`, what the derive macro
makes of a type definition, or refuses. The types of a program are a constant set of finite
terms (`TypesAssumption`: the arguments of a type are nested less deeply than it is, and are
as many as its implementation speaks of), and what the compiler computes over them are
recursive functions. `Compile` types a value, the other steps trace it as `mark_one` would,
part by part. The value is chosen as tracing meets it, so every value of the type is
covered; how often a pointer is reported is not counted.

## 3. Runs

| run | instance | shows |
|---|---|---|
| `heap` | 2 objects, 1 field, 1 root pointer, weak pointers, 1 barrier, panics anywhere | memory safety, sweep isolation, upgrades, all doomed garbage dropped, resurrection, destructors once, only panicked boxes leaked; the inductive invariant of the proofs |
| `calls` | 2 objects, weak pointers, panics, 6 entry points | calls stop where asked, each turn uses up some of what is left to do, and calls always end; an atomic cycle leaves exactly the reachable heap; the heap that is collected implements `ManagedHeap` |
| `metrics` | 2 objects with pointers or without, strong pointers, 1 barrier, panics, no minimum sleep | counters match the heap, work below allocation, and while debt is paid allocation stays within what the work of the cycle pays for |
| `barriers` | 2 objects without fields, strong and weak pointers from the root, 2 barriers, panics | what one barrier licensed is still harmless after another, whatever either of them did; the paths that mark a box twice or undo a trace: the inductive invariant of the proofs about counters and pace |
| `dynamic_roots` | 2 sets, 4 handles, 2 objects, counts up to 2 | slots implement the registry; free list; slots reused |
| `rooted_heap` | 3 objects or sets, 2 handles | handles fetch live objects; sets hold what handles mean; list surgery with three boxes |
| `external` | 1 block, 1 root set, words up to 3, two pacings, 2 boxes | totals exact, debts have a cause, heap debt is not paid by external bytes, debt handed on once |
| `box_header` | 2 boxes, types aligned to 32 and 1 | layouts, handles, independence of the fields |
| `write_access` | 2 boxes, a root, 8 kinds of node, 2 references | writes are covered by barriers, traced values hold only what was seen |
| `collect` | every implementation nested twice; structs and enums of 2 fields with every attribute | `trace` and `NEEDS_TRACE` exact, no pointers in unsigned destructors |
| `finalize_dead`, `leaf_barrier` | smallest | the two findings |

**Why the bounds are enough.** The collector looks at one edge at a time, so two objects
already show every case of an edge: marked parent and unmarked child, a child allocated by
the parent's callback, a self-reference, a box condemned with the other surviving, and the
two queues holding a box each. List surgery needs a predecessor, the box removed and a
successor: hence three boxes in `rooted_heap`. `MaxAllocs` bounds the allocations over the
whole life of the arena, but cycles are unbounded, and so is the number of callbacks.
`MaxBarriers` bounds the barriers between two runs of the collector: that one barrier's
licence outlives another needs two, and the mutant `TraceColorBlackens`, where marking
blackens what it queues, is found in `barriers` and would not be with one barrier. In
`metrics` two objects are what it takes for allocation to race the collector: an old box earns
10 units by its mark and trace or its end and its sleep is worth 10, just the 20 of a new one.
With no minimum sleep debts are positive as soon as a box is allocated, and states are reached
in which work has paid for them: while marking, in the sweep by boxes it freed, and with
an inherited debt. The
slots of a root set need two for the free list to have an inner link and a third to grow:
four handles reach four slots. A count of 2 has "last handle", "one more" and "full". Words
up to 7 with at most 2 boxes are wide enough for every counter in a correct run and narrow
enough that an underflow wraps to a number that matters. The refinement of `ManagedHeap` is
checked in `calls`, which has every step of `GcContext` but the barriers (`heap` has those);
the theorem is about all of them. In `external` a total of 3 is
reached and exceeded by two allocations of size 2. In `write_access` two references are the
one that is projected and one that is there from before; the nodes have every kind inside of
every kind that may contain it on the way to a lock. What holds of all sizes is what the
proofs are for.

`CHECK_DEADLOCK FALSE` is set in the runs of an arena that can be dropped, and in `collect`,
where a traced value is the end. `dynamic_roots`, `box_header`, `external` and
`write_access` never stop, and deadlock is checked there. The only symmetry is that of
handles and stashed objects in `dynamic_roots`, of handles in `rooted_heap` and of boxes in
`box_header`, which no action and none of their properties tells apart; objects of the heap
are ordered by age and are not symmetric. `rooted_heap`, `metrics` and `barriers` look at
states through a `VIEW` without `drops` and `doomed` (`rooted_heap` also without
`resurrected`): these are histories that no guard reads, no other variable is computed from,
and no property of those runs mentions, so that states which differ in them only have the
same future. `IndInv` contains `TypeOK`,
`GrayIffQueued`, `ColorsMatchPhase`, `TriColor`, `ListIntact` and `BarrierStaysGood` (with one
barrier; with two it is checked by itself), `CountersMatchHeap` and `PacingInv` contain
`MetricsTypeOK` and `HandlesKeepRoots` contains `RootsTypeOK`: they are checked with it.

**Fairness.** Only `Collection` has any: `WF(Loop)`. The loop of `do_collection` is
synchronous code with no wait in it, so a turn that can be taken is taken. That there always
is one, and only so many of them, is proved (`TurnsAreReady`, `TurnsAreFew`). Nothing is
assumed of user code: it need never call the collector, return from a callback or drop
anything. With panics, a call that panics has ended, and that counts as ending.

## 4. Proofs

`GcContextProofs` and `CollectorProofs` prove the following for every value of the
constants. For `GcContext` and `Collection` the assumptions are only that the bounds are
naturals and `MayPanic` a Boolean. The proofs about `GcMetrics` and the other modules follow
further down, with the assumptions on types, layouts, pacings, word sizes and the finite
number of handles, blocks and root sets that those modules name. Of what the passing runs
check, everything but the liveness property is a theorem.

*Invariance.* `IndInv` is inductive. The safety properties are not by themselves: that no
reachable object is dropped depends on what the sweep has yet to visit, that on the colours
when marking ended, those on which stores barriers licensed, and the queues on the list. The
conjuncts:

* `ListIntact`: every box allocated and not leaked is in the list, newest first. Age order
  is what makes "already visited by the sweep" expressible without recursion: `Pending` is
  the boxes not younger than `sweep`'s.
* `GrayIffQueued`: each gray box is in exactly one queue, once; no other box is queued.
* `ColorsMatchPhase`, `RootWillBeTraced`, `HandlesMatchMode`: what each phase and callback
  implies.
* `TriColor`: no traced object points at an unmarked one.
* `BarrierStaysGood`: the pending licences respect `TriColor` in advance, which is what
  makes a late store safe.
* `ValuesAreLive`: shells hold no pointers, marked objects are live.
* `SurvivorsClosed`: the objects that are alive and not condemned are closed under pointers
  and contain the root and all that user code holds. It is the step from colours to memory
  safety: reachability is the *least* closed set, so `InHand \subseteq Survivors` follows
  with no induction over paths. At `StartSweep` it is re-established from `TriColor`, empty
  queues and a traced root.

*Memory* (`MemorySafety`, `SweepIsolation`, `UpgradeComplete`, `MarkingIsComplete`) follows
from it. *Destructors* (`DestructorsRunOnce`, `ArenaDropIsComplete`) add a count to the list
argument. *Garbage* (`CycleIsComplete`): `DoomedInv` says that nothing outside
the doomed objects points into them, the root and the pointers in hand included, so that they
stay unmarked until the sweep has dropped them. *Resurrection*
(`ResurrectionIsEffective`): marking is reopened, so the resurrected are marked when the
sweep starts.

*Refinement* (`CollectsAtOneStroke`): `Spec => ImplementsHeap`. `StartSweep` maps to
`CollectGarbage`, unlinking a box to `Reclaim`, colours to nothing. The lemma `HeapReach`
says that reachability is the same when the pointers of dead objects are forgotten; that a
box is unlinked only without weak pointers in sight is `SurvivorsClosed` again.

*Collection.* `CollectionRefines`: every turn of the loop is a step of the collector of
`GcContext` or leaves it unchanged, so `Collection` implements `GcContext` and all of the
above holds of any sequence of calls (`CollectionMemorySafety`). `CallInv` relates the call
to the phase it found; from it `EntryPointsStop` and `CallsKeepToPhases` (with the
assertions of `start_sweeping` and `do_collection`) and `CollectionTyped`, which has it that
a `MarkedArena` is only handed out when marking is complete.

*A cycle in one call* (`FullCycleIsExact`). A call that has been through the sleeping phase
began the cycle it is in, and no user code ran since. `SleptInv` says what that is worth:
while marking, an object is marked only if the root reaches it and weakly marked only if a
weak pointer in reach is its own; in the sweep, boxes still to come have those colours, and
what it left behind is reachable or the shell of such a weak pointer. That bounds the heap
from above; from below it is `SurvivorsClosed`. The lemma it turns on is `RootReachStays`:
taking the pointers out of objects the root does not reach, as the sweep does, changes
nothing of what the root reaches. The calls that go on with a cycle someone else began
have none of this, and leave floating garbage.

*Every call ends, but for the last step* (`TurnsAreFew`, `TurnsAreReady`). The first states
`TurnsRunOut`: a turn after which the call goes on reduces `LegsLeft`, the phases the call may
still go through (one cycle that was begun already and, unless it has slept, one more), or
leaves that and reduces `TurnsLeft`. While marking, these are the steps by which colours can still darken; a
turn of `mark_one` blackens a gray object or traces the root and lightens nothing (`Darkens`),
whatever is marked and queued on the way, and with no user code between turns nothing is
taken back. In the sweep they are `Pending`, the boxes not yet visited, of which a turn takes
one (`SweepTakesOne`). The second says that a turn can be taken while the call lasts: the
sweep never stands at a gray box, for which `sweep_one` has only an assertion. Both hold
whatever the debt is at each turn and with panics. That a call therefore ends (`CallsEnd`)
is one step of temporal logic from there, with the fairness and `ENABLED` that the provers
do not handle.

*Counters* (`CollectorProofs`). `PacingRefines`: the calls to `Metrics` take no step of
`GcContext` away, so `IndInv` holds beside them. `CountersMatchHeap` is not inductive: a
barrier that takes back a trace is right only if that trace was counted, and the number of
marked boxes says nothing about which. `MetricsInv` says, box by box, that colour and work
recorded agree (`WorkMatchesColor`): nothing for a white one, a mark for a weakly marked or
gray one, a mark and a trace for a black one that has pointers or was resurrected. So
`marked` is the cardinality of a finite set, which a step enlarges by all the objects marked
in it. `traced` is, as a word, the number of boxes with a trace to their account less the
number of those that owe one: a leaf that `trace` blackened without a trace has none for
`make_gray_again` to take back, and is then gray with a mark less a trace. Each call
of `mark_gc_traced` or `mark_gc_untraced` moves one box into or out of one of the two sets
(`TracesMove`), and neither is larger than memory, so the difference never wraps more than
once (`WrapSteps`, `WrapBack`). What owes a trace is gray, and nothing gray is left when
marking is complete (`NothingOwed`): the error of finding 1 ends there, and the sweep begins
with exact counters. `CountersAreTrue` and `WorkIsBounded` follow, for barriers on any parent.
That the other counters do not wrap comes from the size of memory alone: the model's allocator
never has more than `MaxWord` boxes, whatever `MaxWord` is.

*Pace* (`PaceInvariance`, `CyclesKeepPace`). `CollectionKeepsPace` is a bound from below on
what the cycle has recorded, which `WorkIsBounded`, one from above, does not give. Debt is
paid when the credit for the work done makes up for the bytes allocated beyond the sleep, so
the allocation is bounded by the credits, and these by the boxes they were earned with. A box
earns its mark and its trace once, and is dropped and freed once; what has to be shown is
that no box earns for more than one of the ways through the sweep. `SweepCounted` says it by
counting: the traced boxes and the weakly marked ones still to come are among those marked,
and so are those remembered with the kept ones to come; those traced, dropped or weakly
marked and still to come are no more than those marked or freed; and the boxes marked are
linked and not going to be unlinked. Each is a comparison of cardinalities that a barrier, a
panic in `trace` or a leaked box might upset, and none is an invariant without `MetricsInv`,
which has it which boxes the counters count. While a trace is owed the debt that the collector
sees is wrong and promises nothing, so the property leaves these moments out; they are moments
of marking only. The rest is
arithmetic with the weights of `Pacing::DEFAULT` (lemmas over integers) and a saturating
`freed`.

*Headers* (`BoxHeaderProofs`). The arithmetic of masks is proved once, for the words that
can occur (`Words`: a vtable's multiple of 16 plus any flags). From it the type invariant,
which has every allocated box's word among these; `LayoutsFit` from an invariant that ties
the vtable in the word to the layout allocated; `HandlesStayAtHeader` from the two ways of
computing the same offset; and `PackingIsFaithful`, the refinement: each write to a word is
an assignment to one field of `TypedBoxes`.

*Root sets* (`DynamicRootsProofs`). `HandlesKeepRoots` is not inductive: a count off by one
frees a slot under a handle that is left, and a corrupt free list hands out a slot in use.
`RootsInv` adds `CountsExact` (the handles that hold an index are one more than its count, by
cardinality), `FreeListExact` and that dropped sets have no slots. The free list is stated
without recursion, as a rank that is one-to-one onto the places in the list; taking the head
removes the highest rank (`HeadTaken`), giving a slot back adds one (`HeadGiven`). With it
`HandlesTheorem`, `FreeListTheorem`, `SlotsReusedTheorem`, and `RegistryTheorem`: the steps
map one to one to those of `RootRegistry`. The hard one is the drop of a handle
(`DropMaps`): an object stays rooted exactly if another handle stands for it, through the
same slot (a count above 0) or another one.

*Root sets in the heap* (`RootedHeapProofs`). `RootedInv` is `IndInv`, `RootsInv` and
`SetsInHeap`, which ties them: a set is alive exactly while its object is, and the object's
pointers are what the slots root. Neither half carries over by itself. That a step of the
composition keeps `IndInv` is `InvStep` where it is a step of `GcContext`, and otherwise one
of three lemmas: pointers may vanish from a value at any moment (`LossKeeps`, a dropped
handle), they may be added behind the barrier of `stash` (`StashKeeps`; a write with an
adoption right is not enough here, since the slot is written in the same call), and a
callback may come to hold survivors (`FetchKeeps`). `RootsInv` is kept because every step is
one of `DynamicRoots` or leaves the sets alone (`SetsStep`). `SetsInHeap` also has sets and
handles among the objects allocated so far, so that a new set is always at an `Unused`
address. That a fetched object is a survivor is `RootsMeant`: what a handle means is in its set's slots.
`FetchIsSafe`, `SetsAgree`, `RootedMemorySafety`, `RootedListIntact` and `SetsAloneRefined`
follow. Assumed: finitely many handles, and a None that is no object or handle.

*Debts* (`ExternalBytesProofs`). `DebtHasCause` and `HeapPaysItsDebt` need the balance of
the cycle so far (what was incurred, by cause) as an invariant; the steps are lemmas about
sums and saturation, stated over integers since the provers do not do linear arithmetic over
primed variables. `DebtIsCarriedOnce` and `ExternalBytesMoveDebt` are action properties.
`TotalIsExact` is about a sum over all blocks and root sets. That changing one term of a sum
changes the sum by as much (`SumExcept`) is an induction over a finite set; `SumCounts` does it
as the minimal counterexample of a well-founded order on the subsets (which needs no operator
as a parameter), showing that a sum of naturals is the number of units in it. Then each
method of `MetricsAlloc` and each change of a vector of slots changes the total by what its
owner gains or loses. Assumed: finitely many blocks and root sets.

*Stores* (`WriteAccessProofs`). `AInv`: besides what is claimed, owners that may be written
to are not traced (`TracedNotWritable`), nothing outlives a callback (`IdleIsClean`), types
that are `'static` hold no pointers, and a guard has its share in the flag of its `RefCell`.
Projections only pass a permission on (`DerivedKeeps`), barriers make their owner untraced
(`BarrierKeeps`), and stores need one or the other (`PutKeeps`), so no chain of references,
however long, ends in a traced value (`EveryWriteIsCovered`, `StoresAreSeen`).

*Types* (`CollectTypesProofs`). `TraceExactness`, `NeedsTraceExactness` and `DropSafety` are
proved for every program's types, nested to any depth. `Collects`, `NeedsTrace`, `MayHold`,
`IsStatic` and `DropsSafely` are recursive functions over the types. That such a function
exists on terms of finite depth is not taken for granted: it is built as the least set of
types closed under the equation, which gives the five `Equation` lemmas. Induction is a
minimal counterexample, the type of least depth that is one (`Shallowest`). What it runs on
is `ImplementationFits`, proved table by table and for `Derived`: every part that a value may
have is traced or `'static` or in an argument without pointers, `NEEDS_TRACE` looks at all
that is traced, and at nothing no value can have. A `'static` type holds no pointers, since
pointers have a lifetime; a type that is `Collect` holds pointers of its arena only. The
assumption is `TypesAssumption` (section 2).

*Only model-checked.* `CallsEnd`, which is liveness.

## 5. What is not modelled

* The generative lifetime that keeps pointers inside a callback, and the borrow checker:
  taken from the type system (`EndCallback` empties `held`; `WriteAccess` lets references
  do more than the borrow checker does).
* `unsafe` functions whose contract is the caller's (`Write::assume`, `as_cell`,
  `unlock_unchecked`, `Gc::cast` between arbitrary types), unsizing coercions (`unsize.rs`,
  checked by the compiler), `Debug`, `PartialEq` and their like, logging, re-exports.
* `syn` and `quote`: a type definition reaches `Derived` parsed.
* Floating-point rounding in `allocation_debt`: factors are whole numbers of a unit.
* Nested panics, which abort.

## 6. Findings

1. **`leaf_barrier`** (code). `backward_barrier` does not look at `needs_trace`, and
   `make_gray_again` takes a trace back from the counters; but an object without pointers
   turned black in `trace` with no trace counted. `traced_gcs` and `traced_gc_bytes`
   underflow: a debug build panics, a release build wraps into a huge credit, and the debt
   is zero until the box is traced again, which calls that pay debt will not do. The comment
   at `context.rs:402` calls the case "not harmful (just wasteful)". Memory safety is not
   affected: `GcContext` lets barriers be called on any object. Nor does the error outlive
   marking or exceed one trace for each such box in the queues (`CountersAreTrue`,
   `PacingInvariance`), so a cycle that is finished by other means ends with its counts right.
2. **`finalize_dead`** (documentation). `Gc::is_dead` answers from the current colour. An
   object allocated in a `finalize` callback and stored under a barrier is white, hence
   "dead", though the root reaches it; the documentation (`gc.rs:231`) says a pointer
   reachable from the root never is. Before the callback changes anything it holds
   (`MarkedMeansReached`, proved).

Three more observations come from reading and are not backed by a run. `MetricsAlloc` counts
`layout.size()` on `deallocate`, although the contract of `Allocator` lets a block be given
back with any layout that fits it, which may be larger than the one it was allocated with
(`ExternalBytes` has this as a caller that is not `exact`). The first cycle of an arena has
no minimum sleep, since `min_sleep` is first read when a cycle ends. And the condition that
`Gc::cast` states (a valid cast of raw pointers) does not say that the two types must have
their value at the same offset of the box.

## 7. State of the plan

Done: `GcContext` and its proofs; `ManagedHeap` and the refinement; `Collection`,
`GcMetrics`, `DynamicRoots` over `RootRegistry`, `ExternalBytes`, `BoxHeader`, `WriteAccess`
`CollectTypes` and `RootedHeap`, each with its proofs; the pace of a cycle; the measure by
which calls end. Every invariant and action property that a run checks is a theorem, stated
with the bounds as constants. What would add most from here:

1. Pacings other than `Pacing::DEFAULT` and boxes of different sizes in `GcMetrics`. The
   argument of `CyclesKeepPace` needs of a pacing only that the credits of a box add up to
   less than its bytes; the model's arithmetic has the default's weights written out.
2. `CallsEnd` as a theorem, from `TurnsAreFew` and `TurnsAreReady`, when the provers have
   `ENABLED` and the rule for a well-founded measure under weak fairness.
3. The counters in the composition with `DynamicRoots`, where a dropped handle takes pointers
   away in the middle of a cycle.
