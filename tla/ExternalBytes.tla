----------------------------- MODULE ExternalBytes -----------------------------
(***************************************************************************)
(* The bytes outside the heap that an arena answers for, and what they do to *)
(* its allocation debt: Metrics (src/metrics.rs) as user code, MetricsAlloc  *)
(* (src/allocator_api.rs) and the slots of a DynamicRootSet                  *)
(* (src/dynamic_roots.rs) use it, over any number of cycles.  What becomes   *)
(* of the boxes of the heap is left to GcMetrics; here they change counters.  *)
(*                                                                         *)
(* Work and debt are counted in a fraction of a byte, which makes the         *)
(* factors of Pacing whole numbers; a box has 1 byte, and so has a slot.      *)
(* External memory is mostly freed out of turn: in a later cycle, while the   *)
(* collector sleeps, or by the destructors that it runs.                     *)
(***************************************************************************)
EXTENDS Integers, FiniteSetsExt

CONSTANTS
    Blocks,     \* bound: blocks that a MetricsAlloc has handed out at a time
    RootSets,   \* bound: DynamicRootSets at a time
    NULL,
    MaxWord,    \* usize::MAX
    Sizes,      \* the sizes of layouts, and of what user code declares
    Capacities, \* the capacities of a vector of slots
    Excess,     \* by how much the inner allocator may exceed the size asked for
    Byte,       \* the units of work in a byte
    Pacings,    \* the Pacing values in use, in these units
    MaxBoxes, MaxWork, MaxIncurred \* bounds: boxes, and work and debt of one cycle

ASSUME SizesAssumption == Sizes \subseteq Nat /\ Capacities \subseteq Nat /\ Excess \in Nat
ASSUME BoundsAssumption == MaxWord \in Nat /\ Byte \in Nat /\ MaxBoxes \in Nat /\ MaxWork \in Nat
                           /\ MaxIncurred \in Nat

\* work on boxes, each kind with a counter in Metrics and a factor in Pacing
Kinds == {"marked", "traced", "remembered", "dropped", "freed"}

ASSUME OwnersAssumption == IsFiniteSet(Blocks) /\ IsFiniteSet(RootSets)

ASSUME PacingsAssumption ==
    Pacings \subseteq [sleep : Nat, minSleep : Nat, factor : [Kinds -> Nat]]

ASSUME NullAssumption == NULL \notin Nat /\ NULL \notin [asked : Nat, given : Nat]

VARIABLES
    pacing, totalGcs, totalExternal, wakeupAmount, artificialDebt,
    externalStart, allocated, counter,  \* struct MetricsInner
    asleep,     \* Phase::Sleep
    block,      \* the size of each block, asked for and given; NULL: none
    capacity,   \* the capacity of the slots of each root set, NULL: no set
    declared,   \* what user code has marked as allocated, and not deallocated
    exact,      \* do the callers of Metrics mark as deallocated what they marked
                \* as allocated, and no more?
    incurred    \* history: the debt incurred in this cycle, and inherited, by
                \* the heap and by external bytes

cycleVars == <<pacing, wakeupAmount, artificialDebt, externalStart>>
heapVars  == <<totalGcs, allocated, counter, asleep>>
ownerVars == <<block, capacity, declared>>
externalVars == <<cycleVars, heapVars, ownerVars, totalExternal, incurred, exact>>

SlotSize == 1       \* two words to a slot, as to the header of a box

Larger(x, y) == IF x >= y THEN x ELSE y
SaturatingAdd(x, n) == IF x + n <= MaxWord THEN x + n ELSE MaxWord

(* Mutant: the total wraps. *)
WrappingSub(x, n) == (x - n) % (MaxWord + 1)

SaturatingSub(x, n) == Larger(x - n, 0)

NoWork == [k \in Kinds |-> 0]

(* The bytes that there are: in blocks, in slots, and those user code tells of. *)
InBlock == [b \in Blocks |-> IF block[b] = NULL THEN 0 ELSE block[b].asked]
InSlots == [s \in RootSets |-> IF capacity[s] = NULL THEN 0 ELSE SlotSize * capacity[s]]

Owned == SumFunction(InBlock) + SumFunction(InSlots) + declared

-----------------------------------------------------------------------------
(* Metrics::allocation_debt.                                                *)

(* Mutant: bytes of earlier cycles that are freed pay for boxes. *)
ExternalSigned == totalExternal - externalStart

\* checked_sub: freeing what an earlier cycle allocated is no work
AllocatedExternal == Larger(totalExternal - externalStart, 0)

Debits == (allocated + AllocatedExternal) * Byte - wakeupAmount + artificialDebt

Credits ==
    counter["marked"] * pacing.factor["marked"] + counter["traced"] * pacing.factor["traced"]
    + counter["remembered"] * pacing.factor["remembered"]
    + counter["dropped"] * pacing.factor["dropped"] + counter["freed"] * pacing.factor["freed"]

AllocationDebt ==
    IF totalGcs = 0 \/ Debits <= 0 THEN 0 ELSE Larger(Debits - Credits, 0)

-----------------------------------------------------------------------------
ExternalInit ==
    /\ pacing \in Pacings
    /\ totalGcs = 0 /\ totalExternal = 0 /\ wakeupAmount = 0 /\ artificialDebt = 0
    /\ externalStart = 0 /\ allocated = 0 /\ counter = NoWork
    /\ asleep = TRUE
    /\ block = [b \in Blocks |-> NULL] /\ capacity = [s \in RootSets |-> NULL]
    /\ declared = 0 /\ exact \in BOOLEAN
    /\ incurred = [heap |-> 0, external |-> 0]

Incur(who, n) ==
    /\ incurred.heap + incurred.external + n * Byte <= MaxIncurred * Byte
    /\ incurred' = [incurred EXCEPT ![who] = @ + n * Byte]

SetPacing(p) ==
    /\ pacing' = p
    /\ UNCHANGED <<wakeupAmount, artificialDebt, externalStart, heapVars, ownerVars,
                   totalExternal, incurred>>

AddDebt(n) ==
    /\ Incur("heap", n)
    /\ artificialDebt' = artificialDebt + n * Byte
    /\ UNCHANGED <<pacing, wakeupAmount, externalStart, heapVars, ownerVars, totalExternal>>

(* mark_gc_allocated.                                                       *)
GcAllocated ==
    /\ totalGcs < MaxBoxes /\ Incur("heap", 1)
    /\ totalGcs' = totalGcs + 1 /\ allocated' = SaturatingAdd(allocated, 1)
    /\ UNCHANGED <<counter, asleep, cycleVars, ownerVars, totalExternal>>

(* do_collection wakes when there is debt, or is called to run to a stop.    *)
Wake ==
    /\ asleep /\ asleep' = FALSE
    /\ UNCHANGED <<totalGcs, allocated, counter, cycleVars, ownerVars, totalExternal, incurred>>

WorkDone == counter["marked"] + counter["traced"] + counter["remembered"]
            + counter["dropped"] + counter["freed"]

(* The mark_gc functions that the steps of the collector call.              *)
Work(k) ==
    /\ ~asleep /\ WorkDone < MaxWork
    /\ counter' = [counter EXCEPT ![k] = @ + 1]
    /\ IF k = "freed" THEN totalGcs > 0 /\ totalGcs' = totalGcs - 1 ELSE UNCHANGED totalGcs
    /\ UNCHANGED <<allocated, asleep, cycleVars, ownerVars, totalExternal, incurred>>

(* mark_gc_untraced, by a backward barrier.                                  *)
Untraced ==
    /\ counter["traced"] > 0
    /\ counter' = [counter EXCEPT !["traced"] = @ - 1]
    /\ UNCHANGED <<totalGcs, allocated, asleep, cycleVars, ownerVars, totalExternal, incurred>>

(* Mutant: external bytes are counted from the first cycle on. *)
StartKept == UNCHANGED externalStart

StartAnew == externalStart' = totalExternal

FinishCycle(reset) ==
    /\ ~asleep
    /\ wakeupAmount' = Larger(counter["remembered"] * pacing.sleep, pacing.minSleep * Byte)
    /\ artificialDebt' = IF reset THEN 0 ELSE AllocationDebt
    /\ StartAnew
    /\ allocated' = 0 /\ counter' = NoWork
    /\ asleep' = TRUE
    /\ incurred' = [heap |-> IF reset THEN 0 ELSE AllocationDebt, external |-> 0]
    /\ UNCHANGED <<pacing, totalGcs, ownerVars, totalExternal>>

-----------------------------------------------------------------------------
(* External bytes.                                                          *)

MarkAllocation(n) ==
    /\ exact => Owned + n <= MaxWord
    /\ Incur("external", n)
    /\ totalExternal' = SaturatingAdd(totalExternal, n)

MarkDeallocation(n) ==
    /\ totalExternal' = SaturatingSub(totalExternal, n)
    /\ UNCHANGED incurred

Declare(n) ==
    /\ MarkAllocation(n)
    /\ declared' = SaturatingAdd(declared, n)
    /\ UNCHANGED <<block, capacity, cycleVars, heapVars>>

Retract(n) ==
    /\ exact => n <= declared
    /\ MarkDeallocation(n)
    /\ declared' = Larger(declared - n, 0)
    /\ UNCHANGED <<block, capacity, cycleVars, heapVars>>

(* MetricsAlloc.  A block may be given back, grown or shrunk as one of any   *)
(* size between what was asked for and what the allocator made of it.        *)
Fits(b, size) == block[b] # NULL /\ size \in block[b].asked..block[b].given
BlockOf(size) ==
    {[asked |-> size, given |-> g] : g \in IF exact THEN {size} ELSE size..(size + Excess)}

Allocate(b, size) ==
    /\ block[b] = NULL
    /\ MarkAllocation(size)
    /\ \E new \in BlockOf(size) : block' = [block EXCEPT ![b] = new]
    /\ UNCHANGED <<capacity, declared, cycleVars, heapVars>>

Deallocate(b, size) ==
    /\ Fits(b, size)
    /\ MarkDeallocation(size)
    /\ block' = [block EXCEPT ![b] = NULL]
    /\ UNCHANGED <<capacity, declared, cycleVars, heapVars>>

(* Mutant: grow counts before it knows whether the allocator can. *)
GrowCounted(b, old, new, ok) ==
    /\ Fits(b, old) /\ new \in Sizes /\ new > old
    /\ MarkAllocation(new - old)
    /\ IF ok THEN \E grown \in BlockOf(new) : block' = [block EXCEPT ![b] = grown]
             ELSE UNCHANGED block
    /\ UNCHANGED <<capacity, declared, cycleVars, heapVars>>

(* grow and grow_zeroed; the inner allocator can fail, and leaves the block. *)
Grow(b, old, new, ok) ==
    /\ Fits(b, old) /\ new \in Sizes /\ new > old
    /\ IF ok THEN /\ MarkAllocation(new - old)
                  /\ \E grown \in BlockOf(new) : block' = [block EXCEPT ![b] = grown]
             ELSE UNCHANGED <<totalExternal, incurred, block>>
    /\ UNCHANGED <<capacity, declared, cycleVars, heapVars>>

Shrink(b, old, new, ok) ==
    /\ Fits(b, old) /\ new \in Sizes /\ new < old
    /\ IF ok THEN /\ MarkDeallocation(old - new)
                  /\ \E shrunk \in BlockOf(new) : block' = [block EXCEPT ![b] = shrunk]
             ELSE UNCHANGED <<totalExternal, incurred, block>>
    /\ UNCHANGED <<capacity, declared, cycleVars, heapVars>>

(* DynamicRootSet::new, the push of Slots::add that the vector grows for, and *)
(* Drop for Slots.                                                          *)
NewSlots(s) ==
    /\ capacity[s] = NULL
    /\ capacity' = [capacity EXCEPT ![s] = 0]
    /\ UNCHANGED <<block, declared, cycleVars, heapVars, totalExternal, incurred>>

GrowSlots(s, c) ==
    /\ capacity[s] # NULL /\ capacity[s] < c
    /\ MarkAllocation((c - capacity[s]) * SlotSize)
    /\ capacity' = [capacity EXCEPT ![s] = c]
    /\ UNCHANGED <<block, declared, cycleVars, heapVars>>

DropSlots(s) ==
    /\ capacity[s] # NULL
    /\ MarkDeallocation(capacity[s] * SlotSize)
    /\ capacity' = [capacity EXCEPT ![s] = NULL]
    /\ UNCHANGED <<block, declared, cycleVars, heapVars>>

External ==
    \/ \E n \in Sizes : Declare(n) \/ Retract(n)
    \/ \E b \in Blocks, size \in Sizes : Allocate(b, size)
    \/ \E b \in Blocks : block[b] # NULL /\
           \E size \in block[b].asked..block[b].given :
               \/ Deallocate(b, size)
               \/ \E new \in Sizes, ok \in BOOLEAN :
                      Grow(b, size, new, ok) \/ Shrink(b, size, new, ok)
    \/ \E s \in RootSets : NewSlots(s) \/ DropSlots(s)
    \/ \E s \in RootSets, c \in Capacities : GrowSlots(s, c)

ExternalStep ==
    \/ External
    \/ \E p \in Pacings : SetPacing(p)
    \/ \E n \in Sizes : AddDebt(n)
    \/ GcAllocated \/ Wake \/ Untraced
    \/ \E k \in Kinds : Work(k)
    \/ \E reset \in BOOLEAN : FinishCycle(reset)

ExternalNext == ExternalStep /\ UNCHANGED exact

ExternalSpec == ExternalInit /\ [][ExternalNext]_externalVars

-----------------------------------------------------------------------------
(* The counters are words and the accounts are in order.                    *)
ExternalTypeOK ==
    /\ pacing \in Pacings /\ asleep \in BOOLEAN
    /\ totalGcs \in Nat /\ totalExternal \in 0..MaxWord /\ externalStart \in 0..MaxWord
    /\ wakeupAmount \in Nat /\ artificialDebt \in Nat /\ allocated \in Nat /\ declared \in Nat
    /\ counter \in [Kinds -> Nat]
    /\ block \in [Blocks -> [asked : Nat, given : Nat] \cup {NULL}]
    /\ capacity \in [RootSets -> Nat \cup {NULL}] /\ exact \in BOOLEAN
    /\ incurred \in [heap : Nat, external : Nat]

(* total_external_allocation is what is there: the blocks at their present   *)
(* size, the capacities of the slots and what user code declared, through    *)
(* every order of growing, shrinking and dropping, and allocators that fail. *)
TotalMatches == exact => totalExternal = Owned

(* No debt without cause: a cycle never owes more than was allocated in it,  *)
(* added to it and inherited, though bytes of earlier cycles, and bytes that *)
(* were never counted, are deallocated in it.                               *)
NoPhantomDebt == AllocationDebt <= incurred.heap + incurred.external

(* Freeing external bytes pays for external bytes only (the comment in       *)
(* allocation_debt): what the heap owes is left to the collector to work off. *)
HeapDebtStays ==
    totalGcs > 0 /\ allocated < MaxWord =>
        AllocationDebt >= incurred.heap - wakeupAmount - Credits

(* External bytes move the debt in their own direction, and by no more than  *)
(* there are of them.                                                       *)
ExternalMovesDebtItsWay ==
    [][ External =>
            LET moved == (totalExternal' - totalExternal) * Byte
                owed  == AllocationDebt' - AllocationDebt
            IN IF moved >= 0 THEN owed \in 0..moved ELSE owed \in moved..0 ]_externalVars

(* The end of a cycle neither charges a byte again nor lets debt go that it  *)
(* was not told to forget: the sleep is taken off it, and nothing else.      *)
DebtCarriedOnce ==
    [][ \A reset \in BOOLEAN : FinishCycle(reset) =>
            AllocationDebt' = IF reset \/ totalGcs = 0 THEN 0
                              ELSE Larger(AllocationDebt - wakeupAmount', 0) ]_externalVars
=============================================================================
