--------------------------- MODULE ExternalBytesProofs ---------------------------
(***************************************************************************)
(* Proofs about ExternalBytes: what allocation debt promises however the     *)
(* external bytes are counted, misuse included, for every pacing.            *)
(***************************************************************************)
EXTENDS ExternalBytes, FiniteSetTheorems, TLAPS

(* Bytes are turned into debt one by one. *)
LEMMA ByteTimes ==
    /\ \A a, b \in Int : (a + b) * Byte = a * Byte + b * Byte
    /\ \A a, b \in Int : a <= b => a * Byte <= b * Byte
    /\ \A a, b \in Int : (a - b) * Byte = a * Byte - b * Byte
    /\ \A a \in Int : a * Byte \in Int
    /\ \A a \in Nat : a * Byte \in Nat
<1>0. Byte \in Nat
  BY BoundsAssumption
<1>1. \A a, b \in Int : (a + b) * Byte = a * Byte + b * Byte
  BY <1>0
<1>2. \A a, b \in Int : (a - b) * Byte = a * Byte - b * Byte
  BY <1>0
<1>3. \A a \in Nat : a * Byte \in Nat
  BY <1>0
<1>4. ASSUME NEW a \in Int, NEW b \in Int, a <= b
      PROVE  a * Byte <= b * Byte
  <2>1. b - a \in Nat
    BY <1>4
  <2>2. (b - a) * Byte \in Nat
    BY <2>1, <1>3
  <2>3. (b - a) * Byte = b * Byte - a * Byte
    BY <1>2
  <2>4. a * Byte \in Int /\ b * Byte \in Int
    BY <1>0
  <2> QED
    BY <2>2, <2>3, <2>4
<1> QED
  BY <1>0, <1>1, <1>2, <1>3, <1>4

(* How far the surplus over the start of the cycle moves. *)
LEMMA SurplusBounds ==
    /\ \A x \in Int : Larger(x, 0) \in Nat
    /\ \A x, y, z \in Int, n \in Nat : x <= y + n => Larger(x - z, 0) <= Larger(y - z, 0) + n
    /\ \A x, y, z \in Int : x <= y => Larger(x - z, 0) <= Larger(y - z, 0)
  BY DEF Larger

LEMMA SaturationBounds ==
    ASSUME NEW x \in 0..MaxWord, NEW n \in Nat
    PROVE  /\ SaturatingAdd(x, n) \in x..(x + n) /\ SaturatingAdd(x, n) \in 0..MaxWord
           /\ SaturatingAdd(x, n) < MaxWord => SaturatingAdd(x, n) = x + n
           /\ SaturatingSub(x, n) \in (x - n)..x /\ SaturatingSub(x, n) \in 0..MaxWord
  BY BoundsAssumption DEF SaturatingAdd, SaturatingSub, Larger

-----------------------------------------------------------------------------
(* What the steps do to the counters, whoever owns the bytes: external bytes *)
(* are counted, deallocated, or neither.                                    *)
Counted ==
    \E n \in Nat : /\ totalExternal' = SaturatingAdd(totalExternal, n)
                   /\ incurred' = [incurred EXCEPT !.external = @ + n * Byte]

Discounted ==
    \E n \in Nat : /\ totalExternal' = SaturatingSub(totalExternal, n)
                   /\ UNCHANGED incurred

Owners ==
    /\ block' \in [Blocks -> [asked : Nat, given : Nat] \cup {NULL}]
    /\ capacity' \in [RootSets -> Nat \cup {NULL}]
    /\ declared' \in Nat

LEMMA BlocksHaveSizes ==
    ASSUME NEW size \in Nat, NEW new \in BlockOf(size)
    PROVE  new \in [asked : Nat, given : Nat]
  BY SizesAssumption DEF BlockOf

LEMMA MarkCounts ==
    ASSUME ExternalTypeOK, NEW n \in Nat
    PROVE  /\ MarkAllocation(n) => Counted
           /\ MarkDeallocation(n) => Discounted
  BY DEF MarkAllocation, MarkDeallocation, Incur, Counted, Discounted

LEMMA ExternalSteps ==
    ASSUME ExternalTypeOK, External
    PROVE  /\ Counted \/ Discounted \/ UNCHANGED <<totalExternal, incurred>>
           /\ UNCHANGED <<cycleVars, heapVars>> /\ Owners
<1> USE SizesAssumption, BoundsAssumption
<1>1. ASSUME NEW n \in Sizes, Declare(n)
      PROVE  Counted /\ UNCHANGED <<cycleVars, heapVars>> /\ Owners
  <2>1. n \in Nat
    OBVIOUS
  <2>2. declared' \in Nat
    BY <1>1, <2>1 DEF Declare, ExternalTypeOK, SaturatingAdd
  <2> QED
    BY <1>1, <2>1, <2>2, MarkCounts DEF Declare, Owners, ExternalTypeOK
<1>2. ASSUME NEW n \in Sizes, Retract(n)
      PROVE  Discounted /\ UNCHANGED <<cycleVars, heapVars>> /\ Owners
  <2>1. n \in Nat
    OBVIOUS
  <2>2. declared' \in Nat
    BY <1>2, <2>1 DEF Retract, ExternalTypeOK, Larger
  <2> QED
    BY <1>2, <2>1, <2>2, MarkCounts DEF Retract, Owners, ExternalTypeOK
<1>3. ASSUME NEW b \in Blocks, NEW size \in Sizes, Allocate(b, size)
      PROVE  Counted /\ UNCHANGED <<cycleVars, heapVars>> /\ Owners
  <2>1. size \in Nat
    OBVIOUS
  <2>2. PICK new \in BlockOf(size) : block' = [block EXCEPT ![b] = new]
    BY <1>3 DEF Allocate
  <2>3. block' \in [Blocks -> [asked : Nat, given : Nat] \cup {NULL}]
    BY <2>1, <2>2, BlocksHaveSizes DEF ExternalTypeOK
  <2> QED
    BY <1>3, <2>1, <2>3, MarkCounts DEF Allocate, Owners, ExternalTypeOK
<1>4. ASSUME NEW b \in Blocks, block[b] # NULL, NEW size \in block[b].asked..block[b].given
      PROVE  size \in Nat
  BY <1>4 DEF ExternalTypeOK
<1>5. ASSUME NEW b \in Blocks, NEW size \in Nat, Deallocate(b, size)
      PROVE  Discounted /\ UNCHANGED <<cycleVars, heapVars>> /\ Owners
  BY <1>5, MarkCounts DEF Deallocate, Owners, ExternalTypeOK
<1>6. ASSUME NEW b \in Blocks, NEW old \in Nat, NEW new \in Sizes, NEW ok \in BOOLEAN,
             Grow(b, old, new, ok)
      PROVE  (Counted \/ UNCHANGED <<totalExternal, incurred>>)
             /\ UNCHANGED <<cycleVars, heapVars>> /\ Owners
  <2>1. new \in Nat /\ new - old \in Nat
    BY <1>6 DEF Grow
  <2>2. CASE ok
    <3>1. PICK grown \in BlockOf(new) : block' = [block EXCEPT ![b] = grown]
      BY <1>6, <2>2 DEF Grow
    <3>2. block' \in [Blocks -> [asked : Nat, given : Nat] \cup {NULL}]
      BY <2>1, <3>1, BlocksHaveSizes DEF ExternalTypeOK
    <3> QED
      BY <1>6, <2>1, <2>2, <3>2, MarkCounts DEF Grow, Owners, ExternalTypeOK
  <2>3. CASE ~ok
    BY <1>6, <2>3 DEF Grow, Owners, ExternalTypeOK
  <2> QED
    BY <2>2, <2>3
<1>7. ASSUME NEW b \in Blocks, NEW old \in Nat, NEW new \in Sizes, NEW ok \in BOOLEAN,
             Shrink(b, old, new, ok)
      PROVE  (Discounted \/ UNCHANGED <<totalExternal, incurred>>)
             /\ UNCHANGED <<cycleVars, heapVars>> /\ Owners
  <2>1. new \in Nat /\ old - new \in Nat
    BY <1>7 DEF Shrink
  <2>2. CASE ok
    <3>1. PICK shrunk \in BlockOf(new) : block' = [block EXCEPT ![b] = shrunk]
      BY <1>7, <2>2 DEF Shrink
    <3>2. block' \in [Blocks -> [asked : Nat, given : Nat] \cup {NULL}]
      BY <2>1, <3>1, BlocksHaveSizes DEF ExternalTypeOK
    <3> QED
      BY <1>7, <2>1, <2>2, <3>2, MarkCounts DEF Shrink, Owners, ExternalTypeOK
  <2>3. CASE ~ok
    BY <1>7, <2>3 DEF Shrink, Owners, ExternalTypeOK
  <2> QED
    BY <2>2, <2>3
<1>8. ASSUME NEW s \in RootSets, NewSlots(s)
      PROVE  UNCHANGED <<totalExternal, incurred>> /\ UNCHANGED <<cycleVars, heapVars>> /\ Owners
  BY <1>8 DEF NewSlots, Owners, ExternalTypeOK
<1>9. ASSUME NEW s \in RootSets, NEW c \in Capacities, GrowSlots(s, c)
      PROVE  Counted /\ UNCHANGED <<cycleVars, heapVars>> /\ Owners
  <2>0. c \in Nat /\ capacity[s] \in Nat /\ capacity[s] < c
    BY <1>9 DEF GrowSlots, ExternalTypeOK
  <2>1. (c - capacity[s]) * SlotSize \in Nat
    BY <2>0 DEF SlotSize
  <2> QED
    BY <1>9, <2>1, MarkCounts DEF GrowSlots, Owners, ExternalTypeOK
<1>10. ASSUME NEW s \in RootSets, DropSlots(s)
       PROVE  Discounted /\ UNCHANGED <<cycleVars, heapVars>> /\ Owners
  <2>1. capacity[s] * SlotSize \in Nat
    BY <1>10 DEF DropSlots, SlotSize, ExternalTypeOK
  <2> QED
    BY <1>10, <2>1, MarkCounts DEF DropSlots, Owners, ExternalTypeOK
<1> QED
  BY <1>1, <1>2, <1>3, <1>4, <1>5, <1>6, <1>7, <1>8, <1>9, <1>10 DEF External

-----------------------------------------------------------------------------
(* The debt of a cycle is made of what its history says. *)
DebtAccounted ==
    /\ AllocatedExternal * Byte <= incurred.external
    /\ allocated * Byte + artificialDebt <= incurred.heap
    /\ allocated < MaxWord => incurred.heap = allocated * Byte + artificialDebt

ExtInv == ExternalTypeOK /\ DebtAccounted

LEMMA CreditsAreNat ==
    ASSUME ExternalTypeOK
    PROVE  Credits \in Nat
<1>1. \A k \in Kinds : counter[k] \in Nat /\ pacing.factor[k] \in Nat
  BY PacingsAssumption DEF ExternalTypeOK
<1>2. \A m, n \in Nat : m * n \in Nat
  OBVIOUS
<1>3. \A k \in Kinds : counter[k] * pacing.factor[k] \in Nat
  BY <1>1, <1>2
<1>4. /\ counter["marked"] * pacing.factor["marked"] \in Nat
      /\ counter["traced"] * pacing.factor["traced"] \in Nat
      /\ counter["remembered"] * pacing.factor["remembered"] \in Nat
      /\ counter["dropped"] * pacing.factor["dropped"] \in Nat
      /\ counter["freed"] * pacing.factor["freed"] \in Nat
  BY <1>3 DEF Kinds
<1> QED
  BY <1>4 DEF Credits

(* allocation_debt is never more than the debits, and never negative. *)
LEMMA DebtBounds ==
    ASSUME ExternalTypeOK
    PROVE  /\ AllocatedExternal \in Nat
           /\ Debits \in Int
           /\ Debits = allocated * Byte + AllocatedExternal * Byte - wakeupAmount + artificialDebt
           /\ AllocationDebt \in Nat
           /\ AllocationDebt <= Larger(Debits, 0)
           /\ totalGcs > 0 => AllocationDebt >= Debits - Credits
<1>1. AllocatedExternal \in Nat
  BY BoundsAssumption DEF ExternalTypeOK, AllocatedExternal, Larger
<1>2. (allocated + AllocatedExternal) * Byte = allocated * Byte + AllocatedExternal * Byte
  BY <1>1, ByteTimes DEF ExternalTypeOK
<1>3. allocated * Byte \in Nat /\ AllocatedExternal * Byte \in Nat
  BY <1>1, ByteTimes DEF ExternalTypeOK
<1>4. /\ Debits \in Int
      /\ Debits = allocated * Byte + AllocatedExternal * Byte - wakeupAmount + artificialDebt
  BY <1>2, <1>3 DEF Debits, ExternalTypeOK
<1>5. Credits \in Nat
  BY CreditsAreNat
<1> QED
  BY <1>1, <1>4, <1>5 DEF AllocationDebt, Larger, ExternalTypeOK

LEMMA ExtInit == ExternalInit => ExtInv
<1> SUFFICES ASSUME ExternalInit PROVE ExtInv
  OBVIOUS
<1>1. counter \in [Kinds -> Nat]
  BY DEF ExternalInit, NoWork
<1>2. ExternalTypeOK
  BY <1>1, BoundsAssumption DEF ExternalInit, ExternalTypeOK
<1>3. 0 * Byte = 0
  BY BoundsAssumption
<1>4. AllocatedExternal = 0
  BY DEF ExternalInit, AllocatedExternal, Larger
<1> QED
  BY <1>2, <1>3, <1>4 DEF ExternalInit, ExtInv, DebtAccounted

(* External bytes, counted or discounted. *)
LEMMA ExternalKeepsInv ==
    ASSUME ExtInv, External, UNCHANGED exact
    PROVE  ExtInv'
<1>0. ExternalTypeOK
  BY DEF ExtInv
<1>1. UNCHANGED <<cycleVars, heapVars>> /\ Owners
  BY <1>0, ExternalSteps
<1>2. Counted \/ Discounted \/ UNCHANGED <<totalExternal, incurred>>
  BY <1>0, ExternalSteps
<1>3. ASSUME totalExternal' \in 0..MaxWord, incurred' \in [heap : Nat, external : Nat]
      PROVE  ExternalTypeOK'
  BY <1>0, <1>1, <1>3 DEF ExternalTypeOK, Owners, cycleVars, heapVars
<1>4. ASSUME NEW n \in Nat,
             totalExternal' = SaturatingAdd(totalExternal, n),
             incurred' = [incurred EXCEPT !.external = @ + n * Byte]
      PROVE  ExtInv'
  <2>1. n * Byte \in Nat
    BY ByteTimes
  <2>2. /\ incurred' \in [heap : Nat, external : Nat]
        /\ incurred'.heap = incurred.heap /\ incurred'.external = incurred.external + n * Byte
    BY <1>0, <1>4, <2>1 DEF ExternalTypeOK
  <2>3. totalExternal' \in 0..MaxWord /\ totalExternal' <= totalExternal + n
    BY <1>0, <1>4, SaturationBounds, BoundsAssumption DEF ExternalTypeOK
  <2>4. ExternalTypeOK'
    BY <1>3, <2>2, <2>3
  <2>a. /\ totalExternal \in Int /\ externalStart \in Int /\ totalExternal' \in Int
        /\ externalStart' = externalStart
    BY <1>0, <1>1, <2>3, BoundsAssumption DEF ExternalTypeOK, cycleVars
  <2>5. AllocatedExternal' \in Nat /\ AllocatedExternal \in Nat
    BY <2>a, SurplusBounds DEF AllocatedExternal
  <2>6. AllocatedExternal' <= AllocatedExternal + n
    BY <2>a, <2>3, SurplusBounds DEF AllocatedExternal
  <2>7. AllocatedExternal' * Byte <= AllocatedExternal * Byte + n * Byte
    BY <2>5, <2>6, ByteTimes
  <2>8. AllocatedExternal' * Byte \in Nat /\ AllocatedExternal * Byte \in Nat
    BY <2>5, ByteTimes
  <2>9. AllocatedExternal' * Byte <= incurred'.external
    BY <1>0, <2>1, <2>2, <2>7, <2>8 DEF ExtInv, DebtAccounted, ExternalTypeOK
  <2> QED
    BY <1>1, <2>2, <2>4, <2>9 DEF ExtInv, DebtAccounted, cycleVars, heapVars
<1>5. ASSUME totalExternal' \in 0..MaxWord, totalExternal' <= totalExternal, UNCHANGED incurred
      PROVE  ExtInv'
  <2>1. ExternalTypeOK'
    BY <1>0, <1>3, <1>5 DEF ExternalTypeOK
  <2>a. /\ totalExternal \in Int /\ externalStart \in Int /\ totalExternal' \in Int
        /\ externalStart' = externalStart
    BY <1>0, <1>1, <1>5, BoundsAssumption DEF ExternalTypeOK, cycleVars
  <2>2. AllocatedExternal' \in Nat /\ AllocatedExternal \in Nat
    BY <2>a, SurplusBounds DEF AllocatedExternal
  <2>3. AllocatedExternal' <= AllocatedExternal
    BY <2>a, <1>5, SurplusBounds DEF AllocatedExternal
  <2>4. AllocatedExternal' * Byte <= AllocatedExternal * Byte
    BY <2>2, <2>3, ByteTimes
  <2>5. AllocatedExternal' * Byte \in Nat /\ AllocatedExternal * Byte \in Nat
    BY <2>2, ByteTimes
  <2> QED
    BY <1>0, <1>1, <1>5, <2>1, <2>4, <2>5
    DEF ExtInv, DebtAccounted, ExternalTypeOK, cycleVars, heapVars
<1>6. CASE Counted
  BY <1>4, <1>6 DEF Counted
<1>7. CASE Discounted
  <2>1. PICK n \in Nat : totalExternal' = SaturatingSub(totalExternal, n) /\ UNCHANGED incurred
    BY <1>7 DEF Discounted
  <2>2. totalExternal' \in 0..MaxWord /\ totalExternal' <= totalExternal
    BY <1>0, <2>1, SaturationBounds, BoundsAssumption DEF ExternalTypeOK
  <2> QED
    BY <1>5, <2>1, <2>2
<1>8. CASE UNCHANGED <<totalExternal, incurred>>
  <2>1. totalExternal' \in 0..MaxWord /\ totalExternal' <= totalExternal
    BY <1>0, <1>8, BoundsAssumption DEF ExternalTypeOK
  <2> QED
    BY <1>5, <1>8, <2>1
<1> QED
  BY <1>2, <1>6, <1>7, <1>8

LEMMA ExtStep == ExtInv /\ [ExternalNext]_externalVars => ExtInv'
<1> SUFFICES ASSUME ExtInv, [ExternalNext]_externalVars
             PROVE  ExtInv'
  OBVIOUS
<1>a. UNCHANGED exact
  BY DEF ExternalNext, externalVars
<1> USE SizesAssumption, BoundsAssumption, <1>a
<1>0. ExternalTypeOK /\ DebtAccounted
  BY DEF ExtInv
<1>1. ASSUME NEW p \in Pacings, SetPacing(p)
      PROVE  ExtInv'
  BY <1>0, <1>1 DEF SetPacing, ExtInv, ExternalTypeOK, DebtAccounted, AllocatedExternal,
     heapVars, ownerVars
<1>2. ASSUME NEW n \in Sizes, AddDebt(n)
      PROVE  ExtInv'
  <2>1. n \in Nat /\ n * Byte \in Nat /\ allocated * Byte \in Nat
    BY <1>0, ByteTimes DEF ExternalTypeOK
  <2>2. /\ incurred' \in [heap : Nat, external : Nat]
        /\ incurred'.heap = incurred.heap + n * Byte /\ incurred'.external = incurred.external
    BY <1>0, <1>2, <2>1 DEF AddDebt, Incur, ExternalTypeOK
  <2>3. UNCHANGED <<totalExternal, externalStart, heapVars, ownerVars, pacing, wakeupAmount>>
        /\ artificialDebt' = artificialDebt + n * Byte
    BY <1>2 DEF AddDebt
  <2>4. ExternalTypeOK'
    BY <1>0, <2>1, <2>2, <2>3 DEF ExternalTypeOK, heapVars, ownerVars
  <2> QED
    BY <1>0, <2>1, <2>2, <2>3, <2>4
    DEF ExtInv, DebtAccounted, AllocatedExternal, heapVars, ExternalTypeOK
<1>3. CASE GcAllocated
  <2>1. /\ incurred' \in [heap : Nat, external : Nat]
        /\ incurred'.heap = incurred.heap + Byte /\ incurred'.external = incurred.external
    BY <1>0, <1>3 DEF GcAllocated, Incur, ExternalTypeOK
  <2>2. /\ allocated' \in Nat /\ allocated' <= allocated + 1
        /\ allocated' < MaxWord => allocated' = allocated + 1
    BY <1>0, <1>3 DEF GcAllocated, SaturatingAdd, ExternalTypeOK
  <2>3. /\ UNCHANGED <<counter, asleep, cycleVars, ownerVars, totalExternal>>
        /\ totalGcs' = totalGcs + 1
    BY <1>3 DEF GcAllocated
  <2>4. ExternalTypeOK'
    BY <1>0, <2>1, <2>2, <2>3 DEF ExternalTypeOK, cycleVars, ownerVars
  <2>5. allocated' * Byte <= (allocated + 1) * Byte
    <3>1. allocated' \in Int /\ allocated + 1 \in Int /\ allocated' <= allocated + 1
      BY <1>0, <2>2 DEF ExternalTypeOK
    <3> QED
      BY <3>1, ByteTimes
  <2>6. (allocated + 1) * Byte = allocated * Byte + Byte
    BY <1>0 DEF ExternalTypeOK
  <2>7. allocated * Byte \in Nat /\ allocated' * Byte \in Nat
    BY <1>0, <2>2, ByteTimes DEF ExternalTypeOK
  <2>8. allocated' * Byte + artificialDebt' <= incurred'.heap
    BY <1>0, <2>1, <2>3, <2>5, <2>6, <2>7 DEF DebtAccounted, ExternalTypeOK, cycleVars
  <2>9. ASSUME allocated' < MaxWord
        PROVE  incurred'.heap = allocated' * Byte + artificialDebt'
    <3>1. allocated < MaxWord /\ allocated' = allocated + 1
      BY <1>0, <2>2, <2>9 DEF ExternalTypeOK
    <3> QED
      BY <1>0, <2>1, <2>3, <2>6, <2>7, <3>1 DEF DebtAccounted, ExternalTypeOK, cycleVars
  <2> QED
    BY <1>0, <2>1, <2>3, <2>4, <2>8, <2>9
    DEF ExtInv, DebtAccounted, AllocatedExternal, cycleVars
<1>4. ASSUME UNCHANGED <<cycleVars, ownerVars, totalExternal, incurred, allocated>>,
             totalGcs' \in Nat, counter' \in [Kinds -> Nat], asleep' \in BOOLEAN
      PROVE  ExtInv'
  BY <1>0, <1>4 DEF ExtInv, ExternalTypeOK, DebtAccounted, AllocatedExternal, cycleVars, ownerVars
<1>5. CASE Wake
  BY <1>0, <1>4, <1>5 DEF Wake, ExternalTypeOK
<1>6. ASSUME NEW k \in Kinds, Work(k)
      PROVE  ExtInv'
  <2>1. totalGcs' \in Nat
    BY <1>0, <1>6 DEF Work, ExternalTypeOK
  <2>2. counter' \in [Kinds -> Nat]
    BY <1>0, <1>6 DEF Work, ExternalTypeOK
  <2> QED
    BY <1>0, <1>4, <1>6, <2>1, <2>2 DEF Work, ExternalTypeOK
<1>7. CASE Untraced
  <2>1. counter' \in [Kinds -> Nat]
    BY <1>0, <1>7 DEF Untraced, ExternalTypeOK, Kinds
  <2> QED
    BY <1>0, <1>4, <1>7, <2>1 DEF Untraced, ExternalTypeOK
<1>8. ASSUME NEW reset \in BOOLEAN, FinishCycle(reset)
      PROVE  ExtInv'
  <2>1. AllocationDebt \in Nat
    BY <1>0, DebtBounds
  <2>2. /\ artificialDebt' \in Nat /\ incurred'.heap = artificialDebt'
        /\ incurred' \in [heap : Nat, external : Nat] /\ incurred'.external = 0
    BY <1>8, <2>1 DEF FinishCycle
  <2>3. wakeupAmount' \in Nat
    <3>1. counter["remembered"] \in Nat /\ pacing.sleep \in Nat /\ pacing.minSleep \in Nat
      BY <1>0, PacingsAssumption DEF ExternalTypeOK, Kinds
    <3>2. \A m, n \in Nat : m * n \in Nat
      OBVIOUS
    <3>3. counter["remembered"] * pacing.sleep \in Nat /\ pacing.minSleep * Byte \in Nat
      BY <3>1, <3>2
    <3> QED
      BY <1>8, <3>3 DEF FinishCycle, Larger
  <2>4. /\ allocated' = 0 /\ externalStart' = totalExternal' /\ counter' \in [Kinds -> Nat]
        /\ asleep' \in BOOLEAN
        /\ UNCHANGED <<pacing, totalGcs, ownerVars, totalExternal>>
    BY <1>8 DEF FinishCycle, StartAnew, NoWork
  <2>5. ExternalTypeOK'
    BY <1>0, <2>2, <2>3, <2>4 DEF ExternalTypeOK, ownerVars
  <2>6. AllocatedExternal' = 0 /\ 0 * Byte = 0
    BY <2>4, <2>5 DEF AllocatedExternal, Larger, ExternalTypeOK
  <2>7. allocated' * Byte = 0 /\ AllocatedExternal' * Byte = 0
    BY <2>4, <2>6
  <2> QED
    BY <2>2, <2>5, <2>7 DEF ExtInv, DebtAccounted
<1>9. CASE UNCHANGED externalVars
  BY <1>0, <1>9 DEF ExtInv, ExternalTypeOK, DebtAccounted, AllocatedExternal, externalVars,
     cycleVars, heapVars, ownerVars
<1> QED
  BY <1>1, <1>2, <1>3, <1>5, <1>6, <1>7, <1>8, <1>9, ExternalKeepsInv DEF ExternalNext, ExternalStep

LEMMA ExtInvariance == ExternalSpec => []ExtInv
  BY ExtInit, ExtStep, PTL DEF ExternalSpec

-----------------------------------------------------------------------------
(* A cycle never owes more than it has cause to, whatever is deallocated in  *)
(* it, and for every pacing.                                                *)
THEOREM DebtHasCause == ExternalSpec => []NoPhantomDebt
<1>1. ExtInv => NoPhantomDebt
  <2> SUFFICES ASSUME ExtInv PROVE AllocationDebt <= incurred.heap + incurred.external
    BY DEF NoPhantomDebt
  <2>1. ExternalTypeOK /\ DebtAccounted
    BY DEF ExtInv
  <2>2. allocated * Byte \in Nat /\ AllocatedExternal * Byte \in Nat
    BY <2>1, DebtBounds, ByteTimes DEF ExternalTypeOK
  <2> QED
    BY <2>1, <2>2, DebtBounds DEF DebtAccounted, ExternalTypeOK, Larger
<1> QED
  BY <1>1, ExtInvariance, PTL

(* External bytes, deallocated in whatever cycle and however many, never pay *)
(* for boxes.                                                               *)
THEOREM HeapPaysItsDebt == ExternalSpec => []HeapDebtStays
<1>1. ExtInv => HeapDebtStays
  <2> SUFFICES ASSUME ExtInv, totalGcs > 0, allocated < MaxWord
               PROVE  AllocationDebt >= incurred.heap - wakeupAmount - Credits
    BY DEF HeapDebtStays
  <2>1. ExternalTypeOK /\ DebtAccounted
    BY DEF ExtInv
  <2>2. allocated * Byte \in Nat /\ AllocatedExternal * Byte \in Nat /\ Credits \in Nat
    BY <2>1, DebtBounds, ByteTimes, CreditsAreNat DEF ExternalTypeOK
  <2> QED
    BY <2>1, <2>2, DebtBounds DEF DebtAccounted, ExternalTypeOK
<1> QED
  BY <1>1, ExtInvariance, PTL

-----------------------------------------------------------------------------
(* Without boxes there is no debt; with them it is what is left of the       *)
(* debits, since credits are never negative.                                *)
DebtIsSurplus ==
    /\ Debits \in Int /\ Credits \in Nat
    /\ AllocationDebt = IF totalGcs = 0 THEN 0 ELSE Larger(Debits - Credits, 0)
    /\ Debits = allocated * Byte + AllocatedExternal * Byte - wakeupAmount + artificialDebt

LEMMA DebtSurplus == ExternalTypeOK => DebtIsSurplus
<1> SUFFICES ASSUME ExternalTypeOK PROVE DebtIsSurplus
  OBVIOUS
<1>1. Debits \in Int /\ Credits \in Nat
  BY DebtBounds, CreditsAreNat
<1> QED
  BY <1>1, DebtBounds DEF DebtIsSurplus, AllocationDebt, Larger

LEMMA DebtSurplusNext == ExternalTypeOK' => DebtIsSurplus'
  BY DebtSurplus, PTL

(* The debt moves with the total, and by no more: x and y are the totals,    *)
(* z the start of the cycle, a the other debits and c the credits.           *)
Owed(x, z, a, c) == Larger(a + Larger(x - z, 0) * Byte - c, 0)

LEMMA OwedMoves ==
    \A x, y, z, a, c \in Int :
        IF (x - y) * Byte >= 0
        THEN Owed(x, z, a, c) - Owed(y, z, a, c) \in 0..((x - y) * Byte)
        ELSE Owed(x, z, a, c) - Owed(y, z, a, c) \in ((x - y) * Byte)..0
<1> SUFFICES ASSUME NEW x \in Int, NEW y \in Int, NEW z \in Int, NEW a \in Int, NEW c \in Int
             PROVE  IF (x - y) * Byte >= 0
                    THEN Owed(x, z, a, c) - Owed(y, z, a, c) \in 0..((x - y) * Byte)
                    ELSE Owed(x, z, a, c) - Owed(y, z, a, c) \in ((x - y) * Byte)..0
  OBVIOUS
<1> DEFINE u == Larger(x - z, 0)
           v == Larger(y - z, 0)
<1>1. u \in Int /\ v \in Int
  BY DEF Larger
<1>2. IF y <= x THEN 0 <= u - v /\ u - v <= x - y ELSE x - y <= u - v /\ u - v <= 0
  BY DEF Larger
<1> HIDE DEF u, v
<1>3. /\ u * Byte \in Int /\ v * Byte \in Int /\ (x - y) * Byte \in Int
      /\ (u - v) * Byte = u * Byte - v * Byte /\ 0 * Byte = 0
  BY <1>1, ByteTimes, BoundsAssumption
<1>4. CASE y <= x
  <2>1. 0 * Byte <= (u - v) * Byte /\ (u - v) * Byte <= (x - y) * Byte
    BY <1>1, <1>2, <1>4, ByteTimes
  <2>2. Larger(a + u * Byte - c, 0) - Larger(a + v * Byte - c, 0) \in 0..((x - y) * Byte)
    BY <1>3, <2>1 DEF Larger
  <2> QED
    BY <1>3, <2>1, <2>2 DEF Owed, u, v
<1>5. CASE ~(y <= x)
  <2>1. (x - y) * Byte <= (u - v) * Byte /\ (u - v) * Byte <= 0 * Byte
    BY <1>1, <1>2, <1>5, ByteTimes
  <2>2. Larger(a + u * Byte - c, 0) - Larger(a + v * Byte - c, 0) \in ((x - y) * Byte)..0
    BY <1>3, <2>1 DEF Larger
  <2>3. (x - y) * Byte >= 0 => (x - y) * Byte = 0
    BY <1>3, <2>1
  <2> QED
    BY <1>3, <2>2, <2>3 DEF Owed, u, v
<1> QED
  BY <1>4, <1>5

(* What the heap owes or has paid is not touched by external bytes, and      *)
(* debt moves in the direction of the bytes.                                *)
THEOREM ExternalBytesMoveDebt == ExternalSpec => ExternalMovesDebtItsWay
<1> DEFINE moved == (totalExternal' - totalExternal) * Byte
           owed  == AllocationDebt' - AllocationDebt
           Moves == External => IF moved >= 0 THEN owed \in 0..moved ELSE owed \in moved..0
<1>1. ASSUME ExtInv, External, ExtInv'
      PROVE  IF moved >= 0 THEN owed \in 0..moved ELSE owed \in moved..0
  <2> DEFINE a == allocated * Byte - wakeupAmount + artificialDebt
  <2>1. DebtIsSurplus /\ DebtIsSurplus'
    BY <1>1, DebtSurplus, DebtSurplusNext DEF ExtInv
  <2>2. UNCHANGED <<cycleVars, heapVars>>
    BY <1>1, ExternalSteps DEF ExtInv
  <2>3. /\ totalExternal \in Int /\ totalExternal' \in Int /\ externalStart \in Int
        /\ allocated * Byte \in Int /\ wakeupAmount \in Int /\ artificialDebt \in Int
    BY <1>1, ByteTimes, BoundsAssumption DEF ExtInv, ExternalTypeOK
  <2>4. a \in Int
    BY <2>3
  <2>5. Credits' = Credits /\ Credits \in Int
    BY <2>1, <2>2 DEF Credits, cycleVars, heapVars, DebtIsSurplus
  <2>6. AllocatedExternal * Byte \in Int /\ AllocatedExternal' * Byte \in Int
    <3>1. Larger(totalExternal - externalStart, 0) \in Int
      BY <2>3 DEF Larger
    <3>2. Larger(totalExternal' - externalStart, 0) \in Int
      BY <2>3, SurplusBounds
    <3>3. AllocatedExternal' = Larger(totalExternal' - externalStart, 0)
      BY <2>2 DEF AllocatedExternal, cycleVars
    <3> QED
      BY <3>1, <3>2, <3>3, ByteTimes DEF AllocatedExternal
  <2>7. /\ Debits = a + AllocatedExternal * Byte
        /\ Debits' = a + AllocatedExternal' * Byte
    BY <2>1, <2>2, <2>3, <2>6 DEF DebtIsSurplus, cycleVars, heapVars
  <2>8. CASE totalGcs = 0
    <3>1. owed = 0
      BY <2>1, <2>2, <2>8 DEF DebtIsSurplus, heapVars
    <3>2. moved \in Int
      BY <2>3, ByteTimes
    <3> QED
      BY <3>1, <3>2
  <2>9. CASE totalGcs # 0
    <3> HIDE DEF a
    <3>1. AllocationDebt = Owed(totalExternal, externalStart, a, Credits)
      <4>1. AllocationDebt = Larger(a + AllocatedExternal * Byte - Credits, 0)
        BY <2>1, <2>4, <2>5, <2>6, <2>7, <2>9 DEF DebtIsSurplus
      <4> QED
        BY <4>1 DEF Owed, AllocatedExternal
    <3>2. AllocationDebt' = Owed(totalExternal', externalStart, a, Credits)
      <4>1. AllocationDebt' = Larger(a + AllocatedExternal' * Byte - Credits, 0)
        BY <2>1, <2>2, <2>4, <2>5, <2>6, <2>7, <2>9 DEF DebtIsSurplus, heapVars
      <4>2. AllocatedExternal' = Larger(totalExternal' - externalStart, 0)
        BY <2>2 DEF AllocatedExternal, cycleVars
      <4> QED
        BY <4>1, <4>2 DEF Owed
    <3> QED
      BY <2>3, <2>4, <2>5, <3>1, <3>2, OwedMoves
  <2> QED
    BY <2>8, <2>9
<1>2. ExtInv /\ ExtInv' /\ [ExternalNext]_externalVars => [Moves]_externalVars
  BY <1>1
<1>3. ExternalSpec => [][Moves]_externalVars
  BY <1>2, ExtInvariance, PTL DEF ExternalSpec
<1> QED
  BY <1>3 DEF ExternalMovesDebtItsWay

(* No byte is charged in two cycles, and no debt is lost between them.       *)
THEOREM DebtIsCarriedOnce == ExternalSpec => DebtCarriedOnce
<1> DEFINE Carried ==
        \A reset \in BOOLEAN : FinishCycle(reset) =>
            AllocationDebt' = IF reset \/ totalGcs = 0 THEN 0
                              ELSE Larger(AllocationDebt - wakeupAmount', 0)
<1>1. ASSUME ExtInv, ExtInv', NEW reset \in BOOLEAN, FinishCycle(reset)
      PROVE  AllocationDebt' = IF reset \/ totalGcs = 0 THEN 0
                               ELSE Larger(AllocationDebt - wakeupAmount', 0)
  <2>1. DebtIsSurplus /\ DebtIsSurplus' /\ ExternalTypeOK /\ ExternalTypeOK'
    BY <1>1, DebtSurplus, DebtSurplusNext DEF ExtInv
  <2>2. /\ allocated' = 0 /\ counter' = NoWork /\ totalGcs' = totalGcs
        /\ externalStart' = totalExternal' /\ artificialDebt' = IF reset THEN 0 ELSE AllocationDebt
    BY <1>1 DEF FinishCycle, StartAnew
  <2>3. Credits' = 0
    <3>1. \A k \in Kinds : counter'[k] = 0 /\ pacing'.factor[k] \in Nat
      BY <2>1, <2>2, PacingsAssumption DEF NoWork, ExternalTypeOK
    <3>2. \A n \in Nat : 0 * n = 0
      OBVIOUS
    <3>3. \A k \in Kinds : counter'[k] * pacing'.factor[k] = 0
      BY <3>1, <3>2
    <3> QED
      BY <3>3 DEF Credits, Kinds
  <2>4. AllocatedExternal' = 0
    <3>1. totalExternal' \in Int
      BY <2>1, BoundsAssumption DEF ExternalTypeOK
    <3>2. \A x \in Int : Larger(x - x, 0) = 0
      BY DEF Larger
    <3> QED
      BY <2>2, <3>1, <3>2 DEF AllocatedExternal
  <2>5. wakeupAmount' \in Nat /\ artificialDebt' \in Nat
    BY <2>1 DEF ExternalTypeOK
  <2>6. 0 * Byte = 0
    BY BoundsAssumption
  <2>7. Debits' = artificialDebt' - wakeupAmount'
    BY <2>1, <2>2, <2>4, <2>5, <2>6 DEF DebtIsSurplus
  <2>8. Debits' - 0 = Debits'
    BY <2>1 DEF DebtIsSurplus
  <2>9. AllocationDebt' = IF totalGcs = 0 THEN 0 ELSE Larger(artificialDebt' - wakeupAmount', 0)
    BY <2>1, <2>2, <2>3, <2>7, <2>8 DEF DebtIsSurplus
  <2>10. \A w \in Nat : Larger(0 - w, 0) = 0
    BY DEF Larger
  <2> QED
    BY <2>2, <2>5, <2>9, <2>10
<1>2. ExtInv /\ ExtInv' /\ [ExternalNext]_externalVars => [Carried]_externalVars
  BY <1>1
<1>3. ExternalSpec => [][Carried]_externalVars
  BY <1>2, ExtInvariance, PTL DEF ExternalSpec
<1> QED
  BY <1>3 DEF DebtCarriedOnce

-----------------------------------------------------------------------------
(* Sums over finite sets.                                                   *)

(* One unit for each that a function gives to an element of S. *)
Units(h, S) == UNION {{x} \X (1..h[x]) : x \in S}

(* Taking an element out takes its units out. *)
LEMMA UnitsOf ==
    ASSUME NEW S, NEW h, IsFiniteSet(S), \A y \in S : h[y] \in Nat, NEW x \in S
    PROVE  /\ IsFiniteSet(Units(h, S \ {x})) /\ IsFiniteSet(Units(h, S))
           /\ Cardinality(Units(h, S)) = h[x] + Cardinality(Units(h, S \ {x}))
<1>1. ASSUME NEW T \in SUBSET S PROVE IsFiniteSet(Units(h, T))
  <2>1. \A y \in T : IsFiniteSet({y} \X (1..h[y]))
    <3>1. ASSUME NEW y \in T PROVE IsFiniteSet({y} \X (1..h[y]))
      <4>1. h[y] \in Int
        OBVIOUS
      <4>2. IsFiniteSet(1..h[y])
        BY <4>1, FS_Interval
      <4> QED
        BY <4>2, FS_Singleton, FS_Product
    <3> QED
      BY <3>1
  <2> DEFINE Parts == {{y} \X (1..h[y]) : y \in T}
  <2>2. IsFiniteSet(Parts)
    <3>1. IsFiniteSet(T)
      BY FS_Subset
    <3> DEFINE p == [y \in T |-> {y} \X (1..h[y])]
    <3>2. p \in Surjection(T, Parts)
      BY DEF Surjection
    <3> QED
      BY <3>1, <3>2, FS_Surjection
  <2>3. IsFiniteSet(UNION Parts)
    BY <2>1, <2>2, FS_UNION
  <2> QED
    BY <2>3 DEF Units
<1>2. IsFiniteSet({x} \X (1..h[x])) /\ Cardinality({x} \X (1..h[x])) = h[x]
  <2>1. h[x] \in Nat
    OBVIOUS
  <2>2. IsFiniteSet(1..h[x]) /\ Cardinality(1..h[x]) = h[x]
    BY <2>1, FS_Interval, SMTT(60)
  <2>3. IsFiniteSet({x}) /\ Cardinality({x}) = 1
    BY FS_Singleton
  <2>4. /\ IsFiniteSet({x} \X (1..h[x]))
        /\ Cardinality({x} \X (1..h[x])) = Cardinality({x}) * Cardinality(1..h[x])
    BY <2>2, <2>3, FS_Product
  <2> QED
    BY <2>1, <2>2, <2>3, <2>4
<1>3. Units(h, S) = ({x} \X (1..h[x])) \cup Units(h, S \ {x})
  BY DEF Units
<1>4. ({x} \X (1..h[x])) \cap Units(h, S \ {x}) = {}
  BY DEF Units
<1>5. IsFiniteSet(Units(h, S \ {x}))
  BY <1>1
<1>6. Cardinality(Units(h, S)) = Cardinality({x} \X (1..h[x])) + Cardinality(Units(h, S \ {x}))
                                 - Cardinality(({x} \X (1..h[x])) \cap Units(h, S \ {x}))
  BY <1>2, <1>3, <1>5, FS_Union
<1>7. Cardinality(Units(h, S \ {x})) \in Nat /\ Cardinality({}) = 0 /\ h[x] \in Nat
  BY <1>5, FS_CardinalityType, FS_EmptySet
<1>8. Cardinality(Units(h, S)) = h[x] + Cardinality(Units(h, S \ {x})) - Cardinality({})
  BY <1>2, <1>4, <1>6
<1>9. IsFiniteSet(Units(h, S))
  BY <1>1
<1> QED
  BY <1>5, <1>7, <1>8, <1>9

(* A sum counts units.  The smallest set of which it would not be true is     *)
(* neither empty nor has it an element to take out.                          *)
LEMMA SumCounts ==
    ASSUME NEW D, IsFiniteSet(D), NEW h \in [D -> Nat]
    PROVE  SumFunction(h) = Cardinality(Units(h, D))
<1> DEFINE Sums(f) == f = [S \in SUBSET D |-> IF S = {} THEN 0
                             ELSE LET x == CHOOSE x \in S : TRUE IN h[x] + f[S \ {x}]]
           Counts == [S \in SUBSET D |-> Cardinality(Units(h, S))]
<1>1. SumFunction(h) = (CHOOSE f : Sums(f))[D]
  BY DEF SumFunction, SumFunctionOnSet, FoldFunctionOnSet, MapThenFoldSet
<1>2. Units(h, {}) = {} /\ Cardinality({}) = 0
  BY FS_EmptySet DEF Units
<1>3. ASSUME NEW S \in SUBSET D, S # {}
      PROVE  LET x == CHOOSE x \in S : TRUE
             IN  /\ x \in S
                 /\ Cardinality(Units(h, S)) = h[x] + Cardinality(Units(h, S \ {x}))
  <2> DEFINE x == CHOOSE y \in S : TRUE
  <2>1. x \in S
    BY <1>3
  <2>2. IsFiniteSet(S) /\ \A y \in S : h[y] \in Nat
    BY FS_Subset
  <2>3. Cardinality(Units(h, S)) = h[x] + Cardinality(Units(h, S \ {x}))
    BY <2>1, <2>2, UnitsOf, ZenonT(60)
  <2> QED
    BY <2>1, <2>3
<1>4. Sums(Counts)
  <2>1. ASSUME NEW S \in SUBSET D
        PROVE  Counts[S] = IF S = {} THEN 0
                             ELSE LET x == CHOOSE x \in S : TRUE IN h[x] + Counts[S \ {x}]
    <3>1. CASE S = {}
      BY <1>2, <3>1
    <3>2. CASE S # {}
      <4>1. \A x \in S : Counts[S \ {x}] = Cardinality(Units(h, S \ {x}))
        OBVIOUS
      <4> QED
        BY <1>3, <3>2, <4>1
    <3> QED
      BY <3>1, <3>2
  <2> QED
    BY <2>1
<1>5. ASSUME NEW f, Sums(f) PROVE f[D] = Cardinality(Units(h, D))
  <2> DEFINE Wrong == {S \in SUBSET D : f[S] # Cardinality(Units(h, S))}
  <2>1. SUFFICES ASSUME Wrong # {} PROVE FALSE
    OBVIOUS
  <2>2. IsWellFoundedOn(StrictSubsetOrdering(D), SUBSET D)
    BY FS_StrictSubsetOrderingWellFounded, FS_FiniteSubsetsOfFinite
  <2>3. PICK S \in Wrong : \A T \in Wrong : <<T, S>> \notin StrictSubsetOrdering(D)
    BY <2>1, <2>2, WFMin
  <2>4. ASSUME NEW x \in S PROVE f[S \ {x}] = Cardinality(Units(h, S \ {x}))
    <3>1. <<S \ {x}, S>> \in StrictSubsetOrdering(D)
      BY <2>4 DEF StrictSubsetOrdering
    <3> QED
      BY <2>3, <3>1
  <2>5. f[S] = IF S = {} THEN 0 ELSE LET x == CHOOSE x \in S : TRUE IN h[x] + f[S \ {x}]
    BY <1>5
  <2>6. f[S] = Cardinality(Units(h, S))
    <3>1. CASE S = {}
      BY <1>2, <2>5, <3>1
    <3>2. CASE S # {}
      BY <1>3, <2>4, <2>5, <3>2
    <3> QED
      BY <3>1, <3>2
  <2> QED
    BY <2>3, <2>6
<1>6. Sums(CHOOSE f : Sums(f))
  <2> HIDE DEF Sums
  <2> QED
    BY <1>4
<1> HIDE DEF Sums
<1> QED
  BY <1>1, <1>5, <1>6

(* Changing one term changes the sum by as much. *)
LEMMA SumExcept ==
    ASSUME NEW D, IsFiniteSet(D), NEW h \in [D -> Nat], NEW g \in [D -> Nat], NEW x \in D,
           \A y \in D \ {x} : g[y] = h[y]
    PROVE  /\ SumFunction(h) \in Nat /\ h[x] <= SumFunction(h)
           /\ SumFunction(g) = SumFunction(h) - h[x] + g[x]
<1>1. Units(g, D \ {x}) = Units(h, D \ {x})
  BY DEF Units
<1>2. /\ SumFunction(h) = Cardinality(Units(h, D)) /\ SumFunction(g) = Cardinality(Units(g, D))
  BY SumCounts
<1>3. /\ Cardinality(Units(h, D)) = h[x] + Cardinality(Units(h, D \ {x}))
      /\ IsFiniteSet(Units(h, D \ {x}))
      /\ Cardinality(Units(g, D)) = g[x] + Cardinality(Units(g, D \ {x}))
  BY UnitsOf
<1>4. Cardinality(Units(h, D \ {x})) \in Nat /\ h[x] \in Nat /\ g[x] \in Nat
  BY <1>3, FS_CardinalityType
<1> QED
  BY <1>1, <1>2, <1>3, <1>4

(* A sum is a number, also that of no terms. *)
LEMMA SumIsNat ==
    ASSUME NEW D, IsFiniteSet(D), NEW h \in [D -> Nat]
    PROVE  SumFunction(h) \in Nat
<1>1. CASE D = {}
  <2>1. Units(h, D) = {}
    BY <1>1 DEF Units
  <2> QED
    BY <2>1, SumCounts, FS_EmptySet
<1>2. CASE D # {}
  BY <1>2, SumExcept
<1> QED
  BY <1>1, <1>2

-----------------------------------------------------------------------------
(* The total of external bytes.                                             *)

(* Where callers are exact, a block is given back as what was asked for.     *)
TotalInv ==
    exact => /\ totalExternal = Owned
             /\ \A b \in Blocks : block[b] # NULL => block[b].given = block[b].asked

(* What owners have is counted in numbers. *)
OwnedInNat ==
    /\ InBlock \in [Blocks -> Nat] /\ InSlots \in [RootSets -> Nat]
    /\ SumFunction(InBlock) \in Nat /\ SumFunction(InSlots) \in Nat /\ declared \in Nat

(* Typed states have sums: owners are finitely many. *)
LEMMA OwnedTypes == ExternalTypeOK => OwnedInNat
<1> SUFFICES ASSUME ExternalTypeOK PROVE OwnedInNat
  OBVIOUS
<1>1. InBlock \in [Blocks -> Nat]
  BY DEF ExternalTypeOK, InBlock
<1>2. InSlots \in [RootSets -> Nat]
  BY DEF ExternalTypeOK, InSlots, SlotSize
<1> QED
  BY <1>1, <1>2, SumIsNat, OwnersAssumption DEF OwnedInNat, ExternalTypeOK

(* A block that changes its size changes what is owned by as much. *)
LEMMA BlockOwned ==
    ASSUME ExternalTypeOK, ExternalTypeOK', NEW b \in Blocks,
           \A q \in Blocks \ {b} : block'[q] = block[q], UNCHANGED <<capacity, declared>>
    PROVE  Owned' = Owned - InBlock[b] + InBlock'[b] /\ InBlock[b] <= Owned
<1>1. \A q \in Blocks \ {b} : InBlock'[q] = InBlock[q]
  BY DEF InBlock
<1>2. InBlock \in [Blocks -> Nat] /\ InBlock' \in [Blocks -> Nat]
  <2>1. OwnedInNat /\ OwnedInNat'
    BY OwnedTypes, PTL
  <2> QED
    BY <2>1 DEF OwnedInNat
<1>3. /\ SumFunction(InBlock') = SumFunction(InBlock) - InBlock[b] + InBlock'[b]
      /\ InBlock[b] <= SumFunction(InBlock)
  BY <1>1, <1>2, SumExcept, OwnersAssumption
<1>4. InSlots' = InSlots
  BY DEF InSlots
<1>5. Owned' = SumFunction(InBlock') + SumFunction(InSlots) + declared
  BY <1>4 DEF Owned
<1>6. InBlock'[b] \in Nat /\ InBlock[b] \in Nat
  BY <1>2
<1> QED
  BY <1>3, <1>5, <1>6, OwnedTypes DEF OwnedInNat, Owned

(* A vector of slots that changes its capacity, likewise. *)
LEMMA SlotsOwned ==
    ASSUME ExternalTypeOK, ExternalTypeOK', NEW s \in RootSets,
           \A q \in RootSets \ {s} : capacity'[q] = capacity[q], UNCHANGED <<block, declared>>
    PROVE  Owned' = Owned - InSlots[s] + InSlots'[s] /\ InSlots[s] <= Owned
<1>1. \A q \in RootSets \ {s} : InSlots'[q] = InSlots[q]
  BY DEF InSlots
<1>2. InSlots \in [RootSets -> Nat] /\ InSlots' \in [RootSets -> Nat]
  <2>1. OwnedInNat /\ OwnedInNat'
    BY OwnedTypes, PTL
  <2> QED
    BY <2>1 DEF OwnedInNat
<1>3. /\ SumFunction(InSlots') = SumFunction(InSlots) - InSlots[s] + InSlots'[s]
      /\ InSlots[s] <= SumFunction(InSlots)
  BY <1>1, <1>2, SumExcept, OwnersAssumption
<1>4. InBlock' = InBlock
  BY DEF InBlock
<1>5. Owned' = SumFunction(InBlock) + SumFunction(InSlots') + declared
  BY <1>4 DEF Owned
<1>6. InSlots'[s] \in Nat /\ InSlots[s] \in Nat
  BY <1>2
<1> QED
  BY <1>3, <1>5, <1>6, OwnedTypes DEF OwnedInNat, Owned

(* Callers that are exact never saturate the total. *)
LEMMA ExactCounts ==
    ASSUME ExternalTypeOK, exact, totalExternal = Owned, NEW n \in Nat
    PROVE  /\ MarkAllocation(n) => totalExternal' = Owned + n /\ Owned + n <= MaxWord
           /\ MarkDeallocation(n) /\ n <= Owned => totalExternal' = Owned - n
<1>1. Owned \in Nat
  BY OwnedTypes DEF OwnedInNat, Owned
<1> QED
  BY <1>1, BoundsAssumption DEF MarkAllocation, MarkDeallocation, SaturatingAdd, SaturatingSub,
     Larger

(* The callers of Metrics, one by one. *)
LEMMA TotalStep ==
    ASSUME ExternalTypeOK, ExternalTypeOK', TotalInv, External, exact, exact'
    PROVE  TotalInv'
<1> USE SizesAssumption DEF TotalInv
<1>0. /\ totalExternal = Owned /\ Owned \in Nat /\ SumFunction(InBlock) \in Nat
      /\ SumFunction(InSlots) \in Nat /\ declared \in Nat
      /\ Owned = SumFunction(InBlock) + SumFunction(InSlots) + declared
  BY OwnedTypes DEF OwnedInNat, Owned
<1>1. ASSUME NEW n \in Sizes, Declare(n)
      PROVE  TotalInv'
  <2>1. totalExternal' = Owned + n /\ Owned + n <= MaxWord /\ n \in Nat
    BY <1>0, <1>1, ExactCounts DEF Declare
  <2>2. declared' = declared + n /\ UNCHANGED <<block, capacity>>
    BY <1>0, <1>1, <2>1, BoundsAssumption DEF Declare, SaturatingAdd
  <2>3. Owned' = SumFunction(InBlock) + SumFunction(InSlots) + (declared + n)
    BY <2>2 DEF Owned, InBlock, InSlots
  <2> QED
    BY <1>0, <2>1, <2>2, <2>3
<1>2. ASSUME NEW n \in Sizes, Retract(n)
      PROVE  TotalInv'
  <2>1. n <= declared /\ n \in Nat
    BY <1>2 DEF Retract
  <2>2. totalExternal' = Owned - n
    BY <1>0, <1>2, <2>1, ExactCounts DEF Retract
  <2>3. declared' = declared - n /\ UNCHANGED <<block, capacity>>
    BY <1>0, <1>2, <2>1 DEF Retract, Larger
  <2>4. Owned' = SumFunction(InBlock) + SumFunction(InSlots) + (declared - n)
    BY <2>3 DEF Owned, InBlock, InSlots
  <2> QED
    BY <1>0, <2>1, <2>2, <2>3, <2>4
<1>3. ASSUME NEW b \in Blocks, NEW d \in Int,
             \A q \in Blocks \ {b} : block'[q] = block[q], UNCHANGED <<capacity, declared>>,
             InBlock'[b] = InBlock[b] + d, totalExternal' = Owned + d,
             block'[b] # NULL => block'[b].given = block'[b].asked
      PROVE  TotalInv'
  <2>1. Owned' = Owned - InBlock[b] + (InBlock[b] + d)
    BY <1>3, BlockOwned
  <2>2. InBlock[b] \in Nat
    BY OwnedTypes DEF OwnedInNat
  <2> QED
    BY <1>0, <1>3, <2>1, <2>2
<1>4. ASSUME NEW b \in Blocks, NEW size \in Sizes, Allocate(b, size)
      PROVE  TotalInv'
  <2>1. totalExternal' = Owned + size /\ size \in Nat
    BY <1>0, <1>4, ExactCounts DEF Allocate
  <2>2. /\ block' = [block EXCEPT ![b] = [asked |-> size, given |-> size]] /\ block[b] = NULL
        /\ UNCHANGED <<capacity, declared>>
    BY <1>4 DEF Allocate, BlockOf
  <2>3. block'[b] = [asked |-> size, given |-> size] /\ block'[b] # NULL
    BY <2>1, <2>2, NullAssumption DEF ExternalTypeOK
  <2>4. InBlock[b] = 0 /\ InBlock'[b] = size
    BY <2>2, <2>3 DEF InBlock
  <2> QED
    BY <1>3, <2>1, <2>2, <2>3, <2>4 DEF ExternalTypeOK
<1>5. ASSUME NEW b \in Blocks, NEW old, Fits(b, old)
      PROVE  /\ old \in Nat /\ InBlock[b] = old /\ block[b] # NULL
             /\ old <= Owned
  <2>1. block[b] \in [asked : Nat, given : Nat] /\ block[b].given = block[b].asked
        /\ old \in block[b].asked..block[b].given /\ block[b] # NULL
    BY <1>5 DEF Fits, ExternalTypeOK
  <2>2. old \in Nat /\ InBlock[b] = old
    BY <2>1 DEF InBlock
  <2>3. InBlock[b] <= SumFunction(InBlock)
    BY OwnedTypes, SumExcept, OwnersAssumption DEF OwnedInNat
  <2> QED
    BY <1>0, <2>1, <2>2, <2>3
<1>6. ASSUME NEW b \in Blocks, NEW old, Deallocate(b, old)
      PROVE  TotalInv'
  <2>1. /\ old \in Nat /\ InBlock[b] = old /\ old <= Owned
    BY <1>5, <1>6 DEF Deallocate
  <2>2. totalExternal' = Owned + (0 - old)
    BY <1>0, <1>6, <2>1, ExactCounts DEF Deallocate
  <2>3. block' = [block EXCEPT ![b] = NULL] /\ UNCHANGED <<capacity, declared>>
    BY <1>6 DEF Deallocate
  <2>4. block'[b] = NULL /\ InBlock'[b] = InBlock[b] + (0 - old)
    BY <2>1, <2>3 DEF ExternalTypeOK, InBlock
  <2>5. \A q \in Blocks \ {b} : block'[q] = block[q]
    BY <2>3 DEF ExternalTypeOK
  <2> QED
    BY <1>3, <2>1, <2>2, <2>3, <2>4, <2>5
<1>7. ASSUME NEW b \in Blocks, NEW old, NEW new \in Sizes, Fits(b, old),
             \E sized \in BlockOf(new) : block' = [block EXCEPT ![b] = sized],
             totalExternal' = Owned + (new - old), UNCHANGED <<capacity, declared>>
      PROVE  TotalInv'
  <2>1. old \in Nat /\ InBlock[b] = old /\ new \in Nat
    BY <1>5, <1>7
  <2>2. block' = [block EXCEPT ![b] = [asked |-> new, given |-> new]]
    BY <1>7 DEF BlockOf
  <2>3. block'[b] = [asked |-> new, given |-> new] /\ block'[b] # NULL
    BY <2>1, <2>2, NullAssumption DEF ExternalTypeOK
  <2>4. InBlock'[b] = InBlock[b] + (new - old)
    BY <2>1, <2>3 DEF InBlock
  <2>5. \A q \in Blocks \ {b} : block'[q] = block[q]
    BY <2>2 DEF ExternalTypeOK
  <2> QED
    BY <1>3, <1>7, <2>1, <2>3, <2>4, <2>5
<1>8. ASSUME UNCHANGED <<totalExternal, block, capacity, declared>>
      PROVE  TotalInv'
  BY <1>0, <1>8 DEF Owned, InBlock, InSlots
<1>9. ASSUME NEW b \in Blocks, NEW old, NEW new \in Sizes, NEW ok \in BOOLEAN,
             Grow(b, old, new, ok) \/ Shrink(b, old, new, ok)
      PROVE  TotalInv'
  <2>1. /\ Fits(b, old) /\ old \in Nat /\ old <= Owned /\ new \in Nat
        /\ UNCHANGED <<capacity, declared>>
    BY <1>5, <1>9 DEF Grow, Shrink
  <2>2. CASE ~ok
    BY <1>8, <1>9, <2>1, <2>2 DEF Grow, Shrink
  <2>3. CASE ok /\ Grow(b, old, new, ok)
    <3>1. MarkAllocation(new - old) /\ new - old \in Nat
      BY <2>1, <2>3 DEF Grow
    <3>2. totalExternal' = Owned + (new - old)
      BY <1>0, <3>1, ExactCounts
    <3> QED
      BY <1>7, <2>1, <2>3, <3>2 DEF Grow
  <2>4. CASE ok /\ Shrink(b, old, new, ok)
    <3>1. MarkDeallocation(old - new) /\ old - new \in Nat /\ old - new <= Owned
      BY <1>0, <2>1, <2>4 DEF Shrink
    <3>2. totalExternal' = Owned + (new - old)
      BY <1>0, <2>1, <3>1, ExactCounts
    <3> QED
      BY <1>7, <2>1, <2>4, <3>2 DEF Shrink
  <2> QED
    BY <1>9, <2>2, <2>3, <2>4
<1>10. ASSUME NEW s \in RootSets, NEW d \in Int,
              \A q \in RootSets \ {s} : capacity'[q] = capacity[q], UNCHANGED <<block, declared>>,
              InSlots'[s] = InSlots[s] + d, totalExternal' = Owned + d
       PROVE  TotalInv'
  <2>1. Owned' = Owned - InSlots[s] + (InSlots[s] + d)
    BY <1>10, SlotsOwned
  <2>2. InSlots[s] \in Nat
    BY OwnedTypes DEF OwnedInNat
  <2> QED
    BY <1>0, <1>10, <2>1, <2>2
<1>11. ASSUME NEW s \in RootSets
       PROVE  /\ capacity[s] = NULL => InSlots[s] = 0
              /\ capacity[s] # NULL => /\ InSlots[s] = capacity[s] /\ capacity[s] \in Nat
                                       /\ capacity[s] <= Owned
  <2>1. InSlots[s] <= SumFunction(InSlots)
    BY OwnedTypes, SumExcept, OwnersAssumption DEF OwnedInNat
  <2>2. /\ capacity[s] = NULL => InSlots[s] = 0
        /\ capacity[s] # NULL => InSlots[s] = capacity[s] /\ capacity[s] \in Nat
    BY DEF ExternalTypeOK, InSlots, SlotSize
  <2> QED
    BY <1>0, <2>1, <2>2
<1>12. ASSUME NEW s \in RootSets, NewSlots(s)
       PROVE  TotalInv'
  <2>1. capacity' = [capacity EXCEPT ![s] = 0] /\ UNCHANGED <<block, declared, totalExternal>>
        /\ InSlots[s] = 0
    BY <1>11, <1>12 DEF NewSlots
  <2>2. capacity'[s] = 0 /\ \A q \in RootSets \ {s} : capacity'[q] = capacity[q]
    BY <2>1 DEF ExternalTypeOK
  <2>3. InSlots'[s] = InSlots[s] + 0
    BY <2>1, <2>2 DEF InSlots, SlotSize
  <2> QED
    BY <1>0, <1>10, <2>1, <2>2, <2>3
<1>13. ASSUME NEW s \in RootSets, NEW c \in Capacities, GrowSlots(s, c)
       PROVE  TotalInv'
  <2>1. /\ InSlots[s] = capacity[s] /\ capacity[s] \in Nat /\ c \in Nat
        /\ (c - capacity[s]) * SlotSize = c - capacity[s] /\ c - capacity[s] \in Nat
    BY <1>11, <1>13 DEF GrowSlots, SlotSize
  <2>2. totalExternal' = Owned + (c - capacity[s])
    BY <1>0, <1>13, <2>1, ExactCounts DEF GrowSlots
  <2>3. /\ capacity' = [capacity EXCEPT ![s] = c] /\ UNCHANGED <<block, declared>>
    BY <1>13 DEF GrowSlots
  <2>4. capacity'[s] = c /\ \A q \in RootSets \ {s} : capacity'[q] = capacity[q]
    BY <2>3 DEF ExternalTypeOK
  <2>5. InSlots'[s] = InSlots[s] + (c - capacity[s])
    BY <2>1, <2>4, NullAssumption DEF InSlots, SlotSize
  <2> QED
    BY <1>10, <2>1, <2>2, <2>3, <2>4, <2>5
<1>14. ASSUME NEW s \in RootSets, DropSlots(s)
       PROVE  TotalInv'
  <2>1. /\ InSlots[s] = capacity[s] /\ capacity[s] \in Nat /\ capacity[s] <= Owned
        /\ capacity[s] * SlotSize = capacity[s]
    BY <1>11, <1>14 DEF DropSlots, SlotSize
  <2>2. totalExternal' = Owned + (0 - capacity[s])
    BY <1>0, <1>14, <2>1, ExactCounts DEF DropSlots
  <2>3. /\ capacity' = [capacity EXCEPT ![s] = NULL] /\ UNCHANGED <<block, declared>>
    BY <1>14 DEF DropSlots
  <2>4. capacity'[s] = NULL /\ \A q \in RootSets \ {s} : capacity'[q] = capacity[q]
    BY <2>3 DEF ExternalTypeOK
  <2>5. InSlots'[s] = InSlots[s] + (0 - capacity[s])
    BY <2>1, <2>4 DEF InSlots
  <2> QED
    BY <1>10, <2>1, <2>2, <2>3, <2>4, <2>5
<1> QED
  BY <1>1, <1>2, <1>4, <1>6, <1>9, <1>12, <1>13, <1>14 DEF External

(* The other steps leave owners and the total alone. *)
LEMMA TotalSteps ==
    ExternalTypeOK /\ ExternalTypeOK' /\ TotalInv /\ [ExternalNext]_externalVars => TotalInv'
<1> SUFFICES ASSUME ExternalTypeOK, ExternalTypeOK', TotalInv, [ExternalNext]_externalVars
             PROVE  TotalInv'
  OBVIOUS
<1>1. exact' = exact
  BY DEF ExternalNext, externalVars
<1>2. CASE External
  BY <1>1, <1>2, TotalStep DEF TotalInv
<1>3. CASE ~External
  <2>1. UNCHANGED <<totalExternal, ownerVars>>
    BY <1>3 DEF ExternalNext, ExternalStep, externalVars, SetPacing, AddDebt, GcAllocated, Wake,
       Untraced, Work, FinishCycle
  <2> QED
    BY <1>1, <2>1 DEF TotalInv, Owned, InBlock, InSlots, ownerVars
<1> QED
  BY <1>2, <1>3

(* At the start nobody owns a byte. *)
LEMMA TotalInit == ExternalInit => TotalInv
<1> SUFFICES ASSUME ExternalInit PROVE TotalInv
  OBVIOUS
<1>1. /\ InBlock \in [Blocks -> Nat] /\ \A b \in Blocks : InBlock[b] = 0
      /\ InSlots \in [RootSets -> Nat] /\ \A s \in RootSets : InSlots[s] = 0
  BY DEF ExternalInit, InBlock, InSlots
<1>2. Units(InBlock, Blocks) = {} /\ Units(InSlots, RootSets) = {}
  BY <1>1 DEF Units
<1>3. SumFunction(InBlock) = 0 /\ SumFunction(InSlots) = 0
  BY <1>1, <1>2, SumCounts, FS_EmptySet, OwnersAssumption
<1> QED
  BY <1>3 DEF ExternalInit, TotalInv, Owned

(* The total is exact, through every order of growing, shrinking, dropping    *)
(* and failing, for any number of blocks and root sets of any size, if what  *)
(* is marked as deallocated is what was marked as allocated.                 *)
THEOREM TotalIsExact == ExternalSpec => []TotalMatches
<1>1. ExtInv => ExternalTypeOK
  BY DEF ExtInv
<1>2. TotalInv => TotalMatches
  BY DEF TotalInv, TotalMatches
<1> QED
  BY <1>1, <1>2, ExtInvariance, TotalInit, TotalSteps, PTL DEF ExternalSpec
=============================================================================
