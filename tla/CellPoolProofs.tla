--------------------------- MODULE CellPoolProofs ---------------------------
(***************************************************************************)
(* What holds of the slot tables for every number of cells, recordings and *)
(* reports.  The type invariant comes first; then that the recordings are  *)
(* dealt evenly; then that they are dealt round robin, which rests on the  *)
(* used slots being a prefix of the fixture.                               *)
(***************************************************************************)
EXTENDS CellPool, FiniteSetTheorems, WellFoundedInduction, TLAPS

(***************************************************************************)
(* The allocators' choice.                                                 *)
(***************************************************************************)

\* As long as something is free, the scan finds it, and it is free.
LEMMA FirstFreeIsFree ==
    ASSUME NEW order, NEW used,
           Len(order) \in Nat,
           ~ Exhausted(order, used)
    PROVE  /\ FirstFree(order, used) \in Elems(order)
           /\ FirstFree(order, used) \notin used
<1> DEFINE Free == {i \in 1..Len(order) : order[i] \notin used}
<1>1. Free # {} /\ Free \in SUBSET Nat
  BY DEF Exhausted, Elems
<1>2. PICK n \in Free : \A k \in Free : n <= k
  <2>1. IsWellFoundedOn(OpToRel(<, Nat), Nat)
    BY NatLessThanWellFounded
  <2>2. PICK n \in Free : \A k \in Free : <<k, n>> \notin OpToRel(<, Nat)
    BY <1>1, <2>1, WFMin
  <2>3. \A k \in Free : ~ (k < n)
    BY <1>1, <2>2 DEF OpToRel
  <2>4. QED
    BY <1>1, <2>3
<1>3. \A j \in 1..(n - 1) : order[j] \in used
  BY <1>2
<1>4. \E i \in 1..Len(order) : /\ order[i] \notin used
                               /\ \A j \in 1..(i - 1) : order[j] \in used
  BY <1>2, <1>3
<1>5. QED
  BY <1>4 DEF FirstFree, Elems

\* A cell without a slot gets a recorded cell, a fresh one while there is one.
LEMMA SlotForNew ==
    ASSUME PoolTypeOK, NEW c \in Cells, cell_slots[c] = NoSlot
    PROVE  /\ SlotFor(c) \in Elems(Slots)
           /\ ~ Exhausted(Slots, used_slots) => SlotFor(c) \notin used_slots
<1>1. Len(Slots) \in Nat /\ Len(Slots) # 0
  BY PoolAssumption
<1>2. Slots[1] \in Elems(Slots)
  BY <1>1 DEF Elems
<1>3. CASE Exhausted(Slots, used_slots)
  BY <1>2, <1>3 DEF SlotFor
<1>4. CASE ~ Exhausted(Slots, used_slots)
  BY <1>1, <1>4, FirstFreeIsFree DEF SlotFor
<1>5. QED
  BY <1>3, <1>4

\* The same for the reports.
LEMMA ReportSlotForNew ==
    ASSUME PoolTypeOK, NEW c \in Cells
    PROVE  /\ ReportSlotFor(c) \in individuals
           /\ ~ Exhausted(ReportSlots, used_report_slots)
                  => ReportSlotFor(c) \notin used_report_slots
<1>1. Len(ReportSlots) \in Nat /\ Len(ReportSlots) # 0
  BY PoolAssumption
<1>2. ReportSlots[1] \in individuals
  BY <1>1 DEF Elems, individuals
<1>3. CASE PreferredFree(c)
  BY <1>3 DEF ReportSlotFor, PreferredFree
<1>4. CASE ~ PreferredFree(c) /\ Exhausted(ReportSlots, used_report_slots)
  BY <1>2, <1>4 DEF ReportSlotFor
<1>5. CASE ~ PreferredFree(c) /\ ~ Exhausted(ReportSlots, used_report_slots)
  BY <1>1, <1>5, FirstFreeIsFree DEF ReportSlotFor, individuals
<1>6. QED
  BY <1>3, <1>4, <1>5

(***************************************************************************)
(* The type invariant.                                                     *)
(***************************************************************************)

\* Every step of the tables keeps their types.
LEMMA PoolTypeStep == PoolTypeOK /\ [PoolNext]_poolVars => PoolTypeOK'
<1> SUFFICES ASSUME PoolTypeOK, [PoolNext]_poolVars
             PROVE  PoolTypeOK'
  OBVIOUS
<1>1. ASSUME NEW c \in Cells, BindSlot(c), UNCHANGED reportVars
      PROVE  PoolTypeOK'
  <2>1. SlotFor(c) \in Elems(Slots)
    BY <1>1, SlotForNew DEF BindSlot
  <2>2. cell_slots' \in [Cells -> Elems(Slots) \cup {NoSlot}]
    BY <1>1, <2>1 DEF BindSlot, PoolTypeOK
  <2>3. used_slots' \in SUBSET Elems(Slots)
    BY <1>1, <2>1 DEF BindSlot, PoolTypeOK
  <2>4. QED
    BY <1>1, <2>2, <2>3 DEF BindSlot, PoolTypeOK, reportVars
<1>2. ASSUME NEW c \in Cells, BindReport(c), UNCHANGED analysisVars
      PROVE  PoolTypeOK'
  <2>1. ReportSlotFor(c) \in individuals
    BY ReportSlotForNew
  <2>2. report_slots' \in [Cells -> individuals \cup {NoSlot}]
    BY <1>2, <2>1 DEF BindReport, PoolTypeOK
  <2>3. used_report_slots' \in SUBSET individuals
    BY <1>2, <2>1 DEF BindReport, PoolTypeOK
  <2>4. QED
    BY <1>2, <2>2, <2>3 DEF PoolTypeOK, analysisVars
<1>3. ASSUME UNCHANGED poolVars
      PROVE  PoolTypeOK'
  BY <1>3 DEF poolVars, analysisVars, reportVars, PoolTypeOK
<1>4. CASE ForgetPool
  BY <1>4 DEF ForgetPool, PoolTypeOK
<1>5. ASSUME NEW c \in Cells, assign_pool_slot(c)
      PROVE  PoolTypeOK'
  BY <1>1, <1>3, <1>5 DEF assign_pool_slot, KeepSlot, poolVars
<1>6. ASSUME NEW c \in Cells, individual_report(c)
      PROVE  PoolTypeOK'
  BY <1>2, <1>3, <1>6 DEF individual_report, pooled_report_serial, poolVars
<1>7. QED
  BY <1>3, <1>4, <1>5, <1>6 DEF PoolNext

\* The slot tables always hold recorded cells under requested serials, and
\* their counters never go below zero: assign_pool_slot and
\* pooled_report_serial of replay/app/main.py, for any catalog.
THEOREM PoolTypeCorrect == PoolSpec => []PoolTypeOK
<1>1. PoolInit => PoolTypeOK
  BY DEF PoolInit, PoolTypeOK
<1>2. QED
  BY <1>1, PoolTypeStep, PTL DEF PoolSpec

(***************************************************************************)
(* Sampling without replacement.                                           *)
(***************************************************************************)

\* One more cell is one more.
LEMMA OneMoreCell ==
    ASSUME NEW A \in SUBSET Cells, NEW c \in Cells, c \notin A
    PROVE  Cardinality(A) \in Nat /\ Cardinality(A \cup {c}) = Cardinality(A) + 1
<1>1. IsFiniteSet(A)
  BY FS_Subset, PoolAssumption
<1>2. QED
  BY <1>1, FS_CardinalityType, FS_AddElement

\* A new binding keeps the balance, within a group and when it starts over.
LEMMA BindSlotBalanced ==
    ASSUME PoolTypeOK, PoolBalanced, NEW c \in Cells, BindSlot(c)
    PROVE  PoolBalanced'
<1>1. SUFFICES ASSUME NEW t \in Elems(Slots)
               PROVE  Cardinality(BoundTo(cell_slots', t)) =
                          poolCycles' + (IF t \in used_slots' THEN 1 ELSE 0)
  BY DEF PoolBalanced, BoundTo
<1>2. t # NoSlot
  BY PoolAssumption
<1>3. /\ cell_slots[c] = NoSlot
      /\ cell_slots' = [cell_slots EXCEPT ![c] = SlotFor(c)]
  BY DEF BindSlot
<1>4. Cardinality(BoundTo(cell_slots', t)) =
          Cardinality(BoundTo(cell_slots, t))
              + (IF t = SlotFor(c) THEN 1 ELSE 0)
  <2>1. /\ BoundTo(cell_slots, t) \in SUBSET Cells
        /\ c \notin BoundTo(cell_slots, t)
    BY <1>2, <1>3 DEF BoundTo
  <2>2. /\ t = SlotFor(c) =>
               BoundTo(cell_slots', t) = BoundTo(cell_slots, t) \cup {c}
        /\ t # SlotFor(c) =>
               BoundTo(cell_slots', t) = BoundTo(cell_slots, t)
    BY <1>2, <1>3 DEF BoundTo, PoolTypeOK
  <2>3. /\ Cardinality(BoundTo(cell_slots, t)) \in Nat
        /\ Cardinality(BoundTo(cell_slots, t) \cup {c}) =
               Cardinality(BoundTo(cell_slots, t)) + 1
    BY <2>1, OneMoreCell
  <2>4. CASE t = SlotFor(c)
    BY <2>2, <2>3, <2>4
  <2>5. CASE t # SlotFor(c)
    BY <2>2, <2>3, <2>5
  <2>6. QED
    BY <2>4, <2>5
<1>5. Cardinality(BoundTo(cell_slots, t)) =
          poolCycles + (IF t \in used_slots THEN 1 ELSE 0)
  BY DEF PoolBalanced
<1>6. poolCycles \in Nat
  BY DEF PoolTypeOK
<1>7. CASE Exhausted(Slots, used_slots)
  <2>1. t \in used_slots
    BY <1>7 DEF Exhausted
  <2>2. used_slots' = {SlotFor(c)} /\ poolCycles' = poolCycles + 1
    BY <1>7 DEF BindSlot
  <2>3. QED
    BY <1>4, <1>5, <1>6, <2>1, <2>2
<1>8. CASE ~ Exhausted(Slots, used_slots)
  <2>1. SlotFor(c) \notin used_slots
    BY <1>3, <1>8, SlotForNew
  <2>2. /\ used_slots' = used_slots \cup {SlotFor(c)}
        /\ poolCycles' = poolCycles
    BY <1>8 DEF BindSlot
  <2>3. QED
    BY <1>4, <1>5, <1>6, <2>1, <2>2
<1>9. QED
  BY <1>7, <1>8

\* Neither the reports nor a repeated request touch the balance.
LEMMA PoolBalancedStep ==
    PoolTypeOK /\ PoolBalanced /\ [PoolNext]_poolVars => PoolBalanced'
<1> SUFFICES ASSUME PoolTypeOK, PoolBalanced, [PoolNext]_poolVars
             PROVE  PoolBalanced'
  OBVIOUS
<1>1. ASSUME UNCHANGED analysisVars
      PROVE  PoolBalanced'
  BY <1>1 DEF analysisVars, PoolBalanced, BoundTo
<1>2. ASSUME NEW c \in Cells, assign_pool_slot(c)
      PROVE  PoolBalanced'
  BY <1>1, <1>2, BindSlotBalanced DEF assign_pool_slot, KeepSlot
<1>3. ASSUME NEW c \in Cells, individual_report(c)
      PROVE  PoolBalanced'
  BY <1>1, <1>3 DEF individual_report, pooled_report_serial, poolVars
<1>4. CASE ForgetPool
  <2>1. \A t \in Elems(Slots) : BoundTo(cell_slots', t) = {}
    BY <1>4, PoolAssumption DEF ForgetPool, BoundTo
  <2>2. QED
    BY <1>4, <2>1, FS_EmptySet DEF ForgetPool, PoolBalanced, BoundTo
<1>5. CASE UNCHANGED poolVars
  BY <1>1, <1>5 DEF poolVars
<1>6. QED
  BY <1>2, <1>3, <1>4, <1>5 DEF PoolNext

\* However many cells ask and in whatever order, assign_pool_slot deals the
\* recorded cells evenly: one per completed group, one more for those used
\* in the current one.
THEOREM PoolStaysBalanced == PoolSpec => []PoolBalanced
<1>1. PoolInit => PoolBalanced
  <2> SUFFICES ASSUME PoolInit
               PROVE  PoolBalanced
    OBVIOUS
  <2>1. \A t \in Elems(Slots) : BoundTo(cell_slots, t) = {}
    BY PoolAssumption DEF PoolInit, BoundTo
  <2>2. QED
    BY <2>1, FS_EmptySet DEF PoolInit, PoolBalanced
<1>2. QED
  BY <1>1, PoolTypeCorrect, PoolBalancedStep, PTL DEF PoolSpec

(***************************************************************************)
(* Round robin: the used slots are always the first ones of the fixture.   *)
(***************************************************************************)

Prefix(m) == {Slots[i] : i \in 1..m}

PrefixInv == \E m \in 0..Len(Slots) : used_slots = Prefix(m)

\* The fixture order names every recorded cell once (fixture.py:147-151).
LEMMA SlotsFacts ==
    /\ Len(Slots) \in Nat /\ Len(Slots) # 0
    /\ \A i \in 1..Len(Slots) : Slots[i] \in Elems(Slots)
    /\ \A i, j \in 1..Len(Slots) : Slots[i] = Slots[j] => i = j
    /\ Elems(Slots) = Prefix(Len(Slots))
  BY PoolAssumption DEF Elems, Injective, Prefix

\* The number of used slots says which they are.
LEMMA PrefixSize ==
    ASSUME NEW m \in 0..Len(Slots)
    PROVE  Cardinality(Prefix(m)) = m
<1> DEFINE f == [i \in 1..m |-> Slots[i]]
<1>1. m \in Nat /\ \A i \in 1..m : i \in 1..Len(Slots)
  BY SlotsFacts
<1>2. f \in Bijection(1..m, Prefix(m))
  <2>1. f \in [1..m -> Prefix(m)]
    BY DEF Prefix
  <2>2. \A i, j \in 1..m : f[i] = f[j] => i = j
    BY <1>1, SlotsFacts
  <2>3. \A s \in Prefix(m) : \E i \in 1..m : f[i] = s
    BY DEF Prefix
  <2>4. QED
    BY <2>1, <2>2, <2>3 DEF Bijection, Injection, Surjection, IsInjective
<1>3. IsFiniteSet(1..m) /\ Cardinality(1..m) = m
  BY <1>1, FS_Interval
<1>4. QED
  BY <1>2, <1>3, FS_Bijection DEF ExistsBijection

\* The group is exhausted when the prefix is all of it, and not before; then
\* the first free slot is the one after the prefix.
LEMMA PrefixFree ==
    ASSUME NEW m \in 0..Len(Slots)
    PROVE  /\ Exhausted(Slots, Prefix(m)) <=> m = Len(Slots)
           /\ m # Len(Slots) => FirstFree(Slots, Prefix(m)) = Slots[m + 1]
<1>1. m \in Nat /\ m <= Len(Slots) /\ Len(Slots) \in Nat
  BY SlotsFacts
<1>2. \A i \in 1..Len(Slots) : Slots[i] \in Prefix(m) <=> i <= m
  BY <1>1, SlotsFacts DEF Prefix
<1>3. CASE m = Len(Slots)
  BY <1>3, SlotsFacts DEF Exhausted
<1>4. CASE m # Len(Slots)
  <2>1. m + 1 \in 1..Len(Slots)
    BY <1>1, <1>4
  <2>2. ~ Exhausted(Slots, Prefix(m))
    BY <1>1, <1>2, <2>1, SlotsFacts DEF Exhausted
  <2>3. /\ Slots[m + 1] \notin Prefix(m)
        /\ \A j \in 1..((m + 1) - 1) : Slots[j] \in Prefix(m)
    BY <1>1, <1>2, <2>1
  <2>4. \A i \in 1..Len(Slots) :
            (/\ Slots[i] \notin Prefix(m)
             /\ \A j \in 1..(i - 1) : Slots[j] \in Prefix(m)) => i = m + 1
    BY <1>1, <1>2, <2>1
  <2>5. (CHOOSE i \in 1..Len(Slots) :
            /\ Slots[i] \notin Prefix(m)
            /\ \A j \in 1..(i - 1) : Slots[j] \in Prefix(m)) = m + 1
    BY <2>1, <2>3, <2>4
  <2>6. QED
    BY <1>4, <2>2, <2>5 DEF FirstFree
<1>5. QED
  BY <1>3, <1>4

\* A new binding takes the slot after the prefix, or the first one again.
LEMMA BindSlotDeals ==
    ASSUME PoolTypeOK, PrefixInv, NEW c \in Cells, BindSlot(c)
    PROVE  PrefixInv' /\ RoundRobin!Deal(c)
<1>1. PICK m \in 0..Len(Slots) : used_slots = Prefix(m)
  BY DEF PrefixInv
<1>2. Cardinality(used_slots) = m
  BY <1>1, PrefixSize
<1> DEFINE n == RoundRobin!After(m)
<1>3. n \in 1..Len(Slots)
  BY SlotsFacts DEF RoundRobin!After
<1>4. SlotFor(c) = Slots[n] /\ used_slots' = Prefix(n)
  <2>1. CASE m = Len(Slots)
    <3>1. n = 1
      BY <2>1 DEF RoundRobin!After
    <3>2. Exhausted(Slots, used_slots)
      BY <1>1, <2>1, PrefixFree
    <3>3. SlotFor(c) = Slots[1] /\ used_slots' = {Slots[1]}
      BY <3>2 DEF BindSlot, SlotFor
    <3>4. Prefix(1) = {Slots[1]}
      BY DEF Prefix
    <3>5. QED
      BY <3>1, <3>3, <3>4
  <2>2. CASE m # Len(Slots)
    <3>1. n = m + 1
      BY <2>2 DEF RoundRobin!After
    <3>2. ~ Exhausted(Slots, used_slots)
      BY <1>1, <2>2, PrefixFree
    <3>3. SlotFor(c) = Slots[m + 1]
      BY <1>1, <2>2, <3>2, PrefixFree DEF BindSlot, SlotFor
    <3>4. used_slots' = used_slots \cup {Slots[m + 1]}
      BY <3>2, <3>3 DEF BindSlot
    <3>5. Prefix(m + 1) = Prefix(m) \cup {Slots[m + 1]}
      BY SlotsFacts DEF Prefix
    <3>6. QED
      BY <1>1, <3>1, <3>3, <3>4, <3>5
  <2>3. QED
    BY <2>1, <2>2
<1>5. n \in 0..Len(Slots)
  BY <1>3, SlotsFacts
<1>6. PrefixInv'
  BY <1>4, <1>5 DEF PrefixInv, Prefix
<1>7. Cardinality(used_slots') = n
  BY <1>4, <1>5, PrefixSize
<1>8. QED
  BY <1>2, <1>4, <1>6, <1>7 DEF BindSlot, RoundRobin!Deal

\* Every step of the tables is a deal, a restart or a stutter of the abstract
\* pool, and keeps the used slots a prefix.
LEMMA DealsStep ==
    PoolTypeOK /\ PrefixInv /\ [PoolNext]_poolVars
        => PrefixInv' /\ [RoundRobin!Next]_(RoundRobin!vars)
<1> SUFFICES ASSUME PoolTypeOK, PrefixInv, [PoolNext]_poolVars
             PROVE  PrefixInv' /\ [RoundRobin!Next]_(RoundRobin!vars)
  OBVIOUS
<1>1. ASSUME UNCHANGED analysisVars
      PROVE  PrefixInv' /\ UNCHANGED RoundRobin!vars
  BY <1>1 DEF analysisVars, PrefixInv, Prefix, RoundRobin!vars
<1>2. ASSUME NEW c \in Cells, assign_pool_slot(c)
      PROVE  PrefixInv' /\ [RoundRobin!Next]_(RoundRobin!vars)
  <2>1. CASE BindSlot(c)
    BY <2>1, BindSlotDeals DEF RoundRobin!Next
  <2>2. CASE KeepSlot(c)
    BY <1>1, <2>2 DEF KeepSlot
  <2>3. QED
    BY <1>2, <2>1, <2>2 DEF assign_pool_slot
<1>3. ASSUME NEW c \in Cells, individual_report(c)
      PROVE  PrefixInv' /\ UNCHANGED RoundRobin!vars
  BY <1>1, <1>3 DEF individual_report, pooled_report_serial, poolVars
<1>4. CASE ForgetPool
  <2>1. used_slots' = {} /\ Prefix(0) = {}
    BY <1>4 DEF ForgetPool, Prefix
  <2>2. PrefixInv'
    BY <2>1, SlotsFacts DEF PrefixInv, Prefix
  <2>3. RoundRobin!Forget
    BY <1>4, FS_EmptySet DEF ForgetPool, RoundRobin!Forget
  <2>4. QED
    BY <2>2, <2>3 DEF RoundRobin!Next
<1>5. CASE UNCHANGED poolVars
  BY <1>1, <1>5 DEF poolVars
<1>6. QED
  BY <1>2, <1>3, <1>4, <1>5 DEF PoolNext

\* assign_pool_slot implements the round robin its README promises ("the mix
\* of verdicts repeats with the period of the group"), whatever the reports
\* do in between: the analysis table refines RoundRobinPool.
THEOREM PoolDealsRoundRobin == PoolSpec => DealsRoundRobin
<1>1. PoolInit => PrefixInv /\ RoundRobin!Init
  <2> SUFFICES ASSUME PoolInit
               PROVE  PrefixInv /\ RoundRobin!Init
    OBVIOUS
  <2>1. Prefix(0) = {} /\ used_slots = {}
    BY DEF PoolInit, Prefix
  <2>2. PrefixInv
    BY <2>1, SlotsFacts DEF PrefixInv
  <2>3. RoundRobin!Init
    BY FS_EmptySet DEF PoolInit, RoundRobin!Init
  <2>4. QED
    BY <2>2, <2>3
<1>2. QED
  BY <1>1, PoolTypeCorrect, DealsStep, PTL
     DEF PoolSpec, DealsRoundRobin, RoundRobin!Spec

(***************************************************************************)
(* Reports in the first group.                                             *)
(***************************************************************************)

\* A report counts as used only if some cell was told it.
ReportsUsedAreTold ==
    \A s \in used_report_slots : \E d \in Cells : report_slots[d] = s

FollowsStep ==
    \A c \in Cells :
        (/\ report_slots[c] = NoSlot /\ report_slots'[c] # NoSlot
         /\ poolCycles = 0
         /\ cell_slots[c] \in individuals
         /\ \A d \in Cells : report_slots[d] # NoSlot => Follows(d))
        => report_slots'[c] = cell_slots[c]

\* No step of the tables breaks the bookkeeping of the first group.
LEMMA ReportsUsedStep ==
    PoolTypeOK /\ ReportsUsedAreTold /\ [PoolNext]_poolVars
        => ReportsUsedAreTold'
<1> SUFFICES ASSUME PoolTypeOK, ReportsUsedAreTold, [PoolNext]_poolVars
             PROVE  ReportsUsedAreTold'
  OBVIOUS
<1>1. ASSUME NEW c \in Cells, BindReport(c)
      PROVE  ReportsUsedAreTold'
  <2>1. SUFFICES ASSUME NEW s \in used_report_slots'
                 PROVE  \E d \in Cells : report_slots'[d] = s
    BY DEF ReportsUsedAreTold
  <2>2. /\ report_slots[c] = NoSlot
        /\ report_slots' = [report_slots EXCEPT ![c] = ReportSlotFor(c)]
        /\ s \in used_report_slots \/ s = ReportSlotFor(c)
    BY <1>1 DEF BindReport
  <2>3. CASE s = ReportSlotFor(c)
    BY <2>2, <2>3 DEF PoolTypeOK
  <2>4. CASE s \in used_report_slots
    <3>1. PICK d \in Cells : report_slots[d] = s
      BY <2>4 DEF ReportsUsedAreTold
    <3>2. s # NoSlot
      BY <2>4, PoolAssumption DEF PoolTypeOK, individuals
    <3>3. QED
      BY <2>2, <3>1, <3>2 DEF PoolTypeOK
  <2>5. QED
    BY <2>2, <2>3, <2>4
<1>2. ASSUME UNCHANGED reportVars
      PROVE  ReportsUsedAreTold'
  BY <1>2 DEF reportVars, ReportsUsedAreTold
<1>3. ASSUME NEW c \in Cells, individual_report(c)
      PROVE  ReportsUsedAreTold'
  BY <1>1, <1>2, <1>3 DEF individual_report, pooled_report_serial, poolVars
<1>4. CASE ForgetPool
  BY <1>4 DEF ForgetPool, ReportsUsedAreTold
<1>5. QED
  BY <1>2, <1>3, <1>4 DEF PoolNext, assign_pool_slot, poolVars

\* In the first group no two cells share a slot.
LEMMA FirstGroupApart ==
    ASSUME PoolTypeOK, PoolBalanced, poolCycles = 0,
           NEW c \in Cells, NEW d \in Cells, c # d, cell_slots[c] # NoSlot
    PROVE  cell_slots[c] # cell_slots[d]
<1>1. SUFFICES ASSUME cell_slots[c] = cell_slots[d]
               PROVE  FALSE
  OBVIOUS
<1> DEFINE s == cell_slots[c]
           B == BoundTo(cell_slots, s)
<1>2. s \in Elems(Slots)
  BY DEF PoolTypeOK
<1>3. Cardinality(B) = (IF s \in used_slots THEN 1 ELSE 0)
  BY <1>2 DEF PoolBalanced
<1>4. {c} \in SUBSET Cells /\ d \notin {c}
  OBVIOUS
<1>5. Cardinality({c} \cup {d}) = 2
  <2>1. Cardinality({c}) = 1
    BY FS_Singleton
  <2>2. Cardinality({c} \cup {d}) = Cardinality({c}) + 1
    BY <1>4, OneMoreCell
  <2>3. QED
    BY <2>1, <2>2
<1>6. B \in SUBSET Cells /\ {c} \cup {d} \in SUBSET B
  BY <1>1 DEF BoundTo
<1>7. IsFiniteSet(B)
  BY <1>6, FS_Subset, PoolAssumption
<1>8. Cardinality({c} \cup {d}) <= Cardinality(B)
  BY <1>6, <1>7, FS_Subset
<1>9. QED
  BY <1>3, <1>5, <1>8

\* A step that binds a report obeys the rule of the first group.
LEMMA ReportFollows ==
    ASSUME PoolTypeOK, PoolBalanced, ReportsUsedAreTold, [PoolNext]_poolVars
    PROVE  FollowsStep
<1>1. SUFFICES ASSUME NEW c \in Cells,
                      report_slots[c] = NoSlot, report_slots'[c] # NoSlot,
                      poolCycles = 0, cell_slots[c] \in individuals,
                      \A d \in Cells : report_slots[d] # NoSlot => Follows(d)
               PROVE  report_slots'[c] = cell_slots[c]
  BY DEF FollowsStep
<1>2. BindReport(c)
  <2>1. ASSUME NEW d \in Cells, BindReport(d)
        PROVE  c = d
    BY <1>1, <2>1 DEF BindReport, PoolTypeOK
  <2>2. ~ ForgetPool /\ ~ UNCHANGED reportVars
    BY <1>1 DEF ForgetPool, reportVars
  <2>3. QED
    BY <2>1, <2>2 DEF PoolNext, assign_pool_slot, individual_report,
                      pooled_report_serial, poolVars
<1>3. cell_slots[c] \notin used_report_slots
  <2>1. SUFFICES ASSUME cell_slots[c] \in used_report_slots
                 PROVE  FALSE
    OBVIOUS
  <2>2. PICK d \in Cells : report_slots[d] = cell_slots[c]
    BY <2>1 DEF ReportsUsedAreTold
  <2>3. cell_slots[c] # NoSlot
    BY <1>1, PoolAssumption DEF individuals
  <2>4. c # d /\ cell_slots[d] = cell_slots[c]
    BY <1>1, <2>2, <2>3 DEF Follows
  <2>5. QED
    BY <1>1, <2>3, <2>4, FirstGroupApart
<1>4. ReportSlotFor(c) = cell_slots[c]
  BY <1>1, <1>3 DEF ReportSlotFor, PreferredFree
<1>5. QED
  BY <1>1, <1>2, <1>4 DEF BindReport, PoolTypeOK

\* pooled_report_serial tells an analysed cell the report of its own slot for
\* as long as the first group lasts and every report so far did the same; the
\* analysis table alone decides, whatever the order of the two requests of
\* other cells.
THEOREM FirstGroupIsConsistent == PoolSpec => FirstGroupReportsFollow
<1>1. PoolInit => ReportsUsedAreTold
  BY DEF PoolInit, ReportsUsedAreTold
<1>2. PoolSpec => []ReportsUsedAreTold
  BY <1>1, PoolTypeCorrect, ReportsUsedStep, PTL DEF PoolSpec
<1>3. PoolTypeOK /\ PoolBalanced /\ ReportsUsedAreTold /\ [PoolNext]_poolVars
          => [FollowsStep]_poolVars
  BY ReportFollows
<1>4. PoolSpec => [][FollowsStep]_poolVars
  BY <1>2, <1>3, PoolTypeCorrect, PoolStaysBalanced, PTL DEF PoolSpec
<1>5. QED
  BY <1>4 DEF FirstGroupReportsFollow, FollowsStep

(***************************************************************************)
(* The reports are told evenly.                                            *)
(***************************************************************************)

\* ReportsBalanced compares two reports; what is kept says how often each one
\* was told: once per completed group, of which the code keeps no count, and
\* once more when it is used in the current one.
ReportsDealt ==
    \E k \in Nat :
        \A s \in individuals :
            Cardinality(BoundTo(report_slots, s)) =
                k + (IF s \in used_report_slots THEN 1 ELSE 0)

\* The count of each report, up to the common base k, is more than the bound
\* asks.
LEMMA DealtIsBalanced == ReportsDealt => ReportsBalanced
<1> SUFFICES ASSUME ReportsDealt
             PROVE  ReportsBalanced
  OBVIOUS
<1>1. PICK k \in Nat :
          \A s \in individuals :
              Cardinality(BoundTo(report_slots, s)) =
                  k + (IF s \in used_report_slots THEN 1 ELSE 0)
  BY DEF ReportsDealt
<1>2. QED
  BY <1>1 DEF ReportsBalanced

\* Telling a report to one more cell is one more for that report alone.
LEMMA ReportToldOnce ==
    ASSUME PoolTypeOK, NEW c \in Cells, BindReport(c), NEW s \in individuals
    PROVE  /\ Cardinality(BoundTo(report_slots, s)) \in Nat
           /\ Cardinality(BoundTo(report_slots', s)) =
                  Cardinality(BoundTo(report_slots, s))
                      + (IF s = ReportSlotFor(c) THEN 1 ELSE 0)
<1>1. /\ report_slots[c] = NoSlot
      /\ report_slots' = [report_slots EXCEPT ![c] = ReportSlotFor(c)]
      /\ s # NoSlot
  BY PoolAssumption DEF BindReport, individuals
<1>2. /\ BoundTo(report_slots, s) \in SUBSET Cells
      /\ c \notin BoundTo(report_slots, s)
  BY <1>1 DEF BoundTo
<1>3. /\ Cardinality(BoundTo(report_slots, s)) \in Nat
      /\ Cardinality(BoundTo(report_slots, s) \cup {c}) =
             Cardinality(BoundTo(report_slots, s)) + 1
  BY <1>2, OneMoreCell
<1>4. CASE s = ReportSlotFor(c)
  <2>1. BoundTo(report_slots', s) = BoundTo(report_slots, s) \cup {c}
    BY <1>1, <1>4 DEF BoundTo, PoolTypeOK
  <2>2. QED
    BY <1>3, <1>4, <2>1
<1>5. CASE s # ReportSlotFor(c)
  <2>1. BoundTo(report_slots', s) = BoundTo(report_slots, s)
    BY <1>1, <1>5 DEF BoundTo, PoolTypeOK
  <2>2. QED
    BY <1>3, <1>5, <2>1
<1>6. QED
  BY <1>4, <1>5

\* A report that jumps the queue to fit the analysis is a free one, so it
\* cannot be told twice in a group; and when the group starts over no report
\* is free, so none jumps the queue of the new one unseen.
LEMMA BindReportDealt ==
    ASSUME PoolTypeOK, ReportsDealt, NEW c \in Cells, BindReport(c)
    PROVE  ReportsDealt'
<1>1. PICK k \in Nat :
          \A s \in individuals :
              Cardinality(BoundTo(report_slots, s)) =
                  k + (IF s \in used_report_slots THEN 1 ELSE 0)
  BY DEF ReportsDealt
<1>2. CASE Exhausted(ReportSlots, used_report_slots)
  <2>1. used_report_slots' = {ReportSlotFor(c)}
    BY <1>2 DEF BindReport
  <2>2. \A s \in individuals : s \in used_report_slots
    BY <1>2 DEF Exhausted, individuals
  <2>3. \A s \in individuals :
            Cardinality(BoundTo(report_slots', s)) =
                (k + 1) + (IF s \in used_report_slots' THEN 1 ELSE 0)
    BY <1>1, <2>1, <2>2, ReportToldOnce
  <2>4. QED
    BY <2>3 DEF ReportsDealt, BoundTo
<1>3. CASE ~ Exhausted(ReportSlots, used_report_slots)
  <2>1. /\ used_report_slots' = used_report_slots \cup {ReportSlotFor(c)}
        /\ ReportSlotFor(c) \notin used_report_slots
    BY <1>3, ReportSlotForNew DEF BindReport
  <2>2. \A s \in individuals :
            Cardinality(BoundTo(report_slots', s)) =
                k + (IF s \in used_report_slots' THEN 1 ELSE 0)
    BY <1>1, <2>1, ReportToldOnce
  <2>3. QED
    BY <2>2 DEF ReportsDealt, BoundTo
<1>4. QED
  BY <1>2, <1>3

\* A report of a new cell marks its slot used; a full group raises the base.
LEMMA ReportsDealtStep ==
    PoolTypeOK /\ ReportsDealt /\ [PoolNext]_poolVars => ReportsDealt'
<1> SUFFICES ASSUME PoolTypeOK, ReportsDealt, [PoolNext]_poolVars
             PROVE  ReportsDealt'
  OBVIOUS
<1>1. ASSUME UNCHANGED reportVars
      PROVE  ReportsDealt'
  BY <1>1 DEF reportVars, ReportsDealt, BoundTo
<1>2. ASSUME NEW c \in Cells, individual_report(c)
      PROVE  ReportsDealt'
  BY <1>1, <1>2, BindReportDealt
     DEF individual_report, pooled_report_serial, poolVars
<1>3. CASE ForgetPool
  <2>1. \A s \in individuals : BoundTo(report_slots', s) = {}
    BY <1>3, PoolAssumption DEF ForgetPool, BoundTo, individuals
  <2>2. \A s \in individuals :
            Cardinality(BoundTo(report_slots', s)) =
                0 + (IF s \in used_report_slots' THEN 1 ELSE 0)
    BY <1>3, <2>1, FS_EmptySet DEF ForgetPool
  <2>3. QED
    BY <2>2 DEF ReportsDealt, BoundTo
<1>4. QED
  BY <1>1, <1>2, <1>3 DEF PoolNext, assign_pool_slot, poolVars

\* pooled_report_serial prefers the report that fits the analysis and may so
\* take any free one out of turn; still no report is ever told to two more
\* cells than another, for every catalog, every set of recorded reports and
\* every order of analyses, reports and restarts.
THEOREM ReportsStayBalanced == PoolSpec => []ReportsBalanced
<1>1. PoolInit => ReportsDealt
  <2> SUFFICES ASSUME PoolInit
               PROVE  ReportsDealt
    OBVIOUS
  <2>1. \A s \in individuals : BoundTo(report_slots, s) = {}
    BY PoolAssumption DEF PoolInit, BoundTo, individuals
  <2>2. \A s \in individuals :
            Cardinality(BoundTo(report_slots, s)) =
                0 + (IF s \in used_report_slots THEN 1 ELSE 0)
    BY <2>1, FS_EmptySet DEF PoolInit
  <2>3. QED
    BY <2>2 DEF ReportsDealt
<1>2. QED
  BY <1>1, PoolTypeCorrect, ReportsDealtStep, DealtIsBalanced, PTL DEF PoolSpec
=============================================================================
