------------------------------ MODULE CellPool ------------------------------
(***************************************************************************)
(* The slot tables of the replay service (replay/app/main.py, RuntimeState *)
(* and its two allocators).  A cell whose images were not recorded is      *)
(* bound to a recorded cell, a "slot", once for its analyses               *)
(* (assign_pool_slot) and once for its individual report                   *)
(* (pooled_report_serial).  Both hand slots out without replacement and    *)
(* start over when all of them are used; the second one reads the table of *)
(* the first.  All of it is memory of one process.                         *)
(*                                                                         *)
(* Both allocators run inside one event loop step: neither awaits while it *)
(* holds the lock, so each is one action here.                             *)
(***************************************************************************)
EXTENDS Naturals, Sequences, FiniteSets

CONSTANTS Cells,        \* cell serials that requests may carry
          Slots,        \* catalog.cell_serials: recorded cells, fixture order
          ReportSlots,  \* reports.cell_serials: cells with a recorded report
          NoSlot        \* Python's None

Elems(seq) == {seq[i] : i \in 1..Len(seq)}

Injective(seq) == \A i, j \in 1..Len(seq) : seq[i] = seq[j] => i = j

\* _index_cell_pool yields at least one serial, each once; ReportCatalog
\* rejects a fixture without reports or with a repeated cell.
ASSUME PoolAssumption ==
    /\ IsFiniteSet(Cells)
    /\ Slots \in Seq(Elems(Slots)) /\ Slots # <<>> /\ Injective(Slots)
    /\ ReportSlots \in Seq(Elems(ReportSlots)) /\ ReportSlots # <<>>
    /\ Injective(ReportSlots)
    /\ NoSlot \notin Elems(Slots) \cup Elems(ReportSlots) \cup Cells

individuals == Elems(ReportSlots)

VARIABLES cell_slots,         \* RuntimeState.cell_slots
          used_slots,         \* RuntimeState.used_slots
          poolAssignments,    \* metrics["poolAssignments"]
          poolCycles,         \* metrics["poolCycles"]
          report_slots,       \* RuntimeState.report_slots
          used_report_slots   \* RuntimeState.used_report_slots

analysisVars == <<cell_slots, used_slots, poolAssignments, poolCycles>>
reportVars   == <<report_slots, used_report_slots>>
poolVars     == <<analysisVars, reportVars>>

-----------------------------------------------------------------------------

PoolInit ==
    /\ cell_slots = [c \in Cells |-> NoSlot]
    /\ used_slots = {}
    /\ poolAssignments = 0
    /\ poolCycles = 0
    /\ report_slots = [c \in Cells |-> NoSlot]
    /\ used_report_slots = {}

Exhausted(order, used) == Elems(order) \subseteq used

\* Mutant: the free slots are taken from the far end of the fixture.
FirstFree_Last(order, used) ==
    order[CHOOSE i \in 1..Len(order) :
              /\ order[i] \notin used
              /\ \A j \in (i + 1)..Len(order) : order[j] \in used]

\* next(slot for slot in order if slot not in used)
FirstFree(order, used) ==
    order[CHOOSE i \in 1..Len(order) :
              /\ order[i] \notin used
              /\ \A j \in 1..(i - 1) : order[j] \in used]

\* Mutant: the binding the cell already has is not looked up.
SlotFor_Rebind(c) ==
    IF Exhausted(Slots, used_slots) THEN Slots[1]
    ELSE FirstFree(Slots, used_slots)

\* The slot a request of cell c is replayed from: assign_pool_slot's result.
SlotFor(c) ==
    IF cell_slots[c] # NoSlot THEN cell_slots[c]
    ELSE IF Exhausted(Slots, used_slots) THEN Slots[1]
    ELSE FirstFree(Slots, used_slots)

\* Mutant: the set of used slots is not cleared when the group starts over.
BindSlot_NoClear(c) ==
    /\ cell_slots[c] = NoSlot
    /\ cell_slots' = [cell_slots EXCEPT ![c] = SlotFor(c)]
    /\ poolAssignments' = poolAssignments + 1
    /\ poolCycles' = IF Exhausted(Slots, used_slots)
                     THEN poolCycles + 1 ELSE poolCycles
    /\ used_slots' = used_slots \cup {SlotFor(c)}

BindSlot(c) ==
    /\ cell_slots[c] = NoSlot
    /\ cell_slots' = [cell_slots EXCEPT ![c] = SlotFor(c)]
    /\ poolAssignments' = poolAssignments + 1
    /\ \/ /\ Exhausted(Slots, used_slots)
          /\ used_slots' = {SlotFor(c)}
          /\ poolCycles' = poolCycles + 1
       \/ /\ ~ Exhausted(Slots, used_slots)
          /\ used_slots' = used_slots \cup {SlotFor(c)}
          /\ UNCHANGED poolCycles

KeepSlot(c) == cell_slots[c] # NoSlot /\ UNCHANGED analysisVars

assign_pool_slot(c) == (BindSlot(c) \/ KeepSlot(c)) /\ UNCHANGED reportVars

-----------------------------------------------------------------------------

\* Mutants: one of the two conditions on the analysis slot is dropped.
PreferredFree_Unrecorded(c) == cell_slots[c] \notin used_report_slots
PreferredFree_Taken(c) == cell_slots[c] \in individuals

\* The recorded report that best fits: the one of the slot the cell's
\* analyses are replayed from, when it exists and is still free.
PreferredFree(c) ==
    /\ cell_slots[c] \in individuals
    /\ cell_slots[c] \notin used_report_slots

\* Mutant: the analysis slot is not preferred.
ReportSlotFor_AnyFree(c) ==
    IF Exhausted(ReportSlots, used_report_slots) THEN ReportSlots[1]
    ELSE FirstFree(ReportSlots, used_report_slots)

ReportSlotFor(c) ==
    IF PreferredFree(c) THEN cell_slots[c]
    ELSE IF Exhausted(ReportSlots, used_report_slots) THEN ReportSlots[1]
    ELSE FirstFree(ReportSlots, used_report_slots)

BindReport(c) ==
    /\ report_slots[c] = NoSlot
    /\ report_slots' = [report_slots EXCEPT ![c] = ReportSlotFor(c)]
    /\ used_report_slots' =
           (IF Exhausted(ReportSlots, used_report_slots)
            THEN {} ELSE used_report_slots) \cup {ReportSlotFor(c)}

pooled_report_serial(c) ==
    /\ BindReport(c) \/ (report_slots[c] # NoSlot /\ UNCHANGED reportVars)
    /\ UNCHANGED analysisVars

\* individual_report: a cell with a report of its own never enters the pool.
individual_report(c) ==
    IF c \in individuals THEN UNCHANGED poolVars ELSE pooled_report_serial(c)

\* The recorded cell whose report cell c is answered with, once asked for.
ReportOf(c) == IF c \in individuals THEN c ELSE report_slots[c]

\* The lifespan creates a new RuntimeState: a restart forgets both tables.
ForgetPool ==
    /\ cell_slots' = [c \in Cells |-> NoSlot]
    /\ used_slots' = {}
    /\ poolAssignments' = 0
    /\ poolCycles' = 0
    /\ report_slots' = [c \in Cells |-> NoSlot]
    /\ used_report_slots' = {}

PoolNext ==
    \/ \E c \in Cells : assign_pool_slot(c)
    \/ \E c \in Cells : individual_report(c)
    \/ ForgetPool

PoolSpec == PoolInit /\ [][PoolNext]_poolVars

-----------------------------------------------------------------------------

\* Every table holds what its name says.
PoolTypeOK ==
    /\ cell_slots \in [Cells -> Elems(Slots) \cup {NoSlot}]
    /\ used_slots \in SUBSET Elems(Slots)
    /\ poolAssignments \in Nat
    /\ poolCycles \in Nat
    /\ report_slots \in [Cells -> individuals \cup {NoSlot}]
    /\ used_report_slots \in SUBSET individuals

BoundTo(table, s) == {c \in Cells : table[c] = s}

\* Sampling without replacement: after any number of cells, of restarts of
\* the group and of repeated requests, each recorded cell stands for one
\* cell per completed group, and for one more exactly when it is marked used
\* in the current group; so the mix of verdicts never drifts.
PoolBalanced ==
    \A s \in Elems(Slots) :
        Cardinality(BoundTo(cell_slots, s)) =
            poolCycles + (IF s \in used_slots THEN 1 ELSE 0)

\* The same for the reports, whose choice may jump the queue to fit the
\* analysis: no recorded report is told of two more cells than another.
ReportsBalanced ==
    \A s, t \in individuals :
        Cardinality(BoundTo(report_slots, s)) <=
            Cardinality(BoundTo(report_slots, t)) +
            (IF s \in used_report_slots \/ t \notin used_report_slots
             THEN 1 ELSE 0)

Follows(c) == report_slots[c] = cell_slots[c]

\* While the first group lasts, a report can only be told from another cell
\* than the analysis if some earlier report already was: as long as all
\* reports so far followed their analyses, the next report of an analysed
\* cell follows too (no other cell can have taken its slot).
FirstGroupReportsFollow ==
    [][\A c \in Cells :
          (/\ report_slots[c] = NoSlot /\ report_slots'[c] # NoSlot
           /\ poolCycles = 0
           /\ cell_slots[c] \in individuals
           /\ \A d \in Cells : report_slots[d] # NoSlot => Follows(d))
          => report_slots'[c] = cell_slots[c]]_poolVars

\* The analysis half of the pool deals the fixture round robin.
RoundRobin == INSTANCE RoundRobinPool
    WITH dealt <- cell_slots, position <- Cardinality(used_slots)

\* Every step of the two tables is a deal in fixture order, a new start
\* after the last recorded cell, a restart, or none of the pool's business.
DealsRoundRobin == RoundRobin!Spec
=============================================================================
