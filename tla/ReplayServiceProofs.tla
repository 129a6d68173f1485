------------------------- MODULE ReplayServiceProofs -------------------------
(***************************************************************************)
(* What holds of the replay service for every fixture, queue and number of *)
(* requests, attempts and restarts.  First, the service moves the slot     *)
(* tables as CellPool says, so what CellPoolProofs proves holds of it.     *)
(* Then one invariant: the types, and the books, which count the requests  *)
(* by the phase of their delivery.                                         *)
(***************************************************************************)
EXTENDS ReplayService, CellPoolProofs

(***************************************************************************)
(* The service as a user of the slot tables.                               *)
(***************************************************************************)

\* Every step of the service is a step of the tables, or leaves them alone.
LEMMA ServiceMovesPool == [Next]_vars => [PoolNext]_poolVars
<1> SUFFICES ASSUME [Next]_vars
             PROVE  [PoolNext]_poolVars
  OBVIOUS
<1>1. ASSUME NEW id \in RequestIds, NEW p \in Payloads, analyze_cell(id, p)
      PROVE  [PoolNext]_poolVars
  <2>1. p.cell \in Cells
    BY ServiceAssumption
  <2>2. assign_pool_slot(p.cell) => PoolNext
    BY <2>1 DEF PoolNext
  <2>3. QED
    BY <1>1, <2>2 DEF analyze_cell, Conflict, Duplicate, AcceptRecorded,
                      AcceptPooled, MissClosed, MissPooled
<1>2. ASSUME NEW id \in RequestIds, BuildCallback(id) \/ SendCallback(id)
      PROVE  [PoolNext]_poolVars
  BY <1>2 DEF BuildCallback, SendCallback
<1>3. ASSUME NEW c \in ReportedCells, IndividualReport(c)
      PROVE  [PoolNext]_poolVars
  <2>1. c \in Cells
    BY ServiceAssumption
  <2>2. QED
    BY <1>3, <2>1 DEF IndividualReport, PoolNext
<1>4. ASSUME Shutdown
      PROVE  [PoolNext]_poolVars
  BY <1>4 DEF Shutdown
<1>5. ASSUME Exit \/ Crash
      PROVE  [PoolNext]_poolVars
  BY <1>5 DEF Exit, Crash, NewProcess, PoolNext
<1>6. ASSUME UNCHANGED vars
      PROVE  [PoolNext]_poolVars
  BY <1>6 DEF vars
<1>7. QED
  BY <1>1, <1>2, <1>3, <1>4, <1>5, <1>6 DEF Next

\* The handlers of the service use the slot tables only as CellPool describes
\* it, whatever requests, deliveries and restarts come in between.
THEOREM ServiceKeepsPool == Spec => KeepsPool
<1>1. Init => PoolInit
  BY DEF Init
<1>2. QED
  BY <1>1, ServiceMovesPool, PTL DEF Spec, KeepsPool, PoolSpec

\* So the running service deals the recorded cells and the recorded reports
\* evenly: no order of requests, repeats, misses and restarts makes the mix of
\* verdicts drift.
THEOREM ServiceStaysBalanced ==
    Spec => [](PoolTypeOK /\ PoolBalanced /\ ReportsBalanced)
  BY ServiceKeepsPool, PoolTypeCorrect, PoolStaysBalanced,
     ReportsStayBalanced, PTL DEF KeepsPool

(***************************************************************************)
(* What the catalog returns.                                               *)
(***************************************************************************)

\* Of finitely or infinitely many modalities, one has the least name.
LEMMA LeastName ==
    ASSUME NEW S \in SUBSET Modalities, S # {}
    PROVE  \E k \in S : \A l \in S : NameOrder[k] <= NameOrder[l]
<1> DEFINE Ranks == {NameOrder[k] : k \in S}
<1>1. Ranks \in SUBSET Nat /\ Ranks # {}
  BY CatalogAssumption
<1>2. IsWellFoundedOn(OpToRel(<, Nat), Nat)
  BY NatLessThanWellFounded
<1>3. PICK n \in Ranks : \A r \in Ranks : <<r, n>> \notin OpToRel(<, Nat)
  BY <1>1, <1>2, WFMin
<1>4. n \in Nat /\ \A r \in Ranks : r \in Nat /\ ~ (r < n)
  BY <1>1, <1>3 DEF OpToRel
<1>5. PICK k \in S : NameOrder[k] = n
  BY <1>3
<1>6. \A l \in S : NameOrder[l] \in Ranks
  OBVIOUS
<1>7. \A l \in S : NameOrder[k] <= NameOrder[l]
  BY <1>4, <1>5, <1>6
<1>8. QED
  BY <1>7

\* A request that does not miss is served from a modality the slot has.
LEMMA SourceIsRecorded ==
    ASSUME NEW s \in DOMAIN Takes, NEW m \in Modalities, HasRecording(s, m)
    PROVE  SourceModality(s, m) \in DOMAIN Takes[s]
<1>1. Overlapping(s, m) \in SUBSET Modalities /\ Overlapping(s, m) # {}
  BY CatalogAssumption DEF Overlapping, HasRecording
<1>2. \E k \in Overlapping(s, m) :
          \A l \in Overlapping(s, m) : NameOrder[k] <= NameOrder[l]
  BY <1>1, LeastName
<1>3. QED
  BY <1>2 DEF SourceModality, Overlapping

\* entry_for returns a recording the fixture holds, of the slot asked for.
LEMMA EntryIsRecorded ==
    ASSUME NEW s \in DOMAIN Takes, NEW m \in Modalities, HasRecording(s, m),
           NEW index \in Nat
    PROVE  entry_for(s, m, index) \in Entries
<1> DEFINE k == SourceModality(s, m)
           t == IF index < Takes[s][k] THEN index + 1 ELSE Takes[s][k]
<1>1. k \in DOMAIN Takes[s]
  BY SourceIsRecorded
<1>2. Takes[s][k] \in Nat \ {0}
  BY <1>1, CatalogAssumption
<1>3. t \in 1..Takes[s][k]
  BY <1>2
<1>4. entry_for(s, m, index) = [slot |-> s, modality |-> k, take |-> t]
  BY DEF entry_for
<1>5. QED
  BY <1>1, <1>3, <1>4 DEF Entries

\* The slot a request of a cell is replayed from is a recorded cell.
LEMMA SlotForIsRecorded ==
    ASSUME PoolTypeOK, NEW c \in Cells
    PROVE  SlotFor(c) \in DOMAIN Takes
<1>1. CASE cell_slots[c] = NoSlot
  BY <1>1, SlotForNew, ServiceAssumption
<1>2. CASE cell_slots[c] # NoSlot
  BY <1>2, ServiceAssumption DEF PoolTypeOK, SlotFor
<1>3. QED
  BY <1>1, <1>2

(***************************************************************************)
(* The invariant.                                                          *)
(***************************************************************************)

UnsettledIds == {id \in RequestIds : Unsettled(id)}
AcceptedIds  == {id \in RequestIds : Accepted(id)}
DeliveredIds == {id \in RequestIds : phase[id] = "delivered"}
PooledIds    == {id \in RequestIds : Pooled(id)}

\* A request has a task, and a recording to deliver, when it was accepted.
TasksOfAccepted ==
    \A id \in RequestIds :
        /\ phase[id] = "none" <=> ~ Accepted(id)
        /\ Accepted(id) => entry[id] \in Entries

IInv == TypeOK /\ TasksOfAccepted /\ CapacityExact /\ MetricsAddUp

\* The two invariants of the runs, in terms of the sets the proofs count.
LEMMA BooksAreCounts ==
    /\ CapacityExact <=> /\ inFlight = Cardinality(UnsettledIds)
                         /\ inFlight <= MaxPending
    /\ MetricsAddUp <=> /\ hits = Cardinality(AcceptedIds)
                        /\ hits = inFlight + callbackSuccess + callbackFailure
                        /\ callbackSuccess = Cardinality(DeliveredIds)
                        /\ poolHits = Cardinality(PooledIds)
  BY DEF CapacityExact, MetricsAddUp, UnsettledIds, AcceptedIds,
         DeliveredIds, PooledIds

\* One more, or one less, of finitely many requests.
LEMMA CountRequests ==
    ASSUME NEW A \in SUBSET RequestIds, NEW id \in RequestIds
    PROVE  /\ Cardinality(A) \in Nat
           /\ id \notin A => Cardinality(A \cup {id}) = Cardinality(A) + 1
           /\ id \in A => Cardinality(A \ {id}) = Cardinality(A) - 1
<1>1. IsFiniteSet(A)
  BY FS_Subset, ServiceAssumption
<1>2. Cardinality(A) \in Nat
  BY <1>1, FS_CardinalityType
<1>3. ASSUME id \notin A
      PROVE  Cardinality(A \cup {id}) = Cardinality(A) + 1
  BY <1>1, <1>3, FS_AddElement
<1>4. ASSUME id \in A
      PROVE  Cardinality(A \ {id}) = Cardinality(A) - 1
  BY <1>1, <1>4, FS_RemoveElement
<1>5. QED
  BY <1>2, <1>3, <1>4

\* The tables keep their types under every step of the service.
LEMMA ServicePoolType == TypeOK /\ [Next]_vars => PoolTypeOK'
  BY ServiceMovesPool, PoolTypeStep DEF TypeOK

booksVars == <<requests, entry, hits, poolHits, inFlight, callbackSuccess,
               callbackFailure, phase>>

\* A step that leaves the books alone keeps them.
LEMMA BooksUntouched ==
    ASSUME IInv, UNCHANGED booksVars
    PROVE  TasksOfAccepted' /\ CapacityExact' /\ MetricsAddUp'
  BY DEF IInv, booksVars, TasksOfAccepted, CapacityExact, MetricsAddUp,
         Accepted, Pooled, Unsettled

\* An acceptance is counted wherever it belongs.
LEMMA ScheduleKeepsBooks ==
    ASSUME IInv, NEW id \in RequestIds, NEW p \in Payloads, NEW e \in Entries,
           Admissible(id), Schedule(id, p, e),
           p.recorded # NoEntry => poolHits' = poolHits,
           p.recorded = NoEntry => poolHits' = poolHits + 1
    PROVE  TasksOfAccepted' /\ CapacityExact' /\ MetricsAddUp'
<1>1. /\ phase[id] = "none" /\ ~ Accepted(id)
      /\ inFlight < MaxPending
  BY DEF IInv, TasksOfAccepted, Admissible, Accepted
<1>2. /\ requests' = [requests EXCEPT ![id] = p]
      /\ entry' = [entry EXCEPT ![id] = e]
      /\ phase' = [phase EXCEPT ![id] = "scheduled"]
      /\ hits' = hits + 1 /\ inFlight' = inFlight + 1
      /\ callbackSuccess' = callbackSuccess
      /\ callbackFailure' = callbackFailure
  BY DEF Schedule
<1>3. p # NoPayload
  BY ServiceAssumption
<1>4. TasksOfAccepted'
  BY <1>2, <1>3 DEF IInv, TypeOK, TasksOfAccepted, Accepted
<1>5. /\ UnsettledIds' = UnsettledIds \cup {id} /\ id \notin UnsettledIds
      /\ DeliveredIds' = DeliveredIds
  BY <1>1, <1>2 DEF IInv, TypeOK, UnsettledIds, DeliveredIds, Unsettled
<1>6. AcceptedIds' = AcceptedIds \cup {id} /\ id \notin AcceptedIds
  BY <1>1, <1>2, <1>3 DEF IInv, TypeOK, AcceptedIds, Accepted
<1>7. /\ id \notin PooledIds
      /\ p.recorded # NoEntry => PooledIds' = PooledIds
      /\ p.recorded = NoEntry => PooledIds' = PooledIds \cup {id}
  BY <1>1, <1>2, <1>3 DEF IInv, TypeOK, PooledIds, Pooled, Accepted
<1>8. /\ UnsettledIds \in SUBSET RequestIds
      /\ AcceptedIds \in SUBSET RequestIds
      /\ PooledIds \in SUBSET RequestIds
  BY DEF UnsettledIds, AcceptedIds, PooledIds
<1>9. /\ Cardinality(UnsettledIds') = Cardinality(UnsettledIds) + 1
      /\ Cardinality(AcceptedIds') = Cardinality(AcceptedIds) + 1
      /\ Cardinality(PooledIds') = IF p.recorded = NoEntry
                                   THEN Cardinality(PooledIds) + 1
                                   ELSE Cardinality(PooledIds)
  <2>1. Cardinality(UnsettledIds \cup {id}) = Cardinality(UnsettledIds) + 1
    BY <1>5, <1>8, CountRequests
  <2>2. Cardinality(AcceptedIds \cup {id}) = Cardinality(AcceptedIds) + 1
    BY <1>6, <1>8, CountRequests
  <2>3. Cardinality(PooledIds \cup {id}) = Cardinality(PooledIds) + 1
    BY <1>7, <1>8, CountRequests
  <2>4. QED
    BY <1>5, <1>6, <1>7, <2>1, <2>2, <2>3
<1>10. /\ inFlight = Cardinality(UnsettledIds)
       /\ hits = Cardinality(AcceptedIds)
       /\ hits = inFlight + callbackSuccess + callbackFailure
       /\ callbackSuccess = Cardinality(DeliveredIds)
       /\ poolHits = Cardinality(PooledIds)
       /\ inFlight \in Nat /\ callbackSuccess \in Nat
       /\ callbackFailure \in Nat /\ MaxPending \in Nat
  BY BooksAreCounts, ServiceAssumption DEF IInv, TypeOK
<1>11. /\ inFlight' = Cardinality(UnsettledIds') /\ inFlight' <= MaxPending
       /\ hits' = Cardinality(AcceptedIds')
       /\ hits' = inFlight' + callbackSuccess' + callbackFailure'
       /\ callbackSuccess' = Cardinality(DeliveredIds')
       /\ poolHits' = Cardinality(PooledIds')
  BY <1>1, <1>2, <1>5, <1>9, <1>10
<1>12. QED
  BY <1>4, <1>11 DEF CapacityExact, MetricsAddUp, UnsettledIds, AcceptedIds,
                     DeliveredIds, PooledIds

\* A delivery that ends gives its place back and is counted once.
LEMMA SettleKeepsBooks ==
    ASSUME IInv, NEW id \in RequestIds, Unsettled(id),
           Succeed(id) \/ Fail(id), UNCHANGED <<requests, entry, hits, poolHits>>
    PROVE  TasksOfAccepted' /\ CapacityExact' /\ MetricsAddUp'
<1>1. /\ inFlight = Cardinality(UnsettledIds) /\ inFlight <= MaxPending
      /\ hits = Cardinality(AcceptedIds)
      /\ hits = inFlight + callbackSuccess + callbackFailure
      /\ callbackSuccess = Cardinality(DeliveredIds)
      /\ poolHits = Cardinality(PooledIds)
      /\ inFlight \in Nat /\ callbackSuccess \in Nat
      /\ callbackFailure \in Nat /\ MaxPending \in Nat
  BY BooksAreCounts, ServiceAssumption DEF IInv, TypeOK
<1>2. PICK outcome \in {"delivered", "failed"} :
          /\ phase' = [phase EXCEPT ![id] = outcome]
          /\ inFlight' = inFlight - 1
          /\ outcome = "delivered" =>
                 /\ callbackSuccess' = callbackSuccess + 1
                 /\ callbackFailure' = callbackFailure
          /\ outcome = "failed" =>
                 /\ callbackSuccess' = callbackSuccess
                 /\ callbackFailure' = callbackFailure + 1
  BY DEF Succeed, Fail, Settle
<1>3. phase[id] \in {"scheduled", "sending"}
  BY DEF Unsettled
<1>4. TasksOfAccepted'
  BY <1>2, <1>3 DEF IInv, TypeOK, TasksOfAccepted, Accepted
<1>5. /\ UnsettledIds' = UnsettledIds \ {id} /\ id \in UnsettledIds
      /\ AcceptedIds' = AcceptedIds /\ PooledIds' = PooledIds
  BY <1>2, <1>3 DEF IInv, TypeOK, UnsettledIds, Unsettled, AcceptedIds,
                    Accepted, PooledIds, Pooled
<1>6. /\ id \notin DeliveredIds
      /\ outcome = "delivered" => DeliveredIds' = DeliveredIds \cup {id}
      /\ outcome = "failed" => DeliveredIds' = DeliveredIds
  BY <1>2, <1>3 DEF IInv, TypeOK, DeliveredIds
<1>7. UnsettledIds \in SUBSET RequestIds /\ DeliveredIds \in SUBSET RequestIds
  BY DEF UnsettledIds, DeliveredIds
<1>8. /\ Cardinality(UnsettledIds \ {id}) = Cardinality(UnsettledIds) - 1
      /\ Cardinality(DeliveredIds \cup {id}) = Cardinality(DeliveredIds) + 1
  BY <1>5, <1>6, <1>7, CountRequests
<1>9. callbackSuccess' = Cardinality(DeliveredIds')
  <2>1. CASE outcome = "delivered"
    BY <1>1, <1>2, <1>6, <1>8, <2>1
  <2>2. CASE outcome = "failed"
    BY <1>1, <1>2, <1>6, <2>2
  <2>3. QED
    BY <2>1, <2>2
<1>10. /\ inFlight' = Cardinality(UnsettledIds') /\ inFlight' <= MaxPending
       /\ hits' = Cardinality(AcceptedIds')
       /\ hits' = inFlight' + callbackSuccess' + callbackFailure'
       /\ poolHits' = Cardinality(PooledIds')
  <2>1. hits' = inFlight' + callbackSuccess' + callbackFailure'
    <3>1. CASE outcome = "delivered"
      BY <1>1, <1>2, <3>1
    <3>2. CASE outcome = "failed"
      BY <1>1, <1>2, <3>2
    <3>3. QED
      BY <3>1, <3>2
  <2>2. inFlight' = inFlight - 1 /\ hits' = hits /\ poolHits' = poolHits
    BY <1>2
  <2>3. /\ Cardinality(UnsettledIds') = inFlight - 1
        /\ Cardinality(AcceptedIds') = hits
        /\ Cardinality(PooledIds') = poolHits
    BY <1>1, <1>5, <1>8
  <2>4. inFlight - 1 <= MaxPending
    BY <1>1
  <2>5. QED
    BY <2>1, <2>2, <2>3, <2>4
<1>11. QED
  BY <1>4, <1>9, <1>10 DEF CapacityExact, MetricsAddUp, UnsettledIds,
                           AcceptedIds, DeliveredIds, PooledIds

\* A task that goes on stays one task.
LEMMA GoOnKeepsBooks ==
    ASSUME IInv, NEW id \in RequestIds, Unsettled(id),
           phase' = [phase EXCEPT ![id] = "sending"],
           UNCHANGED <<requests, entry, hits, poolHits, inFlight,
                       callbackSuccess, callbackFailure>>
    PROVE  TasksOfAccepted' /\ CapacityExact' /\ MetricsAddUp'
<1>1. phase[id] \in {"scheduled", "sending"}
  BY DEF Unsettled
<1>2. TasksOfAccepted'
  BY <1>1 DEF IInv, TypeOK, TasksOfAccepted, Accepted
<1>3. /\ UnsettledIds' = UnsettledIds /\ AcceptedIds' = AcceptedIds
      /\ DeliveredIds' = DeliveredIds /\ PooledIds' = PooledIds
  BY <1>1 DEF IInv, TypeOK, UnsettledIds, Unsettled, AcceptedIds, Accepted,
              DeliveredIds, PooledIds, Pooled
<1>4. /\ inFlight' = Cardinality(UnsettledIds') /\ inFlight' <= MaxPending
      /\ hits' = Cardinality(AcceptedIds')
      /\ hits' = inFlight' + callbackSuccess' + callbackFailure'
      /\ callbackSuccess' = Cardinality(DeliveredIds')
      /\ poolHits' = Cardinality(PooledIds')
  BY <1>3, BooksAreCounts DEF IInv
<1>5. QED
  BY <1>2, <1>4 DEF CapacityExact, MetricsAddUp, UnsettledIds, AcceptedIds,
                    DeliveredIds, PooledIds

\* Empty books are in order: at the start and after a restart.
LEMMA EmptyBooks ==
    ASSUME requests = [id \in RequestIds |-> NoPayload],
           phase = [id \in RequestIds |-> "none"],
           hits = 0, poolHits = 0, inFlight = 0,
           callbackSuccess = 0, callbackFailure = 0
    PROVE  TasksOfAccepted /\ CapacityExact /\ MetricsAddUp
<1>1. /\ UnsettledIds = {} /\ AcceptedIds = {}
      /\ DeliveredIds = {} /\ PooledIds = {}
  BY DEF UnsettledIds, Unsettled, AcceptedIds, Accepted, DeliveredIds,
         PooledIds, Pooled
<1>2. Cardinality({}) = 0
  BY FS_EmptySet
<1>3. QED
  BY <1>1, <1>2, BooksAreCounts, ServiceAssumption DEF TasksOfAccepted, Accepted

\* What the lifespan starts with is in order.
LEMMA InitInvariant == Init => IInv
<1> SUFFICES ASSUME Init
             PROVE  IInv
  OBVIOUS
<1>1. PoolTypeOK
  BY DEF Init, PoolInit, PoolTypeOK
<1>2. TypeOK
  BY <1>1 DEF Init, FreshRuntime, TypeOK
<1>3. TasksOfAccepted /\ CapacityExact /\ MetricsAddUp
  BY EmptyBooks DEF Init, FreshRuntime
<1>4. QED
  BY <1>2, <1>3 DEF IInv

\* The types of what an acceptance changes.
LEMMA ScheduleKeepsTypes ==
    ASSUME TypeOK, PoolTypeOK', NEW id \in RequestIds, NEW p \in Payloads,
           NEW e \in Entries, Schedule(id, p, e),
           poolHits' \in Nat, attempt_usage' \in [Cells -> [Modalities -> Nat]]
    PROVE  TypeOK'
<1>1. /\ requests' \in [RequestIds -> Payloads \cup {NoPayload}]
      /\ entry' \in [RequestIds -> Entries \cup {NoEntry}]
      /\ phase' \in [RequestIds ->
             {"none", "scheduled", "sending", "delivered", "failed"}]
  BY DEF TypeOK, Schedule
<1>2. hits' \in Nat /\ inFlight' \in Nat
  BY DEF TypeOK, Schedule
<1>3. UNCHANGED <<attempt, callbackSuccess, callbackFailure, misses,
                  duplicates, conflicts, inbox, mode, restarts,
                  cell_pool_enabled>>
  BY DEF Schedule, lifeVars
<1>4. QED
  BY <1>1, <1>2, <1>3 DEF TypeOK

\* A handler of analyze_cell keeps the invariant.
LEMMA AnalyzeStep ==
    ASSUME IInv, PoolTypeOK', NEW id \in RequestIds, NEW p \in Payloads,
           analyze_cell(id, p)
    PROVE  IInv'
<1>1. /\ p.cell \in Cells /\ p.types \in Modalities
      /\ p.recorded \in Entries \cup {NoEntry}
  BY ServiceAssumption
<1>2. CASE Conflict(id, p) \/ Duplicate(id, p)
  <2>1. UNCHANGED booksVars
    BY <1>2 DEF Conflict, Duplicate, booksVars, requestVars, deliveryVars
  <2>2. TypeOK'
    <3>1. conflicts' \in Nat /\ duplicates' \in Nat
      BY <1>2 DEF IInv, TypeOK, Conflict, Duplicate
    <3>2. UNCHANGED <<requests, entry, attempt_usage, hits, misses, poolHits,
                      inFlight, callbackSuccess, callbackFailure, phase,
                      attempt, inbox, mode, restarts, cell_pool_enabled>>
      BY <1>2 DEF Conflict, Duplicate, requestVars, deliveryVars, lifeVars
    <3>3. QED
      BY <3>1, <3>2 DEF IInv, TypeOK
  <2>3. QED
    BY <2>1, <2>2, BooksUntouched DEF IInv
<1>3. CASE MissClosed(id, p) \/ MissPooled(id, p)
  <2>1. Miss
    BY <1>3 DEF MissClosed, MissPooled
  <2>2. UNCHANGED booksVars
    BY <2>1 DEF Miss, booksVars, requestVars, deliveryVars
  <2>3. TypeOK'
    <3>1. misses' \in Nat
      BY <2>1 DEF IInv, TypeOK, Miss
    <3>2. UNCHANGED <<requests, entry, hits, duplicates, conflicts, poolHits,
                      inFlight, callbackSuccess, callbackFailure, phase,
                      attempt, inbox, mode, restarts, cell_pool_enabled>>
      BY <2>1 DEF Miss, requestVars, deliveryVars, lifeVars
    <3>3. attempt_usage' = attempt_usage
      BY <2>1 DEF Miss
    <3>4. QED
      BY <3>1, <3>2, <3>3 DEF IInv, TypeOK
  <2>4. QED
    BY <2>2, <2>3, BooksUntouched DEF IInv
<1>4. CASE AcceptRecorded(id, p)
  <2>1. /\ Admissible(id) /\ p.recorded \in Entries /\ p.recorded # NoEntry
        /\ Schedule(id, p, p.recorded)
        /\ poolHits' = poolHits /\ attempt_usage' = attempt_usage
    BY <1>1, <1>4 DEF AcceptRecorded
  <2>2. TypeOK'
    BY <2>1, ScheduleKeepsTypes DEF IInv, TypeOK
  <2>3. TasksOfAccepted' /\ CapacityExact' /\ MetricsAddUp'
    BY <2>1, ScheduleKeepsBooks
  <2>4. QED
    BY <2>2, <2>3 DEF IInv
<1>5. CASE AcceptPooled(id, p)
  <2> DEFINE used == attempt_usage[p.cell][p.types]
             e == entry_for(SlotFor(p.cell), p.types, used)
  <2>1. used \in Nat
    BY <1>1 DEF IInv, TypeOK
  <2>2. SlotFor(p.cell) \in DOMAIN Takes
    BY <1>1, SlotForIsRecorded DEF IInv, TypeOK
  <2>3. HasRecording(SlotFor(p.cell), p.types)
    BY <1>5 DEF AcceptPooled
  <2>4. e \in Entries
    BY <1>1, <2>1, <2>2, <2>3, EntryIsRecorded
  <2>5. /\ Admissible(id) /\ p.recorded = NoEntry
        /\ Schedule(id, p, e) /\ poolHits' = poolHits + 1
        /\ attempt_usage' =
               [attempt_usage EXCEPT ![p.cell][p.types] = @ + 1]
    BY <1>5 DEF AcceptPooled
  <2>6. /\ poolHits' \in Nat
        /\ attempt_usage' \in [Cells -> [Modalities -> Nat]]
    BY <1>1, <2>5 DEF IInv, TypeOK
  <2>7. TypeOK'
    BY <2>4, <2>5, <2>6, ScheduleKeepsTypes DEF IInv
  <2>8. TasksOfAccepted' /\ CapacityExact' /\ MetricsAddUp'
    BY <2>4, <2>5, ScheduleKeepsBooks
  <2>9. QED
    BY <2>7, <2>8 DEF IInv
<1>6. QED
  BY <1>2, <1>3, <1>4, <1>5 DEF analyze_cell

\* The end of a delivery keeps the types.
LEMMA SettleKeepsTypes ==
    ASSUME IInv, PoolTypeOK', NEW id \in RequestIds, Unsettled(id),
           Succeed(id) \/ Fail(id),
           inbox' \in [RequestIds -> Seq([cell : Cells, from : Entries])],
           UNCHANGED <<requestVars, attempt_usage, counterVars, lifeVars>>
    PROVE  TypeOK'
<1>1. id \in UnsettledIds /\ UnsettledIds \in SUBSET RequestIds
  BY DEF UnsettledIds
<1>2. inFlight - 1 \in Nat
  <2>1. /\ Cardinality(UnsettledIds \ {id}) \in Nat
        /\ Cardinality(UnsettledIds \ {id}) = Cardinality(UnsettledIds) - 1
    BY <1>1, CountRequests
  <2>2. QED
    BY <2>1, BooksAreCounts DEF IInv
<1>3. inFlight' \in Nat /\ callbackSuccess' \in Nat /\ callbackFailure' \in Nat
  BY <1>2 DEF IInv, TypeOK, Succeed, Fail, Settle
<1>4. phase' \in [RequestIds ->
          {"none", "scheduled", "sending", "delivered", "failed"}]
  BY DEF IInv, TypeOK, Succeed, Fail, Settle
<1>5. attempt' = attempt
  BY DEF Succeed, Fail
<1>6. QED
  BY <1>3, <1>4, <1>5 DEF IInv, TypeOK, requestVars, counterVars, lifeVars

\* A longer inbox is still one of callbacks.
LEMMA AppendKeepsType ==
    ASSUME NEW R, NEW seq \in Seq(R), NEW e \in R
    PROVE  Append(seq, e) \in Seq(R)
  OBVIOUS

\* The steps of a delivery task keep the invariant.
LEMMA DeliveryStep ==
    ASSUME IInv, PoolTypeOK', NEW id \in RequestIds,
           BuildCallback(id) \/ SendCallback(id)
    PROVE  IInv'
<1>1. /\ Unsettled(id)
      /\ UNCHANGED <<requestVars, attempt_usage, counterVars, lifeVars>>
  BY DEF BuildCallback, SendCallback, Unsettled
<1>2. inbox' \in [RequestIds -> Seq([cell : Cells, from : Entries])]
  <2>1. Callback(id) \in [cell : Cells, from : Entries]
    <3>1. Accepted(id)
      BY <1>1 DEF IInv, TasksOfAccepted, Unsettled
    <3>2. requests[id] \in Payloads /\ entry[id] \in Entries
      BY <3>1 DEF IInv, TypeOK, TasksOfAccepted, Accepted
    <3>3. requests[id].cell \in Cells
      BY <3>2, ServiceAssumption
    <3>4. QED
      BY <3>2, <3>3 DEF Callback
  <2>2. inbox' = inbox \/ inbox' = [inbox EXCEPT ![id] = Append(@, Callback(id))]
    BY DEF BuildCallback, SendCallback, Arrives
  <2>3. inbox \in [RequestIds -> Seq([cell : Cells, from : Entries])]
    BY DEF IInv, TypeOK
  <2>4. Append(inbox[id], Callback(id)) \in Seq([cell : Cells, from : Entries])
    BY <2>1, <2>3, AppendKeepsType
  <2>5. QED
    BY <2>2, <2>3, <2>4
<1>3. CASE Succeed(id) \/ Fail(id)
  <2>1. TypeOK'
    BY <1>1, <1>2, <1>3, SettleKeepsTypes
  <2>2. TasksOfAccepted' /\ CapacityExact' /\ MetricsAddUp'
    BY <1>1, <1>3, SettleKeepsBooks DEF requestVars, counterVars
  <2>3. QED
    BY <2>1, <2>2 DEF IInv
<1>4. CASE ~ (Succeed(id) \/ Fail(id))
  <2>1. /\ phase' = [phase EXCEPT ![id] = "sending"]
        /\ attempt' \in [RequestIds -> Nat]
        /\ UNCHANGED <<inFlight, callbackSuccess, callbackFailure>>
    <3>1. CASE BuildCallback(id)
      BY <1>4, <3>1 DEF BuildCallback, IInv, TypeOK
    <3>2. CASE SendCallback(id)
      BY <1>4, <3>2 DEF SendCallback, RetryOrGiveUp, IInv, TypeOK
    <3>3. QED
      BY <3>1, <3>2
  <2>2. TypeOK'
    BY <1>1, <1>2, <2>1 DEF IInv, TypeOK, requestVars, counterVars, lifeVars
  <2>3. TasksOfAccepted' /\ CapacityExact' /\ MetricsAddUp'
    BY <1>1, <2>1, GoOnKeepsBooks DEF requestVars, counterVars
  <2>4. QED
    BY <2>2, <2>3 DEF IInv
<1>5. QED
  BY <1>3, <1>4

\* Reports, SIGTERM and a stutter touch no books.
LEMMA AsideStep ==
    ASSUME IInv, PoolTypeOK',
           (\E c \in ReportedCells : IndividualReport(c)) \/ Shutdown
               \/ UNCHANGED vars
    PROVE  IInv'
<1>1. UNCHANGED booksVars
  BY DEF IndividualReport, Shutdown, vars, booksVars, requestVars,
         deliveryVars, counterVars
<1>2. TypeOK'
  BY DEF IInv, TypeOK, IndividualReport, Shutdown, vars, requestVars,
         deliveryVars, counterVars, lifeVars
<1>3. QED
  BY <1>1, <1>2, BooksUntouched DEF IInv

\* A new process starts with empty books.
LEMMA NewProcessStep ==
    ASSUME IInv, PoolTypeOK', NewProcess
    PROVE  IInv'
<1>1. TypeOK'
  <2>1. /\ requests' \in [RequestIds -> Payloads \cup {NoPayload}]
        /\ entry' \in [RequestIds -> Entries \cup {NoEntry}]
        /\ phase' \in [RequestIds ->
               {"none", "scheduled", "sending", "delivered", "failed"}]
        /\ attempt' \in [RequestIds -> Nat]
        /\ attempt_usage' \in [Cells -> [Modalities -> Nat]]
    BY DEF NewProcess
  <2>2. /\ hits' = 0 /\ misses' = 0 /\ duplicates' = 0 /\ conflicts' = 0
        /\ poolHits' = 0 /\ inFlight' = 0
        /\ callbackSuccess' = 0 /\ callbackFailure' = 0
        /\ mode' = "serving" /\ restarts' \in Nat
        /\ UNCHANGED <<inbox, cell_pool_enabled>>
    BY DEF IInv, TypeOK, NewProcess
  <2>3. QED
    BY <2>1, <2>2 DEF IInv, TypeOK
<1>2. /\ requests' = [id \in RequestIds |-> NoPayload]
      /\ phase' = [id \in RequestIds |-> "none"]
      /\ hits' = 0 /\ poolHits' = 0 /\ inFlight' = 0
      /\ callbackSuccess' = 0 /\ callbackFailure' = 0
  BY DEF NewProcess
<1>3. /\ UnsettledIds' = {} /\ AcceptedIds' = {}
      /\ DeliveredIds' = {} /\ PooledIds' = {}
  BY <1>2 DEF UnsettledIds, Unsettled, AcceptedIds, Accepted, DeliveredIds,
              PooledIds, Pooled
<1>4. TasksOfAccepted' /\ CapacityExact' /\ MetricsAddUp'
  <2>1. Cardinality({}) = 0
    BY FS_EmptySet
  <2>2. TasksOfAccepted'
    BY <1>2 DEF TasksOfAccepted, Accepted
  <2>3. /\ inFlight' = Cardinality(UnsettledIds') /\ inFlight' <= MaxPending
        /\ hits' = Cardinality(AcceptedIds')
        /\ hits' = inFlight' + callbackSuccess' + callbackFailure'
        /\ callbackSuccess' = Cardinality(DeliveredIds')
        /\ poolHits' = Cardinality(PooledIds')
    BY <1>2, <1>3, <2>1, ServiceAssumption
  <2>4. QED
    BY <2>2, <2>3 DEF CapacityExact, MetricsAddUp, UnsettledIds, AcceptedIds,
                      DeliveredIds, PooledIds
<1>5. QED
  BY <1>1, <1>4 DEF IInv

\* Every handler, delivery step, stop and restart keeps the invariant.
LEMMA InvariantStep == IInv /\ [Next]_vars => IInv'
<1> SUFFICES ASSUME IInv, [Next]_vars
             PROVE  IInv'
  OBVIOUS
<1>1. PoolTypeOK'
  BY ServicePoolType DEF IInv
<1>2. QED
  BY <1>1, AnalyzeStep, DeliveryStep, AsideStep, NewProcessStep
     DEF Next, Exit, Crash

\* The invariant of the service holds in every reachable state.
LEMMA Invariant == Spec => []IInv
  BY InitInvariant, InvariantStep, PTL DEF Spec

\* Every variable of replay/app/main.py's RuntimeState and of its delivery
\* tasks keeps its type; in particular a callback always has a recording to
\* be made of, and no counter goes below zero.
THEOREM ServiceTypeCorrect == Spec => []TypeOK
<1>1. IInv => TypeOK
  BY DEF IInv
<1>2. QED
  BY <1>1, Invariant, PTL

\* The queue of analyze_cell never holds more than REPLAY_MAX_PENDING tasks
\* and never leaks a place, for any number of requests, attempts, failures
\* and restarts.
THEOREM CapacityStaysExact == Spec => []CapacityExact
<1>1. IInv => CapacityExact
  BY DEF IInv
<1>2. QED
  BY <1>1, Invariant, PTL

\* The metrics of /health add up in every state of the service.
THEOREM MetricsStayExact == Spec => []MetricsAddUp
<1>1. IInv => MetricsAddUp
  BY DEF IInv
<1>2. QED
  BY <1>1, Invariant, PTL

(***************************************************************************)
(* The callback contract.                                                  *)
(***************************************************************************)

\* The attempts of a task by its phase: none before the first try, and never
\* more than the configured number.
AttemptsInRange ==
    \A id \in RequestIds :
        /\ phase[id] \in {"none", "scheduled"} => attempt[id] = 0
        /\ phase[id] = "sending" => attempt[id] \in 1..MaxAttempts

\* The loop of deliver_callback counts from one and stops at the last attempt.
LEMMA AttemptsStep == IInv /\ AttemptsInRange /\ [Next]_vars => AttemptsInRange'
<1> SUFFICES ASSUME IInv, AttemptsInRange, [Next]_vars
             PROVE  AttemptsInRange'
  OBVIOUS
<1>1. ASSUME UNCHANGED <<phase, attempt>>
      PROVE  AttemptsInRange'
  BY <1>1 DEF AttemptsInRange
<1>2. ASSUME NEW id \in RequestIds, NEW p \in Payloads, analyze_cell(id, p)
      PROVE  AttemptsInRange'
  <2>1. CASE UNCHANGED deliveryVars
    BY <1>1, <2>1 DEF deliveryVars
  <2>2. CASE ~ UNCHANGED deliveryVars
    <3>1. \E e : Admissible(id) /\ Schedule(id, p, e)
      BY <1>2, <2>2 DEF analyze_cell, Conflict, Duplicate, MissClosed,
                        MissPooled, Miss, AcceptRecorded, AcceptPooled
    <3>2. phase[id] = "none" /\ phase' = [phase EXCEPT ![id] = "scheduled"]
      BY <3>1 DEF IInv, TasksOfAccepted, Accepted, Admissible, Schedule
    <3>3. attempt' = attempt
      BY <3>1 DEF Schedule
    <3>4. QED
      BY <3>2, <3>3 DEF AttemptsInRange, IInv, TypeOK
  <2>3. QED
    BY <2>1, <2>2
<1>3. ASSUME NEW id \in RequestIds, BuildCallback(id)
      PROVE  AttemptsInRange'
  <2>1. 1 \in 1..MaxAttempts
    BY ServiceAssumption
  <2>2. CASE Fail(id)
    BY <2>2 DEF Fail, Settle, AttemptsInRange, IInv, TypeOK
  <2>3. CASE ~ Fail(id)
    BY <1>3, <2>1, <2>3 DEF BuildCallback, AttemptsInRange, IInv, TypeOK
  <2>4. QED
    BY <2>2, <2>3
<1>4. ASSUME NEW id \in RequestIds, SendCallback(id)
      PROVE  AttemptsInRange'
  <2>1. CASE Succeed(id) \/ Fail(id)
    BY <2>1 DEF Succeed, Fail, Settle, AttemptsInRange, IInv, TypeOK
  <2>2. CASE ~ (Succeed(id) \/ Fail(id))
    <3>1. /\ phase[id] = "sending" /\ attempt[id] < MaxAttempts
          /\ attempt' = [attempt EXCEPT ![id] = @ + 1] /\ phase' = phase
      BY <1>4, <2>2 DEF SendCallback, RetryOrGiveUp
    <3>2. attempt[id] + 1 \in 1..MaxAttempts
      BY <3>1, ServiceAssumption DEF AttemptsInRange
    <3>3. QED
      BY <3>1, <3>2 DEF AttemptsInRange, IInv, TypeOK
  <2>3. QED
    BY <2>1, <2>2
<1>5. ASSUME NewProcess
      PROVE  AttemptsInRange'
  BY <1>5 DEF NewProcess, AttemptsInRange
<1>6. ASSUME (\E c \in ReportedCells : IndividualReport(c)) \/ Shutdown
                 \/ UNCHANGED vars
      PROVE  AttemptsInRange'
  BY <1>1, <1>6 DEF IndividualReport, Shutdown, vars, deliveryVars
<1>7. QED
  BY <1>2, <1>3, <1>4, <1>5, <1>6 DEF Next, Exit, Crash

\* The attempts stay in the range of their phase.
LEMMA AttemptsInvariant == Spec => []AttemptsInRange
<1>1. Init => AttemptsInRange
  BY DEF Init, FreshRuntime, AttemptsInRange
<1>2. QED
  BY <1>1, Invariant, AttemptsStep, PTL DEF Spec

\* The state of the contract.
theJob      == [id \in RequestIds |-> Job(id)]
theTries    == [id \in RequestIds |-> Tried(id)]
theReceipts == [id \in RequestIds |-> Len(inbox[id])]

contractVars == <<theJob, theTries, theReceipts>>

\* A step that sends and settles nothing is a stutter of the contract.
LEMMA ContractUntouched ==
    ASSUME UNCHANGED <<phase, attempt, inbox>>
    PROVE  UNCHANGED contractVars
  BY DEF contractVars, theJob, theTries, theReceipts, Job, Tried, Unsettled

\* The contract counts with the same operator.
LEMMA SameCardinality ==
    ASSUME NEW S
    PROVE  Contract!Cardinality(S) = Cardinality(S)
  BY DEF Contract!Cardinality, Cardinality

\* The contract's queue is the one inFlight counts.
LEMMA PendingIsUnsettled ==
    ASSUME IInv
    PROVE  Contract!Cardinality(Contract!Pending) = inFlight
<1>1. Contract!Pending = UnsettledIds
  BY DEF IInv, TypeOK, Contract!Pending, Job, UnsettledIds, Unsettled
<1>2. QED
  BY <1>1, BooksAreCounts, SameCardinality DEF IInv

\* An acceptance is an Accept of the contract.
LEMMA ScheduleAccepts ==
    ASSUME IInv, AttemptsInRange, NEW id \in RequestIds, NEW p, NEW e,
           Admissible(id), Schedule(id, p, e)
    PROVE  Contract!Accept(id)
<1>1. phase[id] = "none" /\ inFlight < MaxPending
  BY DEF IInv, TasksOfAccepted, Accepted, Admissible
<1>2. phase' = [phase EXCEPT ![id] = "scheduled"] /\ UNCHANGED <<attempt, inbox>>
  BY DEF Schedule
<1>3. theJob[id] = "new" /\ theJob' = [theJob EXCEPT ![id] = "pending"]
  BY <1>1, <1>2 DEF IInv, TypeOK, theJob, Job, Unsettled
<1>4. theTries' = theTries /\ theReceipts' = theReceipts
  BY <1>1, <1>2 DEF IInv, TypeOK, theTries, Tried, theReceipts
<1>5. Contract!Cardinality(Contract!Pending) < MaxPending
  BY <1>1, PendingIsUnsettled
<1>6. /\ [i \in RequestIds |-> Job(i)][id] = "new"
      /\ [i \in RequestIds |-> Job(i)]' =
             [[i \in RequestIds |-> Job(i)] EXCEPT ![id] = "pending"]
      /\ [i \in RequestIds |-> Tried(i)]' = [i \in RequestIds |-> Tried(i)]
      /\ [i \in RequestIds |-> Len(inbox[i])]' =
             [i \in RequestIds |-> Len(inbox[i])]
  BY <1>3, <1>4 DEF theJob, theTries, theReceipts
<1>7. QED
  BY <1>5, <1>6 DEF Contract!Accept

\* A callback that is built is no step of the contract, one that cannot be
\* built a GiveUp.
LEMMA BuildGivesUp ==
    ASSUME IInv, AttemptsInRange, NEW id \in RequestIds, BuildCallback(id)
    PROVE  Contract!GiveUp(id) \/ UNCHANGED contractVars
<1>1. phase[id] = "scheduled" /\ attempt[id] = 0 /\ inbox' = inbox
  BY DEF BuildCallback, AttemptsInRange
<1>2. CASE Fail(id)
  <2>1. phase' = [phase EXCEPT ![id] = "failed"] /\ attempt' = attempt
    BY <1>2 DEF Fail, Settle
  <2>2. theJob[id] = "pending" /\ theJob' = [theJob EXCEPT ![id] = "failed"]
    BY <1>1, <2>1 DEF IInv, TypeOK, theJob, Job, Unsettled
  <2>3. /\ theTries[id] = 0 /\ theTries' = theTries
        /\ theReceipts' = theReceipts
    BY <1>1, <2>1 DEF IInv, TypeOK, theTries, Tried, theReceipts
  <2>4. QED
    BY <2>2, <2>3 DEF Contract!GiveUp, theJob, theTries, theReceipts
<1>3. CASE ~ Fail(id)
  <2>1. /\ phase' = [phase EXCEPT ![id] = "sending"]
        /\ attempt' = [attempt EXCEPT ![id] = 1]
    BY <1>3 DEF BuildCallback
  <2>2. theJob' = theJob
    BY <1>1, <2>1 DEF IInv, TypeOK, theJob, Job, Unsettled
  <2>3. theTries' = theTries /\ theReceipts' = theReceipts
    BY <1>1, <2>1 DEF IInv, TypeOK, theTries, Tried, theReceipts
  <2>4. QED
    BY <2>2, <2>3 DEF contractVars
<1>4. QED
  BY <1>2, <1>3

\* One POST is one Try.
LEMMA SendTries ==
    ASSUME IInv, AttemptsInRange, NEW id \in RequestIds, SendCallback(id)
    PROVE  Contract!Try(id)
<1>1. /\ phase[id] = "sending" /\ attempt[id] \in 1..MaxAttempts
      /\ MaxAttempts \in Nat
  BY ServiceAssumption DEF SendCallback, AttemptsInRange
<1>2. /\ theJob[id] = "pending"
      /\ theTries[id] = attempt[id] - 1 /\ theTries[id] < MaxAttempts
  BY <1>1 DEF theJob, Job, Unsettled, theTries, Tried
<1>3. theTries' = [theTries EXCEPT ![id] = @ + 1]
  <2>1. \/ /\ phase'[id] # "sending" /\ attempt' = attempt
        \/ /\ phase' = phase /\ attempt' = [attempt EXCEPT ![id] = @ + 1]
    BY DEF SendCallback, Succeed, RetryOrGiveUp, Fail, Settle, IInv, TypeOK
  <2>2. \A i \in RequestIds \ {id} : phase'[i] = phase[i]
    BY DEF SendCallback, Succeed, RetryOrGiveUp, Fail, Settle, IInv, TypeOK
  <2>3. theTries'[id] = theTries[id] + 1
    BY <1>1, <2>1 DEF theTries, Tried, IInv, TypeOK
  <2>4. \A i \in RequestIds \ {id} : theTries'[i] = theTries[i]
    BY <2>1, <2>2 DEF theTries, Tried, IInv, TypeOK
  <2>5. QED
    BY <2>3, <2>4 DEF theTries
<1>4. Arrives(id) => theReceipts' = [theReceipts EXCEPT ![id] = @ + 1]
  <2> SUFFICES ASSUME Arrives(id)
               PROVE  theReceipts' = [theReceipts EXCEPT ![id] = @ + 1]
    OBVIOUS
  <2> DEFINE longer == Append(inbox[id], Callback(id))
  <2>1. inbox' = [inbox EXCEPT ![id] = longer]
    BY DEF Arrives
  <2>2. inbox[id] \in Seq([cell : Cells, from : Entries])
    BY DEF IInv, TypeOK
  <2>3. Len(longer) = Len(inbox[id]) + 1
    BY <2>2
  <2> HIDE DEF longer
  <2>4. QED
    BY <2>1, <2>3 DEF theReceipts, IInv, TypeOK
<1>5. inbox' = inbox => theReceipts' = theReceipts
  BY DEF theReceipts
<1>6. CASE Arrives(id) /\ Succeed(id)
  <2>1. phase' = [phase EXCEPT ![id] = "delivered"]
    BY <1>6 DEF Succeed, Settle
  <2>2. theJob' = [theJob EXCEPT ![id] = "delivered"]
    BY <2>1 DEF IInv, TypeOK, theJob, Job, Unsettled
  <2>3. QED
    BY <1>2, <1>3, <1>4, <1>6, <2>2
       DEF Contract!Try, Contract!Received, theJob, theTries, theReceipts
<1>7. CASE (Arrives(id) \/ inbox' = inbox) /\ RetryOrGiveUp(id)
  <2>1. theTries'[id] = attempt[id]
    BY <1>1, <1>2, <1>3 DEF theTries
  <2>2. theJob' = [theJob EXCEPT ![id] =
                       IF theTries'[id] = MaxAttempts THEN "failed" ELSE @]
    <3>1. CASE attempt[id] < MaxAttempts
      <4>1. phase' = phase
        BY <1>1, <1>7, <3>1 DEF RetryOrGiveUp
      <4>2. theJob' = theJob
        BY <4>1 DEF theJob, Job, Unsettled
      <4>3. theTries'[id] # MaxAttempts
        BY <1>1, <2>1, <3>1
      <4>4. QED
        BY <4>2, <4>3 DEF theJob
    <3>2. CASE ~ (attempt[id] < MaxAttempts)
      <4>1. phase' = [phase EXCEPT ![id] = "failed"]
        BY <1>7, <3>2 DEF RetryOrGiveUp, Fail, Settle
      <4>2. theJob' = [theJob EXCEPT ![id] = "failed"]
        BY <4>1 DEF IInv, TypeOK, theJob, Job, Unsettled
      <4>3. theTries'[id] = MaxAttempts
        BY <1>1, <2>1, <3>2
      <4>4. QED
        BY <4>2, <4>3
    <3>3. QED
      BY <3>1, <3>2
  <2>3. QED
    BY <1>2, <1>3, <1>4, <1>5, <1>7, <2>2
       DEF Contract!Try, Contract!Received, theJob, theTries, theReceipts
<1>8. QED
  BY <1>6, <1>7 DEF SendCallback

\* Every step of the service is a step of the contract or none of its business.
LEMMA ContractStep ==
    IInv /\ AttemptsInRange /\ [Next]_vars => [Contract!Next]_(Contract!vars)
<1> SUFFICES ASSUME IInv, AttemptsInRange, [Next]_vars
             PROVE  Contract!Next \/ UNCHANGED contractVars
  BY DEF Contract!vars, contractVars, theJob, theTries, theReceipts
<1>1. ASSUME NEW id \in RequestIds, NEW p \in Payloads, analyze_cell(id, p)
      PROVE  Contract!Next \/ UNCHANGED contractVars
  <2>1. UNCHANGED <<deliveryVars, inbox>>
            \/ \E e : Admissible(id) /\ Schedule(id, p, e)
    BY <1>1 DEF analyze_cell, Conflict, Duplicate, MissClosed, MissPooled,
                Miss, AcceptRecorded, AcceptPooled
  <2>2. CASE UNCHANGED <<deliveryVars, inbox>>
    BY <2>2, ContractUntouched DEF deliveryVars
  <2>3. ASSUME NEW e, Admissible(id), Schedule(id, p, e)
        PROVE  Contract!Next
    BY <2>3, ScheduleAccepts DEF Contract!Next
  <2>4. QED
    BY <2>1, <2>2, <2>3
<1>2. ASSUME NEW id \in RequestIds, BuildCallback(id)
      PROVE  Contract!Next \/ UNCHANGED contractVars
  BY <1>2, BuildGivesUp DEF Contract!Next
<1>3. ASSUME NEW id \in RequestIds, SendCallback(id)
      PROVE  Contract!Next
  BY <1>3, SendTries DEF Contract!Next
<1>4. ASSUME NewProcess
      PROVE  Contract!Next
  <2>1. /\ phase' = [id \in RequestIds |-> "none"]
        /\ attempt' = [id \in RequestIds |-> 0] /\ inbox' = inbox
    BY <1>4 DEF NewProcess
  <2>2. /\ theJob' = [id \in RequestIds |-> "new"]
        /\ theTries' = [id \in RequestIds |-> 0]
        /\ theReceipts' = theReceipts
    BY <2>1 DEF theJob, Job, theTries, Tried, theReceipts
  <2>3. QED
    BY <2>2 DEF Contract!Next, Contract!Forget, theJob, theTries, theReceipts
<1>5. ASSUME (\E c \in ReportedCells : IndividualReport(c)) \/ Shutdown
                 \/ UNCHANGED vars
      PROVE  UNCHANGED contractVars
  BY <1>5, ContractUntouched DEF IndividualReport, Shutdown, vars, deliveryVars
<1>6. QED
  BY <1>1, <1>2, <1>3, <1>4, <1>5 DEF Next, Exit, Crash

\* replay/app/main.py keeps what a caller of /ai/cells/analyze relies on, for
\* any queue, number of attempts and fate of every callback: an id accepted
\* once until a restart, at most MaxAttempts tries and none after success, and
\* nothing reported as delivered that was not received.
THEOREM ServiceKeepsContract == Spec => KeepsContract
<1>1. Init => Contract!Init
  <2> SUFFICES ASSUME Init
               PROVE  Contract!Init
    OBVIOUS
  <2>1. /\ \A id \in RequestIds : Job(id) = "new"
        /\ \A id \in RequestIds : Tried(id) = 0
        /\ \A id \in RequestIds : Len(inbox[id]) = 0
    BY DEF Init, FreshRuntime, Job, Tried
  <2>2. QED
    BY <2>1 DEF Contract!Init
<1>2. QED
  BY <1>1, Invariant, AttemptsInvariant, ContractStep, PTL
     DEF Spec, KeepsContract, Contract!Spec

-----------------------------------------------------------------------------
(***************************************************************************)
(* What an accepted request is answered with, for every fixture, pool and  *)
(* order of requests: that one unrecorded cell is replayed from one slot,  *)
(* that its recaptures walk through the recorded attempts, that nothing is *)
(* replayed for it with the pool closed, and that an acceptance is final.  *)
(*                                                                         *)
(* The slot of a request and the number of its attempt are read when it is *)
(* accepted and kept by its task; the two tables they were read from go on *)
(* changing.  The invariant says what of them cannot change any more.      *)
(***************************************************************************)


(***************************************************************************)
(* The requests of one cell.                                               *)
(***************************************************************************)

\* A request was replayed from the slot its cell is bound to.
ReplayedFromSlot(id) ==
    /\ cell_slots[requests[id].cell] # NoSlot
    /\ entry[id].slot = cell_slots[requests[id].cell]

\* And with an attempt that was already counted.
TakeWasCounted(id) ==
    entry[id].take <= attempt_usage[requests[id].cell][requests[id].types]

Questions == {id \in RequestIds : Pooled(id)}

Asked(c, m) == {id \in RequestIds : /\ Pooled(id)
                                    /\ requests[id].cell = c
                                    /\ requests[id].types = m}

\* What the pool keeps: RecapturesAdvance holds because no take is ahead of
\* the counter, so that a counter that moves on gives a new take.
PoolInv ==
    /\ \A id \in Questions : ReplayedFromSlot(id) /\ TakeWasCounted(id)
    /\ \A c \in Cells, m \in Modalities :
          attempt_usage[c][m] = Cardinality(Asked(c, m))
    /\ RecapturesAdvance

\* The three properties of the pooled answers are parts of the invariant.
LEMMA PoolInvHolds == PoolInv => /\ OneSlotPerCell
                                 /\ UsageIsAccepted
                                 /\ RecapturesAdvance
  BY DEF PoolInv, Questions, Asked, ReplayedFromSlot, OneSlotPerCell,
         UsageIsAccepted

\* No step but a restart takes a slot away from a cell.
LEMMA SlotsStay ==
    ASSUME PoolTypeOK, NEW c \in Cells, assign_pool_slot(c)
    PROVE  /\ cell_slots'[c] = SlotFor(c) /\ SlotFor(c) # NoSlot
           /\ \A d \in Cells :
                 cell_slots[d] # NoSlot => cell_slots'[d] = cell_slots[d]
<1>1. CASE BindSlot(c)
  <2>1. /\ cell_slots[c] = NoSlot
        /\ cell_slots' = [cell_slots EXCEPT ![c] = SlotFor(c)]
    BY <1>1 DEF BindSlot
  <2>2. SlotFor(c) \in Elems(Slots)
    BY <2>1, SlotForNew
  <2>3. SlotFor(c) # NoSlot
    BY <2>2, PoolAssumption
  <2>4. QED
    BY <2>1, <2>3 DEF PoolTypeOK
<1>2. CASE KeepSlot(c)
  BY <1>2 DEF KeepSlot, analysisVars, SlotFor
<1>3. QED
  BY <1>1, <1>2 DEF assign_pool_slot

\* A step that leaves the requests and their counts alone, and takes no slot
\* away, keeps what the pool keeps.
LEMMA PoolInvUntouched ==
    ASSUME IInv, PoolInv, UNCHANGED <<requests, entry, attempt_usage>>,
           \A d \in Cells :
               cell_slots[d] # NoSlot => cell_slots'[d] = cell_slots[d]
    PROVE  PoolInv'
<1>1. /\ Questions' = Questions
      /\ \A c \in Cells, m \in Modalities : Asked(c, m)' = Asked(c, m)
  BY DEF Questions, Asked, Pooled, Accepted
<1>2. \A id \in Questions : requests[id].cell \in Cells
  BY ServiceAssumption DEF IInv, TypeOK, Questions, Pooled, Accepted
<1>3. \A id \in Questions' : ReplayedFromSlot(id)' /\ TakeWasCounted(id)'
  BY <1>1, <1>2 DEF PoolInv, ReplayedFromSlot, TakeWasCounted
<1>4. RecapturesAdvance'
  BY DEF PoolInv, RecapturesAdvance, SameQuestion, Pooled, Accepted
<1>5. QED
  BY <1>1, <1>3, <1>4 DEF PoolInv, Asked

\* A request answered from its own recording is no question to the pool.
LEMMA RecordedAsksNothing ==
    ASSUME IInv, PoolInv, NEW id \in RequestIds, NEW p \in Payloads,
           AcceptRecorded(id, p)
    PROVE  PoolInv'
<1>1. /\ requests[id] = NoPayload /\ p.recorded # NoEntry
      /\ requests' = [requests EXCEPT ![id] = p]
      /\ entry' = [entry EXCEPT ![id] = p.recorded]
      /\ UNCHANGED <<cell_slots, attempt_usage>>
  BY DEF AcceptRecorded, Admissible, Schedule, poolVars, analysisVars
<1>2. ~ Pooled(id) /\ ~ Pooled(id)'
  BY <1>1 DEF IInv, TypeOK, Pooled, Accepted
<1>3. \A i \in RequestIds \ {id} :
          requests'[i] = requests[i] /\ entry'[i] = entry[i]
  BY <1>1 DEF IInv, TypeOK
<1>4. \A i \in RequestIds : /\ Pooled(i)' <=> Pooled(i)
                            /\ Pooled(i) => i # id
  BY <1>2, <1>3 DEF Pooled, Accepted
<1>5. /\ Questions' = Questions
      /\ \A c \in Cells, m \in Modalities : Asked(c, m)' = Asked(c, m)
  BY <1>3, <1>4 DEF Questions, Asked
<1>6. \A i \in Questions' : ReplayedFromSlot(i)' /\ TakeWasCounted(i)'
  BY <1>1, <1>3, <1>4, <1>5
     DEF PoolInv, Questions, ReplayedFromSlot, TakeWasCounted
<1>7. RecapturesAdvance'
  BY <1>3, <1>4 DEF PoolInv, RecapturesAdvance, SameQuestion
<1>8. QED
  BY <1>1, <1>5, <1>6, <1>7 DEF PoolInv, Asked

\* What entry_for returns for the index-th request, and that it never runs
\* ahead of the index.
LEMMA EntryOfIndex ==
    ASSUME NEW s \in DOMAIN Takes, NEW m \in Modalities, HasRecording(s, m),
           NEW index \in Nat, NEW e, e = entry_for(s, m, index)
    PROVE  /\ e.slot = s
           /\ e.take <= index + 1
           /\ e.take # Takes[e.slot][e.modality] => e.take = index + 1
<1>1. SourceModality(s, m) \in DOMAIN Takes[s]
  BY SourceIsRecorded
<1>2. Takes[s][SourceModality(s, m)] \in Nat
  BY <1>1, CatalogAssumption
<1>3. /\ e.slot = s /\ e.modality = SourceModality(s, m)
      /\ e.take = IF index < Takes[s][SourceModality(s, m)] THEN index + 1
                  ELSE Takes[s][SourceModality(s, m)]
  BY DEF entry_for
<1>4. QED
  BY <1>2, <1>3

\* The entries of the catalog, field by field.
LEMMA EntryTake ==
    ASSUME NEW e \in Entries
    PROVE  e.take \in Nat
  BY CatalogAssumption DEF Entries

\* A question answered by the pool: its cell is bound before it is answered,
\* the answer is the next attempt, and the counter moves past it.
LEMMA PooledAsksNext ==
    ASSUME IInv, PoolInv, NEW id \in RequestIds, NEW p \in Payloads,
           AcceptPooled(id, p)
    PROVE  PoolInv'
<1> DEFINE c == p.cell
           m == p.types
           used == attempt_usage[c][m]
           s == SlotFor(c)
<1>1. c \in Cells /\ m \in Modalities
  BY ServiceAssumption
<1>2. used \in Nat
  BY <1>1 DEF IInv, TypeOK
<1>3. PICK e : e = entry_for(s, m, used)
  OBVIOUS
<1>4. /\ requests[id] = NoPayload /\ p.recorded = NoEntry /\ p # NoPayload
      /\ requests' = [requests EXCEPT ![id] = p]
      /\ entry' = [entry EXCEPT ![id] = e]
      /\ attempt_usage' = [attempt_usage EXCEPT ![c][m] = @ + 1]
      /\ assign_pool_slot(c)
      /\ HasRecording(s, m)
  BY <1>3, ServiceAssumption DEF AcceptPooled, Admissible, Schedule
<1>5. /\ cell_slots'[c] = s /\ s # NoSlot
      /\ \A d \in Cells : cell_slots[d] # NoSlot => cell_slots'[d] = cell_slots[d]
  BY <1>1, <1>4, SlotsStay DEF IInv, TypeOK
<1>6. s \in DOMAIN Takes
  BY <1>1, SlotForIsRecorded DEF IInv, TypeOK
<1>7. /\ e.slot = s /\ e.take <= used + 1
      /\ e.take # Takes[e.slot][e.modality] => e.take = used + 1
  BY <1>1, <1>2, <1>3, <1>4, <1>6, EntryOfIndex
<1>8. e \in Entries
  BY <1>1, <1>2, <1>3, <1>4, <1>6, EntryIsRecorded
<1> HIDE DEF c, m, used, s
<1>9. /\ ~ Pooled(id)
      /\ Pooled(id)' /\ requests'[id] = p /\ entry'[id] = e
  BY <1>4 DEF IInv, TypeOK, Pooled, Accepted
<1>10. \A i \in RequestIds \ {id} :
           /\ requests'[i] = requests[i] /\ entry'[i] = entry[i]
           /\ Pooled(i)' <=> Pooled(i)
  BY <1>4 DEF IInv, TypeOK, Pooled, Accepted
<1>11. \A d \in Cells, n \in Modalities :
           /\ attempt_usage[d][n] \in Nat
           /\ attempt_usage'[d][n] = attempt_usage[d][n]
                                         + (IF d = c /\ n = m THEN 1 ELSE 0)
  BY <1>1, <1>4 DEF IInv, TypeOK
<1>12. \A i \in RequestIds : Pooled(i) =>
           /\ requests[i].cell \in Cells /\ requests[i].types \in Modalities
           /\ entry[i].take \in Nat
  <2>1. \A i \in RequestIds : Pooled(i) => requests[i] \in Payloads
    BY DEF IInv, TypeOK, Pooled, Accepted
  <2>2. \A i \in RequestIds : Pooled(i) => entry[i] \in Entries
    BY DEF IInv, TasksOfAccepted, Pooled
  <2>3. QED
    BY <2>1, <2>2, EntryTake, ServiceAssumption
<1>13. \A i \in Questions' : ReplayedFromSlot(i)' /\ TakeWasCounted(i)'
  <2> SUFFICES ASSUME NEW i \in RequestIds, Pooled(i)'
               PROVE  ReplayedFromSlot(i)' /\ TakeWasCounted(i)'
    BY DEF Questions
  <2>1. CASE i = id
    BY <1>1, <1>2, <1>5, <1>7, <1>9, <1>11, <2>1
       DEF ReplayedFromSlot, TakeWasCounted, c, m, used
  <2>2. CASE i # id
    <3>1. Pooled(i) /\ requests'[i] = requests[i] /\ entry'[i] = entry[i]
      BY <1>10, <2>2
    <3>2. ReplayedFromSlot(i) /\ TakeWasCounted(i)
      BY <3>1 DEF PoolInv, Questions
    <3>3. QED
      BY <1>5, <1>11, <1>12, <3>1, <3>2 DEF ReplayedFromSlot, TakeWasCounted
  <2>3. QED
    BY <2>1, <2>2
<1>14. \A d \in Cells, n \in Modalities :
           attempt_usage'[d][n] = Cardinality(Asked(d, n)')
  <2> SUFFICES ASSUME NEW d \in Cells, NEW n \in Modalities
               PROVE  attempt_usage'[d][n] = Cardinality(Asked(d, n)')
    OBVIOUS
  <2>1. attempt_usage[d][n] = Cardinality(Asked(d, n))
    BY DEF PoolInv
  <2>2. Asked(d, n) \in SUBSET RequestIds /\ id \notin Asked(d, n)
    BY <1>9 DEF Asked
  <2>3. CASE d = c /\ n = m
    <3>1. Asked(d, n)' = Asked(d, n) \cup {id}
      BY <1>9, <1>10, <2>3 DEF Asked, c, m
    <3>2. Cardinality(Asked(d, n) \cup {id}) = Cardinality(Asked(d, n)) + 1
      BY <2>2, CountRequests
    <3>3. QED
      BY <1>11, <2>1, <2>3, <3>1, <3>2
  <2>4. CASE ~ (d = c /\ n = m)
    <3>1. Asked(d, n)' = Asked(d, n)
      BY <1>9, <1>10, <2>4 DEF Asked, c, m
    <3>2. QED
      BY <1>11, <2>1, <2>4, <3>1
  <2>5. QED
    BY <2>3, <2>4
<1>15. RecapturesAdvance'
  \* The new request against an older one to the same question.
  <2>1. ASSUME NEW j \in RequestIds \ {id}, SameQuestion(id, j)', e = entry'[j]
        PROVE  e.take = Takes[e.slot][e.modality]
    <3>1. Pooled(j) /\ requests[j].cell = c /\ requests[j].types = m
      BY <1>9, <1>10, <2>1 DEF SameQuestion, c, m
    <3>2. entry[j].take <= used /\ entry[j].take \in Nat
      BY <1>12, <3>1 DEF PoolInv, Questions, TakeWasCounted, used
    <3>3. e.take # used + 1
      BY <1>2, <1>10, <2>1, <3>2
    <3>4. QED
      BY <1>7, <3>3
  <2> SUFFICES ASSUME NEW i \in RequestIds, NEW j \in RequestIds, i # j,
                      SameQuestion(i, j)', entry'[i] = entry'[j]
               PROVE  entry'[i].take =
                          Takes[entry'[i].slot][entry'[i].modality]
    BY DEF RecapturesAdvance
  <2>2. CASE i = id
    BY <1>9, <2>1, <2>2
  <2>3. CASE j = id
    <3>1. SameQuestion(id, i)'
      BY <2>3 DEF SameQuestion
    <3>2. QED
      BY <1>9, <2>1, <2>3, <3>1
  <2>4. CASE i # id /\ j # id
    <3>1. SameQuestion(i, j) /\ entry[i] = entry[j] /\ entry'[i] = entry[i]
      BY <1>10, <2>4 DEF SameQuestion
    <3>2. QED
      BY <3>1 DEF PoolInv, RecapturesAdvance
  <2>5. QED
    BY <2>2, <2>3, <2>4
<1>16. QED
  BY <1>13, <1>14, <1>15 DEF PoolInv, Asked

\* No question was asked yet: at the start and after a restart.
LEMMA NothingAsked ==
    ASSUME requests = [id \in RequestIds |-> NoPayload],
           attempt_usage = [c \in Cells |-> [m \in Modalities |-> 0]]
    PROVE  PoolInv
<1>1. \A id \in RequestIds : ~ Pooled(id)
  BY DEF Pooled, Accepted
<1>2. Questions = {} /\ \A c \in Cells, m \in Modalities : Asked(c, m) = {}
  BY <1>1 DEF Questions, Asked
<1>3. RecapturesAdvance
  BY <1>1 DEF RecapturesAdvance, SameQuestion
<1>4. QED
  BY <1>2, <1>3, FS_EmptySet DEF PoolInv

\* A new process has accepted nothing and counted nothing.
LEMMA NothingAskedAfter ==
    ASSUME NewProcess
    PROVE  PoolInv'
<1>1. /\ requests' = [id \in RequestIds |-> NoPayload]
      /\ attempt_usage' = [c \in Cells |-> [m \in Modalities |-> 0]]
  BY DEF NewProcess
<1>2. \A id \in RequestIds : ~ Pooled(id)'
  BY <1>1 DEF Pooled, Accepted
<1>3. Questions' = {} /\ \A c \in Cells, m \in Modalities : Asked(c, m)' = {}
  BY <1>2 DEF Questions, Asked
<1>4. RecapturesAdvance'
  BY <1>2 DEF RecapturesAdvance, SameQuestion
<1>5. QED
  BY <1>1, <1>3, <1>4, FS_EmptySet DEF PoolInv, Asked

\* A miss may bind the cell, but asks nothing.
LEMMA MissAsksNothing ==
    ASSUME IInv, PoolInv, NEW id \in RequestIds, NEW p \in Payloads,
           MissClosed(id, p) \/ MissPooled(id, p)
    PROVE  PoolInv'
<1>1. p.cell \in Cells
  BY ServiceAssumption
<1>2. UNCHANGED <<requests, entry, attempt_usage>>
  BY DEF MissClosed, MissPooled, Miss, requestVars
<1>3. \A d \in Cells : cell_slots[d] # NoSlot => cell_slots'[d] = cell_slots[d]
  BY <1>1, SlotsStay
     DEF MissClosed, MissPooled, poolVars, analysisVars, IInv, TypeOK
<1>4. QED
  BY <1>2, <1>3, PoolInvUntouched

\* Only an acceptance and a restart touch what the invariant is about.
LEMMA PoolInvStep == IInv /\ PoolInv /\ [Next]_vars => PoolInv'
<1> SUFFICES ASSUME IInv, PoolInv, [Next]_vars
             PROVE  PoolInv'
  OBVIOUS
<1>1. ASSUME UNCHANGED <<requests, entry, attempt_usage, cell_slots>>
      PROVE  PoolInv'
  BY <1>1, PoolInvUntouched
<1>2. ASSUME NEW id \in RequestIds, NEW p \in Payloads, analyze_cell(id, p)
      PROVE  PoolInv'
  <2>1. CASE Conflict(id, p) \/ Duplicate(id, p)
    BY <1>1, <2>1 DEF Conflict, Duplicate, poolVars, analysisVars, requestVars
  <2>2. QED
    BY <1>2, <2>1, RecordedAsksNothing, PooledAsksNext, MissAsksNothing
       DEF analyze_cell
<1>3. ASSUME NEW id \in RequestIds, BuildCallback(id) \/ SendCallback(id)
      PROVE  PoolInv'
  BY <1>1, <1>3 DEF BuildCallback, SendCallback, poolVars, analysisVars,
                    requestVars
<1>4. ASSUME NEW c \in ReportedCells, IndividualReport(c)
      PROVE  PoolInv'
  BY <1>1, <1>4 DEF IndividualReport, individual_report, pooled_report_serial,
                    poolVars, analysisVars, requestVars
<1>5. CASE Shutdown \/ UNCHANGED vars
  BY <1>1, <1>5 DEF Shutdown, vars, poolVars, analysisVars, requestVars
<1>6. QED
  BY <1>2, <1>3, <1>4, <1>5, NothingAskedAfter DEF Next, Exit, Crash

\* The invariant of the pooled answers holds in every reachable state.
LEMMA PoolInvariant == Spec => []PoolInv
<1>1. Init => PoolInv
  BY NothingAsked DEF Init, FreshRuntime
<1>2. QED
  BY <1>1, Invariant, PoolInvStep, PTL DEF Spec

\* pooled_analysis replays every request of one unrecorded cell from the slot
\* the cell is bound to at any later time of the same process, whatever other
\* cells, modalities, misses and reports come in between.
THEOREM OneSlotForEachCell == Spec => []OneSlotPerCell
  BY PoolInvariant, PoolInvHolds, PTL

\* attempt_usage counts the accepted pooled requests of each cell and modality
\* and nothing else: no 404, 409 or repetition uses a recorded attempt up.
THEOREM UsageCountsAccepted == Spec => []UsageIsAccepted
  BY PoolInvariant, PoolInvHolds, PTL

\* Two requests for the same cell and modality get the same recorded attempt
\* only when it is the last one, for any number of recorded attempts.
THEOREM RecapturesAlwaysAdvance == Spec => []RecapturesAdvance
  BY PoolInvariant, PoolInvHolds, PTL

(***************************************************************************)
(* The closed pool.                                                        *)
(***************************************************************************)

\* The one handler that accepts with the pool closed replays the request's own
\* recording, and the two that bind a cell ask for the pool first.
LEMMA ClosedStep == IInv /\ FailsClosed /\ [Next]_vars => FailsClosed'
<1> SUFFICES ASSUME IInv, FailsClosed, [Next]_vars, ~ cell_pool_enabled'
             PROVE  FailsClosed'
  BY DEF FailsClosed
<1>1. ~ cell_pool_enabled
  BY DEF Next, analyze_cell, Conflict, Duplicate, AcceptRecorded, AcceptPooled,
         MissClosed, MissPooled, Miss, Schedule, BuildCallback, SendCallback,
         IndividualReport, Shutdown, Exit, Crash, NewProcess, vars, lifeVars
<1>2. ASSUME UNCHANGED <<requests, entry, cell_slots, report_slots>>
      PROVE  FailsClosed'
  BY <1>1, <1>2 DEF FailsClosed, Accepted
<1>3. ASSUME NEW id \in RequestIds, NEW p \in Payloads, analyze_cell(id, p)
      PROVE  FailsClosed'
  <2>1. CASE AcceptRecorded(id, p)
    <3>1. /\ requests' = [requests EXCEPT ![id] = p]
          /\ entry' = [entry EXCEPT ![id] = p.recorded]
          /\ p.recorded # NoEntry
          /\ UNCHANGED <<cell_slots, report_slots>>
      BY <2>1 DEF AcceptRecorded, Schedule, poolVars, analysisVars, reportVars
    <3>2. QED
      BY <1>1, <3>1 DEF FailsClosed, Accepted, IInv, TypeOK
  <2>2. CASE ~ AcceptRecorded(id, p)
    BY <1>1, <1>2, <1>3, <2>2
       DEF analyze_cell, Conflict, Duplicate, AcceptPooled, MissClosed,
           MissPooled, Miss, poolVars, analysisVars, reportVars, requestVars
  <2>3. QED
    BY <2>1, <2>2
<1>4. ASSUME NEW id \in RequestIds, BuildCallback(id) \/ SendCallback(id)
      PROVE  FailsClosed'
  BY <1>2, <1>4 DEF BuildCallback, SendCallback, poolVars, analysisVars,
                    reportVars, requestVars
<1>5. ASSUME NEW c \in ReportedCells, IndividualReport(c)
      PROVE  FALSE
  BY <1>1, <1>5 DEF IndividualReport
<1>6. CASE Shutdown \/ UNCHANGED vars
  BY <1>2, <1>6 DEF Shutdown, vars, poolVars, analysisVars, reportVars,
                    requestVars
<1>7. CASE NewProcess
  BY <1>7 DEF NewProcess, ForgetPool, FailsClosed, Accepted
<1>8. QED
  BY <1>3, <1>4, <1>5, <1>6, <1>7 DEF Next, Exit, Crash

\* With REPLAY_CELL_POOL off nothing is ever replayed for images that were not
\* recorded, and no table of the pool is ever filled.
THEOREM ServiceFailsClosed == Spec => []FailsClosed
<1>1. Init => FailsClosed
  BY DEF Init, FreshRuntime, PoolInit, FailsClosed, Accepted
<1>2. QED
  BY <1>1, Invariant, ClosedStep, PTL DEF Spec

(***************************************************************************)
(* Acceptances are final.                                                  *)
(***************************************************************************)

Settled(id) == phase[id] \in {"delivered", "failed"}

FinalStep ==
    restarts' = restarts =>
        \A id \in RequestIds :
            /\ Accepted(id) => /\ requests'[id] = requests[id]
                               /\ entry'[id] = entry[id]
            /\ Settled(id) => phase'[id] = phase[id] /\ inbox'[id] = inbox[id]

\* Each handler writes about ids that were not accepted, or are not settled.
LEMMA StepIsFinal == IInv /\ [Next]_vars => FinalStep
<1> SUFFICES ASSUME IInv, [Next]_vars
             PROVE  FinalStep
  OBVIOUS
<1>1. ASSUME UNCHANGED <<requests, entry, phase, inbox>>
      PROVE  FinalStep
  BY <1>1 DEF FinalStep
<1>2. ASSUME NEW id \in RequestIds, NEW p, NEW e,
             Admissible(id), Schedule(id, p, e)
      PROVE  FinalStep
  <2>1. ~ Accepted(id) /\ phase[id] = "none"
    BY <1>2 DEF Admissible, Accepted, IInv, TasksOfAccepted
  <2>2. /\ requests' = [requests EXCEPT ![id] = p]
        /\ entry' = [entry EXCEPT ![id] = e]
        /\ phase' = [phase EXCEPT ![id] = "scheduled"]
        /\ inbox' = inbox
    BY <1>2 DEF Schedule
  <2>3. QED
    BY <2>1, <2>2 DEF FinalStep, Settled, IInv, TypeOK
<1>3. ASSUME NEW id \in RequestIds, NEW p \in Payloads, analyze_cell(id, p)
      PROVE  FinalStep
  <2>1. CASE AcceptRecorded(id, p) \/ AcceptPooled(id, p)
    BY <1>2, <2>1 DEF AcceptRecorded, AcceptPooled
  <2>2. CASE ~ (AcceptRecorded(id, p) \/ AcceptPooled(id, p))
    BY <1>1, <1>3, <2>2 DEF analyze_cell, Conflict, Duplicate, MissClosed,
                            MissPooled, Miss, requestVars, deliveryVars
  <2>3. QED
    BY <2>1, <2>2
<1>4. ASSUME NEW id \in RequestIds, BuildCallback(id) \/ SendCallback(id)
      PROVE  FinalStep
  <2>1. ~ Settled(id) /\ UNCHANGED <<requests, entry>>
    BY <1>4 DEF BuildCallback, SendCallback, Settled, requestVars
  <2>2. \A i \in RequestIds \ {id} : phase'[i] = phase[i] /\ inbox'[i] = inbox[i]
    BY <1>4 DEF BuildCallback, SendCallback, Succeed, Fail, Settle,
                RetryOrGiveUp, Arrives, IInv, TypeOK
  <2>3. QED
    BY <2>1, <2>2 DEF FinalStep, Settled
<1>5. CASE NewProcess
  <2>1. restarts' # restarts
    BY <1>5 DEF NewProcess, IInv, TypeOK
  <2>2. QED
    BY <2>1 DEF FinalStep
<1>6. CASE \/ \E c \in ReportedCells : IndividualReport(c)
           \/ Shutdown \/ UNCHANGED vars
  BY <1>1, <1>6 DEF IndividualReport, Shutdown, vars, requestVars, deliveryVars
<1>7. QED
  BY <1>3, <1>4, <1>5, <1>6 DEF Next, Exit, Crash

\* Within one process an accepted request keeps its payload and its recording,
\* and a settled delivery is never taken up again: no repetition, conflict or
\* late answer reopens it.
THEOREM AcceptanceStaysFinal == Spec => AcceptanceIsFinal
<1>1. Spec => [][FinalStep]_vars
  BY Invariant, StepIsFinal, PTL DEF Spec
<1>2. QED
  BY <1>1 DEF AcceptanceIsFinal, FinalStep, Settled

(***************************************************************************)
(* What the backend received.                                              *)
(***************************************************************************)

\* Until the first restart every callback in the inbox says what its request
\* and its recording still say.  A restart forgets both, not the inbox.
InboxIsOfRequests ==
    restarts = 0 =>
        \A id \in RequestIds : \A k \in 1..Len(inbox[id]) :
            Accepted(id) /\ inbox[id][k] = Callback(id)

\* A callback is made of the acceptance it answers, and that one stays.
LEMMA InboxStep == IInv /\ InboxIsOfRequests /\ [Next]_vars => InboxIsOfRequests'
<1> SUFFICES ASSUME IInv, InboxIsOfRequests, [Next]_vars, restarts' = 0,
                    NEW id \in RequestIds, NEW k \in 1..Len(inbox'[id])
             PROVE  Accepted(id)' /\ inbox'[id][k] = Callback(id)'
  BY DEF InboxIsOfRequests
<1>1. ~ NewProcess
  BY DEF NewProcess, IInv, TypeOK
<1>2. restarts' = restarts
  BY <1>1 DEF Next, analyze_cell, Conflict, Duplicate, AcceptRecorded,
         AcceptPooled, MissClosed, MissPooled, Miss, Schedule, BuildCallback,
         SendCallback, IndividualReport, Shutdown, Exit, Crash, vars, lifeVars
<1>3. FinalStep
  BY StepIsFinal
<1>4. Accepted(id) => Accepted(id)' /\ Callback(id)' = Callback(id)
  BY <1>2, <1>3 DEF FinalStep, Callback, Accepted
<1>5. CASE inbox'[id] = inbox[id]
  BY <1>2, <1>4, <1>5 DEF InboxIsOfRequests
<1>6. CASE inbox'[id] # inbox[id]
  <2>1. SendCallback(id) /\ Arrives(id)
    BY <1>1, <1>6
       DEF Next, analyze_cell, Conflict, Duplicate, AcceptRecorded,
           AcceptPooled, MissClosed, MissPooled, Miss, Schedule,
           BuildCallback, SendCallback, Arrives, IndividualReport, Shutdown,
           Exit, Crash, vars, IInv, TypeOK
  <2>2. Accepted(id)
    BY <2>1 DEF SendCallback, IInv, TasksOfAccepted
  <2> DEFINE new == Callback(id)
  <2>3. /\ inbox' = [inbox EXCEPT ![id] = Append(inbox[id], new)]
        /\ inbox \in [RequestIds -> Seq([cell : Cells, from : Entries])]
    BY <2>1 DEF Arrives, IInv, TypeOK
  <2>4. inbox'[id] = Append(inbox[id], new) /\ Len(inbox[id]) \in Nat
    BY <2>3
  <2>5. \A l \in 1..Len(inbox[id]) : inbox[id][l] = new
    BY <1>2 DEF InboxIsOfRequests
  <2>6. inbox'[id][k] = new
    <3> HIDE DEF new
    <3>1. k \in 1..(Len(inbox[id]) + 1)
      BY <2>3, <2>4
    <3>2. CASE k = Len(inbox[id]) + 1
      BY <2>3, <2>4, <3>2
    <3>3. CASE k # Len(inbox[id]) + 1
      <4>1. k \in 1..Len(inbox[id])
        BY <2>4, <3>1, <3>3
      <4>2. inbox'[id][k] = inbox[id][k]
        BY <2>3, <2>4, <4>1
      <4>3. QED
        BY <2>5, <4>1, <4>2
    <3>4. QED
      BY <3>2, <3>3
  <2>7. QED
    BY <1>4, <2>2, <2>6
<1>7. QED
  BY <1>5, <1>6

\* What is received for a cell that was not recorded came from the pool.
LEMMA ReceivedIsPooled ==
    ASSUME IInv, NEW id \in RequestIds, Accepted(id),
           requests[id].cell \notin Elems(Slots)
    PROVE  Pooled(id)
<1>1. requests[id] \in Payloads
  BY DEF IInv, TypeOK, Accepted
<1>2. requests[id].recorded \in Entries =>
          requests[id].recorded.slot \in Elems(Slots)
  BY ServiceAssumption DEF Entries
<1>3. requests[id].recorded = NoEntry
  BY <1>1, <1>2, ServiceAssumption
<1>4. QED
  BY <1>3 DEF Pooled

\* What was received was accepted, and acceptances of a cell share its slot.
LEMMA InboxFromOneSlot ==
    ASSUME IInv, OneSlotPerCell, InboxIsOfRequests, restarts = 0
    PROVE  ReceivedFromOneSlot
<1> SUFFICES ASSUME NEW i \in RequestIds, NEW j \in RequestIds,
                    NEW k \in 1..Len(inbox[i]), NEW l \in 1..Len(inbox[j]),
                    inbox[i][k].cell = inbox[j][l].cell,
                    inbox[i][k].cell \notin Elems(Slots)
             PROVE  inbox[i][k].from.slot = inbox[j][l].from.slot
  BY DEF ReceivedFromOneSlot
<1>1. /\ Accepted(i) /\ inbox[i][k] = Callback(i)
      /\ Accepted(j) /\ inbox[j][l] = Callback(j)
  BY DEF InboxIsOfRequests
<1>2. /\ requests[i].cell = requests[j].cell
      /\ requests[i].cell \notin Elems(Slots)
      /\ inbox[i][k].from = entry[i] /\ inbox[j][l].from = entry[j]
  BY <1>1 DEF Callback
<1>3. Pooled(i) /\ Pooled(j)
  BY <1>1, <1>2, ReceivedIsPooled
<1>4. QED
  BY <1>2, <1>3 DEF OneSlotPerCell

\* replay/README.md promises one slot per unrecorded serial to the backend.  A
\* restart is the only thing that breaks it: until the first one, all that
\* was received for the serial, lost acknowledgements and retries included,
\* was made of the recordings of one cell.
THEOREM OneSlotUntilRestart == Spec => [](restarts = 0 => ReceivedFromOneSlot)
<1>1. Init => InboxIsOfRequests
  BY DEF Init, InboxIsOfRequests
<1>2. Spec => []InboxIsOfRequests
  BY <1>1, Invariant, InboxStep, PTL DEF Spec
<1>3. IInv /\ OneSlotPerCell /\ InboxIsOfRequests
          => (restarts = 0 => ReceivedFromOneSlot)
  BY InboxFromOneSlot
<1>4. QED
  BY <1>2, <1>3, Invariant, OneSlotForEachCell, PTL
=============================================================================
