---------------------------- MODULE ReplayService ----------------------------
(***************************************************************************)
(* The replay service (replay/app/main.py): a drop-in for ai-infer that    *)
(* answers analysis requests from recorded results.  POST                  *)
(* /ai/cells/analyze is acknowledged at once and answered later by a task  *)
(* of its own, which posts a callback to the backend and retries it.       *)
(*                                                                         *)
(* One uvicorn worker runs everything on one event loop.  No coroutine     *)
(* awaits while it holds RuntimeState.lock, so the lock is never found     *)
(* taken: a handler's critical section is one step, and so is the end of a *)
(* delivery (the counter of its outcome and inFlight change together).     *)
(* Between the sleeps and the HTTP calls of the tasks anything may happen. *)
(*                                                                         *)
(* Requests refused with 401, 400, 422 or 503 change no state: they are    *)
(* stuttering steps.                                                       *)
(***************************************************************************)
EXTENDS CellPool, ReplayCatalog

CONSTANTS RequestIds,       \* requestId values the backend uses
          Payloads,         \* the rest of a request: [cell, types, recorded]
          Unbuildable,      \* entries for which build_callback raises
          PoolSettings,     \* values REPLAY_CELL_POOL may have
          MaxPending,       \* Settings.max_pending
          MaxAttempts,      \* Settings.callback_max_attempts
          ReportedCells,    \* cells the backend asks individual reports of
          NoPayload,        \* the request id has not been accepted
          NoEntry,          \* the fixture does not hold the request's images
          MaxPosts,         \* bound: counted POSTs per process life
          MaxRestarts       \* bound: restarts of the process

\* p.recorded is catalog.match's entry: match refuses one of another serial.
ASSUME ServiceAssumption ==
    /\ IsFiniteSet(RequestIds)
    /\ DOMAIN Takes = Elems(Slots)
    /\ NoEntry \notin Entries /\ NoPayload \notin Payloads
    /\ \A p \in Payloads :
          /\ p.cell \in Cells /\ p.types \in Modalities
          /\ p.recorded \in Entries \cup {NoEntry}
          /\ p.recorded # NoEntry => p.recorded.slot = p.cell
    /\ Unbuildable \in SUBSET Entries
    /\ PoolSettings \in SUBSET BOOLEAN
    /\ MaxPending \in Nat \ {0} /\ MaxAttempts \in Nat \ {0}
    /\ ReportedCells \in SUBSET Cells
    /\ MaxPosts \in Nat /\ MaxRestarts \in Nat

VARIABLES requests,         \* RuntimeState.requests: id -> accepted payload
          attempt_usage,    \* RuntimeState.attempt_usage
          hits, misses, duplicates, conflicts, poolHits,        \* metrics
          inFlight, callbackSuccess, callbackFailure,           \* metrics
          phase,            \* where the delivery task of an id stands
          attempt,          \* its callback attempts so far
          entry,            \* the recorded analysis it delivers
          inbox,            \* the backend: callbacks received, per id
          mode,             \* "serving", or "draining" after SIGTERM
          restarts,
          cell_pool_enabled \* Settings.cell_pool_enabled, from the environment

requestVars  == <<requests, entry>>
counterVars  == <<hits, misses, duplicates, conflicts, poolHits>>
deliveryVars == <<inFlight, callbackSuccess, callbackFailure, phase, attempt>>
lifeVars     == <<mode, restarts, cell_pool_enabled>>
vars == <<poolVars, requestVars, attempt_usage, counterVars, deliveryVars,
          inbox, lifeVars>>

-----------------------------------------------------------------------------

\* A new RuntimeState and no task.
FreshRuntime ==
    /\ requests = [id \in RequestIds |-> NoPayload]
    /\ attempt_usage = [c \in Cells |-> [m \in Modalities |-> 0]]
    /\ hits = 0 /\ misses = 0 /\ duplicates = 0 /\ conflicts = 0
    /\ poolHits = 0 /\ inFlight = 0
    /\ callbackSuccess = 0 /\ callbackFailure = 0
    /\ phase = [id \in RequestIds |-> "none"]
    /\ attempt = [id \in RequestIds |-> 0]
    /\ entry = [id \in RequestIds |-> NoEntry]

Init ==
    /\ PoolInit
    /\ FreshRuntime
    /\ inbox = [id \in RequestIds |-> <<>>]
    /\ mode = "serving"
    /\ restarts = 0
    /\ cell_pool_enabled \in PoolSettings

-----------------------------------------------------------------------------
(* analyze_cell: the section under the lock.                               *)

Posted == hits + misses + duplicates + conflicts
Listening == mode = "serving" /\ Posted < MaxPosts

Conflict(id, p) ==
    /\ Listening
    /\ requests[id] \notin {NoPayload, p}
    /\ conflicts' = conflicts + 1
    /\ UNCHANGED <<poolVars, requestVars, attempt_usage, hits, misses,
                   duplicates, poolHits, deliveryVars, inbox, lifeVars>>

\* Mutant: the repetition of a failed request delivers once more.
Duplicate_Redeliver(id, p) ==
    /\ Listening
    /\ requests[id] = p
    /\ duplicates' = duplicates + 1
    /\ phase' = [phase EXCEPT ![id] = IF @ = "failed" THEN "scheduled" ELSE @]
    /\ inFlight' = IF phase[id] = "failed" THEN inFlight + 1 ELSE inFlight
    /\ UNCHANGED <<poolVars, requestVars, attempt_usage, hits, misses,
                   conflicts, poolHits, callbackSuccess, callbackFailure,
                   attempt, inbox, lifeVars>>

\* Acknowledged like the first one; no second task, even if the first failed.
Duplicate(id, p) ==
    /\ Listening
    /\ requests[id] = p
    /\ duplicates' = duplicates + 1
    /\ UNCHANGED <<poolVars, requestVars, attempt_usage, hits, misses,
                   conflicts, poolHits, deliveryVars, inbox, lifeVars>>

\* Mutant: off by one at the limit of the queue.
Admissible_OneMore(id) ==
    /\ Listening
    /\ requests[id] = NoPayload
    /\ inFlight <= MaxPending

\* A new id with room in the queue; else 409, 202 or 503 before this point.
Admissible(id) ==
    /\ Listening
    /\ requests[id] = NoPayload
    /\ inFlight < MaxPending

\* Mutant: the task is created but not counted as in flight.
Schedule_Uncounted(id, p, recorded) ==
    /\ requests' = [requests EXCEPT ![id] = p]
    /\ entry' = [entry EXCEPT ![id] = recorded]
    /\ phase' = [phase EXCEPT ![id] = "scheduled"]
    /\ hits' = hits + 1
    /\ UNCHANGED <<inFlight, attempt, callbackSuccess, callbackFailure,
                   misses, duplicates, conflicts, inbox, lifeVars>>

\* The request is remembered and its delivery task created.
Schedule(id, p, recorded) ==
    /\ requests' = [requests EXCEPT ![id] = p]
    /\ entry' = [entry EXCEPT ![id] = recorded]
    /\ phase' = [phase EXCEPT ![id] = "scheduled"]
    /\ hits' = hits + 1
    /\ inFlight' = inFlight + 1
    /\ UNCHANGED <<attempt, callbackSuccess, callbackFailure,
                   misses, duplicates, conflicts, inbox, lifeVars>>

\* 404; whatever resolve_analysis bound before it raised stays bound.
Miss ==
    /\ misses' = misses + 1
    /\ UNCHANGED <<requestVars, attempt_usage, hits, duplicates, conflicts,
                   poolHits, deliveryVars, inbox, lifeVars>>

AcceptRecorded(id, p) ==
    /\ Admissible(id)
    /\ p.recorded # NoEntry
    /\ Schedule(id, p, p.recorded)
    /\ UNCHANGED <<poolVars, attempt_usage, poolHits>>

MissClosed(id, p) ==
    /\ Admissible(id)
    /\ p.recorded = NoEntry /\ ~ cell_pool_enabled
    /\ Miss
    /\ UNCHANGED poolVars

\* Mutant: the replayed attempt is not counted.
AcceptPooled_SameTake(id, p) ==
    /\ Admissible(id)
    /\ p.recorded = NoEntry /\ cell_pool_enabled
    /\ HasRecording(SlotFor(p.cell), p.types)
    /\ assign_pool_slot(p.cell)
    /\ Schedule(id, p, entry_for(SlotFor(p.cell), p.types,
                                 attempt_usage[p.cell][p.types]))
    /\ poolHits' = poolHits + 1
    /\ UNCHANGED attempt_usage

\* Mutant: the switch REPLAY_CELL_POOL is not consulted.
AcceptPooled_Always(id, p) ==
    /\ Admissible(id)
    /\ p.recorded = NoEntry
    /\ HasRecording(SlotFor(p.cell), p.types)
    /\ assign_pool_slot(p.cell)
    /\ Schedule(id, p, entry_for(SlotFor(p.cell), p.types,
                                 attempt_usage[p.cell][p.types]))
    /\ attempt_usage' = [attempt_usage EXCEPT ![p.cell][p.types] = @ + 1]
    /\ poolHits' = poolHits + 1

\* pooled_analysis: the slot is bound before the recording is looked up.
AcceptPooled(id, p) ==
    /\ Admissible(id)
    /\ p.recorded = NoEntry /\ cell_pool_enabled
    /\ HasRecording(SlotFor(p.cell), p.types)
    /\ assign_pool_slot(p.cell)
    /\ Schedule(id, p, entry_for(SlotFor(p.cell), p.types,
                                 attempt_usage[p.cell][p.types]))
    /\ attempt_usage' = [attempt_usage EXCEPT ![p.cell][p.types] = @ + 1]
    /\ poolHits' = poolHits + 1

\* Mutant: the attempt is counted before its recording is looked up.
MissPooled_Counted(id, p) ==
    /\ Admissible(id)
    /\ p.recorded = NoEntry /\ cell_pool_enabled
    /\ ~ HasRecording(SlotFor(p.cell), p.types)
    /\ assign_pool_slot(p.cell)
    /\ attempt_usage' = [attempt_usage EXCEPT ![p.cell][p.types] = @ + 1]
    /\ misses' = misses + 1
    /\ UNCHANGED <<requestVars, hits, duplicates, conflicts, poolHits,
                   deliveryVars, inbox, lifeVars>>

MissPooled(id, p) ==
    /\ Admissible(id)
    /\ p.recorded = NoEntry /\ cell_pool_enabled
    /\ ~ HasRecording(SlotFor(p.cell), p.types)
    /\ assign_pool_slot(p.cell)
    /\ Miss

analyze_cell(id, p) ==
    \/ Conflict(id, p)
    \/ Duplicate(id, p)
    \/ AcceptRecorded(id, p)
    \/ AcceptPooled(id, p)
    \/ MissClosed(id, p)
    \/ MissPooled(id, p)

-----------------------------------------------------------------------------
(* deliver_callback: one task per accepted request.                        *)

Settle(id, outcome) ==
    /\ phase' = [phase EXCEPT ![id] = outcome]
    /\ inFlight' = inFlight - 1

Succeed(id) ==
    /\ Settle(id, "delivered")
    /\ callbackSuccess' = callbackSuccess + 1
    /\ UNCHANGED <<callbackFailure, attempt>>

\* Mutant: a delivery that fails ends without being counted.
Fail_Uncounted(id) ==
    /\ Settle(id, "failed")
    /\ UNCHANGED <<callbackSuccess, callbackFailure, attempt>>

Fail(id) ==
    /\ Settle(id, "failed")
    /\ callbackFailure' = callbackFailure + 1
    /\ UNCHANGED <<callbackSuccess, attempt>>

\* Mutant: the callback is built outside the try, so that its failure ends
\* the task without the finally clause.
BuildCallback_Outside(id) ==
    /\ phase[id] = "scheduled"
    /\ entry[id] \notin Unbuildable
    /\ phase' = [phase EXCEPT ![id] = "sending"]
    /\ attempt' = [attempt EXCEPT ![id] = 1]
    /\ UNCHANGED <<inFlight, callbackSuccess, callbackFailure>>
    /\ UNCHANGED <<poolVars, requestVars, attempt_usage, counterVars, inbox,
                   lifeVars>>

\* After the configured delay: the callback is built, or cannot be.
BuildCallback(id) ==
    /\ phase[id] = "scheduled"
    /\ \/ /\ entry[id] \notin Unbuildable
          /\ phase' = [phase EXCEPT ![id] = "sending"]
          /\ attempt' = [attempt EXCEPT ![id] = 1]
          /\ UNCHANGED <<inFlight, callbackSuccess, callbackFailure>>
       \/ entry[id] \in Unbuildable /\ Fail(id)
    /\ UNCHANGED <<poolVars, requestVars, attempt_usage, counterVars, inbox,
                   lifeVars>>

\* Mutant: off by one at the last attempt.
RetryOrGiveUp_OneMore(id) ==
    \/ /\ attempt[id] <= MaxAttempts
       /\ attempt' = [attempt EXCEPT ![id] = @ + 1]
       /\ UNCHANGED <<inFlight, callbackSuccess, callbackFailure, phase>>
    \/ attempt[id] > MaxAttempts /\ Fail(id)

\* The sender raised: sleep and try again, or give up.
RetryOrGiveUp(id) ==
    \/ /\ attempt[id] < MaxAttempts
       /\ attempt' = [attempt EXCEPT ![id] = @ + 1]
       /\ UNCHANGED <<inFlight, callbackSuccess, callbackFailure, phase>>
    \/ attempt[id] >= MaxAttempts /\ Fail(id)

\* The callback says which cell it judges, and is made of the recording.
Callback(id) == [cell |-> requests[id].cell, from |-> entry[id]]

Arrives(id) == inbox' = [inbox EXCEPT ![id] = Append(@, Callback(id))]

\* One POST of the callback: it arrives and is acknowledged; it arrives and
\* the acknowledgement is lost, late or an error; or it does not arrive.
SendCallback(id) ==
    /\ phase[id] = "sending"
    /\ \/ Arrives(id) /\ Succeed(id)
       \/ Arrives(id) /\ RetryOrGiveUp(id)
       \/ UNCHANGED inbox /\ RetryOrGiveUp(id)
    /\ UNCHANGED <<poolVars, requestVars, attempt_usage, counterVars,
                   lifeVars>>

-----------------------------------------------------------------------------
(* The other endpoint with state, and the life of the process.             *)

\* Mutant: the report of a cell that was not analysed binds both tables.
IndividualReport_Binds(c) ==
    /\ mode = "serving"
    /\ cell_pool_enabled
    /\ c \notin individuals
    /\ BindSlot(c) /\ BindReport(c)
    /\ UNCHANGED <<requestVars, attempt_usage, counterVars, deliveryVars,
                   inbox, lifeVars>>

IndividualReport(c) ==
    /\ mode = "serving"
    /\ cell_pool_enabled
    /\ individual_report(c)
    /\ UNCHANGED <<requestVars, attempt_usage, counterVars, deliveryVars,
                   inbox, lifeVars>>

Unsettled(id) == phase[id] \in {"scheduled", "sending"}

\* SIGTERM: no more requests; the lifespan gathers the outstanding tasks.
Shutdown ==
    /\ mode = "serving" /\ restarts < MaxRestarts
    /\ mode' = "draining"
    /\ UNCHANGED <<poolVars, requestVars, attempt_usage, counterVars,
                   deliveryVars, inbox, restarts, cell_pool_enabled>>

\* The lifespan starts with a new RuntimeState: FreshRuntime again.
NewProcess ==
    /\ ForgetPool
    /\ requests' = [id \in RequestIds |-> NoPayload]
    /\ attempt_usage' = [c \in Cells |-> [m \in Modalities |-> 0]]
    /\ hits' = 0 /\ misses' = 0 /\ duplicates' = 0 /\ conflicts' = 0
    /\ poolHits' = 0 /\ inFlight' = 0
    /\ callbackSuccess' = 0 /\ callbackFailure' = 0
    /\ phase' = [id \in RequestIds |-> "none"]
    /\ attempt' = [id \in RequestIds |-> 0]
    /\ entry' = [id \in RequestIds |-> NoEntry]
    /\ mode' = "serving"
    /\ restarts' = restarts + 1
    /\ UNCHANGED <<inbox, cell_pool_enabled>>

\* gather() has returned and the container is started again.
Exit ==
    /\ mode = "draining"
    /\ \A id \in RequestIds : ~ Unsettled(id)
    /\ NewProcess

\* Killed (also when the grace period runs out) and started again.
Crash ==
    /\ restarts < MaxRestarts
    /\ NewProcess

Next ==
    \/ \E id \in RequestIds, p \in Payloads : analyze_cell(id, p)
    \/ \E id \in RequestIds : BuildCallback(id) \/ SendCallback(id)
    \/ \E c \in ReportedCells : IndividualReport(c)
    \/ Shutdown \/ Exit \/ Crash

\* A task always wakes up: its sleeps end, and the sender times out.
Fairness ==
    /\ \A id \in RequestIds : WF_vars(BuildCallback(id) \/ SendCallback(id))
    /\ WF_vars(Exit)

Spec == Init /\ [][Next]_vars
FairSpec == Spec /\ Fairness

-----------------------------------------------------------------------------

\* Every variable of the service holds what its name says.
TypeOK ==
    /\ PoolTypeOK
    /\ requests \in [RequestIds -> Payloads \cup {NoPayload}]
    /\ attempt_usage \in [Cells -> [Modalities -> Nat]]
    /\ hits \in Nat /\ misses \in Nat /\ duplicates \in Nat
    /\ conflicts \in Nat /\ poolHits \in Nat /\ inFlight \in Nat
    /\ callbackSuccess \in Nat /\ callbackFailure \in Nat
    /\ phase \in [RequestIds ->
                     {"none", "scheduled", "sending", "delivered", "failed"}]
    /\ attempt \in [RequestIds -> Nat]
    /\ entry \in [RequestIds -> Entries \cup {NoEntry}]
    /\ inbox \in [RequestIds -> Seq([cell : Cells, from : Entries])]
    /\ mode \in {"serving", "draining"}
    /\ restarts \in Nat
    /\ cell_pool_enabled \in PoolSettings

Accepted(id) == requests[id] # NoPayload
Pooled(id)   == Accepted(id) /\ requests[id].recorded = NoEntry

\* Capacity is neither leaked nor exceeded: whatever mix of successes, lost
\* acknowledgements, exhausted retries and callbacks that cannot be built,
\* inFlight counts exactly the unsettled tasks, and never passes the limit.
CapacityExact ==
    /\ inFlight = Cardinality({id \in RequestIds : Unsettled(id)})
    /\ inFlight <= MaxPending

\* The counters /health shows add up: every accepted request is in flight,
\* delivered or failed, and each of these is counted once.
MetricsAddUp ==
    /\ hits = Cardinality({id \in RequestIds : Accepted(id)})
    /\ hits = inFlight + callbackSuccess + callbackFailure
    /\ callbackSuccess =
           Cardinality({id \in RequestIds : phase[id] = "delivered"})
    /\ poolHits = Cardinality({id \in RequestIds : Pooled(id)})

\* CT and RGB requests, repeats and recaptures of one unrecorded cell are
\* all replayed from the one slot the table binds it to (replay/README.md:
\* a re-request of a serial always uses the same slot).
OneSlotPerCell ==
    \A id \in RequestIds :
        Pooled(id) => entry[id].slot = cell_slots[requests[id].cell]

SameQuestion(i, j) ==
    /\ Pooled(i) /\ Pooled(j)
    /\ requests[i].cell = requests[j].cell
    /\ requests[i].types = requests[j].types

\* A recapture consumes the next recorded attempt: two requests for the same
\* cell and modality are answered alike only with the last recorded attempt.
RecapturesAdvance ==
    \A i, j \in RequestIds :
        i # j /\ SameQuestion(i, j) /\ entry[i] = entry[j]
            => entry[i].take = Takes[entry[i].slot][entry[i].modality]

\* The recorded attempts are consumed by accepted requests alone: a request
\* that ends in 404, 409 or a duplicate uses none of them up.
UsageIsAccepted ==
    \A c \in Cells, m \in Modalities :
        attempt_usage[c][m] =
            Cardinality({id \in RequestIds : /\ Pooled(id)
                                            /\ requests[id].cell = c
                                            /\ requests[id].types = m})

\* An acceptance is not undone and its task not started over except by the
\* loss of the process: the request keeps its payload and its recording, a
\* settled delivery stays settled, and the backend hears no more of it.
AcceptanceIsFinal ==
    [][restarts' = restarts =>
          \A id \in RequestIds :
              /\ Accepted(id) => /\ requests'[id] = requests[id]
                                 /\ entry'[id] = entry[id]
              /\ phase[id] \in {"delivered", "failed"} =>
                     phase'[id] = phase[id] /\ inbox'[id] = inbox[id]]_vars

\* A graceful stop ends: gather() waits for every outstanding delivery, and
\* however the backend answers, or does not, all of them come to an end.
DrainEnds == mode = "draining" ~> mode = "serving"

\* Every accepted request settles, or the process is restarted: no outcome
\* of the sender or of build_callback leaves a task, and with it a place in
\* the queue, behind.
EveryRequestSettles ==
    \A id \in RequestIds : Unsettled(id) ~> ~ Unsettled(id)

\* Without the pool the service is fail-closed (replay/README.md): nothing is
\* replayed but the recording of the very images asked about, and neither
\* analyses nor reports bind an unrecorded cell to a recorded one.
FailsClosed ==
    ~ cell_pool_enabled =>
        /\ \A id \in RequestIds :
              Accepted(id) => /\ requests[id].recorded # NoEntry
                              /\ entry[id] = requests[id].recorded
        /\ \A c \in Cells : cell_slots[c] = NoSlot /\ report_slots[c] = NoSlot

\* replay/README.md: "a re-request or recapture of a cell serial always uses
\* the same slot", as the backend sees it: all results it ever receives for
\* one unrecorded cell come from one recorded cell.
ReceivedFromOneSlot ==
    \A i, j \in RequestIds :
        \A k \in 1..Len(inbox[i]), l \in 1..Len(inbox[j]) :
            inbox[i][k].cell = inbox[j][l].cell
                /\ inbox[i][k].cell \notin Elems(Slots)
            => inbox[i][k].from.slot = inbox[j][l].from.slot

Job(id) == IF phase[id] = "none" THEN "new"
           ELSE IF Unsettled(id) THEN "pending" ELSE phase[id]

\* The tries that are over; the current one is not.
Tried(id) == IF phase[id] = "sending" THEN attempt[id] - 1 ELSE attempt[id]

Contract == INSTANCE CallbackContract
    WITH job <- [id \in RequestIds |-> Job(id)],
         tries <- [id \in RequestIds |-> Tried(id)],
         receipts <- [id \in RequestIds |-> Len(inbox[id])]

\* The queue, the retries and the restarts implement the callback contract.
KeepsContract == Contract!Spec

\* The handlers move the slot tables only the way the pool describes.
KeepsPool == PoolSpec
=============================================================================
