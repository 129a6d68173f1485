# Verification of the battery inspection infrastructure

The repository holds the infrastructure of a battery cell inspection system:
the *replay service*, a stand-in for the GPU inference servers that answers
from recorded results, the scripts that deploy and switch the services of one
Docker host, and the tools that fill and repair the simulation database.  The
backend, the inference servers, Redis and PostgreSQL live in other repositories
and appear only through the way this code uses them.

This directory is a TLA+ model of the parts that keep state, with TLC
configurations that check them on small instances and TLAPS proofs that hold
for every instance.  Paths below are relative to the repository root.

## 1. Inventory

| Part | State it keeps | Operations | Hard behaviours | What makes it correct |
|---|---|---|---|---|
| Slot tables (`replay/app/main.py`, `RuntimeState`, 154-178, 313-389) | bindings of unrecorded cells to recorded ones, the slots used in the current group, once for analyses and once for reports | `assign_pool_slot`, `pooled_report_serial`, `individual_report`; restart | two tables filled in different orders, the second one reading the first; exhaustion and a new group | a cell is bound once; recorded cells are dealt evenly; reports agree with analyses as far as the order of requests allows |
| Replay service (`replay/app/main.py`, 202-517) | accepted requests, attempt counters, metrics, one delivery task per accepted request | `POST /ai/cells/analyze`, delivery with retries, `POST /vlm/reports/individual`, start and graceful stop | results chosen at acceptance and sent later; lost acknowledgements; callbacks that cannot be built; a bounded queue counted by hand; all state lost at a restart | capacity exact; one result per request; attempts consumed in order; every request settles; nothing replayed with the pool off |
| Catalog (`replay/app/fixture.py`) | none after loading | `match`, `entry_for`, `build_callback` | fallbacks between modalities | the recorded take the request is entitled to |
| Service deployment (`scripts/deploy-service.sh`) | `.env`, containers, the published runtime parameter | deploy one service or the backend stack, roll back, publish | killed half way; rollback that fails; the switch editing the same `.env` | what is published runs; tags in `.env` are those of the containers |
| Serving mode switch (`scripts/switch-serving-mode.sh`) | three keys of `.env`, backend-ai, the replay container | to replay, to live, restore | runs without the deployment lock | a failed switch leaves everything as it was |
| Infra deployment (`scripts/deploy-infra.sh`) | compose files, runner scripts, replay source and image | install, build, reconcile, roll back | a failure at each step | all old or all new |
| Release channel (`.github/workflows`, `scripts/start-fast-test-host.sh`, `prepare-*-host.sh`) | the bundle pointer in S3, the runtime parameter in SSM | publish, read both | not read or written together; polling that gives up | a host runs a combination that production ran |
| Simulation database (`scripts/apply-simulation-seed.py`, `expand-simulation-cell-pool.py`, `database/migrations`) | cells, their images with a capture set, the ledger of seeds, a backup table | seed a wave, clone cells, migrate up and roll back; dry runs | two advisory locks over the same rows at READ COMMITTED; a seed that commits between two copies; counts checked before the commit | what is active is one manifest as a whole; clones are whole copies behind their templates; the ledger names what is applied |
| QA wave (`scripts/run-qa-wave.py`) | where the driver stands; fixtures and digests in S3; the runs of the backend | check, seed, start, look up, wait, export, upload; resume | look-up after start; users who start runs; a driver that dies; a run closed while it is waited for | the fixture is settled, and of the manifest it names; no wait is for ever |
| Report check (`scripts/run-report-qa.py`) and stale tools (`close-stale-*.py`) | the reports asked for, the evidence in S3 | select, request, await, validate, publish; close a run or a report | reports are requested per cell, not per run; reports fail, or are closed, meanwhile | the evidence is of its run |
| Fixture tools (`scripts/export-replay-fixture.py`, `rebalance-replay-fixture.py`) and the catalog's answers | none: files in, files out | export, rebalance, load, answer | one verdict kept in four places; substituted images | what one tool writes the next one accepts and serves |
| Manifest builders (`scripts/build-*.py`) | pools with a cursor and counts of use | select images for each case | pools that run out; reuse between cases | the seed accepts every manifest; images are reused only when necessary |
| QA analysis (`scripts/analyze-qa-wave.py`, `aggregate-qa-analyses.py`) | none | count one wave, add up all | cells that were not evaluated; several inspections of one case | every inspection and every case counts once |
| Everything else | see the components of `PROJECT.json` | | | |

Interaction: the backend posts analysis requests to the address in
`AI_SERVER_URL`, which the switch sets to the replay service; the replay
service posts each result to the backend's callback URL from a task of its own.
Deployments, infra deployments and the switch act on one host: they share
`.env`, the containers and (the first two) `/var/lock/battery-deploy.lock`.
A wave goes round: a builder writes a manifest, the wave driver has the seed load
it, starts a run in the backend and exports what was recorded as a fixture, the
fixture is rebalanced, and the replay service answers from it.

## 2. Plan

In order of importance; a module is done with its runs, mutants and map.

1. `CellPool` with the abstract `RoundRobinPool`, and its proofs. *Done.*
2. `ReplayService` over `CellPool` and `ReplayCatalog`, with the abstract
   `CallbackContract`, and its proofs. *Done.*
3. `ServiceDeployment`, `ServingModeSwitch` and `InfraDeployment` over the
   shared `DeployHost`, composed in `HostDeployments`, and its proofs. *Done.*
4. `SimulationSeed` and `CellPoolExpansion` over `SimulationTables`, composed in
   `SimulationDatabase`, and its proofs. *Done.*
5. `QaWave` and `ReportQa` over `SimulationRuns`, composed in `QaOperations`, and
   its proofs. *Done.*
6. The algorithms of the data tools, called in `DataTools`, and the proofs of their
   seven properties.  *Done.*

Every safety property that a passing run checks is proved (section 5).  What is
left: the type invariants of `SimulationDatabase` and `QaOperations`,
which are stated and which TLC agrees with, but which no run of the project spends its
time on; and facts about single algorithms, such as the choice of `Templates` and
`TemplateOf` in `ClonePlan`, beyond those the proofs already use.

## 3. Modules

### RoundRobinPool (abstract)
A table that deals the members of a sequence in order, one per new cell, and
starts over after the last; it may be forgotten.

### CellPool
`cell_slots`, `used_slots`, `report_slots`, `used_report_slots` and the two pool
metrics are the fields of `RuntimeState`.  `assign_pool_slot(c)` and
`pooled_report_serial(c)` are the functions of that name; each is one action
because neither awaits between its first read and its last write.
`ForgetPool` is the new `RuntimeState` of a restarted process.

### ReplayCatalog
`entry_for` as an operator: the recording of a slot for a set of image types and
a request counter, with the fallback to the first recorded modality (in string
order) that shares a type.  `CHOOSE` picks a least element and so is `sorted()[0]`.

### CallbackContract (abstract)
What a client is promised per request id: at most `MaxPending` pending jobs,
at most `MaxAttempts` tries of one job, never another try after success, and
nothing remembered over a restart.

### ReplayService
Extends the two modules above.  `analyze_cell` is the critical section of the
handler: `Conflict`, `Duplicate`, `AcceptRecorded`, `AcceptPooled`, `MissClosed`,
`MissPooled` are its branches.  `BuildCallback` and `SendCallback` are the steps of
`deliver_callback` between two awaits.  `phase[id]` is the program counter of the
delivery task, `inbox` is what the backend received (the environment's state, so
that it survives restarts).  One worker process runs one event loop
(`replay/Dockerfile`), and no coroutine awaits while it holds the lock, so every
critical section is one step and the order of `metrics["inFlight"] -= 1` and the
outcome counter within one step of the loop is not observable.
`Shutdown`/`Exit` is SIGTERM and the `gather` of the lifespan, `Crash` a kill at any
moment followed by the restart policy of `compose.yaml`.
A repeated request whose delivery failed is acknowledged again with 202 and gets
no callback: that is what the code does and `AcceptanceIsFinal` states it.

### DeployHost
What the scripts on one host share.  `env` is `.env` as a function; a service is
also the name of the key of its image tag.  `container[s]` holds the values that
`compose.yaml` interpolated when the container was created, so that a tag, or the
address of the inference servers, written after that is visible as a difference.
`verified` are the services that passed the checks of their last start (`--wait`,
`curl`), `published` is the parameter other hosts read, `disk`, `image` and
`replay` tell of which release the installed files, the replay image and the
running replay container are.  `UpFails(S)` is a failed `up`: any subset of `S`
may have been recreated.  One variable is no state of the host but a record for
the properties: `suspect`, the services that a run left behind unchecked, being
killed or telling the operator to inspect them.

### ServiceDeployment
`scripts/deploy-service.sh` from `flock` to its exit, one action per command that
reads or writes the host: `TakeLock`, `ReadTags`, `BackUp`, `RewriteTag` (awk into
a temporary file) and `MoveTag` (`mv`), once per service of the order, `Start`,
then `Publish`, or `RestoreTags` and `StartAgain`.  `job` holds the run that has
the lock; the runs that wait for it have no state.  `KillDeployment` is the end of
the script without its rollback, by SSM's timeout
(`deployment/aws/ssm-deploy-service.json`), a full disk or a reboot.

### ServingModeSwitch
`scripts/switch-serving-mode.sh`: `BeginSwitch`, `Upsert` and `MoveKey` per key,
`BringUpReplay`, `BringUpBackendAi`, `StopReplayContainer`, and the rollback trap as
`RestoreEnv` or `RestoreEnvFails` and then `RestartSucceeds` or `RestartFails`: under
`set +e` the rollback goes on whatever they return, and the backup is gone after it.  It
takes no lock, and any number of operators may be in it.  `unfinished` records that a
run was killed, or could not put `.env` back or restart backend-ai, and none succeeded
since.  A copy that fails has written nothing: an `.env` cut off in the middle is no
set of keys, and is left out.
The fixture keys the script adds to an `.env` that lacks them are left out.

### InfraDeployment
`scripts/deploy-infra.sh`: `BeginInfra`, `InstallPart` for each part in the order of
the script, `InstallFails` (`set -e` without a trap that rolls back), `BuildReplay`,
`Reconcile`, and on failure `RestoreBundle`, or `RestoreFails` after some of the files,
and `ReconcileAgain`.  A container may exit or be started again by Docker between any
two runs, so `BeginInfra` takes any set of services for those that `ps --status running`
lists (`infra.listed`).  Only these are built, brought up and thereby found well again
(`BringUpListed`); what an earlier run left behind and does not run stays `suspect`.
The image a rollback puts back is the one of the listed container, which `BuildReplay`
looks up before it builds (`deploy-infra.sh:148-149`); the look-up may tell nothing and
`docker tag` (176) may fail, both without a word (`RestoreImage`).  Only the parts in
`BackedUp` are put back.  `released` are the releases whose deployment succeeded.  Three
variables are records for the properties: `aborted`, a run ended without a rollback, or
with one that failed, and none succeeded since; `lost`, a run that had found replay
running ended without having its old image and container back; `missed`, a run
succeeded while a replay container existed that was not running.  A success that finds
replay running ends the last two.

### HostDeployments
The three together, with every interleaving of their commands.  `overlap` records
that two scripts were under way at once: the properties of a single script are
claimed for histories without overlap, and what overlap breaks is shown by runs of
its own.

### SimulationTables
The tables the simulation tools share, as what is committed: `battery_cell` with the
date that orders the cells, `battery_cell_image` with the capture set of each image,
the backup the up migration made, the ledger.  A tool is one transaction at READ
COMMITTED: its writes are kept in its own record until it commits, so an action is a
statement that reads what others have committed by then.  `holder` are the advisory
locks.  `applied` records, for the properties, the manifest of the last seed that
committed.  Row locks are left out: no two open transactions write the same image.

### SimulationSeed
`apply()` of `apply-simulation-seed.py`: `StartSeed`, `LockSeed` (which ends the tool
when the column is missing), `ArchiveImages`, `UpsertImages`, `CountImages`, which
refuses what differs from the manifest, and `CommitSeed`, which rolls back without
`--execute`; `SeedDies` at any moment.  `MigrateUp`, `CheckRollback` and
`ApplyRollback` are the two migrations of 20260814; the look for inspections and the
deletion are two statements, and the backend may capture in between.

### ClonePlan, CellPoolExpansion
`template_serials` and `build_clone_plan` as operators on sets of numbers; `apply()` of
`expand-simulation-cell-pool.py`: `LockPool`, one `CloneCell` per new cell, then
`FinishPool`, which realigns the dates and commits.

### SimulationDatabase
The two together, with the backend's `Capture` of a cell (external).

### SimulationRuns
The runs of the backend as the QA tools see them.  Of the backend the model
assumes one run at a time, that a run is completed when all its inspections have
ended, and that an ended inspection does not change.  `CloseStale` is
`close-stale-simulation.py`.  `source` records from which manifests a run was captured.

### QaWave
`main()` of `run-qa-wave.py`, one action per request or transaction: `CheckIdle`, `Seed`
(one step: `SimulationSeed` has its statements), `StartSimulation`, `LookUp`, `Poll`,
`ExportFixture`, `UploadFixture`, `UploadDigest`, with `ConnectFails` for the retries of
`connection()`, `TimeOut` for the deadline, `Die` for any exception or a kill, and
`Resume` for `--resume-run-id`: any id, of a run that exists or not, with any manifest.
The counts of the last poll and the rows of the export are read in two steps, as in the
code.  Two records are for the property: `driven`, run and manifest of each run that a
process has started, also when it died before it knew its id, or has taken for its own
at the look-up; `guessed`, run and manifest where a process was resumed with a manifest
that the run was not driven with.

### ReportQa, QaOperations
`run-report-qa.py`: the selection of the cells, the requests, the validation of each
report against the label of the run, the daily report, the evidence.  The report that
`WriteReport` (external) makes for a cell may tell of any run of that cell.
`CloseStaleReport` is `close-stale-report.py`.  `QaOperations` composes the two.

### ToolValues
What a tool may give in the place of data, and Python's `sorted()` and list
comprehensions: `sorted` puts the members of a set at their ranks, `Picked` lists the
members of a sequence at given places.  They say what the sorting operators of the
community modules say, but those rest on definitions that no prover has.

### RecordedFixture, FixtureRebalance, ReportText
What the exporter writes and `ReplayCatalog` loads (`Loads`); `build_callback` with its
substitution of images; `rebalance_fixture` with the label of an inspection, of its
results and of their raw responses, the rows of a fixture being the places of a sequence,
and the refusal of an inspection to be rewritten that has a row without an image; the
replacement of ids in the text of a report, as a sequence of tokens.  The digits of a
serial are a run like any other number, which the pattern of `fixture.py:592` finds as
well, and the label of the representative inspection is bold or plain: only a bold one
is searched for its id (`fixture.py:524`), both are replaced (609).

### SourcePools, SimulationManifest, RuntimeManifests, DemoManifests
The manifests v1.5 (`build-simulation-manifest.py`), v1.7 and the two v1.8, and what the
seed accepts (`Accepted`).  `Selector_take` is the one take of a shuffled pool that the
v1.7 and v1.8 builders share; a state of the pools is a record that is handed on.  The
shuffle is an order of the input.

### QaAnalysis
The counts of `analyze-qa-wave.py` and their sum in `aggregate-qa-analyses.py`, as bags.

### DataTools
One behaviour is one call of one tool on one input; `Tasks` are the inputs.

### Folding and the proof modules
`Folding` models no code.  It is the induction that the proofs about tools need, over
the natural numbers and over the steps of a fold.  The proofs about a component are
in the module that has its name and `Proofs`; of the data tools, whether the seed loads
what they write is in `ManifestProofs`.

## 4. Runs

| Run | Question | Instance |
|---|---|---|
| `cell_pool` | do the tables stay balanced, deal in order, and keep reports with analyses while the first group lasts? | five serials, one of them recorded, three slots, reports in another order: every table passes into its second group |
| `replay_service` | capacity, metrics, recordings within one process life, with the pool or fail-closed without it | three request ids, four payloads over two modalities, a queue of two, two attempts, one recording that cannot be built |
| `replay_restart` | restarts and graceful stops; contract, pool and liveness | two ids, a queue of one, two attempts, one restart |
| `replay_forgets` (violation) | does a cell always keep its slot, as `replay/README.md:24` says? | two ids, one restart: no |
| `host_deploys` | do `.env`, containers, the published tags and the installed files agree, whatever fails, and does every run end? | a single service and the stack, two tags, two releases, three deployments, at most two of a kind, any services found running, kills |
| `host_switches` | is the mode changed as a whole or not at all? | three runs of the switch, with rollbacks that fail at either command, an infra deployment, kills |
| `host_publishes` (violation) | does a successful deployment publish what was deployed, as `deployment/README.md:32` says? | two deployments, kills: no, the second trusts the `.env` the killed one left |
| `host_switch_tags` (violation) | does the switch change the addresses only, as `deployment/README.md:25` says? | one deployment and one switch: no, the copy of `.env` it writes back is old |
| `simulation_database` | is what is committed always one manifest, with whole clones behind their templates and a true ledger, however seed, expansion, migrations and captures interleave and die? | two provisioned cells, up to two clones, one of which an earlier expansion may have left; two editions of a wave; one seed, one expansion, one capture |
| `expansion_small_group` (violation) | are recorded cells never modified, as `expand-simulation-cell-pool.py:9` says? | the same with template groups smaller than the recorded cells: no, the realignment moves the others |
| `qa_operations` | is every published fixture settled and of its manifest, every evidence of its run, and does every tool end? | a driver twice begun, or resumed with any run and manifest, or one report check; two manifests, two cells, two runs that users may also start |
| `data_tools` | does each tool do what the next one relies on? | every small input of each tool, 20,630 calls |

Sizes: `host_deploys` has 653,781 distinct states, `simulation_database` 962,035,
`qa_operations` 660,151, `data_tools` 41,260.

Bounds of the replay service: `MaxPosts` counts the requests of one process life that change a counter,
`MaxRestarts` the restarts.  Two attempts distinguish the first, the last and a
middle outcome of the retry loop; a queue smaller than the number of ids makes
503 happen; more cells than slots make the group start over; two takes of one
recording make the "last take again and again" rule visible.

Bounds of the host: `MaxDeploys`, `MaxSwitches` and `MaxInfra` count the runs
started; `ThreeRuns` bounds the deployments of both kinds together in `host_deploys`, and
`MCInit` starts that host with the first of two interchangeable tags and releases.
A second run is enough to meet what a failed or killed one left behind,
a third to meet what the repair of the second left.  Two tags make a move and its
undoing visible, the stack of two services the state between their two writes.

Bounds of the database: `MaxCells` is the highest serial; two clones of two templates
make the expansion wrap and a seed commit between two copies.  Seeds and expansions
repeat without a bound, so that each meets what any number of others left.  Two
editions of one wave share a ledger row and differ in the images of both cells; one
recaptures.  One capture is enough: it can only forbid a rollback.

Bounds of the QA tools: two runs let a user's come before, between or after the
driver's; two processes let one die and be resumed, with its own run and manifest or
another, or be followed by another manifest;
two cells let one end while the other is under way, and both labels of the AI let
two runs of a cell differ.  A behaviour has waves or report checks
(`WavesOrReports`), each beside the runs of users: they meet in the runs only.

Bounds of the data tools: a few images per group in the place of 20 and 40, pools from
one image too few to more than enough.  The manifests that the v1.8 builders start from
have cells to be taken again in RGB, in CT, in both or in neither; the recorded ids of a
report are also runs of digits in the serials of its text.  Tools that may refuse both
return and refuse:

| Tool | Calls | Return | Refuse |
|---|---|---|---|
| rebalance a fixture | 11,745 | 6,345 | 5,400 |
| answer a request from a recording | 382 | 382 | |
| analyse and aggregate waves | 2,048 | 2,048 | |
| rewrite a report | 540 | 540 | |
| build the v1.5 manifest | 288 | 160 | 128 |
| build the v1.7 waves | 768 | 420 | 348 |
| build both v1.8 manifests | 4,859 | 519 | 4,340 |

Fairness: `replay_restart` assumes weak fairness of each delivery task (its sleeps
are bounded and the sender has a timeout, so the event loop gets back to it) and
of `Exit`; nothing of clients, of the backend's answers, of SIGTERM or of crashes.
`host_deploys` assumes weak fairness of the next command of a script that has begun:
`up` has `--wait-timeout`, the retries of pulls and health checks are counted, and
SSM ends what takes longer.  Nothing is assumed about starting a script.
`qa_operations` assumes weak fairness of the next step of a tool that has begun and
strong fairness of a driver's `TimeOut`: the deadline is only looked at after a poll
that reached the database, and retries come in between, but once it has passed it stays
passed.  Nothing is assumed of the backend, of users or of the operator, so that runs
and reports may never end.
`CHECK_DEADLOCK FALSE` is set where clients may stop asking, or nobody starts a
further script or call.

## 5. Proofs

`CellPoolProofs` proves for all finite sets of cells and all fixtures
(`PoolAssumption`):

- `PoolTypeCorrect`: `PoolSpec => []PoolTypeOK`.
- `PoolStaysBalanced`: `PoolSpec => []PoolBalanced`.  With type correctness the
  formula is inductive: a new group only starts when all slots are used, so the
  count of each is `poolCycles + 1`, which becomes the base of the next group.
- `PoolDealsRoundRobin`: `PoolSpec => DealsRoundRobin`.  Its invariant is that
  `used_slots` is always a prefix of the fixture order, so that its cardinality is
  the dealer's position.
- `FirstGroupIsConsistent`: the action property `FirstGroupReportsFollow`.  While
  `poolCycles = 0` no two cells share a slot, and used report slots are exactly
  those some report is bound to; so a slot taken by a report that follows its
  analysis cannot be the slot of another cell.
- `ReportsStayBalanced`: `PoolSpec => []ReportsBalanced`.  The formula bounds the
  difference of two counts and is not inductive; the invariant (`ReportsDealt`) names
  the common base: some `k` such that each report is told of `k` cells, and of one more
  when it is marked used.

`ReplayServiceProofs` does the same for the service, for every fixture, payload,
queue length, number of attempts, requests and restarts (`PoolAssumption`,
`CatalogAssumption`, `ServiceAssumption`):

- `ServiceKeepsPool`: `Spec => KeepsPool`.  Each handler is a step of `CellPool` or
  leaves it alone; no invariant is needed.  `ServiceStaysBalanced` is what follows.
- `ServiceTypeCorrect`, `CapacityStaysExact`, `MetricsStayExact`: one invariant,
  `IInv`.  None of the three is inductive alone: that `inFlight - 1` is a natural
  number follows only from its being the number of unsettled tasks; that this
  number changes by one follows only from a task's phase being `"none"` exactly as
  long as its id is not accepted; and a callback has its type only because
  whatever is accepted has a recording (`EntryIsRecorded`: `entry_for` returns one
  that the fixture holds, the choice of the first modality by name included).
- `ServiceKeepsContract`: `Spec => KeepsContract`.  With `IInv` and the range of the
  attempts per phase (`AttemptsInRange`), an acceptance is an `Accept`, a POST a
  `Try`, a callback that cannot be built a `GiveUp`, a new process a `Forget`, and
  building a callback a stutter; `inFlight` is the contract's queue.

`ReplayServiceProofs` goes on with what the requests of one cell are answered,
from the same assumptions.  One conjunct of `ServiceAssumption` is needed for it: a
recording that matches the images of a request is of the request's cell, because the
serial is part of the fingerprint (`fixture.py:251`).

- `OneSlotForEachCell`, `UsageCountsAccepted`, `RecapturesAlwaysAdvance`: one invariant,
  `PoolInv`.  `RecapturesAdvance` compares two answers and is not inductive: the invariant
  adds that no pooled answer has a take beyond the counter of its cell and modality, so
  that an answer chosen after the counter moved on is a new take, or the last one; and
  that the counter is the number of accepted requests, for which an acceptance must be of
  an id that was not accepted before (`IInv`).
- `ServiceFailsClosed`: with the pool off, inductive by itself.
- `AcceptanceStaysFinal`: the action property, from `IInv`.
- `OneSlotUntilRestart`: `Spec => [](restarts = 0 => ReceivedFromOneSlot)`.  The run
  `replay_forgets` shows that the README's promise is broken; this shows that a restart is
  its only cause, lost acknowledgements and retries included.

`SimulationDatabaseProofs` proves for any manifests, cells, group sizes and any number of seeds and expansions:

- `LedgerStaysTrue`: `Spec => []LedgerNamesTheSeed`.  The invariant adds that an open
  transaction has a manifest to load: a commit must not name `Missing` as what is
  applied.  The row is right because a later edition of the same version replaces it,
  and the rollback empties ledger and table in one statement or neither.
- `WaveIsInPlace` and `ClonesStayWhole`: `RecordedCarryTheManifest` and
  `ClonesAreWholeCopies`, from `DatabaseInv`.  It has five parts: who holds which lock
  (`LocksInv`); rows belong to cells (`KeysInv`); the committed images (`ImagesInv`, with
  the backup's, since a rollback makes them the current ones again); what an open seed
  will commit *whatever is committed meanwhile* (`WritesInv`: its writes cover every image
  of the recorded cells, and of any other cell all images or none, the cell having been
  created after the archiving); and what an open expansion will commit (`CopiesInv`:
  whole copies, for cells that nobody else can create before it ends).  The last two are
  where READ COMMITTED bites: the two tools hold different locks, so neither may rely on
  the tables standing still between its statements.
- `ClonesAlwaysSortBehind`: the realignment takes the oldest template and puts every
  other cell before it, whatever dates it finds (`DatesInv`: an open expansion has planned
  new cells only, and its templates exist).
- `LargeGroupsKeepRecorded`: `RecordedKeepTheirDate`, under the hypothesis that no
  template group is smaller than the recorded cells.  The run `expansion_small_group`
  shows that the hypothesis is needed; the default, all cells that exist, and the group of
  20 that the option's help asks for both meet it.

They assume `TablesAssumption` (every manifest has rows of recorded cells only and an
`INITIAL` image for each, which `load_manifest` checks), `TransactionsAssumption` (names of
the transactions differ) and `ProvisionedAssumption`: the tools find the recorded cells
there, images of existing cells only (a foreign key), and clones of an earlier
expansion that are whole copies of a recorded cell or have no active image.

`QaOperationsProofs` proves for any runs, manifests, cells, verdicts and retries
(`RunsAssumption`, `ReportsAssumption`: `Missing` and the key of the daily report name
nothing else, and verdicts are of the two kinds):

- `FixturesStaySettled`: `FixtureIsSettled`, for any number of drivers.  The invariant
  (`RunsInv`, `WavesInv`) carries what a driver knows while it acts: past the wait its run
  is completed, so that all its inspections have ended; ended inspections never change
  (`RunsStay`), and this is why counts and rows that are read in two steps agree.
- `EvidenceStaysTrue`: `EvidenceIsOfTheRun`.  What is taken was compared with the selected
  labels, and nothing may overwrite a report between its being taken and the upload.
- `FixturesNameTheirManifest`: `FixtureNamesItsManifest`, under the hypothesis that
  there is at most one driver at a time, as the property means it and the run has it.
  The property excepts only `guessed`: a run under a manifest that it was not driven
  with.  The invariant (`SourceInv`, `DrivenInv`) says that from its seed to its look-up
  the table holds the driver's manifest, that at most one run is `RUNNING`, that at the
  look-up whatever runs was captured from that manifest only, a user's run from before
  the seed having made the start fail; and that every run has been captured from no
  manifest but the one it was driven with, so that whoever resumes it with that one,
  at any later time, publishes the right name.

`HostDeploymentsProofs` proves for any finite set of services, any tags and releases, any
number of operators, deployments, switches and infra deployments, with kills or without
(`HostAssumption`; the services, tags and modes are different names, and no release is
called `down`):

- `TypesHold`: `[]TypeOK`.  Its invariant, `ShapeInv`, adds the shape of every run: which
  services, keys or parts are still to do at each stage, and who has the lock.
- `BundlesStayWhole`: `BundleIsWhole`, from `BundleInv`: the parts a run has passed are of
  its release, and while no run was aborted its backup is of one release that succeeded.
- `ReplayStaysReleased` and `InstalledReplayStays`: `Spec => [](switched = 0 => ...)`.
  `ReplayInv` relates image, container and the image to be put back with the bundle, for
  whatever services a run has found running.  The hypothesis is needed: see section 6.
- `TagsStayTrue`, `PublishedStaysDeployed`, `RunsStayAtomic`: from `TagsInv`.  Without
  overlap it says at each stage which services are settled (run the tag of their key and
  are verified) and where `.env` and its backup differ: a deployment only differs in the
  services of its order that it has moved; a switch never differs in a tag.  An
  infra deployment settles no service but those it found running.
- `ModeStaysWhole`: `ModeIsWhole`, from `ModeInv`: the mode found at the start is whole and is
  that of the switch's copy of `.env`; each stage says which keys have been moved.
  An infra deployment may start any services and cannot change what they are wired to.

### The data tools

What a tool computes is a fold over its input, and what the fold does for inputs of any
length is an induction.  The library's theorems about induction take an operator as
a parameter, which the installed provers cannot instantiate; `Folding` gets it otherwise:

- A property of numbers is the *set* of the numbers that have it, so that
  `Induction` needs no operator.  It follows from `LeastNumber`, and this from the
  well-foundedness of `<`.
- The step and the invariant of a fold are `CONSTANT` operators of the module.
  `FoldSteps` (a fold is a sequence of states, each a step from the one before) and
  `FoldKeeps` (what holds of the first and is kept by every step holds of the last)
  are proved once from the definition of `FoldLeft`, the existence of the recursive
  function included, and used through one `INSTANCE` for each fold: `Taking`, `Choosing`,
  `Halves`, `Rows`, `InRound`, `RgbCases`, `EachAxis`, `CtCases`, and for the
  manifests once more with what loads.

Every theorem about `DataTools` starts from `CallsReturn`: a call returns what its tool
computes, or nothing yet.  `AnalysesAddUp` measures bags with `Count` and `Size`, for the
size that the module `Bags` defines is a recursive function without a theorem about it.

`DataToolsProofs` proves, for any calls that meet the assumptions below:

- `ReportsNameTheRequest`: `[]ReportNamesTheRequest`, for any text, digits of serials
  included.  Names, lists and labels are replaced one after the other, and each changes
  a token by a function of it alone; `NamedText`, `ListedText` and `ListedKinds` say which
  token is what after each, `Numbers` that the id behind the first bold label is that
  of the representative inspection by then.  No induction.
- `ImagesReusedWhenExhausted`: `[]ReusedWhenExhausted`.  `PoolsAre`, that every image taken
  twice is in a pool that is used up, is kept by every visit of a pool: a reused row is
  visited only after a whole round, and a round visits all rows (`RoundVisitsAll`) and
  leaves none unused unless enough were fresh.
- `AnswersSpread`: `[]AnswersAreSpread`.  The images that are not recorded are numbered
  among those of their type (`Ranks`, `Sorted`), so that they take the candidates in turn
  (`TakenInTurn`); of `k` numbers, two residues occur equally often or once more
  (`EvenResidues`).
- `RebalancedStaysServed`: `[]RebalancedIsServed`.  What `image_result` reads of the rows of
  an image is its first row and its defects (`Shows`).  The fold over the first rows of the
  inspections puts behind what it has the rows of one more inspection, kept or rewritten
  by its fate (`HoldsRows`); so each image shows afterwards what its inspection's fate says
  (`AllRowsShow`), and each cell ends as it is listed (`OutcomesAreTheTarget`).
  The tool's own recount of the outcomes at its end is not needed for it.
- `DemosAreCalibrated`: `[]DemoIsCalibrated`.  That no candidate is used twice more often
  than another follows from more: the rows of a pool are used *in turn* (`Turns`, `Uses`).
  This is kept although the tools look for fresh rows first and for used ones afterwards
  (`VisitInTurn`): in the round of fresh rows the cursor stands at the row whose turn it
  is, and in the other a row is usable exactly when it is its turn, those of the case being
  forbidden.  Pools of other classes or axes share no image (`PoolsAreApart`) and a case takes
  from each axis once, so that one pool's takes leave the others in turn (`AxisHolds`).
  The invariants of the cases (`RgbHolds`, `CtHolds`) add that each row was judged right
  or was there before.  The second tool's last look is needed: without it the recaptured CT
  of a wave that it does not exchange would remain.

- `AnalysesAreOneAnalysis`: `[]AnalysesAddUp`.  Each count of an analysis is a sum over
  inspections (`Tally`), and the sum of the waves' sums is the sum over all inspections,
  which are the pairs of a wave and its inspections.

`ManifestProofs` proves `ManifestsLoad`: `[]BuiltManifestsLoad`.  A list of rows without a
repetition is loaded when its *set* has the groups of one wave, all whole (`GroupsFit`,
`GroupsAreAccepted`), and the input of the v1.8 tools has them (`AcceptedGroups`).
Each builder's fold keeps that the groups of the cases it has done are whole, and the
others absent (`HoldsGroups`, `GroupHolds`, `RgbFits`, `CtFits`):

- v1.5 (`BuildLoads`): what is taken of a pool is as many as wanted and none twice, although
  the pool is rotated by an offset (`TakeIs`), and the parts of a group are apart: a
  damaged image is not taken again, the others differ in their defects or capture
  (`StemsOfGroup`).
- v1.7 (`WavesLoad`): a selection chooses no image twice in a case, across both rounds
  (`TakeCollects`), and as many FAILs as its plans want (`PlanChooses`), which are `WaveFails` in
  sum; different cases become different groups of the waves (`HalfNames`).
- v1.8 (`DemosLoad`): a case keeps one group and exchanges the other for one of as many
  images that pass (`RgbCaseFits`).  That the second tool's axes add up to `WaveImages` is
  its last look's: until then its CT groups may have any size (`CtOpen`, `FullGroups`).

The assumptions are about the inputs, and TLC evaluates each on the calls it makes:

- `MissingAssumption`, `CalibrationAssumption`: types of the constants; what is absent is no
  label.
- `PlanAssumption`, `ManifestAssumption`: no group is empty, a v1.5 group has no more defects
  than images; v1.7 builds whole waves, at most five
  (`build-v17-runtime-manifests.py:22-23`), and the FAILs of its axis plan are as many as
  the seed wants.
- `BuildAssumption`: the frames are a finite set, each named by its capture, its type and
  its number.
- `FixturesAssumption`, `RecordingsAssumption`: a fixture was written by the exporter, whose
  query joins each row to an inspection and, by a foreign key, to an image of it or none;
  a `PASS` without a defect has a raw response that says the same, as both were
  stored from one callback.
- `ReportsAssumption`: no source comes twice, and a recorded text announces its own
  representative inspection, as the recorded ones do (`replay/tests/test_replay.py:420`).
- `AnalysesAssumption`: an inspection has failed exactly when its final label is neither
  `PASS` nor `REJECT` (`models.py`).
- `WavesAssumption`, `DemosAssumption`: inputs are sequences of records with the fields and
  the labels the builders write, an object is a capture, a type and a source, and
  the wave that the v1.8 tools start from is one the seed loads, as those that
  v1.7 writes are.

### Model-checked only

- Liveness (`DrainEnds`, `EveryRequestSettles`, `EveryRunEnds`, `EveryToolEnds`): the
  installed provers do not reason about fairness through `ENABLED`.
- The type invariants of `SimulationDatabase` and `QaOperations`.

A theorem about a module holds for the definitions TLC ran: no configuration replaces a
definition.

## 6. Disagreements without a run

Each of these was met in a run that is not kept, because a property of a
passing run states its conditions or nothing more is to be said:

- `replay/README.md:26` says an individual report follows the assignment of the analysis.
  When another report has taken that slot, `main.py:371` gives the first free one.
  `FirstGroupReportsFollow` says when it does follow.
- `deployment/README.md:24` says an infra deployment rolls back on failure.  A failing
  `install` or `cp` (`deploy-infra.sh:118-133`, `set -e`) ends the script before its
  rollback.  `BundleIsWhole` excepts such a run (`aborted`).
- The same line says the script "rebuilds its image whenever replay is running and
  restores the previous image on rollback".  When `docker inspect` tells nothing
  (`deploy-infra.sh:148-149`) or `docker tag` fails (176), both followed by `|| true`, the
  rollback goes on and reports success over the new image: `ReplayIsReleased` excepts it
  (`lost`).  A replay container that is restarting or has exited is not running: it is
  not rebuilt, and runs the old image under the new source when Docker starts it again.
  `InstalledReplayRuns` excepts it (`missed`).
- The same holds of every service: a success clears only those that it found running.
  One that an earlier rollback left behind and that has exited stays as it is, and
  `TagsRun` goes on excepting it until a run that brings it up.
- The rollback of the switch runs under `set +e` (`switch-serving-mode.sh:73`): when the copy
  of the backup fails, the keys stay mixed and the backup is deleted, although
  `deployment/README.md:25` says the previous `.env` is restored.  `ModeIsWhole` excepts it
  (`unfinished`).
- The image a rollback restores is not what a switch to replay starts.  The failed release's
  source stays (`deploy-infra.sh:132`), and a later switch to replay builds from it
  (`switch-serving-mode.sh:104`).  With a switch `ReplayIsReleased`
  fails although no two scripts overlap: a rollback and a switch to replay are enough,
  and after one more rollback, to files that are all of one release, `InstalledReplayRuns`
  fails too.  `host_deploys` has no switch, and
  `ReplayStaysReleased` and `InstalledReplayStays` say that, without one, nothing breaks
  them but what they except.
- `database/README.md:112-131` says an empty result of its query means that every cell is
  covered.  A cell without any `INITIAL` image has no row to group and is not in the result.
- `run-qa-wave.py:230-255` checks that no simulation runs, and seeds later, in another
  transaction: a user's run that starts in between is seeded under.
  The driver's own start is then refused, unless that run has ended, so
  it publishes no fixture under a wrong name: `FixtureNamesItsManifest` holds.
- `run-qa-wave.py:219-228` takes any run id with any manifest file, and compares neither.
  A fixture is then published under the digest of a manifest its run was not captured
  from; and the user's run of the item before, resumed by hand, was captured from two.
  `FixtureNamesItsManifest` excepts what was resumed with a manifest that the run was not
  driven with (`guessed`), and holds of every other resumption.
- The comment at `fixture.py:590-591` says digit boundaries keep a recorded id from
  rewriting "the cell serial of a pooled replay", and `test_replay.py:586` tests it for
  an id with fewer digits than the serial.  An id that is a whole run of digits of the
  serial is rewritten there: with 1234 among the recorded ids, `SIM-1234` becomes another
  cell's name.  `ReportNamesTheRequest` excepts just these serials.
- An entry without an `inspectionId` is asked for the id behind a bold label only
  (`fixture.py:524`), while the replacement accepts a plain one as well (609): a text whose
  only label is plain keeps the recorded id behind it, unless that id is among the
  sources.  `ReportNamesTheRequest` excepts it.
- `build-v17-runtime-manifests.py:7-8` says full 40-image sets are never reused; the
  fingerprint (388-393) is that of the CT and RGB images of a case together.

## 7. Not modelled

Authentication, validation and the 503 of a full queue change no state.  Fetching
the fixture and checking its digest happen before the service answers.  Log lines, timestamps and texts of
reports, but for the ids in them, are data no property is about.  Of the host scripts, the benchmark after a
deployment and what is checked before the first change leave nothing behind; `cp`
of one file is one step, and a failure inside `replace_env_value`, which ends the
script at once, is a kill.

Of the database, `hydrate-simulation-image-metadata.py` and the migrations of 20260817 write
columns that nothing modelled reads; image types and buckets do not influence the seed.
Of the data tools, confidences, latencies, audits and the upload of images are left out.
The release channel is not modelled: what production published is, but not how
other hosts and the workflows of GitHub read the two pointers.  The inference stub,
the verification scripts and the instance management hold no state of the system.
