------------------------ MODULE QaOperationsProofs -------------------------
(***************************************************************************)
(* What the QA tools publish, for any number of runs, cells, manifests and *)
(* processes: proofs that it is true of the runs it is about.              *)
(***************************************************************************)
EXTENDS QaOperations, TLAPS

(***************************************************************************)
(* Runs only grow: what has ended does not change.                         *)
(***************************************************************************)

RunsInv ==
    /\ DOMAIN simulation_run = Runs /\ DOMAIN source = Runs
    /\ inspection \in [Runs -> [Cells -> ACTIVE_STATUSES \cup Labels]]
    /\ \A r \in Runs : simulation_run[r] = "COMPLETED" => Ended(r)

\* A step after which every inspection that had ended is what it was.
RunsStay ==
    /\ \A r \in Runs : simulation_run[r] = "COMPLETED" =>
          simulation_run'[r] = "COMPLETED" /\ inspection'[r] = inspection[r]
    /\ \A r \in Runs, c \in Cells : inspection[r][c] \in Labels =>
          inspection'[r][c] = inspection[r][c]

\* A label of the AI is none of the states in between.
LEMMA LabelsApart ==
    ASSUME RunsAssumption
    PROVE  Labels \cap ACTIVE_STATUSES = {} /\ "FAILED" \in Labels
BY DEF RunsAssumption, Labels, ACTIVE_STATUSES

\* The backend, users and close-stale-simulation.py never move a run or an
\* inspection that has ended.
LEMMA RunsStep ==
    ASSUME RunsAssumption, RunsInv, RunsNext
    PROVE  RunsInv' /\ RunsStay
<1>1. CASE Launch
  <2>1. PICK r \in Runs : /\ simulation_run[r] = "absent"
                          /\ simulation_run' = [simulation_run EXCEPT ![r] = "RUNNING"]
    BY <1>1 DEF Launch
  <2>2. UNCHANGED <<inspection, source>>
    BY <1>1 DEF Launch
  <2> QED
    BY <2>1, <2>2 DEF RunsInv, RunsStay, Ended
<1>2. ASSUME NEW r \in Runs, EndRun(r)
      PROVE  RunsInv' /\ RunsStay
  BY <1>2 DEF EndRun, RunsInv, RunsStay, Ended
<1>3. ASSUME NEW r \in Runs, CloseStale(r)
      PROVE  RunsInv' /\ RunsStay
  <2> DEFINE closed == [c \in Cells |-> IF inspection[r][c] \in ACTIVE_STATUSES
                                        THEN "FAILED" ELSE inspection[r][c]]
  <2>1. /\ simulation_run[r] = "RUNNING"
        /\ simulation_run' = [simulation_run EXCEPT ![r] = "COMPLETED"]
        /\ inspection' = [inspection EXCEPT ![r] = closed]
        /\ UNCHANGED source
    BY <1>3 DEF CloseStale, Running
  <2>2. /\ \A c \in Cells : closed[c] \in Labels
        /\ \A c \in Cells : inspection[r][c] \in Labels => closed[c] = inspection[r][c]
        /\ closed \in [Cells -> ACTIVE_STATUSES \cup Labels]
    BY LabelsApart DEF RunsInv
  <2> HIDE DEF closed
  <2> QED
    BY <2>1, <2>2 DEF RunsInv, RunsStay, Ended
<1>4. ASSUME NEW r \in Runs, NEW c \in Cells, Capture(r, c) \/ Analyse(r, c)
      PROVE  RunsInv' /\ RunsStay
  <2>1. /\ simulation_run[r] = "RUNNING" /\ simulation_run' = simulation_run
        /\ inspection[r][c] \in ACTIVE_STATUSES
        /\ DOMAIN source' = DOMAIN source
    BY <1>4 DEF Capture, Analyse, Running, ACTIVE_STATUSES
  <2>2. PICK s \in ACTIVE_STATUSES \cup Labels :
            inspection' = [inspection EXCEPT ![r][c] = s]
    BY <1>4 DEF Capture, Analyse, ACTIVE_STATUSES
  <2>3. inspection[r][c] \notin Labels
    BY <2>1, LabelsApart
  <2> QED
    BY <2>1, <2>2, <2>3 DEF RunsInv, RunsStay, Ended
<1> QED
  BY <1>1, <1>2, <1>3, <1>4 DEF RunsNext

\* Every step of the system is one of the runs, or leaves them alone.
LEMMA RunsAlways ==
    ASSUME RunsAssumption, RunsInv, [Next]_vars
    PROVE  RunsInv' /\ RunsStay
<1>1. RunsNext \/ UNCHANGED <<simulation_run, inspection, source>>
  BY DEF Next, WaveNext, WaveStep, QaNext, QaStep, RunsNext, BeginWave, Resume,
         ConnectFails, CheckIdle, Seed, StartSimulation, LookUp, Poll,
         ExportFixture, UploadFixture, UploadDigest, TimeOut, Die, BeginQa,
         SelectInputs, PostIndividuals, TakeIndividual, PostDaily,
         UploadEvidence, TimeOutQa, DieQa, WriteReport, CloseStaleReport,
         runVars, waveVars, qaVars, vars
<1>2. CASE UNCHANGED <<simulation_run, inspection, source>>
  BY <1>2 DEF RunsInv, RunsStay, Ended
<1> QED
  BY <1>1, <1>2, RunsStep

(***************************************************************************)
(* Waves: a driver carries a truthful fixture to the store.                *)
(***************************************************************************)

WaveFields == {"pc", "manifest", "run", "attempt", "fixture"}

Settled(f) ==
    /\ f.runs = "COMPLETED"
    /\ \A c \in Cells : f.inspections[c] \in Labels
    /\ f.terminalInspectionCounts = Counts(f.inspections)

DriverInv(d) ==
    /\ DOMAIN wave[d] = WaveFields
    /\ wave[d].run \in Runs \cup {Missing}
    /\ wave[d].pc \in {"wait", "export", "upload", "digest"} => wave[d].run \in Runs
    /\ wave[d].pc \in {"export", "upload", "digest"} =>
          simulation_run[wave[d].run] = "COMPLETED"
    /\ wave[d].pc = "export" => wave[d].fixture = Counts(inspection[wave[d].run])
    /\ wave[d].pc \in {"upload", "digest"} => Settled(wave[d].fixture)

WavesInv ==
    /\ DOMAIN wave = Drivers /\ DOMAIN published = Runs
    /\ \A d \in Drivers : DriverInv(d)
    /\ \A r \in Runs : /\ DOMAIN published[r] = {"json", "sha256"}
                       /\ published[r].json # Missing =>
                             /\ Settled(published[r].json)
                             /\ simulation_run[r] = "COMPLETED"

\* What a driver knows stays true while others act.
LEMMA DriverWaits ==
    ASSUME RunsStay, NEW d \in Drivers, DriverInv(d), wave'[d] = wave[d]
    PROVE  DriverInv(d)'
BY DEF RunsStay, DriverInv, Settled

\* Whatever the backend does meanwhile, what a waiting driver knows stays
\* true.
LEMMA WavesWait ==
    ASSUME WavesInv, RunsStay, UNCHANGED <<wave, published>>
    PROVE  WavesInv'
<1>1. \A d \in Drivers : DriverInv(d)'
  BY DriverWaits DEF WavesInv
<1> QED
  BY <1>1 DEF WavesInv, RunsStay, Settled

\* Of the drivers one acts, and publishes nothing.
LEMMA OneDriverActs ==
    ASSUME WavesInv, RunsStay, NEW d \in Drivers, UNCHANGED published,
           NEW new, wave' = [wave EXCEPT ![d] = new], DriverInv(d)'
    PROVE  WavesInv'
<1>1. \A e \in Drivers \ {d} : DriverInv(e)'
  BY DriverWaits DEF WavesInv
<1> QED
  BY <1>1 DEF WavesInv, RunsStay, Settled

\* A driver that goes on to a state in which it knows no more than its run.
LEMMA DriverGoesOn ==
    ASSUME WavesInv, RunsStay, NEW d \in Drivers, UNCHANGED published,
           NEW new, wave' = [wave EXCEPT ![d] = new],
           DOMAIN new = WaveFields,
           new.run \in Runs \cup {Missing},
           new.pc = "wait" => new.run \in Runs,
           new.pc \notin {"export", "upload", "digest"}
    PROVE  WavesInv'
<1>1. wave'[d] = new
  BY DEF WavesInv
<1>2. DriverInv(d)'
  BY <1>1 DEF DriverInv
<1> QED
  BY <1>2, OneDriverActs

\* A driver that ends, with success or without, publishes nothing more.
LEMMA ExitKeepsWaves ==
    ASSUME WavesInv, RunsStay, NEW d \in Drivers, UNCHANGED published, Exit(d)
    PROVE  WavesInv'
<1> DEFINE new == [wave[d] EXCEPT !.pc = "idle", !.manifest = Missing,
                        !.run = Missing, !.attempt = 1, !.fixture = Missing]
<1>1. /\ DOMAIN wave[d] = WaveFields /\ wave[d].run \in Runs \cup {Missing}
      /\ d \in DOMAIN wave
  BY DEF WavesInv, DriverInv
<1>2. DOMAIN new = WaveFields /\ new.run = Missing /\ new.pc = "idle"
  BY <1>1 DEF WaveFields
<1>3. wave' = [wave EXCEPT ![d] = new]
  BY <1>1 DEF Exit
<1> HIDE DEF new
<1> QED
  BY <1>1, <1>2, <1>3, DriverGoesOn

\* A step of the driver before its export only has to know its run.
LEMMA GotoKeepsWaves ==
    ASSUME WavesInv, RunsStay, NEW d \in Drivers, UNCHANGED published,
           NEW pc, Goto(d, pc), pc = "wait" => wave[d].run \in Runs,
           pc \notin {"export", "upload", "digest"}
    PROVE  WavesInv'
<1> DEFINE new == [wave[d] EXCEPT !.pc = pc, !.attempt = 1]
<1>1. /\ DOMAIN wave[d] = WaveFields /\ wave[d].run \in Runs \cup {Missing}
      /\ d \in DOMAIN wave
  BY DEF WavesInv, DriverInv
<1>2. DOMAIN new = WaveFields /\ new.run = wave[d].run /\ new.pc = pc
  BY <1>1 DEF WaveFields
<1>3. wave' = [wave EXCEPT ![d] = new]
  BY <1>1 DEF Goto
<1> HIDE DEF new
<1> QED
  BY <1>1, <1>2, <1>3, DriverGoesOn

\* The steps up to the end of the run.
LEMMA WaitingKeepsWaves ==
    ASSUME WavesInv, RunsStay, NEW d \in Drivers,
           \/ \E m \in Manifests : BeginWave(d, m)
           \/ \E r \in Runs, m \in Manifests : Resume(d, r, m)
           \/ ConnectFails(d) \/ CheckIdle(d) \/ Seed(d)
           \/ StartSimulation(d) \/ LookUp(d)
           \/ TimeOut(d) \/ Die(d)
    PROVE  WavesInv'
<1>1. UNCHANGED published
  BY DEF BeginWave, Resume, ConnectFails, CheckIdle, Seed, StartSimulation,
         LookUp, TimeOut, Die
<1>2. /\ DOMAIN wave[d] = WaveFields /\ wave[d].run \in Runs \cup {Missing}
      /\ wave[d].pc = "wait" => wave[d].run \in Runs
      /\ d \in DOMAIN wave
  BY DEF WavesInv, DriverInv
<1>3. CASE Exit(d)
  BY <1>1, <1>3, ExitKeepsWaves
<1>4. CASE \E pc \in {"seed", "start", "lookup"} : Goto(d, pc)
  BY <1>1, <1>4, GotoKeepsWaves
<1>5. CASE \E r \in Runs, m \in Manifests : Resume(d, r, m)
  <2> PICK r \in Runs, m \in Manifests : Resume(d, r, m)
    BY <1>5
  <2> DEFINE new == [wave[d] EXCEPT !.pc = "wait", !.manifest = m, !.run = r]
  <2>1. wave' = [wave EXCEPT ![d] = new]
    BY <1>2 DEF Resume
  <2>2. DOMAIN new = WaveFields /\ new.run = r /\ new.pc = "wait"
    BY <1>2 DEF WaveFields
  <2> HIDE DEF new
  <2> QED
    BY <1>1, <1>2, <2>1, <2>2, DriverGoesOn
<1>6. CASE ConnectFails(d) /\ ~ Exit(d)
  <2> DEFINE new == [wave[d] EXCEPT !.attempt = @ + 1]
  <2>1. wave' = [wave EXCEPT ![d] = new] /\ wave[d].pc \in {"check", "lookup", "wait"}
    BY <1>2, <1>6 DEF ConnectFails
  <2>2. DOMAIN new = WaveFields /\ new.run = wave[d].run /\ new.pc = wave[d].pc
    BY <1>2 DEF WaveFields
  <2> HIDE DEF new
  <2> QED
    BY <1>1, <1>2, <2>1, <2>2, DriverGoesOn
<1>7. CASE LookUp(d) /\ ~ Exit(d)
  <2> PICK r \in Running : wave' = [wave EXCEPT ![d].pc = "wait", ![d].run = r,
                                                ![d].attempt = 1]
    BY <1>7 DEF LookUp
  <2> DEFINE new == [wave[d] EXCEPT !.pc = "wait", !.run = r, !.attempt = 1]
  <2>1. wave' = [wave EXCEPT ![d] = new]
    BY <1>2
  <2>2. DOMAIN new = WaveFields /\ new.run = r /\ new.pc = "wait" /\ r \in Runs
    BY <1>2 DEF WaveFields, Running
  <2> HIDE DEF new
  <2> QED
    BY <1>1, <2>1, <2>2, DriverGoesOn
<1>8. CASE \E m \in Manifests : BeginWave(d, m)
  <2> PICK m \in Manifests : BeginWave(d, m)
    BY <1>8
  <2> DEFINE new == [wave[d] EXCEPT !.pc = "check", !.manifest = m]
  <2>1. wave' = [wave EXCEPT ![d] = new]
    BY <1>2 DEF BeginWave
  <2>2. DOMAIN new = WaveFields /\ new.run = wave[d].run /\ new.pc = "check"
    BY <1>2 DEF WaveFields
  <2> HIDE DEF new
  <2> QED
    BY <1>1, <1>2, <2>1, <2>2, DriverGoesOn
<1>9. CASE CheckIdle(d) \/ Seed(d) \/ StartSimulation(d) \/ TimeOut(d) \/ Die(d)
  BY <1>3, <1>4, <1>9 DEF CheckIdle, Seed, StartSimulation, TimeOut, Die
<1> QED
  BY <1>3, <1>5, <1>6, <1>7, <1>8, <1>9

\* From the poll that finds the run COMPLETED to the second upload nothing
\* the fixture says of the run can change.
LEMMA RecordingKeepsWaves ==
    ASSUME RunsInv, WavesInv, NEW d \in Drivers,
           UNCHANGED <<simulation_run, inspection>>,
           Poll(d) \/ ExportFixture(d) \/ UploadFixture(d) \/ UploadDigest(d)
    PROVE  WavesInv'
<1>0. RunsStay
  BY DEF RunsStay
<1>1. DriverInv(d) /\ d \in DOMAIN wave /\ DOMAIN published = Runs
  BY DEF WavesInv
<1>2. CASE Poll(d)
  <2>1. wave[d].run \in Runs /\ DOMAIN wave[d] = WaveFields /\ UNCHANGED published
    BY <1>1, <1>2 DEF Poll, DriverInv
  <2>2. CASE Goto(d, "wait") \/ Exit(d)
    BY <1>0, <2>1, <2>2, GotoKeepsWaves, ExitKeepsWaves
  <2>3. CASE /\ simulation_run[wave[d].run] = "COMPLETED"
             /\ wave' = [wave EXCEPT ![d].pc = "export", ![d].attempt = 1,
                             ![d].fixture = Counts(inspection[wave[d].run])]
    <3> DEFINE counts == Counts(inspection[wave[d].run])
               new == [wave[d] EXCEPT !.pc = "export", !.attempt = 1,
                                      !.fixture = counts]
    <3> HIDE DEF counts
    <3>1. wave' = [wave EXCEPT ![d] = new]
      BY <1>1, <2>3 DEF counts
    <3>2. /\ DOMAIN new = WaveFields /\ new.run = wave[d].run
          /\ new.pc = "export" /\ new.fixture = counts
      BY <2>1 DEF WaveFields
    <3> HIDE DEF new
    <3>3. wave'[d] = new
      BY <1>1, <3>1
    <3>4. DriverInv(d)'
      BY <2>1, <2>3, <3>2, <3>3 DEF DriverInv, counts
    <3> QED
      BY <1>0, <2>1, <3>1, <3>4, OneDriverActs
  <2> QED
    BY <1>2, <2>2, <2>3 DEF Poll
<1>3. CASE ExportFixture(d)
  <2> DEFINE r == wave[d].run
             f == [exportedAt |-> waves, manifestSha256 |-> wave[d].manifest,
                   runs |-> simulation_run[r], inspections |-> inspection[r],
                   terminalInspectionCounts |-> wave[d].fixture]
             new == [wave[d] EXCEPT !.pc = "upload", !.fixture = f]
  <2>1. /\ r \in Runs /\ simulation_run[r] = "COMPLETED"
        /\ wave[d].fixture = Counts(inspection[r])
        /\ DOMAIN wave[d] = WaveFields /\ UNCHANGED published
    BY <1>1, <1>3 DEF ExportFixture, DriverInv
  <2>2. Settled(f)
    BY <2>1 DEF RunsInv, Ended, Settled
  <2>3. wave' = [wave EXCEPT ![d] = new]
    BY <1>1, <1>3 DEF ExportFixture
  <2> HIDE DEF f
  <2>4. /\ DOMAIN new = WaveFields /\ new.run = r /\ new.pc = "upload"
        /\ new.fixture = f
    BY <2>1 DEF WaveFields
  <2> HIDE DEF new
  <2>5. wave'[d] = new
    BY <1>1, <2>3
  <2>6. Settled(wave[d].fixture)'
    BY <2>2, <2>4, <2>5 DEF Settled
  <2>7. DriverInv(d)'
    BY <2>1, <2>4, <2>5, <2>6 DEF DriverInv
  <2> QED
    BY <1>0, <2>1, <2>3, <2>7, OneDriverActs
<1>4. CASE UploadFixture(d)
  <2> DEFINE r == wave[d].run
             f == wave[d].fixture
             new == [wave[d] EXCEPT !.pc = "digest", !.attempt = 1]
  <2>1. /\ r \in Runs /\ simulation_run[r] = "COMPLETED" /\ Settled(f)
        /\ DOMAIN wave[d] = WaveFields
    BY <1>1, <1>4 DEF UploadFixture, DriverInv
  <2>2. /\ published' = [published EXCEPT ![r].json = f]
        /\ wave' = [wave EXCEPT ![d] = new]
    BY <1>1, <1>4 DEF UploadFixture, Goto
  <2>3. /\ DOMAIN new = WaveFields /\ new.run = r /\ new.pc = "digest"
        /\ new.fixture = f
    BY <2>1 DEF WaveFields
  <2> HIDE DEF new
  <2>4. wave'[d] = new /\ \A e \in Drivers \ {d} : wave'[e] = wave[e]
    BY <1>1, <2>2
  <2>5. Settled(wave[d].fixture)'
    BY <2>1, <2>3, <2>4 DEF Settled
  <2>6. DriverInv(d)'
    BY <2>1, <2>3, <2>4, <2>5 DEF DriverInv
  <2>7. \A e \in Drivers \ {d} : DriverInv(e)'
    BY <1>0, <2>4, DriverWaits DEF WavesInv
  <2>8. ASSUME NEW q \in Runs
        PROVE  /\ DOMAIN published'[q] = {"json", "sha256"}
               /\ published'[q].json # Missing =>
                     Settled(published[q].json)' /\ simulation_run'[q] = "COMPLETED"
    <3>1. CASE q = r
      <4>1. DOMAIN published'[r] = {"json", "sha256"} /\ published'[r].json = f
        BY <2>1, <2>2 DEF WavesInv
      <4> QED
        BY <2>1, <3>1, <4>1 DEF Settled
    <3>2. CASE q # r
      <4>1. published'[q] = published[q]
        BY <1>1, <2>2, <3>2
      <4> QED
        BY <4>1 DEF WavesInv, Settled
    <3> QED
      BY <3>1, <3>2
  <2> QED
    BY <1>1, <2>2, <2>6, <2>7, <2>8 DEF WavesInv
<1>5. CASE UploadDigest(d)
  <2> DEFINE f == wave[d].fixture
  <2>1. published' = [published EXCEPT ![wave[d].run].sha256 = f] /\ Exit(d)
    BY <1>5 DEF UploadDigest
  <2> DEFINE new == [wave[d] EXCEPT !.pc = "idle", !.manifest = Missing,
                          !.run = Missing, !.attempt = 1, !.fixture = Missing]
  <2>2. wave' = [wave EXCEPT ![d] = new]
    BY <1>1, <2>1 DEF Exit
  <2>3. /\ DOMAIN new = WaveFields /\ new.run = Missing /\ new.pc = "idle"
    BY <1>1 DEF DriverInv, WaveFields
  <2> HIDE DEF new
  <2>4. wave'[d] = new /\ \A e \in Drivers \ {d} : wave'[e] = wave[e]
    BY <1>1, <2>2
  <2>5. DriverInv(d)'
    BY <1>1, <2>3, <2>4 DEF DriverInv
  <2>6. \A e \in Drivers \ {d} : DriverInv(e)'
    BY <1>0, <2>4, DriverWaits DEF WavesInv
  <2>7. \A q \in Runs : /\ DOMAIN published'[q] = {"json", "sha256"}
                        /\ published'[q].json = published[q].json
    BY <1>1, <2>1 DEF WavesInv
  <2>8. \A q \in Runs : published'[q].json # Missing =>
            Settled(published[q].json)' /\ simulation_run'[q] = "COMPLETED"
    BY <2>7 DEF WavesInv, Settled
  <2> QED
    BY <1>1, <2>1, <2>2, <2>5, <2>6, <2>7, <2>8 DEF WavesInv
<1> QED
  BY <1>2, <1>3, <1>4, <1>5

\* Every step of every tool keeps what the drivers know.
LEMMA WavesStep ==
    ASSUME RunsInv, RunsStay, WavesInv, [Next]_vars
    PROVE  WavesInv'
<1>1. CASE UNCHANGED waveVars
  BY <1>1, WavesWait DEF waveVars
<1>2. CASE WaveNext
  <2> PICK d \in Drivers : \/ \E m \in Manifests : BeginWave(d, m)
                           \/ \E r \in Runs, m \in Manifests : Resume(d, r, m)
                           \/ WaveStep(d) \/ TimeOut(d) \/ Die(d)
    BY <1>2 DEF WaveNext
  <2>1. CASE Poll(d) \/ ExportFixture(d) \/ UploadFixture(d) \/ UploadDigest(d)
    <3>1. UNCHANGED <<simulation_run, inspection>>
      BY <2>1 DEF Poll, ExportFixture, UploadFixture, UploadDigest, runVars
    <3> QED
      BY <2>1, <3>1, RecordingKeepsWaves
  <2> QED
    BY <2>1, WaitingKeepsWaves DEF WaveStep
<1> QED
  BY <1>1, <1>2 DEF Next, vars

\* The invariants of the runs and of the drivers hold in every reachable
\* state.
LEMMA WavesInvHolds == Spec => [](RunsInv /\ WavesInv)
<1>1. Init => RunsInv /\ WavesInv
  <2> SUFFICES ASSUME Init PROVE RunsInv /\ WavesInv
    OBVIOUS
  <2>1. RunsInv
    BY DEF Init, RunsInit, RunsInv, ACTIVE_STATUSES
  <2>2. \A d \in Drivers : DriverInv(d)
    BY DEF Init, WaveInit, DriverInv, WaveFields
  <2> QED
    BY <2>1, <2>2 DEF Init, WaveInit, WavesInv
<1>2. RunsInv /\ WavesInv /\ [Next]_vars => RunsInv' /\ WavesInv'
  BY RunsAssumption, RunsAlways, WavesStep
<1> QED
  BY <1>1, <1>2, PTL DEF Spec

\* A published fixture is of a run that has ended, and the counts, read
\* earlier, count the inspections, read later, however many drivers, users and
\* tools that close runs act in between.
THEOREM FixturesStaySettled == Spec => []FixtureIsSettled
<1>1. WavesInv => FixtureIsSettled
  BY DEF WavesInv, FixtureIsSettled, Fixtures, Settled
<1> QED
  BY <1>1, WavesInvHolds, PTL

(***************************************************************************)
(* Report checks: what is taken is what the run says, and stays so.        *)
(***************************************************************************)

QaFields == {"pc", "run", "dailyOnly", "selected", "individuals"}

\* The reports that the check has taken say what the run says.
TakenInv ==
    \A c \in qa.individuals :
        report[c] = [status |-> "COMPLETED", label |-> inspection[qa.run][c]]

EvidenceOk ==
    evidence # Missing => evidence.runId \in Runs /\ EvidenceIsOfTheRun

EvidenceInv ==
    /\ DOMAIN qa = QaFields /\ DOMAIN report = Reports
    /\ qa.pc # "idle" => qa.run \in Runs
    /\ qa.pc \in {"post", "individuals", "daily", "await"} =>
          Ended(qa.run) /\ qa.selected = inspection[qa.run]
    /\ qa.pc \notin {"individuals", "await"} => qa.individuals = {}
    /\ qa.individuals \subseteq Cells
    /\ qa.pc = "await" => qa.individuals \in {{}, Cells}
    /\ TakenInv
    /\ EvidenceOk

\* A run whose inspections have all ended is what it will be.
LEMMA EndedStays ==
    ASSUME RunsInv, RunsInv', RunsStay, NEW r \in Runs, Ended(r)
    PROVE  inspection'[r] = inspection[r] /\ Ended(r)'
<1>1. /\ inspection[r] \in [Cells -> ACTIVE_STATUSES \cup Labels]
      /\ inspection'[r] \in [Cells -> ACTIVE_STATUSES \cup Labels]
  BY DEF RunsInv
<1>2. \A c \in Cells : inspection'[r][c] = inspection[r][c]
  BY DEF RunsStay, Ended
<1>3. inspection'[r] = inspection[r]
  BY <1>1, <1>2
<1> QED
  BY <1>3 DEF Ended

\* Evidence that is kept stays true.
LEMMA EvidenceKept ==
    ASSUME RunsInv, RunsInv', RunsStay, EvidenceInv, UNCHANGED evidence
    PROVE  EvidenceOk'
BY EndedStays DEF EvidenceInv, EvidenceOk, EvidenceIsOfTheRun

\* What the check knows stays true while others act on the runs.
LEMMA EvidenceWaits ==
    ASSUME RunsInv, RunsInv', RunsStay, EvidenceInv, UNCHANGED qaVars
    PROVE  EvidenceInv'
<1>1. UNCHANGED <<qa, report, evidence>>
  BY DEF qaVars
<1>2. qa.pc \in {"post", "individuals", "daily", "await"} =>
          Ended(qa.run)' /\ qa.selected = inspection'[qa.run]
  <2> SUFFICES ASSUME qa.pc \in {"post", "individuals", "daily", "await"}
               PROVE  Ended(qa.run)' /\ qa.selected = inspection'[qa.run]
    OBVIOUS
  <2>1. /\ qa.run \in Runs /\ Ended(qa.run)
        /\ qa.selected = inspection[qa.run]
    BY DEF EvidenceInv
  <2>2. inspection'[qa.run] = inspection[qa.run]
    BY <2>1, EndedStays
  <2> QED
    BY <1>1, <2>1, <2>2 DEF Ended
<1>3. TakenInv'
  BY <1>1, <1>2 DEF EvidenceInv, TakenInv
<1>4. EvidenceOk'
  BY <1>1, EvidenceKept
<1> QED
  BY <1>1, <1>2, <1>3, <1>4 DEF EvidenceInv

\* A report check that ends forgets all it selected and took.
LEMMA ExitKeepsEvidence ==
    ASSUME EvidenceInv, ExitQa, EvidenceOk'
    PROVE  EvidenceInv'
BY DEF EvidenceInv, ExitQa, IdleQa, QaFields, NoReports, TakenInv

\* A report that was taken had ended, and nobody touches it any more.
LEMMA ReportsKeepEvidence ==
    ASSUME EvidenceInv, EvidenceOk', UNCHANGED <<qa, inspection>>,
           NEW x \in Reports, report[x].status = "PENDING",
           \E new : report' = [report EXCEPT ![x] = new]
    PROVE  EvidenceInv'
<1>1. DOMAIN report' = Reports /\ \A y \in Reports \ {x} : report'[y] = report[y]
  BY DEF EvidenceInv
<1>2. x \notin qa.individuals
  <2>1. \A c \in qa.individuals : report[c].status = "COMPLETED"
    <3> SUFFICES ASSUME NEW c \in qa.individuals PROVE report[c].status = "COMPLETED"
      OBVIOUS
    <3>1. report[c] = [status |-> "COMPLETED", label |-> inspection[qa.run][c]]
      BY DEF EvidenceInv, TakenInv
    <3> QED
      BY <3>1
  <2> QED
    BY <2>1
<1>3. TakenInv'
  BY <1>1, <1>2 DEF EvidenceInv, TakenInv, Reports
<1> QED
  BY <1>1, <1>3 DEF EvidenceInv, Ended

\* A report check begins with nothing selected.
LEMMA BeginKeepsEvidence ==
    ASSUME EvidenceInv, EvidenceOk', NEW r \in Runs, NEW dailyOnly \in BOOLEAN,
           BeginQa(r, dailyOnly)
    PROVE  EvidenceInv'
<1> DEFINE new == [IdleQa EXCEPT !.pc = "select", !.run = r, !.dailyOnly = dailyOnly]
<1>1. qa' = new /\ UNCHANGED report
  BY DEF BeginQa
<1>2. /\ DOMAIN new = QaFields /\ new.pc = "select" /\ new.run = r
      /\ new.individuals = {}
  BY DEF IdleQa, QaFields
<1> HIDE DEF new
<1> QED
  BY <1>1, <1>2 DEF EvidenceInv, TakenInv

\* Inputs are selected from a run that has ended.
LEMMA SelectKeepsEvidence ==
    ASSUME EvidenceInv, EvidenceOk', SelectInputs, ~ ExitQa
    PROVE  EvidenceInv'
<1> DEFINE next == IF qa.dailyOnly THEN "daily" ELSE "post"
           inputs == inspection[qa.run]
<1>1. /\ Ended(qa.run) /\ qa' = [qa EXCEPT !.selected = inputs, !.pc = next]
      /\ qa.pc = "select" /\ UNCHANGED <<report, inspection>>
  BY DEF SelectInputs, runVars
<1>2. next \in {"daily", "post"}
  OBVIOUS
<1> HIDE DEF next, inputs
<1>3. /\ DOMAIN qa' = QaFields /\ qa'.pc = next /\ qa'.selected = inputs
      /\ qa'.run = qa.run /\ qa'.individuals = {} /\ qa.run \in Runs
  BY <1>1 DEF EvidenceInv, QaFields
<1>4. Ended(qa.run)' /\ qa'.selected = inspection'[qa'.run]
  BY <1>1, <1>3 DEF Ended, inputs
<1> QED
  BY <1>1, <1>2, <1>3, <1>4 DEF EvidenceInv, TakenInv

\* New requests overwrite reports only before any was taken.
LEMMA PostKeepsEvidence ==
    ASSUME ReportsAssumption, EvidenceInv, EvidenceOk', PostIndividuals \/ PostDaily
    PROVE  EvidenceInv'
<1>1. UNCHANGED inspection /\ Ended(qa.run) /\ qa.selected = inspection[qa.run]
      /\ qa.run \in Runs
  BY DEF PostIndividuals, PostDaily, runVars, EvidenceInv
<1>2. Ended(qa.run)'
  <2>1. qa'.run = qa.run
    BY DEF PostIndividuals, PostDaily, EvidenceInv, QaFields
  <2> QED
    BY <1>1, <2>1 DEF Ended
<1>3. CASE PostIndividuals
  <2>1. /\ DOMAIN qa' = QaFields /\ qa'.pc = "individuals" /\ qa'.run = qa.run
        /\ qa'.selected = qa.selected /\ qa'.individuals = {}
        /\ DOMAIN report' = Reports
    BY <1>3 DEF PostIndividuals, Post, EvidenceInv, QaFields
  <2> QED
    BY <1>1, <1>2, <2>1 DEF EvidenceInv, TakenInv
<1>4. CASE PostDaily
  <2>1. /\ DOMAIN qa' = QaFields /\ qa'.pc = "await" /\ qa'.run = qa.run
        /\ qa'.selected = qa.selected /\ qa'.individuals = qa.individuals
        /\ qa.individuals \in {{}, Cells}
    BY <1>4 DEF PostDaily, EvidenceInv, QaFields
  <2>2. /\ DOMAIN report' = Reports
        /\ \A c \in Cells : report'[c] = report[c]
    BY <1>4 DEF PostDaily, Post, Reports, ReportsAssumption
  <2>3. TakenInv'
    BY <1>1, <2>1, <2>2 DEF EvidenceInv, TakenInv
  <2> QED
    BY <1>1, <1>2, <2>1, <2>2, <2>3 DEF EvidenceInv
<1> QED
  BY <1>3, <1>4

\* A report that is taken says of the cell what was selected.
LEMMA TakeKeepsEvidence ==
    ASSUME EvidenceInv, EvidenceOk', NEW c \in Cells, TakeIndividual(c), ~ ExitQa
    PROVE  EvidenceInv'
<1>1. /\ qa.pc = "individuals" /\ validate_individual(c)
      /\ qa' = [qa EXCEPT !.individuals = @ \cup {c}]
      /\ UNCHANGED <<report, inspection>>
  BY DEF TakeIndividual, runVars
<1>2. /\ DOMAIN qa' = QaFields /\ qa'.pc = qa.pc /\ qa'.run = qa.run
      /\ qa'.selected = qa.selected /\ qa'.individuals = qa.individuals \cup {c}
  BY <1>1 DEF EvidenceInv, QaFields
<1>3. report[c] = [status |-> "COMPLETED", label |-> inspection[qa.run][c]]
  BY <1>1 DEF validate_individual, EvidenceInv
<1>4. TakenInv'
  BY <1>1, <1>2, <1>3 DEF EvidenceInv, TakenInv
<1> QED
  BY <1>1, <1>2, <1>4 DEF EvidenceInv, Ended

\* The evidence lists the reports taken: of every cell, or none.
LEMMA UploadIsEvidence ==
    ASSUME EvidenceInv, UploadEvidence
    PROVE  EvidenceOk'
<1> DEFINE taken == [c \in qa.individuals |-> report[c]]
           new == [runId |-> qa.run, daily |-> report[Daily].status,
                   individuals |-> taken]
<1>1. qa.pc = "await" /\ evidence' = new /\ UNCHANGED inspection
  BY DEF UploadEvidence, runVars
<1>2. new.runId = qa.run /\ new.individuals = taken
  OBVIOUS
<1> HIDE DEF new
<1>3. /\ qa.run \in Runs /\ Ended(qa.run) /\ qa.individuals \in {{}, Cells}
      /\ TakenInv
  BY <1>1 DEF EvidenceInv
<1>4. qa.individuals = {} => taken = << >>
  OBVIOUS
<1>5. qa.individuals = Cells =>
          taken = [c \in Cells |->
                     [status |-> "COMPLETED", label |-> inspection[qa.run][c]]]
  BY <1>3 DEF TakenInv
<1>6. Ended(qa.run) => Ended(evidence.runId)'
  BY <1>1, <1>2 DEF Ended
<1> HIDE DEF taken
<1> QED
  BY <1>1, <1>2, <1>3, <1>4, <1>5, <1>6 DEF EvidenceOk, EvidenceIsOfTheRun

\* Every step of every tool keeps what the report check knows.
LEMMA EvidenceStep ==
    ASSUME RunsAssumption, ReportsAssumption, RunsInv, RunsInv', RunsStay,
           EvidenceInv, [Next]_vars
    PROVE  EvidenceInv'
<1>1. CASE UNCHANGED qaVars
  BY <1>1, EvidenceWaits
<1>2. CASE QaNext
  <2>1. CASE UploadEvidence
    BY <2>1, UploadIsEvidence, ExitKeepsEvidence DEF UploadEvidence
  <2>2. CASE ~ UploadEvidence
    <3>1. UNCHANGED <<inspection, evidence>>
      BY <1>2, <2>2 DEF QaNext, QaStep, BeginQa, SelectInputs, PostIndividuals,
         TakeIndividual, PostDaily, TimeOutQa, DieQa, WriteReport,
         CloseStaleReport, runVars
    <3>2. EvidenceOk'
      BY <3>1, EvidenceKept
    <3>3. CASE ExitQa
      BY <3>2, <3>3, ExitKeepsEvidence
    <3>4. CASE \E x \in Reports : WriteReport(x) \/ CloseStaleReport(x)
      <4> PICK x \in Reports : WriteReport(x) \/ CloseStaleReport(x)
        BY <3>4
      <4>1. report[x].status = "PENDING" /\ UNCHANGED qa
        BY DEF WriteReport, CloseStaleReport
      <4>2. \E new : report' = [report EXCEPT ![x] = new]
        <5>1. CASE WriteReport(x)
          BY <5>1 DEF WriteReport
        <5>2. CASE CloseStaleReport(x)
          <6>1. report' = [report EXCEPT ![x] = [report[x] EXCEPT !.status = "FAILED"]]
            BY <5>2 DEF CloseStaleReport
          <6> QED
            BY <6>1
        <5> QED
          BY <5>1, <5>2
      <4> QED
        BY <3>1, <3>2, <4>1, <4>2, ReportsKeepEvidence
    <3>5. CASE \E r \in Runs, dailyOnly \in BOOLEAN : BeginQa(r, dailyOnly)
      BY <3>2, <3>5, BeginKeepsEvidence
    <3>6. CASE QaStep /\ ~ ExitQa
      BY <2>2, <3>2, <3>6, SelectKeepsEvidence, PostKeepsEvidence,
         TakeKeepsEvidence DEF QaStep
    <3> QED
      BY <1>2, <3>3, <3>4, <3>5, <3>6 DEF QaNext, TimeOutQa, DieQa
  <2> QED
    BY <2>1, <2>2
<1> QED
  BY <1>1, <1>2 DEF Next, vars

\* The invariants of the runs and of the report check hold in every reachable
\* state.
LEMMA EvidenceInvHolds == Spec => [](RunsInv /\ EvidenceInv)
<1>1. Init => RunsInv /\ EvidenceInv
  <2> SUFFICES ASSUME Init PROVE RunsInv /\ EvidenceInv
    OBVIOUS
  <2>1. RunsInv
    BY DEF Init, RunsInit, RunsInv, ACTIVE_STATUSES
  <2>2. EvidenceInv
    BY DEF Init, QaInit, IdleQa, QaFields, NoReports, EvidenceInv, TakenInv,
           EvidenceOk
  <2> QED
    BY <2>1, <2>2
<1>2. RunsInv /\ EvidenceInv /\ [Next]_vars => RunsInv' /\ EvidenceInv'
  BY RunsAssumption, ReportsAssumption, RunsAlways, EvidenceStep
<1> QED
  BY <1>1, <1>2, PTL DEF Spec

\* Evidence of individual reports covers every cell of its run, and each report
\* says of the cell what the run says, whoever writes, closes or replaces
\* reports and closes runs meanwhile.
THEOREM EvidenceStaysTrue == Spec => []EvidenceIsOfTheRun
<1>1. EvidenceInv => EvidenceIsOfTheRun
  BY DEF EvidenceInv, EvidenceOk, EvidenceIsOfTheRun
<1> QED
  BY <1>1, EvidenceInvHolds, PTL

(***************************************************************************)
(* One wave at a time: which manifest a run was captured from.             *)
(***************************************************************************)

\* What the one driver knows: the table holds its manifest from the seed to
\* the look-up, when whatever runs was captured from that manifest; what runs
\* while it seeds is no run of a driver; what it records is a run of a driver,
\* or one it was given by hand.
SourceOf(d) ==
    /\ wave[d].pc \in {"check", "seed", "start", "lookup"} =>
          wave[d].manifest \in Manifests
    /\ wave[d].pc = "seed" => \A r \in Running, m \in Manifests : <<r, m>> \notin driven
    /\ wave[d].pc \in {"start", "lookup"} => seeded = wave[d].manifest
    /\ wave[d].pc = "lookup" =>
          \A r \in Running : source[r] \subseteq {wave[d].manifest}
    /\ wave[d].pc \in {"wait", "export", "upload", "digest"} =>
          <<wave[d].run, wave[d].manifest>> \in driven \cup guessed
    /\ wave[d].pc \in {"upload", "digest"} =>
          wave[d].fixture.manifestSha256 = wave[d].manifest

\* A run that was driven is captured from that manifest, which stays in place
\* as long as the run is under way.
DrivenInv ==
    \A r \in Runs, m \in Manifests : <<r, m>> \in driven =>
        /\ simulation_run[r] # "absent"
        /\ source[r] \subseteq {m}
        /\ r \in Running => seeded = m

SourceInv ==
    /\ \A q, r \in Running : q = r
    /\ \A r \in Runs : simulation_run[r] = "absent" => source[r] = {}
    /\ driven \cup guessed \subseteq Runs \X Manifests
    /\ DrivenInv
    /\ \A d \in Drivers : SourceOf(d)
    /\ FixtureNamesItsManifest

\* The runs go on beside the driver.
LEMMA RunsKeepSource ==
    ASSUME RunsInv, WavesInv, SourceInv, RunsNext,
           UNCHANGED <<wave, published, driven, guessed>>
    PROVE  SourceInv'
<1>1. UNCHANGED seeded
  BY DEF RunsNext, Launch, Capture, Analyse, EndRun, CloseStale
<1>3. CASE Launch
  <2>1. PICK r \in Runs : /\ simulation_run[r] = "absent"
                          /\ simulation_run' = [simulation_run EXCEPT ![r] = "RUNNING"]
    BY <1>3 DEF Launch
  <2>2. Running = {} /\ UNCHANGED source
    BY <1>3 DEF Launch
  <2>3. Running' = {r}
    BY <2>1, <2>2 DEF Running, RunsInv
  <2>4. source'[r] = {} /\ \A m \in Manifests : <<r, m>> \notin driven
    BY <2>1, <2>2 DEF SourceInv, DrivenInv
  <2>5. \A q \in Runs : simulation_run'[q] = "absent" => simulation_run[q] = "absent"
    BY <2>1 DEF RunsInv
  <2>6. DrivenInv'
    BY <2>2, <2>3, <2>4, <2>5 DEF SourceInv, DrivenInv
  <2>7. \A d \in Drivers : SourceOf(d)'
    BY <1>1, <2>2, <2>3, <2>4 DEF SourceInv, SourceOf
  <2> QED
    BY <2>2, <2>3, <2>4, <2>5, <2>6, <2>7 DEF SourceInv, FixtureNamesItsManifest
<1>4. CASE \E r \in Runs : EndRun(r) \/ CloseStale(r)
  <2> PICK r \in Runs : EndRun(r) \/ CloseStale(r)
    BY <1>4
  <2>1. /\ simulation_run' = [simulation_run EXCEPT ![r] = "COMPLETED"]
        /\ UNCHANGED source
    BY DEF EndRun, CloseStale
  <2>2. /\ Running' \subseteq Running
        /\ \A q \in Runs : simulation_run'[q] = "absent" => simulation_run[q] = "absent"
    BY <2>1 DEF Running, RunsInv
  <2>3. DrivenInv'
    BY <1>1, <2>1, <2>2 DEF SourceInv, DrivenInv
  <2>4. \A d \in Drivers : SourceOf(d)'
    BY <1>1, <2>1, <2>2 DEF SourceInv, SourceOf
  <2> QED
    BY <2>1, <2>2, <2>3, <2>4 DEF SourceInv, FixtureNamesItsManifest
<1>5. CASE \E r \in Runs, c \in Cells : Analyse(r, c)
  <2>1. UNCHANGED <<simulation_run, source>>
    BY <1>5 DEF Analyse
  <2> QED
    BY <1>1, <2>1 DEF SourceInv, SourceOf, DrivenInv, FixtureNamesItsManifest, Running
<1>6. CASE \E r \in Runs, c \in Cells : Capture(r, c)
  <2> PICK r \in Runs, c \in Cells : Capture(r, c)
    BY <1>6
  <2>1. /\ UNCHANGED simulation_run /\ simulation_run[r] = "RUNNING"
        /\ source' = [source EXCEPT ![r] = @ \cup {seeded}]
    BY DEF Capture, Running
  <2>2. /\ \A q \in Runs : q # r => source'[q] = source[q]
        /\ source'[r] = source[r] \cup {seeded}
    BY <2>1 DEF RunsInv
  <2>3. ASSUME NEW d \in Drivers PROVE SourceOf(d)'
    <3>1. SourceOf(d)
      BY DEF SourceInv
    <3>2. wave[d].pc = "lookup" =>
              \A q \in Running' : source'[q] \subseteq {wave[d].manifest}
      BY <2>1, <2>2, <3>1 DEF SourceOf, Running
    <3> QED
      BY <1>1, <2>1, <3>1, <3>2 DEF SourceOf, Running
  <2>4. published[r].json = Missing
    BY <2>1 DEF WavesInv
  <2>5. FixtureNamesItsManifest'
    BY <2>2, <2>4 DEF SourceInv, FixtureNamesItsManifest
  <2>6. \A q \in Runs : simulation_run'[q] = "absent" => source'[q] = {}
    BY <2>1, <2>2 DEF SourceInv
  <2>7. DrivenInv'
    BY <1>1, <2>1, <2>2 DEF SourceInv, DrivenInv, Running
  <2> QED
    BY <2>1, <2>3, <2>5, <2>6, <2>7 DEF SourceInv, Running
<1> QED
  BY <1>3, <1>4, <1>5, <1>6 DEF RunsNext

\* A step of the one driver that changes neither runs nor fixtures.
LEMMA DriverKeepsSource ==
    ASSUME SourceInv, \A d, e \in Drivers : d = e,
           NEW d \in Drivers, SourceOf(d)', DrivenInv',
           driven' \cup guessed' \subseteq Runs \X Manifests,
           guessed \subseteq guessed',
           UNCHANGED <<simulation_run, source>>,
           \A r \in Runs : published'[r].json = published[r].json
    PROVE  SourceInv'
<1>1. \A e \in Drivers : SourceOf(e)'
  OBVIOUS
<1> QED
  BY <1>1 DEF SourceInv, FixtureNamesItsManifest, Running

\* The steps that neither find a run nor are given one.
LEMMA DriverActsKeepsSource ==
    ASSUME WavesInv, SourceInv, \A d, e \in Drivers : d = e, NEW d \in Drivers,
           UNCHANGED <<simulation_run, source, seeded, driven, guessed>>,
           \/ \E m \in Manifests : BeginWave(d, m)
           \/ ConnectFails(d) \/ CheckIdle(d)
           \/ Poll(d) \/ ExportFixture(d) \/ UploadDigest(d) \/ Exit(d)
    PROVE  SourceOf(d)'
<1>1. /\ DOMAIN wave = Drivers /\ DOMAIN wave[d] = WaveFields
      /\ SourceOf(d) /\ Running' = Running
  BY DEF WavesInv, DriverInv, SourceInv, Running
<1>2. CASE Exit(d)
  <2>1. wave'[d].pc = "idle"
    BY <1>1, <1>2 DEF Exit, WaveFields
  <2> QED
    BY <2>1 DEF SourceOf
<1>3. CASE wave[d].pc \in {"check", "wait"} /\ \E pc \in {"seed", "wait", "export"} :
               /\ wave'[d].run = wave[d].run /\ wave'[d].manifest = wave[d].manifest
               /\ wave'[d].pc = pc /\ (pc = "seed" => wave[d].pc = "check" /\ Running = {})
               /\ (pc # "seed" => wave[d].pc = "wait")
  BY <1>1, <1>3 DEF SourceOf
<1>4. CASE CheckIdle(d) /\ ~ Exit(d)
  <2>1. /\ wave'[d].run = wave[d].run /\ wave'[d].manifest = wave[d].manifest
        /\ wave[d].pc = "check" /\ wave'[d].pc = "seed" /\ Running = {}
    BY <1>1, <1>4 DEF CheckIdle, Goto, WaveFields
  <2> QED
    BY <1>3, <2>1
<1>5. CASE ConnectFails(d) /\ ~ Exit(d)
  <2>1. /\ wave[d].pc \in {"check", "lookup", "wait"}
        /\ wave' = [wave EXCEPT ![d].attempt = @ + 1]
    BY <1>5 DEF ConnectFails
  <2>2. /\ wave'[d].run = wave[d].run /\ wave'[d].manifest = wave[d].manifest
        /\ wave'[d].pc = wave[d].pc
    BY <1>1, <2>1 DEF WaveFields
  <2> QED
    BY <1>1, <2>1, <2>2 DEF SourceOf
<1>6. CASE Poll(d) /\ ~ Exit(d)
  <2> DEFINE counts == Counts(inspection[wave[d].run])
  <2>1. wave[d].pc = "wait"
    BY <1>6 DEF Poll
  <2>2. \/ Goto(d, "wait")
        \/ wave' = [wave EXCEPT ![d].pc = "export", ![d].attempt = 1,
                                ![d].fixture = counts]
    BY <1>6 DEF Poll
  <2> HIDE DEF counts
  <2>3. /\ wave'[d].run = wave[d].run /\ wave'[d].manifest = wave[d].manifest
        /\ wave'[d].pc \in {"wait", "export"}
    BY <1>1, <2>2 DEF Goto, WaveFields
  <2> QED
    BY <1>3, <2>1, <2>3
<1>8. CASE \E m \in Manifests : BeginWave(d, m)
  <2> PICK m \in Manifests : BeginWave(d, m)
    BY <1>8
  <2>1. wave'[d].pc = "check" /\ wave'[d].manifest = m
    BY <1>1 DEF BeginWave, WaveFields
  <2> QED
    BY <1>1, <2>1 DEF SourceOf
<1>9. CASE ExportFixture(d)
  <2> DEFINE f == [exportedAt |-> waves, manifestSha256 |-> wave[d].manifest,
                   runs |-> simulation_run[wave[d].run],
                   inspections |-> inspection[wave[d].run],
                   terminalInspectionCounts |-> wave[d].fixture]
  <2>1. wave' = [wave EXCEPT ![d].pc = "upload", ![d].fixture = f]
    BY <1>1, <1>9 DEF ExportFixture
  <2>2. f.manifestSha256 = wave[d].manifest
    OBVIOUS
  <2> HIDE DEF f
  <2>3. /\ wave'[d].pc = "upload" /\ wave'[d].run = wave[d].run
        /\ wave'[d].manifest = wave[d].manifest /\ wave'[d].fixture = f
        /\ wave[d].pc = "export"
    BY <1>1, <1>9, <2>1 DEF WaveFields, ExportFixture
  <2> QED
    BY <1>1, <2>2, <2>3 DEF SourceOf
<1> QED
  BY <1>2, <1>4, <1>5, <1>6, <1>8, <1>9 DEF UploadDigest

\* A run given by hand is recorded as guessed, unless it was driven with that
\* manifest.
LEMMA ResumeKeepsSource ==
    ASSUME WavesInv, SourceInv, \A d, e \in Drivers : d = e,
           NEW d \in Drivers, NEW r \in Runs, NEW m \in Manifests, Resume(d, r, m)
    PROVE  SourceInv'
<1>1. DOMAIN wave = Drivers /\ DOMAIN wave[d] = WaveFields
  BY DEF WavesInv, DriverInv
<1>2. /\ wave' = [wave EXCEPT ![d].pc = "wait", ![d].manifest = m, ![d].run = r]
      /\ guessed' = guessed \cup ({<<r, m>>} \ driven)
      /\ UNCHANGED <<simulation_run, source, seeded, published, driven>>
  BY DEF Resume, runVars
<1>3. /\ wave'[d].pc = "wait" /\ wave'[d].run = r /\ wave'[d].manifest = m
  BY <1>1, <1>2 DEF WaveFields
<1>4. SourceOf(d)'
  BY <1>2, <1>3 DEF SourceOf
<1>5. DrivenInv' /\ driven' \cup guessed' \subseteq Runs \X Manifests
  BY <1>2 DEF SourceInv, DrivenInv, Running
<1> QED
  BY <1>2, <1>4, <1>5, DriverKeepsSource

\* The run that is found was captured from the manifest of the driver.
LEMMA LookUpKeepsSource ==
    ASSUME WavesInv, SourceInv, \A d, e \in Drivers : d = e,
           NEW d \in Drivers, LookUp(d), Running # {}
    PROVE  SourceInv'
<1>1. /\ DOMAIN wave = Drivers /\ DOMAIN wave[d] = WaveFields /\ SourceOf(d)
  BY DEF WavesInv, DriverInv, SourceInv
<1>2. PICK r \in Running :
          /\ wave' = [wave EXCEPT ![d].pc = "wait", ![d].run = r, ![d].attempt = 1]
          /\ driven' = driven \cup {<<r, wave[d].manifest>>}
  BY DEF LookUp
<1>3. /\ wave[d].pc = "lookup"
      /\ UNCHANGED <<simulation_run, source, seeded, published, guessed>>
  BY DEF LookUp, runVars
<1>4. /\ wave'[d].pc = "wait" /\ wave'[d].run = r
      /\ wave'[d].manifest = wave[d].manifest
      /\ <<r, wave[d].manifest>> \in driven'
  BY <1>1, <1>2 DEF WaveFields
<1>5. SourceOf(d)'
  BY <1>4 DEF SourceOf
<1>6. /\ wave[d].manifest \in Manifests /\ seeded = wave[d].manifest
      /\ source[r] \subseteq {wave[d].manifest}
      /\ r \in Runs /\ simulation_run[r] # "absent"
  BY <1>1, <1>3 DEF SourceOf, Running
<1>7. DrivenInv' /\ driven' \cup guessed' \subseteq Runs \X Manifests
  BY <1>2, <1>3, <1>6 DEF SourceInv, DrivenInv, Running
<1> QED
  BY <1>3, <1>5, <1>7, DriverKeepsSource

\* The manifest is put in place while no run of a driver is under way.
LEMMA SeedKeepsSource ==
    ASSUME WavesInv, SourceInv, \A d, e \in Drivers : d = e,
           NEW d \in Drivers, Seed(d)
    PROVE  SourceInv'
<1>1. /\ DOMAIN wave = Drivers /\ DOMAIN wave[d] = WaveFields /\ SourceOf(d)
  BY DEF WavesInv, DriverInv, SourceInv
<1>2. /\ wave[d].pc = "seed" /\ Goto(d, "start") /\ seeded' = wave[d].manifest
      /\ UNCHANGED <<simulation_run, source, published, driven, guessed>>
  BY DEF Seed, observers
<1>3. /\ wave'[d].pc = "start" /\ wave'[d].run = wave[d].run
      /\ wave'[d].manifest = wave[d].manifest
  BY <1>1, <1>2 DEF Goto, WaveFields
<1>4. SourceOf(d)'
  BY <1>1, <1>2, <1>3 DEF SourceOf
<1>5. DrivenInv'
  BY <1>1, <1>2 DEF SourceInv, SourceOf, DrivenInv, Running
<1> QED
  BY <1>2, <1>4, <1>5, DriverKeepsSource DEF SourceInv

\* The run that is started finds no other one, and has captured nothing.
LEMMA StartKeepsSource ==
    ASSUME RunsInv, WavesInv, SourceInv, \A d, e \in Drivers : d = e,
           NEW d \in Drivers, StartSimulation(d), Launch
    PROVE  SourceInv'
<1>1. /\ DOMAIN wave = Drivers /\ DOMAIN wave[d] = WaveFields /\ SourceOf(d)
  BY DEF WavesInv, DriverInv, SourceInv
<1>2. PICK r \in Runs : /\ simulation_run[r] = "absent"
                        /\ simulation_run' = [simulation_run EXCEPT ![r] = "RUNNING"]
  BY DEF Launch
<1>3. /\ Running = {} /\ UNCHANGED <<seeded, source, published, guessed>>
      /\ wave[d].pc = "start"
  BY DEF Launch, StartSimulation
<1>4. Running' = {r} /\ source[r] = {}
  BY <1>2, <1>3 DEF Running, RunsInv, SourceInv
<1>5. simulation_run' # simulation_run
  BY <1>2 DEF RunsInv
<1>6. driven' = driven \cup {<<r, wave[d].manifest>>}
  <2>1. driven' = driven \cup {<<q, wave[d].manifest>> : q \in Running'}
    BY <1>5 DEF StartSimulation, runVars
  <2> QED
    BY <1>4, <2>1
<1>7. \/ wave'[d].pc = "idle"
      \/ wave'[d].pc = "lookup" /\ wave'[d].manifest = wave[d].manifest
  <2>1. Goto(d, "lookup") \/ Exit(d)
    BY DEF StartSimulation
  <2> QED
    BY <1>1, <2>1 DEF Goto, Exit, WaveFields
<1>8. seeded = wave[d].manifest /\ wave[d].manifest \in Manifests
  BY <1>1, <1>3 DEF SourceOf
<1>9. SourceOf(d)'
  BY <1>3, <1>4, <1>7, <1>8 DEF SourceOf
<1>10. \A e \in Drivers : SourceOf(e)'
  BY <1>9
<1>11. \A q \in Runs : simulation_run'[q] = "absent" => simulation_run[q] = "absent"
  BY <1>2 DEF RunsInv
<1>12. DrivenInv'
  <2>1. \A m \in Manifests : <<r, m>> \notin driven
    BY <1>2 DEF SourceInv, DrivenInv
  <2>2. simulation_run'[r] = "RUNNING"
    BY <1>2 DEF RunsInv
  <2> SUFFICES ASSUME NEW q \in Runs, NEW m \in Manifests, <<q, m>> \in driven'
               PROVE  /\ simulation_run'[q] # "absent"
                      /\ source'[q] \subseteq {m}
                      /\ q \in Running' => seeded' = m
    BY DEF DrivenInv
  <2>3. CASE q = r /\ m = wave[d].manifest
    BY <1>3, <1>4, <1>8, <2>2, <2>3
  <2>4. CASE <<q, m>> \in driven
    BY <1>3, <1>4, <1>11, <2>1, <2>4 DEF SourceInv, DrivenInv
  <2> QED
    BY <1>6, <2>3, <2>4
<1>13. driven' \cup guessed' \subseteq Runs \X Manifests
  BY <1>3, <1>6, <1>8 DEF SourceInv
<1> QED
  BY <1>3, <1>4, <1>10, <1>11, <1>12, <1>13 DEF SourceInv, FixtureNamesItsManifest

\* What is published names the manifest of the driver.
LEMMA UploadKeepsSource ==
    ASSUME WavesInv, SourceInv, \A d, e \in Drivers : d = e,
           NEW d \in Drivers, UploadFixture(d)
    PROVE  SourceInv'
<1> DEFINE r == wave[d].run
           f == wave[d].fixture
           m == wave[d].manifest
<1>1. /\ DOMAIN wave = Drivers /\ DOMAIN wave[d] = WaveFields /\ SourceOf(d)
      /\ DOMAIN published = Runs /\ DOMAIN published[r] = {"json", "sha256"}
      /\ r \in Runs /\ wave[d].pc = "upload"
  BY DEF WavesInv, DriverInv, SourceInv, UploadFixture
<1>2. /\ published' = [published EXCEPT ![r].json = f] /\ Goto(d, "digest")
      /\ UNCHANGED <<simulation_run, source, seeded, driven, guessed>>
  BY DEF UploadFixture, runVars, observers
<1>3. f.manifestSha256 = m /\ <<r, m>> \in driven \cup guessed
  BY <1>1 DEF SourceOf
<1>4. <<r, m>> \notin guessed => source[r] \subseteq {m}
  <2>1. <<r, m>> \in driven => m \in Manifests
    BY DEF SourceInv
  <2> QED
    BY <1>1, <1>3, <2>1 DEF SourceInv, DrivenInv
<1>5. /\ wave'[d].pc = "digest" /\ wave'[d].run = r /\ wave'[d].fixture = f
      /\ wave'[d].manifest = m
  BY <1>1, <1>2 DEF Goto, WaveFields
<1> HIDE DEF f, m
<1>6. SourceOf(d)'
  BY <1>2, <1>3, <1>5 DEF SourceOf
<1>7. FixtureNamesItsManifest'
  <2> SUFFICES ASSUME NEW q \in Runs, published'[q].json # Missing,
                      <<q, published'[q].json.manifestSha256>> \notin guessed
               PROVE  source[q] \subseteq {published'[q].json.manifestSha256}
    BY <1>2 DEF FixtureNamesItsManifest
  <2>1. CASE q = r
    <3>1. published'[q].json = f
      BY <1>1, <1>2, <2>1
    <3> QED
      BY <1>3, <1>4, <2>1, <3>1
  <2>2. CASE q # r
    <3>1. published'[q] = published[q]
      BY <1>1, <1>2, <2>2
    <3> QED
      BY <3>1 DEF SourceInv, FixtureNamesItsManifest
  <2> QED
    BY <2>1, <2>2
<1>8. \A e \in Drivers : SourceOf(e)'
  BY <1>6
<1>9. DrivenInv'
  BY <1>2 DEF SourceInv, DrivenInv, Running
<1> QED
  BY <1>2, <1>7, <1>8, <1>9 DEF SourceInv, Running

\* With one driver, what a run was captured from stays what its driver seeded.
LEMMA SourceStep ==
    ASSUME RunsAssumption, RunsInv, WavesInv, SourceInv, [Next]_vars,
           \A d, e \in Drivers : d = e
    PROVE  SourceInv'
<1>1. CASE UNCHANGED waveVars /\ RunsNext
  BY <1>1, RunsKeepSource DEF waveVars, observers
<1>2. CASE UNCHANGED waveVars /\ UNCHANGED runVars
  BY <1>2 DEF waveVars, observers, runVars, SourceInv, SourceOf, DrivenInv,
              FixtureNamesItsManifest, Running
<1>3. CASE WaveNext
  <2> PICK d \in Drivers : \/ \E m \in Manifests : BeginWave(d, m)
                           \/ \E r \in Runs, m \in Manifests : Resume(d, r, m)
                           \/ WaveStep(d) \/ TimeOut(d) \/ Die(d)
    BY <1>3 DEF WaveNext
  <2>1. CASE Seed(d)
    BY <2>1, SeedKeepsSource
  <2>2. CASE StartSimulation(d) /\ Launch
    BY <2>2, StartKeepsSource
  <2>3. CASE UploadFixture(d)
    BY <2>3, UploadKeepsSource
  <2>4. CASE \E r \in Runs, m \in Manifests : Resume(d, r, m)
    BY <2>4, ResumeKeepsSource
  <2>5. CASE LookUp(d) /\ Running # {}
    BY <2>5, LookUpKeepsSource
  <2>6. CASE /\ \/ \E m \in Manifests : BeginWave(d, m)
                \/ ConnectFails(d) \/ CheckIdle(d)
                \/ Poll(d) \/ ExportFixture(d) \/ UploadDigest(d) \/ Exit(d)
             /\ UNCHANGED <<runVars, driven, guessed>>
             /\ UNCHANGED published \/ UploadDigest(d)
    <3>1. UNCHANGED <<simulation_run, source, seeded, driven, guessed>>
      BY <2>6 DEF runVars
    <3>2. SourceOf(d)'
      BY <2>6, <3>1, DriverActsKeepsSource
    <3>3. DrivenInv' /\ driven' \cup guessed' \subseteq Runs \X Manifests
      BY <3>1 DEF SourceInv, DrivenInv, Running
    <3>4. \A r \in Runs : published'[r].json = published[r].json
      BY <2>6 DEF UploadDigest, WavesInv
    <3> QED
      BY <3>1, <3>2, <3>3, <3>4, DriverKeepsSource
  <2>7. CASE StartSimulation(d) \/ LookUp(d)
    BY <2>2, <2>5, <2>6, <2>7 DEF StartSimulation, LookUp
  <2>8. CASE \/ \E m \in Manifests : BeginWave(d, m)
             \/ ConnectFails(d) \/ CheckIdle(d) \/ Poll(d) \/ ExportFixture(d)
             \/ UploadDigest(d) \/ TimeOut(d) \/ Die(d)
    BY <2>6, <2>8 DEF BeginWave, ConnectFails, CheckIdle, Poll, ExportFixture,
                      UploadDigest, TimeOut, Die, observers
  <2> QED
    BY <2>1, <2>3, <2>4, <2>7, <2>8 DEF WaveStep
<1>4. CASE QaNext /\ UNCHANGED waveVars
  <2>1. UNCHANGED runVars
    BY <1>4 DEF QaNext, QaStep, BeginQa, SelectInputs, PostIndividuals,
         TakeIndividual, PostDaily, UploadEvidence, TimeOutQa, DieQa,
         WriteReport, CloseStaleReport
  <2> QED
    BY <1>2, <1>4, <2>1
<1> QED
  BY <1>1, <1>2, <1>3, <1>4 DEF Next, vars

\* With one wave at a time the digest of the manifest in a fixture is that of
\* the one manifest its images were captured from, whatever runs the users
\* start and close and whatever waves time out, die and are resumed, unless
\* the run was resumed with another manifest than it was driven with.
THEOREM FixturesNameTheirManifest ==
    ASSUME \A d, e \in Drivers : d = e
    PROVE  Spec => []FixtureNamesItsManifest
<1>1. Init => SourceInv
  <2> SUFFICES ASSUME Init PROVE SourceInv
    OBVIOUS
  <2>1. Running = {}
    BY DEF Init, RunsInit, Running
  <2>2. \A d \in Drivers : SourceOf(d)
    BY DEF Init, WaveInit, SourceOf
  <2>3. FixtureNamesItsManifest /\ DrivenInv /\ driven \cup guessed = {}
    BY DEF Init, WaveInit, FixtureNamesItsManifest, DrivenInv
  <2> QED
    BY <2>1, <2>2, <2>3 DEF Init, RunsInit, SourceInv
<1>2. RunsInv /\ WavesInv /\ SourceInv /\ [Next]_vars => SourceInv'
  BY RunsAssumption, SourceStep
<1>3. SourceInv => FixtureNamesItsManifest
  BY DEF SourceInv
<1> QED
  BY <1>1, <1>2, <1>3, WavesInvHolds, PTL DEF Spec
=============================================================================
