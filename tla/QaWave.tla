------------------------------- MODULE QaWave -------------------------------
(***************************************************************************)
(* A QA wave: scripts/run-qa-wave.py loads a manifest, starts a run, waits *)
(* until it has ended, and publishes what it recorded together with a      *)
(* digest, using export_fixture of scripts/export-replay-fixture.py.       *)
(***************************************************************************)
EXTENDS SimulationRuns

CONSTANTS Drivers,        \* run-qa-wave.py processes, one at a time each
          MaxAttempts,    \* tries of connection(); 5 in the code
          MaxWaves        \* bound: processes that are ever begun

VARIABLES wave,       \* driver -> where its process stands
          published,  \* run -> the fixture and the digest at its S3 key
          waves,      \* processes begun so far
          driven,     \* observer: run and manifest, for each run that a process
                      \* has started or taken for the one it started
          guessed     \* observer: run and manifest, when a process was resumed
                      \* with a manifest that the run was not driven with

observers == <<driven, guessed>>
waveVars == <<wave, published, waves, observers>>

WaveInit ==
    /\ wave = [d \in Drivers |-> [pc |-> "idle", manifest |-> Missing,
                  run |-> Missing, attempt |-> 1, fixture |-> Missing]]
    /\ published = [r \in Runs |-> [json |-> Missing, sha256 |-> Missing]]
    /\ waves = 0
    /\ driven = {} /\ guessed = {}

Goto(d, pc) == wave' = [wave EXCEPT ![d].pc = pc, ![d].attempt = 1]

Exit(d) == wave' = [wave EXCEPT ![d].pc = "idle", ![d].manifest = Missing,
                        ![d].run = Missing, ![d].attempt = 1, ![d].fixture = Missing]

BeginProcess == waves < MaxWaves /\ waves' = waves + 1

BeginWave(d, m) ==
    /\ wave[d].pc = "idle" /\ BeginProcess
    /\ wave' = [wave EXCEPT ![d].pc = "check", ![d].manifest = m]
    /\ UNCHANGED <<runVars, published, observers>>

\* --resume-run-id: any id, of a run that exists or does not, with the
\* manifest file that --manifest names now.  It is not seeded.
Resume(d, r, m) ==
    /\ wave[d].pc = "idle" /\ BeginProcess
    /\ wave' = [wave EXCEPT ![d].pc = "wait", ![d].manifest = m, ![d].run = r]
    /\ guessed' = guessed \cup ({<<r, m>>} \ driven)
    /\ UNCHANGED <<runVars, published, driven>>

\* Mutant: the number of attempts is not limited.
ConnectFails_Forever(d) ==
    /\ wave[d].pc \in {"check", "lookup", "wait"}
    /\ wave' = [wave EXCEPT ![d].attempt = (@ % MaxAttempts) + 1]
    /\ UNCHANGED <<runVars, published, waves, observers>>

\* connection() tries again, and raises after the last attempt.
ConnectFails(d) ==
    /\ wave[d].pc \in {"check", "lookup", "wait"}
    /\ IF wave[d].attempt < MaxAttempts
       THEN wave' = [wave EXCEPT ![d].attempt = @ + 1]
       ELSE Exit(d)
    /\ UNCHANGED <<runVars, published, waves, observers>>

\* No simulation may be RUNNING; the cookie is accepted, or Die.
CheckIdle(d) ==
    /\ wave[d].pc = "check"
    /\ IF Running = {} THEN Goto(d, "seed") ELSE Exit(d)
    /\ UNCHANGED <<runVars, published, waves, observers>>

\* Mutant: seed.apply(..., execute=False), which rolls back.
Seed_DryRun(d) ==
    /\ wave[d].pc = "seed"
    /\ Goto(d, "start")
    /\ UNCHANGED <<runVars, published, waves, observers>>

\* seed.apply(..., execute=True); SimulationSeed has its statements.
Seed(d) ==
    /\ wave[d].pc = "seed"
    /\ seeded' = wave[d].manifest
    /\ Goto(d, "start")
    /\ UNCHANGED <<simulation_run, inspection, source, published, waves, observers>>

\* The run is started, or refused; the answer may also be lost.
StartSimulation(d) ==
    /\ wave[d].pc = "start"
    /\ \/ /\ Launch /\ (Goto(d, "lookup") \/ Exit(d))
          /\ driven' = driven \cup {<<r, wave[d].manifest>> : r \in Running'}
       \/ Exit(d) /\ UNCHANGED <<runVars, driven>>
    /\ UNCHANGED <<published, waves, guessed>>

\* The newest RUNNING run is taken for the one just started.
LookUp(d) ==
    /\ wave[d].pc = "lookup"
    /\ \/ \E r \in Running :
             /\ \A q \in Running : q <= r
             /\ wave' = [wave EXCEPT ![d].pc = "wait", ![d].run = r,
                                     ![d].attempt = 1]
             /\ driven' = driven \cup {<<r, wave[d].manifest>>}
       \/ Running = {} /\ Exit(d) /\ UNCHANGED driven
    /\ UNCHANGED <<runVars, published, waves, guessed>>

\* How many inspections have which status.
Counts(i) == [s \in ACTIVE_STATUSES \cup Labels |->
                 Cardinality({c \in Cells : i[c] = s})]

\* A run that does not exist has no status to read: the tool ends.
Poll(d) ==
    /\ wave[d].pc = "wait"
    /\ \/ /\ simulation_run[wave[d].run] = "COMPLETED"
          /\ wave' = [wave EXCEPT ![d].pc = "export", ![d].attempt = 1,
                          ![d].fixture = Counts(inspection[wave[d].run])]
       \/ simulation_run[wave[d].run] = "RUNNING" /\ Goto(d, "wait")
       \/ simulation_run[wave[d].run] = "absent" /\ Exit(d)
    /\ UNCHANGED <<runVars, published, waves, observers>>

\* The deadline is looked at between two polls.
TimeOut(d) ==
    /\ wave[d].pc = "wait" /\ wave[d].attempt = 1
    /\ Exit(d)
    /\ UNCHANGED <<runVars, published, waves, observers>>

\* The rows of the run, read some time after the last poll, with the counts
\* of that poll.  exportedAt makes each export a different file.
ExportFixture(d) ==
    /\ wave[d].pc = "export"
    /\ wave' = [wave EXCEPT ![d].pc = "upload", ![d].fixture =
           [exportedAt |-> waves, manifestSha256 |-> wave[d].manifest,
            runs |-> simulation_run[wave[d].run],
            inspections |-> inspection[wave[d].run],
            terminalInspectionCounts |-> @]]
    /\ UNCHANGED <<runVars, published, waves, observers>>

UploadFixture(d) ==
    /\ wave[d].pc = "upload"
    /\ published' = [published EXCEPT ![wave[d].run].json = wave[d].fixture]
    /\ Goto(d, "digest")
    /\ UNCHANGED <<runVars, waves, observers>>

UploadDigest(d) ==
    /\ wave[d].pc = "digest"
    /\ published' = [published EXCEPT ![wave[d].run].sha256 = wave[d].fixture]
    /\ Exit(d)
    /\ UNCHANGED <<runVars, waves, observers>>

\* A request, a query outside connection() or an upload fails, or a kill.
Die(d) ==
    /\ wave[d].pc # "idle"
    /\ Exit(d)
    /\ UNCHANGED <<runVars, published, waves, observers>>

WaveStep(d) ==
    \/ ConnectFails(d) \/ CheckIdle(d) \/ Seed(d) \/ StartSimulation(d)
    \/ LookUp(d) \/ Poll(d) \/ ExportFixture(d) \/ UploadFixture(d)
    \/ UploadDigest(d)

WaveNext == \E d \in Drivers :
    \/ \E m \in Manifests : BeginWave(d, m) \/ \E r \in Runs : Resume(d, r, m)
    \/ WaveStep(d) \/ TimeOut(d) \/ Die(d)
=============================================================================
