---------------------------- MODULE QaOperations ----------------------------
(***************************************************************************)
(* Waves, report checks and the tools that close what is stale, on the     *)
(* runs of one backend.                                                    *)
(***************************************************************************)
EXTENDS QaWave, ReportQa

vars == <<runVars, waveVars, qaVars>>

Init == RunsInit /\ WaveInit /\ QaInit

\* Bound: a behaviour has waves or report checks, each beside users who start
\* runs.  The two meet in the runs alone, and a user's run is like a driver's.
WavesOrReports == waves = 0 \/ qas = 0

Next == \/ RunsNext /\ UNCHANGED <<waveVars, qaVars>>
        \/ WaveNext /\ UNCHANGED qaVars /\ WavesOrReports'
        \/ QaNext /\ UNCHANGED waveVars /\ WavesOrReports'

\* The tools go on; the backend need not.  The end of a wait is fair in the
\* strong sense: a deadline that has passed is seen the next time it is
\* looked at, however the polls before that went.
Fairness ==
    /\ \A d \in Drivers : /\ WF_vars(WaveStep(d) /\ UNCHANGED qaVars)
                          /\ SF_vars(TimeOut(d) /\ UNCHANGED qaVars)
    /\ WF_vars(QaStep /\ UNCHANGED waveVars)
    /\ WF_vars(TimeOutQa /\ UNCHANGED waveVars)

Spec == Init /\ [][Next]_vars /\ Fairness

-----------------------------------------------------------------------------

\* The runs, the processes and what they publish have their types.
TypeOK ==
    /\ simulation_run \in [Runs -> {"absent", "RUNNING", "COMPLETED"}]
    /\ inspection \in [Runs -> [Cells -> ACTIVE_STATUSES \cup Labels]]
    /\ seeded \in Manifests \cup {Missing}
    /\ source \in [Runs -> SUBSET (Manifests \cup {Missing})]
    /\ \A d \in Drivers :
          /\ wave[d].manifest \in Manifests \cup {Missing}
          /\ wave[d].run \in Runs \cup {Missing}
          /\ wave[d].attempt \in 1..MaxAttempts
    /\ driven \cup guessed \subseteq Runs \X Manifests
    /\ qa.individuals \subseteq Cells

Fixtures == {published[r].json : r \in Runs} \ {Missing}

\* A published fixture is evidence: of a run that has ended, with no
\* inspection under way, and its terminalInspectionCounts, which were read
\* earlier, count the inspections it lists -- even if the run was closed as
\* stale in between (run-qa-wave.py:264-267, close-stale-simulation.py:72-108).
FixtureIsSettled ==
    \A f \in Fixtures :
        /\ f.runs = "COMPLETED"
        /\ \A c \in Cells : f.inspections[c] \in Labels
        /\ f.terminalInspectionCounts = Counts(f.inspections)

\* The manifestSha256 of a fixture is the digest of the one manifest its
\* images were captured from, with one wave at a time: no user's run slips in,
\* and a run is resumed under the manifest of the process that started it, be
\* it that the start was never answered.  The exceptions are those the code
\* leaves to whoever types --resume-run-id: another manifest than the run was
\* driven with, or a run that no process has driven (run-qa-wave.py:219-266).
FixtureNamesItsManifest ==
    \A r \in Runs : LET f == published[r].json IN
        f # Missing /\ <<r, f.manifestSha256>> \notin guessed =>
            source[r] \subseteq {f.manifestSha256}

\* Evidence of individual reports covers every cell of its run, and each
\* report is completed and says of the cell what the run says, although the
\* reports are made, closed and replaced by others meanwhile
\* (run-report-qa.py:112-149, 207-250).
EvidenceIsOfTheRun ==
    evidence # Missing /\ evidence.individuals # << >> =>
        /\ Ended(evidence.runId)
        /\ evidence.individuals = [c \in Cells |->
               [status |-> "COMPLETED", label |-> inspection[evidence.runId][c]]]

\* No tool waits for ever: not for a run or a report that never ends, not
\* for a database that cannot be reached (run-qa-wave.py:64-78, 177-210;
\* run-report-qa.py:152-191).
EveryToolEnds ==
    /\ \A d \in Drivers : wave[d].pc # "idle" ~> wave[d].pc = "idle"
    /\ qa.pc # "idle" ~> qa.pc = "idle"
=============================================================================
