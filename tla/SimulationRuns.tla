--------------------------- MODULE SimulationRuns ---------------------------
(***************************************************************************)
(* The simulation runs that the QA tools start, watch, record and close.   *)
(* The backend that carries them out is external; of it the tools rely on  *)
(* this much: one run at a time, a run that is COMPLETED when all its      *)
(* inspections have ended, an inspection that does not change after that.  *)
(*                                                                         *)
(* The CT and the RGB inspection of a cell are one here.  It is "PENDING"  *)
(* until the images are captured, then "ANALYZING" (CAPTURING and CAPTURED *)
(* are not told apart from these), and ends as "PASS" or "REJECT", which   *)
(* stand for COMPLETED with that label, or as "FAILED".                    *)
(***************************************************************************)
EXTENDS Naturals, FiniteSets

CONSTANTS MaxRuns,    \* bound: runs that are ever started
          Cells,      \* the cells of a run; 20 in the code
          Manifests,  \* wave manifests
          Verdicts,   \* labels of the AI that occur, of "PASS" and "REJECT"
          Missing     \* nothing, no run, no manifest

Runs == 1..MaxRuns

\* Missing is no run and no manifest; an inspection that has not failed ends
\* with one of two labels (run-report-qa.py:122-124).
ASSUME RunsAssumption ==
    /\ Missing \notin Runs \cup Manifests
    /\ Verdicts \subseteq {"PASS", "REJECT"}

VARIABLES simulation_run,  \* run -> "absent", "RUNNING" or "COMPLETED"
          inspection,      \* run -> cell -> status
          seeded,          \* manifest the image table holds; Missing: an older one
          source           \* observer: run -> manifests it was captured from

runVars == <<simulation_run, inspection, seeded, source>>

ACTIVE_STATUSES == {"PENDING", "ANALYZING"}
Labels == Verdicts \cup {"FAILED"}

Running == {r \in Runs : simulation_run[r] = "RUNNING"}
Ended(r) == \A c \in Cells : inspection[r][c] \in Labels

RunsInit ==
    /\ simulation_run = [r \in Runs |-> "absent"]
    /\ inspection = [r \in Runs |-> [c \in Cells |-> "PENDING"]]
    /\ seeded = Missing
    /\ source = [r \in Runs |-> {}]

\* POST /sim: refused while a run is under way.
Launch ==
    /\ Running = {}
    /\ \E r \in Runs :
          /\ simulation_run[r] = "absent"
          /\ \A q \in 1..(r - 1) : simulation_run[q] # "absent"
          /\ simulation_run' = [simulation_run EXCEPT ![r] = "RUNNING"]
    /\ UNCHANGED <<inspection, seeded, source>>

Capture(r, c) ==
    /\ r \in Running /\ inspection[r][c] = "PENDING"
    /\ inspection' = [inspection EXCEPT ![r][c] = "ANALYZING"]
    /\ source' = [source EXCEPT ![r] = @ \cup {seeded}]
    /\ UNCHANGED <<simulation_run, seeded>>

Analyse(r, c) ==
    /\ r \in Running /\ inspection[r][c] = "ANALYZING"
    /\ \E label \in Labels :
          inspection' = [inspection EXCEPT ![r][c] = label]
    /\ UNCHANGED <<simulation_run, seeded, source>>

EndRun(r) ==
    /\ r \in Running /\ Ended(r)
    /\ simulation_run' = [simulation_run EXCEPT ![r] = "COMPLETED"]
    /\ UNCHANGED <<inspection, seeded, source>>

\* Mutant: inspections that wait for the AI are left to it.
CloseStale_Captured(r) ==
    /\ r \in Running
    /\ inspection' = [inspection EXCEPT ![r] =
           [c \in Cells |-> IF @[c] = "PENDING" THEN "FAILED" ELSE @[c]]]
    /\ simulation_run' = [simulation_run EXCEPT ![r] = "COMPLETED"]
    /\ UNCHANGED <<seeded, source>>

\* close-stale-simulation.py --execute: one transaction that has locked the
\* row of the run.  Without --execute it changes nothing.
CloseStale(r) ==
    /\ r \in Running
    /\ inspection' = [inspection EXCEPT ![r] =
           [c \in Cells |-> IF @[c] \in ACTIVE_STATUSES THEN "FAILED" ELSE @[c]]]
    /\ simulation_run' = [simulation_run EXCEPT ![r] = "COMPLETED"]
    /\ UNCHANGED <<seeded, source>>

RunsNext == \/ Launch     \* by a user of the frontend
            \/ \E r \in Runs : EndRun(r) \/ CloseStale(r)
            \/ \E r \in Runs, c \in Cells : Capture(r, c) \/ Analyse(r, c)
=============================================================================
