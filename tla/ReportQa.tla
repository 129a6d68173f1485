------------------------------ MODULE ReportQa ------------------------------
(***************************************************************************)
(* scripts/run-report-qa.py: every cell of a run gets a new individual     *)
(* report, each is awaited and validated, then the daily report, and what  *)
(* came of it is published.  The backend, which writes the reports, is     *)
(* external; a report of a cell carries the label of one of its runs.  The *)
(* wording that validate_individual also looks at is left out: a report    *)
(* that fails on it ends the tool as DieQa does.                           *)
(***************************************************************************)
EXTENDS SimulationRuns

CONSTANTS MaxQa         \* bound: processes that are ever begun

VARIABLES qa,           \* where the process stands
          qas,          \* processes begun so far
          report,       \* cell, or "daily" -> the report the process asked for
          evidence      \* what is at the S3 key of the evidence

qaVars == <<qa, qas, report, evidence>>

Daily == "daily"
Reports == Cells \cup {Daily}

\* The daily report is not that of a cell.
ASSUME ReportsAssumption == Daily \notin Cells

IdleQa == [pc |-> "idle", run |-> Missing, dailyOnly |-> FALSE,
           selected |-> Missing, individuals |-> {}]

Pending == [status |-> "PENDING", label |-> Missing]
NoReports == [x \in Reports |-> [status |-> "absent", label |-> Missing]]

QaInit ==
    /\ qa = IdleQa
    /\ qas = 0
    /\ report = NoReports
    /\ evidence = Missing

\* Every process asks for new reports, so those of an earlier one are of no
\* concern to it.
ExitQa == qa' = IdleQa /\ report' = NoReports

BeginQa(r, dailyOnly) ==
    /\ qa.pc = "idle" /\ qas < MaxQa /\ simulation_run[r] # "absent"
    /\ qa' = [IdleQa EXCEPT !.pc = "select", !.run = r, !.dailyOnly = dailyOnly]
    /\ qas' = qas + 1
    /\ UNCHANGED <<runVars, report, evidence>>

\* Each cell with its label, if all cells have ended; the run may not have.
SelectInputs ==
    /\ qa.pc = "select"
    /\ IF Ended(qa.run)
       THEN /\ qa' = [qa EXCEPT !.selected = inspection[qa.run],
                        !.pc = IF qa.dailyOnly THEN "daily" ELSE "post"]
            /\ UNCHANGED report
       ELSE ExitQa
    /\ UNCHANGED <<runVars, qas, evidence>>

Post(S) == report' = [x \in Reports |-> IF x \in S THEN Pending ELSE report[x]]

\* All individual reports are requested (forceRegenerate) before the first is
\* looked at, so the requests are one step.
PostIndividuals ==
    /\ qa.pc = "post"
    /\ Post(Cells)
    /\ qa' = [qa EXCEPT !.pc = "individuals"]
    /\ UNCHANGED <<runVars, qas, evidence>>

\* Mutant: the report is taken for whatever it says.
TakeIndividual_Unchecked(c) ==
    /\ qa.pc = "individuals"
    /\ c \notin qa.individuals /\ report[c].status \in {"COMPLETED", "FAILED"}
    /\ qa' = [qa EXCEPT !.individuals = @ \cup {c}]
    /\ UNCHANGED <<runVars, qas, report, evidence>>

\* A report must say of its cell what the run says.  One that FAILED has no
\* content and is refused here, before the list of failed ones is made.
validate_individual(c) ==
    report[c] = [status |-> "COMPLETED", label |-> qa.selected[c]]

\* A report that has ended is validated.
TakeIndividual(c) ==
    /\ qa.pc = "individuals"
    /\ c \notin qa.individuals /\ report[c].status \in {"COMPLETED", "FAILED"}
    /\ IF validate_individual(c)
       THEN qa' = [qa EXCEPT !.individuals = @ \cup {c}] /\ UNCHANGED report
       ELSE ExitQa
    /\ UNCHANGED <<runVars, qas, evidence>>

PostDaily ==
    /\ \/ qa.pc = "daily"
       \/ qa.pc = "individuals" /\ qa.individuals = Cells
    /\ Post({Daily})
    /\ qa' = [qa EXCEPT !.pc = "await"]
    /\ UNCHANGED <<runVars, qas, evidence>>

\* The daily report is recorded however it ended.  Nobody reads the evidence
\* by its digest, so both uploads are one step.
UploadEvidence ==
    /\ qa.pc = "await" /\ report[Daily].status \in {"COMPLETED", "FAILED"}
    /\ evidence' = [runId |-> qa.run, daily |-> report[Daily].status,
                    individuals |-> [c \in qa.individuals |-> report[c]]]
    /\ ExitQa
    /\ UNCHANGED <<runVars, qas>>

Awaited == IF qa.pc = "await" THEN {Daily}
           ELSE IF qa.pc = "individuals" THEN Cells \ qa.individuals ELSE {}

TimeOutQa ==
    /\ Awaited # {}
    /\ ExitQa
    /\ UNCHANGED <<runVars, qas, evidence>>

DieQa ==
    /\ qa.pc # "idle"
    /\ ExitQa
    /\ UNCHANGED <<runVars, qas, evidence>>

\* External: the backend writes a report it was asked for, or fails to.
WriteReport(x) ==
    /\ report[x].status = "PENDING"
    /\ \E status \in {"COMPLETED", "FAILED"}, r \in Runs :
          /\ x \in Cells => inspection[r][x] \in Labels
          /\ report' = [report EXCEPT ![x] = [status |-> status,
                 label |-> IF x = Daily \/ status = "FAILED" THEN Missing
                           ELSE inspection[r][x]]]
    /\ UNCHANGED <<runVars, qa, qas, evidence>>

\* close-stale-report.py --execute.
CloseStaleReport(x) ==
    /\ report[x].status = "PENDING"
    /\ report' = [report EXCEPT ![x].status = "FAILED"]
    /\ UNCHANGED <<runVars, qa, qas, evidence>>

QaStep == \/ SelectInputs \/ PostDaily \/ UploadEvidence
          \/ PostIndividuals \/ \E c \in Cells : TakeIndividual(c)

QaNext == \/ \E r \in Runs, dailyOnly \in BOOLEAN : BeginQa(r, dailyOnly)
          \/ QaStep \/ TimeOutQa \/ DieQa
          \/ \E x \in Reports : WriteReport(x) \/ CloseStaleReport(x)
=============================================================================
