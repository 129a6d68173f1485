-------------------------- MODULE FixtureRebalance --------------------------
(***************************************************************************)
(* A fixture with another mix of outcomes, derived from a recorded one:    *)
(* scripts/rebalance-replay-fixture.py.  Confidences are left out; a raw   *)
(* response keeps its presence, its label and its defects.                 *)
(***************************************************************************)
EXTENDS RecordedFixture

InspectionsOf(f, cell) ==
    {id \in DOMAIN f.inspections : f.inspections[id].cell = cell}

\* Where the rows of an inspection are.
RowsOfInspection(f, id) == {n \in DOMAIN f.rows : f.rows[n].inspection = id}

\* Mutant: the recorded raw response is kept.
patch_raw_response_Kept(raw, label) == raw

\* A response that is not an object becomes one.
patch_raw_response(raw, label) == [label |-> label, defects |-> {}]

clean_result(row, label) ==
    [row EXCEPT !.label = label, !.defect = Missing,
                !.raw = patch_raw_response(@, label)]

ImagesAt(f, places) == {f.rows[n].image : n \in places}

\* One clean row per image, made from its first, by image id.
replace_inspection_results(f, places, label) ==
    LET images == ascending(ImagesAt(f, places))
        First(i) == Min({n \in places : f.rows[n].image = i})
    IN  [n \in DOMAIN images |-> clean_result(f.rows[First(images[n])], label)]

inspection_is_clean_pass(f, id) ==
    /\ f.inspections[id].status = "COMPLETED" /\ f.inspections[id].final = "PASS"
    /\ \A n \in RowsOfInspection(f, id) :
          f.rows[n].label = "PASS" /\ f.rows[n].defect = Missing

IsRejected(inspection) ==
    inspection.status = "COMPLETED" /\ inspection.final = "REJECT"

\* FAIL comes before REJECT, REJECT before PASS.
cell_outcome(f, cell) ==
    LET labels == {IF f.inspections[id].status = "FAILED" THEN "FAIL"
                   ELSE f.inspections[id].final : id \in InspectionsOf(f, cell)}
    IN  CASE "FAIL" \in labels -> "FAIL"
          [] "FAIL" \notin labels /\ "REJECT" \in labels -> "REJECT"
          [] OTHER -> "PASS"

Cells(f) == {f.inspections[id].cell : id \in DOMAIN f.inspections}

HowManyBecome(outcome, cells) ==
    [label \in {"PASS", "REJECT", "FAIL"} |->
        Cardinality({c \in cells : outcome[c] = label})]

\* What becomes of one inspection: kept, failed or passed.
\* target: cell -> the outcome it is listed under.
Fate(f, target, failType, id) ==
    LET inspection == f.inspections[id]
    IN  CASE target[inspection.cell] = "REJECT" /\ IsRejected(inspection) -> "keep"
          [] target[inspection.cell] = "FAIL" /\ inspection.type = failType -> "fail"
          [] OTHER -> IF inspection_is_clean_pass(f, id) THEN "keep" ELSE "pass"

CanRebalance(f, target, failType) ==
    /\ DOMAIN target = Cells(f)
    /\ \A id \in DOMAIN f.inspections :
          LET places == RowsOfInspection(f, id)
          IN  /\ places # {}
              /\ \/ Fate(f, target, failType, id) = "keep"
                 \/ Missing \notin ImagesAt(f, places)
    /\ \A c \in Cells(f) :
          /\ target[c] = "REJECT" =>
                \E id \in InspectionsOf(f, c) : IsRejected(f.inspections[id])
          /\ target[c] = "FAIL" =>
                Cardinality({id \in InspectionsOf(f, c) :
                                f.inspections[id].type = failType}) = 1

\* The inspection and its rows afterwards.
Rebalanced(f, target, failType, id) ==
    LET fate == Fate(f, target, failType, id)
    IN  CASE fate = "fail" ->
               [f.inspections[id] EXCEPT !.status = "FAILED", !.final = "FAIL",
                                         !.failure = "AI"]
          [] fate = "pass" ->
               [f.inspections[id] EXCEPT !.status = "COMPLETED", !.final = "PASS",
                                         !.failure = Missing]
          [] OTHER -> f.inspections[id]

Replacement(f, target, failType, id) ==
    LET fate == Fate(f, target, failType, id)
        places == RowsOfInspection(f, id)
    IN  CASE fate = "fail" -> replace_inspection_results(f, places, "FAIL")
          [] fate = "pass" -> replace_inspection_results(f, places, "PASS")
          [] OTHER -> Picked(f.rows, places)

\* Inspections come in the order of their first rows.
FirstRows(f) ==
    {n \in DOMAIN f.rows :
        \A m \in DOMAIN f.rows : m < n => f.rows[m].inspection # f.rows[n].inspection}

rebalance_fixture(f, target, failType) ==
    LET inspections == [id \in DOMAIN f.inspections |-> Rebalanced(f, target, failType, id)]
        Extended(rows, n) ==
            rows \o Replacement(f, target, failType, f.rows[n].inspection)
        result == [f EXCEPT !.inspections = inspections,
                            !.rows = FoldLeft(Extended, << >>, ascending(FirstRows(f)))]
    IN  IF ~ CanRebalance(f, target, failType) THEN Refused
        ELSE IF HowManyBecome([c \in Cells(f) |-> cell_outcome(result, c)], Cells(f))
                   # HowManyBecome(target, Cells(f)) THEN Refused
        ELSE result
=============================================================================
