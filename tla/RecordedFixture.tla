--------------------------- MODULE RecordedFixture ---------------------------
(***************************************************************************)
(* A LIVE_RECORD fixture, from its export (scripts/export-replay-fixture)  *)
(* to the callbacks the replay service builds from it (replay/app/fixture, *)
(* ReplayCatalog).  A fixture is a record of                               *)
(*   inspections   id -> [cell, type, status, final, failure]              *)
(*   images        id -> [inspection, attempt, type, key]                  *)
(*   rows          defect results, [inspection, image, label, defect, raw] *)
(*   index         the replay index                                        *)
(* A stable image key is a number, in the order of the object keys; a      *)
(* fingerprint is the set of keys it is the digest of.                     *)
(***************************************************************************)
EXTENDS ToolValues, Naturals, FiniteSets, SequencesExt

Or(a, b) == IF a # Missing THEN a ELSE b

ImagesOf(f, id, attempt) ==
    {i \in DOMAIN f.images : /\ f.images[i].inspection = id
                             /\ f.images[i].attempt = attempt}

Keys(f, images) == {f.images[i].key : i \in images}

\* Where the rows of an image are.
RowsOf(f, image) == {n \in DOMAIN f.rows : f.rows[n].image = image}

\* One entry per inspection and attempt that has images.
replay_index(f) ==
    {LET own == ImagesOf(f, f.images[i].inspection, f.images[i].attempt)
     IN  [inspection |-> f.images[i].inspection, attempt |-> f.images[i].attempt,
          fingerprint |-> Keys(f, own), imageCount |-> Cardinality(own)] :
        i \in DOMAIN f.images}

\* The fixture that the five tables of a run give.
export_fixture(inspections, images, rows) ==
    LET tables == [inspections |-> inspections, images |-> images, rows |-> rows]
    IN  [index |-> replay_index(tables), inspections |-> inspections,
         images |-> images, rows |-> rows]

\* ReplayCatalog accepts the payload: every entry of the index finds the
\* images it was made from, without a duplicate, and a result for each.
Loads(f) ==
    /\ f.index # {}
    /\ \A e \in f.index :
          LET own == ImagesOf(f, e.inspection, e.attempt)
          IN  /\ e.inspection \in DOMAIN f.inspections
              /\ Cardinality(own) = e.imageCount
              /\ Cardinality(Keys(f, own)) = e.imageCount
              /\ Keys(f, own) = e.fingerprint
              /\ \A i \in own : RowsOf(f, i) # {}
    /\ \A d, e \in f.index : d.fingerprint = e.fingerprint => d = e

\* The raw response comes before the row, of which the first is asked.
image_result(f, image) ==
    LET first == f.rows[Min(RowsOf(f, image))]
        listed == {f.rows[n].defect : n \in RowsOf(f, image)} \ {Missing}
    IN  [label |-> IF first.raw = Missing THEN first.label
                   ELSE Or(first.raw.label, first.label),
         defects |-> IF first.raw = Missing THEN listed
                     ELSE Or(first.raw.defects, listed)]

\* The images recorded for a type, or all of them when there are none, in
\* the order of their keys.
Candidates(f, entry, type) ==
    LET own == ImagesOf(f, entry.inspection, entry.attempt)
        typed == {i \in own : f.images[i].type = type}
        pool == IF typed # {} THEN typed ELSE own
    IN  sorted(pool, [i \in pool |-> f.images[i].key])

IsRecorded(entry, image) == image.key \in entry.fingerprint

\* Mutant: the position is not moved on.
Position_Stuck(entry, request, n) == 0

\* How many images of the type were substituted before the n-th.
Position(entry, request, n) ==
    Cardinality({m \in 1..n - 1 : /\ request[m].type = request[n].type
                                  /\ ~ IsRecorded(entry, request[m])})

\* The recorded image whose results answer the n-th image of a request.
SourceImage(f, entry, request, n) ==
    IF IsRecorded(entry, request[n])
    THEN CHOOSE i \in ImagesOf(f, entry.inspection, entry.attempt) :
             f.images[i].key = request[n].key
    ELSE LET candidates == Candidates(f, entry, request[n].type)
         IN  candidates[1 + (Position(entry, request, n) % Len(candidates))]

\* The inspection of the recording passes the validation of a callback.
CanBuild(f, entry) ==
    LET inspection == f.inspections[entry.inspection]
    IN  inspection.status = "FAILED" \/ inspection.final \in {"PASS", "REJECT"}

\* The callback of a recording; Missing when its validation fails.
build_callback(f, entry, request) ==
    LET inspection == f.inspections[entry.inspection]
        failed == inspection.status = "FAILED"
    IN  IF ~ CanBuild(f, entry) THEN Missing
        ELSE [status |-> IF failed THEN "FAILED" ELSE "COMPLETED",
              final |-> IF failed THEN Missing ELSE inspection.final,
              failure |-> IF ~ failed THEN Missing
                          ELSE IF inspection.failure = "CAPTURE" THEN "CAPTURE" ELSE "AI",
              results |-> [n \in DOMAIN request |->
                              image_result(f, SourceImage(f, entry, request, n))]]

\* CellAnalysisCallback.validate_status_contract.
MeetsContract(callback) ==
    IF callback.status = "FAILED"
    THEN callback.final = Missing /\ callback.failure # Missing
    ELSE callback.final \in {"PASS", "REJECT"}

\* The request that was recorded, its images in the order of their ids.
RecordedRequest(f, entry) ==
    LET own == ImagesOf(f, entry.inspection, entry.attempt)
        images == ascending(own)
    IN  [n \in DOMAIN images |-> [type |-> f.images[images[n]].type,
                                  key |-> f.images[images[n]].key]]
=============================================================================
