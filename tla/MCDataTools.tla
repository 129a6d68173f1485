----------------------------- MODULE MCDataTools -----------------------------
(* Small inputs for every data tool. *)
EXTENDS DataTools, TLC

CONSTANTS none, refused

Outcomes == {"PASS", "REJECT", "FAIL"}
Repeat(kind, count) == [n \in 1..count |-> kind]

-----------------------------------------------------------------------------
(* Cell 1 has a CT inspection with a recapture and an RGB one, cell 2 an   *)
(* RGB one; how they ended and what their images show varies.              *)
Ends == {"PASS", "REJECT", "FAILED"}

Ended(cell, type, end) ==
    [cell |-> cell, type |-> type,
     status |-> IF end = "FAILED" THEN "FAILED" ELSE "COMPLETED",
     final |-> IF end = "FAILED" THEN none ELSE end,
     failure |-> IF end = "FAILED" THEN "CAPTURE" ELSE none]

Image(inspection, attempt, type, key) ==
    [inspection |-> inspection, attempt |-> attempt, type |-> type, key |-> key]

\* Inspection 3 may have the image of inspection 2.
Images(key) == << Image(1, 1, "CT", 1), Image(1, 2, "CT", 2),
                  Image(2, 1, "RGB", 3), Image(3, 1, "RGB", key) >>

Shows == {<<"PASS", {}>>, <<"REJECT", {"d1", "d2"}>>, <<"FAIL", {}>>}

\* One row per defect, or one without; the raw response is there or not.
RowsFor(inspection, image, shown, raw) ==
    LET defects == IF shown[2] = {} THEN <<none>> ELSE SetToSeq(shown[2])
    IN  [n \in DOMAIN defects |->
            [inspection |-> inspection, image |-> image,
             label |-> shown[1], defect |-> defects[n],
             raw |-> IF raw THEN [label |-> shown[1], defects |-> shown[2]] ELSE none]]

\* A capture that failed: a row without an image.
RowWithoutImage == [inspection |-> 3, image |-> none, label |-> "FAIL",
                    defect |-> none, raw |-> none]

RebalanceTasks ==
    LET Task(target, type, e1, e2, e3, key, rows) ==
            [tool |-> "rebalance", target |-> target, failType |-> type,
             fixture |-> export_fixture(
                 << Ended(1, "CT", e1), Ended(1, "RGB", e2), Ended(2, "RGB", e3) >>,
                 Images(key), rows)]
        Rows(s, t, raw) ==
            RowsFor(1, 2, s, raw) \o RowsFor(3, 4, t, TRUE)
              \o RowsFor(1, 1, <<"FAIL", {}>>, raw) \o RowsFor(2, 3, s, ~ raw)
    IN  {Task(target, type, e1, e2, e3, key, Rows(s, t, raw)) :
            target \in [1..2 -> Outcomes], type \in {"CT", "RGB"},
            e1 \in Ends, e2 \in {"PASS", "REJECT"}, e3 \in Ends,
            key \in {3, 4}, s \in Shows, t \in Shows, raw \in BOOLEAN}
        \cup
        {Task(target, "RGB", "REJECT", "PASS", e3, 4,
              Rows(<<"REJECT", {"d1", "d2"}>>, t, TRUE) \o << RowWithoutImage >>) :
            target \in [1..2 -> Outcomes], e3 \in Ends, t \in Shows}

-----------------------------------------------------------------------------
(* One recording of two CT images and, maybe, an RGB one, each with a      *)
(* result of its own, asked for up to four images; key 9 is not recorded.  *)
Recording(rgb) ==
    export_fixture(<< Ended(1, "CT", "REJECT") >>,
                   << Image(1, 1, "CT", 1), Image(1, 1, "CT", 2) >>
                     \o IF rgb THEN << Image(1, 1, "RGB", 3) >> ELSE << >>,
                   FlattenSeq([i \in 1..3 |-> RowsFor(1, i, <<"REJECT", {i}>>, i = 2)]))

Requests ==
    {r \in UNION {[1..n -> {[type |-> "CT", key |-> 2], [type |-> "CT", key |-> 9],
                            [type |-> "RGB", key |-> 9]}] : n \in 1..5} :
        \A m, n \in DOMAIN r : r[m].key = 2 /\ r[n].key = 2 => m = n}

AnswerTasks == {[tool |-> "answer", fixture |-> Recording(rgb), request |-> r] :
                   rgb \in BOOLEAN, r \in Requests}

-----------------------------------------------------------------------------
(* Two waves: in the first, both inspections of cell 1 and one of cell 2;  *)
(* in the second, cell 1 twice, as in two runs.                            *)
Raw(label, quality) == [imageResults |-> none, label |-> label, quality |-> quality]
Row(attempt, image, label, raw) ==
    [attempt |-> attempt, image |-> image, label |-> label, raw |-> raw]
Callback(results) == [imageResults |-> results, label |-> none, quality |-> none]

Kinds == {
    \* one image with two defects, one without
    <<"COMPLETED", "REJECT", none, << Row(1, 1, "REJECT", Raw("REJECT", "PASS")),
        Row(1, 1, "REJECT", Raw("REJECT", "PASS")), Row(1, 2, "PASS", Raw(none, none)) >>>>,
    \* recaptured: the first attempt is recorded as a callback
    <<"COMPLETED", "PASS", none, << Row(2, 3, "PASS", Raw("PASS", "PASS")),
        Row(1, none, "FAIL", Callback(<< [label |-> "FAIL", quality |-> "FAIL"],
                                         [label |-> "PASS", quality |-> none] >>)) >>>>,
    \* nothing usable was recorded
    <<"COMPLETED", "PASS", none, << Row(1, 1, "PASS", none) >>>>,
    <<"FAILED", none, "CAPTURE", << Row(1, none, "FAIL", Callback(<< >>)),
                                    Row(1, 1, "FAIL", Raw("FAIL", none)) >>>> }

Inspection(cell, type, kind, defective) ==
    [cell |-> cell, type |-> type, status |-> kind[1], final |-> kind[2],
     failure |-> kind[3], rows |-> kind[4], defective |-> defective,
     truth |-> IF defective THEN << >> ELSE << "PASS", "PASS" >>]

AnalyseTasks ==
    {[tool |-> "analyse",
      waves |-> << << Inspection(1, "CT", k1, d), Inspection(1, "RGB", k2, ~ d),
                      Inspection(2, "CT", k3, d) >>,
                   << Inspection(1, "CT", k4, TRUE), Inspection(1, "CT", k5, FALSE) >> >>] :
        k1 \in Kinds, k2 \in Kinds, k3 \in Kinds, k4 \in Kinds, k5 \in Kinds,
        d \in BOOLEAN}

-----------------------------------------------------------------------------
(* Recorded and current ids overlap; there may be no sources, or not as    *)
(* many.  The digits of a serial may be a recorded id.                     *)
Label(style) == [kind |-> "label", value |-> style]
Cell(run) == [name |-> "SIM", run |-> run]
Words == [kind |-> "words", value |-> ""]

Contents ==
    {<< Label(style), Number(1007), Serial(Cell(-1)), Number(1007), Number(1008),
        Words, Number(40), Serial(Cell(1008)) >> : style \in {"bold", "plain"}}
    \cup {<< Label("plain"), Number(1007), Serial(Cell(-1)), Label("bold"), Number(1007) >>}

Recorded == {<<1007, << >>>>, <<1007, <<1007, 1008>>>>, <<NoId, <<1007, 1008>>>>}

ReportTasks ==
    {[tool |-> "report",
      entry |-> [cell |-> Cell(-1), inspectionId |-> e[1], sources |-> e[2], content |-> c],
      request |-> [cell |-> Cell(run), inspectionId |-> IF named THEN s[1] ELSE NoId,
                   sources |-> s]] :
        e \in Recorded, c \in Contents, named \in BOOLEAN, run \in {-2, 1007, 1234},
        s \in {<<m, n>> : m \in {1006, 1009, 40}, n \in {1007, 1008}}
             \cup {<<1007, 1008>>, <<1008, 1007>>, <<1008, 1009>>, <<1009>>}}

-----------------------------------------------------------------------------
(* v1.5: three images per group of two cells.                              *)
Stems(set, type, from, count) ==
    {[set |-> set, type |-> type, source |-> n] : n \in from + 1..from + count}

Meta(ctDefects, ctClean, rgbDefects, damaged, rgbClean, retaken) ==
    [s \in Stems("INITIAL", "CT", 0, ctDefects) |-> {"Porosity"}]
 @@ [s \in Stems("INITIAL", "CT", 10, ctClean) |-> {}]
 @@ [s \in Stems("INITIAL", "RGB", 0, rgbDefects) |->
        IF s.source \in damaged THEN {"Damaged"} ELSE {"Pollution"}]
 @@ [s \in Stems("INITIAL", "RGB", 10, rgbClean) |-> {}]
 @@ [s \in Stems("RECAPTURE", "CT", 0, retaken) |-> {}]
 @@ [s \in Stems("RECAPTURE", "RGB", 0, 3) |-> {}]

BuildTasks ==
    {[tool |-> "build", meta |-> Meta(cd, cc, rd, damaged, rc, re)] :
        cd \in 1..2, cc \in 3..4, rd \in 2..3, damaged \in SUBSET (1..3),
        rc \in 2..3, re \in 2..4}

MCRecaptureGroups == {<<1, "CT">>, <<2, "RGB">>}
MCDefectPlan == [CT |-> <<0, 1>>, RGB |-> <<1, 2>>]

-----------------------------------------------------------------------------
(* v1.7: four cases of three images per type; pools of one image and more, *)
(* in two orders.                                                          *)
MCAxisPlan == << [axis |-> "x", total |-> 1, fails |-> 0],
                 [axis |-> "y", total |-> 2, fails |-> 1] >>

Source(modality, status, quality, axis, porosity, linked) ==
    [modality |-> modality, status |-> status, quality |-> quality, axis |-> axis,
     porosity |-> porosity, linked |-> linked]

Dataset(rl, ru, xl, xu, yl, yu, porous) ==
       Repeat(Source("RGB", "normal", "PASS", "", FALSE, TRUE), rl)
    \o Repeat(Source("RGB", "normal", "PASS", "", FALSE, FALSE), ru)
    \o Repeat(Source("RGB", "normal", "FAIL", "", FALSE, TRUE), 1)
    \o Repeat(Source("RGB", "defective", "PASS", "", FALSE, FALSE), 3)
    \o Repeat(Source("CT", "normal", "PASS", "x", FALSE, TRUE), xl)
    \o Repeat(Source("CT", "normal", "PASS", "x", FALSE, FALSE), xu)
    \o Repeat(Source("CT", "normal", "PASS", "y", FALSE, TRUE), yl)
    \o Repeat(Source("CT", "normal", "PASS", "y", FALSE, FALSE), yu)
    \o Repeat(Source("CT", "normal", "FAIL", "y", FALSE, TRUE), 1)
    \o Repeat(Source("CT", "defective", "PASS", "x", FALSE, FALSE), 1)
    \o Repeat(Source("CT", "defective", "PASS", "y", TRUE, FALSE), porous)
    \o Repeat(Source("CT", "defective", "PASS", "y", FALSE, FALSE), 1)

WavesTasks ==
    {[tool |-> "waves", dataset |-> IF reversed THEN Reverse(d) ELSE d] :
        reversed \in BOOLEAN,
        d \in {Dataset(rl, ru, xl, xu, yl, yu, porous) :
                  rl \in 2..3, ru \in 0..3, xl \in 1..2, xu \in 0..1,
                  yl \in 1..2, yu \in 0..2, porous \in 1..2}}

MCDefectCases == [CT |-> {1}, RGB |-> {2}]
MCCaptureFailCases == [CT |-> {3}, RGB |-> {4}]

-----------------------------------------------------------------------------
(* v1.8: wave 1 of two cells, and five candidates of a type in wave 2; the *)
(* status of the cells, what was seen of the candidates, and the images of *)
(* cell 1 that were captured again in wave 1 vary.                         *)
MCAxisCounts == [x |-> 1, y |-> 2]

SourceRow(wave, cell, type, source, status, quality, axis) ==
    [wave |-> wave, cell |-> cell, type |-> type, set |-> "INITIAL",
     object |-> [set |-> "INITIAL", type |-> type, source |-> source],
     quality |-> quality, status |-> status, axis |-> axis]

AxisOf(type, n) == IF type = "RGB" THEN "" ELSE IF n = 1 THEN "x" ELSE "y"

\* One image of three fails, and all are taken again.
TypeRows(cell, type, status, retaken) ==
    [n \in 1..3 |-> SourceRow(1, cell, type, 10 * cell + n, status,
                        IF retaken /\ n = 2 THEN "FAIL" ELSE "PASS", AxisOf(type, n))]
 \o IF ~ retaken THEN << >>
    ELSE [n \in 1..3 |-> [SourceRow(1, cell, type, 10 * cell + n, status, "PASS",
                                    AxisOf(type, n))
                             EXCEPT !.set = "RECAPTURE", !.object.set = "RECAPTURE"]]

CellRows(cell, rgb, ct, retaken) ==
    TypeRows(cell, "RGB", rgb, "RGB" \in retaken) \o TypeRows(cell, "CT", ct, "CT" \in retaken)

\* Status, set quality and what was observed: <<quality, product>> each time.
Good == <<"normal", "PASS", << <<"PASS", "PASS">> >> >>
Bad == <<"defective", "PASS", << <<"PASS", "REJECT">>, <<"PASS", "REJECT">> >> >>
Doubtful == <<"normal", "PASS", << <<"PASS", "PASS">>, <<"PASS", "REJECT">> >> >>
Blurred == <<"normal", "FAIL", << <<"FAIL", "PASS">> >> >>

CandidateRow(type, n, kind) ==
    SourceRow(2, 1, type, n, kind[1], kind[2],
              IF type = "RGB" THEN "" ELSE IF n <= 2 THEN "x" ELSE "y")

ResultsOf(type, n, kind) ==
    [k \in DOMAIN kind[3] |-> [inspection |-> k, image |-> <<type, n>>,
                               object |-> [set |-> "INITIAL", type |-> type, source |-> n],
                               quality |-> kind[3][k][1], product |-> kind[3][k][2]]]

Demo(rgbStatus, ctStatus, rgb, ct, retaken) ==
    [tool |-> "demo",
     rows |-> CellRows(1, rgbStatus[1], ctStatus[1], retaken)
              \o CellRows(2, rgbStatus[2], ctStatus[2], {})
              \o [n \in 1..5 |-> CandidateRow("RGB", n, rgb[n])]
              \o [n \in 1..5 |-> CandidateRow("CT", n, ct[n])],
     results |-> FlattenSeq([n \in 1..5 |-> ResultsOf("RGB", n, rgb[n])])
                 \o FlattenSeq([n \in 1..5 |-> ResultsOf("CT", n, ct[n])])]

Statuses == [1..2 -> {"normal", "defective"}]

DemoTasks ==
    {Demo(s, <<"normal", "defective">>, k, Repeat(Good, 5), {}) :
        s \in Statuses, k \in [1..5 -> {Good, Bad, Doubtful}]}
    \cup {Demo(<<"normal", "normal">>, s, Repeat(Good, 5), k, retaken) :
        s \in Statuses, k \in [1..5 -> {Good, Doubtful, Blurred}],
        retaken \in SUBSET {"RGB", "CT"}}

MCTasks == RebalanceTasks \cup AnswerTasks \cup AnalyseTasks \cup ReportTasks
           \cup BuildTasks \cup WavesTasks \cup DemoTasks
=============================================================================
