----------------------------- MODULE QaAnalysis -----------------------------
(***************************************************************************)
(* How a wave went, and how all waves went: scripts/analyze-qa-wave.py on  *)
(* one fixture and its manifest, and scripts/aggregate-qa-analyses.py on   *)
(* the files that gives.  A Counter is a bag.  An inspection is a record   *)
(* [cell, type, status, final, failure, defective, truth, rows]; defective *)
(* and truth -- the quality labels of its initial images -- come from the  *)
(* manifest.  A row is [attempt, image, label, raw]; raw is Missing unless *)
(* it is an object, [imageResults, label, quality], and imageResults is    *)
(* there in the one row that records a callback of a whole cell.           *)
(* Latencies and the counts of images are left out.                        *)
(***************************************************************************)
EXTENDS RecordedFixture, Bags

\* The bag of the values of a function.
Tally(f) == [v \in Range(f) |-> Cardinality({x \in DOMAIN f : f[x] = v})]

\* What was predicted for the first capture: the callback of the cell, or
\* the first usable row of each image.
Predictions(inspection) ==
    LET rows == SelectSeq(inspection.rows, LAMBDA r : r.attempt = 1 /\ r.raw # Missing)
        callbacks == SelectSeq(rows, LAMBDA r : r.raw.imageResults # Missing)
        named == SelectSeq(rows, LAMBDA r : r.image # Missing)
        firsts == SelectSeq([n \in DOMAIN named |-> n],
                      LAMBDA n : \A m \in 1..n - 1 : named[m].image # named[n].image)
    IN  IF callbacks # << >> /\ callbacks[1].raw.imageResults # << >>
        THEN callbacks[1].raw.imageResults
        ELSE [k \in DOMAIN firsts |->
                 [label |-> Or(named[firsts[k]].raw.label, named[firsts[k]].label),
                  quality |-> named[firsts[k]].raw.quality]]

Quality(prediction) ==
    Or(prediction.quality, IF prediction.label = "FAIL" THEN "FAIL" ELSE "PASS")

\* Less than 80 % of the images pass, or there are none.
CaptureFails(labels) ==
    labels = << >> \/ 5 * Len(SelectSeq(labels, LAMBDA l : l = "PASS")) < 4 * Len(labels)

Observed(inspection) ==
    LET predictions == Predictions(inspection)
    IN  CaptureFails([n \in DOMAIN predictions |-> Quality(predictions[n])])

AnyReject(inspection) ==
    LET predictions == Predictions(inspection)
    IN  \E n \in DOMAIN predictions : predictions[n].label = "REJECT"

Evaluated(inspection) ==
    inspection.status = "COMPLETED" /\ inspection.final \in {"PASS", "REJECT"}

\* inspections: id -> inspection.
analyze(waveNo, inspections) ==
    LET all == DOMAIN inspections
        evaluated == {i \in all : Evaluated(inspections[i])}
        Type(i) == inspections[i].type
    IN  [waveNo |-> waveNo,
         inspectionOutcomes |-> Tally([i \in all |->
             <<Type(i), inspections[i].status, inspections[i].final,
               inspections[i].failure>>]),
         captureQualityCellConfusion |-> Tally([i \in all |->
             <<Type(i), CaptureFails(inspections[i].truth), Observed(inspections[i])>>]),
         defectAnyImageConfusion |-> Tally([i \in all |->
             <<Type(i), inspections[i].defective, AnyReject(inspections[i])>>]),
         defectCellConfusion |-> Tally([i \in evaluated |->
             <<Type(i), inspections[i].defective, inspections[i].final = "REJECT">>]),
         defectCellNotEvaluated |-> Tally([i \in all \ evaluated |-> Type(i)]),
         cells |-> [i \in all |->
             [cellSerialNo |-> inspections[i].cell, modality |-> Type(i),
              label |-> IF inspections[i].status = "FAILED" THEN "FAIL"
                        ELSE inspections[i].final,
              expectedDefect |-> inspections[i].defective]]]

\* Mutant: the counts of the last file that has the key.
add_confusion_Replaced(target, source) == source @@ target

add_confusion(target, source) == target (+) source

priority == [PASS |-> 0, REJECT |-> 1, FAIL |-> 2]

\* analyses: the files, in the order of their wave numbers.  The cells of
\* one serial number in files of one wave number are one logical case.
aggregate(analyses) ==
    LET Total(field) ==
            FoldLeft(LAMBDA sum, a : add_confusion(sum, a[field]), EmptyBag, analyses)
        seen == UNION {{<<analyses[n].waveNo, analyses[n].cells[i]>> :
                           i \in DOMAIN analyses[n].cells} : n \in DOMAIN analyses}
        cases == {<<s[1], s[2].cellSerialNo>> : s \in seen}
        Of(case) == {s[2] : s \in {t \in seen : <<t[1], t[2].cellSerialNo>> = case}}
        Actual(case) == CHOOSE l \in {s.label : s \in Of(case)} :
                            \A s \in Of(case) : priority[s.label] <= priority[l]
        Expected(case) ==
            IF \E s \in Of(case) : s.expectedDefect THEN "REJECT" ELSE "PASS"
    IN  [logicalCases |-> cases,
         inspectionOutcomes |-> Total("inspectionOutcomes"),
         captureQualityCellConfusion |-> Total("captureQualityCellConfusion"),
         defectAnyImageConfusion |-> Total("defectAnyImageConfusion"),
         defectCellConfusion |-> Total("defectCellConfusion"),
         defectCellNotEvaluated |-> Total("defectCellNotEvaluated"),
         cellFinalLabels |-> Tally([case \in cases |-> Actual(case)]),
         cellExpectedActualMatrix |->
             Tally([case \in cases |-> <<Expected(case), Actual(case)>>])]
=============================================================================
