--------------------------- MODULE RuntimeManifests ---------------------------
(***************************************************************************)
(* The wave manifests of dataset v1.7:                                     *)
(* scripts/build-v17-runtime-manifests.py.  A dataset is a function from   *)
(* the images of its initial captures, numbered in the order in which they *)
(* are shuffled, to [modality, status, quality, axis, porosity, linked];   *)
(* an image is linked when a recapture of it was taken, and passes.        *)
(***************************************************************************)
EXTENDS SimulationManifest, SourcePools

CONSTANTS CASES, CASES_PER_WAVE,
          AxisPlan,         \* CT: sequence of [axis, total, fails]; 5, 17, 18
          AnnotatedAxis,    \* the axis that shows porosity; y
          Porosity,         \* images with porosity of a defective CT; 3
          DefectCases,      \* modality -> cases of a defective product
          CaptureFailCases  \* modality -> cases to recapture

\* Whole waves, at most five, and as many FAILs by axis as in all.
ASSUME ManifestAssumption ==
    /\ CASES_PER_WAVE = CellCount
    /\ \E waves \in 0..5 : CASES = waves * CASES_PER_WAVE
    /\ AxisPlan \in Seq([axis : STRING, total : Nat, fails : Nat])
    /\ FoldLeft(LAMBDA sum, plan : sum + plan.fails, 0, AxisPlan) = WaveFails

PoolKeys == [modality : ImageTypes, status : {"normal", "defective"},
             quality : {"PASS", "FAIL"}, axis : {AxisPlan[n].axis : n \in DOMAIN AxisPlan}
                                                \cup {""},
             linked : BOOLEAN, annotated : BOOLEAN]

\* The rows of a pool; the pools overlap.
PoolRows(dataset, key) ==
    LET rows == {i \in DOMAIN dataset :
                    /\ \A f \in {"modality", "status", "quality", "axis"} :
                          dataset[i][f] = key[f]
                    /\ key.linked => dataset[i].linked
                    /\ key.annotated => key.modality = "CT" /\ dataset[i].porosity}
    IN  sorted(rows, [i \in rows |-> i])

\* One call of select, left out when nothing is wanted; a missing pool fails.
select(s, dataset, key, count) ==
    LET rows == PoolRows(dataset, key)
    IN  IF rows = << >> THEN [s EXCEPT !.failed = TRUE]
        ELSE Selector_take(s, key, rows, count, Len(rows))

\* What choose_initial asks for: one plan for RGB, one per axis for CT.
Plans(modality, fails) ==
    IF modality = "RGB"
    THEN << [axis |-> "", total |-> WaveImages, fails |-> IF fails THEN WaveFails ELSE 0] >>
    ELSE [n \in DOMAIN AxisPlan |->
             [AxisPlan[n] EXCEPT !.fails = IF fails THEN @ ELSE 0]]

\* The images of a plan, one quality after the other; nothing is selected when
\* none is wanted, but for the last.
ChoosePlan(s, dataset, modality, status, fails, plan) ==
    LET Key(quality, linked, annotated) ==
            [modality |-> modality, status |-> status, quality |-> quality,
             axis |-> plan.axis, linked |-> linked, annotated |-> annotated]
        porous == IF modality = "CT" /\ status = "defective" /\ plan.axis = AnnotatedAxis
                  THEN Porosity ELSE 0
        Take(r, key, count, always) ==
            IF r.failed \/ (count = 0 /\ ~ always) THEN r
            ELSE select(r, dataset, key, count)
        failing == Take(s, Key("FAIL", TRUE, FALSE), plan.fails, FALSE)
        annotated == Take(failing, Key("PASS", fails, TRUE), porous, FALSE)
    IN  Take(annotated, Key("PASS", fails, FALSE), plan.total - plan.fails - porous, TRUE)

choose_initial(s, dataset, modality, status, fails) ==
    LET chosen == FoldLeft(LAMBDA r, plan : ChoosePlan(r, dataset, modality, status, fails, plan),
                           NextCase(s), Plans(modality, fails))
        expected == IF status = "defective" THEN Porosity ELSE 0
    IN  [chosen EXCEPT !.failed =
            \/ @
            \/ Len(chosen.chosen) # WaveImages
            \/ modality = "CT" /\ expected # Cardinality(
                   {i \in ToSet(chosen.chosen) : dataset[i].porosity})]

runtime_row(dataset, case, image, set) ==
    [wave |-> (case - 1) \div CASES_PER_WAVE + 1,
     cell |-> 1 + ((case - 1) % CASES_PER_WAVE),
     type |-> dataset[image].modality, set |-> set,
     object |-> [set |-> set, type |-> dataset[image].modality, source |-> image],
     quality |-> IF set = "INITIAL" THEN dataset[image].quality ELSE "PASS"]

\* What was chosen becomes rows; every image of a failed capture is retaken.
AddRows(b, dataset, case, fails, s) ==
    LET Rows(set) == [n \in DOMAIN s.chosen |->
                         runtime_row(dataset, case, s.chosen[n], set)]
    IN  IF fails /\ \E i \in ToSet(s.chosen) : ~ dataset[i].linked
        THEN [b EXCEPT !.pools.failed = TRUE]
        ELSE [b EXCEPT !.pools = s, !.cases = Append(@, ToSet(s.chosen)),
                 !.rows = @ \o Rows("INITIAL")
                            \o IF fails THEN Rows("RECAPTURE") ELSE << >>]

\* One modality of one case.
BuildCase(b, dataset, case, modality) ==
    LET fails == case \in CaptureFailCases[modality]
        status == IF case \in DefectCases[modality] THEN "defective" ELSE "normal"
    IN  IF b.pools.failed THEN b
        ELSE AddRows(b, dataset, case, fails,
                     choose_initial(b.pools, dataset, modality, status, fails))

\* The images of a case as a whole, CT and RGB, are those of no other case.
Fingerprints(b) == [case \in 1..CASES |-> b.cases[2 * case - 1] \cup b.cases[2 * case]]

\* The whole output, or an exception.
AllDistinct(b) ==
    IF \/ b.pools.failed
       \/ \E c, d \in 1..CASES : c # d /\ Fingerprints(b)[c] = Fingerprints(b)[d]
    THEN Refused ELSE b

build_waves(dataset) ==
    LET start == [pools |-> FreshPools(PoolKeys, DOMAIN dataset), rows |-> << >>,
                  cases |-> << >>]
    IN  AllDistinct(FoldLeft(LAMBDA b, h : BuildCase(b, dataset, h[1], h[2]),
                             start, CellTypes(CASES)))

WaveRows(b, wave) == Picked(b.rows, {n \in DOMAIN b.rows : b.rows[n].wave = wave})
=============================================================================
