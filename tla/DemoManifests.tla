---------------------------- MODULE DemoManifests ----------------------------
(***************************************************************************)
(* The demonstration manifests v1.8: images of wave 1 exchanged for such   *)
(* as the recorded runs show to be judged as they should be --             *)
(* scripts/build-v18-rgb-demo-manifest.py, and on its output               *)
(* scripts/build-v18-ct-normal-demo-manifest.py.  A row of a manifest also *)
(* has a status, the product's, and an axis; a case is a cell, for all is  *)
(* wave 1.  The screening index, the audit and the confidences are left    *)
(* out.                                                                    *)
(***************************************************************************)
EXTENDS SimulationManifest, SourcePools

CONSTANTS AxisCounts       \* axis -> CT images of a case; x 5, y 17, z 18

ASSUME CalibrationAssumption ==
    /\ WaveImages \in Nat \ {0}
    /\ IsFiniteSet(DOMAIN AxisCounts)
    /\ AxisCounts \in [DOMAIN AxisCounts -> Nat \ {0}]

\* What the initial captures of one type are, by object; one that two rows
\* describe differently is an exception.
load_sources(rows, type) ==
    LET initial == {r \in ToSet(rows) : r.type = type /\ r.set = "INITIAL"}
    IN  IF \E p, q \in initial : p.object = q.object /\ <<p.status, p.axis>> # <<q.status, q.axis>>
        THEN Refused
        ELSE [o \in {r.object : r \in initial} |-> CHOOSE r \in initial : r.object = o]

\* results: the first-attempt results of the recorded runs, in their order,
\* [inspection, image, object, quality, product]; the last of an image counts.
load_observations(results) ==
    {results[n] : n \in {n \in DOMAIN results :
        \A m \in n + 1..Len(results) :
            <<results[m].inspection, results[m].image>>
                # <<results[n].inspection, results[n].image>>}}

Seen(observations, object) == {o \in observations : o.object = object}

\* Mutant: one observation that agrees is enough.
candidate_class_Any(source, seen) ==
    LET Agree(product) == \E o \in seen : o.quality = "PASS" /\ o.product = product
    IN  CASE source.status = "normal" /\ Agree("PASS") -> "NORMAL_DUAL_PASS"
          [] source.status = "defective" /\ Agree("REJECT") -> "DEFECT_DUAL_REJECT"
          [] OTHER -> "OTHER"

\* All that was observed of an image must agree with its status.
candidate_class(source, seen) ==
    LET products == {o.product : o \in seen}
        qualityPass == \A o \in seen : o.quality = "PASS"
    IN  CASE seen = {} -> "UNOBSERVED"
          [] seen # {} /\ source.status = "normal" /\ qualityPass
                /\ products = {"PASS"} -> "NORMAL_DUAL_PASS"
          [] seen # {} /\ source.status = "defective" /\ qualityPass
                /\ products = {"REJECT"} -> "DEFECT_DUAL_REJECT"
          [] OTHER -> "OTHER"

\* A CT image is asked only for its product, and a recorded PASS of the set.
IsNormalProductPass(source, seen) ==
    /\ source.status = "normal" /\ source.quality = "PASS"
    /\ seen # {} /\ {o.product : o \in seen} = {"PASS"}

Listed(objects) == sorted(objects, [o \in objects |-> o.source])

RgbPool(sources, observations, class) ==
    Listed({o \in DOMAIN sources :
        candidate_class(sources[o], Seen(observations, o)) = class})

CtPool(sources, observations, axis) ==
    Listed({o \in DOMAIN sources :
        /\ sources[o].axis = axis
        /\ IsNormalProductPass(sources[o], Seen(observations, o))})

\* count images of a pool for the case; a pool with fewer is an exception.
Pool_take(s, pool, rows, count) ==
    IF s.failed \/ Len(rows) < count THEN [s EXCEPT !.failed = TRUE]
    ELSE Selector_take(s, pool, rows, count, 2 * Len(rows))

Case(rows, cell) == Picked(rows, {n \in DOMAIN rows : rows[n].cell = cell})
Only(rows, type) == Picked(rows, {n \in DOMAIN rows : rows[n].type = type})
Other(rows, type) == Picked(rows, {n \in DOMAIN rows : rows[n].type # type})
CellsOf(rows) == ascending({r.cell : r \in ToSet(rows)})

\* A chosen image as a row of the case; quality_label becomes PASS.
Calibrated(sources, object, cell, status) ==
    [sources[object] EXCEPT !.wave = 1, !.cell = cell, !.set = "INITIAL",
                            !.quality = "PASS", !.status = status]

Built(s, rows) == [pools |-> s, rows |-> rows]

CalibratedRows(s, sources, cell, status) ==
    [n \in DOMAIN s.chosen |-> Calibrated(sources, s.chosen[n], cell, status)]

\* Every RGB case is filled anew from the class that its status asks for.
RgbCase(b, sources, observations, rows, cell) ==
    LET case == Case(rows, cell)
        rgb == Only(case, "RGB")
        status == rgb[1].status
        class == IF status = "normal" THEN "NORMAL_DUAL_PASS" ELSE "DEFECT_DUAL_REJECT"
        s == Pool_take(NextCase(b.pools), class, RgbPool(sources, observations, class),
                       WaveImages)
        valid == /\ Len(rgb) = WaveImages
                 /\ \A r \in ToSet(rgb) : r.set = "INITIAL" /\ r.status = status
    IN  IF b.pools.failed \/ ~ valid THEN [b EXCEPT !.pools.failed = TRUE]
        ELSE Built(s, b.rows \o Other(case, "RGB")
                      \o CalibratedRows(s, sources, cell, status))

build_wave_one(wave, sources, observations) ==
    FoldLeft(LAMBDA b, cell : RgbCase(b, sources, observations, wave, cell),
             Built(FreshPools({"NORMAL_DUAL_PASS", "DEFECT_DUAL_REJECT"}, DOMAIN sources),
                   << >>),
             CellsOf(wave))

Axes == SetToSeq(DOMAIN AxisCounts)

\* The CT of a normal product is filled anew, axis by axis; that of a
\* defective one stays.
CtCase(b, sources, observations, rows, cell) ==
    LET case == Case(rows, cell)
        ct == GroupOf(case, cell, "CT", "INITIAL")
        status == ct[1].status
        s == FoldLeft(LAMBDA r, axis : Pool_take(r, axis, CtPool(sources, observations, axis),
                                                 AxisCounts[axis]),
                      NextCase(b.pools), Axes)
        valid == Len(ct) = WaveImages /\ \A r \in ToSet(ct) : r.status = status
    IN  IF b.pools.failed \/ ~ valid THEN [b EXCEPT !.pools.failed = TRUE]
        ELSE IF status = "defective"
        THEN [b EXCEPT !.rows = @ \o Other(case, "RGB") \o Other(case, "CT")]
        ELSE Built(s, b.rows \o CalibratedRows(s, sources, cell, "normal")
                      \o Other(case, "CT"))

build_wave(wave, sources, observations) ==
    LET b == FoldLeft(LAMBDA r, cell : CtCase(r, sources, observations, wave, cell),
                      Built(FreshPools(DOMAIN AxisCounts, DOMAIN sources), << >>),
                      CellsOf(wave))
        Count(c, axis) == Cardinality({n \in DOMAIN b.rows :
            b.rows[n].cell = c /\ b.rows[n].type = "CT" /\ b.rows[n].axis = axis})
    IN  IF \/ b.pools.failed
           \/ \E r \in ToSet(b.rows) : r.type = "CT" /\ r.set # "INITIAL"
           \/ \E c \in ToSet(CellsOf(wave)) : Len(Only(Case(b.rows, c), "CT")) # WaveImages
           \/ \E c \in ToSet(CellsOf(wave)), axis \in DOMAIN AxisCounts :
                 Count(c, axis) # AxisCounts[axis]
        THEN [b EXCEPT !.pools.failed = TRUE]
        ELSE b
=============================================================================
