------------------------------ MODULE DataTools ------------------------------
(***************************************************************************)
(* The tools that make, change and read the data of the simulation, each   *)
(* on inputs of its own: one behaviour is one call of one tool.            *)
(***************************************************************************)
EXTENDS FixtureRebalance, QaAnalysis, RuntimeManifests, DemoManifests, ReportText

CONSTANT Tasks           \* calls: records with the field "tool" and the inputs

\* The first source of a report is its representative inspection
\* (run-report-qa.py:219); a report may be without sources (fixture.py:513).
Representative(x) == IF x.sources # << >> THEN x.sources[1] ELSE x.inspectionId

\* Reports, recorded and asked for: no source comes twice, and the labels of
\* a recorded one announce its representative inspection.  Numbers and serials
\* are written as such.
ASSUME ReportsAssumption ==
    \A t \in Tasks : t.tool = "report" =>
        LET text == t.entry.content
        IN  /\ \A x \in {t.entry, t.request} :
                  /\ x.sources \in Seq(Nat \ {NoId}) /\ IsInjective(x.sources)
                  /\ x.inspectionId \in {NoId, Representative(x)}
            /\ DOMAIN text = 1..Len(text)
            /\ \A n \in DOMAIN text :
                  /\ IsLabelled(text, n) => /\ Representative(t.entry) # NoId
                                            /\ text[n].value = Representative(t.entry)
                  /\ text[n].kind = "number" => text[n] = Number(text[n].value)
                  /\ text[n].kind = "serial" => text[n] = Serial(text[n].value)

\* Inspections that are over, as their callbacks said (models.py).
ASSUME AnalysesAssumption ==
    \A t \in Tasks : t.tool = "analyse" =>
        /\ t.waves \in Seq({t.waves[w] : w \in DOMAIN t.waves})
        /\ \A w \in DOMAIN t.waves :
              /\ IsFiniteSet(DOMAIN t.waves[w])
              /\ \A i \in DOMAIN t.waves[w] :
                    t.waves[w][i].status = "FAILED"
                        <=> t.waves[w][i].final \notin {"PASS", "REJECT"}

\* Recordings as they were exported, and requests for any images.
ASSUME RecordingsAssumption ==
    \A t \in Tasks : t.tool = "answer" =>
        /\ t.fixture.index = replay_index(t.fixture)
        /\ IsFiniteSet(DOMAIN t.fixture.images)
        /\ \A i \in DOMAIN t.fixture.images : t.fixture.images[i].key \in Int
        /\ t.request \in Seq({t.request[n] : n \in DOMAIN t.request})

\* Fixtures as they were exported, for cells listed under outcomes.  A row is
\* of an inspection, and of one of its images or none; a result without a
\* defect has a raw response that shows none.
ASSUME FixturesAssumption ==
    \A t \in Tasks : t.tool = "rebalance" =>
        LET f == t.fixture
        IN  /\ f = export_fixture(f.inspections, f.images, f.rows)
            /\ IsFiniteSet(DOMAIN f.images)
            /\ DOMAIN f.images \subseteq Int /\ Missing \notin DOMAIN f.images
            /\ \A id \in DOMAIN f.inspections :
                  DOMAIN f.inspections[id] = {"cell", "type", "status", "final", "failure"}
            /\ f.rows \in Seq({f.rows[n] : n \in DOMAIN f.rows})
            /\ \A n \in DOMAIN f.rows :
                  LET row == f.rows[n]
                  IN  /\ DOMAIN row = {"inspection", "image", "label", "defect", "raw"}
                      /\ row.inspection \in DOMAIN f.inspections
                      /\ row.image # Missing =>
                            /\ row.image \in DOMAIN f.images
                            /\ f.images[row.image].inspection = row.inspection
                      /\ row.raw # Missing /\ row.label = "PASS" /\ row.defect = Missing =>
                            row.raw.label \in {Missing, "PASS"} /\ row.raw.defects \in {Missing, {}}
            /\ \A c \in DOMAIN t.target : t.target[c] \in {"PASS", "REJECT", "FAIL"}

ASSUME WavesAssumption ==
    \A t \in Tasks : t.tool = "waves" =>
        t.dataset \in Seq({t.dataset[i] : i \in DOMAIN t.dataset})

FirstWave(rows) == Picked(rows, {n \in DOMAIN rows : rows[n].wave = 1})

\* Frames of a set, a type and a number, which are their path.
ASSUME BuildAssumption ==
    \A t \in Tasks : t.tool = "build" =>
        /\ IsFiniteSet(DOMAIN t.meta)
        /\ DOMAIN t.meta \subseteq [set : {"INITIAL", "RECAPTURE"}, type : ImageTypes,
                                    source : Int]

\* Manifests as they were built, of a first wave that can be loaded; an
\* object is a set of captures, a type and a source.
ASSUME DemosAssumption ==
    \A t \in Tasks : t.tool = "demo" =>
        /\ t.rows \in Seq({t.rows[n] : n \in DOMAIN t.rows})
        /\ \A n \in DOMAIN t.rows :
              /\ DOMAIN t.rows[n] = {"wave", "cell", "type", "set", "object",
                                     "quality", "status", "axis"}
              /\ t.rows[n].cell \in Int /\ t.rows[n].type \in ImageTypes
              /\ t.rows[n].status \in {"normal", "defective"}
              /\ t.rows[n].object = [set |-> t.rows[n].set, type |-> t.rows[n].type,
                                     source |-> t.rows[n].object.source]
              /\ t.rows[n].object.source \in Int
        /\ Accepted(FirstWave(t.rows))

VARIABLES task,          \* the call
          result         \* what it returned; Missing before

vars == <<task, result>>

Init == task \in Tasks /\ result = Missing

Call(tool, value) == /\ task.tool = tool /\ result = Missing
                     /\ result' = value
                     /\ UNCHANGED task

\* A fixture is rebalanced; the service loads the variant.
Rebalance == Call("rebalance", rebalance_fixture(task.fixture, task.target, task.failType))

\* A recording answers a request for other images.
Answer ==
    LET entry == CHOOSE e \in task.fixture.index : TRUE
    IN  Call("answer", build_callback(task.fixture, entry, task.request))

Analyses == [n \in DOMAIN task.waves |-> analyze(n, task.waves[n])]

Analyse == Call("analyse", aggregate(Analyses))

Report == Call("report", individual_content(task.entry, task.request))

BuildManifest == Call("build", build(task.meta))

BuildWaves == Call("waves", build_waves(task.dataset))

\* First the RGB images are exchanged, then, in what that gave, the CT ones.
\* Both tools read the sources from the same manifests.
Calibrate(rows, results) ==
    LET rgbSources == load_sources(rows, "RGB")
        ctSources == load_sources(rows, "CT")
        observations == load_observations(results)
        wave == FirstWave(rows)
        rgb == build_wave_one(wave, rgbSources, observations)
        ct == build_wave(rgb.rows, ctSources, observations)
    IN  IF rgbSources = Refused \/ ctSources = Refused \/ rgb.pools.failed \/ ct.pools.failed
        THEN Refused ELSE [rgb |-> rgb, ct |-> ct]

BuildDemo == Call("demo", Calibrate(task.rows, task.results))

Next == \/ Rebalance \/ Answer \/ Analyse \/ Report
        \/ BuildManifest \/ BuildWaves \/ BuildDemo

Spec == Init /\ [][Next]_vars

Returned(tool) == task.tool = tool /\ result \notin {Missing, Refused}

-----------------------------------------------------------------------------

\* A rebalanced fixture is a fixture: it loads when the recorded one did,
\* every callback built from it meets the contract, every cell has the
\* outcome it is listed under, nothing that became PASS shows a defect
\* or a REJECT in its callback, and a REJECT is what was recorded
\* (rebalance-replay-fixture.py:57-145, 169-271; fixture.py:158-241, 398-441).
RebalancedIsServed ==
    Returned("rebalance") /\ Loads(task.fixture) =>
        /\ Loads(result)
        /\ \A c \in Cells(result) : cell_outcome(result, c) = task.target[c]
        /\ \A e \in result.index :
              LET request == RecordedRequest(result, e)
                  callback == build_callback(result, e, request)
              IN  /\ CanBuild(result, e) /\ MeetsContract(callback)
                  /\ callback.final = "PASS" =>
                        \A n \in DOMAIN request :
                            callback.results[n] = [label |-> "PASS", defects |-> {}]
                  /\ callback.final = "REJECT" =>
                        callback = build_callback(task.fixture, e, request)

\* An image of a request that was recorded is answered by its own results.
\* The others are answered by recorded images of their type, or by any if there
\* are none, and in turn: none is used twice more often for a type than another
\* (fixture.py:288-374).
AnswersAreSpread ==
    Returned("answer") /\ Loads(task.fixture) =>
        LET f == task.fixture
            request == task.request
            entry == CHOOSE e \in f.index : TRUE
            own == ImagesOf(f, entry.inspection, entry.attempt)
            others == {n \in DOMAIN request : ~ IsRecorded(entry, request[n])}
            OfType(t) == {i \in own : f.images[i].type = t}
            Pool(t) == IF OfType(t) # {} THEN OfType(t) ELSE own
            Uses(source, t, i) ==
                Cardinality({n \in others : request[n].type = t /\ source[n] = i})
        IN  /\ Len(result.results) = Len(request)
            /\ \A n \in DOMAIN request \ others :
                  \E i \in own : /\ f.images[i].key = request[n].key
                                 /\ result.results[n] = image_result(f, i)
            /\ \E source \in [others -> own] :
                  \A n \in others :
                     LET t == request[n].type
                     IN  /\ source[n] \in Pool(t)
                         /\ result.results[n] = image_result(f, source[n])
                         /\ \A i, j \in Pool(t) : Uses(source, t, i) <= Uses(source, t, j) + 1

\* How often a Counter has counted one key, and all.
Count(key, counter) == IF key \in DOMAIN counter THEN counter[key] ELSE 0
Size(counter) == Cardinality(UNION {{key} \X (1..counter[key]) : key \in DOMAIN counter})

\* What the analyses of the waves say together is what an analysis of all
\* inspections would have said: each inspection counts once in every matrix
\* or as not evaluated, and each case once, with the worst of its labels
\* (analyze-qa-wave.py:56-237, aggregate-qa-analyses.py:26-105).
AnalysesAddUp ==
    Returned("analyse") =>
        LET all == UNION {{<<w, i>> : i \in DOMAIN task.waves[w]} : w \in DOMAIN task.waves}
            whole == analyze(1, [x \in all |-> task.waves[x[1]][x[2]]])
            Inspections(case) ==
                {task.waves[x[1]][x[2]] : x \in {y \in all :
                    <<y[1], task.waves[y[1]][y[2]].cell>> = case}}
            Misses(case) == /\ \E i \in Inspections(case) : i.defective
                            /\ \A i \in Inspections(case) : i.final = "PASS"
        IN  /\ \A f \in {"inspectionOutcomes", "captureQualityCellConfusion",
                         "defectAnyImageConfusion", "defectCellConfusion",
                         "defectCellNotEvaluated"} : result[f] = whole[f]
            /\ Size(result.defectCellConfusion) + Size(result.defectCellNotEvaluated)
                 = Cardinality(all)
            /\ Size(result.cellExpectedActualMatrix) = Cardinality(result.logicalCases)
            /\ Count(<<"REJECT", "PASS">>, result.cellExpectedActualMatrix)
                 = Cardinality({case \in result.logicalCases : Misses(case)})
            /\ Count("FAIL", result.cellFinalLabels)
                 = Cardinality({case \in result.logicalCases :
                       \E i \in Inspections(case) : i.status = "FAILED"})

\* A report names the inspections of its request.  Where the recording had
\* its k-th source the request's k-th stands, if they are as many; what a
\* label announces is the request's inspection even if not, when the entry or
\* a bold label says which was the recorded one; no other number changes; and
\* a serial is that of the request's cell where it was the recorded one, and
\* what it was elsewhere -- unless its digits are those of a recorded source:
\* the pattern that replaces the sources does not spare it
\* (fixture.py:494-530, 572-614).
ReportNamesTheRequest ==
    Returned("report") =>
        LET text == task.entry.content
            recorded == task.entry.sources
            current == task.request.sources
            Cell(cell) == IF cell = task.entry.cell THEN task.request.cell ELSE cell
        IN  /\ DOMAIN result = DOMAIN text
            /\ \A n \in DOMAIN text :
                  /\ Len(recorded) = Len(current) =>
                        \A k \in DOMAIN recorded : text[n] = Number(recorded[k]) =>
                            result[n] = Number(current[k])
                  /\ /\ IsLabelled(text, n) /\ task.request.inspectionId # NoId
                     /\ task.entry.inspectionId # NoId \/ BoldLabelled(text) # {}
                     => result[n] = Number(task.request.inspectionId)
                  /\ text[n].kind = "number" /\ text[n].value \notin ToSet(recorded) =>
                        result[n] = text[n] \/ IsLabelled(text, n)
                  /\ text[n].kind = "serial" =>
                        LET cell == Cell(text[n].value)
                        IN  cell.run \notin ToSet(recorded) => result[n] = Serial(cell)

\* Every manifest that a builder writes is one that the seed loads
\* (build-simulation-manifest.py:186-243, build-v17-runtime-manifests.py:
\* 292-426, both build-v18 scripts; apply-simulation-seed.py:66-164).
BuiltManifestsLoad ==
    /\ Returned("build") => Accepted(result)
    /\ Returned("waves") =>
          \A w \in {result.rows[n].wave : n \in DOMAIN result.rows} :
              Accepted(WaveRows(result, w))
    /\ Returned("demo") => Accepted(result.rgb.rows) /\ Accepted(result.ct.rows)

\* A source image of v1.7 is used again only where fresh ones had run out:
\* some pool it is in has been used up (build-v17-runtime-manifests.py:87-115).
ReusedWhenExhausted ==
    Returned("waves") =>
        LET used == result.pools.used
        IN  \A i \in DOMAIN used : used[i] > 1 =>
                \E key \in PoolKeys :
                    LET pool == ToSet(PoolRows(task.dataset, key))
                    IN  i \in pool /\ \A j \in pool : used[j] > 0

\* In a demonstration wave the RGB images, and the CT images of normal
\* products, are such as the model was seen to judge right, no candidate
\* taken two times more than another; the CT images of defective products
\* are only kept as they were; every case has its product status (both
\* build-v18 scripts).
DemoIsCalibrated ==
    Returned("demo") =>
        LET observations == load_observations(task.results)
            wave == {r \in ToSet(task.rows) : r.wave = 1}
            Right(r) == \A o \in Seen(observations, r.object) :
                           o.product = IF r.status = "normal" THEN "PASS" ELSE "REJECT"
            Even(b, pool) == \A o, p \in pool : b.pools.used[o] <= b.pools.used[p] + 1
            rgbSources == load_sources(task.rows, "RGB")
            ctSources == load_sources(task.rows, "CT")
        IN  /\ \A r \in ToSet(result.ct.rows) :
                  /\ \E q \in wave : /\ <<q.cell, q.type, q.status>> = <<r.cell, r.type, r.status>>
                  /\ r.type = "RGB" \/ r.status = "normal" =>
                        Right(r) /\ Seen(observations, r.object) # {}
                  /\ r.type = "CT" /\ r.status = "defective" => r \in wave
            /\ \A class \in {"NORMAL_DUAL_PASS", "DEFECT_DUAL_REJECT"} :
                  Even(result.rgb, ToSet(RgbPool(rgbSources, observations, class)))
            /\ \A axis \in DOMAIN AxisCounts :
                  Even(result.ct, ToSet(CtPool(ctSources, observations, axis)))
=============================================================================
