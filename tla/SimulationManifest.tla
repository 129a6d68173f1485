-------------------------- MODULE SimulationManifest --------------------------
(***************************************************************************)
(* Which manifests scripts/apply-simulation-seed.py loads, and what        *)
(* scripts/build-simulation-manifest.py (v1.5) builds.  A row is           *)
(* [wave, cell, type, set, object, quality]; an object is named by its     *)
(* capture set, its type and its source, as the paths of the code are.     *)
(***************************************************************************)
EXTENDS ToolValues, Naturals, FiniteSets, SequencesExt

CONSTANTS CellCount,         \* 20
          LegacyImages,      \* images of a v1.5 group; 20
          RecaptureGroups,   \* <<cell, type>> that v1.5 recaptures; four
          WaveImages,        \* images of a group of a wave; 40
          WaveFails,         \* of which fail before a recapture; 9
          DefectPlan,        \* type -> cell -> v1.5 images with a defect
          DamagedCells       \* cells that get a "Damaged" one

ImageTypes == {"CT", "RGB"}
Serials == 1..CellCount
Legacy == 0                  \* wave_no of a manifest without one

ASSUME PlanAssumption ==
    /\ CellCount \in Nat \ {0}
    /\ LegacyImages \in Nat \ {0}
    /\ WaveFails \in Nat \ {0}
    /\ \A type \in ImageTypes, cell \in Serials : DefectPlan[type][cell] \in 0..LegacyImages

\* The cells in order, with first CT and then RGB of each.
CellTypes(cells) == [n \in 1..2 * cells |->
                        <<(n + 1) \div 2, IF n % 2 = 1 THEN "CT" ELSE "RGB">>]

GroupPlaces(rows, cell, type, set) ==
    {n \in DOMAIN rows : rows[n].cell = cell /\ rows[n].type = type /\ rows[n].set = set}

GroupOf(rows, cell, type, set) == Picked(rows, GroupPlaces(rows, cell, type, set))

group_counts(rows, cell, type, set) == Cardinality(GroupPlaces(rows, cell, type, set))

fail_counts(rows, cell, type, set) ==
    Cardinality({n \in GroupPlaces(rows, cell, type, set) : rows[n].quality = "FAIL"})

\* Images, FAILs and recaptures of one group are as the version demands.
GroupIsComplete(rows, cell, type, legacy) ==
    LET fails == fail_counts(rows, cell, type, "INITIAL")
        retaken == IF legacy THEN <<cell, type>> \in RecaptureGroups
                   ELSE fails = WaveFails
        images == IF legacy THEN LegacyImages ELSE WaveImages
    IN  /\ group_counts(rows, cell, type, "INITIAL") = images
        /\ fails = IF ~ retaken THEN 0 ELSE IF legacy THEN 1 ELSE WaveFails
        /\ group_counts(rows, cell, type, "RECAPTURE") = IF retaken THEN images ELSE 0
        /\ fail_counts(rows, cell, type, "RECAPTURE") = 0

\* load_manifest returns the rows.
Accepted(rows) ==
    LET legacy == rows # << >> /\ rows[1].wave = Legacy
    IN  /\ \A n \in DOMAIN rows :
              /\ rows[n].wave \in IF legacy THEN {Legacy} ELSE 1..5
              /\ rows[n].wave = rows[1].wave
              /\ rows[n].cell \in Serials /\ rows[n].type \in ImageTypes
              /\ rows[n].quality \in {"PASS", "FAIL"}
              /\ rows[n].set \in {"INITIAL", "RECAPTURE"}
              /\ rows[n].object.set = rows[n].set /\ rows[n].object.type = rows[n].type
        /\ \A m, n \in DOMAIN rows :
              rows[m].cell = rows[n].cell /\ rows[m].object = rows[n].object => m = n
        /\ \A c \in Serials, t \in ImageTypes : GroupIsComplete(rows, c, t, legacy)

-----------------------------------------------------------------------------

\* Mutant: what the cell has already is not skipped.
take_Again(pool, used, count, offset) ==
    IF pool = << >> \/ Len(pool) < count THEN Refused
    ELSE [k \in 1..count |-> pool[1 + ((offset + k - 1) % Len(pool))]]

\* count stems of a pool that the cell has not got yet, from an offset on.
take(pool, used, count, offset) ==
    LET rotated == [k \in DOMAIN pool |-> pool[1 + ((offset + k - 1) % Len(pool))]]
        free == Picked(rotated, {k \in DOMAIN pool : rotated[k] \notin used})
    IN  IF pool = << >> \/ Len(free) < count THEN Refused
        ELSE SubSeq(free, 1, count)

\* meta: stem -> names of its defects; a stem is [set, type, source].
SortedStems(stems) == sorted(stems, [s \in stems |-> s.source])

build_pools(meta, set, type, defective) ==
    SortedStems({s \in DOMAIN meta : /\ s.set = set /\ s.type = type
                                     /\ (meta[s] # {}) = defective})

Damaged(meta) ==
    SortedStems({s \in DOMAIN meta : /\ s.set = "INITIAL" /\ s.type = "RGB"
                                     /\ "Damaged" \in meta[s]})

\* The parts of a group, a Refused one among them when a pool is exhausted.
Parts(meta, cell, type) ==
    LET index == cell - 1
        defects == DefectPlan[type][cell]
        damaged == IF type = "RGB" /\ cell \in DamagedCells /\ defects > 0
                   THEN take(Damaged(meta), {}, 1, index) ELSE << >>
        own == IF damaged = Refused THEN {} ELSE ToSet(damaged)
    IN  [damaged |-> damaged,
         defective |-> take(build_pools(meta, "INITIAL", type, TRUE), own,
                            defects - Cardinality(own), 7 * index),
         clean |-> take(build_pools(meta, "INITIAL", type, FALSE), own,
                        LegacyImages - defects, 37 * index),
         retaken |-> IF <<cell, type>> \notin RecaptureGroups THEN << >>
                     ELSE take(build_pools(meta, "RECAPTURE", type, FALSE), own,
                               LegacyImages, 23 * index)]

IsRefused(parts) == \E f \in DOMAIN parts : parts[f] = Refused

\* One FAIL in a group that is recaptured: its first image.
GroupRows(parts, cell, type) ==
    LET initial == parts.damaged \o parts.defective \o parts.clean
        Row(stem, quality) == [wave |-> Legacy, cell |-> cell, type |-> type,
                               set |-> stem.set, object |-> stem, quality |-> quality]
        fails == IF <<cell, type>> \in RecaptureGroups THEN {initial[1]} ELSE {}
    IN  [n \in DOMAIN initial |->
            Row(initial[n], IF initial[n] \in fails THEN "FAIL" ELSE "PASS")]
        \o [n \in DOMAIN parts.retaken |-> Row(parts.retaken[n], "PASS")]

build(meta) ==
    IF \E c \in Serials, t \in ImageTypes : IsRefused(Parts(meta, c, t)) THEN Refused
    ELSE FoldLeft(LAMBDA rows, g : rows \o GroupRows(Parts(meta, g[1], g[2]), g[1], g[2]),
                  << >>, CellTypes(CellCount))
=============================================================================
