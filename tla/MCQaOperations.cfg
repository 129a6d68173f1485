\* One wave driver or one report check, beside a user who starts runs.
SPECIFICATION Spec
CONSTANTS
    d1 = d1
    d2 = d2
    m1 = m1
    m2 = m2
    c1 = c1
    c2 = c2
    none = none
    MaxRuns = 2
    Cells = {c1, c2}
    Manifests = {m1, m2}
    Verdicts = {"PASS", "REJECT"}
    Missing = none
    Drivers = {d1}
    MaxAttempts = 2
    MaxWaves = 2
    MaxQa = 1
INVARIANTS
    FixtureIsSettled
    FixtureNamesItsManifest
    EvidenceIsOfTheRun
PROPERTIES
    EveryToolEnds
CHECK_DEADLOCK FALSE
