\* Two provisioned cells, two clones, two manifests of one wave.
SPECIFICATION Spec
CONSTANTS
    s1 = s1
    x1 = x1
    m1 = m1
    m2 = m2
    a = a
    b = b
    o = o
    none = none
    MaxCells = 4
    GroupSize = 2
    Manifests = {m1, m2}
    Seeders = {s1}
    Expanders = {x1}
    Groups = {2}
    Missing = none
    ManifestRows <- MCManifestRows
    Version <- MCVersion
    InitialTables <- MCInitialTables
INVARIANTS
    RecordedCarryTheManifest
    ClonesAreWholeCopies
    LedgerNamesTheSeed
PROPERTIES
    ClonesSortBehind
