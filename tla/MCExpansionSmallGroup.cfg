\* An expansion whose template group is smaller than the recorded group.
SPECIFICATION Spec
CONSTANTS
    s1 = s1
    x1 = x1
    m1 = m1
    m2 = m2
    a = a
    b = b
    o = o
    none = none
    MaxCells = 4
    GroupSize = 2
    Manifests = {m1, m2}
    Seeders = {s1}
    Expanders = {x1}
    Groups = {0, 1, 2}
    Missing = none
    ManifestRows <- MCManifestRows
    Version <- MCVersion
    InitialTables <- MCInitialTables
PROPERTIES
    RecordedKeepTheirDate
