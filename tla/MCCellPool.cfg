\* Five serials over a group of three: the analysis table goes round once
\* and starts its second group, the report table likewise.
SPECIFICATION PoolSpec
CONSTANTS
    c1 = c1
    c2 = c2
    c3 = c3
    c4 = c4
    c5 = c5
    s1 = s1
    s2 = s2
    s3 = s3
    NoSlot = NoSlot
    Cells <- MCCells
    Slots <- MCSlots
    ReportSlots <- MCReportSlots
INVARIANTS
    PoolTypeOK
    PoolBalanced
    ReportsBalanced
PROPERTIES
    FirstGroupReportsFollow
    DealsRoundRobin
