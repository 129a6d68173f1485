\* Two process lives, ended by SIGTERM or killed, with reports in between:
\* two request ids that compete for a queue of one.
SPECIFICATION FairSpec
CONSTANTS
    c1 = c1
    c2 = c2
    s1 = s1
    s2 = s2
    r1 = r1
    r2 = r2
    r3 = r3
    NoSlot = NoSlot
    NoEntry = NoEntry
    NoPayload = NoPayload
    RequestIds = {r1, r2}
    Cells <- MCCells
    Slots <- MCSlots
    ReportSlots <- MCReports
    ImageTypes <- MCTypes
    Takes <- MCTakes
    NameOrder <- MCNameOrder
    Payloads <- MCFewPayloads
    Unbuildable <- MCFewUnbuildable
    PoolSettings = {TRUE}
    MaxPending = 1
    MaxAttempts = 2
    ReportedCells = {c1}
    MaxPosts = 3
    MaxRestarts = 1
PROPERTIES
    AcceptanceIsFinal
    KeepsContract
    KeepsPool
    DrainEnds
    EveryRequestSettles
CHECK_DEADLOCK FALSE
