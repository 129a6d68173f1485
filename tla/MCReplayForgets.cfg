\* One restart is enough for the backend to be told about one cell from two
\* recorded cells.
SPECIFICATION Spec
CONSTANTS
    c1 = c1
    c2 = c2
    s1 = s1
    s2 = s2
    r1 = r1
    r2 = r2
    r3 = r3
    NoSlot = NoSlot
    NoEntry = NoEntry
    NoPayload = NoPayload
    RequestIds = {r1, r2}
    Cells <- MCCells
    Slots <- MCSlots
    ReportSlots <- MCReports
    ImageTypes <- MCTypes
    Takes <- MCTakes
    NameOrder <- MCNameOrder
    Payloads <- MCFewPayloads
    Unbuildable <- MCFewUnbuildable
    PoolSettings = {TRUE}
    MaxPending = 2
    MaxAttempts = 2
    ReportedCells = {}
    MaxPosts = 2
    MaxRestarts = 1
INVARIANTS
    ReceivedFromOneSlot
CHECK_DEADLOCK FALSE
