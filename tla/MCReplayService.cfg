\* One process life: three request ids, a queue of two, two attempts each.
\* The clients stop after MaxPosts requests, so the system may stop too.
SPECIFICATION Spec
CONSTANTS
    c1 = c1
    c2 = c2
    s1 = s1
    s2 = s2
    r1 = r1
    r2 = r2
    r3 = r3
    NoSlot = NoSlot
    NoEntry = NoEntry
    NoPayload = NoPayload
    RequestIds = {r1, r2, r3}
    Cells <- MCCells
    Slots <- MCSlots
    ReportSlots <- MCReports
    ImageTypes <- MCTypes
    Takes <- MCTakes
    NameOrder <- MCNameOrder
    Payloads <- MCPayloads
    Unbuildable <- MCUnbuildable
    PoolSettings = {TRUE, FALSE}
    MaxPending = 2
    MaxAttempts = 2
    ReportedCells = {}
    MaxPosts = 4
    MaxRestarts = 0
INVARIANTS
    TypeOK
    CapacityExact
    MetricsAddUp
    OneSlotPerCell
    RecapturesAdvance
    UsageIsAccepted
    FailsClosed
CHECK_DEADLOCK FALSE
