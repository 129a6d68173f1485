\* Three runs of the switch by one operator, and an infra deployment meanwhile.
SPECIFICATION Spec
CONSTANTS
    t1 = t1
    t2 = t2
    r1 = r1
    r2 = r2
    o1 = o1
    Services <- MCServices
    Tags = {t1}
    Releases = {r1}
    Orders <- MCOrders
    IsRelease = TRUE
    Kills = TRUE
    MaxDeploys = 0
    Operators = {o1}
    MaxSwitches = 3
    MaxInfra = 1
CHECK_DEADLOCK FALSE
INVARIANTS
    ModeIsWhole
