\* Two service deployments, the first of which may be killed.
SPECIFICATION Spec
CONSTANTS
    t1 = t1
    t2 = t2
    r1 = r1
    r2 = r2
    o1 = o1
    Services <- MCServices
    Tags = {t1, t2}
    Releases = {r1}
    Orders <- MCOrders
    IsRelease = TRUE
    Kills = TRUE
    MaxDeploys = 2
    Operators = {}
    MaxSwitches = 0
    MaxInfra = 0
CHECK_DEADLOCK FALSE
PROPERTY
    PublishesWhatRuns
