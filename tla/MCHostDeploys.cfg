\* Any three service and infra deployments one after the other, at most two
\* of a kind, any of them killed; a run that is not killed ends.
SPECIFICATION MCSpec
CONSTANTS
    t1 = t1
    t2 = t2
    r1 = r1
    r2 = r2
    o1 = o1
    Services <- MCServices
    Tags = {t1, t2}
    Releases = {r1, r2}
    Orders <- MCOrders
    IsRelease = TRUE
    Kills = TRUE
    MaxDeploys = 2
    Operators = {}
    MaxSwitches = 0
    MaxInfra = 2
CONSTRAINT ThreeRuns
CHECK_DEADLOCK FALSE
INVARIANTS
    TagsRun
    BundleIsWhole
    ReplayIsReleased
    InstalledReplayRuns
PROPERTIES
    PublishedIsDeployed
    RunsAreAtomic
    EveryRunEnds
