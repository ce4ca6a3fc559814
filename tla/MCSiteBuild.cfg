SPECIFICATION Spec
CONSTANTS
    b1 = b1
    b2 = b2
    Builds = {b1, b2}
    MaxItems = 6
    PageSize = 1
    PageNames <- MCPageNames
    RedirectLimit = 2
    LastLabel = 4
    LastDate = 5
    Scenarios <- MCScenarios
INVARIANTS
    AcceptedSnapshotsBuild
    SiteIsOneGeneration
    SiteHangsTogether
    AheadOnlyWhenRaced
CHECK_DEADLOCK FALSE
