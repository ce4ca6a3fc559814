SPECIFICATION Spec
CONSTANTS
    r1 = r1
    r2 = r2
    Days <- MCDays
    Runs <- MCRuns
    At <- MCAt
    Manifests <- MCManifests
    SiteAnswers <- MCSiteAnswers
    PageAnswers <- MCPageAnswers
    SourceAnswers <- MCSourceAnswers
    Limit = 3
    MaxFaults = 2
INVARIANTS
    RankingMatchesTotal
    OneFaultLosesNoDay
PROPERTIES
    OlderNeverOverwrites
CHECK_DEADLOCK FALSE
