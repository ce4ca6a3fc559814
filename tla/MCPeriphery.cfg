SPECIFICATION Spec
CONSTANTS
    HitsOf <- MCFound
    HitsPerPage = 2
    MaxEpoch = 4
    MaxLoads = 2
    Rows <- MCRows
    RowsPerPage = 1
    MaxPage = 5
    TopicLabels <- MCTopicLabels
    TagLabels <- MCTagLabels
    Visited <- MCVisited
    Words = {"", "w"}
    MaxHistory = 2
    MaxFormChanges = 2
    TagsAtFirst = 1
    TagsMore = 1
    Options = 2
    MaxClicks = 2
    Heights <- MCHeights
    NotesPerPage = 1
    MaxCopies = 3
    Ranges = {"7d", "30d"}
    First = "30d"
    SamplesOf <- MCSamples
    Tabs = 2
    MaxRequests = 3
    Inputs <- MCInputs
    MaxGen = 3
    MaxStarts = 5
    Sources <- MCSources
    Databases <- MCDatabases
    TagSlugs <- MCSlugOf
    Owned = {"own"}
    Unsafe = {"bad"}
    BytesOf <- MCBytesOf
    Now = 5
    MaxRuns = 3
    LibraryImages = {"n", "d"}
    Damaged = {"d"}
    Held <- MCHeld
    AssetsPerPage = 1
    MaxRows = 3
    MaxForeign = 1
    Bodies <- MCTexts
    MaxTextChanges = 1
    MaxOpens = 2
    Drafts <- MCDrafts
    Authors = {"u", "v"}
    MaxVersion = 2
    Sizes = {4, 1000, 1048576, 1048577}
    Own = 4
    Pages <- MCPages
    RelationLimit = 3
    LinkLimit = 3
    Urls = {"", "a", "b"}
    MaxRegroups = 2
    Beside = {"list", "panel"}
    Portals = {"toast"}
    MaxPageChanges = 4
    Types = {"note", "curated_article", "topic"}
    Addresses <- MCGiven
    MaxGiven = 3
INVARIANTS
    SearchShowsOneAnswer
    ExplorerFollowsItsAddress
    PageSettlesAsChosen
    LayoutAndChartsHold
    DevSiteIsPrepared
    ImportAddsTheCheckout
    LibraryLosesNothing
    PreviewShowsTheDraft
PROPERTIES
    ImagesGoWhereSeen
    FormKeepsItsRelations
    EditorAndListAreClear
CHECK_DEADLOCK FALSE
