SPECIFICATION ClientsSpec
CONSTANTS
    DefaultPageSize = 1
    MaxPageSize = 2
    Columns <- ThreeRows
    Closing = {1}
    Routes <- AllRoutes
    Links <- SharedLinks
    Typed <- TypedAmounts
    PageSizeOptions = {1, 2}
    Picks <- FewPicks
    MaxAsked = 2
    MaxFilters = 2
    Unset = Unset
    Devices = {"tab", "phone"}
    Institutions = {"moh"}
    All = All
    PAGE_SIZE = 1
    SharedCache = TRUE
CHECK_DEADLOCK FALSE
INVARIANTS
    TypeOK
    TableAnswersUrl
    NeverPastEnd
    DemoAgrees
    ScrollShowsTheList
