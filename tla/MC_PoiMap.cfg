SPECIFICATION PoiMapSpec
CONSTANTS
    Companies <- MC_Companies
    Places <- MC_Places
    Chain <- MC_Chain
    Order <- MC_Order
    Overlay <- MC_Overlay
    Focus <- MC_Focus
    Unsteady <- MC_Unsteady
    Flaky <- MC_Flaky
    MaxWrappers = 3
    MaxResults = 1
    MaxTrying = 2
    MaxFailed = 1
    MaxInlined = 1
    MaxFetching = 1
    MaxViews = 2
    MaxTimers = 2
    MaxFaults = 1
    MaxRenders = 4
INVARIANTS
    NothingLeftBehind
    MapShowsThePage
    RecordsMatchTheMap
PROPERTIES
    LogosStay
CHECK_DEADLOCK FALSE
