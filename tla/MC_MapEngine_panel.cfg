SPECIFICATION EngineSpec
CONSTANTS
    amap = amap
    tencent = tencent
    Engines = {amap, tencent, baidu}
    Rank <- MCRank
    baidu = baidu
    None = None
    Overlaps = {"reconnectDuringMount", "reconnectDuringSwitch"}
    MaxGen = 2
    MaxSeq = 2
INVARIANTS NoOrphan OneViewWhenQuiet LoadFailureReturnsLiveView
PROPERTIES UnmountFreesAll
CHECK_DEADLOCK FALSE
