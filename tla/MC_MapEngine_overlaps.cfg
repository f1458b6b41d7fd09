SPECIFICATION WatchdogSpec
CONSTANTS
    amap = amap
    tencent = tencent
    baidu = baidu
    Engines = {amap, tencent}
    Rank <- MCRank
    None = None
    Overlaps = {"reconnectDuringMount", "reconnectDuringSwitch", "clickDuringSwitch"}
    MaxGen = 2
    MaxSeq = 2
INVARIANT SpinnerHonest
PROPERTIES PreferenceFollowsLanding NewestIntentWins MountIsBounded
CHECK_DEADLOCK FALSE
