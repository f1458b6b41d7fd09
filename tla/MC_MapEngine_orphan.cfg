SPECIFICATION NotedSpec
CONSTANTS
    amap = amap
    tencent = tencent
    baidu = baidu
    Engines = {amap, tencent}
    Rank <- MCRank
    None = None
    Overlaps = {}
    MaxGen = 2
    MaxSeq = 1
INVARIANT NoDoubleInstance
CHECK_DEADLOCK FALSE
