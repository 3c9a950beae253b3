SPECIFICATION CrawlFairSpec
CONSTANTS
    u1 = u1
    u2 = u2
    u3 = u3
    u4 = u4
    u5 = u5
    h1 = h1
    h2 = h2
    Urls = {u1, u2, u3, u4, u5}
    CrawlHosts = {h1, h2}
    HostOf <- MCHostOf
    Links <- MCLinks
    Body <- MCBody
    Seeds <- MCSeeds
    Known = {u3}
    Expand = TRUE
    Dedup = TRUE
    Disallowed = {u4}
    Delayed = {h1}
    Concurrency = 2
    MaxDepth = 2
    MaxPages = 3
    HostCap = 2
    MaxFrontier = 4
    Stride = 2
    MaxKills = 2
INVARIANTS
    ResumeInv
    HostFair
PROPERTY
    EveryUrlSettles
CHECK_DEADLOCK FALSE
