SPECIFICATION CacheSpec
CONSTANTS
    Domains = {d1, d2}
    GroupOrder <- Names
    Default = "default"
    NoGroup = "none"
    NoCache = NoCache
    Configs <- FourConfigs
    TinyCaps <- Caps12
    ShardCap <- Shard12
    Shards = {1}
    Hash <- OneShard
    Ttls = {1}
    MaxTime = 1
INVARIANTS
    ServedIsNewest
PROPERTIES
    SwapKeepsLive
    QueriesKeepUsable
SYMMETRY
    Symmetry
