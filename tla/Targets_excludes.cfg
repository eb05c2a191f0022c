SPECIFICATION SpecTargets
CONSTANTS
    Width = 4
    IncludeEntries <- MCIncludeEntries
    ExcludeEntries <- MCExcludeEntries
    NoPrefix = NoPrefix
    RESERVED_CIDRS <- MCReserved
    PRIVATE_CIDRS <- MCPrivate
    Ports <- MCPorts
    AllPorts <- MCAllPorts
    MaxTargets = 22
    ShardCounts <- MCShardCounts
    ShardIndexes <- MCShardIndexes
    MaxIncludes = 1
    MaxExcludes = 1
INVARIANTS
    ExcludesWin
CHECK_DEADLOCK FALSE
