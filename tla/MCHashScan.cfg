CONSTANTS
    Keys <- MCKeys
    HashOf <- MCHashOf
    ShardOf <- MCShardOf
    Patterns <- MCPatterns
    NumShards = 2
    InitialCapacity = 2
    Counts = {0, 2}
    DefaultCount = 1
SPECIFICATION FairSpec
INVARIANTS TypeOK Placed WalkIsExact
PROPERTY WalkEnds
