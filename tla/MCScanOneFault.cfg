SPECIFICATION FairSpec
CONSTANTS
    NoBlock = NoBlock
    Block <- ForkBlocks
    Genesis = "g"
    Parent <- ForkParent
    Height <- ForkHeight
    Branches <- ForkBranches
    RescanLastBlockCount = 2
    Modulus = 16
    Faults = {"rpc", "empty", "extract", "notify", "crash", "torn", "pause"}
    MaxFaults = 1
    ResetHeights = {3}
    ScanHeights = {3}
    MaxCalls = 1
INVARIANTS
    TypeOK
    ScannedChainHasNoGap
PROPERTIES
    PassedBlockIsDelivered
