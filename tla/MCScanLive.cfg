SPECIFICATION FairSpec
CONSTANTS
    NoBlock = NoBlock
    Block <- ForkBlocks
    Genesis = "g"
    Parent <- ForkParent
    Height <- ForkHeight
    Branches <- ForkBranches
    RescanLastBlockCount = 2
    Modulus = 16
    Faults = {"rpc", "empty", "extract", "crash"}
    MaxFaults = 2
    ResetHeights = {}
    ScanHeights = {}
    MaxCalls = 0
INVARIANTS
    PassedBlockIsCovered
PROPERTIES
    CatchesUp
    PassedBlockIsDelivered
