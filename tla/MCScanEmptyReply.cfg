SPECIFICATION Spec
CONSTANTS
    NoBlock = NoBlock
    Block <- ForkBlocks
    Genesis = "g"
    Parent <- ForkParent
    Height <- ForkHeight
    Branches <- ForkBranches
    RescanLastBlockCount = 2
    Modulus = 16
    Faults = {"empty"}
    MaxFaults = 1
    ResetHeights = {}
    ScanHeights = {}
    MaxCalls = 0
INVARIANTS
    ForkNoticeMeansFork
