SPECIFICATION FairSpec
CONSTANTS
    NoBlock = NoBlock
    Block <- ForkBlocks
    Genesis = "g"
    Parent <- ForkParent
    Height <- ForkHeight
    Branches <- ForkBranches
    RescanLastBlockCount = 2
    Modulus = 16
    Faults = {}
    MaxFaults = 0
    ResetHeights = {}
    ScanHeights = {}
    MaxCalls = 0
PROPERTIES
    PanicsEnd
