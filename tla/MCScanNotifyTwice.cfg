SPECIFICATION FairSpec
CONSTANTS
    NoBlock = NoBlock
    Block <- DeepBlocks
    Genesis = "g"
    Parent <- DeepParent
    Height <- DeepHeight
    Branches <- DeepBranches
    RescanLastBlockCount = 2
    Modulus = 16
    Faults = {"notify"}
    MaxFaults = 2
    ResetHeights = {}
    ScanHeights = {}
    MaxCalls = 0
PROPERTIES
    DeepBlockIsDelivered
