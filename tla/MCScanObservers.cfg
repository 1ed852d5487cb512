SPECIFICATION Spec
CONSTANTS
    NoBlock = NoBlock
    Block <- DeepBlocks
    Genesis = "g"
    Parent <- DeepParent
    Height <- DeepHeight
    Branches <- DeepBranches
    RescanLastBlockCount = 2
    Modulus = 16
    Faults = {"rpc", "empty", "extract", "notify", "pause"}
    MaxFaults = 3
    ResetHeights = {}
    ScanHeights = {}
    MaxCalls = 0
INVARIANTS
    AnnouncedIsOneBranch
    ForkNoticeIsOrphan
PROPERTIES
    ScanPointSkipsNoBlock
