SPECIFICATION FairSpec
CONSTANTS
    Batch <- MCBatch
    TxCount <- MCTxCount
    Capacity = 2
    Results = {"whole", "nilTx"}
    ObserverFails = TRUE
INVARIANTS
    TypeOK
    NoSendOnClosedChannel
    FailureLeavesRecord
PROPERTIES
    KeepsPromise
    EveryCallReturns
    TokensComeBack
CHECK_DEADLOCK FALSE
