SPECIFICATION Spec
CONSTANTS
    Address <- MCAddress
    Own <- MCOwn
    Tx = {"t1", "t2"}
    Orders <- MCOrders
    Minted <- MCMinted
    SummaryAddress = "s"
    MinTransfer = 3
    RetainedBalance = 2
    MaxTxInputs = 3
    Fee = 2
    Modulus = 64
    MaxFailures = 1
INVARIANTS
    TypeOK
    TakenPaysItsFee
    PaymentTakesJustEnough
PROPERTIES
    AmountIsBalanceChange
CHECK_DEADLOCK FALSE
