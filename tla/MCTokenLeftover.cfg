SPECIFICATION Spec
CONSTANTS
    Address <- MCAddress
    AddressList <- MCAddressList
    Slots = 2
    Buffer = 1
    Starts <- MCLeftover
    FixSupport = 9
    FeeMain = 3
    Fee = 5
    MinTransfer = 2
    RetainedBalance = 1
    MaxTxInputs = 2
    Receivers = {"c"}
    Received = 2
    PaymentAmount = 2
    MaxTraffic = 1
    MaxFailures = 0
INVARIANTS
    PaymentPaysItsFee
