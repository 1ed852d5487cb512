SPECIFICATION FairSpec
CONSTANTS
    Address <- MCAddress
    AddressList <- MCAddressList
    Slots = 2
    Buffer = 1
    Starts <- MCStarts
    FixSupport = 9
    FeeMain = 3
    Fee = 5
    MinTransfer = 2
    RetainedBalance = 1
    MaxTxInputs = 2
    Receivers = {"b"}
    Received = 2
    PaymentAmount = 1
    MaxTraffic = 1
    MaxFailures = 1
INVARIANTS
    TypeOK
    NoSendAfterReturn
    ListIsWhole
    SummaryPaysItsFee
PROPERTIES
    SupportIsAffordable
    SummaryRetainsBalance
    EveryRoundEnds
    TokensAreGathered
