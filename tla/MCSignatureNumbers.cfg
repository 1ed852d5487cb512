SPECIFICATION Spec
CONSTANTS
    Base = 21
    HashSize = 5
    BodySize = 3
    NumSize = 6
    ByteBase = 8
    Radix = 5
    KeySize = 3
    Numbers <- MCNumbers
    Transactions <- MCTransactions
    Signatures <- MCSignatures
    Sections <- MCSections
    Keys <- MCKeys
    AccountOf <- MCAccountOf
    BlockTxs <- MCBlockTxs
    TokenAnswers <- MCTokenAnswers
INVARIANTS
    SignatureKeepsNumbers
CHECK_DEADLOCK FALSE
