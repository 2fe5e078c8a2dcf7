SPECIFICATION Spec
CONSTANTS
    admin = admin
    guard = guard
    None = none
    OFTType = "Native"
    Ld2SdRate = 1
    OneInBps = 4
    MaxU64 = 15
    Signers <- MCAdmin
    Total = 2
    RemoteTotal = 1
    ConfigRequests <- MCPauseOnly
    FeeChoices <- MCNoOFTFee
    LimitChoices <- MCLimits
    TransferFees <- MCNoFees
    Amounts <- MCFewAmounts
    Orders = {}
    MaxTime = 2
INVARIANTS
    TypeOK
    RateLimitHolds
    NothingLost
    ReceivableUnlessTooLarge
