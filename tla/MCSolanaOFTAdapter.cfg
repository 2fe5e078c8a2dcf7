SPECIFICATION Spec
CONSTANTS
    admin = admin
    guard = guard
    None = none
    OFTType = "Adapter"
    Ld2SdRate = 2
    OneInBps = 4
    MaxU64 = 15
    Signers <- MCBoth
    Total = 10
    RemoteTotal = 0
    ConfigRequests <- MCHandovers
    FeeChoices <- MCOFTFees
    LimitChoices <- MCNoLimits
    TransferFees <- MCTransferFees
    Amounts <- MCManyAmounts
    Orders <- MCOrders
    MaxTime = 0
INVARIANTS
    EscrowCoversTvl
    QuoteIsFair
    ConfigAcceptedWhole
PROPERTY
    SlippageBounded
