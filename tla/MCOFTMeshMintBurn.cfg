SPECIFICATION Spec
CONSTANTS
    hub = hub
    spoke = spoke
    far = far
    alice = alice
    bob = bob
    Adapter = adapter
    Dead = dead
    Nobody = nobody
    Chains <- MCTriple
    LockChains <- MCNone
    Issuers <- MCPair
    Wallets <- MCOne
    Freezable <- MCFreezeDelivery
    MaxShared = 2
    MaxIssued = 2
    MaxPackets = 2
    MaxOutages = 1
INVARIANTS
    TypeOK
    ConservedAcrossChains
PROPERTY
    ImplementsLedger
