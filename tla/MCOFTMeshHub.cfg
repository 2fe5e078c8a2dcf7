SPECIFICATION FairSpec
CONSTANTS
    hub = hub
    spoke = spoke
    far = far
    alice = alice
    bob = bob
    Adapter = adapter
    Dead = dead
    Nobody = nobody
    Chains <- MCPair
    LockChains <- MCHub
    Issuers <- MCHub
    Wallets <- MCOne
    Freezable <- MCFreezeDelivery
    MaxShared = 2
    MaxIssued = 2
    MaxPackets = 2
    MaxOutages = 2
INVARIANTS
    HubCoversSpokes
PROPERTIES
    ImplementsLedger
    EveryTransferArrives
