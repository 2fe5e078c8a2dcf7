SPECIFICATION Spec
CONSTANTS
    hub = hub
    spoke = spoke
    far = far
    alice = alice
    bob = bob
    Adapter = adapter
    Dead = dead
    Nobody = nobody
    Chains <- MCPair
    LockChains <- MCHub
    Issuers <- MCHub
    Wallets <- MCOne
    Freezable <- MCFreezeAdapter
    MaxShared = 1
    MaxIssued = 2
    MaxPackets = 2
    MaxOutages = 0
PROPERTY
    CoverFallsOnlyByRecovery
