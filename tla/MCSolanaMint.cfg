SPECIFICATION FairSpec
CONSTANTS
    alice = alice
    s1 = s1
    s2 = s2
    first = first
    second = second
    given = given
    None = none
    System = system
    Wallet = wallet
    MinterSets <- MCMinterSets
    Heirs <- MCHeirs
    Stores <- MCStores
    NewMints <- MCNewMints
    GivenMints <- MCGivenMints
    MaxTasks = 3
CHECK_DEADLOCK FALSE
INVARIANTS
    MintTypeOK
    HandedToLiveStore
    RecordedCanReceive
    AttestedStays
PROPERTIES
    ImmutableForGood
    MessageIsMinted
