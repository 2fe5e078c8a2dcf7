SPECIFICATION FairSpec
CONSTANTS
    eth = eth
    Solana = solana
    Hedera = hedera
    None = none
    Evms = {hedera}
    Libraries = {"unnamed", "uln"}
    Owner = owner
    other = other
    Accounts <- MCAccounts
    Environments <- MCEnvironments
    MaxStores = 2
    MaxCustody = 2
    MaxTrouble = 1
INVARIANTS
    WiringTypeOK
    ConfirmedStaysWired
    OneVerifierMayFail
PROPERTY
    EventuallyWired
