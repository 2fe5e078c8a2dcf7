SPECIFICATION ReadmeSpec
CONSTANTS
    eth = eth
    Solana = solana
    Hedera = hedera
    None = none
    Evms <- MCEvms
    Libraries = {"unnamed", "uln"}
    Owner = owner
    other = other
    Accounts <- MCAccounts
    Environments <- MCEnvironments
    MaxStores = 1
    MaxCustody = 8
    MaxTrouble = 0
INVARIANT
    WiredBeforeHandover
