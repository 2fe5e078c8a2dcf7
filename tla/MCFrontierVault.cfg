SPECIFICATION VaultSpec
CONSTANTS
    alice = alice
    ops = ops
    vault = vault
    zero = zero
    denyList = denyList
    none = none
    Callers <- MCCallers
    Address <- MCAddress
    Roles <- MCRoles
    Registries <- MCRegistries
    InitialAssets <- MCInitialAssets
    Depositors <- MCCallers
    Zero = zero
    Self = vault
    NoRegistry = none
    Assignments <- MCPowers
    Approvals <- MCApprovals
    Listable <- MCListable
    MaxUint = 4
    Endowment = 2
INVARIANTS
    VaultTypeOK
    ClaimsAreCovered
    MaxWithdrawIsAffordable
PROPERTY
    SharePriceNeverFalls
