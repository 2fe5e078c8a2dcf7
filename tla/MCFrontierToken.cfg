SPECIFICATION HistorySpec
CONSTANTS
    alice = alice
    adapter = adapter
    ops = ops
    self = self
    zero = zero
    denyList = denyList
    none = none
    Callers <- MCCallers
    Address <- MCAddress
    Roles <- MCRoles
    Registries <- MCRegistries
    Zero = zero
    Self = self
    NoRegistry = none
    Assignments <- MCAssignments
    MaxUint = 2
    MaxRaised = 2
    Approvals <- MCApprovals
    Listable <- MCListable
INVARIANTS
    TypeOK
    SupplyIsSumOfBalances
    PulledWithinApprovals
PROPERTIES
    FrozenKeepsTokens
    FrozenReceivesOnlyByBridge
    PauseStopsEverything
