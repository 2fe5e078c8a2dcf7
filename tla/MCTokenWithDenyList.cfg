SPECIFICATION Spec
CONSTANTS
    alice = alice
    ops = ops
    officer = officer
    self = self
    zero = zero
    denyList = denyList
    none = none
    Callers <- MCCallers
    Address <- MCAddress
    TokenRoles <- MCTokenRoles
    TokenAssignments <- MCTokenAssignments
    ListRoles <- MCListRoles
    ListAssignments <- MCListAssignments
    DenyListAddress = denyList
    Zero = zero
    Self = self
    NoRegistry = none
    MaxUint = 1
    Approvals <- MCApprovals
    Batches <- MCBatches
INVARIANTS
    AdminRemains
    PauseIsRecoverable
PROPERTIES
    ImplementsToken
    FreezeOutlivesListPause
