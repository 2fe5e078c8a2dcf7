-------------------------- MODULE TokenWithDenyList --------------------------
(***************************************************************************)
(* The deployment the README describes: a FrontierERC20F whose CONTRACT_   *)
(* ADMIN can subscribe it to a DenyList.  The two contracts have separate  *)
(* role tables, pauses and administrators; the token reads the list in     *)
(* each call and the list knows nothing of the token.                      *)
(***************************************************************************)
CONSTANTS
    Address, Callers, Zero, Self,
    TokenRoles, TokenAssignments, ListRoles, ListAssignments,
    DenyListAddress, NoRegistry, MaxUint, Approvals, Batches

VARIABLES
    members, paused, balances, totalSupply, allowances, accessRegistry,
    listMembers, listPaused, accessList

tokenState == <<members, paused, balances, totalSupply, allowances,
                accessRegistry>>
listState  == <<listMembers, listPaused, accessList>>
vars       == <<tokenState, listState>>

List == INSTANCE DenyList WITH
            Roles <- ListRoles, Assignments <- ListAssignments,
            members <- listMembers, paused <- listPaused

\* The token of this deployment, whose only registry denies what is listed.
Token == INSTANCE FrontierToken WITH
            Roles <- TokenRoles, Assignments <- TokenAssignments,
            Registries <- {DenyListAddress},
            Listable <- Address \ {Zero},
            denied <- [r \in {DenyListAddress} |-> accessList]

\* What either contract assumes of its constants.
ASSUME TokenWithDenyListAssumption ==
    /\ Token!PausableRolesAssumption /\ Token!FrontierTokenAssumption
    /\ List!PausableRolesAssumption /\ List!DenyListConstants

Init == List!Init /\ Token!Init

TokenCall == UNCHANGED listState /\ Token!TokenNext
ListCall  == UNCHANGED tokenState /\ List!Next

Next == TokenCall \/ ListCall

Spec == Init /\ [][Next]_vars

-----------------------------------------------------------------------------

\* The DenyList is a registry the token can rely on: with it in the place of
\* the open registry, every step is a step of FrontierToken, so what holds of
\* the token under any registry holds of this deployment.
ImplementsToken == Token!Spec

\* Neither contract can lose its last administrator, however administrators
\* of either grant, revoke and renounce roles, their own too
\* (RoleAccessUpgradeable.revokeRole and renounceRole).
AdminRemains == Token!AdminRemains /\ List!AdminRemains

\* Neither can be paused for good: while it is paused somebody holds the role
\* that lifts the pause, whoever was granted, revoked or renounced it before
\* (PauseUpgradeable, and _authorizeRoleAccess being whenNotPaused in both).
PauseIsRecoverable == Token!PauseIsRecoverable /\ List!PauseIsRecoverable

\* A freeze holds through every pause: while the list is paused nobody gains
\* or loses access, unless the token's own administrator changes registry.
FreezeOutlivesListPause ==
    [][listPaused /\ UNCHANGED accessRegistry =>
          \A a \in Address : Token!HasAccess(a) <=> Token!HasAccess(a)']_vars
=============================================================================
