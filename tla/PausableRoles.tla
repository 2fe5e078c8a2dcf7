---------------------------- MODULE PausableRoles ----------------------------
(***************************************************************************)
(* The access-control and pause layer that FrontierERC20F, FrontierVault   *)
(* and DenyList all inherit: RoleAccessUpgradeable (over OpenZeppelin's    *)
(* AccessControl) and PauseUpgradeable (over OpenZeppelin's Pausable),     *)
(* bound together by _authorizeRoleAccess, which ERC20F and AccessList     *)
(* override with whenNotPaused.  A contract's module EXTENDS this one just *)
(* as the contract inherits the code.                                      *)
(*                                                                         *)
(* An action is one external call that succeeds; a call that reverts       *)
(* leaves the state alone and is a stuttering step.                        *)
(***************************************************************************)
EXTENDS FiniteSets

CONSTANTS
    Address,        \* every address, the zero address included
    Callers,        \* the addresses that can send calls: not address(0), and
                    \* not a contract that forwards nobody's calls
    Roles,          \* the roles the contract declares
    Assignments     \* the <<role, account>> pairs that calls range over; a
                    \* bound for TLC, Roles \X Address when nothing is bounded

ASSUME PausableRolesAssumption ==
    /\ Callers \subseteq Address
    /\ {"DEFAULT_ADMIN_ROLE", "PAUSER_ROLE"} \subseteq Roles
    /\ Assignments \subseteq Roles \X Address

VARIABLES
    members,        \* AccessControl._roles: the accounts that hold each role
    paused          \* Pausable._paused

rolesVars == <<members, paused>>

HasRole(role, account) == account \in members[role]

(***************************************************************************)
(* The members of every role after an initializer that grants exactly      *)
(* these <<role, account>> pairs.                                          *)
(***************************************************************************)
InitialMembers(grants) ==
    [role \in Roles |-> {a \in Address : <<role, a>> \in grants}]

RolesTypeOK ==
    /\ members \in [Roles -> SUBSET Address]
    /\ paused \in BOOLEAN

-----------------------------------------------------------------------------

\* The admin role of every role is DEFAULT_ADMIN_ROLE; nothing calls
\* _setRoleAdmin.
GrantRole(caller, role, account) ==
    /\ ~paused
    /\ HasRole("DEFAULT_ADMIN_ROLE", caller)
    /\ members' = [members EXCEPT ![role] = @ \union {account}]
    /\ UNCHANGED paused

\* Mutant: an administrator can revoke itself.
RevokeRoleOfSelfToo(caller, role, account) ==
    /\ ~paused
    /\ HasRole("DEFAULT_ADMIN_ROLE", caller)
    /\ members' = [members EXCEPT ![role] = @ \ {account}]
    /\ UNCHANGED paused

RevokeRole(caller, role, account) ==
    /\ ~(role = "DEFAULT_ADMIN_ROLE" /\ account = caller)
    /\ ~paused
    /\ HasRole("DEFAULT_ADMIN_ROLE", caller)
    /\ members' = [members EXCEPT ![role] = @ \ {account}]
    /\ UNCHANGED paused

\* Mutant: renouncing is not authorised by _authorizeRoleAccess.
RenounceRoleWhilePaused(caller, role) ==
    /\ role # "DEFAULT_ADMIN_ROLE"
    /\ members' = [members EXCEPT ![role] = @ \ {caller}]
    /\ UNCHANGED paused

RenounceRole(caller, role) ==
    /\ role # "DEFAULT_ADMIN_ROLE"
    /\ ~paused
    /\ members' = [members EXCEPT ![role] = @ \ {caller}]
    /\ UNCHANGED paused

Pause(caller) ==
    /\ HasRole("PAUSER_ROLE", caller)
    /\ ~paused
    /\ paused' = TRUE
    /\ UNCHANGED members

Unpause(caller) ==
    /\ HasRole("PAUSER_ROLE", caller)
    /\ paused
    /\ paused' = FALSE
    /\ UNCHANGED members

RolesNext ==
    \E caller \in Callers :
        \/ \E grant \in Assignments : GrantRole(caller, grant[1], grant[2])
        \/ \E grant \in Assignments : RevokeRole(caller, grant[1], grant[2])
        \/ \E grant \in Assignments : /\ grant[2] = caller
                                      /\ RenounceRole(caller, grant[1])
        \/ Pause(caller)
        \/ Unpause(caller)

-----------------------------------------------------------------------------

RolesInit ==
    /\ \E admin, pauser \in Callers :
          /\ {<<"DEFAULT_ADMIN_ROLE", admin>>, <<"PAUSER_ROLE", pauser>>}
                \subseteq Assignments
          /\ members = InitialMembers({<<"DEFAULT_ADMIN_ROLE", admin>>,
                                       <<"PAUSER_ROLE", pauser>>})
    /\ paused = FALSE

RolesSpec == RolesInit /\ [][RolesNext]_rolesVars

-----------------------------------------------------------------------------

\* The contract always has an administrator that can send calls: an
\* administrator cannot revoke itself and cannot renounce, so whatever
\* sequence of mutual revocations the administrators play, the last caller
\* remains (RoleAccessUpgradeable.revokeRole and renounceRole).
AdminRemains == members["DEFAULT_ADMIN_ROLE"] \intersect Callers # {}

\* While the contract is paused somebody can unpause it: a pause freezes the
\* role table (_authorizeRoleAccess is whenNotPaused), so the pauser that
\* paused it can neither be revoked nor step down before unpausing.
PauseIsRecoverable == paused => members["PAUSER_ROLE"] \intersect Callers # {}
=============================================================================
