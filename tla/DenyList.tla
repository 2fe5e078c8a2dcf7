------------------------------ MODULE DenyList ------------------------------
(***************************************************************************)
(* DenyList over AccessListUpgradeable: the access registry that the       *)
(* tokens and the vault consult.  A batch of additions or removals is one  *)
(* call: it applies to every account of the batch or, if it reverts, to    *)
(* none.                                                                   *)
(***************************************************************************)
EXTENDS PausableRoles

CONSTANTS
    Zero,           \* address(0)
    Batches         \* the sets of accounts that calls name; a bound for TLC,
                    \* SUBSET Address when not bounded

DenyListConstants ==
    /\ Zero \in Address \ Callers
    /\ Batches \subseteq SUBSET Address
    /\ {"UPGRADER_ROLE", "CONTRACT_ADMIN_ROLE", "ACCESS_LIST_ADMIN_ROLE"}
          \subseteq Roles

VARIABLE accessList     \* AccessListUpgradeable._accessList

vars == <<members, paused, accessList>>

TypeOK == RolesTypeOK /\ accessList \in SUBSET Address

\* What the registry answers a token; it answers while paused, too.
HasAccess(account) == account \notin accessList

\* initialize; the compliance manager is the one address it does not check.
Init ==
    /\ \E defaultAdmin, pauser, upgrader \in Callers,
          complianceManager \in Address :
          LET grants == {<<"DEFAULT_ADMIN_ROLE", defaultAdmin>>,
                         <<"UPGRADER_ROLE", upgrader>>,
                         <<"PAUSER_ROLE", pauser>>,
                         <<"ACCESS_LIST_ADMIN_ROLE", complianceManager>>,
                         <<"CONTRACT_ADMIN_ROLE", defaultAdmin>>}
          IN  /\ grants \subseteq Assignments
              /\ members = InitialMembers(grants)
    /\ paused = FALSE
    /\ accessList = {}

\* Mutant: address(0) is not refused.
AccessListAddOfZeroToo(caller, accounts) ==
    /\ ~paused
    /\ HasRole("ACCESS_LIST_ADMIN_ROLE", caller)
    /\ accessList' = accessList \union accounts
    /\ UNCHANGED rolesVars

AccessListAdd(caller, accounts) ==
    /\ ~paused
    /\ HasRole("ACCESS_LIST_ADMIN_ROLE", caller)
    /\ Zero \notin accounts
    /\ accessList' = accessList \union accounts
    /\ UNCHANGED rolesVars

\* Mutant: removal is not whenNotPaused.
AccessListRemoveWhilePaused(caller, accounts) ==
    /\ HasRole("ACCESS_LIST_ADMIN_ROLE", caller)
    /\ accessList' = accessList \ accounts
    /\ UNCHANGED rolesVars

AccessListRemove(caller, accounts) ==
    /\ ~paused
    /\ HasRole("ACCESS_LIST_ADMIN_ROLE", caller)
    /\ accessList' = accessList \ accounts
    /\ UNCHANGED rolesVars

AccessListStep ==
    \E caller \in Callers, accounts \in Batches :
        \/ AccessListAdd(caller, accounts)
        \/ AccessListRemove(caller, accounts)

Next ==
    \/ AccessListStep
    \/ RolesNext /\ UNCHANGED accessList

Spec == Init /\ [][Next]_vars
=============================================================================
