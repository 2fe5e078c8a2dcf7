------------------------ MODULE MCTokenWithDenyList ------------------------
(* One wallet, the token's operator (who also recovers and may hold a       *)
(* frozen wallet) and the compliance officer of the list.                   *)
EXTENDS TokenWithDenyList, FiniteSets

CONSTANTS alice, ops, officer, self, zero, denyList, none

MCCallers == {alice, ops, officer}
MCAddress == {alice, ops, officer, self, zero}
MCTokenRoles == {"DEFAULT_ADMIN_ROLE", "PAUSER_ROLE", "CONTRACT_ADMIN_ROLE",
                 "MINTER_ROLE", "BURNER_ROLE", "RECOVERY_ROLE",
                 "SALVAGE_ROLE", "ADAPTER_ROLE"}
MCTokenAssignments == {<<"DEFAULT_ADMIN_ROLE", ops>>, <<"PAUSER_ROLE", ops>>,
                       <<"MINTER_ROLE", ops>>, <<"CONTRACT_ADMIN_ROLE", ops>>,
                       <<"RECOVERY_ROLE", ops>>}
MCListRoles == {"DEFAULT_ADMIN_ROLE", "PAUSER_ROLE", "UPGRADER_ROLE",
                "CONTRACT_ADMIN_ROLE", "ACCESS_LIST_ADMIN_ROLE"}
MCListAssignments == {<<"DEFAULT_ADMIN_ROLE", officer>>,
                      <<"DEFAULT_ADMIN_ROLE", ops>>,
                      <<"PAUSER_ROLE", officer>>, <<"PAUSER_ROLE", ops>>,
                      <<"UPGRADER_ROLE", officer>>,
                      <<"CONTRACT_ADMIN_ROLE", officer>>,
                      <<"ACCESS_LIST_ADMIN_ROLE", officer>>}
MCApprovals == {}
MCBatches == {{alice}, {alice, ops}, {alice, zero}}
=============================================================================
