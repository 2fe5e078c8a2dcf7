--------------------------- MODULE MCFrontierVault ---------------------------
(* Two holders, one of them also the operator.  The amounts are small       *)
(* enough for a few calls to reach every quotient that rounds, and prices   *)
(* above and below one asset per share.                                     *)
EXTENDS FrontierVault

CONSTANTS alice, ops, vault, zero, denyList, none, Endowment

MCCallers == {alice, ops}
MCAddress == {alice, ops, vault, zero}
MCRoles == {"DEFAULT_ADMIN_ROLE", "PAUSER_ROLE", "CONTRACT_ADMIN_ROLE",
            "MINTER_ROLE", "BURNER_ROLE", "RECOVERY_ROLE", "SALVAGE_ROLE",
            "ADAPTER_ROLE"}
MCRegistries == {denyList}
MCPowers == {<<"DEFAULT_ADMIN_ROLE", ops>>, <<"PAUSER_ROLE", ops>>,
             <<"MINTER_ROLE", zero>>, <<"MINTER_ROLE", ops>>,
             <<"SALVAGE_ROLE", ops>>}
MCApprovals == {<<alice, ops>>}
MCListable == {vault}
MCInitialAssets == [a \in MCAddress |-> IF a = alice THEN Endowment ELSE
                                        IF a = ops THEN 1 ELSE 0]
=============================================================================
