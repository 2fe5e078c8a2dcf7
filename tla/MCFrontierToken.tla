--------------------------- MODULE MCFrontierToken ---------------------------
(* One wallet, the adapter, and one operator that deploys the token, holds   *)
(* the back-office roles and may pull from the wallet, over the token's own *)
(* address and address(0); one registry, which may deny any of them.        *)
(* Amounts of 0..2 make every checked addition overflow, every balance run  *)
(* out and an allowance be without limit within a few calls.                *)
EXTENDS TokenAllowances

CONSTANTS alice, adapter, ops, self, zero, denyList, none

MCCallers == {alice, adapter, ops}
MCAddress == {alice, adapter, ops, self, zero}
MCRoles == {"DEFAULT_ADMIN_ROLE", "PAUSER_ROLE", "CONTRACT_ADMIN_ROLE",
            "MINTER_ROLE", "BURNER_ROLE", "RECOVERY_ROLE", "SALVAGE_ROLE",
            "ADAPTER_ROLE"}
MCRegistries == {denyList}
MCAssignments == {<<"DEFAULT_ADMIN_ROLE", ops>>, <<"PAUSER_ROLE", ops>>,
                  <<"MINTER_ROLE", ops>>, <<"BURNER_ROLE", ops>>,
                  <<"SALVAGE_ROLE", ops>>,
                  <<"CONTRACT_ADMIN_ROLE", ops>>, <<"RECOVERY_ROLE", ops>>,
                  <<"ADAPTER_ROLE", adapter>>}
MCReadme == {<<"DEFAULT_ADMIN_ROLE", ops>>, <<"PAUSER_ROLE", ops>>,
             <<"CONTRACT_ADMIN_ROLE", ops>>, <<"MINTER_ROLE", ops>>,
             <<"MINTER_ROLE", adapter>>, <<"BURNER_ROLE", adapter>>}
MCApprovals == {<<alice, ops>>}
MCListable == {alice, adapter, ops}

\* README, "Deploying the contracts", step 5: granting an adapter the minter
\* and the burner role is what lets it bring tokens in.
ReadmeRolesSuffice ==
    HasRole("MINTER_ROLE", adapter) /\ HasRole("BURNER_ROLE", adapter) =>
        paused \/ totalSupply = MaxUint \/ ENABLED AdapterMint(adapter, alice, 1)
=============================================================================
