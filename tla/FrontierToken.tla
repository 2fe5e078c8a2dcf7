---------------------------- MODULE FrontierToken ----------------------------
(***************************************************************************)
(* FrontierERC20F: the FRNT token and the spoke-chain wFRNT token.  It is  *)
(* ERC20F (OpenZeppelin's ERC20, a pause switch, role-gated mint, burn,    *)
(* recovery and salvage, and an optional access registry consulted on      *)
(* holders' transfers) plus three hooks reserved for the OFT adapter.      *)
(*                                                                         *)
(* One action is one successful external call, with every check the call   *)
(* makes as its guard.  OpenZeppelin's ERC20 internals (_transfer, _mint,  *)
(* _burn, _approve, _spendAllowance) are external code, modelled by what   *)
(* the contracts rely on.  An access registry is a separate contract: this *)
(* module sees only whom each registry denies, and lets that change at any *)
(* time; TokenWithDenyList puts the real DenyList contract there.         *)
(***************************************************************************)
EXTENDS PausableRoles, Integers, Functions

CONSTANTS
    Zero,           \* address(0)
    Self,           \* the token contract's own address
    Registries,     \* the contracts that implement IAccessRegistry
    NoRegistry,     \* address(0) as the value of accessRegistry
    MaxUint,        \* type(uint256).max
    Approvals,      \* the <<owner, spender>> pairs that approvals range over;
                    \* a bound for TLC, Address \X Address when not bounded
    Listable        \* the accounts that registries come to deny; a bound for
                    \* TLC, Address \ {Zero} when not bounded

ASSUME FrontierTokenAssumption ==
    /\ IsFiniteSet(Address)             \* an address has 160 bits
    /\ Zero \in Address \ Callers
    /\ Self \in Address \ (Callers \union {Zero})
    /\ NoRegistry \notin Registries
    /\ MaxUint \in Nat \ {0}
    /\ Approvals \subseteq Address \X Address
    /\ Listable \subseteq Address \ {Zero}
    /\ {"CONTRACT_ADMIN_ROLE", "MINTER_ROLE", "BURNER_ROLE", "RECOVERY_ROLE",
        "SALVAGE_ROLE", "ADAPTER_ROLE"} \subseteq Roles

VARIABLES
    balances,       \* ERC20._balances
    totalSupply,    \* ERC20._totalSupply
    allowances,     \* ERC20._allowances: owner, then spender
    accessRegistry, \* the registry subscribed to, or NoRegistry
    denied          \* for each registry, the accounts it denies (not the
                    \* token's state: read through hasAccess)

ledgerVars == <<balances, totalSupply>>
tokenVars  == <<balances, totalSupply, allowances, accessRegistry>>
vars       == <<members, paused, balances, totalSupply, allowances,
                accessRegistry, denied>>

Amount == 0..MaxUint

\* Balances are added, and the supply is reduced, in unchecked blocks: that
\* they stay within 0..MaxUint is not a matter of types but of
\* SupplyIsSumOfBalances below.
TypeOK ==
    /\ RolesTypeOK
    /\ balances \in [Address -> Nat]
    /\ totalSupply \in Int /\ totalSupply <= MaxUint
    /\ allowances \in [Address -> [Address -> Amount]]
    /\ accessRegistry \in Registries \union {NoRegistry}
    /\ denied \in [Registries -> SUBSET Address]

-----------------------------------------------------------------------------
(* OpenZeppelin ERC20 internals and the access check.                      *)

HasAccess(account) ==
    accessRegistry # NoRegistry => account \notin denied[accessRegistry]

\* Mutant: both balances are read before either is written.
MoveByCachedBalances(from, to, amount) ==
    /\ ~paused
    /\ from # Zero /\ to # Zero
    /\ balances[from] >= amount
    /\ balances' = [balances EXCEPT ![from] = @ - amount,
                                    ![to] = balances[to] + amount]
    /\ UNCHANGED totalSupply

\* ERC20._transfer.  The two updates are made in this order, so that a
\* transfer to oneself changes nothing.
Move(from, to, amount) ==
    /\ ~paused
    /\ from # Zero /\ to # Zero
    /\ balances[from] >= amount
    /\ balances' = [[balances EXCEPT ![from] = @ - amount]
                              EXCEPT ![to] = @ + amount]
    /\ UNCHANGED totalSupply

\* Mutant: the supply is added to in an unchecked block.
CreateUnchecked(to, amount) ==
    /\ ~paused
    /\ to # Zero
    /\ totalSupply' = totalSupply + amount
    /\ balances' = [balances EXCEPT ![to] = @ + amount]

\* ERC20._mint, with the checked addition that keeps the supply a uint256.
Create(to, amount) ==
    /\ ~paused
    /\ to # Zero
    /\ totalSupply + amount <= MaxUint
    /\ totalSupply' = totalSupply + amount
    /\ balances' = [balances EXCEPT ![to] = @ + amount]

\* ERC20._burn.
Destroy(from, amount) ==
    /\ ~paused
    /\ from # Zero
    /\ balances[from] >= amount
    /\ totalSupply' = totalSupply - amount
    /\ balances' = [balances EXCEPT ![from] = @ - amount]

SetAllowance(owner, spender, amount) ==
    /\ owner # Zero /\ spender # Zero
    /\ allowances' = [allowances EXCEPT ![owner][spender] = amount]

\* Mutant: the allowance is checked and not reduced.
SpendAllowanceForEver(owner, spender, amount) ==
    /\ allowances[owner][spender] >= amount
    /\ UNCHANGED allowances

\* ERC20._spendAllowance: the largest uint256 is an allowance without limit.
SpendAllowance(owner, spender, amount) ==
    IF allowances[owner][spender] = MaxUint
    THEN UNCHANGED allowances
    ELSE /\ allowances[owner][spender] >= amount
         /\ SetAllowance(owner, spender, allowances[owner][spender] - amount)

-----------------------------------------------------------------------------

\* FrontierERC20F.initialize, the last call of the deployment.  The minter may
\* be address(0): a spoke token that only its adapter mints.
Init ==
    /\ \E defaultAdmin, pauser \in Callers, minter \in Address :
          LET grants == {<<"DEFAULT_ADMIN_ROLE", defaultAdmin>>,
                         <<"MINTER_ROLE", minter>>, <<"PAUSER_ROLE", pauser>>}
          IN  /\ grants \subseteq Assignments
              /\ members = InitialMembers(grants)
    /\ paused = FALSE
    /\ balances = [a \in Address |-> 0]
    /\ totalSupply = 0
    /\ allowances = [a \in Address |-> [b \in Address |-> 0]]
    /\ accessRegistry = NoRegistry
    /\ denied = [r \in Registries |-> {}]

\* Mutant: the receiver's access is not checked.
MintToAnyone(caller, to, amount) ==
    /\ HasRole("MINTER_ROLE", caller)
    /\ Create(to, amount)
    /\ UNCHANGED <<rolesVars, allowances, accessRegistry, denied>>

Mint(caller, to, amount) ==
    /\ HasRole("MINTER_ROLE", caller)
    /\ HasAccess(to)
    /\ Create(to, amount)
    /\ UNCHANGED <<rolesVars, allowances, accessRegistry, denied>>

Burn(caller, amount) ==
    /\ HasRole("BURNER_ROLE", caller)
    /\ amount # 0
    /\ HasAccess(caller)
    /\ Destroy(caller, amount)
    /\ UNCHANGED <<rolesVars, allowances, accessRegistry, denied>>

\* The recovered tokens go to the caller, whose own access is not checked.
RecoverTokens(caller, account, amount) ==
    /\ HasRole("RECOVERY_ROLE", caller)
    /\ amount # 0
    /\ accessRegistry # NoRegistry
    /\ ~HasAccess(account)
    /\ Move(account, caller, amount)
    /\ UNCHANGED <<rolesVars, allowances, accessRegistry, denied>>

\* Mutant: approvals are not whenNotPaused.
ApproveWhilePaused(owner, spender, amount) ==
    /\ SetAllowance(owner, spender, amount)
    /\ UNCHANGED <<rolesVars, ledgerVars, accessRegistry, denied>>

Approve(owner, spender, amount) ==
    /\ ~paused
    /\ SetAllowance(owner, spender, amount)
    /\ UNCHANGED <<rolesVars, ledgerVars, accessRegistry, denied>>

\* An approval by signature.  The signature, its nonce and its deadline are
\* OpenZeppelin's: here the owner has signed for its current nonce.
Permit(owner, spender, value) == Approve(owner, spender, value)

IncreaseAllowance(owner, spender, addedValue) ==
    /\ ~paused
    /\ allowances[owner][spender] + addedValue <= MaxUint
    /\ SetAllowance(owner, spender, allowances[owner][spender] + addedValue)
    /\ UNCHANGED <<rolesVars, ledgerVars, accessRegistry, denied>>

DecreaseAllowance(owner, spender, subtractedValue) ==
    /\ ~paused
    /\ allowances[owner][spender] >= subtractedValue
    /\ SetAllowance(owner, spender,
                    allowances[owner][spender] - subtractedValue)
    /\ UNCHANGED <<rolesVars, ledgerVars, accessRegistry, denied>>

Transfer(sender, to, amount) ==
    /\ HasAccess(sender) /\ HasAccess(to)
    /\ Move(sender, to, amount)
    /\ UNCHANGED <<rolesVars, allowances, accessRegistry, denied>>

\* Mutant: only the receiver's access is checked.
TransferFromAnyone(spender, from, to, amount) ==
    /\ HasAccess(to)
    /\ SpendAllowance(from, spender, amount)
    /\ Move(from, to, amount)
    /\ UNCHANGED <<rolesVars, accessRegistry, denied>>

\* The spender's own access is not checked.
TransferFrom(spender, from, to, amount) ==
    /\ HasAccess(from) /\ HasAccess(to)
    /\ SpendAllowance(from, spender, amount)
    /\ Move(from, to, amount)
    /\ UNCHANGED <<rolesVars, accessRegistry, denied>>

AdapterBurn(adapter, from, amount) ==
    /\ HasRole("ADAPTER_ROLE", adapter)
    /\ amount # 0
    /\ HasAccess(from)
    /\ Destroy(from, amount)
    /\ UNCHANGED <<rolesVars, allowances, accessRegistry, denied>>

\* The receiver's access only decides whether MintedToFrozen is emitted.
AdapterMint(adapter, to, amount) ==
    /\ HasRole("ADAPTER_ROLE", adapter)
    /\ Create(to, amount)
    /\ UNCHANGED <<rolesVars, allowances, accessRegistry, denied>>

AdapterTransfer(adapter, to, amount) ==
    /\ HasRole("ADAPTER_ROLE", adapter)
    /\ Move(adapter, to, amount)
    /\ UNCHANGED <<rolesVars, allowances, accessRegistry, denied>>

\* _authorizeAccessRegistryUpdate, then the ERC-165 probe: only a registry
\* contract or address(0) is accepted.
AccessRegistryUpdate(caller, registry) ==
    /\ ~paused
    /\ HasRole("CONTRACT_ADMIN_ROLE", caller)
    /\ accessRegistry' = registry
    /\ UNCHANGED <<rolesVars, ledgerVars, allowances, denied>>

\* salvageERC20 of the token's own tokens, sent to it by mistake: an ordinary
\* transfer whose sender is the contract, so both ends need access.
SalvageERC20(caller, amount) ==
    /\ amount # 0
    /\ HasRole("SALVAGE_ROLE", caller)
    /\ Transfer(Self, caller, amount)

\* A registry, which is another contract, changes whom it denies.
RegistryStep ==
    /\ \E r \in Registries, S \in SUBSET Listable :
          denied' = [denied EXCEPT ![r] = S]
    /\ UNCHANGED <<rolesVars, tokenVars>>

-----------------------------------------------------------------------------

RolesStep == RolesNext /\ UNCHANGED <<tokenVars, denied>>

IssuerStep ==
    \E caller \in Callers, account \in Address, amount \in Amount :
        \/ Mint(caller, account, amount)
        \/ Burn(caller, amount)
        \/ RecoverTokens(caller, account, amount)
        \/ SalvageERC20(caller, amount)

TransferStep ==
    \E caller \in Callers, to \in Address, amount \in Amount :
        Transfer(caller, to, amount)

TransferFromStep ==
    \E caller \in Callers, from, to \in Address, amount \in Amount :
        TransferFrom(caller, from, to, amount)

ApprovalStep ==
    \E pair \in Approvals, amount \in Amount :
        /\ pair[1] \in Callers
        /\ \/ Approve(pair[1], pair[2], amount)
           \/ Permit(pair[1], pair[2], amount)
           \/ IncreaseAllowance(pair[1], pair[2], amount)
           \/ DecreaseAllowance(pair[1], pair[2], amount)

AdapterStep ==
    \E adapter \in Callers, account \in Address, amount \in Amount :
        \/ AdapterBurn(adapter, account, amount)
        \/ AdapterMint(adapter, account, amount)
        \/ AdapterTransfer(adapter, account, amount)

RegistryUpdateStep ==
    \E caller \in Callers, registry \in Registries \union {NoRegistry} :
        AccessRegistryUpdate(caller, registry)

TokenNext ==
    \/ RolesStep \/ IssuerStep \/ TransferStep \/ TransferFromStep
    \/ ApprovalStep \/ AdapterStep \/ RegistryUpdateStep

Next == TokenNext \/ RegistryStep

Spec == Init /\ [][Next]_vars

-----------------------------------------------------------------------------

\* Every token in existence is in exactly one balance: no path through mint,
\* burn, recovery, salvage, transfers (to oneself too) or the adapter hooks
\* loses or duplicates tokens.  As the supply is at most MaxUint, no unchecked
\* addition or subtraction of the ERC20 code ever wraps.
SupplyIsSumOfBalances ==
    totalSupply = SumFunction(balances) /\ totalSupply \in Amount

Frozen(account) == ~HasAccess(account)

\* A frozen wallet's tokens do not leave it, except to a recovery agent (and
\* then all of them arrive), unless the wallet is the adapter's own: README,
\* "it can't transfer the tokens, even cross-chain".  No allowance given
\* before the freeze, burn or adapter call gets around it.
FrozenKeepsTokens ==
    [][\A a \in Address : (Frozen(a) /\ balances'[a] < balances[a]) =>
          \/ HasRole("ADAPTER_ROLE", a) /\ totalSupply' = totalSupply
          \/ \E r \in members["RECOVERY_ROLE"] :
                balances'[r] - balances[r] = balances[a] - balances'[a]]_vars

\* A frozen wallet is credited only across chains or by recovery: tokens that
\* reach it were minted or released by an adapter, or it belongs to a recovery
\* agent that emptied another frozen wallet.
FrozenReceivesOnlyByBridge ==
    [][\A a \in Address : (Frozen(a) /\ balances'[a] > balances[a]) =>
          \/ /\ members["ADAPTER_ROLE"] # {}
             /\ \/ totalSupply' - totalSupply = balances'[a] - balances[a]
                \/ \E b \in members["ADAPTER_ROLE"] : balances'[b] < balances[b]
          \/ /\ HasRole("RECOVERY_ROLE", a)
             /\ \E b \in Address : Frozen(b) /\ balances'[b] < balances[b]]_vars

\* Nothing of the contract moves while it is paused: no balance, allowance,
\* registry or role changes until a pauser lifts the pause, although the calls
\* check the pause in different places (a modifier, the transfer hook, the
\* role hook).
PauseStopsEverything == [][paused => UNCHANGED <<members, tokenVars>>]_vars
=============================================================================
