---------------------------- MODULE FrontierVault ----------------------------
(***************************************************************************)
(* FrontierVault: wFRNT on the hub, an ERC-4626 vault over FRNT.  The      *)
(* vault is its own share token: it inherits FrontierERC20F, so it EXTENDS *)
(* FrontierToken, whose state is that of the shares and whose calls (a     *)
(* MINTER's mint, a BURNER's burn, recovery, the adapter's hooks) all stay *)
(* available next to deposit, mint, withdraw and redeem.                   *)
(*                                                                         *)
(* The asset is another contract, a FrontierERC20F too.  Of it the vault   *)
(* sees balances, the pause and the registry's denials.                    *)
(***************************************************************************)
EXTENDS FrontierToken

CONSTANTS
    InitialAssets,  \* the asset's balances when the vault is deployed
    Depositors      \* the accounts that trade with the vault; a bound for
                    \* TLC, Callers when not bounded

ASSUME FrontierVaultAssumption ==
    /\ InitialAssets \in [Address -> Nat]
    /\ InitialAssets[Self] = 0
    /\ Depositors \subseteq Callers

VARIABLES
    assets,         \* the asset's balances
    assetPaused,    \* whether the asset is paused
    assetDenied     \* whom the asset's registry denies

assetVars == <<assets, assetPaused, assetDenied>>
vaultVars == <<vars, assetVars>>

VaultTypeOK ==
    /\ TypeOK
    /\ assets \in [Address -> Nat]
    /\ assetPaused \in BOOLEAN
    /\ assetDenied \subseteq Address

VaultInit ==
    /\ Init
    /\ assets = InitialAssets
    /\ assetPaused = FALSE
    /\ assetDenied = {}

-----------------------------------------------------------------------------
(* Prices.  _decimalsOffset is 0: one virtual share and one virtual asset. *)

TotalAssets == assets[Self]

DivDown(x, y) == x \div y

DivUp(x, y) == (x + y - 1) \div y

\* The conversions revert when a virtual unit overflows the checked sums or
\* the quotient exceeds a uint256.
Priced(quotient) ==
    totalSupply < MaxUint /\ TotalAssets < MaxUint /\ quotient <= MaxUint

ConvertToShares(amount) == DivDown(amount * (totalSupply + 1), TotalAssets + 1)

\* Mutant: rounded up.
ConvertToAssetsUp(shares) == DivUp(shares * (TotalAssets + 1), totalSupply + 1)

ConvertToAssets(shares) == DivDown(shares * (TotalAssets + 1), totalSupply + 1)

PreviewDeposit(amount) == ConvertToShares(amount)

PreviewMint(shares) == DivUp(shares * (TotalAssets + 1), totalSupply + 1)

\* Mutant: rounded down.
PreviewWithdrawDown(amount) ==
    DivDown(amount * (totalSupply + 1), TotalAssets + 1)

PreviewWithdraw(amount) == DivUp(amount * (totalSupply + 1), TotalAssets + 1)

PreviewRedeem(shares) == ConvertToAssets(shares)

\* Mutant: rounded up.
MaxWithdrawUp(owner) ==
    DivUp(balances[owner] * (TotalAssets + 1), totalSupply + 1)

MaxWithdraw(owner) == ConvertToAssets(balances[owner])

MaxRedeem(owner) == balances[owner]

-----------------------------------------------------------------------------

\* Mutant: the asset does not check its balances.
AssetMoveUnchecked(from, to, amount) ==
    /\ ~assetPaused
    /\ assetDenied \intersect {from, to} = {}
    /\ to # Zero
    /\ assets' = [[assets EXCEPT ![from] = @ - amount]
                          EXCEPT ![to] = @ + amount]
    /\ UNCHANGED <<assetPaused, assetDenied>>

\* A transfer of the asset, which checks its own pause and registry.
AssetMove(from, to, amount) ==
    /\ ~assetPaused
    /\ assetDenied \intersect {from, to} = {}
    /\ to # Zero
    /\ assets[from] >= amount
    /\ assets' = [[assets EXCEPT ![from] = @ - amount]
                          EXCEPT ![to] = @ + amount]
    /\ UNCHANGED <<assetPaused, assetDenied>>

\* _deposit: the assets come in, from a caller that has approved the vault,
\* before the shares are minted.
DepositCommon(caller, receiver, amount, shares) ==
    /\ HasAccess(receiver)
    /\ AssetMove(caller, Self, amount)
    /\ Create(receiver, shares)
    /\ UNCHANGED <<rolesVars, allowances, accessRegistry, denied>>

Deposit(caller, receiver, amount) ==
    /\ Priced(PreviewDeposit(amount))
    /\ DepositCommon(caller, receiver, amount, PreviewDeposit(amount))

MintShares(caller, receiver, shares) ==
    /\ Priced(PreviewMint(shares))
    /\ DepositCommon(caller, receiver, PreviewMint(shares), shares)

\* _withdraw: the shares are burned before the assets go out.  Neither the
\* caller's nor, on the vault, the receiver's access is checked.
WithdrawCommon(caller, receiver, owner, amount, shares) ==
    /\ HasAccess(owner)
    /\ IF caller = owner THEN UNCHANGED allowances
                         ELSE SpendAllowance(owner, caller, shares)
    /\ Destroy(owner, shares)
    /\ AssetMove(Self, receiver, amount)
    /\ UNCHANGED <<rolesVars, accessRegistry, denied>>

Withdraw(caller, receiver, owner, amount) ==
    /\ Priced(MaxWithdraw(owner)) /\ Priced(PreviewWithdraw(amount))
    /\ amount <= MaxWithdraw(owner)
    /\ WithdrawCommon(caller, receiver, owner, amount, PreviewWithdraw(amount))

Redeem(caller, receiver, owner, shares) ==
    /\ shares <= MaxRedeem(owner)
    /\ Priced(PreviewRedeem(shares))
    /\ WithdrawCommon(caller, receiver, owner, PreviewRedeem(shares), shares)

\* salvageERC20 of the asset itself: nothing keeps it out.
SalvageAssets(caller, amount) ==
    /\ amount # 0
    /\ ~paused
    /\ HasRole("SALVAGE_ROLE", caller)
    /\ AssetMove(Self, caller, amount)
    /\ UNCHANGED vars

-----------------------------------------------------------------------------
(* The asset on its own: payments (to the vault they are its yield), the   *)
(* recovery of a denied account's assets, its pause and its registry.      *)

AssetPay(from, to, amount) == AssetMove(from, to, amount) /\ UNCHANGED vars

AssetRecover(account, agent, amount) ==
    /\ ~assetPaused
    /\ amount # 0 /\ account \in assetDenied
    /\ assets[account] >= amount
    /\ assets' = [[assets EXCEPT ![account] = @ - amount]
                          EXCEPT ![agent] = @ + amount]
    /\ UNCHANGED <<assetPaused, assetDenied>> /\ UNCHANGED vars

AssetAdmin ==
    /\ \/ /\ assetPaused' = ~assetPaused
          /\ UNCHANGED assetDenied
       \/ /\ \E account \in Listable :
                \/ assetDenied' = assetDenied \union {account}
                \/ assetDenied' = assetDenied \ {account}
          /\ UNCHANGED assetPaused
    /\ UNCHANGED assets /\ UNCHANGED vars

VaultStep ==
    \E caller \in Depositors, receiver \in Address, amount \in Amount :
        \/ Deposit(caller, receiver, amount)
        \/ MintShares(caller, receiver, amount)
        \/ \E owner \in Address :
              \/ Withdraw(caller, receiver, owner, amount)
              \/ Redeem(caller, receiver, owner, amount)

AssetStep ==
    \/ \E from \in Depositors, to \in Address, amount \in Amount :
          AssetPay(from, to, amount)
    \/ \E account \in Listable, agent \in Depositors, amount \in Amount :
          AssetRecover(account, agent, amount)
    \/ AssetAdmin

VaultNext ==
    \/ VaultStep
    \/ \E caller \in Callers, amount \in Amount : SalvageAssets(caller, amount)
    \/ AssetStep
    \/ Next /\ UNCHANGED assetVars

VaultSpec == VaultInit /\ [][VaultNext]_vaultVars

-----------------------------------------------------------------------------

\* Nobody's share loses value by somebody else's deposit, mint, withdrawal or
\* redemption: assets per share, virtual units included, never fall, whatever
\* is rounded and however small the amounts.  Only an unbacked mint by a
\* minter or an adapter, a salvage of the asset, or a recovery from a vault
\* that the asset's registry denies makes them fall.
SharePriceNeverFalls ==
    [][(TotalAssets' + 1) * (totalSupply + 1)
             < (TotalAssets + 1) * (totalSupply' + 1) =>
          \/ /\ TotalAssets' = TotalAssets
             /\ members["MINTER_ROLE"] \union members["ADAPTER_ROLE"] # {}
          \/ /\ totalSupply' = totalSupply
             /\ members["SALVAGE_ROLE"] # {} \/ Self \in assetDenied
      ]_vaultVars

\* All holders together can never claim more than the vault has, even after
\* unbacked mints or a salvage: the claims are rounded down against the
\* virtual share.
ClaimsAreCovered ==
    SumFunction([a \in Address |-> ConvertToAssets(balances[a])]) <= TotalAssets

\* What maxWithdraw promises an owner, its shares pay for: the shares withdraw
\* burns, rounded up, are never more than the owner has.
MaxWithdrawIsAffordable ==
    \A owner \in Address :
        PreviewWithdraw(MaxWithdraw(owner)) <= balances[owner]

\* A pause of the vault holds its assets too, although they are in another
\* contract that goes on: no withdrawal, redemption or salvage takes any out,
\* only the asset's administrators can, from a vault that they have denied.
PauseHoldsAssets ==
    [][paused /\ TotalAssets' < TotalAssets => Self \in assetDenied]_vaultVars
=============================================================================
