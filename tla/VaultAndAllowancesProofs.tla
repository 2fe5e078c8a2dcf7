---------------------- MODULE VaultAndAllowancesProofs ----------------------
(***************************************************************************)
(* Theorems about the two modules that extend FrontierToken: the vault     *)
(* and the history of the allowances.                                      *)
(*                                                                         *)
(* For every number of accounts, every endowment and every width of the    *)
(* integers: the vault is well typed and its shares add up, its holders    *)
(* together can claim no more than it has, what it promises an owner is    *)
(* paid for by the owner's shares, and no deposit or withdrawal takes      *)
(* value from anybody else's share.                                        *)
(*                                                                         *)
(* No order of approvals and pulls lets a spender pull more than its owner *)
(* has raised its allowance by.                                            *)
(***************************************************************************)
EXTENDS FrontierVault, TokenAllowances, FrontierTokenProofs

-----------------------------------------------------------------------------
(* Roundings.                                                              *)

\* Rounding down favours the vault.
LEMMA DownBound ==
    ASSUME NEW x \in Nat, NEW y \in Nat \ {0}
    PROVE  /\ DivDown(x, y) \in Nat
           /\ DivDown(x, y) * y <= x
  <1> DEFINE q == x \div y
             r == x % y
  <1>1. q \in Nat
    BY DivNat
  <1>2. r \in Int /\ x = y * q + r /\ 0 <= r
    BY DivMod
  <1> HIDE DEF q, r
  <1>3. q * y <= x
    BY <1>1, <1>2
  <1> QED
    BY <1>1, <1>3 DEF DivDown, q

\* And so does rounding up what is to be paid.
LEMMA UpBound ==
    ASSUME NEW x \in Nat, NEW y \in Nat \ {0}
    PROVE  /\ DivUp(x, y) \in Nat
           /\ x <= DivUp(x, y) * y
           /\ \A k \in Nat : x <= k * y => DivUp(x, y) <= k
  <1> DEFINE q == (x + y - 1) \div y
  <1>1. q \in Nat /\ x <= y * q /\ \A k \in Nat : x <= y * k => q <= k
    BY QuotientUp
  <1> HIDE DEF q
  <1>2. y * q = q * y /\ \A k \in Nat : y * k = k * y
    BY <1>1
  <1> QED
    BY <1>1, <1>2 DEF DivUp, q

\* A price does not fall when what comes in is worth at least what goes out.
LEMMA PriceKept ==
    ASSUME NEW a \in Int, NEW s \in Int, NEW da \in Int, NEW ds \in Int,
           ds * a <= da * s
    PROVE  a * (s + ds) <= (a + da) * s
  <1>1. a * (s + ds) = a * s + ds * a /\ (a + da) * s = a * s + da * s
    OBVIOUS
  <1> DEFINE p == a * s
             q == ds * a
             r == da * s
  <1>2. p \in Int /\ q \in Int /\ r \in Int /\ q <= r
    OBVIOUS
  <1> HIDE DEF p, q, r
  <1>3. p + q <= p + r
    BY <1>2
  <1> QED
    BY <1>1, <1>3 DEF p, q, r

-----------------------------------------------------------------------------
(* The inductive invariant.                                                *)

VInv == /\ TokenInv /\ VaultTypeOK
        /\ totalSupply = SumFunction(balances)

\* The values that a step starts from.
LEMMA VaultValues ==
    ASSUME VInv
    PROVE  /\ totalSupply \in Nat /\ TotalAssets \in Nat
           /\ \A a \in Address : balances[a] \in Nat
                                 /\ balances[a] <= totalSupply
           /\ assets \in [Address -> Nat] /\ IsFiniteSet(Address)
           /\ Self \in Address /\ MaxUint \in Nat
           /\ Callers \subseteq Address /\ Depositors \subseteq Callers
           /\ Self \notin Callers
  <1>1. TypeOK /\ Self \in Address
    BY FrontierTokenAssumption DEF VInv, TokenInv
  <1>2. \A a \in Address : /\ SumFunction(balances) \in Nat
                           /\ balances[a] <= SumFunction(balances)
    BY <1>1, BalanceInSum
  <1> QED
    BY <1>1, <1>2, FrontierTokenAssumption, FrontierVaultAssumption,
       PausableRolesAssumption DEF VInv, TypeOK, VaultTypeOK, TotalAssets

\* Two balances of the asset change, or one when they are the same.
Shift(from, to, amount) ==
    /\ assets[from] >= amount
    /\ assets' = [[assets EXCEPT ![from] = @ - amount]
                          EXCEPT ![to] = @ + amount]

\* A shift changes what the vault has only where the vault is one of its ends.
LEMMA ShiftEffect ==
    ASSUME assets \in [Address -> Nat], NEW from \in Address,
           NEW to \in Address, NEW amount \in Nat, Shift(from, to, amount),
           Self \in Address
    PROVE  /\ assets' \in [Address -> Nat]
           /\ Self \notin {from, to} => TotalAssets' = TotalAssets
           /\ from # Self /\ to = Self => TotalAssets' = TotalAssets + amount
           /\ from = Self /\ to # Self => TotalAssets' = TotalAssets - amount
           /\ from = to => TotalAssets' = TotalAssets
  <1> DEFINE debited == [assets EXCEPT ![from] = @ - amount]
  <1>1. /\ assets[from] \in Nat /\ assets[to] \in Nat /\ assets[Self] \in Nat
        /\ assets[from] >= amount
    BY DEF Shift
  <1>2. debited \in [Address -> Nat]
        /\ \A a \in Address : debited[a] = IF a = from THEN assets[a] - amount
                                                       ELSE assets[a]
    BY <1>1
  <1>3. assets' = [debited EXCEPT ![to] = @ + amount]
    BY DEF Shift
  <1> HIDE DEF debited
  <1>4. assets' \in [Address -> Nat]
        /\ \A a \in Address : assets'[a] = IF a = to THEN debited[a] + amount
                                                     ELSE debited[a]
    BY <1>2, <1>3
  <1> QED
    BY <1>1, <1>2, <1>4 DEF TotalAssets

-----------------------------------------------------------------------------
(* The steps.                                                              *)

\* What comes in for new shares is worth them, and what goes out for burned
\* ones is worth no more, whichever of the two the caller names.
Deposited(caller, receiver, amount, shares) ==
    /\ DepositCommon(caller, receiver, amount, shares)
    /\ shares * (TotalAssets + 1) <= amount * (totalSupply + 1)

Withdrawn(caller, receiver, owner, amount, shares) ==
    /\ WithdrawCommon(caller, receiver, owner, amount, shares)
    /\ amount * (totalSupply + 1) <= shares * (TotalAssets + 1)

\* Each call of a holder is a deposit or a withdrawal, with the rounding that
\* favours the vault.
LEMMA VaultStepEffect ==
    ASSUME VInv, VaultStep
    PROVE  \E caller \in Callers, receiver, owner \in Address,
              amount, shares \in Amount :
              \/ Deposited(caller, receiver, amount, shares)
              \/ Withdrawn(caller, receiver, owner, amount, shares)
  <1> DEFINE S == totalSupply + 1
             A == TotalAssets + 1
  <1>1. S \in Nat \ {0} /\ A \in Nat \ {0} /\ MaxUint \in Nat
    BY VaultValues
  <1>2. PICK caller \in Depositors, receiver \in Address, given \in Amount :
           \/ Deposit(caller, receiver, given)
           \/ MintShares(caller, receiver, given)
           \/ \E owner \in Address :
                 \/ Withdraw(caller, receiver, owner, given)
                 \/ Redeem(caller, receiver, owner, given)
    BY DEF VaultStep
  <1>3. caller \in Callers /\ given \in Nat /\ given \in Amount
    BY <1>1, VaultValues DEF Amount
  <1>4. given * S \in Nat /\ given * A \in Nat
    BY <1>1, <1>3
  <1>5. \A q \in Nat : Priced(q) => q \in Amount
    BY <1>1 DEF Priced, Amount
  <1>6. CASE Deposit(caller, receiver, given)
    <2> DEFINE shares == PreviewDeposit(given)
    <2>1. shares = DivDown(given * S, A)
      BY DEF PreviewDeposit, ConvertToShares
    <2>2. shares \in Nat /\ shares * A <= given * S
      BY <1>1, <1>4, <2>1, DownBound
    <2>3. DepositCommon(caller, receiver, given, shares) /\ Priced(shares)
      BY <1>6 DEF Deposit
    <2>4. Deposited(caller, receiver, given, shares) /\ shares \in Amount
      BY <1>5, <2>2, <2>3 DEF Deposited
    <2> QED
      BY <1>3, <2>4
  <1>7. CASE MintShares(caller, receiver, given)
    <2> DEFINE amount == PreviewMint(given)
    <2>1. amount = DivUp(given * A, S)
      BY DEF PreviewMint
    <2>2. amount \in Nat /\ given * A <= amount * S
      BY <1>1, <1>4, <2>1, UpBound
    <2>3. DepositCommon(caller, receiver, amount, given) /\ Priced(amount)
      BY <1>7 DEF MintShares
    <2>4. Deposited(caller, receiver, amount, given) /\ amount \in Amount
      BY <1>5, <2>2, <2>3 DEF Deposited
    <2> QED
      BY <1>3, <2>4
  <1>8. ASSUME NEW owner \in Address, Withdraw(caller, receiver, owner, given)
        PROVE  \E amount, shares \in Amount :
                  Withdrawn(caller, receiver, owner, amount, shares)
    <2> DEFINE shares == PreviewWithdraw(given)
    <2>1. shares = DivUp(given * S, A)
      BY DEF PreviewWithdraw
    <2>2. shares \in Nat /\ given * S <= shares * A
      BY <1>1, <1>4, <2>1, UpBound
    <2>3. WithdrawCommon(caller, receiver, owner, given, shares)
          /\ Priced(shares)
      BY <1>8 DEF Withdraw
    <2>4. Withdrawn(caller, receiver, owner, given, shares)
          /\ shares \in Amount
      BY <1>5, <2>2, <2>3 DEF Withdrawn
    <2> QED
      BY <1>3, <2>4
  <1>9. ASSUME NEW owner \in Address, Redeem(caller, receiver, owner, given)
        PROVE  \E amount, shares \in Amount :
                  Withdrawn(caller, receiver, owner, amount, shares)
    <2> DEFINE amount == PreviewRedeem(given)
    <2>1. amount = DivDown(given * A, S)
      BY DEF PreviewRedeem, ConvertToAssets
    <2>2. amount \in Nat /\ amount * S <= given * A
      BY <1>1, <1>4, <2>1, DownBound
    <2>3. WithdrawCommon(caller, receiver, owner, amount, given)
          /\ Priced(amount)
      BY <1>9 DEF Redeem
    <2>4. Withdrawn(caller, receiver, owner, amount, given)
          /\ amount \in Amount
      BY <1>5, <2>2, <2>3 DEF Withdrawn
    <2> QED
      BY <1>3, <2>4
  <1> QED
    BY <1>2, <1>3, <1>6, <1>7, <1>8, <1>9

\* A move of the asset keeps the asset's state well typed.
AssetsOK ==
    /\ assets \in [Address -> Nat]
    /\ assetPaused \in BOOLEAN
    /\ assetDenied \subseteq Address

\* The shares are a token whose books are kept.
SharesOK == TokenInv /\ totalSupply = SumFunction(balances)

\* The invariant is one part for the asset and one for the shares.
LEMMA VInvParts == VInv <=> AssetsOK /\ SharesOK
  BY DEF VInv, AssetsOK, SharesOK, VaultTypeOK, TokenInv

\* The shares' part of a deposit.
LEMMA CreateKeepsShares ==
    ASSUME SharesOK, NEW to \in Address, NEW amount \in Amount,
           Create(to, amount),
           UNCHANGED <<rolesVars, allowances, accessRegistry, denied>>
    PROVE  SharesOK' /\ totalSupply' = totalSupply + amount
  <1>1. TypeOK /\ UNCHANGED <<members, paused>>
    BY DEF SharesOK, TokenInv, rolesVars
  <1>2. /\ balances' \in [Address -> Nat]
        /\ totalSupply' \in Int /\ totalSupply' <= MaxUint
        /\ totalSupply' = totalSupply + amount
    BY <1>1, CreateEffect
  <1>3. SumFunction(balances') = SumFunction(balances) + amount
    BY <1>1, CreateSum
  <1>4. RolesTypeOK' /\ AdminRemains' /\ PauseIsRecoverable'
    BY <1>1 DEF SharesOK, TokenInv, TypeOK, RolesTypeOK, AdminRemains,
                PauseIsRecoverable
  <1>5. TypeOK'
    BY <1>1, <1>2, <1>4 DEF TypeOK
  <1>6. totalSupply' = SumFunction(balances')
    BY <1>2, <1>3 DEF SharesOK
  <1> QED
    BY <1>2, <1>4, <1>5, <1>6 DEF SharesOK, TokenInv

\* The shares' part of a withdrawal.
LEMMA DestroyKeepsShares ==
    ASSUME SharesOK, NEW from \in Address, NEW amount \in Amount,
           Destroy(from, amount), allowances' \in [Address -> [Address -> Amount]],
           UNCHANGED <<rolesVars, accessRegistry, denied>>
    PROVE  SharesOK' /\ totalSupply' = totalSupply - amount
  <1>1. TypeOK /\ UNCHANGED <<members, paused>>
    BY DEF SharesOK, TokenInv, rolesVars
  <1>2. /\ balances' \in [Address -> Nat]
        /\ totalSupply' \in Int /\ totalSupply' <= MaxUint
        /\ totalSupply' = totalSupply - amount
    BY <1>1, DestroyEffect DEF Destroy
  <1>3. SumFunction(balances') = SumFunction(balances) - amount
    BY <1>1, DestroySum
  <1>4. RolesTypeOK' /\ AdminRemains' /\ PauseIsRecoverable'
    BY <1>1 DEF SharesOK, TokenInv, TypeOK, RolesTypeOK, AdminRemains,
                PauseIsRecoverable
  <1>5. TypeOK'
    BY <1>1, <1>2, <1>4 DEF TypeOK
  <1>6. totalSupply' = SumFunction(balances')
    BY <1>2, <1>3 DEF SharesOK
  <1> QED
    BY <1>2, <1>4, <1>5, <1>6 DEF SharesOK, TokenInv

PriceFalls ==
    (TotalAssets' + 1) * (totalSupply + 1)
        < (TotalAssets + 1) * (totalSupply' + 1)

\* A step in which no more value goes out than comes in.
LEMMA FairStep ==
    ASSUME VInv, NEW da \in Int, NEW ds \in Int,
           TotalAssets' = TotalAssets + da, totalSupply' = totalSupply + ds,
           ds * (TotalAssets + 1) <= da * (totalSupply + 1)
    PROVE  ~PriceFalls
  <1> DEFINE a == TotalAssets + 1
             s == totalSupply + 1
  <1>1. a \in Int /\ s \in Int
    BY VaultValues
  <1>2. a + da = TotalAssets' + 1 /\ s + ds = totalSupply' + 1
    BY VaultValues
  <1>3. ds * a <= da * s
    OBVIOUS
  <1>4. PriceFalls <=> (a + da) * s < a * (s + ds)
    BY <1>2 DEF PriceFalls
  <1> HIDE DEF a, s
  <1>5. a * (s + ds) <= (a + da) * s
    BY <1>1, <1>3, PriceKept
  <1>6. a * (s + ds) \in Int /\ (a + da) * s \in Int
    BY <1>1
  <1> DEFINE x == a * (s + ds)
             y == (a + da) * s
  <1>7. x \in Int /\ y \in Int /\ x <= y /\ (PriceFalls <=> y < x)
    BY <1>4, <1>5, <1>6
  <1> HIDE DEF x, y
  <1> QED
    BY <1>7

\* A deposit keeps the invariant, and the price does not fall.
LEMMA DepositedKeeps ==
    ASSUME VInv, NEW caller \in Callers, NEW receiver \in Address,
           NEW amount \in Amount, NEW shares \in Amount,
           Deposited(caller, receiver, amount, shares)
    PROVE  VInv' /\ ~PriceFalls
  <1>1. /\ AssetMove(caller, Self, amount) /\ Create(receiver, shares)
        /\ UNCHANGED <<rolesVars, allowances, accessRegistry, denied>>
        /\ shares * (TotalAssets + 1) <= amount * (totalSupply + 1)
    BY DEF Deposited, DepositCommon
  <1>2. SharesOK' /\ totalSupply' = totalSupply + shares
    BY <1>1, CreateKeepsShares, VInvParts
  <1>3. /\ Shift(caller, Self, amount) /\ UNCHANGED <<assetPaused, assetDenied>>
        /\ caller \in Address /\ caller # Self /\ amount \in Nat
        /\ shares \in Nat /\ Self \in Address
    BY <1>1, VaultValues DEF AssetMove, Shift, Amount
  <1>4. assets' \in [Address -> Nat] /\ TotalAssets' = TotalAssets + amount
    BY <1>3, ShiftEffect, VaultValues
  <1>5. AssetsOK'
    BY <1>3, <1>4, VInvParts DEF AssetsOK
  <1>6. VInv'
    BY <1>2, <1>5 DEF VInv, AssetsOK, SharesOK, VaultTypeOK, TokenInv
  <1> QED
    BY <1>1, <1>2, <1>3, <1>4, <1>6, FairStep

\* Nor does it at a withdrawal.
LEMMA WithdrawnKeeps ==
    ASSUME VInv, NEW caller \in Callers, NEW receiver \in Address,
           NEW owner \in Address, NEW amount \in Amount, NEW shares \in Amount,
           Withdrawn(caller, receiver, owner, amount, shares)
    PROVE  VInv' /\ ~PriceFalls
  <1>1. /\ AssetMove(Self, receiver, amount) /\ Destroy(owner, shares)
        /\ UNCHANGED allowances \/ SpendAllowance(owner, caller, shares)
        /\ UNCHANGED <<rolesVars, accessRegistry, denied>>
        /\ amount * (totalSupply + 1) <= shares * (TotalAssets + 1)
    BY DEF Withdrawn, WithdrawCommon
  <1>2. allowances' \in [Address -> [Address -> Amount]]
    <2>1. TypeOK /\ caller \in Address
      BY VaultValues DEF VInv, TokenInv
    <2>2. CASE UNCHANGED allowances
      BY <2>1, <2>2 DEF TypeOK
    <2>3. CASE SpendAllowance(owner, caller, shares)
      BY <2>1, <2>3, AllowanceType
    <2> QED
      BY <1>1, <2>2, <2>3
  <1>3. SharesOK' /\ totalSupply' = totalSupply - shares
    BY <1>1, <1>2, DestroyKeepsShares, VInvParts
  <1>4. /\ Shift(Self, receiver, amount)
        /\ UNCHANGED <<assetPaused, assetDenied>>
        /\ amount \in Nat /\ shares \in Nat /\ Self \in Address
    BY <1>1, VaultValues DEF AssetMove, Shift, Amount
  <1>5. /\ assets' \in [Address -> Nat]
        /\ receiver # Self => TotalAssets' = TotalAssets - amount
        /\ receiver = Self => TotalAssets' = TotalAssets
    BY <1>4, ShiftEffect, VaultValues
  <1>6. AssetsOK'
    BY <1>4, <1>5, VInvParts DEF AssetsOK
  <1>7. VInv'
    BY <1>3, <1>6 DEF VInv, AssetsOK, SharesOK, VaultTypeOK, TokenInv
  <1>8. TotalAssets \in Nat /\ totalSupply \in Nat
    BY VaultValues
  <1>9. totalSupply' = totalSupply + (-shares)
    BY <1>3, <1>4, <1>8
  <1>10. CASE receiver # Self
    <2>1. TotalAssets' = TotalAssets + (-amount)
      BY <1>4, <1>5, <1>8, <1>10
    <2>2. (-shares) * (TotalAssets + 1) <= (-amount) * (totalSupply + 1)
      BY <1>1, <1>4, <1>8
    <2>3. -shares \in Int /\ -amount \in Int
      BY <1>4
    <2> QED
      BY <1>7, <1>9, <2>1, <2>2, <2>3, FairStep
  <1>11. CASE receiver = Self
    <2>1. TotalAssets' = TotalAssets + 0
      BY <1>5, <1>8, <1>11
    <2>2. (-shares) * (TotalAssets + 1) <= 0 * (totalSupply + 1)
      <3>1. shares * (TotalAssets + 1) \in Nat
        BY <1>4, <1>8
      <3> QED
        BY <1>4, <1>8, <3>1
    <2>3. -shares \in Int /\ 0 \in Int
      BY <1>4
    <2> QED
      BY <1>7, <1>9, <2>1, <2>2, <2>3, FairStep
  <1> QED
    BY <1>10, <1>11

\* Whatever else moves the asset keeps the shares.
LEMMA AssetsMoved ==
    ASSUME VInv, UNCHANGED vars, AssetsOK'
    PROVE  VInv'
  <1>1. UNCHANGED <<members, paused, balances, totalSupply, allowances,
                    accessRegistry, denied>>
    BY DEF vars
  <1>2. SharesOK'
    BY <1>1, VInvParts DEF SharesOK, TokenInv, TypeOK, RolesTypeOK,
       AdminRemains, PauseIsRecoverable
  <1> QED
    BY <1>2 DEF VInv, AssetsOK, SharesOK, VaultTypeOK, TokenInv

\* What can make the price fall.
Explained ==
    \/ /\ TotalAssets' = TotalAssets
       /\ members["MINTER_ROLE"] \union members["ADAPTER_ROLE"] # {}
    \/ /\ totalSupply' = totalSupply
       /\ members["SALVAGE_ROLE"] # {} \/ Self \in assetDenied

\* The asset moves alone: the price falls only when the vault pays.
LEMMA ShiftKeeps ==
    ASSUME VInv, UNCHANGED vars, UNCHANGED <<assetPaused, assetDenied>>,
           NEW from \in Address, NEW to \in Address, NEW amount \in Nat,
           Shift(from, to, amount)
    PROVE  /\ VInv' /\ totalSupply' = totalSupply
           /\ from # Self => ~PriceFalls
  <1>1. totalSupply' = totalSupply
    BY DEF vars
  <1>2. /\ assets' \in [Address -> Nat]
        /\ from # Self => \/ TotalAssets' = TotalAssets
                          \/ TotalAssets' = TotalAssets + amount
    BY ShiftEffect, VaultValues
  <1>3. AssetsOK'
    BY <1>2, VInvParts DEF AssetsOK
  <1>4. VInv'
    BY <1>3, AssetsMoved
  <1>5. TotalAssets \in Nat /\ totalSupply \in Nat
    BY VaultValues
  <1>6. ASSUME from # Self PROVE ~PriceFalls
    <2>1. PICK da \in Nat : TotalAssets' = TotalAssets + da
      <3>1. TotalAssets' = TotalAssets + 0 \/ TotalAssets' = TotalAssets + amount
        BY <1>2, <1>5, <1>6
      <3> QED
        BY <3>1
    <2>2. totalSupply' = totalSupply + 0 /\ 0 \in Int /\ da \in Int
      BY <1>1, <1>5
    <2>3. 0 * (TotalAssets + 1) <= da * (totalSupply + 1)
      <3>1. da * (totalSupply + 1) \in Nat
        BY <1>5
      <3> QED
        BY <1>5, <3>1
    <2> QED
      BY <2>1, <2>2, <2>3, FairStep
  <1> QED
    BY <1>1, <1>4, <1>6

\* A salvage may lower the price, and needs a salvager.
LEMMA SalvageKeeps ==
    ASSUME VInv, NEW caller \in Callers, NEW amount \in Amount,
           SalvageAssets(caller, amount)
    PROVE  VInv' /\ Explained
  <1>1. /\ Shift(Self, caller, amount)
        /\ UNCHANGED <<assetPaused, assetDenied>> /\ UNCHANGED vars
        /\ caller \in Address /\ amount \in Nat
        /\ members["SALVAGE_ROLE"] # {}
    BY VaultValues DEF SalvageAssets, AssetMove, Shift, HasRole, Amount
  <1>2. Self \in Address
    BY VaultValues
  <1>3. VInv' /\ totalSupply' = totalSupply
    BY <1>1, <1>2, ShiftKeeps
  <1> QED
    BY <1>1, <1>3 DEF Explained

\* Payments, recoveries and outages of the asset.
LEMMA AssetStepKeeps ==
    ASSUME VInv, AssetStep
    PROVE  VInv' /\ (PriceFalls => Explained)
  <1>1. ASSUME NEW from \in Depositors, NEW to \in Address,
               NEW amount \in Amount, AssetPay(from, to, amount)
        PROVE  VInv' /\ ~PriceFalls
    <2>1. /\ Shift(from, to, amount)
          /\ UNCHANGED <<assetPaused, assetDenied>> /\ UNCHANGED vars
          /\ from \in Address /\ from # Self /\ amount \in Nat
      BY <1>1, VaultValues DEF AssetPay, AssetMove, Shift, Amount
    <2> QED
      BY <2>1, ShiftKeeps
  <1>2. ASSUME NEW account \in Listable, NEW agent \in Depositors,
               NEW amount \in Amount, AssetRecover(account, agent, amount)
        PROVE  VInv' /\ (PriceFalls => Explained)
    <2>1. /\ Shift(account, agent, amount)
          /\ UNCHANGED <<assetPaused, assetDenied>> /\ UNCHANGED vars
          /\ account \in Address /\ agent \in Address /\ amount \in Nat
          /\ account \in assetDenied
      BY <1>2, VaultValues, FrontierTokenAssumption
         DEF AssetRecover, Shift, Amount
    <2>2. VInv' /\ totalSupply' = totalSupply /\ (account # Self => ~PriceFalls)
      BY <2>1, ShiftKeeps
    <2> QED
      BY <2>1, <2>2 DEF Explained
  <1>3. ASSUME AssetAdmin PROVE VInv' /\ ~PriceFalls
    <2>1. /\ UNCHANGED assets /\ UNCHANGED vars
          /\ assetPaused' \in BOOLEAN
          /\ assetDenied' \subseteq Address
      BY <1>3, VInvParts, FrontierTokenAssumption DEF AssetAdmin, AssetsOK
    <2>2. AssetsOK'
      BY <2>1, VInvParts DEF AssetsOK
    <2>3. VInv'
      BY <2>1, <2>2, AssetsMoved
    <2>4. TotalAssets \in Nat /\ totalSupply \in Nat
      BY VaultValues
    <2>5. TotalAssets' = TotalAssets + 0 /\ totalSupply' = totalSupply + 0
      BY <2>1, <2>4 DEF TotalAssets, vars
    <2>6. 0 * (TotalAssets + 1) <= 0 * (totalSupply + 1) /\ 0 \in Int
      BY <2>4
    <2> QED
      BY <2>3, <2>5, <2>6, FairStep
  <1> QED
    BY <1>1, <1>2, <1>3 DEF AssetStep

\* Of the token's own calls only a mint, by a minter or an adapter, adds to
\* the supply.
LEMMA SupplyGrowsByMint ==
    ASSUME VInv, Next, totalSupply' > totalSupply
    PROVE  members["MINTER_ROLE"] \union members["ADAPTER_ROLE"] # {}
  <1>1. totalSupply \in Nat
    BY VaultValues
  <1>2. totalSupply' # totalSupply
    BY <1>1
  <1>3. IssuerStep \/ AdapterStep
    <2>1. ~RolesStep /\ ~RegistryStep
      BY <1>2 DEF RolesStep, RegistryStep, tokenVars
    <2>2. ~HolderStep
      BY <1>2, HolderEffect DEF Move
    <2>3. ~ApprovalStep
      BY <1>2, ApprovalEffect DEF VInv, TokenInv
    <2>4. ~RegistryUpdateStep
      BY <1>2 DEF RegistryUpdateStep, AccessRegistryUpdate, ledgerVars
    <2> QED
      BY <2>1, <2>2, <2>3, <2>4 DEF Next, TokenNext, HolderStep
  <1>4. \A from, amount : amount \in Amount => ~Destroy(from, amount)
    BY <1>1 DEF Destroy, Amount
  <1>5. \A from, to, amount : ~Move(from, to, amount)
    BY <1>2 DEF Move
  <1>6. CASE IssuerStep
    <2>1. PICK caller \in Callers, account \in Address, amount \in Amount :
             \/ Mint(caller, account, amount)
             \/ Burn(caller, amount)
             \/ RecoverTokens(caller, account, amount)
             \/ SalvageERC20(caller, amount)
      BY <1>6 DEF IssuerStep
    <2>2. Mint(caller, account, amount)
      BY <1>4, <1>5, <2>1 DEF Burn, RecoverTokens, SalvageERC20, Transfer
    <2> QED
      BY <2>2 DEF Mint, HasRole
  <1>7. CASE AdapterStep
    BY <1>7, AdapterEffect DEF HasRole
  <1> QED
    BY <1>3, <1>6, <1>7

\* The calls that the vault inherits from the token.
LEMMA TokenCallKeeps ==
    ASSUME VInv, Next, UNCHANGED assetVars
    PROVE  VInv' /\ (PriceFalls => Explained)
  <1>1. UNCHANGED <<assets, assetPaused, assetDenied>>
    BY DEF assetVars
  <1>2. AssetsOK' /\ TotalAssets' = TotalAssets
    BY <1>1, VInvParts DEF AssetsOK, TotalAssets
  <1>3. TokenInv' /\ totalSupply' = SumFunction(balances')
    BY TokenStep, BooksKept DEF VInv, TokenInv
  <1>4. VInv'
    BY <1>2, <1>3 DEF VInv, AssetsOK, VaultTypeOK, TokenInv
  <1>5. TotalAssets \in Nat /\ totalSupply \in Nat /\ totalSupply' \in Int
    BY <1>3, VaultValues DEF TokenInv, TypeOK
  <1>6. ASSUME totalSupply' <= totalSupply PROVE ~PriceFalls
    <2>0. \A x, y \in Int : y <= x => \E z \in Int : z <= 0 /\ y = x + z
      <3> SUFFICES ASSUME NEW x \in Int, NEW y \in Int, y <= x
                   PROVE  y - x \in Int /\ y - x <= 0 /\ y = x + (y - x)
        OBVIOUS
      <3> QED
        OBVIOUS
    <2>1. PICK ds \in Int : ds <= 0 /\ totalSupply' = totalSupply + ds
      <3>1. totalSupply \in Int
        BY <1>5
      <3> QED
        BY <1>5, <1>6, <2>0, <3>1, Zenon
    <2>2. TotalAssets' = TotalAssets + 0 /\ 0 \in Int
      BY <1>2, <1>5
    <2>3. ds * (TotalAssets + 1) <= 0 * (totalSupply + 1)
      <3>1. ds * (TotalAssets + 1) <= 0 * (TotalAssets + 1)
        BY <1>5, <2>1, ProductMonotone
      <3> QED
        BY <1>5, <3>1
    <2> QED
      BY <2>1, <2>2, <2>3, FairStep
  <1>7. CASE totalSupply' > totalSupply
    BY <1>2, <1>4, <1>7, SupplyGrowsByMint DEF Explained
  <1> QED
    BY <1>4, <1>5, <1>6, <1>7

\* Every step of the vault and of its asset.
LEMMA VaultNextKeeps ==
    ASSUME VInv, VaultNext
    PROVE  VInv' /\ (PriceFalls => Explained)
  <1>1. CASE VaultStep
    BY <1>1, VaultStepEffect, DepositedKeeps, WithdrawnKeeps
  <1>2. ASSUME NEW caller \in Callers, NEW amount \in Amount,
               SalvageAssets(caller, amount)
        PROVE  VInv' /\ (PriceFalls => Explained)
    BY <1>2, SalvageKeeps
  <1> QED
    BY <1>1, <1>2, AssetStepKeeps, TokenCallKeeps DEF VaultNext

\* The vault starts with the invariant.
LEMMA VaultInitInv == VaultInit => VInv
  <1> SUFFICES ASSUME VaultInit PROVE VInv
    OBVIOUS
  <1>1. TokenInv
    BY TokenInit DEF VaultInit
  <1>2. IsFiniteSet(Address) /\ balances = [a \in Address |-> 0]
        /\ totalSupply = 0
    BY FrontierTokenAssumption DEF VaultInit, Init
  <1>3. SumFunction(balances) = 0
    <2>1. SumFunction(balances) = SumFunctionOnSet(balances, Address)
          /\ \A a \in Address : balances[a] = 0
      BY <1>2 DEF SumFunction
    <2> QED
      BY <1>2, <2>1, SumZero
  <1>4. AssetsOK
    BY FrontierVaultAssumption DEF VaultInit, AssetsOK
  <1> QED
    BY <1>1, <1>2, <1>3, <1>4 DEF VInv, AssetsOK, VaultTypeOK, TokenInv

\* And never loses it.
LEMMA VaultInvariant == VaultSpec => []VInv
  <1>1. VaultInit => VInv
    BY VaultInitInv
  <1>2. VInv /\ [VaultNext]_vaultVars => VInv'
    <2> SUFFICES ASSUME VInv, UNCHANGED vaultVars PROVE VInv'
      BY VaultNextKeeps
    <2>1. AssetsOK' /\ UNCHANGED vars
      BY VInvParts DEF vaultVars, assetVars, AssetsOK
    <2> QED
      BY <2>1, AssetsMoved
  <1> QED
    BY <1>1, <1>2, PTL DEF VaultSpec

-----------------------------------------------------------------------------
(* The theorems.                                                           *)

\* The vault and the asset it sees keep their types: whatever is rounded,
\* neither a balance of shares nor one of the asset is ever negative.
THEOREM VaultTypeCorrect == VaultSpec => []VaultTypeOK
  <1>1. VInv => VaultTypeOK
    BY DEF VInv
  <1> QED
    BY <1>1, VaultInvariant, PTL

\* No deposit, mint, withdrawal, redemption, payment or outage takes value
\* from a share: only an unbacked mint, a salvage or a recovery can.
THEOREM VaultSharePrice == VaultSpec => SharePriceNeverFalls
  <1>1. VInv /\ [VaultNext]_vaultVars => [PriceFalls => Explained]_vaultVars
    BY VaultNextKeeps
  <1> QED
    BY <1>1, VaultInvariant, PTL
       DEF VaultSpec, SharePriceNeverFalls, PriceFalls, Explained

\* All holders together can claim no more than the vault has.
THEOREM VaultClaimsCovered == VaultSpec => []ClaimsAreCovered
  <1>1. VInv => ClaimsAreCovered
    <2> SUFFICES ASSUME VInv PROVE ClaimsAreCovered
      OBVIOUS
    <2> DEFINE S == totalSupply + 1
               A == TotalAssets + 1
               claims == [a \in Address |-> ConvertToAssets(balances[a])]
    <2>1. S \in Nat \ {0} /\ A \in Nat \ {0}
      BY VaultValues
    <2>2. ASSUME NEW a \in Address
          PROVE  /\ claims[a] \in Nat /\ balances[a] \in Nat
                 /\ S * claims[a] <= A * balances[a]
      <3>1. balances[a] \in Nat /\ balances[a] * A \in Nat
        BY <2>1, VaultValues
      <3>2. claims[a] = DivDown(balances[a] * A, S)
        BY DEF ConvertToAssets
      <3>3. claims[a] \in Nat /\ claims[a] * S <= balances[a] * A
        BY <2>1, <3>1, <3>2, DownBound
      <3> HIDE DEF S, A, claims
      <3> QED
        BY <2>1, <3>1, <3>3
    <2> DEFINE total == SumFunctionOnSet(claims, Address)
               held == SumFunctionOnSet(balances, Address)
    <2>3. IsFiniteSet(Address) /\ DOMAIN claims = Address
          /\ DOMAIN balances = Address
      BY VaultValues DEF VInv, VaultTypeOK, TypeOK
    <2> HIDE DEF S, A, claims
    <2>4. S * total <= A * held /\ total \in Nat /\ held \in Nat
      BY <2>1, <2>2, <2>3, SumProportion, SumNat
    <2>5. held = totalSupply
      BY <2>3 DEF VInv, SumFunction
    <2>6. SumFunction(claims) = total
      BY <2>3 DEF SumFunction
    <2> HIDE DEF total, held
    <2>7. totalSupply \in Nat /\ TotalAssets \in Nat
      BY VaultValues
    <2>8. total < A
      <3>1. SUFFICES ASSUME total >= A PROVE FALSE
        BY <2>1, <2>4
      <3>2. A * S <= total * S
        BY <2>1, <2>4, <3>1, ProductMonotone
      <3>3. A * S = A * totalSupply + A
        BY <2>1, <2>7 DEF S
      <3>4. A * totalSupply \in Nat /\ total * S = S * total
        BY <2>1, <2>4, <2>7
      <3>5. A * totalSupply + A <= A * totalSupply
        BY <2>1, <2>4, <2>5, <3>2, <3>3, <3>4
      <3> DEFINE x == A * totalSupply
      <3>6. x \in Nat /\ x + A <= x
        BY <3>4, <3>5
      <3> HIDE DEF x
      <3> QED
        BY <2>1, <3>6
    <2>9. total <= TotalAssets
      BY <2>4, <2>7, <2>8 DEF A
    <2> QED
      BY <2>6, <2>9 DEF ClaimsAreCovered, claims
  <1> QED
    BY <1>1, VaultInvariant, PTL

\* What maxWithdraw promises, the owner's shares pay for.
THEOREM VaultMaxWithdraw == VaultSpec => []MaxWithdrawIsAffordable
  <1>1. VInv => MaxWithdrawIsAffordable
    <2> SUFFICES ASSUME VInv, NEW owner \in Address
                 PROVE  PreviewWithdraw(MaxWithdraw(owner)) <= balances[owner]
      BY DEF MaxWithdrawIsAffordable
    <2> DEFINE S == totalSupply + 1
               A == TotalAssets + 1
               b == balances[owner]
               most == MaxWithdraw(owner)
    <2>1. S \in Nat \ {0} /\ A \in Nat \ {0} /\ b \in Nat
      BY VaultValues
    <2>2. b * A \in Nat
      BY <2>1
    <2>3. most = DivDown(b * A, S)
      BY DEF MaxWithdraw, ConvertToAssets
    <2>4. most \in Nat /\ most * S <= b * A
      BY <2>1, <2>2, <2>3, DownBound
    <2>5. most * S \in Nat
      BY <2>1, <2>4
    <2>6. DivUp(most * S, A) <= b
      BY <2>1, <2>4, <2>5, UpBound
    <2> QED
      BY <2>6 DEF PreviewWithdraw
  <1> QED
    BY <1>1, VaultInvariant, PTL

\* A call of a holder touches no frozen wallet's shares, none goes through
\* while the vault is paused, and none changes the roles or the registry.
LEMMA VaultStepRespects ==
    ASSUME VInv, VaultStep
    PROVE  /\ ~paused
           /\ \A a \in Address : Frozen(a) => balances'[a] = balances[a]
  <1>1. PICK caller \in Callers, receiver \in Address, owner \in Address,
             amount \in Amount, shares \in Amount :
           \/ DepositCommon(caller, receiver, amount, shares)
           \/ WithdrawCommon(caller, receiver, owner, amount, shares)
    BY VaultStepEffect DEF Deposited, Withdrawn
  <1>2. TypeOK
    BY DEF VInv, VaultTypeOK
  <1>3. CASE DepositCommon(caller, receiver, amount, shares)
    <2>1. HasAccess(receiver) /\ Create(receiver, shares)
      BY <1>3 DEF DepositCommon
    <2> QED
      BY <1>2, <2>1, CreateEffect DEF Create, Frozen
  <1>4. CASE WithdrawCommon(caller, receiver, owner, amount, shares)
    <2>1. HasAccess(owner) /\ Destroy(owner, shares)
      BY <1>4 DEF WithdrawCommon
    <2> QED
      BY <1>2, <2>1, DestroyEffect DEF Destroy, Frozen
  <1> QED
    BY <1>1, <1>3, <1>4

\* Salvage and the asset's own steps leave the shares alone.
LEMMA AssetLeavesShares ==
    ASSUME \/ AssetStep
           \/ \E caller \in Callers, amount \in Amount :
                 SalvageAssets(caller, amount)
    PROVE  UNCHANGED vars
  BY DEF AssetStep, AssetPay, AssetRecover, AssetAdmin, SalvageAssets

\* The freeze of a wallet holds in the vault as in the token: no deposit,
\* withdrawal or redemption, with an allowance from before, takes its shares.
THEOREM VaultFrozenKeepsTokens == VaultSpec => FrozenKeepsTokens
  <1>1. ASSUME VInv, VaultNext, NEW a \in Address
        PROVE  UNCHANGED vars \/ FrozenKept(a)
    <2>1. TypeOK /\ balances[a] \in Nat
      BY <1>1 DEF VInv, VaultTypeOK, TypeOK
    <2>2. CASE VaultStep
      BY <1>1, <2>1, <2>2, VaultStepRespects DEF FrozenKept
    <2>3. CASE Next
      BY <1>1, <2>1, <2>3, FrozenKeptByCall
    <2> QED
      BY <1>1, <2>2, <2>3, AssetLeavesShares DEF VaultNext
  <1>2. VInv /\ [VaultNext]_vaultVars =>
           [\A a \in Address : FrozenKept(a)]_vars
    BY <1>1 DEF vaultVars
  <1> QED
    BY <1>2, VaultInvariant, PTL DEF VaultSpec, FrozenKeepsTokens, FrozenKept

\* Nor do they give it any: what a frozen wallet receives came across chains.
THEOREM VaultFrozenReceivesOnlyByBridge ==
    VaultSpec => FrozenReceivesOnlyByBridge
  <1>1. ASSUME VInv, VaultNext, NEW a \in Address
        PROVE  UNCHANGED vars \/ FrozenCredited(a)
    <2>1. TypeOK /\ balances[a] \in Nat
      BY <1>1 DEF VInv, VaultTypeOK, TypeOK
    <2>2. CASE VaultStep
      BY <1>1, <2>1, <2>2, VaultStepRespects DEF FrozenCredited
    <2>3. CASE Next
      BY <1>1, <2>1, <2>3, FrozenCreditedByCall
    <2> QED
      BY <1>1, <2>2, <2>3, AssetLeavesShares DEF VaultNext
  <1>2. VInv /\ [VaultNext]_vaultVars =>
           [\A a \in Address : FrozenCredited(a)]_vars
    BY <1>1 DEF vaultVars
  <1> QED
    BY <1>2, VaultInvariant, PTL
       DEF VaultSpec, FrozenReceivesOnlyByBridge, FrozenCredited

\* A pause of the vault stops the calls it inherits and those it adds.
THEOREM VaultPauseStopsEverything == VaultSpec => PauseStopsEverything
  <1>1. ASSUME VInv, VaultNext, paused
        PROVE  UNCHANGED <<members, tokenVars>>
    <2>1. TypeOK
      BY <1>1 DEF VInv, VaultTypeOK
    <2>2. CASE Next
      BY <1>1, <2>1, <2>2, PausedStays
    <2>3. CASE UNCHANGED vars
      BY <2>3 DEF vars, tokenVars
    <2> QED
      BY <1>1, <2>2, <2>3, VaultStepRespects, AssetLeavesShares DEF VaultNext
  <1>2. VInv /\ [VaultNext]_vaultVars =>
           [paused => UNCHANGED <<members, tokenVars>>]_vars
    BY <1>1 DEF vaultVars
  <1> QED
    BY <1>2, VaultInvariant, PTL DEF VaultSpec, PauseStopsEverything

\* And it holds the vault's assets, which are in a contract that goes on.
THEOREM VaultPauseHoldsAssets == VaultSpec => PauseHoldsAssets
  <1>1. ASSUME VInv, VaultNext, paused
        PROVE  TotalAssets' < TotalAssets => Self \in assetDenied
    <2>1. TotalAssets \in Nat /\ ~VaultStep
      BY <1>1, VaultStepRespects, VaultValues
    <2>2. CASE UNCHANGED assets
      BY <2>1, <2>2 DEF TotalAssets
    <2>3. ASSUME NEW from \in Depositors, NEW to \in Address,
                 NEW amount \in Amount, AssetPay(from, to, amount)
          PROVE  ~(TotalAssets' < TotalAssets)
      <3>1. /\ Shift(from, to, amount) /\ amount \in Nat
            /\ from \in Address /\ from # Self /\ Self \in Address
            /\ assets \in [Address -> Nat]
        BY <1>1, <2>3, VaultValues DEF AssetPay, AssetMove, Shift, Amount
      <3>2. TotalAssets' = TotalAssets \/ TotalAssets' = TotalAssets + amount
        BY <3>1, ShiftEffect
      <3> QED
        BY <2>1, <3>1, <3>2
    <2>4. ASSUME NEW account \in Listable, NEW agent \in Depositors,
                 NEW amount \in Amount, AssetRecover(account, agent, amount)
          PROVE  TotalAssets' < TotalAssets => Self \in assetDenied
      <3>1. /\ Shift(account, agent, amount) /\ amount \in Nat
            /\ account \in Address /\ account \in assetDenied
            /\ agent \in Address /\ Self \in Address
            /\ assets \in [Address -> Nat]
        BY <1>1, <2>4, VaultValues, FrontierTokenAssumption
           DEF AssetRecover, Shift, Amount
      <3>2. account # Self => \/ TotalAssets' = TotalAssets
                              \/ TotalAssets' = TotalAssets + amount
        BY <3>1, ShiftEffect
      <3> QED
        BY <2>1, <3>1, <3>2
    <2> QED
      BY <1>1, <2>1, <2>2, <2>3, <2>4
         DEF VaultNext, SalvageAssets, AssetStep, AssetAdmin, assetVars
  <1>2. VInv /\ [VaultNext]_vaultVars =>
           [paused /\ TotalAssets' < TotalAssets => Self \in assetDenied
              ]_vaultVars
    BY <1>1
  <1> QED
    BY <1>2, VaultInvariant, PTL DEF VaultSpec, PauseHoldsAssets

-----------------------------------------------------------------------------
(* The history of the allowances.                                          *)

\* The history only observes: its steps are the token's.
LEMMA HistoryIsTokenStep ==
    ASSUME HistoryNext PROVE Next
BY PausableRolesAssumption
   DEF HistoryNext, RecordedApproval, RecordedPull, OtherStep, Next, TokenNext,
       TransferFromStep

\* Outside approvals and pulls no allowance changes.
LEMMA OtherKeepsAllowances ==
    ASSUME OtherStep PROVE UNCHANGED <<allowances, raised, pulled>>
<1>1. CASE RolesStep \/ RegistryUpdateStep \/ RegistryStep
  BY <1>1 DEF OtherStep, historyVars, RolesStep, RegistryUpdateStep,
     AccessRegistryUpdate, RegistryStep, tokenVars
<1>2. CASE IssuerStep \/ AdapterStep
  BY <1>2, IssuerEffect, AdapterEffect DEF OtherStep, historyVars, Unmoved
<1>3. CASE TransferStep
  BY <1>3 DEF OtherStep, historyVars, TransferStep, Transfer
<1>4. QED
  BY <1>1, <1>2, <1>3 DEF OtherStep

HistoryInv == TokenInv /\ HistoryTypeOK /\ PulledWithinApprovals

\* The token never lets a spender pull more than its owner has allowed in all.
THEOREM TokenPulledWithinApprovals == HistorySpec => []PulledWithinApprovals
<1>1. HistoryInit => HistoryInv
  <2>1. SUFFICES ASSUME HistoryInit PROVE HistoryInv
    OBVIOUS
  <2>2. TokenInv
    BY <2>1, TokenInit DEF HistoryInit
  <2>3. \A o, s \in Address :
           allowances[o][s] = 0 /\ raised[o][s] = 0 /\ pulled[o][s] = 0
    BY <2>1 DEF HistoryInit, Init
  <2>4. HistoryTypeOK
    BY <2>1 DEF HistoryInit, HistoryTypeOK
  <2>5. QED
    BY <2>2, <2>3, <2>4 DEF HistoryInv, PulledWithinApprovals
<1>2. HistoryInv /\ [HistoryNext]_<<vars, historyVars>> => HistoryInv'
  <2>1. ASSUME HistoryInv, UNCHANGED <<vars, historyVars>> PROVE HistoryInv'
    <3>1. TokenInv'
      BY <2>1, TokenStep DEF HistoryInv
    <3>2. QED
      BY <2>1, <3>1 DEF HistoryInv, HistoryTypeOK, PulledWithinApprovals, vars,
                        historyVars
  <2>2. SUFFICES ASSUME HistoryInv, HistoryNext PROVE HistoryInv'
    BY <2>1
  <2>3. TokenInv'
    BY <2>2, HistoryIsTokenStep, TokenStep DEF HistoryInv
  <2>4. /\ \A o, s \in Address : /\ allowances[o][s] \in Nat
                                 /\ allowances'[o][s] \in Nat
                                 /\ raised[o][s] \in Nat
                                 /\ pulled[o][s] \in Nat
        /\ \A n \in Amount : n \in Nat
    BY <2>2, <2>3, FrontierTokenAssumption
       DEF HistoryInv, TokenInv, TypeOK, HistoryTypeOK, Amount
  <2>5. CASE RecordedApproval
    <3>1. \A o, s \in Address : /\ raised'[o][s] = raised[o][s] + Raise(o, s)
                                /\ pulled'[o][s] = pulled[o][s]
      BY <2>5 DEF RecordedApproval
    <3>2. \A o, s \in Address :
             /\ Raise(o, s) \in Nat
             /\ allowances'[o][s] <= allowances[o][s] + Raise(o, s)
      BY <2>4 DEF Raise
    <3>3. HistoryTypeOK'
      BY <2>2, <2>4, <2>5, <3>2
         DEF RecordedApproval, HistoryInv, HistoryTypeOK
    <3>4. PulledWithinApprovals'
      <4>1. SUFFICES ASSUME NEW o \in Address, NEW s \in Address
                     PROVE  pulled'[o][s] + allowances'[o][s] <= raised'[o][s]
        BY DEF PulledWithinApprovals
      <4>2. pulled[o][s] + allowances[o][s] <= raised[o][s]
        BY <2>2 DEF HistoryInv, PulledWithinApprovals
      <4>3. QED
        BY <2>4, <3>1, <3>2, <4>2
    <3>5. QED
      BY <2>3, <3>3, <3>4 DEF HistoryInv
  <2>6. CASE RecordedPull
    <3>1. PICK spender \in Callers, from, to \in Address, amount \in Amount :
             /\ SpendAllowance(from, spender, amount)
             /\ IF allowances[from][spender] = MaxUint
                THEN UNCHANGED pulled
                ELSE pulled' = [pulled EXCEPT ![from][spender] = @ + amount]
             /\ UNCHANGED raised
      BY <2>6 DEF RecordedPull, TransferFrom
    <3>2. spender \in Address
      BY PausableRolesAssumption
    <3>3. CASE allowances[from][spender] = MaxUint
      BY <2>2, <2>3, <3>1, <3>3
         DEF SpendAllowance, HistoryInv, HistoryTypeOK, PulledWithinApprovals
    <3>4. CASE allowances[from][spender] # MaxUint
      <4>1. /\ allowances' = [allowances EXCEPT ![from][spender] =
                                  allowances[from][spender] - amount]
            /\ pulled' = [pulled EXCEPT ![from][spender] = @ + amount]
            /\ UNCHANGED raised
        BY <3>1, <3>4 DEF SpendAllowance, SetAllowance
      <4>2. HistoryTypeOK'
        BY <2>2, <2>4, <3>2, <4>1 DEF HistoryInv, HistoryTypeOK
      <4>3. ASSUME NEW o \in Address, NEW s \in Address
            PROVE  pulled'[o][s] + allowances'[o][s] <= raised'[o][s]
        <5>1. pulled[o][s] + allowances[o][s] <= raised[o][s]
          BY <2>2 DEF HistoryInv, PulledWithinApprovals
        <5>2. CASE o = from /\ s = spender
          <6>1. /\ pulled'[o][s] = pulled[o][s] + amount
                /\ allowances'[o][s] = allowances[o][s] - amount
            BY <2>2, <3>2, <4>1, <5>2
               DEF HistoryInv, HistoryTypeOK, TokenInv, TypeOK
          <6>2. QED
            BY <2>4, <4>1, <5>1, <6>1
        <5>3. CASE ~(o = from /\ s = spender)
          <6>1. /\ pulled'[o][s] = pulled[o][s]
                /\ allowances'[o][s] = allowances[o][s]
            BY <2>2, <3>2, <4>1, <5>3
               DEF HistoryInv, HistoryTypeOK, TokenInv, TypeOK
          <6>2. QED
            BY <4>1, <5>1, <6>1
        <5>4. QED
          BY <5>2, <5>3
      <4>4. QED
        BY <2>3, <4>2, <4>3 DEF HistoryInv, PulledWithinApprovals
    <3>5. QED
      BY <3>3, <3>4
  <2>7. CASE OtherStep
    BY <2>2, <2>3, <2>7, OtherKeepsAllowances
       DEF HistoryInv, HistoryTypeOK, PulledWithinApprovals
  <2>8. QED
    BY <2>2, <2>5, <2>6, <2>7 DEF HistoryNext
<1>3. QED
  BY <1>1, <1>2, PTL DEF HistorySpec, HistoryInv
=============================================================================
