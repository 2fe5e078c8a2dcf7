------------------------- MODULE FrontierTokenProofs -------------------------
(***************************************************************************)
(* Theorems about FrontierToken for every set of accounts, roles and       *)
(* registries and every width of the integers: the token is well typed, is *)
(* never without an administrator or stuck in a pause, does nothing while  *)
(* paused, a frozen wallet's tokens leave it only by recovery, and the     *)
(* supply is the sum of the balances.                                      *)
(***************************************************************************)
EXTENDS FrontierToken, Arithmetic

-----------------------------------------------------------------------------
(* What every contract built on PausableRoles inherits: whichever accounts *)
(* hold which roles, an administrator that can send calls always remains,  *)
(* and a pause can always be lifted.  The lemmas are about one step of the *)
(* role layer, so that the proofs of the inheriting contracts cite them.   *)

\* Every step of the role layer keeps the role table and the pause well typed.
LEMMA RolesTypePreserved ==
    ASSUME RolesTypeOK, RolesNext
    PROVE  RolesTypeOK'
<1>1. PICK caller \in Callers :
          \/ \E grant \in Assignments :
                \/ GrantRole(caller, grant[1], grant[2])
                \/ RevokeRole(caller, grant[1], grant[2])
                \/ grant[2] = caller /\ RenounceRole(caller, grant[1])
          \/ Pause(caller)
          \/ Unpause(caller)
  BY DEF RolesNext
<1>2. ASSUME NEW grant \in Assignments,
             \/ GrantRole(caller, grant[1], grant[2])
             \/ RevokeRole(caller, grant[1], grant[2])
             \/ grant[2] = caller /\ RenounceRole(caller, grant[1])
      PROVE  RolesTypeOK'
  <2>1. grant[1] \in Roles /\ grant[2] \in Address
    BY PausableRolesAssumption
  <2>2. CASE GrantRole(caller, grant[1], grant[2])
    BY <2>1, <2>2 DEF RolesTypeOK, GrantRole
  <2>3. CASE RevokeRole(caller, grant[1], grant[2])
    BY <2>1, <2>3 DEF RolesTypeOK, RevokeRole
  <2>4. CASE grant[2] = caller /\ RenounceRole(caller, grant[1])
    BY <2>1, <2>4 DEF RolesTypeOK, RenounceRole
  <2>5. QED
    BY <1>2, <2>2, <2>3, <2>4
<1>3. CASE Pause(caller)
  BY <1>3 DEF RolesTypeOK, Pause
<1>4. CASE Unpause(caller)
  BY <1>4 DEF RolesTypeOK, Unpause
<1>5. QED
  BY <1>1, <1>2, <1>3, <1>4

\* No step of the role layer removes the last administrator: only its own
\* revocation or renunciation could, and both are refused.
LEMMA AdminRemainsPreserved ==
    ASSUME RolesTypeOK, AdminRemains, RolesNext
    PROVE  AdminRemains'
<1>1. PICK caller \in Callers :
          \/ \E grant \in Assignments :
                \/ GrantRole(caller, grant[1], grant[2])
                \/ RevokeRole(caller, grant[1], grant[2])
                \/ grant[2] = caller /\ RenounceRole(caller, grant[1])
          \/ Pause(caller)
          \/ Unpause(caller)
  BY DEF RolesNext
<1>2. ASSUME NEW grant \in Assignments,
             \/ GrantRole(caller, grant[1], grant[2])
             \/ RevokeRole(caller, grant[1], grant[2])
             \/ grant[2] = caller /\ RenounceRole(caller, grant[1])
      PROVE  AdminRemains'
  <2>1. grant[1] \in Roles /\ grant[2] \in Address
    BY PausableRolesAssumption
  <2>2. CASE GrantRole(caller, grant[1], grant[2])
    <3>1. members["DEFAULT_ADMIN_ROLE"] \subseteq members'["DEFAULT_ADMIN_ROLE"]
      BY <2>1, <2>2, PausableRolesAssumption DEF RolesTypeOK, GrantRole
    <3>2. QED
      BY <3>1 DEF AdminRemains
  <2>3. CASE RevokeRole(caller, grant[1], grant[2])
    <3>1. CASE grant[1] = "DEFAULT_ADMIN_ROLE"
      <4>1. caller \in members'["DEFAULT_ADMIN_ROLE"]
        BY <2>1, <2>3, <3>1, PausableRolesAssumption
           DEF RolesTypeOK, RevokeRole, HasRole
      <4>2. QED
        BY <4>1 DEF AdminRemains
    <3>2. CASE grant[1] # "DEFAULT_ADMIN_ROLE"
      <4>1. members'["DEFAULT_ADMIN_ROLE"] = members["DEFAULT_ADMIN_ROLE"]
        BY <2>1, <2>3, <3>2, PausableRolesAssumption
           DEF RolesTypeOK, RevokeRole
      <4>2. QED
        BY <4>1 DEF AdminRemains
    <3>3. QED
      BY <3>1, <3>2
  <2>4. CASE grant[2] = caller /\ RenounceRole(caller, grant[1])
    <3>1. members'["DEFAULT_ADMIN_ROLE"] = members["DEFAULT_ADMIN_ROLE"]
      BY <2>1, <2>4, PausableRolesAssumption DEF RolesTypeOK, RenounceRole
    <3>2. QED
      BY <3>1 DEF AdminRemains
  <2>5. QED
    BY <1>2, <2>2, <2>3, <2>4
<1>3. CASE Pause(caller) \/ Unpause(caller)
  BY <1>3 DEF AdminRemains, Pause, Unpause
<1>4. QED
  BY <1>1, <1>2, <1>3

\* No step of the role layer leaves a paused contract without a pauser: the
\* role table only changes while the contract runs, and a pause is started by
\* an account that holds the role.
LEMMA PauseIsRecoverablePreserved ==
    ASSUME RolesTypeOK, PauseIsRecoverable, RolesNext
    PROVE  PauseIsRecoverable'
<1>1. PICK caller \in Callers :
          \/ \E grant \in Assignments :
                \/ GrantRole(caller, grant[1], grant[2])
                \/ RevokeRole(caller, grant[1], grant[2])
                \/ grant[2] = caller /\ RenounceRole(caller, grant[1])
          \/ Pause(caller)
          \/ Unpause(caller)
  BY DEF RolesNext
<1>2. ASSUME NEW grant \in Assignments,
             \/ GrantRole(caller, grant[1], grant[2])
             \/ RevokeRole(caller, grant[1], grant[2])
             \/ grant[2] = caller /\ RenounceRole(caller, grant[1])
      PROVE  paused' = FALSE
  BY <1>2 DEF RolesTypeOK, GrantRole, RevokeRole, RenounceRole
<1>3. CASE Pause(caller)
  <2>1. caller \in members'["PAUSER_ROLE"]
    BY <1>3 DEF Pause, HasRole
  <2>2. QED
    BY <2>1 DEF PauseIsRecoverable
<1>4. CASE Unpause(caller)
  BY <1>4 DEF PauseIsRecoverable, Unpause
<1>5. QED
  BY <1>1, <1>2, <1>3, <1>4 DEF PauseIsRecoverable

\* An initializer that grants DEFAULT_ADMIN_ROLE to an account that can send
\* calls establishes all three.
LEMMA RolesEstablished ==
    ASSUME NEW admin \in Callers, NEW grants,
           <<"DEFAULT_ADMIN_ROLE", admin>> \in grants,
           members = InitialMembers(grants), paused = FALSE
    PROVE  RolesTypeOK /\ AdminRemains /\ PauseIsRecoverable
<1>1. RolesTypeOK
  BY DEF RolesTypeOK, InitialMembers
<1>2. admin \in members["DEFAULT_ADMIN_ROLE"]
  BY PausableRolesAssumption DEF InitialMembers
<1>3. QED
  BY <1>1, <1>2 DEF AdminRemains, PauseIsRecoverable

RolesInv == RolesTypeOK /\ AdminRemains /\ PauseIsRecoverable

\* For every set of accounts and roles, the role layer always keeps an
\* administrator, and a pauser for as long as it is paused.
THEOREM RolesSafe == RolesSpec => []RolesInv
<1>1. RolesInit => RolesInv
  BY RolesEstablished DEF RolesInit, RolesInv
<1>2. RolesInv /\ [RolesNext]_rolesVars => RolesInv'
  <2>1. ASSUME RolesInv, RolesNext PROVE RolesInv'
    BY <2>1, RolesTypePreserved, AdminRemainsPreserved,
       PauseIsRecoverablePreserved DEF RolesInv
  <2>2. ASSUME RolesInv, UNCHANGED rolesVars PROVE RolesInv'
    BY <2>2 DEF RolesInv, RolesTypeOK, AdminRemains, PauseIsRecoverable,
                rolesVars
  <2>3. QED
    BY <2>1, <2>2
<1>3. QED
  BY <1>1, <1>2, PTL DEF RolesSpec

-----------------------------------------------------------------------------
(* The token.                                                              *)

\* A transfer only changes balances, to balances.
LEMMA MoveType ==
    ASSUME TypeOK, NEW from \in Address, NEW to \in Address,
           NEW amount \in Amount, Move(from, to, amount)
    PROVE  balances' \in [Address -> Nat] /\ totalSupply' = totalSupply
<1>1. balances[from] \in Nat /\ amount \in Nat /\ balances[from] >= amount
  BY FrontierTokenAssumption DEF TypeOK, Amount, Move
<1> DEFINE debited == [balances EXCEPT ![from] = @ - amount]
<1>2. debited \in [Address -> Nat]
  BY <1>1 DEF TypeOK
<1>3. balances' = [debited EXCEPT ![to] = @ + amount]
  BY DEF Move
<1> HIDE DEF debited
<1>4. QED
  BY <1>1, <1>2, <1>3 DEF Move

\* A transfer changes nobody's balance but the sender's, which falls, and the
\* receiver's, which rises as much.
LEMMA MoveEffect ==
    ASSUME TypeOK, NEW from \in Address, NEW to \in Address,
           NEW amount \in Amount, Move(from, to, amount), NEW a \in Address
    PROVE  /\ a \notin {from, to} => balances'[a] = balances[a]
           /\ from # to => /\ balances'[from] = balances[from] - amount
                           /\ balances'[to] = balances[to] + amount
           /\ from = to => balances'[from] = balances[from]
<1>1. balances[from] \in Nat /\ balances[to] \in Nat /\ amount \in Nat
  BY FrontierTokenAssumption DEF TypeOK, Amount
<1> DEFINE debited == [balances EXCEPT ![from] = @ - amount]
<1>2. DOMAIN balances = Address /\ DOMAIN debited = Address
  BY DEF TypeOK
<1>3. balances' = [debited EXCEPT ![to] = @ + amount]
  BY DEF Move
<1>4. QED
  BY <1>1, <1>2, <1>3

\* What a mint does to the ledger.
LEMMA CreateEffect ==
    ASSUME TypeOK, NEW to \in Address, NEW amount \in Amount,
           Create(to, amount)
    PROVE  /\ balances' \in [Address -> Nat]
           /\ totalSupply' \in Int /\ totalSupply' <= MaxUint
           /\ totalSupply' = totalSupply + amount
           /\ \A a \in Address \ {to} : balances'[a] = balances[a]
           /\ balances'[to] = balances[to] + amount
BY FrontierTokenAssumption DEF TypeOK, Amount, Create

\* What a burn does to the ledger.
LEMMA DestroyEffect ==
    ASSUME TypeOK, NEW from \in Address, NEW amount \in Amount,
           Destroy(from, amount)
    PROVE  /\ balances' \in [Address -> Nat]
           /\ totalSupply' \in Int /\ totalSupply' <= MaxUint
           /\ \A a \in Address \ {from} : balances'[a] = balances[a]
           /\ balances'[from] = balances[from] - amount
BY FrontierTokenAssumption DEF TypeOK, Amount, Destroy

\* Setting or spending an allowance leaves the allowance table well typed.
LEMMA AllowanceType ==
    ASSUME TypeOK, NEW owner \in Address, NEW spender \in Address,
           NEW amount \in Amount
    PROVE  /\ SetAllowance(owner, spender, amount) =>
                allowances' \in [Address -> [Address -> Amount]]
           /\ SpendAllowance(owner, spender, amount) =>
                allowances' \in [Address -> [Address -> Amount]]
<1>1. ASSUME NEW v \in Amount, SetAllowance(owner, spender, v)
      PROVE  allowances' \in [Address -> [Address -> Amount]]
  BY <1>1 DEF TypeOK, SetAllowance
<1>2. ASSUME allowances[owner][spender] >= amount
      PROVE  allowances[owner][spender] - amount \in Amount
  BY <1>2, FrontierTokenAssumption DEF TypeOK, Amount
<1>3. QED
  BY <1>1, <1>2 DEF TypeOK, SpendAllowance

-----------------------------------------------------------------------------

\* One lemma per group of calls: the step is a transfer, a mint or a burn
\* made by somebody entitled to it, and changes no other part of the state.
Unmoved == UNCHANGED <<allowances, accessRegistry, denied, members, paused>>

\* What the calls of an issuer do to the ledger.
LEMMA IssuerEffect ==
    ASSUME IssuerStep
    PROVE  /\ ~paused
           /\ Unmoved
           /\ \E caller \in Callers, account \in Address, amount \in Amount :
                \/ HasAccess(account) /\ Create(account, amount)
                \/ HasAccess(caller) /\ Destroy(caller, amount)
                \/ /\ HasRole("RECOVERY_ROLE", caller)
                   /\ ~HasAccess(account)
                   /\ Move(account, caller, amount)
                \/ /\ HasAccess(Self) /\ HasAccess(caller)
                   /\ Move(Self, caller, amount)
BY DEF IssuerStep, Mint, Burn, RecoverTokens, SalvageERC20, Transfer, Unmoved,
       rolesVars, Move, Create, Destroy

HolderStep == TransferStep \/ TransferFromStep

\* What the calls of holders and spenders do to it.
LEMMA HolderEffect ==
    ASSUME HolderStep
    PROVE  /\ ~paused
           /\ UNCHANGED <<accessRegistry, denied, members, paused>>
           /\ \E spender \in Callers, from, to \in Address, amount \in Amount :
                /\ HasAccess(from) /\ HasAccess(to)
                /\ Move(from, to, amount)
                /\ \/ UNCHANGED allowances
                   \/ SpendAllowance(from, spender, amount)
BY PausableRolesAssumption
   DEF HolderStep, TransferStep, TransferFromStep, Transfer, TransferFrom,
       rolesVars, Move

\* An approval leaves the ledger alone.
LEMMA ApprovalEffect ==
    ASSUME TypeOK, ApprovalStep
    PROVE  /\ ~paused
           /\ allowances' \in [Address -> [Address -> Amount]]
           /\ UNCHANGED <<balances, totalSupply, accessRegistry, denied,
                          members, paused>>
<1>1. PICK pair \in Approvals, amount \in Amount :
          \/ Approve(pair[1], pair[2], amount)
          \/ Permit(pair[1], pair[2], amount)
          \/ IncreaseAllowance(pair[1], pair[2], amount)
          \/ DecreaseAllowance(pair[1], pair[2], amount)
  BY DEF ApprovalStep
<1>2. pair[1] \in Address /\ pair[2] \in Address
  BY FrontierTokenAssumption
<1>3. /\ ~paused
      /\ UNCHANGED <<balances, totalSupply, accessRegistry, denied,
                     members, paused>>
  BY <1>1 DEF Approve, Permit, IncreaseAllowance, DecreaseAllowance,
              rolesVars, ledgerVars
<1>4. PICK v \in Amount : SetAllowance(pair[1], pair[2], v)
  <2>1. allowances[pair[1]][pair[2]] \in Amount
    BY <1>2 DEF TypeOK
  <2>2. CASE Approve(pair[1], pair[2], amount)
    BY <2>2 DEF Approve
  <2>3. CASE Permit(pair[1], pair[2], amount)
    BY <2>3 DEF Permit, Approve
  <2>4. CASE IncreaseAllowance(pair[1], pair[2], amount)
    <3>1. allowances[pair[1]][pair[2]] + amount \in Amount
      BY <2>1, <2>4, FrontierTokenAssumption DEF IncreaseAllowance, Amount
    <3>2. QED
      BY <2>4, <3>1 DEF IncreaseAllowance
  <2>5. CASE DecreaseAllowance(pair[1], pair[2], amount)
    <3>1. allowances[pair[1]][pair[2]] - amount \in Amount
      BY <2>1, <2>5, FrontierTokenAssumption DEF DecreaseAllowance, Amount
    <3>2. QED
      BY <2>5, <3>1 DEF DecreaseAllowance
  <2>6. QED
    BY <1>1, <2>2, <2>3, <2>4, <2>5
<1>5. QED
  BY <1>2, <1>3, <1>4, AllowanceType

\* What the adapter's hooks do to it.
LEMMA AdapterEffect ==
    ASSUME AdapterStep
    PROVE  /\ ~paused
           /\ Unmoved
           /\ \E adapter \in Callers, account \in Address, amount \in Amount :
                /\ HasRole("ADAPTER_ROLE", adapter)
                /\ \/ HasAccess(account) /\ Destroy(account, amount)
                   \/ Create(account, amount)
                   \/ Move(adapter, account, amount)
BY DEF AdapterStep, AdapterBurn, AdapterMint, AdapterTransfer, Unmoved,
       rolesVars, Move, Create, Destroy

-----------------------------------------------------------------------------

TokenInv == TypeOK /\ AdminRemains /\ PauseIsRecoverable

\* The token starts well formed.
LEMMA TokenInit == Init => TokenInv
<1>1. SUFFICES ASSUME Init PROVE TokenInv
  OBVIOUS
<1>2. RolesTypeOK /\ AdminRemains /\ PauseIsRecoverable
  BY <1>1, RolesEstablished DEF Init
<1>3. TypeOK
  BY <1>1, <1>2, FrontierTokenAssumption DEF Init, TypeOK, Amount
<1>4. QED
  BY <1>2, <1>3 DEF TokenInv

\* And every call keeps it so.
LEMMA TokenStep == TokenInv /\ [Next]_vars => TokenInv'
<1>1. SUFFICES ASSUME TokenInv, [Next]_vars PROVE TokenInv'
  OBVIOUS
<1>2. ASSUME UNCHANGED <<members, paused>>
      PROVE  RolesTypeOK' /\ AdminRemains' /\ PauseIsRecoverable'
  BY <1>1, <1>2 DEF TokenInv, TypeOK, RolesTypeOK, AdminRemains,
                    PauseIsRecoverable
<1>3. CASE RolesStep
  <2>1. RolesTypeOK' /\ AdminRemains' /\ PauseIsRecoverable'
    BY <1>1, <1>3, RolesTypePreserved, AdminRemainsPreserved,
       PauseIsRecoverablePreserved DEF RolesStep, TokenInv, TypeOK
  <2>2. TypeOK'
    BY <1>1, <1>3, <2>1 DEF RolesStep, TokenInv, TypeOK, tokenVars
  <2>3. QED
    BY <2>1, <2>2 DEF TokenInv
<1>4. CASE IssuerStep
  <2>1. /\ Unmoved
        /\ balances' \in [Address -> Nat]
        /\ totalSupply' \in Int /\ totalSupply' <= MaxUint
    <3>1. Self \in Address
      BY FrontierTokenAssumption
    <3>2. PICK caller \in Callers, account \in Address, amount \in Amount :
             \/ Create(account, amount)
             \/ Destroy(caller, amount)
             \/ Move(account, caller, amount)
             \/ Move(Self, caller, amount)
      BY <1>4, IssuerEffect
    <3>3. caller \in Address
      BY PausableRolesAssumption
    <3>4. QED
      BY <1>1, <1>4, <3>1, <3>2, <3>3, IssuerEffect, MoveType, CreateEffect,
         DestroyEffect DEF TokenInv, TypeOK
  <2>2. QED
    BY <1>1, <1>2, <2>1 DEF TokenInv, TypeOK, Unmoved
<1>5. CASE HolderStep
  <2>1. PICK spender \in Callers, from, to \in Address, amount \in Amount :
           /\ Move(from, to, amount)
           /\ UNCHANGED allowances \/ SpendAllowance(from, spender, amount)
    BY <1>5, HolderEffect
  <2>2. spender \in Address
    BY PausableRolesAssumption
  <2>3. balances' \in [Address -> Nat] /\ totalSupply' = totalSupply
    BY <1>1, <2>1, MoveType DEF TokenInv
  <2>4. allowances' \in [Address -> [Address -> Amount]]
    BY <1>1, <2>1, <2>2, AllowanceType DEF TokenInv, TypeOK
  <2>5. QED
    BY <1>1, <1>2, <1>5, <2>3, <2>4, HolderEffect DEF TokenInv, TypeOK
<1>6. CASE ApprovalStep
  BY <1>1, <1>2, <1>6, ApprovalEffect DEF TokenInv, TypeOK
<1>7. CASE AdapterStep
  <2>1. /\ Unmoved
        /\ balances' \in [Address -> Nat]
        /\ totalSupply' \in Int /\ totalSupply' <= MaxUint
    <3>1. PICK adapter \in Callers, account \in Address, amount \in Amount :
             \/ Destroy(account, amount)
             \/ Create(account, amount)
             \/ Move(adapter, account, amount)
      BY <1>7, AdapterEffect
    <3>2. adapter \in Address
      BY PausableRolesAssumption
    <3>3. QED
      BY <1>1, <1>7, <3>1, <3>2, AdapterEffect, MoveType, CreateEffect,
         DestroyEffect DEF TokenInv, TypeOK
  <2>2. QED
    BY <1>1, <1>2, <2>1 DEF TokenInv, TypeOK, Unmoved
<1>8. CASE RegistryUpdateStep
  BY <1>1, <1>2, <1>8 DEF RegistryUpdateStep, AccessRegistryUpdate, TokenInv,
     TypeOK, rolesVars, ledgerVars
<1>9. CASE RegistryStep
  <2>1. \A S \in SUBSET Listable : S \in SUBSET Address
    BY FrontierTokenAssumption
  <2>2. denied' \in [Registries -> SUBSET Address]
    BY <1>1, <1>9, <2>1 DEF RegistryStep, TokenInv, TypeOK
  <2>3. QED
    BY <1>1, <1>2, <1>9, <2>2 DEF RegistryStep, TokenInv, TypeOK, rolesVars,
       tokenVars
<1>10. CASE UNCHANGED vars
  BY <1>1, <1>2, <1>10 DEF vars, TokenInv, TypeOK
<1>11. QED
  BY <1>1, <1>3, <1>4, <1>5, <1>6, <1>7, <1>8, <1>9, <1>10
     DEF Next, TokenNext, HolderStep

\* The token is well typed in every reachable state.
THEOREM TokenTypeOK == Spec => []TypeOK
BY TokenInit, TokenStep, PTL DEF Spec, TokenInv

\* The token never loses its last administrator.
THEOREM TokenAdminRemains == Spec => []AdminRemains
BY TokenInit, TokenStep, PTL DEF Spec, TokenInv

\* A pause of the token can always be lifted.
THEOREM TokenPauseIsRecoverable == Spec => []PauseIsRecoverable
BY TokenInit, TokenStep, PTL DEF Spec, TokenInv

-----------------------------------------------------------------------------

\* A transfer keeps the sum of all balances.
LEMMA MoveSum ==
    ASSUME TypeOK, NEW from \in Address, NEW to \in Address,
           NEW amount \in Amount, Move(from, to, amount)
    PROVE  SumFunction(balances') = SumFunction(balances)
<1>1. /\ balances \in [Address -> Nat] /\ IsFiniteSet(Address)
      /\ balances[from] \in Nat /\ amount \in Nat /\ balances[from] >= amount
  BY FrontierTokenAssumption DEF TypeOK, Amount, Move
<1> DEFINE debited == [balances EXCEPT ![from] = balances[from] - amount]
<1>2. balances[from] - amount \in Nat
  BY <1>1
<1>3. debited \in [Address -> Nat] /\ debited[to] + amount \in Nat
      /\ debited[to] \in Nat
  BY <1>1, <1>2
<1>4. balances' = [debited EXCEPT ![to] = debited[to] + amount]
  BY DEF Move
<1>5. /\ SumFunction(balances) \in Nat
      /\ SumFunction(debited) =
           (SumFunction(balances) - balances[from]) + (balances[from] - amount)
  BY <1>1, <1>2, SumUpdate
<1> HIDE DEF debited
<1>6. /\ SumFunction(debited) \in Nat
      /\ SumFunction(balances') =
           (SumFunction(debited) - debited[to]) + (debited[to] + amount)
  BY <1>1, <1>3, <1>4, SumUpdate
<1>7. QED
  BY <1>1, <1>3, <1>5, <1>6

\* A mint adds to the sum what it adds to the supply.
LEMMA CreateSum ==
    ASSUME TypeOK, NEW to \in Address, NEW amount \in Amount,
           Create(to, amount)
    PROVE  SumFunction(balances') = SumFunction(balances) + amount
<1>1. /\ balances \in [Address -> Nat] /\ IsFiniteSet(Address)
      /\ balances[to] \in Nat /\ amount \in Nat
      /\ balances[to] + amount \in Nat
  BY FrontierTokenAssumption DEF TypeOK, Amount
<1>2. balances' = [balances EXCEPT ![to] = balances[to] + amount]
  BY DEF Create
<1>3. /\ SumFunction(balances) \in Nat
      /\ SumFunction(balances') =
           (SumFunction(balances) - balances[to]) + (balances[to] + amount)
  BY <1>1, <1>2, SumUpdate
<1>4. QED
  BY <1>1, <1>3

\* A burn takes from the sum what it takes from the supply.
LEMMA DestroySum ==
    ASSUME TypeOK, NEW from \in Address, NEW amount \in Amount,
           Destroy(from, amount)
    PROVE  SumFunction(balances') = SumFunction(balances) - amount
<1>1. /\ balances \in [Address -> Nat] /\ IsFiniteSet(Address)
      /\ balances[from] \in Nat /\ amount \in Nat /\ balances[from] >= amount
      /\ balances[from] - amount \in Nat
  BY FrontierTokenAssumption DEF TypeOK, Amount, Destroy
<1>2. balances' = [balances EXCEPT ![from] = balances[from] - amount]
  BY DEF Destroy
<1>3. /\ SumFunction(balances) \in Nat
      /\ SumFunction(balances') =
           (SumFunction(balances) - balances[from]) + (balances[from] - amount)
  BY <1>1, <1>2, SumUpdate
<1>4. QED
  BY <1>1, <1>3

\* A sum of balances is a natural number, and no balance is more.
LEMMA BalanceInSum ==
    ASSUME TypeOK, NEW a \in Address
    PROVE  /\ SumFunction(balances) \in Nat
           /\ balances[a] <= SumFunction(balances)
<1>1. balances \in [Address -> Nat] /\ IsFiniteSet(Address) /\ balances[a] \in Nat
  BY FrontierTokenAssumption DEF TypeOK
<1>2. QED
  BY <1>1, SumUpdate

\* Every step keeps the books.
LEMMA BooksKept ==
    ASSUME TypeOK, totalSupply = SumFunction(balances), [Next]_vars
    PROVE  totalSupply' = SumFunction(balances')
<1>1. ASSUME UNCHANGED <<balances, totalSupply>> PROVE totalSupply' = SumFunction(balances')
  BY <1>1
<1>2. ASSUME NEW from \in Address, NEW to \in Address, NEW amount \in Amount,
             Move(from, to, amount)
      PROVE  totalSupply' = SumFunction(balances')
  BY <1>2, MoveSum DEF Move
<1>3. ASSUME NEW to \in Address, NEW amount \in Amount, Create(to, amount)
      PROVE  totalSupply' = SumFunction(balances')
  BY <1>3, CreateSum DEF Create
<1>4. ASSUME NEW from \in Address, NEW amount \in Amount, Destroy(from, amount)
      PROVE  totalSupply' = SumFunction(balances')
  BY <1>4, DestroySum DEF Destroy
<1>5. Self \in Address /\ Callers \subseteq Address
  BY FrontierTokenAssumption, PausableRolesAssumption
<1>6. CASE RolesStep \/ RegistryStep \/ RegistryUpdateStep
  BY <1>1, <1>6 DEF RolesStep, RegistryStep, RegistryUpdateStep,
     AccessRegistryUpdate, tokenVars, ledgerVars
<1>7. CASE ApprovalStep
  BY <1>1, <1>7, ApprovalEffect
<1>8. CASE IssuerStep
  <2>1. PICK caller \in Callers, account \in Address, amount \in Amount :
           \/ Create(account, amount)
           \/ Destroy(caller, amount)
           \/ Move(account, caller, amount)
           \/ Move(Self, caller, amount)
    BY <1>8, IssuerEffect
  <2>2. QED
    BY <1>2, <1>3, <1>4, <1>5, <2>1
<1>9. CASE HolderStep
  <2>1. PICK from, to \in Address, amount \in Amount : Move(from, to, amount)
    BY <1>9, HolderEffect
  <2>2. QED
    BY <1>2, <2>1
<1>10. CASE AdapterStep
  <2>1. PICK adapter \in Callers, account \in Address, amount \in Amount :
           \/ Destroy(account, amount)
           \/ Create(account, amount)
           \/ Move(adapter, account, amount)
    BY <1>10, AdapterEffect
  <2>2. QED
    BY <1>2, <1>3, <1>4, <1>5, <2>1
<1>11. CASE UNCHANGED vars
  BY <1>1, <1>11 DEF vars
<1>12. QED
  BY <1>6, <1>7, <1>8, <1>9, <1>10, <1>11 DEF Next, TokenNext, HolderStep

\* The supply is the sum of all balances, and so a uint256: no unchecked
\* addition or subtraction of the ERC20 code wraps.
THEOREM TokenBooksBalance == Spec => []SupplyIsSumOfBalances
<1> DEFINE Books == totalSupply = SumFunction(balances)
<1>1. Init => TypeOK /\ Books
  <2>1. SUFFICES ASSUME Init PROVE Books
    BY TokenInit DEF TokenInv
  <2>2. /\ DOMAIN balances = Address /\ \A a \in Address : balances[a] = 0
        /\ totalSupply = 0 /\ IsFiniteSet(Address)
    BY <2>1, FrontierTokenAssumption DEF Init
  <2>3. QED
    BY <2>2, SumZero DEF SumFunction
<1>2. TypeOK /\ Books /\ [Next]_vars => Books'
  BY BooksKept
<1>3. TypeOK /\ Books => SupplyIsSumOfBalances
  <2>1. SUFFICES ASSUME TypeOK, Books PROVE SupplyIsSumOfBalances
    OBVIOUS
  <2>2. SumFunction(balances) \in Nat
    BY <2>1, BalanceInSum, FrontierTokenAssumption
  <2>3. QED
    BY <2>1, <2>2, FrontierTokenAssumption
       DEF TypeOK, SupplyIsSumOfBalances, Amount
<1>4. Spec => []Books
  BY <1>1, <1>2, TokenTypeOK, PTL DEF Spec
<1>5. QED
  BY <1>3, <1>4, TokenTypeOK, PTL
-----------------------------------------------------------------------------

\* No call goes through while the token is paused.
LEMMA PausedStays ==
    ASSUME TypeOK, Next, paused PROVE UNCHANGED <<members, tokenVars>>
<1>1. CASE RolesStep
  BY <1>1 DEF RolesStep, RolesNext, GrantRole, RevokeRole, RenounceRole, Pause,
     Unpause, TypeOK, RolesTypeOK
<1>2. CASE RegistryStep
  BY <1>2 DEF RegistryStep, rolesVars
<1>3. CASE RegistryUpdateStep
  BY <1>3 DEF RegistryUpdateStep, AccessRegistryUpdate
<1>4. ~IssuerStep /\ ~HolderStep /\ ~ApprovalStep /\ ~AdapterStep
  BY IssuerEffect, HolderEffect, ApprovalEffect, AdapterEffect
<1>5. QED
  BY <1>1, <1>2, <1>3, <1>4 DEF Next, TokenNext, HolderStep

\* While the token is paused no call changes a balance, an allowance, the
\* registry or a role.
THEOREM TokenPauseStopsEverything == Spec => PauseStopsEverything
<1>1. TypeOK /\ [Next]_vars => [paused => UNCHANGED <<members, tokenVars>>]_vars
  BY PausedStays
<1>2. QED
  BY <1>1, TokenTypeOK, PTL DEF Spec, PauseStopsEverything

\* A step that leaves the ledger alone, or moves tokens between two accounts
\* that both have access, does not touch a frozen wallet.
LEMMA FrozenUntouched ==
    ASSUME TypeOK, NEW a \in Address, Frozen(a),
           \/ UNCHANGED balances
           \/ \E from, to \in Address, amount \in Amount :
                 /\ HasAccess(from) /\ HasAccess(to)
                 /\ Move(from, to, amount)
    PROVE  balances'[a] = balances[a]
<1>1. CASE UNCHANGED balances
  BY <1>1
<1>2. ASSUME NEW from \in Address, NEW to \in Address, NEW amount \in Amount,
             HasAccess(from), HasAccess(to), Move(from, to, amount)
      PROVE  balances'[a] = balances[a]
  <2>1. a \notin {from, to}
    BY <1>2 DEF Frozen
  <2>2. QED
    BY <1>2, <2>1, MoveEffect
<1>3. QED
  BY <1>1, <1>2

\* The steps other than the issuer's and the adapter's do not touch a frozen
\* wallet.
LEMMA FrozenUntouchedByOthers ==
    ASSUME TypeOK, Next, ~IssuerStep, ~AdapterStep,
           NEW a \in Address, Frozen(a)
    PROVE  balances'[a] = balances[a]
<1>1. CASE RolesStep \/ RegistryStep \/ RegistryUpdateStep
  BY <1>1 DEF RolesStep, RegistryStep, RegistryUpdateStep,
     AccessRegistryUpdate, tokenVars, ledgerVars
<1>2. CASE ApprovalStep
  BY <1>2, ApprovalEffect
<1>3. CASE HolderStep
  BY <1>3, HolderEffect, FrozenUntouched
<1>4. QED
  BY <1>1, <1>2, <1>3 DEF Next, TokenNext, HolderStep

\* What a step takes from a frozen wallet is recovered, or the adapter's own.
FrozenKept(a) ==
    (Frozen(a) /\ balances'[a] < balances[a]) =>
       \/ HasRole("ADAPTER_ROLE", a) /\ totalSupply' = totalSupply
       \/ \E r \in members["RECOVERY_ROLE"] :
             balances'[r] - balances[r] = balances[a] - balances'[a]

\* No call of the token takes anything else from it.
LEMMA FrozenKeptByCall ==
    ASSUME TypeOK, Next, NEW a \in Address PROVE FrozenKept(a)
<1> USE DEF FrozenKept
<1>1. SUFFICES ASSUME Frozen(a), balances'[a] < balances[a] PROVE FrozenKept(a)
  OBVIOUS
<1>2. balances[a] \in Nat /\ \A n \in Amount : n \in Nat
  BY FrontierTokenAssumption DEF TypeOK, Amount
<1>3. balances'[a] # balances[a]
  BY <1>1, <1>2
<1>4. CASE IssuerStep
  <2>1. PICK caller \in Callers, account \in Address, amount \in Amount :
              \/ HasAccess(account) /\ Create(account, amount)
              \/ HasAccess(caller) /\ Destroy(caller, amount)
              \/ /\ HasRole("RECOVERY_ROLE", caller)
                 /\ ~HasAccess(account)
                 /\ Move(account, caller, amount)
              \/ /\ HasAccess(Self) /\ HasAccess(caller)
                 /\ Move(Self, caller, amount)
    BY <1>4, IssuerEffect
  <2>2. caller \in Address /\ Self \in Address
    BY PausableRolesAssumption, FrontierTokenAssumption
  <2>3. CASE HasAccess(account) /\ Create(account, amount)
    BY <1>1, <1>3, <2>3, CreateEffect DEF Frozen
  <2>4. CASE HasAccess(caller) /\ Destroy(caller, amount)
    BY <1>1, <1>3, <2>2, <2>4, DestroyEffect DEF Frozen
  <2>5. CASE HasAccess(Self) /\ HasAccess(caller) /\ Move(Self, caller, amount)
    BY <1>1, <1>3, <2>2, <2>5, FrozenUntouched
  <2>6. CASE /\ HasRole("RECOVERY_ROLE", caller)
             /\ Move(account, caller, amount)
    <3>1. balances[account] \in Nat /\ balances[caller] \in Nat
      BY <2>2 DEF TypeOK
    <3>2. a # caller
      BY <1>1, <1>2, <1>3, <2>2, <2>6, <3>1, MoveEffect
    <3>3. a = account
      BY <1>3, <2>2, <2>6, <3>2, MoveEffect
    <3>4. balances'[caller] - balances[caller] = balances[a] - balances'[a]
      BY <1>2, <2>2, <2>6, <3>1, <3>2, <3>3, MoveEffect
    <3>5. QED
      BY <2>6, <3>4 DEF HasRole
  <2>7. QED
    BY <2>1, <2>3, <2>4, <2>5, <2>6
<1>5. CASE AdapterStep
  <2>1. PICK adapter \in Callers, account \in Address, amount \in Amount :
              /\ HasRole("ADAPTER_ROLE", adapter)
              /\ \/ HasAccess(account) /\ Destroy(account, amount)
                 \/ Create(account, amount)
                 \/ Move(adapter, account, amount)
    BY <1>5, AdapterEffect
  <2>2. adapter \in Address
    BY PausableRolesAssumption
  <2>3. CASE HasAccess(account) /\ Destroy(account, amount)
    BY <1>1, <1>3, <2>3, DestroyEffect DEF Frozen
  <2>4. CASE Create(account, amount)
    BY <1>1, <1>2, <2>4, CreateEffect
  <2>5. CASE Move(adapter, account, amount)
    <3>1. balances[account] \in Nat /\ balances[adapter] \in Nat
      BY <2>2 DEF TypeOK
    <3>2. a = adapter
      BY <1>1, <1>2, <1>3, <2>2, <2>5, <3>1, MoveEffect
    <3>3. QED
      BY <2>1, <2>5, <3>2 DEF Move
  <2>6. QED
    BY <2>1, <2>3, <2>4, <2>5
<1>6. QED
  BY <1>1, <1>3, <1>4, <1>5, FrozenUntouchedByOthers

\* A frozen wallet's tokens leave it only by recovery, and then arrive in
\* full, or because the wallet is the adapter itself.
THEOREM TokenFrozenKeepsTokens == Spec => FrozenKeepsTokens
<1>1. TypeOK /\ [Next]_vars => [\A a \in Address : FrozenKept(a)]_vars
  BY FrozenKeptByCall
<1>2. QED
  BY <1>1, TokenTypeOK, PTL DEF Spec, FrozenKeepsTokens, FrozenKept

\* What a step gives to a frozen wallet came across chains or is recovered.
FrozenCredited(a) ==
    (Frozen(a) /\ balances'[a] > balances[a]) =>
       \/ /\ members["ADAPTER_ROLE"] # {}
          /\ \/ totalSupply' - totalSupply = balances'[a] - balances[a]
             \/ \E b \in members["ADAPTER_ROLE"] : balances'[b] < balances[b]
       \/ /\ HasRole("RECOVERY_ROLE", a)
          /\ \E b \in Address : Frozen(b) /\ balances'[b] < balances[b]

\* No call of the token gives it anything else.
LEMMA FrozenCreditedByCall ==
    ASSUME TypeOK, Next, NEW a \in Address PROVE FrozenCredited(a)
<1> USE DEF FrozenCredited
<1>1. SUFFICES ASSUME Frozen(a), balances'[a] > balances[a]
               PROVE  FrozenCredited(a)
  OBVIOUS
<1>2. /\ balances[a] \in Nat /\ totalSupply \in Int
      /\ \A n \in Amount : n \in Nat
  BY FrontierTokenAssumption DEF TypeOK, Amount
<1>3. balances'[a] # balances[a]
  BY <1>1, <1>2
<1>4. CASE IssuerStep
  <2>1. PICK caller \in Callers, account \in Address, amount \in Amount :
              \/ HasAccess(account) /\ Create(account, amount)
              \/ HasAccess(caller) /\ Destroy(caller, amount)
              \/ /\ HasRole("RECOVERY_ROLE", caller)
                 /\ ~HasAccess(account)
                 /\ Move(account, caller, amount)
              \/ /\ HasAccess(Self) /\ HasAccess(caller)
                 /\ Move(Self, caller, amount)
    BY <1>4, IssuerEffect
  <2>2. caller \in Address /\ Self \in Address
    BY PausableRolesAssumption, FrontierTokenAssumption
  <2>3. CASE HasAccess(account) /\ Create(account, amount)
    BY <1>1, <1>3, <2>3, CreateEffect DEF Frozen
  <2>4. CASE HasAccess(caller) /\ Destroy(caller, amount)
    BY <1>1, <1>3, <2>2, <2>4, DestroyEffect DEF Frozen
  <2>5. CASE HasAccess(Self) /\ HasAccess(caller) /\ Move(Self, caller, amount)
    BY <1>1, <1>3, <2>2, <2>5, FrozenUntouched
  <2>6. CASE /\ HasRole("RECOVERY_ROLE", caller)
             /\ ~HasAccess(account)
             /\ Move(account, caller, amount)
    <3>1. balances[account] \in Nat /\ balances[caller] \in Nat
      BY <2>2 DEF TypeOK
    <3>2. a = caller /\ a # account
      BY <1>1, <1>2, <1>3, <2>2, <2>6, <3>1, MoveEffect
    <3>3. balances'[account] < balances[account]
      BY <1>1, <1>2, <2>2, <2>6, <3>1, <3>2, MoveEffect
    <3>4. QED
      BY <2>6, <3>2, <3>3 DEF HasRole, Frozen
  <2>7. QED
    BY <2>1, <2>3, <2>4, <2>5, <2>6
<1>5. CASE AdapterStep
  <2>1. PICK adapter \in Callers, account \in Address, amount \in Amount :
              /\ HasRole("ADAPTER_ROLE", adapter)
              /\ \/ HasAccess(account) /\ Destroy(account, amount)
                 \/ Create(account, amount)
                 \/ Move(adapter, account, amount)
    BY <1>5, AdapterEffect
  <2>2. adapter \in Address
    BY PausableRolesAssumption
  <2>3. CASE HasAccess(account) /\ Destroy(account, amount)
    BY <1>1, <1>3, <2>3, DestroyEffect DEF Frozen
  <2>4. CASE Create(account, amount)
    <3>1. a = account
      BY <1>3, <2>4, CreateEffect
    <3>2. totalSupply' - totalSupply = balances'[a] - balances[a]
      BY <1>2, <2>4, <3>1, CreateEffect
    <3>3. QED
      BY <2>1, <3>2 DEF HasRole
  <2>5. CASE Move(adapter, account, amount)
    <3>1. balances[account] \in Nat /\ balances[adapter] \in Nat
      BY <2>2 DEF TypeOK
    <3>2. a = account /\ a # adapter
      BY <1>1, <1>2, <1>3, <2>2, <2>5, <3>1, MoveEffect
    <3>3. balances'[adapter] < balances[adapter]
      BY <1>1, <1>2, <2>2, <2>5, <3>1, <3>2, MoveEffect
    <3>4. QED
      BY <2>1, <3>3 DEF HasRole
  <2>6. QED
    BY <2>1, <2>3, <2>4, <2>5
<1>6. QED
  BY <1>1, <1>3, <1>4, <1>5, FrozenUntouchedByOthers

\* A frozen wallet is credited only by an adapter's mint or release, or when a
\* frozen recovery agent empties another frozen wallet.
THEOREM TokenFrozenReceivesOnlyByBridge == Spec => FrozenReceivesOnlyByBridge
<1>1. TypeOK /\ [Next]_vars => [\A a \in Address : FrozenCredited(a)]_vars
  BY FrozenCreditedByCall
<1>2. QED
  BY <1>1, TokenTypeOK, PTL DEF Spec, FrozenReceivesOnlyByBridge, FrozenCredited
=============================================================================
