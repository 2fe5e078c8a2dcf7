------------------------ MODULE TokenWithDenyListProofs ------------------------
(***************************************************************************)
(* For every set of accounts, every role table and every width of the      *)
(* integers: with the DenyList in the place of the open registry the token *)
(* is a FrontierToken still, so that what is proved of FrontierToken holds *)
(* of the deployment; both contracts stay governed; and a pause of the     *)
(* list freezes the list.                                                  *)
(***************************************************************************)
EXTENDS TokenWithDenyList, Integers, TLAPS

\* The theorems about the token, at this registry.
Proved == INSTANCE FrontierTokenProofs WITH
             Roles <- TokenRoles, Assignments <- TokenAssignments,
             Registries <- {DenyListAddress},
             Listable <- Address \ {Zero},
             denied <- [r \in {DenyListAddress} |-> accessList]

\* Their assumptions are the deployment's.
LEMMA ProvedAssumption ==
    Proved!PausableRolesAssumption /\ Proved!FrontierTokenAssumption
BY TokenWithDenyListAssumption DEF Token!IsFiniteSet, Proved!IsFiniteSet

\* They are about the same token: its initial states
LEMMA ProvedInit == Token!Init => Proved!Init
BY DEF Token!Init, Proved!Init, Token!InitialMembers, Proved!InitialMembers

\* and its steps.
LEMMA ProvedNext == [Token!Next]_Token!vars => [Proved!Next]_Proved!vars
<1>1. Token!Next => Proved!Next
  BY Zenon
   DEF Token!Next, Proved!Next, Token!TokenNext, Proved!TokenNext,
       Token!RegistryStep, Proved!RegistryStep, Token!RolesStep,
       Proved!RolesStep, Token!IssuerStep, Proved!IssuerStep,
       Token!TransferStep, Proved!TransferStep,
       Token!TransferFromStep, Proved!TransferFromStep,
       Token!ApprovalStep, Proved!ApprovalStep, Token!AdapterStep,
       Proved!AdapterStep, Token!RegistryUpdateStep,
       Proved!RegistryUpdateStep, Token!RolesNext, Proved!RolesNext,
       Token!GrantRole, Proved!GrantRole, Token!RevokeRole,
       Proved!RevokeRole, Token!RenounceRole, Proved!RenounceRole,
       Token!Pause, Proved!Pause, Token!Unpause, Proved!Unpause,
       Token!HasRole, Proved!HasRole, Token!Mint, Proved!Mint,
       Token!Burn, Proved!Burn, Token!RecoverTokens,
       Proved!RecoverTokens, Token!SalvageERC20, Proved!SalvageERC20,
       Token!Transfer, Proved!Transfer, Token!TransferFrom,
       Proved!TransferFrom, Token!Approve, Proved!Approve,
       Token!Permit, Proved!Permit, Token!IncreaseAllowance,
       Proved!IncreaseAllowance, Token!DecreaseAllowance,
       Proved!DecreaseAllowance, Token!AdapterBurn,
       Proved!AdapterBurn, Token!AdapterMint, Proved!AdapterMint,
       Token!AdapterTransfer, Proved!AdapterTransfer,
       Token!AccessRegistryUpdate, Proved!AccessRegistryUpdate,
       Token!Move, Proved!Move, Token!Create, Proved!Create,
       Token!Destroy, Proved!Destroy, Token!SetAllowance,
       Proved!SetAllowance, Token!SpendAllowance,
       Proved!SpendAllowance, Token!HasAccess, Proved!HasAccess,
       Token!Amount, Proved!Amount, Token!rolesVars, Proved!rolesVars,
       Token!ledgerVars, Proved!ledgerVars, Token!tokenVars,
       Proved!tokenVars
<1>2. UNCHANGED Token!vars => UNCHANGED Proved!vars
  BY DEF Token!vars, Proved!vars
<1>3. QED
  BY <1>1, <1>2

-----------------------------------------------------------------------------
(* The list.                                                               *)

\* What is always so of the list; address(0) is never on it.
ListInv ==
    /\ List!RolesTypeOK /\ List!AdminRemains /\ List!PauseIsRecoverable
    /\ accessList \subseteq Address \ {Zero}

\* The constants of the list.
LEMMA ListConstants ==
    /\ Callers \subseteq Address
    /\ {"DEFAULT_ADMIN_ROLE", "PAUSER_ROLE"} \subseteq ListRoles
    /\ ListAssignments \subseteq ListRoles \X Address
    /\ Zero \in Address /\ Batches \subseteq SUBSET Address
BY TokenWithDenyListAssumption DEF List!DenyListConstants

\* The list starts with an administrator, running and empty.
LEMMA ListInit ==
    ASSUME List!Init PROVE ListInv
<1>1. PICK defaultAdmin \in Callers :
         \E grants \in SUBSET ListAssignments :
            /\ <<"DEFAULT_ADMIN_ROLE", defaultAdmin>> \in grants
            /\ listMembers = [role \in ListRoles |->
                                {a \in Address : <<role, a>> \in grants}]
  BY DEF List!Init, List!InitialMembers
<1>2. defaultAdmin \in listMembers["DEFAULT_ADMIN_ROLE"]
  BY <1>1, ListConstants
<1>3. listPaused = FALSE /\ accessList = {}
  BY DEF List!Init
<1>4. QED
  BY <1>1, <1>2, <1>3
     DEF ListInv, List!RolesTypeOK, List!AdminRemains,
         List!PauseIsRecoverable

\* The list's administrators cannot revoke or renounce the last of them, and
\* while it is paused its role table stays.
LEMMA ListRolesKeep ==
    ASSUME ListInv, List!RolesNext
    PROVE  List!RolesTypeOK' /\ List!AdminRemains' /\ List!PauseIsRecoverable'
<1>1. PICK caller \in Callers :
         \/ \E grant \in ListAssignments :
               \/ List!GrantRole(caller, grant[1], grant[2])
               \/ List!RevokeRole(caller, grant[1], grant[2])
               \/ grant[2] = caller /\ List!RenounceRole(caller, grant[1])
         \/ List!Pause(caller)
         \/ List!Unpause(caller)
  BY DEF List!RolesNext
<1>2. /\ listMembers \in [ListRoles -> SUBSET Address] /\ listPaused \in BOOLEAN
      /\ "DEFAULT_ADMIN_ROLE" \in ListRoles
      /\ listMembers["DEFAULT_ADMIN_ROLE"] \intersect Callers # {}
  BY ListConstants DEF ListInv, List!RolesTypeOK, List!AdminRemains
<1>3. ASSUME NEW grant \in ListAssignments,
             \/ List!GrantRole(caller, grant[1], grant[2])
             \/ List!RevokeRole(caller, grant[1], grant[2])
             \/ grant[2] = caller /\ List!RenounceRole(caller, grant[1])
      PROVE  /\ listMembers' \in [ListRoles -> SUBSET Address]
             /\ listPaused' = FALSE
             /\ listMembers'["DEFAULT_ADMIN_ROLE"] \intersect Callers # {}
  <2>1. grant[1] \in ListRoles /\ grant[2] \in Address
    BY ListConstants
  <2>2. CASE List!GrantRole(caller, grant[1], grant[2])
    <3>1. /\ listMembers' = [listMembers EXCEPT ![grant[1]] =
                               listMembers[grant[1]] \union {grant[2]}]
          /\ listPaused' = FALSE
      BY <1>2, <2>2 DEF List!GrantRole
    <3>2. listMembers["DEFAULT_ADMIN_ROLE"] \subseteq
             listMembers'["DEFAULT_ADMIN_ROLE"]
      BY <1>2, <2>1, <3>1
    <3>3. QED
      BY <1>2, <2>1, <3>1, <3>2
  <2>3. CASE List!RevokeRole(caller, grant[1], grant[2])
    <3>1. /\ ~(grant[1] = "DEFAULT_ADMIN_ROLE" /\ grant[2] = caller)
          /\ caller \in listMembers["DEFAULT_ADMIN_ROLE"]
          /\ listMembers' = [listMembers EXCEPT ![grant[1]] =
                               listMembers[grant[1]] \ {grant[2]}]
          /\ listPaused' = FALSE
      BY <1>2, <2>3 DEF List!RevokeRole, List!HasRole
    <3>2. caller \in listMembers'["DEFAULT_ADMIN_ROLE"]
      BY <1>2, <2>1, <3>1
    <3>3. QED
      BY <1>2, <2>1, <3>1, <3>2
  <2>4. CASE grant[2] = caller /\ List!RenounceRole(caller, grant[1])
    <3>1. /\ grant[1] # "DEFAULT_ADMIN_ROLE"
          /\ listMembers' = [listMembers EXCEPT ![grant[1]] =
                               listMembers[grant[1]] \ {caller}]
          /\ listPaused' = FALSE
      BY <1>2, <2>4 DEF List!RenounceRole
    <3>2. listMembers'["DEFAULT_ADMIN_ROLE"] =
             listMembers["DEFAULT_ADMIN_ROLE"]
      BY <1>2, <2>1, <3>1
    <3>3. QED
      BY <1>2, <2>1, <3>1, <3>2
  <2>5. QED
    BY <1>3, <2>2, <2>3, <2>4
<1>4. ASSUME List!Pause(caller) \/ List!Unpause(caller)
      PROVE  /\ listMembers' = listMembers /\ listPaused' \in BOOLEAN
             /\ listPaused' => caller \in listMembers'["PAUSER_ROLE"]
  BY <1>4 DEF List!Pause, List!Unpause, List!HasRole
<1>5. QED
  BY <1>1, <1>2, <1>3, <1>4
     DEF List!RolesTypeOK, List!AdminRemains, List!PauseIsRecoverable

\* No batch of the compliance manager's puts address(0) on the list.
LEMMA ListStep ==
    ASSUME ListInv, [Next]_vars PROVE ListInv'
<1>1. CASE UNCHANGED listState
  BY <1>1 DEF ListInv, listState, List!RolesTypeOK, List!AdminRemains,
     List!PauseIsRecoverable
<1>2. CASE List!AccessListStep
  <2>1. PICK caller \in Callers, accounts \in Batches :
           \/ List!AccessListAdd(caller, accounts)
           \/ List!AccessListRemove(caller, accounts)
    BY <1>2 DEF List!AccessListStep
  <2>2. /\ UNCHANGED <<listMembers, listPaused>>
        /\ \/ Zero \notin accounts /\ accessList' = accessList \union accounts
           \/ accessList' = accessList \ accounts
    BY <2>1 DEF List!AccessListAdd, List!AccessListRemove, List!rolesVars
  <2>3. accessList' \subseteq Address \ {Zero}
    BY <2>2, ListConstants DEF ListInv
  <2>4. QED
    BY <2>2, <2>3 DEF ListInv, List!RolesTypeOK, List!AdminRemains,
       List!PauseIsRecoverable
<1>3. CASE List!RolesNext /\ UNCHANGED accessList
  BY <1>3, ListRolesKeep DEF ListInv
<1>4. QED
  BY <1>1, <1>2, <1>3 DEF Next, TokenCall, ListCall, List!Next, vars, listState

\* ListInv holds throughout.
LEMMA ListInvariant == Spec => []ListInv
<1>1. Init => ListInv
  BY ListInit DEF Init
<1>2. ListInv /\ [Next]_vars => ListInv'
  BY ListStep
<1>3. QED
  BY <1>1, <1>2, PTL DEF Spec

-----------------------------------------------------------------------------
(* The deployment.                                                         *)

\* Each step of the deployment is one of the token under an open registry: a
\* call of the token, a change of whom the registry denies, or nothing.
LEMMA StepImplements ==
    ASSUME ListInv, ListInv', [Next]_vars
    PROVE  [Token!Next]_Token!vars
<1> DEFINE denied == [r \in {DenyListAddress} |-> accessList]
<1>1. CASE TokenCall
  BY <1>1 DEF TokenCall, Token!Next
<1>2. CASE ListCall
  <2>1. UNCHANGED tokenState
    BY <1>2 DEF ListCall
  <2>2. accessList' \in SUBSET (Address \ {Zero})
    BY DEF ListInv
  <2>3. denied' = [denied EXCEPT ![DenyListAddress] = accessList']
    OBVIOUS
  <2>4. Token!RegistryStep
    BY <2>1, <2>2, <2>3
       DEF tokenState, Token!RegistryStep, Token!rolesVars, Token!tokenVars
  <2>5. QED
    BY <2>4 DEF Token!Next
<1>3. CASE UNCHANGED vars
  <2>1. UNCHANGED <<tokenState, denied>>
    BY <1>3 DEF vars, listState
  <2>2. QED
    BY <2>1 DEF tokenState, Token!vars
<1>4. QED
  BY <1>1, <1>2, <1>3 DEF Next

\* With the DenyList for its registry the token is a FrontierToken.
THEOREM DeploymentImplementsToken == Spec => ImplementsToken
<1>1. Init => Token!Init
  BY DEF Init
<1>2. ListInv /\ ListInv' /\ [Next]_vars => [Token!Next]_Token!vars
  BY StepImplements
<1>3. QED
  BY <1>1, <1>2, ListInvariant, PTL DEF Spec, ImplementsToken, Token!Spec

\* So it is the token that the theorems are about.
LEMMA DeploymentIsProved == Spec => Proved!Spec
BY DeploymentImplementsToken, ProvedInit, ProvedNext, PTL
   DEF ImplementsToken, Token!Spec, Proved!Spec

\* Neither contract loses its last administrator, whoever administers them.
THEOREM DeploymentAdminRemains == Spec => []AdminRemains
<1>1. Proved!Spec => []Proved!AdminRemains
  BY Proved!TokenAdminRemains, ProvedAssumption, PTL
<1>2. Proved!AdminRemains /\ ListInv => AdminRemains
  BY DEF AdminRemains, ListInv, Token!AdminRemains, Proved!AdminRemains
<1>3. QED
  BY <1>1, <1>2, ListInvariant, DeploymentIsProved, PTL

\* Neither contract is paused for good.
THEOREM DeploymentPauseIsRecoverable == Spec => []PauseIsRecoverable
<1>1. Proved!Spec => []Proved!PauseIsRecoverable
  BY Proved!TokenPauseIsRecoverable, ProvedAssumption, PTL
<1>2. Proved!PauseIsRecoverable /\ ListInv => PauseIsRecoverable
  BY DEF PauseIsRecoverable, ListInv, Token!PauseIsRecoverable,
     Proved!PauseIsRecoverable
<1>3. QED
  BY <1>1, <1>2, ListInvariant, DeploymentIsProved, PTL

\* The deployment's supply is the sum of its balances.
THEOREM DeploymentBooksBalance == Spec => []Token!SupplyIsSumOfBalances
<1>1. Proved!Spec => []Proved!SupplyIsSumOfBalances
  BY Proved!TokenBooksBalance, ProvedAssumption, PTL
<1>2. Proved!SupplyIsSumOfBalances => Token!SupplyIsSumOfBalances
  <2>1. Token!SumFunction(balances) = Proved!SumFunction(balances)
    BY Zenon
     DEF Token!SumFunction, Proved!SumFunction, Token!SumFunctionOnSet,
         Proved!SumFunctionOnSet, Token!FoldFunctionOnSet,
         Proved!FoldFunctionOnSet, Token!MapThenFoldSet, Proved!MapThenFoldSet
  <2>2. QED
    BY <2>1 DEF Token!SupplyIsSumOfBalances, Proved!SupplyIsSumOfBalances,
       Token!Amount, Proved!Amount
<1>3. QED
  BY <1>1, <1>2, DeploymentIsProved, PTL

\* The tokens of a wallet that is on the list leave it only by recovery.
THEOREM DeploymentFrozenKeepsTokens == Spec => Token!FrozenKeepsTokens
<1>1. Proved!Spec => Proved!FrozenKeepsTokens
  BY Proved!TokenFrozenKeepsTokens, ProvedAssumption, PTL
<1> DEFINE ProvedKeeps ==
              \A a \in Address :
                 (Proved!Frozen(a) /\ balances'[a] < balances[a]) =>
                    \/ Proved!HasRole("ADAPTER_ROLE", a)
                       /\ totalSupply' = totalSupply
                    \/ \E r \in members["RECOVERY_ROLE"] :
                          balances'[r] - balances[r] =
                             balances[a] - balances'[a]
           Keeps ==
              \A a \in Address :
                 (Token!Frozen(a) /\ balances'[a] < balances[a]) =>
                    \/ Token!HasRole("ADAPTER_ROLE", a)
                       /\ totalSupply' = totalSupply
                    \/ \E r \in members["RECOVERY_ROLE"] :
                          balances'[r] - balances[r] =
                             balances[a] - balances'[a]
<1>2. [ProvedKeeps]_Proved!vars => [Keeps]_Token!vars
  BY Zenon DEF Token!Frozen, Proved!Frozen, Token!HasAccess, Proved!HasAccess,
     Token!HasRole, Proved!HasRole, Token!vars, Proved!vars
<1>3. Proved!Spec => [][ProvedKeeps]_Proved!vars
  BY <1>1 DEF Proved!FrozenKeepsTokens
<1>4. Spec => [][Keeps]_Token!vars
  <2> HIDE DEF ProvedKeeps, Keeps
  <2>1. QED
    BY <1>2, <1>3, DeploymentIsProved, PTL
<1>5. QED
  BY <1>4 DEF Token!FrozenKeepsTokens

\* While the list is paused nobody gains or loses access, unless the token
\* changes registry.
THEOREM DeploymentFreezeOutlives == Spec => FreezeOutlivesListPause
<1>1. ASSUME listPaused, [Next]_vars PROVE UNCHANGED accessList
  BY <1>1 DEF Next, TokenCall, ListCall, listState, vars, List!Next,
     List!AccessListStep, List!AccessListAdd, List!AccessListRemove
<1>2. [Next]_vars =>
         [listPaused /\ UNCHANGED accessRegistry =>
             \A a \in Address : Token!HasAccess(a) <=> Token!HasAccess(a)']_vars
  BY <1>1 DEF Token!HasAccess
<1>3. QED
  BY <1>2, PTL DEF Spec, FreezeOutlivesListPause
=============================================================================
