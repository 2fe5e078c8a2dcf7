--------------------------- MODULE TokenAllowances ---------------------------
(***************************************************************************)
(* FrontierToken with the history of its allowances: how much each owner   *)
(* has raised each spender's allowance in all, and how much the spender    *)
(* has pulled against it.  The history changes nothing of the token; it    *)
(* lets a property speak of many approvals, pulls, increases, decreases,   *)
(* freezes and pauses in any order.                                        *)
(***************************************************************************)
EXTENDS FrontierToken

CONSTANT MaxRaised      \* a bound for TLC on the history

ASSUME MaxRaisedAssumption == MaxRaised \in Nat

VARIABLES raised,       \* owner, spender: the sum of all raises
          pulled        \* owner, spender: the sum of all limited pulls

historyVars == <<raised, pulled>>

HistoryTypeOK ==
    /\ raised \in [Address -> [Address -> Nat]]
    /\ pulled \in [Address -> [Address -> Nat]]

HistoryInit ==
    /\ Init
    /\ raised = [o \in Address |-> [s \in Address |-> 0]]
    /\ pulled = [o \in Address |-> [s \in Address |-> 0]]

Raise(owner, spender) ==
    IF allowances'[owner][spender] > allowances[owner][spender]
    THEN allowances'[owner][spender] - allowances[owner][spender]
    ELSE 0

RecordedApproval ==
    /\ ApprovalStep
    /\ raised' = [o \in Address |->
                    [s \in Address |-> raised[o][s] + Raise(o, s)]]
    /\ \A o, s \in Address : raised'[o][s] <= MaxRaised
    /\ UNCHANGED pulled

\* An unlimited allowance is not consumed, so a pull against it is not counted.
RecordedPull ==
    \E spender \in Callers, from, to \in Address, amount \in Amount :
        /\ TransferFrom(spender, from, to, amount)
        /\ IF allowances[from][spender] = MaxUint
           THEN UNCHANGED pulled
           ELSE pulled' = [pulled EXCEPT ![from][spender] = @ + amount]
        /\ UNCHANGED raised

OtherStep ==
    /\ \/ RolesStep \/ IssuerStep \/ TransferStep \/ AdapterStep
       \/ RegistryUpdateStep \/ RegistryStep
    /\ UNCHANGED historyVars

HistoryNext == RecordedApproval \/ RecordedPull \/ OtherStep

HistorySpec == HistoryInit /\ [][HistoryNext]_<<vars, historyVars>>

\* However approvals, overwriting approvals, increases, decreases, permits and
\* pulls interleave, a spender never pulls more than the owner has in all
\* raised its allowance by, and what it can still pull is within that too
\* (ERC20F.approve, increaseAllowance, decreaseAllowance, permit and
\* transferFrom over OpenZeppelin's _spendAllowance).
PulledWithinApprovals ==
    \A o, s \in Address : pulled[o][s] + allowances[o][s] <= raised[o][s]
=============================================================================
