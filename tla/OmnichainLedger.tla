--------------------------- MODULE OmnichainLedger ---------------------------
(***************************************************************************)
(* What the bridge promises, without saying how: one ledger of holdings    *)
(* across all chains.  A cross-chain transfer leaves its sender's holdings *)
(* and arrives once, in full, in its recipient's.  Nothing here knows of   *)
(* adapters, locking, burning, pauses, freezes, peers or messages.         *)
(***************************************************************************)
EXTENDS Integers, Functions, FiniteSetsExt

CONSTANTS
    Chains,     \* the chains of the mesh
    Holders,    \* the accounts that can hold tokens
    Nobody,     \* a recipient that is not a holder: address(0)
    Dead        \* the holder credited in its place

VARIABLES
    holdings,   \* what each account holds on each chain
    transit,    \* the transfers that have left and not arrived
    issued      \* the net amount that issuers have put in circulation

ledger == <<holdings, transit, issued>>

Recipient(to) == IF to = Nobody THEN Dead ELSE to

Init ==
    /\ holdings = [c \in Chains |-> [h \in Holders |-> 0]]
    /\ transit = {}
    /\ issued = 0

Add(c, h, amount) == [holdings EXCEPT ![c][h] = @ + amount]

\* A transfer of this amount from holder h of chain c sets out.
Depart(c, h, transfer) ==
    /\ holdings[c][h] >= transfer.amount
    /\ \A t \in transit : t.id # transfer.id
    /\ holdings' = Add(c, h, -transfer.amount)
    /\ transit' = transit \union {transfer}
    /\ UNCHANGED issued

Arrive(transfer) ==
    /\ transfer \in transit
    /\ holdings' = Add(transfer.dst, Recipient(transfer.to), transfer.amount)
    /\ transit' = transit \ {transfer}
    /\ UNCHANGED issued

\* A payment on one chain.
Pay(c, from, to, amount) ==
    LET debited  == [holdings[c] EXCEPT ![from] = @ - amount]
        credited == [debited EXCEPT ![to] = @ + amount]
    IN  /\ holdings[c][from] >= amount
        /\ holdings' = [holdings EXCEPT ![c] = credited]
        /\ UNCHANGED <<transit, issued>>

Issue(c, h, amount) ==
    /\ holdings' = Add(c, h, amount)
    /\ issued' = issued + amount
    /\ UNCHANGED transit

Retire(c, h, amount) ==
    /\ holdings[c][h] >= amount
    /\ holdings' = Add(c, h, -amount)
    /\ issued' = issued - amount
    /\ UNCHANGED transit

\* The transfers and amounts are read off the step: any will do.
Next ==
    \/ \E c \in Chains, h \in Holders, transfer \in transit' \ transit :
          Depart(c, h, transfer)
    \/ \E transfer \in transit : Arrive(transfer)
    \/ \E c \in Chains, h \in Holders :
          \E amount \in {holdings'[c][h] - holdings[c][h]} :
             /\ amount > 0
             /\ \/ Issue(c, h, amount)
                \/ \E from \in Holders : Pay(c, from, h, amount)
    \/ \E c \in Chains, h \in Holders :
          \E amount \in {holdings[c][h] - holdings'[c][h]} :
             amount > 0 /\ Retire(c, h, amount)

Spec == Init /\ [][Next]_ledger

-----------------------------------------------------------------------------

Circulating ==
    MapThenSumSet(LAMBDA c : SumFunction(holdings[c]), Chains)
       + MapThenSumSet(LAMBDA t : t.amount, transit)

\* What is held and what is under way always add up to what was issued.
Conserved == Circulating = issued
=============================================================================
