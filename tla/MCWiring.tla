------------------------------- MODULE MCWiring -------------------------------
(* Solana and Hedera, which is without Google Cloud's verifier; MCEvms adds *)
(* a chain that has them all.                                               *)
(* The owner's key is named, or at Fireblocks; another one lies at the      *)
(* default path, and is used where none is named or contradicts it.         *)
EXTENDS Wiring

CONSTANTS eth, other

MCEvms == {eth, Hedera}
MCAccounts == {Owner, other}
MCEnvironments ==
    {[privateKey |-> Owner, keypairPath |-> Owner, defaultPath |-> other,
      payer |-> None],
     [privateKey |-> Owner, keypairPath |-> other, defaultPath |-> None,
      payer |-> None],
     [privateKey |-> None, keypairPath |-> None, defaultPath |-> other,
      payer |-> None],
     [privateKey |-> None, keypairPath |-> None, defaultPath |-> other,
      payer |-> Owner]}
=============================================================================
