----------------------------- MODULE MCSolanaMint -----------------------------
(* Two OFT stores, two mints that the task creates and one that is given;   *)
(* another account is named as the minter, with or without the operator.     *)
EXTENDS SolanaMint

CONSTANTS alice, s1, s2, first, second, given

MCMinterSets == {{alice}, {Wallet, alice}}
MCHeirs == {alice}
MCStores == {s1, s2}
MCNewMints == {first, second}
MCGivenMints == {given}
=============================================================================
