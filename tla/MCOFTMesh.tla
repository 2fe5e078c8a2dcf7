------------------------------ MODULE MCOFTMesh ------------------------------
(* Meshes of two and three chains.  Two wallets; two units; up to three     *)
(* messages.                                                                *)
EXTENDS OFTMesh

CONSTANTS hub, spoke, far, alice, bob

MCPair == {hub, spoke}
MCTriple == {hub, spoke, far}
MCHub == {hub}
MCNone == {}
MCWallets == {alice, bob}
MCOne == {alice}
MCFreezeBob == {<<hub, bob>>, <<spoke, bob>>}
MCFreezeAdapter == {<<hub, Adapter>>}
MCFreezeDelivery == {<<spoke, alice>>}
=============================================================================
