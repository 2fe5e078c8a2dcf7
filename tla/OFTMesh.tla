------------------------------- MODULE OFTMesh -------------------------------
(***************************************************************************)
(* The cross-chain token: on every chain a FrontierERC20F (or, on the hub  *)
(* of wFRNT, the FrontierVault's shares) with its OFT adapter, and between *)
(* the adapters the LayerZero channel.  A mint-and-burn adapter            *)
(* (FrontierOFTAdapterMintAndBurn) burns on sending and mints on receipt;  *)
(* a lock adapter (FrontierOFTAdapter) keeps the tokens and pays them out. *)
(*                                                                         *)
(* A send is one transaction on the source chain, a receipt one on the     *)
(* destination, any time later and in any order.  LayerZero's endpoint     *)
(* executes a message at most once; a receipt that reverts leaves it to be *)
(* executed again.  Local and shared decimals are both 6, so an amount     *)
(* travels as it is, in a uint64.                                          *)
(*                                                                         *)
(* Of each token the module keeps what the bridge depends on: balances,    *)
(* the frozen accounts of its registry, the pause, and whether its adapter *)
(* holds ADAPTER_ROLE; FrontierToken has the rest.                         *)
(***************************************************************************)
EXTENDS Integers, Sequences, Functions, FiniteSetsExt

CONSTANTS
    Chains,         \* the chains (endpoint ids) of the mesh
    LockChains,     \* the chains whose adapter locks: the hub, or none
    Issuers,        \* the chains where somebody can mint and burn supply
    Wallets,        \* the accounts that send, receive and pay
    Adapter,        \* the adapter's account, one on each chain
    Dead,           \* 0x...dEaD
    Nobody,         \* address(0), named as a recipient
    Freezable,      \* the <<chain, account>> pairs that registries freeze
    MaxShared,      \* the largest amount of a message: 2^64 - 1
    MaxIssued,      \* bound: the most that is ever in circulation
    MaxPackets,     \* bound: the number of messages
    MaxOutages      \* bound: the number of administrative interruptions

Holders == Wallets \union {Adapter, Dead}

ASSUME OFTMeshAssumption ==
    /\ IsFiniteSet(Chains) /\ IsFiniteSet(Wallets)
    /\ Cardinality(LockChains) <= 1 /\ LockChains \subseteq Chains
    /\ Issuers \subseteq Chains
    /\ LockChains # {} => Issuers \subseteq LockChains
    /\ Adapter \notin Wallets /\ Dead \notin Wallets /\ Adapter # Dead
    /\ Nobody \notin Holders
    /\ Freezable \subseteq Chains \X Holders
    /\ {MaxShared, MaxIssued, MaxPackets, MaxOutages} \subseteq Nat

VARIABLES
    balances,       \* chain, account: ERC20._balances
    frozen,         \* chain: the accounts its access registry denies
    paused,         \* the chains whose token is paused
    authorised,     \* the chains whose adapter holds ADAPTER_ROLE
    peers,          \* chain: the chains whose adapter is set as its peer
    packets,        \* the messages sent, in the order they were sent
    delivered,      \* the messages executed, by their place in packets
    issued,         \* history: minted less burned by issuers
    outages         \* bound: administrative interruptions so far

tokenVars  == <<balances, issued>>
configVars == <<frozen, paused, authorised, peers, outages>>
vars == <<balances, frozen, paused, authorised, peers, packets, delivered,
          issued, outages>>

Amount == 0..MaxIssued

TypeOK ==
    /\ balances \in [Chains -> [Holders -> Nat]]
    /\ frozen \in [Chains -> SUBSET Holders]
    /\ paused \subseteq Chains
    /\ authorised \subseteq Chains
    /\ peers \in [Chains -> SUBSET Chains]
    /\ packets \in Seq([src : Chains, dst : Chains,
                        to : Holders \union {Nobody}, amount : 0..MaxShared])
    /\ delivered \subseteq DOMAIN packets
    /\ issued \in 0..MaxIssued
    /\ outages \in 0..MaxOutages

\* The mesh as the deployment leaves it: every pair of chains wired, every
\* adapter granted its role, nothing issued.
Init ==
    /\ balances = [c \in Chains |-> [h \in Holders |-> 0]]
    /\ frozen = [c \in Chains |-> {}]
    /\ paused = {}
    /\ authorised = Chains
    /\ peers = [c \in Chains |-> Chains \ {c}]
    /\ packets = << >>
    /\ delivered = {}
    /\ issued = 0 /\ outages = 0

-----------------------------------------------------------------------------
(* The bridge.                                                             *)

Moved(c, from, to, amount) ==
    LET debited  == [balances[c] EXCEPT ![from] = @ - amount]
        credited == [debited EXCEPT ![to] = @ + amount]
    IN  [balances EXCEPT ![c] = credited]

\* _toSD: a cast that keeps the low 64 bits.
ToShared(amount) == amount % (MaxShared + 1)

\* FrontierOFTAdapterMintAndBurn._debit, through adapterBurn.
BurnDebit(c, wallet, amount) ==
    /\ c \notin LockChains
    /\ c \in authorised
    /\ amount # 0
    /\ wallet \notin frozen[c]
    /\ balances' = [balances EXCEPT ![c][wallet] = @ - amount]

\* Mutant: the lock adapter burns, as the other kind does.
LockDebitByBurning(c, wallet, amount) ==
    /\ c \in LockChains
    /\ wallet \notin frozen[c]
    /\ balances' = [balances EXCEPT ![c][wallet] = @ - amount]

\* OFTAdapter._debit, through transferFrom by the adapter: both ends are
\* checked, and the wallet has approved the adapter.
LockDebit(c, wallet, amount) ==
    /\ c \in LockChains
    /\ frozen[c] \intersect {wallet, Adapter} = {}
    /\ balances' = Moved(c, wallet, Adapter, amount)

\* OFTCore.send: debit, then _lzSend, which needs a peer.
Send(c, wallet, d, to, amount) ==
    /\ Len(packets) < MaxPackets
    /\ d \in peers[c]
    /\ c \notin paused
    /\ balances[c][wallet] >= amount
    /\ BurnDebit(c, wallet, amount) \/ LockDebit(c, wallet, amount)
    /\ packets' = Append(packets, [src |-> c, dst |-> d, to |-> to,
                                   amount |-> ToShared(amount)])
    /\ UNCHANGED <<configVars, delivered, issued>>

\* Neither adapter can credit address(0).
Recipient(to) == IF to = Nobody THEN Dead ELSE to

\* Mutant: a credit to a frozen wallet is skipped.
MintCreditUnlessFrozen(c, to, amount) ==
    /\ c \notin LockChains
    /\ balances' = IF to \in frozen[c] THEN balances
                   ELSE [balances EXCEPT ![c][to] = @ + amount]

\* Mutant: a credit to a frozen wallet reverts.
MintCreditOfActive(c, to, amount) ==
    /\ c \notin LockChains
    /\ to \notin frozen[c]
    /\ balances' = [balances EXCEPT ![c][to] = @ + amount]

\* _credit, through adapterMint or adapterTransfer: whether the recipient is
\* frozen does not matter.
MintCredit(c, to, amount) ==
    /\ c \notin LockChains
    /\ balances' = [balances EXCEPT ![c][to] = @ + amount]

\* Mutant: the receiver is credited out of nothing.
UnlockCreditByMinting(c, to, amount) ==
    /\ c \in LockChains
    /\ balances' = [balances EXCEPT ![c][to] = @ + amount]

UnlockCredit(c, to, amount) ==
    /\ c \in LockChains
    /\ balances[c][Adapter] >= amount
    /\ balances' = Moved(c, Adapter, to, amount)

\* Mutant: an executed message can be executed again.
ReceiveAgain(i) ==
    LET packet == packets[i]
    IN  /\ i \in DOMAIN packets
        /\ packet.src \in peers[packet.dst]
        /\ packet.dst \in authorised
        /\ packet.dst \notin paused
        /\ \/ MintCredit(packet.dst, Recipient(packet.to), packet.amount)
           \/ UnlockCredit(packet.dst, Recipient(packet.to), packet.amount)
        /\ delivered' = delivered \union {i}
        /\ UNCHANGED <<configVars, packets, issued>>

\* The endpoint executes message i: lzReceive, which needs its source to be
\* the peer, then _credit.
Receive(i) ==
    LET packet == packets[i]
    IN  /\ i \in DOMAIN packets \ delivered
        /\ packet.src \in peers[packet.dst]
        /\ packet.dst \in authorised
        /\ packet.dst \notin paused
        /\ \/ MintCredit(packet.dst, Recipient(packet.to), packet.amount)
           \/ UnlockCredit(packet.dst, Recipient(packet.to), packet.amount)
        /\ delivered' = delivered \union {i}
        /\ UNCHANGED <<configVars, packets, issued>>

-----------------------------------------------------------------------------
(* The tokens.                                                             *)

Mint(c, to, amount) ==
    /\ c \in Issuers /\ c \notin paused
    /\ to \notin frozen[c]
    /\ issued + amount <= MaxIssued
    /\ balances' = [balances EXCEPT ![c][to] = @ + amount]
    /\ issued' = issued + amount
    /\ UNCHANGED <<configVars, packets, delivered>>

\* Mutant: the balance is not checked.
BurnOfMoreThanHeld(c, wallet, amount) ==
    /\ c \in Issuers /\ c \notin paused
    /\ amount # 0 /\ wallet \notin frozen[c]
    /\ balances' = [balances EXCEPT ![c][wallet] = @ - amount]
    /\ issued' = issued - amount
    /\ UNCHANGED <<configVars, packets, delivered>>

Burn(c, wallet, amount) ==
    /\ c \in Issuers /\ c \notin paused
    /\ amount # 0 /\ wallet \notin frozen[c]
    /\ balances[c][wallet] >= amount
    /\ balances' = [balances EXCEPT ![c][wallet] = @ - amount]
    /\ issued' = issued - amount
    /\ UNCHANGED <<configVars, packets, delivered>>

\* A payment; paying the adapter is a mistake that nothing prevents.
Transfer(c, wallet, to, amount) ==
    /\ c \notin paused
    /\ frozen[c] \intersect {wallet, to} = {}
    /\ balances[c][wallet] >= amount
    /\ balances' = Moved(c, wallet, to, amount)
    /\ UNCHANGED <<configVars, packets, delivered, issued>>

\* recoverTokens of a frozen account, be it the adapter's.
Recover(c, account, agent, amount) ==
    /\ c \notin paused
    /\ amount # 0 /\ account \in frozen[c]
    /\ balances[c][account] >= amount
    /\ balances' = Moved(c, account, agent, amount)
    /\ UNCHANGED <<configVars, packets, delivered, issued>>

-----------------------------------------------------------------------------
(* The administrators of the chains, who do not coordinate.                *)

UnchangedByAdmin == UNCHANGED <<tokenVars, packets, delivered>>

Freeze(c, account) ==
    /\ frozen' = [frozen EXCEPT ![c] = @ \union {account}]
    /\ UNCHANGED <<paused, authorised, peers, outages>> /\ UnchangedByAdmin

Unfreeze(c, account) ==
    /\ frozen' = [frozen EXCEPT ![c] = @ \ {account}]
    /\ UNCHANGED <<paused, authorised, peers, outages>> /\ UnchangedByAdmin

Interrupt == outages < MaxOutages /\ outages' = outages + 1

Pause(c) ==
    /\ Interrupt
    /\ paused' = paused \union {c}
    /\ UNCHANGED <<frozen, authorised, peers>> /\ UnchangedByAdmin

Unpause(c) ==
    /\ c \in paused
    /\ paused' = paused \ {c}
    /\ UNCHANGED <<frozen, authorised, peers, outages>> /\ UnchangedByAdmin

\* The role table of a paused token does not change.
RevokeAdapter(c) ==
    /\ Interrupt /\ c \notin paused
    /\ authorised' = authorised \ {c}
    /\ UNCHANGED <<frozen, paused, peers>> /\ UnchangedByAdmin

GrantAdapter(c) ==
    /\ c \notin authorised /\ c \notin paused
    /\ authorised' = authorised \union {c}
    /\ UNCHANGED <<frozen, paused, peers, outages>> /\ UnchangedByAdmin

\* setPeer, to zero and back.  The two directions of a pathway are two
\* transactions, on two chains.
ClearPeer(c, d) ==
    /\ Interrupt
    /\ peers' = [peers EXCEPT ![c] = @ \ {d}]
    /\ UNCHANGED <<frozen, paused, authorised>> /\ UnchangedByAdmin

SetPeer(c, d) ==
    /\ d \notin peers[c]
    /\ peers' = [peers EXCEPT ![c] = @ \union {d}]
    /\ UNCHANGED <<frozen, paused, authorised, outages>> /\ UnchangedByAdmin

-----------------------------------------------------------------------------

BridgeStep ==
    \/ \E c \in Chains, wallet \in Wallets, to \in Holders \union {Nobody},
          amount \in Amount :
          \E d \in Chains \ {c} : Send(c, wallet, d, to, amount)
    \/ \E i \in 1..MaxPackets : Receive(i)

TokenStep ==
    \E c \in Chains, wallet \in Wallets, amount \in Amount :
        \/ Mint(c, wallet, amount)
        \/ Burn(c, wallet, amount)
        \/ \E to \in Holders : Transfer(c, wallet, to, amount)
        \/ \E account \in Holders : Recover(c, account, wallet, amount)

FreezeStep ==
    \E pair \in Freezable :
        Freeze(pair[1], pair[2]) \/ Unfreeze(pair[1], pair[2])

OutageStep ==
    \E c \in Chains :
        \/ Pause(c) \/ Unpause(c)
        \/ RevokeAdapter(c) \/ GrantAdapter(c)
        \/ \E d \in Chains \ {c} : ClearPeer(c, d) \/ SetPeer(c, d)

Next == BridgeStep \/ TokenStep \/ FreezeStep \/ OutageStep

Spec == Init /\ [][Next]_vars

\* The executor retries every message, and the administrators undo what they
\* interrupted: a pause is lifted, a role granted again, a peer set again.
Fairness ==
    /\ \A i \in 1..MaxPackets : WF_vars(Receive(i))
    /\ \A c \in Chains :
          /\ WF_vars(Unpause(c))
          /\ WF_vars(GrantAdapter(c))
          /\ \A d \in Chains \ {c} : WF_vars(SetPeer(c, d))

FairSpec == Spec /\ Fairness

-----------------------------------------------------------------------------

Supply(c) == SumFunction(balances[c])

InFlight == DOMAIN packets \ delivered

InFlightAmount ==
    SumFunctionOnSet([i \in DOMAIN packets |-> packets[i].amount], InFlight)

SupplyOf(S) == SumFunctionOnSet([c \in Chains |-> Supply(c)], S)

\* What holders away from the hub own, or will on delivery.
Outstanding == SupplyOf(Chains \ LockChains) + InFlightAmount

Locked ==
    SumFunctionOnSet([c \in Chains |-> balances[c][Adapter]], LockChains)

\* Nothing is created or lost by moving between chains: all tokens on all
\* chains and in messages, those locked behind another chain's not counted
\* twice, are those that issuers put in circulation, as long as no amount
\* exceeds a message's uint64.  In a mesh of mint-and-burn adapters.
ConservedAcrossChains ==
    LockChains = {} => Outstanding = issued

\* The hub can always pay: what is locked covers everything outstanding on
\* the other chains and on the way, whatever the order of sends and receipts,
\* unless tokens are recovered from the adapter itself.
HubCoversSpokes == LockChains # {} => Locked >= Outstanding

\* Only that recovery, possible while the hub's registry denies the adapter,
\* ever diminishes the cover: no bridge step, payment, burn or outage does.
CoverFallsOnlyByRecovery ==
    [][Locked' - Outstanding' < Locked - Outstanding =>
          \E c \in LockChains : Adapter \in frozen[c]]_vars

\* Whatever is sent arrives, exactly once (a message is executed once and for
\* ever): a frozen or zero recipient, a pause, a revoked role or a missing
\* peer delays it and never makes it revert for good.  README: "This is done
\* so that the destination transaction doesn't revert".
EveryTransferArrives ==
    \A i \in 1..MaxPackets : (i \in InFlight) ~> (i \in delivered)

\* The hub's adapter holds for itself only what exceeds what it locks.
Held(c, h) ==
    IF c \in LockChains /\ h = Adapter THEN balances[c][h] - Outstanding
                                       ELSE balances[c][h]

Ledger == INSTANCE OmnichainLedger WITH
    holdings <- [c \in Chains |-> [h \in Holders |-> Held(c, h)]],
    transit  <- {[id |-> i, dst |-> packets[i].dst, to |-> packets[i].to,
                  amount |-> packets[i].amount] : i \in InFlight}

\* The mesh implements the one ledger: every debit sets one transfer out, and
\* every credit is the arrival, once, of a transfer that was under way.
ImplementsLedger == Ledger!Spec
=============================================================================
