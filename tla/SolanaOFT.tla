------------------------------ MODULE SolanaOFT ------------------------------
(***************************************************************************)
(* The Solana program of the mesh (programs/oft) with one peer chain.  An  *)
(* "Adapter" OFT keeps the tokens that leave in its escrow account and     *)
(* counts them in tvl_ld; a "Native" one (the deployed kind) burns and     *)
(* mints them.  Either takes a fee into the escrow, limits the flow with   *)
(* the peer's two token buckets, and can be paused.                        *)
(*                                                                         *)
(* One action is one successful instruction: a failing one is rolled back  *)
(* whole by the runtime, a message it consumed included, and arithmetic is *)
(* checked (overflow-checks = true).  The token program, with Token-2022's *)
(* transfer fee, the endpoint and the peer chain are external.             *)
(*                                                                         *)
(* Two of the operator's tasks are here too: lz:oft:solana:set-config,     *)
(* which sends several of the administrator's instructions as one          *)
(* transaction, and lz:oft:solana:send, which reads the balance and the    *)
(* quote before it sends.                                                  *)
(***************************************************************************)
EXTENDS RateLimiter, FiniteSetsExt

CONSTANTS
    OFTType,        \* "Native" or "Adapter"
    Ld2SdRate,      \* local units in a shared unit
    OneInBps,       \* ONE_IN_BASIS_POINTS: 10000
    Signers,        \* the accounts that sign administrative instructions
    None,           \* Option::None
    Total,          \* the tokens there are when the OFT is deployed
    RemoteTotal,    \* and, of a Native OFT, those on the peer chain
    ConfigRequests, \* what set-config is asked for: values of store fields
    FeeChoices,     \* the fees that a peer is given; a bound for TLC
    LimitChoices,   \* the same of capacities and rates; None leaves as is
    TransferFees,   \* the transfer fees the mint may have: [bps, maximum]
    Amounts,        \* bound: the amounts that sends ask for
    Orders,         \* bound: the amounts that the task is told to send
    MaxTime         \* bound: of the clock

OFTStore == [admin : Signers, pauser : Signers \union {None},
             unpauser : Signers \union {None}, paused : BOOLEAN,
             defaultFeeBps : 0..(OneInBps - 1), tvl : U64]

ASSUME SolanaOFTAssumption ==
    /\ OFTType \in {"Native", "Adapter"}
    /\ Ld2SdRate \in Nat \ {0} /\ OneInBps \in Nat \ {0}
    /\ None \notin Signers \union Nat
    /\ None \notin Limiter /\ None \notin OFTStore
    /\ {Total, RemoteTotal, MaxTime} \subseteq Nat
    /\ OFTType = "Adapter" => RemoteTotal = 0
    /\ \A request \in ConfigRequests :
          /\ DOMAIN request # {}
          /\ \A field \in DOMAIN request :
                \/ field = "defaultFeeBps" /\ request[field] \in Nat
                \/ field = "paused" /\ request[field] \in BOOLEAN
                \/ /\ field \in {"pauser", "unpauser"}
                   /\ request[field] \in Signers \union {None}
                \/ field = "admin" /\ request[field] \in Signers
    /\ FeeChoices \subseteq 0..(OneInBps - 1)
    /\ LimitChoices \subseteq [capacity : U64 \union {None},
                               rate : U64 \union {None}]
    /\ TransferFees \subseteq [bps : 0..OneInBps, maximum : U64]
    /\ OFTType = "Native" => TransferFees = {[bps |-> 0, maximum |-> 0]}
    /\ Amounts \subseteq U64 /\ Orders \subseteq U64

VARIABLES
    oftStore,       \* the OFTStore account: authorities, fee, pause, tvl
    peer,           \* the PeerConfig account: wired or not, fee, buckets
    escrow,         \* the balance of the token_escrow account
    wallets,        \* the balances of all other token accounts together
    withheld,       \* what transfer fees have taken
    transferFee,    \* the mint's transfer fee of this epoch
    remote,         \* the tokens on the peer chain, in shared units
    pending,        \* the messages not yet received: [id, amount]
    clock,          \* Clock::unix_timestamp; it does not go back
    order,          \* what the send task has quoted and not yet sent, or None
    window          \* history: what passed a bucket since a moment, or None

tokenVars  == <<escrow, wallets, withheld, transferFee>>
remoteVars == <<remote, pending>>
vars == <<oftStore, peer, tokenVars, remoteVars, clock, window, order>>

Directions == {"outbound", "inbound"}

\* A window is the stretch of time since some moment over which one bucket's
\* capacity was not set, with what it let pass less what came back the other way.
Window == [bucket : Directions, since : Nat, net : Int]

PeerConfig == [wired : BOOLEAN, feeBps : 0..(OneInBps - 1) \union {None},
               outbound : Limiter \union {None},
               inbound : Limiter \union {None}]

Message == [id : Nat, amount : Nat]

TypeOK ==
    /\ oftStore \in OFTStore /\ peer \in PeerConfig
    /\ escrow \in Nat /\ wallets \in Nat /\ withheld \in Nat
    /\ transferFee \in TransferFees
    /\ remote \in Nat
    /\ pending \subseteq Message
    /\ clock \in 0..MaxTime
    /\ order \in Orders \union {None}
    /\ window \in Window \union {None}

\* init_oft and the first set_peer_config, by a payer that names the admin.
Init ==
    /\ \E admin \in Signers :
          oftStore = [admin |-> admin, pauser |-> None, unpauser |-> None,
                      paused |-> FALSE, defaultFeeBps |-> 0, tvl |-> 0]
    /\ peer = [wired |-> TRUE, feeBps |-> None,
               outbound |-> None, inbound |-> None]
    /\ escrow = 0 /\ wallets = Total /\ withheld = 0
    /\ transferFee \in TransferFees
    /\ remote = RemoteTotal /\ pending = {}
    /\ clock = 0
    /\ order = None /\ window = None
-----------------------------------------------------------------------------
(* Amounts and fees.                                                       *)

RemoveDust(amount) == amount - (amount % Ld2SdRate)

Ld2Sd(amount) == amount \div Ld2SdRate

Sd2Ld(amount) == amount * Ld2SdRate

CeilDiv(x, y) == (x + y - 1) \div y

\* Token-2022's fee on a transfer.
FeeOnTransfer(amount) ==
    AtMost(CeilDiv(amount * transferFee.bps, OneInBps), transferFee.maximum)

PostFeeAmount(amount) == amount - FeeOnTransfer(amount)

\* Mutant: the quotient is rounded down.
PreFeeAmountDown(amount) ==
    IF transferFee.bps = 0 \/ amount = 0 THEN amount
    ELSE IF transferFee.bps = OneInBps THEN amount + transferFee.maximum
    ELSE amount
           + AtMost(((amount * OneInBps) \div (OneInBps - transferFee.bps))
                       - amount, transferFee.maximum)

\* The least amount to send for this much to arrive.
PreFeeAmount(amount) ==
    IF transferFee.bps = 0 \/ amount = 0 THEN amount
    ELSE IF transferFee.bps = OneInBps THEN amount + transferFee.maximum
    ELSE amount
           + AtMost(CeilDiv(amount * OneInBps, OneInBps - transferFee.bps)
                       - amount, transferFee.maximum)

\* The peer's fee, when it has one, takes the place of the default.
FeeBps == IF peer.feeBps = None THEN oftStore.defaultFeeBps ELSE peer.feeBps

CalculateFee(amount) == (amount * FeeBps) \div OneInBps

\* compute_fee_and_adjust_amount, for an amount that a wallet asks to send.
Quote(amount) ==
    LET adapter == OFTType = "Adapter"
        arrived == RemoveDust(IF adapter THEN PostFeeAmount(amount)
                                         ELSE amount)
        fee     == RemoveDust(CalculateFee(arrived))
    IN  [sent     |-> IF adapter THEN PreFeeAmount(arrived) ELSE arrived,
         received |-> arrived - fee,
         fee      |-> fee]

-----------------------------------------------------------------------------
(* The buckets.  A transfer takes from one and gives back to the other.    *)

Passes(direction, amount) ==
    peer[direction] # None => Affords(peer[direction], amount, clock)

Opposite(direction) == IF direction = "outbound" THEN "inbound" ELSE "outbound"

TakeAndGive(direction, amount) ==
    LET back == Opposite(direction)
    IN  /\ peer' = [peer EXCEPT
             ![direction] = IF peer[direction] = None THEN None
                            ELSE Consume(peer[direction], amount, clock),
             ![back] = IF peer[back] = None THEN None
                       ELSE Refill(peer[back], amount, clock)]
        /\ window' = IF window = None THEN None
                     ELSE IF window.bucket = direction
                     THEN [window EXCEPT !.net = @ + amount]
                     ELSE [window EXCEPT !.net = @ - amount]

-----------------------------------------------------------------------------
(* Instructions for everybody.                                             *)

\* The endpoint has opened the pathway to the wired peer alone: it refuses a
\* message to the zero address that an unset peer leaves as receiver.
Send(amount, minAmount) ==
    LET quote == Quote(amount)
    IN  /\ ~oftStore.paused
        /\ peer.wired
        /\ quote.received >= minAmount
        /\ Passes("outbound", quote.received)
        /\ TakeAndGive("outbound", quote.received)
        /\ wallets >= quote.sent
        /\ wallets' = wallets - quote.sent
        /\ IF OFTType = "Adapter"
           THEN /\ oftStore.tvl + quote.received <= MaxU64
                /\ oftStore' = [oftStore EXCEPT !.tvl = @ + quote.received]
                /\ escrow' = escrow + PostFeeAmount(quote.sent)
                /\ withheld' = withheld + FeeOnTransfer(quote.sent)
           ELSE /\ escrow' = escrow + quote.fee
                /\ UNCHANGED <<oftStore, withheld>>
        /\ remote' = remote + Ld2Sd(quote.received)
        /\ UNCHANGED <<transferFee, pending, clock>>

\* Mutant: the message is not cleared.
LzReceiveUncleared(message) ==
    LET amount == Sd2Ld(message.amount)
    IN  /\ message \in pending
        /\ peer.wired /\ ~oftStore.paused
        /\ OFTType = "Native"
        /\ Passes("inbound", amount)
        /\ TakeAndGive("inbound", amount)
        /\ wallets' = wallets + amount
        /\ UNCHANGED <<oftStore, escrow, withheld, transferFee, remote,
                       pending, clock>>

LzReceive(message) ==
    LET amount == Sd2Ld(message.amount)
    IN  /\ message \in pending
        /\ peer.wired
        /\ ~oftStore.paused
        /\ amount <= MaxU64
        /\ Passes("inbound", amount)
        /\ TakeAndGive("inbound", amount)
        /\ IF OFTType = "Adapter"
           THEN /\ oftStore.tvl >= amount /\ escrow >= amount
                /\ oftStore' = [oftStore EXCEPT !.tvl = @ - amount]
                /\ escrow' = escrow - amount
                /\ wallets' = wallets + PostFeeAmount(amount)
                /\ withheld' = withheld + FeeOnTransfer(amount)
           ELSE /\ wallets' = wallets + amount
                /\ UNCHANGED <<oftStore, escrow, withheld>>
        /\ pending' = pending \ {message}
        /\ UNCHANGED <<transferFee, remote, clock>>

-----------------------------------------------------------------------------
(* Instructions for the administrator, the pauser and the unpauser.        *)

ConfigOnly == UNCHANGED <<tokenVars, remoteVars, clock>>

\* set_oft_config, one field of the store at a time; None where it fails.
Configured(store, signer, field, value) ==
    IF /\ store # None /\ store.admin = signer
       /\ field = "defaultFeeBps" => value < OneInBps
    THEN [store EXCEPT ![field] = value] ELSE None

\* Mutant: the new administrator is set before the rest.
ConfigOrderAdminFirst ==
    <<"admin", "defaultFeeBps", "paused", "pauser", "unpauser">>

\* The order of the instructions that lz:oft:solana:set-config composes.  Only
\* the endpoint remembers the delegate, which is left out.
ConfigOrder == <<"defaultFeeBps", "paused", "pauser", "unpauser", "admin">>

\* The i-th of them, where it is asked for.
Then(store, signer, request, i) ==
    LET field == ConfigOrder[i]
    IN  IF field \in DOMAIN request
        THEN Configured(store, signer, field, request[field]) ELSE store

\* The store after all of them, or None where one fails and all with it.
AfterConfig(signer, request) ==
    LET After(store, i) == Then(store, signer, request, i)
    IN  After(After(After(After(After(oftStore, 1), 2), 3), 4), 5)

\* A transaction of the task; with a single field, the bare instruction.
SetOFTConfig(signer, request) ==
    /\ AfterConfig(signer, request) # None
    /\ oftStore' = AfterConfig(signer, request)
    /\ UNCHANGED <<peer, window>> /\ ConfigOnly

SetPause(signer, paused) ==
    /\ signer = IF paused THEN oftStore.pauser ELSE oftStore.unpauser
    /\ oftStore' = [oftStore EXCEPT !.paused = paused]
    /\ UNCHANGED <<peer, window>> /\ ConfigOnly

\* update_rate_limiter.
Reconfigured(limiter, choice) ==
    LET old    == IF limiter = None THEN EmptyLimiter ELSE limiter
        resized == IF choice.capacity = None THEN old
                   ELSE SetCapacity(old, choice.capacity, clock)
    IN  IF choice.rate = None THEN resized
        ELSE SetRate(resized, choice.rate, clock)

Watched(direction) == window # None /\ window.bucket = direction

\* A new capacity ends the window (history only); at a new rate it goes on, less
\* what the old rate allowed so far.
Rewatched(choice) ==
    IF choice.capacity # None THEN None
    ELSE [window EXCEPT
            !.net = @ - peer[window.bucket].refillPerSecond
                          * (clock - window.since),
            !.since = clock]

\* PeerConfigParam::EnforcedOptions are for the endpoint, and left out.
SetPeerConfig(signer) ==
    /\ oftStore.admin = signer
    /\ \/ /\ \/ \E wired \in BOOLEAN : peer' = [peer EXCEPT !.wired = wired]
             \/ \E bps \in FeeChoices \union {None} :
                   peer' = [peer EXCEPT !.feeBps = bps]
          /\ UNCHANGED window
       \/ \E direction \in Directions :
             \/ /\ peer' = [peer EXCEPT ![direction] = None]
                /\ window' = IF Watched(direction) THEN None ELSE window
             \/ \E choice \in LimitChoices :
                   /\ peer' = [peer EXCEPT
                                ![direction] = Reconfigured(@, choice)]
                   /\ window' = IF Watched(direction) THEN Rewatched(choice)
                                                     ELSE window
    /\ UNCHANGED oftStore /\ ConfigOnly

\* Mutant: what is locked is not set aside.
WithdrawFeeAndPrincipal(signer, fee) ==
    /\ oftStore.admin = signer
    /\ escrow >= fee
    /\ escrow' = escrow - fee
    /\ wallets' = wallets + PostFeeAmount(fee)
    /\ withheld' = withheld + FeeOnTransfer(fee)
    /\ UNCHANGED <<oftStore, peer, transferFee, remoteVars, clock, window>>

WithdrawFee(signer, fee) ==
    /\ oftStore.admin = signer
    /\ escrow >= oftStore.tvl
    /\ escrow - oftStore.tvl >= fee
    /\ escrow' = escrow - fee
    /\ wallets' = wallets + PostFeeAmount(fee)
    /\ withheld' = withheld + FeeOnTransfer(fee)
    /\ UNCHANGED <<oftStore, peer, transferFee, remoteVars, clock, window>>

-----------------------------------------------------------------------------
(* Everything else.                                                        *)

\* The peer chain sends back what it has: the endpoint delivers each message
\* at most once, in any order.
RemoteSend(id, amount) ==
    /\ amount <= remote
    /\ \A m \in pending : m.id # id
    /\ remote' = remote - amount
    /\ pending' = pending \union {[id |-> id, amount |-> amount]}
    /\ UNCHANGED <<oftStore, peer, tokenVars, clock, window>>

\* A plain transfer of the token to the escrow account.
Donate(amount) ==
    /\ amount <= wallets
    /\ wallets' = wallets - amount
    /\ escrow' = escrow + PostFeeAmount(amount)
    /\ withheld' = withheld + FeeOnTransfer(amount)
    /\ UNCHANGED <<oftStore, peer, transferFee, remoteVars, clock, window>>

\* Another epoch, another transfer fee.
NextEpoch ==
    /\ transferFee' \in TransferFees
    /\ UNCHANGED <<oftStore, peer, escrow, wallets, withheld, remoteVars,
                   clock, window>>

Tick ==
    /\ clock < MaxTime
    /\ clock' = clock + 1
    /\ UNCHANGED <<oftStore, peer, tokenVars, remoteVars, window>>

\* A moment at which an observer starts to watch a bucket (history only).
Watch(direction) ==
    /\ window = None /\ peer[direction] # None
    /\ window' = [bucket |-> direction, since |-> clock, net |-> 0]
    /\ UNCHANGED <<oftStore, peer, tokenVars, remoteVars, clock>>

-----------------------------------------------------------------------------
(* The task lz:oft:solana:send.                                            *)

\* Mutant: the transaction asks for no more than the quote did.
LeastReceivedOfQuote(amount) == 1

\* What the transaction insists on: minAmountLd.
LeastReceived(amount) == (amount * 9) \div 10

\* quote_send; what the endpoint then charges is left out.
QuoteSend(amount, minAmount) ==
    /\ ~oftStore.paused
    /\ Quote(amount).received >= minAmount

\* The task has read the balance, and the quote, which it lets pass with next
\* to nothing received.
QuoteOrder(amount) ==
    /\ order = None
    /\ amount # 0 /\ amount <= wallets
    /\ QuoteSend(amount, 1)
    /\ order' = amount
    /\ UNCHANGED <<oftStore, peer, tokenVars, remoteVars, clock, window>>

\* The chain may have changed since.
SendOrder ==
    /\ order # None
    /\ Send(order, LeastReceived(order))
    /\ order' = None

\* The transaction is refused, or never sent.
DropOrder ==
    /\ order # None
    /\ order' = None
    /\ UNCHANGED <<oftStore, peer, tokenVars, remoteVars, clock, window>>

SendTaskStep ==
    \/ \E amount \in Orders : QuoteOrder(amount)
    \/ SendOrder \/ DropOrder

BridgeStep ==
    \/ \E amount, minAmount \in Amounts : Send(amount, minAmount)
    \/ \E message \in pending : LzReceive(message)

AdminStep ==
    \E signer \in Signers :
        \/ \E request \in ConfigRequests : SetOFTConfig(signer, request)
        \/ \E paused \in BOOLEAN : SetPause(signer, paused)
        \/ SetPeerConfig(signer)
        \/ \E fee \in Amounts : WithdrawFee(signer, fee)

OtherStep ==
    \/ \E id \in 1..2, amount \in 1..(Total + RemoteTotal) :
          RemoteSend(id, amount)
    \/ \E amount \in Amounts : Donate(amount)
    \/ NextEpoch
    \/ Tick
    \/ \E direction \in Directions : Watch(direction)

Next ==
    \/ (BridgeStep \/ AdminStep \/ OtherStep) /\ UNCHANGED order
    \/ SendTaskStep

Spec == Init /\ [][Next]_vars

-----------------------------------------------------------------------------

Carried(messages) == MapThenSumSet(LAMBDA m : m.amount, messages)

\* All that the peer chain and its messages can claim here, in local units.
Abroad == Sd2Ld(remote + Carried(pending))

\* Over any stretch of time in which a bucket's capacity is not set, what passes
\* it, less what comes back the other way, is no more than its capacity and
\* what it earned meanwhile, each second at the rate of that second: neither a
\* full bucket, nor settling lazily, nor a change of the rate, nor a send and a
\* receipt in the same second earns anything twice.  So a sequence of new
\* capacities lets through no more than their sum and what was earned.
RateLimitHolds ==
    window # None =>
        window.net <= peer[window.bucket].capacity
           + peer[window.bucket].refillPerSecond * (clock - window.since)

\* The escrow holds what is locked, whatever transfer fees, dust, OFT fees and
\* donations pass through the escrow account: withdraw_fee never takes
\* principal nor underflows.
EscrowHoldsTvl == escrow >= oftStore.tvl

\* And what is locked is all that the peer chain can send back: no receipt
\* ever finds the escrow or tvl_ld too small.
EscrowCoversTvl ==
    /\ EscrowHoldsTvl
    /\ oftStore.tvl = IF OFTType = "Adapter" THEN Abroad ELSE 0

\* Nothing is lost between the chains: a send destroys, and a message carries,
\* the same amount to the unit, dust and fees staying on this side.
NothingLost ==
    wallets + escrow + withheld + (IF OFTType = "Native" THEN Abroad ELSE 0)
        = Total + Sd2Ld(RemoteTotal)

\* A sender is never debited more than it asked to send, and what reaches the
\* escrow pays for what is bridged and for the OFT fee.
QuoteIsFair ==
    \A amount \in Amounts :
        LET quote == Quote(amount)
        IN  /\ quote.sent <= amount
            /\ quote.received + quote.fee <=
                  IF OFTType = "Adapter" THEN PostFeeAmount(quote.sent)
                                         ELSE quote.sent

\* Whatever the administrator of the moment asks set-config for, as long as
\* the fee is one, the program accepts every one of its instructions, and
\* leaves the store as asked and otherwise as it was: "Set admin LAST to avoid
\* authorization issues".
ConfigAcceptedWhole ==
    \A request \in ConfigRequests :
        ("defaultFeeBps" \in DOMAIN request =>
            request["defaultFeeBps"] < OneInBps) =>
                LET store == AfterConfig(oftStore.admin, request)
                IN  /\ store # None
                    /\ \A field \in DOMAIN oftStore :
                          store[field] = IF field \in DOMAIN request
                                         THEN request[field]
                                         ELSE oftStore[field]

\* Whatever the administrators, the token's epoch and other senders do between
\* the task's quote and its transaction, the sender pays no more than it
\* asked to send, and all but a tenth of that reaches the peer chain.
SlippageBounded ==
    [][(order # None /\ remote' > remote /\ order' = None) =>
          /\ wallets - wallets' <= order
          /\ order - Sd2Ld(remote' - remote) <= CeilDiv(order, 10)]_vars

\* How long a message that the inbound bucket refuses has to wait: no longer
\* than the bucket needs to earn its amount from nothing, unless the amount is
\* more than its capacity, and then for ever, until the administrator
\* raises the capacity.
ReceivableUnlessTooLarge ==
    \A m \in pending :
        (peer.inbound # None /\ peer.inbound.refillPerSecond # 0) =>
            LET amount == Sd2Ld(m.amount)
                wait   == CeilDiv(amount, peer.inbound.refillPerSecond)
            IN  Affords(peer.inbound, amount, clock + wait)
                    <=> amount <= peer.inbound.capacity
=============================================================================
