-------------------------------- MODULE Wiring --------------------------------
(***************************************************************************)
(* How the chains of the mesh are wired: the tasks                         *)
(* lz:oft:solana:init-config, lz:oapp:wire and                             *)
(* lz:ownable:transfer-ownership, each a run of the same overridden task.  *)
(* A run compares the configuration with the chains, and sends what is     *)
(* missing: to the EVM chains by hardhat's signer, to Solana by a local    *)
(* key pair, which waits for each confirmation, or by Fireblocks, which    *)
(* reports success when it has accepted a transaction that its custodians  *)
(* may yet approve, in any order, or let lapse.                            *)
(*                                                                         *)
(* wire sets, for each direction of a pathway, the peer and the            *)
(* message-library configuration, and last each OApp's delegate.  An OApp  *)
(* takes its peers, its delegate and its owner from its owner, the         *)
(* endpoint takes accounts and configuration from the delegate; both are   *)
(* handed to the same multisig.  The sender of every send library, the     *)
(* enforced options, payments and the multisig's own signer are left out.  *)
(***************************************************************************)
EXTENDS Naturals, FiniteSets

CONSTANTS
    Evms,           \* the EVM chains, each standing for its adapter too
    Solana,
    Hedera,         \* the chain that is not on Google Cloud's list
    None,
    Libraries,      \* what a connection of the configuration may name
    Owner,          \* the account that creates the stores and so owns them
    Accounts,       \* it, and others whose keys are at hand
    Environments,   \* the settings with which the operator may start a task
    MaxStores,      \* bound: the OFT stores that lz:oft:solana:create makes
    MaxCustody,     \* bound: the transactions that Fireblocks holds at once
    MaxTrouble      \* bound: interrupted runs, lapsed transactions and runs
                    \* with another key than the owner's

Chains == Evms \union {Solana}
Stores == 1..MaxStores
OApps == Evms \union Stores

ASSUME WiringAssumption ==
    /\ Solana \notin Evms /\ Evms \intersect Nat = {}
    /\ None \notin Chains \union Nat
    /\ Libraries \subseteq {"unnamed", "uln", "blocked"}
    /\ Owner \in Accounts /\ None \notin Accounts
    /\ Environments \subseteq
          [privateKey : Accounts \union {None},   \* SOLANA_PRIVATE_KEY
           keypairPath : Accounts \union {None},  \* SOLANA_KEYPAIR_PATH
           defaultPath : Accounts \union {None},  \* ~/.config/solana/id.json
           payer : Accounts \union {None}]        \* and Fireblocks' settings
    /\ {MaxStores, MaxCustody, MaxTrouble} \subseteq Nat

VARIABLES
    file,           \* the store that OFT.json records, 0 while there is no file
    library,        \* the send library that the connections name, if any
    initialised,    \* <<store, chain>>: the pathway's accounts on Solana
    peers,          \* on an OApp's chain, the OApp set for each other chain
    configured,     \* <<oapp, chain>>: the pathways whose verifiers are set
    delegated,      \* the OApps whose delegate is the multisig
    handed,         \* the OApps whose owner is the multisig
    run,            \* the run that is under way
    reported,       \* how runs of wire ended well for the store in OFT.json
    custody,        \* the transactions that Fireblocks has accepted
    trouble         \* bound: the trouble so far

chainVars == <<initialised, peers, configured, delegated, handed>>
vars == <<file, library, chainVars, run, reported, custody, trouble>>

Kinds == {"init-config", "wire", "transfer-ownership"}

Init ==
    /\ file = 0 /\ library \in Libraries
    /\ initialised = {} /\ configured = {}
    /\ peers = [o \in OApps |-> [c \in Chains |-> None]]
    /\ delegated = {} /\ handed = {}
    /\ run = None /\ reported = {}
    /\ custody = {} /\ trouble = 0

-----------------------------------------------------------------------------
(* The configuration.                                                      *)

\* The contract on a chain: on Solana a store, as OFT.json records it.
OApp(store, chain) == IF chain = Solana THEN store ELSE chain

HasDVN(chain, dvn) == dvn = "GOOGLE_CLOUD" => chain # Hedera

RequiredDVNs(from) == {dvn \in {"WYOMING"} : HasDVN(from, dvn)}

\* Mutant: only the chain that is configured is looked at.
OptionalDVNsOfSource(from, to) ==
    {dvn \in (IF from = Hedera THEN {"CANARY", "LZ_LABS"}
              ELSE {"GOOGLE_CLOUD", "LZ_LABS"}) : HasDVN(from, dvn)}

\* For both directions of the messages between the two, on the first's chain.
OptionalDVNs(from, to) ==
    {dvn \in (IF Hedera \in {from, to} THEN {"CANARY", "LZ_LABS"}
              ELSE {"GOOGLE_CLOUD", "LZ_LABS"}) : HasDVN(from, dvn)}

\* A contract with its own chain.
Contracts(store) == {<<OApp(store, c), c>> : c \in Chains}

\* A direction of a pathway: the OApp that is configured, and for which chain.
Pathways(store) ==
    {<<OApp(store, from), to>> : from, to \in Chains} \ Contracts(store)

PeerSet(store, p) == peers[p[1]][p[2]] = OApp(store, p[2])

\* What a run has to send: steps, each with the pathway or contract it is for.
Missing(kind, store) ==
    CASE kind = "init-config" ->
            {<<"init", p>> : p \in {q \in Pathways(store) :
                                     q[1] \in Stores /\ q \notin initialised}}
      [] kind = "wire" ->
            {<<"peer", p>> : p \in {q \in Pathways(store) : ~PeerSet(store, q)}}
            \union {<<"config", p>> : p \in Pathways(store) \ configured}
            \union {<<"delegate", p>> : p \in {q \in Contracts(store) :
                                               q[1] \notin delegated}}
      [] kind = "transfer-ownership" ->
            {<<"owner", p>> : p \in {q \in Contracts(store) :
                                      q[1] \notin handed}}

\* Without OFT.json every task throws.
Deployed == file # 0

Wired ==
    /\ Deployed
    /\ \A p \in Pathways(file) : PeerSet(file, p) /\ p \in configured

-----------------------------------------------------------------------------
(* The keys.                                                               *)

\* getSolanaKeypair, and None where it throws: the variables that are set must
\* not differ; only without them the file at the default path is offered.
SolanaKeypair(env) ==
    LET named == {env.privateKey, env.keypairPath} \ {None}
    IN  CASE named = {} -> env.defaultPath
          [] Cardinality(named) = 1 -> CHOOSE key \in named : TRUE
          [] OTHER -> None

\* Whether all of Fireblocks' settings are there; if any is missing, a local
\* key signs.
Signer(env) == IF env.payer # None THEN "fireblocks" ELSE "keypair"

UserAccount(env) ==
    IF Signer(env) = "fireblocks" THEN env.payer ELSE SolanaKeypair(env)

-----------------------------------------------------------------------------
(* The runs.                                                               *)

IsSolanaInitConfig(kind) == kind = "init-config"

\* Mutant: before init-config too.
PreWiringChecksAlways(kind) ==
    library = "uln" =>
        {p \in Pathways(file) : p[1] \in Stores} \subseteq initialised

\* Not before init-config, and only where the connection names a library that
\* is not the blocking one; as configured, none is named.  Where it fails the
\* task throws, with nothing sent.
PreWiringChecks(kind) ==
    (~IsSolanaInitConfig(kind) /\ library = "uln") =>
        {p \in Pathways(file) : p[1] \in Stores} \subseteq initialised

\* A transaction, which the SDK of Solana composes for the user's account, and
\* that of an EVM chain for hardhat's signer, which owns the adapter there.
Item(missing, store, account) ==
    LET oapp == missing[2][1]
        chain == missing[2][2]
    IN  [step |-> missing[1], oapp |-> oapp, chain |-> chain,
         peer |-> OApp(store, chain),
         account |-> IF oapp \in Stores THEN account ELSE Owner]

\* A run of wire that ends without an error has every receipt with status 1:
\* Fireblocks' once it has accepted the transaction, all others once they are
\* confirmed.  A run that finds nothing to send has seen it on the chains.
Report(kind, store, how) ==
    IF kind = "wire" /\ store = file THEN reported \union {how} ELSE reported

StartRun(kind, env) ==
    /\ Deployed /\ run = None
    /\ UserAccount(env) # None
    /\ PreWiringChecks(kind)
    /\ IF Missing(kind, file) = {}
       THEN /\ reported' = Report(kind, file, "confirmed")
            /\ UNCHANGED run
       ELSE /\ run' = [kind |-> kind, signer |-> Signer(env), store |-> file,
                       left |-> {Item(m, file, UserAccount(env)) :
                                    m \in Missing(kind, file)}]
            /\ UNCHANGED reported
    /\ trouble' = trouble + (IF UserAccount(env) = Owner THEN 0 ELSE 1)
    /\ trouble' <= MaxTrouble
    /\ UNCHANGED <<file, library, chainVars, custody>>

\* What a chain makes of a transaction: it needs the owner or, where it is for
\* the endpoint, the delegate, and on Solana the pathway's accounts.
Accepted(item) ==
    /\ item.account = Owner
    /\ IF item.step \in {"init", "config"} THEN item.oapp \notin delegated
                                           ELSE item.oapp \notin handed
    /\ (item.step = "config" /\ item.oapp \in Stores) =>
          <<item.oapp, item.chain>> \in initialised

Order == [init |-> 1, owner |-> 1, peer |-> 1, config |-> 2, delegate |-> 3]

\* Each chain's transactions are sent one after the other, in a fixed order.
IsNext(item) ==
    LET ofChain == {i \in run.left : i.oapp = item.oapp}
    IN  /\ item \in run.left
        /\ item = CHOOSE i \in ofChain :
                     \A j \in ofChain : Order[i.step] <= Order[j.step]

With(set, step, element, item) ==
    IF item.step = step THEN set \union {element} ELSE set

Execute(item) ==
    /\ initialised' = With(initialised, "init", <<item.oapp, item.chain>>, item)
    /\ peers' = IF item.step = "peer"
                THEN [peers EXCEPT ![item.oapp][item.chain] = item.peer]
                ELSE peers
    /\ configured' = With(configured, "config", <<item.oapp, item.chain>>, item)
    /\ delegated' = With(delegated, "delegate", item.oapp, item)
    /\ handed' = With(handed, "owner", item.oapp, item)

\* Fireblocks signs for Solana only.
ByFireblocks(item) == run.signer = "fireblocks" /\ item.oapp \in Stores

Submit(item) ==
    /\ Cardinality(custody) < MaxCustody
    /\ custody' = custody \union {item}
    /\ UNCHANGED chainVars

Confirm(item) == Accepted(item) /\ Execute(item) /\ UNCHANGED custody

Sent(item) ==
    /\ run' = [run EXCEPT !.left = @ \ {item}]
    /\ UNCHANGED <<file, library, reported, trouble>>

\* Mutant: the local key pair does not wait for the confirmation either.
SignAndSendUnconfirmed(item) ==
    /\ IsNext(item)
    /\ IF item.oapp \in Stores THEN Submit(item) ELSE Confirm(item)
    /\ Sent(item)

\* Mutant: Fireblocks is given the EVM chains' transactions too.
SignAndSendAllChains(item) ==
    /\ IsNext(item)
    /\ IF run.signer = "fireblocks" THEN Submit(item) ELSE Confirm(item)
    /\ Sent(item)

\* OmniSignerFireblocks answers with a receipt whose status is 1 as soon as
\* the transaction is submitted; every other signer when it is confirmed.
SignAndSend(item) ==
    /\ IsNext(item)
    /\ IF ByFireblocks(item) THEN Submit(item) ELSE Confirm(item)
    /\ Sent(item)

FinishRun ==
    /\ run # None /\ run.left = {}
    /\ run' = None
    /\ reported' = Report(run.kind, run.store,
                          IF run.signer = "keypair" THEN "confirmed"
                                                    ELSE "submitted")
    /\ UNCHANGED <<file, library, chainVars, custody, trouble>>

\* The task throws: nothing is sent any more, what was sent stays sent.
Throw == run' = None /\ UNCHANGED reported

\* A transaction that its chain refuses ends the run.
FailRun ==
    /\ run # None
    /\ \E item \in run.left :
          IsNext(item) /\ ~ByFireblocks(item) /\ ~Accepted(item)
    /\ Throw
    /\ UNCHANGED <<file, library, chainVars, custody, trouble>>

\* So does a lost connection, or the operator.
InterruptRun ==
    /\ run # None /\ trouble < MaxTrouble
    /\ Throw
    /\ trouble' = trouble + 1
    /\ UNCHANGED <<file, library, chainVars, custody>>

-----------------------------------------------------------------------------
(* Fireblocks' custodians.                                                 *)

\* A transaction that its chain refuses by now changes nothing.
Approve(item) ==
    /\ item \in custody
    /\ custody' = custody \ {item}
    /\ IF Accepted(item) THEN Execute(item)
       ELSE UNCHANGED chainVars
    /\ UNCHANGED <<file, library, run, reported, trouble>>

\* Refused, or approved after the blockhash has lapsed.
Lapse(item) ==
    /\ item \in custody /\ trouble < MaxTrouble
    /\ custody' = custody \ {item}
    /\ trouble' = trouble + 1
    /\ UNCHANGED <<file, library, chainVars, run, reported>>

-----------------------------------------------------------------------------

\* lz:oft:solana:create ends: another store is the one to wire, whatever runs,
\* is in custody or was handed over.
Deploy ==
    /\ file < MaxStores
    /\ file' = file + 1
    /\ reported' = {}
    /\ UNCHANGED <<library, chainVars, run, custody, trouble>>

RunStep ==
    \/ run # None /\ \E item \in run.left : SignAndSend(item)
    \/ FinishRun \/ FailRun \/ InterruptRun

CustodyStep == \E item \in custody : Approve(item) \/ Lapse(item)

Next ==
    \/ Deploy
    \/ \E kind \in Kinds, env \in Environments : StartRun(kind, env)
    \/ RunStep
    \/ CustodyStep

Spec == Init /\ [][Next]_vars

\* Runs come to an end, custodians decide, and the operator runs init-config
\* and wire again, with the owner's key, until nothing is missing.
Fairness ==
    /\ WF_vars(RunStep)
    /\ \A store \in Stores :
          WF_vars(\E item \in custody :
                    item.oapp = store /\ (Approve(item) \/ Lapse(item)))
    /\ \A kind \in {"init-config", "wire"} :
          SF_vars(\E env \in Environments :
                    UserAccount(env) = Owner /\ StartRun(kind, env))

FairSpec == Spec /\ Fairness

\* The operator who follows the README: "First, initialize accounts on Solana
\* ...  Then to wire, run ...  To transfer ownership, run ...".  He wires once
\* the accounts are there, and hands over once wire has ended without error.
InReadmeOrder ==
    (run = None /\ run' # None) =>
        /\ run'.kind = "wire" => Missing("init-config", file) = {}
        /\ run'.kind = "transfer-ownership" => reported # {}

ReadmeSpec == Init /\ [][Next /\ InReadmeOrder]_vars

-----------------------------------------------------------------------------

WiringTypeOK ==
    /\ file \in 0..MaxStores
    /\ initialised \subseteq Stores \X Evms
    /\ peers \in [OApps -> [Chains -> OApps \union {None}]]
    /\ configured \subseteq OApps \X Chains
    /\ delegated \subseteq OApps /\ handed \subseteq OApps
    /\ run # None => /\ run.kind \in Kinds
                     /\ run.signer \in {"keypair", "fireblocks"}
                     /\ \A item \in run.left : item.oapp \in OApps
    /\ reported \subseteq {"confirmed", "submitted"}
    /\ \A item \in custody : item.oapp \in Stores
    /\ trouble \in 0..MaxTrouble

\* What a run of wire by a local key pair, or one that found nothing to do,
\* reports is so, and stays so for the store it was about: no other run, no
\* transaction that Fireblocks still holds, for this store or for one given
\* up, and no handover takes a peer or a configuration away again.
ConfirmedStaysWired == "confirmed" \in reported => Wired

\* wire.ts:283, of the subtask that sends wire's transactions: "responsible for
\* sending transactions to the network and waiting for confirmations".  So in
\* the README's order ownership leaves the operator's hands only with the mesh
\* wired; what is still missing then, only the multisig could repair.
WiredBeforeHandover == handed # {} => Wired

\* What one chain's messages are paid to be verified by is what the other side
\* accepts, by a required verifier and an optional one, and any one
\* of the optional ones may be down (optionalDVNThreshold is 1).
OneVerifierMayFail ==
    \A a, b \in Chains :
        (/\ a # b /\ Deployed
         /\ {<<OApp(file, a), b>>, <<OApp(file, b), a>>} \subseteq configured) =>
            LET paid == RequiredDVNs(a) \union OptionalDVNs(a, b)
            IN  /\ RequiredDVNs(b) # {} /\ RequiredDVNs(b) \subseteq paid
                /\ \A down \in OptionalDVNs(b, a) :
                      (OptionalDVNs(b, a) \intersect paid) \ {down} # {}

\* The owner's key cannot set what is missing any more: the owner went early,
\* or the delegate that wire itself sets was approved before the rest.
OutOfTheOwnersHands ==
    /\ Deployed
    /\ \E p \in Pathways(file) :
          \/ p[1] \in handed /\ (~PeerSet(file, p) \/ p[1] \notin delegated)
          \/ p[1] \in delegated /\ p \notin configured

\* However runs are interrupted, refused, or lost in custody, running the same
\* two tasks again wires the recorded store and every chain, both ways, as
\* long as the owner's key can.
EventuallyWired == Deployed ~> (Wired \/ OutOfTheOwnersHands)
=============================================================================
