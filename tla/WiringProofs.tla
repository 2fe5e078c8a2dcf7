----------------------------- MODULE WiringProofs -----------------------------
(***************************************************************************)
(* For any number of chains, stores, interrupted runs and keys: what a run *)
(* of wire has confirmed stays wired, and every pathway is verified on     *)
(* both sides alike, with a verifier to spare.                             *)
(***************************************************************************)
EXTENDS Wiring, TLAPS

\* A transaction: only on Solana, and for other chains, are there accounts.
ItemOK(item) ==
    /\ item.step \in {"init", "peer", "config", "delegate", "owner"}
    /\ item.oapp \in OApps /\ item.chain \in Chains /\ item.peer \in OApps
    /\ item.step = "init" => item.oapp \in Stores /\ item.chain \in Evms

\* It sets the peer, if any, that the pathways of this store need.
ForStore(item, store) ==
    /\ item.step = "peer" => item.peer = OApp(store, item.chain)
    /\ item.step = "peer" /\ item.oapp \in Stores => item.chain \in Evms

\* Sent, it does this step for this pathway.
Does(item, step, p) == item.step = step /\ item.oapp = p[1] /\ item.chain = p[2]

\* What a run of wire that waits for confirmations has not sent yet is all that
\* is missing.
LeftIsMissing ==
    \A p \in Pathways(file) :
        /\ PeerSet(file, p) \/ \E item \in run.left : Does(item, "peer", p)
        /\ p \in configured \/ \E item \in run.left : Does(item, "config", p)

RunOK ==
    run # None =>
        /\ run = [kind |-> run.kind, signer |-> run.signer, store |-> run.store,
                  left |-> run.left]
        /\ run.kind \in Kinds /\ run.signer \in {"keypair", "fireblocks"}
        /\ run.store \in Stores /\ run.store <= file
        /\ \A item \in run.left : ItemOK(item) /\ ForStore(item, run.store)
        /\ (run.kind = "wire" /\ run.signer = "keypair" /\ run.store = file) =>
              LeftIsMissing
        /\ run.store # file => "confirmed" \notin reported

\* Custody holds items of stores, whose peers are the same for every store.
CustodyOK ==
    \A item \in custody :
        /\ ItemOK(item) /\ item.oapp \in Stores
        /\ item.step = "peer" => item.chain \in Evms /\ item.peer = item.chain

IInv == WiringTypeOK /\ RunOK /\ CustodyOK /\ ConfirmedStaysWired

-----------------------------------------------------------------------------
(* Pathways.                                                               *)

\* The contracts of a store's mesh.
LEMMA OAppType ==
    ASSUME NEW store \in Stores, NEW c \in Chains
    PROVE  /\ OApp(store, c) \in OApps
           /\ OApp(store, c) \in Stores => c = Solana
           /\ c # Solana => c \in Evms /\ OApp(store, c) = c
  BY WiringAssumption DEF OApp, OApps, Chains, Stores

\* A direction of a pathway of it.
LEMMA PathwayType ==
    ASSUME NEW store \in Stores, NEW p \in Pathways(store)
    PROVE  /\ p[1] \in OApps /\ p[2] \in Chains /\ p = <<p[1], p[2]>>
           /\ p[1] \in Stores => p[2] \in Evms
  <1>1. PICK from \in Chains, to \in Chains :
           /\ p = <<OApp(store, from), to>>
           /\ p \notin Contracts(store)
    BY DEF Pathways
  <1>2. from # to
    BY <1>1 DEF Contracts
  <1> QED
    BY <1>1, <1>2, OAppType

\* The recorded store is one of those that the bound allows.
LEMMA FileType ==
    ASSUME WiringTypeOK
    PROVE  /\ file \in Nat /\ (Deployed => file \in Stores)
           /\ MaxStores \in Nat
  BY WiringAssumption DEF WiringTypeOK, Deployed, Stores

\* What is wired depends on the recorded store and on what the chains hold.
LEMMA SameWiring ==
    ASSUME file' = file, peers' = peers, configured' = configured
    PROVE  /\ Wired' <=> Wired
           /\ \A p, store : PeerSet(store, p)' <=> PeerSet(store, p)
           /\ run' = run => (LeftIsMissing' <=> LeftIsMissing)
  BY DEF Wired, Deployed, PeerSet, LeftIsMissing

\* An executed transaction does its step, and undoes no other of its store.
LEMMA ExecuteEffect ==
    ASSUME WiringTypeOK, NEW item, ItemOK(item), Execute(item),
           NEW store \in Stores, ForStore(item, store)
    PROVE  /\ initialised' \subseteq Stores \X Evms
           /\ peers' \in [OApps -> [Chains -> OApps \union {None}]]
           /\ configured' \subseteq OApps \X Chains
           /\ delegated' \subseteq OApps /\ handed' \subseteq OApps
           /\ \A p \in Pathways(store) :
                 /\ PeerSet(store, p) \/ Does(item, "peer", p)
                       => PeerSet(store, p)'
                 /\ p \in configured \/ Does(item, "config", p)
                       => p \in configured'
  <1>1. /\ item.oapp \in OApps /\ item.chain \in Chains /\ item.peer \in OApps
        /\ item.step = "init" => item.oapp \in Stores /\ item.chain \in Evms
    BY DEF ItemOK
  <1>2. /\ initialised' \subseteq Stores \X Evms
        /\ configured' \subseteq OApps \X Chains
        /\ delegated' \subseteq OApps /\ handed' \subseteq OApps
    BY <1>1 DEF WiringTypeOK, Execute, With
  <1>3. /\ peers' \in [OApps -> [Chains -> OApps \union {None}]]
        /\ peers \in [OApps -> [Chains -> OApps \union {None}]]
    BY <1>1 DEF WiringTypeOK, Execute
  <1>4. ASSUME NEW p \in Pathways(store)
        PROVE  /\ PeerSet(store, p) \/ Does(item, "peer", p)
                     => PeerSet(store, p)'
               /\ p \in configured \/ Does(item, "config", p)
                     => p \in configured'
    <2>1. p[1] \in OApps /\ p[2] \in Chains /\ p = <<p[1], p[2]>>
      BY PathwayType
    <2>2. CASE item.step = "peer"
      <3>1. /\ peers' = [peers EXCEPT ![item.oapp][item.chain] = item.peer]
            /\ item.peer = OApp(store, item.chain)
            /\ configured' = configured
        BY <2>2 DEF Execute, With, ForStore
      <3>2. peers'[p[1]][p[2]] =
               IF p[1] = item.oapp /\ p[2] = item.chain THEN item.peer
               ELSE peers[p[1]][p[2]]
        BY <1>1, <1>3, <2>1, <3>1
      <3> QED
        BY <2>2, <3>1, <3>2 DEF PeerSet, Does
    <2>3. CASE item.step # "peer"
      <3>1. /\ peers' = peers
            /\ configured \subseteq configured'
            /\ item.step = "config" =>
                  <<item.oapp, item.chain>> \in configured'
        BY <2>3 DEF Execute, With
      <3> QED
        BY <2>1, <2>3, <3>1 DEF PeerSet, Does
    <2> QED
      BY <2>2, <2>3
  <1> QED
    BY <1>2, <1>3, <1>4

\* Where it is for the recorded store, nothing is unwired.
LEMMA ExecuteKeepsWired ==
    ASSUME WiringTypeOK, NEW item, ItemOK(item), Execute(item), Deployed,
           ForStore(item, file), file' = file
    PROVE  Wired => Wired'
  <1>1. file \in Stores
    BY FileType
  <1>2. \A p \in Pathways(file) :
           /\ PeerSet(file, p) => PeerSet(file, p)'
           /\ p \in configured => p \in configured'
    BY <1>1, ExecuteEffect
  <1> QED
    BY <1>2 DEF Wired, Deployed, PeerSet

-----------------------------------------------------------------------------
(* The steps.                                                              *)

\* The initial states.
LEMMA InitIInv == Init => IInv
  <1> SUFFICES ASSUME Init PROVE IInv
    OBVIOUS
  <1>1. WiringTypeOK
    BY WiringAssumption DEF Init, WiringTypeOK
  <1> QED
    BY <1>1 DEF Init, IInv, RunOK, CustodyOK, ConfirmedStaysWired

\* What a run that starts has to send.
LEMMA StartItems ==
    ASSUME NEW store \in Stores, NEW kind \in Kinds, NEW account,
           NEW m \in Missing(kind, store)
    PROVE  /\ ItemOK(Item(m, store, account))
           /\ ForStore(Item(m, store, account), store)
  <1>1. \/ \E p \in Pathways(store) :
              \/ m = <<"init", p>> /\ p[1] \in Stores
              \/ m = <<"peer", p>>
              \/ m = <<"config", p>>
        \/ \E p \in Contracts(store) :
              m = <<"delegate", p>> \/ m = <<"owner", p>>
    BY DEF Missing, Kinds
  <1>2. \A p \in Pathways(store) :
           /\ p[1] \in OApps /\ p[2] \in Chains
           /\ p[1] \in Stores => p[2] \in Evms
           /\ OApp(store, p[2]) \in OApps
    BY PathwayType, OAppType
  <1>3. \A p \in Contracts(store) :
           p[1] \in OApps /\ p[2] \in Chains /\ OApp(store, p[2]) \in OApps
    BY OAppType DEF Contracts
  <1> QED
    BY <1>1, <1>2, <1>3 DEF Item, ItemOK, ForStore

\* A run starts, or finds nothing to do.
LEMMA StartRunKeeps ==
    ASSUME IInv, NEW kind \in Kinds, NEW env \in Environments,
           StartRun(kind, env)
    PROVE  IInv'
  <1>1. /\ UNCHANGED <<file, library, initialised, peers, configured, delegated,
                       handed, custody>>
        /\ Deployed /\ run = None /\ file \in Stores /\ file \in Nat
    BY FileType DEF StartRun, chainVars, IInv
  <1>2. trouble' \in 0..MaxTrouble
    BY WiringAssumption DEF StartRun, IInv, WiringTypeOK
  <1>3. /\ Wired' <=> Wired
        /\ \A p, store : PeerSet(store, p)' <=> PeerSet(store, p)
    BY <1>1, SameWiring
  <1>4. CustodyOK'
    BY <1>1 DEF IInv, CustodyOK
  <1> DEFINE account == UserAccount(env)
  <1>5. CASE Missing(kind, file) = {}
    <2>1. run' = run /\ reported' = Report(kind, file, "confirmed")
      BY <1>5 DEF StartRun
    <2>2. kind = "wire" => Wired
      BY <1>1, <1>5 DEF Missing, Wired
    <2>3. ConfirmedStaysWired' /\ RunOK'
      BY <1>1, <1>3, <2>1, <2>2
         DEF IInv, ConfirmedStaysWired, Report, RunOK
    <2>4. reported' \subseteq {"confirmed", "submitted"}
      BY <2>1 DEF IInv, WiringTypeOK, Report
    <2>5. WiringTypeOK'
      BY <1>1, <1>2, <2>1, <2>4 DEF IInv, WiringTypeOK
    <2> QED
      BY <1>4, <2>3, <2>5 DEF IInv
  <1>6. CASE Missing(kind, file) # {}
    <2> DEFINE left == {Item(m, file, account) : m \in Missing(kind, file)}
    <2>1. /\ run' = [kind |-> kind, signer |-> Signer(env), store |-> file,
                     left |-> left]
          /\ reported' = reported
      BY <1>6 DEF StartRun
    <2>2. \A item \in left : ItemOK(item) /\ ForStore(item, file)
      BY <1>1, StartItems
    <2>3. Signer(env) \in {"keypair", "fireblocks"}
      BY DEF Signer
    <2>4. ASSUME kind = "wire", NEW p \in Pathways(file)
          PROVE  /\ PeerSet(file, p) \/ \E item \in left : Does(item, "peer", p)
                 /\ p \in configured
                       \/ \E item \in left : Does(item, "config", p)
      <3>1. ASSUME ~PeerSet(file, p)
            PROVE  \E item \in left : Does(item, "peer", p)
        <4>1. <<"peer", p>> \in Missing(kind, file)
          BY <2>4, <3>1 DEF Missing
        <4>2. Item(<<"peer", p>>, file, account) \in left
          BY <4>1
        <4>3. Does(Item(<<"peer", p>>, file, account), "peer", p)
          BY DEF Item, Does
        <4> QED
          BY <4>2, <4>3
      <3>2. ASSUME p \notin configured
            PROVE  \E item \in left : Does(item, "config", p)
        <4>1. <<"config", p>> \in Missing(kind, file)
          BY <2>4, <3>2 DEF Missing
        <4>2. Item(<<"config", p>>, file, account) \in left
          BY <4>1
        <4>3. Does(Item(<<"config", p>>, file, account), "config", p)
          BY DEF Item, Does
        <4> QED
          BY <4>2, <4>3
      <3> QED
        BY <3>1, <3>2
    <2> HIDE DEF left
    <2>5. /\ run'.kind = kind /\ run'.signer = Signer(env)
          /\ run'.store = file /\ run'.left = left
      BY <2>1
    <2>6. kind = "wire" => LeftIsMissing'
      BY <1>1, <1>3, <2>4, <2>5 DEF LeftIsMissing
    <2>7. RunOK'
      BY <1>1, <2>1, <2>2, <2>3, <2>5, <2>6 DEF RunOK
    <2>8. ConfirmedStaysWired'
      BY <1>3, <2>1 DEF IInv, ConfirmedStaysWired
    <2>9. WiringTypeOK'
      BY <1>1, <1>2, <2>1, <2>2, <2>3, <2>5 DEF IInv, WiringTypeOK, ItemOK
    <2> QED
      BY <1>4, <2>7, <2>8, <2>9 DEF IInv
  <1> QED
    BY <1>5, <1>6

\* A run sends a transaction.
LEMMA SignAndSendKeeps ==
    ASSUME IInv, run # None, NEW item \in run.left, SignAndSend(item)
    PROVE  IInv'
  <1>1. /\ UNCHANGED <<file, library, reported, trouble>>
        /\ run' = [run EXCEPT !.left = @ \ {item}]
    BY DEF SignAndSend, Sent
  <1>2. /\ run = [kind |-> run.kind, signer |-> run.signer,
                  store |-> run.store, left |-> run.left]
        /\ run.kind \in Kinds /\ run.signer \in {"keypair", "fireblocks"}
        /\ run.store \in Stores /\ run.store <= file
        /\ \A other \in run.left : ItemOK(other) /\ ForStore(other, run.store)
        /\ (run.kind = "wire" /\ run.signer = "keypair" /\ run.store = file) =>
              LeftIsMissing
        /\ run.store # file => "confirmed" \notin reported
    BY DEF IInv, RunOK
  <1>3. run' = [kind |-> run.kind, signer |-> run.signer, store |-> run.store,
                left |-> run.left \ {item}]
    BY <1>1, <1>2
  <1>4. /\ run'.kind = run.kind /\ run'.signer = run.signer
        /\ run'.store = run.store /\ run'.left = run.left \ {item}
    BY <1>3
  <1>5. Deployed /\ file \in Stores
    BY <1>2, FileType DEF IInv, Deployed, Stores
  <1>6. CASE ByFireblocks(item)
    <2>1. /\ custody' = custody \union {item}
          /\ UNCHANGED <<initialised, peers, configured, delegated, handed>>
      BY <1>6 DEF SignAndSend, Submit, chainVars
    <2>2. item.oapp \in Stores /\ run.signer = "fireblocks"
      BY <1>6 DEF ByFireblocks
    <2>3. RunOK'
      BY <1>1, <1>2, <1>3, <1>4, <2>2 DEF RunOK
    <2>4. CustodyOK'
      <3>1. item.step = "peer" => item.chain \in Evms /\ item.peer = item.chain
        BY <1>2, <2>2, OAppType, WiringAssumption DEF ForStore, Chains, OApp
      <3> QED
        BY <1>2, <2>1, <2>2, <3>1 DEF IInv, CustodyOK
    <2>5. ConfirmedStaysWired'
      BY <1>1, <2>1, SameWiring DEF IInv, ConfirmedStaysWired
    <2>6. WiringTypeOK'
      BY <1>1, <1>2, <1>4, <2>1, <2>2 DEF IInv, WiringTypeOK, ItemOK
    <2> QED
      BY <2>3, <2>4, <2>5, <2>6 DEF IInv
  <1>7. CASE ~ByFireblocks(item)
    <2>1. Execute(item) /\ custody' = custody
      BY <1>7 DEF SignAndSend, Confirm
    <2>2. /\ initialised' \subseteq Stores \X Evms
          /\ peers' \in [OApps -> [Chains -> OApps \union {None}]]
          /\ configured' \subseteq OApps \X Chains
          /\ delegated' \subseteq OApps /\ handed' \subseteq OApps
          /\ run.store = file =>
                \A p \in Pathways(file) :
                   /\ PeerSet(file, p) \/ Does(item, "peer", p)
                         => PeerSet(file, p)'
                   /\ p \in configured \/ Does(item, "config", p)
                         => p \in configured'
      BY <1>1, <1>2, <2>1, ExecuteEffect DEF IInv, PeerSet
    <2>3. (LeftIsMissing /\ run.store = file) => LeftIsMissing'
      <3> SUFFICES ASSUME LeftIsMissing, run.store = file,
                          NEW p \in Pathways(file)
                   PROVE  /\ \/ PeerSet(file, p)'
                             \/ \E other \in run'.left : Does(other, "peer", p)
                          /\ \/ p \in configured'
                             \/ \E other \in run'.left : Does(other, "config", p)
        BY <1>1 DEF LeftIsMissing, PeerSet
      <3>1. /\ PeerSet(file, p) \/ \E o \in run.left : Does(o, "peer", p)
            /\ p \in configured \/ \E o \in run.left : Does(o, "config", p)
        BY DEF LeftIsMissing
      <3>2. /\ PeerSet(file, p) \/ Does(item, "peer", p) => PeerSet(file, p)'
            /\ p \in configured \/ Does(item, "config", p) => p \in configured'
        BY <2>2
      <3> QED
        BY <1>4, <3>1, <3>2
    <2>4. RunOK'
      BY <1>1, <1>2, <1>3, <1>4, <2>3 DEF RunOK
    <2>5. CustodyOK'
      BY <2>1 DEF IInv, CustodyOK
    <2>6. ConfirmedStaysWired'
      <3>1. CASE run.store = file
        BY <1>1, <1>2, <1>5, <2>1, <3>1, ExecuteKeepsWired
           DEF IInv, ConfirmedStaysWired
      <3>2. CASE run.store # file
        BY <1>1, <1>2, <3>2 DEF ConfirmedStaysWired
      <3> QED
        BY <3>1, <3>2
    <2>7. WiringTypeOK'
      BY <1>1, <1>2, <1>4, <2>1, <2>2 DEF IInv, WiringTypeOK, ItemOK
    <2> QED
      BY <2>4, <2>5, <2>6, <2>7 DEF IInv
  <1> QED
    BY <1>6, <1>7

\* A run ends, well or not.
LEMMA EndKeeps ==
    ASSUME IInv, run # None, run' = None, trouble' \in 0..MaxTrouble,
           UNCHANGED <<file, initialised, peers, configured, delegated, handed,
                       custody>>,
           \/ reported' = reported
           \/ /\ run.left = {}
              /\ reported' = Report(run.kind, run.store,
                                    IF run.signer = "keypair" THEN "confirmed"
                                                              ELSE "submitted")
    PROVE  IInv'
  <1>1. Wired' <=> Wired
    BY SameWiring
  <1>2. RunOK' /\ CustodyOK'
    BY DEF IInv, RunOK, CustodyOK
  <1>3. "confirmed" \in reported' => Wired
    <2>1. "confirmed" \in reported => Wired
      BY DEF IInv, ConfirmedStaysWired
    <2> SUFFICES ASSUME run.left = {}, run.kind = "wire", run.store = file,
                        run.signer = "keypair"
                 PROVE  Wired
      BY <2>1 DEF Report
    <2>2. LeftIsMissing /\ Deployed
      BY FileType DEF IInv, RunOK, Deployed, Stores
    <2> QED
      BY <2>2 DEF LeftIsMissing, Wired
  <1>4. ConfirmedStaysWired'
    BY <1>1, <1>3 DEF ConfirmedStaysWired
  <1>5. reported' \subseteq {"confirmed", "submitted"}
    BY DEF IInv, WiringTypeOK, Report
  <1>6. WiringTypeOK'
    BY <1>5 DEF IInv, WiringTypeOK
  <1> QED
    BY <1>2, <1>4, <1>6 DEF IInv

\* A custodian approves, or a transaction lapses.
LEMMA CustodyKeeps ==
    ASSUME IInv, NEW item \in custody, Approve(item) \/ Lapse(item)
    PROVE  IInv'
  <1>1. /\ UNCHANGED <<file, run, reported>>
        /\ custody' = custody \ {item}
        /\ trouble' \in 0..MaxTrouble
        /\ \/ Execute(item)
           \/ UNCHANGED <<initialised, peers, configured, delegated, handed>>
    BY WiringAssumption
       DEF Approve, Lapse, chainVars, IInv, WiringTypeOK
  <1>2. CustodyOK'
    BY <1>1 DEF IInv, CustodyOK
  <1>3. CASE UNCHANGED <<initialised, peers, configured, delegated, handed>>
    <2>1. /\ Wired' <=> Wired
          /\ LeftIsMissing' <=> LeftIsMissing
      BY <1>1, <1>3, SameWiring
    <2>2. RunOK' /\ ConfirmedStaysWired'
      BY <1>1, <2>1 DEF IInv, RunOK, ConfirmedStaysWired
    <2>3. WiringTypeOK'
      BY <1>1, <1>3 DEF IInv, WiringTypeOK
    <2> QED
      BY <1>2, <2>2, <2>3 DEF IInv
  <1>4. CASE Execute(item)
    <2>1. ItemOK(item) /\ \A store \in Stores : ForStore(item, store)
      <3>1. /\ ItemOK(item)
            /\ item.step = "peer" => item.chain \in Evms /\ item.peer = item.chain
        BY DEF IInv, CustodyOK
      <3> QED
        BY <3>1, WiringAssumption DEF ForStore, OApp
    <2>2. ASSUME NEW store \in Stores
          PROVE  /\ initialised' \subseteq Stores \X Evms
                 /\ peers' \in [OApps -> [Chains -> OApps \union {None}]]
                 /\ configured' \subseteq OApps \X Chains
                 /\ delegated' \subseteq OApps /\ handed' \subseteq OApps
                 /\ \A p \in Pathways(store) :
                       /\ PeerSet(store, p) => PeerSet(store, p)'
                       /\ p \in configured => p \in configured'
      BY <1>4, <2>1, ExecuteEffect DEF IInv
    <2>3. item.oapp \in Stores
      BY DEF IInv, CustodyOK
    <2>4. RunOK'
      <3>1. (run # None /\ LeftIsMissing /\ run.store = file) => LeftIsMissing'
        BY <1>1, <2>2 DEF IInv, RunOK, LeftIsMissing, PeerSet
      <3> QED
        BY <1>1, <3>1 DEF IInv, RunOK
    <2>5. ConfirmedStaysWired'
      <3>1. Wired => Wired'
        BY <1>1, <1>4, <2>1, ExecuteKeepsWired, FileType DEF IInv, Wired
      <3> QED
        BY <1>1, <3>1 DEF IInv, ConfirmedStaysWired
    <2>6. WiringTypeOK'
      BY <1>1, <2>2, <2>3 DEF IInv, WiringTypeOK
    <2> QED
      BY <1>2, <2>4, <2>5, <2>6 DEF IInv
  <1> QED
    BY <1>1, <1>3, <1>4

\* Another store is deployed: no report is about it yet.
LEMMA DeployKeeps ==
    ASSUME IInv, Deploy
    PROVE  IInv'
  <1>1. /\ file' = file + 1 /\ file < MaxStores /\ reported' = {}
        /\ UNCHANGED <<initialised, peers, configured, delegated, handed, run,
                       custody, trouble>>
    BY DEF Deploy, chainVars
  <1>2. file \in 0..MaxStores /\ MaxStores \in Nat
    BY WiringAssumption DEF IInv, WiringTypeOK
  <1>3. CustodyOK' /\ ConfirmedStaysWired'
    BY <1>1 DEF IInv, CustodyOK, ConfirmedStaysWired
  <1>4. RunOK'
    <2>1. (run # None) => /\ run.store \in Stores /\ run.store <= file
      BY DEF IInv, RunOK
    <2>2. (run # None) => run.store <= file' /\ run.store # file'
      BY <1>1, <1>2, <2>1 DEF Stores
    <2> QED
      BY <1>1, <2>2 DEF IInv, RunOK
  <1>5. WiringTypeOK'
    BY <1>1, <1>2 DEF IInv, WiringTypeOK
  <1> QED
    BY <1>3, <1>4, <1>5 DEF IInv

\* Every step keeps the invariant.
LEMMA NextIInv == IInv /\ [Next]_vars => IInv'
  <1> SUFFICES ASSUME IInv, [Next]_vars PROVE IInv'
    OBVIOUS
  <1>0. trouble \in 0..MaxTrouble /\ MaxTrouble \in Nat
    BY WiringAssumption DEF IInv, WiringTypeOK
  <1>1. CASE Deploy
    BY <1>1, DeployKeeps
  <1>2. ASSUME NEW kind \in Kinds, NEW env \in Environments, StartRun(kind, env)
        PROVE  IInv'
    BY <1>2, StartRunKeeps
  <1>3. CASE RunStep
    <2>1. ASSUME run # None, NEW item \in run.left, SignAndSend(item)
          PROVE  IInv'
      BY <2>1, SignAndSendKeeps
    <2>2. CASE FinishRun
      BY <1>0, <2>2, EndKeeps DEF FinishRun, chainVars
    <2>3. CASE FailRun
      BY <1>0, <2>3, EndKeeps DEF FailRun, Throw, chainVars
    <2>4. CASE InterruptRun
      BY <1>0, <2>4, EndKeeps DEF InterruptRun, Throw, chainVars
    <2> QED
      BY <1>3, <2>1, <2>2, <2>3, <2>4 DEF RunStep
  <1>4. CASE CustodyStep
    BY <1>4, CustodyKeeps DEF CustodyStep
  <1>5. CASE UNCHANGED vars
    <2>1. UNCHANGED <<file, initialised, peers, configured, delegated, handed,
                      run, reported, custody, trouble>>
      BY <1>5 DEF vars, chainVars
    <2>2. (Wired' <=> Wired) /\ (LeftIsMissing' <=> LeftIsMissing)
      BY <2>1, SameWiring
    <2> QED
      BY <2>1, <2>2
         DEF IInv, WiringTypeOK, RunOK, CustodyOK, ConfirmedStaysWired
  <1> QED
    BY <1>1, <1>2, <1>3, <1>4, <1>5 DEF Next

\* So it holds in every state that can be reached.
LEMMA Invariant == Spec => []IInv
  <1>1. Init => IInv
    BY InitIInv
  <1>2. IInv /\ [Next]_vars => IInv'
    BY NextIInv
  <1> QED
    BY <1>1, <1>2, PTL DEF Spec

-----------------------------------------------------------------------------
(* The theorems.                                                           *)

\* Runs, pathways and custody keep their types.
THEOREM WiringTypeCorrect == Spec => []WiringTypeOK
  <1>1. IInv => WiringTypeOK
    BY DEF IInv
  <1> QED
    BY <1>1, Invariant, PTL

\* What a run of wire reports by a local key pair, or having found nothing to
\* do, is so, and stays so, however runs are interrupted, keys are mixed up,
\* stores are created and handed over, and Fireblocks delays, reorders or drops
\* what it accepted.
THEOREM ConfirmedIsWired == Spec => []ConfirmedStaysWired
  <1>1. IInv => ConfirmedStaysWired
    BY DEF IInv
  <1> QED
    BY <1>1, Invariant, PTL

\* What one side pays for is what the other accepts, with an optional verifier
\* to spare, for every pair of chains.
THEOREM VerifierMayFail == Spec => []OneVerifierMayFail
  <1>1. OneVerifierMayFail
    <2> SUFFICES ASSUME NEW a \in Chains, NEW b \in Chains, a # b
                 PROVE  LET paid == RequiredDVNs(a) \union OptionalDVNs(a, b)
                        IN  /\ RequiredDVNs(b) # {}
                            /\ RequiredDVNs(b) \subseteq paid
                            /\ \A down \in OptionalDVNs(b, a) :
                                  (OptionalDVNs(b, a) \intersect paid)
                                     \ {down} # {}
      BY DEF OneVerifierMayFail
    <2>1. RequiredDVNs(a) = {"WYOMING"} /\ RequiredDVNs(b) = {"WYOMING"}
      BY DEF RequiredDVNs, HasDVN
    <2>2. CASE Hedera \in {a, b}
      <3>1. /\ OptionalDVNs(a, b) = {"CANARY", "LZ_LABS"}
            /\ OptionalDVNs(b, a) = {"CANARY", "LZ_LABS"}
        BY <2>2 DEF OptionalDVNs, HasDVN
      <3> QED
        BY <2>1, <3>1
    <2>3. CASE Hedera \notin {a, b}
      <3>1. /\ OptionalDVNs(a, b) = {"GOOGLE_CLOUD", "LZ_LABS"}
            /\ OptionalDVNs(b, a) = {"GOOGLE_CLOUD", "LZ_LABS"}
        BY <2>3 DEF OptionalDVNs, HasDVN
      <3> QED
        BY <2>1, <3>1
    <2> QED
      BY <2>2, <2>3
  <1> QED
    BY <1>1, PTL
=============================================================================
