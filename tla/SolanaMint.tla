------------------------------ MODULE SolanaMint ------------------------------
(***************************************************************************)
(* How the Solana token comes under the authority of its OFT store: the    *)
(* operator's tasks lz:oft:solana:create and lz:oft:solana:setauthority,   *)
(* and LayerZero's executor, which asks the program for the accounts of a  *)
(* receipt in one transaction and delivers in a later one.  Beside them    *)
(* the tasks set-update-authority and update-metadata, which act on the    *)
(* Metaplex metadata of a mint, and debug, which inspects a store.         *)
(*                                                                         *)
(* A task is a sequence of transactions, each confirmed before the next.   *)
(* It may throw or be killed between any two: what was confirmed stays,    *)
(* what the process knew (the key pair of the escrow, the address of the   *)
(* multisig) is lost.  An authority over a mint is an account or an SPL    *)
(* multisig with a quorum of one, here its place in multisigs.             *)
(***************************************************************************)
EXTENDS Naturals, Sequences

CONSTANTS
    Wallet,         \* the operator's account
    MinterSets,     \* the choices of additional minters
    Heirs,          \* whom the update authority may be given to
    Stores,         \* the OFT stores, one for each escrow key pair
    NewMints,       \* the mints that the task creates
    GivenMints,     \* the mints there were before: mint-and-burn adapters
    System,         \* the system program, for an authority that is renounced
    None,
    MaxTasks        \* bound: the tasks that are started

Mints == NewMints \union GivenMints
Minters == UNION MinterSets

ASSUME SolanaMintAssumption ==
    /\ None \notin {Wallet} \union Minters \union Stores \union Mints
    /\ {} \notin MinterSets /\ None \notin MinterSets
    /\ System \notin {None, Wallet} \union Minters \union Heirs \union Stores
    /\ Wallet \notin Stores /\ Stores \intersect Minters = {}
    /\ NewMints \intersect GivenMints = {}
    /\ MaxTasks \in Nat
    /\ (1..MaxTasks) \intersect ({None, Wallet} \union Stores) = {}
    /\ None \notin [mint : {Wallet} \union Stores \union (1..MaxTasks),
                    freeze : {None, Wallet} \union Stores \union (1..MaxTasks)]
    /\ None \notin [authority : {Wallet, System} \union Heirs,
                    mutable : BOOLEAN]

VARIABLES
    mints,          \* a mint's authorities over minting and freezing, or None
    multisigs,      \* the signers of each multisig, in the order of creation
    stores,         \* a store's mint, or None before init_oft
    file,           \* deployments/.../OFT.json
    task,           \* the task that runs, with the transactions left to send
    drawn,          \* the stores whose key pair was drawn
    started,        \* bound: the tasks started
    message,        \* a message for a store, with the accounts last asked for
    metadata,       \* a new mint's update authority and mutability, or None
    attested        \* history: the stores whose check by debug came out true

chainVars == <<mints, multisigs, stores>>
vars == <<chainVars, file, task, drawn, started, message, metadata, attested>>

\* Whoever may hold an authority over a mint, and None when it is renounced.
Authority == {None, Wallet} \union Stores \union (1..MaxTasks)

\* Whether this account alone can use the authority.
MayAct(account, authority) ==
    \/ account = authority
    \/ authority \in DOMAIN multisigs /\ account \in multisigs[authority]

CanMint(store) ==
    stores[store] # None /\ MayAct(store, mints[stores[store]].mint)

Init ==
    /\ mints \in [Mints -> {None} \union [mint : {Wallet},
                                          freeze : {Wallet, None}]]
    /\ \A m \in Mints : mints[m] = None <=> m \in NewMints
    /\ multisigs = << >>
    /\ stores = [s \in Stores |-> None]
    /\ file = None /\ task = None
    /\ drawn = {} /\ started = 0
    /\ message = None
    /\ metadata = [m \in NewMints |-> None] /\ attested = {}

-----------------------------------------------------------------------------
(* The tasks.                                                              *)

\* Mutant: the authority leaves the wallet before the store exists.
CreateStepsAuthorityFirst(mint, minters) ==
    LET steps == IF mint \in GivenMints THEN <<"multisig", "init", "save">>
                 ELSE <<"multisig", "token", "authorities", "init", "save">>
    IN  IF minters = None THEN Tail(steps) ELSE steps

\* What lz:oft:solana:create sends, in order, and the file it writes last.  A
\* multisig is made where there are minters.
CreateSteps(mint, minters) ==
    LET steps == IF mint \in GivenMints THEN <<"multisig", "init", "save">>
                 ELSE <<"multisig", "token", "init", "authorities", "save">>
    IN  IF minters = None THEN Tail(steps) ELSE steps

Begin(mint, store, minters, onlyStore, steps) ==
    /\ task = None /\ started < MaxTasks
    /\ task' = [mint |-> mint, store |-> store, minters |-> minters,
                onlyStore |-> onlyStore, multisig |-> None, left |-> steps]
    /\ started' = started + 1
    /\ UNCHANGED <<chainVars, file, message, metadata, attested>>

\* Both tasks refuse to go without minters unless told that it is meant.
Confirmed(minters, onlyStore) == minters = None => onlyStore

\* The key pair of the escrow is new, and so is the OFT store it determines.
DeriveKeys(store) == store \notin drawn /\ drawn' = drawn \union {store}

\* The mint is new too, unless one is given.
StartCreate(mint, store, minters, onlyStore) ==
    /\ mint \in NewMints => mints[mint] = None
    /\ DeriveKeys(store)
    /\ Confirmed(minters, onlyStore)
    /\ Begin(mint, store, minters, onlyStore, CreateSteps(mint, minters))

\* The operator names the mint and the escrow that OFT.json records.
StartSetAuthority(minters, onlyStore) ==
    /\ file # None
    /\ UNCHANGED drawn
    /\ Confirmed(minters, onlyStore)
    /\ Begin(file.mint, file.store, minters, onlyStore,
             <<"multisig", "mintAuthority", "freezeAuthority">>)

\* What a step of a task leaves alone.
TaskOnly == UNCHANGED <<drawn, started, message, metadata, attested>>

Running(step) == task # None /\ Head(task.left) = step

Proceed(t) == IF Len(t.left) = 1 THEN None ELSE [t EXCEPT !.left = Tail(@)]

\* Having created an account, the task asks for it up to ten times, and throws
\* when it does not become visible.
AssertAccountInitialized(t) == task' = Proceed(t) \/ task' = None

\* The signers of the multisig, of which any one may sign.
Signers ==
    {task.store} \union (IF task.minters = None THEN {} ELSE task.minters)

\* Mutant: where there are minters, only they sign.
CreateMultisigOfMinters ==
    /\ Running("multisig")
    /\ multisigs' = Append(multisigs, IF task.minters = None THEN {task.store}
                                      ELSE task.minters)
    /\ task' = Proceed([task EXCEPT !.multisig = Len(multisigs')])
    /\ UNCHANGED <<mints, stores, file>> /\ TaskOnly

\* The account that became visible is the multisig that was asked for.
CheckMultisigSigners(multisig) == Signers \subseteq multisigs'[multisig]

CreateMultisig ==
    /\ Running("multisig")
    /\ multisigs' = Append(multisigs, Signers)
    /\ CheckMultisigSigners(Len(multisigs'))
    /\ AssertAccountInitialized([task EXCEPT !.multisig = Len(multisigs')])
    /\ UNCHANGED <<mints, stores, file>> /\ TaskOnly

\* createV1 makes the mint and its metadata.
CreateToken ==
    /\ Running("token")
    /\ mints' = [mints EXCEPT ![task.mint] = [mint |-> Wallet,
                                              freeze |-> Wallet]]
    /\ \E isMutable \in BOOLEAN :
          metadata' = [metadata EXCEPT ![task.mint] =
                         [authority |-> Wallet, mutable |-> isMutable]]
    /\ AssertAccountInitialized(task)
    /\ UNCHANGED <<multisigs, stores, file, drawn, started, message, attested>>

InitOft ==
    /\ Running("init")
    /\ stores' = [stores EXCEPT ![task.store] = task.mint]
    /\ task' = Proceed(task)
    /\ UNCHANGED <<mints, multisigs, file>> /\ TaskOnly

\* Without minters the store itself, with them the multisig.
MintAuthority == IF task.minters = None THEN task.store ELSE task.multisig

\* Mutant: renouncing the freeze authority renounces both.
SetAuthoritiesRenounced ==
    /\ Running("authorities")
    /\ mints' = [mints EXCEPT ![task.mint] =
                   IF task.onlyStore THEN [mint |-> None, freeze |-> None]
                   ELSE [mint |-> MintAuthority, freeze |-> MintAuthority]]
    /\ task' = Proceed(task)
    /\ UNCHANGED <<multisigs, stores, file>> /\ TaskOnly

SetAuthorities ==
    /\ Running("authorities")
    /\ mints' = [mints EXCEPT ![task.mint] =
                   [mint |-> MintAuthority,
                    freeze |-> IF task.onlyStore THEN None
                                                 ELSE MintAuthority]]
    /\ task' = Proceed(task)
    /\ UNCHANGED <<multisigs, stores, file>> /\ TaskOnly

SaveSolanaDeployment ==
    /\ Running("save")
    /\ file' = [mint |-> task.mint, store |-> task.store]
    /\ task' = Proceed(task)
    /\ UNCHANGED chainVars /\ TaskOnly

\* The second task hands over each authority in a transaction of its own, and
\* throws where there is none to hand over or the wallet may not.
SetMintAuthority ==
    /\ Running("mintAuthority")
    /\ MayAct(Wallet, mints[task.mint].mint)
    /\ mints' = [mints EXCEPT ![task.mint].mint = task.multisig]
    /\ task' = Proceed(task)
    /\ UNCHANGED <<multisigs, stores, file>> /\ TaskOnly

SetFreezeAuthority ==
    /\ Running("freezeAuthority")
    /\ MayAct(Wallet, mints[task.mint].freeze)
    /\ mints' = [mints EXCEPT ![task.mint].freeze = task.multisig]
    /\ task' = Proceed(task)
    /\ UNCHANGED <<multisigs, stores, file>> /\ TaskOnly

\* Before most transactions the task simulates them, up to three times; it
\* throws when that fails and the operator declines the hardcoded estimate.
Unbudgeted ==
    /\ task # None
    /\ Head(task.left) \notin {"save", "updateAuthority", "updateMetadata"}
    /\ task' = None
    /\ UNCHANGED <<chainVars, file>> /\ TaskOnly

\* The process throws or is killed.
Interrupt ==
    /\ task # None
    /\ task' = None
    /\ UNCHANGED <<chainVars, file>> /\ TaskOnly

-----------------------------------------------------------------------------
(* The metadata, and the check.                                            *)

BeginUpdate(mint, to, step) ==
    /\ task = None /\ started < MaxTasks
    /\ task' = [mint |-> mint, to |-> to, left |-> <<step>>]
    /\ started' = started + 1
    /\ UNCHANGED <<chainVars, file, drawn, message, metadata, attested>>

IsUpdateAuthority(mint) ==
    metadata[mint] # None /\ metadata[mint].authority = Wallet

\* Mutant: whether the metadata is mutable is not looked at.
StartSetUpdateAuthorityOfAny(mint, to) ==
    /\ IsUpdateAuthority(mint)
    /\ BeginUpdate(mint, to, "updateAuthority")

\* To another account, or to the system program: renounced.
StartSetUpdateAuthority(mint, to) ==
    /\ IsUpdateAuthority(mint)
    /\ to # System => metadata[mint].mutable
    /\ BeginUpdate(mint, to, "updateAuthority")

SetUpdateAuthority ==
    /\ Running("updateAuthority")
    /\ IsUpdateAuthority(task.mint)
    /\ metadata' = [metadata EXCEPT ![task.mint] =
                      [authority |-> task.to,
                       mutable   |-> @.mutable /\ task.to # System]]
    /\ task' = Proceed(task)
    /\ UNCHANGED <<chainVars, file, drawn, started, message, attested>>

\* Name, symbol and so on, which are left out.
StartUpdateMetadata(mint) ==
    /\ IsUpdateAuthority(mint) /\ metadata[mint].mutable
    /\ BeginUpdate(mint, None, "updateMetadata")

UpdateMetadata ==
    /\ Running("updateMetadata")
    /\ IsUpdateAuthority(task.mint) /\ metadata[task.mint].mutable
    /\ task' = Proceed(task)
    /\ UNCHANGED <<chainVars, file>> /\ TaskOnly

\* Mutant: a multisig that the store is among the signers of is good enough.
TokenMintAuthorityMayBeOFTStore(store) ==
    MayAct(store, mints[stores[store]].mint)

\* "Token Mint Authority is OFT Store".
TokenMintAuthorityIsOFTStore(store) == mints[stores[store]].mint = store

\* A store that does not exist yet cannot be fetched.
Debug(store) ==
    /\ stores[store] # None
    /\ attested' = IF TokenMintAuthorityIsOFTStore(store)
                   THEN attested \union {store} ELSE attested
    /\ UNCHANGED <<chainVars, file, task, drawn, started, message, metadata>>

-----------------------------------------------------------------------------
(* The executor.                                                           *)

\* One message at a time: each waits for its own accounts only.
Arrive(store) ==
    /\ stores[store] # None
    /\ message # None => message.minted
    /\ message' = [store |-> store, authority |-> None, minted |-> FALSE]
    /\ UNCHANGED <<chainVars, file, task, drawn, started, metadata, attested>>

\* Mutant: the store is taken for the authority.
LzReceiveTypesOfStore ==
    /\ message # None /\ ~message.minted
    /\ message' = [message EXCEPT !.authority = message.store]
    /\ UNCHANGED <<chainVars, file, task, drawn, started, metadata, attested>>

\* The accounts of a receipt, the mint's authority of this moment among them.
LzReceiveTypes ==
    /\ message # None /\ ~message.minted
    /\ message' = [message EXCEPT
                     !.authority = mints[stores[message.store]].mint]
    /\ UNCHANGED <<chainVars, file, task, drawn, started, metadata, attested>>

\* Refused when the mint has another authority by now, or one that the store
\* cannot use: the executor then asks again.
LzReceive ==
    /\ message # None /\ ~message.minted
    /\ message.authority # None
    /\ message.authority = mints[stores[message.store]].mint
    /\ MayAct(message.store, message.authority)
    /\ message' = [message EXCEPT !.minted = TRUE]
    /\ UNCHANGED <<chainVars, file, task, drawn, started, metadata, attested>>

-----------------------------------------------------------------------------

TaskStart ==
    \E minters \in {None} \union MinterSets, onlyStore \in BOOLEAN :
        \/ \E m \in Mints, s \in Stores :
              StartCreate(m, s, minters, onlyStore)
        \/ StartSetAuthority(minters, onlyStore)

UpdateStart ==
    \E m \in NewMints :
        \/ \E to \in Heirs \union {System} : StartSetUpdateAuthority(m, to)
        \/ StartUpdateMetadata(m)

TaskStep ==
    \/ CreateMultisig \/ CreateToken \/ InitOft \/ SetAuthorities
    \/ SaveSolanaDeployment
    \/ SetMintAuthority \/ SetFreezeAuthority
    \/ SetUpdateAuthority \/ UpdateMetadata
    \/ Unbudgeted \/ Interrupt

ExecutorStep == LzReceiveTypes \/ LzReceive \/ \E s \in Stores : Arrive(s)

Next ==
    \/ TaskStart \/ UpdateStart \/ TaskStep \/ ExecutorStep
    \/ \E s \in Stores : Debug(s)

Spec == Init /\ [][Next]_vars

\* The executor goes on asking for the accounts of a message and delivering it.
\* Of the operator, who may give up anywhere, nothing is assumed.
FairSpec == Spec /\ WF_vars(LzReceiveTypes) /\ SF_vars(LzReceive)

-----------------------------------------------------------------------------

MintTypeOK ==
    /\ mints \in [Mints -> {None} \union [mint : Authority \ {None},
                                          freeze : Authority]]
    /\ \A m \in Mints : mints[m] # None =>
          {mints[m].mint, mints[m].freeze} \intersect (1..MaxTasks)
             \subseteq DOMAIN multisigs
    /\ stores \in [Stores -> Mints \union {None}]
    /\ drawn \subseteq Stores /\ started \in 0..MaxTasks
    /\ file # None => file.mint \in Mints /\ file.store \in drawn
    /\ task # None => /\ task.left # << >> /\ task.mint \in Mints
                      /\ "store" \in DOMAIN task => task.store \in drawn
    /\ \A m \in NewMints : metadata[m] # None =>
          /\ metadata[m].authority \in {Wallet, System} \union Heirs
          /\ metadata[m].mutable \in BOOLEAN
    /\ attested \subseteq Stores
    /\ message # None => message.authority \in Authority

\* Wherever a task stops, and however often tasks are run again, whoever holds
\* the authority over a mint can use it: the operator still, or else an OFT
\* store that exists and holds this mint.  The order of the transactions in
\* createOFT.ts, where the escrow's key pair dies with the process, is what
\* keeps the authority from going to a store that can never exist.
HandedToLiveStore ==
    \A m \in Mints :
        mints[m] # None =>
            \/ MayAct(Wallet, mints[m].mint)
            \/ \E s \in Stores : stores[s] = m /\ MayAct(s, mints[m].mint)

\* What OFT.json records is deployed, and if the task made the mint, its store
\* can mint, at that moment and through every later change of authority.
RecordedCanReceive ==
    file # None =>
        /\ stores[file.store] = file.mint
        /\ file.mint \in NewMints => CanMint(file.store)

\* When debug has once answered that the mint's authority is the OFT store,
\* nobody but the store can mint from then on: no task that is still running,
\* no signer of a multisig and no later task takes the authority away or shares
\* it.
AttestedStays == \A s \in attested : mints[stores[s]].mint = s

\* Immutable metadata stays as it is, however it became so: nobody else gets
\* the update authority, it can at most be renounced, and what
\* is renounced is immutable, by whichever tasks in whichever order.
ImmutableForGood ==
    [][\A m \in NewMints :
          metadata[m] # None =>
              /\ metadata'[m] # None
              /\ metadata'[m].authority = System => ~metadata'[m].mutable
              /\ ~metadata[m].mutable =>
                    /\ ~metadata'[m].mutable
                    /\ metadata'[m].authority \in
                          {metadata[m].authority, System}]_vars

\* A message for a store of such a mint is minted in the end, although the
\* authority may change after the executor asked for the accounts.
MessageIsMinted ==
    (/\ message # None
     /\ stores[message.store] \in NewMints
     /\ CanMint(message.store)) ~> (message # None /\ message.minted)
=============================================================================
