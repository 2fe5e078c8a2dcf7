--------------------------- MODULE SolanaMintProofs ---------------------------
(***************************************************************************)
(* For every number of mints, stores, minters and tasks: wherever a task   *)
(* stops, the authority over a mint is with somebody who can use it, and   *)
(* an authority the check attested stays.                                  *)
(***************************************************************************)
EXTENDS SolanaMint, SequenceTheorems, TLAPS

\* What may be left of a task that makes a mint,
NewPlans ==
    {<<"multisig", "token", "init", "authorities", "save">>,
     <<"token", "init", "authorities", "save">>,
     <<"init", "authorities", "save">>, <<"authorities", "save">>, <<"save">>}

\* that takes a mint it is given,
GivenPlans == {<<"multisig", "init", "save">>, <<"init", "save">>, <<"save">>}

\* that hands the authorities over,
HandPlans ==
    {<<"multisig", "mintAuthority", "freezeAuthority">>,
     <<"mintAuthority", "freezeAuthority">>, <<"freezeAuthority">>}

\* and that changes the metadata.
UpdatePlans == {<<"updateAuthority">>, <<"updateMetadata">>}

\* The transaction that the task sends next.
Step == Head(task.left)

\* A task of the first three kinds.
TaskOver(kindMints, plans) ==
    [mint : kindMints, store : drawn, minters : {None} \union MinterSets,
     onlyStore : BOOLEAN, multisig : {None} \union (1..MaxTasks), left : plans]

\* The multisig that the task made has the store among its signers.
MultisigMade ==
    /\ task.multisig \in DOMAIN multisigs
    /\ task.store \in multisigs[task.multisig]

\* The new mint is made before the store and handed over after it.
MakesMint ==
    /\ task \in TaskOver(NewMints, NewPlans)
    /\ Step \in {"multisig", "token"} => mints[task.mint] = None
    /\ Step \in {"init", "authorities", "save"} => mints[task.mint] # None
    /\ Step \in {"init", "authorities"} => mints[task.mint].mint = Wallet
    /\ Step \in {"multisig", "token", "init"} => stores[task.store] = None
    /\ Step \in {"authorities", "save"} => stores[task.store] = task.mint
    /\ Step = "save" => MayAct(task.store, mints[task.mint].mint)
    /\ task.minters # None /\ Step # "multisig" => MultisigMade

\* A mint that exists is given to a store that does not yet.
TakesMint ==
    /\ task \in TaskOver(GivenMints, GivenPlans)
    /\ Step # "save" => stores[task.store] = None
    /\ Step = "save" => stores[task.store] = task.mint

\* The authorities that are handed over are those of what OFT.json records.
HandsOver ==
    /\ task \in TaskOver(Mints, HandPlans)
    /\ file # None /\ task.mint = file.mint /\ task.store = file.store
    /\ Step # "multisig" => MultisigMade

\* Only metadata that can change is handed to another.
Updates ==
    /\ task \in [mint : NewMints, to : {None, System} \union Heirs,
                 left : UpdatePlans]
    /\ Step = "updateAuthority" =>
          /\ task.to \in {System} \union Heirs
          /\ task.to # System => metadata[task.mint].mutable

\* The task under way is one of these.
TaskOK == task # None => MakesMint \/ TakesMint \/ HandsOver \/ Updates

\* The mints there are, and the authorities over them.
MintsOK ==
    /\ mints \in [Mints -> {None} \union [mint : Authority \ {None},
                                          freeze : Authority]]
    /\ \A m \in Mints : mints[m] # None =>
          {mints[m].mint, mints[m].freeze} \intersect (1..MaxTasks)
             \subseteq DOMAIN multisigs
    /\ \A m \in GivenMints : mints[m] # None

\* A multisig for each task at most, and one to come where it is the next step.
MultisigsOK ==
    /\ multisigs \in Seq(SUBSET ({Wallet} \union Minters \union Stores))
    /\ started \in 0..MaxTasks
    /\ Len(multisigs) <= started
    /\ task # None /\ Step = "multisig" => Len(multisigs) < started

\* A store that exists was drawn, and so was its mint made.
StoresOK ==
    /\ stores \in [Stores -> Mints \union {None}]
    /\ drawn \subseteq Stores
    /\ \A s \in Stores : stores[s] # None =>
                            s \in drawn /\ mints[stores[s]] # None

\* OFT.json records a store that was drawn, for a mint that exists.
FileOK ==
    file # None => /\ file.mint \in Mints /\ file.store \in drawn
                   /\ mints[file.mint] # None

\* There is metadata from the transaction on that makes the mint.
MetadataOK ==
    /\ metadata \in [NewMints -> {None} \union
                       [authority : {Wallet, System} \union Heirs,
                        mutable : BOOLEAN]]
    /\ \A m \in NewMints :
          /\ metadata[m] = None <=> mints[m] = None
          /\ metadata[m] # None =>
                (metadata[m].authority = System => ~metadata[m].mutable)

\* What the check attested are stores that exist;
AttestedOK ==
    attested \subseteq Stores /\ \A s \in attested : stores[s] # None

\* a message is for one of them as well.
MessageOK ==
    message # None =>
        /\ message \in [store : Stores, authority : Authority,
                        minted : BOOLEAN]
        /\ stores[message.store] # None

\* The inductive invariant.
MintInv ==
    /\ MintsOK /\ MultisigsOK /\ StoresOK /\ FileOK
    /\ MetadataOK /\ AttestedOK /\ MessageOK /\ TaskOK
    /\ HandedToLiveStore /\ RecordedCanReceive /\ AttestedStays

-----------------------------------------------------------------------------
(* The plans.                                                              *)

\* What follows each transaction of a task that makes a mint.
LEMMA NewPlanSteps ==
    ASSUME NEW left \in NewPlans
    PROVE  /\ left # << >>
           /\ Head(left) \in {"multisig", "token", "init", "authorities", "save"}
           /\ Head(left) = "save" <=> Len(left) = 1
           /\ Head(left) # "save" => Tail(left) \in NewPlans
           /\ Head(left) = "multisig" => Head(Tail(left)) = "token"
           /\ Head(left) = "token" => Head(Tail(left)) = "init"
           /\ Head(left) = "init" => Head(Tail(left)) = "authorities"
           /\ Head(left) = "authorities" => Head(Tail(left)) = "save"
<1>1. CASE left = <<"multisig", "token", "init", "authorities", "save">>
  <2>1. Tail(left) = <<"token", "init", "authorities", "save">>
    BY <1>1
  <2>2. QED
    BY <1>1, <2>1 DEF NewPlans
<1>2. CASE left = <<"token", "init", "authorities", "save">>
  <2>1. Tail(left) = <<"init", "authorities", "save">>
    BY <1>2
  <2>2. QED
    BY <1>2, <2>1 DEF NewPlans
<1>3. CASE left = <<"init", "authorities", "save">>
  <2>1. Tail(left) = <<"authorities", "save">>
    BY <1>3
  <2>2. QED
    BY <1>3, <2>1 DEF NewPlans
<1>4. CASE left = <<"authorities", "save">>
  <2>1. Tail(left) = <<"save">>
    BY <1>4
  <2>2. QED
    BY <1>4, <2>1 DEF NewPlans
<1>5. CASE left = <<"save">>
  BY <1>5
<1>6. QED
  BY <1>1, <1>2, <1>3, <1>4, <1>5 DEF NewPlans

\* The same for a mint that is given.
LEMMA GivenPlanSteps ==
    ASSUME NEW left \in GivenPlans
    PROVE  /\ left # << >>
           /\ Head(left) \in {"multisig", "init", "save"}
           /\ Head(left) = "save" <=> Len(left) = 1
           /\ Head(left) # "save" => Tail(left) \in GivenPlans
           /\ Head(left) = "multisig" => Head(Tail(left)) = "init"
           /\ Head(left) = "init" => Head(Tail(left)) = "save"
<1>1. CASE left = <<"multisig", "init", "save">>
  <2>1. Tail(left) = <<"init", "save">>
    BY <1>1
  <2>2. QED
    BY <1>1, <2>1 DEF GivenPlans
<1>2. CASE left = <<"init", "save">>
  <2>1. Tail(left) = <<"save">>
    BY <1>2
  <2>2. QED
    BY <1>2, <2>1 DEF GivenPlans
<1>3. CASE left = <<"save">>
  BY <1>3
<1>4. QED
  BY <1>1, <1>2, <1>3 DEF GivenPlans

\* The same where the authorities are handed over.
LEMMA HandPlanSteps ==
    ASSUME NEW left \in HandPlans
    PROVE  /\ left # << >>
           /\ Head(left) \in {"multisig", "mintAuthority", "freezeAuthority"}
           /\ Head(left) = "freezeAuthority" <=> Len(left) = 1
           /\ Head(left) # "freezeAuthority" => Tail(left) \in HandPlans
           /\ Head(left) = "multisig" => Head(Tail(left)) = "mintAuthority"
           /\ Head(left) = "mintAuthority" =>
                 Head(Tail(left)) = "freezeAuthority"
<1>1. CASE left = <<"multisig", "mintAuthority", "freezeAuthority">>
  <2>1. Tail(left) = <<"mintAuthority", "freezeAuthority">>
    BY <1>1
  <2>2. QED
    BY <1>1, <2>1 DEF HandPlans
<1>2. CASE left = <<"mintAuthority", "freezeAuthority">>
  <2>1. Tail(left) = <<"freezeAuthority">>
    BY <1>2
  <2>2. QED
    BY <1>2, <2>1 DEF HandPlans
<1>3. CASE left = <<"freezeAuthority">>
  BY <1>3
<1>4. QED
  BY <1>1, <1>2, <1>3 DEF HandPlans

\* An update is one transaction.
LEMMA UpdatePlanSteps ==
    ASSUME NEW left \in UpdatePlans
    PROVE  /\ left # << >>
           /\ Head(left) \in {"updateAuthority", "updateMetadata"}
           /\ Len(left) = 1
<1>1. CASE left = <<"updateAuthority">>
  BY <1>1
<1>2. CASE left = <<"updateMetadata">>
  BY <1>2
<1>3. QED
  BY <1>1, <1>2 DEF UpdatePlans

\* A task begins with the whole of its plan.
LEMMA CreateStepsPlan ==
    ASSUME NEW mint \in Mints, NEW minters
    PROVE  /\ CreateSteps(mint, minters) \in
                 IF mint \in GivenMints THEN GivenPlans ELSE NewPlans
           /\ Head(CreateSteps(mint, minters)) =
                 IF minters # None THEN "multisig"
                 ELSE IF mint \in GivenMints THEN "init" ELSE "token"
<1>1. Tail(<<"multisig", "init", "save">>) = <<"init", "save">>
  OBVIOUS
<1>2. Tail(<<"multisig", "token", "init", "authorities", "save">>) =
         <<"token", "init", "authorities", "save">>
  OBVIOUS
<1>3. QED
  BY <1>1, <1>2 DEF CreateSteps, GivenPlans, NewPlans

\* Going on changes only what is left.
LEMMA ProceedFields ==
    ASSUME NEW kind, NEW plans, NEW t \in TaskOver(kind, plans),
           Len(t.left) # 1, Tail(t.left) \in plans
    PROVE  /\ Proceed(t) \in TaskOver(kind, plans)
           /\ Proceed(t).left = Tail(t.left)
           /\ Proceed(t).mint = t.mint /\ Proceed(t).store = t.store
           /\ Proceed(t).minters = t.minters
           /\ Proceed(t).multisig = t.multisig
BY DEF Proceed, TaskOver

\* The transaction that is next tells which kind of task it is.
LEMMA KindOfStep ==
    ASSUME TaskOK, task # None
    PROVE  /\ Step \in {"token", "authorities"} => MakesMint
           /\ Step \in {"init", "save"} => MakesMint \/ TakesMint
           /\ Step = "multisig" => MakesMint \/ TakesMint \/ HandsOver
           /\ Step \in {"mintAuthority", "freezeAuthority"} => HandsOver
           /\ Step \in {"updateAuthority", "updateMetadata"} => Updates
<1>1. MakesMint =>
         Step \in {"multisig", "token", "init", "authorities", "save"}
  BY NewPlanSteps DEF MakesMint, TaskOver, Step
<1>2. TakesMint => Step \in {"multisig", "init", "save"}
  BY GivenPlanSteps DEF TakesMint, TaskOver, Step
<1>3. HandsOver => Step \in {"multisig", "mintAuthority", "freezeAuthority"}
  BY HandPlanSteps DEF HandsOver, TaskOver, Step
<1>4. Updates => Step \in {"updateAuthority", "updateMetadata"}
  BY UpdatePlanSteps DEF Updates, Step
<1>5. QED
  BY <1>1, <1>2, <1>3, <1>4 DEF TaskOK

\* Where the mints, the stores and the file stay, only the task is in question.
LEMMA OnlyTask ==
    ASSUME MintInv, UNCHANGED <<chainVars, file, message, metadata, attested>>,
           drawn \subseteq drawn', drawn' \subseteq Stores,
           started' \in 0..MaxTasks, started <= started', TaskOK',
           task' # None /\ Step' = "multisig" => Len(multisigs) < started'
    PROVE  MintInv'
<1>1. MintsOK' /\ FileOK' /\ StoresOK'
  BY DEF MintInv, MintsOK, FileOK, StoresOK, chainVars
<1>2. MultisigsOK'
  <2>1. Len(multisigs) \in Nat
    BY LenProperties DEF MintInv, MultisigsOK
  <2>2. Len(multisigs') <= started'
    BY <2>1, SolanaMintAssumption DEF MintInv, MultisigsOK, chainVars
  <2>3. QED
    BY <2>2 DEF MintInv, MultisigsOK, chainVars
<1>3. MetadataOK' /\ AttestedOK' /\ MessageOK'
  BY DEF MintInv, MetadataOK, AttestedOK, MessageOK, chainVars
<1>4. HandedToLiveStore' /\ RecordedCanReceive' /\ AttestedStays'
  BY DEF MintInv, HandedToLiveStore, RecordedCanReceive, AttestedStays,
     MayAct, CanMint, chainVars
<1>5. QED
  BY <1>1, <1>2, <1>3, <1>4 DEF MintInv

\* A task that stops leaves everything in order.
LEMMA StopKeeps ==
    ASSUME MintInv, task' = None, UNCHANGED <<chainVars, file>>, TaskOnly
    PROVE  MintInv'
<1>1. TaskOK' /\ (task' # None => FALSE)
  BY DEF TaskOK
<1>2. started \in Nat
  BY SolanaMintAssumption DEF MintInv, MultisigsOK
<1>3. QED
  BY <1>1, <1>2, OnlyTask
     DEF TaskOnly, MintInv, MultisigsOK, StoresOK

-----------------------------------------------------------------------------
(* The tasks begin.                                                        *)

\* A new store is not there yet, and a new mint neither.
LEMMA StartCreateKeeps ==
    ASSUME MintInv,
           NEW mint \in Mints, NEW store \in Stores,
           NEW minters \in {None} \union MinterSets, NEW onlyStore \in BOOLEAN,
           StartCreate(mint, store, minters, onlyStore)
    PROVE  MintInv'
<1> DEFINE plan == CreateSteps(mint, minters)
<1>1. /\ task' = [mint |-> mint, store |-> store, minters |-> minters,
                  onlyStore |-> onlyStore, multisig |-> None, left |-> plan]
      /\ started < MaxTasks /\ started' = started + 1
      /\ drawn' = drawn \union {store} /\ store \notin drawn
      /\ UNCHANGED <<chainVars, file, message, metadata, attested>>
  BY DEF StartCreate, DeriveKeys, Begin
<1>2. stores'[store] = None
  BY <1>1 DEF MintInv, StoresOK, chainVars
<1>3. /\ plan \in IF mint \in GivenMints THEN GivenPlans ELSE NewPlans
      /\ Head(plan) = IF minters # None THEN "multisig"
                      ELSE IF mint \in GivenMints THEN "init" ELSE "token"
  BY CreateStepsPlan
<1> HIDE DEF plan
<1>4. /\ task'.mint = mint /\ task'.store = store /\ task'.minters = minters
      /\ Step' = Head(plan)
  BY <1>1 DEF Step
<1>5. ASSUME mint \in NewMints PROVE TaskOK'
  <2>1. mint \notin GivenMints
    BY <1>5, SolanaMintAssumption
  <2>2. mints'[mint] = None
    BY <1>1, <1>5 DEF StartCreate, chainVars
  <2>3. (task \in TaskOver(NewMints, NewPlans))'
    BY <1>1, <1>3, <1>5, <2>1 DEF TaskOver
  <2>4. MakesMint'
    BY <1>2, <1>3, <1>4, <2>1, <2>2, <2>3 DEF MakesMint
  <2>5. QED
    BY <2>4 DEF TaskOK
<1>6. ASSUME mint \in GivenMints PROVE TaskOK'
  <2>1. (task \in TaskOver(GivenMints, GivenPlans))'
    BY <1>1, <1>3, <1>6 DEF TaskOver
  <2>2. TakesMint'
    BY <1>2, <1>3, <1>4, <1>6, <2>1 DEF TakesMint
  <2>3. QED
    BY <2>2 DEF TaskOK
<1>7. TaskOK'
  BY <1>5, <1>6 DEF Mints
<1>8. /\ started \in Nat /\ started' \in 0..MaxTasks /\ started <= started'
      /\ Len(multisigs) < started'
  <2>1. Len(multisigs) \in Nat
    BY LenProperties DEF MintInv, MultisigsOK
  <2>2. QED
    BY <1>1, <2>1, SolanaMintAssumption DEF MintInv, MultisigsOK
<1>9. drawn \subseteq drawn' /\ drawn' \subseteq Stores
  BY <1>1 DEF MintInv, StoresOK
<1>10. QED
  BY <1>1, <1>7, <1>8, <1>9, OnlyTask

\* What the file records can be handed over.
LEMMA StartSetAuthorityKeeps ==
    ASSUME MintInv,
           NEW minters \in {None} \union MinterSets, NEW onlyStore \in BOOLEAN,
           StartSetAuthority(minters, onlyStore)
    PROVE  MintInv'
<1> DEFINE plan == <<"multisig", "mintAuthority", "freezeAuthority">>
<1>1. /\ task' = [mint |-> file.mint, store |-> file.store,
                  minters |-> minters, onlyStore |-> onlyStore,
                  multisig |-> None, left |-> plan]
      /\ file # None /\ started < MaxTasks /\ started' = started + 1
      /\ UNCHANGED <<chainVars, file, drawn, message, metadata, attested>>
  BY DEF StartSetAuthority, Begin
<1>2. plan \in HandPlans /\ Head(plan) = "multisig"
  BY DEF HandPlans
<1> HIDE DEF plan
<1>3. /\ task'.mint = file.mint /\ task'.store = file.store
      /\ Step' = "multisig"
  BY <1>1, <1>2 DEF Step
<1>4. (task \in TaskOver(Mints, HandPlans))'
  BY <1>1, <1>2 DEF TaskOver, MintInv, FileOK
<1>5. HandsOver'
  BY <1>1, <1>3, <1>4 DEF HandsOver
<1>6. TaskOK'
  BY <1>5 DEF TaskOK
<1>7. /\ started \in Nat /\ started' \in 0..MaxTasks /\ started <= started'
      /\ Len(multisigs) < started'
  <2>1. Len(multisigs) \in Nat
    BY LenProperties DEF MintInv, MultisigsOK
  <2>2. QED
    BY <1>1, <2>1, SolanaMintAssumption DEF MintInv, MultisigsOK
<1>8. drawn \subseteq drawn' /\ drawn' \subseteq Stores
  BY <1>1 DEF MintInv, StoresOK
<1>9. QED
  BY <1>1, <1>6, <1>7, <1>8, OnlyTask

\* An update of metadata begins.
LEMMA BeginUpdateKeeps ==
    ASSUME MintInv, NEW mint \in NewMints,
           NEW to \in {None, System} \union Heirs,
           NEW step \in {"updateAuthority", "updateMetadata"},
           BeginUpdate(mint, to, step), UNCHANGED drawn,
           step = "updateAuthority" =>
              /\ to \in {System} \union Heirs
              /\ to # System => metadata[mint].mutable
    PROVE  MintInv'
<1> DEFINE plan == <<step>>
<1>1. /\ task' = [mint |-> mint, to |-> to, left |-> plan]
      /\ started < MaxTasks /\ started' = started + 1
      /\ UNCHANGED <<chainVars, file, drawn, message, metadata, attested>>
  BY DEF BeginUpdate
<1>2. plan \in UpdatePlans /\ Head(plan) = step
  BY DEF UpdatePlans
<1> HIDE DEF plan
<1>3. task'.mint = mint /\ task'.to = to /\ Step' = step
  BY <1>1, <1>2 DEF Step
<1>4. Updates'
  BY <1>1, <1>2, <1>3 DEF Updates
<1>5. TaskOK'
  BY <1>4 DEF TaskOK
<1>6. started \in Nat /\ started' \in 0..MaxTasks /\ started <= started'
  BY <1>1, SolanaMintAssumption DEF MintInv, MultisigsOK
<1>7. drawn \subseteq drawn' /\ drawn' \subseteq Stores
  BY <1>1 DEF MintInv, StoresOK
<1>8. QED
  BY <1>1, <1>3, <1>5, <1>6, <1>7, OnlyTask

-----------------------------------------------------------------------------
(* The transactions of the tasks.                                          *)

\* A multisig more, and nobody loses what it may do.
LEMMA CreateMultisigKeeps ==
    ASSUME MintInv, CreateMultisig
    PROVE  MintInv'
<1> DEFINE S == SUBSET ({Wallet} \union Minters \union Stores)
           number == Len(multisigs')
           t == [task EXCEPT !.multisig = number]
<1>1. /\ task # None /\ Step = "multisig"
      /\ multisigs' = Append(multisigs, Signers)
      /\ task' = Proceed(t) \/ task' = None
      /\ UNCHANGED <<mints, stores, file, drawn, started, message, metadata,
                     attested>>
  BY DEF CreateMultisig, Running, Step, TaskOnly, AssertAccountInitialized
<1>2. MakesMint \/ TakesMint \/ HandsOver
  BY <1>1, KindOfStep DEF MintInv
<1>3. task.store \in Stores /\ task.minters \in {None} \union MinterSets
  BY <1>2 DEF MakesMint, TakesMint, HandsOver, TaskOver, MintInv, StoresOK
<1>4. Signers \in S
  BY <1>3 DEF Signers, Minters
<1>5. multisigs \in Seq(S) /\ Len(multisigs) \in Nat
  BY LenProperties DEF MintInv, MultisigsOK
<1>6. /\ multisigs' \in Seq(S)
      /\ number = Len(multisigs) + 1
      /\ \A i \in 1..Len(multisigs) : multisigs'[i] = multisigs[i]
      /\ multisigs'[number] = Signers
  BY <1>1, <1>4, <1>5, AppendProperties
<1>7. /\ DOMAIN multisigs = 1..Len(multisigs)
      /\ DOMAIN multisigs' = 1..number
  BY <1>5, <1>6, LenProperties
<1>8. number \in 1..MaxTasks /\ number <= started'
  BY <1>1, <1>5, <1>6, SolanaMintAssumption DEF MintInv, MultisigsOK
<1>9. /\ DOMAIN multisigs \subseteq DOMAIN multisigs'
      /\ \A i \in DOMAIN multisigs : multisigs'[i] = multisigs[i]
  BY <1>5, <1>6, <1>7
<1>10. \A who, authority : MayAct(who, authority) => MayAct(who, authority)'
  BY <1>9 DEF MayAct
<1>11. number \in DOMAIN multisigs' /\ task.store \in multisigs'[number]
  BY <1>6, <1>7, <1>8 DEF Signers
<1> HIDE DEF number
<1>12. ASSUME NEW kind, NEW plans, task \in TaskOver(kind, plans)
       PROVE  /\ t \in TaskOver(kind, plans)
              /\ t.left = task.left /\ t.mint = task.mint
              /\ t.store = task.store /\ t.minters = task.minters
              /\ t.multisig = number
  BY <1>8, <1>12 DEF TaskOver
<1> HIDE DEF t
<1>13. ASSUME MakesMint, task' = Proceed(t)
       PROVE  Step' = "token" /\ MakesMint'
  <2>1. /\ task \in TaskOver(NewMints, NewPlans)
        /\ task.left \in NewPlans
    BY <1>13 DEF MakesMint, TaskOver
  <2>2. /\ Len(task.left) # 1 /\ Tail(task.left) \in NewPlans
        /\ Head(Tail(task.left)) = "token"
    BY <1>1, <2>1, NewPlanSteps DEF Step
  <2>3. /\ Proceed(t) \in TaskOver(NewMints, NewPlans)
        /\ Proceed(t).left = Tail(t.left)
        /\ Proceed(t).mint = t.mint /\ Proceed(t).store = t.store
        /\ Proceed(t).minters = t.minters
        /\ Proceed(t).multisig = t.multisig
    BY <1>12, <2>1, <2>2, ProceedFields
  <2>4. /\ task'.mint = task.mint /\ task'.store = task.store
        /\ task'.multisig = number /\ Step' = "token"
    BY <1>12, <1>13, <2>1, <2>2, <2>3 DEF Step
  <2>5. (task \in TaskOver(NewMints, NewPlans))'
    BY <1>1, <1>13, <2>3 DEF TaskOver
  <2>6. MultisigMade'
    BY <1>11, <2>4 DEF MultisigMade
  <2>7. mints[task.mint] = None /\ stores[task.store] = None
    BY <1>1, <1>13 DEF MakesMint
  <2>8. QED
    BY <1>1, <2>4, <2>5, <2>6, <2>7 DEF MakesMint
<1>14. ASSUME TakesMint, task' = Proceed(t)
       PROVE  Step' = "init" /\ TakesMint'
  <2>1. /\ task \in TaskOver(GivenMints, GivenPlans)
        /\ task.left \in GivenPlans
    BY <1>14 DEF TakesMint, TaskOver
  <2>2. /\ Len(task.left) # 1 /\ Tail(task.left) \in GivenPlans
        /\ Head(Tail(task.left)) = "init"
    BY <1>1, <2>1, GivenPlanSteps DEF Step
  <2>3. /\ Proceed(t) \in TaskOver(GivenMints, GivenPlans)
        /\ Proceed(t).left = Tail(t.left)
        /\ Proceed(t).mint = t.mint /\ Proceed(t).store = t.store
    BY <1>12, <2>1, <2>2, ProceedFields
  <2>4. task'.mint = task.mint /\ task'.store = task.store /\ Step' = "init"
    BY <1>12, <1>14, <2>1, <2>2, <2>3 DEF Step
  <2>5. (task \in TaskOver(GivenMints, GivenPlans))'
    BY <1>1, <1>14, <2>3 DEF TaskOver
  <2>6. stores[task.store] = None
    BY <1>1, <1>14 DEF TakesMint
  <2>7. QED
    BY <1>1, <2>4, <2>5, <2>6 DEF TakesMint
<1>15. ASSUME HandsOver, task' = Proceed(t)
       PROVE  Step' = "mintAuthority" /\ HandsOver'
  <2>1. task \in TaskOver(Mints, HandPlans) /\ task.left \in HandPlans
    BY <1>15 DEF HandsOver, TaskOver
  <2>2. /\ Len(task.left) # 1 /\ Tail(task.left) \in HandPlans
        /\ Head(Tail(task.left)) = "mintAuthority"
    BY <1>1, <2>1, HandPlanSteps DEF Step
  <2>3. /\ Proceed(t) \in TaskOver(Mints, HandPlans)
        /\ Proceed(t).left = Tail(t.left)
        /\ Proceed(t).mint = t.mint /\ Proceed(t).store = t.store
        /\ Proceed(t).multisig = t.multisig
    BY <1>12, <2>1, <2>2, ProceedFields
  <2>4. /\ task'.mint = task.mint /\ task'.store = task.store
        /\ task'.multisig = number /\ Step' = "mintAuthority"
    BY <1>12, <1>15, <2>1, <2>2, <2>3 DEF Step
  <2>5. (task \in TaskOver(Mints, HandPlans))'
    BY <1>1, <1>15, <2>3 DEF TaskOver
  <2>6. MultisigMade'
    BY <1>11, <2>4 DEF MultisigMade
  <2>7. QED
    BY <1>1, <1>15, <2>4, <2>5, <2>6 DEF HandsOver
<1>16. TaskOK' /\ (task' # None => Step' # "multisig")
  BY <1>1, <1>2, <1>13, <1>14, <1>15 DEF TaskOK
<1>17. MultisigsOK'
  BY <1>1, <1>6, <1>8, <1>16 DEF MintInv, MultisigsOK, number
<1>18. MintsOK' /\ FileOK' /\ StoresOK'
  BY <1>1, <1>9 DEF MintInv, MintsOK, FileOK, StoresOK
<1>19. MetadataOK' /\ AttestedOK' /\ MessageOK'
  BY <1>1 DEF MintInv, MetadataOK, AttestedOK, MessageOK
<1>20. HandedToLiveStore' /\ RecordedCanReceive' /\ AttestedStays'
  BY <1>1, <1>10 DEF MintInv, HandedToLiveStore, RecordedCanReceive,
     AttestedStays, CanMint
<1>21. QED
  BY <1>16, <1>17, <1>18, <1>19, <1>20 DEF MintInv

\* The task that makes a mint goes on.
LEMMA MakesMintProceeds ==
    ASSUME MakesMint, Step # "save", task' = Proceed(task), UNCHANGED drawn
    PROVE  /\ (task \in TaskOver(NewMints, NewPlans))'
           /\ task'.mint = task.mint /\ task'.store = task.store
           /\ task'.minters = task.minters /\ task'.multisig = task.multisig
           /\ Step = "token" => Step' = "init"
           /\ Step = "init" => Step' = "authorities"
           /\ Step = "authorities" => Step' = "save"
<1>1. task \in TaskOver(NewMints, NewPlans) /\ task.left \in NewPlans
  BY DEF MakesMint, TaskOver
<1>2. /\ Len(task.left) # 1 /\ Tail(task.left) \in NewPlans
      /\ Step = "token" => Head(Tail(task.left)) = "init"
      /\ Step = "init" => Head(Tail(task.left)) = "authorities"
      /\ Step = "authorities" => Head(Tail(task.left)) = "save"
  BY <1>1, NewPlanSteps DEF Step
<1>3. /\ Proceed(task) \in TaskOver(NewMints, NewPlans)
      /\ Proceed(task).left = Tail(task.left)
      /\ Proceed(task).mint = task.mint /\ Proceed(task).store = task.store
      /\ Proceed(task).minters = task.minters
      /\ Proceed(task).multisig = task.multisig
  BY <1>1, <1>2, ProceedFields
<1>4. (task \in TaskOver(NewMints, NewPlans))'
  BY <1>3 DEF TaskOver
<1>5. Step' = Head(Tail(task.left))
  BY <1>3 DEF Step
<1>6. QED
  BY <1>2, <1>3, <1>4, <1>5

\* The task that is given a mint goes on.
LEMMA TakesMintProceeds ==
    ASSUME TakesMint, Step = "init", task' = Proceed(task), UNCHANGED drawn
    PROVE  /\ (task \in TaskOver(GivenMints, GivenPlans))'
           /\ task'.mint = task.mint /\ task'.store = task.store
           /\ Step' = "save"
<1>1. task \in TaskOver(GivenMints, GivenPlans) /\ task.left \in GivenPlans
  BY DEF TakesMint, TaskOver
<1>2. /\ Len(task.left) # 1 /\ Tail(task.left) \in GivenPlans
      /\ Head(Tail(task.left)) = "save"
  BY <1>1, GivenPlanSteps DEF Step
<1>3. /\ Proceed(task) \in TaskOver(GivenMints, GivenPlans)
      /\ Proceed(task).left = Tail(task.left)
      /\ Proceed(task).mint = task.mint /\ Proceed(task).store = task.store
  BY <1>1, <1>2, ProceedFields
<1>4. (task \in TaskOver(GivenMints, GivenPlans))'
  BY <1>3 DEF TaskOver
<1>5. QED
  BY <1>2, <1>3, <1>4 DEF Step

\* The task that hands over goes on.
LEMMA HandsOverProceeds ==
    ASSUME HandsOver, Step = "mintAuthority", task' = Proceed(task),
           UNCHANGED drawn
    PROVE  /\ (task \in TaskOver(Mints, HandPlans))'
           /\ task'.mint = task.mint /\ task'.store = task.store
           /\ task'.multisig = task.multisig /\ Step' = "freezeAuthority"
<1>1. task \in TaskOver(Mints, HandPlans) /\ task.left \in HandPlans
  BY DEF HandsOver, TaskOver
<1>2. /\ Len(task.left) # 1 /\ Tail(task.left) \in HandPlans
      /\ Head(Tail(task.left)) = "freezeAuthority"
  BY <1>1, HandPlanSteps DEF Step
<1>3. /\ Proceed(task) \in TaskOver(Mints, HandPlans)
      /\ Proceed(task).left = Tail(task.left)
      /\ Proceed(task).mint = task.mint /\ Proceed(task).store = task.store
      /\ Proceed(task).multisig = task.multisig
  BY <1>1, <1>2, ProceedFields
<1>4. (task \in TaskOver(Mints, HandPlans))'
  BY <1>3 DEF TaskOver
<1>5. QED
  BY <1>2, <1>3, <1>4 DEF Step

\* A record of authorities is not None.
LEMMA AuthoritiesAreThere ==
    ASSUME NEW mint \in Authority \ {None}, NEW freeze \in Authority
    PROVE  /\ [mint |-> mint, freeze |-> freeze] # None
           /\ [mint |-> mint, freeze |-> freeze] \in
                 {None} \union [mint : Authority \ {None}, freeze : Authority]
<1>1. mint \in {Wallet} \union Stores \union (1..MaxTasks)
  BY DEF Authority
<1>2. freeze \in {None, Wallet} \union Stores \union (1..MaxTasks)
  BY DEF Authority
<1>3. [mint |-> mint, freeze |-> freeze] \in
         [mint : {Wallet} \union Stores \union (1..MaxTasks),
          freeze : {None, Wallet} \union Stores \union (1..MaxTasks)]
  BY <1>1, <1>2
<1>4. QED
  BY <1>3, SolanaMintAssumption

\* The mint is new, so nothing that is recorded or attested is about it.
LEMMA CreateTokenKeeps ==
    ASSUME MintInv, CreateToken
    PROVE  MintInv'
<1> DEFINE made == [mint |-> Wallet, freeze |-> Wallet]
<1>1. /\ task # None /\ Step = "token"
      /\ mints' = [mints EXCEPT ![task.mint] = made]
      /\ task' = Proceed(task) \/ task' = None
      /\ UNCHANGED <<multisigs, stores, file, drawn, started, message,
                     attested>>
  BY DEF CreateToken, Running, Step, AssertAccountInitialized
<1>2. PICK isMutable \in BOOLEAN :
         metadata' = [metadata EXCEPT ![task.mint] =
                        [authority |-> Wallet, mutable |-> isMutable]]
  BY DEF CreateToken
<1>3. MakesMint
  BY <1>1, KindOfStep DEF MintInv
<1>4. task.mint \in NewMints /\ task.mint \in Mints
  BY <1>3 DEF MakesMint, TaskOver, Mints
<1>5. mints[task.mint] = None /\ stores[task.store] = None
  BY <1>1, <1>3 DEF MakesMint
<1>6. Wallet \in Authority \ {None}
  BY SolanaMintAssumption DEF Authority
<1>7. /\ made # None
      /\ made \in {None} \union [mint : Authority \ {None}, freeze : Authority]
  BY <1>6, AuthoritiesAreThere
<1>8. mints'[task.mint] = made /\ made.mint = Wallet /\ made.freeze = Wallet
  BY <1>1, <1>4 DEF MintInv, MintsOK
<1>9. \A m \in Mints : m # task.mint => mints'[m] = mints[m]
  BY <1>1 DEF MintInv, MintsOK
<1>10. Wallet \notin 1..MaxTasks /\ Wallet \notin Stores
  BY SolanaMintAssumption
<1> HIDE DEF made
<1>11. MintsOK'
  <2>1. mints' \in [Mints -> {None} \union [mint : Authority \ {None},
                                            freeze : Authority]]
    BY <1>1, <1>7 DEF MintInv, MintsOK
  <2>2. \A m \in Mints : mints'[m] # None =>
           {mints'[m].mint, mints'[m].freeze} \intersect (1..MaxTasks)
              \subseteq DOMAIN multisigs'
    BY <1>1, <1>8, <1>9, <1>10 DEF MintInv, MintsOK
  <2>3. \A m \in GivenMints : mints'[m] # None
    BY <1>4, <1>9, SolanaMintAssumption DEF MintInv, MintsOK, Mints
  <2>4. QED
    BY <2>1, <2>2, <2>3 DEF MintsOK
<1>12. StoresOK' /\ FileOK'
  BY <1>1, <1>7, <1>8, <1>9 DEF MintInv, StoresOK, FileOK
<1>13. MetadataOK'
  <2> DEFINE data == [authority |-> Wallet, mutable |-> isMutable]
  <2>1. data \in [authority : {Wallet, System} \union Heirs, mutable : BOOLEAN]
    OBVIOUS
  <2>2. data # None /\ data.authority # System
    BY <2>1, SolanaMintAssumption
  <2> HIDE DEF data
  <2>3. metadata' = [metadata EXCEPT ![task.mint] = data]
    BY <1>2 DEF data
  <2>4. QED
    BY <1>4, <1>7, <1>8, <1>9, <2>1, <2>2, <2>3
       DEF MintInv, MetadataOK, Mints
<1>14. AttestedOK' /\ MessageOK'
  BY <1>1 DEF MintInv, AttestedOK, MessageOK
<1>15. TaskOK' /\ (task' # None => Step' = "init")
  <2>1. ASSUME task' = Proceed(task) PROVE MakesMint' /\ Step' = "init"
    <3>1. /\ (task \in TaskOver(NewMints, NewPlans))'
          /\ task'.mint = task.mint /\ task'.store = task.store
          /\ task'.minters = task.minters /\ task'.multisig = task.multisig
          /\ Step' = "init"
      BY <1>1, <1>3, <2>1, MakesMintProceeds
    <3>2. task.minters # None => MultisigMade
      BY <1>1, <1>3 DEF MakesMint
    <3>3. task'.minters # None => MultisigMade'
      BY <1>1, <3>1, <3>2 DEF MultisigMade
    <3>4. QED
      BY <1>1, <1>5, <1>7, <1>8, <3>1, <3>3 DEF MakesMint
  <2>2. QED
    BY <1>1, <2>1 DEF TaskOK
<1>16. MultisigsOK'
  BY <1>1, <1>15 DEF MintInv, MultisigsOK
<1>17. HandedToLiveStore'
  BY <1>1, <1>8, <1>9 DEF MintInv, HandedToLiveStore, MayAct
<1>18. RecordedCanReceive'
  <2>1. file # None => file.mint \in Mints /\ file.mint # task.mint
    BY <1>5 DEF MintInv, FileOK
  <2>2. QED
    BY <1>1, <1>9, <2>1
       DEF MintInv, RecordedCanReceive, CanMint, MayAct
<1>19. AttestedStays'
  BY <1>1, <1>5, <1>9
     DEF MintInv, AttestedOK, StoresOK, AttestedStays
<1>20. QED
  BY <1>11, <1>12, <1>13, <1>14, <1>15, <1>16, <1>17, <1>18, <1>19
     DEF MintInv

\* The store was not there, so nothing that is recorded or attested is about
\* it, and no authority was with it.
LEMMA InitOftKeeps ==
    ASSUME MintInv, InitOft
    PROVE  MintInv'
<1>1. /\ task # None /\ Step = "init"
      /\ stores' = [stores EXCEPT ![task.store] = task.mint]
      /\ task' = Proceed(task)
      /\ UNCHANGED <<mints, multisigs, file, drawn, started, message, metadata,
                     attested>>
  BY DEF InitOft, Running, Step, TaskOnly
<1>2. MakesMint \/ TakesMint
  BY <1>1, KindOfStep DEF MintInv
<1>3. task.store \in drawn /\ task.store \in Stores /\ task.mint \in Mints
  BY <1>2 DEF MakesMint, TakesMint, TaskOver, Mints, MintInv, StoresOK
<1>4. stores[task.store] = None /\ mints[task.mint] # None
  BY <1>1, <1>2 DEF MakesMint, TakesMint, TaskOver, MintInv, MintsOK
<1>5. stores'[task.store] = task.mint /\ task.mint # None
  BY <1>1, <1>3, SolanaMintAssumption DEF MintInv, StoresOK
<1>6. \A s \in Stores : s # task.store => stores'[s] = stores[s]
  BY <1>1 DEF MintInv, StoresOK
<1>7. \A s \in Stores : stores[s] # None => stores'[s] = stores[s]
  BY <1>4, <1>6
<1>8. StoresOK'
  BY <1>1, <1>3, <1>4, <1>5, <1>6 DEF MintInv, StoresOK
<1>9. ASSUME MakesMint PROVE MakesMint' /\ Step' = "authorities"
  <2>1. /\ (task \in TaskOver(NewMints, NewPlans))'
        /\ task'.mint = task.mint /\ task'.store = task.store
        /\ task'.minters = task.minters /\ task'.multisig = task.multisig
        /\ Step' = "authorities"
    BY <1>1, <1>9, MakesMintProceeds
  <2>2. task.minters # None => MultisigMade
    BY <1>1, <1>9 DEF MakesMint
  <2>3. task'.minters # None => MultisigMade'
    BY <1>1, <2>1, <2>2 DEF MultisigMade
  <2>4. mints[task.mint].mint = Wallet
    BY <1>1, <1>9 DEF MakesMint
  <2>5. QED
    BY <1>1, <1>4, <1>5, <2>1, <2>3, <2>4 DEF MakesMint
<1>10. ASSUME TakesMint PROVE TakesMint' /\ Step' = "save"
  <2>1. /\ (task \in TaskOver(GivenMints, GivenPlans))'
        /\ task'.mint = task.mint /\ task'.store = task.store
        /\ Step' = "save"
    BY <1>1, <1>10, TakesMintProceeds
  <2>2. QED
    BY <1>5, <2>1 DEF TakesMint
<1>11. TaskOK' /\ Step' # "multisig"
  BY <1>2, <1>9, <1>10 DEF TaskOK
<1>12. MultisigsOK'
  BY <1>1, <1>11 DEF MintInv, MultisigsOK
<1>13. MintsOK' /\ FileOK' /\ MetadataOK'
  BY <1>1 DEF MintInv, MintsOK, FileOK, MetadataOK
<1>14. AttestedOK' /\ MessageOK'
  BY <1>1, <1>3, <1>5, <1>7 DEF MintInv, AttestedOK, MessageOK
<1>15. HandedToLiveStore'
  BY <1>1, <1>7, SolanaMintAssumption
     DEF MintInv, HandedToLiveStore, MayAct
<1>16. RecordedCanReceive'
  <2>1. ASSUME file # None PROVE stores'[file.store] = stores[file.store]
    <3>1. stores[file.store] = file.mint /\ file.mint # None
      BY <2>1, SolanaMintAssumption DEF MintInv, RecordedCanReceive, FileOK
    <3>2. file.store \in Stores
      BY <2>1 DEF MintInv, FileOK, StoresOK
    <3>3. QED
      BY <1>7, <3>1, <3>2
  <2>2. QED
    BY <1>1, <2>1 DEF MintInv, RecordedCanReceive, CanMint, MayAct
<1>17. AttestedStays'
  BY <1>1, <1>7 DEF MintInv, AttestedOK, AttestedStays
<1>18. QED
  BY <1>8, <1>11, <1>12, <1>13, <1>14, <1>15, <1>16, <1>17 DEF MintInv

\* The numbers of the multisigs are among those an authority may have.
LEMMA MultisigNumbers ==
    ASSUME MultisigsOK
    PROVE  /\ DOMAIN multisigs \subseteq 1..MaxTasks
           /\ DOMAIN multisigs \subseteq Authority \ {None}
<1>1. Len(multisigs) \in Nat /\ DOMAIN multisigs = 1..Len(multisigs)
  BY LenProperties DEF MultisigsOK
<1>2. Len(multisigs) <= MaxTasks
  BY <1>1, SolanaMintAssumption DEF MultisigsOK
<1>3. DOMAIN multisigs \subseteq 1..MaxTasks
  BY <1>1, <1>2, SolanaMintAssumption
<1>4. QED
  BY <1>3, SolanaMintAssumption DEF Authority

\* Other authorities over one mint, which the wallet can use or else a store of
\* that mint, leave everything in order.
LEMMA NewAuthoritiesKeep ==
    ASSUME MintInv, NEW mint \in Mints, NEW authority \in Authority \ {None},
           NEW freeze \in Authority,
           mints[mint] # None,
           mints' = [mints EXCEPT ![mint] = [mint |-> authority,
                                             freeze |-> freeze]],
           {authority, freeze} \intersect (1..MaxTasks) \subseteq
              DOMAIN multisigs,
           UNCHANGED <<multisigs, stores, file, drawn, started, message,
                       metadata, attested>>,
           \/ MayAct(Wallet, authority)
           \/ \E s \in Stores : stores[s] = mint /\ MayAct(s, authority),
           file # None /\ file.mint = mint /\ mint \in NewMints =>
              MayAct(file.store, authority),
           \A s \in attested : stores[s] = mint => authority = s,
           TaskOK', task' # None => Step' # "multisig"
    PROVE  MintInv'
<1> DEFINE made == [mint |-> authority, freeze |-> freeze]
<1>1. /\ made # None
      /\ made \in {None} \union [mint : Authority \ {None}, freeze : Authority]
  BY AuthoritiesAreThere
<1>2. made.mint = authority /\ made.freeze = freeze
  OBVIOUS
<1> HIDE DEF made
<1>3. mints' = [mints EXCEPT ![mint] = made]
  BY DEF made
<1>4. mints'[mint] = made
  BY <1>3 DEF MintInv, MintsOK
<1>5. \A m \in Mints : m # mint => mints'[m] = mints[m]
  BY <1>3 DEF MintInv, MintsOK
<1>6. \A m \in Mints : mints'[m] # None <=> mints[m] # None
  BY <1>1, <1>4, <1>5
<1>7. MintsOK'
  <2>1. mints' \in [Mints -> {None} \union [mint : Authority \ {None},
                                            freeze : Authority]]
    BY <1>1, <1>3 DEF MintInv, MintsOK
  <2>2. \A m \in Mints : mints'[m] # None =>
           {mints'[m].mint, mints'[m].freeze} \intersect (1..MaxTasks)
              \subseteq DOMAIN multisigs'
    BY <1>2, <1>4, <1>5 DEF MintInv, MintsOK
  <2>3. \A m \in GivenMints : mints'[m] # None
    BY <1>6 DEF MintInv, MintsOK, Mints
  <2>4. QED
    BY <2>1, <2>2, <2>3 DEF MintsOK
<1>8. StoresOK' /\ FileOK' /\ AttestedOK' /\ MessageOK'
  BY <1>6 DEF MintInv, StoresOK, FileOK, AttestedOK, MessageOK
<1>9. MetadataOK'
  BY <1>6 DEF MintInv, MetadataOK, Mints
<1>10. MultisigsOK'
  BY DEF MintInv, MultisigsOK
<1>11. \A who, a : MayAct(who, a)' <=> MayAct(who, a)
  BY DEF MayAct
<1>12. HandedToLiveStore'
  <2>1. ASSUME NEW m \in Mints, mints'[m] # None
        PROVE  \/ MayAct(Wallet, mints'[m].mint)
               \/ \E s \in Stores : stores[s] = m /\ MayAct(s, mints'[m].mint)
    BY <1>2, <1>4, <1>5, <2>1 DEF MintInv, HandedToLiveStore
  <2>2. QED
    BY <1>11, <2>1 DEF HandedToLiveStore, MayAct
<1>13. RecordedCanReceive'
  <2>1. file # None => file.mint \in Mints
    BY DEF MintInv, FileOK
  <2>2. QED
    BY <1>2, <1>4, <1>5, <2>1
       DEF MintInv, RecordedCanReceive, CanMint, MayAct
<1>14. AttestedStays'
  <2>1. \A s \in attested : stores[s] \in Mints
    BY DEF MintInv, AttestedOK, StoresOK
  <2>2. QED
    BY <1>2, <1>4, <1>5, <2>1 DEF MintInv, AttestedStays
<1>15. QED
  BY <1>7, <1>8, <1>9, <1>10, <1>12, <1>13, <1>14 DEF MintInv

\* Both authorities leave the wallet for the store, or for the multisig that
\* the store is a signer of.
LEMMA SetAuthoritiesKeeps ==
    ASSUME MintInv, SetAuthorities
    PROVE  MintInv'
<1> DEFINE freeze == IF task.onlyStore THEN None ELSE MintAuthority
<1>1. /\ task # None /\ Step = "authorities"
      /\ mints' = [mints EXCEPT ![task.mint] = [mint |-> MintAuthority,
                                                freeze |-> freeze]]
      /\ task' = Proceed(task)
      /\ UNCHANGED <<multisigs, stores, file, drawn, started, message,
                     metadata, attested>>
  BY DEF SetAuthorities, Running, Step, TaskOnly
<1>2. MakesMint
  BY <1>1, KindOfStep DEF MintInv
<1>3. /\ task.mint \in NewMints /\ task.mint \in Mints
      /\ task.store \in Stores
      /\ mints[task.mint] # None /\ mints[task.mint].mint = Wallet
      /\ stores[task.store] = task.mint
      /\ task.minters # None => MultisigMade
  BY <1>1, <1>2 DEF MakesMint, TaskOver, Mints, MintInv, StoresOK
<1>4. /\ MintAuthority \in Authority \ {None}
      /\ {MintAuthority} \intersect (1..MaxTasks) \subseteq DOMAIN multisigs
  <2>1. task.store \in Authority \ {None} /\ task.store \notin 1..MaxTasks
    BY <1>3, SolanaMintAssumption DEF Authority
  <2>2. QED
    BY <1>3, <2>1, MultisigNumbers
       DEF MintAuthority, MultisigMade, MintInv
<1>5. MayAct(task.store, MintAuthority)
  BY <1>3 DEF MayAct, MintAuthority, MultisigMade
<1>6. None \notin 1..MaxTasks /\ None \in Authority
  BY SolanaMintAssumption DEF Authority
<1>7. /\ freeze \in Authority
      /\ {MintAuthority, freeze} \intersect (1..MaxTasks) \subseteq
            DOMAIN multisigs
  BY <1>4, <1>6
<1> HIDE DEF freeze
<1>8. \A s \in Stores : ~MayAct(s, Wallet)
  BY MultisigNumbers, SolanaMintAssumption DEF MayAct, MintInv
<1>9. file # None => file.mint # task.mint
  BY <1>3, <1>8
     DEF MintInv, FileOK, StoresOK, RecordedCanReceive, CanMint
<1>10. \A s \in attested : stores[s] # task.mint
  BY <1>3, SolanaMintAssumption DEF MintInv, AttestedOK, AttestedStays
<1>11. MakesMint' /\ Step' = "save"
  <2>1. /\ (task \in TaskOver(NewMints, NewPlans))'
        /\ task'.mint = task.mint /\ task'.store = task.store
        /\ task'.minters = task.minters /\ task'.multisig = task.multisig
        /\ Step' = "save"
    BY <1>1, <1>2, MakesMintProceeds
  <2>2. task'.minters # None => MultisigMade'
    BY <1>1, <1>3, <2>1 DEF MultisigMade
  <2>3. mints'[task.mint] = [mint |-> MintAuthority, freeze |-> freeze]
    BY <1>1, <1>3 DEF MintInv, MintsOK
  <2>4. mints'[task.mint] # None /\ mints'[task.mint].mint = MintAuthority
    BY <1>4, <1>7, <2>3, AuthoritiesAreThere
  <2>5. MayAct(task.store, mints[task.mint].mint)'
    BY <1>1, <1>5, <2>1, <2>4 DEF MayAct
  <2>6. QED
    BY <1>1, <1>3, <2>1, <2>2, <2>4, <2>5 DEF MakesMint
<1>12. TaskOK'
  BY <1>11 DEF TaskOK
<1>13. QED
  BY <1>1, <1>3, <1>4, <1>5, <1>7, <1>9, <1>10, <1>11, <1>12,
     NewAuthoritiesKeep

\* What is written into the file is deployed by then.
LEMMA SaveKeeps ==
    ASSUME MintInv, SaveSolanaDeployment
    PROVE  MintInv'
<1>1. /\ task # None /\ Step = "save"
      /\ file' = [mint |-> task.mint, store |-> task.store]
      /\ task' = Proceed(task)
      /\ UNCHANGED <<chainVars, drawn, started, message, metadata, attested>>
  BY DEF SaveSolanaDeployment, Running, Step, TaskOnly
<1>2. MakesMint \/ TakesMint
  BY <1>1, KindOfStep DEF MintInv
<1>3. /\ task.mint \in Mints /\ task.store \in drawn
      /\ stores[task.store] = task.mint
      /\ mints[task.mint] # None
      /\ task.mint \in NewMints => MayAct(task.store, mints[task.mint].mint)
  <2>1. CASE MakesMint
    BY <1>1, <2>1 DEF MakesMint, TaskOver, Mints
  <2>2. CASE TakesMint
    BY <1>1, <2>2, SolanaMintAssumption
       DEF TakesMint, TaskOver, Mints, MintInv, MintsOK
  <2>3. QED
    BY <1>2, <2>1, <2>2
<1>4. task' = None
  BY <1>1, <1>2, NewPlanSteps, GivenPlanSteps
     DEF MakesMint, TakesMint, TaskOver, Step, Proceed
<1>5. FileOK'
  BY <1>1, <1>3 DEF FileOK, chainVars
<1>6. RecordedCanReceive'
  BY <1>1, <1>3, SolanaMintAssumption
     DEF RecordedCanReceive, CanMint, MayAct, chainVars
<1>7. TaskOK' /\ MultisigsOK'
  BY <1>1, <1>4 DEF TaskOK, MintInv, MultisigsOK, chainVars
<1>8. MintsOK' /\ StoresOK' /\ MetadataOK' /\ AttestedOK' /\ MessageOK'
  BY <1>1 DEF MintInv, MintsOK, StoresOK, MetadataOK, AttestedOK, MessageOK,
     chainVars
<1>9. HandedToLiveStore' /\ AttestedStays'
  BY <1>1 DEF MintInv, HandedToLiveStore, AttestedStays, MayAct, chainVars
<1>10. QED
  BY <1>5, <1>6, <1>7, <1>8, <1>9 DEF MintInv

\* The mint that the file records and its multisig, as it is handed over.
LEMMA HandedOver ==
    ASSUME MintInv, task # None,
           Step \in {"mintAuthority", "freezeAuthority"}
    PROVE  /\ HandsOver /\ MultisigMade
           /\ file # None /\ task.mint = file.mint /\ task.mint \in Mints
           /\ task.store = file.store /\ task.store \in Stores
           /\ stores[task.store] = task.mint /\ mints[task.mint] # None
           /\ mints[task.mint] \in [mint : Authority \ {None},
                                    freeze : Authority]
           /\ task.multisig \in Authority \ {None}
           /\ MayAct(task.store, task.multisig)
<1>1. HandsOver /\ MultisigMade
  BY KindOfStep DEF MintInv, HandsOver
<1>2. /\ file # None /\ task.mint = file.mint /\ task.mint \in Mints
      /\ task.store = file.store /\ task.store \in Stores
      /\ stores[task.store] = task.mint /\ mints[task.mint] # None
  BY <1>1 DEF HandsOver, MintInv, FileOK, StoresOK, RecordedCanReceive
<1>3. mints[task.mint] \in [mint : Authority \ {None}, freeze : Authority]
  BY <1>2 DEF MintInv, MintsOK
<1>4. task.multisig \in Authority \ {None} /\ MayAct(task.store, task.multisig)
  BY <1>1, MultisigNumbers DEF MultisigMade, MayAct, MintInv
<1>5. QED
  BY <1>1, <1>2, <1>3, <1>4

\* What the wallet may use is not attested to be a store's.
LEMMA AttestedIsNotTheWallets ==
    ASSUME MintInv, NEW mint \in Mints, MayAct(Wallet, mints[mint].mint)
    PROVE  \A s \in attested : stores[s] # mint
<1>1. \A s \in Stores : ~MayAct(Wallet, s)
  BY MultisigNumbers, SolanaMintAssumption DEF MayAct, MintInv
<1>2. QED
  BY <1>1 DEF MintInv, AttestedOK, AttestedStays

\* The mint authority goes from the wallet to the multisig.
LEMMA SetMintAuthorityKeeps ==
    ASSUME MintInv, SetMintAuthority
    PROVE  MintInv'
<1> DEFINE old == mints[task.mint]
<1>1. /\ task # None /\ Step = "mintAuthority"
      /\ MayAct(Wallet, mints[task.mint].mint)
      /\ mints' = [mints EXCEPT ![task.mint].mint = task.multisig]
      /\ task' = Proceed(task)
      /\ UNCHANGED <<multisigs, stores, file, drawn, started, message,
                     metadata, attested>>
  BY DEF SetMintAuthority, Running, Step, TaskOnly
<1>2. /\ HandsOver /\ MultisigMade
      /\ file # None /\ task.mint = file.mint /\ task.mint \in Mints
      /\ task.store = file.store /\ task.store \in Stores
      /\ stores[task.store] = task.mint /\ old # None
      /\ old \in [mint : Authority \ {None}, freeze : Authority]
      /\ task.multisig \in Authority \ {None}
      /\ MayAct(task.store, task.multisig)
  BY <1>1, HandedOver
<1>3. mints' = [mints EXCEPT ![task.mint] = [mint |-> task.multisig,
                                             freeze |-> old.freeze]]
  <2>1. mints' = [mints EXCEPT ![task.mint] =
                                  [old EXCEPT !.mint = task.multisig]]
    BY <1>1
  <2>2. [old EXCEPT !.mint = task.multisig] =
           [mint |-> task.multisig, freeze |-> old.freeze]
    BY <1>2
  <2>3. QED
    BY <2>1, <2>2
<1>4. {task.multisig, old.freeze} \intersect (1..MaxTasks) \subseteq
         DOMAIN multisigs
  BY <1>2 DEF MultisigMade, MintInv, MintsOK
<1>5. old.freeze \in Authority
  BY <1>2
<1>6. \A s \in attested : stores[s] # task.mint
  BY <1>1, <1>2, AttestedIsNotTheWallets
<1> HIDE DEF old
<1>7. TaskOK' /\ Step' = "freezeAuthority"
  <2>1. /\ (task \in TaskOver(Mints, HandPlans))'
        /\ task'.mint = task.mint /\ task'.store = task.store
        /\ task'.multisig = task.multisig /\ Step' = "freezeAuthority"
    BY <1>1, <1>2, HandsOverProceeds
  <2>2. MultisigMade'
    BY <1>1, <1>2, <2>1 DEF MultisigMade
  <2>3. HandsOver'
    BY <1>1, <1>2, <2>1, <2>2 DEF HandsOver
  <2>4. QED
    BY <2>1, <2>3 DEF TaskOK
<1>8. QED
  BY <1>1, <1>2, <1>3, <1>4, <1>5, <1>6, <1>7, NewAuthoritiesKeep DEF old

\* The freeze authority too; who may mint stays.
LEMMA SetFreezeAuthorityKeeps ==
    ASSUME MintInv, SetFreezeAuthority
    PROVE  MintInv'
<1> DEFINE old == mints[task.mint]
<1>1. /\ task # None /\ Step = "freezeAuthority"
      /\ mints' = [mints EXCEPT ![task.mint].freeze = task.multisig]
      /\ task' = Proceed(task)
      /\ UNCHANGED <<multisigs, stores, file, drawn, started, message,
                     metadata, attested>>
  BY DEF SetFreezeAuthority, Running, Step, TaskOnly
<1>2. /\ HandsOver /\ MultisigMade
      /\ file # None /\ task.mint = file.mint /\ task.mint \in Mints
      /\ old # None
      /\ old \in [mint : Authority \ {None}, freeze : Authority]
      /\ task.multisig \in Authority \ {None}
  BY <1>1, HandedOver
<1>3. mints' = [mints EXCEPT ![task.mint] = [mint |-> old.mint,
                                             freeze |-> task.multisig]]
  <2>1. mints' = [mints EXCEPT ![task.mint] =
                                  [old EXCEPT !.freeze = task.multisig]]
    BY <1>1
  <2>2. [old EXCEPT !.freeze = task.multisig] =
           [mint |-> old.mint, freeze |-> task.multisig]
    BY <1>2
  <2>3. QED
    BY <2>1, <2>2
<1>4. {old.mint, task.multisig} \intersect (1..MaxTasks) \subseteq
         DOMAIN multisigs
  BY <1>2 DEF MultisigMade, MintInv, MintsOK
<1>5. old.mint \in Authority \ {None}
  BY <1>2
<1>6. \/ MayAct(Wallet, old.mint)
      \/ \E s \in Stores : stores[s] = task.mint /\ MayAct(s, old.mint)
  BY <1>2 DEF MintInv, HandedToLiveStore
<1>7. file # None /\ file.mint = task.mint /\ task.mint \in NewMints =>
         MayAct(file.store, old.mint)
  BY <1>2 DEF MintInv, RecordedCanReceive, CanMint
<1>8. \A s \in attested : stores[s] = task.mint => old.mint = s
  BY DEF MintInv, AttestedStays
<1> HIDE DEF old
<1>9. task' = None
  BY <1>1, <1>2, HandPlanSteps DEF HandsOver, TaskOver, Step, Proceed
<1>10. TaskOK' /\ (task' # None => Step' # "multisig")
  BY <1>9 DEF TaskOK
<1>11. task.multisig \in Authority /\ task.mint \in Mints
  BY <1>2
<1> DEFINE mint == task.mint
           authority == old.mint
           freeze == task.multisig
<1>12. /\ mints[mint] # None
       /\ mints' = [mints EXCEPT ![mint] = [mint |-> authority,
                                            freeze |-> freeze]]
       /\ UNCHANGED <<multisigs, stores, file, drawn, started, message,
                      metadata, attested>>
  BY <1>1, <1>2, <1>3 DEF old
<1> HIDE DEF authority, freeze, mint
<1>13. QED
  BY <1>4, <1>5, <1>6, <1>7, <1>8, <1>10, <1>11, <1>12, NewAuthoritiesKeep
     DEF mint, authority, freeze

-----------------------------------------------------------------------------
(* The metadata, the check and the executor.                               *)

\* What becomes of the metadata: renounced, it is immutable.
LEMMA SetUpdateAuthorityEffect ==
    ASSUME MintInv, SetUpdateAuthority
    PROVE  /\ task # None /\ Updates /\ Step = "updateAuthority"
           /\ task.mint \in NewMints /\ metadata[task.mint] # None
           /\ task.to \in {System} \union Heirs
           /\ metadata' =
                [metadata EXCEPT ![task.mint] =
                   [authority |-> task.to,
                    mutable |-> metadata[task.mint].mutable
                                  /\ task.to # System]]
           /\ task' = None
           /\ UNCHANGED <<chainVars, file, drawn, started, message, attested>>
<1>1. /\ task # None /\ Step = "updateAuthority"
      /\ metadata[task.mint] # None
      /\ task' = Proceed(task)
      /\ UNCHANGED <<chainVars, file, drawn, started, message, attested>>
  BY DEF SetUpdateAuthority, Running, Step, IsUpdateAuthority
<1>2. Updates
  BY <1>1, KindOfStep DEF MintInv
<1>3. task.mint \in NewMints /\ task.to \in {System} \union Heirs
  BY <1>1, <1>2 DEF Updates
<1>4. metadata' = [metadata EXCEPT ![task.mint] =
                     [authority |-> task.to,
                      mutable |-> metadata[task.mint].mutable
                                    /\ task.to # System]]
  BY <1>3 DEF SetUpdateAuthority, MintInv, MetadataOK
<1>5. task' = None
  BY <1>1, <1>2, UpdatePlanSteps DEF Updates, Proceed
<1>6. QED
  BY <1>1, <1>2, <1>3, <1>4, <1>5

\* The update authority goes to an heir or is renounced.
LEMMA SetUpdateAuthorityKeeps ==
    ASSUME MintInv, SetUpdateAuthority
    PROVE  MintInv'
<1> DEFINE isMutable == metadata[task.mint].mutable /\ task.to # System
           data == [authority |-> task.to, mutable |-> isMutable]
<1>1. /\ task.mint \in NewMints /\ metadata[task.mint] # None
      /\ task.to \in {System} \union Heirs
      /\ metadata' = [metadata EXCEPT ![task.mint] = data]
      /\ task' = None
      /\ UNCHANGED <<chainVars, file, drawn, started, message, attested>>
  BY SetUpdateAuthorityEffect
<1>2. isMutable \in BOOLEAN /\ (task.to = System => ~isMutable)
  OBVIOUS
<1> HIDE DEF isMutable
<1>3. data \in [authority : {Wallet, System} \union Heirs, mutable : BOOLEAN]
  BY <1>1, <1>2
<1>4. data # None /\ (data.authority = System => ~data.mutable)
  BY <1>2, <1>3, SolanaMintAssumption
<1> HIDE DEF data
<1>5. MetadataOK'
  BY <1>1, <1>3, <1>4 DEF MintInv, MetadataOK, chainVars
<1>6. TaskOK' /\ MultisigsOK'
  BY <1>1 DEF TaskOK, MintInv, MultisigsOK, chainVars
<1>7. MintsOK' /\ StoresOK' /\ FileOK' /\ AttestedOK' /\ MessageOK'
  BY <1>1 DEF MintInv, MintsOK, StoresOK, FileOK, AttestedOK, MessageOK,
     chainVars
<1>8. HandedToLiveStore' /\ RecordedCanReceive' /\ AttestedStays'
  BY <1>1 DEF MintInv, HandedToLiveStore, RecordedCanReceive, AttestedStays,
     MayAct, CanMint, chainVars
<1>9. QED
  BY <1>5, <1>6, <1>7, <1>8 DEF MintInv

\* Other metadata of the same authority and mutability.
LEMMA UpdateMetadataKeeps ==
    ASSUME MintInv, UpdateMetadata
    PROVE  MintInv'
<1>1. /\ task # None /\ Step = "updateMetadata"
      /\ task' = Proceed(task)
      /\ UNCHANGED <<chainVars, file>> /\ TaskOnly
  BY DEF UpdateMetadata, Running, Step
<1>2. Updates
  BY <1>1, KindOfStep DEF MintInv
<1>3. task' = None
  BY <1>1, <1>2, UpdatePlanSteps DEF Updates, Proceed
<1>4. QED
  BY <1>1, <1>3, StopKeeps

\* Where only the message and what is attested change.
LEMMA ChainStays ==
    ASSUME MintInv, MessageOK', AttestedOK', AttestedStays',
           UNCHANGED <<chainVars, file, task, drawn, started, metadata>>
    PROVE  MintInv'
<1>1. MintsOK' /\ MultisigsOK' /\ StoresOK' /\ FileOK' /\ MetadataOK'
  BY DEF MintInv, MintsOK, MultisigsOK, StoresOK, FileOK, MetadataOK,
     chainVars, Step
<1>2. Step' = Step /\ (MultisigMade' <=> MultisigMade)
  BY DEF Step, MultisigMade, chainVars
<1>3. (MakesMint => MakesMint') /\ (TakesMint => TakesMint')
  BY <1>2 DEF MakesMint, TakesMint, TaskOver, MayAct, chainVars
<1>4. (HandsOver => HandsOver') /\ (Updates => Updates')
  BY <1>2 DEF HandsOver, Updates, TaskOver, chainVars
<1>5. TaskOK'
  BY <1>3, <1>4 DEF MintInv, TaskOK
<1>6. HandedToLiveStore' /\ RecordedCanReceive'
  BY DEF MintInv, HandedToLiveStore, RecordedCanReceive, CanMint, MayAct,
     chainVars
<1>7. QED
  BY <1>1, <1>5, <1>6 DEF MintInv

\* The check attests what is so.
LEMMA DebugKeeps ==
    ASSUME MintInv, NEW store \in Stores, Debug(store)
    PROVE  MintInv'
<1>1. MessageOK'
  BY DEF Debug, MintInv, MessageOK, chainVars
<1>2. AttestedOK' /\ AttestedStays'
  BY DEF Debug, TokenMintAuthorityIsOFTStore, MintInv, AttestedOK,
     AttestedStays, chainVars
<1>3. QED
  BY <1>1, <1>2, ChainStays DEF Debug

\* A message is about a store that exists.
LEMMA ExecutorKeeps ==
    ASSUME MintInv, ExecutorStep
    PROVE  MintInv'
<1>1. UNCHANGED <<chainVars, file, task, drawn, started, metadata, attested>>
  BY DEF ExecutorStep, LzReceiveTypes, LzReceive, Arrive
<1>2. AttestedOK' /\ AttestedStays'
  BY <1>1 DEF MintInv, AttestedOK, AttestedStays, chainVars
<1>3. ASSUME NEW s \in Stores, Arrive(s) PROVE MessageOK'
  BY <1>1, <1>3 DEF Arrive, MessageOK, chainVars, Authority
<1>4. ASSUME LzReceiveTypes PROVE MessageOK'
  <2>1. /\ message \in [store : Stores, authority : Authority,
                        minted : BOOLEAN]
        /\ stores[message.store] # None
    BY <1>4 DEF LzReceiveTypes, MintInv, MessageOK
  <2>2. mints[stores[message.store]].mint \in Authority
    BY <2>1 DEF MintInv, StoresOK, MintsOK
  <2>3. QED
    BY <1>1, <1>4, <2>1, <2>2 DEF LzReceiveTypes, MessageOK, chainVars
<1>5. ASSUME LzReceive PROVE MessageOK'
  BY <1>1, <1>5 DEF LzReceive, MintInv, MessageOK, chainVars
<1>6. QED
  BY <1>1, <1>2, <1>3, <1>4, <1>5, ChainStays DEF ExecutorStep

-----------------------------------------------------------------------------
(* The specification.                                                      *)

\* Before the first task the wallet has the authority over every mint.
LEMMA MintInit ==
    ASSUME Init PROVE MintInv
<1>1. \A m \in Mints :
         /\ mints[m] = None <=> m \in NewMints
         /\ mints[m] # None =>
               /\ mints[m] \in [mint : {Wallet}, freeze : {Wallet, None}]
               /\ mints[m].mint = Wallet /\ mints[m].freeze \in {Wallet, None}
  BY DEF Init
<1>2. MintsOK
  <2>1. {Wallet} \subseteq Authority \ {None}
        /\ {Wallet, None} \subseteq Authority
    BY SolanaMintAssumption DEF Authority
  <2>2. \A m \in Mints : mints[m] \in
           {None} \union [mint : Authority \ {None}, freeze : Authority]
    BY <1>1, <2>1
  <2>3. mints \in [Mints -> {None} \union [mint : Authority \ {None},
                                           freeze : Authority]]
    BY <2>2 DEF Init
  <2>4. {Wallet, None} \intersect (1..MaxTasks) = {}
    BY SolanaMintAssumption
  <2>5. \A m \in Mints : mints[m] # None =>
           {mints[m].mint, mints[m].freeze} \intersect (1..MaxTasks)
              \subseteq DOMAIN multisigs
    BY <1>1, <2>4
  <2>6. \A m \in GivenMints : mints[m] # None
    BY <1>1, SolanaMintAssumption DEF Mints
  <2>7. QED
    BY <2>3, <2>5, <2>6 DEF MintsOK
<1>3. MultisigsOK
  <2>1. multisigs \in Seq(SUBSET ({Wallet} \union Minters \union Stores))
        /\ Len(multisigs) = 0
    BY EmptySeq DEF Init
  <2>2. QED
    BY <2>1, SolanaMintAssumption DEF Init, MultisigsOK
<1>4. StoresOK /\ FileOK /\ AttestedOK /\ MessageOK /\ TaskOK
  BY DEF Init, StoresOK, FileOK, AttestedOK, MessageOK, TaskOK
<1>5. MetadataOK
  BY <1>1 DEF Init, MetadataOK, Mints
<1>6. HandedToLiveStore /\ RecordedCanReceive /\ AttestedStays
  BY <1>1 DEF Init, HandedToLiveStore, RecordedCanReceive, AttestedStays,
     MayAct
<1>7. QED
  BY <1>2, <1>3, <1>4, <1>5, <1>6 DEF MintInv

\* One step of the operator, of the executor or of the check.
LEMMA MintStep ==
    ASSUME MintInv, [Next]_vars PROVE MintInv'
<1>1. CASE TaskStart
  BY <1>1, StartCreateKeeps, StartSetAuthorityKeeps DEF TaskStart
<1>2. CASE UpdateStart
  <2>1. PICK m \in NewMints :
           \/ \E to \in Heirs \union {System} : StartSetUpdateAuthority(m, to)
           \/ StartUpdateMetadata(m)
    BY <1>2 DEF UpdateStart
  <2>2. ASSUME NEW to \in Heirs \union {System},
               StartSetUpdateAuthority(m, to)
        PROVE  MintInv'
    <3>1. /\ BeginUpdate(m, to, "updateAuthority")
          /\ to # System => metadata[m].mutable
      BY <2>2 DEF StartSetUpdateAuthority
    <3>2. QED
      BY <3>1, BeginUpdateKeeps DEF BeginUpdate
  <2>3. ASSUME StartUpdateMetadata(m) PROVE MintInv'
    BY <2>3, BeginUpdateKeeps DEF StartUpdateMetadata, BeginUpdate
  <2>4. QED
    BY <2>1, <2>2, <2>3
<1>3. CASE TaskStep
  BY <1>3, CreateMultisigKeeps, CreateTokenKeeps, InitOftKeeps,
     SetAuthoritiesKeeps, SaveKeeps, SetMintAuthorityKeeps,
     SetFreezeAuthorityKeeps, SetUpdateAuthorityKeeps, UpdateMetadataKeeps,
     StopKeeps
     DEF TaskStep, Unbudgeted, Interrupt
<1>4. CASE ExecutorStep
  BY <1>4, ExecutorKeeps
<1>5. CASE \E s \in Stores : Debug(s)
  BY <1>5, DebugKeeps
<1>6. CASE UNCHANGED vars
  <2>1. MessageOK' /\ AttestedOK' /\ AttestedStays'
    BY <1>6 DEF vars, chainVars, MintInv, MessageOK, AttestedOK, AttestedStays
  <2>2. QED
    BY <1>6, <2>1, ChainStays DEF vars
<1>7. QED
  BY <1>1, <1>2, <1>3, <1>4, <1>5, <1>6 DEF Next

\* MintInv holds throughout.
LEMMA MintInvariant == Spec => []MintInv
<1>1. Init => MintInv
  BY MintInit
<1>2. MintInv /\ [Next]_vars => MintInv'
  BY MintStep
<1>3. QED
  BY <1>1, <1>2, PTL DEF Spec

\* The authorities, the stores, the file and what the tasks know are of their
\* types, whatever was interrupted.
THEOREM MintTypeCorrect == Spec => []MintTypeOK
<1>1. MintInv => MintTypeOK
  <2>1. ASSUME MintInv, task # None
        PROVE  /\ task.left # << >> /\ task.mint \in Mints
               /\ "store" \in DOMAIN task => task.store \in drawn
    <3>1. CASE MakesMint
      BY <3>1, NewPlanSteps DEF MakesMint, TaskOver, Mints
    <3>2. CASE TakesMint
      BY <3>2, GivenPlanSteps DEF TakesMint, TaskOver, Mints
    <3>3. CASE HandsOver
      BY <3>3, HandPlanSteps DEF HandsOver, TaskOver
    <3>4. CASE Updates
      BY <3>4, UpdatePlanSteps DEF Updates, Mints
    <3>5. QED
      BY <2>1, <3>1, <3>2, <3>3, <3>4 DEF MintInv, TaskOK
  <2>2. MintInv => \A m \in NewMints : metadata[m] # None =>
           /\ metadata[m].authority \in {Wallet, System} \union Heirs
           /\ metadata[m].mutable \in BOOLEAN
    BY DEF MintInv, MetadataOK
  <2>3. QED
    BY <2>1, <2>2 DEF MintInv, MintsOK, MultisigsOK, StoresOK, FileOK,
       AttestedOK, MessageOK, MintTypeOK
<1>2. QED
  BY <1>1, MintInvariant, PTL

\* Wherever the tasks stop and however often they are run, the authority over
\* a mint is with the operator or with a store that exists.
THEOREM MintHandedToLiveStore == Spec => []HandedToLiveStore
<1>1. MintInv => HandedToLiveStore
  BY DEF MintInv
<1>2. QED
  BY <1>1, MintInvariant, PTL

\* What OFT.json records is deployed, and can mint if the task made the mint.
THEOREM MintRecordedCanReceive == Spec => []RecordedCanReceive
<1>1. MintInv => RecordedCanReceive
  BY DEF MintInv
<1>2. QED
  BY <1>1, MintInvariant, PTL

\* Once attested to be the store's alone, the authority to mint stays so.
THEOREM MintAttestedStays == Spec => []AttestedStays
<1>1. MintInv => AttestedStays
  BY DEF MintInv
<1>2. QED
  BY <1>1, MintInvariant, PTL

\* What one step makes of the metadata of one mint.
LEMMA ImmutableStep ==
    ASSUME MintInv, [Next]_vars, NEW m \in NewMints, metadata[m] # None
    PROVE  /\ metadata'[m] # None
           /\ metadata'[m].authority = System => ~metadata'[m].mutable
           /\ ~metadata[m].mutable =>
                 /\ ~metadata'[m].mutable
                 /\ metadata'[m].authority \in {metadata[m].authority, System}
<1>1. MintInv'
  BY MintStep
<1>2. CASE CreateToken
  <2>1. task.mint # m
    <3>1. task # None /\ MakesMint /\ Step = "token"
      BY <1>2, KindOfStep DEF CreateToken, Running, Step, MintInv
    <3>2. QED
      BY <3>1 DEF MakesMint, MintInv, MetadataOK
  <2>2. metadata'[m] = metadata[m]
    BY <1>2, <2>1 DEF CreateToken, MintInv, MetadataOK
  <2>3. QED
    BY <2>2 DEF MintInv, MetadataOK
<1>3. CASE SetUpdateAuthority
  <2> DEFINE isMutable == metadata[task.mint].mutable /\ task.to # System
             data == [authority |-> task.to, mutable |-> isMutable]
  <2>1. /\ Updates /\ Step = "updateAuthority"
        /\ task.mint \in NewMints /\ metadata[task.mint] # None
        /\ metadata' = [metadata EXCEPT ![task.mint] = data]
    BY <1>3, SetUpdateAuthorityEffect
  <2>2. task.to # System => metadata[task.mint].mutable
    BY <2>1 DEF Updates
  <2>3. CASE task.mint = m
    <3>1. metadata'[m] = data
      BY <2>1, <2>3 DEF MintInv, MetadataOK
    <3>2. metadata'[m].authority = task.to
      BY <3>1
    <3>3. metadata'[m].mutable => metadata[m].mutable
      <4>1. isMutable => metadata[m].mutable
        BY <2>3
      <4> HIDE DEF isMutable
      <4>2. metadata'[m].mutable = isMutable
        BY <3>1
      <4>3. QED
        BY <4>1, <4>2, Zenon
    <3>4. metadata'[m] # None
      BY <1>1, <1>3, <2>3, SetUpdateAuthorityEffect
         DEF MintInv, MetadataOK, chainVars, Mints
    <3>5. metadata'[m].authority = System => ~metadata'[m].mutable
      BY <1>1, <3>4 DEF MintInv, MetadataOK
    <3>6. QED
      BY <2>2, <2>3, <3>2, <3>3, <3>4, <3>5
  <2>4. CASE task.mint # m
    BY <2>1, <2>4 DEF MintInv, MetadataOK
  <2>5. QED
    BY <2>3, <2>4
<1>4. CASE ~CreateToken /\ ~SetUpdateAuthority
  <2>1. metadata' = metadata
    BY <1>4 DEF Next, vars, TaskStart, UpdateStart, TaskStep, ExecutorStep,
       StartCreate, StartSetAuthority, Begin, StartSetUpdateAuthority,
       StartUpdateMetadata, BeginUpdate, CreateMultisig, InitOft,
       SetAuthorities, SaveSolanaDeployment, SetMintAuthority,
       SetFreezeAuthority, UpdateMetadata, Unbudgeted, Interrupt, TaskOnly,
       LzReceiveTypes, LzReceive, Arrive, Debug
  <2>2. QED
    BY <2>1 DEF MintInv, MetadataOK
<1>5. QED
  BY <1>2, <1>3, <1>4

\* Immutable metadata stays as it is, except that its authority may be
\* renounced.
THEOREM MintImmutableForGood == Spec => ImmutableForGood
<1>1. MintInv /\ [Next]_vars =>
         [\A m \in NewMints :
            metadata[m] # None =>
              /\ metadata'[m] # None
              /\ metadata'[m].authority = System => ~metadata'[m].mutable
              /\ ~metadata[m].mutable =>
                    /\ ~metadata'[m].mutable
                    /\ metadata'[m].authority \in
                          {metadata[m].authority, System}]_vars
  BY ImmutableStep
<1>2. QED
  BY <1>1, MintInvariant, PTL DEF Spec, ImmutableForGood
=============================================================================
