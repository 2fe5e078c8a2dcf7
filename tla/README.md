# A verification project for the Frontier stable token

TLA+ models of the contracts and programs in this repository, the TLC runs that check them on
small instances, and theorems about them that TLAPS proves for every value of the constants.

## 1. The system

| Part | State it keeps | Operations | What makes it correct |
|---|---|---|---|
| `FrontierERC20F` over Fireblocks' `ERC20F` (FRNT, spoke wFRNT) | balances, supply, allowances, roles, pause, access registry | mint, burn, recover, approve and its variants, transfer, transferFrom, the adapter's three hooks, registry update, salvage | books balance; a frozen wallet's tokens stay; a pause stops everything; governance is never lost |
| Role table and pause (`RoleAccessUpgradeable`, `PauseUpgradeable`) | members of roles, paused | grant, revoke, renounce, pause, unpause | an administrator, and while paused a pauser, always remain |
| `DenyList` over `AccessListUpgradeable` | the denied accounts, roles, pause | add and remove in batches, `hasAccess` | a freeze holds through every pause |
| `FrontierVault` (wFRNT on the hub) | as the token, for shares; the asset it holds | deposit, mint, withdraw, redeem, conversions and limits | rounding never costs the other holders; claims are covered |
| `FrontierOFTAdapterMintAndBurn`, `FrontierOFTAdapter` over LayerZero's OFT | peers; messages under way | `send` (debit), `lzReceive` (credit) | one ledger over all chains; every transfer arrives once |
| Solana OFT program | `OFTStore`, `PeerConfig` with two token buckets, the escrow | send, lz_receive, set_oft_config, set_peer_config, set_pause, withdraw_fee, quotes | escrow covers tvl; flow within the limits; nothing lost; a message waits no longer than the limit says |
| Tasks `set-config` and `send` for that program | the quote a send is based on | one transaction of several instructions; quote, then send | a request is taken whole; the sender pays no more than agreed |
| Tasks that create the Solana token and its OFT store, and change the mint's authorities and metadata; `debug`; LayerZero's executor | the mint's two authorities, multisigs, stores, `OFT.json`; the metadata's update authority and mutability | create, setauthority, set-update-authority, update-metadata, step by step; `lz_receive_types`, then `lz_receive` | an authority is never stranded; the recorded store can mint; what `debug` attests stays so; immutable metadata stays immutable |
| Wiring tasks and configuration; the Fireblocks signer | peers, accounts and library configurations per direction, delegates, owners, `OFT.json`; the keys the settings yield; what Fireblocks holds | init-config, wire, transfer-ownership; approve, lapse | what a run confirmed stays wired; running again completes the wiring; both sides agree on verifiers |
| Scripts that read and print (`config.get`, `getFee`), deployment, `hardhat.config` | none | reads, or one call each | not modelled |

The parts interact by calls within one transaction (adapter to token, token to registry, vault to
token and asset) and by messages between chains (adapter to LayerZero endpoint to adapter).
Administrators of different chains and contracts act independently. The chains execute one
transaction at a time and roll back a failing one, so concurrency is in the *order* of calls by
independent actors and in the time that passes between a send and its receipt. The operator's tasks
are processes outside the chains: they send several transactions and may die between any two.

What is hard here: a wallet frozen while its allowance or its cross-chain transfer is outstanding;
pauses and role changes of several administrators in any order; messages executed late, out of
order and again after a failure; a mesh wired in one direction only; a bucket settled lazily and
used from both sides; integer division near zero; transfer fees that change between a send and a
receipt; tasks that read something and act on it later, or stop half way; the wrong key in the
operator's settings; and a signer that reports success before anything happened. `PROJECT.json`
lists each under "hazards" at its line, with the properties aimed at it.

## 2. Modules

    PausableRoles ──EXTENDS── FrontierToken ──EXTENDS── TokenAllowances
         │                        │      └────EXTENDS── FrontierVault
         └──EXTENDS── DenyList    │
                         └── TokenWithDenyList (INSTANCE of both; implements FrontierToken)
    OFTMesh ── implements ── OmnichainLedger
    RateLimiter ──EXTENDS── SolanaOFT
    SolanaMint        Wiring

    proofs:  Arithmetic ──EXTENDS──┬── FrontierTokenProofs ──EXTENDS── VaultAndAllowancesProofs
                                   │             └──── INSTANCE ────── TokenWithDenyListProofs
                                   ├── SolanaOFTProofs
                                   └── OFTMeshProofs
             SolanaMintProofs        WiringProofs

An action is one external call, or one Solana instruction, that succeeds: its guard is every check
the call makes, in the contracts and in what they inherit; a call that reverts changes nothing and
is a stuttering step. `x'` holds what the call writes. A `Mutant:` operator beside a definition is
a version of it with a plausible bug, used to confirm that a property can fail; no specification
uses one.

- **PausableRoles**: `members` is AccessControl's table, `paused` is Pausable's flag. The role hook
  `_authorizeRoleAccess` (overridden with `whenNotPaused` in `ERC20F` and `AccessListUpgradeable`)
  is the `~paused` guard of the three role actions. Contracts that inherit this code EXTEND the module.
- **FrontierToken**: balances, supply, allowances, the subscribed registry. OpenZeppelin's
  `_transfer`, `_mint`, `_burn`, `_approve` and `_spendAllowance` are `Move`, `Create`, `Destroy`,
  `SetAllowance` and `SpendAllowance`. A registry is whatever denies some accounts (`denied`), and
  may change its mind between any two calls. `FrontierERC20F.initialize` does not check the minter,
  so `Init` lets it be address(0).
- **TokenAllowances**: the token with two history variables, what each owner granted and what each
  spender pulled.
- **DenyList**, **TokenWithDenyList**: the list, and the deployment in which the token's only
  registry is that list; two role tables, two pauses.
- **OmnichainLedger**: the abstract bridge: holdings per chain, transfers under way, nothing else.
- **OFTMesh**: per chain the part of a token the bridge depends on, the adapter of either kind, the
  LayerZero channel as a sequence of messages of which any not yet executed may be executed next,
  and administrators who pause, freeze, revoke ADAPTER_ROLE and clear peers on their own chain.
- **FrontierVault**: extends FrontierToken as the contract extends FrontierERC20F, so a minter's
  mint, the adapter's hooks, recovery and pause interleave with deposits and redemptions. The asset
  is another FrontierERC20F of which the vault sees balances, pause and denials.
- **RateLimiter**, **SolanaOFT**: the bucket as functions of its record and the time; the program
  with one peer, in both of its types. `SetOFTConfig` is the transaction of the set-config task: the
  instructions that were asked for, in the task's order, each checked against the administrator of
  that moment, all or none. `QuoteOrder`, `SendOrder` and `DropOrder` are the send task: `order` is
  what it has quoted, and anything may happen before the transaction. `window` is a history
  variable: an observer of one bucket since some moment. A new capacity closes it (the bucket comes
  full), a new rate only credits what the old one had earned.
- **SolanaMint**: `task` is the process of a task, with the transactions it has left; each is an
  action on the mint's authorities, the multisigs, the store or the metadata. `Interrupt` may end it
  before any of them, `Unbudgeted` where no compute budget is found, and an account that does not
  become visible ends it too. The executor keeps the authority that `lz_receive_types` told it in
  `message` until it calls `lz_receive`. `Debug` is the check of the debug task that passes judgement;
  `attested` remembers the stores for which it came out well.
- **Wiring**: `run` is the process of `lz:oft:solana:init-config`, `lz:oapp:wire` or
  `lz:ownable:transfer-ownership`, all one task in `wire.ts`; any of them may be started at any time. `Missing` is
  what it finds to send: accounts on Solana, a peer and a message-library configuration for each direction, and
  per contract its delegate or its owner, each a transaction of its own, the delegate last. The owner's key signs for the
  contracts until their owner is the multisig, and for the endpoint until their delegate is. A transaction signed by
  `OmniSignerFireblocks` goes to `custody`, from which it may take effect at any later time, in any order, or never;
  the run goes on at once, and ends well. `reported` keeps how runs of wire ended well for the recorded store:
  "confirmed" by a local key pair, or because nothing was missing, "submitted" by Fireblocks. `Deploy` is
  another run of `lz:oft:solana:create`, whatever else is going on.
  `Environments` are the settings a task may be started with: `SolanaKeypair` and `Signer` choose key and
  signer as `getSolanaKeypair` and `wire.ts` do, silently falling back to a local key where one of
  Fireblocks' settings is missing; Solana refuses the transactions of a key that is not the owner's. `InReadmeOrder`
  restricts nothing but the run that asks about the README: OFTMesh has what messages make of the peers.

## 3. Runs

| Run | Question | Properties |
|---|---|---|
| `token` | every order of calls by a wallet, an adapter and an operator with an allowance, over an arbitrary registry | `TypeOK`, `SupplyIsSumOfBalances`, `PulledWithinApprovals`, `FrozenKeepsTokens`, `FrozenReceivesOnlyByBridge`, `PauseStopsEverything` |
| `token_with_deny_list` | the token over the real list, with two administrators and pausers | `AdminRemains`, `PauseIsRecoverable`, `ImplementsToken`, `FreezeOutlivesListPause` |
| `mesh_mint_burn` | three mint-and-burn chains, one outage | `TypeOK`, `ConservedAcrossChains`, `ImplementsLedger` |
| `mesh_hub` | hub and spoke, two outages, with fairness | `HubCoversSpokes`, `ImplementsLedger`, `EveryTransferArrives` |
| `mesh_seizure` | the hub's adapter itself may be frozen and emptied; amounts beyond a message's width | `CoverFallsOnlyByRecovery` |
| `vault` | deposits, withdrawals, yield, unbacked mints and salvage in every order | `VaultTypeOK`, `ClaimsAreCovered`, `MaxWithdrawIsAffordable`, `SharePriceNeverFalls` |
| `solana_native` | both buckets set, resized, given another rate and removed while traffic and time go on | `TypeOK`, `RateLimitHolds`, `NothingLost`, `ReceivableUnlessTooLarge` |
| `solana_adapter` | dust, OFT fee, donations, and a transfer fee that changes, under the set-config and send tasks | `EscrowCoversTvl`, `QuoteIsFair`, `ConfigAcceptedWhole`, `SlippageBounded` |
| `solana_mint` | creation and handover of the mint's authorities and its metadata's, interrupted anywhere, while messages are delivered | `MintTypeOK`, `HandedToLiveStore`, `RecordedCanReceive`, `AttestedStays`, `ImmutableForGood`, `MessageIsMinted` |
| `wiring` | runs of three tasks in any order by two signers with right, wrong and contradictory keys, interrupted, refused, overtaken by another store | `WiringTypeOK`, `ConfirmedStaysWired`, `OneVerifierMayFail`, `EventuallyWired` |
| `readme_roles` | does the README's step 5 let the adapter work? (violated) | `ReadmeRolesSuffice` |
| `readme_handover` | is the mesh wired when the README's order of tasks hands over ownership? (violated) | `WiredBeforeHandover` |

Every property's comment in its module says in words what it claims of the code. The two largest runs
are `solana_native` (1.7 million states) and `wiring` (1.3 million).

**Bounds, and why they are enough.** `MaxUint` is the width of a uint256: at 1 to 4 the checked
additions overflow, the unlimited allowance is met and balances run out within a few calls, which
at 2^256 no run would see. `Assignments`, `Approvals`, `Listable`, `Batches`, `Depositors`,
`LimitChoices`, `FeeChoices`, `ConfigRequests`, `Orders`, `TransferFees`, `MinterSets`, `Heirs` and
`Environments` say over which arguments calls range:
each MC module keeps at least one account on either side of every check (frozen and not, holding
the role and not, owner and spender). In `token` the operator alone administers, and may pull from the wallet:
`MaxRaised` of two lets an allowance be raised twice, or be without limit. One pair of owner and spender is enough,
since no call reads or writes another pair's allowance; the theorem has every pair. In
`token_with_deny_list` two accounts can be administrators and pausers of the list, the fewest for mutual revocation;
the token's role table is the same code. `MaxPackets` of two messages is the fewest for reordering, and two chains that
send to a third are in the run without fairness. `MaxOutages` bounds pauses, revocations and cleared
peers; nothing bounds their ends. `MaxShared` is the uint64 of a message: the run `mesh_seizure` sets
it below the amounts that are sent. Basis points are quarters, so that fees
round in every way. `MaxTime` is two seconds: enough for a bucket to be settled late, and twice in
the same second. `Endowment` and `MaxUint = 4` give prices above and below one in the vault, and
every remainder of a division by up to five. `LimitChoices` raise and lower a capacity, and change a
rate alone. `ConfigRequests` have one field, or hand everything over at once and back, a fee that the
program refuses among them. `MaxTasks` is three: one task that fails and its
repetition, or a creation and two changes of authority. `Environments` name the owner's key twice,
contradict themselves, fall back on another key, or have Fireblocks. In `wiring` there are Solana and Hedera (the
chain without Google Cloud's verifier), in `readme_handover` another chain besides; `VerifierMayFail` and
`ConfirmedIsWired` are proved for any number. `MaxStores` is two in `wiring`, so that the mesh can
be wired to a store that is then replaced; `MaxCustody` is two there, the fewest for transactions approved in another
order than sent, and eight in `readme_handover`, more than one run sends to Solana; `MaxTrouble` is one run
interrupted, one run started with another key or one transaction lapsed, anywhere, while refusals are unbounded;
`readme_handover` needs no trouble.

**Fairness.** `mesh_hub`: each message is executed eventually if its execution stays
possible: the LayerZero executor delivers every verified message and anybody can retry a failed one.
Administrators undo their interruptions: a pause, a revoked ADAPTER_ROLE or a missing peer does not
last for ever. Interruptions are finitely many (`MaxOutages`). Nothing is assumed of holders,
issuers or compliance officers: a wallet may stay frozen for ever, and its transfer still arrives.
`solana_mint`: the executor goes on asking for a message's accounts and delivering it; of the
operator nothing is assumed. `wiring`: a run comes to its end, Fireblocks' custodians decide on
each transaction, and the operator goes on running init-config and wire, at times with settings that
yield the owner's key; in between he may run them with any other.

**Deadlock** is checked in every run but `solana_mint`: there the operator may give up before any
store exists, and nothing remains to happen.

**The operator** of `Wiring` is free: he may start any task, with any settings, whenever no other runs, and create
another store in the middle of it. Only `readme_handover` has him follow the README's order.
`EventuallyWired` therefore has a second way out, `OutOfTheOwnersHands`: the owner went to the multisig before the
contract was wired, or the delegate, which wire itself sets, was approved where a configuration before it lapsed. From
there the multisig has to complete the wiring, and neither this repository's tasks nor the model has its key.

### Where the repository disagrees with itself

- `readme_roles`: the README's deployment step 5 grants the adapter the minter and burner roles;
  the hooks the adapter calls need ADAPTER_ROLE. Following the README leaves receipts reverting.
- `readme_handover`: `README.md:126-130` runs init-config, then wire, then transfer-ownership, and the subtask that sends wire's
  transactions is "responsible for sending transactions to the network and waiting for confirmations"
  (`wire.ts:283-284`). With Fireblocks it does not wait: the receipt of `OmniSignerFireblocks.signAndSend` (line 116)
  has status 1 at once. So wire ends well with its transactions in custody, nothing guards
  transfer-ownership (`wire.ts:305-334`), and the owners of the EVM contracts leave, or a custodian approves the
  store's, while the mesh is not wired.
- Without a run: a comment on the vault's `mint` (`FrontierVault.sol:206`) says that at a share price
  of zero shares cost nothing. `previewMint` rounds up over a virtual asset: any number of shares
  costs at least one unit.

## 4. Theorems

Proved for every value of the constants that satisfies the modules' assumptions; the constants that
bound TLC's arguments may be the full sets, so that nothing is bounded.

- **FrontierTokenProofs**, the role layer: `RolesSafe`: administrator and pauser remain. The invariant is the
  type invariant with both claims; `AdminRemains` is inductive because the caller of a revocation is
  an administrator other than the one revoked, `PauseIsRecoverable` because the table is frozen
  while paused.
- **FrontierTokenProofs**, the token: `TokenTypeOK`, `TokenAdminRemains`, `TokenPauseIsRecoverable` by lifting
  the role steps into the token; `TokenPauseStopsEverything`, `TokenFrozenKeepsTokens` and
  `TokenFrozenReceivesOnlyByBridge` as step properties over the type invariant, with one step
  for each action and lemmas on what `Move`, `Create` and `Destroy` do to one balance.
  `TokenBooksBalance` adds what each of them does to the sum of all balances (`MoveSum`, `CreateSum`,
  `DestroySum`).
- **VaultAndAllowancesProofs**, the allowances: `TokenPulledWithinApprovals`: for each pair, pulled plus allowance never
  exceeds raised; each approval raises the right side by at least as much as the left, each pull moves
  from allowance to pulled.
- **TokenWithDenyListProofs**: the deployment implements the token (`DeploymentImplementsToken`). An initial
  state maps to one of the token's, with the DenyList in the place of the open registry; a call of the
  token is the same call there; a change of the list is a `RegistryStep`, which needs that address(0) is
  never on the list (`ListInv`, `ListStep`); and the list's roles and pause stutter (`StepImplements`). So the
  theorems of FrontierTokenProofs, instantiated at this registry as `Proved`, hold of the deployment:
  `DeploymentFrozenKeepsTokens`, `DeploymentBooksBalance` and the token's half of `DeploymentAdminRemains` and
  `DeploymentPauseIsRecoverable` are carried over, after showing that the instance's assumptions follow from the deployment's
  (`ProvedAssumption`). The list's half of the last two is in `ListInv`; `DeploymentFreezeOutlives` is a step property: the
  list changes in no step that starts while it is paused, and `HasAccess` reads nothing but the list and which
  registry is subscribed.
- **VaultAndAllowancesProofs**, the vault: the invariant `VInv` is that of the shares' token, `VaultTypeOK`, and that the
  supply is the sum of the balances, without which no call would be known to leave a balance
  below the supply. `VaultSharePrice`: each of the four calls rounds so that *what comes in, at the
  price before, is worth at least what goes out* (`DownBound`, `UpBound`, `VaultStepEffect`), and such a
  step cannot lower the price (`PriceKept`, `FairStep`). `VaultClaimsCovered`: each claim, times the
  supply plus one, is at most the assets plus one times the balance; summed over the balances
  (`SumProportion`) that bounds the sum of the claims. `VaultMaxWithdraw`: previewWithdraw is the
  *least* number of shares that pays for the amount, and the owner's balance does.
  `VaultFrozenKeepsTokens`, `VaultFrozenReceivesOnlyByBridge`, `VaultPauseStopsEverything`: the token's promises
  hold in the vault. Its inherited calls keep them by the lemmas of the token (`FrozenKeptByCall`,
  `FrozenCreditedByCall`, `PausedStays`); the calls it adds touch no frozen account and do not go
  through a pause (`VaultStepRespects`). `VaultPauseHoldsAssets` adds the asset's side: a payment out of
  the vault would have to be its own, and a recovery needs the vault denied. No run asks these four of
  the vault; three of them the run `token` asks of the token.
- **Arithmetic**, and the first part of **SolanaOFTProofs**: what rounding down and up does to a sum or a
  product, the laws of sums over finite sets (`SumStep`, `SumUpdate`, `SumRemove`, `SumProportion`), and
  what each operation on a bucket does to its tokens (`ConsumeSettled`, `RefillSettled`: an operation changes what
  is available now by at most the amount; `SettledTick`: a second adds at most the rate;
  `AffordsAfterWait`: after so many seconds the amount is there). The laws that need induction over the
  set are proved from a smallest counterexample: strict inclusion is well founded on the subsets of a
  finite set (`Smallest`).
- **SolanaOFTProofs**, for both types, every rate of conversion, width, fee and amount:
  `SolanaTypeCorrect`, `SolanaRateLimit`, `SolanaEscrow`, `SolanaQuote`, `SolanaReceivable`,
  `SolanaConfigWhole`, `SolanaSlippage`, `SolanaNothingLost`, `SolanaEscrowCovers`. The invariant `IInv` strengthens `RateLimitHolds`, which says
  nothing of the tokens in the bucket, to `WindowOK`: net flow *plus the tokens available now* is at
  most the capacity plus what was earned; a send moves tokens to the flow, a receipt the other way, a
  second earns at the rate, and saturation only loses. It needs `BucketsOK` (no bucket above its
  capacity, none settled in the future). `SolanaEscrow` rests on the rounding lemmas:
  `FeeOnTransferBound` and `PreFeeAmountSuffices` show that what arrives of the inverted fee's
  amount is at least what was bridged (`QuoteCovers`), whichever branch of the fee applies, and
  `PreFeeAmountLeast` that the sender is not debited more than he asked. `Books` relates the two sides of
  the bridge: a step that changes what is abroad or under way by some amount changes what is held here, or
  tvl, by the same amount in local units (`BooksMove`); each send, receipt and remote send is such a step,
  and every other step leaves both alone (`BooksStay`).
- **SolanaMintProofs**, for any number of mints, stores, minters and tasks, each of which may die before any
  of its transactions and be run again: `MintTypeCorrect`, `MintHandedToLiveStore`,
  `MintRecordedCanReceive`, `MintAttestedStays`, `MintImmutableForGood`. None of them is inductive, since what
  a task does next depends on what it found when it began. `MintInv` therefore says of the running task, for each
  transaction it has still to send (`NewPlans`, `GivenPlans`, `HandPlans`, `UpdatePlans`), what has to have
  happened by then (`TaskOK`): a task that makes a mint hands over an authority only after its store
  exists, for the operator holds it until then (`MakesMint`); one that hands authorities on works on
  what OFT.json records, and on a multisig that has this store among its signers (`HandsOver`); one that gives
  metadata away found it mutable, or it still is (`Updates`). Besides, multisigs are numbered in the order in
  which tasks make them, never more of them than tasks (`MultisigsOK`), and a store that is attested, recorded
  or sent to exists (`StoresOK`, `FileOK`, `AttestedOK`, `MessageOK`). `MintInv` was checked with
  TLC on the instance of `solana_mint` before it was proved.
- **OFTMeshProofs**, for any number of chains, wallets, messages and outages. First, lemmas on what each
  action does to every balance, to each chain's supply and to `Outstanding`, the sum over the spokes and
  the messages (`SendEffect`, `ReceiveEffect`, `IssueEffect`, `PaymentEffect`). `MeshTypeCorrect` and
  `MeshConserves` share an invariant, `Backed`: without a hub, what is outstanding is at most what was
  issued, and exactly that if a message carries every amount; with one, everything issued is on it. It is
  needed even for the types: no issuer burns more than was issued only because no wallet holds more.
  `MeshCoverFalls` and `MeshHubCovers` (`CoverKept`): each step changes what the hub locks by at
  least as much as what is outstanding, unless it takes from the adapter. `MeshImplementsLedger`: the
  holdings of the ledger are the balances, the adapter's less what is outstanding; a send is a
  departure (`SendDeparts`), a receipt an arrival (`ReceiveArrives`), an issuer's call an issue or a
  retirement (`IssuingMaps`), a payment or recovery a payment (`PayingMaps`), and all else stutters.
  `MeshHubCovers` and `MeshImplementsLedger` assume `Sealed`, that the hub's registry never denies the
  adapter: `mesh_seizure` is the run without it. `MeshConserves` and `MeshImplementsLedger` assume
  `MaxIssued <= MaxShared`: with more than 2^64 - 1 in circulation, a send of it would lose the upper bits.
- **WiringProofs**: `WiringTypeCorrect`, `ConfirmedIsWired`, `VerifierMayFail`, for any number of
  chains, stores, keys and troubles, the operator being free. `ConfirmedStaysWired` is not inductive. The invariant
  adds that of a locally signed run of wire for the recorded store all that is missing is still in `left`
  (`LeftIsMissing`); that a run for a store that was replaced in the meantime, which may point the EVM chains back to it, finds
  nothing reported for the new one (`RunOK`); and that Fireblocks holds no transaction for an EVM chain, so that whatever
  it lets take effect, for whichever store, sets peers that every store needs alike (`CustodyOK`). An executed
  transaction then does its step and undoes no other (`ExecuteEffect`). The theorem says nothing of runs that
  Fireblocks signed: those report what need not be so, as `readme_handover` shows.

The assumptions: addresses, chains and wallets are finitely many; at most one chain locks, and if one does,
supply is issued there only; callers are never address(0) nor the token itself; the roles the code names
exist; `Registries` are contracts, so never address(0); Solana's arguments are of their widths, and an
Adapter OFT has nothing on the peer chain at first; `None` is no account, store or bucket; of the mint's authorities, that the number of a multisig is
no wallet, store or `None`, as no two accounts have one address. Each is
evaluated by TLC in a run.

Every safety invariant and action property that a run checks is stated by one of these theorems, but for the
two that the repository contradicts itself in. Model-checked only: the liveness properties (`EveryTransferArrives`,
`MessageIsMinted`, `EventuallyWired`), since liveness under fairness and ENABLED are out of the prover's
reach, as is what a recursive definition would compute for every input.

## 5. Not modelled

- In the contracts: UUPS upgrades (they replace the code), multicall (a sequence of modelled calls),
  contract URIs, gas and foreign-token salvage, events; EIP-712 signatures and nonces.
- Of LayerZero: DVNs at work, executors' fees, enforced options, compose messages.
- In the Solana program: the codecs and `quote_oft`, which keep no state.
- In the tasks: `debug` beyond its check of the mint's authority, which prints what it reads; the size
  of compute budgets; the fields of the metadata; parameters that contradict `OFT.json`; in
  the wiring, the Squads signer, the sender of a send library, the executor's settings and the formats of key files.
- `config.get` and `taskHelper` print the chains' settings beside the configuration, `getFee` averages
  fees, `hardhat.config` names networks, the deploy script is one deployment, and `evm/send` is one
  call of the adapter's `send`, which OFTMesh has. None keeps state or acts on what it has read
  earlier, so that there is nothing for a state machine to say.

Of external code (OpenZeppelin, LayerZero, Token-2022, Metaplex) the models hold what this repository
relies on.

## 6. Plan

1. Done: the token, the roles, the list, the vault, the mesh and its ledger, the Solana program with
   the tasks that configure it and send, the authorities of its mint and metadata, the wiring with its
   keys; proofs of the token's safety and books, the vault's price and claims and that it keeps the token's promises, the Solana program's limits,
   escrow, quotes and books, the wiring, and the mesh, its conservation and its refinement.
2. Solana: the program as one chain of the mesh, so that `EveryTransferArrives` covers a rate limit.
3. Proofs done since: the deployment of token and list, and that it implements the token; the authorities
   of the mint and its metadata. To come: an abstract specification of the vault, a share of a pool, and
   that the vault implements it.
