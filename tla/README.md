# Sovereign Citadel Protocol in TLA+

Models, model checking and proofs of the state-changing core of the Sovereign
Citadel Protocol (the Rust workspace under `src/`): discreet log contracts and
their store, the liquidity pool, the agent that steers it, the token economics
and its files, the liquidity bootstrapping offering, the signing policy, the
keystores, the wallet session, payout curves and oracle quorums. Module, line and
property are tied together in `PROJECT.json`; this file explains the whole.

## 1. The system

| Component | State it keeps | Operations |
|---|---|---|
| `DlcStorage` (scp-dlc/storage.rs) | two sled trees: contract → state, index "state name : contract" | save, delete, get, list_by_state |
| `DlcStateMachine` (scp-dlc/state_machine.rs) | none of its own; an `Arc<DlcStorage>` | create_offer, accept_offer, sign_contract, confirm_funding, settle, refund, fail, list_active |
| `LiquidityPool` (scp-vault/pool.rs) | liquidity, shares, shares per owner, utilized, spread, breaker, each in its own `RwLock` | deposit, withdraw, lock, release, breaker, spread |
| `LiquidityVault`, `SignalHandler` (scp-vault) | the pool, a receiver of signals, a sender of events | process_deposit, open_position, the handler loop and the timers it spawns |
| `CitadelAgent` (scp-agent) | the current sentiment, three channel ends | sentiment worker, select loop, emit_signal |
| `CtdlToken`, `StakingPool`, `FeeDistributor` (scp-economics) | supply and balances; positions and reward accumulator; pending and total fees | mint, transfer, stake, unstake, claim, collect_fee, distribute |
| `LiquidityBootstrapping` (scp-economics/lbo.rs) | proofs per contributor, total raised, tokens distributed, each in its own `RwLock` | submit_proof, claim |
| `Signer`, `SigningPolicy` (scp-signer) | recent signatures, amounts per hour | validate, sign, record_sign |
| `JsonKeystore` (scp-signer/json_keystore.rs) | a map of keys, one encrypted file with all of it | new, generate, import, sign, delete, save |
| `FileKeystore` (scp-signer/keystore.rs) | one file per key, a cache of descriptions | new, generate, import, sign, delete |
| `MemoryKeystore` (scp-signer/keystore.rs) | two maps | generate, import, sign, delete |
| `PayoutCurve`, `MultiOracleQuorum` (scp-dlc) | a curve; a list of attestations | payouts, validate; add_attestation, has_quorum |
| Command line (cli) | JSON files of the economics, sled directory | load, one command, save |
| Desktop application (scp-ui) | the same files, the open keystore, the time of the last action | unlock, auto-lock, polling, stake, claim, save_all |
| Chain access, risk, RSS, core types | little or none | I/O, pure functions, value types |

How they meet: the state machine calls the storage; the vault owns the pool and
hands an `Arc` of it to the signal handler and to the handler's timers; the
agent and the vault talk only through bounded tokio channels (signals one way,
events the other); the staking pool calls the token, the fee distributor calls
the staking pool; the offering mints through the token; the signer calls policy
and keystore; front ends load the JSON files, run one operation and save them.
The desktop opens a `JsonKeystore` on unlock and drops it on time-out; `scp run`
signs with a `MemoryKeystore`.

What is hard: every component is shared through `Arc` and most operations take
several short critical sections one after the other, so that a value checked in
one is used in another (storage, pool, staking, LBO, policy). Saving a contract
is three writes and a flush without a transaction, and a crash may fall between
any two. The agent, the handler, the timers and the depositors wait for each
other through full channels. Timers outlive what started them.

What makes each part correct:

* storage and state machine: the durable record of a contract follows the
  lifecycle, acknowledged writes survive, the index never promises more than
  the states hold;
* pool: shares and liquidity are conserved, no request takes value from the
  other providers, locked liquidity is there;
* agent and vault: no task waits for ever, pauses end when they should, the
  spread is the one the agent asked for;
* economics: tokens and stakes agree in both places they are kept, and stakers
  are owed no more than was distributed;
* signing: how far the limits per minute and per hour can be exceeded;
* offering: a proof is paid once, and the allocation and the limit of a
  contributor hold, except in the windows the code leaves open;
* keystores: a key that was created stays until its deletion is begun, in memory
  and on disk, through errors and restarts; the listing agrees with what can sign;
* wallet session: an idle wallet is closed in time, one in use is not;
* files: the next process finds what the last command reported as done, and a
  crash between two saves gives nobody more than there is;
* payouts: a valid curve that names no more than the collateral pays all of it, on
  its line or by its points;
* quorums: one oracle alone should not be a quorum of two, which the code does not
  ensure.

## 2. Modules

| Module | Models | Notes |
|---|---|---|
| `DlcStorage` | storage.rs | one action per sled write of save and delete; durable log; I/O error; crash |
| `DlcStateMachine` | state_machine.rs, contract.rs | EXTENDS DlcStorage: the handlers enter `save` with a record built from a snapshot; list_active |
| `DlcLifecycle` | what users are promised | abstract specification; `DlcStateMachine!Lifecycle` maps the *disk* to it |
| `LiquidityPool` | pool.rs | one action per critical section, u64 arithmetic that wraps at `Word` |
| `AgentVault` | sentinel.rs, spread.rs, signals.rs, signal_handler.rs, vault.rs, channels.rs | composition of five kinds of task over three bounded channels; fairness |
| `Economics` | token.rs, staking.rs, fees.rs | composition of the three through one request record per task; u64 sums that wrap at `Word64` |
| `Signing` | signer.rs, policy.rs | a clock; validate, sign and record as separate steps |
| `Lbo` | lbo.rs | one action per critical section of submit_proof and claim; mint as one step; u64 sums that wrap at `LboWord` |
| `JsonKeystore` | json_keystore.rs | the map, the file with its truncation and its write apart, the shared guard of save |
| `FileKeystore` | keystore.rs, `FileKeystore` | file and cache; several passwords |
| `MemoryKeystore` | keystore.rs, `MemoryKeystore` | two maps; names from the number of keys |
| `WalletSession` | scp-ui: lib.rs, App.tsx, UnlockScreen.tsx | commands, the auto-lock task, the window and its polling, in ticks |
| `EconomicsFiles` | main.rs, lib.rs, load_or_new and save of token.rs, staking.rs, fees.rs | processes that load three files, run a command and save; crashes |
| `PayoutCurve` | payout.rs | payouts as operators, compared with a reference; every curve is drawn, valid or not |
| `OracleQuorum` | oracle.rs | what oracles publish and what a client adds to a quorum |
| `DlcStateMachine_proofs`, `LiquidityPool_proofs`, `AgentVault_proofs`, `Economics_proofs`, `Signing_proofs` | | theorems about the module of that name |
| `Keystores_proofs` | | theorems about the three keystores |
| `Services_proofs` | | theorems about the other modules of `MCServices`, and about all of it |
| `Arithmetic` | | lemmas: induction, sums over finite sets, products, quotients |
| `MCDlc`, `MCPool`, `MCAgentVault`, `MCEconomics`, `MCSigning`, `MCServices` | | instances for TLC: who serves whom, symmetry |

Conventions. A task that runs an operation has a record `call[t]` with a program
counter `pc` and the values it read; an operation starts with an action named
after the function (its checks before the first lock included) and goes on with
one action per critical section, under its name in the map. A request that is
refused before it changed anything is not a step. Definitions marked *Variant*
are plausible mistakes in the definition that follows them; they are part of no
specification and exist so that every property can be shown to fail on one.
Variables and fields marked *history* are not in the code.

Integers. Amounts are `u64`, and `Satoshi` adds with the unchecked `+`
(scp-core/src/types.rs:60-65). No profile of the workspace turns overflow checks on,
so in a release build such a sum wraps, also where it is compared with a cap before
it is made (token.rs:84, lbo.rs:102, lbo.rs:174, payout.rs:128); a debug build panics
there instead. `LiquidityPool`, `Economics`, `Lbo` and `PayoutCurve` compute as the
release build does, with a small word in place of 2^64. `EconomicsFiles` is about
files and crashes: its amounts are those whose sums fit.

State correspondence:

* `states`, `index`: the trees `dlc_states` and `dlc_state_index`. A `DlcState`
  is kept as its variant, the accepter it embeds, the party whose signature
  `ContractSign::verify` accepted, and whether `funding_txid` is set. `wal`,
  `diskStates`, `diskIndex` are sled's log and what recovery finds. `ver` counts
  the writes of a contract, `acked` the last one reported as saved.
* `totalLiquidity`, `totalShares`, `utilized`, `circuitBreaker`, `shares`: the
  fields of `LiquidityPool`; `holders` is the key set of the map `shares`.
* `sentimentQ`, `signalQ`, `eventQ`: the channels; `agent`, `handler`,
  `depositor[d]`: where the tasks are; `timers`: the sleeping tasks of
  `signal_handler.rs`; `lastAlarm`, `alarms`: history.
* `supply`, `available`, `staked`: `CtdlToken`; `stakers`, `position`, `acc`,
  `rewarded`: `StakingPool`; `pendingFees`, `collected`, `distributed`:
  `FeeDistributor`; `paid`: history of what claim() returned.
* `recent`, `hourly`: `recent_signs` and the youngest entry of
  `hourly_amounts`; `made`: history of the signatures.
* `contributions`, `totalRaised`, `tokensDistributed`: the three locked fields of
  `LiquidityBootstrapping`; `lboSupply`, `lboBalance`: the token; `phase`: the
  clock against `start_time` and `end_time`. A proof keeps its amount and its
  `claimed` flag, which is the caller's when it is submitted; contract_id and
  timestamp are read by nobody.
* `jsonKeys`, `jsonFile`: the map and the file, whose text is absent, empty
  (truncated), torn or whole. `files`, `cache`: per key the password a file is
  written under, and the cache; the keystore accepts any password and skips the
  files it cannot read. `memKeys`, `memSecrets`: the maps of `MemoryKeystore`.
* `keystore`, `idle`: `AppState.keystore` and the age of `last_action`; `checker`:
  whether the auto-lock task is between reading the time and taking the keystore;
  `view`: what the window shows. The window is not told of an auto-lock: it goes
  on showing the main view, and nothing in it calls `lock_wallet`.
* `disk`: `token.json`, `staking.json`, `fees.json`; `process[p]`: the copies in
  memory of one front end, the command it runs and the files it has yet to save.
  At `ExitRequested` the desktop asks for a `State<AppState>` while an
  `Arc<AppState>` is managed (lib.rs:249, 269), which panics: closing it saves
  nothing (`Leave`).
* `curve`, `payments`; `published`, `quorum`, `attestations`: the contract's curve
  and what it paid; the oracles' attestations of one event and `MultiOracleQuorum`.

### External behaviour

sled: a write is visible at once, all trees share one log, the log becomes
durable from its front, flush() waits until it is, a crash keeps the durable
prefix. tokio: channels are FIFO and bounded, a send on a full one waits, waiting
senders are served in turn, `select!` picks at random among ready branches.
The clock only advances. std::fs::write and File::create truncate first and write
later; two writers of one file may interleave, and the end of the longer text may
stay. A window that is not shown may have its timers stopped. These are read off
the way the code uses the libraries. Identifiers made from the clock in nanoseconds
(generate_id) are taken to be distinct; two keys created in the same nanosecond
would share one, which no model here shows.

## 3. Runs

| Run | Checks | Shows |
|---|---|---|
| `dlc_crash` | `IndexExact`, `IndexNeverAhead`, `RefinesLifecycle` | one caller per contract, up to 3 crashes or I/O errors: the disk refines `DlcLifecycle`; the index is exact without faults and never ahead with them |
| `dlc_concurrent` | `TypeOK`, `Provenance`, `AckedDurable` | two callers, two counterparties, one contract, deletions, one fault: records are never mixed, acknowledged writes never lost |
| `dlc_race` | `SettledNeverRefunded` (violated) | settle and refund validate against one snapshot, and the disk goes from settled to refunded |
| `dlc_listing` | `ListActiveComplete` (violated) | list_active() misses a contract whose index entry is on the move |
| `pool` | `TypeOK`, `SharesConserved`, `Backed`, `Solvent`, `NoDilution` | conservation under all interleavings of two providers; rounding and locks when requests do not overlap |
| `pool_shared` | `SharesConserved` (violated) | two clients of one provider burn the same shares |
| `vault` | `TypeOK`, `BreakerHasTimer`, `SpreadFollowsAgent`, `NeverBlocked`, `PauseEnds` | no task waits for ever, timed pauses end, signals arrive in order |
| `vault_timers` | `UntimedUntilResumed` (violated) | an old timer ends a pause that has no duration |
| `economics` | `TypeOK`, `TokensConserved`, `StakeBacked`, `UnlockNeverRefused`, `DebtCovered`, `CoveredUnlessRaced` | tokens, stakes and rewards under all interleavings of two holders |
| `economics_race` | `RewardsCovered` (violated) | the one race that pays more than was distributed |
| `signing` | `TypeOK`, `RateBound`, `AmountBound` | how far the limits can be exceeded |
| `services` | `ServicesTypeOK` and the properties of the modules below | each of eight services on its own, through races, crashes, errors and time |

`services` instantiates eight modules that share no state. Its initial state picks
one (`running`); the others keep their initial state, so that its states are the
sum, not the product, of theirs. What it checks:

| Property | Says |
|---|---|
| `ProofsMintedOnce` | no proof is minted for twice, unless two claims of its contributor overlapped |
| `AllocationKept` | claims mint within the allocation, unless one passed the check while another was not yet counted, or on a sum that wrapped |
| `ContributionCapped` | a contributor stays within the maximum, unless two of its submissions overlapped or one was admitted on a sum that wrapped |
| `JsonKeysKept` | acknowledged keys sign and are in every readable file; deleted ones in neither |
| `JsonReadable` | the file is readable when nobody writes it, unless saves overlapped or one was cut short |
| `ListedCanSign` | what the file keystore lists has a file that decrypts, except during a deletion |
| `FileKeysKept` | acknowledged keys keep their file, under their password, until their deletion is begun |
| `MemNamesKept` | each key is found under its name, as long as nothing was deleted |
| `IdleCloses` | an idle wallet is closed within the timeout and one period of the checker |
| `ShownStaysOpen` | the checker closes no wallet under a window that has polled since |
| `DoneIsOnDisk` | the next process finds what the last command left, unless two processes were alive at once or one was cut short |
| `CrashesNeverOverpay` | a crash between two saves credits no reward that was not taken from the fees, counts no stake that is not locked and pays no reward twice, the last two unless the crash was in unstake or in claim |
| `PaysAsDrawn` | a valid curve that names no amount above the collateral pays all of it, a binary one the other amount to the accepter; whatever it names, a linear one follows the line to its own total, a discrete one its nearest point |

The exceptions are not there to make the properties hold: each is a window of the
code, recorded by a history variable when, and only when, it is open, and without
it the property fails. `countsMet`, for instance, becomes true when a claim passes
the allocation check (lbo.rs:174) while another is between the check and the
count (lbo.rs:198), and `claimsWrapped` when the sum it is checked on does not fit
the word.

The five violated properties are documented expectations that the code does not
meet; each is a finding in `PROJECT.json` with the sentence it quotes. They come
in pairs with properties that hold: `RefinesLifecycle` and `Provenance` say what
is left of the lifecycle with and without a race, `SharesConserved` holds as
long as a provider sends one request at a time, `BreakerHasTimer` and
`PauseEnds` hold for timed alarms, `CoveredUnlessRaced` names the exact window.

Four more statements of the sources are not met by a single caller of a release
build. The models have the behaviours, and no run is spent on showing them:

* the supply cap (token.rs:84), the maximum contribution (lbo.rs:102) and the
  allocation (lbo.rs:174) are compared with a sum that may have wrapped:
  `TokensConserved` and `AllocationKept` hold until something was admitted on such a sum,
  `ContributionCapped` for every contributor of whom nothing was;
* "The outcome value where offerer gets everything" (payout.rs:21): a valid linear curve
  pays there the total it carries itself, which validate() does not compare with the
  collateral of the contract;
* a binary curve whose two amounts add up to the collateral only after they wrapped is
  valid (payout.rs:128), and names more than the collateral;
* "One oracle attestation is not enough" of a quorum of two
  (crates/scp-dlc/tests/test_full_cycle.rs:195): it is, when it is added twice
  (oracle.rs:128-134). Of a quorum nothing is left to say once repeated and outside oracles
  are excepted, so `OracleQuorum` has its type invariant only.

Some properties are limited on purpose, because the code gives no more:

* `IndexExact` needs one caller per contract and no fault. Two callers leave an
  entry of the one in the index when the other's write came between the read of
  the old state and the removal of its entry.
* `Backed`, `Solvent` and `NoDilution` speak of behaviours in which requests to
  the pool have not overlapped (`overlaps = 0`). Two deposits that overlap are
  priced on a pool half updated; two locks may take the same liquidity.
* `DebtCovered` holds with one client per holder. A second one could settle with
  a newer accumulator than the first has read.
* In `DlcLifecycle`, `Fail` is possible from every stage: fail() validates
  nothing.

### Bounds

* DLC: one contract suffices for everything that concerns a record, its log and
  its index entries, since contracts share only the log; two are used where the
  listing matters. `MaxWrites` lets a contract run through its whole lifecycle
  (five writes) in `dlc_crash`, with two more for retries after a fault; in
  `dlc_concurrent` every interleaving of two saves at each stage from the offer to
  the settlement occurs, with a deletion at any of them (refund and fail are left to
  `dlc_crash` and to the proof). `MaxFaults` = 3 covers a fault, one during the retry and
  one more. Deadlock is not checked there: the bound on writes stops the system.
* Pool: amounts of 1, 3 and 4 satoshis at an initial price of 2 give zero-share,
  inexact and exact deposits; `Word` = 10 (16 in `pool_shared`) is small enough
  for the liquidity to overflow. `MaxOverlaps` = 2 requests may begin while
  another is in progress.
* Vault: channels of capacity one, so that full channels are common; the code's
  capacities (32 and 256) only delay them. Two alarms are enough for one timer to
  meet the pause of another.
* Economics: supply 4, minimum stake 2, amounts 1 and 2, so that both holders can
  stake at once; a mint of 5 with tokens below `Word64` = 6 wraps under the cap, and
  mints are served while what was handed out is at most `MaxMinted` = 6; two satoshis of fees, in one distribution or in two; `Precision` 4,
  so that the division of a reward is inexact for a stake of 3; `MaxOps` = 1 request
  begun beside another.
* Offering: two clients of one contributor and one of another, two proofs each, of
  2 and 6 satoshis with a minimum of 2 and a maximum of 6, at 5/3 tokens per satoshi.
  With `LboWord` = 10 two proofs of 6 wrap to 2; 6 and 2 do not wrap and are refused.
  Rounding, a saturated cast, the allocation of 5 and the supply of 7 all bite, and
  claims pass the allocation on sums that fit and on sums that wrap.
* Keystores: two tasks, two keys (three in memory, so that a name can be taken
  again), two faults; a restart, a second password and a second fault fit in.
* Session: a timeout of 3, a check every 2 and a poll every tick keep the order of
  the code's 300, 30 and 5 seconds; the period does not divide the timeout.
* Files: five commands, of which two after two processes have met, and one crash or
  failing save: collect, mint, stake, distribute and claim fit in one behaviour.
* Curves: all curves with ends among five outcomes, up to two points (`MaxPoints`) and
  six amounts up to 7 for a collateral of 4, so that a total may be below, at or above
  it, and with `CurveWord` = 8 two amounts above it add up to it. The rounding of the
  linear curve is that of an f64 as long as its total in satoshis times the range stays
  below 2^52: 100 BTC over a range of 450,000, for instance.
* Quorums: up to three oracles of two (`MaxOracles`), the same one twice among them; two
  results; three attestations.
* Signing: minutes of 2 and hours of 3 ticks, so that neither divides the other;
  five ticks and five signatures pass both boundaries. These bounds stop the
  clock, which is why deadlock is not checked.

Symmetry is used for safety properties only, and permutes clients together with
the holder each serves; in `services` only the two clients of one contributor, who are
also the two tasks of each keystore.

### Fairness

Only `AgentVault` states fairness. Weak fairness for the handler, the timers and
the pool part of a deposit: the runtime polls every task that can run, and sleeps
end. Strong fairness for a send on a bounded channel and for each branch of the
agent's `select!`: tokio serves waiting senders in turn and picks at random among
the ready branches, so an opportunity that comes back for ever is taken. Nothing
is assumed of the worker's scores, of depositors starting, or of the operator.
`OnEvent` without that randomness (a biased `select!`) breaks `NeverBlocked`,
which shows that the assumption is used and is about the code's own choice.

## 4. Proofs

`tlapm` checks these for every value of the constants that satisfies the
assumptions named in the modules (a non-empty set of contracts, `NoOne` not an
accepter, a finite non-empty set of tasks, natural limits).

* `DlcStateMachine_proofs`: `TypeCorrect` (`Spec => []TypeOK`) and
  `ProvenanceHolds` (`Spec => []Provenance`). `Provenance` speaks of the visible
  and the durable tree only. It is not inductive: a record reaches the tree from a
  caller's hands and the disk from the log. `IInv` therefore also requires records
  in `call` (both the snapshot and the new one) and in `wal` to be well formed. A
  handler starts from a well-formed snapshot, so what it builds is well formed,
  whatever has happened to the contract since; this is why the races that violate
  `SettledNeverRefunded` cannot violate `Provenance`.
  `Durability` (`Spec => []AckedDurable`), in the same module: `DInv` says that
  in the log the writes of a contract have increasing versions that lead from the
  version on disk to the one visible (`Climbs`), and that a caller past its insert
  has written a version the visible tree has reached. When flush() finds the log
  drained, disk and tree agree, so the caller's version is on disk; a crash cuts
  the log and resets the visible version to the durable one.
  `Refinement` (`Spec => RefinesLifecycle`) assumes what the run has, one driver per
  contract (`SoleDrivers`) who does not delete it (`NoDelete`): the puts of a contract
  in the log lead, one promised move after the other, from the record on disk to the
  one get() sees (`Leads`), and a caller about to write holds a move from what get()
  sees (`DrivenInv`), since it validated against that and nobody else wrote since.
  Then each put that reaches the disk is a step of `DlcLifecycle`, and nothing else
  moves the disk. With two drivers `DrivenInv` fails, and `SettledNeverRefunded`.
  `IndexMatches` (`IndexExact`, under `SoleDrivers`): while the driver is between its
  insert and its last index write, the index has the entry of the old state, or none,
  and the tree what the caller holds (`ExactInv`). `NeverAhead` (`IndexNeverAhead`,
  under both assumptions): in the log the puts of a contract rise in rank from the
  disk to the tree, and an added entry comes after a put of its rank (`Rises`), so the
  prefix a crash keeps has no entry ahead of its state either.
  `OutcomeKept` (`OutcomeIsFinal`: what is settled or refunded on disk keeps that) is
  the other side of the run `dlc_race`: with one driver per contract, no delete and no
  fail() (`NoFail`), an outcome on disk stays.
  By `Refinement` only a step to Failed can leave it, and without fail() no record in
  the trees, the log or a caller's hands is Failed (`NoneFailed`). fail() tests nothing
  it overwrites, so the third assumption is needed as much as the others.
* `LiquidityPool_proofs`: `TypeInvariant`, `SharesAreConserved` (under
  `OneClientEach`), `LockedIsThere` (`Solvent`), `SharesAreBacked` (`Backed`),
  `NobodyIsDiluted` (`NoDilution`). Two invariants, for two kinds of behaviour.
  `CInv` holds of every interleaving: a withdrawal has looked at its owner's shares,
  which nobody else takes (`OwnEnough`), and the total of shares is, up to a multiple
  of `Word`, the sum of the owners' entries and of the shares in flight (`Ledger`).
  It needs the multiple because requests that overlap do wrap. `SInv` holds as long as
  no requests have overlapped: at most one is in progress (`Serial`), and what it has
  checked and computed is still true of the pool as it finds it (`GoodFor`), step by
  step: T >= price * S, first for the price quoted, then with the liquidity already
  moved, then with the shares. So every rounding is in favour of the pool, and the
  price never falls below the initial one.
* `AgentVault_proofs`: `VaultTypes` (`TypeOK`), `SpreadArrives` (`SpreadFollowsAgent`,
  if operators set no spread) and `TimedHasTimer` (`BreakerHasTimer`). `SpreadInv`
  follows the spread the last score asked for on its way: it is in the hands of the
  agent, or the last spread in the signal channel, or in the hands of the handler, or
  set. That no alarm has a number above `MaxAlarms` is a matter of counting
  (`AlarmsCounted`): the alarms applied, those in the two channels and those in the
  hands of the agent and the handler are together no more than were made.
* `Economics_proofs`: `TypeInvariant`, `TokensAreConserved`, `StakeIsBacked`,
  `UnlockIsNeverRefused`; and, under `OneClientEach`, `DebtIsCovered` and
  `RewardsAreCovered`. `LInv` gives each request in progress what it holds: tokens
  minted and not credited, locked and not yet in the pool, cut from a position and not
  yet unlocked. As long as the tokens handed out fit the word (`Exact`), no sum of
  tokens wraps; a mint that passed the cap on a wrapped sum is excepted by it. With those, supply and balances agree, and the token's and the pool's
  account of each holder (`Backing`), whoever acts for whom. `DInv` is about rewards.
  Its measure is the `Value` of a holder, `Precision` times what was paid or credited
  plus what its stake earned beyond its debt, before rounding: a distribution raises
  the sum of the values by at most what it distributes, provided it finds no more stake
  than it has read (`StakeSeen`), and no other step raises it (`Covered`). It cannot be
  stated in rounded rewards, which a change of stake may round anew. A stake between
  the read and the addition is the window `stakeRaced` records, and `economics_race`
  shows that it pays too much.
* `Signing_proofs`: `SigningTypes`, `RateLimit` (`RateBound`) and `HourlyLimit`
  (`AmountBound`). The first bound is not inductive, since a signature is counted only
  when it is recorded, possibly later and at a later time. `SInv` counts recorded
  signatures of the last minute *and* requests in flight (`RateInv`), numbers the
  signatures (`Numbered`) and says that each one of the last minute is recorded no
  earlier than it was made or held by its task (`Accounted`). The bound follows by an
  injection from signatures to records and tasks. `AInv` sums amounts: when a request
  passes the check, what the *others* hold is at most one largest request each.
* `Keystores_proofs`, JsonKeystore: `KeysKept`, `Readable`. `JsonInv` rests on the
  guard: while a save holds it the map does not change, so every copy in the hands of a
  save is the map itself (`CopiesCurrent`); hence overlapping saves write the same keys,
  and a whole file lacks at most the changes whose save has not returned
  (`FileCurrent`). `FileReadable`: as long as no saves met and none was cut short, one
  save at most is past its truncation, and the file is empty only while there is one.
  FileKeystore: `ListedSigns`, `FilesKept`. `FileInv` adds that a key being created is
  in one task's hands only (`CreatedAlone`), that keys in cache or files were made, and
  that a deletion that is past the file finds no file when it comes to the cache
  (`RemovedStays`). MemoryKeystore: `MemTypes`, `NamesKept`. No more keys are held than
  were made (`HeldCounted`), and without a deletion every name held has a number below
  the number of keys made, which is the number of names held (`NamesRun`): the next
  name is new.
* `Services_proofs`, Lbo: `LboTypes`, `MintedOnce`, `WithinAllocation`,
  `ContributionsCapped`. `MintInv`: at most one claim of a contributor is before its
  marking (or `claimsMet` holds, `OneClaim`); the proofs such a claim holds are not paid
  yet while it has not minted (`MarksUnpaid`); every paid proof is marked or in the hands
  of the claim that paid it (`PaidMarked`). `CountInv`: at most one claim is past the
  allocation check (`OneCount`), and, while no claim passed it on a wrapped sum, the
  supply is the sum of the balances, and what was distributed plus what that one claim
  has minted and not counted (`SupplyCounted`): so no sum behind the check wraps.
  `CapInv`: the proofs of a contributor whose submissions were all admitted on sums that
  fit, and the one submission past the check, stay within the maximum together.
  No property is inductive without these: the window between check and effect is what
  they are about.
  WalletSession: `ClosesWhenIdle`, `StaysOpenWhileShown`. `IdleBound` ties the age of
  the last action to the time since the checker last slept; `PollBound` bounds it by the
  time since the last poll.
  EconomicsFiles: `FilesTypes`, `DoneSaved`, `NeverOverpays`. `DoneInv`: while no two
  processes were alive at once, none was cut short and no failing save was passed
  over, one process at most is alive (`Alone`), and the parts it has saved, or does
  not save, are on disk as they are in its memory, the other files being complete
  but for the one it has truncated (`Knows`). It rests on `CommandRuns`: a command
  of the CLI changes no part it does not save. The type invariant says more than
  types: no interleaving, crash or failing save takes a supply over its cap or a
  balance below zero.
  `NeverOverpays` admits crashes. `OverInv` adds what the disk and the memory of a
  command owe each other while its files are saved one after the other (`Saves`):
  a stake locks its tokens before it is recorded and a distribution takes the fees
  before it credits them, so every prefix of the saves is sound; for an unstake and
  a claim it is not, and they are excepted by name once they were cut short.
  `Moved` states, for every command, which counters it may raise or lower.

  PayoutCurve: `CurveTypes`, for any curve an offer carries, and `CurvePays`. A linear
  curve pays a quotient or one less, and the bounds on both give the distance from the
  line (`LinearPays`) and that a higher outcome never pays less (`LinearRises`). That the
  fold over the points ends at a nearest one is an induction over the points
  (`ClosestIsNearest`). The sum that validate tests may wrap, but not with both amounts
  within the collateral (`BinarySum`).
  OracleQuorum: `QuorumTypes` only.
  Together: `EachServiceRuns`: a behaviour of `MCServices` is one of each service, so
  the theorems about each are about what the run checks; `ServicesTypes` is the type
  invariant of all of them.

Induction. The library's induction rules take an operator as a parameter, which the
installed provers cannot instantiate. `Arithmetic` derives what is needed in a form
they can use, from the facts that < is well founded on the naturals and that a
well-founded relation has minimal elements: an induction rule about a *set* of numbers,
or of finite sets (`NatInductionSet`, `FiniteInductionSet`). From it follow the
equation of the recursive function behind `SumFunction` and what sums do when one entry
changes (`SumChange`), when their terms are bounded (`SumBounded`) or combined
(`SumLinear`). Products and quotients have lemmas that mention one at a time, because
the solver finds little when a step has several.

`OneClientEach` says that no two tasks act for one provider (holder). The runs `pool`
and `economics` are instances of it; `pool_shared` is not, and shows what happens then.

Every invariant and every action property of the passing runs is stated by a theorem,
and so is the refinement. Only model-checked: `NeverBlocked` and `PauseEnds`, liveness
under fairness, which needs ENABLED; and that the five documented expectations fail,
which a counterexample shows.

## 5. Not modelled

Not modelled because there is no behaviour to check: the DLC manager (delegates
or returns an error), position, deposit and delta-neutral records (setters
nobody calls), risk scores and RSS, chain access, value types.

Not modelled although it is code with a behaviour:

* polynomial payout curves: their values are sums of f64 powers, which TLA+ has no
  numbers for. The linear curve is modelled with the one rounding that matters: an
  exact quotient that is not zero may come out a satoshi short.
* `LiquidityPool::metrics()` (pool.rs:314), which reads a lock again that it holds
  for reading; whether it can wait for ever depends on the queue of
  std::sync::RwLock, which is not in this repository.
* `LiquidityPool::process_signals()` (pool.rs:330-359), a second loop over the agent's
  signals that nothing in the workspace calls: the vault runs `SignalHandler`, which
  `AgentVault` models.
* announcements of oracles, the sentiment history and the vault metrics of the
  desktop: fixed or read by nobody.
* the commands of the CLI that print fixed text, or act on a pool that ends with
  the process.
