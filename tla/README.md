# Formal models of whm

`whm` is the set of programs around Hydration's Wormhole corridors: contracts on
NEAR, Hydration's EVM, other EVM chains and Solana, and the agents that drive
them. This directory holds TLA+ models of its core logic, the TLC configurations
that check them on small instances, and TLAPS proofs of what matters most, for
every value of the constants. `PROJECT.json` maps each definition to the source
lines it stands for and lists runs, mutants, hazards and theorems.

    tlc -workers 2 -config MCNttUnlock.cfg MCNttManager.tla
    tlapm NttManagerProofs.tla

## 1. The system

| Component | State | Operations | Talks to |
|---|---|---|---|
| **NTT manager** (`src/crates/near/contracts/ntt-manager`) | pause, peers, rate-limit windows, executed digests, inbound queue, claimable balances, NEAR held | `ft_on_transfer`, `complete`, `release_inbound`, `claim`, owner setters, six callbacks | the token and the Wormhole core, by receipts; peers, by VAAs |
| **Governance** (`src/contracts/src/governance`) | dispatcher: nonces; executor: actions, consumed VAAs, protected cancellations, timing, vetoer | `publish`; `queue`, `queueTechnicalCommitteeAction`, `veto`, `execute`, self-administered setters | Wormhole core; arbitrary targets |
| **Basejump** (`src/contracts/src/basejump`, `MessageReceiver.sol`) | emitter: landing, routes, fees; receiver: consumed VAAs, emitter; landing: pool, queue, assets | `bridgeViaWormhole`, `completeTransfer`, `fulfillPending`, owner setters | NTT rail, Wormhole core, currencies precompile |
| **UTXO withdraw** (`src/crates/near/contracts/utxo-withdraw`) and its agent (`src/agents/utxo`) | calls in flight; Redis records, their open set, a cursor | derive the key, read balance, configuration and coin, sign a delegate; watch, pass, relay | MPC signer, connector, token; the emitter on Hydration |
| **Relayer** (`src/agents/relayer`) | jobs and attempts, pending tasks, nonce | handle, add, submit, retry, read a receipt | guardians, EVM RPC, the contracts of every app |
| **Intents** (`src/contracts/src/intents`) | consumed instructions, relayers authorized | `placeOrder`, `processOrder`, `receive`, `sweep`, owner setters | the NTT rail, 1Click, the relayer |
| **Oracles** (`src/contracts/src/oracles`) and **broadcaster** (`src/agents/broadcaster`) | feeds; latest price and its stamp; last sent values on disk | `send`, `receiveMessage`, setters; full refresh, check, send, save | price sources, Wormhole core, the relayer |
| **Scan** (`src/agents/scan`) | event store, cursors, rewinds; reader cursors, tables, parked events | tick, rewind; drain, isolate a row, park, rebuild | RPC nodes, Postgres |
| Solana emitter (`src/crates/solana`), quoters and 1Click watcher (`src/agents/intent`) | none that lasts | publish, quote, notify | Wormhole core, 1Click |
| Migration runner (`src/common/migration`) | journal of steps | run, resume | deployed contracts |

What is hard in them, component by component:

- **NTT manager.** Every operation is split over receipts and anything may run
  between them: two completes of one VAA, a pause or a new peer while a
  verification is in flight, a publish, a registration, a transfer or a callback
  that fails by itself. One NEAR balance backs every deposit. Correct means:
  custody equals what is owed; one unlock per message; deposits spent or returned
  once; the limits, the queue's delay and the pause hold at the receipt that acts.
- **Governance.** VAAs are permissionless and stay valid for ever; veto, fast
  track, execution and expiry race; governance changes the timing, the Safe and
  the dispatcher under pending actions; the Safe that queued a committee action
  also holds the veto. Correct means: only OpenGov's actions, once; no action
  before its review; OpenGov can always stop the committee.
- **Basejump.** Payouts run ahead of the settlements that replenish them; one
  FIFO serves all assets; owners reconfigure at any time; VAAs are presented again
  and again. Correct means: each instruction is paid once; nothing leaks from
  pool and rail; what waits in the queue waits for money that is there or on its way.
- **UTXO withdraw.** A withdrawal is signed from reads that are receipts old; the
  agent tells success from a balance that settlements, refunds and cancellations
  move meanwhile; its store is written by two loops in several commands and a
  crash may fall between any two. Correct means: no event is lost, no record
  closes without a withdrawal, funds with an open record leave the account.
- **Relayer.** It owns a nonce the chain also moves: answers get lost, other
  processes send from the same wallet, the pool drops, a restart forgets every job.
  A settlement is anyone's to deliver and an instruction anyone's to process.
  Correct means: no gap in the nonces, no acknowledgement without a proven
  outcome, every job ends, no order is paid from another's settlement.
- **Oracles and broadcaster.** Timer ticks overlap, messages arrive in any order, what is
  saved is what was read and not what was published. Correct means: a price shown is one
  the source said at its stamp, stamps only grow, every feed is refreshed in
  time and a source at rest is what is shown in the end.
- **Scan.** Ingest and reader move their cursors apart from each other, by several
  statements that fail or whose answers are lost, while an operator files rewinds and
  rebuilds; payouts are read before their sources. Correct means: no log is passed
  over, each ends on a row or parked, payouts and sources find each other.

The complete list, each at its line, is under `hazards` in `PROJECT.json`.

## 2. Modules

    RateLimit ── RateLimitWindow                      one window and its methods
        └──────┐
    TrimmedAmount ── NttManager ── MCNttManager       the NEAR NTT manager
                         └── NttManagerProofs         also about RateLimitWindow

    GovernanceDispatcher ┐
    GovernanceExecutor ──┴ Governance ── MCGovernance
                               └── GovernanceProofs

    BasejumpLanding ── Basejump ── MCBasejump
                           └── BasejumpProofs

    UtxoWithdraw ── UtxoRelayer ── MCUtxo             emitter, contract and agent
                         └── UtxoProofs

    IntentReceiver ┐
    SubmitQueue ───┴ IntentRelay ── MCIntent          contracts, queue and engine
                          └── IntentProofs

    OracleFeed ── Broadcaster ── MCOracle             contracts and agent
                    │     └── OracleProofs
                    └ INSTANCE PriceFeed              the abstract feed

    EventStore ── ScanDrain ── MCScan                 ingest and reader
                      └── ScanProofs

    SumLemmas      sums over finite sets and induction, under the proofs of the
                   NTT manager, Basejump, UTXO, intents and scan

### NTT manager

`RateLimit` and `TrimmedAmount` are pure: one operator per method of
`rate_limit.rs` and `trimmed.rs`, with the u128 saturation and the truncating
divisions of the code (`Saturate`, `\div`). `RateLimitWindow` drives one window
through every method, with locks whose publish fails later, in any order, while what
they flowed back may be spent; next to it runs a shadow that never saw these locks. A
transfer need only fit the window: the shadow is debited what it has. Its names (`window`,
`clock`, `WindowSpec`) differ from the manager's, so that one module can prove about both.

In `NttManager` one action is one receipt; a panic unwinds its receipt and is no
step. The promise chains in flight are state: `publishing` (ft_on_transfer →
publish_message → on_published), `verifying` (complete → verify_vaa and
storage_balance_of → on_verified → on_complete_settled), `payouts`
(storage_deposit → ft_transfer → on_paid) and `registering` (the detached
registration of a queued transfer). The core, the token and the peers are
external: they answer what the contract's code reckons with, at any time, also
with failures and malformed values. `free` is the contract's NEAR less its storage
stake; a receipt that would overdraw it fails.

Abstractions: a message is one value (its digest is the replay key), so the VAA
and NTT codecs are not modelled; one owner; no gas. Storage prices are small
numbers in the proportions of the code. The two-step ownership handover, upgrade
and migration are left out. A sender's transfer and the token's return of dust
are one step, which NEP-141 nets.

### Governance

`GovernanceDispatcher` numbers and publishes; a stranger shares the Wormhole core,
and any payload may appear in a second envelope, which the executor's comments
expect. `GovernanceExecutor` has both lanes. Every entry point is `nonReentrant`
and an EVM transaction is atomic, so a call is one step, and one that reverts none. A
batch is a sequence of calls to the executor's own setters, its `upgrade`, or an
opaque target; `SelfAdministers` applies what it leaves, the last call to a
setter deciding. A target that fails would revert the batch, i.e. no step.
Time is scaled: a review of 1 to 2 ticks for 2 to 23 days, a committee delay of 4 for
30, a margin of 2 for 7. `Governance` composes them with time, and `KeeperSpec` adds one
diligent account that executes a ready cancellation before the next tick.

### Basejump

`BasejumpLanding` is the pool, its queue and its setters; `Basejump` adds emitters,
receivers, the rail, relayers and the owners' moves (`OwnerMoves` says which of
them an instance has). A message is a position in `messages`; presenting it is
`CompleteTransfer`, always possible again. A payout the runtime
refuses (`Undispatchable`: the recipient's account, an amount past uint128) reverts its call, and
blocks the queue when it is at the head. `data` does not influence control and is
left out, as are tokens that shrink in transfer, source-chain reorganisations
(consistency 200, a documented trade-off) and dust below 8 decimals.

### UTXO withdraw

`UtxoWithdraw` has one action per receipt of `withdraw` and `claim`: the key (`OnKey`), the three
reads, the delegate built from them, the signature. Its caller may be the agent
or anyone (`calls` has a slot for each call in flight). A delegate is a record
with an age in blocks; `Execute` is the runtime's check of nonce and validity, `Accept` and `Refuse` the
connector's answer, `Resolve` the token's refund. `UtxoRelayer` adds the emitter's `Send`,
its settlement, and the agent: the watcher's drain block by block (`OnWithdrawal` is `SET NX`,
`AddToOpen` is `SADD`, `SaveCursor` a checkpoint or a drain's end), and the worker's pass with
one action per await. `Crash` keeps the store and loses both loops; `Orphaned` leaves a
call of a dead process running on NEAR.

An address stands for the account it derives, and an event whose named account
differs is the mismatch of `onWithdrawal`. Two coins, of exact and of surplus value, stand
for the connector's set. Fees keep the code's order of operations on small numbers.

### Intents and the relayer

`SubmitQueue` is `engine/queue.ts` under the engine's retries: a task is simulated, sent
under the queue's nonce, and ends resolved, thrown or awaited. The wallet's
transactions are a function from nonces to tasks; `Evict` and `OtherSends` are the pool's
and another process's. `awaits` chooses between the two kinds of app: one that
acknowledges at the broadcast (intent, basejump, ntt, oracle) and one that reads the
receipt (psm). `IntentReceiver` has an order from `placeOrder` to `processOrder`, its settlement through
the rate-limited rail, and the owner's setters. `processOrder` takes a settlement and an
instruction of anyone's choice, as the code does: what it matches is the sequence
(`IntentReceiver.sol:159`), and what it remembers is the instruction VAA (`:138`), here a sequence and
which publication of it. `Reorgs` drops an order's block and gives its sequence out again;
`Finalizes` is the guardians signing both messages of a final block, which is what
`CONSISTENCY_FINALIZED` asks (`IntentEmitter.sol:36`, `:150`). That no instruction is signed before finality is
what `OwnSettlementOnly` rests on: its mutant, `SignedInstantly`, signs at once, and the run finds the
double payment of `testOrphanedInstructionIsPaidTwiceFromOneSettlement` (`IntentReceiverTest.sol:467`).
It rests also on one source: the sequence is compared without the manager it is of, so the
transceiver is taken to accept WETH settlements from Hydration only.
The caller's fee is anything up to the ceiling, and `forwarded` counts both payments;
`stray` is ETH sent to `receive`, less what the owner sweeps; a deposit address may refuse ETH for
a while (`refusing`). The pinned emitter's instructions have an address and its transfers 8
decimals, so `MalformedInstruction` and `UnexpectedTrim` are never reached.
`IntentRelay` composes them: `Handle` is
the intent app's handler (age, quote, ceiling of the fee), and what a call does on
the chain is `Outcome`, evaluated at the simulation and again when it is mined.

### Oracles and the broadcaster

`OracleFeed` is emitter, attested messages and receiver; stamps are kept as ages, and a message
older than any `maxPriceAge` is forgotten. `Broadcaster` is `loop.ts`: the boot's full refresh, timer ticks
in several slots (`setInterval` does not wait for the last tick), each reading,
sending and saving feed by feed, and a state file that outlives a crash. Time does not
pass while the process is down: an outage would break `RefreshedInTime` by its length.
`lapsed` is a history variable: the feeds that had no source at some time since they
were last saved, whose sends revert.
`PriceFeed` is what the three promise together: a source says things, and the price shown
is one it said at the time of the price's stamp, with stamps that only grow;
`PricesAreFeeds` is that specification with `shown <- latest`.

### Scan

`EventStore` is the tick EVM and Substrate watchers share: rewinds applied at its
start, blocks up to the head it read, one statement per log, the cursor saved every
`SaveEvery` blocks. `ScanDrain` is a reader of it: batches in one transaction with the
cursor, a failed batch row by row, a failing row parked and stepped over in two
statements, rebuilds; and the Basejump flow with its upsert, orphans and adoption. A commit
may take effect and its answer be lost (`commitLost`).

A log is a value with its chain, block and kind. One token per source chain
(`docs/basejump/spec.md:341-346`), so asset, recipient and amount are one key. Blocks
below the head are final: reorganisations deeper than the configured
confirmations are outside the code's promise too. The reader is taken to be
deployed before the logs it routes: `drain.ts:225-226` passes over logs it does not route.
`LedgerAssumption` says what the chains log: a pending id carries its chain, and
`BasejumpLanding.fulfill` emits the values of the record it then deletes, so a
fulfilment repeats its queueing's transfer, once and later. It holds of the store
too, except that the queueing may be one of the `Late`: logs of a contract a watch
gained behind its cursor, which only a re-scan brings.

## 3. Runs

| Run | Module | Shows | Bounds |
|---|---|---|---|
| `rate_limit_window` | RateLimitWindow | `ThroughputBounded`: any Day lets through at most a full window, a Day's refill and what failed publishes found spent; `FailedPublishUndone`: the window is ahead of one that never saw the locks by at most what open locks gave, and behind by at most what failed ones gave and a unit each | 6 calls over more than a Day of 3 ticks, 2 locks, limits 4 and 5 with `MaxUint` 15: refills of one and two ticks truncate, one of four saturates; dropping the excess, the unit or what failed locks gave from the bounds makes TLC find them violated |
| `ntt_unlock` | MCNttManager | `TypeOK`, `NothingLost`, `UnlockedOnce`, `DepositAccounted`, `PauseStopsUnlocks`, `QueueDelayHonoured` | 2 racing completes, 1 send, 3 pay-outs (unlock or release, failed, claimed), one Day, a limit that admits the message and one that queues it |
| `ntt_settle` | MCNttManager | `Backed`, `DepositsOnHand`, `StalePeerNeverConsumed`, and liveness: `ReceiptsSettle` | no NEAR of its own; 1 send, 2 completes of one message, 3 pay-outs; a peer and one of another precision that replaces it |
| `ntt_deposits` | MCNttManager | **violated**: `RefundOnHand`, see section 5 | 1 send, 1 complete, nothing funded |
| `gov_lifecycle` | MCGovernance | `TypeOK`, `OnlyPublishedActions`, `FinalStays` | 2 dispatchers, 2 Safes, a stranger, an upgrade, 2 messages with any replay, another destination |
| `gov_keeper` | MCGovernance | `ReviewedBeforeExecution`, `CancellationsStand`, `CancelledInTimeNeverExecutes`, under `KeeperSpec` | 2 messages among a cancellation, a longer review, one beyond its ceiling and a call; one committee action; past the committee's delay |
| `basejump_owners` | MCBasejump | `TypeOK`, `DeliveredOnce` | 2 emitters rotating behind one receiver, 2 messages, every setter but the fee |
| `basejump_rails` | MCBasejump | `PoolBalances`, `QueueCovered` | 2 corridors, 2 assets, an empty pool, 3 messages, one of them undispatchable, changing fees |
| `utxo` | MCUtxo | `TypeOK`, `CursorCovers`, `ClosedWhenTaken`, `FirstFundsLeave` (liveness) | 2 sends, 2 accounts, a mismatched one; 2 coins; 2 configurations; a checkpoint per block; 1 disturbance |
| `intent_relay` | MCIntent | `TypeOK`, `OwnSettlementOnly`, `NoGap`, `AckedProven`, `OrdersEnd` (liveness) | 2 orders, their blocks final or dropped, every pair of VAAs signed, both kinds of app, 2 attempts each, 1 disturbance |
| `oracle_feed` | MCOracle | `TypeOK`, `RefreshedInTime`, `EventuallyCurrent` (liveness), and the refinement `PricesAreFeeds` | a feed that may lose its source, 2 sources, 2 rates across and within the threshold, 2 overlapping ticks, a refresh every 2 units, 1 disturbance |
| `scan` | MCScan | `TypeOK`, `NothingSkipped`, `PayoutsMatched`, `NeverUnshown`, `EveryLogIndexed` (liveness) | 2 chains, 6 logs of two like transfers, one late, one undecodable; batches of 2, 2 attempts a row, 2 disturbances |

The bounds are the smallest at which every action fires, each race has two
contenders and each failure path is followed by its recovery: a replay needs two
presentations, a failed pay-out a claim, a head-of-line wait two queue entries in
different assets. A disturbance is a failure, a lost answer, a crash, an owner's
or a third party's move: with `MaxDisturbances` of 1 it falls at any point of any
behaviour, and what the code does next is checked to its end. The
scan has 2, so that a crash may follow a failed commit or a rewind a rebuild. `CHECK_DEADLOCK FALSE` stands where the bounds exhaust the
inputs; users need not act again.

For every property one mutant of a mapped definition (a dropped check, a
swapped or forgotten effect) breaks it; mutants stand beside what they mutate.

### Fairness

- NTT: `WF(Callbacks)`, `WF(External)`. NEAR executes every receipt it has accepted, exactly
  once, so callbacks and the callee's answers come; *what* they answer stays free. Users,
  owners and time get no fairness.
- Basejump has none. Nothing in the repository calls `fulfillPending` (`docs/basejump/spec.md:149`,
  `:239`), direct payouts overtake the queue, a relayer's retries end and a head the runtime
  refuses stays: that a transfer is paid in the end is not promised and not claimed.
  `QueueCovered` says what holds instead, that funds are never what is missing for good.
- UTXO: the timers start drains and passes again for ever (`WatcherStep`, `WorkerStep`), NEAR runs accepted
  receipts (`NearStep`), the connector pays and gets coins, lost-and-found balances are
  claimed and blocks pass. Disturbances get none and are finite.
- Intent relay: the process restarts and its loop goes on (`Relayer`), the chain mines what
  it can (`Chain`), the spy or the missed-VAA worker hands over every VAA (`Hear`) and the engine runs each
  handler. Guardians, rail, owner and other callers get none: an order whose VAAs are signed ends without them, if need be as stale or failed.
- Oracles: the timer, each tick's steps, the relayers (`Delivers`) and time.
- Scan: the drain and each chain's watcher do not stop for good while they have
  work. Both conditions are weak fairness, written out with `Unread` and
  with the watcher's own guard in the place of `ENABLED`, which TLC would
  compute in every state; head, operators and failures get none.
- Governance has none: the keeper is a restriction of time (`KeeperNext`).

## 4. Proofs

All eight proof modules are checked by TLAPS to the last leaf, for all constants
that meet the modules' named assumptions, which TLC evaluates on every run. Every
safety invariant and action property the runs check is a theorem.

`SumLemmas` carries the accounting. A sum over a finite set (`SumFunctionOnSet`) takes
elements in the order CHOOSE fixes; `SumRemove` says that the order does not matter, and
what a receipt, a settlement or an order adds, takes or changes follows from it. The
library's induction rules take an operator, which the provers cannot instantiate, so
`Induction` is stated about a set of naturals and rests on its least element, and the
inductions over finite sets and sequences cite it.

- `NttManagerProofs`: `TypeCorrect` (one lemma per action; overdrafts of custody,
  balances and NEAR are excluded by the `Nat`s). `UnlocksAtMostOnce` needs more than
  `UnlockedOnce`: a message that is not executed has neither unlocked nor been
  queued, and a queued one has not unlocked (`ReplayInv`). From there `QueueDelay`,
  `StalePeer` and `PauseStops` are step properties; the last needs `Numbered`: every
  pay-out in flight bears a number already issued.

  The accounting needs that chains of receipts are told apart by their numbers
  (`DistinctInv`), else one step would change two summands. `CustodyBacked` (what is held covers
  what is owed) and `DepositsStayOnHand` need nothing more. Equality does: a refused
  pay-out becomes a claimable entry, whose storage the contract must pay. `LostOnlyWithoutNear` says
  that only a settlement that fails for want of that NEAR loses anything, on every
  behaviour; `NothingEverLost` and `DepositsAccountedFor` take the hypothesis `Funded` (an
  entry's storage for each account, which `docs/near-ntt/spec.md` asks the owner for) and
  prove that it never fails. What makes funding last is `Funding`:
  free NEAR and entries cover the initial fund and all deposits held. It rests on
  `ClaimCost <= ClaimReserve`: `payout.rs:31-32` reserves for an entry at its largest and
  the test at `payout.rs:220` checks it.
  The window is proved about in the same module, which extends `RateLimitWindow` too; the two share
  no variable. `ThroughputAlways` rests on `Flow`: until a Day after any instant, what was taken
  since (a debit counts for what it finds, `Drained`) and what is left come out of a full
  window and the refill up to the last call; so each call must store its time, or the same
  hours refill twice.
  `FailedPublishUndoneAlways` compares the two windows at every later time
  (`Ahead`, `Behind`): now is not enough, since a call changes when each truncates its refill.
  Storing in between loses at most one (`SplitCapacity`), and windows stored together stay as
  close as they are (`StayApart`). A lock costs no unit: it gives at least one, which pays
  for its own rounding (`OneMore`; amounts that trim to nothing are refused), or finds the
  window full. A transfer that fits thanks to a lock alone empties the shadow, and the
  debit that follows stops at zero: both keep the two inequalities. It takes the hypothesis `Moderate`: a limit times a Day
  fits u128, as every limit up to 2^128 / 86400 does. Above it the saturated product
  makes a refill in two steps exceed one in a single step, and the bound is lost.
- `GovernanceProofs`: one inductive invariant,
  `IInv == TypeOK /\ NoncesUsedOnce /\ Origin /\ Timed /\ Protected /\ ReviewedBeforeExecution`. A payload's
  nonce is below its dispatcher's counter and names one payload (`NoncesUsedOnce`), every
  governance action comes from one (`Origin`), records carry the
  delays and ceilings of their queueing (`Timed`), cancellations carry their
  protection (`Protected`). Theorems: `GovernanceTypes`, `OnlyPublished`, `Reviewed`,
  `CancellationsProtected`, `FinalForever`. `CancelledInTime`
  is about `KeeperSpec` and adds that a pending cancellation's batch succeeds and
  time never passes its readiness (`KInv`).
- `BasejumpProofs`: `BasejumpTypes` and `DeliveredExactlyOnce`, from
  `IInv == TypeOK /\ Wired /\ DeliveredOnce`; `Wired` says each receiver trusts an emitter of its own
  corridor, which is what keeps two receivers from consuming one message; the code takes any
  emitter, so this is an assumption about the owner. `PoolStaysBalanced`
  adds that a queued entry is still what its message said (`QueueCarries`) and is
  proved under `Bound`: the landing starts with the assets the rails mint, and its owner
  neither withdraws nor re-points asset or landing. Without it the equation is false by the
  owner's own doing; `basejump_rails` checks it with the same moves left out.
  `QueueStaysCovered` follows: entries of the queue stand one to one for messages that are due
  (`EntriesAreDue`), so their sum is within what is owed (`SumInto`), and a fee is never negative
  (`FeesTaken`).
- `UtxoProofs`: `CursorCoversAlways`. The cursor is saved behind a drain that is
  further on, so the invariant is about the drain (`Reads`): every event before its next
  block has a record, and the checkpoint it will save lies before that block.
  `ClosedWhenTakenAlways` follows the pass (`PassInv`): as long as no mark (`taken`, `others`) is on
  its account, the balance stays at or above the minimum, but for what its own transfer has
  on its way and a refusal brings back; and a pass has one call or one transfer at a
  time. The balance at which the record closes is read in a later receipt than that.
  `UtxoTypeOK` includes that no account is overdrawn.
- `IntentProofs`: `IntentTypeOK`, `OwnSettlement`, `NoncesWithoutGap` and `AcksAreProven`, from
  `IInv == Shape /\ Types /\ IntentInv /\ InTheReceiver /\ NoGap /\ Outcomes`. `Shape` and `Types` keep the
  queue well formed, with a task in one place (`OnePlace`). The receiver's balance is the sum
  of what was released and not forwarded, and of the stray ETH (`InTheReceiver`), which needs that what is
  processed was released (`Settled`) and that the only instruction signed for a sequence is the
  last one published under it (`SignedOnce`): two calls for one settlement would then bring
  the same VAA (`OutcomeOk`). `Outcomes` says a
  successful receipt is a consumed instruction: the queue acknowledges from a
  receipt older than the state it does so in. The age of an order and
  consumption never go back (`Lasts`), so what was proven stays so. `Orders` is finite.
- `OracleProofs`: `FeedRefined`, that `Broadcaster` implements `PriceFeed` (initial states to initial states, every step to
  a step or a stutter), and `OracleTypes`. The invariant says that what is on the
  wire was said: each message's rate is among those of its asset's source at its
  stamp (`OnTheWire`, `SaidNow`); the agent reaches the contracts only by publishing.
  `RefreshedInTimeAlways` is about what a refresh under way has left behind its place
  in the list (`RefreshUnderWay`) and how far memory and file may age between two refreshes
  (`Aging`); the file a crash falls back to may be an interval behind, which is what
  the crash's own interval in the bound is for.
- `ScanProofs`, for every ledger, batch and number of failures, from three invariants. `StoreInv`: a tick
  runs ahead of the cursor it saves, so what is below its block must be stored
  too, and it must lie between cursor and head (`TickCovered`); this gives `IngestSkipsNothing`.
  `ReaderInv`: a run is at events the store has and at most one past the reader, so a commit leaves no
  gap (`NothingSkippedAlways`), and rows have ids and names of their own, so no merge overwrites a
  column another log filled (`NeverUnshownAlways`). `MatchInv`, of a reader that lost no
  commit's answer: its rows show only what was read, each log was merged once, and the
  store has a fulfilment after its queueing (`PayoutsMatchedAlways`). A batch is merged by
  the recursive function `Merged`; that it satisfies its equation, and what it keeps of a table, is
  by `Induction` over the batch.

Three properties had to be corrected on the way, which the bounds of their runs had hidden:

- `ClosedWhenTaken` said `taken` alone. A third party may relay another signed withdrawal of the account
  between a pass's refund and its balance read; the pass sees the balance gone and closes the
  record. It takes three disturbances, and the run has one. `others` marks what such
  a relay moves, and the property now says so.
- `RefreshedInTime` held of every feed. One that loses its source reverts at each refresh, and the owner
  needs one move for any number of intervals. `lapsed` excepts it until it is saved again.
- `PayoutsMatched` said that a fulfilment stands alone only if its queueing was parked. A re-scan that
  starts between the two brings only the later one, when both are `Late`.

Model-checked only: all liveness and leads-to properties (fairness and ENABLED are out of
the prover's reach).

## 5. Where code and documents disagree

`ntt_deposits`. `docs/near-ntt/spec.md:259` and `inbound.rs:13` say a complete's deposit
is always on hand for `on_complete_settled`. The contract has one balance: a send whose
publish fails and whose refund fails leaves a `claimable` entry the contract
pays for (`outbound.rs:132`, `payout.rs:89`). Without NEAR of its own that comes
out of a deposit in flight, and the refund's transfer falls short. The spec says
further on that such entries may leave an unlock's `on_paid` short, and to keep the free
balance funded; `ntt_settle` shows that the deposits are short by those entries
at most (`DepositsOnHand`), so funding them is enough.

Seen while modelling, without a run:

- `common/migration/runner.ts:297` tells the operator to skip a failed step with `--from <next>`. A failed
  step is not `completed`, and the loop at `:254-262` runs every step that is not: it
  is run again.
- `contracts/test/intents/IntentReceiverTest.sol:454` and `:556` say the instruction publishes at consistency
  200. It publishes at 202 (`IntentEmitter.sol:36`, `docs/intents/schema.md:123`), which `OwnSettlementOnly` needs.
- `agents/utxo/src/apps/relayer/store.ts:58`: a crash between `SET NX` and `SADD` leaves a record outside
  the open set for good. It is in the model; nothing documented promises otherwise.
- `agents/utxo/src/apps/relayer/worker.ts:120` closes every record read at the start of the pass, also one whose
  settlement is still on its way; its tokens wait for the account's next send.

## 6. Not modelled

- Byte layouts (VAA, NTT messages, ABI, SCALE, XCM, Blake2b): pure data with their own unit tests;
  a message is one value. `GovernanceCodec` is in the model as what it tells apart.
- Ownership handovers and upgrades of the NEAR contracts and proxies: the owner is one actor.
- The scan's NEAR and Solana watchers, which page through accounts' histories, its other
  flows (keyed upserts through the same drain), pages, pollers and notifications.
- The other relayer apps: they filter by payload and queue a task as the PSM's
  does, without its receipt; their routing tables are data.
- The Solana emitter and the quoters (stateless), the 1Click watcher (best effort, a
  set in memory), the UTXO emitter's sweeps and fees.
- The migration runner: one operator, one process, a journal saved after each
  step, so a crash repeats the step it cut short; whether that is harmless is up
  to the step.
- Deployment scripts, migrations' contents, the scan's UI and the chopsticks probes: operator tools and
  presentation. With tables of addresses and ABIs they are most of the repository's
  lines, so the share of lines `map` covers is small, though it holds most
  of the control of the contracts and agents above.

## 7. What is left

1. Abstract specifications: a bridge escrow implemented by `NttManager`, a two-lane timelock by
   `Governance`, a pay-once ledger by `Basejump`.
2. Proofs: the refinements of 1.
3. The NEAR and Solana watchers as further implementations of the store's cursor.
4. The ownership handovers.
