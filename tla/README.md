# A verification project for MEMESCOPE

MEMESCOPE watches Solana meme coins, scores them, trades them on paper, and, in
`backend/app/real_wallet`, trades them with real money. This project specifies the
parts that keep state across crashes and concurrent processes: first the ones in
which a mistake costs money (the rail that turns a decision into a transaction, the
exit of a position, the limits on entries, the switch, the users' fees), then the
alerts, the paper books of the strategy lab, and the worker that feeds them all with
market data. Everything is plain TLA+, checked by TLC on small instances; the
theorems are checked by TLAPS for every value of the constants.

Paths below are relative to `src/backend/app/` unless they start with `src/`.

## 1. Inventory

### 1.1 The real wallet

| component | state it keeps | operations | talks to |
|---|---|---|---|
| intent repository (`real_wallet/live_repository.py`, `live_readiness.py`) | `real_wallet_live_intents`, `real_wallet_positions`, kill switches, the failure counter, events | `create_intent`, `create_sell_intent`, `transition`, `confirm_settlement`, `record_execution_failure/success`, `activate/clear_kill_switch` | Postgres; called by everything below |
| executor (`executor.py`) | none of its own; an intent's row | `advance`: safety, order, guard, sign, submit, reconcile | SEC-2, Jupiter, signer, RPC |
| exit driver (`exit_driver.py`, `exit_triggers.py`) | marks on a position (peak, break-even, last mark) | `tick`: mark, decide, ask for a SELL, retry one that sold nothing | repository, prices |
| entry driver (`driver.py`, `policy.py`) | none; reads decisions and rows | `tick`: owner, then every member; at most one BUY per wallet | lab decisions, policy, rug brake |
| worker ticks (`scheduler.py`, `workers/celery_app.py`) | advisory locks, one transaction per stage | executor, exit and driver tick every minute; the fast loop runs all three every few seconds | all of the above |
| switch (`autotrade.py`), rug brake and floors (`rug_brake.py`) | the autotrade row, `own_enabled` of members, `_weighed` in memory | Start, Stop, pull the brake, stop below a floor | operator, driver |
| signer (`mainnet_signer.py`) | the key, in another process | sign an ORDER_CREATED intent by id | reads the same database |
| transport (`live_transport.py`, `transport_policy.py`) | none | one POST to `/execute`, never retried | Jupiter |
| reconciliation (`reconciliation.py`) | none | read a transaction's outcome and wallet deltas | RPC |
| family (`family_wallets.py`, `family.py`, `family_api.py`) | member settings | switch, ticket, band | driver, executor |
| user fees and withdrawals (`user_fees.py`, `withdraw_service.py`) | fee rows: due, sending, paid, uncertain | charge, collect | signer, RPC |
| alerts and push (`trade_alerts.py`, `push.py`, `push_api.py`) | one alert row per position and event; the subscribed devices | record, push, deliver with backoff, subscribe | WhatsApp, web push |
| account close sweep, balance watch (`account_close.py`, `balance_watch.py`) | observations | sweep, observe | RPC |
| devnet workflow (`devnet_*.py`) | devnet quotes, intents, events | quote, simulate, approve, submit, reconcile | devnet RPC |
| dry run, rehearsal, readiness, views | evidence rows | reports | |

What is hard here: four Celery workers run these ticks concurrently with the
operator's requests; the locks are transaction scoped and `_sign_and_submit`
commits in the middle of a pass, so the rest of it runs unlocked; a network
reply may be lost while the transaction lands; a process may die at any line; an
ORM session may hold a copy of a row that another pass has changed.

What makes it correct:

* an intent's bytes are sent at most once; a position is sold at most once; the
  books say what the chain says; an exit is asked for again only when the earlier
  one sold nothing and never will; every intent ends;
* the failure counter stops trading; STOP stops every buy not yet sent;
* the limits on trades, positions and one coin hold, with a known slack;
* START and STOP behave as on a row of atomic columns, a process stops the wallet once for
  a rug and undoes a restart once at most;
* what is still held has met no stop, and no position outlives its time exit;
* a fee is sent at most once, no gain is charged twice, nothing unsent counts as paid;
* an alert is told, in order, in the end sent or given up, and pushed to every device there
  was, unless it grew old first.

### 1.2 The rest of the repository

| component | state it keeps | operations | what is hard |
|---|---|---|---|
| strategy lab (`lab/service.py`, `lab/scheduler.py`, `lab/rules.py`, `sizing.py`) | a wallet and positions per arm | evaluate, open, settle, breaker, close and trim by hand | ORM sessions with `autoflush=False`, hand closes outside the tick's lock |
| compounding (`compound/service.py`) | cycles of a lab wallet | sell the book at the target, open the next cycle | the same session as the lab's tick |
| market data (`services/market`, `repositories/market.py`) | one refresh row per token; a breaker per provider | claim, fetch, record, defer, park, requeue, change lane | worker replicas, beats of other processes, a provider that is down |

`paper/` (paper wallet), `labs/graduation`, `labs/tape` (strategy research and the
decisions the driver reads), `services/rpc` (router between providers),
`services/scanner`, `services/discovery`, `services/curve` (stream ingestion),
`services/scoring`, `analysts/`, `radar/`, `momentum/`, `events/`, `exit_signals/`,
`security/`, `real_wallet_safety/` (judgements over snapshots), `hq_ops/`,
`karthik/`, `karthik_ops/` (monitoring desks), `reports/`, `news/`, `newsroom/`,
`social/`, `pumpfun/`, `track_record/`, `copycontrol/`, `depth/`, `evmchain/`,
`universe/`, `health/`, and the web API, middleware, models, schemas, migrations,
Docker files and the frontend are mostly numeric scoring, periodic input/output or
presentation. The RPC router, the paper book and the discovery ledger have protocol
state and are candidates for later modules. `PROJECT.json` lists each with its reason.

## 2. Modules

| module | what it is |
|---|---|
| `TradeLedger` | the abstract promise: buy once, book the buy, sell once, book the sale |
| `ExecutionRail` | intents, positions, executor passes, exit passes, failure counter, kill switch, operator and chain |
| `MCExecutionRail` | the symmetry set for TLC |
| `ExecutionRailProofs` | the theorems about the rail, with the refinement of `TradeLedger` and the bound on failures |
| `EntryBook` | overlapping driver ticks over several wallets, their limits, and the executor's second look |
| `MCEntryBook` | the symmetry set for TLC |
| `EntryBookProofs` | the theorems about the entries |
| `AtomicSwitch` | the abstract promise of START and STOP: every column set once between press and answer |
| `AutotradeSwitch`, `MCAutotradeSwitch`, `AutotradeSwitchProofs` | the switch row through the ORM, the rug brake and the floor, with the theorems and the refinement of `AtomicSwitch` |
| `PositionMark`, `PositionMarkProofs` | the marks of one position, the exit rules and two exit ticks, with the theorems |
| `FeeCollection`, `MCFeeCollection`, `FeeCollectionProofs` | charging and collecting a user's fees, with the theorems |
| `TradeAlerts`, `MCTradeAlerts`, `TradeAlertsProofs` | recording, pushing and delivering the alerts, with the theorems |
| `LabBook`, `MCLabBook`, `LabBookProofs` | the wallet of one lab arm, with the compounding ratchet and the theorems |
| `Enrichment` | the refresh schedule of the market data worker |
| `CircuitBreaker` | a provider's breaker under overlapping requests |
| `EnrichmentProofs` | the theorems about both of them |

A definition whose comment begins with *Mutant* is a wrong version of the one
after it. Nothing uses it; it documents the mistake the property next to it is
there to catch, and TLC finds the violation when it is put in place.

### 2.1 ExecutionRail

**State.** A position is named by the buy `b` that opens it: `<<b, 0>>` is its
BUY intent and `<<b, n>>` its n-th SELL, the only rows the idempotency keys
`v6:strategy:mint[:member]`, `v6exit:pos`, `v6exit:pos:n` can create. `state`,
`position`, `exitOf` are columns; `exitOf[b]` is `exit_intent_id` as an attempt
number. `at`, `job`, `seen` are the local variables of an executor pass,
`replaces`, `attempt` those of an exit pass. `chain` and `aged` are the outside
world; `sends` is a history variable.

**Steps.** A step ends where the code awaits the network or commits: another
process may act there. `Advance` reads the row, the switch and the kill switches
and picks a handler. `Block`, `RunSafety`, `BuildOrder`, `Guard`, `Sign`,
`CommitSubmission`, `Send`, `RecordReply` are the walk to the chain;
`InspectKnown`, `InspectUnknown`, `CheckBlockhash`, `CheckStatus`, `Fail`,
`SettleBuy`, `SettleSell` are `_reconcile`. `ExitDue`, `CountAttempts`,
`RequestExit` are the exit driver on one position. `Crash` and `ExitCrash` are
the death of a process, or a rollback, at any of these points. `DriverBuys`
creates the buys.

Choices worth knowing:

* **No locks.** The advisory locks are not modelled: every pass may interleave
  with every other. The properties hold without them, so they hold with them.
* **A commit per step.** A tick commits several intents together; a batch that
  rolls back is a crash before its write. Row locks and the compare-and-swap on
  `state` make a batch no weaker than its steps.
* **A lost compare-and-swap still commits.** `ConcurrentIntentTransitionError` is
  logged by the tick and what the session wrote before it is committed with the
  next intent. `SettleBuy` and `SettleSell` write the position whether or not the
  intent's update wins.
* **Stale copies.** The exit tick keeps the list of positions it loaded;
  `replaces` is `exit_intent_id` as it was then, `Replaceable` compares it with the
  row read under the lock.
* **Answers.** Any read of the chain may come back unknown. An answer that is not
  unknown is assumed true, except that a lagging node may report a young
  blockhash as invalid, which is what `DROPPED_AFTER_SECONDS` is for
  (`ReportsDead`).
* **Unreachable code.** `inspect` answers UNKNOWN for a landed transaction whose
  deltas it cannot read, so the branch at `executor.py:408-417` is never taken
  and such an intent stays SUBMITTED. `IntentResolves` names that exception.
  Nothing in production revisits SIGNED or RECONCILIATION_REQUIRED.
* **Kill switch.** The only kind production arms is
  `consecutive_execution_failures`; `killed` is that row. Clearing it does not
  reset the counter, which is why `FailureBudget` grows with the clears.
* `DriverBuys` checks and inserts in one step: the insert is idempotent on its key
  and a check that went stale adds no state. `EntryBook` takes it apart.

### 2.2 TradeLedger and the refinement

`held` are the buys that executed, `sold` the sales that executed, `book` the
position row. `ExecutionRail` instantiates it with `Held`, `Sold` and `position`.
`Acquire` and `Dispose` are `Land`; `BookPurchase` and `BookSale` are the
settlements; everything else stutters.

### 2.3 EntryBook

**State.** `<<w, c>>` is wallet `w`'s buy of coin `c`; the intent and the position
it opens are one record here. `pending[d]` are the rows a running tick inserted,
seen by it alone until it commits. The nominated strategy stays the same, the
day does not end, and the cap on one coin is counted in tickets. Balances, dollar
bounds, candidate filters and the band rule are nondeterministic refusals (`Skip`,
`BlockRefused`).

**Steps.** `BeginTick`, `OwnerCheck`, `FamilyTicks`, `MemberCheck`, `CreateIntent`,
`CommitTick` are `RealWalletDriver.tick`; `PullBrake`, `OwnerFloor`, `MemberFloor`
are the brake and the floors, the last committing in the middle of the tick as
`rug_brake.py:140` does; `RollbackTick` is a failure. An insert waits for another
transaction that holds the same key, as Postgres does. `BlockStopped`,
`BlockRefused`, `ClearGuard`, `SignRefused`, `Submit`, `Reconcile`, `Close` are what
`ExecutionRail` details.

Two ticks overlap in production: the minute tick takes the DRIVER lock, the fast
loop the FAST lock, and the worker runs with `--concurrency=4`.

### 2.4 AutotradeSwitch and AtomicSwitch

**State.** One `row`: enabled, strategy, ticket, started_at. Sessions are the
operators' requests and one driver tick per worker process. `copy[s]` is the row as a
session loaded it (`_row`, a plain SELECT); `Written` is the UPDATE the ORM emits: the
columns whose assigned value differs from the loaded one, over what the row holds by
then. `weighed[p]` is the module variable `_weighed` of a process and is lost with it.

**Steps.** `PressStart`, `PressStop`, `Load`, `Flush` (waits for the row lock), `Commit`,
`Reply`, `Rollback` are a request, or the STOP of a tick. `BrakeRead`, `WorthUnread`,
`BrakeHeld`, `BrakeStop` are `pull_if_due` with its await of `worth()`; `FloorStop` is
`stop_below_floor`. A clock gives every press and every close its own time.

**Refinement.** `AtomicSwitch` says that each column an answered call sets takes its value
once, between press and answer. The mapping is the argument: a column that the call found
right took effect when the row was *loaded*, any other when it commits (`Unset`, `TodoOf`). Nothing is excluded: two STARTs may pair the strategy of one with
the size of the other, and the refinement says that this is all they can do; no call brings
back a value that was overwritten before it was pressed, or answers with a column unset.

**Restarts.** `undone[r][p]` counts the brake STOPs of process `p`, for rug `r`, that turned
off a Start newer than the rug. The row is read before `worth()` is awaited, so one such STOP
is possible; `RestartIsUndoneOnce` says there is never a second, over all the restarts by
hand and of the process that follow.

### 2.5 PositionMark

Multiples are counted in steps, `One` of them is 1.0x. `Marked` is `_mark` (peak,
break-even flag, flat clock), `Verdict` is `evaluate_exit` in its order with the Pump
Catcher's look after it. A tick loads the row, awaits a price, assigns, and commits the
columns that differ; the exit is bound to the first that asks. `Unpriced` is the path
without a price. `frozen` remembers that the last mark met a kill switch, `raced` that a
tick committed over a row it had not loaded.

### 2.6 FeeCollection

A page charges last month's fee (`ChargeRead`, `ChargeWrite`, two steps because the mark
is read before the row is inserted); the button selects the due rows FOR UPDATE,
signs, commits "sending", sends and records (`CollectSelect` to `CollectEnd`). `Die`
may come anywhere. `sends` is history: the months each transfer paid. `EndTrade` may
book a close in the month before: the fill is stamped when it is read and committed
later. `torn` lists months whose row was written behind another page's: the mark it was
charged from was no longer the table's, or a later month had its row already
(`Overtaken`).

### 2.7 TradeAlerts

A tick records the events without a row, pushes what is not pushed, then delivers:
`Pick` takes the oldest pending row that no other tick has locked (SKIP LOCKED) and
whose trade is not waiting, `Arrive` is the message on the phone, `Sent` the mark,
`Refuse` any `AlertSendError` with the backoff and `MAX_ATTEMPTS`, `Limit` the rate limit.
`log` holds the events in the order of their times; `todo` and `Candidates` are positions
in it, of which a tick takes the `Oldest`. A reply that the code does not recognise counts as
sent, so `Sent` may come without `Arrive`.

`devices` are the push subscriptions (`Subscribe`, `TestPush`). `SendAll` asks every device
and deletes the ones that are gone; `PushMark` marks the alert whatever was answered, so a
mark says that the devices were *asked*, not that a phone rang. `GrowOld` is the window
`FRESH`: after it an alert is never listed again. A push that raises is a tick that dies.

The history variables count arrivals and arrivals nobody recorded, keep the devices an alert
is still owed to, and the trades whose open was hidden by another tick's lock.

### 2.8 LabBook

`db` is what is committed, `tx` what the holder of the row locks has flushed, `mem[s]`
a session's objects and `base[s]` the same as loaded. `Flush` writes changed columns
only, because `db/session.py` switches autoflush off and the queries in between read the
table. The tick judges (`Open`, `Skip`), settles (`Hold`, `Partial`, `Close`,
`Unmarkable`), and, in an arm with the ratchet, sells the book and banks the cycle.
What the operations do to a book is said once, whoever does it: `Booking` moves the cash
with a position, `Opened`, `Halved` and `Closed` are bookings, `Marked` and `Judged` change
no position's account. A partial of the exit rules and a trim by hand are the same `Halved`.
Hand closes and trims run in their own sessions without the tick's lock. `cycling` is
chosen at the start, so one run covers arms with and without the ratchet.

### 2.9 Enrichment and CircuitBreaker

`Enrichment` has one row per token. A worker's claim, answers and commit are one
transaction, so the row is locked from `Claim` to `Enrich` or `Die`; beats wait for it.
Times are kept as what is left to wait or as how long ago, up to the limit the code
compares with, so the state space is finite without a bound on the clock. Which tokens
are displayed or on the radar is the environment's.

`CircuitBreaker` has the breaker's fields and the requests in flight; its specification is
`BreakerSpec`, so that one module can hold the proofs of both. Reading the state
makes the OPEN to HALF_OPEN transition (`Observed`), so every method and the health
endpoint go through it. The failures counted past the threshold stop at `MaxFailures`.

## 3. What TLC checks

| run | instance | states | what it shows |
|---|---|---|---|
| `rail_races` | 1 buy, 2 executor passes, 2 exit passes, 2 attempts, threshold 2 | 2.6 million | nothing sent or sold twice, books follow the chain, retries are safe |
| `liveness` | 1 own-switch buy, 2 passes, 1 exit pass, 1 attempt, threshold 1, 1 clear, no symmetry | 110 thousand | `IntentResolves`, `FailureBudget`, `IInv`, `TerminalIsFinal`, `ImplementsLedger` |
| `entry_ticks` | owner and an own-switch member, 3 coins, 2 ticks, limit 1 | 1.4 million | `EntryInv`, `DailyTradesBound` |
| `entry_stop` | the same with 1 coin, no symmetry | 52 thousand | `StopDrains` |
| `entry_own_switch` | expected violation | | `OwnSwitchTrades` |
| `switch` | 2 requests, 1 process, 1 rug, 2 arms, 3 stamps, 1 restart | 963 thousand | `SwitchInv`, `OneStopPerRug`, `RestartIsUndoneOnce`, `ImplementsSwitch` |
| `lab` | 2 coins, the tick and one hand session, arms with and without the ratchet | 630 thousand | `LabInv`, `SequentialBooks`, `ConcurrencyHolds`, `FailedIsFinal` |
| `mark` | 2 ticks, 4 multiples, 2 hours | 536 thousand | `MarkInv`, `HeldMeansNoStop`, `TimeExitComes` |
| `breaker` | 4 requests, threshold 5, 2 probes, cool-down 2 | 471 | `TripsOnThreshold`, `ClosesAgain` |
| `enrich` | 1 token, 2 replicas, threshold 3 | 44 thousand | `EvidenceInv`, `ParkedOnEvidence`, `NeverStranded` |
| `alerts` | 1 position, 2 ticks, 1 device, 2 attempts | 341 thousand | `AlertInv`, `TwiceOnlyIfLost`, `OpenArrivesFirst`, `PushedMeansAsked`, `AlertEnds` |
| `fees` | 2 requests, 4 months, 3 trades that gain or lose 4 | 483 thousand | `FeeInv`, `FeeSentOnce`, `PaidWasSent`, `ChargedOnce` |

**Bounds.** One buy is enough for the rail's safety: positions share only the
switches and the counter, and two passes on one intent are the race; the theorems
remove the bound. Two attempts let a retry race its predecessor. `MaxAttempts` and
`MaxClears` bound the model, not the code. In `entry_ticks` three coins leave room to
exceed `MaxTrades + |Drivers| - 1 = 2`. In `switch` three stamps let two Starts
follow a rug's close, or one precede and one follow it, and two requests with a tick are three sessions on one row. In
`lab` `Size`, `Start` and one mark above cost let an arm fail, double and reach its
target; the rung above the first doubling is out of its reach, and `LabInvariant` has every
set of rungs. In `mark` the multiples reach the break-even, trailing and dead-pool rules from
both sides, the targets lie above them (`HeldHasNoStop` has them all), and two hours are before and after the time
exit. `MaxFailures` of the breaker is past the threshold, where more failures change
nothing. One token is enough for `enrich`: rows share only the workers. In `alerts` two
attempts are one retry and one giving up; one device that comes and goes shows an alert owed,
asked about and excused. In `fees` four months let a month without a
row lie between two that have one, and equal gains and losses let two months leave the
same mark. Symmetry permutes passes, ticks, coins and requests
and is left out of the runs with a temporal property that needs fairness.

**Fairness.** `IntentResolves` assumes: a pass that has started takes a step or
dies (task time limits); every unfinished intent gets its turn again and again,
because every tick lists all of them; blockhashes expire and time passes; and
from some point on the RPC answers and passes do not die. That last one is
written as `<>[][Reliable]_vars`: before that point anything may be lost.
`StopDrains` assumes only that the executor walks every unfinished intent and that
a pass beyond the guard ends; ticks, the operator and the brake are not fair.
`TimeExitComes` assumes the clock and the minute tick, which may fail but not every
time; nothing of the fast loop. `ClosesAgain` assumes that time passes, the worker keeps
asking, every call ends (HTTP time limits), and that from some moment on the provider
answers (`Recovered`). `NeverStranded` assumes the clock, the backfill and requeue beats
(`workers/celery_app.py`), and workers that poll and are not killed in every batch.
`AlertEnds` assumes the beat, the clock, and that from some moment on no worker dies and
the rate limit lets up (`Survives`); a WhatsApp service that refuses for ever is allowed, and
so is a push service that does, or an alert that grows old unpushed.

**What the history variables exclude.** Some promises of the comments hold only outside
a race the code has. Those properties name the race and claim everything else:
`SequentialBooks` (`raced`), `HeldMeansNoStop` (`raced`, `frozen`), `ChargedOnce` (`torn`),
`OpenArrivesFirst` (`hidden`), `TwiceOnlyIfLost` (`lost`). The properties of the switch and
`PushedMeansAsked` exclude nothing. The next section says what the races do.

### 3.1 Where the code and its comments disagree

With a run:

* **Own-switch members.** `real_wallet/driver.py:116` says they "keep trading when the
  main wallet is stopped". The driver does create their buys; `executor.py:168-171`
  blocks each one (`OwnSwitchTrades`).

Met while modelling; the model has each of these behaviours:

* **Open positions.** `scheduler.py:433-435` says the limit bounds "the book however
  fast this runs". The count sees OPEN rows only: a buy that is created, signed or
  submitted is invisible to the next tick and to the executor's second look.
* **One coin.** `core/config.py:1065` gives "the most every wallet together may put into
  ONE coin". Two overlapping ticks each see the other's buys too late.
* **STOP.** `autotrade.py:5` says stopping is unconditional. A STOP that loads the row
  before a START commits finds it off, writes nothing, and the START stays on: as on an
  atomic switch where STOP came first, but the operator saw it answered last.
* **Restart.** `rug_brake.py:11` says a restart "is never stopped by the rug he restarted
  after". A Start that commits while `worth()` is awaited is, once per process and no more
  (`RestartIsUndoneOnce`).
* **A lost STOP.** "One more rug ... stops the trading" (`rug_brake.py:1-2`). `_weighed`
  remembers the rug before the STOP is committed (`rug_brake.py:67`): a tick that rolls back
  in between leaves the wallet on, and that process does not ask again.
* **Two STARTs** can leave the strategy of one with the ticket of the other
  (`autotrade.py:162`).
* **Peak.** `exit_driver.py:309` says it "only ever rises". Of two overlapping ticks the
  lower peak may be written last.
* **Fees.** Two pages on both sides of a month's end read the same mark and charge the
  same gain (`user_fees.py:78`). So does a page that writes a month's row after a later
  month has one: the mark it leaves is not the newest, and the next month is charged from
  the older row's. A transfer may leave while the wallet trades, because
  `_busy` is read before the balance, the blockhash and the signer are awaited
  (`user_fees.py:101-102`). A signature returned by the node counts as collected though
  the chain may drop the transfer (`user_fees.py:161`).
* **Alerts.** A worker that dies between the message and its mark sends it again
  (`trade_alerts.py:20-21`). SKIP LOCKED hides an open another tick is sending and the
  close overtakes it (`trade_alerts.py:459`). Two passes push one alert twice
  (`push.py:4-5`). An alert counts as pushed when every device refused it or none was there
  (`push.py:121-123`), and is never pushed once it is 30 minutes old (`push.py:110`); a reply
  nobody has seen counts as sent (`trade_alerts.py:167-170`).
* **Lab.** A hand close and a settle that both read the cash first lose one of the two
  credits (`lab/service.py:1039-1040`). The breaker asks the table about a close that is
  not flushed (`lab/spec.py:77`). After a partial the banked proceeds are in the cash and
  in the open value (`lab/service.py:1372`). A cycle is banked although a position could
  not be sold (`compound/service.py:26`).
* **Breaker.** "A single probe" (`services/market/circuit_breaker.py:5`): every caller is
  admitted while it is half open. "Only fully closes after that probe succeeds" (`:6`): the
  answer to a request sent before it opened closes it.
* **Lanes.** A token that came on screen after the last beat is retired
  (`services/market/service.py:432`); the beat pulls a failing token forward and cancels
  its backoff (`services/market/scheduler.py:147`).

## 4. What TLAPS proves

For every set of buys, passes and exit passes, and every bound:

* `RailInvariant`: `Spec => []IInv`, and from it `TypeCorrect`, `NeverResent`,
  `RetryIsSafe`, `ExitStaysBound`, `NeverSoldTwice`, `BooksAreTrue`,
  `DisputesAreReal`, the action property `TerminalStatesAreFinal`, and the
  refinement `RailImplementsLedger`.
* `FailuresAreBounded`: `Spec => []FailureBudget`.
* `EntryInvariant`: `Spec => []EntryInv`, and from it `TradesAreBounded`.
* `SwitchInvariant`: `Spec => []SwitchInv`, and from it `StopsOncePerRug`,
  `RestartsAreUndoneOnce` and the refinement `SwitchIsAtomic` of `AtomicSwitch`, for every
  number of requests, processes, rugs, strategies and sizes.
* `MarkInvariant`: `Spec => []MarkInv`, and from it `HeldHasNoStop`, for every number of
  ticks, every multiple and every level of the exit rules.
* `FeesHeldApart`: `Spec => []FeeInv`, and from it `FeeNeverSentTwice`, `FeesPaidWereSent`
  and `GainsChargedOnce`, for every number of requests, months and trades and every gain
  and loss.
* `AlertInvariant`: `Spec => []AlertInv`, and from it `TwiceOnlyWhenLost`,
  `OpenBeforeClose` and `PushedWereAsked`, for every number of positions, ticks, devices and
  attempts.
* `EvidenceInvariant`: `Spec => []EvidenceInv`, and from it `ParkedOnlyOnEvidence`, for
  every number of tokens and replicas and every setting.
* `BreakerTrips`: `BreakerSpec => []TripsOnThreshold`, for every number of requests and
  settings.
* `LabInvariant`: `Spec => []LabInv`, and from it `LimitHolds`, `BooksBalance` and the
  action property `FailureStays`, for every number of coins and hand sessions, every stake,
  limit and mark, with and without the ratchet.

Every safety property the passing runs check is a theorem.

The assumptions are `RailAssumption`, `EntryAssumption`, `SwitchAssumption`,
`MarkAssumption`, `FeeAssumption`, `AlertAssumption`, `EnrichmentAssumption`,
`BreakerAssumption` and `LabAssumption`: bounds and settings are natural numbers, positive where the code
divides or counts up to them, the null values are not members of the sets, the sets that
are counted are finite. `MarkAssumption` also says that the partial, the target and the
break-even arm lie above 1.0x and that the trailing stop keeps less than the whole peak:
every strategy of `lab/spec.py` and `PUMP_EXITS` (`exit_driver.py:94`) do, and at a level of
1.0x a position would be due for sale before its first mark.

**Why IInv.** None of the properties is inductive. `PassInv` says what a pass read,
by where it stands, and that past the commit the intent never leaves the submitted
side. `SendInv` says the bytes are with at most one pass or were handed over, which
gives `SentOnce`. `VerdictInv` says that what a pass concluded about the chain can
no longer change: a pass at `fail` knows the transaction reverted or is dead. That
is where `DROPPED_AFTER_SECONDS` and the order of the two RPC questions matter.
`ExitInv` says the sells of a position are numbered without a gap and all but the
last sold nothing; with `VerdictInv` it gives `ExecutedSellBound` and `SoldOnce`.
`BookInv` ties positions to confirmed intents. The step lemmas go action by action;
`ReleaseOnly`, `ContinueOnly`, `StatesKept` and `PreSubmitMove` carry the parts an
action does not touch.

**Why Armed.** `FailureBudget` counts the passes beyond the guard as failures to come.
It is not inductive by itself: the guard may let a whole round through. `Armed` says
that while the switch is off the counter is a whole round below the budget; a failure
moves one unit from the passes to the counter, and a clear opens one more round.

**Why EntryInv.** `TradesInv` counts a tick that passed the policy for a wallet as a
buy from that moment, in flight or not: the sum of committed buys and such ticks
stays below the limit plus the number of ticks. `TickInv` says a tick holds at most
one buy per wallet, so committing moves one unit from one term to the other, in the
middle of the tick too.

**Why FeeInv.** `OwnRows` says two requests never hold a row in common, `HeldStatus` that
a held row is due until the commit and "sending" after it, `UnsentRows` that a request
about to send has rows in no transfer, `SentStatus` that a row in a transfer is never due
again. Together they carry `FeeSentOnce` through crashes, because a row given up after
the commit stays "sending". The newest row of `Mark` exists because a non-empty set of
months has a last one.

`PaidWasSent` needs `AnsweredSent`: a request that has an answer has sent. `ChargedOnce`
needs `GainsInOrder`: the rows written so far leave marks that rise from month to month, and
the mark a page reads is the newest month's. The attempt to prove it with `torn` as a
stale mark alone failed for a reason: a row written behind a later month's, from the same
mark, charges a gain again, and the old instance, whose losses were smaller than its gains,
never reached it.

**Why SwitchInv.** `LockInv` says one session at a time is between flush and commit, so a
column that differs from a session's copy changes only by a commit of another: that is what
the refinement needs to place a call's effect at its load when it writes nothing, and at its
commit when it does. `WeighInv` ties the presses of a process to what it has weighed;
`RugInv` says a rug being weighed has closed, so a Start cannot be stamped before it later.
`UndoneInv` says a process that has undone a Start newer than a rug is not weighing that rug:
when it reads the row again the rug is older than the Start, or the count began anew.

**Why MarkInv.** `HeldMeansNoStop` speaks of the row; what a commit writes is a tick's
object. `TickInv` says that object is the loaded row with one mark more, and free of stops
when it asks for no exit, or the loaded row's marks. `RowInv` says the row's columns are what
the whole history of marks makes them. A commit on the row it loaded carries one into the
other; over another row it sets `raced`.

**Why AlertInv.** `LockInv` says the row a tick sends is its own and pending until it says
otherwise. `ArrivalInv` counts the arrivals of a message as the lost ones and at most one
that is recorded or about to be. `LogInv` puts every open before its close, in the log and in
the table, and `SettledInv` says a close is picked only when its open is neither missing nor
pending; since SKIP LOCKED and the waiting list are the only ways to pass a row over, and
the waiting list holds the close back too, the lock of another tick is the only exception.
`AskedInv` says what is being marked was asked about, and that a listed alert was recorded, so
no later record can make a device be owed it again.

**Why EvidenceInv.** `ClaimInv` says a claimed token is held by one replica, which has the
failures and the last success of the committed row: no beat writes past the lock. `CountInv`
bounds the failures of a row by the calls that failed. Parking is decided on the replica's
copy and needs both.

**Why LabInv.** The properties speak of the committed rows; a commit replaces them by the
rows under the lock, and those come from a session's objects through a flush that writes
only the columns that differ from what was loaded. `LabInv` therefore says of every copy
what the next one needs. `Held` says who may have flushed. The limit holds of `tx` as well,
and `OnlyCloses` says that in memory a position only ever closes, so a flush of old objects
opens nothing and `CanOpen`, which counts the flushed rows, is the only way up. `Failing`
says that a failure no session wrote stays in the row: a hand session that loaded the row
before it failed has the same `failed` in its object as loaded, so its flush leaves the
column alone. This is what `ChangedAll`, a flush that writes every column, breaks.
`Undecided` says a coin without a decision has no position in any copy, so `Open` never
overwrites one. `TickBooks` and `HandBooks` say that a session nobody has overtaken writes
over the very rows it loaded; without that the flush mixes two books, and the cash and the
positions of the mixture need not agree: that is the race `raced` excludes.

The balance is a sum over the coins. `SumChanges` says that a change of one position changes
the sum by that summand, and `MovesBalance` that a `Booking` whose cash is that difference
keeps the balance. The sum is a fold, defined by recursion on finite sets. What is proved of
it rests on `SetInduction`: a property given as the set of subsets that have it holds of
every subset, because a counterexample would have a minimal one. The library's theorem takes
the property as an operator, which the provers cannot instantiate; a set they can.

**Only model-checked.** Liveness (`IntentResolves`, `StopDrains`, `TimeExitComes`,
`ClosesAgain`, `NeverStranded`, `AlertEnds`), because fairness and ENABLED are beyond the
prover; and `OwnSwitchTrades`, which the code violates.

## 5. Plan

1. *(done)* `ExecutionRail`, `TradeLedger` and their proofs, `FailureBudget` included.
2. *(done)* `EntryBook` and its proofs.
3. *(done)* `AutotradeSwitch`, `PositionMark`, `FeeCollection`, `TradeAlerts`, `LabBook`,
   `Enrichment`, `CircuitBreaker`.
4. *(done)* Proofs of the invariants of the switch, the marks, the fees, the alerts, the
   enrichment, the breaker and the lab, and the refinement of `AtomicSwitch`.
5. `DevnetIntent`: the hand-driven twin of the rail, with quote and approval expiry.
6. The account close sweep against a buy in flight, the RPC router, the paper book.

## 6. Not modelled

Transaction bytes and their inspection, prices and sizes, SEC-2's scoring and candidate
filters (each is a nondeterministic outcome), the order in which members take turns, the
day boundary of the daily counts, the texts of alerts, the merge of market data providers,
and the components of section 1.2 outside its table.

Left out inside a modelled component:

* `ExecutionRail`: the signature in the reply of `/execute` replaces the recorded one
  (`live_repository.py:584`); the model has one signature per intent, the one that was signed.
* `PositionMark`: a position whose strategy is not in the registry is skipped, marked by
  nobody (`exit_driver.py:206-209`). `TimeExitComes` is about the others.
* `Enrichment`: the LIMIT of a claim and the order of its lanes (`repositories/market.py:680-697`).
  `NeverStranded` says a token's row stays claimable, not that a stream of tokens with a higher
  priority leaves it a place in a batch.
* `LabBook`: the linear sizing mode (`lab/service.py:790-794`), which no registry asks for.
* `TradeAlerts`: the pause between messages and, in `send_all`, the moments between two devices.

Most of the repository's lines are numeric rules over market data, research reports,
configuration, views and generated code: they keep no protocol state, and a model of them
would be a transcription.
