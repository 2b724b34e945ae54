# APGE: models, checks and proofs

APGE is a grid trading bot for a spot testnet: a strategy derives a ladder of limit
orders from the best bid and ask, an execution engine submits them through a risk
engine that guards a position limit, every order is written to SQLite before it is
sent, and websocket threads report fills and handle loss and reconnect. This directory
holds TLA+ models of that code (`src/src/apge/`), the TLC runs that check them and
proofs that TLAPS checks. Paths below are relative to `src/src/apge/` unless they start
with `docs/` or `experiments/`.

## 1. Inventory

### Components

| component | state | operations | correct when |
|---|---|---|---|
| **RiskEngine** (`simulator.py`) | system_state, position, reservations, approvals and their registry, orders, processed fill ids, conflicts | request_approval, cleanup_expired_approvals, consume_approval_and_submit, on_fill, request_cancel, on_cancel_confirmed, resolve_order, resolve_conflict, lose/restore_connection, complete_reconciliation, manual_reset | the ledger never counts less than approvals, orders and fills hold; nothing stale is submitted; contradictory reports stop trading and delete no risk; one unknown order at a time |
| **ExecutionEngine** (`execution_engine.py`) | none of its own; writes the store and the risk engine | execute_proposal, cancel_order, handle_order_update | write-ahead; no id sent twice; a timeout frees nothing |
| **Persistence** (`persistence.py`) | tables intents, fills, runtime_state | save_intent, update_intent_status, add_fill, queries | one row per id, one booking per fill id, both survive a crash |
| **Reconciler** (`reconciliation.py`) | locals of one call | resolve_state | afterwards the store agrees with the exchange, or the answer is False |
| **TestnetRuntime, transports** (`testnet_runtime.py`) | cached balances, market data, two websocket threads | run_grid_cycle, handle_connection_loss, handle_reconnect, handle_user_data_event | the store is reconciled before a reconnect trades again; no risk is lost to a connection that comes and goes; reconnects end. The documents also ask that nothing is sent after a loss or a halt and that HALTED stays, which the code does not keep (section 5) |
| **GridStrategy** (`grid_strategy.py`) | none | generate_grid_proposals | proposals stay within the inventory, prices are sound and distinct |
| **BinanceAdapter** (`binance_adapter.py`) | none | submit, cancel, query, lists, status mapping | unknown outcomes are reported as UNKNOWN and never retried |
| **bot_runner** (`bot_runner.py`) | the main thread | start-up reconciliation, five cycles, exit | no cycle before a reconciliation succeeded |
| **M3B engine** (`experiments/APGE_Hybrid/m3b_*.py`, called M3B below) | tables reservations, proposals, fills; halted, realized; Nautilus' orders and position in memory | reconcile, evaluate_and_submit, check_timeouts, process_venue_event, on_event | an active engine's books agree after any crash or exception; a fill is in the log before it is anywhere else; a proposal becomes one order; a grant respects what the venue may still execute |
| M1, M2 (`experiments/APGE_Hybrid/m1_*.py, m2_*.py`) | none that lasts | back-tests | not modelled |
| smoke script (`scripts/testnet_smoke.py`) | none | adapter calls in sequence | not modelled |

### Interactions and threads

Three threads share one risk engine and one store:

- **main** reconciles, writes OPERATIONAL or HALTED (`bot_runner.py:96-102`), then runs
  five cycles. A cycle computes the desired levels, cancels open orders that are not
  among them and submits the missing ones, one after the other.
- the **user stream** thread delivers order updates to `handle_order_update`;
- the **market stream** thread only delivers prices, but has the same loss and
  reconnect handlers, which reconcile the store from that thread.

The risk engine's methods hold its lock and every store method is one transaction.
Nothing else is atomic. `system_state` is assigned **without** the lock at
`execution_engine.py:99`, `bot_runner.py:78, 98, 102, 136` and
`testnet_runtime.py:223, 232, 238, 241`. A status is read, used and written in separate
transactions (`execution_engine.py:154-192`), and the reconciler reads its rows once
and works through them with a request to the exchange in between.

The M3B engine is a program of its own, an experiment with Nautilus Trader that the bot
does not import. It has one thread; its hazard is that a handler makes up to six writes,
to a database and to objects in memory, and may stop between any two of them.

### What is hard

Interleavings of the three threads around lock-free state; an answer that is lost while
the order lives on; an event that overtakes the answer it belongs to; events lost while
the stream is down or delivered twice; a reconciliation racing an order on its way; a
crash between saving and sending; fills, confirmations and corrections of one order in
any order; rounding at the end of the inventory; in M3B, events in any order and more
than once, handlers that fail half way, and restarts that bring back a part of the
orders. `PROJECT.json` lists each hazard at its
line with the properties that cover it.

## 2. Modules

| module | models | remarks |
|---|---|---|
| `RiskUnits` | sums of tables of amounts | as cardinalities of sets of units, so that they can be proved about |
| `RiskEngine` | `simulator.py` | one action per public method and outcome |
| `MCRiskEngine` | | symmetry over order and fill ids |
| `RiskVenue` | `simulator.py` against a truthful exchange | composes `RiskEngine` with the exchange its reports come from |
| `BoundedExposure` | the promise in the docstring of `RiskEngine` ("Capacity") | abstract; `RiskVenue` implements it, and so does `GridBot` within one process |
| `MCRiskVenue` | | one fill id per lot |
| `Exchange` | the exchange, and `_map_order_state` | external: truth against which the bot is judged |
| `Persistence` | `persistence.py` | operators on `intents` and `fills`, used by the two below |
| `Reconciler` | `reconciliation.py` | `resolve_state` on whichever thread calls it, one request or transaction a step |
| `OrderBook` | the life of an order: recorded, placed, traded, booked, over | abstract; `GridBot` implements it |
| `GridBot` | `execution_engine.py`, `testnet_runtime.py`, `bot_runner.py` | composes all of the above; `Risk == INSTANCE RiskEngine` |
| `MCGridBot` | | instances of GridBot |
| `GridStrategy` | `grid_strategy.py` | one step per level of the two loops |
| `MCGridStrategy` | | the calls to check |
| `EventResilience` | M3B, class `M3BRiskEngine` | one step per write of a handler |
| `Journal` | a write-ahead log: a trade is executed, written, booked, applied | abstract; `EventResilience` implements it |
| `MCEventResilience` | | two orders, one trade without a position id |
| `RiskUnitsProofs`, `RiskEngineProofs`, `RiskVenueProofs`, `GridBotProofs`, `GridBotLedgerProofs`, `GridBotBookProofs`, `GridStrategyProofs`, `EventResilienceProofs` | | section 4 |

### RiskEngine

Variables have the names of the attributes. Decimal amounts are counted in lot steps.
Orders of both sides use one unsigned position, as in the code (`on_fill` adds, whatever
the side). The registry maps an approval id to its reserved amount, 0 when it has no
record. Two comparisons with unbounded counters are kept as sets: `stale` holds the
records whose version is not the current risk version (`BumpRiskVersion` makes every
record stale), `lapsed` those whose expiry is before the clock. An approval object that
another engine issued under the same id (ids start at 1 in each) is an input
`own = FALSE`. Every refusal that changes state is an action of its own; calls that are
refused without a change are not steps. Exceptions for malformed arguments are the
inputs `Invalid`.

### RiskVenue and BoundedExposure

`RiskEngine` takes any report in any state, so it can say what the engine believes but
not whether it is so. `RiskVenue` adds the exchange: an order placed by a consumed
approval trades lot by lot and may close, and the calls `on_fill`, `on_cancel_confirmed`,
`resolve_order` and `resolve_conflict` are made with what the exchange can truthfully
say, at any later time, in any order, repeatedly or never. A total is reported only of
an order that will not trade any more, as the callers do; `resolve_order` may also carry
the 0 that `execution_engine.py:108` passes. The engine's other calls are free.

`BoundedExposure` is the promise to the account, without approvals, reservations,
reports or system states: an order is placed once and only if everything executed, open
and new fits the limit. Seen from the exchange (`executed`, `open`, `placed`), every
behaviour of `RiskVenue` is one of `BoundedExposure` (`KeepsPromise`).

### GridBot

`pc[t]` says where a thread is, `cycle`, `update` and `rec` are its locals. Each action
is one call to the risk engine, one transaction, one request to the exchange or its
answer, or one assignment of `system_state`:

| code | actions |
|---|---|
| `bot_runner.py` main | `Start`, `Abort`, `BeginCycle`, `EndRun`; a crash or a new run is `Restart`, which renews the risk engine and keeps the store and the exchange |
| `run_grid_cycle` | `BeginCycle` (with the state it is called with), `Diff`, `EndCancels`, `NextProposal`, `EndCycle` |
| `execute_proposal` | `RequestApproval`, `GenerateId`, `Consume`, `Save`, `Send`, then `Acknowledged` + `RecordAck` + `Resolve`, or `Rejected`, or `TimedOut` + `Interrupt`, or `Raise` |
| `cancel_order` | `CancelOrder`, `RecordCancel` |
| `handle_order_update` | `ReadUpdate`, `BookTrade`, `ReportFill`, `WriteUpdate` |
| websocket threads | `Connect`, `LoseConnection`, `Reconnect`, `Reconcile` (the steps of `resolve_state`), `Reconciled` |
| the exchange | `Trading`: accepts, refuses, loses, fills or expires orders and publishes events |

Abstractions: the strategy may want any set of levels, and none while HALTED or
CONNECTION_LOST, which includes whatever `GridStrategy`, the inventory cache, the symbol
filters and stale prices could make it want; every order has the same quantity and
trades lot by lot; an approval's payload matches (it is built from the same proposal);
the TTL never passes, since `mock_time` is advanced by tests only; a client order id is
the level and the number of earlier orders at that level, which is what the hash is made
of. Left out: SQLite's lock timeouts and the IntegrityError of two equal fill ids
inserted at the same instant; time synchronisation; signing and parsing. The production
HTTP transport raises exceptions the adapter does not catch, which end main (`Raise`).

### OrderBook

The promise about each order, without cycles, approvals, connections, reconciliations or
restarts: it is recorded, then placed, once; it trades a lot at a time until it is over,
and over it stays; a trade is booked only when it happened; and no record and no booking
is ever lost. `GridBot` maps the rows of `intents` to `recorded`, the fills that the
stream booked, each under its exchange trade id, to `booked`, and the exchange's records
to the rest (`KeepsBook`). The reconciler's own fills are sums and not trades, and are
left out of `booked`.

The status a row has is no part of the promise: what the code keeps of it is
`FilledIsTrue` (nothing is called FILLED too early), and what it does not keep, though
its comments say it does, is finding 4.

### GridStrategy

Decimals are natural numbers of some finest unit, of which the tick and the step are
multiples. Rounding is `Down`; Decimal's `//` truncates where TLA+ rounds down, which
differs for negative prices only, and those are skipped either way. The function keeps
nothing from call to call, so a behaviour is one call.

### EventResilience

The database (`reservations`, `proposals`, `fills`), the engine's attributes (`halted`,
`realized`) and Nautilus' objects (`native`, `cached`, `position`; `saved` is what
Nautilus restores) are separate variables, because a handler writes them one after the
other. `job` is the handler that is running and its next write:

| code (M3B) | actions |
|---|---|
| `evaluate_and_submit` | `EvaluateAndSubmit` (one transaction, then the object) |
| `process_venue_event` | `ReceiveOther`, `ReceiveFill` (writes the log), `RefuseFill`, `ApplyEvent` (`order.apply`, with the errors it ignores and the recovery it verifies), `UpdateCache` |
| `on_event` | `OnEvent`, `OnEventEarly`; a fill is `OnFill`, `MarkApplied`, `ReleaseFilled` |
| an exception at any write | `Fail` |
| `check_timeouts`, `reconcile` | `CheckTimeouts`, `BeginReconcile`, `Recover` (re-enters `process_venue_event`), `FinishReconcile`, `AbortReconcile` |
| `__init__` on an existing database | `Crash`: orders come back as saved or as the venue has them, the position as it was or as their fills make it |
| the venue and the trader (external) | `Send`, `VenueStep`; every true event may be delivered at any time and again |

Nautilus' order state machine is external too: `Outcomes` says which events an order
applies, ignores or refuses, and where versions of the library differ, all of it. The
ghost `lapsed` collects the orders whose reservation went while their state was in
memory only. A proposal, its client order id and its order are one value, a fill is one
lot, a clock reading is the set of reservations it finds too old.

Two assumptions deserve a name:

- **A restart brings the position back**, as it was or as the fills of the restored
  orders make it. The code itself writes only a new position to the cache (line 597) and
  applies later fills to the object without `cache.update_position` (line 563); the
  file's own restart scenarios rebuild the position from fills (lines 795, 984). What
  `KeepsJournal` says of a restart, and `BooksAgree` after one, rests on it. `reconcile`
  compares the position with the log, so with an older one the engine would stay halted.
- **All orders are on one side**, as in those scenarios. The code adds up quantities
  whatever their side and compares the sum with `pos.quantity` (lines 200, 272), which is
  what is left after both sides offset each other; with both sides the two would differ.

### Journal

The promise of M3B's log, without orders, events, caches, reservations or the way a
recovery works: a trade is written only when the venue executed it, booked in the position
only when it is written, and marked as applied only when it is booked (or belongs to no
position); an active engine writes no trade before the last one is applied; a restart
loses nothing that was booked and books nothing that was not executed; and the engine
resumes only when the rows, the applied rows and the position are the same trades.

## 3. Runs

Deadlock checking is off where the program stops: after main's last cycle, and after the
strategy returns.

| run | instance | question |
|---|---|---|
| `risk_engine` | 2 orders, 2 fill ids, 3 approvals, amounts up to 2 or invalid, limit 3 | does any sequence of calls corrupt the ledger, the gates or the records? |
| `risk_venue` | 2 orders of 1 or 2 lots, 3 approvals, limit 3 | against a truthful exchange, does the limit hold at all times, is every conflict real and resolvable, does anything leak, is the promise kept? |
| `grid_bot` | 1 level, 2 orders of 2 lots, user stream, 2 cycles, 2 losses, limit 4, fair | does the engine cover the exchange and count no more than was bought, is FILLED true, is the order book's promise kept, does every reconciliation end? |
| `grid_streams` | both streams, 2 orders of 1 lot, 2 losses, limit 2 | the same gates while two threads reconcile at once |
| `grid_restart` | user stream, 2 orders, 1 loss, 1 crash or restart at any step | is everything on the exchange in the store, is no id sent twice, does trading start on a store that agrees with the exchange, is the order book's promise kept over the crash? |
| `grid_strategy` | 8016 calls | are proposals within the inventory, priced soundly and dealt out as the reference says? |
| `event_resilience` | 2 orders of 2 lots, limit 3, one trade without a position id; exceptions, crashes and reconciliations without a bound | do the books agree whenever M3B's engine is active, does it grant within the limit, does it keep the promise of a write-ahead log? |
| 5 runs expecting a violation | the smallest instance that shows it | findings, section 5 |

**Why the bounds are enough.** Risk engine: two orders are what it takes for one to be
granted what another released; two fills make a partial and a final one, or a late and
an excess one; three approvals let one be consumed, one be stale and one be pending; the
limit of 3 lies between one and two orders of 2. The proofs of section 4 remove these
bounds. Grid bot: two cycles submit, cancel and submit again at one level, so there is a
retry with a new id; two losses interleave two reconciliations; two lots make a partial
fill. More levels only add submissions by the one main thread, which run one after the
other. Strategy: spacings below and above the tick, prices that reach zero, sizes that
are no multiple of the step, inventories beyond the limit on both sides. Risk venue: a limit
of 3 holds two orders only if one is small, filled less or closed. M3B: with two lots an
order is partly filled, and the second order fits only once something is known of the
first; nothing bounds the number of events, failures and crashes.

**What the properties say.** The comments above the definitions say it in full.

- `LedgerCovers`: position is the sum of the orders' fills; reservations cover what
  approvals and orders hold. `OrdersConsistent`, `ApprovalsConsistent`: records of orders
  and approvals agree with themselves and each other whatever the order of reports.
- `ConflictGate`, `OneUnknownOrder`, `Reopening`: what the gates promise.
- `GrowthWithinLimit`, `NoSilentRiskDeletion`: exposure grows only within the limit
  (except by a late correction) and shrinks only where the code means it to.
- `StaleApprovalsNeverSubmitted`: an approval older than the last change of position is
  never consumed.
- `EngineCoversVenue`: what the account may own at worst is at most what the engine
  counts, and that is within the limit. It relates the exchange's own records to the
  ledger across lost answers, events and reconciliations, within one process.
- `CoversVenue`, `LimitAtAllTimes`, `ConflictsResolvable`, `NothingLeaked`,
  `KeepsPromise` (RiskVenue): the same ledger judged by the truth. What the engine counts
  covers what may still trade; the limit holds through corrections too; late, repeated
  and reordered reports make no conflict that a verified report cannot resolve.
- `PositionIsReal`: the risk engine counts no more of an order as filled than the
  exchange executed, whatever events are lost, repeated or late.
- `SingleInFlight`, `NoBlindRetry`, `WriteAhead`, `FilledIsTrue`: submission and store.
- `KeepsBook`: every step of the bot, the exchange, or a crash and restart is a step of
  `OrderBook`, or none: an order goes out once and only on record, nothing is booked that
  did not happen, and no record or booking is lost, to a late write or to a crash.
- `StartsReconciled`: when main's reconciliation has answered True, each active intent is
  of an order that the exchange has, wherever the last process crashed. It is stated of
  main only: while a websocket thread reconciles, main may save an intent that the
  exchange does not have yet.
- `ReconciliationEnds`: a thread that lost its connection connects again.
- `WithinInventory`, `PricesSound`, `DealtOut`: the strategy. The reference of `DealtOut`
  computes every order's quantity from its distance to the market, without a loop.
- `BooksAgree`, `LoggedFirst`: whenever M3B's engine is active, log, realized exposure,
  orders and position agree, and nothing is in an order that the log does not have.
- `KeepsJournal`: every step of M3B's engine is a step of `Journal`, or none. It says of
  the moments in between what `BooksAgree` says of an engine at rest, and of a crash what
  it may change.
- `OneOrderPerProposal`, `GrantWithinLimit`: no second order for a proposal that was
  sent, whatever was released or forgotten; a grant leaves room for all that the venue
  may still execute (late fills of canceled orders and `lapsed` orders excepted).

**Fairness.** Only `ReconciliationEnds` needs it. `FairSpec` assumes weak fairness of
`Recovery(t)`: a websocket thread that is in its loss, reconnect or reconciliation code
is scheduled and goes on, as the OS does. Requests to the exchange must be answered or
fail: an assumption, since the code sets no timeouts on them. Nothing is assumed of main,
of the exchange, or of when connections are lost (at most `MaxLosses` times; the
property is about one reconciliation, which the other threads' writes may disturb).

## 4. Proofs

**RiskEngineProofs** proves every property of run `risk_engine` for every limit, every
finite set of orders and fills, and any number of approvals. The argument is the
inductive invariant `Inductive == TypeOK /\ LedgerCovers /\ ConflictGate /\
OneUnknownOrder /\ OrdersConsistent /\ ApprovalsConsistent`. No part of it is inductive
alone: that a release leaves the reservations non-negative (`TypeOK` cannot see it)
needs `LedgerCovers`; that `LedgerCovers` survives a fill needs the order's `filled` at
most its `initial` (`OrdersConsistent`); that dropping a record takes away what was
reserved for it needs `ApprovalsConsistent`; that a fill of a canceled order keeps
trading open only without a contradiction needs `ConflictGate` and the order's confirmed
total together. The action properties follow from the invariant step by step. The
assumptions are the four named ones of `RiskEngine`.

**RiskUnitsProofs** has the facts about sums those steps rest on: `TotalUpdate`
(changing one entry changes the sum by the difference), `TotalSplit` (a table is the sum
of its parts), `TotalAdd` (the sum of two tables, entry by entry) and `TotalMonotone`. A
sum is defined as the number of units in a set instead of by recursion, because facts
about recursion need induction, which the provers cannot do here.

**RiskVenueProofs** proves `CoversVenue`, `LimitAtAllTimes`, `ConflictsResolvable`,
`NothingLeaked` and the refinement `VenueSpec => KeepsPromise`. Every step of
`RiskVenue` is a step of `RiskEngine` or leaves it alone (`EngineSteps`), so the
engine's invariant is not proved again. What is added is `OrderFaithful`, order by
order: fills are known of placed orders only, what was seen is at most what was
executed, a confirmed total is what the closed order really traded, and what the engine
holds or has counted of an order covers what it may still execute. From there
`AccountWithinLimit` is `TotalAdd` and `LedgerCovers`, and with it the step that places
an order is the abstract one; the other steps map to trades, closings and stutters.
`NothingLeaked` needs two facts more: every step of the engine moves the reservations by
exactly what approvals and orders gain or lose, but for `StrandsRemainder`, a conflict
resolved on a FILLED order that is not filled (`MovesStep` in RiskEngineProofs); and
with a truthful exchange a FILLED order in conflict is filled with its whole size
(`NothingStranded`).

**GridBotProofs** proves four properties of the composed bot, for any number of levels,
orders, cycles, losses and restarts:

- `WriteAhead` and `NoBlindRetry`. The invariant says of each place main may be at what
  is already true of the order it holds (its id is new, its row is written, it was sent
  once), and that an id that the counter of its level has passed is never used again.
- `SingleInFlight`: an order that is on its way is pending in the risk engine; the
  traces of an order that threads hold (an update, a row that a reconciliation read) are
  of orders that have arrived; so nobody but main can move the order it sends, and the
  gate for unknown orders keeps the next one back.
- `FilledIsTrue`: whatever the stream, main and each reconciliation hold of FILLED was
  said by the exchange, and what the exchange says of a full execution stays true.

**GridBotLedgerProofs** proves `TypeOK` and `EngineCoversVenue` of the composed bot, with
the invariant `Accounted == Typed /\ Counted /\ Submitted`:

- `Typed` adds to the types what each thread has in hand at each label. That the id main
  submits exists needs that each level to create still has an unused one (`Room`).
- `Counted`: the position is the sum of what is filled of the engine's orders, the
  reservations cover the approvals on record and what the orders hold, and both together
  are within the limit. Every order the engine knows is counted with its whole size,
  because no handler of the bot ever settles one as canceled.
- `Submitted` is why: the order whose answer main waits for cannot be canceled meanwhile,
  as only main cancels. It also says that the engine knows every order of its own process
  before the exchange does.

From there each order is at risk with no more than it is counted with, and the sums
follow by `TotalMonotone` and `TotalAdd`. The same invariant shows the price the code
pays: as no order's hold is ever released, the limit fills up with canceled orders (finding 5).

**GridBotBookProofs** proves what the bot as a whole promises, through any number of
losses, crashes and restarts. `Booked` joins the invariants of the two modules above,
and `Real` says that nothing that is reported of a trade, in the stream, in hand or
counted, is of a trade that did not happen. From them:

- `KeepsBook`. A step changes the exchange or the store but not both (`OneAtATime`), and
  of the exchange one order's record, in one of four ways: it leaves, arrives, stops or
  executes (`VenueMoves`). The first is `Place`, as an order that leaves has its intent;
  the third and the fourth are `Close` and `Trade`; the second the book does not see.
  What is written into the store is `Record`, or `Book` of the trade in hand, which `Real`
  says happened, or a status or a reconciler's sum, which the book does not see (`BookStore`).
- `KeepsLimit`: until the process is replaced, the bot implements `BoundedExposure` too.
  What orders have traded and may still trade is what they put at risk, which
  `EngineCoversVenue` bounds, after the step as before it. The hypothesis
  `[](restarts = 0)` is needed: the ledger of a new process is empty.
- `PositionIsReal`. The engine counts each trade once and with one lot, so by `Real` it
  counts as many lots of an order as it counted trades, of which there are at most as
  many as the exchange executed. That the answers resolved with a total of 0 add nothing
  is part of it (`FilledKinds`).
- `StartsReconciled`. Until trading starts only main runs, so nothing else adds active
  intents; an order found once stays found (`FoundStays`); and the second phase keeps
  each active intent among those found or those still to be looked for (`Settling`).

`KeepsLimit` has no run: in the instances above the limit is never what stops an order.

**GridStrategyProofs** proves `TypeOK`, `WithinInventory`, `PricesSound` and `DealtOut`
for all arguments. The invariant: while a loop runs, the total it has proposed and what is still
allowed make up the side's capacity, the levels ahead are empty, and the side whose turn
has not come is empty. For `DealtOut` the invariant is `Dealt`: what the loop has proposed
so far is what the reference gives to the distinct prices it has passed, and what is
still allowed is what their shares have left of the capacity. A price that is met again
is passed over by the code and adds no price to the set, so the reference counts prices,
not levels.

**EventResilienceProofs** proves every property of run `event_resilience` for any number
of orders of any quantity, any limit and any trades without a position id. Its
`Inductive` says what each of the copies of an order knows of the venue: what Nautilus
saved is part of what is in memory, and that is part of the truth (`ObjectsSound`); for
each handler, which of its writes are done (`JobSound`, `LogSound`); and for a
reconciliation, what it has verified so far (`ReconcileSound`). The step that matters is
the one that ends a halt: the code compares quantities, and equal quantities mean equal
sets of fills only because the fills in the log are among the order's. That step is also
the heart of `KeepsJournal` (`JournalResume`): the position has every trade that is
applied, so as many on both sides are the same ones. And a restart loses nothing
(`JournalRestart`), because every trade in the position is in an order that was saved,
and by the first assumption of section 2 the position is as it was or has those.

The assumptions are the named `ASSUME`s of the modules, which TLC evaluates in the runs.
Every invariant and every action property of the passing runs is a theorem. Model-checked
only: liveness (`ReconciliationEnds`), which this prover cannot do.

## 5. Findings

Each is a run that TLC finds violated; `PROJECT.json` quotes the line that says
otherwise.

1. `risk_capacity`: `resolve_conflict` accepts late fills beyond the limit
   (`simulator.py:618`), against "at all times" in `simulator.py:118`. The reports of the
   trace are what an exchange that trades a canceled order would send; against one that
   reports truthfully the limit holds (`LimitAtAllTimes`).
2. `grid_halted_lock`: HALTED is overwritten by a timeout, a loss or a reconnect.
3. `grid_operational_gate`: a reconnect writes OPERATIONAL while the risk engine still
   has an unknown order. (Its own gate then refuses every approval: `SingleInFlight`
   holds.)
4. `grid_never_unfilled`: an order update tests the status it read at its start
   (`execution_engine.py:147, 182`) and writes OPEN over a FILLED that another thread
   wrote meanwhile (line 192), against the comments at lines 178-184.
5. `grid_canceled_released`: canceled orders keep their reservation for ever.

Further disagreements with the documents and comments, read off the models and without
a run of their own:

- `execution_engine.py:84`: an order is sent although a loss or a halt came after its
  approval was consumed; `testnet_runtime.py:370`: cancels go out in whatever state the
  cycle finds itself. `docs/APGE_V1_STATE_MACHINE.md:10, 17` says that HALTED blocks all
  automated orders and cancels, lines 11 and 20 that CONNECTION_LOST "immediately
  disables all order and cancel submissions", and
  `docs/APGE_V1_RISK_ENGINE_CONTRACT.md:33` asks for a check of the operational state at
  an atomic boundary before dispatch. `Send` and `CancelOrder` have no guard on the state
  for that reason; `EngineCoversVenue` shows that no risk is lost by it.
- `execution_engine.py:69`: an approval refused because the system state changed keeps
  its reservation (`simulator.py:299`), and nobody calls `cleanup_expired_approvals`. The
  contract (`docs/APGE_V1_RISK_ENGINE_CONTRACT.md:65`) has the reservation of an approval
  that is refused for a change of position released, which the code does; it does not say
  so of a change of state.
- `execution_engine.py:111`: an order that the exchange refuses keeps its whole
  reservation, UNKNOWN in the engine. Line 41 of the same contract has the remaining
  amount released when an order is explicitly rejected.
- `execution_engine.py:192`: a delayed update writes OPEN over CANCELED too, which the
  comment at line 180 forbids as it does for FILLED.

What else the models showed, where no line of the repository claims otherwise:

- `bot_runner.py:77`: a new process has an empty ledger; the limit counts from zero
  while orders of the old process are open.
- `execution_engine.py:106`: the answer of a submission writes its status over whatever
  an event has made of the row meanwhile, FILLED included.
- `execution_engine.py:99`: an order whose answer was lost stays UNKNOWN in the risk
  engine: the reconciler settles the row in the store and never calls `resolve_order`, so
  every later approval of the process is refused. An order that was refused (line 111), or
  whose id exists already (line 62), ends the same way.
- `reconciliation.py:61`: the executed total is booked under `reconcile_fill_<cid>`, also
  where the stream books the same trades under `ws_fill_<trade>`; and the difference that
  a second reconciliation finds has the id of the first and is dropped as a duplicate.
- `reconciliation.py:72-73`: an order still on its way is marked CANCELED when a query
  does not find it.
- `simulator.py:612`: an order resolved as FILLED below its size, then corrected, leaks
  its remaining reservation. No truthful exchange makes it happen (`NothingLeaked`).
- `simulator.py:627`: a conflict resolved below the fills already seen leaves the engine
  with a contradiction that nothing can resolve (nor does this happen against a truthful
  exchange: `ConflictsResolvable`); `simulator.py:305`: a foreign approval of the same id
  drops the record of an own one.
- M3B `m3b_*.py`: a reservation can be released while the order's new state is in memory
  only, so that after a crash the order is back without it (`lapsed`); a fill that comes
  after the cancel can take the exposure over the maximum, which `assert_invariants`
  only notices; a fill without a position id makes every later reconciliation fail; a
  second OrderAccepted halts the engine; `is_recovery` makes no difference to `realized`
  once a reconciliation has overwritten it.
- `on_cancel_confirmed`, `request_cancel`, `cleanup_expired_approvals`,
  `complete_reconciliation`, `manual_reset`, `resolve_conflict` and the engine's
  `lose_connection` and `restore_connection` are called by tests only. They are modelled
  in `RiskEngine` all the same; `GridBot` calls what production calls.

## 6. Not modelled

- `testnet_runtime.py`: time synchronisation, symbol filters, the age of market data,
  balance and price caches. They narrow what the strategy wants, which is arbitrary in
  GridBot.
- `runtime_state`, average prices, time stamps: written, and read by no decision.
- `bot_runner.py`: dry-run mode, which has no exchange, and the reading of settings.
- `binance_adapter.py`: signing, parsing and paging; the mapping of its answers is in
  `Exchange`.
- M3B: rows of older databases without metadata, and the test harness in the same file
  (from line 645).
- M1 and M2 (numerical back-tests), the smoke script (adapter calls and printing).

## 7. Plan

Done: RiskEngine and its proofs; RiskVenue, its abstract specification BoundedExposure
and the proof that it implements it; Exchange, Persistence, Reconciler and GridBot with
the proofs of its safety properties; OrderBook and the proofs that GridBot implements it
and BoundedExposure; GridStrategy with its proofs; EventResilience with its proofs,
Journal and the proof that EventResilience implements it. Next: the dry-run mode, and a
GridBot with two traders on one exchange account.
