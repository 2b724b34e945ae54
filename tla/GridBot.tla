------------------------------ MODULE GridBot -------------------------------
(***************************************************************************)
(* The running bot: the main thread that evaluates the grid and submits    *)
(* and cancels orders (bot_runner.py, testnet_runtime.py run_grid_cycle,   *)
(* execution_engine.py), the websocket threads that deliver order updates  *)
(* and handle loss and reconnect (testnet_runtime.py), the risk engine and *)
(* the store they share, and the exchange.                                 *)
(*                                                                         *)
(* The risk engine's methods are atomic (its lock) and so is each store    *)
(* transaction, but nothing else is: a step is one such call, one request  *)
(* to the exchange or one lock-free assignment of system_state.            *)
(*                                                                         *)
(* Abstractions: the strategy may want any set of grid levels; every order *)
(* has the same quantity; an approval's payload always matches, and its    *)
(* TTL never passes because nothing advances mock_time outside the tests.  *)
(***************************************************************************)
EXTENDS Reconciler, FiniteSets, RiskUnits

CONSTANTS
    Levels,          \* grid levels: a side, a price and a quantity
    Streams,         \* websocket threads: a subset of {"user", "market"}
    Limit,           \* position_limit
    MaxCycles,       \* grid cycles of one run of the bot (5 in bot_runner.py)
    MaxGenerations,  \* bound: orders per level
    MaxLosses,       \* bound: connection losses
    MaxRestarts      \* bound: crashes and restarts

Threads == {"main"} \cup Streams

ASSUME OrdersAssumption == Orders = Levels \X (0..MaxGenerations - 1)
ASSUME StreamsAssumption == Streams \subseteq {"user", "market"}
ASSUME CallersAssumption == Callers = Threads
ASSUME LevelsAssumption == IsFiniteSet(Levels)
ASSUME BoundsAssumption ==
    {Limit, MaxCycles, MaxGenerations, MaxLosses, MaxRestarts} \subseteq Nat

MaxApprovals == MaxCycles * Cardinality(Levels)

VARIABLES
    system_state, current_position, reservations, next_approval_id, registry, stale,
    lapsed, active, status, orders, processed_fills, unresolved_conflicts,
    cycle,      \* the main thread's locals
    update,     \* the user data thread's locals
    cycles, losses, restarts

Risk == INSTANCE RiskEngine WITH
    Fills <- Orders \X (1..Size), MaxQty <- Size

exchange == <<venue, stream>>
ledger == <<current_position, reservations, next_approval_id, registry, stale, lapsed,
            active, status, orders, processed_fills, unresolved_conflicts>>
risk == <<system_state, ledger>>
locals == <<cycle, update, rec>>
counters == <<cycles, losses, restarts>>
vars == <<exchange, store, risk, pc, locals, counters>>

Labels ==
    {"fetch", "list", "next", "book", "write", "resolved", "failed",
     "ready", "diff", "cancel", "canceled", "create", "approved", "consume", "discard",
     "save", "send", "wait", "interrupt", "ack", "resolve", "exited",
     "off", "connecting", "streaming", "update", "on_fill", "status", "lost"}

NoLevel == <<>>

Cycles ==
    [desired : SUBSET Levels, cancels : SUBSET Orders, creates : SUBSET Levels,
     level : Levels \cup {NoLevel}, approval : 0..MaxApprovals,
     order : Orders \cup {NoOrder}, answer : VenueStates]
NoCycle ==
    [desired |-> {}, cancels |-> {}, creates |-> {}, level |-> NoLevel, approval |-> 0,
     order |-> NoOrder, answer |-> "NONE"]

Updates == [order : Orders \cup {NoOrder}, status : VenueStates, trade : 0..Size,
            known : IntentStatuses]
NoUpdate == [order |-> NoOrder, status |-> "NONE", trade |-> 0, known |-> "ABSENT"]

TypeOK ==
    /\ Risk!TypeOK
    /\ venue \in [Orders -> VenueRecords]
    /\ stream \in Seq(Events)
    /\ intents \in [Orders -> IntentRecords]
    /\ fills \subseteq [kind : {"ws", "unknown", "missing", "active"},
                        order : Orders, trade : 0..Size]
    /\ pc \in [Threads -> Labels]
    /\ rec \in [Threads -> Locals]
    /\ cycle \in Cycles
    /\ update \in Updates
    /\ cycles \in 0..MaxCycles
    /\ losses \in 0..MaxLosses
    /\ restarts \in 0..MaxRestarts

\* A process that starts: main begins with the reconciliation, the streams are off.
Boot == [t \in Threads |-> IF t = "main" THEN "fetch" ELSE "off"]

Init ==
    /\ system_state = "RECONCILING"
    /\ Risk!Fresh
    /\ venue = [o \in Orders |-> Unsent]
    /\ stream = <<>>
    /\ intents = [o \in Orders |-> NoIntent]
    /\ fills = {}
    /\ pc = Boot
    /\ rec = [t \in Threads |-> NoLocals]
    /\ cycle = NoCycle
    /\ update = NoUpdate
    /\ cycles = 0
    /\ losses = 0
    /\ restarts = 0

\* The process ends with main: the websocket threads are daemons.
Running == pc["main"] # "exited"

\* A websocket thread that runs is at one of these labels.
At(t, labels) == Running /\ t \in Streams /\ pc[t] \in labels

Connected == At("user", {"streaming", "update", "on_fill", "status"})

(***************************************************************************)
(* Start-up (bot_runner.py)                                                *)
(***************************************************************************)
Start ==
    /\ pc["main"] = "resolved"
    /\ system_state' = "OPERATIONAL"
    /\ pc' = [t \in Threads |-> IF t = "main" THEN "ready" ELSE "connecting"]
    /\ UNCHANGED <<exchange, store, ledger, locals, counters>>

Abort ==
    /\ pc["main"] = "failed"
    /\ system_state' = "HALTED"
    /\ Goto("main", "exited")
    /\ UNCHANGED <<exchange, store, ledger, locals, counters>>

\* Mutant: the store is in memory, as by default, and ends with its process.
RestartInMemory ==
    /\ restarts < MaxRestarts
    /\ restarts' = restarts + 1
    /\ system_state' = "RECONCILING"
    /\ Risk!Renew
    /\ stream' = <<>>
    /\ intents' = [o \in Orders |-> NoIntent]
    /\ fills' = {}
    /\ pc' = Boot
    /\ rec' = [t \in Threads |-> NoLocals]
    /\ cycle' = NoCycle
    /\ update' = NoUpdate
    /\ cycles' = 0
    /\ UNCHANGED <<venue, losses>>

\* A crash at any point, or a restart after the process ended: the exchange and the
\* store are all that is left, and the risk engine is a new one.
Restart ==
    /\ restarts < MaxRestarts
    /\ restarts' = restarts + 1
    /\ system_state' = "RECONCILING"
    /\ Risk!Renew
    /\ stream' = <<>>
    /\ pc' = Boot
    /\ rec' = [t \in Threads |-> NoLocals]
    /\ cycle' = NoCycle
    /\ update' = NoUpdate
    /\ cycles' = 0
    /\ UNCHANGED <<venue, store, losses>>

(***************************************************************************)
(* The grid cycle (testnet_runtime.py run_grid_cycle)                      *)
(***************************************************************************)
\* main reads system_state once per cycle and passes it down.  Halted or without
\* a connection the strategy wants no level, else the market decides.
BeginCycle ==
    /\ pc["main"] = "ready"
    /\ cycles < MaxCycles
    /\ cycles' = cycles + 1
    /\ \E desired \in SUBSET Levels :
          /\ system_state \in {"HALTED", "CONNECTION_LOST"} => desired = {}
          /\ cycle' = [NoCycle EXCEPT !.desired = desired]
    /\ Goto("main", "diff")
    /\ UNCHANGED <<exchange, store, risk, update, rec, losses, restarts>>

EndRun ==
    /\ pc["main"] = "ready"
    /\ cycles = MaxCycles
    /\ Goto("main", "exited")
    /\ UNCHANGED <<exchange, store, risk, locals, counters>>

LevelOf(o) == o[1]

\* The next id of a level counts its orders that are over, so that a retry of the
\* same intent has the same id.
NextId(l) == <<l, Cardinality({o \in Orders : /\ LevelOf(o) = l
                                              /\ intents[o].status \in Terminal})>>

\* Levels that nobody wants any more are canceled, levels without an active
\* intent created (those beyond the bound are left out).
Diff ==
    /\ pc["main"] = "diff"
    /\ cycle' = [NoCycle EXCEPT
          !.cancels = {o \in ActiveIntents : LevelOf(o) \notin cycle.desired},
          !.creates = {l \in cycle.desired :
                          /\ \A o \in ActiveIntents : LevelOf(o) # l
                          /\ NextId(l) \in Orders}]
    /\ Goto("main", "cancel")
    /\ UNCHANGED <<exchange, store, risk, update, rec, counters>>

\* ExecutionEngine.cancel_order.  The exchange cancels a live order and refuses
\* any other; the answer of a cancel carries its status.
CancelOrder(o) ==
    /\ pc["main"] = "cancel"
    /\ o \in cycle.cancels
    /\ IF intents[o].status \notin Terminal /\ Live(o)
       THEN /\ Close(Connected, o, "CANCELED")
            /\ cycle' = [cycle EXCEPT !.cancels = @ \ {o}, !.order = o]
            /\ Goto("main", "canceled")
       ELSE /\ cycle' = [cycle EXCEPT !.cancels = @ \ {o}]
            /\ UNCHANGED <<exchange, pc>>
    /\ UNCHANGED <<store, risk, update, rec, counters>>

RecordCancel ==
    /\ pc["main"] = "canceled"
    /\ UpdateIntentStatus(cycle.order, "CANCELED")
    /\ cycle' = [cycle EXCEPT !.order = NoOrder]
    /\ Goto("main", "cancel")
    /\ UNCHANGED <<exchange, risk, update, rec, counters>>

EndCancels ==
    /\ pc["main"] = "cancel"
    /\ cycle.cancels = {}
    /\ Goto("main", "create")
    /\ UNCHANGED <<exchange, store, risk, locals, counters>>

EndCycle ==
    /\ pc["main"] = "create"
    /\ cycle.creates = {}
    /\ Goto("main", "ready")
    /\ UNCHANGED <<exchange, store, risk, locals, counters>>

(***************************************************************************)
(* Submission (execution_engine.py execute_proposal)                       *)
(***************************************************************************)
\* The proposal in hand is over; what is left of the cycle goes on.
NextProposal ==
    /\ cycle' = [NoCycle EXCEPT !.creates = cycle.creates]
    /\ Goto("main", "create")

RequestApproval(l) ==
    /\ pc["main"] = "create"
    /\ l \in cycle.creates
    /\ IF Risk!Grants(Size)
       THEN /\ Risk!RequestApproval(Size)
            /\ cycle' = [cycle EXCEPT !.creates = @ \ {l}, !.level = l,
                                      !.approval = next_approval_id]
            /\ Goto("main", "approved")
       ELSE /\ cycle' = [cycle EXCEPT !.creates = @ \ {l}]
            /\ UNCHANGED <<risk, pc>>
    /\ UNCHANGED <<exchange, store, update, rec, counters>>

\* An id whose intent exists is not submitted again, but its approval is consumed.
GenerateId ==
    /\ pc["main"] = "approved"
    /\ cycle' = [cycle EXCEPT !.order = NextId(cycle.level)]
    /\ Goto("main", IF HasIntent(NextId(cycle.level)) THEN "discard" ELSE "consume")
    /\ UNCHANGED <<exchange, store, risk, update, rec, counters>>

\* consume_approval_and_submit: consumed, or rejected, or refused without effect
\* because the system is not OPERATIONAL.
Consume ==
    LET a == cycle.approval
        o == cycle.order
    IN  /\ pc["main"] \in {"consume", "discard"}
        /\ \/ /\ Risk!ConsumeAndSubmit(a, o, TRUE)
              /\ IF pc["main"] = "consume"
                 THEN Goto("main", "save") /\ UNCHANGED cycle
                 ELSE NextProposal
           \/ /\ Risk!ConsumeWhileUnknown(a, TRUE) \/ Risk!ConsumeRejected(a, o, TRUE)
              /\ NextProposal
           \/ /\ system_state # "OPERATIONAL"
              /\ UNCHANGED risk
              /\ NextProposal
        /\ UNCHANGED <<exchange, store, update, rec, counters>>

\* Mutant: the intent is not saved before the order is sent.
SendUnsaved ==
    /\ pc["main"] = "save"
    /\ Goto("main", "send")
    /\ UNCHANGED <<exchange, store, risk, locals, counters>>

Save ==
    /\ pc["main"] = "save"
    /\ SaveIntent(cycle.order)
    /\ Goto("main", "send")
    /\ UNCHANGED <<exchange, risk, locals, counters>>

Send ==
    /\ pc["main"] = "send"
    /\ Dispatch(cycle.order)
    /\ Goto("main", "wait")
    /\ UNCHANGED <<store, risk, locals, counters>>

\* The answer was computed when the order was accepted, or at any time since.
Acknowledged ==
    /\ pc["main"] = "wait"
    /\ Found(cycle.order)
    /\ \E s \in {"NEW", venue[cycle.order].state} : cycle' = [cycle EXCEPT !.answer = s]
    /\ Goto("main", "ack")
    /\ UNCHANGED <<exchange, store, risk, update, rec, counters>>

Rejected ==
    /\ pc["main"] = "wait"
    /\ venue[cycle.order].state = "REJECTED"
    /\ UpdateIntentStatus(cycle.order, "UNKNOWN")
    /\ NextProposal
    /\ UNCHANGED <<exchange, risk, update, rec, counters>>

\* Mutant: an order whose answer is lost is sent again.
RetryBlindly ==
    /\ pc["main"] = "wait"
    /\ UpdateIntentStatus(cycle.order, "UNKNOWN")
    /\ Goto("main", "send")
    /\ UNCHANGED <<exchange, risk, locals, counters>>

\* Mutant: an order whose answer is lost is taken for not placed.
ReleaseOnTimeout ==
    /\ pc["main"] = "wait"
    /\ UpdateIntentStatus(cycle.order, "UNKNOWN")
    /\ Risk!ResolveOrder(cycle.order, "CANCELED", 0)
    /\ Goto("main", "interrupt")
    /\ UNCHANGED <<exchange, locals, counters>>

\* The request or its answer may be lost or late.
TimedOut ==
    /\ pc["main"] = "wait"
    /\ UpdateIntentStatus(cycle.order, "UNKNOWN")
    /\ Goto("main", "interrupt")
    /\ UNCHANGED <<exchange, risk, locals, counters>>

Interrupt ==
    /\ pc["main"] = "interrupt"
    /\ system_state' = "RECONCILING"
    /\ NextProposal
    /\ UNCHANGED <<exchange, store, ledger, update, rec, counters>>

\* Only a TimeoutError or a ConnectionError of a submission is caught: whatever else
\* a request of main raises, before or after the exchange acted, ends the process.
Raise ==
    /\ \/ pc["main"] \in {"wait", "canceled"}
       \/ pc["main"] = "cancel" /\ cycle.cancels # {}
    /\ Goto("main", "exited")
    /\ UNCHANGED <<exchange, store, risk, locals, counters>>

RecordAck ==
    /\ pc["main"] = "ack"
    /\ UpdateIntentStatus(cycle.order, Mapped(cycle.answer))
    /\ Goto("main", "resolve")
    /\ UNCHANGED <<exchange, risk, locals, counters>>

Resolve ==
    /\ pc["main"] = "resolve"
    /\ IF orders[cycle.order].state = "UNKNOWN"
       THEN Risk!ResolveOrder(cycle.order, Mapped(cycle.answer), 0)
       ELSE UNCHANGED risk
    /\ NextProposal
    /\ UNCHANGED <<exchange, store, update, rec, counters>>

(***************************************************************************)
(* Order updates (execution_engine.py handle_order_update)                 *)
(***************************************************************************)
\* The intent is read first; an event may be delivered again.
ReadUpdate ==
    /\ At("user", {"streaming"})
    /\ stream # <<>>
    /\ stream' \in {stream, Tail(stream)}
    /\ LET e == Head(stream)
       IN  IF HasIntent(e.order)
           THEN /\ update' = [order |-> e.order, status |-> e.status, trade |-> e.trade,
                              known |-> intents[e.order].status]
                /\ Goto("user", IF e.trade > 0 THEN "update" ELSE "status")
           ELSE UNCHANGED <<update, pc>>
    /\ UNCHANGED <<venue, store, risk, cycle, rec, counters>>

BookTrade ==
    LET id == [kind |-> "ws", order |-> update.order, trade |-> update.trade]
    IN  /\ At("user", {"update"})
        /\ AddFill(id, update.order, 1)
        /\ Goto("user", IF id \in fills THEN "status" ELSE "on_fill")
        /\ UNCHANGED <<exchange, risk, locals, counters>>

\* Mutant: the quantity of the order is reported, not that of the trade.
ReportWhole ==
    LET o == update.order
        f == <<o, update.trade>>
    IN  /\ At("user", {"on_fill"})
        /\ IF Risk!Known(o) /\ f \notin processed_fills
           THEN Risk!OnFill(o, f, Size) \/ Risk!OnOverFill(o, f, Size)
           ELSE UNCHANGED risk
        /\ Goto("user", "status")
        /\ UNCHANGED <<exchange, store, locals, counters>>

ReportFill ==
    LET o == update.order
        f == <<o, update.trade>>
    IN  /\ At("user", {"on_fill"})
        /\ IF Risk!Known(o) /\ f \notin processed_fills
           THEN Risk!OnFill(o, f, 1) \/ Risk!OnLateFill(o, f, 1) \/ Risk!OnOverFill(o, f, 1)
           ELSE UNCHANGED risk
        /\ Goto("user", "status")
        /\ UNCHANGED <<exchange, store, locals, counters>>

\* A filled order stays filled, as far as the status read at the beginning tells.
WriteUpdate ==
    /\ At("user", {"status"})
    /\ IF update.known = "FILLED" /\ Mapped(update.status) # "FILLED"
       THEN UNCHANGED store
       ELSE UpdateIntentStatus(update.order, Mapped(update.status))
    /\ update' = NoUpdate
    /\ Goto("user", "streaming")
    /\ UNCHANGED <<exchange, risk, cycle, rec, counters>>

(***************************************************************************)
(* Connections (testnet_runtime.py _run_loop, handle_connection_loss,      *)
(* handle_reconnect)                                                       *)
(***************************************************************************)
Connect(t) ==
    /\ At(t, {"connecting"})
    /\ Goto(t, "streaming")
    /\ UNCHANGED <<exchange, store, risk, locals, counters>>

LoseConnection(t) ==
    /\ At(t, {"connecting", "streaming"})
    /\ losses < MaxLosses
    /\ losses' = losses + 1
    /\ system_state' = "CONNECTION_LOST"
    /\ stream' = IF t = "user" THEN <<>> ELSE stream
    /\ Goto(t, "lost")
    /\ UNCHANGED <<venue, store, ledger, locals, cycles, restarts>>

\* The reconciliation runs before the socket is connected again.
Reconnect(t) ==
    /\ At(t, {"lost"})
    /\ system_state' = "RECONCILING"
    /\ Goto(t, "fetch")
    /\ UNCHANGED <<exchange, store, ledger, locals, counters>>

Reconciled(t) ==
    /\ At(t, {"resolved", "failed"})
    /\ system_state' = IF pc[t] = "resolved" THEN "OPERATIONAL" ELSE "HALTED"
    /\ Goto(t, "connecting")
    /\ UNCHANGED <<exchange, store, ledger, locals, counters>>

(***************************************************************************)
(* The whole                                                               *)
(***************************************************************************)
Main ==
    \/ Start \/ Abort
    \/ BeginCycle \/ EndRun \/ Diff
    \/ \E o \in Orders : CancelOrder(o)
    \/ RecordCancel \/ EndCancels \/ EndCycle
    \/ \E l \in Levels : RequestApproval(l)
    \/ GenerateId \/ Consume \/ Save \/ Send
    \/ Acknowledged \/ Rejected \/ TimedOut \/ Interrupt \/ Raise
    \/ RecordAck \/ Resolve

Stream ==
    \/ ReadUpdate \/ BookTrade \/ ReportFill \/ WriteUpdate
    \/ \E t \in Streams : Connect(t) \/ LoseConnection(t) \/ Reconnect(t) \/ Reconciled(t)

Reconcile(t) ==
    /\ Running
    /\ ResolveState(t)
    /\ UNCHANGED <<exchange, risk, cycle, update, counters>>

Trading ==
    /\ VenueNext(Connected)
    /\ UNCHANGED <<store, risk, pc, locals, counters>>

Next ==
    \/ Main
    \/ Stream
    \/ \E t \in Threads : Reconcile(t)
    \/ Trading
    \/ Restart

Spec == Init /\ [][Next]_vars

\* A websocket thread that lost its connection goes on with its handlers.  That its
\* requests are answered or fail is an assumption: the code sets no timeouts.
Recovery(t) == Reconnect(t) \/ Reconciled(t) \/ Reconcile(t)

FairSpec == Spec /\ \A t \in Streams : WF_vars(Recovery(t))

(***************************************************************************)
(* Properties                                                              *)
(***************************************************************************)
\* Nothing is sent to the exchange that is not in the store: whatever the threads
\* do and wherever a crash falls, an order the exchange may hold has its intent,
\* so that a restart finds it by its id.
WriteAhead == \A o \in Orders : venue[o].state # "NONE" => HasIntent(o)

\* No id is sent twice, not after a timeout, not after a reconciliation that took
\* the order for canceled, and not by a process that restarted (binance_adapter.py:
\* "No blind retry of order placement").
NoBlindRetry ==
    [][\A o \in Orders :
          venue'[o].state = "SENT" /\ venue[o].state # "SENT" => venue[o].state = "NONE"]_vars

\* What the account stands to own through order o, at worst.
AtRisk(o) ==
    IF venue[o].state \in {"SENT", "NEW", "PARTIALLY_FILLED"} THEN Size ELSE venue[o].executed

VenueRisk == Total([o \in Orders |-> AtRisk(o)])

\* While one process runs, the risk engine never counts less than the exchange may
\* hold, so the account stays within the limit: through lost answers, lost events,
\* duplicates, cancels that cross fills, reconciliations and lock-free state changes.
EngineCoversVenue ==
    restarts = 0 => VenueRisk <= Risk!Exposure /\ Risk!Exposure <= Limit

\* While one process runs, no order is sent while another is still on its way: the
\* UNKNOWN gate holds even after a reconnect reopened trading.
SingleInFlight ==
    restarts = 0 =>
        \A o, p \in Orders : venue[o].state = "SENT" /\ venue[p].state = "SENT" => o = p

\* The store never takes an order for filled that is not, whichever of the three
\* threads wrote its status last.
FilledIsTrue ==
    \A o \in Orders : intents[o].status = "FILLED" => venue[o].state = "FILLED"

\* The risk engine never takes more of an order for filled than the exchange executed,
\* whatever events are lost, repeated or late, and whatever total an answer of the
\* exchange is resolved with: the position is what was really bought.
PositionIsReal == \A o \in Orders : orders[o].filled <= venue[o].executed

\* Trading starts only after a reconciliation that found every order that the store
\* takes for active at the exchange, wherever the last process crashed.
StartsReconciled == pc["main"] = "resolved" => \A o \in ActiveIntents : Found(o)

\* What becomes of an order at the exchange in the end.
Closed(o) == venue[o].state \in {"DROPPED", "REJECTED", "FILLED", "CANCELED", "EXPIRED"}

Book == INSTANCE OrderBook WITH
    recorded <- {o \in Orders : HasIntent(o)},
    placed <- {o \in Orders : venue[o].state # "NONE"},
    traded <- [o \in Orders |-> venue[o].executed],
    over <- {o \in Orders : Closed(o)},
    booked <- {<<f.order, f.trade>> : f \in {f \in fills : f.kind = "ws"}}

\* Seen from outside, the bot is an implementation of OrderBook: a step of any thread,
\* of the exchange, or a crash and restart records, places, trades or closes one order
\* or books one of its trades, as the book allows, or none.  What is booked are the fills
\* under the exchange's own trade ids (execution_engine.py, "ws_fill_<trade>").
KeepsBook == Book!Spec

\* A reconciliation after a loss comes to an end, whatever the other threads do to
\* the intents meanwhile, and the thread connects again.
ReconciliationEnds ==
    \A t \in Streams : pc[t] = "lost" ~> ~Running \/ pc[t] = "connecting"

(***************************************************************************)
(* Claims of the documentation that the code does not keep                 *)
(***************************************************************************)
\* docs/APGE_V1_STATE_MACHINE.md:10: HALTED "cannot auto-clear via new connection
\* or data" (within one process; a restart is manual).
HaltedLock ==
    [][system_state = "HALTED" => system_state' = "HALTED" \/ restarts' # restarts]_vars

\* The order main is about to send, or waits for, or is about to acknowledge.
InSubmission(o) ==
    o = cycle.order /\ pc["main"] \in {"save", "send", "wait", "interrupt", "ack", "resolve"}

\* docs/APGE_V1_STATE_MACHINE.md:13: the transition to OPERATIONAL requires "zero
\* unresolved UNKNOWN orders" (those main is still submitting set aside).
OperationalGate ==
    [][system_state' = "OPERATIONAL" /\ system_state # "OPERATIONAL" =>
          \A o \in Orders : orders[o].state = "UNKNOWN" => InSubmission(o)]_vars

\* execution_engine.py:178-184, of an order update: "if it was already FILLED locally, a
\* delayed CANCELED shouldn't overwrite it", "don't revert terminal states to non-terminal
\* states", "Cannot un-fill an order": the status written at the end of
\* handle_order_update never replaces FILLED by another.
NeverUnfilled ==
    [][WriteUpdate =>
          \A o \in Orders : intents[o].status = "FILLED" => intents'[o].status = "FILLED"]_vars

\* docs/APGE_V1_RISK_ENGINE_CONTRACT.md:41: of an order whose remaining amount is
\* canceled, the remaining amount "is released from reservation" (once main is
\* between two cycles and every update is handled).
CanceledReleased ==
    pc["main"] = "ready" /\ stream = <<>> /\ update = NoUpdate =>
        \A o \in Orders : intents[o].status = "CANCELED" => Risk!Held(orders[o]) = 0
=============================================================================
