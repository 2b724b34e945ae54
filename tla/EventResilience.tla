-------------------------- MODULE EventResilience ---------------------------
(***************************************************************************)
(* M3BRiskEngine (m3b_nautilus_event_resilience_hardened_v2.py): a risk    *)
(* engine that keeps its reservations, its history of proposals and a      *)
(* write-ahead log of fills in SQLite, while Nautilus keeps the orders and *)
(* the position in memory.  The venue's events arrive late, in any order,  *)
(* more than once or never; an event handler may stop at any of its writes *)
(* with an exception or a crash; reconcile() compares and repairs.         *)
(*                                                                         *)
(* A step is one transaction or one change of a Nautilus object: the       *)
(* engine is one thread, so only failures come between two steps.          *)
(*                                                                         *)
(* Abstractions: a proposal, its client order id and its order are one     *)
(* value; every fill is one lot; a clock reading is the set of             *)
(* reservations it finds too old; the rows of fills and reservations are   *)
(* taken in any order.  Rows without metadata, which only the migration of *)
(* an older database leaves behind, do not occur.                          *)
(*                                                                         *)
(* All orders are on one side, as in the scenarios of the file: the code   *)
(* adds quantities whatever their side, and compares the sum with the      *)
(* position's quantity, which with both sides would be what is left after  *)
(* they offset each other.                                                 *)
(***************************************************************************)
EXTENDS Integers, FiniteSets

CONSTANTS
    Orders,         \* proposals, and the order each becomes
    Qty,            \* lots of each order
    MaxExposure,    \* MAX_TOTAL_EXPOSURE, in lots
    Unpositioned    \* trades reported without a position_id

Trades == UNION {{o} \X (1..Qty[o]) : o \in Orders}

ASSUME OrdersAssumption == IsFiniteSet(Orders)
ASSUME QtyAssumption == Qty \in [Orders -> Nat \ {0}]
ASSUME LimitAssumption == MaxExposure \in Nat
ASSUME UnpositionedAssumption == Unpositioned \subseteq Trades

VARIABLES
    reservations, proposals, fills,     \* the database
    halted, realized,                   \* the engine
    native, cached, position,           \* Nautilus' objects, in memory
    saved,                              \* what Nautilus restores after a crash
    job, reconciling, todo, unresolved, \* the handler that is running
    venue,                              \* the truth
    lapsed   \* history: reservations released for a state that was never saved

database == <<reservations, proposals, fills>>
engine == <<halted, realized>>
objects == <<native, cached, position, saved>>
control == <<job, reconciling, todo, unresolved>>
vars == <<database, engine, objects, control, venue, lapsed>>

\* INITIALIZED and SUBMITTED are "new"; ACCEPTED, PENDING_* and PARTIALLY_FILLED
\* are "open"; EXPIRED is "canceled"; "gone" is no object at all.
Statuses == {"gone", "new", "open", "filled", "canceled", "rejected"}
NativeRecords == [status : Statuses, trades : SUBSET Trades]
Gone == [status |-> "gone", trades |-> {}]

EventTypes == {"submitted", "accepted", "filled", "canceled", "rejected"}
Steps == {"apply", "cache", "on_event", "mark", "release"}
NoTrade == <<>>
NoJob == [step |-> "none"]
Jobs == {NoJob} \cup
    [step : Steps, type : EventTypes, order : Orders, trade : Trades \cup {NoTrade},
     recovery : BOOLEAN]

VenueStates == {"none", "sent", "accepted", "canceled", "rejected"}
VenueRecords == [state : VenueStates, executed : Nat]

TypeOK ==
    /\ reservations \subseteq proposals /\ proposals \subseteq Orders
    /\ fills \in [Trades -> {"none", "pending", "applied"}]
    /\ halted \in BOOLEAN /\ realized \in Nat
    /\ native \in [Orders -> NativeRecords] /\ saved \in [Orders -> NativeRecords]
    /\ \A o \in Orders : native[o].trades \cup saved[o].trades \subseteq {o} \X (1..Qty[o])
    /\ cached \subseteq {o \in Orders : native[o].status # "gone"}
    /\ position \subseteq Trades \ Unpositioned
    /\ job \in Jobs /\ reconciling \in BOOLEAN /\ unresolved \in BOOLEAN
    /\ todo \subseteq Trades /\ (todo # {} => reconciling)
    /\ venue \in [Orders -> VenueRecords] /\ \A o \in Orders : venue[o].executed <= Qty[o]
    /\ lapsed \subseteq Orders

-----------------------------------------------------------------------------
Idle == job = NoJob /\ ~reconciling

Logged == {t \in Trades : fills[t] # "none"}
Applied == {t \in Trades : fills[t] = "applied"}
Pending == {t \in Trades : fills[t] = "pending"}

LotsOf(S) == {t \in Trades : t[1] \in S}

TotalQty(S) == Cardinality(LotsOf(S))

IsOpen(o) == native[o].status = "open"
IsClosed(o) == native[o].status \in {"filled", "canceled", "rejected"}

\* _get_independent_exposure: what is left of the open orders in the cache.
OpenExposure ==
    LET open == {o \in cached : IsOpen(o)}
    IN  Cardinality(LotsOf(open) \ UNION {native[o].trades : o \in open})

Exposure == realized + OpenExposure + TotalQty(reservations)

Release(S) ==
    /\ reservations' = reservations \ S
    /\ lapsed' = lapsed \cup {o \in reservations \cap S : saved[o] # native[o]}

\* The end of process_venue_event.  An exception halts the engine; reconcile catches
\* it and goes on with its next row.
EndJob(failed) ==
    /\ job' = NoJob
    /\ halted' = (halted \/ failed)
    /\ unresolved' = (unresolved \/ (reconciling /\ failed))
    /\ UNCHANGED <<reconciling, todo>>

Goto(step) ==
    /\ job' = [job EXCEPT !.step = step]
    /\ UNCHANGED <<halted, reconciling, todo, unresolved>>

-----------------------------------------------------------------------------
(* The venue, and the trader that sends the engine's orders to it.         *)

NeverSent == [state |-> "none", executed |-> 0]

Send(o) ==
    /\ venue[o].state = "none" /\ native[o].status = "new"
    /\ venue' = [venue EXCEPT ![o].state = "sent"]
    /\ UNCHANGED <<database, engine, objects, control, lapsed>>

VenueStep(o) ==
    /\ \/ /\ venue[o].state = "sent"
          /\ \E s \in {"accepted", "rejected"} : venue' = [venue EXCEPT ![o].state = s]
       \/ /\ venue[o].state = "accepted" /\ venue[o].executed < Qty[o]
          /\ \/ venue' = [venue EXCEPT ![o].executed = @ + 1]
             \/ venue' = [venue EXCEPT ![o].state = "canceled"]
    /\ UNCHANGED <<database, engine, objects, control, lapsed>>

Executed(o) == {o} \X (1..venue[o].executed)

\* Every event that is true may be delivered, at any later time, and again.
IsTrue(type, o) ==
    CASE type = "submitted" -> TRUE
      [] type = "accepted" -> venue[o].state \in {"accepted", "canceled"}
      [] type \in {"canceled", "rejected"} -> venue[o].state = type

\* The order as the venue has it.
Truth(o) ==
    [trades |-> Executed(o),
     status |-> IF venue[o].executed = Qty[o] THEN "filled"
                ELSE CASE venue[o].state = "sent" -> "new"
                       [] venue[o].state = "accepted" -> "open"
                       [] OTHER -> venue[o].state]

-----------------------------------------------------------------------------
(* Nautilus' order state machine: what order.apply does with an event.     *)

\* The state after an event that applies.
Applying(e) ==
    LET had == native[e.order]
        has == had.trades \cup {e.trade}
    IN  CASE e.type = "submitted" -> had
          [] e.type = "accepted" -> [had EXCEPT !.status = "open"]
          [] e.type = "filled" ->
                [trades |-> has,
                 status |-> IF Cardinality(has) = Qty[e.order] THEN "filled" ELSE "open"]
          [] OTHER -> [had EXCEPT !.status = e.type]

\* What may happen; where Nautilus' version or the finer state decides, all of it.
\* "late": the exception's text holds one of the transitions process_venue_event
\* ignores, and "FILLED -> ACCEPTED" also ends "PARTIALLY_FILLED -> ACCEPTED".
Outcomes(e) ==
    LET s == native[e.order].status
        trades == native[e.order].trades
    IN  CASE e.type = "submitted" -> {"raised"} \cup {x \in {"applied"} : s = "new"}
          [] e.type = "accepted" ->
                CASE s = "new" -> {"applied"}
                  [] s = "open" -> {"applied", "raised"} \cup {x \in {"late"} : trades # {}}
                  [] s = "filled" -> {"late"}
                  [] OTHER -> {"raised"}
          [] e.type = "filled" ->
                CASE e.trade \in trades \/ s \in {"filled", "rejected"} -> {"raised"}
                  [] s = "canceled" -> {"applied", "raised"}
                  [] OTHER -> {"applied"}
          [] e.type = "canceled" ->
                CASE s \in {"new", "open"} -> {"applied"}
                  [] s = "canceled" -> {"late", "raised"}
                  [] OTHER -> {"late"}
          [] e.type = "rejected" ->
                CASE s = "new" -> {"applied"}
                  [] s = "rejected" -> {"late"}
                  [] OTHER -> {"raised"}

-----------------------------------------------------------------------------
(* evaluate_and_submit.                                                    *)

\* Mutant: only the reservation tells a proposal that was processed.
HasReservation(p) == p \in reservations

HasProposal(p) == p \in proposals

\* Mutant: an accepted order is counted from its event on, in the cache or not.
ReleasedUnseen(o) == {o}

EvaluateAndSubmit(p) ==
    /\ Idle /\ ~halted /\ ~HasProposal(p)
    /\ Exposure + Qty[p] <= MaxExposure
    /\ reservations' = reservations \cup {p}
    /\ proposals' = proposals \cup {p}
    /\ native' = [native EXCEPT ![p] = [Gone EXCEPT !.status = "new"]]
    /\ UNCHANGED <<fills, engine, cached, position, saved, control, venue, lapsed>>

-----------------------------------------------------------------------------
(* process_venue_event.                                                    *)

Start(type, o, t, recovery) ==
    job' = [step |-> "apply", type |-> type, order |-> o, trade |-> t, recovery |-> recovery]

ReceiveOther(type, o) ==
    /\ Idle /\ type # "filled" /\ native[o].status # "gone" /\ IsTrue(type, o)
    /\ Start(type, o, NoTrade, FALSE)
    /\ UNCHANGED <<database, engine, objects, reconciling, todo, unresolved, venue, lapsed>>

\* Mutant: the log is written with the rest, after the order has the fill.
ReceiveUnlogged(o, t) ==
    /\ Idle /\ native[o].status # "gone" /\ t \in Executed(o) /\ fills[t] # "applied"
    /\ Start("filled", o, t, fills[t] = "pending")
    /\ UNCHANGED <<database, engine, objects, reconciling, todo, unresolved, venue, lapsed>>

\* A fill that is not in the log is written there first; one that is there but not
\* applied is a recovery; one that was applied is ignored.
ReceiveFill(o, t) ==
    /\ Idle /\ native[o].status # "gone" /\ t \in Executed(o) /\ fills[t] # "applied"
    /\ fills' = [fills EXCEPT ![t] = "pending"]
    /\ Start("filled", o, t, fills[t] = "pending")
    /\ UNCHANGED <<reservations, proposals, engine, objects, reconciling, todo, unresolved,
                   venue, lapsed>>

\* A fill without its metadata, a duplicate with another content, or a log that fails.
RefuseFill(o, t) ==
    /\ Idle /\ native[o].status # "gone" /\ t \in Executed(o)
    /\ halted' = TRUE
    /\ UNCHANGED <<database, realized, objects, control, venue, lapsed>>

ApplyEvent ==
    /\ job.step = "apply"
    /\ \/ /\ "applied" \in Outcomes(job)
          /\ native' = [native EXCEPT ![job.order] = Applying(job)]
          /\ Goto("cache")
       \/ /\ "late" \in Outcomes(job)
          /\ EndJob(FALSE)
          /\ UNCHANGED native
       \/ /\ "raised" \in Outcomes(job)
          /\ IF job.recovery /\ job.trade \in native[job.order].trades
             THEN Goto("cache")      \* verified: the order has the fill already
             ELSE EndJob(TRUE)
          /\ UNCHANGED native
    /\ UNCHANGED <<database, realized, cached, position, saved, venue, lapsed>>

UpdateCache ==
    /\ job.step = "cache"
    /\ cached' = cached \cup {job.order}
    /\ saved' = [saved EXCEPT ![job.order] = native[job.order]]
    /\ Goto("on_event")
    /\ UNCHANGED <<database, realized, native, position, venue, lapsed>>

\* What an accepted order's event releases: its reservation, if the cache counts it.
ReleasedByAccepted(o) == IF o \in cached /\ IsOpen(o) THEN {o} ELSE {}

OnEvent ==
    /\ job.step = "on_event" /\ job.type # "filled"
    /\ CASE job.type = "submitted" -> Release({})
         [] job.type = "accepted" -> Release(ReleasedByAccepted(job.order))
         [] OTHER -> Release({job.order})
    /\ EndJob(FALSE)
    /\ UNCHANGED <<proposals, fills, realized, objects, venue>>

\* An accepted event that reaches the engine before Nautilus has seen it.
OnEventEarly(o) ==
    /\ Idle /\ native[o].status # "gone" /\ IsTrue("accepted", o)
    /\ Release(ReleasedByAccepted(o))
    /\ UNCHANGED <<proposals, fills, engine, objects, control, venue>>

\* Mutant: a fill without a position_id goes to the position too.
OnAnyFill ==
    /\ job.step = "on_event" /\ job.type = "filled"
    /\ position' = position \cup {job.trade}
    /\ Goto("mark")
    /\ UNCHANGED <<database, realized, native, cached, saved, venue, lapsed>>

\* on_event of a fill: the position, then the log, then the reservation.  A position
\* that has the trade already raises, and is verified.
OnFill ==
    /\ job.step = "on_event" /\ job.type = "filled"
    /\ position' = position \cup ({job.trade} \ Unpositioned)
    /\ Goto("mark")
    /\ UNCHANGED <<database, realized, native, cached, saved, venue, lapsed>>

MarkApplied ==
    /\ job.step = "mark"
    /\ fills' = [fills EXCEPT ![job.trade] = "applied"]
    /\ realized' = IF job.recovery THEN realized ELSE realized + 1
    /\ Goto("release")
    /\ UNCHANGED <<reservations, proposals, objects, venue, lapsed>>

ReleaseFilled ==
    /\ job.step = "release"
    /\ Release({job.order})
    /\ EndJob(FALSE)
    /\ UNCHANGED <<proposals, fills, realized, objects, venue>>

\* Mutant: the exception is logged and swallowed.
FailSilently ==
    /\ job.step \in Steps \ {"apply"}
    /\ EndJob(FALSE)
    /\ UNCHANGED <<database, realized, objects, venue, lapsed>>

\* An exception at any write after order.apply: nothing of that step is done.
Fail ==
    /\ job.step \in Steps \ {"apply"}
    /\ EndJob(TRUE)
    /\ UNCHANGED <<database, realized, objects, venue, lapsed>>

-----------------------------------------------------------------------------
(* check_timeouts and reconcile.                                           *)

Settled == {o \in reservations \cap cached : IsOpen(o) \/ IsClosed(o)}

\* An exception while the reservations are deleted leaves the rest.
CheckTimeouts(late) ==
    /\ Idle
    /\ Release(late \cap Settled)
    /\ halted' = (halted \/ late \ Settled # {})
    /\ UNCHANGED <<proposals, fills, realized, objects, control, venue>>

BeginReconcile ==
    /\ Idle
    /\ halted' = TRUE /\ reconciling' = TRUE
    /\ Release(Settled)
    /\ unresolved' = (reservations \ Settled # {})
    /\ todo' = Pending
    /\ UNCHANGED <<proposals, fills, realized, objects, job, venue>>

\* An exception outside the recovery of a row: reconcile gives up.
AbortReconcile ==
    /\ Idle
    /\ halted' = TRUE
    /\ \E some \in SUBSET Settled : Release(some)
    /\ UNCHANGED <<proposals, fills, realized, objects, control, venue>>

Recover(t) ==
    /\ reconciling /\ job = NoJob /\ t \in todo
    /\ todo' = todo \ {t}
    /\ IF t[1] \in cached
       THEN Start("filled", t[1], t, TRUE) /\ UNCHANGED unresolved
       ELSE unresolved' = TRUE /\ UNCHANGED job
    /\ UNCHANGED <<database, engine, objects, reconciling, venue, lapsed>>

\* Mutant: the position is not compared with the log.
BooksMatchOrders ==
    \A o \in cached :
        native[o].trades # {} =>
            Cardinality({t \in Logged : t[1] = o}) = Cardinality(native[o].trades)

\* Every filled order in the cache has its fills in the log, as many as it counts,
\* and the position is what the log has applied.
BooksMatch ==
    /\ \A o \in cached :
        native[o].trades # {} =>
            Cardinality({t \in Logged : t[1] = o}) = Cardinality(native[o].trades)
    /\ Cardinality(position) = Cardinality(Applied)

FinishReconcile ==
    /\ reconciling /\ job = NoJob /\ todo = {}
    /\ reconciling' = FALSE /\ unresolved' = FALSE
    /\ IF ~unresolved /\ BooksMatch
       THEN halted' = FALSE /\ realized' = Cardinality(Applied)
       ELSE halted' = TRUE /\ UNCHANGED realized
    /\ UNCHANGED <<database, objects, job, todo, venue, lapsed>>

-----------------------------------------------------------------------------
(* A crash and the next start: __init__ on the same database; Nautilus     *)
(* brings back every order it saved, as it was saved or as the venue has   *)
(* it, may bring back others the venue knows, and has the position as it   *)
(* was or as its orders' fills make it.                                    *)
(*                                                                         *)
(* The position is an assumption about Nautilus: on_event writes a new     *)
(* position to the cache (line 597) but applies later fills to the object  *)
(* only (line 563), so what is on disk may be older than the object.  The  *)
(* file's own restart scenarios build the position from the orders' fills  *)
(* (lines 795, 984), which the second disjunct is.                         *)

Positioned(S) == S \ Unpositioned

Crash ==
    /\ \E back \in SUBSET {o \in Orders : venue[o].state # "none" \/ saved[o] # Gone} :
        /\ {o \in Orders : saved[o] # Gone} \subseteq back
        /\ \E fresh \in SUBSET {o \in back : venue[o].state # "none"} :
            /\ {o \in back : saved[o] = Gone} \subseteq fresh
            /\ native' = [o \in Orders |-> IF o \in fresh THEN Truth(o) ELSE saved[o]]
        /\ cached' = back
    /\ saved' = native'
    /\ \/ UNCHANGED position
       \/ position' = Positioned(UNION {native'[o].trades : o \in Orders})
    /\ halted' = TRUE /\ realized' = 0
    /\ job' = NoJob /\ reconciling' = FALSE /\ todo' = {} /\ unresolved' = FALSE
    /\ UNCHANGED <<database, venue, lapsed>>

-----------------------------------------------------------------------------
Init ==
    /\ reservations = {} /\ proposals = {} /\ fills = [t \in Trades |-> "none"]
    /\ halted = TRUE /\ realized = 0
    /\ native = [o \in Orders |-> Gone] /\ saved = [o \in Orders |-> Gone]
    /\ cached = {} /\ position = {}
    /\ job = NoJob /\ reconciling = FALSE /\ todo = {} /\ unresolved = FALSE
    /\ venue = [o \in Orders |-> NeverSent]
    /\ lapsed = {}

Next ==
    \/ \E o \in Orders :
        \/ EvaluateAndSubmit(o)
        \/ Send(o)
        \/ VenueStep(o)
        \/ \E type \in EventTypes : ReceiveOther(type, o)
        \/ \E t \in Trades : ReceiveFill(o, t) \/ RefuseFill(o, t)
        \/ OnEventEarly(o)
    \/ ApplyEvent \/ UpdateCache \/ OnEvent \/ OnFill \/ MarkApplied \/ ReleaseFilled
    \/ Fail
    \/ \E late \in SUBSET reservations : CheckTimeouts(late)
    \/ BeginReconcile
    \/ \E t \in Trades : Recover(t)
    \/ FinishReconcile
    \/ AbortReconcile
    \/ Crash

Spec == Init /\ [][Next]_vars

-----------------------------------------------------------------------------
(* Properties.                                                             *)

\* An active engine between two events has no fill half applied, and what it counts as
\* realized, what the log calls applied, the orders' own fills and the position agree,
\* through every crash, exception, duplicate and recovery (on_event, reconcile).
BooksAgree ==
    Idle /\ ~halted =>
        /\ Pending = {}
        /\ realized = Cardinality(Applied)
        /\ position = Positioned(Applied)
        /\ \A o \in cached : native[o].trades = {t \in Applied : t[1] = o}

\* Nothing is in an order or in the position of an active engine that the log does not
\* have: a crash at any moment leaves a row to recover from (the write-ahead log).
LoggedFirst ==
    ~halted => position \cup UNION {native[o].trades : o \in Orders} \subseteq Logged

\* A proposal whose order was sent never gets a second order, whatever was released,
\* timed out, crashed or was reconciled in between.
OneOrderPerProposal ==
    [][\A o \in reservations' \ reservations : venue[o].state = "none"]_vars

\* What the venue may still make of the orders so far: all of an order that it has not
\* closed, and of a closed one what is applied.
Committed ==
    LET live == {o \in proposals \ lapsed : venue[o].state \notin {"canceled", "rejected"}}
    IN  TotalQty(live) + Cardinality({t \in Applied : t[1] \notin live})

\* When a proposal is granted, what the venue may still execute of every order and what
\* it executed fit the limit: no order falls between its reservation and the cache.
\* Excepted are the fills of canceled orders that have not arrived, and orders whose
\* reservation went while their state was in memory only.
GrantWithinLimit == [][proposals' # proposals => Committed' <= MaxExposure]_vars

Log == INSTANCE Journal WITH
    executed <- UNION {Executed(o) : o \in Orders},
    written <- Logged,
    applied <- Applied,
    booked <- position,
    active <- ~halted

\* Seen from its log, the engine is an implementation of Journal: each write of a handler,
\* exception, crash and recovery writes, books, applies or restores trades as the journal
\* allows, and the engine resumes only when log and position are the same.
KeepsJournal == Log!Spec
=============================================================================
