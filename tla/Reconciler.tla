----------------------------- MODULE Reconciler -----------------------------
(***************************************************************************)
(* The reconciliation of the store with the exchange                       *)
(* (src/src/apge/reconciliation.py, resolve_state).  It runs on the thread *)
(* that calls it: the main thread at start-up, a websocket thread after a  *)
(* reconnect.  Other threads, and the exchange, go on between its queries  *)
(* and its transactions, so each of those is a step of its own.            *)
(*                                                                         *)
(* It works through the intents twice: first those with an UNKNOWN status, *)
(* then all the active ones, against the open orders it listed at the      *)
(* beginning.  The position it fetches along with them is not used.        *)
(***************************************************************************)
EXTENDS Exchange

CONSTANT Callers   \* the threads that may run it

VARIABLES
    intents, fills,   \* the store
    pc,               \* where each thread is
    rec               \* the locals of resolve_state, per thread

INSTANCE Persistence

store == <<intents, fills>>

NoOrder == <<>>

Locals ==
    [phase : {"unknown", "active"}, listing : [Orders -> VenueRecords],
     todo : SUBSET Orders, filled : [Orders -> Nat], order : Orders \cup {NoOrder},
     answer : VenueRecords, listed : BOOLEAN]

NoLocals ==
    [phase |-> "unknown", listing |-> [o \in Orders |-> Unsent], todo |-> {},
     filled |-> [o \in Orders |-> 0], order |-> NoOrder, answer |-> Unsent,
     listed |-> FALSE]

Goto(t, label) == pc' = [pc EXCEPT ![t] = label]

\* Locals are forgotten when resolve_state returns.
Return(t, label) == Goto(t, label) /\ rec' = [rec EXCEPT ![t] = NoLocals]

\* A network error anywhere makes resolve_state answer False.
Fail(t) == Return(t, "failed") /\ UNCHANGED store

FetchExchangeState(t) ==
    /\ pc[t] = "fetch"
    /\ \/ /\ rec' = [rec EXCEPT ![t].listing =
                        [o \in Orders |-> IF Live(o) THEN venue[o] ELSE Unsent]]
          /\ Goto(t, "list")
          /\ UNCHANGED store
       \/ Fail(t)

\* The rows are read once per phase; a status or a filled quantity that changes
\* afterwards is not seen.
ListIntents(t) ==
    /\ pc[t] = "list"
    /\ rec' = [rec EXCEPT
                 ![t].todo = IF rec[t].phase = "unknown" THEN UnknownIntents
                                                         ELSE ActiveIntents,
                 ![t].filled = [o \in Orders |-> intents[o].filled]]
    /\ Goto(t, "next")
    /\ UNCHANGED store

Listed(t, o) == rec[t].listing[o].state # "NONE"

\* Mutant: an order that was taken up stays on the list.
TakeUpAgain(t, o, answer, listed) ==
    /\ rec' = [rec EXCEPT ![t] = [@ EXCEPT
                  !.order = o, !.answer = answer, !.listed = listed]]
    /\ Goto(t, "book")
    /\ UNCHANGED store

\* Take up order o with the exchange's answer about it.
TakeUp(t, o, answer, listed) ==
    /\ rec' = [rec EXCEPT ![t] = [@ EXCEPT
                  !.todo = rec[t].todo \ {o}, !.order = o, !.answer = answer, !.listed = listed]]
    /\ Goto(t, "book")
    /\ UNCHANGED store

\* The orders the query finds open count as listed in the second phase.
QueryUnknown(t, o) ==
    /\ pc[t] = "next"
    /\ rec[t].phase = "unknown"
    /\ o \in rec[t].todo
    /\ \/ /\ Found(o)
          /\ rec' = [rec EXCEPT ![t] = [@ EXCEPT
                        !.todo = rec[t].todo \ {o}, !.order = o, !.answer = venue[o],
                        !.listing[o] = IF Live(o) THEN venue[o] ELSE rec[t].listing[o],
                        !.listed = FALSE]]
          /\ Goto(t, "book")
          /\ UNCHANGED store
       \/ /\ ~Found(o)
          /\ TakeUp(t, o, [Unsent EXCEPT !.state = "CANCELED"], FALSE)
       \/ Fail(t)

\* Mutant: an order that the exchange does not know is taken up all the same.
SyncAnyActive(t, o) ==
    /\ pc[t] = "next"
    /\ rec[t].phase = "active"
    /\ o \in rec[t].todo
    /\ TakeUp(t, o, IF Listed(t, o) THEN rec[t].listing[o] ELSE venue[o], Listed(t, o))

\* An active intent is compared with the listing if it is there, and queried if
\* it is not; an active intent that the exchange does not know is corrupt.
SyncActive(t, o) ==
    /\ pc[t] = "next"
    /\ rec[t].phase = "active"
    /\ o \in rec[t].todo
    /\ \/ Listed(t, o) /\ TakeUp(t, o, rec[t].listing[o], TRUE)
       \/ ~Listed(t, o) /\ Found(o) /\ TakeUp(t, o, venue[o], FALSE)
       \/ ~Listed(t, o) /\ Fail(t)

\* The ids under which resolve_state books what the exchange executed.
ReconcileFill(t) ==
    [kind |-> IF rec[t].phase = "unknown" THEN "unknown"
              ELSE IF rec[t].listed THEN "active" ELSE "missing",
     order |-> rec[t].order, trade |-> 0]

\* The first phase books the whole executed quantity, the second what the rows
\* read at its beginning were short of.
BookFill(t) ==
    LET executed == rec[t].answer.executed
        known == IF rec[t].phase = "unknown" THEN 0 ELSE rec[t].filled[rec[t].order]
    IN  /\ pc[t] = "book"
        /\ IF executed > known
           THEN AddFill(ReconcileFill(t), rec[t].order, executed - known)
           ELSE UNCHANGED store
        /\ Goto(t, "write")
        /\ UNCHANGED rec

WriteStatus(t) ==
    /\ pc[t] = "write"
    /\ UpdateIntentStatus(rec[t].order, Mapped(rec[t].answer.state))
    /\ Goto(t, "next")
    /\ UNCHANGED rec

EndUnknown(t) ==
    /\ pc[t] = "next"
    /\ rec[t].phase = "unknown"
    /\ rec[t].todo = {}
    /\ rec' = [rec EXCEPT ![t].phase = "active"]
    /\ Goto(t, "list")
    /\ UNCHANGED store

\* An open order that has no intent, or that somebody else placed on the account,
\* fails the reconciliation.
EndActive(t) ==
    /\ pc[t] = "next"
    /\ rec[t].phase = "active"
    /\ rec[t].todo = {}
    /\ \/ (\A o \in Orders : Listed(t, o) => HasIntent(o)) /\ Return(t, "resolved")
       \/ Return(t, "failed")
    /\ UNCHANGED store

ResolveState(t) ==
    \/ FetchExchangeState(t)
    \/ ListIntents(t)
    \/ \E o \in Orders : QueryUnknown(t, o) \/ SyncActive(t, o)
    \/ BookFill(t)
    \/ WriteStatus(t)
    \/ EndUnknown(t)
    \/ EndActive(t)
=============================================================================
