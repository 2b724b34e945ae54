----------------------- MODULE EventResilienceProofs ------------------------
(***************************************************************************)
(* Theorems about EventResilience, for every finite set of proposals, all  *)
(* quantities and every limit: the books of an active engine agree, the    *)
(* write-ahead log has everything, a proposal becomes one order, a grant   *)
(* respects what the venue may still execute, and the engine as a whole    *)
(* implements Journal.                                                     *)
(***************************************************************************)
EXTENDS EventResilience, FiniteSetTheorems, TLAPS

(***************************************************************************)
(* The inductive invariant                                                 *)
(***************************************************************************)

(* The venue knows only proposals, and trades only what it accepted. *)
VenueSound ==
    \A o \in Orders :
        /\ venue[o].state # "none" => o \in proposals
        /\ venue[o].executed > 0 => venue[o].state \in {"accepted", "canceled"}

(* A record of an order tells no more than the venue has done. *)
Sound(r, o) ==
    /\ r.trades \subseteq Executed(o)
    /\ r.status \in {"gone", "new"} => r.trades = {}
    /\ r.status = "filled" => r.trades = LotsOf({o})
    /\ r.status \in {"canceled", "rejected"} => venue[o].state = r.status
    /\ r.status \notin {"gone", "new"} => venue[o].state \notin {"none", "sent"}

(* What would survive a crash is a part of what is known. *)
ObjectsSound ==
    \A o \in Orders :
        /\ Sound(native[o], o)
        /\ Sound(saved[o], o)
        /\ saved[o].trades \subseteq native[o].trades
        /\ native[o].status # "gone" => o \in proposals
        /\ saved[o] # Gone => o \in cached

(* The trade that is being booked, until the log has it as applied. *)
InHand == IF job.step \notin {"none", "release"} /\ job.type = "filled" THEN {job.trade} ELSE {}

(* How far the handler has come. *)
JobSound ==
    job.step # "none" =>
        /\ native[job.order].status # "gone"
        /\ job.type # "filled" => job.trade = NoTrade /\ IsTrue(job.type, job.order)
        /\ job.type = "filled" => job.trade \in Executed(job.order) /\ job.trade \in Logged
        /\ job.step \in {"mark", "release"} => job.type = "filled"
        /\ InHand \subseteq Pending
        /\ job.step # "apply" /\ job.type = "filled" =>
              job.trade \in native[job.order].trades
        /\ job.step \in {"on_event", "mark", "release"} => job.order \in cached
        /\ job.step \in {"on_event", "mark", "release"} /\ job.type = "filled" =>
              job.trade \in saved[job.order].trades
        /\ job.step \in {"mark", "release"} => job.trade \in position \cup Unpositioned

(* What is applied would survive a crash; what is in the position or in an order that
   is not in the cache is in the log. *)
LogSound ==
    /\ \A t \in Logged : t \in Executed(t[1])
    /\ \A t \in Applied : t \in saved[t[1]].trades
    /\ \A t \in position : t \in saved[t[1]].trades
    /\ Positioned(Applied) \subseteq position
    /\ \A o \in Orders \ cached : native[o].trades \subseteq Logged
    /\ realized <= Cardinality(Applied)

(* A reconciliation misses no row that is not applied, or knows it. *)
ReconcileSound ==
    /\ reconciling => halted
    /\ reconciling /\ ~unresolved => Pending \subseteq todo \cup InHand
    /\ todo \subseteq Pending \ InHand

(* An active engine's log is applied but for the trade in hand. *)
ActiveSound ==
    ~halted =>
        /\ Pending \subseteq InHand
        /\ job.step # "none" => ~job.recovery
        /\ realized = Cardinality(Applied)
        /\ \A o \in Orders : native[o].trades \subseteq Logged

(* An order that may still trade is reserved for, or counted from the cache, now and
   after a crash. *)
Counted(o) ==
    /\ native[o].status \in {"open", "filled"}
    /\ saved[o].status \in {"open", "filled"}

Covered ==
    /\ lapsed \subseteq proposals
    /\ \A o \in proposals \ (lapsed \cup reservations) :
          venue[o].state \in {"canceled", "rejected"} \/ Counted(o)

Inductive ==
    /\ TypeOK
    /\ VenueSound
    /\ ObjectsSound
    /\ JobSound
    /\ LogSound
    /\ ReconcileSound
    /\ ActiveSound
    /\ Covered

(***************************************************************************)
(* Trades, lots and truth                                                  *)
(***************************************************************************)

LEMMA LotsOfOrder ==
  ASSUME NEW o \in Orders
  PROVE  LotsOf({o}) = {o} \X (1..Qty[o]) /\ LotsOf({o}) \subseteq Trades
BY DEF LotsOf, Trades

LEMMA TradeOrder ==
  ASSUME NEW t \in Trades
  PROVE  t[1] \in Orders /\ t \in LotsOf({t[1]}) /\ t # NoTrade
<1>1. PICK o \in Orders : t \in {o} \X (1..Qty[o])
  BY DEF Trades
<1>2. t[1] = o /\ t # <<>>
  BY <1>1
<1> QED
  BY <1>1, <1>2 DEF LotsOf, NoTrade

(* What the venue executed of an order are lots of that order. *)
LEMMA ExecutedLots ==
  ASSUME TypeOK, NEW o \in Orders
  PROVE  /\ Executed(o) \subseteq LotsOf({o})
         /\ Executed(o) \subseteq Trades
         /\ \A t \in Executed(o) : t[1] = o
         /\ Executed(o) # {} => venue[o].executed > 0
         /\ venue[o].executed = Qty[o] => Executed(o) = LotsOf({o})
         /\ venue[o].state \in VenueStates /\ venue[o].executed \in Nat
         /\ Qty[o] \in Nat \ {0}
<1>1. venue[o] \in VenueRecords /\ venue[o].executed <= Qty[o] /\ Qty[o] \in Nat \ {0}
  BY QtyAssumption DEF TypeOK
<1>2. venue[o].executed \in Nat /\ venue[o].state \in VenueStates
  BY <1>1 DEF VenueRecords
<1>3. 1..venue[o].executed \subseteq 1..Qty[o]
  BY <1>1, <1>2
<1>4. venue[o].executed = 0 => 1..venue[o].executed = {}
  OBVIOUS
<1> QED
  BY <1>1, <1>2, <1>3, <1>4, LotsOfOrder DEF Executed

LEMMA JobFields ==
  ASSUME TypeOK
  PROVE  /\ NoJob.step = "none"
         /\ job = NoJob <=> job.step = "none"
         /\ job.step # "none" =>
              /\ job \in [step : Steps, type : EventTypes, order : Orders,
                          trade : Trades \cup {NoTrade}, recovery : BOOLEAN]
              /\ job.step \in Steps /\ job.type \in EventTypes /\ job.order \in Orders
              /\ job.trade \in Trades \cup {NoTrade} /\ job.recovery \in BOOLEAN
BY DEF TypeOK, Jobs, NoJob, Steps

(* The venue takes nothing back. *)
LEMMA VenueMoves ==
  ASSUME TypeOK, VenueSound, [Next]_vars, NEW o \in Orders
  PROVE  /\ Executed(o) \subseteq Executed(o)'
         /\ venue[o].state \in {"canceled", "rejected"} => venue'[o].state = venue[o].state
         /\ venue[o].state \notin {"none", "sent"} => venue'[o].state \notin {"none", "sent"}
         /\ \A type \in EventTypes \ {"filled"} : IsTrue(type, o) => IsTrue(type, o)'
<1>1. venue[o].executed \in Nat /\ venue[o].state \in VenueStates
  BY ExecutedLots
<1>2. CASE UNCHANGED venue
  BY <1>2 DEF Executed, IsTrue
<1>3. ASSUME NEW p \in Orders, Send(p) \/ VenueStep(p)
      PROVE  /\ venue'[o].executed \in {venue[o].executed, venue[o].executed + 1}
             /\ venue[o].state \in {"canceled", "rejected"} => venue'[o].state = venue[o].state
             /\ venue[o].state = "accepted" => venue'[o].state \in {"accepted", "canceled"}
  <2>1. venue \in [Orders -> [state : VenueStates, executed : Nat]]
    BY DEF TypeOK, VenueRecords
  <2>2. CASE Send(p)
    BY <2>1, <2>2 DEF Send
  <2>3. CASE VenueStep(p)
    BY <2>1, <2>3 DEF VenueStep
  <2> QED
    BY <1>3, <2>2, <2>3
<1>4. ASSUME NEW p \in Orders, Send(p) \/ VenueStep(p) PROVE Executed(o) \subseteq Executed(o)'
  <2>1. 1..venue[o].executed \subseteq 1..venue'[o].executed
    BY <1>1, <1>3, <1>4
  <2> QED
    BY <2>1 DEF Executed
<1>5. (\E p \in Orders : Send(p) \/ VenueStep(p)) \/ UNCHANGED venue
  BY DEF Next, vars, EvaluateAndSubmit, ReceiveOther, ReceiveFill, RefuseFill, OnEventEarly,
     ApplyEvent, UpdateCache, OnEvent, OnFill, MarkApplied, ReleaseFilled, Fail,
     CheckTimeouts, BeginReconcile, Recover, FinishReconcile, AbortReconcile, Crash
<1>6. CASE \E p \in Orders : Send(p) \/ VenueStep(p)
  <2>1. /\ Executed(o) \subseteq Executed(o)'
        /\ venue[o].state \in {"canceled", "rejected"} => venue'[o].state = venue[o].state
        /\ venue[o].state = "accepted" => venue'[o].state \in {"accepted", "canceled"}
    BY <1>3, <1>4, <1>6
  <2> QED
    BY <1>1, <2>1 DEF IsTrue, EventTypes, VenueStates
<1> QED
  BY <1>2, <1>5, <1>6

(* What was true of an order's record stays true. *)
LEMMA SoundStays ==
  ASSUME TypeOK, VenueSound, [Next]_vars, NEW o \in Orders, NEW r, Sound(r, o)
  PROVE  Sound(r, o)'
BY VenueMoves DEF Sound

USE DEF vars, database, engine, objects, control

(* There are finitely many trades, and as many of an order as it has lots. *)
LEMMA FiniteTrades == IsFiniteSet(Trades)
<1> DEFINE Block == [o \in Orders |-> {o} \X (1..Qty[o])]
           Blocks == {{o} \X (1..Qty[o]) : o \in Orders}
<1>1. Block \in Surjection(Orders, Blocks)
  BY DEF Surjection
<1>2. IsFiniteSet(Blocks)
  BY <1>1, OrdersAssumption, FS_Surjection
<1>3. ASSUME NEW o \in Orders PROVE IsFiniteSet({o} \X (1..Qty[o]))
  <2>1. Qty[o] \in Int /\ 1 \in Int
    BY QtyAssumption
  <2>2. IsFiniteSet({o}) /\ IsFiniteSet(1..Qty[o])
    BY <2>1, FS_Singleton, FS_Interval
  <2> QED
    BY <2>2, FS_Product
<1>4. IsFiniteSet(UNION Blocks)
  BY <1>2, <1>3, FS_UNION
<1> QED
  BY <1>4 DEF Trades

LEMMA LotsCounted ==
  ASSUME NEW o \in Orders
  PROVE  IsFiniteSet(LotsOf({o})) /\ Cardinality(LotsOf({o})) = Qty[o] /\ Qty[o] \in Nat
<1>1. Qty[o] \in Nat \ {0}
  BY QtyAssumption
<1>2. IsFiniteSet({o}) /\ Cardinality({o}) = 1
  BY FS_Singleton
<1>3. IsFiniteSet(1..Qty[o]) /\ Cardinality(1..Qty[o]) = Qty[o]
  BY <1>1, FS_Interval
<1>4. IsFiniteSet({o} \X (1..Qty[o])) /\ Cardinality({o} \X (1..Qty[o])) = 1 * Qty[o]
  BY <1>2, <1>3, FS_Product
<1>5. 1 * Qty[o] = Qty[o]
  BY <1>1
<1>6. LotsOf({o}) = {o} \X (1..Qty[o])
  BY LotsOfOrder
<1> QED
  BY <1>1, <1>4, <1>5, <1>6

LEMMA FiniteSubset ==
  ASSUME NEW S \in SUBSET Trades
  PROVE  IsFiniteSet(S) /\ Cardinality(S) \in Nat
BY FiniteTrades, FS_Subset, FS_CardinalityType

(* How the handler moves. *)
LEMMA HandlerMoves ==
  ASSUME TypeOK
  PROVE  /\ \A s \in Steps : job.step # "none" /\ Goto(s) =>
              /\ job' \in Jobs /\ job'.step = s /\ job'.type = job.type
              /\ job'.order = job.order /\ job'.trade = job.trade /\ job'.recovery = job.recovery
         /\ \A failed \in BOOLEAN : EndJob(failed) =>
              /\ job' \in Jobs /\ job'.step = "none"
              /\ halted' \in BOOLEAN /\ unresolved' \in BOOLEAN
         /\ \A type \in EventTypes, o \in Orders, t \in Trades \cup {NoTrade},
               recovery \in BOOLEAN :
              Start(type, o, t, recovery) =>
                /\ job' \in Jobs /\ job'.step = "apply" /\ job'.type = type
                /\ job'.order = o /\ job'.trade = t /\ job'.recovery = recovery
<1>1. ASSUME NEW s \in Steps, job.step # "none", Goto(s)
      PROVE  /\ job' \in Jobs /\ job'.step = s /\ job'.type = job.type
             /\ job'.order = job.order /\ job'.trade = job.trade /\ job'.recovery = job.recovery
  BY <1>1, JobFields DEF Goto, Jobs
<1>2. ASSUME NEW failed \in BOOLEAN, EndJob(failed)
      PROVE  /\ job' \in Jobs /\ job'.step = "none"
             /\ halted' \in BOOLEAN /\ unresolved' \in BOOLEAN
  BY <1>2 DEF EndJob, Jobs, NoJob, TypeOK
<1>3. ASSUME NEW type \in EventTypes, NEW o \in Orders, NEW t \in Trades \cup {NoTrade},
             NEW recovery \in BOOLEAN, Start(type, o, t, recovery)
      PROVE  /\ job' \in Jobs /\ job'.step = "apply" /\ job'.type = type
             /\ job'.order = o /\ job'.trade = t /\ job'.recovery = recovery
  BY <1>3 DEF Start, Jobs, Steps
<1> QED
  BY <1>1, <1>2, <1>3

(* The trade of a fill that is being handled. *)
LEMMA JobTrade ==
  ASSUME TypeOK, JobSound, job.step # "none", job.type = "filled"
  PROVE  /\ job.trade \in Trades /\ job.trade[1] = job.order /\ job.trade # NoTrade
         /\ job.order \in Orders
<1>1. job.order \in Orders /\ job.trade \in Executed(job.order)
  BY JobFields DEF JobSound
<1> QED
  BY <1>1, ExecutedLots, TradeOrder

(* A reservation goes only if its order is counted or closed. *)
LEMMA CoveredRelease ==
  ASSUME TypeOK, Covered, NEW S, Release(S), UNCHANGED <<native, saved, venue, proposals>>,
         \A o \in S \cap reservations :
            \/ venue[o].state \in {"canceled", "rejected"}
            \/ native[o].status \in {"open", "filled"}
  PROVE  Covered'
<1>1. \A o \in reservations : o \notin reservations' =>
         \/ o \in lapsed'
         \/ o \in S /\ saved[o] = native[o]
  BY DEF Release
<1>2. lapsed \subseteq lapsed' /\ lapsed' \subseteq proposals
  BY DEF Release, Covered, TypeOK
<1> QED
  BY <1>1, <1>2 DEF Covered, Counted

(* An order whose object says that it was accepted may still trade or is closed. *)
LEMMA StatusOf ==
  ASSUME TypeOK, ObjectsSound, NEW o \in Orders
  PROVE  /\ native[o] \in NativeRecords /\ saved[o] \in NativeRecords
         /\ native[o].status \in Statuses
         /\ native[o].status \notin {"gone", "new"} =>
              \/ venue[o].state \in {"canceled", "rejected"}
              \/ native[o].status \in {"open", "filled"}
         /\ native[o].trades # {} => native[o].status \notin {"gone", "new"}
         /\ saved[o].trades # {} => saved[o].status \notin {"gone", "new"}
<1>1. native[o] \in NativeRecords /\ saved[o] \in NativeRecords
  BY DEF TypeOK
<1> QED
  BY <1>1 DEF ObjectsSound, Sound, NativeRecords, Statuses

LEMMA SettledClosed ==
  ASSUME TypeOK, ObjectsSound, NEW o \in Settled
  PROVE  \/ venue[o].state \in {"canceled", "rejected"}
         \/ native[o].status \in {"open", "filled"}
BY StatusOf DEF Settled, IsOpen, IsClosed, TypeOK

LEMMA EvaluateAndSubmitStep ==
  ASSUME Inductive, NEW o \in Orders, EvaluateAndSubmit(o)
  PROVE  Inductive'
<1> USE DEF Inductive, EvaluateAndSubmit
<1>1. native[o].status = "gone" /\ o \notin proposals
  BY DEF ObjectsSound, HasProposal
<1>2. o \notin cached /\ saved[o] = Gone /\ native[o].trades = {}
  BY <1>1 DEF ObjectsSound, Sound, TypeOK
<1>3. /\ native' \in [Orders -> NativeRecords]
      /\ native'[o] = [status |-> "new", trades |-> {}]
      /\ \A p \in Orders : native'[p].trades = native[p].trades
      /\ \A p \in Orders : p # o => native'[p] = native[p]
  BY <1>2 DEF TypeOK, NativeRecords, Statuses, Gone
<1>4. TypeOK'
  BY <1>2, <1>3 DEF TypeOK
<1>5. VenueSound' /\ ObjectsSound'
  BY <1>2, <1>3 DEF VenueSound, ObjectsSound, Sound, Executed, Gone
<1>6. JobSound' /\ ReconcileSound'
  BY JobFields DEF Idle, JobSound, ReconcileSound, InHand, Pending
<1>7. LogSound' /\ ActiveSound'
  BY <1>3, JobFields DEF Idle, LogSound, ActiveSound, Logged, Applied, Pending, Positioned,
     Executed, InHand
<1>8. Covered'
  BY <1>1, <1>3 DEF Covered, Counted
<1> QED
  BY <1>4, <1>5, <1>6, <1>7, <1>8

LEMMA VenueOnlyStep ==
  ASSUME Inductive, [Next]_vars, NEW o \in Orders, Send(o) \/ VenueStep(o)
  PROVE  Inductive'
<1> USE DEF Inductive
<1>1. UNCHANGED <<database, engine, objects, control, lapsed>>
  BY DEF Send, VenueStep
<1>2. venue \in [Orders -> [state : VenueStates, executed : Nat]] /\ Qty \in [Orders -> Nat \ {0}]
  BY QtyAssumption DEF TypeOK, VenueRecords
<1>3. /\ venue' \in [Orders -> VenueRecords]
      /\ \A p \in Orders : venue'[p].executed <= Qty[p]
  <2>1. CASE Send(o)
    BY <1>2, <2>1 DEF Send, TypeOK, VenueRecords, VenueStates
  <2>2. CASE VenueStep(o)
    <3>1. \E r \in VenueRecords :
             venue' = [venue EXCEPT ![o] = r] /\ r.executed <= Qty[o]
      <4> DEFINE now == venue[o]
                 Row(s, n) == [state |-> s, executed |-> n]
      <4>1. now.state \in VenueStates /\ now.executed \in Nat /\ now.executed <= Qty[o]
            /\ Qty[o] \in Nat
        BY <1>2 DEF TypeOK
      <4>2. \/ venue' = [venue EXCEPT ![o] = Row("accepted", now.executed)]
            \/ venue' = [venue EXCEPT ![o] = Row("rejected", now.executed)]
            \/ venue' = [venue EXCEPT ![o] = Row("canceled", now.executed)]
            \/ /\ now.executed < Qty[o]
               /\ venue' = [venue EXCEPT ![o] = Row(now.state, now.executed + 1)]
        BY <1>2, <2>2 DEF VenueStep
      <4>3. PICK s \in VenueStates, n \in Nat :
               venue' = [venue EXCEPT ![o] = Row(s, n)] /\ n <= Qty[o]
        <5>1. now.executed < Qty[o] => now.executed + 1 \in Nat /\ now.executed + 1 <= Qty[o]
          BY <4>1
        <5> HIDE DEF now, Row
        <5> QED
          BY <4>1, <4>2, <5>1 DEF VenueStates
      <4>4. Row(s, n) \in VenueRecords /\ Row(s, n).executed <= Qty[o]
        BY <4>3 DEF VenueRecords
      <4> QED
        BY <4>3, <4>4
    <3> QED
      BY <1>2, <3>1 DEF TypeOK, VenueRecords
  <2> QED
    BY <2>1, <2>2
<1>4. TypeOK'
  BY <1>1, <1>3 DEF TypeOK
<1>5. VenueSound'
  <2>1. CASE Send(o)
    BY <1>1, <1>2, <2>1 DEF Send, VenueSound, ObjectsSound
  <2>2. CASE VenueStep(o)
    BY <1>1, <1>2, <2>2 DEF VenueStep, VenueSound
  <2> QED
    BY <2>1, <2>2
<1>6. ObjectsSound'
  BY <1>1, SoundStays DEF ObjectsSound
<1>7. JobSound' /\ LogSound'
  <2>1. \A p \in Orders : Executed(p) \subseteq Executed(p)'
    BY VenueMoves
  <2>2. JobSound'
    BY <1>1, <2>1, VenueMoves, JobFields DEF JobSound, InHand, Logged, Pending
  <2>3. \A t \in Logged : t[1] \in Orders
    BY TradeOrder DEF Logged
  <2>4. LogSound'
    BY <1>1, <2>1, <2>3 DEF LogSound, Logged, Applied, Positioned
  <2> QED
    BY <2>2, <2>4
<1>8. ReconcileSound' /\ ActiveSound'
  BY <1>1 DEF ReconcileSound, ActiveSound, InHand, Pending, Logged, Applied
<1>9. Covered'
  BY <1>1, VenueMoves DEF Covered, Counted, TypeOK
<1> QED
  BY <1>4, <1>5, <1>6, <1>7, <1>8, <1>9

LEMMA ReceiveOtherStep ==
  ASSUME Inductive, NEW type \in EventTypes, NEW o \in Orders, ReceiveOther(type, o)
  PROVE  Inductive'
<1> USE DEF Inductive, ReceiveOther
<1>1. /\ job' \in Jobs /\ job'.step = "apply" /\ job'.type = type
      /\ job'.order = o /\ job'.trade = NoTrade /\ job'.recovery = FALSE
  BY HandlerMoves
<1>2. job.step = "none" /\ type # "filled"
  BY JobFields DEF Idle
<1>3. TypeOK'
  BY <1>1 DEF TypeOK
<1>4. VenueSound' /\ ObjectsSound' /\ LogSound' /\ Covered'
  BY DEF VenueSound, ObjectsSound, Sound, Executed, LogSound, Logged, Applied, Positioned,
     Covered, Counted
<1>5. JobSound'
  BY <1>1, <1>2 DEF JobSound, InHand, IsTrue
<1>6. ReconcileSound' /\ ActiveSound'
  BY <1>1, <1>2 DEF ReconcileSound, ActiveSound, InHand, Pending, Logged, Applied
<1> QED
  BY <1>3, <1>4, <1>5, <1>6

LEMMA ReceiveFillStep ==
  ASSUME Inductive, NEW o \in Orders, NEW t \in Trades, ReceiveFill(o, t)
  PROVE  Inductive'
<1> USE DEF Inductive, ReceiveFill
<1>1. /\ job' \in Jobs /\ job'.step = "apply" /\ job'.type = "filled"
      /\ job'.order = o /\ job'.trade = t /\ job'.recovery = (fills[t] = "pending")
  BY HandlerMoves DEF EventTypes
<1>2. job.step = "none" /\ ~reconciling /\ todo = {} /\ InHand' = {t} /\ InHand = {}
  BY <1>1, JobFields DEF Idle, InHand, TypeOK
<1>3. /\ fills' \in [Trades -> {"none", "pending", "applied"}]
      /\ Applied' = Applied /\ Logged' = Logged \cup {t} /\ Pending' = Pending \cup {t}
  BY DEF Logged, Applied, Pending, TypeOK
<1>4. TypeOK'
  BY <1>1, <1>3 DEF TypeOK
<1>5. VenueSound' /\ ObjectsSound' /\ Covered'
  BY DEF VenueSound, ObjectsSound, Sound, Executed, Covered, Counted
<1>6. JobSound'
  BY <1>1, <1>2, <1>3 DEF JobSound, Executed
<1>7. LogSound'
  <2>1. t[1] = o
    BY ExecutedLots
  <2> QED
    BY <1>3, <2>1 DEF LogSound, Executed, Positioned
<1>8. ReconcileSound'
  BY <1>2, <1>3 DEF ReconcileSound
<1>9. ActiveSound'
  <2>1. ~halted => fills[t] # "pending"
    BY <1>2 DEF ActiveSound, Pending
  <2> QED
    BY <1>1, <1>2, <1>3, <2>1 DEF ActiveSound
<1> QED
  BY <1>4, <1>5, <1>6, <1>7, <1>8, <1>9

LEMMA RefuseFillStep ==
  ASSUME Inductive, NEW o \in Orders, NEW t \in Trades, RefuseFill(o, t)
  PROVE  Inductive'
<1> USE DEF Inductive, RefuseFill
<1>1. TypeOK'
  BY DEF TypeOK
<1>2. VenueSound' /\ ObjectsSound' /\ LogSound' /\ Covered'
  BY DEF VenueSound, ObjectsSound, Sound, Executed, LogSound, Logged, Applied, Positioned,
     Covered, Counted
<1>3. JobSound' /\ ReconcileSound' /\ ActiveSound'
  BY DEF JobSound, ReconcileSound, ActiveSound, InHand, IsTrue, Executed, Logged, Pending
<1> QED
  BY <1>1, <1>2, <1>3

(* Only reservations are released. *)
LEMMA ReleaseOnly ==
  ASSUME Inductive, NEW S, Release(S),
         UNCHANGED <<proposals, fills, realized, objects, job, reconciling, todo, unresolved,
                     venue>>,
         halted' \in BOOLEAN, halted => halted',
         \A o \in S \cap reservations :
            \/ venue[o].state \in {"canceled", "rejected"}
            \/ native[o].status \in {"open", "filled"}
  PROVE  Inductive'
<1> USE DEF Inductive
<1>1. TypeOK'
  BY DEF TypeOK, Release
<1>2. VenueSound' /\ ObjectsSound' /\ LogSound'
  BY DEF VenueSound, ObjectsSound, Sound, Executed, LogSound, Logged, Applied, Positioned
<1>3. JobSound' /\ ReconcileSound' /\ ActiveSound'
  BY <1>1 DEF JobSound, ReconcileSound, ActiveSound, InHand, IsTrue, Executed, Logged, Applied,
     Pending
<1>4. Covered'
  BY CoveredRelease
<1> QED
  BY <1>1, <1>2, <1>3, <1>4

LEMMA OnEventEarlyStep ==
  ASSUME Inductive, NEW o \in Orders, OnEventEarly(o)
  PROVE  Inductive'
<1>1. \A p \in ReleasedByAccepted(o) : native[p].status = "open"
  BY DEF ReleasedByAccepted, IsOpen
<1> QED
  BY <1>1, ReleaseOnly DEF OnEventEarly, Inductive, TypeOK

(* What an event makes of an order is true, and keeps its fills. *)
LEMMA ApplyingSound ==
  ASSUME Inductive, job.step = "apply", "applied" \in Outcomes(job)
  PROVE  LET o == job.order
             r == Applying(job)
         IN  /\ r \in NativeRecords /\ r.status # "gone"
             /\ Sound(r, o)
             /\ native[o].trades \subseteq r.trades
             /\ job.type = "filled" => r.trades = native[o].trades \cup {job.trade}
             /\ job.type # "filled" => r.trades = native[o].trades
             /\ native[o].status \in {"open", "filled"} =>
                   venue[o].state \in {"canceled", "rejected"} \/ r.status \in {"open", "filled"}
<1> DEFINE o == job.order
           n == native[o]
           r == Applying(job)
<1> USE DEF Inductive
<1>1. /\ o \in Orders /\ job.type \in EventTypes /\ n \in NativeRecords /\ n.status # "gone"
      /\ n.status \in Statuses /\ n.trades \in SUBSET Trades
  BY JobFields DEF TypeOK, JobSound, NativeRecords
<1>2. Sound(n, o)
  BY <1>1 DEF ObjectsSound
<1>3. \A s \in Statuses : [n EXCEPT !.status = s] \in NativeRecords
                          /\ [n EXCEPT !.status = s].status = s
                          /\ [n EXCEPT !.status = s].trades = n.trades
  BY <1>1 DEF NativeRecords
<1>4. CASE job.type = "submitted"
  <2>1. r = n
    BY <1>4 DEF Applying
  <2> QED
    BY <1>1, <1>2, <1>4, <2>1
<1>5. CASE job.type = "accepted"
  <2>1. r = [n EXCEPT !.status = "open"]
    BY <1>5 DEF Applying
  <2>2. venue[o].state \in {"accepted", "canceled"}
    BY <1>5, JobFields DEF JobSound, IsTrue
  <2>3. Sound(r, o)
    BY <1>2, <1>3, <2>1, <2>2 DEF Sound, Statuses
  <2> QED
    BY <1>1, <1>3, <1>5, <2>1, <2>3 DEF Statuses
<1>6. CASE job.type = "filled"
  <2> DEFINE has == n.trades \cup {job.trade}
             full == Cardinality(has) = Qty[o]
  <2>1. r = [trades |-> has, status |-> IF full THEN "filled" ELSE "open"]
    BY <1>6 DEF Applying
  <2>2. job.trade \in Executed(o) /\ job.trade \in Trades
    BY <1>6, JobTrade DEF JobSound
  <2>3. venue[o].executed > 0 /\ venue[o].state \in {"accepted", "canceled"}
    BY <1>1, <2>2, ExecutedLots DEF VenueSound
  <2>4. has \subseteq Executed(o)
    BY <1>2, <2>2 DEF Sound
  <2>5. full => has = LotsOf({o})
    BY <1>1, <2>4, ExecutedLots, LotsCounted, FS_Subset
  <2>6. r.trades = has /\ r.status \in {"filled", "open"} /\ (r.status = "filled" => full)
    BY <2>1
  <2>7. Sound(r, o)
    <3> HIDE DEF r, has, full, n
    <3> QED
      BY <2>3, <2>4, <2>5, <2>6 DEF Sound
  <2> QED
    BY <1>1, <1>6, <2>1, <2>2, <2>6, <2>7 DEF NativeRecords, Statuses
<1>7. CASE job.type \in {"canceled", "rejected"}
  <2>1. r = [n EXCEPT !.status = job.type]
    BY <1>7 DEF Applying
  <2>2. venue[o].state = job.type
    BY <1>7, JobFields DEF JobSound, IsTrue
  <2>3. job.type \in Statuses
    BY <1>7 DEF Statuses
  <2>4. r.status = job.type /\ r.trades = n.trades
    BY <1>3, <2>1, <2>3
  <2>5. Sound(r, o)
    <3> HIDE DEF r, n
    <3> QED
      BY <1>2, <1>7, <2>2, <2>4 DEF Sound
  <2> QED
    BY <1>1, <1>3, <1>7, <2>1, <2>2, <2>3, <2>4, <2>5
<1> QED
  BY <1>1, <1>4, <1>5, <1>6, <1>7 DEF EventTypes

LEMMA ApplyEventStep ==
  ASSUME Inductive, ApplyEvent
  PROVE  Inductive'
<1> DEFINE o == job.order
<1> USE DEF Inductive
<1>1. /\ job.step = "apply" /\ o \in Orders /\ job.type \in EventTypes
      /\ job.type = "filled" => job.trade \in Logged /\ InHand = {job.trade}
      /\ job.type # "filled" => InHand = {}
      /\ UNCHANGED <<database, realized, cached, position, saved, venue, lapsed>>
  BY JobFields DEF ApplyEvent, JobSound, InHand
<1>2. Logged' = Logged /\ Applied' = Applied /\ Pending' = Pending
  BY <1>1 DEF Logged, Applied, Pending
<1>3. CASE /\ "applied" \in Outcomes(job)
           /\ native' = [native EXCEPT ![o] = Applying(job)]
           /\ Goto("cache")
  <2> DEFINE r == Applying(job)
  <2>1. /\ r \in NativeRecords /\ r.status # "gone" /\ Sound(r, o)
        /\ native[o].trades \subseteq r.trades
        /\ job.type = "filled" => r.trades = native[o].trades \cup {job.trade}
        /\ job.type # "filled" => r.trades = native[o].trades
        /\ native[o].status \in {"open", "filled"} =>
              venue[o].state \in {"canceled", "rejected"} \/ r.status \in {"open", "filled"}
    BY <1>1, <1>3, ApplyingSound
  <2>2. /\ native' \in [Orders -> NativeRecords] /\ native'[o] = r
        /\ \A p \in Orders : p # o => native'[p] = native[p]
    BY <1>1, <1>3, <2>1 DEF TypeOK
  <2> HIDE DEF r
  <2>3. /\ job' \in Jobs /\ job'.step = "cache" /\ job'.type = job.type
        /\ job'.order = o /\ job'.trade = job.trade /\ job'.recovery = job.recovery
        /\ UNCHANGED <<halted, reconciling, todo, unresolved>>
    BY <1>1, <1>3, HandlerMoves DEF Goto, Steps
  <2>4. InHand' = InHand
    BY <1>1, <2>3 DEF InHand
  <2>5. TypeOK'
    <3>1. r.trades \subseteq {o} \X (1..Qty[o])
      BY <1>1, <2>1, ExecutedLots, LotsOfOrder DEF Sound
    <3> QED
      BY <1>1, <2>1, <2>2, <2>3, <3>1 DEF TypeOK
  <2>6. VenueSound' /\ ObjectsSound'
    BY <1>1, <2>1, <2>2 DEF VenueSound, ObjectsSound, JobSound, Sound, Executed
  <2>7. JobSound'
    BY <1>1, <1>2, <2>1, <2>2, <2>3, <2>4 DEF JobSound, IsTrue, Executed
  <2>8. LogSound'
    BY <1>1, <1>2, <2>1, <2>2 DEF LogSound, Positioned, Executed
  <2>9. ReconcileSound'
    BY <1>2, <2>3, <2>4 DEF ReconcileSound
  <2>10. ActiveSound'
    BY <1>1, <1>2, <2>1, <2>2, <2>3, <2>4 DEF ActiveSound
  <2>11. Covered'
    BY <1>1, <2>1, <2>2 DEF Covered, Counted, TypeOK
  <2> QED
    BY <2>5, <2>6, <2>7, <2>8, <2>9, <2>10, <2>11
<1>4. CASE \E failed \in BOOLEAN :
              EndJob(failed) /\ UNCHANGED native /\ (failed \/ job.type # "filled")
  <2>1. PICK failed \in BOOLEAN :
           EndJob(failed) /\ UNCHANGED native /\ (failed \/ job.type # "filled")
    BY <1>4
  <2>2. /\ job' \in Jobs /\ job'.step = "none" /\ InHand' = {}
        /\ halted' \in BOOLEAN /\ unresolved' \in BOOLEAN
        /\ halted' = (halted \/ failed) /\ UNCHANGED <<reconciling, todo>>
        /\ unresolved' = (unresolved \/ (reconciling /\ failed))
    BY <2>1, HandlerMoves DEF EndJob, InHand
  <2>3. TypeOK'
    BY <1>1, <2>1, <2>2 DEF TypeOK
  <2>4. VenueSound' /\ ObjectsSound' /\ LogSound' /\ Covered'
    BY <1>1, <1>2, <2>1 DEF VenueSound, ObjectsSound, Sound, Executed, LogSound, Positioned,
       Covered, Counted
  <2>5. JobSound' /\ ReconcileSound' /\ ActiveSound'
    BY <1>1, <1>2, <2>1, <2>2 DEF JobSound, ReconcileSound, ActiveSound
  <2> QED
    BY <2>3, <2>4, <2>5
<1>5. CASE job.recovery /\ job.trade \in native[o].trades /\ Goto("cache") /\ UNCHANGED native
  <2>1. /\ job' \in Jobs /\ job'.step = "cache" /\ job'.type = job.type
        /\ job'.order = o /\ job'.trade = job.trade /\ job'.recovery = job.recovery
        /\ UNCHANGED <<halted, reconciling, todo, unresolved>>
    BY <1>1, <1>5, HandlerMoves DEF Goto, Steps
  <2>2. InHand' = InHand
    BY <1>1, <2>1 DEF InHand
  <2>3. TypeOK'
    BY <1>1, <1>5, <2>1 DEF TypeOK
  <2>4. VenueSound' /\ ObjectsSound' /\ LogSound' /\ Covered'
    BY <1>1, <1>2, <1>5 DEF VenueSound, ObjectsSound, Sound, Executed, LogSound, Positioned,
       Covered, Counted
  <2>5. JobSound' /\ ReconcileSound' /\ ActiveSound'
    BY <1>1, <1>2, <1>5, <2>1, <2>2 DEF JobSound, IsTrue, Executed, ReconcileSound, ActiveSound
  <2> QED
    BY <2>3, <2>4, <2>5
<1>6. "late" \in Outcomes(job) => job.type # "filled"
  BY DEF Outcomes
<1> QED
  BY <1>3, <1>4, <1>5, <1>6 DEF ApplyEvent

LEMMA UpdateCacheStep ==
  ASSUME Inductive, UpdateCache
  PROVE  Inductive'
<1> USE DEF Inductive, UpdateCache
<1>1. /\ job.step = "cache" /\ job.order \in Orders
      /\ job' \in Jobs /\ job'.step = "on_event" /\ job'.type = job.type
      /\ job'.order = job.order /\ job'.trade = job.trade /\ job'.recovery = job.recovery
      /\ UNCHANGED <<halted, reconciling, todo, unresolved>>
  BY JobFields, HandlerMoves DEF Steps, Goto
<1>2. /\ saved' \in [Orders -> NativeRecords]
      /\ saved'[job.order] = native[job.order]
      /\ \A o \in Orders : o # job.order => saved'[o] = saved[o]
      /\ \A o \in Orders : saved[o].trades \subseteq saved'[o].trades
      /\ \A o \in Orders : saved'[o] = saved[o] \/ saved'[o] = native[o]
  BY <1>1 DEF TypeOK, ObjectsSound
<1>3. InHand' = InHand /\ Pending' = Pending
  BY <1>1 DEF InHand, Pending
<1>4. native[job.order].status # "gone"
  BY <1>1 DEF JobSound
<1>5. TypeOK'
  BY <1>1, <1>2, <1>4 DEF TypeOK
<1>6. VenueSound' /\ ObjectsSound'
  BY <1>1, <1>2 DEF VenueSound, ObjectsSound, Sound, Executed
<1>7. JobSound'
  BY <1>1, <1>2, <1>3 DEF JobSound, IsTrue, Executed, Logged
<1>8. LogSound'
  <2>1. \A t \in Logged : t[1] \in Orders
    BY TradeOrder DEF Logged
  <2>2. \A t \in position \cup Applied : t[1] \in Orders
    BY TradeOrder DEF TypeOK, Applied
  <2> QED
    BY <1>2, <2>1, <2>2 DEF LogSound, Logged, Applied, Positioned, Executed
<1>9. ReconcileSound' /\ ActiveSound'
  BY <1>1, <1>3 DEF ReconcileSound, ActiveSound, Logged, Applied
<1>10. Covered'
  BY <1>2 DEF Covered, Counted, TypeOK
<1> QED
  BY <1>5, <1>6, <1>7, <1>8, <1>9, <1>10

LEMMA OnEventStep ==
  ASSUME Inductive, OnEvent
  PROVE  Inductive'
<1> USE DEF Inductive, OnEvent
<1>1. job.step = "on_event" /\ job.type # "filled" /\ job.order \in Orders
      /\ job.type \in EventTypes /\ InHand = {}
  BY JobFields DEF InHand
<1>2. /\ job' \in Jobs /\ job'.step = "none" /\ InHand' = {}
      /\ UNCHANGED <<halted, reconciling, todo, unresolved>>
  BY HandlerMoves DEF EndJob, InHand, TypeOK
<1>3. PICK S : /\ Release(S)
               /\ \A o \in S \cap reservations :
                     \/ venue[o].state \in {"canceled", "rejected"}
                     \/ native[o].status \in {"open", "filled"}
  <2>1. CASE job.type = "submitted"
    BY <1>1, <2>1
  <2>2. CASE job.type = "accepted"
    BY <1>1, <2>2 DEF ReleasedByAccepted, IsOpen
  <2>3. CASE job.type \in {"canceled", "rejected"}
    <3>1. Release({job.order})
      BY <1>1, <2>3
    <3>2. venue[job.order].state = job.type
      BY <1>1, <2>3 DEF JobSound, IsTrue
    <3> QED
      BY <2>3, <3>1, <3>2
  <2> QED
    BY <1>1, <2>1, <2>2, <2>3 DEF EventTypes
<1>4. TypeOK'
  BY <1>2, <1>3 DEF TypeOK, Release
<1>5. VenueSound' /\ ObjectsSound' /\ LogSound'
  BY DEF VenueSound, ObjectsSound, Sound, Executed, LogSound, Logged, Applied, Positioned
<1>6. JobSound' /\ ReconcileSound' /\ ActiveSound'
  BY <1>1, <1>2 DEF JobSound, ReconcileSound, ActiveSound, Pending, Logged, Applied
<1>7. Covered'
  BY <1>3, CoveredRelease
<1> QED
  BY <1>4, <1>5, <1>6, <1>7

LEMMA OnFillStep ==
  ASSUME Inductive, OnFill
  PROVE  Inductive'
<1> USE DEF Inductive, OnFill
<1>1. /\ job.step = "on_event" /\ job.type = "filled"
      /\ job.trade \in Trades /\ job.trade[1] = job.order
      /\ job' \in Jobs /\ job'.step = "mark" /\ job'.type = job.type
      /\ job'.order = job.order /\ job'.trade = job.trade /\ job'.recovery = job.recovery
      /\ UNCHANGED <<halted, reconciling, todo, unresolved>>
  BY JobTrade, HandlerMoves DEF Steps, Goto
<1>2. InHand' = InHand /\ Pending' = Pending
  BY <1>1 DEF InHand, Pending
<1>3. TypeOK'
  BY <1>1 DEF TypeOK
<1>4. VenueSound' /\ ObjectsSound' /\ Covered'
  BY DEF VenueSound, ObjectsSound, Sound, Executed, Covered, Counted
<1>5. JobSound'
  BY <1>1, <1>2 DEF JobSound, IsTrue, Executed, Logged
<1>6. LogSound'
  BY <1>1 DEF LogSound, JobSound, Logged, Applied, Positioned, Executed
<1>7. ReconcileSound' /\ ActiveSound'
  BY <1>1, <1>2 DEF ReconcileSound, ActiveSound, Logged, Applied
<1> QED
  BY <1>3, <1>4, <1>5, <1>6, <1>7

LEMMA MarkAppliedStep ==
  ASSUME Inductive, MarkApplied
  PROVE  Inductive'
<1> DEFINE t == job.trade
<1> USE DEF Inductive, MarkApplied
<1>1. /\ job.step = "mark" /\ job.type = "filled" /\ job.order \in Orders
      /\ t \in Trades /\ t[1] = job.order /\ InHand = {t} /\ t \in Pending
      /\ job.recovery \in BOOLEAN
  BY JobFields, JobTrade DEF JobSound, InHand
<1>2. /\ job' \in Jobs /\ job'.step = "release" /\ job'.type = job.type
      /\ job'.order = job.order /\ job'.trade = t /\ job'.recovery = job.recovery
      /\ InHand' = {}
      /\ UNCHANGED <<halted, reconciling, todo, unresolved>>
  BY <1>1, HandlerMoves DEF Steps, Goto, InHand
<1>3. /\ fills' \in [Trades -> {"none", "pending", "applied"}]
      /\ Logged' = Logged /\ Applied' = Applied \cup {t} /\ Pending' = Pending \ {t}
      /\ t \notin Applied
  BY <1>1 DEF Logged, Applied, Pending, TypeOK
<1>4. Cardinality(Applied') = Cardinality(Applied) + 1 /\ Cardinality(Applied) \in Nat
  <2>1. Applied \in SUBSET Trades
    BY DEF Applied
  <2> QED
    BY <1>3, <2>1, FiniteSubset, FS_AddElement
<1>5. TypeOK'
  BY <1>2, <1>3 DEF TypeOK
<1>6. VenueSound' /\ ObjectsSound' /\ Covered'
  BY DEF VenueSound, ObjectsSound, Sound, Executed, Covered, Counted
<1>7. JobSound'
  BY <1>1, <1>2, <1>3 DEF JobSound, IsTrue, Executed
<1>8. LogSound'
  <2>1. t \in saved[t[1]].trades /\ t \in position \cup Unpositioned
    BY <1>1 DEF JobSound
  <2>2. realized' <= Cardinality(Applied')
    BY <1>4 DEF LogSound, TypeOK
  <2> QED
    BY <1>3, <2>1, <2>2 DEF LogSound, Positioned, Executed
<1>9. ReconcileSound'
  BY <1>1, <1>2, <1>3 DEF ReconcileSound
<1>10. ActiveSound'
  BY <1>1, <1>2, <1>3, <1>4 DEF ActiveSound
<1> QED
  BY <1>5, <1>6, <1>7, <1>8, <1>9, <1>10

LEMMA ReleaseFilledStep ==
  ASSUME Inductive, ReleaseFilled
  PROVE  Inductive'
<1> USE DEF Inductive, ReleaseFilled
<1>1. /\ job.step = "release" /\ job.type = "filled" /\ job.order \in Orders /\ InHand = {}
      /\ job.trade \in native[job.order].trades
  BY JobFields DEF InHand, JobSound
<1>2. /\ job' \in Jobs /\ job'.step = "none" /\ InHand' = {}
      /\ UNCHANGED <<halted, reconciling, todo, unresolved>>
  BY HandlerMoves DEF EndJob, InHand, TypeOK
<1>3. TypeOK'
  BY <1>2 DEF TypeOK, Release
<1>4. VenueSound' /\ ObjectsSound' /\ LogSound'
  BY DEF VenueSound, ObjectsSound, Sound, Executed, LogSound, Logged, Applied, Positioned
<1>5. JobSound' /\ ReconcileSound' /\ ActiveSound'
  BY <1>1, <1>2 DEF JobSound, ReconcileSound, ActiveSound, Pending, Logged, Applied
<1>6. Covered'
  BY <1>1, StatusOf, CoveredRelease
<1> QED
  BY <1>3, <1>4, <1>5, <1>6

LEMMA FailStep ==
  ASSUME Inductive, Fail
  PROVE  Inductive'
<1> USE DEF Inductive, Fail
<1>1. job' \in Jobs /\ job'.step = "none" /\ halted' = TRUE /\ unresolved' \in BOOLEAN
  BY HandlerMoves DEF EndJob
<1>2. UNCHANGED <<reconciling, todo>> /\ unresolved' = (unresolved \/ reconciling)
  BY DEF EndJob
<1>3. TypeOK'
  BY <1>1, <1>2 DEF TypeOK
<1>4. VenueSound' /\ ObjectsSound' /\ LogSound' /\ Covered'
  BY DEF VenueSound, ObjectsSound, Sound, Executed, LogSound, Logged, Applied, Positioned,
     Covered, Counted
<1>5. JobSound' /\ ReconcileSound' /\ ActiveSound'
  BY <1>1, <1>2 DEF JobSound, ReconcileSound, ActiveSound, InHand, Pending
<1> QED
  BY <1>3, <1>4, <1>5

LEMMA CheckTimeoutsStep ==
  ASSUME Inductive, NEW late \in SUBSET reservations, CheckTimeouts(late)
  PROVE  Inductive'
BY SettledClosed, ReleaseOnly DEF CheckTimeouts, Inductive, TypeOK

LEMMA BeginReconcileStep ==
  ASSUME Inductive, BeginReconcile
  PROVE  Inductive'
<1> USE DEF Inductive, BeginReconcile
<1>1. job.step = "none" /\ job' = job /\ InHand' = {}
  BY JobFields DEF Idle, InHand
<1>2. TypeOK'
  BY DEF TypeOK, Release, Pending
<1>3. VenueSound' /\ ObjectsSound' /\ LogSound'
  BY DEF VenueSound, ObjectsSound, Sound, Executed, LogSound, Logged, Applied, Positioned
<1>4. JobSound' /\ ReconcileSound' /\ ActiveSound'
  BY <1>1 DEF JobSound, ReconcileSound, ActiveSound, Pending
<1>5. Covered'
  BY SettledClosed, CoveredRelease
<1> QED
  BY <1>2, <1>3, <1>4, <1>5

LEMMA RecoverStep ==
  ASSUME Inductive, NEW t \in Trades, Recover(t)
  PROVE  Inductive'
<1> USE DEF Inductive, Recover
<1>1. /\ job.step = "none" /\ InHand = {} /\ reconciling /\ halted /\ t \in Pending
      /\ t[1] \in Orders
  BY JobFields, TradeOrder DEF InHand, ReconcileSound
<1>2. VenueSound' /\ ObjectsSound' /\ LogSound' /\ Covered' /\ ActiveSound'
  BY <1>1 DEF VenueSound, ObjectsSound, Sound, Executed, LogSound, Logged, Applied, Positioned,
     Covered, Counted, ActiveSound
<1>3. CASE t[1] \in cached
  <2>1. /\ job' \in Jobs /\ job'.step = "apply" /\ job'.type = "filled"
        /\ job'.order = t[1] /\ job'.trade = t /\ job'.recovery = TRUE
    BY <1>1, <1>3, HandlerMoves DEF EventTypes
  <2>2. InHand' = {t} /\ Pending' = Pending
    BY <2>1 DEF InHand, Pending
  <2>3. TypeOK'
    BY <1>1, <1>3, <2>1 DEF TypeOK
  <2>4. JobSound'
    <3>1. native[t[1]].status # "gone"
      BY <1>3 DEF TypeOK
    <3>2. t \in Logged /\ t \in Executed(t[1])
      BY <1>1 DEF Pending, Logged, LogSound
    <3> QED
      BY <1>1, <2>1, <2>2, <3>1, <3>2 DEF JobSound, Logged, Executed
  <2>5. ReconcileSound'
    BY <1>1, <1>3, <2>2 DEF ReconcileSound
  <2> QED
    BY <1>2, <2>3, <2>4, <2>5
<1>4. CASE t[1] \notin cached
  <2>1. TypeOK'
    BY <1>1, <1>4 DEF TypeOK
  <2>2. JobSound' /\ ReconcileSound'
    BY <1>1, <1>4 DEF JobSound, ReconcileSound, InHand, Pending
  <2> QED
    BY <1>2, <2>1, <2>2
<1> QED
  BY <1>3, <1>4

(* If nothing is pending and the numbers match, every order's fills are in the log. *)
LEMMA BooksMatchMeans ==
  ASSUME Inductive, Pending = {}, BooksMatch, NEW o \in Orders
  PROVE  native[o].trades \subseteq Logged
<1> USE DEF Inductive
<1>1. CASE o \notin cached \/ native[o].trades = {}
  BY <1>1 DEF LogSound
<1>2. CASE o \in cached /\ native[o].trades # {}
  <2> DEFINE L == {t \in Logged : t[1] = o}
  <2>1. Cardinality(L) = Cardinality(native[o].trades)
    BY <1>2 DEF BooksMatch
  <2>2. L \subseteq native[o].trades
    <3>1. Logged = Applied
      BY DEF Logged, Applied, Pending, TypeOK
    <3> QED
      BY <3>1 DEF LogSound, ObjectsSound
  <2>3. IsFiniteSet(native[o].trades)
    BY FiniteSubset, StatusOf DEF NativeRecords
  <2>4. L = native[o].trades
    BY <2>1, <2>2, <2>3, FS_Subset
  <2> QED
    BY <2>4
<1> QED
  BY <1>1, <1>2

LEMMA FinishReconcileStep ==
  ASSUME Inductive, FinishReconcile
  PROVE  Inductive'
<1> USE DEF Inductive, FinishReconcile
<1>1. job.step = "none" /\ InHand = {} /\ InHand' = {} /\ halted' \in BOOLEAN
  BY JobFields DEF InHand
<1>2. Cardinality(Applied) \in Nat
  BY FiniteSubset DEF Applied
<1>3. TypeOK'
  BY <1>1, <1>2 DEF TypeOK
<1>4. VenueSound' /\ ObjectsSound' /\ Covered'
  BY DEF VenueSound, ObjectsSound, Sound, Executed, Covered, Counted
<1>5. LogSound'
  BY <1>2 DEF LogSound, Logged, Applied, Positioned, Executed
<1>6. JobSound' /\ ReconcileSound'
  BY <1>1 DEF JobSound, ReconcileSound, Pending
<1>7. ActiveSound'
  <2>1. SUFFICES ASSUME ~halted' PROVE ActiveSound'
    BY DEF ActiveSound
  <2>2. ~unresolved /\ BooksMatch /\ realized' = Cardinality(Applied)
    BY <2>1
  <2>3. Pending = {}
    BY <1>1, <2>2 DEF ReconcileSound
  <2>4. \A o \in Orders : native[o].trades \subseteq Logged
    BY <2>2, <2>3, BooksMatchMeans
  <2> QED
    BY <1>1, <2>2, <2>3, <2>4 DEF ActiveSound, Pending, Logged, Applied
<1> QED
  BY <1>3, <1>4, <1>5, <1>6, <1>7

LEMMA AbortReconcileStep ==
  ASSUME Inductive, AbortReconcile
  PROVE  Inductive'
<1>1. PICK some \in SUBSET Settled : Release(some)
  BY DEF AbortReconcile
<1> QED
  BY <1>1, SettledClosed, ReleaseOnly DEF AbortReconcile, Inductive

(* The order as the venue has it is sound, and knows every fill. *)
LEMMA TruthSound ==
  ASSUME TypeOK, VenueSound, NEW o \in Orders, venue[o].state # "none"
  PROVE  /\ Truth(o) \in NativeRecords /\ Truth(o).status # "gone"
         /\ Truth(o).trades = Executed(o)
         /\ Sound(Truth(o), o)
         /\ venue[o].state = "accepted" => Truth(o).status \in {"open", "filled"}
<1>1. /\ Executed(o) \subseteq Trades /\ venue[o].state \in VenueStates
      /\ Executed(o) # {} => venue[o].executed > 0
      /\ venue[o].executed = Qty[o] => Executed(o) = LotsOf({o}) /\ venue[o].executed > 0
      /\ venue[o].executed > 0 => venue[o].state \in {"accepted", "canceled"}
  BY ExecutedLots DEF VenueSound
<1>2. /\ Truth(o).trades = Executed(o)
      /\ Truth(o).status \in Statuses \ {"gone"}
      /\ Truth(o) \in NativeRecords
      /\ Truth(o).status = "filled" => venue[o].executed = Qty[o]
      /\ Truth(o).status = "new" => venue[o].state = "sent"
      /\ Truth(o).status \in {"canceled", "rejected"} => venue[o].state = Truth(o).status
      /\ Truth(o).status = "open" => venue[o].state = "accepted"
      /\ venue[o].state = "accepted" => Truth(o).status \in {"open", "filled"}
  BY <1>1 DEF Truth, NativeRecords, Statuses, VenueStates
<1> QED
  BY <1>1, <1>2 DEF Sound, Statuses

LEMMA CrashStep ==
  ASSUME Inductive, Crash
  PROVE  Inductive'
<1> USE DEF Inductive
<1>1. PICK back \in SUBSET Orders, fresh \in SUBSET Orders :
         /\ fresh \subseteq {o \in back : venue[o].state # "none"}
         /\ {o \in Orders : saved[o] # Gone} \subseteq back
         /\ {o \in back : saved[o] = Gone} \subseteq fresh
         /\ native' = [o \in Orders |-> IF o \in fresh THEN Truth(o) ELSE saved[o]]
         /\ cached' = back
  BY DEF Crash
<1>2. /\ saved' = native' /\ UNCHANGED <<database, venue, lapsed>>
      /\ halted' = TRUE /\ realized' = 0 /\ job' = NoJob /\ reconciling' = FALSE
      /\ todo' = {} /\ unresolved' = FALSE
      /\ \/ UNCHANGED position
         \/ position' = Positioned(UNION {native'[o].trades : o \in Orders})
  BY DEF Crash
<1>3. ASSUME NEW o \in Orders
      PROVE  /\ native'[o] \in NativeRecords /\ Sound(native'[o], o)
             /\ saved[o].trades \subseteq native'[o].trades
             /\ native'[o].status # "gone" => o \in proposals
             /\ native'[o] # Gone <=> o \in cached'
             /\ native'[o].status = "gone" => native'[o] = Gone
             /\ Counted(o) => venue[o].state \in {"canceled", "rejected"}
                              \/ native'[o].status \in {"open", "filled"}
  <2>1. saved[o] \in NativeRecords /\ Sound(saved[o], o)
        /\ saved[o].trades \subseteq Executed(o)
    BY StatusOf DEF ObjectsSound, Sound
  <2>2. \A r \in NativeRecords : Sound(r, o) /\ r.status = "gone" => r = Gone
    BY DEF Sound, NativeRecords, Gone
  <2>3. CASE o \in fresh
    <3>1. /\ native'[o] = Truth(o) /\ o \in cached' /\ o \in proposals
          /\ venue[o].state # "none"
      BY <1>1, <2>3 DEF VenueSound
    <3>2. Truth(o) # Gone
      BY <3>1, TruthSound DEF Gone
    <3>3. Counted(o) /\ venue[o].state \notin {"canceled", "rejected"} =>
             venue[o].state = "accepted"
      BY <2>1, ExecutedLots DEF Counted, Sound, VenueStates
    <3> QED
      BY <2>1, <3>1, <3>2, <3>3, TruthSound
  <2>4. CASE o \notin fresh
    <3>1. native'[o] = saved[o] /\ (saved[o] # Gone <=> o \in cached')
      BY <1>1, <2>4
    <3>2. saved[o] # Gone => native[o].status # "gone"
      BY DEF ObjectsSound, TypeOK
    <3>3. saved[o].status # "gone" => o \in proposals
      BY <3>2 DEF ObjectsSound, Gone
    <3> QED
      BY <2>1, <2>2, <3>1, <3>3 DEF Counted
  <2> QED
    BY <2>3, <2>4
<1>4. native' \in [Orders -> NativeRecords]
  BY <1>1, <1>3
<1>5. \A o \in Orders : native'[o].trades \subseteq LotsOf({o})
                        /\ \A t \in native'[o].trades : t[1] = o /\ t \in Trades
  BY <1>3, ExecutedLots DEF Sound
<1>6. \A t \in UNION {native'[o].trades : o \in Orders} :
         t \in Trades /\ t \in native'[t[1]].trades
  <2>1. ASSUME NEW t \in UNION {native'[o].trades : o \in Orders}
        PROVE  t \in Trades /\ t \in native'[t[1]].trades
    <3>1. PICK o \in Orders : t \in native'[o].trades
      BY <2>1
    <3> QED
      BY <1>5, <3>1
  <2> QED
    BY <2>1
<1>7. TypeOK'
  <2>1. position' \subseteq Trades \ Unpositioned
    <3>1. UNION {native'[o].trades : o \in Orders} \subseteq Trades
      BY <1>5, <1>6
    <3> QED
      BY <1>2, <3>1 DEF TypeOK, Positioned
  <2>2. \A o \in Orders : native'[o].trades \cup saved'[o].trades \subseteq {o} \X (1..Qty[o])
    BY <1>2, <1>5, LotsOfOrder
  <2>3. cached' \subseteq {o \in Orders : native'[o].status # "gone"}
    BY <1>1, <1>3
  <2>4. job' \in Jobs
    BY <1>2 DEF Jobs
  <2> QED
    BY <1>2, <1>4, <2>1, <2>2, <2>3, <2>4 DEF TypeOK
<1>8. VenueSound'
  BY <1>2 DEF VenueSound
<1>9. ObjectsSound'
  BY <1>2, <1>3 DEF ObjectsSound, Sound, Executed
<1>10. JobSound' /\ ReconcileSound' /\ ActiveSound'
  BY <1>2, JobFields DEF JobSound, ReconcileSound, ActiveSound, NoJob
<1>11. LogSound'
  <2>1. Logged' = Logged /\ Applied' = Applied
    BY <1>2 DEF Logged, Applied
  <2>2. \A t \in Trades : t[1] \in Orders
    BY TradeOrder
  <2>3. \A t \in Applied : t \in saved'[t[1]].trades
    BY <1>2, <1>3, <2>2 DEF LogSound, Applied
  <2>4. \A t \in position' : t \in saved'[t[1]].trades
    <3>1. CASE UNCHANGED position
      BY <1>2, <1>3, <2>2, <3>1 DEF LogSound, TypeOK
    <3>2. \A t \in UNION {native'[o].trades : o \in Orders} : t \in native'[t[1]].trades
      BY <1>6
    <3> QED
      BY <1>2, <3>1, <3>2 DEF Positioned
  <2>5. Positioned(Applied) \subseteq position'
    BY <1>2, <2>2, <2>3 DEF LogSound, Positioned, Applied
  <2>6. \A o \in Orders \ cached' : native'[o].trades = {}
    BY <1>3 DEF Gone
  <2>7. realized' <= Cardinality(Applied)
    BY <1>2, FiniteSubset DEF Applied
  <2>8. \A t \in Logged : t \in Executed(t[1])'
    BY <1>2, <2>2 DEF LogSound, Logged, Executed
  <2> QED
    BY <2>1, <2>3, <2>4, <2>5, <2>6, <2>7, <2>8 DEF LogSound, Positioned
<1>12. Covered'
  BY <1>2, <1>3 DEF Covered, Counted, TypeOK
<1> QED
  BY <1>7, <1>8, <1>9, <1>10, <1>11, <1>12

(***************************************************************************)
(* The theorems                                                            *)
(***************************************************************************)

LEMMA InductiveInit == Init => Inductive
<1> SUFFICES ASSUME Init PROVE Inductive
  OBVIOUS
<1> USE DEF Init
<1>1. job.step = "none" /\ InHand = {}
  BY DEF NoJob, InHand
<1>2. Logged = {} /\ Applied = {} /\ Pending = {}
  BY DEF Logged, Applied, Pending
<1>3. Gone \in NativeRecords /\ NeverSent \in VenueRecords
  BY DEF Gone, NativeRecords, Statuses, NeverSent, VenueRecords, VenueStates
<1>4. TypeOK
  <2>1. \A o \in Orders : NeverSent.executed <= Qty[o]
    BY QtyAssumption DEF NeverSent
  <2> QED
    BY <1>3, <2>1 DEF TypeOK, Jobs, Gone
<1>5. VenueSound /\ ObjectsSound
  BY DEF VenueSound, ObjectsSound, Sound, NeverSent, Gone
<1>6. JobSound /\ ReconcileSound /\ ActiveSound /\ Covered
  BY <1>1, <1>2 DEF JobSound, ReconcileSound, ActiveSound, Covered
<1>7. LogSound
  BY <1>2, FS_EmptySet DEF LogSound, Positioned, Gone
<1> QED
  BY <1>4, <1>5, <1>6, <1>7 DEF Inductive

LEMMA InductiveStep == Inductive /\ [Next]_vars => Inductive'
<1> SUFFICES ASSUME Inductive, [Next]_vars PROVE Inductive'
  OBVIOUS
<1>1. ASSUME NEW o \in Orders, EvaluateAndSubmit(o) PROVE Inductive'
  BY <1>1, EvaluateAndSubmitStep
<1>2. ASSUME NEW o \in Orders, Send(o) \/ VenueStep(o) PROVE Inductive'
  BY <1>2, VenueOnlyStep
<1>3. ASSUME NEW o \in Orders, NEW type \in EventTypes, ReceiveOther(type, o) PROVE Inductive'
  BY <1>3, ReceiveOtherStep
<1>4. ASSUME NEW o \in Orders, NEW t \in Trades, ReceiveFill(o, t) \/ RefuseFill(o, t)
      PROVE  Inductive'
  BY <1>4, ReceiveFillStep, RefuseFillStep
<1>5. ASSUME NEW o \in Orders, OnEventEarly(o) PROVE Inductive'
  BY <1>5, OnEventEarlyStep
<1>6. CASE ApplyEvent \/ UpdateCache \/ OnEvent
  BY <1>6, ApplyEventStep, UpdateCacheStep, OnEventStep
<1>7. CASE OnFill \/ MarkApplied \/ ReleaseFilled \/ Fail
  BY <1>7, OnFillStep, MarkAppliedStep, ReleaseFilledStep, FailStep
<1>8. ASSUME NEW late \in SUBSET reservations, CheckTimeouts(late) PROVE Inductive'
  BY <1>8, CheckTimeoutsStep
<1>9. CASE BeginReconcile \/ FinishReconcile \/ AbortReconcile
  BY <1>9, BeginReconcileStep, FinishReconcileStep, AbortReconcileStep
<1>10. ASSUME NEW t \in Trades, Recover(t) PROVE Inductive'
  BY <1>10, RecoverStep
<1>11. CASE Crash
  BY <1>11, CrashStep
<1>12. CASE UNCHANGED vars
  <2>1. TypeOK' /\ VenueSound' /\ ObjectsSound'
    BY <1>12 DEF Inductive, TypeOK, VenueSound, ObjectsSound, Sound, Executed
  <2>2. JobSound' /\ LogSound'
    BY <1>12 DEF Inductive, JobSound, LogSound, InHand, IsTrue, Logged, Applied, Pending,
       Positioned, Executed
  <2>3. ReconcileSound' /\ ActiveSound' /\ Covered'
    BY <1>12 DEF Inductive, ReconcileSound, ActiveSound, Covered, Counted, InHand, Logged,
       Applied, Pending
  <2> QED
    BY <2>1, <2>2, <2>3 DEF Inductive
<1> QED
  BY <1>1, <1>2, <1>3, <1>4, <1>5, <1>6, <1>7, <1>8, <1>9, <1>10, <1>11, <1>12 DEF Next

(* The invariant the other theorems rest on, through every event, exception, crash and
   recovery of M3BRiskEngine. *)
THEOREM ResilienceInductive == Spec => []Inductive
  BY InductiveInit, InductiveStep, PTL DEF Spec

(* The engine's tables and objects keep their types. *)
THEOREM ResilienceTypeCorrect == Spec => []TypeOK
<1>1. Inductive => TypeOK
  BY DEF Inductive
<1> QED
  BY <1>1, ResilienceInductive, PTL

(* An active engine between two events has applied every fill it has seen. *)
LEMMA BooksAgreeHolds == Inductive => BooksAgree
<1> SUFFICES ASSUME Inductive, Idle, ~halted
             PROVE  /\ Pending = {} /\ realized = Cardinality(Applied)
                    /\ position = Positioned(Applied)
                    /\ \A o \in cached : native[o].trades = {t \in Applied : t[1] = o}
  BY DEF BooksAgree
<1> USE DEF Inductive
<1>1. Pending = {} /\ realized = Cardinality(Applied)
  BY JobFields DEF Idle, ActiveSound, InHand
<1>2. Logged = Applied
  BY <1>1 DEF Logged, Applied, Pending, TypeOK
<1>3. ASSUME NEW o \in Orders
      PROVE  native[o].trades \subseteq Applied
             /\ \A t \in native[o].trades : t[1] = o
  <2>1. \A t \in native[o].trades : t[1] = o
    BY ExecutedLots DEF ObjectsSound, Sound
  <2> QED
    BY <1>2, <2>1 DEF ActiveSound
<1>4. \A t \in Applied : t \in native[t[1]].trades /\ t[1] \in Orders
  BY TradeOrder DEF Applied, LogSound, ObjectsSound
<1>5. position \subseteq Applied
  <2>1. \A t \in position : t[1] \in Orders
    BY TradeOrder DEF TypeOK
  <2> QED
    BY <1>3, <2>1 DEF LogSound, ObjectsSound
<1>6. position = Positioned(Applied)
  BY <1>5 DEF LogSound, Positioned, TypeOK
<1> QED
  BY <1>1, <1>3, <1>4, <1>6 DEF TypeOK

(* An active engine between two events has applied every fill it has seen, and its log,
   its realized exposure, its orders and its position agree (reconcile, on_event). *)
THEOREM BooksAgreeCorrect == Spec => []BooksAgree
<1> QED
  BY BooksAgreeHolds, ResilienceInductive, PTL

(* What an active engine has in an order or in its position is in the log (the
   write-ahead log of process_venue_event). *)
THEOREM LoggedFirstCorrect == Spec => []LoggedFirst
<1>1. Inductive => LoggedFirst
  <2> SUFFICES ASSUME Inductive, ~halted
               PROVE  position \cup UNION {native[o].trades : o \in Orders} \subseteq Logged
    BY DEF LoggedFirst
  <2>1. \A o \in Orders : native[o].trades \subseteq Logged
    BY DEF Inductive, ActiveSound
  <2>2. \A t \in position : t[1] \in Orders
    BY TradeOrder DEF Inductive, TypeOK
  <2>3. position \subseteq Logged
    BY <2>1, <2>2 DEF Inductive, LogSound, ObjectsSound
  <2> QED
    BY <2>1, <2>3
<1> QED
  BY <1>1, ResilienceInductive, PTL

(* Only a grant adds a proposal or a reservation. *)
LEMMA OnlyGrants ==
  [Next]_vars =>
    \/ \E o \in Orders : EvaluateAndSubmit(o)
    \/ proposals' = proposals /\ reservations' \subseteq reservations
BY DEF Next, Send, VenueStep, ReceiveOther, ReceiveFill, RefuseFill, OnEventEarly,
   ApplyEvent, UpdateCache, OnEvent, OnFill, MarkApplied, ReleaseFilled, Fail, Release,
   CheckTimeouts, BeginReconcile, Recover, FinishReconcile, AbortReconcile, Crash

(* A proposal whose order was sent never gets a second one (HasProposal looks at the
   history of proposals, not at the reservations). *)
THEOREM OneOrderCorrect == Spec => OneOrderPerProposal
<1>1. Inductive /\ [Next]_vars =>
        [\A o \in reservations' \ reservations : venue[o].state = "none"]_vars
  BY OnlyGrants DEF Inductive, VenueSound, EvaluateAndSubmit, HasProposal
<1> QED
  BY <1>1, ResilienceInductive, PTL DEF Spec, OneOrderPerProposal

LEMMA UnionCounts ==
  ASSUME NEW S \in SUBSET Trades, NEW T \in SUBSET Trades
  PROVE  /\ Cardinality(S) \in Nat /\ Cardinality(T) \in Nat
         /\ Cardinality(S \cup T) \in Nat
         /\ Cardinality(S \cup T) <= Cardinality(S) + Cardinality(T)
         /\ S \cap T = {} => Cardinality(S \cup T) = Cardinality(S) + Cardinality(T)
<1>1. IsFiniteSet(S) /\ IsFiniteSet(T)
  BY FiniteSubset
<1>2. Cardinality(S \cup T) = Cardinality(S) + Cardinality(T) - Cardinality(S \cap T)
  BY <1>1, FS_Union
<1>3. /\ Cardinality(S) \in Nat /\ Cardinality(T) \in Nat
      /\ Cardinality(S \cap T) \in Nat /\ Cardinality(S \cup T) \in Nat
  BY FiniteSubset
<1>4. S \cap T = {} => Cardinality(S \cap T) = 0
  BY FS_EmptySet
<1> QED
  BY <1>2, <1>3, <1>4

(* Every lot that may still trade is reserved, open in the cache, or applied. *)
LEMMA GrantStep ==
  ASSUME Inductive, NEW p \in Orders, EvaluateAndSubmit(p)
  PROVE  Committed' <= MaxExposure
<1> DEFINE live == {o \in proposals' \ lapsed' : venue'[o].state \notin {"canceled", "rejected"}}
           open == {o \in cached : IsOpen(o)}
           rest == LotsOf(open) \ UNION {native[o].trades : o \in open}
           L == LotsOf(live)
           R == {t \in Applied : t[1] \notin live}
<1> USE DEF Inductive
<1>1. /\ proposals' = proposals \cup {p} /\ UNCHANGED <<lapsed, venue, fills>>
      /\ Exposure + Qty[p] <= MaxExposure
      /\ ~halted /\ job.step = "none"
  BY JobFields DEF EvaluateAndSubmit, Idle
<1>2. /\ Applied' = Applied /\ realized = Cardinality(Applied)
      /\ \A o \in Orders : native[o].trades \subseteq Applied
  BY <1>1 DEF Applied, ActiveSound, InHand, Logged, Pending, TypeOK
<1>3. Committed' = Cardinality(L) + Cardinality(R)
  BY <1>2 DEF Committed, TotalQty
<1>4. L \subseteq Applied \cup rest \cup LotsOf(reservations) \cup LotsOf({p})
  <2>1. SUFFICES ASSUME NEW t \in L
                 PROVE  t \in Applied \cup rest \cup LotsOf(reservations) \cup LotsOf({p})
    OBVIOUS
  <2> DEFINE o == t[1]
  <2>2. t \in Trades /\ o \in live /\ o \in Orders
    BY TradeOrder DEF LotsOf
  <2>3. CASE o = p \/ o \in reservations
    BY <2>2, <2>3 DEF LotsOf
  <2>4. CASE o # p /\ o \notin reservations
    <3>1. Counted(o)
      BY <1>1, <2>2, <2>4 DEF Covered
    <3>2. CASE native[o].status = "filled"
      <4>1. t \in LotsOf({o})
        BY <2>2, TradeOrder
      <4> QED
        BY <1>2, <2>2, <3>2, <4>1 DEF ObjectsSound, Sound
    <3>3. CASE native[o].status = "open"
      <4>1. o \in open
        BY <2>2, <3>1, <3>3 DEF Counted, ObjectsSound, Gone, IsOpen
      <4>2. t \in LotsOf(open)
        BY <2>2, <4>1 DEF LotsOf
      <4>3. CASE t \in rest
        BY <4>3
      <4>4. CASE t \notin rest
        <5>1. PICK q \in open : t \in native[q].trades
          BY <4>2, <4>4
        <5> QED
          BY <1>2, <5>1 DEF TypeOK
      <4> QED
        BY <4>3, <4>4
    <3> QED
      BY <3>1, <3>2, <3>3 DEF Counted
  <2> QED
    BY <2>3, <2>4
<1>5. /\ Applied \in SUBSET Trades /\ rest \in SUBSET Trades /\ L \in SUBSET Trades
      /\ R \in SUBSET Trades /\ LotsOf(reservations) \in SUBSET Trades
      /\ LotsOf({p}) \in SUBSET Trades
  BY DEF LotsOf, Applied
<1>6. L \cap R = {} /\ R \subseteq Applied
  BY DEF LotsOf
<1>7. Exposure = Cardinality(Applied) + Cardinality(rest) + Cardinality(LotsOf(reservations))
  BY <1>2 DEF Exposure, OpenExposure, TotalQty
<1> DEFINE all == Applied \cup rest \cup LotsOf(reservations) \cup LotsOf({p})
<1>8. Cardinality(LotsOf({p})) = Qty[p]
  BY LotsCounted
<1> HIDE DEF L, R, rest, live, open
<1>9. Cardinality(all) <= Cardinality(Applied) + Cardinality(rest)
                          + Cardinality(LotsOf(reservations)) + Qty[p]
  <2> DEFINE X == Applied \cup rest
             Y == X \cup LotsOf(reservations)
  <2>1. X \in SUBSET Trades /\ Y \in SUBSET Trades /\ all = Y \cup LotsOf({p})
    BY <1>5
  <2>2. /\ Cardinality(X) \in Nat /\ Cardinality(Applied) \in Nat /\ Cardinality(rest) \in Nat
        /\ Cardinality(X) <= Cardinality(Applied) + Cardinality(rest)
    BY <1>5, UnionCounts
  <2> HIDE DEF X
  <2>3. /\ Cardinality(Y) \in Nat /\ Cardinality(LotsOf(reservations)) \in Nat
        /\ Cardinality(Y) <= Cardinality(X) + Cardinality(LotsOf(reservations))
    BY <1>5, <2>1, UnionCounts
  <2> HIDE DEF Y, all
  <2>4. /\ Cardinality(all) \in Nat /\ Cardinality(LotsOf({p})) \in Nat
        /\ Cardinality(all) <= Cardinality(Y) + Cardinality(LotsOf({p}))
    BY <1>5, <2>1, UnionCounts
  <2> QED
    BY <1>8, <2>2, <2>3, <2>4
<1>10. Cardinality(L) + Cardinality(R) <= Cardinality(all)
  <2>1. L \cup R \in SUBSET all /\ all \in SUBSET Trades
    BY <1>4, <1>5, <1>6
  <2>2. Cardinality(L \cup R) = Cardinality(L) + Cardinality(R)
    BY <1>5, <1>6, UnionCounts
  <2>3. IsFiniteSet(all)
    BY <2>1, FiniteSubset
  <2> HIDE DEF all
  <2>4. Cardinality(L \cup R) <= Cardinality(all)
    BY <2>1, <2>3, FS_Subset
  <2> QED
    BY <2>2, <2>4
<1>11. /\ Cardinality(L) \in Nat /\ Cardinality(R) \in Nat /\ Cardinality(all) \in Nat
       /\ Cardinality(Applied) \in Nat /\ Cardinality(rest) \in Nat
       /\ Cardinality(LotsOf(reservations)) \in Nat /\ Qty[p] \in Nat
  <2>1. all \in SUBSET Trades
    BY <1>5
  <2> HIDE DEF all
  <2> QED
    BY <1>5, <2>1, FiniteSubset, LotsCounted
<1>12. MaxExposure \in Nat
  BY LimitAssumption
<1> HIDE DEF all
<1> QED
  BY <1>1, <1>3, <1>7, <1>9, <1>10, <1>11, <1>12

(* A grant leaves the limit room for everything the venue may still execute, apart from
   orders whose reservation went while their state was in memory only
   (evaluate_and_submit, _get_independent_exposure). *)
THEOREM GrantCorrect == Spec => GrantWithinLimit
<1>1. Inductive /\ [Next]_vars => [proposals' # proposals => Committed' <= MaxExposure]_vars
  BY OnlyGrants, GrantStep
<1> QED
  BY <1>1, ResilienceInductive, PTL DEF Spec, GrantWithinLimit

(***************************************************************************)
(* The journal                                                             *)
(***************************************************************************)
ExecutedTrades == UNION {Executed(o) : o \in Orders}

(* Most steps write none of it, though they may halt the engine. *)
LEMMA JournalQuiet ==
  ASSUME UNCHANGED <<fills, position>>, ExecutedTrades' = ExecutedTrades,
         halted' = TRUE \/ halted' = halted
  PROVE  [Log!Next]_(Log!vars)
<1>1. Logged' = Logged /\ Applied' = Applied
  BY DEF Logged, Applied
<1>2. CASE halted' = halted
  BY <1>1, <1>2 DEF Log!vars, ExecutedTrades
<1>3. CASE halted' = TRUE
  BY <1>1, <1>3 DEF Log!Next, Log!Halt, ExecutedTrades
<1> QED
  BY <1>2, <1>3

(* The venue executes one trade. *)
LEMMA JournalVenue ==
  ASSUME TypeOK, NEW o \in Orders, Send(o) \/ VenueStep(o)
  PROVE  [Log!Next]_(Log!vars)
<1>1. /\ UNCHANGED <<fills, position, halted>>
      /\ venue \in [Orders -> [state : VenueStates, executed : Nat]]
      /\ venue[o].executed \in Nat /\ Qty[o] \in Nat
  BY QtyAssumption DEF Send, VenueStep, TypeOK, VenueRecords
<1>2. CASE \A p \in Orders : venue'[p].executed = venue[p].executed
  <2>1. ExecutedTrades' = ExecutedTrades
    BY <1>2 DEF ExecutedTrades, Executed
  <2> QED
    BY <1>1, <2>1, JournalQuiet
<1>3. CASE /\ venue[o].executed < Qty[o]
           /\ venue' = [venue EXCEPT ![o].executed = @ + 1]
  <2> DEFINE t == <<o, venue[o].executed + 1>>
  <2>1. \A p \in Orders : venue'[p].executed =
           IF p = o THEN venue[o].executed + 1 ELSE venue[p].executed
    BY <1>1, <1>3
  <2>2. t \in Trades
    <3>1. venue[o].executed + 1 \in 1..Qty[o]
      BY <1>1, <1>3
    <3> QED
      BY <3>1 DEF Trades
  <2>3. \A p \in Orders : Executed(p)' = IF p = o THEN Executed(p) \cup {t} ELSE Executed(p)
    <3>1. 1..(venue[o].executed + 1) = (1..venue[o].executed) \cup {venue[o].executed + 1}
      BY <1>1
    <3>2. \A n : {o} \X (1..venue[o].executed \cup {n}) =
                   ({o} \X (1..venue[o].executed)) \cup {<<o, n>>}
      OBVIOUS
    <3>3. Executed(o)' = Executed(o) \cup {t}
      BY <2>1, <3>1, <3>2 DEF Executed
    <3>4. \A p \in Orders \ {o} : Executed(p)' = Executed(p)
      BY <2>1 DEF Executed
    <3> QED
      BY <3>3, <3>4
  <2> HIDE DEF t
  <2>4. ExecutedTrades' = ExecutedTrades \cup {t}
    BY <2>3 DEF ExecutedTrades
  <2>5. Logged' = Logged /\ Applied' = Applied
    BY <1>1 DEF Logged, Applied
  <2>6. Log!Execute(t)
    BY <1>1, <2>4, <2>5 DEF Log!Execute, ExecutedTrades
  <2> QED
    BY <2>2, <2>6 DEF Log!Next
<1>4. CASE Send(o)
  BY <1>1, <1>2, <1>4 DEF Send
<1>5. CASE VenueStep(o)
  BY <1>1, <1>2, <1>3, <1>5 DEF VenueStep
<1> QED
  BY <1>4, <1>5

(* A fill is written only if the venue executed it, and by an active engine only when the
   last one is applied. *)
LEMMA JournalWrite ==
  ASSUME Inductive, NEW o \in Orders, NEW t \in Trades, ReceiveFill(o, t)
  PROVE  [Log!Next]_(Log!vars)
<1> USE DEF Inductive
<1>1. /\ UNCHANGED <<position, halted, venue>> /\ Idle /\ t \in Executed(o)
      /\ fills \in [Trades -> {"none", "pending", "applied"}] /\ fills[t] # "applied"
      /\ fills' = [fills EXCEPT ![t] = "pending"]
  BY DEF ReceiveFill, TypeOK
<1>2. t \in ExecutedTrades /\ ExecutedTrades' = ExecutedTrades
  BY <1>1 DEF ExecutedTrades, Executed
<1>3. CASE fills[t] = "pending"
  <2>1. fills' = fills
    BY <1>1, <1>3
  <2> QED
    BY <1>1, <1>2, <2>1, JournalQuiet
<1>4. CASE fills[t] = "none"
  <2>1. Logged' = Logged \cup {t} /\ t \notin Logged /\ Applied' = Applied
    BY <1>1, <1>4 DEF Logged, Applied
  <2>2. ~halted => Logged = Applied
    <3>1. InHand = {}
      BY <1>1, JobFields DEF InHand, Idle
    <3> QED
      BY <1>1, <3>1 DEF ActiveSound, Logged, Applied, Pending
  <2>3. Log!Write(t)
    BY <1>1, <1>2, <2>1, <2>2 DEF Log!Write, ExecutedTrades
  <2> QED
    BY <2>3 DEF Log!Next
<1> QED
  BY <1>1, <1>3, <1>4

(* What is booked is in the log, unless it has no position. *)
LEMMA JournalBook ==
  ASSUME Inductive, OnFill
  PROVE  [Log!Next]_(Log!vars)
<1> USE DEF Inductive
<1>1. /\ UNCHANGED <<fills, halted, venue>> /\ job.step = "on_event" /\ job.type = "filled"
      /\ position' = position \cup ({job.trade} \ Unpositioned)
  BY DEF OnFill, Goto
<1>2. job.trade \in Logged /\ job.trade \in Trades
  BY <1>1, JobTrade DEF JobSound
<1>3. ExecutedTrades' = ExecutedTrades /\ Logged' = Logged /\ Applied' = Applied
  BY <1>1 DEF ExecutedTrades, Executed, Logged, Applied
<1>4. CASE job.trade \in Unpositioned
  <2>1. position' = position
    BY <1>1, <1>4
  <2> QED
    BY <1>1, <1>3, <2>1, JournalQuiet
<1>5. CASE job.trade \notin Unpositioned
  <2>1. position' = position \cup {job.trade}
    BY <1>1, <1>5
  <2>2. Log!Book(job.trade)
    BY <1>1, <1>2, <1>3, <1>5, <2>1 DEF Log!Book, ExecutedTrades
  <2> QED
    BY <1>2, <2>2 DEF Log!Next
<1> QED
  BY <1>4, <1>5

(* What is marked as applied is in the log and in the position. *)
LEMMA JournalApply ==
  ASSUME Inductive, MarkApplied
  PROVE  [Log!Next]_(Log!vars)
<1> USE DEF Inductive
<1> DEFINE t == job.trade
<1>1. /\ UNCHANGED <<position, halted, venue>> /\ job.step = "mark"
      /\ fills' = [fills EXCEPT ![t] = "applied"]
      /\ fills \in [Trades -> {"none", "pending", "applied"}]
  BY DEF MarkApplied, Goto, TypeOK
<1>2. t \in Logged /\ t \in Trades /\ t \in position \cup Unpositioned
  BY <1>1, JobTrade DEF JobSound
<1> HIDE DEF t
<1>3. Logged' = Logged /\ Applied' = Applied \cup {t}
  BY <1>1, <1>2 DEF Logged, Applied
<1>4. ExecutedTrades' = ExecutedTrades
  BY <1>1 DEF ExecutedTrades, Executed
<1>5. Log!Apply(t)
  BY <1>1, <1>2, <1>3, <1>4 DEF Log!Apply, ExecutedTrades
<1> QED
  BY <1>2, <1>5 DEF Log!Next

(* A reconciliation ends a halt only when log and position are the same: as many trades on
   both sides are the same trades, because the position has all that are applied. *)
LEMMA JournalResume ==
  ASSUME Inductive, Inductive', FinishReconcile
  PROVE  [Log!Next]_(Log!vars)
<1>1. UNCHANGED <<fills, position, venue, job>> /\ job = NoJob /\ reconciling' = FALSE
  BY DEF FinishReconcile
<1>2. Logged' = Logged /\ Applied' = Applied /\ ExecutedTrades' = ExecutedTrades
      /\ Pending' = Pending
  BY <1>1 DEF Logged, Applied, Pending, ExecutedTrades, Executed
<1>3. CASE halted' = TRUE
  BY <1>1, <1>2, <1>3, JournalQuiet
<1>4. CASE halted' = FALSE /\ BooksMatch
  <2>1. Pending = {} /\ position = Positioned(Applied)
    <3>1. Idle' /\ ~halted'
      BY <1>1, <1>4 DEF Idle
    <3>2. BooksAgree'
      <4>1. (Inductive => BooksAgree)'
        BY BooksAgreeHolds, PTL
      <4> QED
        BY <4>1
    <3> QED
      BY <1>1, <1>2, <3>1, <3>2 DEF BooksAgree, Positioned
  <2>2. position = Applied
    <3>1. Cardinality(position) = Cardinality(Applied)
      BY <1>4 DEF BooksMatch
    <3>2. position \subseteq Applied /\ IsFiniteSet(Applied)
      BY <2>1, FiniteSubset DEF Positioned, Applied
    <3> QED
      BY <3>1, <3>2, FS_Subset
  <2>3. Logged = Applied
    BY <2>1 DEF Logged, Applied, Pending, Inductive, TypeOK
  <2>4. Log!Resume
    BY <1>1, <1>2, <1>4, <2>2, <2>3 DEF Log!Resume, ExecutedTrades
  <2> QED
    BY <2>4 DEF Log!Next
<1> QED
  BY <1>3, <1>4 DEF FinishReconcile

(* After a crash nothing that was booked is missing, and nothing is booked that was not
   executed: every trade of the position is in an order that is brought back. *)
LEMMA JournalRestart ==
  ASSUME Inductive, Inductive', Crash
  PROVE  [Log!Next]_(Log!vars)
<1> USE DEF Inductive
<1>1. /\ UNCHANGED <<fills, venue>> /\ halted' = TRUE
      /\ \/ UNCHANGED position
         \/ position' = Positioned(UNION {native'[o].trades : o \in Orders})
  BY DEF Crash
<1>2. Logged' = Logged /\ Applied' = Applied /\ ExecutedTrades' = ExecutedTrades
  BY <1>1 DEF Logged, Applied, ExecutedTrades, Executed
<1>3. CASE UNCHANGED position
  BY <1>1, <1>2, <1>3, JournalQuiet
<1>4. CASE position' = Positioned(UNION {native'[o].trades : o \in Orders})
  <2>1. \A o \in Orders : native'[o].trades \subseteq ExecutedTrades
    BY <1>1 DEF ObjectsSound, Sound, Executed, ExecutedTrades
  <2>2. ASSUME NEW o \in Orders PROVE saved[o].trades \subseteq native'[o].trades
    <3>1. native'[o] = saved[o] \/ (native'[o] = Truth(o) /\ venue[o].state # "none")
      BY DEF Crash
    <3>2. saved[o].trades \subseteq Executed(o)
      BY DEF ObjectsSound, Sound
    <3> QED
      BY <3>1, <3>2, TruthSound
  <2>3. position \subseteq position'
    <3>1. \A t \in position : t \in saved[t[1]].trades /\ t[1] \in Orders /\ t \notin Unpositioned
      BY TradeOrder DEF LogSound, TypeOK
    <3> QED
      BY <1>4, <2>2, <3>1 DEF Positioned
  <2>4. position' \in SUBSET (ExecutedTrades \ Unpositioned)
    BY <1>4, <2>1 DEF Positioned
  <2>5. position' = position \cup position'
    BY <2>3
  <2>6. Log!Restart
    BY <1>1, <1>2, <2>4, <2>5 DEF Log!Restart, ExecutedTrades
  <2> QED
    BY <2>6 DEF Log!Next
<1> QED
  BY <1>1, <1>3, <1>4

LEMMA JournalStep == Inductive /\ Inductive' /\ [Next]_vars => [Log!Next]_(Log!vars)
<1> SUFFICES ASSUME Inductive, Inductive', [Next]_vars PROVE [Log!Next]_(Log!vars)
  OBVIOUS
<1> DEFINE Quiet == /\ UNCHANGED <<fills, position, venue>>
                    /\ halted' = TRUE \/ halted' = halted
<1>1. ASSUME Quiet PROVE [Log!Next]_(Log!vars)
  <2>1. ExecutedTrades' = ExecutedTrades
    BY <1>1 DEF ExecutedTrades, Executed
  <2> QED
    BY <1>1, <2>1, JournalQuiet
<1>2. ASSUME NEW o \in Orders,
             \/ EvaluateAndSubmit(o) \/ OnEventEarly(o)
             \/ \E type \in EventTypes : ReceiveOther(type, o)
             \/ \E t \in Trades : RefuseFill(o, t)
      PROVE  Quiet
  BY <1>2 DEF EvaluateAndSubmit, OnEventEarly, ReceiveOther, RefuseFill
<1>3. ASSUME ApplyEvent \/ UpdateCache \/ OnEvent \/ ReleaseFilled \/ Fail PROVE Quiet
  BY <1>3 DEF ApplyEvent, UpdateCache, OnEvent, ReleaseFilled, Fail, Goto, EndJob,
     Inductive, TypeOK
<1>4. ASSUME \/ \E late \in SUBSET reservations : CheckTimeouts(late)
             \/ BeginReconcile \/ AbortReconcile
             \/ \E t \in Trades : Recover(t)
             \/ UNCHANGED vars
      PROVE  Quiet
  BY <1>4 DEF CheckTimeouts, BeginReconcile, AbortReconcile, Recover, Inductive, TypeOK
<1> HIDE DEF Quiet
<1>5. ASSUME NEW o \in Orders, Send(o) \/ VenueStep(o) PROVE [Log!Next]_(Log!vars)
  BY <1>5, JournalVenue DEF Inductive
<1>6. ASSUME NEW o \in Orders, NEW t \in Trades, ReceiveFill(o, t)
      PROVE  [Log!Next]_(Log!vars)
  BY <1>6, JournalWrite
<1>7. CASE OnFill \/ MarkApplied
  BY <1>7, JournalBook, JournalApply
<1>8. CASE FinishReconcile \/ Crash
  BY <1>8, JournalResume, JournalRestart
<1> QED
  BY <1>1, <1>2, <1>3, <1>4, <1>5, <1>6, <1>7, <1>8 DEF Next

(* The engine implements its journal: through exceptions and crashes between any two
   writes, repeated events and recoveries, every trade is written, booked and applied in
   this order, and the engine resumes only when log and position are the same
   (process_venue_event, on_event, reconcile). *)
THEOREM JournalCorrect == Spec => KeepsJournal
<1>1. Init => Log!Init
  <2>1. SUFFICES ASSUME Init PROVE Log!Init
    OBVIOUS
  <2>2. \A o \in Orders : Executed(o) = {}
    BY <2>1 DEF Init, NeverSent, Executed
  <2>3. Logged = {} /\ Applied = {} /\ position = {} /\ halted = TRUE
    BY <2>1 DEF Init, Logged, Applied
  <2> QED
    BY <2>2, <2>3 DEF Log!Init
<1> QED
  BY <1>1, JournalStep, ResilienceInductive, PTL DEF Spec, KeepsJournal, Log!Spec
=============================================================================
