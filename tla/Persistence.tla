---------------------------- MODULE Persistence -----------------------------
(***************************************************************************)
(* The SQLite store (src/src/apge/persistence.py): the intents table, one  *)
(* row per client order id, and the fills table, whose primary key makes a *)
(* fill count once.  Each method is one transaction, and the rows survive  *)
(* the process.  Prices, timestamps, the exchange's id and the raw status  *)
(* are stored for the operator and are read by no decision.                *)
(***************************************************************************)
EXTENDS Integers

CONSTANT Orders

VARIABLES
    intents,
    fills

IntentStatuses ==
    {"ABSENT", "UNKNOWN", "OPEN", "PARTIALLY_FILLED", "FILLED", "CANCELED"}
Terminal == {"FILLED", "CANCELED"}

IntentRecords == [status : IntentStatuses, filled : Nat]
NoIntent == [status |-> "ABSENT", filled |-> 0]

HasIntent(o) == intents[o].status # "ABSENT"
ActiveIntents == {o \in Orders : HasIntent(o) /\ intents[o].status \notin Terminal}
UnknownIntents == {o \in Orders : intents[o].status = "UNKNOWN"}

\* INSERT: the primary key admits an id once.
SaveIntent(o) ==
    /\ ~HasIntent(o)
    /\ intents' = [intents EXCEPT ![o] = [NoIntent EXCEPT !.status = "OPEN"]]
    /\ UNCHANGED fills

UpdateIntentStatus(o, s) ==
    /\ intents' = [intents EXCEPT ![o].status = IF HasIntent(o) THEN s ELSE @]
    /\ UNCHANGED fills

\* Mutant: the primary key is the order, and an insert replaces the row.
ReplaceFill(id, o, quantity) ==
    IF id \in fills
    THEN UNCHANGED <<intents, fills>>
    ELSE /\ fills' = {f \in fills : f.order # o} \cup {id}
         /\ intents' = [intents EXCEPT ![o].filled = @ + quantity]

AddFill(id, o, quantity) ==
    IF id \in fills
    THEN UNCHANGED <<intents, fills>>
    ELSE /\ fills' = fills \cup {id}
         /\ intents' = [intents EXCEPT ![o].filled = @ + quantity]
=============================================================================
