------------------------------ MODULE Journal -------------------------------
(***************************************************************************)
(* What a write-ahead log of trades promises, wherever its handler stops   *)
(* with an exception or a crash: a trade that the venue executed is        *)
(* written, then booked, then marked as applied; an active engine takes up *)
(* no trade before the last one is applied; a crash loses nothing that was *)
(* booked; and the engine becomes active again only when log and books     *)
(* agree.                                                                  *)
(*                                                                         *)
(* Nothing is said of orders, events, caches, reservations or of how a     *)
(* recovery goes about its work.                                           *)
(***************************************************************************)
CONSTANTS
    Trades,
    Unpositioned  \* trades that no position can book

VARIABLES
    executed,     \* trades the venue executed
    written,      \* trades in the log
    applied,      \* trades in the log that are marked as applied
    booked,       \* trades in the position
    active        \* the engine takes proposals

vars == <<executed, written, applied, booked, active>>

Init ==
    /\ executed = {} /\ written = {} /\ applied = {} /\ booked = {}
    /\ active = FALSE

Execute(t) ==
    /\ executed' = executed \cup {t}
    /\ UNCHANGED <<written, applied, booked, active>>

Write(t) ==
    /\ t \in executed \ written
    /\ active => written = applied
    /\ written' = written \cup {t}
    /\ UNCHANGED <<executed, applied, booked, active>>

Book(t) ==
    /\ t \in written \ Unpositioned
    /\ booked' = booked \cup {t}
    /\ UNCHANGED <<executed, written, applied, active>>

Apply(t) ==
    /\ t \in written \cap (booked \cup Unpositioned)
    /\ applied' = applied \cup {t}
    /\ UNCHANGED <<executed, written, booked, active>>

Halt ==
    /\ active' = FALSE
    /\ UNCHANGED <<executed, written, applied, booked>>

\* After a crash the position is as it was, or knows more from the venue.
Restart ==
    /\ \E more \in SUBSET (executed \ Unpositioned) : booked' = booked \cup more
    /\ active' = FALSE
    /\ UNCHANGED <<executed, written, applied>>

Resume ==
    /\ written = applied /\ booked = applied
    /\ active' = TRUE
    /\ UNCHANGED <<executed, written, applied, booked>>

Next ==
    \/ \E t \in Trades : Execute(t) \/ Write(t) \/ Book(t) \/ Apply(t)
    \/ Halt \/ Restart \/ Resume

Spec == Init /\ [][Next]_vars
=============================================================================
