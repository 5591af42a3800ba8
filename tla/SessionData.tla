----------------------------- MODULE SessionData -----------------------------
(***************************************************************************)
(* The data the event endpoints work on: the events a charger sends and the *)
(* charging_sessions row, reduced to the columns that the handlers compare. *)
(* One charger is modelled. Every query of the handlers filters on the      *)
(* charger (or on a session of it), so chargers share no row.               *)
(***************************************************************************)
EXTENDS Integers

CONSTANTS
    Requests,  \* the requests that ever reach the event endpoints
    Times,     \* event timestamps, already converted to UTC
    Energies,  \* kWh reported by an update or a disconnection, any sign
    FullFlags, \* what updates say of is_fully_charged
    None       \* SQL NULL, "no row" and "nobody"

Kinds == {"connect", "update", "disconnect"}

\* `full` is is_fully_charged; a connection reports no energy, and only an
\* update's `full` reaches the session row.
Events ==
    [kind : {"connect"}, time : Times, energy : {0}, full : {FALSE}]
    \cup [kind : {"update"}, time : Times, energy : Energies, full : FullFlags]
    \cup [kind : {"disconnect"}, time : Times, energy : Energies,
          full : {FALSE}]

Rows ==
    [active : BOOLEAN, start : Times, last : Times, energy : Int,
     endCharging : Times \cup {None}, end : Times \cup {None}]

ASSUME TimesAreInts == Times \subseteq Int
ASSUME EnergiesAreInts == Energies \subseteq Int
ASSUME FullFlagsAreBooleans == FullFlags \subseteq BOOLEAN
ASSUME NoneIsFresh ==
    /\ None \notin Requests
    /\ None \notin Times
    /\ None \notin Rows
    /\ None \notin Events
==============================================================================
