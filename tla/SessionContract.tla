--------------------------- MODULE SessionContract ---------------------------
(***************************************************************************)
(* What the three event endpoints promise about one charger's rows of the  *)
(* charging_sessions table, whatever transactions and locks they use: every *)
(* request takes effect at most once, in one indivisible step, on a row     *)
(* that is active at that moment and whose timeline it moves forward.       *)
(*                                                                          *)
(* The handlers themselves, with their separate reads, row locks, commits   *)
(* and rollbacks, are in SessionEvents, which implements this module.       *)
(* A session row is named by the request that inserts it (the code draws a  *)
(* fresh uuid4 there), so the table is a function on Requests.              *)
(***************************************************************************)
EXTENDS SessionData

VARIABLES
    ev,    \* ev[r]: the event request r carries, None before it arrives
    sess,  \* sess[s]: the committed session row, None if it does not exist
    took   \* took[r]: the session r has taken effect on, None if it has not

cvars == <<ev, sess, took>>

TypeOK ==
    /\ ev \in [Requests -> Events \cup {None}]
    /\ sess \in [Requests -> Rows \cup {None}]
    /\ took \in [Requests -> Requests \cup {None}]

IsActive(s) == sess[s] # None /\ sess[s].active

\* r carries an event of this kind and has not taken effect yet.
Pending(r, kind) == ev[r] # None /\ ev[r].kind = kind /\ took[r] = None

------------------------------------------------------------------------------

Init ==
    /\ ev = [r \in Requests |-> None]
    /\ sess = [s \in Requests |-> None]
    /\ took = [r \in Requests |-> None]

Submit(r, e) ==
    /\ ev[r] = None
    /\ ev' = [ev EXCEPT ![r] = e]
    /\ UNCHANGED <<sess, took>>

Opened(e) ==
    [active |-> TRUE, start |-> e.time, last |-> e.time, energy |-> 0,
     endCharging |-> None, end |-> None]

Reported(w, e) ==
    [w EXCEPT !.last = e.time,
              !.energy = w.energy + e.energy,
              !.endCharging = IF e.full THEN e.time ELSE w.endCharging]

Ended(w, e) ==
    [w EXCEPT !.active = FALSE,
              !.last = e.time,
              !.end = e.time,
              !.energy = w.energy + e.energy,
              !.endCharging = IF w.endCharging = None THEN e.time
                                                      ELSE w.endCharging]

\* The event of r turns the row of session s into w.
TakeEffect(r, s, w) ==
    /\ sess' = [sess EXCEPT ![s] = w]
    /\ took' = [took EXCEPT ![r] = s]
    /\ UNCHANGED ev

\* A vehicle plugs in: a new active row that starts at the event's time.
Open(r) ==
    /\ Pending(r, "connect")
    /\ sess[r] = None
    /\ TakeEffect(r, r, Opened(ev[r]))

\* A repeated plug-in notice only moves the timeline, and not backwards.
Touch(r, s) ==
    /\ Pending(r, "connect")
    /\ IsActive(s)
    /\ ev[r].time >= sess[s].last
    /\ TakeEffect(r, s, [sess[s] EXCEPT !.last = ev[r].time])

\* A report adds its energy, strictly after everything recorded before.
Report(r, s) ==
    /\ Pending(r, "update")
    /\ IsActive(s)
    /\ ev[r].time > sess[s].last
    /\ TakeEffect(r, s, Reported(sess[s], ev[r]))

\* The disconnection adds its energy and freezes the row.
Close(r, s) ==
    /\ Pending(r, "disconnect")
    /\ IsActive(s)
    /\ ev[r].time > sess[s].last
    /\ TakeEffect(r, s, Ended(sess[s], ev[r]))

Next ==
    \E r \in Requests :
        \/ \E e \in Events : Submit(r, e)
        \/ Open(r)
        \/ \E s \in Requests : Touch(r, s) \/ Report(r, s) \/ Close(r, s)

Spec == Init /\ [][Next]_cvars

------------------------------------------------------------------------------

(***************************************************************************)
(* The timeline of every row: it starts no later than it ends, the full     *)
(* charge lies on it, and an end is recorded exactly when the session is    *)
(* closed, at the last event.                                               *)
(***************************************************************************)
OnTimeline(w) ==
    /\ w.start <= w.last
    /\ w.endCharging # None =>
         w.start <= w.endCharging /\ w.endCharging <= w.last
    /\ w.active => w.end = None
    /\ ~w.active => w.end = w.last /\ w.endCharging # None

TimelineOK == \A s \in Requests : sess[s] # None => OnTimeline(sess[s])

(***************************************************************************)
(* An event that took effect on a session lies on its timeline.             *)
(***************************************************************************)
EventsOnTimeline ==
    \A r \in Requests : took[r] # None =>
        /\ ev[r] # None
        /\ sess[took[r]] # None
        /\ sess[took[r]].start <= ev[r].time
        /\ ev[r].time <= sess[took[r]].last

(***************************************************************************)
(* No report of energy is counted twice, even when the client sends it      *)
(* again: two reports that took effect on the same session carry different  *)
(* times.                                                                   *)
(***************************************************************************)
IsReport(r) == took[r] # None /\ ev[r] # None /\ ev[r].kind # "connect"

ReportsAreDistinct ==
    \A r, q \in Requests :
        r # q /\ IsReport(r) /\ IsReport(q) /\ took[r] = took[q]
        => ev[r].time # ev[q].time
==============================================================================
