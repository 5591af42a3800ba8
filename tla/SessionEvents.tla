---------------------------- MODULE SessionEvents ----------------------------
(***************************************************************************)
(* The event endpoints of one charger: vehicle_connected, charging_update   *)
(* and vehicle_disconnected, with the transactions they run on PostgreSQL   *)
(* (READ COMMITTED) and the row locks those take.                           *)
(*                                                                          *)
(* Every request is a thread of the server's pool. `pc` is its place in the *)
(* handler, in the order of the code:                                       *)
(*                                                                          *)
(*   select    about to run SELECT ... FOR UPDATE on the active session     *)
(*   lock      the statement has its snapshot and waits for a row lock      *)
(*   locked    the row is locked and loaded                                 *)
(*   create    no active session was found; a connection inserts one        *)
(*   refresh   the session row is committed, its lock is gone               *)
(*   decide    the decision (or the finalisation) reads the last action     *)
(*   fill      COMMIT begins: UPDATE of that action's real outcome          *)
(*   commit    the remaining statements of the COMMIT                       *)
(*   models    a closed session updates the forecasting tables              *)
(*   log       an unexpected failure is recorded in system_errors           *)
(*                                                                          *)
(* A row of charging_sessions or actions is named by the request that       *)
(* inserts it. Faults are actions of their own and carry no fairness.       *)
(***************************************************************************)
EXTENDS SessionData, FiniteSets

CONSTANTS
    Threshold,   \* _ENERGY_CHARGE_THRESHOLD_KWH
    MaxInFlight  \* how many requests the clients and the pool let overlap

ASSUME ThresholdIsInt == Threshold \in Int
ASSUME MaxInFlightIsPos == MaxInFlight \in Nat \ {0}

VARIABLES
    ev,        \* ev[r]: the event of request r, None before it arrives
    pc,        \* pc[r]: where r's handler is
    cand,      \* cand[r]: rows of r's SELECT it has not examined yet
    sid,       \* sid[r]: the session r works on
    row,       \* row[r]: r's ORM copy of that session
    prev,      \* prev[r]: the action row r is going to fill
    sess,      \* committed charging_sessions
    sessLock,  \* sessLock[s]: who holds session row s FOR UPDATE
    actions,   \* committed actions
    actLock,   \* actLock[a]: who has an uncommitted UPDATE of action row a
    took       \* history: the session on which r's commit took effect

local  == <<ev, cand, sid, row, prev>>
tables == <<sess, actions, took>>
locks  == <<sessLock, actLock>>
vars   == <<ev, pc, cand, sid, row, prev, sess, sessLock, actions, actLock,
            took>>

Answered == {"ok", "warned", "refused", "failed", "lost"}
Running  == {"select", "lock", "locked", "create", "refresh", "decide", "fill",
             "commit", "models", "log"}

Outcomes == {"charge", "not_charge"}

ActionRows ==
    [of : Requests, time : Times, energy : Int,
     real : Outcomes \cup {None}, span : Int \cup {None}]

ASSUME NoneIsNoAction == None \notin ActionRows \cup Outcomes

TypeOK ==
    /\ ev \in [Requests -> Events \cup {None}]
    /\ pc \in [Requests -> {"idle"} \cup Running \cup Answered]
    /\ cand \in [Requests -> SUBSET Requests]
    /\ sid \in [Requests -> Requests \cup {None}]
    /\ row \in [Requests -> Rows \cup {None}]
    /\ prev \in [Requests -> Requests \cup {None}]
    /\ sess \in [Requests -> Rows \cup {None}]
    /\ sessLock \in [Requests -> Requests \cup {None}]
    /\ actions \in [Requests -> ActionRows \cup {None}]
    /\ actLock \in [Requests -> Requests \cup {None}]
    /\ took \in [Requests -> Requests \cup {None}]

Init ==
    /\ ev = [r \in Requests |-> None]
    /\ pc = [r \in Requests |-> "idle"]
    /\ cand = [r \in Requests |-> {}]
    /\ sid = [r \in Requests |-> None]
    /\ row = [r \in Requests |-> None]
    /\ prev = [r \in Requests |-> None]
    /\ sess = [s \in Requests |-> None]
    /\ sessLock = [s \in Requests |-> None]
    /\ actions = [a \in Requests |-> None]
    /\ actLock = [a \in Requests |-> None]
    /\ took = [r \in Requests |-> None]

------------------------------------------------------------------------------
(* The row operations of the handlers. *)

IsActive(s) == sess[s] # None /\ sess[s].active

\* Mutants of InOrder: an equal time accepted, and the last event forgotten.
InOrderAtLeast(w, e) == e.time >= w.start /\ e.time >= w.last
InOrderOfStart(w, e) == e.time >= w.start

\* _validate_event_ordering: never before the connection, and after (a
\* repeated connection: not before) the last recorded event.
InOrder(w, e) ==
    /\ e.time >= w.start
    /\ IF e.kind = "connect" THEN e.time >= w.last ELSE e.time > w.last

\* Mutant of NewRow: the connection is not put on the timeline.
NewRowOffTimeline(e) ==
    [active |-> TRUE, start |-> e.time, last |-> None, energy |-> 0,
     endCharging |-> None, end |-> None]

NewRow(e) ==
    [active |-> TRUE, start |-> e.time, last |-> e.time, energy |-> 0,
     endCharging |-> None, end |-> None]

Touched(w, e) == [w EXCEPT !.last = e.time]

Charged(w, e) ==
    [w EXCEPT !.energy = @ + e.energy,
              !.endCharging = IF e.full THEN e.time ELSE @,
              !.last = e.time]

\* Mutant of Closed: a session never reported full gets no end of charging.
ClosedNotFull(w, e) ==
    [w EXCEPT !.energy = @ + e.energy,
              !.end = e.time, !.active = FALSE, !.last = e.time]

Closed(w, e) ==
    [w EXCEPT !.energy = @ + e.energy,
              !.endCharging = IF @ = None THEN e.time ELSE @,
              !.end = e.time, !.active = FALSE, !.last = e.time]

\* The row as the handler changes it, in its own copy, before committing it.
Staged(w, e) ==
    CASE e.kind = "connect"    -> Touched(w, e)
      [] e.kind = "update"     -> Charged(w, e)
      [] e.kind = "disconnect" -> Closed(w, e)

\* The unfilled actions of session s that no other unfilled one is later than.
LatestOpen(s) ==
    LET open == {a \in Requests : /\ actions[a] # None
                                  /\ actions[a].of = s
                                  /\ actions[a].real = None}
    IN  {a \in open : \A b \in open : actions[b].time <= actions[a].time}

NewAction(r) ==
    [of |-> sid[r], time |-> ev[r].time, energy |-> row[r].energy,
     real |-> None, span |-> None]

\* _fill_previous_action: the outcome is read off the session's energy since
\* the action; `span` is the elapsed time that real_power_kw divides by.
Filled(a, r) ==
    [a EXCEPT !.real = IF row[r].energy - a.energy > Threshold
                         THEN "charge" ELSE "not_charge",
              !.span = ev[r].time - a.time]

------------------------------------------------------------------------------
(* Locks. *)

Free(r)  == [s \in Requests |-> IF sessLock[s] = r THEN None ELSE sessLock[s]]
Freed(r) == [a \in Requests |-> IF actLock[a] = r THEN None ELSE actLock[a]]

\* COMMIT and ROLLBACK give up every lock of the transaction.
EndTransaction(r) == sessLock' = Free(r) /\ actLock' = Freed(r)

Goto(r, place) == pc' = [pc EXCEPT ![r] = place]

InFlight == {r \in Requests : pc[r] \in Running}

------------------------------------------------------------------------------
(* The handlers, statement by statement. *)

\* A client sends an event and the pool starts its handler.
Arrive(r) ==
    /\ pc[r] = "idle"
    /\ Cardinality(InFlight) < MaxInFlight
    /\ \E e \in Events : ev' = [ev EXCEPT ![r] = e]
    /\ Goto(r, "select")
    /\ UNCHANGED <<cand, sid, row, prev, tables, locks>>

\* Mutant of SelectActive: a fully charged vehicle is taken for gone.
SelectNotFull(r) ==
    /\ pc[r] = "select"
    /\ cand' = [cand EXCEPT ![r] = {s \in Requests :
                                     IsActive(s) /\ sess[s].endCharging = None}]
    /\ Goto(r, "lock")
    /\ UNCHANGED <<ev, sid, row, prev, tables, locks>>

\* The statement's snapshot fixes the rows that can be returned; those that
\* match are then locked one after the other until one of them qualifies.
SelectActive(r) ==
    /\ pc[r] = "select"
    /\ cand' = [cand EXCEPT ![r] = {s \in Requests : IsActive(s)}]
    /\ Goto(r, "lock")
    /\ UNCHANGED <<ev, sid, row, prev, tables, locks>>

\* A row that was closed while the statement waited no longer qualifies.
SkipClosed(r, s) ==
    /\ pc[r] = "lock"
    /\ s \in cand[r] /\ sessLock[s] = None
    /\ ~IsActive(s)
    /\ cand' = [cand EXCEPT ![r] = @ \ {s}]
    /\ UNCHANGED <<ev, pc, sid, row, prev, tables, locks>>

\* Mutants of LockRow: SELECT without FOR UPDATE, and FOR UPDATE that does not
\* look at the row again after waiting for it.
LoadRow(r, s) ==
    /\ pc[r] = "lock"
    /\ s \in cand[r]
    /\ IsActive(s)
    /\ sessLock' = [sessLock EXCEPT ![s] = r]
    /\ sid' = [sid EXCEPT ![r] = s]
    /\ row' = [row EXCEPT ![r] = sess[s]]
    /\ Goto(r, "locked")
    /\ UNCHANGED <<ev, cand, prev, tables, actLock>>

LockCandidate(r, s) ==
    /\ pc[r] = "lock"
    /\ s \in cand[r] /\ sessLock[s] = None
    /\ sessLock' = [sessLock EXCEPT ![s] = r]
    /\ sid' = [sid EXCEPT ![r] = s]
    /\ row' = [row EXCEPT ![r] = sess[s]]
    /\ Goto(r, "locked")
    /\ UNCHANGED <<ev, cand, prev, tables, actLock>>

LockRow(r, s) ==
    /\ pc[r] = "lock"
    /\ s \in cand[r] /\ sessLock[s] = None
    /\ IsActive(s)
    /\ sessLock' = [sessLock EXCEPT ![s] = r]
    /\ sid' = [sid EXCEPT ![r] = s]
    /\ row' = [row EXCEPT ![r] = sess[s]]
    /\ Goto(r, "locked")
    /\ UNCHANGED <<ev, cand, prev, tables, actLock>>

\* No active session: a connection goes on to create one, the others get 404.
NoActive(r) ==
    /\ pc[r] = "lock" /\ cand[r] = {}
    /\ Goto(r, IF ev[r].kind = "connect" THEN "create" ELSE "refused")
    /\ UNCHANGED <<local, tables, locks>>

\* Mutant of Refuse: the transaction is left open.
RefuseInTransaction(r) ==
    /\ \/ pc[r] = "select" /\ ev[r].kind = "connect"
       \/ pc[r] = "locked" /\ ev[r].kind # "connect"
       \/ pc[r] = "locked" /\ ~InOrder(row[r], ev[r])
    /\ Goto(r, "refused")
    /\ UNCHANGED <<local, tables, locks>>

\* 400 for an event out of order, 403 for a caller without access. A
\* connection's access is checked before its SELECT, the others' after it.
Refuse(r) ==
    /\ \/ pc[r] = "select" /\ ev[r].kind = "connect"
       \/ pc[r] = "locked" /\ ev[r].kind # "connect"
       \/ pc[r] = "locked" /\ ~InOrder(row[r], ev[r])
    /\ Goto(r, "refused")
    /\ EndTransaction(r)
    /\ UNCHANGED <<local, tables>>

CreateSession(r) ==
    /\ pc[r] = "create"
    /\ sess' = [sess EXCEPT ![r] = NewRow(ev[r])]
    /\ took' = [took EXCEPT ![r] = r]
    /\ sid' = [sid EXCEPT ![r] = r]
    /\ Goto(r, "refresh")
    /\ UNCHANGED <<ev, cand, row, prev, actions, locks>>

\* charging_update commits its telemetry, and with it the row lock, before
\* any decision is taken.
CommitTelemetry(r) ==
    /\ pc[r] = "locked" /\ ev[r].kind = "update"
    /\ InOrder(row[r], ev[r])
    /\ sess' = [sess EXCEPT ![sid[r]] = Staged(row[r], ev[r])]
    /\ took' = [took EXCEPT ![r] = sid[r]]
    /\ EndTransaction(r)
    /\ Goto(r, "refresh")
    /\ UNCHANGED <<local, actions>>

\* A repeated connection and a disconnection change their copy of the row and
\* keep the lock until their only commit.
StageRow(r) ==
    /\ pc[r] = "locked" /\ ev[r].kind # "update"
    /\ InOrder(row[r], ev[r])
    /\ row' = [row EXCEPT ![r] = Staged(row[r], ev[r])]
    /\ Goto(r, "decide")
    /\ UNCHANGED <<ev, cand, sid, prev, tables, locks>>

\* db.refresh after the first commit: others may have written the row since.
Refresh(r) ==
    /\ pc[r] = "refresh"
    /\ row' = [row EXCEPT ![r] = sess[sid[r]]]
    /\ Goto(r, "decide")
    /\ UNCHANGED <<ev, cand, sid, prev, tables, locks>>

\* compute_and_save_action and finalize_session_action both begin by picking
\* the action to fill, among the committed ones and without locking it.
ReadPrevious(r) ==
    /\ pc[r] = "decide"
    /\ \/ \E a \in LatestOpen(sid[r]) : prev' = [prev EXCEPT ![r] = a]
       \/ LatestOpen(sid[r]) = {} /\ prev' = [prev EXCEPT ![r] = None]
    /\ Goto(r, "fill")
    /\ UNCHANGED <<ev, cand, sid, row, tables, locks>>

\* The commit's first statement, UPDATE actions, waits for any other
\* transaction that has the same row in an UPDATE.
LockPrevious(r) ==
    /\ pc[r] = "fill"
    /\ prev[r] # None => actLock[prev[r]] = None
    /\ actLock' = IF prev[r] = None THEN actLock
                                    ELSE [actLock EXCEPT ![prev[r]] = r]
    /\ Goto(r, "commit")
    /\ UNCHANGED <<local, tables, sessLock>>

\* Mutant of Published: a disconnection does not finalise the last action.
PublishedUnfinalised(r) ==
    [a \in Requests |->
        IF ev[r].kind = "disconnect" THEN actions[a]
        ELSE IF a = prev[r] THEN Filled(actions[a], r)
        ELSE IF a = r THEN NewAction(r)
        ELSE actions[a]]

\* What r's COMMIT makes of the actions: the filled one, and the new one of a
\* decision (a disconnection inserts none).
Published(r) ==
    [a \in Requests |->
        IF a = prev[r] THEN Filled(actions[a], r)
        ELSE IF a = r /\ ev[r].kind # "disconnect" THEN NewAction(r)
        ELSE actions[a]]

\* Mutant of PublishRow: a repeated connection does not advance the timeline.
PublishClosing(r) ==
    IF sessLock[sid[r]] = r /\ ev[r].kind = "disconnect"
      THEN /\ sess' = [sess EXCEPT ![sid[r]] = row[r]]
           /\ took' = [took EXCEPT ![r] = sid[r]]
      ELSE UNCHANGED <<sess, took>>

\* The session row is part of the COMMIT for whoever still holds its lock.
PublishRow(r) ==
    IF sessLock[sid[r]] = r
      THEN /\ sess' = [sess EXCEPT ![sid[r]] = row[r]]
           /\ took' = [took EXCEPT ![r] = sid[r]]
      ELSE UNCHANGED <<sess, took>>

\* INSERT INTO actions checks its foreign key with FOR KEY SHARE on the
\* session row, so it waits for anybody else's FOR UPDATE. After the COMMIT,
\* the answer to a connection reads the session's id again, which may fail.
CommitDecision(r) ==
    /\ pc[r] = "commit" /\ ev[r].kind # "disconnect"
    /\ sessLock[sid[r]] \in {None, r}
    /\ actions' = Published(r)
    /\ PublishRow(r)
    /\ EndTransaction(r)
    /\ \/ Goto(r, "ok")
       \/ ev[r].kind = "connect" /\ Goto(r, "failed")
    /\ UNCHANGED local

CommitClose(r) ==
    /\ pc[r] = "commit" /\ ev[r].kind = "disconnect"
    /\ actions' = Published(r)
    /\ PublishRow(r)
    /\ EndTransaction(r)
    /\ Goto(r, "models")
    /\ UNCHANGED local

\* update_ev_forecast and update_ev_duration_cdf write other tables.
UpdateModels(r) ==
    /\ pc[r] = "models"
    /\ Goto(r, "ok")
    /\ UNCHANGED <<local, tables, locks>>

\* The log row is committed in a new transaction, which may fail too (500).
LogError(r) ==
    /\ pc[r] = "log"
    /\ \/ Goto(r, "warned")
       \/ Goto(r, "failed")
    /\ UNCHANGED <<local, tables, locks>>

------------------------------------------------------------------------------
(* Failures. *)

\* Mutant of IsSoft: a failed closing is answered like a failed decision.
IsSoftClosing(r) == pc[r] \in {"decide", "fill", "commit", "models"}

\* A failure inside the try around a decision (or around the forecasting
\* update) is rolled back, logged and answered with a warning. Everywhere
\* else, the whole of a disconnection's closing included, it is a 500.
IsSoft(r) ==
    \/ pc[r] = "models"
    \/ pc[r] \in {"decide", "fill", "commit"} /\ ev[r].kind # "disconnect"

\* At "models", the read of the closed row that precedes the try may fail too.
Abort(r) ==
    /\ pc[r] \in Running \ {"log"}
    /\ \/ IsSoft(r) /\ Goto(r, "log")
       \/ (IsSoft(r) => pc[r] = "models") /\ Goto(r, "failed")
    /\ EndTransaction(r)
    /\ UNCHANGED <<local, tables>>

\* r is about to insert its action and waits for the session row; its holder
\* q waits for the action row r has updated.
Deadlocked(r, q) ==
    /\ pc[r] = "commit" /\ sessLock[sid[r]] = q /\ q # r
    /\ pc[q] = "fill" /\ prev[q] # None /\ actLock[prev[q]] = r

\* PostgreSQL's deadlock detector aborts one of the two.
BreakDeadlock(r, q) ==
    /\ Deadlocked(r, q)
    /\ Abort(r) \/ Abort(q)

\* The server process dies: every handler is lost, every open transaction is
\* rolled back by the database, and clients get no answer.
Crash ==
    /\ InFlight # {}
    /\ pc' = [r \in Requests |-> IF r \in InFlight THEN "lost" ELSE pc[r]]
    /\ sessLock' = [s \in Requests |-> None]
    /\ actLock' = [a \in Requests |-> None]
    /\ UNCHANGED <<local, tables>>

------------------------------------------------------------------------------

Handle(r) ==
    \/ SelectActive(r)
    \/ \E s \in Requests : SkipClosed(r, s) \/ LockRow(r, s)
    \/ NoActive(r) \/ Refuse(r)
    \/ CreateSession(r) \/ CommitTelemetry(r) \/ StageRow(r)
    \/ Refresh(r) \/ ReadPrevious(r) \/ LockPrevious(r)
    \/ CommitDecision(r) \/ CommitClose(r)
    \/ UpdateModels(r) \/ LogError(r)

\* Every request has been answered: nothing is left to do.
Quiet ==
    /\ \A r \in Requests : pc[r] \in Answered
    /\ UNCHANGED vars

Next ==
    \/ \E r \in Requests : Arrive(r) \/ Handle(r) \/ Abort(r)
    \/ \E r, q \in Requests : BreakDeadlock(r, q)
    \/ Crash
    \/ Quiet

Spec == Init /\ [][Next]_vars

(***************************************************************************)
(* The operating system runs every thread, the database answers every       *)
(* statement, and its deadlock detector runs. Nothing obliges a client to   *)
(* send an event, nor a fault to happen.                                    *)
(***************************************************************************)
Fairness ==
    /\ \A r \in Requests : WF_vars(Handle(r))
    /\ \A r, q \in Requests : WF_vars(BreakDeadlock(r, q))

FairSpec == Spec /\ Fairness

------------------------------------------------------------------------------
(* Properties. *)

Contract == INSTANCE SessionContract WITH ev <- ev, sess <- sess, took <- took

(***************************************************************************)
(* Serialisation: however the requests interleave, fail or are lost, every  *)
(* committed change of the charging_sessions table is one whole operation   *)
(* of SessionContract, validated against the row it actually changes.       *)
(***************************************************************************)
ImplementsContract == Contract!Spec

(***************************************************************************)
(* The holder of a row lock works on the committed row: its copy is the row *)
(* itself, or the row with exactly the change that its event makes. Without *)
(* it an update could overwrite another one's energy.                       *)
(***************************************************************************)
CopyIsCurrent ==
    \A s \in Requests : sessLock[s] # None =>
        LET r == sessLock[s] IN
        /\ sid[r] = s /\ IsActive(s) /\ took[r] = None
        /\ pc[r] \in {"locked", "decide", "fill", "commit"}
        /\ pc[r] = "locked" => row[r] = sess[s]
        /\ pc[r] # "locked" =>
             /\ ev[r].kind # "update"
             /\ InOrder(sess[s], ev[r])
             /\ row[r] = Staged(sess[s], ev[r])

(***************************************************************************)
(* What a charger is told is what is stored: "ok" means the event took      *)
(* effect, a warning to an update or a disconnection means so too, and      *)
(* a refused request has left nothing behind.                               *)
(***************************************************************************)
AnswersAreTrue ==
    \A r \in Requests :
        /\ pc[r] = "ok" => took[r] # None
        /\ pc[r] = "warned" /\ ev[r].kind # "connect" => took[r] # None
        /\ pc[r] = "ok" /\ ev[r].kind # "disconnect" => actions[r] # None
        /\ pc[r] = "refused" => took[r] = None /\ actions[r] = None

(***************************************************************************)
(* An action belongs to an event that took effect on the action's session,  *)
(* and lies on that session's timeline: no decision of a rolled-back event  *)
(* survives, and none is attached to another session.                       *)
(***************************************************************************)
ActionsHaveEvents ==
    \A a \in Requests : actions[a] # None =>
        /\ took[a] = actions[a].of
        /\ sess[took[a]] # None
        /\ sess[took[a]].start <= actions[a].time
        /\ actions[a].time <= sess[took[a]].last

(***************************************************************************)
(* The rows that the handlers commit keep the timeline of SessionContract:  *)
(* a full charge within the session, an end exactly when it is closed, also *)
(* after repeated connections, failures and crashes.                        *)
(***************************************************************************)
TimelineOK == Contract!TimelineOK

(***************************************************************************)
(* A client that got a failure or no answer may send its report again: no   *)
(* two reports with the same time are added to the same session.            *)
(***************************************************************************)
ReportsAreDistinct == Contract!ReportsAreDistinct

(***************************************************************************)
(* Every request that reaches a handler is answered, or lost in a crash: no *)
(* wait for a row lock lasts forever, not even in a deadlock. (A request    *)
(* arrives once and there are finitely many, so an empty server again and   *)
(* again means that each one ends.)                                         *)
(***************************************************************************)
EveryRequestEnds == []<>(InFlight = {})

------------------------------------------------------------------------------
(* Properties of requests that do not overlap (MaxInFlight = 1), with the   *)
(* failures and crashes that leave a request half done.                     *)

(***************************************************************************)
(* A charger never has two active sessions.                                 *)
(***************************************************************************)
OneActiveSession ==
    \A s, t \in Requests : IsActive(s) /\ IsActive(t) => s = t

(***************************************************************************)
(* The last action of a session is filled when the session is closed.       *)
(***************************************************************************)
ClosedIsFilled ==
    \A a \in Requests :
        actions[a] # None /\ ~IsActive(actions[a].of) => actions[a].real # None

(***************************************************************************)
(* An action is filled by an event that is not earlier than it.             *)
(***************************************************************************)
FilledForward ==
    \A a \in Requests :
        actions[a] # None /\ actions[a].real # None => actions[a].span >= 0
==============================================================================
