------------------------- MODULE SessionEventsProofs -------------------------
(***************************************************************************)
(* Proofs about SessionEvents, for any number of requests, any events and   *)
(* any overlap: type correctness, that the holder of a row lock works on    *)
(* the committed row, that the handlers implement SessionContract, what     *)
(* clients are told, and that every stored decision belongs to an event     *)
(* that took effect; at the end, what holds of one request at a time.       *)
(***************************************************************************)
EXTENDS SessionEvents, FiniteSetTheorems, TLAPS

\* The contract over the handlers' variables, with its theorems.
Safe == INSTANCE SessionContractProofs

\* An event is not NULL, and its time and energy can be reckoned with.
LEMMA EventFields ==
    ASSUME NEW e \in Events
    PROVE  /\ e # None
           /\ e.kind \in Kinds /\ e.time \in Times /\ e.time \in Int
           /\ e.energy \in Int /\ e.full \in BOOLEAN
  BY Safe!EventFields, NoneIsFresh, TimesAreInts, EnergiesAreInts,
     FullFlagsAreBooleans
     DEF Safe!Events, Safe!Kinds, Safe!Rows, Events, Kinds, Rows

(***************************************************************************)
(* What a handler may rely on at each of its places. It strengthens TypeOK  *)
(* and CopyIsCurrent to an inductive invariant.                             *)
(***************************************************************************)
HandlerOK(r) ==
    /\ pc[r] = "idle" <=> ev[r] = None
    /\ pc[r] \in {"idle", "select", "lock", "locked", "create"}
         => took[r] = None /\ sess[r] = None
    /\ pc[r] = "create" => ev[r].kind = "connect"
    /\ pc[r] = "locked" => sessLock[sid[r]] = r
    /\ pc[r] \in {"locked", "refresh", "decide", "fill", "commit"}
         => sid[r] \in Requests
    /\ pc[r] \in {"locked", "decide", "fill", "commit"} => row[r] \in Rows
    /\ pc[r] = "refresh" => sess[sid[r]] # None
    /\ pc[r] \in {"fill", "commit"} /\ prev[r] # None
         => actions[prev[r]] # None

HandlersOK == \A r \in Requests : HandlerOK(r)

IInv == TypeOK /\ HandlersOK /\ CopyIsCurrent

------------------------------------------------------------------------------
(* The data. *)

\* A new session is a complete row.
LEMMA NewRowIsRow == ASSUME NEW e \in Events PROVE NewRow(e) \in Rows
  BY EventFields DEF NewRow, Rows

\* A handler that changes a row writes a row again.
LEMMA StagedIsRow ==
    ASSUME NEW w \in Rows, NEW e \in Events
    PROVE  Staged(w, e) \in Rows
<1>1. /\ e.time \in Times
      /\ w.energy + e.energy \in Int
      /\ (IF e.full THEN e.time ELSE w.endCharging) \in Times \cup {None}
      /\ (IF w.endCharging = None THEN e.time ELSE w.endCharging)
           \in Times \cup {None}
  BY EventFields DEF Rows
<1>2. Touched(w, e) \in Rows
  BY <1>1 DEF Touched, Rows
<1>3. Charged(w, e) \in Rows
  BY <1>1 DEF Charged, Rows
<1>4. Closed(w, e) \in Rows
  BY <1>1 DEF Closed, Rows
<1>5. e.kind \in {"connect", "update", "disconnect"}
  BY EventFields DEF Kinds
<1> QED
  BY <1>2, <1>3, <1>4, <1>5 DEF Staged

\* What a COMMIT writes to the actions are actions, and it deletes none.
LEMMA PublishedIsTable ==
    ASSUME TypeOK, HandlersOK, NEW r \in Requests, pc[r] = "commit"
    PROVE  /\ Published(r) \in [Requests -> ActionRows \cup {None}]
           /\ \A a \in Requests :
                 actions[a] # None => Published(r)[a] # None
<1> DEFINE entry(a) == IF a = prev[r] THEN Filled(actions[a], r)
                       ELSE IF a = r /\ ev[r].kind # "disconnect"
                              THEN NewAction(r)
                       ELSE actions[a]
<1>1. ev[r] \in Events /\ row[r] \in Rows /\ sid[r] \in Requests
  BY DEF TypeOK, HandlersOK, HandlerOK
<1>2. ev[r].time \in Times /\ ev[r].time \in Int
  BY <1>1, EventFields
<1>3. row[r].energy \in Int
  BY <1>1 DEF Rows
<1>4. NewAction(r) \in ActionRows
  BY <1>1, <1>2, <1>3 DEF NewAction, ActionRows
<1>5. ASSUME NEW a \in Requests, a = prev[r]
      PROVE  Filled(actions[a], r) \in ActionRows
  <2>1. actions[a] \in ActionRows
    BY <1>5, NoneIsFresh DEF TypeOK, HandlersOK, HandlerOK
  <2>2. actions[a].time \in Int
    BY <2>1, TimesAreInts DEF ActionRows
  <2>3. \A outcome \in Outcomes, span \in Int :
          [actions[a] EXCEPT !.real = outcome, !.span = span] \in ActionRows
    BY <2>1 DEF ActionRows
  <2> DEFINE outcome == IF row[r].energy - actions[a].energy > Threshold
                          THEN "charge" ELSE "not_charge"
             span == ev[r].time - actions[a].time
  <2>4. outcome \in Outcomes /\ span \in Int
    BY <1>2, <2>2 DEF Outcomes
  <2>5. Filled(actions[a], r)
          = [actions[a] EXCEPT !.real = outcome, !.span = span]
    BY DEF Filled
  <2> HIDE DEF outcome, span
  <2> QED
    BY <2>3, <2>4, <2>5
<1>6. ASSUME NEW a \in Requests
      PROVE  /\ entry(a) \in ActionRows \cup {None}
             /\ actions[a] # None => entry(a) # None
  BY <1>4, <1>5, NoneIsNoAction DEF TypeOK
<1> HIDE DEF entry
<1>7. Published(r) = [a \in Requests |-> entry(a)]
  BY DEF Published, entry
<1> QED
  BY <1>6, <1>7

------------------------------------------------------------------------------
(* Initially. *)

\* The server starts with empty tables and no request.
LEMMA InitOK == Init => IInv
  BY DEF Init, IInv, TypeOK, HandlersOK, HandlerOK, CopyIsCurrent, Running,
         Answered

------------------------------------------------------------------------------
(* Steps. *)

\* The lock tables stay tables when a transaction ends.
LEMMA EndKeepsLocks ==
    ASSUME TypeOK, NEW r \in Requests, EndTransaction(r)
    PROVE  /\ sessLock' \in [Requests -> Requests \cup {None}]
           /\ actLock' \in [Requests -> Requests \cup {None}]
  BY DEF TypeOK, EndTransaction, Free, Freed

\* The steps that change only the handler's own variables.
LocalStep(r) ==
    \/ SelectActive(r) \/ NoActive(r) \/ StageRow(r) \/ Refresh(r)
    \/ ReadPrevious(r) \/ UpdateModels(r) \/ LogError(r)
    \/ \E s \in Requests : SkipClosed(r, s)

\* They write well-typed values: a staged row is a row, a place is a place.
LEMMA LocalStepTypeOK ==
    ASSUME TypeOK, HandlersOK, NEW r \in Requests, LocalStep(r)
    PROVE  TypeOK'
<1>1. CASE SelectActive(r)
  BY <1>1 DEF SelectActive, Goto, tables, locks, TypeOK, Running
<1>2. CASE NoActive(r)
  BY <1>2 DEF NoActive, Goto, local, tables, locks, TypeOK, Running, Answered
<1>3. CASE StageRow(r)
  <2>1. row[r] \in Rows /\ ev[r] \in Events
    BY <1>3 DEF StageRow, TypeOK, HandlersOK, HandlerOK
  <2>2. Staged(row[r], ev[r]) \in Rows
    BY <2>1, StagedIsRow
  <2> QED
    BY <1>3, <2>2 DEF StageRow, Goto, tables, locks, TypeOK, Running
<1>4. CASE Refresh(r)
  BY <1>4 DEF Refresh, Goto, tables, locks, TypeOK, HandlersOK, HandlerOK,
              Running
<1>5. CASE ReadPrevious(r)
  BY <1>5 DEF ReadPrevious, LatestOpen, Goto, tables, locks, TypeOK, Running
<1>6. CASE UpdateModels(r)
  BY <1>6 DEF UpdateModels, Goto, local, tables, locks, TypeOK, Answered
<1>7. CASE LogError(r)
  BY <1>7 DEF LogError, Goto, local, tables, locks, TypeOK, Answered
<1>8. CASE \E s \in Requests : SkipClosed(r, s)
  BY <1>8 DEF SkipClosed, tables, locks, TypeOK
<1> QED
  BY <1>1, <1>2, <1>3, <1>4, <1>5, <1>6, <1>7, <1>8 DEF LocalStep

\* No step of the system breaks a type.
LEMMA StepTypeOK ==
    ASSUME TypeOK, HandlersOK, CopyIsCurrent, Next
    PROVE  TypeOK'
<1>1. ASSUME NEW r \in Requests, Arrive(r) PROVE TypeOK'
  BY <1>1 DEF Arrive, Goto, tables, locks, TypeOK, Running
<1>2. ASSUME NEW r \in Requests, LocalStep(r) PROVE TypeOK'
  BY <1>2, LocalStepTypeOK
<1>3. ASSUME NEW r \in Requests, NEW s \in Requests, LockRow(r, s)
      PROVE  TypeOK'
  BY <1>3 DEF LockRow, Goto, tables, TypeOK, Running
<1>4. ASSUME NEW r \in Requests, Refuse(r) PROVE TypeOK'
  BY <1>4, EndKeepsLocks DEF Refuse, Goto, local, tables, TypeOK, Answered
<1>5. ASSUME NEW r \in Requests, CreateSession(r) PROVE TypeOK'
  <2>1. NewRow(ev[r]) \in Rows
    BY <1>5, NewRowIsRow DEF CreateSession, TypeOK, HandlersOK, HandlerOK
  <2> QED
    BY <1>5, <2>1 DEF CreateSession, Goto, locks, TypeOK, Running
<1>6. ASSUME NEW r \in Requests, CommitTelemetry(r) PROVE TypeOK'
  <2>1. row[r] \in Rows /\ ev[r] \in Events /\ sid[r] \in Requests
    BY <1>6 DEF CommitTelemetry, TypeOK, HandlersOK, HandlerOK
  <2>2. Staged(row[r], ev[r]) \in Rows
    BY <2>1, StagedIsRow
  <2> QED
    BY <1>6, <2>1, <2>2, EndKeepsLocks
       DEF CommitTelemetry, Goto, local, TypeOK, Running
<1>7. ASSUME NEW r \in Requests, LockPrevious(r) PROVE TypeOK'
  BY <1>7 DEF LockPrevious, Goto, local, tables, TypeOK, Running
<1>8. ASSUME NEW r \in Requests, CommitDecision(r) \/ CommitClose(r)
      PROVE  TypeOK'
  <2>1. pc[r] = "commit" /\ actions' = Published(r) /\ PublishRow(r)
    BY <1>8 DEF CommitDecision, CommitClose
  <2>2. row[r] \in Rows /\ sid[r] \in Requests
    BY <2>1 DEF HandlersOK, HandlerOK
  <2>3. actions' \in [Requests -> ActionRows \cup {None}]
    BY <2>1, PublishedIsTable
  <2>4. /\ sess' \in [Requests -> Rows \cup {None}]
        /\ took' \in [Requests -> Requests \cup {None}]
    BY <2>1, <2>2 DEF PublishRow, TypeOK
  <2>5. pc' \in [Requests -> {"idle"} \cup Running \cup Answered]
    BY <1>8 DEF CommitDecision, CommitClose, Goto, TypeOK, Running, Answered
  <2>6. EndTransaction(r) /\ UNCHANGED local
    BY <1>8 DEF CommitDecision, CommitClose
  <2> QED
    BY <2>3, <2>4, <2>5, <2>6, EndKeepsLocks DEF local, TypeOK
<1>9. ASSUME NEW r \in Requests, Abort(r) PROVE TypeOK'
  BY <1>9, EndKeepsLocks
     DEF Abort, Goto, local, tables, TypeOK, Running, Answered
<1>10. CASE Crash
  BY <1>10 DEF Crash, local, tables, TypeOK, Answered
<1>11. CASE Quiet
  BY <1>11 DEF Quiet, vars, TypeOK
<1> QED
  BY <1>1, <1>2, <1>3, <1>4, <1>5, <1>6, <1>7, <1>8, <1>9, <1>10, <1>11
     DEF Next, Handle, LocalStep, BreakDeadlock

------------------------------------------------------------------------------
(* What a handler does to the others. *)

(***************************************************************************)
(* A step of request r leaves the others' variables and locks alone; it     *)
(* writes only rows it has locked or inserts, and deletes nothing.          *)
(***************************************************************************)
Frame(r) ==
    /\ \A q \in Requests \ {r} :
          /\ pc'[q] = pc[q] /\ ev'[q] = ev[q] /\ sid'[q] = sid[q]
          /\ row'[q] = row[q] /\ prev'[q] = prev[q] /\ took'[q] = took[q]
    /\ \A s \in Requests : sessLock'[s] # sessLock[s] =>
          sessLock[s] \in {None, r} /\ sessLock'[s] \in {None, r}
    /\ \A s \in Requests : sess'[s] # sess[s] =>
          /\ sess'[s] # None
          /\ \/ s = r /\ sess[r] = None
             \/ sessLock[s] = r
    /\ \A a \in Requests : actions[a] # None => actions'[a] # None

\* A row that somebody else has locked does not change.
LEMMA LockedRowsStay ==
    ASSUME CopyIsCurrent, TypeOK, NEW r \in Requests, Frame(r),
           NEW s \in Requests, sessLock[s] \notin {None, r}
    PROVE  sess'[s] = sess[s] /\ sessLock'[s] = sessLock[s]
  BY DEF Frame, CopyIsCurrent, IsActive

\* The others stay where they were, and can rely on what they relied on.
LEMMA OthersStayOK ==
    ASSUME IInv, NEW r \in Requests, Frame(r), NEW q \in Requests, q # r
    PROVE  HandlerOK(q)'
<1> USE NoneIsFresh DEF IInv, HandlersOK
<1>1. /\ pc'[q] = pc[q] /\ ev'[q] = ev[q] /\ sid'[q] = sid[q]
      /\ row'[q] = row[q] /\ prev'[q] = prev[q] /\ took'[q] = took[q]
  BY DEF Frame
<1>2. HandlerOK(q)
  OBVIOUS
<1>3. sess[q] = None => sess'[q] = None
  BY DEF Frame, CopyIsCurrent, IsActive
<1>4. \A s \in Requests : sess[s] # None => sess'[s] # None
  BY DEF Frame
<1>5. \A a \in Requests : actions[a] # None => actions'[a] # None
  BY DEF Frame
<1>6. \A s \in Requests : sessLock[s] = q => sessLock'[s] = q
  BY DEF Frame
<1>7. prev[q] \in Requests \cup {None}
  BY DEF TypeOK
<1> QED
  BY <1>1, <1>2, <1>3, <1>4, <1>5, <1>6, <1>7 DEF HandlerOK

\* The clause of CopyIsCurrent about one row.
CopyOK(s) ==
    LET r == sessLock[s] IN
    r # None =>
        /\ sid[r] = s /\ IsActive(s) /\ took[r] = None
        /\ pc[r] \in {"locked", "decide", "fill", "commit"}
        /\ pc[r] = "locked" => row[r] = sess[s]
        /\ pc[r] # "locked" =>
             /\ ev[r].kind # "update"
             /\ InOrder(sess[s], ev[r])
             /\ row[r] = Staged(sess[s], ev[r])

\* The copies of the other lock holders stay current.
LEMMA OthersCopiesStay ==
    ASSUME IInv, NEW r \in Requests, Frame(r),
           NEW s \in Requests, sessLock'[s] # r
    PROVE  CopyOK(s)'
<1> DEFINE q == sessLock'[s]
<1>1. CASE q = None
  BY <1>1 DEF CopyOK
<1>2. CASE q # None
  <2>1. sessLock[s] = q
    BY <1>2 DEF Frame
  <2>2. q \in Requests /\ q # r
    BY <1>2, <2>1 DEF IInv, TypeOK
  <2>3. sess'[s] = sess[s]
    BY <1>2, <2>1, <2>2, LockedRowsStay DEF IInv
  <2>4. /\ pc'[q] = pc[q] /\ ev'[q] = ev[q] /\ sid'[q] = sid[q]
        /\ row'[q] = row[q] /\ took'[q] = took[q]
    BY <2>2 DEF Frame
  <2>5. CopyOK(s)
    BY DEF IInv, CopyIsCurrent, CopyOK
  <2> QED
    BY <1>2, <2>1, <2>3, <2>4, <2>5 DEF CopyOK, IsActive
<1> QED
  BY <1>1, <1>2

\* A lock a transaction gives up was its own.
LEMMA EndFreesOwn ==
    ASSUME TypeOK, NEW r \in Requests, EndTransaction(r)
    PROVE  \A s \in Requests :
              IF sessLock[s] = r THEN sessLock'[s] = None
                                 ELSE sessLock'[s] = sessLock[s]
  BY DEF EndTransaction, Free

\* Every step of a request keeps to its frame.
LEMMA StepFrame ==
    ASSUME IInv, NEW r \in Requests, Arrive(r) \/ Handle(r) \/ Abort(r)
    PROVE  Frame(r)
<1> USE NoneIsFresh DEF IInv
<1>1. ASSUME Arrive(r) PROVE Frame(r)
  BY <1>1 DEF Arrive, Goto, tables, locks, Frame, TypeOK
<1>2. ASSUME LocalStep(r) PROVE Frame(r)
  BY <1>2 DEF LocalStep, SelectActive, NoActive, StageRow, Refresh,
              ReadPrevious, UpdateModels, LogError, SkipClosed, Goto, local,
              tables, locks, Frame, TypeOK
<1>3. ASSUME NEW s \in Requests, LockRow(r, s) PROVE Frame(r)
  BY <1>3 DEF LockRow, Goto, tables, Frame, TypeOK
<1>4. ASSUME Refuse(r) PROVE Frame(r)
  BY <1>4, EndFreesOwn DEF Refuse, Goto, local, tables, Frame, TypeOK
<1>5. ASSUME CreateSession(r) PROVE Frame(r)
  <2>1. sess[r] = None /\ NewRow(ev[r]) \in Rows
    BY <1>5, NewRowIsRow DEF CreateSession, TypeOK, HandlersOK, HandlerOK
  <2> QED
    BY <1>5, <2>1 DEF CreateSession, Goto, locks, Frame, TypeOK
<1>6. ASSUME CommitTelemetry(r) PROVE Frame(r)
  <2>1. row[r] \in Rows /\ ev[r] \in Events /\ sessLock[sid[r]] = r
    BY <1>6 DEF CommitTelemetry, TypeOK, HandlersOK, HandlerOK
  <2>2. Staged(row[r], ev[r]) \in Rows
    BY <2>1, StagedIsRow
  <2> QED
    BY <1>6, <2>1, <2>2, EndFreesOwn
       DEF CommitTelemetry, Goto, local, Frame, TypeOK
<1>7. ASSUME LockPrevious(r) PROVE Frame(r)
  BY <1>7 DEF LockPrevious, Goto, local, tables, Frame, TypeOK
<1>8. ASSUME CommitDecision(r) \/ CommitClose(r) PROVE Frame(r)
  <2>1. /\ pc[r] = "commit" /\ actions' = Published(r) /\ PublishRow(r)
        /\ EndTransaction(r) /\ UNCHANGED local
        /\ pc' = [pc EXCEPT ![r] = pc'[r]]
    BY <1>8 DEF CommitDecision, CommitClose, Goto, TypeOK
  <2>2. row[r] \in Rows
    BY <2>1 DEF HandlersOK, HandlerOK
  <2>3. \A s \in Requests : sess'[s] # sess[s] =>
            sess'[s] # None /\ sessLock[s] = r
    BY <2>1, <2>2 DEF PublishRow, TypeOK
  <2>4. \A q \in Requests \ {r} : took'[q] = took[q]
    BY <2>1 DEF PublishRow, TypeOK
  <2>5. \A a \in Requests : actions[a] # None => actions'[a] # None
    BY <2>1, PublishedIsTable
  <2> QED
    BY <2>1, <2>3, <2>4, <2>5, EndFreesOwn DEF local, Frame, TypeOK
<1>9. ASSUME Abort(r) PROVE Frame(r)
  BY <1>9, EndFreesOwn DEF Abort, Goto, local, tables, Frame, TypeOK
<1> QED
  BY <1>1, <1>2, <1>3, <1>4, <1>5, <1>6, <1>7, <1>8, <1>9
     DEF Handle, LocalStep

------------------------------------------------------------------------------
(* What a handler does for itself. *)

\* A request outside the four places that hold a row lock holds none.
LEMMA HoldersPlaces ==
    ASSUME CopyIsCurrent, NEW r \in Requests,
           pc[r] \notin {"locked", "decide", "fill", "commit"}
    PROVE  \A s \in Requests : sessLock[s] # r
  BY NoneIsFresh DEF CopyIsCurrent

\* A request that commits or rolls back holds no row afterwards.
LEMMA EndHoldsNone ==
    ASSUME TypeOK, NEW r \in Requests, EndTransaction(r)
    PROVE  \A s \in Requests : sessLock'[s] # r
  BY NoneIsFresh DEF TypeOK, EndTransaction, Free

\* Both clauses of r after a step of r: its place, and the row it holds.
Own(r) == HandlerOK(r) /\ \A s \in Requests : sessLock[s] = r => CopyOK(s)

\* A step leaves its own request with what its new place relies on.
LEMMA StepOwn ==
    ASSUME IInv, NEW r \in Requests, Arrive(r) \/ Handle(r) \/ Abort(r)
    PROVE  Own(r)'
<1> USE NoneIsFresh DEF IInv
<1>0. HandlerOK(r) /\ \A s \in Requests : CopyOK(s)
  BY DEF HandlersOK, CopyIsCurrent, CopyOK
<1>1. ASSUME Arrive(r) PROVE Own(r)'
  <2>1. \A s \in Requests : sessLock[s] # r
    BY <1>1, HoldersPlaces DEF Arrive
  <2> QED
    BY <1>0, <1>1, <2>1 DEF Arrive, Goto, tables, locks, Own, HandlerOK, TypeOK
<1>2. ASSUME SelectActive(r) PROVE Own(r)'
  <2>1. \A s \in Requests : sessLock[s] # r
    BY <1>2, HoldersPlaces DEF SelectActive
  <2> QED
    BY <1>0, <1>2, <2>1
       DEF SelectActive, Goto, tables, locks, Own, HandlerOK, TypeOK
<1>3. ASSUME NEW s \in Requests, SkipClosed(r, s) PROVE Own(r)'
  <2>1. \A t \in Requests : sessLock[t] # r
    BY <1>3, HoldersPlaces DEF SkipClosed
  <2> QED
    BY <1>0, <1>3, <2>1 DEF SkipClosed, tables, locks, Own, HandlerOK, TypeOK
<1>4. ASSUME NEW s \in Requests, LockRow(r, s) PROVE Own(r)'
  <2>1. \A t \in Requests : sessLock[t] # r
    BY <1>4, HoldersPlaces DEF LockRow
  <2>2. sess[s] \in Rows
    BY <1>4 DEF LockRow, IsActive, TypeOK
  <2>3. /\ pc'[r] = "locked" /\ sid'[r] = s /\ row'[r] = sess[s]
        /\ sess' = sess /\ took' = took /\ ev' = ev /\ sess'[r] = sess[r]
        /\ sessLock'[s] = r /\ \A t \in Requests : sessLock'[t] = r => t = s
    BY <1>4, <2>1 DEF LockRow, Goto, tables, TypeOK
  <2>4. HandlerOK(r)'
    BY <1>0, <1>4, <2>2, <2>3 DEF LockRow, HandlerOK
  <2>5. CopyOK(s)'
    BY <1>0, <1>4, <2>3 DEF LockRow, HandlerOK, CopyOK, IsActive
  <2> QED
    BY <2>3, <2>4, <2>5 DEF Own
<1>5. ASSUME NoActive(r) PROVE Own(r)'
  <2>1. \A s \in Requests : sessLock[s] # r
    BY <1>5, HoldersPlaces DEF NoActive
  <2> QED
    BY <1>0, <1>5, <2>1
       DEF NoActive, Goto, local, tables, locks, Own, HandlerOK, TypeOK
<1>6. ASSUME Refuse(r) PROVE Own(r)'
  BY <1>0, <1>6, EndHoldsNone
     DEF Refuse, Goto, local, tables, Own, HandlerOK, TypeOK
<1>7. ASSUME CreateSession(r) PROVE Own(r)'
  <2>1. \A s \in Requests : sessLock[s] # r
    BY <1>7, HoldersPlaces DEF CreateSession
  <2>2. NewRow(ev[r]) \in Rows
    BY <1>0, <1>7, NewRowIsRow DEF CreateSession, TypeOK, HandlerOK
  <2> QED
    BY <1>0, <1>7, <2>1, <2>2
       DEF CreateSession, Goto, locks, Own, HandlerOK, TypeOK
<1>8. ASSUME CommitTelemetry(r) PROVE Own(r)'
  <2>1. row[r] \in Rows /\ ev[r] \in Events /\ sid[r] \in Requests
    BY <1>0, <1>8 DEF CommitTelemetry, TypeOK, HandlerOK
  <2>2. Staged(row[r], ev[r]) \in Rows
    BY <2>1, StagedIsRow
  <2> QED
    BY <1>0, <1>8, <2>1, <2>2, EndHoldsNone
       DEF CommitTelemetry, Goto, local, Own, HandlerOK, TypeOK
<1>9. ASSUME StageRow(r) PROVE Own(r)'
  <2>1. row[r] \in Rows /\ ev[r] \in Events /\ sid[r] \in Requests
    BY <1>0, <1>9 DEF StageRow, TypeOK, HandlerOK
  <2>2. Staged(row[r], ev[r]) \in Rows
    BY <2>1, StagedIsRow
  <2>3. /\ pc'[r] = "decide" /\ row'[r] = Staged(row[r], ev[r])
        /\ UNCHANGED <<ev, sid, sess, took, sessLock>>
    BY <1>9 DEF StageRow, Goto, tables, locks, TypeOK
  <2>4. HandlerOK(r)'
    BY <1>0, <1>9, <2>1, <2>2, <2>3 DEF StageRow, HandlerOK
  <2>5. ASSUME NEW s \in Requests, sessLock'[s] = r PROVE CopyOK(s)'
    BY <1>0, <1>9, <2>3, <2>5 DEF StageRow, CopyOK, IsActive
  <2> QED
    BY <2>4, <2>5 DEF Own
<1>10. ASSUME Refresh(r) PROVE Own(r)'
  <2>1. \A s \in Requests : sessLock[s] # r
    BY <1>10, HoldersPlaces DEF Refresh
  <2> QED
    BY <1>0, <1>10, <2>1
       DEF Refresh, Goto, tables, locks, Own, HandlerOK, TypeOK
<1>11. ASSUME ReadPrevious(r) PROVE Own(r)'
  <2>1. /\ pc[r] = "decide" /\ pc'[r] = "fill"
        /\ UNCHANGED <<ev, sid, row, sess, took, sessLock, actions>>
    BY <1>11 DEF ReadPrevious, Goto, tables, locks, TypeOK
  <2>2. prev'[r] # None => actions[prev'[r]] # None
    BY <1>11 DEF ReadPrevious, LatestOpen, TypeOK
  <2> QED
    BY <1>0, <2>1, <2>2 DEF Own, HandlerOK, CopyOK, IsActive
<1>12. ASSUME LockPrevious(r) PROVE Own(r)'
  <2>1. /\ pc[r] = "fill" /\ pc'[r] = "commit"
        /\ UNCHANGED <<ev, sid, row, prev, sess, took, sessLock, actions>>
    BY <1>12 DEF LockPrevious, Goto, local, tables, TypeOK
  <2> QED
    BY <1>0, <2>1 DEF Own, HandlerOK, CopyOK, IsActive
<1>13. ASSUME CommitDecision(r) \/ CommitClose(r) PROVE Own(r)'
  <2>1. /\ pc[r] = "commit" /\ pc'[r] \in {"ok", "failed", "models"}
        /\ ev' = ev /\ EndTransaction(r)
    BY <1>13 DEF CommitDecision, CommitClose, Goto, local, TypeOK
  <2> QED
    BY <1>0, <2>1, EndHoldsNone DEF Own, HandlerOK
<1>14. ASSUME UpdateModels(r) \/ LogError(r) PROVE Own(r)'
  <2>1. \A s \in Requests : sessLock[s] # r
    BY <1>14, HoldersPlaces DEF UpdateModels, LogError
  <2> QED
    BY <1>0, <1>14, <2>1
       DEF UpdateModels, LogError, Goto, local, tables, locks, Own, HandlerOK,
           TypeOK
<1>15. ASSUME Abort(r) PROVE Own(r)'
  <2>1. pc[r] \in Running /\ pc'[r] \in {"log", "failed"} /\ ev' = ev
    BY <1>15 DEF Abort, Goto, local, TypeOK
  <2> QED
    BY <1>0, <1>15, <2>1, EndHoldsNone DEF Abort, Own, HandlerOK, Running
<1> QED
  BY <1>1, <1>2, <1>3, <1>4, <1>5, <1>6, <1>7, <1>8, <1>9, <1>10, <1>11,
     <1>12, <1>13, <1>14, <1>15
     DEF Handle

------------------------------------------------------------------------------
(* The invariant. *)

\* A step of a request keeps what all handlers rely on.
LEMMA HandlerStepOK ==
    ASSUME IInv, NEW r \in Requests, Arrive(r) \/ Handle(r) \/ Abort(r)
    PROVE  HandlersOK' /\ CopyIsCurrent'
<1>1. Frame(r) /\ Own(r)'
  BY StepFrame, StepOwn
<1>2. ASSUME NEW q \in Requests PROVE HandlerOK(q)'
  BY <1>1, OthersStayOK DEF Own
<1>3. ASSUME NEW s \in Requests PROVE CopyOK(s)'
  BY <1>1, OthersCopiesStay DEF Own
<1> QED
  BY <1>2, <1>3 DEF HandlersOK, CopyIsCurrent, CopyOK

\* The invariant is inductive.
LEMMA StepOK == IInv /\ [Next]_vars => IInv'
<1> SUFFICES ASSUME IInv, [Next]_vars PROVE IInv'
  OBVIOUS
<1>1. CASE Next
  <2>1. TypeOK'
    BY <1>1, StepTypeOK DEF IInv
  <2>2. HandlersOK' /\ CopyIsCurrent'
    <3>1. ASSUME NEW r \in Requests, Arrive(r) \/ Handle(r) \/ Abort(r)
          PROVE  HandlersOK' /\ CopyIsCurrent'
      BY <3>1, HandlerStepOK
    <3>2. CASE Crash
      <4>1. HandlersOK'
        BY <3>2 DEF Crash, InFlight, local, tables, IInv, TypeOK, HandlersOK,
                    HandlerOK, Running
      <4>2. CopyIsCurrent'
        BY <3>2 DEF Crash, CopyIsCurrent
      <4> QED
        BY <4>1, <4>2
    <3>3. CASE Quiet
      BY <3>3 DEF Quiet, vars, IInv, HandlersOK, HandlerOK, CopyIsCurrent,
                  IsActive
    <3> QED
      BY <1>1, <3>1, <3>2, <3>3 DEF Next, BreakDeadlock
  <2> QED
    BY <2>1, <2>2 DEF IInv
<1>2. CASE UNCHANGED vars
  BY <1>2 DEF vars, IInv, TypeOK, HandlersOK, HandlerOK, CopyIsCurrent,
              IsActive
<1> QED
  BY <1>1, <1>2

\* It holds in every behaviour of the handlers.
LEMMA Invariance == Spec => []IInv
  BY InitOK, StepOK, PTL DEF Spec

(***************************************************************************)
(* However many requests overlap, fail or are lost, the variables and the   *)
(* tables keep their types: a handler never commits an incomplete row, an   *)
(* action without a session, or a NULL in place of a row.                   *)
(***************************************************************************)
THEOREM TypeCorrect == Spec => []TypeOK
  BY Invariance, PTL DEF IInv

(***************************************************************************)
(* Whoever holds the row lock of a session works on the committed row, so   *)
(* the commit of one request never undoes what another one committed.       *)
(***************************************************************************)
THEOREM NoStaleCopy == Spec => []CopyIsCurrent
  BY Invariance, PTL DEF IInv

------------------------------------------------------------------------------
(* The handlers implement the contract. *)

\* The row the contract's operation writes is the one the handler stages.
LEMMA StagedIsContract ==
    ASSUME NEW w \in Rows, NEW e \in Events
    PROVE  /\ e.kind = "connect" => Staged(w, e) = [w EXCEPT !.last = e.time]
           /\ e.kind = "update" => Staged(w, e) = Contract!Reported(w, e)
           /\ e.kind = "disconnect" => Staged(w, e) = Contract!Ended(w, e)
<1>1. e.kind = "connect" => Staged(w, e) = [w EXCEPT !.last = e.time]
  BY DEF Staged, Touched
<1>2. e.kind = "update" => Staged(w, e) = Contract!Reported(w, e)
  <2>1. Charged(w, e) = Contract!Reported(w, e)
    BY DEF Charged, Contract!Reported, Rows
  <2> QED
    BY <2>1 DEF Staged
<1>3. e.kind = "disconnect" => Staged(w, e) = Contract!Ended(w, e)
  <2>1. Closed(w, e) = Contract!Ended(w, e)
    BY DEF Closed, Contract!Ended, Rows
  <2> QED
    BY <2>1 DEF Staged
<1> QED
  BY <1>1, <1>2, <1>3

\* The commit of a lock holder is the contract's operation on its row.
LEMMA CommitIsEffect ==
    ASSUME IInv, NEW r \in Requests, NEW s \in Requests, sessLock[s] = r,
           NEW w, w = Staged(sess[s], ev[r]), InOrder(sess[s], ev[r]),
           sess' = [sess EXCEPT ![s] = w], took' = [took EXCEPT ![r] = s],
           ev' = ev
    PROVE  Contract!Next
<1>1. /\ IsActive(s) /\ took[r] = None /\ ev[r] \in Events
      /\ sess[s] \in Rows
  BY NoneIsFresh DEF IInv, CopyIsCurrent, TypeOK, HandlersOK, HandlerOK,
                     IsActive
<1>2. Contract!TakeEffect(r, s, w) /\ Contract!IsActive(s)
  BY <1>1 DEF Contract!TakeEffect, Contract!IsActive, IsActive
<1>3. Contract!Pending(r, ev[r].kind)
  BY <1>1, EventFields DEF Contract!Pending
<1>4. CASE ev[r].kind = "connect"
  <2>1. Contract!Touch(r, s)
    BY <1>1, <1>2, <1>3, <1>4, StagedIsContract DEF InOrder, Contract!Touch
  <2> QED
    BY <2>1 DEF Contract!Next
<1>5. CASE ev[r].kind = "update"
  <2>1. Contract!Report(r, s)
    BY <1>1, <1>2, <1>3, <1>5, StagedIsContract DEF InOrder, Contract!Report
  <2> QED
    BY <2>1 DEF Contract!Next
<1>6. CASE ev[r].kind = "disconnect"
  <2>1. Contract!Close(r, s)
    BY <1>1, <1>2, <1>3, <1>6, StagedIsContract DEF InOrder, Contract!Close
  <2> QED
    BY <2>1 DEF Contract!Next
<1> QED
  BY <1>1, <1>4, <1>5, <1>6, EventFields DEF Kinds

\* Every step maps to a step of the contract, or to none.
LEMMA StepRefines ==
    ASSUME IInv, Next
    PROVE  [Contract!Next]_Contract!cvars
<1> USE DEF Contract!cvars
<1>1. ASSUME NEW r \in Requests, Arrive(r)
      PROVE  Contract!Next
  <2>1. PICK e \in Events : ev' = [ev EXCEPT ![r] = e]
    BY <1>1 DEF Arrive
  <2>2. ev[r] = None
    BY <1>1 DEF Arrive, IInv, HandlersOK, HandlerOK
  <2>3. Contract!Submit(r, e)
    BY <1>1, <2>1, <2>2 DEF Arrive, tables, Contract!Submit
  <2>4. e \in Contract!Events
    BY DEF Events, Contract!Events
  <2> QED
    BY <2>3, <2>4 DEF Contract!Next
<1>2. ASSUME NEW r \in Requests, CreateSession(r)
      PROVE  Contract!Next
  <2>1. Contract!Open(r)
    BY <1>2 DEF CreateSession, IInv, TypeOK, HandlersOK, HandlerOK, NewRow,
                Contract!Open, Contract!Opened, Contract!Pending,
                Contract!TakeEffect
  <2> QED
    BY <2>1 DEF Contract!Next
<1>3. ASSUME NEW r \in Requests, CommitTelemetry(r)
      PROVE  Contract!Next
  <2>1. /\ sid[r] \in Requests /\ sessLock[sid[r]] = r
        /\ row[r] = sess[sid[r]]
    BY <1>3, NoneIsFresh DEF CommitTelemetry, IInv, HandlersOK, HandlerOK,
                             CopyIsCurrent
  <2> QED
    BY <1>3, <2>1, CommitIsEffect DEF CommitTelemetry, local
<1>4. ASSUME NEW r \in Requests, CommitDecision(r) \/ CommitClose(r)
      PROVE  Contract!Next \/ UNCHANGED Contract!cvars
  <2>1. pc[r] = "commit" /\ PublishRow(r) /\ ev' = ev
    BY <1>4 DEF CommitDecision, CommitClose, local
  <2>2. CASE sessLock[sid[r]] = r
    <3>1. /\ sid[r] \in Requests
          /\ InOrder(sess[sid[r]], ev[r])
          /\ row[r] = Staged(sess[sid[r]], ev[r])
      BY <2>1, <2>2, NoneIsFresh DEF IInv, HandlersOK, HandlerOK,
                                     CopyIsCurrent
    <3> QED
      BY <2>1, <2>2, <3>1, CommitIsEffect DEF PublishRow
  <2>3. CASE sessLock[sid[r]] # r
    BY <2>1, <2>3 DEF PublishRow
  <2> QED
    BY <2>2, <2>3
<1>5. ASSUME NEW r \in Requests,
             \/ LocalStep(r) \/ Refuse(r) \/ LockPrevious(r) \/ Abort(r)
             \/ \E s \in Requests : LockRow(r, s)
      PROVE  UNCHANGED Contract!cvars
  BY <1>5 DEF LocalStep, SelectActive, SkipClosed, NoActive, StageRow, Refresh,
              ReadPrevious, UpdateModels, LogError, Refuse, LockPrevious,
              Abort, LockRow, local, tables
<1>6. CASE Crash \/ Quiet
  BY <1>6 DEF Crash, Quiet, local, tables, vars
<1> QED
  BY <1>1, <1>2, <1>3, <1>4, <1>5, <1>6
     DEF Next, Handle, LocalStep, BreakDeadlock

(***************************************************************************)
(* Serialisation: every behaviour of the handlers is a behaviour of the     *)
(* contract, whatever the requests, their overlap and the failures are.     *)
(***************************************************************************)
THEOREM HandlersImplementContract == Spec => ImplementsContract
<1>1. Init => Contract!Init
  BY DEF Init, Contract!Init
<1>2. IInv /\ [Next]_vars => [Contract!Next]_Contract!cvars
  <2>1. CASE UNCHANGED vars
    BY <2>1 DEF vars, Contract!cvars
  <2> QED
    BY <2>1, StepRefines
<1> QED
  BY <1>1, <1>2, Invariance, PTL DEF Spec, ImplementsContract, Contract!Spec

------------------------------------------------------------------------------
(* What the contract's invariants say of the handlers. *)

\* The two instances of the contract are the same specification.
LEMMA SameContract == Contract!Spec => Safe!Spec
<1>1. Contract!Init => Safe!Init
  BY DEF Contract!Init, Safe!Init
<1>2. [Contract!Next]_Contract!cvars => [Safe!Next]_Safe!cvars
  BY DEF Contract!Next, Contract!cvars, Contract!Events, Contract!Submit,
         Contract!Open, Contract!Touch, Contract!Report, Contract!Close,
         Contract!Pending, Contract!IsActive, Contract!TakeEffect,
         Contract!Opened, Contract!Reported, Contract!Ended,
         Safe!Next, Safe!cvars, Safe!Events, Safe!Submit,
         Safe!Open, Safe!Touch, Safe!Report, Safe!Close,
         Safe!Pending, Safe!IsActive, Safe!TakeEffect,
         Safe!Opened, Safe!Reported, Safe!Ended
<1> QED
  BY <1>1, <1>2, PTL DEF Contract!Spec, Safe!Spec

\* So the contract's invariant holds of the handlers' tables.
LEMMA ContractHolds == Spec => []Safe!Invariant
<1>1. Safe!Spec => []Safe!Invariant
  BY Safe!ContractIsSafe, TimesAreInts, EnergiesAreInts, FullFlagsAreBooleans,
     NoneIsFresh
     DEF Rows, Events, Safe!Rows, Safe!Events
<1> QED
  BY <1>1, SameContract, HandlersImplementContract, PTL DEF ImplementsContract

(***************************************************************************)
(* The rows the handlers commit stay on their timelines: a session starts   *)
(* no later than it ends, and has an end exactly when it is closed.         *)
(***************************************************************************)
THEOREM TimelinesHold == Spec => []TimelineOK
<1>1. Safe!Invariant => TimelineOK
  BY DEF Safe!Invariant, Safe!TimelineOK, Safe!OnTimeline, TimelineOK,
         Contract!TimelineOK, Contract!OnTimeline
<1> QED
  BY <1>1, ContractHolds, PTL

(***************************************************************************)
(* Two reports of energy that took effect on one session have different     *)
(* times, so a report that a client sends again is not counted again.       *)
(***************************************************************************)
THEOREM NoReportTwice == Spec => []ReportsAreDistinct
<1>1. Safe!Invariant => ReportsAreDistinct
  BY DEF Safe!Invariant, Safe!ReportsAreDistinct, Safe!IsReport,
         ReportsAreDistinct, Contract!ReportsAreDistinct, Contract!IsReport
<1> QED
  BY <1>1, ContractHolds, PTL

------------------------------------------------------------------------------
(* What clients are told, and whose decisions are stored.                   *)

\* What r has done so far, at each of its places.
ProgressOK(r) ==
    /\ pc[r] \in {"idle", "select", "lock", "locked", "create", "refused"}
         => took[r] = None
    /\ pc[r] \notin {"ok", "failed", "lost"} => actions[r] = None
    /\ pc[r] \in {"refresh", "decide", "fill", "commit"}
         => sessLock[sid[r]] = r \/ took[r] = sid[r]
    /\ pc[r] \in {"decide", "fill", "commit"} /\ ev[r].kind = "disconnect"
         => sessLock[sid[r]] = r
    /\ pc[r] \in {"refresh", "log", "warned"} /\ ev[r].kind # "connect"
         => took[r] # None
    /\ pc[r] = "refresh" => ev[r].kind # "disconnect"
    /\ pc[r] = "models" => ev[r].kind = "disconnect"
    /\ pc[r] \in {"models", "ok"} => took[r] # None
    /\ pc[r] = "ok" /\ ev[r].kind # "disconnect" => actions[r] # None
    /\ actions[r] # None =>
         /\ took[r] # None /\ actions[r].of = took[r]
         /\ actions[r].time = ev[r].time

RequestsOK == \A r \in Requests : ProgressOK(r)

\* No request has done anything yet.
LEMMA ProgressInit == Init => RequestsOK
  BY DEF Init, RequestsOK, ProgressOK

\* A commit keeps what the actions say of their events, adds at most its own.
ActionsFrame(r) ==
    \A a \in Requests :
        /\ actions[a] # None =>
             /\ actions'[a] # None
             /\ actions'[a].of = actions[a].of
             /\ actions'[a].time = actions[a].time
        /\ actions[a] = None /\ a # r => actions'[a] = None

\* A commit adds the action of its own event, unless that disconnects.
LEMMA PublishedFrame ==
    ASSUME TypeOK, HandlersOK, NEW r \in Requests, pc[r] = "commit",
           actions[r] = None, actions' = Published(r)
    PROVE  /\ ActionsFrame(r)
           /\ ev[r].kind # "disconnect" =>
                /\ actions'[r] # None
                /\ actions'[r].of = sid[r] /\ actions'[r].time = ev[r].time
           /\ ev[r].kind = "disconnect" => actions'[r] = None
<1>1. prev[r] # None => prev[r] \in Requests /\ actions[prev[r]] # None
  BY DEF TypeOK, HandlersOK, HandlerOK
<1>2. prev[r] # r
  BY <1>1, NoneIsFresh
<1>3. \A a \in Requests :
        actions'[a] = IF a = prev[r] THEN Filled(actions[a], r)
                      ELSE IF a = r /\ ev[r].kind # "disconnect"
                             THEN NewAction(r)
                      ELSE actions[a]
  BY DEF Published
<1>4. \A a \in Requests : a = prev[r] =>
        /\ actions'[a] # None
        /\ actions'[a].of = actions[a].of
        /\ actions'[a].time = actions[a].time
  <2> SUFFICES ASSUME NEW a \in Requests, a = prev[r]
               PROVE  /\ actions'[a] # None
                      /\ actions'[a].of = actions[a].of
                      /\ actions'[a].time = actions[a].time
    OBVIOUS
  <2>1. actions[a] # None
    BY <1>1, NoneIsFresh
  <2>2. actions'[a] # None
    BY <2>1, PublishedIsTable
  <2>3. actions[a] \in ActionRows
    BY <2>1 DEF TypeOK
  <2> DEFINE outcome == IF row[r].energy - actions[a].energy > Threshold
                          THEN "charge" ELSE "not_charge"
             span == ev[r].time - actions[a].time
  <2>4. actions'[a] = [actions[a] EXCEPT !.real = outcome, !.span = span]
    BY <1>3 DEF Filled
  <2> HIDE DEF outcome, span
  <2>5. actions'[a].of = actions[a].of /\ actions'[a].time = actions[a].time
    BY <2>3, <2>4 DEF ActionRows
  <2> QED
    BY <2>2, <2>5
<1>5. ev[r].kind # "disconnect" => actions'[r] = NewAction(r)
  BY <1>2, <1>3
<1>6. NewAction(r) # None
  <2>1. /\ sid[r] \in Requests /\ ev[r] \in Events /\ row[r] \in Rows
    BY DEF TypeOK, HandlersOK, HandlerOK
  <2>2. ev[r].time \in Times
    BY <2>1, EventFields
  <2>3. row[r].energy \in Int
    BY <2>1 DEF Rows
  <2>4. NewAction(r) \in ActionRows
    BY <2>1, <2>2, <2>3 DEF NewAction, ActionRows
  <2> QED
    BY <2>4, NoneIsNoAction
<1>7. NewAction(r).of = sid[r] /\ NewAction(r).time = ev[r].time
  BY DEF NewAction
<1>8. ev[r].kind = "disconnect" => actions'[r] = actions[r]
  BY <1>2, <1>3
<1>9. \A a \in Requests : a # prev[r] /\ a # r => actions'[a] = actions[a]
  BY <1>3
<1>10. \A a \in Requests : a = prev[r] => actions[a] # None
  BY <1>1, NoneIsFresh
<1>11. ActionsFrame(r)
  BY <1>4, <1>9, <1>10 DEF ActionsFrame
<1> QED
  BY <1>5, <1>6, <1>7, <1>8, <1>11

\* The others keep their progress.
LEMMA OthersProgress ==
    ASSUME IInv, RequestsOK, NEW r \in Requests, Frame(r),
           ActionsFrame(r), NEW q \in Requests, q # r
    PROVE  ProgressOK(q)'
<1>1. /\ pc'[q] = pc[q] /\ ev'[q] = ev[q] /\ sid'[q] = sid[q]
      /\ took'[q] = took[q]
  BY DEF Frame
<1>2. pc[q] \in {"refresh", "decide", "fill", "commit"} => sid[q] \in Requests
  BY DEF IInv, HandlersOK, HandlerOK
<1>3. \A s \in Requests : sessLock[s] = q => sessLock'[s] = q
  BY NoneIsFresh DEF Frame
<1>4. /\ actions[q] = None => actions'[q] = None
      /\ actions[q] # None => /\ actions'[q] # None
                              /\ actions'[q].of = actions[q].of
                              /\ actions'[q].time = actions[q].time
  BY DEF ActionsFrame
<1> QED
  BY <1>1, <1>2, <1>3, <1>4 DEF RequestsOK, ProgressOK

\* A step of r reaches a place only with what r must have done by then.
LEMMA StepProgress ==
    ASSUME IInv, RequestsOK, NEW r \in Requests,
           Arrive(r) \/ Handle(r) \/ Abort(r)
    PROVE  ActionsFrame(r) /\ ProgressOK(r)'
<1> USE NoneIsFresh DEF IInv
<1>0. ProgressOK(r) /\ HandlerOK(r)
  BY DEF RequestsOK, HandlersOK
<1>1. ASSUME UNCHANGED actions PROVE ActionsFrame(r)
  BY <1>1 DEF ActionsFrame
<1>2. ASSUME Arrive(r) PROVE ActionsFrame(r) /\ ProgressOK(r)'
  BY <1>0, <1>1, <1>2 DEF Arrive, Goto, tables, locks, ProgressOK, TypeOK
<1>3. ASSUME LocalStep(r) PROVE ActionsFrame(r) /\ ProgressOK(r)'
  BY <1>0, <1>1, <1>3
     DEF LocalStep, SelectActive, NoActive, StageRow, Refresh, ReadPrevious,
         UpdateModels, LogError, SkipClosed, Goto, local, tables, locks,
         ProgressOK, HandlerOK, TypeOK
<1>4. ASSUME NEW s \in Requests, LockRow(r, s)
      PROVE  ActionsFrame(r) /\ ProgressOK(r)'
  BY <1>0, <1>1, <1>4 DEF LockRow, Goto, tables, ProgressOK, TypeOK
<1>5. ASSUME Refuse(r) PROVE ActionsFrame(r) /\ ProgressOK(r)'
  BY <1>0, <1>1, <1>5 DEF Refuse, Goto, local, tables, ProgressOK, TypeOK
<1>6. ASSUME CreateSession(r) PROVE ActionsFrame(r) /\ ProgressOK(r)'
  BY <1>0, <1>1, <1>6
     DEF CreateSession, Goto, locks, ProgressOK, HandlerOK, TypeOK
<1>7. ASSUME CommitTelemetry(r) PROVE ActionsFrame(r) /\ ProgressOK(r)'
  <2>1. sid[r] \in Requests
    BY <1>0, <1>7 DEF CommitTelemetry, HandlerOK
  <2> QED
    BY <1>0, <1>1, <1>7, <2>1
       DEF CommitTelemetry, Goto, local, ProgressOK, TypeOK
<1>8. ASSUME LockPrevious(r) PROVE ActionsFrame(r) /\ ProgressOK(r)'
  BY <1>0, <1>1, <1>8
     DEF LockPrevious, Goto, local, tables, ProgressOK, TypeOK
<1>9. ASSUME CommitDecision(r) \/ CommitClose(r)
      PROVE  ActionsFrame(r) /\ ProgressOK(r)'
  <2>1. /\ pc[r] = "commit" /\ actions' = Published(r) /\ PublishRow(r)
        /\ actions[r] = None /\ ev' = ev /\ sid[r] \in Requests
    BY <1>0, <1>9
       DEF CommitDecision, CommitClose, local, ProgressOK, HandlerOK
  <2>2. /\ ActionsFrame(r)
        /\ ev[r].kind # "disconnect" =>
             /\ actions'[r] # None
             /\ actions'[r].of = sid[r] /\ actions'[r].time = ev[r].time
        /\ ev[r].kind = "disconnect" => actions'[r] = None
    BY <2>1, PublishedFrame
  <2>3. took'[r] = sid[r]
    BY <1>0, <2>1 DEF PublishRow, ProgressOK, TypeOK
  <2>4. IF ev[r].kind = "disconnect" THEN pc'[r] = "models"
                                     ELSE pc'[r] \in {"ok", "failed"}
    BY <1>9 DEF CommitDecision, CommitClose, Goto, TypeOK
  <2>5. sid[r] # None
    BY <2>1
  <2> QED
    BY <2>1, <2>2, <2>3, <2>4, <2>5 DEF ProgressOK
<1>10. ASSUME Abort(r) PROVE ActionsFrame(r) /\ ProgressOK(r)'
  <2>1. /\ pc[r] \in Running \ {"log"}
        /\ ev' = ev /\ took' = took /\ actions' = actions
        /\ pc'[r] \in {"log", "failed"}
        /\ pc'[r] = "log" => IsSoft(r)
    BY <1>10 DEF Abort, Goto, local, tables, TypeOK
  <2>2. pc[r] = "models" /\ ev[r].kind # "connect" => took[r] # None
    BY <1>0 DEF ProgressOK
  <2>3. pc[r] \in {"decide", "fill", "commit"} =>
          (ev[r].kind \notin {"connect", "disconnect"} => took[r] # None)
    <3> SUFFICES ASSUME pc[r] \in {"decide", "fill", "commit"},
                        ev[r].kind \notin {"connect", "disconnect"}
                 PROVE  took[r] # None
      OBVIOUS
    <3>1. sid[r] \in Requests /\ ev[r] \in Events
      BY <1>0 DEF HandlerOK, TypeOK
    <3>2. ev[r].kind = "update"
      BY <3>1, EventFields DEF Kinds
    <3>3. sessLock[sid[r]] # r
      BY <3>1, <3>2 DEF CopyIsCurrent
    <3> QED
      BY <1>0, <3>1, <3>3 DEF ProgressOK
  <2> QED
    BY <1>0, <1>1, <2>1, <2>2, <2>3 DEF IsSoft, ProgressOK
<1> QED
  BY <1>2, <1>3, <1>4, <1>5, <1>6, <1>7, <1>8, <1>9, <1>10
     DEF Handle, LocalStep

\* Progress is kept by every step.
LEMMA ProgressStep ==
    IInv /\ RequestsOK /\ [Next]_vars => RequestsOK'
<1> SUFFICES ASSUME IInv, RequestsOK, [Next]_vars
             PROVE  RequestsOK'
  OBVIOUS
<1>1. ASSUME NEW r \in Requests, Arrive(r) \/ Handle(r) \/ Abort(r)
      PROVE  RequestsOK'
  <2>1. Frame(r) /\ ActionsFrame(r) /\ ProgressOK(r)'
    BY <1>1, StepFrame, StepProgress
  <2>2. ASSUME NEW q \in Requests PROVE ProgressOK(q)'
    BY <2>1, OthersProgress
  <2> QED
    BY <2>2 DEF RequestsOK
<1>2. CASE Crash
  BY <1>2 DEF Crash, InFlight, local, tables, IInv, TypeOK, RequestsOK,
              ProgressOK, Running
<1>3. CASE UNCHANGED vars
  BY <1>3 DEF vars, RequestsOK, ProgressOK
<1> QED
  BY <1>1, <1>2, <1>3 DEF Next, BreakDeadlock, Quiet

\* So it holds in every behaviour of the handlers.
LEMMA ProgressHolds == Spec => []RequestsOK
  BY ProgressInit, ProgressStep, Invariance, PTL DEF Spec

(***************************************************************************)
(* The answers of the endpoints are true, whatever fails and whoever        *)
(* overlaps: "ok" means stored, a warning to an update or a disconnection   *)
(* means stored without the rest, and a refusal means nothing is stored.    *)
(***************************************************************************)
THEOREM TrueAnswers == Spec => []AnswersAreTrue
<1>1. IInv /\ RequestsOK => AnswersAreTrue
  BY DEF RequestsOK, ProgressOK, AnswersAreTrue
<1> QED
  BY <1>1, Invariance, ProgressHolds, PTL

(***************************************************************************)
(* Every stored decision belongs to an event that took effect on the same   *)
(* session, and lies on that session's timeline.                            *)
(***************************************************************************)
THEOREM DecisionsHaveEvents == Spec => []ActionsHaveEvents
<1>1. RequestsOK /\ Safe!Invariant => ActionsHaveEvents
  BY DEF RequestsOK, ProgressOK, Safe!Invariant, Safe!EventsOnTimeline,
         ActionsHaveEvents
<1> QED
  BY <1>1, ProgressHolds, ContractHolds, PTL

------------------------------------------------------------------------------
(***************************************************************************)
(* Requests one at a time, with any failures and crashes in between. What   *)
(* the only running request may rely on at each of its places.              *)
(***************************************************************************)
Alone == \A q, r \in InFlight : q = r

IsOpen(a, s) ==
    actions[a] # None /\ actions[a].of = s /\ actions[a].real = None

SerialAt(r) ==
    /\ pc[r] = "lock" => \A s \in Requests : IsActive(s) => s \in cand[r]
    /\ pc[r] = "create" => \A s \in Requests : ~IsActive(s)
    /\ pc[r] \in {"refresh", "decide", "fill", "commit"} =>
         IsActive(sid[r]) /\ sess[sid[r]].last <= ev[r].time
    /\ pc[r] \in {"fill", "commit"} =>
         /\ \A a \in Requests : IsOpen(a, sid[r]) => a = prev[r]
         /\ prev[r] # None => IsOpen(prev[r], sid[r])

\* A session has at most one action without an outcome.
OneOpenAction ==
    \A a, b, s \in Requests : IsOpen(a, s) /\ IsOpen(b, s) => a = b

SerialOK ==
    /\ Alone /\ OneActiveSession /\ ClosedIsFilled /\ FilledForward
    /\ OneOpenAction
    /\ \A r \in Requests : SerialAt(r)

\* While r runs, nobody else does.
LEMMA AloneStays ==
    ASSUME IInv, SerialOK, NEW r \in Requests, Handle(r) \/ Abort(r)
    PROVE  /\ Alone'
           /\ \A q \in Requests \ {r} : SerialAt(q)'
<1>1. pc[r] \in Running
  BY DEF Handle, SelectActive, SkipClosed, LockRow, NoActive, Refuse,
         CreateSession, CommitTelemetry, StageRow, Refresh, ReadPrevious,
         LockPrevious, CommitDecision, CommitClose, UpdateModels, LogError,
         Abort, Running
<1>2. \A q \in Requests \ {r} : pc'[q] = pc[q]
  BY StepFrame DEF Frame
<1>3. \A q \in Requests \ {r} : pc[q] \notin Running
  BY <1>1 DEF SerialOK, Alone, InFlight
<1> QED
  BY <1>2, <1>3 DEF Alone, InFlight, SerialAt, Running

\* What is said of the tables stays true while they do not change.
Tables == OneActiveSession /\ ClosedIsFilled /\ FilledForward /\ OneOpenAction

LEMMA TablesStay ==
    ASSUME SerialOK, sess' = sess, actions' = actions
    PROVE  Tables'
  BY DEF SerialOK, Tables, OneActiveSession, ClosedIsFilled, FilledForward,
         OneOpenAction, IsOpen, IsActive

\* A step of r that writes no table.
LEMMA SerialLocalStep ==
    ASSUME IInv, RequestsOK, SerialOK, NEW r \in Requests,
           \/ LocalStep(r) \/ \E s \in Requests : LockRow(r, s)
           \/ Refuse(r) \/ LockPrevious(r) \/ Abort(r)
    PROVE  Tables' /\ SerialAt(r)'
<1>1. sess' = sess /\ actions' = actions
  BY DEF LocalStep, SelectActive, NoActive, StageRow, Refresh, ReadPrevious,
         UpdateModels, LogError, SkipClosed, LockRow, Refuse, LockPrevious,
         Abort, tables, local
<1>2. Tables'
  BY <1>1, TablesStay
<1>3. SUFFICES SerialAt(r)'
  BY <1>2
<1>4. SerialAt(r) /\ TypeOK /\ HandlerOK(r)
  BY DEF SerialOK, IInv, HandlersOK
<1>5. /\ cand \in [Requests -> SUBSET Requests]
      /\ pc \in [Requests -> {"idle"} \cup Running \cup Answered]
      /\ sid \in [Requests -> Requests \cup {None}]
      /\ row \in [Requests -> Rows \cup {None}]
  BY <1>4 DEF TypeOK
<1>6. ASSUME pc'[r] \notin {"lock", "create", "refresh", "decide", "fill",
                            "commit"}
      PROVE  SerialAt(r)'
  BY <1>6 DEF SerialAt
<1>7. CASE SelectActive(r)
  <2>1. /\ pc'[r] = "lock"
        /\ cand'[r] = {s \in Requests : IsActive(s)}
    BY <1>5, <1>7 DEF SelectActive, Goto
  <2>2. \A s \in Requests : s \in cand'[r] <=> IsActive(s)
    BY <2>1
  <2> QED
    BY <1>1, <2>1, <2>2 DEF SerialAt, IsActive
<1>8. CASE UpdateModels(r) \/ LogError(r) \/ Refuse(r) \/ Abort(r)
  <2>1. pc'[r] \in {"ok", "warned", "failed", "refused", "log"}
    BY <1>5, <1>8 DEF UpdateModels, LogError, Refuse, Abort, Goto
  <2> QED
    BY <1>6, <2>1
<1>9. CASE NoActive(r)
  <2>1. /\ pc[r] = "lock" /\ cand[r] = {}
        /\ pc'[r] = "create" \/ pc'[r] = "refused"
    BY <1>5, <1>9 DEF NoActive, Goto
  <2>2. \A s \in Requests : ~IsActive(s)
    BY <1>4, <2>1 DEF SerialAt
  <2> QED
    BY <1>1, <2>1, <2>2 DEF SerialAt, IsActive
<1>10. ASSUME NEW t \in Requests, SkipClosed(r, t) PROVE SerialAt(r)'
  <2>1. /\ pc[r] = "lock" /\ pc'[r] = "lock" /\ ~IsActive(t)
        /\ cand'[r] = cand[r] \ {t}
    BY <1>5, <1>10 DEF SkipClosed
  <2>2. \A s \in Requests : IsActive(s) => s \in cand'[r]
    BY <1>4, <2>1 DEF SerialAt
  <2> QED
    BY <1>1, <2>1, <2>2 DEF SerialAt, IsActive
<1>11. ASSUME NEW s \in Requests, LockRow(r, s) PROVE SerialAt(r)'
  <2>1. pc'[r] = "locked"
    BY <1>5, <1>11 DEF LockRow, Goto
  <2> QED
    BY <1>6, <2>1
<1>12. CASE StageRow(r)
  <2>1. /\ pc'[r] = "decide" /\ sid'[r] = sid[r] /\ ev'[r] = ev[r]
        /\ pc[r] = "locked" /\ InOrder(row[r], ev[r])
    BY <1>5, <1>12 DEF StageRow, Goto
  <2>2. sid[r] \in Requests /\ IsActive(sid[r]) /\ row[r] = sess[sid[r]]
    BY <1>4, <2>1, NoneIsFresh DEF HandlerOK, IInv, CopyIsCurrent
  <2>3. row[r].last <= ev[r].time
    <3>1. row[r].last \in Int /\ ev[r].time \in Int
      BY <1>4, <2>1, TimesAreInts, EventFields
         DEF HandlerOK, TypeOK, Rows
    <3> QED
      BY <2>1, <3>1 DEF InOrder
  <2> QED
    BY <1>1, <2>1, <2>2, <2>3 DEF SerialAt, IsActive
<1>13. CASE Refresh(r)
  <2>1. /\ pc'[r] = "decide" /\ sid'[r] = sid[r] /\ ev'[r] = ev[r]
        /\ pc[r] = "refresh"
    BY <1>5, <1>13 DEF Refresh, Goto
  <2>2. IsActive(sid[r]) /\ sess[sid[r]].last <= ev[r].time
    BY <1>4, <2>1 DEF SerialAt
  <2> QED
    BY <1>1, <2>1, <2>2 DEF SerialAt, IsActive
<1>14. CASE ReadPrevious(r)
  <2>1. /\ pc'[r] = "fill" /\ sid'[r] = sid[r] /\ ev'[r] = ev[r]
        /\ pc[r] = "decide" /\ sid[r] \in Requests
    BY <1>4, <1>14 DEF ReadPrevious, Goto, TypeOK, HandlerOK
  <2>2. \A a \in Requests : IsOpen(a, sid[r]) => a \in LatestOpen(sid[r])
    <3>1. ASSUME NEW a \in Requests, IsOpen(a, sid[r]),
                 NEW b \in Requests, IsOpen(b, sid[r])
          PROVE  actions[b].time <= actions[a].time
      <4>1. a = b
        BY <2>1, <3>1 DEF SerialOK, OneOpenAction
      <4>2. actions[a].time \in Int
        BY <1>4, <3>1, TimesAreInts DEF TypeOK, ActionRows, IsOpen
      <4> QED
        BY <4>1, <4>2
    <3> QED
      BY <3>1 DEF LatestOpen, IsOpen
  <2>3. \A a \in LatestOpen(sid[r]) : a \in Requests /\ IsOpen(a, sid[r])
    BY DEF LatestOpen, IsOpen
  <2>4. \/ prev'[r] \in LatestOpen(sid[r])
        \/ LatestOpen(sid[r]) = {} /\ prev'[r] = None
    BY <1>14 DEF ReadPrevious, IInv, TypeOK
  <2>5. \A a \in Requests : IsOpen(a, sid[r]) => a = prev'[r]
    BY <2>1, <2>2, <2>3, <2>4 DEF SerialOK, OneOpenAction
  <2>6. prev'[r] # None => prev'[r] \in Requests /\ IsOpen(prev'[r], sid[r])
    BY <2>3, <2>4
  <2>7. IsActive(sid[r]) /\ sess[sid[r]].last <= ev[r].time
    BY <1>4, <2>1 DEF SerialAt
  <2> QED
    BY <1>1, <2>1, <2>5, <2>6, <2>7 DEF SerialAt, IsActive, IsOpen
<1>15. CASE LockPrevious(r)
  <2>1. /\ pc'[r] = "commit" /\ pc[r] = "fill"
        /\ sid' = sid /\ ev' = ev /\ prev' = prev
    BY <1>5, <1>15 DEF LockPrevious, Goto, local
  <2>2. /\ IsActive(sid[r]) /\ sess[sid[r]].last <= ev[r].time
        /\ \A a \in Requests : IsOpen(a, sid[r]) => a = prev[r]
        /\ prev[r] # None => IsOpen(prev[r], sid[r])
    BY <1>4, <2>1 DEF SerialAt
  <2> QED
    BY <1>1, <2>1, <2>2 DEF SerialAt, IsActive, IsOpen
<1> QED
  BY <1>7, <1>8, <1>9, <1>10, <1>11, <1>12, <1>13, <1>14, <1>15
     DEF LocalStep

\* The first commits of a session and of an update.
LEMMA SerialFirstCommit ==
    ASSUME IInv, RequestsOK, SerialOK, NEW r \in Requests,
           CreateSession(r) \/ CommitTelemetry(r)
    PROVE  Tables' /\ SerialAt(r)'
<1>1. actions' = actions /\ pc'[r] = "refresh" /\ ev' = ev
  BY DEF CreateSession, CommitTelemetry, Goto, local, IInv, TypeOK
<1>2. SerialAt(r) /\ TypeOK /\ HandlerOK(r)
  BY DEF SerialOK, IInv, HandlersOK
<1>3. ev[r] \in Events => ev[r].time \in Int
  BY EventFields
<1>4. CASE CreateSession(r)
  <2>1. /\ \A s \in Requests : ~IsActive(s)
        /\ sess' = [sess EXCEPT ![r] = NewRow(ev[r])] /\ sid'[r] = r
        /\ ev[r] \in Events
    BY <1>2, <1>4 DEF CreateSession, SerialAt, TypeOK, HandlerOK
  <2>2. /\ NewRow(ev[r]) # None /\ NewRow(ev[r]).active
        /\ NewRow(ev[r]).last = ev[r].time
    BY <2>1, NewRowIsRow, NoneIsFresh DEF NewRow
  <2>3. /\ \A s \in Requests : IsActive(s)' <=> s = r
        /\ sess'[r].last = ev[r].time
    BY <1>2, <2>1, <2>2 DEF IsActive, TypeOK
  <2>4. SerialAt(r)'
    BY <1>1, <1>3, <2>1, <2>3 DEF SerialAt
  <2>5. OneActiveSession' /\ FilledForward' /\ OneOpenAction'
    BY <1>1, <2>3 DEF OneActiveSession, FilledForward, OneOpenAction, IsOpen,
                      SerialOK
  <2>6. ClosedIsFilled'
    <3>1. \A a \in Requests : actions[a] # None => actions[a].of \in Requests
      BY <1>2 DEF TypeOK, ActionRows
    <3> QED
      BY <1>1, <2>1, <3>1 DEF ClosedIsFilled, SerialOK
  <2> QED
    BY <2>4, <2>5, <2>6 DEF Tables
<1>5. CASE CommitTelemetry(r)
  <2>1. /\ pc[r] = "locked" /\ ev[r].kind = "update" /\ sid' = sid
        /\ sid[r] \in Requests /\ ev[r] \in Events
        /\ sess' = [sess EXCEPT ![sid[r]] = Staged(row[r], ev[r])]
    BY <1>2, <1>5 DEF CommitTelemetry, local, TypeOK, HandlerOK
  <2>2. IsActive(sid[r]) /\ row[r] = sess[sid[r]] /\ row[r] \in Rows
    BY <1>2, <2>1, NoneIsFresh DEF HandlerOK, IInv, CopyIsCurrent
  <2>3. /\ Staged(row[r], ev[r]) # None /\ Staged(row[r], ev[r]).active
        /\ Staged(row[r], ev[r]).last = ev[r].time
    <3>1. Staged(row[r], ev[r]) = Charged(row[r], ev[r])
      BY <2>1 DEF Staged
    <3>2. Charged(row[r], ev[r]).active = row[r].active
      BY <2>2 DEF Charged, Rows
    <3>3. Charged(row[r], ev[r]).last = ev[r].time
      BY <2>2 DEF Charged, Rows
    <3> QED
      BY <2>1, <2>2, <3>1, <3>2, <3>3, StagedIsRow, NoneIsFresh DEF IsActive
  <2>4. /\ \A s \in Requests : IsActive(s)' <=> IsActive(s)
        /\ sess'[sid[r]].last = ev[r].time
    BY <1>2, <2>1, <2>2, <2>3 DEF IsActive, TypeOK
  <2>5. SerialAt(r)'
    BY <1>1, <1>3, <2>1, <2>2, <2>4 DEF SerialAt
  <2>6. \A a \in Requests : actions[a] # None => actions[a].of \in Requests
    BY <1>2 DEF TypeOK, ActionRows
  <2>7. Tables'
    BY <1>1, <2>4, <2>6 DEF Tables, OneActiveSession, FilledForward,
       OneOpenAction, ClosedIsFilled, IsOpen, SerialOK
  <2> QED
    BY <2>5, <2>7
<1> QED
  BY <1>4, <1>5

\* The COMMIT of a decision or of a closing: it fills the open action, adds
\* the new one of a decision, and closes the session with the filling.
LEMMA SerialLastCommit ==
    ASSUME IInv, RequestsOK, SerialOK, ActionsHaveEvents, NEW r \in Requests,
           CommitDecision(r) \/ CommitClose(r)
    PROVE  Tables' /\ SerialAt(r)'
<1>1. /\ pc[r] = "commit" /\ actions' = Published(r) /\ PublishRow(r)
      /\ pc'[r] \in {"ok", "failed", "models"}
  BY DEF CommitDecision, CommitClose, Goto, IInv, TypeOK
<1>2. /\ TypeOK /\ HandlersOK /\ HandlerOK(r) /\ SerialAt(r)
  BY DEF SerialOK, IInv, HandlersOK
<1>3. /\ sid[r] \in Requests /\ row[r] \in Rows /\ ev[r] \in Events
      /\ prev[r] \in Requests \cup {None}
  BY <1>1, <1>2 DEF HandlerOK, TypeOK
<1>4. /\ IsActive(sid[r]) /\ sess[sid[r]].last <= ev[r].time
      /\ \A a \in Requests : IsOpen(a, sid[r]) => a = prev[r]
      /\ prev[r] # None => IsOpen(prev[r], sid[r])
  BY <1>1, <1>2 DEF SerialAt
<1>5. /\ actions[r] = None
      /\ ev[r].kind = "disconnect" => sessLock[sid[r]] = r
  BY <1>1 DEF RequestsOK, ProgressOK
<1>6. /\ \A s \in Requests \ {sid[r]} : sess'[s] = sess[s]
      /\ ev[r].kind # "disconnect" => IsActive(sid[r])'
  <2>1. CASE sessLock[sid[r]] = r
    <3>1. /\ sess' = [sess EXCEPT ![sid[r]] = row[r]]
          /\ ev[r].kind # "update"
          /\ row[r] = Staged(sess[sid[r]], ev[r])
      BY <1>1, <1>3, <2>1, NoneIsFresh DEF PublishRow, IInv, CopyIsCurrent
    <3>2. sess'[sid[r]] = row[r] /\ row[r] # None
      BY <1>2, <1>3, <3>1, NoneIsFresh DEF TypeOK
    <3>3. ASSUME ev[r].kind # "disconnect" PROVE row[r].active
      <4>1. ev[r].kind = "connect"
        BY <1>3, <3>1, <3>3, EventFields DEF Kinds
      <4>2. row[r] = Touched(sess[sid[r]], ev[r])
        BY <3>1, <4>1 DEF Staged
      <4>3. sess[sid[r]] \in Rows
        BY <1>2, <1>3, <1>4 DEF TypeOK, IsActive
      <4> QED
        BY <1>4, <4>2, <4>3 DEF Touched, Rows, IsActive
    <3>4. \A s \in Requests \ {sid[r]} : sess'[s] = sess[s]
      BY <1>2, <1>3, <3>1 DEF TypeOK
    <3>5. \A s \in Requests : sid'[s] = sid[s]
      BY DEF CommitDecision, CommitClose, local
    <3> QED
      BY <1>3, <3>2, <3>3, <3>4, <3>5 DEF IsActive
  <2>2. CASE sessLock[sid[r]] # r
    <3>1. sess' = sess /\ sid' = sid
      BY <1>1, <2>2 DEF PublishRow, CommitDecision, CommitClose, local
    <3> QED
      BY <1>4, <3>1 DEF IsActive
  <2> QED
    BY <2>1, <2>2
<1>7. sid' = sid /\ ev' = ev
  BY DEF CommitDecision, CommitClose, local
<1>8. \A s \in Requests \ {sid[r]} :
        (sess'[s] # None /\ sess'[s].active) <=> IsActive(s)
  BY <1>6 DEF IsActive
<1>9. \A a \in Requests :
        /\ a = prev[r] => /\ actions'[a] = Filled(actions[a], r)
                          /\ actions[a] \in ActionRows
                          /\ actions[a].of = sid[r]
        /\ a # prev[r] /\ a = r /\ ev[r].kind # "disconnect"
             => actions'[a] = NewAction(r)
        /\ a # prev[r] /\ (a # r \/ ev[r].kind = "disconnect")
             => actions'[a] = actions[a]
  BY <1>1, <1>2, <1>3, <1>4, NoneIsFresh DEF Published, TypeOK, IsOpen
<1>10. \A a \in Requests :
         a = prev[r] => /\ actions'[a] # None
                        /\ actions'[a].of = sid[r]
                        /\ actions'[a].real # None
                        /\ actions'[a].span >= 0
  <2>1. ASSUME NEW a \in Requests, a = prev[r]
        PROVE  /\ Filled(actions[a], r).of = sid[r]
               /\ Filled(actions[a], r).real \in Outcomes
               /\ Filled(actions[a], r).span = ev[r].time - actions[a].time
    BY <1>9, <2>1 DEF Filled, ActionRows, Outcomes
  <2>2. ASSUME NEW a \in Requests, a = prev[r]
        PROVE  ev[r].time - actions[a].time >= 0
    <3>1. /\ actions[a].time <= sess[sid[r]].last
          /\ actions[a].time \in Int
      <4>1. actions[a] \in ActionRows /\ actions[a].of = sid[r]
        BY <1>9, <2>2
      <4>2. actions[a] # None
        BY <4>1, NoneIsNoAction
      <4>3. actions[a].time <= sess[sid[r]].last
        BY <4>1, <4>2 DEF ActionsHaveEvents
      <4>4. actions[a].time \in Int
        BY <4>1, TimesAreInts DEF ActionRows
      <4> QED
        BY <4>3, <4>4
    <3>2. sess[sid[r]].last \in Int /\ ev[r].time \in Int
      BY <1>2, <1>3, <1>4, TimesAreInts, EventFields DEF TypeOK, IsActive, Rows
    <3> QED
      BY <1>4, <3>1, <3>2
  <2>3. Published(r) \in [Requests -> ActionRows \cup {None}]
    BY <1>1, <1>2, PublishedIsTable
  <2>4. \A a \in Requests : a = prev[r] => actions'[a] # None
    BY <1>1, <1>2, <1>9, PublishedIsTable, NoneIsNoAction
  <2>5. None \notin Outcomes
    BY NoneIsNoAction
  <2> QED
    BY <1>9, <2>1, <2>2, <2>4, <2>5
<1>11. ASSUME ev[r].kind # "disconnect", r # prev[r]
       PROVE  actions'[r] # None /\ actions'[r].of = sid[r]
              /\ actions'[r].real = None
  <2>1. actions'[r] = NewAction(r) /\ actions'[r] # None
    <3>1. Published(r) \in [Requests -> ActionRows \cup {None}]
      BY <1>1, <1>2, PublishedIsTable
    <3>2. NewAction(r) \in ActionRows
      BY <1>3, EventFields DEF NewAction, ActionRows, Rows
    <3> QED
      BY <1>9, <1>11, <3>2, NoneIsNoAction
  <2> QED
    BY <2>1 DEF NewAction
<1>12. OneActiveSession'
  BY <1>3, <1>4, <1>8 DEF OneActiveSession, SerialOK, IsActive
<1>13. FilledForward'
  <2>1. ASSUME NEW a \in Requests, actions'[a] # None, actions'[a].real # None
        PROVE  actions'[a].span >= 0
    <3>1. CASE a = prev[r]
      BY <1>10, <3>1
    <3>2. CASE a # prev[r] /\ a = r /\ ev[r].kind # "disconnect"
      BY <1>11, <2>1, <3>2
    <3>3. CASE a # prev[r] /\ (a # r \/ ev[r].kind = "disconnect")
      BY <1>9, <2>1, <3>3 DEF SerialOK, FilledForward
    <3> QED
      BY <3>1, <3>2, <3>3
  <2> QED
    BY <2>1 DEF FilledForward
<1>14. ClosedIsFilled'
  <2>1. ASSUME NEW a \in Requests, actions'[a] # None,
               ~(sess'[actions'[a].of] # None /\ sess'[actions'[a].of].active)
        PROVE  actions'[a].real # None
    <3>1. CASE a = prev[r]
      BY <1>10, <3>1
    <3>2. CASE a # prev[r] /\ a = r /\ ev[r].kind # "disconnect"
      BY <1>6, <1>7, <1>11, <2>1, <3>2 DEF IsActive
    <3>3. CASE a # prev[r] /\ (a # r \/ ev[r].kind = "disconnect")
      <4>1. actions'[a] = actions[a] /\ actions[a].of \in Requests
        BY <1>2, <1>9, <2>1, <3>3 DEF TypeOK, ActionRows
      <4>2. CASE actions[a].of = sid[r]
        BY <1>4, <2>1, <3>3, <4>1, <4>2 DEF IsOpen
      <4>3. CASE actions[a].of # sid[r]
        BY <1>8, <2>1, <4>1, <4>3 DEF SerialOK, ClosedIsFilled
      <4> QED
        BY <4>2, <4>3
    <3> QED
      BY <3>1, <3>2, <3>3
  <2> QED
    BY <2>1 DEF ClosedIsFilled, IsActive
<1>15. OneOpenAction'
  <2>1. ASSUME NEW a \in Requests, NEW s \in Requests,
               actions'[a] # None, actions'[a].of = s, actions'[a].real = None
        PROVE  \/ a = r /\ s = sid[r]
               \/ IsOpen(a, s) /\ s # sid[r]
    <3>1. a # prev[r]
      BY <1>10, <2>1
    <3>2. CASE a = r /\ ev[r].kind # "disconnect"
      BY <1>11, <2>1, <3>1, <3>2
    <3>3. CASE a # r \/ ev[r].kind = "disconnect"
      BY <1>4, <1>9, <2>1, <3>1, <3>3 DEF IsOpen
    <3> QED
      BY <3>2, <3>3
  <2> QED
    BY <2>1 DEF OneOpenAction, SerialOK, IsOpen
<1>16. SerialAt(r)'
  BY <1>1 DEF SerialAt
<1> QED
  BY <1>12, <1>13, <1>14, <1>15, <1>16 DEF Tables

\* With room for one request, a request arrives at an empty server.
LEMMA ArriveAlone ==
    ASSUME MaxInFlight = 1, IInv, SerialOK, NEW r \in Requests, Arrive(r)
    PROVE  SerialOK'
<1>1. InFlight = {}
  <2>1. CASE \E q \in InFlight : TRUE
    <3>1. PICK q \in InFlight : TRUE
      BY <2>1
    <3>2. InFlight = {q}
      BY <3>1 DEF SerialOK, Alone
    <3>3. Cardinality(InFlight) = 1
      BY <3>2, FS_Singleton
    <3> QED
      BY <3>3 DEF Arrive
  <2> QED
    BY <2>1
<1>2. \A q \in Requests : pc[q] \notin Running
  BY <1>1 DEF InFlight
<1>3. /\ \A q \in Requests \ {r} : pc'[q] = pc[q]
      /\ pc'[r] = "select" /\ sess' = sess /\ actions' = actions
  BY DEF Arrive, Goto, tables, IInv, TypeOK
<1>4. Alone'
  BY <1>2, <1>3 DEF Alone, InFlight
<1>5. \A q \in Requests : SerialAt(q)'
  BY <1>2, <1>3 DEF SerialAt, Running
<1>6. Tables'
  BY <1>3, TablesStay
<1> QED
  BY <1>4, <1>5, <1>6 DEF SerialOK, Tables

\* The invariant of requests one at a time is inductive.
LEMMA SerialStep ==
    ASSUME MaxInFlight = 1
    PROVE  /\ IInv /\ RequestsOK /\ ActionsHaveEvents /\ SerialOK
           /\ [Next]_vars
           => SerialOK'
<1> SUFFICES ASSUME IInv, RequestsOK, ActionsHaveEvents, SerialOK, [Next]_vars
             PROVE  SerialOK'
  OBVIOUS
<1>1. ASSUME NEW r \in Requests, Handle(r) \/ Abort(r) PROVE SerialOK'
  <2>1. Alone' /\ \A q \in Requests \ {r} : SerialAt(q)'
    BY <1>1, AloneStays
  <2>2. CASE CreateSession(r) \/ CommitTelemetry(r)
    BY <2>1, <2>2, SerialFirstCommit DEF SerialOK, Tables
  <2>3. CASE CommitDecision(r) \/ CommitClose(r)
    BY <2>1, <2>3, SerialLastCommit DEF SerialOK, Tables
  <2>4. CASE \/ LocalStep(r) \/ \E s \in Requests : LockRow(r, s)
             \/ Refuse(r) \/ LockPrevious(r) \/ Abort(r)
    BY <2>1, <2>4, SerialLocalStep DEF SerialOK, Tables
  <2> QED
    BY <1>1, <2>2, <2>3, <2>4 DEF Handle, LocalStep
<1>2. ASSUME Crash PROVE SerialOK'
  <2>1. /\ \A q \in Requests : pc'[q] \notin Running
        /\ sess' = sess /\ actions' = actions
    BY <1>2 DEF Crash, InFlight, tables, Running
  <2>2. Tables'
    BY <2>1, TablesStay
  <2>3. Alone' /\ \A q \in Requests : SerialAt(q)'
    BY <2>1 DEF Alone, InFlight, SerialAt, Running
  <2> QED
    BY <2>2, <2>3 DEF SerialOK, Tables
<1>3. ASSUME UNCHANGED vars PROVE SerialOK'
  <2>1. Tables'
    BY <1>3, TablesStay DEF vars
  <2>2. Alone' /\ \A q \in Requests : SerialAt(q)'
    BY <1>3 DEF vars, Alone, InFlight, SerialAt, SerialOK, IsActive, IsOpen
  <2> QED
    BY <2>1, <2>2 DEF SerialOK, Tables
<1> QED
  BY <1>1, <1>2, <1>3, ArriveAlone DEF Next, BreakDeadlock, Quiet

\* At the start there is no request, no session and no action.
LEMMA SerialInit == Init => SerialOK
  BY NoneIsFresh
     DEF Init, SerialOK, Alone, InFlight, Running, OneActiveSession, IsActive,
         ClosedIsFilled, FilledForward, OneOpenAction, IsOpen, SerialAt

LEMMA SerialHolds ==
    ASSUME MaxInFlight = 1
    PROVE  Spec => []SerialOK
  BY SerialInit, SerialStep, Invariance, ProgressHolds, DecisionsHaveEvents,
     PTL DEF Spec

(***************************************************************************)
(* Where requests do not overlap, a charger never has two active sessions,  *)
(* whatever fails between them: FOR UPDATE alone does not give this, since  *)
(* it cannot lock a row that is not there yet.                              *)
(***************************************************************************)
THEOREM OneSession ==
    ASSUME MaxInFlight = 1
    PROVE  Spec => []OneActiveSession
<1>1. SerialOK => OneActiveSession
  BY DEF SerialOK
<1> QED
  BY <1>1, SerialHolds, PTL

(***************************************************************************)
(* Where requests do not overlap, the close of a session leaves none of its *)
(* actions without an outcome, also when earlier decisions of the session   *)
(* failed or were lost.                                                     *)
(***************************************************************************)
THEOREM ClosedSessionsAreFilled ==
    ASSUME MaxInFlight = 1
    PROVE  Spec => []ClosedIsFilled
<1>1. SerialOK => ClosedIsFilled
  BY DEF SerialOK
<1> QED
  BY <1>1, SerialHolds, PTL

(***************************************************************************)
(* Where requests do not overlap, no outcome is computed over a negative    *)
(* time.                                                                    *)
(***************************************************************************)
THEOREM FillsGoForward ==
    ASSUME MaxInFlight = 1
    PROVE  Spec => []FilledForward
<1>1. SerialOK => FilledForward
  BY DEF SerialOK
<1> QED
  BY <1>1, SerialHolds, PTL
==============================================================================
