------------------------ MODULE SessionContractProofs ------------------------
(* Proofs about SessionContract, for any requests, times and energies. *)
EXTENDS SessionContract, TLAPS

Invariant == TypeOK /\ TimelineOK /\ EventsOnTimeline /\ ReportsAreDistinct

\* An event is not NULL, and its time and energy can be reckoned with.
LEMMA EventFields ==
    ASSUME NEW e \in Events
    PROVE  /\ e # None
           /\ e.kind \in Kinds /\ e.time \in Times /\ e.time \in Int
           /\ e.energy \in Int /\ e.full \in BOOLEAN
<1>1. CASE e \in [kind : {"connect"}, time : Times, energy : {0},
                  full : {FALSE}]
  <2>1. e.kind \in Kinds /\ e.full \in BOOLEAN
    BY <1>1 DEF Kinds
  <2>2. e.time \in Times /\ e.time \in Int
    BY <1>1, TimesAreInts
  <2>3. e.energy \in Int
    BY <1>1
  <2>4. e # None
    BY NoneIsFresh
  <2> QED
    BY <2>1, <2>2, <2>3, <2>4
<1>2. CASE e \in [kind : {"update"}, time : Times, energy : Energies,
                  full : FullFlags]
  BY <1>2, TimesAreInts, EnergiesAreInts, FullFlagsAreBooleans, NoneIsFresh
     DEF Kinds, Events
<1>3. CASE e \in [kind : {"disconnect"}, time : Times, energy : Energies,
                  full : {FALSE}]
  BY <1>3, TimesAreInts, EnergiesAreInts, NoneIsFresh DEF Kinds, Events
<1> QED
  BY <1>1, <1>2, <1>3 DEF Events

\* Every row an operation writes is a row, hence not NULL.
LEMMA OpenedIsRow == ASSUME NEW e \in Events PROVE Opened(e) \in Rows
  BY EventFields DEF Opened, Rows

\* Every operation on a row writes a row.
LEMMA RowsWritten ==
    ASSUME NEW e \in Events, NEW w \in Rows
    PROVE  /\ [w EXCEPT !.last = e.time] \in Rows
           /\ Reported(w, e) \in Rows
           /\ Ended(w, e) \in Rows
<1>1. /\ e.time \in Times
      /\ w.energy + e.energy \in Int
      /\ (IF e.full THEN e.time ELSE w.endCharging) \in Times \cup {None}
      /\ (IF w.endCharging = None THEN e.time ELSE w.endCharging)
           \in Times \cup {None}
  BY EventFields DEF Rows
<1>2. [w EXCEPT !.last = e.time] \in Rows
  BY <1>1 DEF Rows
<1>3. Reported(w, e) \in Rows
  BY <1>1 DEF Reported, Rows
<1>4. Ended(w, e) \in Rows
  BY <1>1 DEF Ended, Rows
<1> QED
  BY <1>2, <1>3, <1>4

\* They keep a row on its timeline, and end it at the event.
LEMMA RowsStayOnTimeline ==
    ASSUME NEW e \in Events, NEW w \in Rows, OnTimeline(w), w.active,
           e.time >= w.last
    PROVE  /\ OnTimeline([w EXCEPT !.last = e.time])
           /\ OnTimeline(Reported(w, e))
           /\ OnTimeline(Ended(w, e))
<1>1. /\ w.start \in Int /\ w.last \in Int /\ e.time \in Int
      /\ w.start <= e.time
      /\ w.endCharging # None => w.endCharging \in Int
      /\ e.time # None
  <2>1. e.time \in Times /\ e.time \in Int
    BY EventFields
  <2>2. w.start \in Int /\ w.last \in Int
    BY TimesAreInts DEF Rows
  <2>3. w.endCharging # None => w.endCharging \in Int
    BY TimesAreInts DEF Rows
  <2>4. w.start <= w.last
    BY DEF OnTimeline
  <2>5. w.start <= e.time
    BY <2>1, <2>2, <2>4
  <2>6. e.time # None
    BY <2>1, NoneIsFresh
  <2> QED
    BY <2>1, <2>2, <2>3, <2>5, <2>6
<1>2. OnTimeline([w EXCEPT !.last = e.time])
  BY <1>1 DEF OnTimeline, Rows
<1>3. OnTimeline(Reported(w, e))
  BY <1>1 DEF OnTimeline, Rows, Reported
<1>4. OnTimeline(Ended(w, e))
  <2>1. /\ Ended(w, e).start = w.start /\ Ended(w, e).last = e.time
        /\ Ended(w, e).end = e.time /\ Ended(w, e).active = FALSE
        /\ Ended(w, e).endCharging = IF w.endCharging = None
                                       THEN e.time ELSE w.endCharging
    BY DEF Ended, Rows
  <2>2. w.endCharging # None => /\ w.start <= w.endCharging
                                /\ w.endCharging <= w.last
    BY DEF OnTimeline
  <2> QED
    BY <1>1, <2>1, <2>2 DEF OnTimeline
<1> QED
  BY <1>2, <1>3, <1>4

\* What a step other than a submission does: the event of r, which had no
\* effect yet, turns row s into w. The row is new, or it moves to the event's
\* time and, for a report, strictly forward.
Effect(r, s, w) ==
    /\ took[r] = None /\ ev[r] \in Events
    /\ TakeEffect(r, s, w)
    /\ OnTimeline(w)
    /\ w.last = ev[r].time /\ w.start <= ev[r].time
    /\ sess[s] # None => w.start = sess[s].start /\ sess[s].last <= w.last
    /\ ev[r].kind # "connect" => sess[s] # None /\ sess[s].last < w.last

IsSubmission == \E r \in Requests : \E e \in Events : Submit(r, e)

\* Every operation of the contract has such an effect.
LEMMA StepsHaveEffect ==
    ASSUME TypeOK, TimelineOK, Next, ~IsSubmission
    PROVE  \E r, s \in Requests, w \in Rows : Effect(r, s, w)
<1>1. ASSUME NEW r \in Requests, Open(r)
      PROVE  Effect(r, r, Opened(ev[r])) /\ Opened(ev[r]) \in Rows
  <2>1. ev[r] \in Events /\ took[r] = None /\ sess[r] = None
    BY <1>1 DEF Open, Pending, TypeOK
  <2>2. ev[r].time \in Int /\ Opened(ev[r]) \in Rows
    BY <2>1, EventFields, OpenedIsRow
  <2>3. /\ OnTimeline(Opened(ev[r]))
        /\ Opened(ev[r]).last = ev[r].time /\ Opened(ev[r]).start = ev[r].time
    BY <2>2 DEF Opened, OnTimeline
  <2> QED
    BY <1>1, <2>1, <2>2, <2>3 DEF Effect, Open, Pending
<1>2. ASSUME NEW r \in Requests, NEW s \in Requests,
             Touch(r, s) \/ Report(r, s) \/ Close(r, s)
      PROVE  \E w \in Rows : Effect(r, s, w)
  <2>1. /\ ev[r] \in Events /\ took[r] = None
        /\ sess[s] \in Rows /\ sess[s] # None /\ sess[s].active
        /\ OnTimeline(sess[s])
    BY <1>2 DEF Touch, Report, Close, Pending, IsActive, TypeOK, TimelineOK
  <2>2. ev[r].time \in Int /\ sess[s].last \in Int /\ sess[s].start \in Int
    BY <2>1, EventFields, TimesAreInts DEF Rows
  <2>3. ev[r].time >= sess[s].last /\ sess[s].start <= ev[r].time
    BY <1>2, <2>1, <2>2 DEF Touch, Report, Close, OnTimeline
  <2>4. CASE Touch(r, s)
    <3> DEFINE w == [sess[s] EXCEPT !.last = ev[r].time]
    <3>1. w \in Rows /\ OnTimeline(w)
      BY <2>1, <2>3, RowsWritten, RowsStayOnTimeline
    <3>2. w.last = ev[r].time /\ w.start = sess[s].start
      BY <2>1 DEF Rows
    <3> QED
      BY <2>1, <2>2, <2>3, <2>4, <3>1, <3>2 DEF Touch, Pending, Effect
  <2>5. CASE Report(r, s)
    <3> DEFINE w == Reported(sess[s], ev[r])
    <3>1. w \in Rows /\ OnTimeline(w)
      BY <2>1, <2>3, RowsWritten, RowsStayOnTimeline
    <3>2. w.last = ev[r].time /\ w.start = sess[s].start
      BY <2>1 DEF Rows, Reported
    <3> QED
      BY <2>1, <2>2, <2>3, <2>5, <3>1, <3>2 DEF Report, Effect
  <2>6. CASE Close(r, s)
    <3> DEFINE w == Ended(sess[s], ev[r])
    <3>1. w \in Rows /\ OnTimeline(w)
      BY <2>1, <2>3, RowsWritten, RowsStayOnTimeline
    <3>2. w.last = ev[r].time /\ w.start = sess[s].start
      BY <2>1 DEF Rows, Ended
    <3> QED
      BY <2>1, <2>2, <2>3, <2>6, <3>1, <3>2 DEF Close, Effect
  <2> QED
    BY <1>2, <2>4, <2>5, <2>6
<1> QED
  BY <1>1, <1>2 DEF Next, IsSubmission

------------------------------------------------------------------------------

\* The tables start empty.
LEMMA InvariantInit == Init => Invariant
  BY NoneIsFresh DEF Init, Invariant, TypeOK, TimelineOK, EventsOnTimeline,
                     ReportsAreDistinct, IsReport

\* A new event disturbs nothing.
LEMMA SubmissionStep ==
    ASSUME Invariant, IsSubmission
    PROVE  Invariant'
<1>1. PICK r \in Requests, e \in Events : Submit(r, e)
  BY DEF IsSubmission
<1>2. took[r] = None
  BY <1>1 DEF Invariant, EventsOnTimeline, Submit
<1>3. TypeOK' /\ TimelineOK'
  BY <1>1 DEF Submit, Invariant, TypeOK, TimelineOK
<1>4. EventsOnTimeline'
  BY <1>1, <1>2 DEF Submit, Invariant, TypeOK, EventsOnTimeline
<1>5. ReportsAreDistinct'
  BY <1>1, <1>2 DEF Submit, Invariant, TypeOK, ReportsAreDistinct, IsReport
<1> QED
  BY <1>3, <1>4, <1>5 DEF Invariant

\* An effect keeps the invariant: the event it records is later than all others.
LEMMA EffectStep ==
    ASSUME Invariant, Next, ~IsSubmission
    PROVE  Invariant'
<1>1. PICK r \in Requests, s \in Requests, w \in Rows : Effect(r, s, w)
  BY StepsHaveEffect DEF Invariant
<1>2. /\ sess' = [sess EXCEPT ![s] = w] /\ took' = [took EXCEPT ![r] = s]
      /\ ev' = ev /\ w # None /\ s # None /\ ev[r] # None
  BY <1>1, NoneIsFresh DEF Effect, TakeEffect
<1>3. TypeOK'
  BY <1>2 DEF Invariant, TypeOK
<1>4. TimelineOK'
  BY <1>1, <1>2 DEF Invariant, TypeOK, TimelineOK, Effect
<1>5. EventsOnTimeline'
  <2> SUFFICES ASSUME NEW q \in Requests, took'[q] # None
               PROVE  /\ ev[q] # None /\ sess'[took'[q]] # None
                      /\ sess'[took'[q]].start <= ev[q].time
                      /\ ev[q].time <= sess'[took'[q]].last
    BY <1>2 DEF EventsOnTimeline
  <2>1. w.start \in Int /\ w.last \in Int
    BY TimesAreInts DEF Rows
  <2>2. CASE q = r
    BY <1>1, <1>2, <2>1, <2>2 DEF Effect, Invariant, TypeOK
  <2>3. CASE q # r /\ took[q] # s
    BY <1>2, <2>3 DEF Invariant, TypeOK, EventsOnTimeline
  <2>4. CASE q # r /\ took[q] = s
    <3>1. /\ ev[q] # None /\ sess[s] # None
          /\ sess[s].start <= ev[q].time /\ ev[q].time <= sess[s].last
      BY <1>2, <2>4 DEF Invariant, TypeOK, EventsOnTimeline
    <3>2. ev[q].time \in Int /\ sess[s].last \in Int
      BY <3>1, EventFields, TimesAreInts DEF Invariant, TypeOK, Rows
    <3>3. sess'[took'[q]] = w
      BY <1>2, <2>4 DEF Invariant, TypeOK
    <3> QED
      BY <1>1, <1>2, <2>1, <3>1, <3>2, <3>3 DEF Effect
  <2> QED
    BY <2>2, <2>3, <2>4
<1>6. ReportsAreDistinct'
  <2>1. \A q \in Requests : q # r /\ took[q] = s /\ ev[r].kind # "connect"
                            => ev[q].time # ev[r].time
    <3> SUFFICES ASSUME NEW q \in Requests, q # r, took[q] = s,
                        ev[r].kind # "connect"
                 PROVE  ev[q].time # ev[r].time
      OBVIOUS
    <3>1. ev[q] # None /\ sess[s] # None /\ ev[q].time <= sess[s].last
      BY <1>2 DEF Invariant, EventsOnTimeline
    <3>2. ev[q].time \in Int /\ sess[s].last \in Int /\ ev[r].time \in Int
      BY <1>1, <3>1, EventFields, TimesAreInts
         DEF Invariant, TypeOK, Rows, Effect
    <3>3. sess[s].last < ev[r].time
      BY <1>1 DEF Effect
    <3> QED
      BY <3>1, <3>2, <3>3
  <2> QED
    BY <1>2, <2>1 DEF Invariant, TypeOK, ReportsAreDistinct, IsReport
<1> QED
  BY <1>3, <1>4, <1>5, <1>6 DEF Invariant

(***************************************************************************)
(* Every behaviour of the contract keeps its rows on their timelines and    *)
(* counts no report twice, whatever the requests, times and energies are.   *)
(***************************************************************************)
THEOREM ContractIsSafe == Spec => []Invariant
<1>1. Invariant /\ [Next]_cvars => Invariant'
  <2>1. ASSUME Invariant, UNCHANGED cvars PROVE Invariant'
    BY <2>1 DEF Invariant, cvars, TypeOK, TimelineOK, EventsOnTimeline,
                ReportsAreDistinct, IsReport
  <2> QED
    BY <2>1, SubmissionStep, EffectStep
<1> QED
  BY <1>1, InvariantInit, PTL DEF Spec
==============================================================================
