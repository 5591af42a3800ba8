---------------------------- MODULE ClosingStats ----------------------------
(***************************************************************************)
(* How the statistics learn: after a disconnection has been committed, its  *)
(* handler runs update_ev_forecast and update_ev_duration_cdf in one further *)
(* transaction (READ COMMITTED, no autoflush), step by step in Steps. The   *)
(* import of a CSV file inserts completed sessions and rebuilds the rows of *)
(* their charger and of the fleet. Rows are only ever appended; readers     *)
(* choose the latest.                                                       *)
(*                                                                          *)
(* The place `pc` of a process:                                             *)
(*   begin    the session is stored; the transaction has not started        *)
(*   look     about to read the latest row of the current step              *)
(*   rebuild  there is none: about to read the completed sessions           *)
(*   lock     waits for the advisory lock of a distribution                 *)
(*   online   holds it, about to read the latest batches once more          *)
(*   fleet    (import) about to read the most recent sessions of the fleet  *)
(*   commit   every row is staged                                           *)
(*                                                                          *)
(* Energy is learned by the same code as the duration, and an outlier in    *)
(* energy is treated like one in duration, so only the duration is kept.    *)
(***************************************************************************)
EXTENDS StatsData, Sequences

CONSTANTS
    MinSessions,  \* MIN_SESSIONS_FOR_CHARGER_SPECIFIC
    MaxDuration,  \* GENERIC_MAX_DURATION_HOURS
    Recent,       \* how many sessions the import takes for the fleet (1000)
    Importer,     \* the request that imports a file
    Kinds,        \* the sessions that may happen
    MaxInFlight,  \* how many updates overlap
    MaxImports    \* how many files are imported, 0 or 1

Processes == Sessions \cup {Importer}

ASSUME KindsAreSessions == Kinds \subseteq AllKinds
ASSUME LimitIsInt == MaxDuration \in Int
ASSUME RecentIsPos == Recent \in Nat \ {0}
ASSUME ImporterIsNoSession == Importer \notin Sessions
ASSUME NoneIsNobody == None \notin Processes /\ None \notin Completed

VARIABLES
    sess,   \* sess[s]: the completed session row, None before it ends
    pc,     \* pc[p]: place of p's transaction
    step,   \* step[p]: index into Steps; 0 before the first
    start,  \* start[p]: when p's transaction started: updated_at of its rows
    new,    \* new[p]: rows p has added and not committed
    stats,  \* committed ev_forecast_stats
    cdf,    \* committed ev_duration_cdf
    lock,   \* lock[k]: holder of the advisory lock of (owner, hour)
    clock,  \* transactions started so far
    ends,   \* sessions that ended so far
    file,   \* the sessions that the import has inserted
    plain   \* history: no two updates have overlapped, nothing was imported

vars == <<sess, pc, step, start, new, stats, cdf, lock, clock, ends, file,
          plain>>

Keys == Owners \X Hours
Working == {"begin", "look", "rebuild", "lock", "online", "fleet", "commit"}
InFlight == {p \in Processes : pc[p] \in Working}

\* What update_ev_forecast and then update_ev_duration_cdf work through.
Steps ==
    << [table |-> "stats", fleet |-> TRUE,  all |-> FALSE],
       [table |-> "stats", fleet |-> FALSE, all |-> FALSE],
       [table |-> "cdf",   fleet |-> TRUE,  all |-> TRUE],
       [table |-> "cdf",   fleet |-> TRUE,  all |-> FALSE],
       [table |-> "cdf",   fleet |-> FALSE, all |-> TRUE],
       [table |-> "cdf",   fleet |-> FALSE, all |-> FALSE] >>

Doing(r, place, table) ==
    r \in Sessions /\ pc[r] = place /\ Steps[step[r]].table = table

Owner(r) == IF Steps[step[r]].fleet THEN Generic ELSE sess[r].charger
Hour(r)  == IF Steps[step[r]].all THEN AllHours ELSE sess[r].hour

Init ==
    /\ sess = [s \in Sessions |-> None]
    /\ pc = [p \in Processes |-> "idle"]
    /\ step = [p \in Processes |-> 0]
    /\ start = [p \in Processes |-> 0]
    /\ new = [p \in Processes |-> {}]
    /\ stats = {} /\ cdf = {}
    /\ lock = [k \in Keys |-> None]
    /\ clock = 0 /\ ends = 0
    /\ file = {}
    /\ plain = TRUE

------------------------------------------------------------------------------
(* What a transaction reads. *)

Ended == {s \in Sessions : sess[s] # None}
Plugged == [s \in Ended |-> sess[s].plugged]
Charged == [s \in Ended |-> sess[s].charged]

\* The latest statistics row: the one whose transaction started last.
LatestStats(owner, hour) ==
    Newest({w \in stats : w.owner = owner /\ w.hour = hour})

\* The latest batches of a distribution: those with the most samples.
LatestBatches(owner, hour) ==
    Versions({b \in cdf : b.owner = owner /\ b.hour = hour})

\* What the decision reads: the charger's distribution, else the fleet's.
CurveFor(c) ==
    IF LatestBatches(c, AllHours) # {} THEN LatestBatches(c, AllHours)
                                       ELSE LatestBatches(Generic, AllHours)

\* Mutant of EndedOf: the update runs before its closing is committed.
EndedBefore(owner, hour) ==
    {s \in Ended : /\ pc[s] \notin Working
                   /\ owner \in {Generic, sess[s].charger}
                   /\ hour \in {AllHours, sess[s].hour}}

\* completed_sessions_count, _sessions_for_local_hour
EndedOf(owner, hour) ==
    {s \in Ended : /\ owner \in {Generic, sess[s].charger}
                   /\ hour \in {AllHours, sess[s].hour}}

Within(x) == x <= MaxDuration

------------------------------------------------------------------------------
(* The closing of a session and the two updates. *)

\* The current step of r adds these rows to its transaction.
Advance(r, rows) ==
    /\ new' = [new EXCEPT ![r] = @ \cup rows]
    /\ IF step[r] = Len(Steps)
         THEN pc' = [pc EXCEPT ![r] = "commit"] /\ UNCHANGED step
         ELSE /\ pc' = [pc EXCEPT ![r] = "look"]
              /\ step' = [step EXCEPT ![r] = @ + 1]

\* The disconnection commits its session (SessionEvents, CommitClose).
Close(s, kind) ==
    /\ sess[s] = None
    /\ Cardinality(InFlight) < MaxInFlight
    /\ sess' = [sess EXCEPT ![s] =
                    [charger |-> kind.charger, hour |-> kind.hour,
                     plugged |-> kind.plugged, charged |-> kind.charged,
                     end |-> ends + 1]]
    /\ ends' = ends + 1
    /\ pc' = [pc EXCEPT ![s] = "begin"]
    /\ plain' = (plain /\ InFlight = {})
    /\ UNCHANGED <<step, start, new, stats, cdf, lock, clock, file>>

\* session.duration is read again after the commit: a transaction starts, and
\* now() is fixed for all its rows.
Begin(r) ==
    /\ r \in Sessions /\ pc[r] = "begin"
    /\ clock' = clock + 1
    /\ start' = [start EXCEPT ![r] = clock + 1]
    /\ step' = [step EXCEPT ![r] = 1]
    /\ pc' = [pc EXCEPT ![r] = "look"]
    /\ UNCHANGED <<sess, new, stats, cdf, lock, ends, file, plain>>

\* _update_or_initialize_stat and the charger's part of update_ev_forecast:
\* the fleet's row skips outliers, the charger's does not.
LookStats(r) ==
    /\ Doing(r, "look", "stats")
    /\ \/ /\ LatestStats(Owner(r), Hour(r)) = {}
          /\ pc' = [pc EXCEPT ![r] = "rebuild"]
          /\ UNCHANGED <<step, new>>
       \/ \E w \in LatestStats(Owner(r), Hour(r)) :
            Advance(r, IF Owner(r) = Generic /\ ~Within(Plugged[r]) THEN {}
                       ELSE {NextStat(w, r, Plugged[r], start[r])})
    /\ UNCHANGED <<sess, start, stats, cdf, lock, clock, ends, file, plain>>

\* The first fleet row of an hour: all sessions within the limits, or else
\* the current one alone. It measures the charge, not the whole session.
FleetStat(r) ==
    LET S == {s \in EndedOf(Generic, Hour(r)) : Within(Charged[s])}
    IN  IF S # {}
          THEN {StatFrom(Generic, Hour(r), S, Charged, "charged", start[r])}
        ELSE IF Within(Plugged[r])
          THEN {StatFrom(Generic, Hour(r), {r}, Plugged, "plugged", start[r])}
        ELSE {}

ChargerStat(r) ==
    LET S == EndedOf(Owner(r), Hour(r))
    IN  IF Cardinality(S) >= MinSessions
          THEN {StatFrom(Owner(r), Hour(r), S, Charged, "charged", start[r])}
          ELSE {}

RebuildStats(r) ==
    /\ Doing(r, "rebuild", "stats")
    /\ Advance(r, IF Owner(r) = Generic THEN FleetStat(r) ELSE ChargerStat(r))
    /\ UNCHANGED <<sess, start, stats, cdf, lock, clock, ends, file, plain>>

\* update_ev_duration_cdf: is there a batch for this owner and hour?
LookCdf(r) ==
    /\ Doing(r, "look", "cdf")
    /\ pc' = [pc EXCEPT ![r] = IF LatestBatches(Owner(r), Hour(r)) = {}
                                 THEN "rebuild" ELSE "lock"]
    /\ UNCHANGED <<sess, step, start, new, stats, cdf, lock, clock, ends,
                   file, plain>>

\* _initialize_cdf_from_sessions; a charger of its own needs MinSessions.
RebuildCdf(r) ==
    /\ Doing(r, "rebuild", "cdf")
    /\ LET S == EndedOf(Owner(r), Hour(r))
       IN  Advance(r, IF \/ S = {}
                         \/ Owner(r) # Generic /\ Cardinality(S) < MinSessions
                        THEN {}
                        ELSE {BatchFrom(Owner(r), Hour(r), S, Plugged,
                                        start[r])})
    /\ UNCHANGED <<sess, start, stats, cdf, lock, clock, ends, file, plain>>

\* pg_advisory_lock. (An unlock that fails in a broken transaction leaves the
\* lock with its pooled connection; others then wait, which only safety is
\* indifferent to.)
TakeLock(r) ==
    /\ Doing(r, "lock", "cdf")
    /\ lock[<<Owner(r), Hour(r)>>] = None
    /\ lock' = [lock EXCEPT ![<<Owner(r), Hour(r)>>] = r]
    /\ pc' = [pc EXCEPT ![r] = "online"]
    /\ UNCHANGED <<sess, step, start, new, stats, cdf, clock, ends, file, plain>>

\* _online_update_cdf continues every batch of the highest count, and gives
\* the lock up at once, long before the transaction commits.
OnlineCdf(r) ==
    /\ Doing(r, "online", "cdf")
    /\ lock' = [lock EXCEPT ![<<Owner(r), Hour(r)>>] = None]
    /\ Advance(r, {NextBatch(b, r, Plugged[r], start[r]) :
                     b \in LatestBatches(Owner(r), Hour(r))})
    /\ UNCHANGED <<sess, start, stats, cdf, clock, ends, file, plain>>

IsBatch(w) == "within" \in DOMAIN w

\* The rows become visible together.
Commit(p) ==
    /\ pc[p] = "commit"
    /\ cdf' = cdf \cup {w \in new[p] : IsBatch(w)}
    /\ stats' = stats \cup {w \in new[p] : ~IsBatch(w)}
    /\ pc' = [pc EXCEPT ![p] = "done"]
    /\ new' = [new EXCEPT ![p] = {}]
    /\ UNCHANGED <<sess, step, start, lock, clock, ends, file, plain>>

------------------------------------------------------------------------------
(* The CSV import. *)

\* The file's sessions are committed first. They ended before or after the
\* ones that are stored.
ImportSessions(S, kind, end) ==
    /\ MaxImports > 0 /\ pc[Importer] = "idle"
    /\ S # {} /\ S \cap Ended = {}
    /\ Cardinality(InFlight) < MaxInFlight
    /\ sess' = [s \in Sessions |->
                  IF s \in S
                    THEN [charger |-> kind.charger, hour |-> kind.hour,
                          plugged |-> kind.plugged, charged |-> kind.charged,
                          end |-> end]
                    ELSE sess[s]]
    /\ ends' = ends + 1
    /\ file' = S
    /\ pc' = [pc EXCEPT ![Importer] = "begin"]
    /\ plain' = FALSE
    /\ UNCHANGED <<step, start, new, stats, cdf, lock, clock>>

\* One row for each local hour that has sessions.
HourlyStats(owner, S, at) ==
    {ImportedStat(owner, h, {s \in S : sess[s].hour = h}, Plugged, at) :
        h \in {sess[s].hour : s \in S}}

\* The second transaction rebuilds the charger's rows from its whole history,
\* whatever the number of its sessions.
ImportCharger(c) ==
    /\ pc[Importer] = "begin"
    /\ c \in {sess[s].charger : s \in file}
    /\ LET S == EndedOf(c, AllHours)
       IN  new' = [new EXCEPT ![Importer] =
                     {BatchFrom(c, AllHours, S, Plugged, clock + 1)}
                     \cup HourlyStats(c, S, clock + 1)]
    /\ clock' = clock + 1
    /\ start' = [start EXCEPT ![Importer] = clock + 1]
    /\ pc' = [pc EXCEPT ![Importer] = "fleet"]
    /\ UNCHANGED <<sess, step, stats, cdf, lock, ends, file, plain>>

\* ... and those of the fleet, without any limit on outliers, from the
\* sessions that ended last.
MostRecent ==
    {S \in SUBSET Ended :
        /\ Cardinality(S) = Min({Recent, Cardinality(Ended)})
        /\ \A s \in S, t \in Ended \ S : sess[t].end <= sess[s].end}

ImportFleet ==
    /\ pc[Importer] = "fleet"
    /\ \E S \in MostRecent :
         new' = [new EXCEPT ![Importer] = @ \cup
                   {BatchFrom(Generic, AllHours, S, Plugged, start[Importer])}
                   \cup HourlyStats(Generic, S, start[Importer])]
    /\ pc' = [pc EXCEPT ![Importer] = "commit"]
    /\ UNCHANGED <<sess, step, start, stats, cdf, lock, clock, ends, file, plain>>

------------------------------------------------------------------------------
(* Failures: the transaction is rolled back, the session stays closed. *)

Released(P) == [k \in Keys |-> IF lock[k] \in P THEN None ELSE lock[k]]

Abort(p) ==
    /\ pc[p] \in Working
    /\ pc' = [pc EXCEPT ![p] = "failed"]
    /\ new' = [new EXCEPT ![p] = {}]
    /\ lock' = Released({p})
    /\ UNCHANGED <<sess, step, start, stats, cdf, clock, ends, file, plain>>

Crash ==
    /\ InFlight # {}
    /\ pc' = [p \in Processes |-> IF p \in InFlight THEN "failed" ELSE pc[p]]
    /\ new' = [p \in Processes |-> {}]
    /\ lock' = [k \in Keys |-> None]
    /\ UNCHANGED <<sess, step, start, stats, cdf, clock, ends, file, plain>>

Update(r) ==
    \/ Begin(r)
    \/ LookStats(r) \/ RebuildStats(r)
    \/ LookCdf(r) \/ RebuildCdf(r) \/ TakeLock(r) \/ OnlineCdf(r)

Import ==
    \/ \E S \in SUBSET Sessions, kind \in Kinds, end \in {0, ends + 1} :
         ImportSessions(S, kind, end)
    \/ \E c \in Chargers : ImportCharger(c)
    \/ ImportFleet

\* Every session has ended and every update is over.
Quiet == Ended = Sessions /\ InFlight = {} /\ UNCHANGED vars

Next ==
    \/ \E s \in Sessions, kind \in Kinds : Close(s, kind)
    \/ \E r \in Sessions : Update(r)
    \/ Import
    \/ \E p \in Processes : Commit(p) \/ Abort(p)
    \/ Crash
    \/ Quiet

Spec == Init /\ [][Next]_vars

------------------------------------------------------------------------------
(* Properties. *)

IsStatRow(w) ==
    /\ DOMAIN w = {"owner", "hour", "n", "mean", "spread", "bag", "at"}
    /\ w.owner \in Owners /\ w.hour \in LocalHours
    /\ w.n \in Nat \ {0} /\ w.mean \in Amounts /\ w.spread \in Amounts
    /\ w.bag \in Bags /\ w.at \in 1 .. clock

IsCdfBatch(b) ==
    /\ DOMAIN b = {"owner", "hour", "n", "within", "bag", "at"}
    /\ b.owner \in Owners /\ b.hour \in Hours
    /\ b.n \in Nat \ {0} /\ b.within \in [Horizons -> Nat]
    /\ b.bag \in Bags /\ b.at \in 1 .. clock

TypeOK ==
    /\ sess \in [Sessions -> Completed \cup {None}]
    /\ \A s \in Ended : sess[s].end <= ends
    /\ pc \in [Processes -> Working \cup {"idle", "done", "failed"}]
    /\ step \in [Processes -> 0 .. Len(Steps)]
    /\ start \in [Processes -> 0 .. clock]
    /\ \A p \in Processes : \A w \in new[p] :
         IF IsBatch(w) THEN IsCdfBatch(w) ELSE IsStatRow(w)
    /\ \A w \in stats : IsStatRow(w)
    /\ \A b \in cdf : IsCdfBatch(b)
    /\ lock \in [Keys -> Processes \cup {None}]
    /\ clock \in Nat /\ ends \in Nat /\ file \subseteq Sessions
    /\ plain \in BOOLEAN

\* What a row would be if it were computed from the sessions it counts.
Value(sm) == IF sm[2] = "plugged" THEN Plugged[sm[1]] ELSE Charged[sm[1]]
Samples(bag) == UNION {{sm} \X (1 .. bag[sm]) : sm \in Sessions \X Measures}
CountIf(bag, P(_)) ==
    Cardinality({x \in Samples(bag) :
                    sess[x[1][1]] # None /\ P(Value(x[1]))})
\* The sum of f over the samples.
SumOver(bag, f) ==
    LET x == [sm \in Sessions \X Measures |->
                IF bag[sm] = 0 THEN 0 ELSE bag[sm] * f[Value(sm)]]
    IN  MapThenSumSet(LAMBDA sm : x[sm], Sessions \X Measures)

Ones == [x \in Durations |-> 1]
Lengths == [x \in Durations |-> x]
\* Squared distances to the mean, times the square of its denominator.
Squares(mean) ==
    [x \in Durations |-> (x * mean.den - mean.num) * (x * mean.den - mean.num)]

(***************************************************************************)
(* The running mean, updated one session at a time, is the mean of the      *)
(* sessions the row counts, whatever was imported or lost in between, and   *)
(* the count is their number. While nothing was imported the spread is      *)
(* theirs too (an import stores the deviation of a sample, which the next   *)
(* update takes for that of a population).                                  *)
(***************************************************************************)
StatsAreExact ==
    \A w \in stats :
        /\ \A s \in Sessions : Times(w.bag, s) > 0 => sess[s] # None
        /\ w.n = SumOver(w.bag, Ones)
        /\ IsRatio(w.mean, SumOver(w.bag, Lengths), w.n)
        /\ pc[Importer] = "idle" =>
             IsRatio(w.spread, SumOver(w.bag, Squares(w.mean)),
                     w.n * (w.mean.den * w.mean.den))

(***************************************************************************)
(* Every stored distribution is the empirical one of the sessions it counts *)
(* (whichever path wrote it: a rebuild, an online update of one or several  *)
(* batches, or an import), all of them sessions of its owner and hour.      *)
(***************************************************************************)
CurvesAreEmpirical ==
    \A b \in cdf :
        /\ \A s \in Sessions : Times(b.bag, s) > 0 =>
             s \in EndedOf(b.owner, b.hour)
        /\ b.n = CountIf(b.bag, LAMBDA x : TRUE)
        /\ \A h \in Horizons : b.within[h] = CountIf(b.bag, LAMBDA x : x <= h)

(***************************************************************************)
(* While updates do not overlap, no session is counted twice (a rebuild     *)
(* already counts the current one) and none is lost: what is read after a   *)
(* successful update counts its session, unless it is an outlier of the     *)
(* fleet. Failures in between lose only their own session.                  *)
(***************************************************************************)
Counts(w, s) == Times(w.bag, s) > 0

EachSampleOnce ==
    plain => \A owner \in Owners, hour \in Hours :
        \A w \in LatestStats(owner, hour) \cup LatestBatches(owner, hour) :
            /\ \A s \in Sessions : Times(w.bag, s) <= 1
            /\ \A s \in EndedOf(owner, hour) :
                 pc[s] = "done" =>
                    \/ Counts(w, s)
                    \/ owner = Generic /\ ~IsBatch(w) /\ ~Within(Plugged[s])

(***************************************************************************)
(* While updates do not overlap, what the decision reads is a distribution: *)
(* a single value at every time, from 0 to 1, that never decreases with the *)
(* time connected, so that the clipping of the disconnection probability    *)
(* only ever removes rounding errors.                                       *)
(***************************************************************************)
Instants == 0 .. Max(Horizons) + 1

LookupsAreDistribution ==
    plain => \A c \in Chargers :
        LET p(t) == Lookups(CurveFor(c), t)
        IN  \A t \in Instants :
                /\ Cardinality(p(t)) = 1
                /\ p(t) \subseteq 0 .. Scale
                /\ \A x \in p(t), y \in p(t + 1) : x <= y

(***************************************************************************)
(* While updates do not overlap, a statistic never goes back: after each    *)
(* step the row that is read counts at least as many sessions as before.    *)
(***************************************************************************)
NoRegress ==
    [][plain' => \A owner \in Owners, hour \in LocalHours :
          \A w \in LatestStats(owner, hour) :
             \A v \in LatestStats(owner, hour)' : w.n <= v.n]_vars

(***************************************************************************)
(* _online_update_cdf "uses advisory lock to prevent concurrent update      *)
(* races": what one update stored is continued by one other update at most, *)
(* or else the sample of one of the two is lost.                            *)
(***************************************************************************)
ContinuationOf(b, a) ==
    /\ b.owner = a.owner /\ b.hour = a.hour /\ b.n = a.n + 1
    /\ \E s \in Sessions : b.bag = With(a.bag, s, "plugged")

ContinuedOnce ==
    \A a, b, c \in cdf : ContinuationOf(b, a) /\ ContinuationOf(c, a) => b = c
=============================================================================
