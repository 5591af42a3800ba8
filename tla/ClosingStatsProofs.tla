-------------------------- MODULE ClosingStatsProofs -------------------------
(***************************************************************************)
(* Proofs about ClosingStats, for any sessions and chargers: every stored   *)
(* distribution is one, and the count, mean and spread of every statistic   *)
(* are those of the sessions it counts, however updates and imports         *)
(* overlap; and, while updates do not overlap, each session is counted once *)
(* and no statistic goes back.                                              *)
(***************************************************************************)
EXTENDS ClosingStats, FoldProofs

------------------------------------------------------------------------------
(* The data. *)

\* The columns of the two kinds of rows.
LEMMA BatchFields ==
    ASSUME NEW owner, NEW hour, NEW n, NEW within, NEW bag, NEW at,
           NEW b, b = Batch(owner, hour, n, within, bag, at)
    PROVE  /\ IsBatch(b) /\ b.owner = owner /\ b.hour = hour /\ b.n = n
           /\ b.within = within /\ b.bag = bag /\ b.at = at
  BY DEF Batch, IsBatch

LEMMA StatFields ==
    ASSUME NEW owner, NEW hour, NEW n, NEW mean, NEW spread, NEW bag, NEW at,
           NEW w, w = StatRow(owner, hour, n, mean, spread, bag, at)
    PROVE  /\ ~IsBatch(w) /\ w.owner = owner /\ w.hour = hour /\ w.n = n
           /\ w.mean = mean /\ w.spread = spread /\ w.bag = bag /\ w.at = at
  BY DEF StatRow, IsBatch

\* A rebuilt row counts each of its sessions once, and no other.
LEMMA BagOfCounts ==
    ASSUME NEW S, NEW m \in Measures
    PROVE  /\ BagOf(S, m) \in Bags
           /\ \A s \in Sessions :
                Times(BagOf(S, m), s) = IF s \in S THEN 1 ELSE 0
<1>1. BagOf(S, m) \in Bags
  BY DEF BagOf, Bags
<1>2. ASSUME NEW s \in Sessions
      PROVE  Times(BagOf(S, m), s) = IF s \in S THEN 1 ELSE 0
  <2>1. /\ <<s, "plugged">> \in Sessions \X Measures
        /\ <<s, "charged">> \in Sessions \X Measures
    BY DEF Measures
  <2>2. /\ BagOf(S, m)[<<s, "plugged">>]
             = IF s \in S /\ "plugged" = m THEN 1 ELSE 0
        /\ BagOf(S, m)[<<s, "charged">>]
             = IF s \in S /\ "charged" = m THEN 1 ELSE 0
    BY <2>1 DEF BagOf
  <2> QED
    BY <2>2 DEF Times, Measures
<1> QED
  BY <1>1, <1>2

\* A continued row counts one session once more.
LEMMA WithCounts ==
    ASSUME NEW bag \in Bags, NEW s \in Sessions, NEW m \in Measures
    PROVE  /\ With(bag, s, m) \in Bags
           /\ \A t \in Sessions :
                Times(With(bag, s, m), t)
                  = Times(bag, t) + IF t = s THEN 1 ELSE 0
<1>1. With(bag, s, m) \in Bags
  <2>1. \A sm \in Sessions \X Measures : bag[sm] \in Nat
    BY DEF Bags
  <2> QED
    BY <2>1 DEF With, Bags
<1>2. ASSUME NEW t \in Sessions
      PROVE  Times(With(bag, s, m), t)
               = Times(bag, t) + IF t = s THEN 1 ELSE 0
  <2>1. /\ <<t, "plugged">> \in Sessions \X Measures
        /\ <<t, "charged">> \in Sessions \X Measures
    BY DEF Measures
  <2>2. /\ bag[<<t, "plugged">>] \in Nat /\ bag[<<t, "charged">>] \in Nat
    BY <2>1 DEF Bags
  <2>3. /\ With(bag, s, m)[<<t, "plugged">>]
             = bag[<<t, "plugged">>]
               + IF t = s /\ m = "plugged" THEN 1 ELSE 0
        /\ With(bag, s, m)[<<t, "charged">>]
             = bag[<<t, "charged">>]
               + IF t = s /\ m = "charged" THEN 1 ELSE 0
    BY <2>1, <2>2 DEF With, Bags
  <2>4. m = "plugged" \/ m = "charged"
    BY DEF Measures
  <2> QED
    BY <2>2, <2>3, <2>4 DEF Times
<1> QED
  BY <1>1, <1>2

LEMMA TimesIsNat ==
    ASSUME NEW bag \in Bags, NEW s \in Sessions
    PROVE  Times(bag, s) \in Nat
<1>1. /\ <<s, "plugged">> \in Sessions \X Measures
      /\ <<s, "charged">> \in Sessions \X Measures
  BY DEF Measures
<1> QED
  BY <1>1 DEF Bags, Times

\* A batch is a distribution: it never decreases, and ends at most at 1.
Distribution(b) ==
    /\ b.n \in Nat \ {0}
    /\ b.within \in [Horizons -> Nat]
    /\ \A h \in Horizons : b.within[h] <= b.n
    /\ \A g, h \in Horizons : g <= h => b.within[g] <= b.within[h]

\* The number of the members of a nonempty set of sessions.
LEMMA SomeSessions ==
    ASSUME NEW S, S \subseteq Sessions, S # {}
    PROVE  IsFiniteSet(S) /\ Cardinality(S) \in Nat \ {0}
  BY SessionsAreFinite, FS_Subset, FS_CardinalityType, FS_EmptySet

\* The batch of a rebuild is a distribution.
LEMMA BatchFromIsDistribution ==
    ASSUME NEW S, S \subseteq Sessions, S # {}, NEW f,
           \A s \in S : f[s] \in Nat,
           NEW owner, NEW hour, NEW at
    PROVE  Distribution(BatchFrom(owner, hour, S, f, at))
<1> DEFINE In(h) == {s \in S : f[s] <= h}
           within == [h \in Horizons |-> Cardinality(In(h))]
           b == BatchFrom(owner, hour, S, f, at)
<1>1. b.n = Cardinality(S) /\ b.within = within
  BY DEF BatchFrom, Batch
<1>2. IsFiniteSet(S) /\ Cardinality(S) \in Nat \ {0}
  BY SomeSessions
<1>3. ASSUME NEW h \in Horizons
      PROVE  /\ In(h) \subseteq S /\ IsFiniteSet(In(h))
             /\ Cardinality(In(h)) \in Nat
             /\ Cardinality(In(h)) <= Cardinality(S)
  <2>1. In(h) \subseteq S
    OBVIOUS
  <2> HIDE DEF In
  <2> QED
    BY <1>2, <2>1, FS_Subset, FS_CardinalityType
<1>4. ASSUME NEW g \in Horizons, NEW h \in Horizons, g <= h
      PROVE  Cardinality(In(g)) <= Cardinality(In(h))
  <2>1. In(g) \subseteq In(h)
    BY <1>4, HorizonsAreNat
  <2>2. IsFiniteSet(In(h))
    BY <1>3
  <2> HIDE DEF In
  <2> QED
    BY <2>1, <2>2, FS_Subset
<1>5. \A h \in Horizons : within[h] = Cardinality(In(h))
  OBVIOUS
<1>6. within \in [Horizons -> Nat]
  BY <1>3
<1> HIDE DEF b, within, In
<1>7. Distribution(b)
  BY <1>1, <1>2, <1>3, <1>4, <1>5, <1>6 DEF Distribution
<1> QED
  BY <1>7 DEF b

\* So is one that is continued with a session.
LEMMA NextBatchIsDistribution ==
    ASSUME NEW b, Distribution(b), NEW s, NEW x \in Nat, NEW at
    PROVE  Distribution(NextBatch(b, s, x, at))
<1> DEFINE within == [h \in Horizons |-> b.within[h] + IF x <= h THEN 1 ELSE 0]
           c == NextBatch(b, s, x, at)
<1>1. c.n = b.n + 1 /\ c.within = within
  BY DEF NextBatch, Batch
<1>2. \A h \in Horizons : b.within[h] \in Nat /\ h \in Nat
  BY HorizonsAreNat DEF Distribution
<1>3. within \in [Horizons -> Nat]
  BY <1>2
<1>4. \A h \in Horizons : within[h] = b.within[h] + IF x <= h THEN 1 ELSE 0
  OBVIOUS
<1> HIDE DEF c, within
<1>5. ASSUME NEW h \in Horizons PROVE within[h] <= b.n + 1
  BY <1>2, <1>4 DEF Distribution
<1>6. ASSUME NEW g \in Horizons, NEW h \in Horizons, g <= h
      PROVE  within[g] <= within[h]
  <2>1. b.within[g] <= b.within[h]
    BY <1>6 DEF Distribution
  <2>2. x <= g => x <= h
    BY <1>2, <1>6
  <2> QED
    BY <1>2, <1>4, <2>1, <2>2
<1>7. Distribution(c)
  BY <1>1, <1>3, <1>5, <1>6 DEF Distribution
<1> QED
  BY <1>7 DEF c

------------------------------------------------------------------------------
(* The invariant of every behaviour. *)

\* A row, of either kind, as far as it does not say what was measured.
RowOK(w) ==
    /\ w.owner \in Owners /\ w.hour \in Hours
    /\ w.n \in Nat \ {0} /\ w.bag \in Bags
    /\ w.at \in Nat \ {0} /\ w.at <= clock
    /\ \A s \in Sessions : Counts(w, s) => sess[s] # None
    /\ IF IsBatch(w) THEN Distribution(w) ELSE w.hour \in LocalHours

TypesOK ==
    /\ sess \in [Sessions -> Completed \cup {None}]
    /\ pc \in [Processes -> Working \cup {"idle", "done", "failed"}]
    /\ step \in [Processes -> 0 .. 6]
    /\ start \in [Processes -> Nat]
    /\ DOMAIN new = Processes
    /\ clock \in Nat /\ ends \in Nat /\ file \subseteq Sessions
    /\ plain \in BOOLEAN

RowsOK ==
    /\ \A p \in Processes : \A w \in new[p] : RowOK(w)
    /\ \A w \in stats : RowOK(w) /\ ~IsBatch(w)
    /\ \A w \in cdf : RowOK(w) /\ IsBatch(w)

\* What a process may rely on at each of its places.
PlaceOK(p) ==
    /\ pc[p] \notin Working \ {"begin"} => new[p] = {}
    /\ p \in Sessions /\ pc[p] \in Working => sess[p] # None
    /\ pc[p] \in {"look", "rebuild", "lock", "online"}
         => p \in Sessions /\ step[p] \in 1 .. 6
    /\ pc[p] \in Working \ {"begin"}
         => start[p] \in Nat \ {0} /\ start[p] <= clock
    /\ pc[p] = "fleet" => p = Importer

Shape ==
    /\ TypesOK /\ RowsOK
    /\ \A p \in Processes : PlaceOK(p)
    /\ file \subseteq Ended
    /\ pc[Importer] \in {"begin", "fleet"} => file # {}

------------------------------------------------------------------------------
(* The invariant of updates one at a time. *)

\* Rows that describe the same statistic.
Same(v, w) ==
    /\ v.owner = w.owner /\ v.hour = w.hour
    /\ IsBatch(v) <=> IsBatch(w)

\* w is what is read of its statistic.
IsRead(w) ==
    IF IsBatch(w) THEN w \in LatestBatches(w.owner, w.hour)
                  ELSE w \in LatestStats(w.owner, w.hour)

\* w counts s, or leaves it out as an outlier of the fleet.
Accounts(w, s) ==
    \/ Counts(w, s)
    \/ w.owner = Generic /\ ~IsBatch(w) /\ ~Within(sess[s].plugged)

AccountsForAll(w) ==
    \A s \in EndedOf(w.owner, w.hour) : pc[s] = "done" => Accounts(w, s)

\* w is a row of the statistic that step i of r is about.
KeyOf(r, i, w) ==
    /\ IsBatch(w) <=> Steps[i].table = "cdf"
    /\ w.owner = IF Steps[i].fleet THEN Generic ELSE sess[r].charger
    /\ w.hour = IF Steps[i].all THEN AllHours ELSE sess[r].hour

Committed == stats \cup cdf

\* A row that r has added continues, or begins, what is read.
NewOK(r, w) ==
    /\ w.at = start[r]
    /\ Accounts(w, r) /\ AccountsForAll(w)
    /\ \A s \in Sessions :
         /\ Times(w.bag, s) <= 1
         /\ Counts(w, s) => s = r \/ pc[s] \in {"done", "failed"}
    /\ \A v \in Committed : Same(v, w) /\ (IsBatch(v) \/ IsRead(v)) => v.n < w.n

\* The steps of r that are over, and those that are not.
Past(r)  == {i \in 1 .. 6 : i < step[r] \/ pc[r] = "commit"}
Ahead(r) == {i \in 1 .. 6 : i >= step[r] /\ pc[r] # "commit"}

\* What the only running update has done, and has left to do.
WorkOK(r) ==
    /\ \A w \in new[r] : NewOK(r, w) /\ \E i \in Past(r) : KeyOf(r, i, w)
    /\ \A v, w \in new[r] : Same(v, w) => v = w
    /\ pc[r] # "begin" => \A w \in Committed : w.at < start[r]
    /\ pc[r] = "rebuild" => \A w \in Committed : ~KeyOf(r, step[r], w)
    /\ pc[r] \in {"lock", "online"} => LatestBatches(Owner(r), Hour(r)) # {}
    /\ pc[r] # "begin" => \A w \in Committed :
         r \in EndedOf(w.owner, w.hour) =>
            \/ \E i \in Ahead(r) : KeyOf(r, i, w)
            \/ \E v \in new[r] : Same(v, w)
            \/ w.owner = Generic /\ ~IsBatch(w) /\ ~Within(sess[r].plugged)

\* No session twice, and only those whose update is over.
CountsOnce(w) ==
    \A s \in Sessions :
        /\ Times(w.bag, s) <= 1
        /\ Counts(w, s) => pc[s] \in {"done", "failed"}

\* The rows of a statistic are in one order, by time and by count.
Ordered ==
    /\ \A v, w \in Committed : Same(v, w) /\ v.at = w.at => v = w
    /\ \A v, w \in cdf : Same(v, w) => (v.at <= w.at <=> v.n <= w.n)

Calm ==
    /\ pc[Importer] = "idle"
    /\ \A s \in Ended : pc[s] # "idle"
    /\ \A p, q \in InFlight : p = q
    /\ Ordered
    /\ \A w \in Committed :
         CountsOnce(w) /\ (IsRead(w) => AccountsForAll(w))
    /\ \A r \in InFlight : WorkOK(r)

IInv == Shape /\ (plain => Calm)

\* The server starts with no session and no statistics.
LEMMA InitOK == Init => IInv
  BY ImporterIsNoSession
     DEF Init, IInv, Shape, TypesOK, RowsOK, PlaceOK, Calm, InFlight, Working,
         Ordered, Committed, Ended, Processes

------------------------------------------------------------------------------
(* The steps of an update and the statistics they are about. *)

LEMMA StepFacts ==
    /\ Len(Steps) = 6
    /\ \A i \in 1 .. 6 :
         /\ Steps[i].table = IF i <= 2 THEN "stats" ELSE "cdf"
         /\ Steps[i].fleet <=> i \in {1, 3, 4}
         /\ Steps[i].all <=> i \in {3, 5}
  BY DEF Steps

\* A completed session belongs to a charger and an hour.
LEMMA CompletedFields ==
    ASSUME NEW s, s \in Completed
    PROVE  /\ s.charger \in Chargers /\ s.charger # Generic
           /\ s.hour \in LocalHours /\ s.hour # AllHours
           /\ s.plugged \in Nat /\ s.charged \in Nat
           /\ s.charged <= s.plugged
<1>1. /\ s \in [charger : Chargers, hour : LocalHours, plugged : Durations,
               charged : Durations, end : Nat]
      /\ s.charged <= s.plugged
  BY DEF Completed
<1>2. /\ s.charger \in Chargers /\ s.hour \in LocalHours
      /\ s.plugged \in Durations /\ s.charged \in Durations
  BY <1>1
<1>3. \A h \in Nat : h # AllHours
  BY DEF AllHours
<1> QED
  BY <1>1, <1>2, <1>3, GenericIsNoCharger, HoursAreNat, DurationsAreNat

\* Each step is about a statistic of its own.
LEMMA KeysDiffer ==
    ASSUME NEW r, sess[r] \in Completed, NEW i \in 1 .. 6, NEW j \in 1 .. 6,
           NEW v, NEW w, KeyOf(r, i, v), KeyOf(r, j, w), Same(v, w)
    PROVE  i = j
<1>1. sess[r].charger # Generic /\ sess[r].hour # AllHours
  BY CompletedFields
<1>2. /\ Steps[i].table = "cdf" <=> Steps[j].table = "cdf"
      /\ Steps[i].fleet <=> Steps[j].fleet
      /\ Steps[i].all <=> Steps[j].all
  BY <1>1, StepFacts DEF KeyOf, Same
<1>3. /\ i <= 2 <=> j <= 2
      /\ i \in {1, 3, 4} <=> j \in {1, 3, 4}
      /\ i \in {3, 5} <=> j \in {3, 5}
  BY <1>2, StepFacts
<1>4. i \in {1, 2, 3, 4, 5, 6} /\ j \in {1, 2, 3, 4, 5, 6}
  OBVIOUS
<1> QED
  BY <1>3, <1>4

\* Together they are about all that the session is counted in.
LEMMA KeysCover ==
    ASSUME NEW r \in Sessions, sess[r] \in Completed, NEW w, RowOK(w),
           r \in EndedOf(w.owner, w.hour)
    PROVE  \E i \in 1 .. 6 : KeyOf(r, i, w)
<1>1. /\ w.owner \in {Generic, sess[r].charger}
      /\ w.hour \in {AllHours, sess[r].hour}
  BY DEF EndedOf
<1>2. ~IsBatch(w) => w.hour # AllHours
  BY HoursAreNat DEF RowOK, AllHours
<1>3. CASE ~IsBatch(w)
  <2>1. w.owner = Generic => KeyOf(r, 1, w)
    BY <1>1, <1>2, <1>3, StepFacts DEF KeyOf
  <2>2. w.owner # Generic => KeyOf(r, 2, w)
    BY <1>1, <1>2, <1>3, StepFacts DEF KeyOf
  <2> QED
    BY <2>1, <2>2
<1>4. CASE IsBatch(w)
  <2>1. w.owner = Generic /\ w.hour = AllHours => KeyOf(r, 3, w)
    BY <1>4, StepFacts DEF KeyOf
  <2>2. w.owner = Generic /\ w.hour # AllHours => KeyOf(r, 4, w)
    BY <1>1, <1>4, StepFacts DEF KeyOf
  <2>3. w.owner # Generic /\ w.hour = AllHours => KeyOf(r, 5, w)
    BY <1>1, <1>4, StepFacts DEF KeyOf
  <2>4. w.owner # Generic /\ w.hour # AllHours => KeyOf(r, 6, w)
    BY <1>1, <1>4, StepFacts DEF KeyOf
  <2> QED
    BY <2>1, <2>2, <2>3, <2>4
<1> QED
  BY <1>3, <1>4

\* The rows of the current step's statistic.
LEMMA KeyIsOwnerAndHour ==
    ASSUME NEW r, NEW w
    PROVE  KeyOf(r, step[r], w) <=>
             /\ IsBatch(w) <=> Steps[step[r]].table = "cdf"
             /\ w.owner = Owner(r) /\ w.hour = Hour(r)
  BY DEF KeyOf, Owner, Hour

\* The owner and the hour of a step are such, and r's session is one of them.
LEMMA StepOwner ==
    ASSUME NEW r \in Sessions, sess[r] \in Completed, sess[r] # None,
           step[r] \in 1 .. 6
    PROVE  /\ Owner(r) \in Owners /\ Hour(r) \in Hours
           /\ Steps[step[r]].table = "stats" => Hour(r) \in LocalHours
           /\ r \in EndedOf(Owner(r), Hour(r))
           /\ Owner(r) # Generic => Owner(r) = sess[r].charger
<1>1. sess[r].charger \in Chargers /\ sess[r].hour \in LocalHours
  BY CompletedFields
<1>2. r \in Ended
  BY DEF Ended
<1> QED
  BY <1>1, <1>2, StepFacts DEF Owner, Hour, Owners, Hours, EndedOf

------------------------------------------------------------------------------
(* What is read. *)

\* Committed rows of known time include a newest one.
LEMMA NewestExists ==
    ASSUME NEW B, B # {}, clock \in Nat,
           \A w \in B : w.at \in Nat /\ w.at <= clock
    PROVE  Newest(B) # {}
<1> DEFINE Age(w) == clock - w.at
           T == {Age(w) : w \in B}
<1>1. T \subseteq Nat /\ T # {}
  OBVIOUS
<1>2. PICK x \in T : \A y \in T : x <= y
  <2> HIDE DEF T
  <2> QED
    BY <1>1, LeastExists
<1>3. PICK b \in B : x = Age(b)
  BY <1>2
<1>4. ASSUME NEW c \in B PROVE c.at <= b.at
  <2>1. Age(b) <= Age(c)
    BY <1>2, <1>3
  <2> QED
    BY <2>1
<1>5. b \in Newest(B)
  BY <1>4 DEF Newest
<1> QED
  BY <1>5

\* What is read of a statistic is of that statistic.
LEMMA ReadRows ==
    ASSUME Shape, NEW owner, NEW hour
    PROVE  /\ \A w \in LatestStats(owner, hour) :
                /\ w \in stats /\ w.owner = owner /\ w.hour = hour
                /\ RowOK(w) /\ ~IsBatch(w) /\ IsRead(w)
           /\ \A w \in LatestBatches(owner, hour) :
                /\ w \in cdf /\ w.owner = owner /\ w.hour = hour
                /\ RowOK(w) /\ IsBatch(w) /\ IsRead(w)
                /\ \A v \in cdf : v.owner = owner /\ v.hour = hour
                                    => v.n <= w.n
  BY DEF LatestStats, LatestBatches, Newest, Versions, Shape, RowsOK, IsRead

\* Where there is a row there is one to read.
LEMMA StatsAreRead ==
    ASSUME Shape, NEW owner, NEW hour, LatestStats(owner, hour) = {}
    PROVE  \A w \in stats : ~(w.owner = owner /\ w.hour = hour)
<1> DEFINE B == {w \in stats : w.owner = owner /\ w.hour = hour}
<1>1. \A w \in B : w.at \in Nat /\ w.at <= clock
  BY DEF Shape, RowsOK, RowOK
<1>2. Newest(B) = {} /\ clock \in Nat
  BY DEF LatestStats, Shape, TypesOK
<1>3. B = {}
  <2> HIDE DEF B
  <2> QED
    BY <1>1, <1>2, NewestExists
<1> QED
  BY <1>3

LEMMA BatchesAreRead ==
    ASSUME Shape, Calm, NEW owner, NEW hour, LatestBatches(owner, hour) = {}
    PROVE  \A w \in cdf : ~(w.owner = owner /\ w.hour = hour)
<1> DEFINE B == {b \in cdf : b.owner = owner /\ b.hour = hour}
<1>1. \A w \in B : w.at \in Nat /\ w.at <= clock
  BY DEF Shape, RowsOK, RowOK
<1>2. clock \in Nat /\ Versions(B) = {}
  BY DEF LatestBatches, Shape, TypesOK
<1>3. \A v, w \in B : v.at <= w.at <=> v.n <= w.n
  <2>1. \A v, w \in B : v \in cdf /\ w \in cdf /\ Same(v, w)
    BY DEF Same, Shape, RowsOK
  <2> QED
    BY <2>1 DEF Calm, Ordered
<1>4. Newest(B) \subseteq Versions(B)
  <2> HIDE DEF B
  <2> QED
    BY <1>3 DEF Newest, Versions
<1>5. B = {}
  <2> HIDE DEF B
  <2> QED
    BY <1>1, <1>2, <1>4, NewestExists
<1> QED
  BY <1>5

\* While updates do not overlap there is only one.
LEMMA OneIsRead ==
    ASSUME Shape, Calm, NEW owner, NEW hour
    PROVE  /\ \A v, w \in LatestStats(owner, hour) : v = w
           /\ \A v, w \in LatestBatches(owner, hour) : v = w
<1>1. ASSUME NEW v \in LatestStats(owner, hour), NEW w \in LatestStats(owner, hour)
      PROVE  v = w
  <2>1. /\ v \in Committed /\ w \in Committed /\ Same(v, w)
    BY <1>1, ReadRows DEF Committed, Same
  <2>2. v.at <= w.at /\ w.at <= v.at /\ v.at \in Nat /\ w.at \in Nat
    BY <1>1, ReadRows DEF LatestStats, Newest, RowOK
  <2> QED
    BY <2>1, <2>2 DEF Calm, Ordered
<1>2. ASSUME NEW v \in LatestBatches(owner, hour),
             NEW w \in LatestBatches(owner, hour)
      PROVE  v = w
  <2>1. /\ v \in Committed /\ w \in Committed /\ Same(v, w)
        /\ v \in cdf /\ w \in cdf
    BY <1>2, ReadRows DEF Committed, Same
  <2>2. v.n <= w.n /\ w.n <= v.n /\ Same(w, v)
    BY <1>2, ReadRows DEF Same
  <2>3. v.at <= w.at /\ w.at <= v.at
    BY <2>1, <2>2 DEF Calm, Ordered
  <2>4. v.at \in Nat /\ w.at \in Nat
    BY <1>2, ReadRows DEF RowOK
  <2> QED
    BY <2>1, <2>3, <2>4 DEF Calm, Ordered
<1> QED
  BY <1>1, <1>2

------------------------------------------------------------------------------
(* Steps that commit nothing. *)

\* What is said of rows depends on the tables and the sessions only.
LEMMA ReadsDoNotMove ==
    ASSUME sess' = sess, stats' = stats, cdf' = cdf
    PROVE  /\ \A w : IsRead(w)' <=> IsRead(w)
           /\ \A w, s : Accounts(w, s)' <=> Accounts(w, s)
           /\ \A owner, hour : EndedOf(owner, hour)' = EndedOf(owner, hour)
           /\ Committed' = Committed
  BY DEF IsRead, LatestStats, LatestBatches, Accounts, Counts, EndedOf, Ended,
         Committed

LEMMA RowsDoNotMove ==
    ASSUME sess' = sess, clock' = clock
    PROVE  \A w : RowOK(w)' <=> RowOK(w)
  BY DEF RowOK, Counts

\* The clock moves on.
LEMMA RowsStay ==
    ASSUME clock \in Nat, clock' \in Nat, clock <= clock',
           \A s \in Sessions : sess[s] # None => sess'[s] # None,
           NEW w, RowOK(w)
    PROVE  RowOK(w)'
  BY DEF RowOK, Counts

\* Nobody's update is over who was not over before.
SameEnds ==
    \A s \in Sessions :
        /\ pc'[s] = "done" <=> pc[s] = "done"
        /\ pc'[s] \in {"done", "failed"} <=> pc[s] \in {"done", "failed"}

\* The part of Calm about the tables, without a commit.
LEMMA TablesStayCalm ==
    ASSUME Shape, Calm, sess' = sess, stats' = stats, cdf' = cdf,
           SameEnds
    PROVE  /\ Ordered'
           /\ \A w \in Committed' :
                (CountsOnce(w) /\ (IsRead(w) => AccountsForAll(w)))'
<1>1. Ordered'
  BY DEF Calm, Ordered, Committed
<1>2. ASSUME NEW w \in Committed
      PROVE  CountsOnce(w)' /\ (IsRead(w)' => AccountsForAll(w)')
  <2>1. CountsOnce(w)'
    BY <1>2 DEF Calm, CountsOnce, Counts, SameEnds
  <2>2. AccountsForAll(w) => AccountsForAll(w)'
    BY ReadsDoNotMove DEF AccountsForAll, SameEnds, EndedOf, Ended
  <2> QED
    BY <1>2, <2>1, <2>2, ReadsDoNotMove DEF Calm
<1> QED
  BY <1>1, <1>2, ReadsDoNotMove

\* A row that was added stays what it was.
LEMMA NewStaysOK ==
    ASSUME sess' = sess, stats' = stats, cdf' = cdf, SameEnds,
           NEW r, start'[r] = start[r], NEW w, NewOK(r, w)
    PROVE  NewOK(r, w)'
<1>1. AccountsForAll(w)'
  BY ReadsDoNotMove DEF NewOK, AccountsForAll, SameEnds, EndedOf, Ended
<1>2. Accounts(w, r)'
  BY ReadsDoNotMove DEF NewOK
<1>3. \A v \in Committed' :
        Same(v, w) /\ (IsBatch(v) \/ IsRead(v)') => v.n < w.n
  BY ReadsDoNotMove DEF NewOK
<1> QED
  BY <1>1, <1>2, <1>3 DEF NewOK, SameEnds, Counts

\* What the current step of r adds.
Adds(r, rows) ==
    /\ \A w \in rows : RowOK(w) /\ KeyOf(r, step[r], w)
    /\ plain =>
         /\ \A w \in rows : NewOK(r, w)
         /\ \A v, w \in rows : v = w
         /\ \A w \in Committed : KeyOf(r, step[r], w) =>
              \/ rows # {}
              \/ w.owner = Generic /\ ~IsBatch(w)
                 /\ ~Within(sess[r].plugged)

\* Whose transaction goes on to its next step.
LEMMA AdvanceFrame ==
    ASSUME TypesOK, NEW r \in Processes, NEW rows, Advance(r, rows)
    PROVE  /\ DOMAIN new' = Processes
           /\ new'[r] = new[r] \cup rows
           /\ pc' \in [Processes -> Working \cup {"idle", "done", "failed"}]
           /\ step' \in [Processes -> 0 .. 6]
           /\ \A q \in Processes \ {r} :
                /\ new'[q] = new[q] /\ pc'[q] = pc[q] /\ step'[q] = step[q]
           /\ \/ /\ step[r] = 6 /\ pc'[r] = "commit" /\ step'[r] = 6
              \/ /\ step[r] # 6 /\ pc'[r] = "look"
                 /\ step'[r] = step[r] + 1 /\ step[r] + 1 \in 1 .. 6
<1>1. Len(Steps) = 6
  BY StepFacts
<1>2. step[r] \in 0 .. 6
  BY DEF TypesOK
<1>3. /\ DOMAIN new' = Processes
      /\ new'[r] = new[r] \cup rows
      /\ \A q \in Processes \ {r} : new'[q] = new[q]
  BY DEF Advance, TypesOK
<1>4. CASE step[r] = 6
  <2>1. pc' = [pc EXCEPT ![r] = "commit"] /\ step' = step
    BY <1>1, <1>4 DEF Advance
  <2> QED
    BY <1>3, <1>4, <2>1 DEF TypesOK, Working
<1>5. CASE step[r] # 6
  <2>1. /\ pc' = [pc EXCEPT ![r] = "look"]
        /\ step' = [step EXCEPT ![r] = step[r] + 1]
    BY <1>1, <1>5 DEF Advance
  <2>2. step[r] + 1 \in 1 .. 6
    BY <1>2, <1>5
  <2> QED
    BY <1>3, <1>5, <2>1, <2>2 DEF TypesOK, Working
<1> QED
  BY <1>4, <1>5

\* A step that adds such rows keeps the invariant of every behaviour.
LEMMA AdvanceShape ==
    ASSUME IInv, NEW r \in Sessions, NEW rows,
           pc[r] \in {"look", "rebuild", "online"},
           Advance(r, rows), Adds(r, rows),
           UNCHANGED <<sess, start, stats, cdf, clock, ends, file, plain>>
    PROVE  Shape'
<1>1. TypesOK /\ r \in Processes /\ PlaceOK(r) /\ r # Importer
  BY ImporterIsNoSession DEF IInv, Shape, Processes
<1>2. /\ new'[r] = new[r] \cup rows
      /\ \A q \in Processes \ {r} :
           new'[q] = new[q] /\ pc'[q] = pc[q] /\ step'[q] = step[q]
      /\ \/ /\ step[r] = 6 /\ pc'[r] = "commit" /\ step'[r] = 6
         \/ /\ step[r] # 6 /\ pc'[r] = "look"
            /\ step'[r] = step[r] + 1 /\ step[r] + 1 \in 1 .. 6
  BY <1>1, AdvanceFrame
<1>3. TypesOK'
  BY <1>1, AdvanceFrame DEF TypesOK
<1>4. RowsOK'
  <2>1. ASSUME NEW p \in Processes, NEW w \in new'[p] PROVE RowOK(w)'
    <3>1. RowOK(w)
      BY <1>2, <2>1 DEF IInv, Shape, RowsOK, Adds
    <3> QED
      BY <3>1, RowsDoNotMove
  <2>2. \A w \in stats' : RowOK(w)' /\ ~IsBatch(w)
    BY RowsDoNotMove DEF IInv, Shape, RowsOK
  <2>3. \A w \in cdf' : RowOK(w)' /\ IsBatch(w)
    BY RowsDoNotMove DEF IInv, Shape, RowsOK
  <2> QED
    BY <2>1, <2>2, <2>3 DEF RowsOK
<1>5. ASSUME NEW p \in Processes PROVE PlaceOK(p)'
  <2>1. PlaceOK(p)
    BY DEF IInv, Shape
  <2>2. CASE p = r
    BY <1>1, <1>2, <2>2 DEF PlaceOK, Working
  <2>3. CASE p # r
    BY <1>2, <2>1, <2>3 DEF PlaceOK
  <2> QED
    BY <2>2, <2>3
<1>6. /\ Ended' = Ended /\ pc'[Importer] = pc[Importer]
  BY <1>1, <1>2 DEF Ended, Processes
<1> QED
  BY <1>3, <1>4, <1>5, <1>6 DEF IInv, Shape

\* ... and the one of updates one at a time.
LEMMA AdvanceCalm ==
    ASSUME IInv, plain, NEW r \in Sessions, NEW rows,
           pc[r] \in {"look", "rebuild", "online"},
           Advance(r, rows), Adds(r, rows),
           UNCHANGED <<sess, start, stats, cdf, clock, ends, file, plain>>
    PROVE  Calm'
<1>1. TypesOK /\ r \in Processes /\ PlaceOK(r) /\ r # Importer /\ Shape /\ Calm
  BY ImporterIsNoSession DEF IInv, Shape, Processes
<1>2. /\ new'[r] = new[r] \cup rows
      /\ \A q \in Processes \ {r} :
           new'[q] = new[q] /\ pc'[q] = pc[q] /\ step'[q] = step[q]
      /\ \/ /\ step[r] = 6 /\ pc'[r] = "commit" /\ step'[r] = 6
         \/ /\ step[r] # 6 /\ pc'[r] = "look"
            /\ step'[r] = step[r] + 1 /\ step[r] + 1 \in 1 .. 6
  BY <1>1, AdvanceFrame
<1>3. SameEnds /\ InFlight' = InFlight /\ r \in InFlight
  BY <1>1, <1>2 DEF SameEnds, InFlight, Working, Processes
<1>4. InFlight = {r}
  BY <1>1, <1>3 DEF Calm
<1>5. sess[r] \in Completed /\ step[r] \in 1 .. 6
  BY <1>1 DEF PlaceOK, TypesOK, Working
<1>6. /\ WorkOK(r)
      /\ \A w \in rows : NewOK(r, w) /\ KeyOf(r, step[r], w)
      /\ \A v, w \in rows : v = w
  BY <1>1, <1>3 DEF Calm, Adds
<1>7. /\ \A i \in Past(r) : i \in Past(r)'
      /\ step[r] \in Past(r)'
      /\ \A i \in Ahead(r) : i = step[r] \/ i \in Ahead(r)'
  BY <1>1, <1>2, <1>5 DEF Past, Ahead, TypesOK
<1>8. \A i, w : KeyOf(r, i, w)' <=> KeyOf(r, i, w)
  BY DEF KeyOf
<1>9. \A w \in new'[r] : NewOK(r, w)' /\ \E i \in Past(r)' : KeyOf(r, i, w)'
  <2>1. ASSUME NEW w \in new'[r] PROVE NewOK(r, w)'
    <3>1. NewOK(r, w)
      BY <1>2, <1>6, <2>1 DEF WorkOK
    <3> QED
      BY <1>3, <3>1, NewStaysOK
  <2>2. ASSUME NEW w \in new'[r] PROVE \E i \in Past(r)' : KeyOf(r, i, w)
    BY <1>2, <1>6, <1>7, <2>2 DEF WorkOK
  <2> QED
    BY <1>8, <2>1, <2>2
<1>10. \A v, w \in new'[r] : Same(v, w) => v = w
  <2>1. ASSUME NEW v \in new[r], NEW w \in rows PROVE ~Same(v, w)
    <3>1. PICK i \in Past(r) : KeyOf(r, i, v)
      BY <1>6 DEF WorkOK
    <3>2. i \in 1 .. 6 /\ i # step[r]
      BY <1>1, <1>5 DEF Past
    <3> QED
      BY <1>5, <1>6, <3>1, <3>2, KeysDiffer
  <2>2. \A v, w : Same(v, w) <=> Same(w, v)
    BY DEF Same
  <2> QED
    BY <1>2, <1>6, <2>1, <2>2 DEF WorkOK
<1>11. \A w \in Committed : r \in EndedOf(w.owner, w.hour) =>
         \/ \E i \in Ahead(r)' : KeyOf(r, i, w)
         \/ \E v \in new'[r] : Same(v, w)
         \/ w.owner = Generic /\ ~IsBatch(w) /\ ~Within(sess[r].plugged)
  <2>1. ASSUME NEW w \in Committed, r \in EndedOf(w.owner, w.hour)
        PROVE  \/ \E i \in Ahead(r)' : KeyOf(r, i, w)
               \/ \E v \in new'[r] : Same(v, w)
               \/ w.owner = Generic /\ ~IsBatch(w) /\ ~Within(sess[r].plugged)
    <3>1. CASE KeyOf(r, step[r], w)
      <4>1. ASSUME NEW v \in rows PROVE Same(v, w)
        BY <1>6, <3>1 DEF KeyOf, Same
      <4> QED
        BY <1>2, <2>1, <3>1, <4>1 DEF Adds
    <3>2. CASE ~KeyOf(r, step[r], w)
      BY <1>1, <1>2, <1>6, <1>7, <2>1, <3>2 DEF WorkOK
    <3> QED
      BY <3>1, <3>2
  <2> QED
    BY <2>1
<1>12. WorkOK(r)'
  <2>1. \A w \in Committed' : w.at < start'[r]
    BY <1>1, <1>6, ReadsDoNotMove DEF WorkOK
  <2>2. \A w \in Committed' : r \in EndedOf(w.owner, w.hour)' =>
          \/ \E i \in Ahead(r)' : KeyOf(r, i, w)'
          \/ \E v \in new'[r] : Same(v, w)
          \/ w.owner = Generic /\ ~IsBatch(w) /\ ~Within(sess'[r].plugged)
    BY <1>8, <1>11, ReadsDoNotMove
  <2> QED
    BY <1>2, <1>9, <1>10, <2>1, <2>2 DEF WorkOK
<1>13. pc'[Importer] = "idle"
  BY <1>1, <1>2 DEF Calm, Processes
<1>14. \A s \in Ended' : pc'[s] # "idle"
  BY <1>1, <1>2 DEF Calm, Ended, Processes
<1> QED
  BY <1>1, <1>3, <1>4, <1>12, <1>13, <1>14, TablesStayCalm DEF Calm

------------------------------------------------------------------------------
(* What each step adds. *)

\* What r knows at each of its steps.
LEMMA AtStep ==
    ASSUME IInv, NEW r \in Sessions, pc[r] \in {"look", "rebuild", "lock", "online"}
    PROVE  /\ r \in Processes /\ r # Importer /\ r \in InFlight
           /\ sess[r] \in Completed /\ sess[r] # None
           /\ step[r] \in 1 .. 6 /\ start[r] \in Nat \ {0} /\ start[r] <= clock
           /\ Owner(r) \in Owners /\ Hour(r) \in Hours
           /\ Steps[step[r]].table = "stats" => Hour(r) \in LocalHours
           /\ r \in EndedOf(Owner(r), Hour(r))
           /\ Owner(r) # Generic => Owner(r) = sess[r].charger
           /\ Plugged[r] = sess[r].plugged /\ Plugged[r] \in Nat
           /\ plain => WorkOK(r)
<1>1. r \in Processes /\ r # Importer /\ PlaceOK(r) /\ TypesOK
  BY ImporterIsNoSession DEF IInv, Shape, Processes
<1>2. r \in InFlight
  BY <1>1 DEF InFlight, Working
<1>3. /\ sess[r] \in Completed /\ sess[r] # None
      /\ step[r] \in 1 .. 6 /\ start[r] \in Nat \ {0} /\ start[r] <= clock
  BY <1>1 DEF PlaceOK, TypesOK, Working
<1>4. Plugged[r] = sess[r].plugged /\ Plugged[r] \in Nat
  BY <1>3, CompletedFields DEF Plugged, Ended
<1> QED
  BY <1>1, <1>2, <1>3, <1>4, StepOwner DEF IInv, Calm

\* w continues v with r's session.
Continues(r, v, w) ==
    /\ Same(v, w) /\ w.n = v.n + 1 /\ w.at = start[r]
    /\ w.bag = With(v.bag, r, "plugged")

\* A row that continues what is read may be added.
LEMMA ContinuedRow ==
    ASSUME IInv, NEW r \in Sessions, pc[r] \in {"look", "online"},
           NEW v \in Committed, KeyOf(r, step[r], v), RowOK(v), IsRead(v),
           NEW w, Continues(r, v, w), IsBatch(w) => Distribution(w)
    PROVE  RowOK(w) /\ KeyOf(r, step[r], w) /\ (plain => NewOK(r, w))
<1>1. /\ v.bag \in Bags /\ "plugged" \in Measures /\ w.bag \in Bags
      /\ \A t \in Sessions :
           /\ Times(v.bag, t) \in Nat
           /\ Times(w.bag, t) = Times(v.bag, t) + IF t = r THEN 1 ELSE 0
  <2>1. v.bag \in Bags /\ "plugged" \in Measures
    BY DEF RowOK, Measures
  <2> QED
    BY <2>1, WithCounts, TimesIsNat DEF Continues
<1>2. RowOK(w)
  <2>1. \A s \in Sessions : Counts(w, s) => sess[s] # None
    BY <1>1, AtStep DEF Counts, RowOK
  <2>2. w.n \in Nat \ {0} /\ w.at \in Nat \ {0} /\ w.at <= clock
    BY AtStep DEF RowOK, Continues
  <2> QED
    BY <1>1, <2>1, <2>2 DEF RowOK, Continues, Same
<1>3. KeyOf(r, step[r], w)
  BY DEF KeyOf, Continues, Same
<1>4. ASSUME plain PROVE NewOK(r, w)
  <2>1. Calm /\ CountsOnce(v) /\ AccountsForAll(v)
    BY <1>4 DEF IInv, Calm
  <2>2. Times(v.bag, r) = 0
    BY <1>1, <2>1 DEF CountsOnce, Counts
  <2>3. \A s \in Sessions :
          /\ Times(w.bag, s) <= 1
          /\ Counts(w, s) => s = r \/ pc[s] \in {"done", "failed"}
    BY <1>1, <2>1, <2>2 DEF CountsOnce, Counts
  <2>4. \A s \in Sessions : Accounts(v, s) => Accounts(w, s)
    BY <1>1 DEF Accounts, Counts, Continues, Same
  <2>5. Accounts(w, r)
    BY <1>1 DEF Accounts, Counts
  <2>6. AccountsForAll(w)
    BY <2>1, <2>4 DEF AccountsForAll, Continues, Same, EndedOf, Ended
  <2>7. ASSUME NEW u \in Committed, Same(u, w), IsBatch(u) \/ IsRead(u)
        PROVE  u.n < w.n
    <3>1. RowOK(u) /\ Same(u, v)
      BY <2>7 DEF Committed, IInv, Shape, RowsOK, Same, Continues
    <3>2. CASE IsBatch(u)
      <4>1. v \in LatestBatches(v.owner, v.hour) /\ u \in cdf
        BY <3>1, <3>2 DEF IsRead, Same, Committed, IInv, Shape, RowsOK
      <4>2. u.n <= v.n
        BY <3>1, <4>1, ReadRows DEF Same, IInv
      <4> QED
        BY <3>1, <4>2 DEF RowOK, Continues
    <3>3. CASE ~IsBatch(u)
      <4>1. /\ u \in LatestStats(v.owner, v.hour)
            /\ v \in LatestStats(v.owner, v.hour)
        BY <2>7, <3>1, <3>3 DEF IsRead, Same
      <4>2. u = v
        BY <2>1, <4>1, OneIsRead DEF IInv
      <4> QED
        BY <4>2 DEF RowOK, Continues
    <3> QED
      BY <3>2, <3>3
  <2> QED
    BY <2>3, <2>5, <2>6, <2>7 DEF NewOK, Continues
<1> QED
  BY <1>2, <1>3, <1>4

\* w is rebuilt from the sessions S.
Rebuilt(r, S, w) ==
    /\ S # {} /\ S \subseteq EndedOf(Owner(r), Hour(r))
    /\ w.owner = Owner(r) /\ w.hour = Hour(r)
    /\ IsBatch(w) <=> Steps[step[r]].table = "cdf"
    /\ w.n = Cardinality(S) /\ w.at = start[r]
    /\ \E m \in Measures : w.bag = BagOf(S, m)
    /\ \A s \in EndedOf(Owner(r), Hour(r)) \ S :
         Owner(r) = Generic /\ ~IsBatch(w) /\ ~Within(sess[s].plugged)

\* A rebuilt row may be added.
LEMMA RebuiltRow ==
    ASSUME IInv, NEW r \in Sessions, pc[r] = "rebuild", NEW S, NEW w,
           Rebuilt(r, S, w), IsBatch(w) => Distribution(w)
    PROVE  RowOK(w) /\ KeyOf(r, step[r], w) /\ (plain => NewOK(r, w))
<1>1. /\ S \subseteq Sessions /\ S # {}
      /\ w.owner = Owner(r) /\ w.hour = Hour(r)
      /\ IsBatch(w) <=> Steps[step[r]].table = "cdf"
      /\ w.n = Cardinality(S) /\ w.at = start[r]
  BY DEF Rebuilt, EndedOf, Ended
<1>2. w.n \in Nat \ {0}
  BY <1>1, SomeSessions
<1>3. /\ w.bag \in Bags
      /\ \A s \in Sessions : Times(w.bag, s) = IF s \in S THEN 1 ELSE 0
  BY BagOfCounts DEF Rebuilt
<1>4. \A s \in Sessions : Counts(w, s) <=> s \in S
  BY <1>3 DEF Counts
<1>5. \A s \in S : sess[s] # None
  BY DEF Rebuilt, EndedOf, Ended
<1>6. RowOK(w)
  <2>1. \/ Steps[step[r]].table = "stats"
        \/ Steps[step[r]].table = "cdf"
    BY AtStep, StepFacts
  <2> QED
    BY <1>1, <1>2, <1>3, <1>4, <1>5, <2>1, AtStep DEF RowOK
<1>7. KeyOf(r, step[r], w)
  BY <1>1, KeyIsOwnerAndHour
<1>8. ASSUME plain PROVE NewOK(r, w)
  <2>1. Calm /\ WorkOK(r)
    BY <1>8, AtStep DEF IInv
  <2>2. \A s \in Sessions :
          /\ Times(w.bag, s) <= 1
          /\ Counts(w, s) => s = r \/ pc[s] \in {"done", "failed"}
    <3>1. ASSUME NEW s \in S, s # r PROVE pc[s] \in {"done", "failed"}
      <4>1. s \in Ended /\ s \in Processes
        BY <1>1, <1>5 DEF Ended, Processes
      <4>2. pc[s] \notin Working
        BY <2>1, <3>1, <4>1, AtStep DEF Calm, InFlight
      <4>3. pc[s] # "idle"
        BY <2>1, <4>1 DEF Calm
      <4> QED
        BY <4>1, <4>2, <4>3 DEF IInv, Shape, TypesOK
    <3> QED
      BY <1>3, <1>4, <3>1
  <2>3. \A s \in EndedOf(Owner(r), Hour(r)) : Accounts(w, s)
    BY <1>1, <1>4 DEF Accounts, Rebuilt, EndedOf, Ended
  <2>4. Accounts(w, r) /\ AccountsForAll(w)
    BY <1>1, <2>3, AtStep DEF AccountsForAll
  <2>5. ASSUME NEW v \in Committed PROVE ~Same(v, w)
    BY <1>7, <2>1, <2>5 DEF WorkOK, KeyOf, Same
  <2> QED
    BY <1>1, <2>2, <2>4, <2>5 DEF NewOK
<1> QED
  BY <1>6, <1>7, <1>8

\* What update_ev_forecast adds to a row that is there ...
LEMMA LookStatsAdds ==
    ASSUME IInv, NEW r \in Sessions, Doing(r, "look", "stats"),
           NEW v \in LatestStats(Owner(r), Hour(r)),
           NEW rows,
           rows = IF Owner(r) = Generic /\ ~Within(Plugged[r]) THEN {}
                  ELSE {NextStat(v, r, Plugged[r], start[r])}
    PROVE  Adds(r, rows)
<1>1. pc[r] = "look" /\ Steps[step[r]].table = "stats"
  BY DEF Doing
<1>2. /\ v \in Committed /\ v.owner = Owner(r) /\ v.hour = Hour(r)
      /\ RowOK(v) /\ ~IsBatch(v) /\ IsRead(v)
  BY ReadRows DEF IInv, Committed
<1>3. KeyOf(r, step[r], v)
  BY <1>1, <1>2, KeyIsOwnerAndHour
<1>4. ASSUME NEW w, w = NextStat(v, r, Plugged[r], start[r])
      PROVE  RowOK(w) /\ KeyOf(r, step[r], w) /\ (plain => NewOK(r, w))
  <2>1. /\ ~IsBatch(w) /\ w.owner = v.owner /\ w.hour = v.hour
        /\ w.n = v.n + 1 /\ w.bag = With(v.bag, r, "plugged")
        /\ w.at = start[r]
    <3> DEFINE u == UpdateOnline(v.mean, Mult(v.spread, Whole(v.n)), v.n, Plugged[r])
    <3>1. u.n = v.n + 1
      BY DEF UpdateOnline
    <3>2. w = StatRow(v.owner, v.hour, u.n, u.mean, Over(u.var, u.n),
                      With(v.bag, r, "plugged"), start[r])
      BY <1>4 DEF NextStat
    <3> HIDE DEF u
    <3> QED
      BY <3>1, <3>2, StatFields
  <2>2. Continues(r, v, w)
    BY <1>2, <2>1 DEF Continues, Same
  <2> QED
    BY <1>1, <1>2, <1>3, <2>1, <2>2, ContinuedRow
<1>5. CASE Owner(r) = Generic /\ ~Within(Plugged[r])
  <2>1. ASSUME NEW w, KeyOf(r, step[r], w)
        PROVE  w.owner = Generic /\ ~IsBatch(w) /\ ~Within(sess[r].plugged)
    BY <1>1, <1>5, <2>1, AtStep, KeyIsOwnerAndHour
  <2>2. rows = {}
    BY <1>5
  <2> QED
    BY <2>1, <2>2 DEF Adds
<1>6. CASE ~(Owner(r) = Generic /\ ~Within(Plugged[r]))
  <2>1. PICK w : w = NextStat(v, r, Plugged[r], start[r])
    OBVIOUS
  <2>2. rows = {w}
    BY <1>6, <2>1
  <2> QED
    BY <1>4, <2>1, <2>2 DEF Adds
<1> QED
  BY <1>5, <1>6

\* ... and to begin one.
LEMMA RebuildStatsAdds ==
    ASSUME IInv, NEW r \in Sessions, Doing(r, "rebuild", "stats"), NEW rows,
           rows = IF Owner(r) = Generic THEN FleetStat(r) ELSE ChargerStat(r)
    PROVE  Adds(r, rows)
<1>1. pc[r] = "rebuild" /\ Steps[step[r]].table = "stats"
  BY DEF Doing
<1>2. plain => \A w \in Committed : ~KeyOf(r, step[r], w)
  BY <1>1, AtStep DEF WorkOK
<1>3. ASSUME NEW S, NEW f, NEW m \in Measures, NEW w,
             w = StatFrom(Owner(r), Hour(r), S, f, m, start[r]),
             S # {}, S \subseteq EndedOf(Owner(r), Hour(r)),
             \A s \in EndedOf(Owner(r), Hour(r)) \ S :
                Owner(r) = Generic /\ ~Within(sess[s].plugged)
      PROVE  RowOK(w) /\ KeyOf(r, step[r], w) /\ (plain => NewOK(r, w))
  <2>1. /\ ~IsBatch(w) /\ w.owner = Owner(r) /\ w.hour = Hour(r)
        /\ w.n = Cardinality(S) /\ w.bag = BagOf(S, m) /\ w.at = start[r]
    BY <1>3, StatFields DEF StatFrom
  <2>2. Rebuilt(r, S, w)
    BY <1>1, <1>3, <2>1 DEF Rebuilt
  <2> QED
    BY <1>1, <2>1, <2>2, RebuiltRow
<1>4. ASSUME NEW s \in EndedOf(Owner(r), Hour(r)), ~Within(Charged[s])
      PROVE  ~Within(sess[s].plugged)
  <2>1. s \in Ended /\ sess[s] \in Completed /\ Charged[s] = sess[s].charged
    BY DEF EndedOf, Ended, Charged, IInv, Shape, TypesOK
  <2>2. /\ sess[s].charged <= sess[s].plugged
        /\ sess[s].charged \in Int /\ sess[s].plugged \in Int
    BY <2>1, CompletedFields
  <2> QED
    BY <1>4, <2>1, <2>2, LimitIsInt DEF Within
<1>5. CASE Owner(r) = Generic
  <2> DEFINE S == {s \in EndedOf(Generic, Hour(r)) : Within(Charged[s])}
  <2>1. /\ S \subseteq EndedOf(Owner(r), Hour(r))
        /\ \A s \in EndedOf(Owner(r), Hour(r)) \ S :
             Owner(r) = Generic /\ ~Within(sess[s].plugged)
    BY <1>4, <1>5
  <2>2. rows = IF S # {}
                 THEN {StatFrom(Owner(r), Hour(r), S, Charged, "charged",
                                start[r])}
               ELSE IF Within(Plugged[r])
                 THEN {StatFrom(Owner(r), Hour(r), {r}, Plugged, "plugged",
                                start[r])}
               ELSE {}
    BY <1>5 DEF FleetStat
  <2>3. "charged" \in Measures /\ "plugged" \in Measures
    BY DEF Measures
  <2> HIDE DEF S
  <2>4. CASE S # {}
    <3>1. PICK w : w = StatFrom(Owner(r), Hour(r), S, Charged, "charged",
                                start[r])
      OBVIOUS
    <3>2. rows = {w}
      BY <2>2, <2>4, <3>1
    <3>3. RowOK(w) /\ KeyOf(r, step[r], w) /\ (plain => NewOK(r, w))
      BY <1>3, <2>1, <2>3, <2>4, <3>1
    <3> QED
      BY <3>2, <3>3 DEF Adds
  <2>5. CASE S = {} /\ Within(Plugged[r])
    <3>1. PICK w : w = StatFrom(Owner(r), Hour(r), {r}, Plugged, "plugged",
                                start[r])
      OBVIOUS
    <3>2. rows = {w}
      BY <2>2, <2>5, <3>1
    <3>3. /\ {r} \subseteq EndedOf(Owner(r), Hour(r))
          /\ \A s \in EndedOf(Owner(r), Hour(r)) \ {r} :
               Owner(r) = Generic /\ ~Within(sess[s].plugged)
      BY <1>1, <2>1, <2>5, AtStep
    <3>4. RowOK(w) /\ KeyOf(r, step[r], w) /\ (plain => NewOK(r, w))
      BY <1>3, <2>3, <3>1, <3>3
    <3> QED
      BY <3>2, <3>4 DEF Adds
  <2>6. CASE S = {} /\ ~Within(Plugged[r])
    <3>1. rows = {}
      BY <2>2, <2>6
    <3> QED
      BY <1>2, <3>1 DEF Adds
  <2> QED
    BY <2>4, <2>5, <2>6
<1>6. CASE Owner(r) # Generic
  <2> DEFINE S == EndedOf(Owner(r), Hour(r))
  <2>1. S # {}
    BY <1>1, AtStep
  <2>2. rows = IF Cardinality(S) >= MinSessions
                 THEN {StatFrom(Owner(r), Hour(r), S, Charged, "charged",
                                start[r])}
               ELSE {}
    BY <1>6 DEF ChargerStat
  <2>3. "charged" \in Measures
    BY DEF Measures
  <2>4. CASE Cardinality(S) >= MinSessions
    <3>1. PICK w : w = StatFrom(Owner(r), Hour(r), S, Charged, "charged",
                                start[r])
      OBVIOUS
    <3>2. rows = {w}
      BY <2>2, <2>4, <3>1
    <3>3. RowOK(w) /\ KeyOf(r, step[r], w) /\ (plain => NewOK(r, w))
      BY <1>3, <2>1, <2>3, <3>1
    <3> QED
      BY <3>2, <3>3 DEF Adds
  <2>5. CASE ~(Cardinality(S) >= MinSessions)
    <3>1. rows = {}
      BY <2>2, <2>5
    <3> QED
      BY <1>2, <3>1 DEF Adds
  <2> QED
    BY <2>4, <2>5
<1> QED
  BY <1>5, <1>6

\* What update_ev_duration_cdf adds to begin a distribution ...
LEMMA RebuildCdfAdds ==
    ASSUME IInv, NEW r \in Sessions, Doing(r, "rebuild", "cdf"), NEW S, NEW rows,
           S = EndedOf(Owner(r), Hour(r)),
           \/ rows = {}
           \/ rows = {BatchFrom(Owner(r), Hour(r), S, Plugged, start[r])}
    PROVE  Adds(r, rows)
<1>1. pc[r] = "rebuild" /\ Steps[step[r]].table = "cdf"
  BY DEF Doing
<1>2. plain => \A w \in Committed : ~KeyOf(r, step[r], w)
  BY <1>1, AtStep DEF WorkOK
<1>3. S # {} /\ S \subseteq Sessions /\ \A s \in S : Plugged[s] \in Nat
  <2>1. \A s \in S : s \in Ended /\ sess[s] \in Completed
    BY DEF EndedOf, Ended, IInv, Shape, TypesOK
  <2>2. \A s \in S : Plugged[s] \in Nat
    BY <2>1, CompletedFields DEF Plugged
  <2> QED
    BY <1>1, <2>1, <2>2, AtStep DEF Ended
<1>4. CASE rows = {}
  BY <1>2, <1>4 DEF Adds
<1>5. CASE rows = {BatchFrom(Owner(r), Hour(r), S, Plugged, start[r])}
  <2>1. PICK w : w = BatchFrom(Owner(r), Hour(r), S, Plugged, start[r])
    OBVIOUS
  <2>2. Distribution(w)
    BY <1>3, <2>1, BatchFromIsDistribution
  <2>3. /\ IsBatch(w) /\ w.owner = Owner(r) /\ w.hour = Hour(r)
        /\ w.n = Cardinality(S) /\ w.bag = BagOf(S, "plugged")
        /\ w.at = start[r]
    BY <2>1, BatchFields DEF BatchFrom
  <2>4. Rebuilt(r, S, w)
    BY <1>1, <1>3, <2>3 DEF Rebuilt, Measures
  <2>5. RowOK(w) /\ KeyOf(r, step[r], w) /\ (plain => NewOK(r, w))
    BY <1>1, <2>2, <2>4, RebuiltRow
  <2> QED
    BY <1>5, <2>1, <2>5 DEF Adds
<1> QED
  BY <1>4, <1>5

\* ... and to continue one.
LEMMA OnlineCdfAdds ==
    ASSUME IInv, NEW r \in Sessions, Doing(r, "online", "cdf"), NEW rows,
           rows = {NextBatch(b, r, Plugged[r], start[r]) :
                     b \in LatestBatches(Owner(r), Hour(r))}
    PROVE  Adds(r, rows)
<1>1. pc[r] = "online" /\ Steps[step[r]].table = "cdf"
  BY DEF Doing
<1>2. ASSUME NEW b \in LatestBatches(Owner(r), Hour(r)), NEW w,
             w = NextBatch(b, r, Plugged[r], start[r])
      PROVE  RowOK(w) /\ KeyOf(r, step[r], w) /\ (plain => NewOK(r, w))
  <2>1. /\ b \in Committed /\ b.owner = Owner(r) /\ b.hour = Hour(r)
        /\ RowOK(b) /\ IsBatch(b) /\ IsRead(b) /\ Distribution(b)
    BY ReadRows DEF IInv, Committed, RowOK
  <2>2. KeyOf(r, step[r], b)
    BY <1>1, <2>1, KeyIsOwnerAndHour
  <2>3. Distribution(w)
    BY <1>1, <1>2, <2>1, AtStep, NextBatchIsDistribution
  <2>4. /\ IsBatch(w) /\ w.owner = b.owner /\ w.hour = b.hour
        /\ w.n = b.n + 1 /\ w.bag = With(b.bag, r, "plugged")
        /\ w.at = start[r]
    BY <1>2, BatchFields DEF NextBatch
  <2>5. Continues(r, b, w)
    BY <2>1, <2>4 DEF Continues, Same
  <2> QED
    BY <1>1, <2>1, <2>2, <2>3, <2>5, ContinuedRow
<1>3. ASSUME plain
      PROVE  /\ rows # {}
             /\ \A v, w \in rows : v = w
  <2>1. Calm /\ WorkOK(r) /\ Shape
    BY <1>1, <1>3, AtStep DEF IInv
  <2>2. LatestBatches(Owner(r), Hour(r)) # {}
    BY <1>1, <2>1 DEF WorkOK
  <2>3. \A b, c \in LatestBatches(Owner(r), Hour(r)) : b = c
    BY <2>1, OneIsRead
  <2> QED
    BY <2>2, <2>3
<1> QED
  BY <1>2, <1>3 DEF Adds

\* Every step that adds rows keeps the invariant.
LEMMA StageOK ==
    ASSUME IInv, NEW r \in Sessions, NEW rows,
           pc[r] \in {"look", "rebuild", "online"},
           Advance(r, rows), Adds(r, rows),
           UNCHANGED <<sess, start, stats, cdf, clock, ends, file, plain>>
    PROVE  IInv'
<1>1. Shape'
  BY AdvanceShape
<1>2. plain' => Calm'
  BY AdvanceCalm
<1> QED
  BY <1>1, <1>2 DEF IInv

------------------------------------------------------------------------------
(* The other steps. *)

\* What the current step finds or does not find.
Finds(r, place) ==
    /\ place = "rebuild" => \A w \in Committed : ~KeyOf(r, step[r], w)
    /\ place \in {"lock", "online"} => LatestBatches(Owner(r), Hour(r)) # {}

\* A step that only moves r on.
LEMMA MoveOK ==
    ASSUME IInv, NEW r \in Sessions, pc[r] \in {"look", "lock"},
           NEW place \in {"rebuild", "lock", "online"},
           pc' = [pc EXCEPT ![r] = place], plain => Finds(r, place),
           UNCHANGED <<sess, step, start, new, stats, cdf, clock, ends, file,
                       plain>>
    PROVE  IInv'
<1>1. /\ r \in Processes /\ r # Importer /\ PlaceOK(r) /\ TypesOK
      /\ pc'[r] = place /\ \A q \in Processes \ {r} : pc'[q] = pc[q]
  BY ImporterIsNoSession DEF IInv, Shape, Processes, TypesOK
<1>2. Shape'
  <2>1. TypesOK'
    BY <1>1 DEF TypesOK, Working
  <2>2. RowsOK'
    BY RowsDoNotMove DEF IInv, Shape, RowsOK
  <2>3. ASSUME NEW p \in Processes PROVE PlaceOK(p)'
    <3>1. PlaceOK(p)
      BY DEF IInv, Shape
    <3> QED
      BY <1>1, <3>1 DEF PlaceOK, Working
  <2>4. Ended' = Ended /\ pc'[Importer] = pc[Importer]
    BY <1>1 DEF Ended, Processes
  <2> QED
    BY <2>1, <2>2, <2>3, <2>4 DEF IInv, Shape
<1>3. ASSUME plain PROVE Calm'
  <2>1. Calm /\ Shape /\ SameEnds /\ InFlight' = InFlight /\ r \in InFlight
    BY <1>1, <1>3 DEF SameEnds, InFlight, Working, Processes, IInv
  <2>2. WorkOK(r) /\ InFlight = {r}
    BY <2>1 DEF Calm
  <2>3. Past(r)' = Past(r) /\ Ahead(r)' = Ahead(r)
    BY <1>1 DEF Past, Ahead
  <2>4. /\ \A i, w : KeyOf(r, i, w)' <=> KeyOf(r, i, w)
        /\ Owner(r)' = Owner(r) /\ Hour(r)' = Hour(r)
        /\ LatestBatches(Owner(r), Hour(r))' = LatestBatches(Owner(r), Hour(r))
    BY DEF KeyOf, Owner, Hour, LatestBatches
  <2>5. \A w \in new'[r] : NewOK(r, w)' /\ \E i \in Past(r)' : KeyOf(r, i, w)'
    <3>1. ASSUME NEW w \in new'[r] PROVE NewOK(r, w)'
      <4>1. NewOK(r, w)
        BY <2>2, <3>1 DEF WorkOK
      <4> QED
        BY <2>1, <4>1, NewStaysOK
    <3>2. ASSUME NEW w \in new'[r] PROVE \E i \in Past(r) : KeyOf(r, i, w)
      BY <2>2, <3>2 DEF WorkOK
    <3> QED
      BY <2>3, <2>4, <3>1, <3>2
  <2>6. \A w \in Committed' : r \in EndedOf(w.owner, w.hour)' =>
          \/ \E i \in Ahead(r)' : KeyOf(r, i, w)'
          \/ \E v \in new'[r] : Same(v, w)
          \/ w.owner = Generic /\ ~IsBatch(w) /\ ~Within(sess'[r].plugged)
    BY <1>1, <2>2, <2>3, <2>4, ReadsDoNotMove DEF WorkOK
  <2>7. WorkOK(r)'
    <3>1. \A w \in Committed' : w.at < start'[r]
      BY <1>1, <2>2, ReadsDoNotMove DEF WorkOK
    <3>2. /\ pc'[r] = "rebuild"
               => \A w \in Committed' : ~KeyOf(r, step[r], w)'
          /\ pc'[r] \in {"lock", "online"}
               => LatestBatches(Owner(r), Hour(r))' # {}
      BY <1>1, <1>3, <2>4, ReadsDoNotMove DEF Finds
    <3>3. \A v, w \in new'[r] : Same(v, w) => v = w
      BY <2>2 DEF WorkOK
    <3> QED
      BY <2>5, <2>6, <3>1, <3>2, <3>3 DEF WorkOK
  <2>8. pc'[Importer] = "idle" /\ \A s \in Ended' : pc'[s] # "idle"
    BY <1>1, <2>1 DEF Calm, Ended, Processes
  <2> QED
    BY <2>1, <2>2, <2>7, <2>8, TablesStayCalm DEF Calm
<1> QED
  BY <1>2, <1>3 DEF IInv

\* The first transaction of an update starts.
LEMMA BeginOK == ASSUME IInv, NEW r \in Sessions, Begin(r) PROVE IInv'
<1>1. /\ r \in Processes /\ r # Importer /\ PlaceOK(r) /\ TypesOK /\ RowsOK
      /\ pc[r] = "begin" /\ pc'[r] = "look"
      /\ step'[r] = 1 /\ start'[r] = clock + 1 /\ clock' = clock + 1
      /\ \A q \in Processes \ {r} :
           pc'[q] = pc[q] /\ step'[q] = step[q] /\ start'[q] = start[q]
      /\ UNCHANGED <<sess, new, stats, cdf, ends, file, plain>>
  BY ImporterIsNoSession DEF IInv, Shape, Processes, TypesOK, Begin
<1>2. /\ sess[r] \in Completed /\ new[r] = {} /\ clock \in Nat
  BY <1>1 DEF PlaceOK, TypesOK, Working
<1>3. \A w : RowOK(w) => RowOK(w)'
  <2>1. clock \in Nat /\ clock' \in Nat /\ clock <= clock'
    BY <1>1, <1>2
  <2> QED
    BY <1>1, <2>1, RowsStay
<1>4. Shape'
  <2>1. TypesOK'
    <3>1. /\ pc' = [pc EXCEPT ![r] = "look"]
          /\ step' = [step EXCEPT ![r] = 1]
          /\ start' = [start EXCEPT ![r] = clock + 1]
          /\ clock + 1 \in Nat
      BY <1>2 DEF Begin
    <3> QED
      BY <1>1, <3>1 DEF TypesOK, Working
  <2>2. RowsOK'
    BY <1>1, <1>3 DEF RowsOK
  <2>3. ASSUME NEW p \in Processes PROVE PlaceOK(p)'
    <3>1. PlaceOK(p)
      BY DEF IInv, Shape
    <3>2. CASE p = r
      <4>1. start'[r] \in Nat \ {0} /\ start'[r] <= clock' /\ 1 \in 1 .. 6
        BY <1>1, <1>2
      <4> QED
        BY <1>1, <1>2, <3>2, <4>1 DEF PlaceOK, TypesOK, Working
    <3>3. CASE p # r
      <4>1. start[p] \in Nat
        BY <1>1 DEF TypesOK
      <4> QED
        BY <1>1, <1>2, <3>1, <3>3, <4>1 DEF PlaceOK
    <3> QED
      BY <3>2, <3>3
  <2>4. Ended' = Ended /\ pc'[Importer] = pc[Importer]
    BY <1>1 DEF Ended, Processes
  <2> QED
    BY <1>1, <2>1, <2>2, <2>3, <2>4 DEF IInv, Shape
<1>5. ASSUME plain PROVE Calm'
  <2>1. Calm /\ Shape /\ SameEnds /\ InFlight' = InFlight /\ r \in InFlight
    BY <1>1, <1>5 DEF SameEnds, InFlight, Working, Processes, IInv
  <2>2. InFlight = {r}
    BY <2>1 DEF Calm
  <2>3. \A w \in Committed : RowOK(w) /\ w.at < clock + 1
    BY <1>1, <1>2 DEF RowsOK, RowOK, Committed
  <2>4. Ahead(r)' = 1 .. 6
    BY <1>1 DEF Ahead
  <2>5. \A w \in Committed : r \in EndedOf(w.owner, w.hour) =>
          \E i \in 1 .. 6 : KeyOf(r, i, w)
    BY <1>2, <2>3, KeysCover
  <2>6. \A i, w : KeyOf(r, i, w)' <=> KeyOf(r, i, w)
    BY <1>1 DEF KeyOf
  <2>7. WorkOK(r)'
    BY <1>1, <1>2, <2>3, <2>4, <2>5, <2>6, ReadsDoNotMove DEF WorkOK
  <2>8. pc'[Importer] = "idle" /\ \A s \in Ended' : pc'[s] # "idle"
    BY <1>1, <2>1 DEF Calm, Ended, Processes
  <2>9. /\ Ordered'
        /\ \A w \in Committed' :
             (CountsOnce(w) /\ (IsRead(w) => AccountsForAll(w)))'
    BY <1>1, <2>1, TablesStayCalm
  <2> QED
    BY <2>1, <2>2, <2>7, <2>8, <2>9 DEF Calm
<1> QED
  BY <1>1, <1>4, <1>5 DEF IInv

\* A session is completed.
LEMMA CloseOK ==
    ASSUME IInv, NEW s \in Sessions, NEW kind \in Kinds, Close(s, kind)
    PROVE  IInv'
<1> DEFINE row == [charger |-> kind.charger, hour |-> kind.hour,
                   plugged |-> kind.plugged, charged |-> kind.charged,
                   end |-> ends + 1]
<1>1. /\ s \in Processes /\ s # Importer /\ PlaceOK(s) /\ TypesOK /\ RowsOK
  BY ImporterIsNoSession DEF IInv, Shape, Processes
<1>2. row \in Completed /\ row # None
  <2>1. /\ kind \in [charger : Chargers, hour : LocalHours,
                     plugged : Durations, charged : Durations]
        /\ kind.charged <= kind.plugged
    BY KindsAreSessions DEF AllKinds
  <2>2. ends + 1 \in Nat
    BY <1>1 DEF TypesOK
  <2> QED
    BY <2>1, <2>2, NoneIsNobody DEF Completed
<1>3. /\ sess[s] = None /\ sess' = [sess EXCEPT ![s] = row]
      /\ pc' = [pc EXCEPT ![s] = "begin"] /\ ends' = ends + 1
      /\ plain' \in BOOLEAN /\ (plain' <=> plain /\ InFlight = {})
      /\ UNCHANGED <<step, start, new, stats, cdf, lock, clock, file>>
  BY DEF Close
<1> HIDE DEF row
<1>4. /\ sess'[s] = row /\ pc'[s] = "begin"
      /\ \A t \in Sessions \ {s} : sess'[t] = sess[t]
      /\ \A q \in Processes \ {s} : pc'[q] = pc[q]
      /\ pc[s] \notin Working /\ new[s] = {}
  BY <1>1, <1>3 DEF TypesOK, PlaceOK
<1>5. \A w : RowOK(w) => RowOK(w)' /\ ~Counts(w, s)
  <2>1. clock \in Nat /\ clock' \in Nat /\ clock <= clock'
    BY <1>1, <1>3 DEF TypesOK
  <2>2. \A t \in Sessions : sess[t] # None => sess'[t] # None
    BY <1>3, <1>4
  <2>3. \A w : RowOK(w) => ~Counts(w, s)
    BY <1>3 DEF RowOK
  <2> QED
    BY <2>1, <2>2, <2>3, RowsStay
<1>6. Shape'
  <2>1. TypesOK'
    <3>1. ends' \in Nat
      BY <1>1, <1>3 DEF TypesOK
    <3>2. sess' \in [Sessions -> Completed \cup {None}]
      BY <1>1, <1>2, <1>3 DEF TypesOK
    <3>3. pc' \in [Processes -> Working \cup {"idle", "done", "failed"}]
      BY <1>1, <1>3 DEF TypesOK, Working
    <3> QED
      BY <1>1, <1>3, <3>1, <3>2, <3>3 DEF TypesOK
  <2>2. RowsOK'
    BY <1>1, <1>3, <1>5 DEF RowsOK
  <2>3. ASSUME NEW p \in Processes PROVE PlaceOK(p)'
    <3>1. PlaceOK(p)
      BY DEF IInv, Shape
    <3> QED
      BY <1>2, <1>3, <1>4, <3>1 DEF PlaceOK, Working, Processes
  <2>4. Ended \subseteq Ended' /\ pc'[Importer] = pc[Importer]
    BY <1>1, <1>3, <1>4 DEF Ended, Processes
  <2> QED
    BY <1>3, <2>1, <2>2, <2>3, <2>4 DEF IInv, Shape
<1>7. ASSUME plain, InFlight = {} PROVE Calm'
  <2>1. Calm /\ \A w \in Committed : RowOK(w)
    BY <1>1, <1>7 DEF IInv, RowsOK, Committed
  <2>2. InFlight' = {s}
    BY <1>1, <1>4, <1>7 DEF InFlight, Working
  <2>3. WorkOK(s)'
    BY <1>3, <1>4 DEF WorkOK
  <2>4. pc'[Importer] = "idle" /\ \A t \in Ended' : pc'[t] # "idle"
    BY <1>1, <1>4, <2>1 DEF Calm, Ended, Processes
  <2>5. Ordered' /\ Committed' = Committed
    BY <1>3, <2>1 DEF Calm, Ordered, Committed
  <2>6. \A w : IsRead(w)' <=> IsRead(w)
    BY <1>3 DEF IsRead, LatestStats, LatestBatches
  <2>7. ASSUME NEW w \in Committed
        PROVE  CountsOnce(w)' /\ (IsRead(w) => AccountsForAll(w)')
    <3>1. CountsOnce(w)'
      <4>1. CountsOnce(w) /\ ~Counts(w, s)
        BY <1>5, <2>1, <2>7 DEF Calm
      <4>2. \A t \in Sessions : t # s => pc'[t] = pc[t]
        BY <1>4 DEF Processes
      <4> QED
        BY <4>1, <4>2 DEF CountsOnce, Counts
    <3>2. ASSUME NEW t \in EndedOf(w.owner, w.hour)', pc'[t] = "done",
                 AccountsForAll(w)
          PROVE  Accounts(w, t)'
      <4>1. t \in Sessions /\ t # s /\ pc[t] = "done" /\ sess'[t] = sess[t]
        BY <1>4, <3>2 DEF EndedOf, Ended, Processes
      <4>2. t \in EndedOf(w.owner, w.hour)
        BY <3>2, <4>1 DEF EndedOf, Ended
      <4> QED
        BY <3>2, <4>1, <4>2 DEF AccountsForAll, Accounts, Counts
    <3> QED
      BY <2>1, <2>7, <3>1, <3>2 DEF Calm, AccountsForAll
  <2> QED
    BY <2>2, <2>3, <2>4, <2>5, <2>6, <2>7 DEF Calm
<1> QED
  BY <1>3, <1>6, <1>7 DEF IInv

\* A transaction that ends without a commit leaves nothing behind.
LEMMA RollBackOK ==
    ASSUME IInv, NEW P \in SUBSET Processes,
           \A p \in P : pc[p] \in Working,
           pc' = [p \in Processes |-> IF p \in P THEN "failed" ELSE pc[p]],
           DOMAIN new' = Processes,
           \A p \in Processes : new'[p] = IF p \in P THEN {} ELSE new[p],
           plain => P # {},
           UNCHANGED <<sess, step, start, stats, cdf, clock, ends, file, plain>>
    PROVE  IInv'
<1>1. TypesOK /\ RowsOK /\ \A p \in Processes : PlaceOK(p)
  BY DEF IInv, Shape
<1>2. \A p \in Processes : pc'[p] = IF p \in P THEN "failed" ELSE pc[p]
  OBVIOUS
<1>3. Shape'
  <2>1. TypesOK'
    BY <1>1 DEF TypesOK
  <2>2. RowsOK'
    BY <1>1, RowsDoNotMove DEF RowsOK
  <2>3. ASSUME NEW p \in Processes PROVE PlaceOK(p)'
    BY <1>1, <1>2 DEF PlaceOK, Working
  <2>4. /\ Ended' = Ended
        /\ pc'[Importer] \in {"begin", "fleet"} => pc'[Importer] = pc[Importer]
    BY <1>2 DEF Ended, Processes
  <2> QED
    BY <2>1, <2>2, <2>3, <2>4 DEF IInv, Shape
<1>4. ASSUME plain PROVE Calm'
  <2>1. Calm /\ Shape /\ Importer \in Processes
    BY <1>4 DEF IInv, Processes
  <2>2. Importer \notin P
    BY <2>1 DEF Calm, Working
  <2>4. InFlight' = {}
    BY <1>2, <1>4, <2>1 DEF Calm, InFlight, Working
  <2>5. /\ \A s \in Sessions : pc'[s] = "done" <=> pc[s] = "done"
        /\ \A s \in Sessions : pc[s] \in {"done", "failed"}
                                 => pc'[s] \in {"done", "failed"}
    BY <1>2 DEF Processes, Working
  <2>6. Ordered' /\ Committed' = Committed
    BY <2>1 DEF Calm, Ordered, Committed
  <2>7. ASSUME NEW w \in Committed
        PROVE  CountsOnce(w)' /\ (IsRead(w)' => AccountsForAll(w)')
    <3>1. CountsOnce(w)'
      BY <2>1, <2>5, <2>7 DEF Calm, CountsOnce, Counts
    <3>2. AccountsForAll(w) => AccountsForAll(w)'
      BY <2>5, ReadsDoNotMove DEF AccountsForAll, EndedOf, Ended
    <3> QED
      BY <2>1, <2>7, <3>1, <3>2, ReadsDoNotMove DEF Calm
  <2>8. pc'[Importer] = "idle" /\ \A s \in Ended' : pc'[s] # "idle"
    BY <1>2, <2>1, <2>2 DEF Calm, Ended, Processes
  <2> QED
    BY <2>4, <2>6, <2>7, <2>8 DEF Calm
<1> QED
  BY <1>3, <1>4 DEF IInv

LEMMA AbortOK == ASSUME IInv, NEW p \in Processes, Abort(p) PROVE IInv'
<1>1. TypesOK /\ pc[p] \in Working
  BY DEF IInv, Shape, Abort
<1>2. /\ pc' = [q \in Processes |-> IF q \in {p} THEN "failed" ELSE pc[q]]
      /\ DOMAIN new' = Processes
      /\ \A q \in Processes : new'[q] = IF q \in {p} THEN {} ELSE new[q]
  BY <1>1 DEF Abort, TypesOK
<1>3. UNCHANGED <<sess, step, start, stats, cdf, clock, ends, file, plain>>
  BY DEF Abort
<1> QED
  BY <1>1, <1>2, <1>3, RollBackOK

LEMMA CrashOK == ASSUME IInv, Crash PROVE IInv'
<1>1. TypesOK /\ \A q \in Processes : PlaceOK(q)
  BY DEF IInv, Shape
<1>2. /\ InFlight \in SUBSET Processes /\ \A p \in InFlight : pc[p] \in Working
      /\ InFlight # {}
  BY DEF InFlight, Crash
<1>3. /\ pc' = [q \in Processes |-> IF q \in InFlight THEN "failed" ELSE pc[q]]
      /\ DOMAIN new' = Processes
      /\ \A q \in Processes : new'[q] = IF q \in InFlight THEN {} ELSE new[q]
  BY <1>1 DEF Crash, InFlight, PlaceOK
<1>4. UNCHANGED <<sess, step, start, stats, cdf, clock, ends, file, plain>>
  BY DEF Crash
<1> QED
  BY <1>2, <1>3, <1>4, RollBackOK

\* The rows of a transaction become visible.
LEMMA CommitOK == ASSUME IInv, NEW p \in Processes, Commit(p) PROVE IInv'
<1>1. TypesOK /\ RowsOK /\ \A q \in Processes : PlaceOK(q)
  BY DEF IInv, Shape
<1>2. /\ pc[p] = "commit" /\ pc'[p] = "done" /\ new'[p] = {}
      /\ \A q \in Processes \ {p} : pc'[q] = pc[q] /\ new'[q] = new[q]
      /\ UNCHANGED <<sess, step, start, lock, clock, ends, file, plain>>
  BY <1>1 DEF Commit, TypesOK
<1>3. /\ \A w : w \in stats' <=> w \in stats \/ (w \in new[p] /\ ~IsBatch(w))
      /\ \A w : w \in cdf' <=> w \in cdf \/ (w \in new[p] /\ IsBatch(w))
      /\ \A w : w \in Committed' <=> w \in Committed \/ w \in new[p]
  BY DEF Commit, Committed
<1>4. Shape'
  <2>1. TypesOK'
    <3>1. /\ pc' = [pc EXCEPT ![p] = "done"] /\ DOMAIN new' = Processes
      BY <1>1 DEF Commit, TypesOK
    <3> QED
      BY <1>1, <1>2, <3>1 DEF TypesOK
  <2>2. RowsOK'
    BY <1>1, <1>2, <1>3, RowsDoNotMove DEF RowsOK
  <2>3. ASSUME NEW q \in Processes PROVE PlaceOK(q)'
    <3>1. PlaceOK(q)
      BY <1>1
    <3> QED
      BY <1>2, <3>1 DEF PlaceOK, Working
  <2>4. /\ Ended' = Ended
        /\ pc'[Importer] \in {"begin", "fleet"} => pc'[Importer] = pc[Importer]
    BY <1>2 DEF Ended, Processes
  <2> QED
    BY <1>2, <2>1, <2>2, <2>3, <2>4 DEF IInv, Shape
<1>5. ASSUME plain PROVE Calm'
  <2>1. Calm /\ p \in InFlight /\ InFlight = {p} /\ p # Importer
    BY <1>2, <1>5 DEF IInv, Calm, InFlight, Working
  <2>2. WorkOK(p) /\ p \in Sessions /\ sess[p] # None
    BY <1>1, <1>2, <2>1 DEF Calm, Processes, PlaceOK, Working
  <2>3. InFlight' = {}
    BY <1>2, <2>1 DEF InFlight, Working
  <2>4. pc'[Importer] = "idle" /\ \A s \in Ended' : pc'[s] # "idle"
    BY <1>2, <2>1 DEF Calm, Ended, Processes
  <2>5. /\ \A w \in Committed : RowOK(w) /\ w.at < start[p]
        /\ \A w \in new[p] : RowOK(w) /\ NewOK(p, w)
    BY <1>1, <1>2, <2>2 DEF WorkOK, RowsOK, Committed
  <2>6. \A s \in Sessions :
          /\ pc'[s] = "done" => s = p \/ pc[s] = "done"
          /\ pc[s] \in {"done", "failed"} \/ s = p
               => pc'[s] \in {"done", "failed"}
    BY <1>2 DEF Processes
  <2>7. \A v \in Committed, w \in new[p] :
          /\ v.at < w.at /\ v.at \in Nat /\ w.at \in Nat
          /\ v.n \in Nat /\ w.n \in Nat
          /\ Same(v, w) /\ IsBatch(v) => v.n < w.n
    BY <2>5 DEF NewOK, RowOK
  <2>8. \A v, w : Same(v, w) <=> Same(w, v)
    BY DEF Same
  <2>9. Ordered'
    <3>1. ASSUME NEW v \in Committed', NEW w \in Committed', Same(v, w),
                 v.at = w.at
          PROVE  v = w
      <4>1. CASE v \in Committed /\ w \in Committed
        BY <2>1, <3>1, <4>1 DEF Calm, Ordered
      <4>2. CASE v \in new[p] /\ w \in new[p]
        BY <2>2, <3>1, <4>2 DEF WorkOK
      <4>3. ~(v \in Committed /\ w \in new[p])
        BY <2>7, <3>1
      <4>4. ~(w \in Committed /\ v \in new[p])
        BY <2>7, <3>1
      <4> QED
        BY <1>3, <3>1, <4>1, <4>2, <4>3, <4>4
    <3>2. ASSUME NEW v \in cdf', NEW w \in cdf', Same(v, w)
          PROVE  v.at <= w.at <=> v.n <= w.n
      <4>1. CASE v \in cdf /\ w \in cdf
        BY <2>1, <3>2, <4>1 DEF Calm, Ordered
      <4>2. CASE v \in new[p] /\ w \in new[p]
        <5>1. v = w /\ v.at \in Nat /\ v.n \in Nat
          BY <2>2, <2>5, <3>2, <4>2 DEF WorkOK, RowOK
        <5> QED
          BY <5>1
      <4>3. CASE v \in cdf /\ w \in new[p]
        <5>1. /\ v.at < w.at /\ v.n < w.n
              /\ v.at \in Nat /\ w.at \in Nat /\ v.n \in Nat /\ w.n \in Nat
          BY <1>1, <2>7, <3>2, <4>3 DEF Committed, RowsOK
        <5> QED
          BY <5>1
      <4>4. CASE v \in new[p] /\ w \in cdf
        <5>1. /\ w.at < v.at /\ w.n < v.n
              /\ v.at \in Nat /\ w.at \in Nat /\ v.n \in Nat /\ w.n \in Nat
          BY <1>1, <2>7, <2>8, <3>2, <4>4 DEF Committed, RowsOK
        <5> QED
          BY <5>1
      <4> QED
        BY <1>3, <3>2, <4>1, <4>2, <4>3, <4>4
    <3> QED
      BY <3>1, <3>2 DEF Ordered
  <2>10. ASSUME NEW w \in Committed' PROVE CountsOnce(w)'
    BY <1>3, <2>1, <2>5, <2>6, <2>10 DEF Calm, CountsOnce, Counts, NewOK
  <2>11. ASSUME NEW w \in Committed', IsRead(w)' PROVE AccountsForAll(w)'
    <3>1. /\ \A owner, hour : EndedOf(owner, hour)' = EndedOf(owner, hour)
          /\ \A s : Accounts(w, s)' <=> Accounts(w, s)
      BY <1>2 DEF EndedOf, Ended, Accounts, Counts
    <3>2. CASE w \in new[p]
      <4>1. Accounts(w, p) /\ AccountsForAll(w)
        BY <2>5, <3>2 DEF NewOK
      <4> QED
        BY <2>6, <3>1, <4>1 DEF AccountsForAll, EndedOf, Ended
    <3>3. CASE w \in Committed /\ w \notin new[p]
      <4>1. \A v \in new[p] : ~Same(v, w)
        <5>1. ASSUME NEW v \in new[p], Same(v, w) PROVE FALSE
          <6>1. /\ w.at < v.at /\ w.at \in Nat /\ v.at \in Nat
                /\ w.n \in Nat /\ v.n \in Nat
                /\ IsBatch(w) => w.n < v.n
            BY <2>7, <2>8, <3>3, <5>1
          <6>2. CASE IsBatch(w)
            <7>1. v \in cdf' /\ v.owner = w.owner /\ v.hour = w.hour
              BY <1>3, <5>1, <6>2 DEF Same
            <7>2. v.n <= w.n
              BY <2>11, <6>2, <7>1 DEF IsRead, LatestBatches, Versions
            <7> QED
              BY <6>1, <6>2, <7>2
          <6>3. CASE ~IsBatch(w)
            <7>1. v \in stats' /\ v.owner = w.owner /\ v.hour = w.hour
              BY <1>3, <5>1, <6>3 DEF Same
            <7>2. v.at <= w.at
              BY <2>11, <6>3, <7>1 DEF IsRead, LatestStats, Newest
            <7> QED
              BY <6>1, <7>2
          <6> QED
            BY <6>2, <6>3
        <5> QED
          BY <5>1
      <4>2. IsRead(w)
        BY <1>1, <1>3, <2>11, <3>3
           DEF IsRead, LatestStats, LatestBatches, Newest, Versions, Committed,
               RowsOK
      <4>3. AccountsForAll(w)
        BY <2>1, <3>3, <4>2 DEF Calm
      <4>4. p \in EndedOf(w.owner, w.hour) => Accounts(w, p)
        BY <1>2, <2>2, <3>3, <4>1 DEF WorkOK, Ahead, Accounts
      <4> QED
        BY <2>6, <3>1, <4>3, <4>4 DEF AccountsForAll, EndedOf, Ended
    <3> QED
      BY <1>3, <2>11, <3>2, <3>3
  <2> QED
    BY <2>3, <2>4, <2>9, <2>10, <2>11 DEF Calm
<1> QED
  BY <1>2, <1>4, <1>5 DEF IInv

------------------------------------------------------------------------------
(* The import. It only ever runs when `plain` is over. *)

\* The sessions of a file are completed together.
LEMMA ImportSessionsOK ==
    ASSUME IInv, NEW S \in SUBSET Sessions, NEW kind \in Kinds,
           NEW end \in {0, ends + 1}, ImportSessions(S, kind, end)
    PROVE  IInv'
<1> DEFINE row == [charger |-> kind.charger, hour |-> kind.hour,
                   plugged |-> kind.plugged, charged |-> kind.charged,
                   end |-> end]
<1>1. /\ Importer \in Processes /\ PlaceOK(Importer) /\ TypesOK /\ RowsOK
  BY DEF IInv, Shape, Processes
<1>2. row \in Completed /\ row # None
  <2>1. /\ kind \in [charger : Chargers, hour : LocalHours,
                     plugged : Durations, charged : Durations]
        /\ kind.charged <= kind.plugged
    BY KindsAreSessions DEF AllKinds
  <2>2. end \in Nat
    BY <1>1 DEF TypesOK
  <2> QED
    BY <2>1, <2>2, NoneIsNobody DEF Completed
<1>3. /\ sess' = [s \in Sessions |-> IF s \in S THEN row ELSE sess[s]]
      /\ pc' = [pc EXCEPT ![Importer] = "begin"] /\ ends' = ends + 1
      /\ pc[Importer] = "idle" /\ S # {} /\ file' = S /\ plain' = FALSE
      /\ UNCHANGED <<step, start, new, stats, cdf, lock, clock>>
  BY DEF ImportSessions
<1> HIDE DEF row
<1>4. \A s \in Sessions : sess'[s] = IF s \in S THEN row ELSE sess[s]
  BY <1>3
<1>5. \A w : RowOK(w) => RowOK(w)'
  <2>1. clock \in Nat /\ clock' \in Nat /\ clock <= clock'
    BY <1>1, <1>3 DEF TypesOK
  <2>2. \A t \in Sessions : sess[t] # None => sess'[t] # None
    BY <1>2, <1>4
  <2> QED
    BY <2>1, <2>2, RowsStay
<1>6. TypesOK'
  <2>1. ends' \in Nat
    BY <1>1, <1>3 DEF TypesOK
  <2>2. sess' \in [Sessions -> Completed \cup {None}]
    BY <1>1, <1>2, <1>3 DEF TypesOK
  <2>3. pc' \in [Processes -> Working \cup {"idle", "done", "failed"}]
    BY <1>1, <1>3 DEF TypesOK, Working
  <2> QED
    BY <1>1, <1>3, <2>1, <2>2, <2>3 DEF TypesOK
<1>7. RowsOK'
  BY <1>1, <1>3, <1>5 DEF RowsOK
<1>8. ASSUME NEW p \in Processes PROVE PlaceOK(p)'
  <2>1. /\ PlaceOK(p)
        /\ p \in Sessions => p # Importer
        /\ p \in Sessions /\ sess[p] # None => sess'[p] # None
    BY <1>2, <1>4, ImporterIsNoSession DEF IInv, Shape
  <2>2. /\ p = Importer => pc'[p] = "begin" /\ new'[p] = {}
        /\ p # Importer => pc'[p] = pc[p]
    BY <1>1, <1>3 DEF TypesOK, PlaceOK, Working
  <2> QED
    BY <1>3, <2>1, <2>2 DEF PlaceOK, Working
<1>9. file' \subseteq Ended' /\ file' # {}
  BY <1>2, <1>3, <1>4 DEF Ended
<1> QED
  BY <1>3, <1>6, <1>7, <1>8, <1>9 DEF IInv, Shape

\* A row that the import makes of the sessions S.
Imported(S, w, at) ==
    /\ w.owner \in Owners /\ w.hour \in Hours /\ w.at = at
    /\ w.n \in Nat \ {0} /\ w.bag \in Bags
    /\ \A s \in Sessions : Counts(w, s) => s \in S
    /\ IF IsBatch(w) THEN Distribution(w) ELSE w.hour \in LocalHours

LEMMA ImportedRow ==
    ASSUME NEW S, NEW w, NEW at, Imported(S, w, at), S \subseteq Ended',
           at \in Nat \ {0}, at <= clock'
    PROVE  RowOK(w)'
  BY DEF Imported, RowOK, Ended, Counts

\* What the import makes of ended sessions are rows.
LEMMA ImportsAreRows ==
    ASSUME TypesOK, NEW S, S \subseteq Ended, S # {}, NEW owner \in Owners,
           NEW at
    PROVE  \A w \in {BatchFrom(owner, AllHours, S, Plugged, at)}
                    \cup HourlyStats(owner, S, at) : Imported(S, w, at)
<1>1. /\ S \subseteq Sessions
      /\ \A s \in S : Plugged[s] \in Nat /\ sess[s].hour \in LocalHours
  BY CompletedFields DEF TypesOK, Ended, Plugged
<1>2. "plugged" \in Measures /\ AllHours \in Hours
  BY DEF Measures, Hours
<1>3. ASSUME NEW w, w = BatchFrom(owner, AllHours, S, Plugged, at)
      PROVE  Imported(S, w, at)
  <2>1. /\ IsBatch(w) /\ w.owner = owner /\ w.hour = AllHours
        /\ w.n = Cardinality(S) /\ w.bag = BagOf(S, "plugged") /\ w.at = at
    BY <1>3, BatchFields DEF BatchFrom
  <2>2. Distribution(w)
    BY <1>1, <1>3, BatchFromIsDistribution
  <2>3. w.n \in Nat \ {0}
    BY <2>2 DEF Distribution
  <2>4. /\ w.bag \in Bags
        /\ \A s \in Sessions : Counts(w, s) => s \in S
    BY <1>2, <2>1, BagOfCounts DEF Counts
  <2> QED
    BY <1>2, <2>1, <2>2, <2>3, <2>4 DEF Imported
<1>4. ASSUME NEW w \in HourlyStats(owner, S, at)
      PROVE  Imported(S, w, at)
  <2>1. PICK t \in S : w = ImportedStat(owner, sess[t].hour,
                             {s \in S : sess[s].hour = sess[t].hour},
                             Plugged, at)
    BY <1>4 DEF HourlyStats
  <2> DEFINE R == {s \in S : sess[s].hour = sess[t].hour}
  <2>2. R \subseteq Sessions /\ R # {} /\ R \subseteq S
    BY <1>1
  <2>3. w = ImportedStat(owner, sess[t].hour, R, Plugged, at)
    BY <2>1
  <2> HIDE DEF R
  <2>4. /\ ~IsBatch(w) /\ w.owner = owner /\ w.hour = sess[t].hour
        /\ w.n = Cardinality(R) /\ w.bag = BagOf(R, "plugged") /\ w.at = at
    BY <2>3, StatFields DEF ImportedStat
  <2>5. w.n \in Nat \ {0}
    BY <2>2, <2>4, SomeSessions
  <2>6. /\ w.bag \in Bags
        /\ \A s \in Sessions : Counts(w, s) => s \in S
    BY <1>2, <2>2, <2>4, BagOfCounts DEF Counts
  <2> QED
    BY <1>1, <2>4, <2>5, <2>6 DEF Imported, Hours
<1> QED
  BY <1>3, <1>4

\* While a file is being imported, updates are no longer plain.
LEMMA ImportIsNotPlain ==
    ASSUME IInv, pc[Importer] # "idle"
    PROVE  ~plain
  BY DEF IInv, Calm

LEMMA ImportChargerOK ==
    ASSUME IInv, NEW c \in Chargers, ImportCharger(c)
    PROVE  IInv'
<1> DEFINE S == EndedOf(c, AllHours)
<1>1. /\ Importer \in Processes /\ PlaceOK(Importer) /\ TypesOK /\ RowsOK
      /\ c \in Owners /\ ~plain /\ Importer \notin Sessions
  BY ImporterIsNoSession, ImportIsNotPlain
     DEF IInv, Shape, Processes, Owners, ImportCharger
<1>2. /\ pc[Importer] = "begin"
      /\ new' = [new EXCEPT ![Importer] =
                   {BatchFrom(c, AllHours, S, Plugged, clock + 1)}
                   \cup HourlyStats(c, S, clock + 1)]
      /\ clock' = clock + 1
      /\ start' = [start EXCEPT ![Importer] = clock + 1]
      /\ pc' = [pc EXCEPT ![Importer] = "fleet"]
      /\ UNCHANGED <<sess, step, stats, cdf, lock, ends, file, plain>>
  BY DEF ImportCharger
<1>3. S \subseteq Ended /\ S # {}
  <2>1. PICK s \in file : c = sess[s].charger
    BY DEF ImportCharger
  <2> QED
    BY <2>1 DEF EndedOf, IInv, Shape
<1>4. clock \in Nat /\ clock + 1 \in Nat \ {0}
  BY <1>1 DEF TypesOK
<1>5. \A w \in new'[Importer] : RowOK(w)'
  <2>1. \A w \in new'[Importer] : Imported(S, w, clock + 1)
    <3>1. new'[Importer] = {BatchFrom(c, AllHours, S, Plugged, clock + 1)}
                           \cup HourlyStats(c, S, clock + 1)
      BY <1>1, <1>2 DEF TypesOK
    <3> HIDE DEF S
    <3> QED
      BY <1>1, <1>3, <3>1, ImportsAreRows
  <2>2. S \subseteq Ended'
    BY <1>2, <1>3 DEF Ended
  <2>3. clock + 1 \in Nat \ {0} /\ clock + 1 <= clock'
    BY <1>2, <1>4
  <2> HIDE DEF S
  <2> QED
    BY <2>1, <2>2, <2>3, ImportedRow
<1>6. \A w : RowOK(w) => RowOK(w)'
  <2>1. clock \in Nat /\ clock' \in Nat /\ clock <= clock'
    BY <1>2, <1>4
  <2>2. \A t \in Sessions : sess[t] # None => sess'[t] # None
    BY <1>2
  <2> QED
    BY <2>1, <2>2, RowsStay
<1>7. /\ pc'[Importer] = "fleet" /\ start'[Importer] = clock + 1
      /\ DOMAIN new' = Processes
      /\ \A q \in Processes \ {Importer} :
           pc'[q] = pc[q] /\ new'[q] = new[q] /\ start'[q] = start[q]
  BY <1>1, <1>2 DEF TypesOK
<1>8. TypesOK'
  BY <1>1, <1>2, <1>4, <1>7 DEF TypesOK, Working
<1>9. RowsOK'
  BY <1>1, <1>2, <1>5, <1>6, <1>7 DEF RowsOK
<1>10. ASSUME NEW p \in Processes PROVE PlaceOK(p)'
  <2>1. PlaceOK(p) /\ start[p] \in Nat
    BY <1>1 DEF IInv, Shape, TypesOK
  <2> QED
    BY <1>1, <1>2, <1>4, <1>7, <2>1 DEF PlaceOK, Working
<1>11. file' \subseteq Ended' /\ file' # {}
  BY <1>2 DEF IInv, Shape, Ended
<1> QED
  BY <1>1, <1>2, <1>8, <1>9, <1>10, <1>11 DEF IInv, Shape

\* The most recent sessions of the fleet are some.
LEMMA SomeAreRecent ==
    ASSUME Ended # {}, NEW S \in MostRecent
    PROVE  S \subseteq Ended /\ S # {}
<1>1. Cardinality(Ended) \in Nat \ {0}
  BY SomeSessions DEF Ended
<1>2. Min({Recent, Cardinality(Ended)}) \in Nat \ {0}
  <2>1. \E x \in {Recent, Cardinality(Ended)} :
          \A y \in {Recent, Cardinality(Ended)} : x <= y
    BY <1>1, RecentIsPos
  <2>2. Min({Recent, Cardinality(Ended)}) \in {Recent, Cardinality(Ended)}
    BY <2>1 DEF Min
  <2> QED
    BY <1>1, <2>2, RecentIsPos
<1>3. S \subseteq Ended /\ Cardinality(S) # 0
  BY <1>2 DEF MostRecent
<1> QED
  BY <1>3, FS_EmptySet

LEMMA ImportFleetOK == ASSUME IInv, ImportFleet PROVE IInv'
<1>1. /\ Importer \in Processes /\ PlaceOK(Importer) /\ TypesOK /\ RowsOK
      /\ Generic \in Owners /\ ~plain /\ Importer \notin Sessions
  BY ImporterIsNoSession, ImportIsNotPlain
     DEF IInv, Shape, Processes, Owners, ImportFleet
<1>2. PICK S \in MostRecent :
        new' = [new EXCEPT ![Importer] = new[Importer] \cup
                  {BatchFrom(Generic, AllHours, S, Plugged, start[Importer])}
                  \cup HourlyStats(Generic, S, start[Importer])]
  BY DEF ImportFleet
<1>3. /\ pc[Importer] = "fleet" /\ pc' = [pc EXCEPT ![Importer] = "commit"]
      /\ UNCHANGED <<sess, step, start, stats, cdf, lock, clock, ends, file,
                     plain>>
  BY DEF ImportFleet
<1>4. S \subseteq Ended /\ S # {}
  <2>1. Ended # {}
    BY <1>3 DEF IInv, Shape
  <2> QED
    BY <2>1, SomeAreRecent
<1>5. start[Importer] \in Nat \ {0} /\ start[Importer] <= clock
  BY <1>1, <1>3 DEF PlaceOK, Working
<1>6. ASSUME NEW w \in new'[Importer] PROVE RowOK(w)'
  <2>1. \/ w \in new[Importer]
        \/ w \in {BatchFrom(Generic, AllHours, S, Plugged, start[Importer])}
                 \cup HourlyStats(Generic, S, start[Importer])
    BY <1>1, <1>2, <1>6 DEF TypesOK
  <2>2. CASE w \in new[Importer]
    BY <1>1, <1>3, <2>2, RowsDoNotMove DEF RowsOK
  <2>3. CASE w \in {BatchFrom(Generic, AllHours, S, Plugged, start[Importer])}
                   \cup HourlyStats(Generic, S, start[Importer])
    <3>1. Imported(S, w, start[Importer])
      BY <1>1, <1>4, <2>3, ImportsAreRows
    <3>2. S \subseteq Ended' /\ clock' = clock
      BY <1>3, <1>4 DEF Ended
    <3> QED
      BY <1>5, <3>1, <3>2, ImportedRow
  <2> QED
    BY <2>1, <2>2, <2>3
<1>7. /\ pc'[Importer] = "commit" /\ DOMAIN new' = Processes
      /\ \A q \in Processes \ {Importer} : pc'[q] = pc[q] /\ new'[q] = new[q]
  BY <1>1, <1>2, <1>3 DEF TypesOK
<1>8. TypesOK'
  BY <1>1, <1>3, <1>7 DEF TypesOK, Working
<1>9. RowsOK'
  BY <1>1, <1>3, <1>6, <1>7, RowsDoNotMove DEF RowsOK
<1>10. ASSUME NEW p \in Processes PROVE PlaceOK(p)'
  <2>1. PlaceOK(p)
    BY DEF IInv, Shape
  <2> QED
    BY <1>1, <1>3, <1>5, <1>7, <2>1 DEF PlaceOK, Working
<1>11. file' \subseteq Ended' /\ file' # {}
  BY <1>3 DEF IInv, Shape, Ended
<1> QED
  BY <1>1, <1>3, <1>8, <1>9, <1>10, <1>11 DEF IInv, Shape

------------------------------------------------------------------------------
(* Every step keeps the invariant. *)

\* A step of an update.
LEMMA UpdateOK == ASSUME IInv, NEW r \in Sessions, Update(r) PROVE IInv'
<1>1. CASE Begin(r)
  BY <1>1, BeginOK
<1>2. CASE LookStats(r)
  <2>1. /\ Doing(r, "look", "stats") /\ pc[r] = "look"
        /\ UNCHANGED <<sess, start, stats, cdf, clock, ends, file, plain>>
    BY <1>2 DEF LookStats, Doing
  <2>2. CASE /\ LatestStats(Owner(r), Hour(r)) = {}
             /\ pc' = [pc EXCEPT ![r] = "rebuild"]
             /\ UNCHANGED <<step, new>>
    <3>1. \A w \in Committed : ~KeyOf(r, step[r], w)
      <4>1. Shape /\ Steps[step[r]].table = "stats"
        BY <2>1 DEF IInv, Doing
      <4>2. \A w \in stats : ~(w.owner = Owner(r) /\ w.hour = Hour(r))
        BY <2>2, <4>1, StatsAreRead
      <4>3. \A w \in cdf : IsBatch(w)
        BY <4>1 DEF Shape, RowsOK
      <4> QED
        BY <4>1, <4>2, <4>3, KeyIsOwnerAndHour DEF Committed
    <3>2. Finds(r, "rebuild")
      BY <3>1 DEF Finds
    <3> QED
      BY <2>1, <2>2, <3>2, MoveOK
  <2>3. CASE \E w \in LatestStats(Owner(r), Hour(r)) :
               Advance(r, IF Owner(r) = Generic /\ ~Within(Plugged[r]) THEN {}
                          ELSE {NextStat(w, r, Plugged[r], start[r])})
    <3>1. PICK w \in LatestStats(Owner(r), Hour(r)) :
            Advance(r, IF Owner(r) = Generic /\ ~Within(Plugged[r]) THEN {}
                       ELSE {NextStat(w, r, Plugged[r], start[r])})
      BY <2>3
    <3> DEFINE rows == IF Owner(r) = Generic /\ ~Within(Plugged[r]) THEN {}
                       ELSE {NextStat(w, r, Plugged[r], start[r])}
    <3>2. Advance(r, rows)
      BY <3>1
    <3>3. Adds(r, rows)
      BY <2>1, LookStatsAdds
    <3> HIDE DEF rows
    <3> QED
      BY <2>1, <3>2, <3>3, StageOK
  <2> QED
    BY <1>2, <2>2, <2>3 DEF LookStats
<1>3. CASE RebuildStats(r)
  <2> DEFINE rows == IF Owner(r) = Generic THEN FleetStat(r) ELSE ChargerStat(r)
  <2>1. /\ Doing(r, "rebuild", "stats") /\ pc[r] = "rebuild"
        /\ Advance(r, rows)
        /\ UNCHANGED <<sess, start, stats, cdf, clock, ends, file, plain>>
    BY <1>3 DEF RebuildStats, Doing
  <2>2. Adds(r, rows)
    BY <2>1, RebuildStatsAdds
  <2> HIDE DEF rows
  <2> QED
    BY <2>1, <2>2, StageOK
<1>4. CASE LookCdf(r)
  <2> DEFINE place == IF LatestBatches(Owner(r), Hour(r)) = {}
                        THEN "rebuild" ELSE "lock"
  <2>1. /\ Doing(r, "look", "cdf") /\ pc[r] = "look"
        /\ pc' = [pc EXCEPT ![r] = place]
        /\ UNCHANGED <<sess, step, start, new, stats, cdf, clock, ends, file,
                       plain>>
    BY <1>4 DEF LookCdf, Doing
  <2>2. ASSUME plain PROVE Finds(r, place)
    <3>1. Shape /\ Calm /\ Steps[step[r]].table = "cdf"
      BY <2>1, <2>2 DEF IInv, Doing
    <3>2. ASSUME LatestBatches(Owner(r), Hour(r)) = {},
                 NEW w \in Committed
          PROVE  ~KeyOf(r, step[r], w)
      <4>1. \A b \in cdf : ~(b.owner = Owner(r) /\ b.hour = Hour(r))
        BY <3>1, <3>2, BatchesAreRead
      <4>2. \A v \in stats : ~IsBatch(v)
        BY <3>1 DEF Shape, RowsOK
      <4> QED
        BY <3>1, <4>1, <4>2, KeyIsOwnerAndHour DEF Committed
    <3> QED
      BY <3>2 DEF Finds
  <2>3. place \in {"rebuild", "lock", "online"}
    OBVIOUS
  <2> HIDE DEF place
  <2> QED
    BY <2>1, <2>2, <2>3, MoveOK
<1>5. CASE RebuildCdf(r)
  <2> DEFINE S == EndedOf(Owner(r), Hour(r))
             rows == IF \/ S = {}
                        \/ Owner(r) # Generic /\ Cardinality(S) < MinSessions
                       THEN {}
                       ELSE {BatchFrom(Owner(r), Hour(r), S, Plugged, start[r])}
  <2>1. /\ Doing(r, "rebuild", "cdf") /\ pc[r] = "rebuild"
        /\ Advance(r, rows)
        /\ UNCHANGED <<sess, start, stats, cdf, clock, ends, file, plain>>
    BY <1>5 DEF RebuildCdf, Doing
  <2>2. \/ rows = {}
        \/ rows = {BatchFrom(Owner(r), Hour(r), S, Plugged, start[r])}
    OBVIOUS
  <2>3. S = EndedOf(Owner(r), Hour(r))
    OBVIOUS
  <2> HIDE DEF S, rows
  <2>4. Adds(r, rows)
    BY <2>1, <2>2, <2>3, RebuildCdfAdds
  <2> QED
    BY <2>1, <2>4, StageOK
<1>6. CASE TakeLock(r)
  <2>1. /\ Doing(r, "lock", "cdf") /\ pc[r] = "lock"
        /\ pc' = [pc EXCEPT ![r] = "online"]
        /\ UNCHANGED <<sess, step, start, new, stats, cdf, clock, ends, file,
                       plain>>
    BY <1>6 DEF TakeLock, Doing
  <2>2. plain => Finds(r, "online")
    BY <2>1, AtStep DEF WorkOK, Finds
  <2> QED
    BY <2>1, <2>2, MoveOK
<1>7. CASE OnlineCdf(r)
  <2> DEFINE rows == {NextBatch(b, r, Plugged[r], start[r]) :
                        b \in LatestBatches(Owner(r), Hour(r))}
  <2>1. /\ Doing(r, "online", "cdf") /\ pc[r] = "online"
        /\ Advance(r, rows)
        /\ UNCHANGED <<sess, start, stats, cdf, clock, ends, file, plain>>
    BY <1>7 DEF OnlineCdf, Doing
  <2>2. Adds(r, rows)
    BY <2>1, OnlineCdfAdds
  <2> HIDE DEF rows
  <2> QED
    BY <2>1, <2>2, StageOK
<1> QED
  BY <1>1, <1>2, <1>3, <1>4, <1>5, <1>6, <1>7 DEF Update

LEMMA ImportOK == ASSUME IInv, Import PROVE IInv'
  BY ImportSessionsOK, ImportChargerOK, ImportFleetOK DEF Import

\* A step that changes nothing.
LEMMA StutterOK == ASSUME IInv, UNCHANGED vars PROVE IInv'
<1>1. Shape'
  <2>1. TypesOK'
    BY DEF vars, IInv, Shape, TypesOK
  <2>2. RowsOK'
    BY RowsDoNotMove DEF vars, IInv, Shape, RowsOK
  <2>3. \A p \in Processes : PlaceOK(p)'
    BY DEF vars, IInv, Shape, PlaceOK
  <2> QED
    BY <2>1, <2>2, <2>3 DEF vars, IInv, Shape, Ended
<1>2. ASSUME plain PROVE Calm'
  <2>1. Calm /\ Shape /\ SameEnds /\ InFlight' = InFlight
    BY <1>2 DEF vars, IInv, SameEnds, InFlight
  <2>2. /\ Ordered'
        /\ \A w \in Committed' :
             (CountsOnce(w) /\ (IsRead(w) => AccountsForAll(w)))'
    BY <2>1, TablesStayCalm DEF vars
  <2>3. ASSUME NEW r \in InFlight PROVE WorkOK(r)'
    <3>1. WorkOK(r)
      BY <2>1 DEF Calm
    <3>2. \A w \in new'[r] : NewOK(r, w)'
      <4>1. ASSUME NEW w \in new'[r] PROVE NewOK(r, w)'
        <5>1. NewOK(r, w)
          BY <3>1, <4>1 DEF vars, WorkOK
        <5> QED
          BY <2>1, <5>1, NewStaysOK DEF vars
      <4> QED
        BY <4>1
    <3>3. /\ Past(r)' = Past(r) /\ Ahead(r)' = Ahead(r)
          /\ \A i, w : KeyOf(r, i, w)' <=> KeyOf(r, i, w)
          /\ LatestBatches(Owner(r), Hour(r))' = LatestBatches(Owner(r), Hour(r))
      BY DEF vars, Past, Ahead, KeyOf, Owner, Hour, LatestBatches
    <3>4. /\ new' = new /\ pc' = pc /\ step' = step /\ start' = start
          /\ sess' = sess /\ Committed' = Committed
          /\ \A owner, hour : EndedOf(owner, hour)' = EndedOf(owner, hour)
      BY ReadsDoNotMove DEF vars
    <3> QED
      BY <3>1, <3>2, <3>3, <3>4 DEF WorkOK
  <2>4. /\ pc'[Importer] = "idle" /\ \A s \in Ended' : pc'[s] # "idle"
        /\ \A p, q \in InFlight' : p = q
    BY <2>1 DEF vars, Calm, Ended
  <2> QED
    BY <2>1, <2>2, <2>3, <2>4 DEF Calm
<1> QED
  BY <1>1, <1>2 DEF IInv, vars

LEMMA StepOK == ASSUME IInv, [Next]_vars PROVE IInv'
<1>1. CASE \E s \in Sessions, kind \in Kinds : Close(s, kind)
  BY <1>1, CloseOK
<1>2. CASE \E r \in Sessions : Update(r)
  BY <1>2, UpdateOK
<1>3. CASE Import
  BY <1>3, ImportOK
<1>4. CASE \E p \in Processes : Commit(p) \/ Abort(p)
  BY <1>4, CommitOK, AbortOK
<1>5. CASE Crash
  BY <1>5, CrashOK
<1>6. CASE UNCHANGED vars
  BY <1>6, StutterOK
<1> QED
  BY <1>1, <1>2, <1>3, <1>4, <1>5, <1>6 DEF Next, Quiet

LEMMA Invariance == Spec => []IInv
<1>1. Init => IInv
  BY InitOK
<1>2. IInv /\ [Next]_vars => IInv'
  BY StepOK
<1> QED
  BY <1>1, <1>2, PTL DEF Spec

------------------------------------------------------------------------------
(* What a distribution is made of. *)

\* The sample of a session in a row that counts it once.
Sample(s) == <<<<s, "plugged">>, 1>>

LEMMA SampleFacts ==
    ASSUME NEW bag \in Bags
    PROVE  /\ \A x \in Samples(bag) :
                /\ x[1] \in Sessions \X Measures /\ x[2] \in 1 .. bag[x[1]]
                /\ x = <<x[1], x[2]>> /\ x[1][1] \in Sessions
                /\ Times(bag, x[1][1]) > 0
           /\ \A sm \in Sessions \X Measures : \A i \in 1 .. bag[sm] :
                <<sm, i>> \in Samples(bag)
<1>1. \A x : x \in Samples(bag) <=>
        \E sm \in Sessions \X Measures : x \in {sm} \X (1 .. bag[sm])
  BY DEF Samples
<1>2. ASSUME NEW x \in Samples(bag)
      PROVE  /\ x[1] \in Sessions \X Measures /\ x[2] \in 1 .. bag[x[1]]
             /\ x = <<x[1], x[2]>> /\ x[1][1] \in Sessions
             /\ Times(bag, x[1][1]) > 0
  <2>1. PICK sm \in Sessions \X Measures : x \in {sm} \X (1 .. bag[sm])
    BY <1>1
  <2>2. x[1] = sm /\ x[2] \in 1 .. bag[sm] /\ x = <<x[1], x[2]>>
    BY <2>1
  <2>3. PICK s \in Sessions, m \in Measures : sm = <<s, m>>
    OBVIOUS
  <2>4. /\ <<s, "plugged">> \in Sessions \X Measures
        /\ <<s, "charged">> \in Sessions \X Measures
        /\ m \in {"plugged", "charged"}
    BY DEF Measures
  <2>5. /\ bag[<<s, "plugged">>] \in Nat /\ bag[<<s, "charged">>] \in Nat
        /\ bag[<<s, m>>] > 0
    BY <2>2, <2>3, <2>4 DEF Bags
  <2>6. Times(bag, s) > 0
    BY <2>4, <2>5 DEF Times
  <2> QED
    BY <2>1, <2>2, <2>3, <2>6
<1>3. ASSUME NEW sm \in Sessions \X Measures, NEW i \in 1 .. bag[sm]
      PROVE  <<sm, i>> \in Samples(bag)
  <2>1. <<sm, i>> \in {sm} \X (1 .. bag[sm])
    OBVIOUS
  <2> QED
    BY <1>1, <2>1
<1> QED
  BY <1>2, <1>3

\* The samples of a rebuilt row are its sessions ...
LEMMA SamplesOfSessions ==
    ASSUME NEW S, S \subseteq Sessions
    PROVE  Samples(BagOf(S, "plugged")) = {Sample(s) : s \in S}
<1> DEFINE bag == BagOf(S, "plugged")
<1>1. /\ bag \in Bags
      /\ \A sm \in Sessions \X Measures :
           bag[sm] = IF sm[1] \in S /\ sm[2] = "plugged" THEN 1 ELSE 0
  BY DEF BagOf, Bags
<1> HIDE DEF bag
<1>2. ASSUME NEW x \in Samples(bag) PROVE \E s \in S : x = Sample(s)
  <2>1. /\ x[1] \in Sessions \X Measures /\ x[2] \in 1 .. bag[x[1]]
        /\ x = <<x[1], x[2]>>
    BY <1>1, SampleFacts
  <2>2. PICK s \in Sessions, m \in Measures : x[1] = <<s, m>>
    BY <2>1
  <2>3. s \in S /\ m = "plugged" /\ x[2] = 1
    BY <1>1, <2>1, <2>2
  <2> QED
    BY <2>1, <2>2, <2>3 DEF Sample
<1>3. ASSUME NEW s \in S PROVE Sample(s) \in Samples(bag)
  <2>1. <<s, "plugged">> \in Sessions \X Measures
    BY DEF Measures
  <2>2. 1 \in 1 .. bag[<<s, "plugged">>]
    BY <1>1, <2>1
  <2> QED
    BY <1>1, <2>1, <2>2, SampleFacts DEF Sample
<1>4. \A x : x \in Samples(bag) <=> \E s \in S : x = Sample(s)
  BY <1>2, <1>3
<1> QED
  BY <1>4 DEF bag

\* ... and as many.
LEMMA AsManySamples ==
    ASSUME NEW S, IsFiniteSet(S), NEW T, T = {Sample(s) : s \in S}
    PROVE  IsFiniteSet(T) /\ Cardinality(T) = Cardinality(S)
<1> DEFINE f == [s \in S |-> Sample(s)]
<1>1. f \in [S -> T] /\ \A s \in S : f[s] = Sample(s)
  OBVIOUS
<1>2. \A s, t \in S : Sample(s) = Sample(t) => s = t
  BY DEF Sample
<1>3. \A x \in T : \E s \in S : f[s] = x
  OBVIOUS
<1> HIDE DEF f
<1>4. f \in Bijection(S, T)
  BY <1>1, <1>2, <1>3 DEF Bijection, Injection, IsInjective, Surjection
<1> QED
  BY <1>4, FS_Bijection DEF ExistsBijection

\* A session counted once more is one more sample.
LEMMA OneMoreSample ==
    ASSUME NEW bag \in Bags, NEW s \in Sessions
    PROVE  \E x : /\ x[1] = <<s, "plugged">> /\ x \notin Samples(bag)
                  /\ Samples(With(bag, s, "plugged")) = Samples(bag) \cup {x}
<1> DEFINE p == <<s, "plugged">>
           more == With(bag, s, "plugged")
           x == <<p, bag[p] + 1>>
<1>1. p \in Sessions \X Measures /\ bag[p] \in Nat
  BY DEF Bags, Measures
<1>2. /\ more \in Bags /\ more[p] = bag[p] + 1
      /\ \A sm \in Sessions \X Measures : sm # p => more[sm] = bag[sm]
  BY <1>1 DEF With, Bags
<1> HIDE DEF more, p
<1>3. x[1] = p /\ x[2] = bag[p] + 1
  OBVIOUS
<1>4. x \notin Samples(bag)
  <2>1. ASSUME x \in Samples(bag) PROVE FALSE
    <3>1. x[2] \in 1 .. bag[x[1]]
      BY <2>1, SampleFacts
    <3> QED
      BY <1>1, <1>3, <3>1
  <2> QED
    BY <2>1
<1>5. x \in Samples(more)
  BY <1>1, <1>2, SampleFacts
<1>6. ASSUME NEW y \in Samples(bag) PROVE y \in Samples(more)
  <2>1. /\ y[1] \in Sessions \X Measures /\ y[2] \in 1 .. bag[y[1]]
        /\ y = <<y[1], y[2]>>
    BY SampleFacts
  <2>2. y[2] \in 1 .. more[y[1]]
    BY <1>1, <1>2, <2>1
  <2> QED
    BY <1>2, <2>1, <2>2, SampleFacts
<1>7. ASSUME NEW y \in Samples(more), y # x PROVE y \in Samples(bag)
  <2>1. /\ y[1] \in Sessions \X Measures /\ y[2] \in 1 .. more[y[1]]
        /\ y = <<y[1], y[2]>>
    BY <1>2, SampleFacts
  <2>2. y[2] \in 1 .. bag[y[1]]
    <3>1. CASE y[1] # p
      BY <1>2, <2>1, <3>1
    <3>2. CASE y[1] = p
      <4>1. y[2] # bag[p] + 1
        BY <1>7, <2>1, <3>2
      <4> QED
        BY <1>1, <1>2, <2>1, <3>2, <4>1
    <3> QED
      BY <3>1, <3>2
  <2> QED
    BY <2>1, <2>2, SampleFacts
<1>8. Samples(more) = Samples(bag) \cup {x}
  <2> HIDE DEF x
  <2> QED
    BY <1>5, <1>6, <1>7
<1> QED
  BY <1>3, <1>4, <1>8 DEF more, p

\* The samples that lasted at most h.
Lasted(bag, h) == {x \in Samples(bag) : Value(x[1]) <= h}

\* b is the empirical distribution of the sessions it counts.
Empirical(b) ==
    /\ \A s \in Sessions : Times(b.bag, s) > 0 => s \in EndedOf(b.owner, b.hour)
    /\ IsFiniteSet(Samples(b.bag))
    /\ b.n = Cardinality(Samples(b.bag))
    /\ \A h \in Horizons : b.within[h] = Cardinality(Lasted(b.bag, h))

\* A distribution computed from sessions is theirs.
LEMMA RebuiltIsEmpirical ==
    ASSUME NEW owner, NEW hour, NEW S, S \subseteq EndedOf(owner, hour),
           NEW at
    PROVE  Empirical(BatchFrom(owner, hour, S, Plugged, at))
<1> DEFINE b == BatchFrom(owner, hour, S, Plugged, at)
           bag == BagOf(S, "plugged")
           In(h) == {s \in S : Plugged[s] <= h}
<1>1. S \subseteq Sessions /\ S \subseteq Ended
  BY DEF EndedOf, Ended
<1>2. IsFiniteSet(S) /\ \A h : IsFiniteSet(In(h))
  BY <1>1, SessionsAreFinite, FS_Subset
<1>3. /\ b.owner = owner /\ b.hour = hour /\ b.n = Cardinality(S)
      /\ b.bag = bag
      /\ b.within = [h \in Horizons |-> Cardinality(In(h))]
  BY BatchFields DEF BatchFrom
<1>4. \A s \in Sessions : Times(bag, s) > 0 => s \in S
  BY <1>1, BagOfCounts DEF Measures
<1>5. Samples(bag) = {Sample(s) : s \in S}
  BY <1>1, SamplesOfSessions
<1>6. IsFiniteSet(Samples(bag)) /\ Cardinality(Samples(bag)) = Cardinality(S)
  BY <1>2, <1>5, AsManySamples
<1>7. ASSUME NEW h \in Horizons
      PROVE  b.within[h] = Cardinality(Lasted(bag, h))
  <2>1. \A s \in S : Value(Sample(s)[1]) = Plugged[s]
    BY DEF Value, Sample
  <2>2. Lasted(bag, h) = {Sample(s) : s \in In(h)}
    <3> HIDE DEF bag
    <3> QED
      BY <1>5, <2>1 DEF Lasted
  <2>3. Cardinality(Lasted(bag, h)) = Cardinality(In(h))
    <3> HIDE DEF In, bag
    <3> QED
      BY <1>2, <2>2, AsManySamples
  <2> QED
    BY <1>3, <2>3
<1> HIDE DEF b, bag
<1> QED
  BY <1>1, <1>3, <1>4, <1>6, <1>7 DEF Empirical, b

\* A distribution continued with one of its sessions is theirs.
LEMMA ContinuedIsEmpirical ==
    ASSUME NEW b, Empirical(b), b.bag \in Bags, b.within \in [Horizons -> Nat],
           NEW r \in Sessions, r \in EndedOf(b.owner, b.hour),
           Plugged[r] \in Nat, NEW at
    PROVE  Empirical(NextBatch(b, r, Plugged[r], at))
<1> DEFINE c == NextBatch(b, r, Plugged[r], at)
           bag == With(b.bag, r, "plugged")
<1>1. /\ c.owner = b.owner /\ c.hour = b.hour /\ c.n = b.n + 1
      /\ c.bag = bag
      /\ c.within = [h \in Horizons |->
                       b.within[h] + IF Plugged[r] <= h THEN 1 ELSE 0]
  BY BatchFields DEF NextBatch
<1>2. PICK x : /\ x[1] = <<r, "plugged">> /\ x \notin Samples(b.bag)
               /\ Samples(bag) = Samples(b.bag) \cup {x}
  BY OneMoreSample
<1>3. \A s \in Sessions :
        Times(bag, s) > 0 => s = r \/ Times(b.bag, s) > 0
  <2>1. "plugged" \in Measures
    BY DEF Measures
  <2>2. \A s \in Sessions :
          Times(bag, s) = Times(b.bag, s) + IF s = r THEN 1 ELSE 0
    BY <2>1, WithCounts
  <2> QED
    BY <2>2, TimesIsNat
<1>4. /\ IsFiniteSet(Samples(bag))
      /\ Cardinality(Samples(bag)) = b.n + 1
  BY <1>2, FS_AddElement DEF Empirical
<1>5. ASSUME NEW h \in Horizons
      PROVE  c.within[h] = Cardinality(Lasted(bag, h))
  <2>1. Value(x[1]) = Plugged[r]
    BY <1>2 DEF Value
  <2>2. /\ IsFiniteSet(Lasted(b.bag, h)) /\ x \notin Lasted(b.bag, h)
        /\ b.within[h] = Cardinality(Lasted(b.bag, h))
    BY <1>2, FS_Subset DEF Empirical, Lasted
  <2>3. CASE Plugged[r] <= h
    <3>1. Lasted(bag, h) = Lasted(b.bag, h) \cup {x}
      BY <1>2, <2>1, <2>3 DEF Lasted
    <3>2. Cardinality(Lasted(bag, h)) = b.within[h] + 1
      BY <2>2, <3>1, FS_AddElement
    <3> QED
      BY <1>1, <2>3, <3>2
  <2>4. CASE ~(Plugged[r] <= h)
    <3>1. Lasted(bag, h) = Lasted(b.bag, h)
      BY <1>2, <2>1, <2>4 DEF Lasted
    <3> QED
      BY <1>1, <2>2, <2>4, <3>1
  <2> QED
    BY <2>3, <2>4
<1> HIDE DEF c, bag
<1>6. \A s \in Sessions : Times(bag, s) > 0 => s \in EndedOf(b.owner, b.hour)
  BY <1>3 DEF Empirical
<1> QED
  BY <1>1, <1>4, <1>5, <1>6 DEF Empirical, c

\* Every distribution, stored or about to be, is an empirical one.
EInv ==
    /\ \A p \in Processes : \A w \in new[p] : IsBatch(w) => Empirical(w)
    /\ \A b \in cdf : Empirical(b)

\* Sessions that are completed do not change.
SessionsStay == \A s \in Ended : s \in Ended' /\ sess'[s] = sess[s]

\* ... so what they were counted for stays so.
LEMMA EmpiricalStays ==
    ASSUME SessionsStay, NEW b, b.bag \in Bags, Empirical(b)
    PROVE  Empirical(b)'
<1>1. \A s \in EndedOf(b.owner, b.hour) : s \in EndedOf(b.owner, b.hour)'
  BY DEF SessionsStay, EndedOf
<1>2. ASSUME NEW x \in Samples(b.bag) PROVE Value(x[1])' = Value(x[1])
  <2>1. x[1][1] \in Sessions /\ Times(b.bag, x[1][1]) > 0
    BY SampleFacts
  <2>2. x[1][1] \in Ended /\ x[1][1] \in Ended'
        /\ sess'[x[1][1]] = sess[x[1][1]]
    BY <2>1 DEF Empirical, EndedOf, SessionsStay
  <2> QED
    BY <2>2 DEF Value, Plugged, Charged
<1>3. \A h : Lasted(b.bag, h)' = Lasted(b.bag, h)
  BY <1>2 DEF Lasted
<1> QED
  BY <1>1, <1>3 DEF Empirical

LEMMA RowsStayEmpirical ==
    ASSUME IInv, EInv, SessionsStay, cdf' = cdf,
           \A p \in Processes : \A w \in new'[p] :
              w \in new[p] \/ (IsBatch(w) => Empirical(w)')
    PROVE  EInv'
<1>1. /\ \A p \in Processes : \A w \in new[p] : w.bag \in Bags
      /\ \A b \in cdf : b.bag \in Bags
  BY DEF IInv, Shape, RowsOK, RowOK
<1> QED
  BY <1>1, EmpiricalStays DEF EInv

\* Where the sessions do not move, neither does what is said of them.
LEMMA EmpiricalDoesNotMove ==
    ASSUME sess' = sess, NEW w PROVE Empirical(w)' <=> Empirical(w)
  BY DEF Empirical, EndedOf, Ended, Lasted, Value, Plugged, Charged

LEMMA EmpiricalUpdates ==
    ASSUME IInv, EInv, NEW r \in Sessions, Update(r)
    PROVE  EInv'
<1>1. /\ TypesOK /\ r \in Processes /\ sess' = sess /\ cdf' = cdf
      /\ SessionsStay
  BY DEF IInv, Shape, Processes, Update, Begin, LookStats, RebuildStats,
         LookCdf, RebuildCdf, TakeLock, OnlineCdf, SessionsStay, Ended
<1>2. CASE new' = new
  BY <1>1, <1>2, RowsStayEmpirical
<1>3. ASSUME NEW rows, Advance(r, rows),
             \A w \in rows : IsBatch(w) => Empirical(w)
      PROVE  EInv'
  <2>1. /\ new'[r] = new[r] \cup rows
        /\ \A q \in Processes \ {r} : new'[q] = new[q]
    BY <1>1, <1>3, AdvanceFrame
  <2>2. \A p \in Processes : \A w \in new'[p] :
          w \in new[p] \/ (IsBatch(w) => Empirical(w)')
    BY <1>1, <1>3, <2>1, EmpiricalDoesNotMove
  <2> QED
    BY <1>1, <2>2, RowsStayEmpirical
<1>4. CASE LookStats(r)
  <2>1. CASE UNCHANGED new
    BY <1>2, <2>1
  <2>2. CASE \E v \in LatestStats(Owner(r), Hour(r)) :
               Advance(r, IF Owner(r) = Generic /\ ~Within(Plugged[r]) THEN {}
                          ELSE {NextStat(v, r, Plugged[r], start[r])})
    <3>1. PICK v \in LatestStats(Owner(r), Hour(r)) :
               Advance(r, IF Owner(r) = Generic /\ ~Within(Plugged[r]) THEN {}
                          ELSE {NextStat(v, r, Plugged[r], start[r])})
      BY <2>2
    <3> DEFINE w == NextStat(v, r, Plugged[r], start[r])
               rows == IF Owner(r) = Generic /\ ~Within(Plugged[r]) THEN {}
                       ELSE {w}
    <3>2. ~IsBatch(w)
      BY StatFields DEF NextStat
    <3>3. Advance(r, rows) /\ \A x \in rows : x = w
      BY <3>1
    <3> HIDE DEF rows, w
    <3> QED
      BY <1>3, <3>2, <3>3
  <2> QED
    BY <1>4, <2>1, <2>2 DEF LookStats
<1>5. CASE RebuildStats(r)
  <2> DEFINE rows == IF Owner(r) = Generic THEN FleetStat(r) ELSE ChargerStat(r)
  <2>1. Advance(r, rows)
    BY <1>5 DEF RebuildStats
  <2>2. \A w \in rows : ~IsBatch(w)
    BY StatFields DEF FleetStat, ChargerStat, StatFrom
  <2> HIDE DEF rows
  <2> QED
    BY <1>3, <2>1, <2>2
<1>6. CASE RebuildCdf(r)
  <2> DEFINE S == EndedOf(Owner(r), Hour(r))
             b == BatchFrom(Owner(r), Hour(r), S, Plugged, start[r])
             rows == IF \/ S = {}
                        \/ Owner(r) # Generic /\ Cardinality(S) < MinSessions
                       THEN {} ELSE {b}
  <2>1. Advance(r, rows)
    BY <1>6 DEF RebuildCdf
  <2>2. Empirical(b)
    BY RebuiltIsEmpirical
  <2>3. \A w \in rows : w = b
    OBVIOUS
  <2> HIDE DEF rows, b
  <2> QED
    BY <1>3, <2>1, <2>2, <2>3
<1>7. CASE OnlineCdf(r)
  <2> DEFINE rows == {NextBatch(b, r, Plugged[r], start[r]) :
                        b \in LatestBatches(Owner(r), Hour(r))}
  <2>1. Advance(r, rows) /\ pc[r] = "online"
    BY <1>7 DEF OnlineCdf, Doing
  <2>2. r \in EndedOf(Owner(r), Hour(r)) /\ Plugged[r] \in Nat
    BY <2>1, AtStep
  <2>3. ASSUME NEW b \in LatestBatches(Owner(r), Hour(r))
        PROVE  Empirical(NextBatch(b, r, Plugged[r], start[r]))
    <3>1. /\ b \in cdf /\ b.owner = Owner(r) /\ b.hour = Hour(r)
          /\ b.bag \in Bags /\ b.within \in [Horizons -> Nat]
      BY ReadRows DEF IInv, RowOK, Distribution
    <3>2. Empirical(b)
      BY <3>1 DEF EInv
    <3> QED
      BY <2>2, <3>1, <3>2, ContinuedIsEmpirical
  <2>4. \A w \in rows : Empirical(w)
    BY <2>3
  <2> HIDE DEF rows
  <2> QED
    BY <1>3, <2>1, <2>4
<1> QED
  BY <1>2, <1>4, <1>5, <1>6, <1>7
     DEF Update, Begin, LookCdf, TakeLock

\* What the import adds to its transaction.
LEMMA EmpiricalImports ==
    ASSUME IInv, EInv, NEW owner, NEW S, S \subseteq EndedOf(owner, AllHours),
           NEW at, NEW old, old \in {{}, new[Importer]},
           new' = [new EXCEPT ![Importer] = old \cup
                     ({BatchFrom(owner, AllHours, S, Plugged, at)}
                      \cup HourlyStats(owner, S, at))],
           sess' = sess, cdf' = cdf
    PROVE  EInv'
<1> DEFINE b == BatchFrom(owner, AllHours, S, Plugged, at)
<1>1. Importer \in Processes /\ TypesOK /\ SessionsStay
  BY DEF IInv, Shape, Processes, SessionsStay, Ended
<1>2. Empirical(b)
  BY RebuiltIsEmpirical
<1>3. \A w \in HourlyStats(owner, S, at) : ~IsBatch(w)
  <2>1. ASSUME NEW w \in HourlyStats(owner, S, at) PROVE ~IsBatch(w)
    <3>1. PICK h : w = ImportedStat(owner, h, {s \in S : sess[s].hour = h},
                                    Plugged, at)
      BY <2>1 DEF HourlyStats
    <3> QED
      BY <3>1, StatFields DEF ImportedStat
  <2> QED
    BY <2>1
<1>4. \A p \in Processes : \A w \in new'[p] :
        w \in new[p] \/ w = b \/ w \in HourlyStats(owner, S, at)
  BY <1>1 DEF TypesOK
<1> HIDE DEF b
<1>5. \A p \in Processes : \A w \in new'[p] :
        w \in new[p] \/ (IsBatch(w) => Empirical(w)')
  BY <1>2, <1>3, <1>4, EmpiricalDoesNotMove
<1> QED
  BY <1>1, <1>5, RowsStayEmpirical

LEMMA EmpiricalSteps == ASSUME IInv, EInv, [Next]_vars PROVE EInv'
<1>1. CASE \E s \in Sessions, kind \in Kinds : Close(s, kind)
  <2>1. PICK s \in Sessions, kind \in Kinds : Close(s, kind)
    BY <1>1
  <2>2. SessionsStay
    BY <2>1 DEF Close, SessionsStay, Ended, IInv, Shape, TypesOK
  <2> QED
    BY <2>1, <2>2, RowsStayEmpirical DEF Close
<1>2. CASE \E r \in Sessions : Update(r)
  BY <1>2, EmpiricalUpdates
<1>3. CASE Import
  <2>1. ASSUME NEW S \in SUBSET Sessions, NEW kind \in Kinds,
               NEW end \in {0, ends + 1}, ImportSessions(S, kind, end)
        PROVE  EInv'
    <3>1. SessionsStay
      BY <2>1 DEF ImportSessions, SessionsStay, Ended
    <3> QED
      BY <2>1, <3>1, RowsStayEmpirical DEF ImportSessions
  <2>2. ASSUME NEW c \in Chargers, ImportCharger(c) PROVE EInv'
    <3> DEFINE S == EndedOf(c, AllHours)
               rows == {BatchFrom(c, AllHours, S, Plugged, clock + 1)}
                       \cup HourlyStats(c, S, clock + 1)
    <3>1. /\ new' = [new EXCEPT ![Importer] = rows]
          /\ sess' = sess /\ cdf' = cdf
      BY <2>2 DEF ImportCharger
    <3>2. rows = {} \cup rows
      OBVIOUS
    <3>3. new' = [new EXCEPT ![Importer] = {} \cup rows]
      BY <3>1, <3>2
    <3> QED
      BY <3>1, <3>3, EmpiricalImports
  <2>3. ASSUME ImportFleet PROVE EInv'
    <3>1. PICK S \in MostRecent :
            new' = [new EXCEPT ![Importer] = new[Importer] \cup
                      {BatchFrom(Generic, AllHours, S, Plugged, start[Importer])}
                      \cup HourlyStats(Generic, S, start[Importer])]
      BY <2>3 DEF ImportFleet
    <3> DEFINE rows == {BatchFrom(Generic, AllHours, S, Plugged, start[Importer])}
                       \cup HourlyStats(Generic, S, start[Importer])
    <3>2. new' = [new EXCEPT ![Importer] = new[Importer] \cup rows]
      BY <3>1
    <3>3. S \subseteq EndedOf(Generic, AllHours)
      BY DEF MostRecent, EndedOf, Ended
    <3>4. sess' = sess /\ cdf' = cdf
      BY <2>3 DEF ImportFleet
    <3> QED
      BY <3>2, <3>3, <3>4, EmpiricalImports
  <2> QED
    BY <1>3, <2>1, <2>2, <2>3 DEF Import
<1>4. CASE \E p \in Processes : Commit(p)
  <2>1. PICK p \in Processes : Commit(p)
    BY <1>4
  <2>2. /\ sess' = sess /\ TypesOK
        /\ \A b \in cdf' : b \in cdf \/ (b \in new[p] /\ IsBatch(b))
        /\ \A q \in Processes : new'[q] = {} \/ new'[q] = new[q]
    BY <2>1 DEF Commit, IInv, Shape, TypesOK
  <2> QED
    BY <2>2, EmpiricalDoesNotMove DEF EInv
<1>5. CASE Crash \/ \E p \in Processes : Abort(p)
  <2>1. /\ sess' = sess /\ cdf' = cdf /\ TypesOK
        /\ \A q \in Processes : new'[q] = {} \/ new'[q] = new[q]
    BY <1>5 DEF Crash, Abort, IInv, Shape, TypesOK
  <2> QED
    BY <2>1, EmpiricalDoesNotMove DEF EInv
<1>6. CASE UNCHANGED vars
  BY <1>6, EmpiricalDoesNotMove DEF vars, EInv
<1> QED
  BY <1>1, <1>2, <1>3, <1>4, <1>5, <1>6 DEF Next, Quiet

------------------------------------------------------------------------------
(* Fractions. *)

\* A fraction in lowest terms is the ratio it was made of.
LEMMA LowestIs ==
    ASSUME NEW p \in Int, NEW q \in Nat \ {0}, NEW f, f = Lowest(p, q)
    PROVE  /\ f \in Fractions
           /\ IsRatio(f, p, q)
           /\ p >= 0 => f \in Amounts
<1> DEFINE d == Max(Divisors(p, q))
<1>1. d \in Divisors(p, q)
  <2>1. 1 \in Divisors(p, q)
    BY DEF Divisors
  <2>2. IsFiniteSet(Divisors(p, q))
    <3>1. Divisors(p, q) \subseteq 1..q
      BY DEF Divisors
    <3> QED
      BY <3>1, IntervalIsFinite
  <2>3. \E x \in Divisors(p, q) : \A y \in Divisors(p, q) : x >= y
    <3>1. Divisors(p, q) \subseteq Int
      BY DEF Divisors
    <3> QED
      BY <2>1, <2>2, <3>1, GreatestExists
  <2> QED
    BY <2>3 DEF Max
<1>2. d \in Nat \ {0} /\ p % d = 0 /\ q % d = 0
  BY <1>1 DEF Divisors
<1> HIDE DEF d
<1>3. p = d * (p \div d) /\ q = d * (q \div d) /\ p \div d \in Int /\ q \div d \in Int
  BY <1>2
<1>4. PICK a \in Int, b \in Int : p = d * a /\ q = d * b /\ a = p \div d /\ b = q \div d
  BY <1>3
<1>5. f = [num |-> a, den |-> b]
  BY <1>4 DEF Lowest, d
<1>6. b > 0 /\ (p >= 0 => a >= 0)
  BY <1>2, <1>4
<1>7. a * (d * b) = (d * a) * b
  BY <1>2, <1>4
<1> QED
  BY <1>4, <1>5, <1>6, <1>7 DEF Fractions, Amounts, IsRatio

\* A factor that is not zero is cancelled.
LEMMA Cancel ==
    ASSUME NEW x \in Int, NEW y \in Int, NEW b \in Nat \ {0}, x * b = y * b
    PROVE  x = y
<1>1. (y - x) * b = y * b - x * b /\ (x - y) * b = x * b - y * b
  OBVIOUS
<1>2. ASSUME x < y PROVE FALSE
  <2>1. y - x >= 1 /\ y - x \in Int
    BY <1>2
  <2>2. (y - x) * b >= b
    BY <2>1
  <2> QED
    BY <1>1, <2>2
<1>3. ASSUME y < x PROVE FALSE
  <2>1. x - y >= 1 /\ x - y \in Int
    BY <1>3
  <2>2. (x - y) * b >= b
    BY <2>1
  <2> QED
    BY <1>1, <2>2
<1> QED
  BY <1>2, <1>3

\* What is equal to one way to write a fraction is another.
LEMMA SameRatio ==
    ASSUME NEW f \in Fractions, NEW p \in Int, NEW q \in Int,
           NEW a \in Int, NEW b \in Nat \ {0},
           IsRatio(f, a, b), a * q = p * b
    PROVE  IsRatio(f, p, q)
<1>1. PICK u \in Int, v \in Nat \ {0} : u = f.num /\ v = f.den
  BY DEF Fractions
<1>2. u * b = a * v
  BY <1>1 DEF IsRatio
<1>3. /\ (u * q) * b = (u * b) * q
      /\ (a * v) * q = (a * q) * v
      /\ (p * b) * v = (p * v) * b
      /\ u * q \in Int /\ p * v \in Int
  OBVIOUS
<1>4. (u * q) * b = (p * v) * b
  BY <1>2, <1>3
<1>5. u * q = p * v
  BY <1>3, <1>4, Cancel
<1> QED
  BY <1>1, <1>5 DEF IsRatio

\* A fraction is the ratio of its columns.
LEMMA OwnRatio ==
    ASSUME NEW f \in Fractions
    PROVE  f.num \in Int /\ f.den \in Nat \ {0} /\ IsRatio(f, f.num, f.den)
  BY DEF Fractions, IsRatio

LEMMA RatioSign ==
    ASSUME NEW f \in Fractions, NEW p \in Nat, NEW q \in Nat \ {0}, IsRatio(f, p, q)
    PROVE  f \in Amounts
<1>1. PICK u \in Int, v \in Nat \ {0} : f = [num |-> u, den |-> v]
  BY DEF Fractions
<1>2. u * q = p * v
  BY <1>1 DEF IsRatio
<1>3. p * v >= 0
  OBVIOUS
<1>4. ASSUME u < 0 PROVE FALSE
  <2>1. u * q < 0
    BY <1>4
  <2> QED
    BY <1>2, <1>3, <2>1
<1> QED
  BY <1>1, <1>4 DEF Amounts

\* The operations compute what they say, for any way to write their operands.
LEMMA Arithmetic ==
    ASSUME NEW f \in Fractions, NEW p \in Int, NEW q \in Nat \ {0}, IsRatio(f, p, q),
           NEW g \in Fractions, NEW r \in Int, NEW s \in Nat \ {0}, IsRatio(g, r, s)
    PROVE  /\ Plus(f, g) \in Fractions /\ IsRatio(Plus(f, g), p * s + r * q, q * s)
           /\ Minus(f, g) \in Fractions /\ IsRatio(Minus(f, g), p * s - r * q, q * s)
           /\ Mult(f, g) \in Fractions /\ IsRatio(Mult(f, g), p * r, q * s)
<1>1. PICK u \in Int, v \in Nat \ {0} : u = f.num /\ v = f.den
  BY DEF Fractions
<1>2. PICK x \in Int, y \in Nat \ {0} : x = g.num /\ y = g.den
  BY DEF Fractions
<1>3. u * q = p * v /\ x * s = r * y
  BY <1>1, <1>2 DEF IsRatio
<1>4. v * y \in Nat \ {0} /\ q * s \in Nat \ {0}
  OBVIOUS
<1>5. /\ u * y + x * v \in Int /\ u * y - x * v \in Int /\ u * x \in Int
      /\ p * s + r * q \in Int /\ p * s - r * q \in Int /\ p * r \in Int
  OBVIOUS
<1>6. /\ (u * y) * (q * s) = (u * q) * (y * s)
      /\ (p * v) * (y * s) = (p * s) * (v * y)
      /\ (x * v) * (q * s) = (x * s) * (q * v)
      /\ (r * y) * (q * v) = (r * q) * (v * y)
      /\ (u * x) * (q * s) = (u * q) * (x * s)
      /\ (p * v) * (r * y) = (p * r) * (v * y)
  OBVIOUS
<1>7. /\ (u * y) * (q * s) = (p * s) * (v * y)
      /\ (x * v) * (q * s) = (r * q) * (v * y)
      /\ (u * x) * (q * s) = (p * r) * (v * y)
  BY <1>3, <1>6
<1>8. /\ (u * y + x * v) * (q * s) = (u * y) * (q * s) + (x * v) * (q * s)
      /\ (u * y - x * v) * (q * s) = (u * y) * (q * s) - (x * v) * (q * s)
      /\ (p * s + r * q) * (v * y) = (p * s) * (v * y) + (r * q) * (v * y)
      /\ (p * s - r * q) * (v * y) = (p * s) * (v * y) - (r * q) * (v * y)
  OBVIOUS
<1>9. /\ (u * y + x * v) * (q * s) = (p * s + r * q) * (v * y)
      /\ (u * y - x * v) * (q * s) = (p * s - r * q) * (v * y)
  BY <1>7, <1>8
<1>10. Plus(f, g) \in Fractions /\ IsRatio(Plus(f, g), p * s + r * q, q * s)
  <2>1. Plus(f, g) = Lowest(u * y + x * v, v * y)
    BY <1>1, <1>2 DEF Plus
  <2>2. Plus(f, g) \in Fractions /\ IsRatio(Plus(f, g), u * y + x * v, v * y)
    BY <1>4, <1>5, <2>1, LowestIs
  <2> QED
    BY <1>4, <1>5, <1>9, <2>2, SameRatio
<1>11. Minus(f, g) \in Fractions /\ IsRatio(Minus(f, g), p * s - r * q, q * s)
  <2>1. Minus(f, g) = Lowest(u * y - x * v, v * y)
    BY <1>1, <1>2 DEF Minus
  <2>2. Minus(f, g) \in Fractions /\ IsRatio(Minus(f, g), u * y - x * v, v * y)
    BY <1>4, <1>5, <2>1, LowestIs
  <2> QED
    BY <1>4, <1>5, <1>9, <2>2, SameRatio
<1>12. Mult(f, g) \in Fractions /\ IsRatio(Mult(f, g), p * r, q * s)
  <2>1. Mult(f, g) = Lowest(u * x, v * y)
    BY <1>1, <1>2 DEF Mult
  <2>2. Mult(f, g) \in Fractions /\ IsRatio(Mult(f, g), u * x, v * y)
    BY <1>4, <1>5, <2>1, LowestIs
  <2> QED
    BY <1>4, <1>5, <1>7, <2>2, SameRatio
<1> QED
  BY <1>10, <1>11, <1>12

LEMMA OverIs ==
    ASSUME NEW f \in Fractions, NEW p \in Int, NEW q \in Nat \ {0}, IsRatio(f, p, q),
           NEW n \in Nat \ {0}
    PROVE  Over(f, n) \in Fractions /\ IsRatio(Over(f, n), p, q * n)
<1>1. PICK u \in Int, v \in Nat \ {0} : u = f.num /\ v = f.den
  BY DEF Fractions
<1>2. u * q = p * v
  BY <1>1 DEF IsRatio
<1>3. v * n \in Nat \ {0} /\ q * n \in Nat \ {0}
  OBVIOUS
<1>4. u * (q * n) = (u * q) * n /\ p * (v * n) = (p * v) * n
  OBVIOUS
<1>5. Over(f, n) = Lowest(u, v * n)
  BY <1>1 DEF Over
<1>6. Over(f, n) \in Fractions /\ IsRatio(Over(f, n), u, v * n)
  BY <1>3, <1>5, LowestIs
<1>7. u * (q * n) = p * (v * n)
  BY <1>2, <1>4
<1> QED
  BY <1>3, <1>6, <1>7, SameRatio

LEMMA WholeIs ==
    ASSUME NEW n \in Int
    PROVE  Whole(n) \in Fractions /\ IsRatio(Whole(n), n, 1)
  BY DEF Whole, Fractions, IsRatio

------------------------------------------------------------------------------
(* Welford's step. *)

\* u continues a mean of a / b and squares of c / e by x, which is d / b off the mean.
Updated(u, a, b, c, e, n, d, x) ==
    /\ u.n = n + 1
    /\ u.mean \in Fractions /\ IsRatio(u.mean, a * n + x * b, b * (n + 1))
    /\ u.var \in Fractions
    /\ IsRatio(u.var, c * (b * b * (n + 1)) + (d * d * n) * e, e * (b * b * (n + 1)))

LEMMA UpdateIs ==
    ASSUME NEW mean \in Fractions, NEW a \in Int, NEW b \in Nat \ {0}, IsRatio(mean, a, b),
           NEW var \in Fractions, NEW c \in Int, NEW e \in Nat \ {0}, IsRatio(var, c, e),
           NEW n \in Nat \ {0}, NEW x \in Int
    PROVE  Updated(UpdateOnline(mean, var, n, x), a, b, c, e, n, x * b - a, x)
<1>a. PICK d \in Int : d = x * b - a
  OBVIOUS
<1> DEFINE u == UpdateOnline(mean, var, n, x)
<1> DEFINE delta == Minus(Whole(x), mean)
           part == Over(delta, n + 1)
           m == Plus(mean, part)
           delta2 == Minus(Whole(x), m)
           square == Mult(delta, delta2)
<1>1. u.n = n + 1 /\ u.mean = m /\ u.var = Plus(var, square)
  BY <1>a DEF UpdateOnline
<1>2. PICK k \in Nat \ {0} : k = n + 1
  OBVIOUS
<1>3. Whole(x) \in Fractions /\ IsRatio(Whole(x), x, 1) /\ 1 \in Nat \ {0}
  BY WholeIs
<1>4. delta \in Fractions /\ IsRatio(delta, d, b)
  <2>1. delta \in Fractions /\ IsRatio(delta, x * b - a * 1, 1 * b)
    BY <1>3, Arithmetic
  <2>2. x * b - a * 1 = d /\ 1 * b = b
    BY <1>a
  <2> QED
    BY <2>1, <2>2
<1> HIDE DEF delta
<1>5. part \in Fractions /\ IsRatio(part, d, b * k) /\ b * k \in Nat \ {0}
  <2>1. part = Over(delta, k) /\ b * k \in Nat \ {0}
    BY <1>2
  <2> HIDE DEF part
  <2> QED
    BY <1>4, <2>1, OverIs
<1> HIDE DEF part
<1>6. m \in Fractions /\ IsRatio(m, a * n + x * b, b * k)
  <2>1. /\ a * (b * k) + d * b \in Int /\ b * (b * k) \in Nat \ {0}
        /\ a * n + x * b \in Int
    BY <1>2
  <2>2. m \in Fractions /\ IsRatio(m, a * (b * k) + d * b, b * (b * k))
    BY <1>5, Arithmetic
  <2>3. (a * (b * k) + d * b) * (b * k) = (a * n + x * b) * (b * (b * k))
    <3>1. a * (b * k) + d * b = (a * n + x * b) * b
      BY <1>a, <1>2
    <3>2. ((a * n + x * b) * b) * (b * k) = (a * n + x * b) * (b * (b * k))
      OBVIOUS
    <3> QED
      BY <3>1, <3>2
  <2> QED
    BY <1>5, <2>1, <2>2, <2>3, SameRatio
<1> HIDE DEF m
<1>7. delta2 \in Fractions /\ IsRatio(delta2, d * n, b * k)
  <2>1. /\ delta2 \in Fractions
        /\ IsRatio(delta2, x * (b * k) - (a * n + x * b) * 1, 1 * (b * k))
    BY <1>3, <1>5, <1>6, Arithmetic
  <2>2. x * (b * k) - (a * n + x * b) * 1 = d * n /\ 1 * (b * k) = b * k
    BY <1>a, <1>2
  <2> QED
    BY <2>1, <2>2
<1> HIDE DEF delta2
<1>8. square \in Fractions /\ IsRatio(square, d * d * n, b * b * k)
  <2>1. d * n \in Int
    OBVIOUS
  <2>2. square \in Fractions /\ IsRatio(square, d * (d * n), b * (b * k))
    BY <1>4, <1>5, <1>7, <2>1, Arithmetic
  <2>3. d * (d * n) = d * d * n /\ b * (b * k) = b * b * k
    OBVIOUS
  <2> QED
    BY <2>2, <2>3
<1> HIDE DEF square
<1>9. d * d * n \in Int /\ b * b * k \in Nat \ {0}
  OBVIOUS
<1>10. /\ Plus(var, square) \in Fractions
       /\ IsRatio(Plus(var, square), c * (b * b * k) + (d * d * n) * e, e * (b * b * k))
  BY <1>8, <1>9, Arithmetic
<1> QED
  BY <1>a, <1>1, <1>2, <1>6, <1>10 DEF Updated

\* The row that continues another has a mean and a spread that are not negative.
LEMMA ContinuedAmounts ==
    ASSUME NEW mean \in Amounts, NEW spread \in Amounts, NEW n \in Nat \ {0}, NEW x \in Nat,
           NEW u, u = UpdateOnline(mean, Mult(spread, Whole(n)), n, x)
    PROVE  u.mean \in Amounts /\ Over(u.var, u.n) \in Amounts
<1>1. PICK a \in Nat, b \in Nat \ {0} : a = mean.num /\ b = mean.den
  BY DEF Amounts
<1>2. mean \in Fractions /\ IsRatio(mean, a, b)
  BY <1>1, OwnRatio DEF Amounts, Fractions
<1>3. PICK p \in Nat, q \in Nat \ {0} : p = spread.num /\ q = spread.den
  BY DEF Amounts
<1>4. spread \in Fractions /\ IsRatio(spread, p, q)
  BY <1>3, OwnRatio DEF Amounts, Fractions
<1>5. PICK var : var = Mult(spread, Whole(n))
  OBVIOUS
<1>6. var \in Fractions /\ IsRatio(var, p * n, q * 1)
  <2>1. 1 \in Nat \ {0} /\ n \in Int /\ p \in Int
    OBVIOUS
  <2> QED
    BY <1>4, <1>5, <2>1, WholeIs, Arithmetic
<1>7. PICK c \in Nat, e \in Nat \ {0} : c = p * n /\ e = q * 1
  OBVIOUS
<1>8. PICK d \in Int : d = x * b - a
  OBVIOUS
<1>9. a \in Int /\ c \in Int /\ x \in Int
  OBVIOUS
<1>10. /\ u.n = n + 1
       /\ u.mean \in Fractions /\ IsRatio(u.mean, a * n + x * b, b * (n + 1))
       /\ u.var \in Fractions
       /\ IsRatio(u.var, c * (b * b * (n + 1)) + (d * d * n) * e, e * (b * b * (n + 1)))
  <2>1. u = UpdateOnline(mean, var, n, x) /\ IsRatio(var, c, e)
    BY <1>5, <1>6, <1>7
  <2> QED
    <3>1. Updated(UpdateOnline(mean, var, n, x), a, b, c, e, n, x * b - a, x)
      BY <1>2, <1>6, <1>9, <2>1, UpdateIs
    <3> QED
      BY <1>8, <2>1, <3>1 DEF Updated
<1>11. /\ a * n + x * b \in Nat /\ b * (n + 1) \in Nat \ {0}
       /\ b * b * (n + 1) \in Nat \ {0}
  OBVIOUS
<1>12. PICK h \in Nat \ {0} : h = b * b * (n + 1)
  BY <1>11
<1>13. c * h + (d * d * n) * e \in Nat /\ e * h \in Nat \ {0} /\ n + 1 \in Nat \ {0}
  <2>1. d * d \in Nat
    OBVIOUS
  <2>2. d * d * n \in Nat
    BY <2>1
  <2> QED
    BY <2>2
<1>14. Over(u.var, u.n) \in Fractions
       /\ IsRatio(Over(u.var, u.n), c * h + (d * d * n) * e, (e * h) * (n + 1))
  <2>1. PICK v \in Nat, w \in Nat \ {0}, k \in Nat \ {0} :
            v = c * h + (d * d * n) * e /\ w = e * h /\ k = n + 1
    BY <1>13
  <2>2. u.var \in Fractions /\ IsRatio(u.var, v, w) /\ u.n = k /\ v \in Int
    BY <1>10, <1>12, <2>1
  <2>3. Over(u.var, u.n) \in Fractions /\ IsRatio(Over(u.var, u.n), v, w * k)
    BY <2>2, OverIs
  <2> QED
    BY <2>1, <2>3
<1>15. (e * h) * (n + 1) \in Nat \ {0}
  BY <1>13
<1> QED
  BY <1>10, <1>11, <1>13, <1>14, <1>15, RatioSign

\* f is the spread of n samples that add up to s, with squares that add up to t.
SpreadIs(f, n, s, t) == IsRatio(f, n * t - s * s, n * n)

\* u continues the mean and the spread of n samples with x: s and t are the
\* sums of the n samples and of their squares, m, a and b those with x.
WelfordStep(u, mean, spread, n, s, t, x, m, a, b) ==
    /\ IsRatio(mean, s, n)
    /\ u = UpdateOnline(mean, Mult(spread, Whole(n)), n, x)
    /\ m = n + 1 /\ a = s + x /\ b = t + x * x

\* What u is then.
StepIsRight(u, spread, n, s, t, m, a, b) ==
    /\ u.n = m
    /\ IsRatio(u.mean, a, m)
    /\ SpreadIs(spread, n, s, t) => SpreadIs(Over(u.var, u.n), m, a, b)

\* When mean and spread are those of n samples that add up to s, with squares
\* that add up to t, one Welford step on x makes them those of the samples and x.
LEMMA ContinuedMoments ==
    ASSUME NEW n \in Nat \ {0}, NEW s \in Int, NEW t \in Int, NEW x \in Int,
           NEW mean \in Fractions, NEW spread \in Fractions, NEW u,
           NEW m, NEW a, NEW b, WelfordStep(u, mean, spread, n, s, t, x, m, a, b)
    PROVE  StepIsRight(u, spread, n, s, t, m, a, b)
<1>0. /\ IsRatio(mean, s, n)
      /\ u = UpdateOnline(mean, Mult(spread, Whole(n)), n, x)
      /\ m = n + 1 /\ a = s + x /\ b = t + x * x
  BY DEF WelfordStep
<1>1. PICK var : var = Mult(spread, Whole(n))
  OBVIOUS
<1>2. PICK k \in Nat \ {0} : k = n + 1
  OBVIOUS
<1>3. PICK d \in Int : d = x * n - s
  OBVIOUS
<1>4. PICK p \in Int, q \in Nat \ {0} : IsRatio(spread, p, q)
  BY OwnRatio
<1>5. var \in Fractions /\ IsRatio(var, p * n, q * 1) /\ p * n \in Int /\ q * 1 \in Nat \ {0}
  <2>1. 1 \in Nat \ {0} /\ n \in Int
    OBVIOUS
  <2> QED
    BY <1>1, <1>4, <2>1, WholeIs, Arithmetic
<1>6. /\ u.n = k
      /\ u.mean \in Fractions /\ IsRatio(u.mean, s * n + x * n, n * k)
  <2>1. u = UpdateOnline(mean, var, n, x)
    BY <1>0, <1>1
  <2>2. PICK c \in Int, e \in Nat \ {0} : c = p * n /\ e = q * 1
    BY <1>5
  <2>3. IsRatio(var, c, e) /\ var \in Fractions
    BY <1>5, <2>2
  <2>4. u.n = n + 1 /\ u.mean \in Fractions /\ IsRatio(u.mean, s * n + x * n, n * (n + 1))
    <3>1. Updated(UpdateOnline(mean, var, n, x), s, n, c, e, n, x * n - s, x)
      BY <1>0, <2>3, UpdateIs
    <3> QED
      BY <2>1, <3>1 DEF Updated
  <2> QED
    BY <1>2, <2>4
<1>7. IsRatio(u.mean, s + x, k)
  <2>1. /\ s * n + x * n \in Int /\ n * k \in Nat \ {0} /\ s + x \in Int
        /\ (s * n + x * n) * k = (s + x) * (n * k)
    OBVIOUS
  <2> QED
    BY <1>6, <2>1, SameRatio
<1>8. ASSUME IsRatio(spread, n * t - s * s, n * n)
      PROVE  IsRatio(Over(u.var, u.n), k * (t + x * x) - (s + x) * (s + x), k * k)
  <2>1. PICK r \in Int : r = n * t - s * s
    OBVIOUS
  <2>2. n * n \in Nat \ {0} /\ r * n \in Int /\ n \in Int /\ 1 \in Nat \ {0}
        /\ (n * n) * 1 \in Nat \ {0}
    OBVIOUS
  <2>3. IsRatio(var, r * n, (n * n) * 1)
    BY <1>1, <1>8, <2>1, <2>2, WholeIs, Arithmetic
  <2>4. IsRatio(var, r, n)
    <3>1. (r * n) * n = r * ((n * n) * 1)
      OBVIOUS
    <3> QED
      BY <1>5, <2>2, <2>3, <3>1, SameRatio
  <2>5. PICK h \in Nat \ {0} : h = n * n * k
    <3>1. n * n * k \in Nat \ {0}
      OBVIOUS
    <3> QED
      BY <3>1
  <2>6. /\ u.var \in Fractions
        /\ IsRatio(u.var, r * h + (d * d * n) * n, n * h)
    <3>1. u = UpdateOnline(mean, var, n, x)
      BY <1>0, <1>1
    <3>2. /\ u.var \in Fractions
          /\ IsRatio(u.var, r * (n * n * (n + 1)) + (d * d * n) * n, n * (n * n * (n + 1)))
      <4>1. Updated(UpdateOnline(mean, var, n, x), s, n, r, n, n, x * n - s, x)
        BY <1>0, <1>5, <2>4, UpdateIs
      <4> QED
        BY <1>3, <3>1, <4>1 DEF Updated
    <3> QED
      BY <1>2, <2>5, <3>2
  <2>7. r * h + (d * d * n) * n \in Int /\ n * h \in Nat \ {0} /\ (n * h) * k \in Nat \ {0}
    OBVIOUS
  <2>8. /\ Over(u.var, u.n) \in Fractions
        /\ IsRatio(Over(u.var, u.n), r * h + (d * d * n) * n, (n * h) * k)
    BY <1>6, <2>6, <2>7, OverIs
  <2>9. PICK w \in Int : w = k * (t + x * x) - (s + x) * (s + x)
    OBVIOUS
  <2>10. r * k + d * d = n * w
    BY <1>2, <1>3, <2>1, <2>9
  <2>11. (r * h + (d * d * n) * n) * (k * k) = w * ((n * h) * k)
    <3>1. r * h + (d * d * n) * n = (n * n) * (r * k + d * d)
      BY <2>5
    <3>2. r * h + (d * d * n) * n = (n * n) * (n * w)
      BY <2>10, <3>1
    <3>3. ((n * n) * (n * w)) * (k * k) = w * ((n * (n * n * k)) * k)
      OBVIOUS
    <3> QED
      BY <2>5, <3>2, <3>3
  <2>12. k * k \in Int
    OBVIOUS
  <2> QED
    BY <2>7, <2>8, <2>9, <2>11, <2>12, SameRatio
<1>9. /\ u.n = m
      /\ IsRatio(u.mean, a, m)
      /\ SpreadIs(spread, n, s, t) => SpreadIs(Over(u.var, u.n), m, a, b)
  <2>1. /\ m = k
        /\ SpreadIs(spread, n, s, t) = IsRatio(spread, n * t - s * s, n * n)
        /\ SpreadIs(Over(u.var, u.n), m, a, b)
             = IsRatio(Over(u.var, u.n), k * (t + x * x) - (s + x) * (s + x), k * k)
    BY <1>0, <1>2 DEF SpreadIs
  <2> QED
    BY <1>0, <1>6, <1>7, <1>8, <2>1
<1> QED
  BY <1>9 DEF StepIsRight

------------------------------------------------------------------------------
(* Sums over the samples of a row. *)

Places == Sessions \X Measures

\* What each place in a bag adds to a sum.
Terms(bag, f) ==
    [sm \in Places |-> IF bag[sm] = 0 THEN 0 ELSE bag[sm] * f[Value(sm)]]

\* Only sessions that are completed are counted.
Grounded(bag) == bag \in Bags /\ \A s \in Sessions : Times(bag, s) > 0 => sess[s] # None

LEMMA PlacesAreFinite == IsFiniteSet(Places)
<1>1. IsFiniteSet(Measures)
  <2>1. Measures = {"plugged"} \cup {"charged"}
    BY DEF Measures
  <2> QED
    BY <2>1, FS_Singleton, FS_Union
<1> QED
  BY <1>1, SessionsAreFinite, FS_Product DEF Places

IsSum == \A bag, f : SumOver(bag, f) = SumOf(Terms(bag, f), Places)

LEMMA SumOverIs == IsSum
  BY DEF SumOver, SumOf, Terms, Places, IsSum

LEMMA SumOverStays == IsSum'
  BY SumOverIs, PTL

\* The value of a place of a completed session is a duration.
LEMMA ValueIs ==
    ASSUME TypesOK, NEW s \in Sessions, sess[s] # None, NEW m \in Measures
    PROVE  /\ Value(<<s, m>>) \in Durations
           /\ Value(<<s, m>>) = IF m = "plugged" THEN Plugged[s] ELSE Charged[s]
<1>1. sess[s] \in Completed /\ s \in Ended
  BY DEF TypesOK, Ended
<1>2. sess[s].plugged \in Durations /\ sess[s].charged \in Durations
  BY <1>1 DEF Completed
<1>3. Plugged[s] = sess[s].plugged /\ Charged[s] = sess[s].charged
  BY <1>1 DEF Plugged, Charged
<1>4. Value(<<s, m>>) = IF m = "plugged" THEN Plugged[s] ELSE Charged[s]
  BY DEF Value
<1> QED
  BY <1>2, <1>3, <1>4

LEMMA PlaceIs ==
    ASSUME TypesOK, NEW bag, Grounded(bag), NEW sm \in Places
    PROVE  /\ bag[sm] \in Nat
           /\ bag[sm] # 0 => Value(sm) \in Durations
<1>1. PICK s \in Sessions, m \in Measures : sm = <<s, m>>
  BY DEF Places
<1>2. bag[sm] \in Nat
  BY DEF Grounded, Bags, Places
<1>3. ASSUME bag[sm] # 0 PROVE sess[s] # None
  <2>1. /\ <<s, "plugged">> \in Places /\ <<s, "charged">> \in Places
        /\ m = "plugged" \/ m = "charged"
    BY <1>1 DEF Places, Measures
  <2>2. bag[<<s, "plugged">>] \in Nat /\ bag[<<s, "charged">>] \in Nat
    BY <2>1 DEF Grounded, Bags, Places
  <2>3. Times(bag, s) > 0
    BY <1>1, <1>2, <1>3, <2>1, <2>2 DEF Times
  <2> QED
    BY <2>3 DEF Grounded
<1> QED
  BY <1>1, <1>2, <1>3, ValueIs

LEMMA TermsAre ==
    ASSUME TypesOK, NEW bag, Grounded(bag), NEW f \in [Durations -> Int]
    PROVE  /\ \A sm \in Places : Terms(bag, f)[sm] \in Int
           /\ SumOver(bag, f) \in Int
           /\ f \in [Durations -> Nat] => SumOver(bag, f) \in Nat
<1>1. ASSUME NEW sm \in Places
      PROVE  /\ Terms(bag, f)[sm] \in Int
             /\ f \in [Durations -> Nat] => Terms(bag, f)[sm] \in Nat
  <2>1. Terms(bag, f)[sm] = IF bag[sm] = 0 THEN 0 ELSE bag[sm] * f[Value(sm)]
    BY DEF Terms
  <2>2. CASE bag[sm] = 0
    BY <2>1, <2>2
  <2>3. CASE bag[sm] # 0
    <3>1. bag[sm] \in Nat /\ f[Value(sm)] \in Int
      BY <2>3, PlaceIs
    <3>2. f \in [Durations -> Nat] => f[Value(sm)] \in Nat
      BY <2>3, PlaceIs
    <3>3. PICK k \in Nat, y \in Int : k = bag[sm] /\ y = f[Value(sm)]
      BY <3>1
    <3>4. k * y \in Int /\ (y \in Nat => k * y \in Nat)
      OBVIOUS
    <3> QED
      BY <2>1, <2>3, <3>2, <3>3, <3>4
  <2> QED
    BY <2>2, <2>3
<1> QED
  BY <1>1, PlacesAreFinite, SumOverIs, SumRules, SumIsNat DEF IsSum

\* Where no completed session changes, sums do not.
LEMMA SumsStay ==
    ASSUME SessionsStay, NEW bag, Grounded(bag), NEW f
    PROVE  SumOver(bag, f)' = SumOver(bag, f) /\ Grounded(bag)'
<1>1. ASSUME NEW sm \in Sessions \X Measures, bag[sm] # 0
      PROVE  Value(sm)' = Value(sm)
  <2>1. PICK s \in Sessions, m \in Measures : sm = <<s, m>>
    OBVIOUS
  <2>2. /\ <<s, "plugged">> \in Places /\ <<s, "charged">> \in Places
        /\ m = "plugged" \/ m = "charged"
    BY <2>1 DEF Places, Measures
  <2>3. bag[<<s, "plugged">>] \in Nat /\ bag[<<s, "charged">>] \in Nat
    BY <2>2 DEF Grounded, Bags, Places
  <2>4. Times(bag, s) > 0
    BY <1>1, <2>1, <2>2, <2>3 DEF Times
  <2>5. s \in Ended /\ s \in Ended' /\ sess'[s] = sess[s]
    BY <2>4 DEF Grounded, SessionsStay, Ended
  <2> QED
    BY <2>1, <2>5 DEF Value, Plugged, Charged
<1>2. Terms(bag, f)' = Terms(bag, f)
  BY <1>1 DEF Terms, Places
<1>3. SumOver(bag, f)' = SumOver(bag, f)
  <2>1. SumOver(bag, f)' = SumOf(Terms(bag, f)', Places)
    BY SumOverStays DEF IsSum
  <2> QED
    BY <1>2, <2>1, SumOverIs DEF IsSum
<1>4. Grounded(bag)'
  BY DEF Grounded, SessionsStay, Ended
<1> QED
  BY <1>3, <1>4

\* A session that is counted once more adds its value.
LEMMA SumOfWith ==
    ASSUME TypesOK, NEW bag, Grounded(bag), NEW f \in [Durations -> Int],
           NEW s \in Sessions, sess[s] # None, NEW m \in Measures
    PROVE  /\ Grounded(With(bag, s, m))
           /\ SumOver(With(bag, s, m), f) = SumOver(bag, f) + f[Value(<<s, m>>)]
<1> DEFINE more == With(bag, s, m)
           p == <<s, m>>
           e == Terms(bag, f)
           g == Terms(more, f)
           Rest == Places \ {p}
<1>1. p \in Places /\ bag \in Bags
  BY DEF Places, Grounded
<1>2. /\ more[p] = bag[p] + 1
      /\ \A sm \in Places : sm # p => more[sm] = bag[sm]
  BY <1>1 DEF With, Bags, Places
<1>3. Grounded(more)
  <2>1. /\ more \in Bags
        /\ \A t \in Sessions : Times(more, t) = Times(bag, t) + IF t = s THEN 1 ELSE 0
    BY <1>1, WithCounts
  <2> HIDE DEF more
  <2> QED
    BY <1>1, <2>1, TimesIsNat DEF Grounded
<1>4. Value(p) \in Durations /\ f[Value(p)] \in Int /\ bag[p] \in Nat
  BY <1>1, ValueIs, PlaceIs
<1>5. g[p] = e[p] + f[Value(p)]
  <2>1. PICK k \in Nat, y \in Int : k = bag[p] /\ y = f[Value(p)]
    BY <1>4
  <2>2. /\ e[p] = IF k = 0 THEN 0 ELSE k * y
        /\ g[p] = IF k + 1 = 0 THEN 0 ELSE (k + 1) * y
    <3> HIDE DEF p, more
    <3> QED
      BY <1>1, <1>2, <2>1 DEF Terms
  <2>3. (k + 1) * y = k * y + y /\ k + 1 # 0 /\ (k = 0 => k * y = 0)
    OBVIOUS
  <2> HIDE DEF e, g
  <2> QED
    BY <2>1, <2>2, <2>3
<1>6. \A sm \in Rest : g[sm] = e[sm]
  <2> HIDE DEF p, more
  <2> QED
    BY <1>2 DEF Terms
<1>7. \A sm \in Places : e[sm] \in Int /\ g[sm] \in Int
  <2> HIDE DEF more
  <2> QED
    BY <1>3, TermsAre
<1> HIDE DEF e, g, p, more
<1>8. /\ SumOf(e, Places) = e[p] + SumOf(e, Rest)
      /\ SumOf(g, Places) = g[p] + SumOf(g, Rest)
  BY <1>1, <1>7, PlacesAreFinite, SumRules
<1>9. SumOf(g, Rest) = SumOf(e, Rest) /\ SumOf(e, Rest) \in Int
  <2>1. IsFiniteSet(Rest)
    BY PlacesAreFinite, FS_Subset
  <2>2. \A sm \in Rest : g[sm] \in Int /\ e[sm] \in Int
    BY <1>7
  <2> HIDE DEF Rest
  <2> QED
    BY <1>6, <2>1, <2>2, SumOfSame, SumRules
<1>10. SumOf(g, Places) = SumOf(e, Places) + f[Value(p)]
  BY <1>1, <1>4, <1>5, <1>7, <1>8, <1>9
<1> QED
  BY <1>3, <1>10, SumOverIs DEF IsSum, e, g, p, more

\* The samples of a rebuilt row are the sessions it is built from.
LEMMA SumOfBag ==
    ASSUME TypesOK, NEW S, S \subseteq Ended, NEW m \in Measures,
           NEW f \in [Durations -> Int],
           NEW e, \A s \in S : e[s] = f[Value(<<s, m>>)]
    PROVE  /\ Grounded(BagOf(S, m))
           /\ SumOver(BagOf(S, m), f) = SumOf(e, S)
<1> DEFINE bag == BagOf(S, m)
           g == Terms(bag, f)
           h == [s \in S |-> <<s, m>>]
           In == {<<s, m>> : s \in S}
           Out == Places \ In
<1>1. S \subseteq Sessions /\ IsFiniteSet(S) /\ \A s \in S : sess[s] # None
  BY SessionsAreFinite, FS_Subset DEF Ended
<1>2. Grounded(bag)
  BY <1>1, BagOfCounts DEF Grounded
<1>3. In \subseteq Places /\ In \cup Out = Places /\ In \cap Out = {}
  BY <1>1 DEF Places
<1>4. ASSUME NEW s \in S PROVE g[<<s, m>>] = f[Value(<<s, m>>)] /\ f[Value(<<s, m>>)] \in Int
  <2>1. <<s, m>> \in Places /\ bag[<<s, m>>] = 1
    BY <1>1 DEF Places, BagOf
  <2>2. Value(<<s, m>>) \in Durations
    BY <1>1, ValueIs
  <2>3. g[<<s, m>>] = bag[<<s, m>>] * f[Value(<<s, m>>)]
    <3> HIDE DEF bag
    <3> QED
      BY <2>1 DEF Terms
  <2> HIDE DEF g, bag
  <2> QED
    BY <2>1, <2>2, <2>3
<1>5. ASSUME NEW sm \in Out PROVE g[sm] = 0
  <2>1. sm \in Places /\ bag[sm] = 0
    BY DEF BagOf, Places
  <2> HIDE DEF bag
  <2> QED
    BY <2>1 DEF Terms
<1>6. Pairs(h, S, In)
  BY DEF Pairs
<1>7. \A s \in S : h[s] = <<s, m>>
  OBVIOUS
<1> HIDE DEF g, bag, h
<1>8. SumOf(e, S) = SumOf(g, In)
  <2>1. \A s \in S : g[h[s]] \in Int /\ e[s] = g[h[s]]
    BY <1>4, <1>7
  <2> HIDE DEF In
  <2> QED
    BY <1>1, <1>6, <2>1, SumReindexed
<1>9. IsFiniteSet(In) /\ IsFiniteSet(Out)
  BY <1>3, PlacesAreFinite, FS_Subset
<1>10. \A sm \in In \cup Out : g[sm] \in Int
  BY <1>4, <1>5
<1> HIDE DEF In, Out
<1>11. SumOf(g, Places) = SumOf(g, In) + SumOf(g, Out)
  BY <1>3, <1>9, <1>10, SumOfUnion
<1>12. SumOf(g, Out) = 0 /\ SumOf(g, In) \in Int
  BY <1>5, <1>9, <1>10, SumOfZeros, SumRules
<1>13. SumOf(g, Places) = SumOf(e, S)
  BY <1>8, <1>11, <1>12
<1> QED
  BY <1>2, <1>13, SumOverIs DEF IsSum, g, bag

------------------------------------------------------------------------------
(* Means and spreads. *)

\* a / b is the mean of n numbers that add up to s, whose squares add up to t,
\* and q the sum of their squared distances to it, times b * b.
Deviates(q, a, b, n, s, t) ==
    /\ a * n = s * b
    /\ q = (b * b) * t + (-(2 * a * b)) * s + (a * a) * n

Spreads(q, b, n, s, t) == q * n = (n * t - s * s) * (b * b)

LEMMA Deviation ==
    ASSUME NEW n \in Nat \ {0}, NEW s \in Int, NEW t \in Int,
           NEW a \in Int, NEW b \in Nat \ {0},
           NEW q, Deviates(q, a, b, n, s, t)
    PROVE  q \in Int /\ Spreads(q, b, n, s, t)
<1>0. a * n = s * b /\ q = (b * b) * t + (-(2 * a * b)) * s + (a * a) * n
  BY DEF Deviates
<1>1. /\ (b * b) * t \in Int /\ (-(2 * a * b)) * s \in Int /\ (a * a) * n \in Int
      /\ a * n \in Int /\ s * b \in Int
  OBVIOUS
<1>2. q * n = ((b * b) * t) * n + ((-(2 * a * b)) * s) * n + ((a * a) * n) * n
  BY <1>0, <1>1
<1>3. /\ ((b * b) * t) * n = (n * t) * (b * b)
      /\ ((-(2 * a * b)) * s) * n = -(2 * ((a * n) * (s * b)))
      /\ ((a * a) * n) * n = (a * n) * (a * n)
  OBVIOUS
<1>4. /\ (a * n) * (s * b) = (s * s) * (b * b)
      /\ (a * n) * (a * n) = (s * s) * (b * b)
  <2>1. (s * b) * (s * b) = (s * s) * (b * b)
    OBVIOUS
  <2> QED
    BY <1>0, <1>1, <2>1
<1>5. PICK u \in Int, v \in Int : u = (n * t) * (b * b) /\ v = (s * s) * (b * b)
  OBVIOUS
<1>6. (n * t - s * s) * (b * b) = u - v
  BY <1>5
<1> QED
  BY <1>0, <1>1, <1>2, <1>3, <1>4, <1>5, <1>6 DEF Spreads

\* The squared distance of x to a / b, times b * b.
LEMMA Distance ==
    ASSUME NEW x \in Int, NEW a \in Int, NEW b \in Int
    PROVE  /\ (x * b - a) * (x * b - a) \in Nat
           /\ (x * b - a) * (x * b - a)
                = (b * b) * (x * x) + (-(2 * a * b)) * x + (a * a) * 1
<1>1. PICK y \in Int : y = x * b - a
  OBVIOUS
<1>2. y * y \in Nat
  OBVIOUS
<1>3. (x * b - a) * (x * b - a)
        = (b * b) * (x * x) + (-(2 * a * b)) * x + (a * a) * 1
  OBVIOUS
<1> QED
  BY <1>1, <1>2, <1>3

\* A mean and a spread computed from sessions are theirs.
LEMMA MomentsOfSessions ==
    ASSUME NEW S, IsFiniteSet(S), S # {}, NEW f, \A s \in S : f[s] \in Nat,
           NEW sq, \A s \in S : sq[s] = f[s] * f[s],
           NEW n, n = Cardinality(S)
    PROVE  /\ n \in Nat \ {0} /\ SumOf(f, S) \in Nat /\ SumOf(sq, S) \in Nat
           /\ MeanOf(S, f) \in Amounts /\ IsRatio(MeanOf(S, f), SumOf(f, S), n)
           /\ \A k \in Nat \ {0} : Over(SquaresOf(S, f), k) \in Amounts
           /\ SpreadIs(Over(SquaresOf(S, f), n), n, SumOf(f, S), SumOf(sq, S))
<1>1. n \in Nat \ {0} /\ n \in Int
  BY FS_CardinalityType, FS_EmptySet
<1>2. \A s \in S : sq[s] \in Nat /\ f[s] \in Int
  OBVIOUS
<1>3. PICK p \in Nat, t \in Nat : p = SumOf(f, S) /\ t = SumOf(sq, S)
  BY <1>2, SumIsNat
<1> DEFINE mean == MeanOf(S, f)
<1>4. mean = Lowest(p, n)
  BY <1>3 DEF MeanOf, SumOf
<1>5. mean \in Fractions /\ IsRatio(mean, p, n) /\ mean \in Amounts
  BY <1>1, <1>3, <1>4, LowestIs
<1> HIDE DEF mean
<1>6. PICK a \in Int, b \in Nat \ {0} : a = mean.num /\ b = mean.den
  BY <1>5 DEF Fractions
<1>7. a * n = p * b
  BY <1>5, <1>6 DEF IsRatio
<1> DEFINE dev == [s \in S |-> (f[s] * mean.den - mean.num) * (f[s] * mean.den - mean.num)]
           ones == [s \in S |-> 1]
<1>8. SquaresOf(S, f) = Lowest(SumOf(dev, S), b * b)
  BY <1>6 DEF SquaresOf, SumOf, mean
<1>9. ASSUME NEW s \in S
      PROVE  /\ dev[s] \in Nat
             /\ dev[s] = (b * b) * sq[s] + (-(2 * a * b)) * f[s] + (a * a) * ones[s]
  <2>1. dev[s] = (f[s] * b - a) * (f[s] * b - a) /\ ones[s] = 1
    BY <1>6
  <2> HIDE DEF dev, ones
  <2> QED
    BY <1>2, <2>1, Distance
<1>10. \A s \in S : ones[s] = 1 /\ ones[s] \in Int
  OBVIOUS
<1> HIDE DEF dev, ones
<1>11. SumOf(ones, S) = n
  BY <1>10, SumOfOnes
<1>12. SumOf(dev, S) = (b * b) * t + (-(2 * a * b)) * p + (a * a) * n
  <2>1. b * b \in Int /\ -(2 * a * b) \in Int /\ a * a \in Int
    OBVIOUS
  <2>2. PICK i \in Int, j \in Int, k \in Int : i = b * b /\ j = -(2 * a * b) /\ k = a * a
    BY <2>1
  <2>3. /\ \A s \in S : sq[s] \in Int /\ f[s] \in Int /\ ones[s] \in Int
        /\ \A s \in S : Combines(dev[s], i, sq[s], j, f[s], k, ones[s])
    BY <1>2, <1>9, <1>10, <2>2 DEF Combines
  <2>4. Combines(SumOf(dev, S), i, SumOf(sq, S), j, SumOf(f, S), k, SumOf(ones, S))
    BY <2>3, SumsCombine
  <2> QED
    BY <1>3, <1>11, <2>2, <2>4 DEF Combines
<1>13. PICK q \in Nat : q = SumOf(dev, S)
  BY <1>9, SumIsNat
<1>14. q * n = (n * t - p * p) * (b * b)
  <2>1. Deviates(q, a, b, n, p, t) /\ p \in Int /\ t \in Int
    BY <1>7, <1>12, <1>13 DEF Deviates
  <2>2. Spreads(q, b, n, p, t)
    BY <1>1, <2>1, Deviation
  <2> QED
    BY <2>2 DEF Spreads
<1>15. b * b \in Nat \ {0} /\ q \in Int
  OBVIOUS
<1>16. SquaresOf(S, f) \in Fractions /\ IsRatio(SquaresOf(S, f), q, b * b)
  BY <1>8, <1>13, <1>15, LowestIs
<1>17. ASSUME NEW k \in Nat \ {0}
       PROVE  /\ Over(SquaresOf(S, f), k) \in Amounts
              /\ Over(SquaresOf(S, f), k) \in Fractions
              /\ IsRatio(Over(SquaresOf(S, f), k), q, (b * b) * k)
  <2>1. (b * b) * k \in Nat \ {0}
    OBVIOUS
  <2>2. /\ Over(SquaresOf(S, f), k) \in Fractions
        /\ IsRatio(Over(SquaresOf(S, f), k), q, (b * b) * k)
    BY <1>15, <1>16, OverIs
  <2> QED
    BY <2>1, <2>2, RatioSign
<1>18. IsRatio(Over(SquaresOf(S, f), n), n * t - p * p, n * n)
  <2>1. PICK w \in Int : w = n * t - p * p
    BY <1>1
  <2>2. PICK c \in Nat \ {0} : c = b * b
    BY <1>15
  <2>3. q * n = w * c
    BY <1>14, <2>1, <2>2
  <2>4. q * (n * n) = w * (c * n)
    <3>1. q * (n * n) = (q * n) * n /\ w * (c * n) = (w * c) * n
      BY <1>1
    <3> QED
      BY <2>3, <3>1
  <2>5. c * n \in Nat \ {0} /\ n * n \in Int
    BY <1>1
  <2>6. IsRatio(Over(SquaresOf(S, f), n), q, c * n) /\ Over(SquaresOf(S, f), n) \in Fractions
    BY <1>1, <1>17, <2>2
  <2> QED
    BY <1>15, <2>1, <2>4, <2>5, <2>6, SameRatio
<1> QED
  BY <1>1, <1>3, <1>5, <1>17, <1>18 DEF SpreadIs, mean

------------------------------------------------------------------------------
(* The statistics are exact. *)

Sq == [x \in Durations |-> x * x]
Total(bag) == SumOver(bag, Lengths)
Power(bag) == SumOver(bag, Sq)

LEMMA DurationFunctions ==
    /\ Ones \in [Durations -> Nat] /\ Lengths \in [Durations -> Nat]
    /\ Sq \in [Durations -> Nat]
    /\ Ones \in [Durations -> Int] /\ Lengths \in [Durations -> Int]
    /\ Sq \in [Durations -> Int]
    /\ \A x \in Durations :
         x \in Nat /\ Ones[x] = 1 /\ Lengths[x] = x /\ Sq[x] = x * x
<1>1. \A x \in Durations : x \in Nat /\ x * x \in Nat
  BY DurationsAreNat
<1> QED
  BY <1>1 DEF Ones, Lengths, Sq

\* w is the statistic of the sessions it counts; its spread as well, so long as
\* nothing is imported.
Exact(w) ==
    /\ w.mean \in Amounts /\ w.spread \in Amounts
    /\ w.n = SumOver(w.bag, Ones)
    /\ IsRatio(w.mean, Total(w.bag), w.n)
    /\ pc[Importer] = "idle" => SpreadIs(w.spread, w.n, Total(w.bag), Power(w.bag))

\* A statistic computed from sessions is theirs.
LEMMA SumsOfSessions ==
    ASSUME TypesOK, NEW S, S \subseteq Ended, S # {}, NEW m \in Measures,
           NEW f, \A s \in S : f[s] = Value(<<s, m>>),
           NEW sq, sq = [s \in S |-> f[s] * f[s]]
    PROVE  /\ IsFiniteSet(S) /\ \A s \in S : f[s] \in Nat
           /\ \A s \in S : sq[s] = f[s] * f[s]
           /\ SumOver(BagOf(S, m), Ones) = Cardinality(S)
           /\ Total(BagOf(S, m)) = SumOf(f, S)
           /\ Power(BagOf(S, m)) = SumOf(sq, S)
<1>1. /\ S \subseteq Sessions /\ IsFiniteSet(S)
      /\ \A s \in S : sess[s] # None
  BY SessionsAreFinite, FS_Subset DEF Ended
<1>2. ASSUME NEW s \in S PROVE Value(<<s, m>>) \in Durations /\ f[s] \in Durations
  BY <1>1, ValueIs
<1> DEFINE one == [s \in S |-> 1]
<1>3. /\ \A s \in S : one[s] = 1 /\ one[s] = Ones[Value(<<s, m>>)]
      /\ \A s \in S : f[s] = Lengths[Value(<<s, m>>)]
      /\ \A s \in S : sq[s] = Sq[Value(<<s, m>>)]
  BY <1>2, DurationFunctions
<1> HIDE DEF one
<1>4. /\ SumOver(BagOf(S, m), Ones) = SumOf(one, S)
      /\ SumOver(BagOf(S, m), Lengths) = SumOf(f, S)
      /\ SumOver(BagOf(S, m), Sq) = SumOf(sq, S)
  BY <1>3, DurationFunctions, SumOfBag
<1>5. SumOf(one, S) = Cardinality(S)
  BY <1>1, <1>3, SumOfOnes
<1> QED
  BY <1>1, <1>2, <1>4, <1>5, DurationFunctions DEF Total, Power

LEMMA RebuiltIsExact ==
    ASSUME TypesOK, NEW S, S \subseteq Ended, S # {}, NEW m \in Measures,
           NEW f, \A s \in S : f[s] = Value(<<s, m>>),
           NEW owner, NEW hour, NEW at
    PROVE  Exact(StatFrom(owner, hour, S, f, m, at))
<1> DEFINE n == Cardinality(S)
           w == StatFrom(owner, hour, S, f, m, at)
           sq == [s \in S |-> f[s] * f[s]]
<1>1. /\ IsFiniteSet(S) /\ \A s \in S : f[s] \in Nat
      /\ \A s \in S : sq[s] = f[s] * f[s]
      /\ SumOver(BagOf(S, m), Ones) = n
      /\ Total(BagOf(S, m)) = SumOf(f, S)
      /\ Power(BagOf(S, m)) = SumOf(sq, S)
  BY SumsOfSessions
<1>2. /\ w.n = n /\ w.mean = MeanOf(S, f) /\ w.spread = Over(SquaresOf(S, f), n)
      /\ w.bag = BagOf(S, m)
  BY StatFields DEF StatFrom
<1> HIDE DEF sq, w, n
<1>3. /\ n \in Nat \ {0}
      /\ MeanOf(S, f) \in Amounts /\ IsRatio(MeanOf(S, f), SumOf(f, S), n)
      /\ Over(SquaresOf(S, f), n) \in Amounts
      /\ SpreadIs(Over(SquaresOf(S, f), n), n, SumOf(f, S), SumOf(sq, S))
  BY <1>1, MomentsOfSessions DEF n
<1>4. SpreadIs(w.spread, n, SumOf(f, S), SumOf(sq, S))
  BY <1>2, <1>3
<1> QED
  BY <1>1, <1>2, <1>3, <1>4 DEF Exact, w

LEMMA ImportedIsExact ==
    ASSUME TypesOK, NEW S, S \subseteq Ended, S # {}, pc[Importer] # "idle",
           NEW owner, NEW hour, NEW at
    PROVE  Exact(ImportedStat(owner, hour, S, Plugged, at))
<1> DEFINE n == Cardinality(S)
           w == ImportedStat(owner, hour, S, Plugged, at)
           sq == [s \in S |-> Plugged[s] * Plugged[s]]
           bag == BagOf(S, "plugged")
<1>1. "plugged" \in Measures /\ \A s \in S : Plugged[s] = Value(<<s, "plugged">>)
  BY DEF Measures, Value
<1>2. /\ IsFiniteSet(S) /\ \A s \in S : Plugged[s] \in Nat
      /\ \A s \in S : sq[s] = Plugged[s] * Plugged[s]
      /\ SumOver(bag, Ones) = n
      /\ Total(bag) = SumOf(Plugged, S)
  BY <1>1, SumsOfSessions
<1>3. /\ w.n = n /\ w.mean = MeanOf(S, Plugged)
      /\ w.spread = IF n >= 2 THEN Over(SquaresOf(S, Plugged), n - 1) ELSE Whole(0)
      /\ w.bag = bag
  BY StatFields DEF ImportedStat
<1> HIDE DEF sq, w, n, bag
<1>4. /\ n \in Nat \ {0}
      /\ MeanOf(S, Plugged) \in Amounts /\ IsRatio(MeanOf(S, Plugged), SumOf(Plugged, S), n)
      /\ \A k \in Nat \ {0} : Over(SquaresOf(S, Plugged), k) \in Amounts
  BY <1>2, MomentsOfSessions DEF n
<1>5. w.spread \in Amounts
  <2>1. n >= 2 => n - 1 \in Nat \ {0}
    BY <1>4
  <2>2. Whole(0) \in Amounts
    BY DEF Whole, Amounts
  <2> QED
    BY <1>3, <1>4, <2>1, <2>2
<1> QED
  BY <1>2, <1>3, <1>4, <1>5 DEF Exact, w

\* A statistic continued with a session is that of all of them.
LEMMA ContinuedIsExact ==
    ASSUME TypesOK, NEW v, Exact(v), Grounded(v.bag), v.n \in Nat \ {0},
           NEW r \in Sessions, sess[r] # None, NEW at
    PROVE  Exact(NextStat(v, r, Plugged[r], at))
<1> DEFINE w == NextStat(v, r, Plugged[r], at)
           u == UpdateOnline(v.mean, Mult(v.spread, Whole(v.n)), v.n, Plugged[r])
<1>1. PICK x \in Nat : x = Plugged[r] /\ x \in Durations /\ x = Value(<<r, "plugged">>)
  BY ValueIs, DurationsAreNat DEF Measures
<1>2. /\ w.n = u.n /\ w.mean = u.mean /\ w.spread = Over(u.var, u.n)
      /\ w.bag = With(v.bag, r, "plugged")
  <2>1. w = StatRow(v.owner, v.hour, u.n, u.mean, Over(u.var, u.n),
                    With(v.bag, r, "plugged"), at)
    BY DEF NextStat
  <2> HIDE DEF w, u
  <2> QED
    BY <2>1, StatFields
<1>3. u = UpdateOnline(v.mean, Mult(v.spread, Whole(v.n)), v.n, x)
  BY <1>1
<1> HIDE DEF w, u
<1>4. PICK n \in Nat \ {0}, s \in Nat, t \in Nat :
         n = v.n /\ s = Total(v.bag) /\ t = Power(v.bag)
  BY TermsAre, DurationFunctions DEF Total, Power
<1>5. /\ SumOver(w.bag, Ones) = n + 1
      /\ Total(w.bag) = s + x
      /\ Power(w.bag) = t + x * x
  <2>1. /\ SumOver(w.bag, Ones) = SumOver(v.bag, Ones) + Ones[x]
        /\ SumOver(w.bag, Lengths) = SumOver(v.bag, Lengths) + Lengths[x]
        /\ SumOver(w.bag, Sq) = SumOver(v.bag, Sq) + Sq[x]
    <3>1. "plugged" \in Measures
      BY DEF Measures
    <3>2. ASSUME NEW f \in [Durations -> Int]
          PROVE  SumOver(w.bag, f) = SumOver(v.bag, f) + f[x]
      BY <1>1, <1>2, <3>1, SumOfWith
    <3> QED
      BY <3>2, DurationFunctions
  <2> QED
    BY <1>1, <1>4, <2>1, DurationFunctions DEF Total, Power, Exact
<1>6. v.mean \in Amounts /\ v.spread \in Amounts /\ IsRatio(v.mean, s, n)
  BY <1>4 DEF Exact
<1>7. v.mean \in Fractions /\ v.spread \in Fractions
  BY <1>6 DEF Amounts, Fractions
<1>8. u.mean \in Amounts /\ Over(u.var, u.n) \in Amounts
  BY <1>3, <1>4, <1>6, ContinuedAmounts
<1>9. PICK m \in Int, sx \in Int, tx \in Int :
         m = n + 1 /\ sx = s + x /\ tx = t + x * x
  OBVIOUS
<1>10. /\ u.n = m /\ IsRatio(u.mean, sx, m)
       /\ SpreadIs(v.spread, n, s, t) => SpreadIs(Over(u.var, u.n), m, sx, tx)
  <2>1. PICK mean \in Fractions, spread \in Fractions : mean = v.mean /\ spread = v.spread
    BY <1>7
  <2>2. WelfordStep(u, mean, spread, n, s, t, x, m, sx, tx)
    BY <1>3, <1>4, <1>6, <1>9, <2>1 DEF WelfordStep
  <2>3. s \in Int /\ t \in Int /\ x \in Int
    OBVIOUS
  <2>4. StepIsRight(u, spread, n, s, t, m, sx, tx)
    BY <2>2, <2>3, ContinuedMoments, Zenon
  <2> QED
    BY <2>1, <2>4 DEF StepIsRight
<1>11. w.n = m /\ SumOver(w.bag, Ones) = m /\ Total(w.bag) = sx /\ Power(w.bag) = tx
  BY <1>2, <1>5, <1>9, <1>10
<1> QED
  BY <1>2, <1>4, <1>8, <1>10, <1>11 DEF Exact, w

\* What StatsAreExact says of a row.
LEMMA ExactIsExact ==
    ASSUME TypesOK, NEW w, Exact(w), Grounded(w.bag), w.n \in Nat \ {0}
    PROVE  /\ IsRatio(w.mean, SumOver(w.bag, Lengths), w.n)
           /\ pc[Importer] = "idle" =>
                IsRatio(w.spread, SumOver(w.bag, Squares(w.mean)),
                        w.n * (w.mean.den * w.mean.den))
<1>1. PICK n \in Nat \ {0}, s \in Nat, t \in Nat :
         n = w.n /\ s = Total(w.bag) /\ t = Power(w.bag)
  BY TermsAre, DurationFunctions DEF Total, Power
<1>2. PICK a \in Int, b \in Nat \ {0} : a = w.mean.num /\ b = w.mean.den
  BY DEF Exact, Amounts
<1>3. w.spread \in Fractions
  BY DEF Exact, Amounts, Fractions
<1>4. PICK c \in Nat \ {0} : c = b * b
  <2>1. b * b \in Nat \ {0}
    OBVIOUS
  <2> QED
    BY <2>1
<1> DEFINE g == Squares(w.mean)
<1>5. /\ g \in [Durations -> Int]
      /\ \A x \in Durations :
           g[x] = (b * b) * (x * x) + (-(2 * a * b)) * x + (a * a) * 1
  <2>1. ASSUME NEW x \in Durations
        PROVE  /\ (x * b - a) * (x * b - a) \in Int
               /\ (x * b - a) * (x * b - a)
                    = (b * b) * (x * x) + (-(2 * a * b)) * x + (a * a) * 1
    BY DurationsAreNat, Distance
  <2>2. g = [x \in Durations |-> (x * b - a) * (x * b - a)]
    BY <1>2 DEF Squares
  <2> HIDE DEF g
  <2> QED
    BY <2>1, <2>2
<1> HIDE DEF g
<1>6. PICK i \in Int, j \in Int, k \in Int : i = b * b /\ j = -(2 * a * b) /\ k = a * a
  OBVIOUS
<1> DEFINE e0 == Terms(w.bag, Sq)
           e1 == Terms(w.bag, Lengths)
           e2 == Terms(w.bag, Ones)
           h == Terms(w.bag, g)
<1>7. ASSUME NEW sm \in Places
      PROVE  Combines(h[sm], i, e0[sm], j, e1[sm], k, e2[sm])
  <2>1. /\ e0[sm] = IF w.bag[sm] = 0 THEN 0 ELSE w.bag[sm] * Sq[Value(sm)]
        /\ e1[sm] = IF w.bag[sm] = 0 THEN 0 ELSE w.bag[sm] * Lengths[Value(sm)]
        /\ e2[sm] = IF w.bag[sm] = 0 THEN 0 ELSE w.bag[sm] * Ones[Value(sm)]
        /\ h[sm] = IF w.bag[sm] = 0 THEN 0 ELSE w.bag[sm] * g[Value(sm)]
    BY DEF Terms
  <2> HIDE DEF e0, e1, e2, h
  <2>2. CASE w.bag[sm] = 0
    BY <2>1, <2>2 DEF Combines
  <2>3. CASE w.bag[sm] # 0
    <3>1. PICK y \in Nat, x \in Durations : y = w.bag[sm] /\ x = Value(sm)
      BY <2>3, PlaceIs
    <3>2. /\ e0[sm] = y * (x * x) /\ e1[sm] = y * x /\ e2[sm] = y * 1
          /\ h[sm] = y * (i * (x * x) + j * x + k * 1) /\ x \in Nat
      BY <1>5, <1>6, <2>1, <2>3, <3>1, DurationFunctions
    <3>3. PICK z \in Int : z = x * x
      BY <3>2
    <3>4. y * (i * z + j * x + k * 1) = i * (y * z) + j * (y * x) + k * (y * 1)
      BY <3>2
    <3> QED
      BY <3>2, <3>3, <3>4 DEF Combines
  <2> QED
    BY <2>2, <2>3
<1>8. \A sm \in Places : e0[sm] \in Int /\ e1[sm] \in Int /\ e2[sm] \in Int
  BY TermsAre, DurationFunctions
<1> HIDE DEF e0, e1, e2, h
<1>9. Combines(SumOf(h, Places), i, SumOf(e0, Places), j, SumOf(e1, Places),
               k, SumOf(e2, Places))
  BY <1>7, <1>8, PlacesAreFinite, SumsCombine
<1>10. PICK q : q = SumOver(w.bag, g)
  OBVIOUS
<1>11. q = i * t + j * s + k * n
  <2>1. /\ q = SumOf(h, Places) /\ t = SumOf(e0, Places) /\ s = SumOf(e1, Places)
        /\ n = SumOf(e2, Places)
    BY <1>1, <1>10, SumOverIs DEF IsSum, e0, e1, e2, h, Total, Power, Exact
  <2> QED
    BY <1>9, <2>1 DEF Combines
<1>12. Deviates(q, a, b, n, s, t)
  BY <1>1, <1>2, <1>6, <1>11 DEF Deviates, Exact, IsRatio
<1>13. q \in Int /\ Spreads(q, b, n, s, t)
  <2>1. s \in Int /\ t \in Int
    OBVIOUS
  <2> QED
    BY <1>12, <2>1, Deviation
<1>14. ASSUME pc[Importer] = "idle"
       PROVE  IsRatio(w.spread, q, n * c)
  <2>1. PICK d \in Int : d = n * t - s * s
    OBVIOUS
  <2>2. q * n = d * c
    BY <1>4, <1>13, <2>1 DEF Spreads
  <2>3. d * (n * c) = q * (n * n)
    <3>1. d * (n * c) = (d * c) * n /\ q * (n * n) = (q * n) * n
      BY <1>13
    <3> QED
      BY <2>2, <3>1
  <2>4. n * n \in Nat \ {0} /\ n * c \in Int
    OBVIOUS
  <2>5. IsRatio(w.spread, d, n * n)
    BY <1>1, <1>14, <2>1 DEF Exact, SpreadIs
  <2> QED
    BY <1>3, <1>13, <2>3, <2>4, <2>5, SameRatio
<1> QED
  BY <1>1, <1>2, <1>4, <1>10, <1>14 DEF Exact, Total, g

\* Every statistic, stored or about to be, is exact.
XInv ==
    /\ \A p \in Processes : \A w \in new[p] : ~IsBatch(w) => Exact(w)
    /\ \A w \in stats : Exact(w)

\* The import, once begun, is not again to come.
ImporterGoesOn == pc'[Importer] = "idle" => pc[Importer] = "idle"

LEMMA ExactStays ==
    ASSUME SessionsStay, ImporterGoesOn, NEW w, Grounded(w.bag), Exact(w)
    PROVE  Exact(w)'
<1>1. /\ SumOver(w.bag, Ones)' = SumOver(w.bag, Ones)
      /\ Total(w.bag)' = Total(w.bag) /\ Power(w.bag)' = Power(w.bag)
  BY SumsStay DEF Total, Power, Ones, Lengths, Sq
<1> QED
  BY <1>1 DEF Exact, SpreadIs, ImporterGoesOn

LEMMA ExactDoesNotMove ==
    ASSUME sess' = sess, ImporterGoesOn, NEW w, Exact(w)
    PROVE  Exact(w)'
<1>1. ASSUME NEW bag, NEW f PROVE SumOver(bag, f)' = SumOver(bag, f)
  <2>1. Terms(bag, f)' = Terms(bag, f)
    BY DEF Terms, Value, Plugged, Charged, Ended
  <2>2. SumOver(bag, f)' = SumOf(Terms(bag, f)', Places)
    BY SumOverStays DEF IsSum
  <2> QED
    BY <2>1, <2>2, SumOverIs DEF IsSum
<1>2. /\ SumOver(w.bag, Ones)' = SumOver(w.bag, Ones)
      /\ Total(w.bag)' = Total(w.bag) /\ Power(w.bag)' = Power(w.bag)
  BY <1>1 DEF Total, Power, Ones, Lengths, Sq
<1> QED
  BY <1>2 DEF Exact, SpreadIs, ImporterGoesOn

LEMMA RowsAreGrounded ==
    ASSUME NEW w, RowOK(w) PROVE Grounded(w.bag)
  BY DEF RowOK, Grounded, Counts

LEMMA RowsStayExact ==
    ASSUME IInv, XInv, SessionsStay, ImporterGoesOn, stats' = stats,
           \A p \in Processes : \A w \in new'[p] :
              w \in new[p] \/ (~IsBatch(w) => Exact(w)')
    PROVE  XInv'
<1>1. /\ \A p \in Processes : \A w \in new[p] : Grounded(w.bag)
      /\ \A w \in stats : Grounded(w.bag)
  BY RowsAreGrounded DEF IInv, Shape, RowsOK
<1> QED
  BY <1>1, ExactStays DEF XInv

LEMMA ExactUpdates ==
    ASSUME IInv, XInv, NEW r \in Sessions, Update(r)
    PROVE  XInv'
<1>1. /\ TypesOK /\ r \in Processes /\ r # Importer /\ Importer \in Processes
      /\ sess' = sess /\ stats' = stats /\ SessionsStay
  BY ImporterIsNoSession
     DEF IInv, Shape, Processes, Update, Begin, LookStats, RebuildStats,
         LookCdf, RebuildCdf, TakeLock, OnlineCdf, SessionsStay, Ended
<1>2. ImporterGoesOn
  <2>1. \E place : pc' = [pc EXCEPT ![r] = place]
    BY DEF Update, Begin, LookStats, RebuildStats, LookCdf, RebuildCdf, TakeLock,
           OnlineCdf, Advance
  <2> QED
    BY <1>1, <2>1 DEF ImporterGoesOn, TypesOK
<1>3. CASE new' = new
  BY <1>1, <1>2, <1>3, RowsStayExact
<1>4. ASSUME NEW rows, Advance(r, rows),
             \A w \in rows : ~IsBatch(w) => Exact(w)
      PROVE  XInv'
  <2>1. /\ new'[r] = new[r] \cup rows
        /\ \A q \in Processes \ {r} : new'[q] = new[q]
    BY <1>1, <1>4, AdvanceFrame
  <2>2. \A p \in Processes : \A w \in new'[p] :
          w \in new[p] \/ (~IsBatch(w) => Exact(w)')
    BY <1>1, <1>2, <1>4, <2>1, ExactDoesNotMove
  <2> QED
    BY <1>1, <1>2, <2>2, RowsStayExact
<1>5. CASE LookStats(r)
  <2>1. CASE UNCHANGED new
    BY <1>3, <2>1
  <2>2. CASE \E v \in LatestStats(Owner(r), Hour(r)) :
               Advance(r, IF Owner(r) = Generic /\ ~Within(Plugged[r]) THEN {}
                          ELSE {NextStat(v, r, Plugged[r], start[r])})
    <3>1. PICK v \in LatestStats(Owner(r), Hour(r)) :
               Advance(r, IF Owner(r) = Generic /\ ~Within(Plugged[r]) THEN {}
                          ELSE {NextStat(v, r, Plugged[r], start[r])})
      BY <2>2
    <3> DEFINE w == NextStat(v, r, Plugged[r], start[r])
               rows == IF Owner(r) = Generic /\ ~Within(Plugged[r]) THEN {}
                       ELSE {w}
    <3>2. v \in stats /\ RowOK(v)
      BY ReadRows DEF IInv
    <3>3. Exact(v) /\ Grounded(v.bag) /\ v.n \in Nat \ {0}
      BY <3>2, RowsAreGrounded DEF XInv, RowOK
    <3>4. sess[r] # None
      BY <1>5, AtStep DEF LookStats, Doing
    <3>5. Exact(w)
      BY <1>1, <3>3, <3>4, ContinuedIsExact
    <3>6. Advance(r, rows) /\ \A x \in rows : x = w
      BY <3>1
    <3> HIDE DEF rows, w
    <3> QED
      BY <1>4, <3>5, <3>6
  <2> QED
    BY <1>5, <2>1, <2>2 DEF LookStats
<1>6. CASE RebuildStats(r)
  <2> DEFINE rows == IF Owner(r) = Generic THEN FleetStat(r) ELSE ChargerStat(r)
  <2>1. Advance(r, rows)
    BY <1>6 DEF RebuildStats
  <2>2. r \in EndedOf(Owner(r), Hour(r)) /\ r \in Ended
    BY <1>6, AtStep DEF RebuildStats, Doing, EndedOf
  <2>3. /\ "charged" \in Measures /\ "plugged" \in Measures
        /\ \A s : Charged[s] = Value(<<s, "charged">>)
        /\ \A s : Plugged[s] = Value(<<s, "plugged">>)
    BY DEF Measures, Value
  <2>4. ASSUME NEW S, S \subseteq Ended, S # {}
        PROVE  /\ Exact(StatFrom(Generic, Hour(r), S, Charged, "charged", start[r]))
               /\ Exact(StatFrom(Generic, Hour(r), S, Plugged, "plugged", start[r]))
               /\ Exact(StatFrom(Owner(r), Hour(r), S, Charged, "charged", start[r]))
    BY <1>1, <2>3, <2>4, RebuiltIsExact
  <2>5. \A w \in FleetStat(r) : Exact(w)
    <3> DEFINE S == {s \in EndedOf(Generic, Hour(r)) : Within(Charged[s])}
    <3>1. S \subseteq Ended /\ {r} \subseteq Ended /\ {r} # {}
      BY <2>2 DEF EndedOf
    <3>2. \A w \in FleetStat(r) :
            \/ S # {} /\ w = StatFrom(Generic, Hour(r), S, Charged, "charged", start[r])
            \/ w = StatFrom(Generic, Hour(r), {r}, Plugged, "plugged", start[r])
      BY DEF FleetStat
    <3> HIDE DEF S
    <3> QED
      BY <2>4, <3>1, <3>2
  <2>6. \A w \in ChargerStat(r) : Exact(w)
    <3> DEFINE S == EndedOf(Owner(r), Hour(r))
    <3>1. S \subseteq Ended /\ S # {}
      BY <2>2 DEF EndedOf
    <3>2. \A w \in ChargerStat(r) :
            w = StatFrom(Owner(r), Hour(r), S, Charged, "charged", start[r])
      BY DEF ChargerStat
    <3> HIDE DEF S
    <3> QED
      BY <2>4, <3>1, <3>2
  <2>7. \A w \in rows : Exact(w)
    BY <2>5, <2>6
  <2> HIDE DEF rows
  <2> QED
    BY <1>4, <2>1, <2>7
<1>7. CASE RebuildCdf(r) \/ OnlineCdf(r)
  <2>1. PICK rows : Advance(r, rows) /\ \A w \in rows : IsBatch(w)
    <3>1. CASE RebuildCdf(r)
      <4> DEFINE S == EndedOf(Owner(r), Hour(r))
                 b == BatchFrom(Owner(r), Hour(r), S, Plugged, start[r])
                 rows == IF \/ S = {}
                            \/ Owner(r) # Generic /\ Cardinality(S) < MinSessions
                           THEN {} ELSE {b}
      <4>1. Advance(r, rows)
        BY <3>1 DEF RebuildCdf
      <4>2. IsBatch(b)
        BY BatchFields DEF BatchFrom
      <4>3. \A w \in rows : w = b
        OBVIOUS
      <4> HIDE DEF rows, b
      <4> QED
        BY <4>1, <4>2, <4>3
    <3>2. CASE OnlineCdf(r)
      <4> DEFINE rows == {NextBatch(b, r, Plugged[r], start[r]) :
                            b \in LatestBatches(Owner(r), Hour(r))}
      <4>1. Advance(r, rows)
        BY <3>2 DEF OnlineCdf
      <4>2. \A b : IsBatch(NextBatch(b, r, Plugged[r], start[r]))
        BY DEF NextBatch, Batch, IsBatch
      <4>3. \A w \in rows : IsBatch(w)
        BY <4>2
      <4> HIDE DEF rows
      <4> QED
        BY <4>1, <4>3
    <3> QED
      BY <1>7, <3>1, <3>2
  <2> QED
    BY <1>4, <2>1
<1> QED
  BY <1>3, <1>5, <1>6, <1>7 DEF Update, Begin, LookCdf, TakeLock

\* What the import adds to its transaction.
LEMMA ExactImports ==
    ASSUME IInv, XInv, NEW owner, NEW S, S \subseteq EndedOf(owner, AllHours),
           pc[Importer] # "idle", ImporterGoesOn,
           NEW at, NEW old, old \in {{}, new[Importer]},
           new' = [new EXCEPT ![Importer] = old \cup
                     ({BatchFrom(owner, AllHours, S, Plugged, at)}
                      \cup HourlyStats(owner, S, at))],
           sess' = sess, stats' = stats
    PROVE  XInv'
<1> DEFINE b == BatchFrom(owner, AllHours, S, Plugged, at)
<1>1. Importer \in Processes /\ TypesOK /\ SessionsStay
  BY DEF IInv, Shape, Processes, SessionsStay, Ended
<1>2. IsBatch(b)
  BY BatchFields DEF BatchFrom
<1>3. \A w \in HourlyStats(owner, S, at) : Exact(w)
  <2>1. ASSUME NEW w \in HourlyStats(owner, S, at) PROVE Exact(w)
    <3>1. PICK s \in S : w = ImportedStat(owner, sess[s].hour,
                                          {x \in S : sess[x].hour = sess[s].hour},
                                          Plugged, at)
      BY <2>1 DEF HourlyStats
    <3>2. PICK T : T = {x \in S : sess[x].hour = sess[s].hour}
      OBVIOUS
    <3>3. T \subseteq Ended /\ T # {}
      BY <3>2 DEF EndedOf
    <3> QED
      BY <1>1, <3>1, <3>2, <3>3, ImportedIsExact
  <2> QED
    BY <2>1
<1>4. \A p \in Processes : \A w \in new'[p] :
        w \in new[p] \/ w = b \/ w \in HourlyStats(owner, S, at)
  BY <1>1 DEF TypesOK
<1> HIDE DEF b
<1>5. \A p \in Processes : \A w \in new'[p] :
        w \in new[p] \/ (~IsBatch(w) => Exact(w)')
  BY <1>2, <1>3, <1>4, ExactDoesNotMove
<1> QED
  BY <1>1, <1>5, RowsStayExact

LEMMA ExactSteps == ASSUME IInv, XInv, [Next]_vars PROVE XInv'
<1>0. Importer \in Processes /\ TypesOK /\ DOMAIN pc = Processes
  BY DEF IInv, Shape, Processes, TypesOK
<1>1. CASE \E s \in Sessions, kind \in Kinds : Close(s, kind)
  <2>1. PICK s \in Sessions, kind \in Kinds : Close(s, kind)
    BY <1>1
  <2>2. SessionsStay /\ ImporterGoesOn
    BY <1>0, <2>1, ImporterIsNoSession
       DEF Close, SessionsStay, ImporterGoesOn, Ended, TypesOK
  <2> QED
    BY <2>1, <2>2, RowsStayExact DEF Close
<1>2. CASE \E r \in Sessions : Update(r)
  BY <1>2, ExactUpdates
<1>3. CASE Import
  <2>1. ASSUME NEW S \in SUBSET Sessions, NEW kind \in Kinds,
               NEW end \in {0, ends + 1}, ImportSessions(S, kind, end)
        PROVE  XInv'
    <3>1. SessionsStay /\ ImporterGoesOn
      BY <1>0, <2>1 DEF ImportSessions, SessionsStay, ImporterGoesOn, Ended
    <3> QED
      BY <2>1, <3>1, RowsStayExact DEF ImportSessions
  <2>2. ASSUME NEW c \in Chargers, ImportCharger(c) PROVE XInv'
    <3> DEFINE S == EndedOf(c, AllHours)
               rows == {BatchFrom(c, AllHours, S, Plugged, clock + 1)}
                       \cup HourlyStats(c, S, clock + 1)
    <3>1. /\ new' = [new EXCEPT ![Importer] = rows]
          /\ sess' = sess /\ stats' = stats
          /\ pc[Importer] # "idle" /\ ImporterGoesOn
      BY <1>0, <2>2 DEF ImportCharger, ImporterGoesOn
    <3>2. rows = {} \cup rows
      OBVIOUS
    <3>3. new' = [new EXCEPT ![Importer] = {} \cup rows]
      BY <3>1, <3>2
    <3> QED
      BY <3>1, <3>3, ExactImports
  <2>3. ASSUME ImportFleet PROVE XInv'
    <3>1. PICK S \in MostRecent :
            new' = [new EXCEPT ![Importer] = new[Importer] \cup
                      {BatchFrom(Generic, AllHours, S, Plugged, start[Importer])}
                      \cup HourlyStats(Generic, S, start[Importer])]
      BY <2>3 DEF ImportFleet
    <3> DEFINE rows == {BatchFrom(Generic, AllHours, S, Plugged, start[Importer])}
                       \cup HourlyStats(Generic, S, start[Importer])
    <3>2. new' = [new EXCEPT ![Importer] = new[Importer] \cup rows]
      BY <3>1
    <3>3. S \subseteq EndedOf(Generic, AllHours)
      BY DEF MostRecent, EndedOf, Ended
    <3>4. /\ sess' = sess /\ stats' = stats
          /\ pc[Importer] # "idle" /\ ImporterGoesOn
      BY <1>0, <2>3 DEF ImportFleet, ImporterGoesOn
    <3> QED
      BY <3>2, <3>3, <3>4, ExactImports
  <2> QED
    BY <1>3, <2>1, <2>2, <2>3 DEF Import
<1>4. CASE \E p \in Processes : Commit(p)
  <2>1. PICK p \in Processes : Commit(p)
    BY <1>4
  <2>2. /\ sess' = sess /\ ImporterGoesOn
        /\ \A w \in stats' : w \in stats \/ (w \in new[p] /\ ~IsBatch(w))
        /\ \A q \in Processes : new'[q] = {} \/ new'[q] = new[q]
    BY <1>0, <2>1 DEF Commit, ImporterGoesOn, TypesOK
  <2> QED
    BY <2>2, ExactDoesNotMove DEF XInv
<1>5. CASE Crash \/ \E p \in Processes : Abort(p)
  <2>1. /\ sess' = sess /\ stats' = stats /\ ImporterGoesOn
        /\ \A q \in Processes : new'[q] = {} \/ new'[q] = new[q]
    BY <1>0, <1>5 DEF Crash, Abort, ImporterGoesOn, TypesOK
  <2> QED
    BY <2>1, ExactDoesNotMove DEF XInv
<1>6. CASE UNCHANGED vars
  BY <1>6, ExactDoesNotMove DEF vars, XInv, ImporterGoesOn
<1> QED
  BY <1>1, <1>2, <1>3, <1>4, <1>5, <1>6 DEF Next, Quiet

------------------------------------------------------------------------------
(* Types. *)

\* The columns of a row.
Columns(w) ==
    DOMAIN w = IF IsBatch(w)
                 THEN {"owner", "hour", "n", "within", "bag", "at"}
                 ELSE {"owner", "hour", "n", "mean", "spread", "bag", "at"}

LEMMA RowColumns ==
    ASSUME NEW owner, NEW hour, NEW n, NEW mean, NEW spread, NEW within, NEW bag, NEW at
    PROVE  /\ Columns(StatRow(owner, hour, n, mean, spread, bag, at))
           /\ Columns(Batch(owner, hour, n, within, bag, at))
  BY DEF Columns, StatRow, Batch, IsBatch

\* What the other invariants do not say of the types.
TInv ==
    /\ \A s \in Ended : sess[s].end <= ends
    /\ \A p \in Processes : start[p] <= clock
    /\ lock \in [Keys -> Processes \cup {None}]
    /\ \A p \in Processes : \A w \in new[p] : Columns(w)
    /\ \A w \in stats \cup cdf : Columns(w)

LEMMA TypesOfUpdates ==
    ASSUME IInv, TInv, NEW r \in Sessions, Update(r)
    PROVE  TInv'
<1>1. /\ TypesOK /\ r \in Processes /\ sess' = sess /\ stats' = stats
      /\ cdf' = cdf /\ ends' = ends
  BY DEF IInv, Shape, Processes, Update, Begin, LookStats, RebuildStats,
         LookCdf, RebuildCdf, TakeLock, OnlineCdf
<1>2. \A p \in Processes : start'[p] <= clock'
  <2>1. CASE Begin(r)
    BY <1>1, <2>1 DEF Begin, TInv, TypesOK
  <2>2. CASE ~Begin(r)
    BY <2>2 DEF TInv, Update, LookStats, RebuildStats, LookCdf, RebuildCdf,
                TakeLock, OnlineCdf
  <2> QED
    BY <2>1, <2>2
<1>3. lock' \in [Keys -> Processes \cup {None}]
  BY <1>1 DEF TInv, Update, Begin, LookStats, RebuildStats, LookCdf, RebuildCdf,
              TakeLock, OnlineCdf
<1>4. \A p \in Processes : \A w \in new'[p] : Columns(w)
  <2>1. CASE new' = new
    BY <2>1 DEF TInv
  <2>2. ASSUME NEW rows, Advance(r, rows), \A w \in rows : Columns(w)
        PROVE  \A p \in Processes : \A w \in new'[p] : Columns(w)
    <3>1. /\ new'[r] = new[r] \cup rows
          /\ \A q \in Processes \ {r} : new'[q] = new[q]
      BY <1>1, <2>2, AdvanceFrame
    <3> QED
      BY <2>2, <3>1 DEF TInv
  <2>3. CASE LookStats(r)
    <3>1. \A v : Columns(NextStat(v, r, Plugged[r], start[r]))
      BY RowColumns DEF NextStat
    <3>2. \/ new' = new
          \/ \E v, rows : /\ Advance(r, rows)
                          /\ rows \subseteq {NextStat(v, r, Plugged[r], start[r])}
      <4>1. CASE UNCHANGED new
        BY <4>1
      <4>2. CASE \E v \in LatestStats(Owner(r), Hour(r)) :
                   Advance(r, IF Owner(r) = Generic /\ ~Within(Plugged[r]) THEN {}
                              ELSE {NextStat(v, r, Plugged[r], start[r])})
        <5>1. PICK v : Advance(r, IF Owner(r) = Generic /\ ~Within(Plugged[r]) THEN {}
                                  ELSE {NextStat(v, r, Plugged[r], start[r])})
          BY <4>2
        <5> QED
          BY <5>1
      <4> QED
        BY <2>3, <4>1, <4>2 DEF LookStats
    <3>3. \/ new' = new
          \/ \E rows : Advance(r, rows) /\ \A w \in rows : Columns(w)
      BY <3>1, <3>2
    <3> QED
      BY <2>1, <2>2, <3>3
  <2>4. CASE RebuildStats(r)
    <3>1. \A w \in FleetStat(r) \cup ChargerStat(r) : Columns(w)
      BY RowColumns DEF FleetStat, ChargerStat, StatFrom
    <3>2. PICK rows : Advance(r, rows) /\ rows \subseteq FleetStat(r) \cup ChargerStat(r)
      BY <2>4 DEF RebuildStats
    <3> QED
      BY <2>2, <3>1, <3>2
  <2>5. CASE RebuildCdf(r)
    <3> DEFINE S == EndedOf(Owner(r), Hour(r))
    <3>1. Columns(BatchFrom(Owner(r), Hour(r), S, Plugged, start[r]))
      BY RowColumns DEF BatchFrom
    <3>2. PICK rows : /\ Advance(r, rows)
                      /\ rows \subseteq {BatchFrom(Owner(r), Hour(r), S, Plugged, start[r])}
      BY <2>5 DEF RebuildCdf
    <3> QED
      BY <2>2, <3>1, <3>2
  <2>6. CASE OnlineCdf(r)
    <3>1. \A b : Columns(NextBatch(b, r, Plugged[r], start[r]))
      BY RowColumns DEF NextBatch
    <3>2. PICK rows : /\ Advance(r, rows)
                      /\ rows = {NextBatch(b, r, Plugged[r], start[r]) :
                                    b \in LatestBatches(Owner(r), Hour(r))}
      BY <2>6 DEF OnlineCdf
    <3>3. \A w \in rows : Columns(w)
      BY <3>1, <3>2
    <3> QED
      BY <2>2, <3>2, <3>3
  <2> QED
    BY <2>1, <2>3, <2>4, <2>5, <2>6 DEF Update, Begin, LookCdf, TakeLock
<1> QED
  BY <1>1, <1>2, <1>3, <1>4 DEF TInv, Ended

LEMMA TypeSteps == ASSUME IInv, TInv, [Next]_vars PROVE TInv'
<1>0. Importer \in Processes /\ TypesOK
  BY DEF IInv, Shape, Processes
<1>1. CASE \E s \in Sessions, kind \in Kinds : Close(s, kind)
  <2>1. PICK s \in Sessions, kind \in Kinds : Close(s, kind)
    BY <1>1
  <2>2. \A t \in Ended' : sess'[t].end <= ends'
    <3>1. ASSUME NEW t \in Sessions, sess'[t] # None PROVE sess'[t].end <= ends'
      <4>1. CASE t = s
        BY <1>0, <2>1, <4>1 DEF Close, TypesOK
      <4>2. CASE t # s
        <5>1. sess'[t] = sess[t] /\ sess[t] \in Completed /\ sess[t].end <= ends
          BY <1>0, <2>1, <3>1, <4>2 DEF Close, TypesOK, TInv, Ended
        <5>2. sess[t].end \in Nat /\ ends \in Nat /\ ends' = ends + 1
          BY <1>0, <2>1, <5>1 DEF Close, TypesOK, Completed
        <5> QED
          BY <5>1, <5>2
      <4> QED
        BY <4>1, <4>2
    <3> QED
      BY <3>1 DEF Ended
  <2> QED
    BY <2>1, <2>2 DEF Close, TInv
<1>2. CASE \E r \in Sessions : Update(r)
  BY <1>2, TypesOfUpdates
<1>3. CASE Import
  <2>1. ASSUME NEW S \in SUBSET Sessions, NEW kind \in Kinds,
               NEW end \in {0, ends + 1}, ImportSessions(S, kind, end)
        PROVE  TInv'
    <3>1. \A t \in Ended' : sess'[t].end <= ends'
      <4>1. ASSUME NEW t \in Sessions, sess'[t] # None PROVE sess'[t].end <= ends'
        <5>1. ends \in Nat /\ ends' = ends + 1
          BY <1>0, <2>1 DEF ImportSessions, TypesOK
        <5>2. CASE t \in S
          <6>1. sess'[t].end = end
            BY <2>1, <5>2 DEF ImportSessions
          <6> QED
            BY <5>1, <6>1
        <5>3. CASE t \notin S
          <6>1. sess'[t] = sess[t] /\ sess[t] \in Completed /\ sess[t].end <= ends
            BY <1>0, <2>1, <4>1, <5>3 DEF ImportSessions, TypesOK, TInv, Ended
          <6>2. sess[t].end \in Nat
            BY <6>1 DEF Completed
          <6> QED
            BY <5>1, <6>1, <6>2
        <5> QED
          BY <5>2, <5>3
      <4> QED
        BY <4>1 DEF Ended
    <3> QED
      BY <2>1, <3>1 DEF ImportSessions, TInv
  <2>2. ASSUME NEW owner, NEW S, NEW at
        PROVE  \A w \in {BatchFrom(owner, AllHours, S, Plugged, at)}
                        \cup HourlyStats(owner, S, at) : Columns(w)
    <3>1. Columns(BatchFrom(owner, AllHours, S, Plugged, at))
      BY RowColumns DEF BatchFrom
    <3>2. \A h, T : Columns(ImportedStat(owner, h, T, Plugged, at))
      BY RowColumns DEF ImportedStat
    <3> QED
      BY <3>1, <3>2 DEF HourlyStats
  <2>3. ASSUME NEW c \in Chargers, ImportCharger(c) PROVE TInv'
    <3>1. \A w \in new'[Importer] : Columns(w)
      BY <1>0, <2>2, <2>3 DEF ImportCharger, TypesOK
    <3>2. /\ \A p \in Processes : p # Importer => new'[p] = new[p]
          /\ \A p \in Processes : start'[p] <= clock'
      BY <1>0, <2>3 DEF ImportCharger, TypesOK, TInv
    <3> QED
      BY <2>3, <3>1, <3>2 DEF ImportCharger, TInv, Ended
  <2>4. ASSUME ImportFleet PROVE TInv'
    <3>1. \A w \in new'[Importer] : Columns(w)
      BY <1>0, <2>2, <2>4 DEF ImportFleet, TypesOK, TInv
    <3>2. \A p \in Processes : p # Importer => new'[p] = new[p]
      BY <1>0, <2>4 DEF ImportFleet, TypesOK
    <3> QED
      BY <2>4, <3>1, <3>2 DEF ImportFleet, TInv, Ended
  <2> QED
    BY <1>3, <2>1, <2>3, <2>4 DEF Import
<1>4. CASE \E p \in Processes : Commit(p)
  <2>1. PICK p \in Processes : Commit(p)
    BY <1>4
  <2>2. /\ \A w \in stats' \cup cdf' : w \in stats \cup cdf \/ w \in new[p]
        /\ \A q \in Processes : new'[q] = {} \/ new'[q] = new[q]
    BY <1>0, <2>1 DEF Commit, TypesOK
  <2> QED
    BY <2>1, <2>2 DEF Commit, TInv, Ended
<1>5. CASE Crash \/ \E p \in Processes : Abort(p)
  <2>1. /\ sess' = sess /\ stats' = stats /\ cdf' = cdf /\ ends' = ends
        /\ clock' = clock /\ start' = start
        /\ \A q \in Processes : new'[q] = {} \/ new'[q] = new[q]
        /\ lock' \in [Keys -> Processes \cup {None}]
    BY <1>0, <1>5 DEF Crash, Abort, Released, TypesOK, TInv
  <2> QED
    BY <2>1 DEF TInv, Ended
<1>6. CASE UNCHANGED vars
  BY <1>6 DEF vars, TInv, Ended
<1> QED
  BY <1>1, <1>2, <1>3, <1>4, <1>5, <1>6 DEF Next, Quiet

------------------------------------------------------------------------------
(* The lookup of a probability. *)

LEMMA LeastIs ==
    ASSUME NEW T, T \subseteq Nat, T # {}
    PROVE  Min(T) \in T /\ \A y \in T : Min(T) <= y
  BY LeastExists DEF Min

LEMMA GreatestIs ==
    ASSUME NEW T, T \subseteq Nat, T # {}, IsFiniteSet(T)
    PROVE  Max(T) \in T /\ \A y \in T : Max(T) >= y
<1>1. T \subseteq Int
  OBVIOUS
<1>2. \E x \in T : \A y \in T : x >= y
  BY <1>1, GreatestExists
<1> QED
  BY <1>2 DEF Max

\* Division by a positive number keeps the order.
LEMMA DivMonotone ==
    ASSUME NEW a \in Int, NEW b \in Int, a <= b, NEW d \in Nat \ {0}
    PROVE  /\ a \div d \in Int /\ b \div d \in Int
           /\ a \div d <= b \div d
  OBVIOUS

LEMMA DivOfMultiple ==
    ASSUME NEW a \in Int, NEW d \in Nat \ {0}
    PROVE  (a * d) \div d = a
  OBVIOUS

\* A probability that is stored is one, and never decreases.
LEMMA ProbabilityIs ==
    ASSUME NEW b, Distribution(b), NEW g \in Horizons, NEW h \in Horizons
    PROVE  /\ Probability(b, h) \in 0 .. Scale
           /\ g <= h => Probability(b, g) <= Probability(b, h)
<1>1. /\ b.n \in Nat \ {0} /\ b.within[g] \in Nat /\ b.within[h] \in Nat
      /\ b.within[h] <= b.n
      /\ g <= h => b.within[g] <= b.within[h]
  BY DEF Distribution
<1>2. ASSUME NEW x \in Nat, NEW n \in Nat \ {0}, x <= n
      PROVE  (60 * x) \div n \in 0 .. 60
  <2>1. /\ 0 <= 60 * x /\ 60 * x <= 60 * n
        /\ 60 * x \in Int /\ 60 * n \in Int
    BY <1>2
  <2>2. /\ 0 \div n <= (60 * x) \div n
        /\ (60 * x) \div n <= (60 * n) \div n
        /\ (60 * x) \div n \in Int
    BY <2>1, DivMonotone
  <2>3. 0 \div n = 0 /\ (60 * n) \div n = 60
    BY DivOfMultiple
  <2> QED
    BY <2>2, <2>3
<1>3. ASSUME NEW x \in Nat, NEW y \in Nat, NEW n \in Nat \ {0}, x <= y
      PROVE  (60 * x) \div n <= (60 * y) \div n
  <2>1. 60 * x <= 60 * y /\ 60 * x \in Int /\ 60 * y \in Int
    BY <1>3
  <2> QED
    BY <2>1, DivMonotone
<1> QED
  BY <1>1, <1>2, <1>3 DEF Probability, Scale

\* Between two horizons the lookup stays between their values, reaches the
\* second one, and never decreases.
LEMMA BetweenIs ==
    ASSUME NEW p0 \in Nat, NEW p1 \in Nat, p0 <= p1,
           NEW h0 \in Nat, NEW h1 \in Nat, NEW t \in Nat, h0 < t, t <= h1
    PROVE  /\ Between(p0, p1, h0, h1, t) \in p0 .. p1
           /\ t = h1 => Between(p0, p1, h0, h1, t) = p1
           /\ t < h1 => Between(p0, p1, h0, h1, t)
                          <= Between(p0, p1, h0, h1, t + 1)
<1> DEFINE up == p1 - p0
           d == h1 - h0
           X(u) == up * (u - h0)
<1>1. up \in Nat /\ d \in Nat \ {0} /\ t - h0 \in Nat /\ t - h0 <= d
  OBVIOUS
<1>2. ASSUME NEW u \in Nat, h0 < u, u <= h1
      PROVE  X(u) \in Int /\ 0 <= X(u) /\ X(u) <= up * d
  <2>1. \A i, j, k \in Nat : i <= j => k * i \in Nat /\ k * j \in Nat /\ k * i <= k * j
    OBVIOUS
  <2>2. u - h0 \in Nat /\ u - h0 <= d
    BY <1>2
  <2> QED
    BY <1>1, <2>1, <2>2
<1>3. up * d \in Int /\ (up * d) \div d = up /\ 0 \div d = 0
  BY <1>1, DivOfMultiple
<1>4. X(t) \div d \in Int /\ 0 <= X(t) \div d /\ X(t) \div d <= up
  <2> HIDE DEF X, up, d
  <2>1. X(t) \in Int /\ 0 <= X(t) /\ X(t) <= up * d
    BY <1>2
  <2>2. 0 \div d <= X(t) \div d /\ X(t) \div d <= (up * d) \div d
        /\ X(t) \div d \in Int
    BY <1>1, <1>3, <2>1, DivMonotone
  <2> QED
    BY <1>3, <2>2
<1>5. Between(p0, p1, h0, h1, t) = p0 + X(t) \div d
  BY DEF Between
<1>6. Between(p0, p1, h0, h1, t + 1) = p0 + X(t + 1) \div d
  BY DEF Between
<1>7. t = h1 => X(t) \div d = up
  BY <1>3
<1>8. ASSUME t < h1
      PROVE  X(t) \div d <= X(t + 1) \div d /\ X(t + 1) \div d \in Int
  <2>1. X(t + 1) = X(t) + up
    BY <1>1
  <2>2. X(t) \in Int /\ X(t + 1) \in Int
    BY <1>2, <1>8
  <2> HIDE DEF X, d, up
  <2> QED
    BY <1>1, <2>1, <2>2, DivMonotone
<1>9. /\ p0 + X(t) \div d \in p0 .. p1
      /\ t = h1 => p0 + X(t) \div d = p1
  <2> HIDE DEF X, d
  <2> QED
    BY <1>4, <1>7
<1>10. t < h1 => p0 + X(t) \div d <= p0 + X(t + 1) \div d
  <2> HIDE DEF X, d, up
  <2> QED
    BY <1>4, <1>8
<1> QED
  BY <1>5, <1>6, <1>9, <1>10
\* What the lookup makes of a single batch.
Below(t) == Max({h \in Horizons : h < t})
Above(t) == Min({h \in Horizons : h >= t})

Segment(b, t) ==
    Between(Probability(b, Below(t)), Probability(b, Above(t)),
            Below(t), Above(t), t)

Curve(b, t) ==
    IF t <= Min(Horizons) THEN Probability(b, Min(Horizons))
    ELSE IF t >= Max(Horizons) THEN Probability(b, Max(Horizons))
    ELSE Segment(b, t)

LEMMA LookupOfOne ==
    ASSUME NEW b, b.at \in Nat, NEW t
    PROVE  Lookups({b}, t) = {Curve(b, t)}
<1>1. Newest({b}) = {b} /\ Oldest({b}) = {b}
  BY DEF Newest, Oldest
<1>2. CASE t <= Min(Horizons)
  <2>1. Lookups({b}, t) = {Probability(c, Min(Horizons)) : c \in Newest({b})}
    BY <1>2 DEF Lookups
  <2> QED
    BY <1>1, <1>2, <2>1 DEF Curve
<1>3. CASE ~(t <= Min(Horizons)) /\ t >= Max(Horizons)
  <2>1. Lookups({b}, t) = {Probability(c, Max(Horizons)) : c \in Oldest({b})}
    BY <1>3 DEF Lookups
  <2> QED
    BY <1>1, <1>3, <2>1 DEF Curve
<1>4. CASE ~(t <= Min(Horizons)) /\ ~(t >= Max(Horizons))
  <2>1. \A x : x \in Lookups({b}, t) <=>
          \E c, d \in Newest({b}) :
             x = Between(Probability(c, Below(t)), Probability(d, Above(t)),
                         Below(t), Above(t), t)
    BY <1>4 DEF Lookups, Below, Above
  <2>2. \A x : x \in Lookups({b}, t) <=> x = Curve(b, t)
    BY <1>1, <1>4, <2>1 DEF Curve, Segment
  <2> QED
    BY <2>2
<1> QED
  BY <1>2, <1>3, <1>4

LEMMA EndHorizons ==
    /\ Min(Horizons) \in Horizons /\ Max(Horizons) \in Horizons
    /\ \A h \in Horizons : Min(Horizons) <= h /\ h <= Max(Horizons) /\ h \in Nat
<1>1. Horizons \subseteq Nat /\ Horizons # {} /\ IsFiniteSet(Horizons)
  BY HorizonsAreNat, HorizonsAreSome
<1> QED
  BY <1>1, LeastIs, GreatestIs

\* The two horizons around a time.
LEMMA Around ==
    ASSUME NEW t \in Nat, Min(Horizons) < t, t <= Max(Horizons)
    PROVE  /\ Below(t) \in Horizons /\ Above(t) \in Horizons
           /\ Below(t) \in Nat /\ Above(t) \in Nat
           /\ Below(t) < t /\ t <= Above(t)
           /\ \A h \in Horizons : h < t => h <= Below(t)
           /\ \A h \in Horizons : h >= t => Above(t) <= h
<1> DEFINE L == {h \in Horizons : h < t}
           U == {h \in Horizons : h >= t}
<1>1. /\ L \subseteq Nat /\ L # {} /\ U \subseteq Nat /\ U # {}
      /\ L \subseteq Horizons
  BY EndHorizons
<1>2. IsFiniteSet(L)
  BY <1>1, HorizonsAreSome, FS_Subset
<1>3. Below(t) = Max(L) /\ Above(t) = Min(U)
  BY DEF Below, Above
<1>4. /\ Max(L) \in L /\ \A h \in L : Max(L) >= h
      /\ Min(U) \in U /\ \A h \in U : Min(U) <= h
  <2> HIDE DEF L, U
  <2> QED
    BY <1>1, <1>2, LeastIs, GreatestIs
<1> QED
  BY <1>3, <1>4, EndHorizons

\* A lookup between two horizons lies between their values.
LEMMA SegmentIs ==
    ASSUME NEW b, Distribution(b),
           NEW t \in Nat, Min(Horizons) < t, t <= Max(Horizons)
    PROVE  /\ Segment(b, t) \in 0 .. Scale
           /\ Probability(b, Below(t)) <= Segment(b, t)
           /\ Segment(b, t) <= Probability(b, Above(t))
           /\ t = Above(t) => Segment(b, t) = Probability(b, Above(t))
<1>1. /\ Below(t) \in Horizons /\ Above(t) \in Horizons
      /\ Below(t) \in Nat /\ Above(t) \in Nat
      /\ Below(t) < t /\ t <= Above(t) /\ Below(t) <= Above(t)
  BY Around
<1>2. /\ Probability(b, Below(t)) \in 0 .. Scale
      /\ Probability(b, Above(t)) \in 0 .. Scale
      /\ Probability(b, Below(t)) <= Probability(b, Above(t))
  BY <1>1, ProbabilityIs
<1>3. /\ Segment(b, t) \in Probability(b, Below(t)) .. Probability(b, Above(t))
      /\ t = Above(t) => Segment(b, t) = Probability(b, Above(t))
  <2>1. /\ Probability(b, Below(t)) \in Nat /\ Probability(b, Above(t)) \in Nat
    BY <1>2 DEF Scale
  <2> QED
    BY <1>1, <1>2, <2>1, BetweenIs DEF Segment
<1> QED
  BY <1>2, <1>3 DEF Scale

\* The lookup of a distribution is a probability and never decreases.
LEMMA CurveIs ==
    ASSUME NEW b, Distribution(b), NEW t \in Nat
    PROVE  Curve(b, t) \in 0 .. Scale /\ Curve(b, t) <= Curve(b, t + 1)
<1> DEFINE first == Min(Horizons)
           last  == Max(Horizons)
           P(h)  == Probability(b, h)
<1>1. /\ first \in Horizons /\ last \in Horizons
      /\ first \in Nat /\ last \in Nat /\ first <= last
      /\ \A h \in Horizons : first <= h /\ h <= last /\ h \in Nat
  BY EndHorizons
<1>2. \A g, h \in Horizons :
        P(h) \in 0 .. Scale /\ (g <= h => P(g) <= P(h))
  BY ProbabilityIs
<1>3. CASE t <= first
  <2>1. Curve(b, t) = P(first)
    BY <1>3 DEF Curve
  <2>2. CASE t + 1 <= first
    <3>1. Curve(b, t + 1) = P(first)
      BY <2>2 DEF Curve
    <3> QED
      BY <1>1, <1>2, <2>1, <3>1 DEF Scale
  <2>3. CASE ~(t + 1 <= first) /\ t + 1 >= last
    <3>1. Curve(b, t + 1) = P(last)
      BY <2>3 DEF Curve
    <3> QED
      BY <1>1, <1>2, <2>1, <3>1
  <2>4. CASE ~(t + 1 <= first) /\ ~(t + 1 >= last)
    <3>1. Curve(b, t + 1) = Segment(b, t + 1)
      BY <2>4 DEF Curve
    <3>2. t + 1 \in Nat /\ first < t + 1 /\ t + 1 <= last
      BY <1>1, <2>4
    <3>3. /\ P(Below(t + 1)) <= Segment(b, t + 1)
          /\ Segment(b, t + 1) \in 0 .. Scale
      BY <3>2, SegmentIs
    <3>4. Below(t + 1) \in Horizons
      BY <3>2, Around
    <3>5. P(first) <= P(Below(t + 1)) /\ P(Below(t + 1)) \in 0 .. Scale
          /\ P(first) \in 0 .. Scale
      BY <1>1, <1>2, <3>4
    <3> HIDE DEF P
    <3> QED
      BY <2>1, <3>1, <3>3, <3>5 DEF Scale
  <2> QED
    BY <2>2, <2>3, <2>4
<1>4. CASE ~(t <= first) /\ t >= last
  <2>1. Curve(b, t) = P(last) /\ Curve(b, t + 1) = P(last)
    BY <1>1, <1>4 DEF Curve
  <2> QED
    BY <1>1, <1>2, <2>1 DEF Scale
<1>5. CASE first < t /\ t < last
  <2>1. /\ Curve(b, t) = Segment(b, t) /\ t <= last
        /\ t + 1 \in Nat /\ first < t + 1 /\ t + 1 <= last
    BY <1>1, <1>5 DEF Curve
  <2>2. /\ Segment(b, t) \in 0 .. Scale
        /\ Segment(b, t) <= P(Above(t))
        /\ t = Above(t) => Segment(b, t) = P(Above(t))
    BY <1>5, <2>1, SegmentIs
  <2>3. /\ Below(t) \in Horizons /\ Above(t) \in Horizons
        /\ Below(t) < t /\ t <= Above(t)
        /\ \A h \in Horizons : h < t => h <= Below(t)
        /\ \A h \in Horizons : h >= t => Above(t) <= h
        /\ Below(t) \in Nat /\ Above(t) \in Nat
    BY <1>5, <2>1, Around
  <2>4. /\ Below(t + 1) \in Horizons /\ Above(t + 1) \in Horizons
        /\ Below(t + 1) < t + 1 /\ t + 1 <= Above(t + 1)
        /\ \A h \in Horizons : h < t + 1 => h <= Below(t + 1)
        /\ \A h \in Horizons : h >= t + 1 => Above(t + 1) <= h
        /\ Below(t + 1) \in Nat /\ Above(t + 1) \in Nat
    BY <2>1, Around
  <2>5. CASE t + 1 >= last
    <3>1. Curve(b, t + 1) = P(last)
      BY <1>1, <2>1, <2>5 DEF Curve
    <3>2. P(Above(t)) <= P(last) /\ P(Above(t)) \in 0 .. Scale
          /\ P(last) \in 0 .. Scale
      BY <1>1, <1>2, <2>3
    <3> HIDE DEF P
    <3> QED
      BY <2>1, <2>2, <3>1, <3>2 DEF Scale
  <2>6. CASE ~(t + 1 >= last) /\ t = Above(t)
    <3>1. Curve(b, t + 1) = Segment(b, t + 1)
      BY <1>1, <2>1, <2>6 DEF Curve
    <3>2. /\ P(Below(t + 1)) <= Segment(b, t + 1)
          /\ Segment(b, t + 1) \in 0 .. Scale
      BY <2>1, SegmentIs
    <3>3. t <= Below(t + 1) /\ t \in Horizons
      BY <2>3, <2>4, <2>6
    <3>4. P(t) <= P(Below(t + 1)) /\ P(t) \in 0 .. Scale
          /\ P(Below(t + 1)) \in 0 .. Scale
      BY <1>2, <2>4, <3>3
    <3>5. Segment(b, t) = P(t)
      BY <2>2, <2>6
    <3> HIDE DEF P
    <3> QED
      BY <2>1, <2>2, <3>1, <3>2, <3>4, <3>5 DEF Scale
  <2>7. CASE ~(t + 1 >= last) /\ t # Above(t)
    <3>1. Curve(b, t + 1) = Segment(b, t + 1)
      BY <1>1, <2>1, <2>7 DEF Curve
    <3>2. Below(t + 1) = Below(t) /\ Above(t + 1) = Above(t)
      <4>1. \A h \in Horizons : h < t + 1 <=> h < t
        <5>1. t \notin Horizons
          BY <2>3, <2>7
        <5> QED
          BY <1>1, <5>1
      <4>2. Below(t) <= Below(t + 1) /\ Below(t + 1) <= Below(t)
        BY <2>3, <2>4, <4>1
      <4>3. Above(t) <= Above(t + 1) /\ Above(t + 1) <= Above(t)
        BY <2>3, <2>4, <4>1
      <4> QED
        BY <2>3, <2>4, <4>2, <4>3
    <3>3. /\ P(Below(t)) \in Nat /\ P(Above(t)) \in Nat
          /\ P(Below(t)) <= P(Above(t)) /\ t < Above(t) /\ t <= Above(t)
      BY <1>2, <2>3, <2>7 DEF Scale
    <3>4. Segment(b, t) <= Segment(b, t + 1)
      BY <2>3, <3>2, <3>3, BetweenIs DEF Segment
    <3> QED
      BY <2>1, <2>2, <3>1, <3>4
  <2> QED
    BY <2>5, <2>6, <2>7
<1> QED
  BY <1>1, <1>3, <1>4, <1>5

------------------------------------------------------------------------------
(* The theorems. *)

\* TypeOK: every row of both tables, stored or staged, has its columns, counts
\* at least one session, and is dated no later than the last transaction.
THEOREM TypeCorrect == Spec => []TypeOK
<1>1. Init => IInv /\ XInv /\ TInv
  BY InitOK DEF Init, XInv, TInv, Ended
<1>2. IInv /\ XInv /\ TInv /\ [Next]_vars => (IInv /\ XInv /\ TInv)'
  BY StepOK, ExactSteps, TypeSteps
<1>3. IInv /\ XInv /\ TInv => TypeOK
  <2> SUFFICES ASSUME IInv, XInv, TInv PROVE TypeOK
    OBVIOUS
  <2>1. TypesOK /\ RowsOK
    BY DEF IInv, Shape
  <2>2. ASSUME NEW w, RowOK(w), Columns(w), IsBatch(w) PROVE IsCdfBatch(w)
    BY <2>1, <2>2 DEF RowOK, Columns, IsCdfBatch, Distribution, TypesOK
  <2>3. ASSUME NEW w, RowOK(w), Columns(w), ~IsBatch(w), Exact(w) PROVE IsStatRow(w)
    BY <2>1, <2>3 DEF RowOK, Columns, IsStatRow, Exact, TypesOK
  <2>4. /\ \A p \in Processes : \A w \in new[p] :
             IF IsBatch(w) THEN IsCdfBatch(w) ELSE IsStatRow(w)
        /\ \A w \in stats : IsStatRow(w)
        /\ \A b \in cdf : IsCdfBatch(b)
    BY <2>1, <2>2, <2>3 DEF RowsOK, XInv, TInv
  <2>5. Len(Steps) = 6
    BY DEF Steps
  <2>6. start \in [Processes -> 0 .. clock]
    BY <2>1 DEF TypesOK, TInv
  <2> QED
    BY <2>1, <2>4, <2>5, <2>6 DEF TypesOK, TInv, TypeOK
<1> QED
  BY <1>1, <1>2, <1>3, PTL DEF Spec

(* Whichever path wrote it, and whatever it overlapped with, every stored    *)
(* batch of ev_duration_cdf is the empirical distribution of the sessions it *)
(* counts, all of them sessions of its charger.                              *)
THEOREM CurvesAreOfTheirSessions == Spec => []CurvesAreEmpirical
<1>1. Init => EInv
  BY DEF Init, EInv
<1>2. IInv /\ EInv /\ [Next]_vars => EInv'
  BY EmpiricalSteps
<1>3. ASSUME IInv, EInv, NEW b \in cdf
      PROVE  /\ \A s \in Sessions : Times(b.bag, s) > 0 =>
                  s \in EndedOf(b.owner, b.hour)
             /\ b.n = CountIf(b.bag, LAMBDA x : TRUE)
             /\ \A h \in Horizons :
                  b.within[h] = CountIf(b.bag, LAMBDA x : x <= h)
  <2>1. Empirical(b) /\ b.bag \in Bags
    BY <1>3 DEF EInv, IInv, Shape, RowsOK, RowOK
  <2>2. \A x \in Samples(b.bag) : sess[x[1][1]] # None
    BY <2>1, SampleFacts DEF Empirical, EndedOf, Ended
  <2>3. CountIf(b.bag, LAMBDA x : TRUE) = Cardinality(Samples(b.bag))
    <3>1. {x \in Samples(b.bag) : sess[x[1][1]] # None /\ TRUE}
            = Samples(b.bag)
      BY <2>2
    <3> QED
      BY <3>1 DEF CountIf
  <2>4. ASSUME NEW h \in Horizons
        PROVE  CountIf(b.bag, LAMBDA x : x <= h) = Cardinality(Lasted(b.bag, h))
    <3>1. {x \in Samples(b.bag) : sess[x[1][1]] # None /\ Value(x[1]) <= h}
            = Lasted(b.bag, h)
      BY <2>2 DEF Lasted
    <3> QED
      BY <3>1 DEF CountIf
  <2> QED
    BY <2>1, <2>3, <2>4 DEF Empirical
<1>4. IInv /\ EInv => CurvesAreEmpirical
  BY <1>3 DEF CurvesAreEmpirical
<1> QED
  BY <1>1, <1>2, <1>4, Invariance, PTL DEF Spec

\* StatsAreExact: the count, mean and (while nothing is imported) spread of a
\* stored statistic, kept up one session at a time, are those of its sessions.
THEOREM StatisticsAreExact == Spec => []StatsAreExact
<1>1. Init => IInv /\ XInv
  BY InitOK DEF Init, XInv
<1>2. IInv /\ XInv /\ [Next]_vars => (IInv /\ XInv)'
  BY StepOK, ExactSteps
<1>3. IInv /\ XInv => StatsAreExact
  <2> SUFFICES ASSUME IInv, XInv, NEW w \in stats
               PROVE  /\ \A s \in Sessions : Times(w.bag, s) > 0 => sess[s] # None
                      /\ w.n = SumOver(w.bag, Ones)
                      /\ IsRatio(w.mean, SumOver(w.bag, Lengths), w.n)
                      /\ pc[Importer] = "idle" =>
                           IsRatio(w.spread, SumOver(w.bag, Squares(w.mean)),
                                   w.n * (w.mean.den * w.mean.den))
    BY DEF StatsAreExact
  <2>1. TypesOK /\ RowOK(w) /\ Exact(w)
    BY DEF IInv, Shape, RowsOK, XInv
  <2>2. Grounded(w.bag) /\ w.n \in Nat \ {0}
    BY <2>1, RowsAreGrounded DEF RowOK
  <2> QED
    BY <2>1, <2>2, ExactIsExact DEF Exact, Grounded
<1> QED
  BY <1>1, <1>2, <1>3, PTL DEF Spec

(* While updates do not overlap, what is read counts every session of an     *)
(* update that was carried out exactly once, whether a rebuild or an online  *)
(* step counted it, and whichever updates before or after it failed.         *)
THEOREM SamplesAreCountedOnce == Spec => []EachSampleOnce
<1>1. ASSUME IInv PROVE EachSampleOnce
  <2>1. ASSUME plain, NEW owner \in Owners, NEW hour \in Hours,
               NEW w \in LatestStats(owner, hour) \cup LatestBatches(owner, hour)
        PROVE  /\ \A s \in Sessions : Times(w.bag, s) <= 1
               /\ \A s \in EndedOf(owner, hour) :
                    pc[s] = "done" =>
                       \/ Counts(w, s)
                       \/ owner = Generic /\ ~IsBatch(w) /\ ~Within(Plugged[s])
    <3>1. /\ w \in Committed /\ IsRead(w)
          /\ w.owner = owner /\ w.hour = hour
      BY <1>1, <2>1, ReadRows DEF IInv, Committed
    <3>2. CountsOnce(w) /\ AccountsForAll(w)
      BY <1>1, <2>1, <3>1 DEF IInv, Calm
    <3>3. \A s \in EndedOf(owner, hour) : Plugged[s] = sess[s].plugged
      BY DEF EndedOf, Plugged
    <3> QED
      BY <3>1, <3>2, <3>3 DEF CountsOnce, AccountsForAll, Accounts
  <2> QED
    BY <2>1 DEF EachSampleOnce
<1> QED
  BY <1>1, Invariance, PTL

(* While updates do not overlap, no two batches of a distribution count      *)
(* equally many sessions ...                                                 *)
OneBatchPerVersion ==
    \A b, c \in cdf :
        b.owner = c.owner /\ b.hour = c.hour /\ b.n = c.n => b = c

LEMMA VersionsDiffer == ASSUME IInv, plain PROVE OneBatchPerVersion
<1>1. ASSUME NEW b \in cdf, NEW c \in cdf,
             b.owner = c.owner, b.hour = c.hour, b.n = c.n
      PROVE  b = c
  <2>1. /\ Same(b, c) /\ Same(c, b) /\ b \in Committed /\ c \in Committed
        /\ b.at \in Nat /\ c.at \in Nat /\ b.n \in Nat /\ c.n \in Nat
    BY <1>1 DEF IInv, Shape, RowsOK, RowOK, Same, Committed
  <2>2. Ordered
    BY DEF IInv, Calm
  <2>3. b.at <= c.at /\ c.at <= b.at
    BY <1>1, <2>1, <2>2 DEF Ordered
  <2>4. b.at = c.at
    BY <2>1, <2>3
  <2> QED
    BY <2>1, <2>2, <2>4 DEF Ordered
<1> QED
  BY <1>1 DEF OneBatchPerVersion

(* ... and so one update at most continues a batch: no sample is lost to     *)
(* another. (Overlapping updates break it, whatever _online_update_cdf locks.) *)
THEOREM BatchesAreContinuedOnce == Spec => [](plain => ContinuedOnce)
<1>1. ASSUME IInv, plain PROVE ContinuedOnce
  BY <1>1, VersionsDiffer DEF OneBatchPerVersion, ContinuedOnce, ContinuationOf
<1>2. IInv => (plain => ContinuedOnce)
  BY <1>1
<1> QED
  BY <1>2, Invariance, PTL

(* While updates do not overlap, no step, not even one that fails, makes the *)
(* statistic that is read count fewer sessions.                              *)
THEOREM StatisticsGrow == Spec => NoRegress
<1> DEFINE Grows ==
      plain' => \A owner \in Owners, hour \in LocalHours :
         \A w \in LatestStats(owner, hour) :
            \A v \in LatestStats(owner, hour)' : w.n <= v.n
<1>1. ASSUME IInv, [Next]_vars PROVE [Grows]_vars
  <2>1. ASSUME plain', NEW owner \in Owners, NEW hour \in LocalHours,
               NEW w \in LatestStats(owner, hour),
               NEW v \in LatestStats(owner, hour)', ~UNCHANGED vars
        PROVE  w.n <= v.n
    <3>1. Shape /\ plain /\ Calm
      <4>1. plain' => plain
        BY <1>1, <2>1 DEF Next, Close, Update, Begin, LookStats, RebuildStats,
              LookCdf, RebuildCdf, TakeLock, OnlineCdf, Import,
              ImportSessions, ImportCharger, ImportFleet, Commit, Abort, Crash,
              Quiet
      <4> QED
        BY <1>1, <2>1, <4>1 DEF IInv
    <3>2. /\ w \in stats /\ w.owner = owner /\ w.hour = hour /\ w.n \in Nat
          /\ IsRead(w) /\ ~IsBatch(w)
      BY <3>1, ReadRows DEF RowOK
    <3>3. CASE stats' = stats
      <4>1. v \in LatestStats(owner, hour)
        BY <2>1, <3>3 DEF LatestStats
      <4>2. v = w
        BY <2>1, <3>1, <4>1, OneIsRead
      <4> QED
        BY <3>2, <4>2
    <3>4. CASE \E p \in Processes : Commit(p)
      <4>1. PICK p \in Processes : Commit(p)
        BY <3>4
      <4>2. /\ pc[p] = "commit"
            /\ \A u : u \in stats' <=> u \in stats \/ (u \in new[p] /\ ~IsBatch(u))
        BY <4>1 DEF Commit
      <4>3. /\ v \in stats' /\ v.owner = owner /\ v.hour = hour
            /\ \A u \in stats' :
                 u.owner = owner /\ u.hour = hour => u.at <= v.at
        BY <2>1 DEF LatestStats, Newest
      <4>4. CASE v \in stats
        <5>1. v \in LatestStats(owner, hour)
          BY <4>2, <4>3, <4>4 DEF LatestStats, Newest
        <5>2. v = w
          BY <2>1, <3>1, <5>1, OneIsRead
        <5> QED
          BY <3>2, <5>2
      <4>5. CASE v \in new[p] /\ ~IsBatch(v)
        <5>1. WorkOK(p) /\ RowOK(v)
          BY <3>1, <4>2, <4>5 DEF Calm, InFlight, Working, Shape, RowsOK
        <5>2. NewOK(p, v) /\ Same(w, v) /\ w \in Committed
          BY <3>2, <4>3, <4>5, <5>1 DEF WorkOK, Same, Committed
        <5>3. w.n < v.n /\ v.n \in Nat
          BY <3>2, <5>1, <5>2 DEF NewOK, RowOK
        <5> QED
          BY <3>2, <5>3
      <4> QED
        BY <4>2, <4>3, <4>4, <4>5
    <3> QED
      BY <1>1, <2>1, <3>3, <3>4
         DEF Next, Close, Update, Begin, LookStats, RebuildStats, LookCdf,
             RebuildCdf, TakeLock, OnlineCdf, Import, ImportSessions,
             ImportCharger, ImportFleet, Abort, Crash, Quiet
  <2> QED
    BY <2>1
<1> QED
  BY <1>1, Invariance, PTL DEF Spec, NoRegress

(* While updates do not overlap, the decision reads a distribution: one      *)
(* value at each time, a probability that never decreases with the time      *)
(* connected, between the horizons and beyond them.                          *)
THEOREM LookupsAreCurves == Spec => []LookupsAreDistribution
<1>1. ASSUME IInv, plain, NEW c \in Chargers, NEW t \in Instants
      PROVE  /\ Cardinality(Lookups(CurveFor(c), t)) = 1
             /\ Lookups(CurveFor(c), t) \subseteq 0 .. Scale
             /\ \A x \in Lookups(CurveFor(c), t),
                   y \in Lookups(CurveFor(c), t + 1) : x <= y
  <2>1. t \in Nat /\ t + 1 \in Nat
    BY EndHorizons DEF Instants
  <2>2. CASE CurveFor(c) = {}
    <3>1. /\ Lookups(CurveFor(c), t) = {Scale \div 2}
          /\ Lookups(CurveFor(c), t + 1) = {Scale \div 2}
      BY <2>2 DEF Lookups
    <3>2. Scale \div 2 \in 0 .. Scale /\ Scale \div 2 \in Int
      BY DEF Scale
    <3>3. PICK v \in 0 .. Scale : v = Scale \div 2 /\ v \in Int
      BY <3>2
    <3>4. /\ Lookups(CurveFor(c), t) = {v}
          /\ Lookups(CurveFor(c), t + 1) = {v}
      BY <3>1, <3>3
    <3>5. v <= v
      BY <3>3
    <3>6. Cardinality({v}) = 1
      BY FS_Singleton, Zenon
    <3> QED
      BY <3>3, <3>4, <3>5, <3>6
  <2>3. CASE CurveFor(c) # {}
    <3>1. PICK owner : CurveFor(c) = LatestBatches(owner, AllHours)
      BY DEF CurveFor
    <3>2. PICK b : b \in CurveFor(c)
      BY <2>3
    <3>3. CurveFor(c) = {b}
      BY <1>1, <3>1, <3>2, OneIsRead DEF IInv
    <3>4. Distribution(b) /\ b.at \in Nat
      BY <1>1, <3>1, <3>2, ReadRows DEF IInv, RowOK
    <3>5. /\ Lookups(CurveFor(c), t) = {Curve(b, t)}
          /\ Lookups(CurveFor(c), t + 1) = {Curve(b, t + 1)}
      BY <3>3, <3>4, LookupOfOne
    <3>6. Curve(b, t) \in 0 .. Scale /\ Curve(b, t) <= Curve(b, t + 1)
      BY <2>1, <3>4, CurveIs
    <3>7. Cardinality({Curve(b, t)}) = 1
      BY FS_Singleton, Zenon
    <3> QED
      BY <3>5, <3>6, <3>7
  <2> QED
    BY <2>2, <2>3
<1>2. IInv => LookupsAreDistribution
  BY <1>1 DEF LookupsAreDistribution
<1> QED
  BY <1>2, Invariance, PTL

==============================================================================
