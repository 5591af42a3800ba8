------------------------------ MODULE StatsData ------------------------------
(***************************************************************************)
(* The two statistics that are learned from completed charging sessions and *)
(* the arithmetic on them: ev_forecast_stats (count, mean and spread per    *)
(* charger and local hour) and ev_duration_cdf (the share of sessions that  *)
(* lasted at most so long, at each of a list of horizons).                  *)
(*                                                                          *)
(* Rows carry, besides the columns of the code, a `bag`: how often each     *)
(* completed session has been counted in. Nothing reads it but properties.  *)
(***************************************************************************)
EXTENDS Integers, FiniteSets, FiniteSetsExt, Fractions

CONSTANTS
    Sessions,    \* charging sessions that end, or are imported
    Chargers,    \* the chargers they belong to
    Generic,     \* the charger id under which the whole fleet is kept
    LocalHours,  \* the pilot-local hours at which sessions start
    Durations,   \* hours a session lasts
    Horizons,    \* the horizons of the distribution, 1 .. the last one
    None         \* no row, nobody

ASSUME SessionsAreFinite == IsFiniteSet(Sessions)
ASSUME GenericIsNoCharger == Generic \notin Chargers
ASSUME HoursAreNat == LocalHours \subseteq Nat
ASSUME DurationsAreNat == Durations \subseteq Nat
ASSUME HorizonsAreNat == Horizons \subseteq Nat
ASSUME HorizonsAreSome == Horizons # {} /\ IsFiniteSet(Horizons)

AllHours == -1
Owners == Chargers \cup {Generic}
Hours == LocalHours \cup {AllHours}

\* `plugged` is the session's duration, `charged` the part up to the end of
\* the charge; `end` orders sessions by end_time.
Completed ==
    {s \in [charger : Chargers, hour : LocalHours, plugged : Durations,
            charged : Durations, end : Nat] : s.charged <= s.plugged}

\* A session without its place in that order.
AllKinds ==
    {k \in [charger : Chargers, hour : LocalHours, plugged : Durations,
            charged : Durations] : k.charged <= k.plugged}

\* The two ways in which the code measures how long a session lasted.
Measures == {"plugged", "charged"}
Bags == [Sessions \X Measures -> Nat]
NoSamples == [sm \in Sessions \X Measures |-> 0]

With(bag, s, m) == [bag EXCEPT ![<<s, m>>] = @ + 1]
BagOf(S, m) ==
    [sm \in Sessions \X Measures |-> IF sm[1] \in S /\ sm[2] = m THEN 1 ELSE 0]
Times(bag, s) == bag[<<s, "plugged">>] + bag[<<s, "charged">>]

------------------------------------------------------------------------------
(* ev_forecast_stats. Means and spreads (the squared deviation) are         *)
(* fractions.                                                               *)

\* Mutant of UpdateOnline: the variance is updated with the old mean twice.
UpdateOnlineOldMean(mean, var, n, x) ==
    LET delta == Minus(Whole(x), mean)
        m     == Plus(mean, Over(delta, n + 1))
    IN  [mean |-> m, var |-> Plus(var, Mult(delta, delta)), n |-> n + 1]

\* _update_online_stats, Welford's step: `var` is the sum of the squares.
UpdateOnline(mean, var, n, x) ==
    LET delta  == Minus(Whole(x), mean)
        m      == Plus(mean, Over(delta, n + 1))
        delta2 == Minus(Whole(x), m)
    IN  [mean |-> m, var |-> Plus(var, Mult(delta, delta2)), n |-> n + 1]

\* In what follows f[s] is how long session s lasted.
MeanOf(S, f) == Lowest(MapThenSumSet(LAMBDA s : f[s], S), Cardinality(S))
SquaresOf(S, f) ==
    LET mean == MeanOf(S, f)
        dev  == [s \in S |-> (f[s] * mean.den - mean.num) * (f[s] * mean.den - mean.num)]
    IN  Lowest(MapThenSumSet(LAMBDA s : dev[s], S), mean.den * mean.den)

StatRow(owner, hour, n, mean, spread, bag, at) ==
    [owner |-> owner, hour |-> hour, n |-> n, mean |-> mean,
     spread |-> spread, bag |-> bag, at |-> at]

\* _initialize_new_stat divides by n (numpy, ddof=0).
StatFrom(owner, hour, S, f, m, at) ==
    StatRow(owner, hour, Cardinality(S), MeanOf(S, f),
            Over(SquaresOf(S, f), Cardinality(S)), BagOf(S, m), at)

\* The import divides by n - 1 (statistics.stdev).
ImportedStat(owner, hour, S, f, at) ==
    LET n == Cardinality(S)
    IN  StatRow(owner, hour, n, MeanOf(S, f),
                IF n >= 2 THEN Over(SquaresOf(S, f), n - 1) ELSE Whole(0),
                BagOf(S, "plugged"), at)

\* Mutant of NextStat: the stored row is not continued.
NextStatAnew(row, s, x, at) ==
    StatRow(row.owner, row.hour, 1, Whole(x), Whole(0),
            With(NoSamples, s, "plugged"), at)

\* The row that follows `row` after session s of duration x. The squares are
\* recovered from the stored deviation.
NextStat(row, s, x, at) ==
    LET u == UpdateOnline(row.mean, Mult(row.spread, Whole(row.n)), row.n, x)
    IN  StatRow(row.owner, row.hour, u.n, u.mean, Over(u.var, u.n),
                With(row.bag, s, "plugged"), at)

------------------------------------------------------------------------------
(* ev_duration_cdf. A batch is the rows of one charger and hour written      *)
(* together: probability(h) = within[h] / n.                                 *)

Batch(owner, hour, n, within, bag, at) ==
    [owner |-> owner, hour |-> hour, n |-> n, within |-> within,
     bag |-> bag, at |-> at]

\* _compute_cdf_from_durations
BatchFrom(owner, hour, S, f, at) ==
    Batch(owner, hour, Cardinality(S),
          [h \in Horizons |-> Cardinality({s \in S : f[s] <= h})],
          BagOf(S, "plugged"), at)

\* Mutant of NextBatch: a session that ends exactly at a horizon is left out.
NextBatchStrict(b, s, x, at) ==
    Batch(b.owner, b.hour, b.n + 1,
          [h \in Horizons |-> b.within[h] + IF x < h THEN 1 ELSE 0],
          With(b.bag, s, "plugged"), at)

\* One row of _online_update_cdf for each row of the batch it continues:
\* (probability * n + indicator) / (n + 1).
NextBatch(b, s, x, at) ==
    Batch(b.owner, b.hour, b.n + 1,
          [h \in Horizons |-> b.within[h] + IF x <= h THEN 1 ELSE 0],
          With(b.bag, s, "plugged"), at)

Scale == 60

\* get_cumulative_duration_probability, in units of 1/Scale. Its rows are
\* those with the highest sample count, newest transaction first, then by
\* horizon: with several batches there, the values at two horizons may come
\* from different batches, and the last value comes from the oldest one.
Probability(b, h) == (Scale * b.within[h]) \div b.n

Newest(B) == {b \in B : \A c \in B : c.at <= b.at}
Oldest(B) == {b \in B : \A c \in B : c.at >= b.at}
Versions(B) == {b \in B : \A c \in B : c.n <= b.n}

\* Mutant of Between: the two ends of a segment are swapped.
BetweenSwapped(p0, p1, h0, h1, t) == p1 + ((p0 - p1) * (t - h0)) \div (h1 - h0)

Between(p0, p1, h0, h1, t) == p0 + ((p1 - p0) * (t - h0)) \div (h1 - h0)

\* All values the lookup may return at time t for the latest batches B; 0.5
\* when there are none.
Lookups(B, t) ==
    LET first == Min(Horizons)
        last  == Max(Horizons)
        below == Max({h \in Horizons : h < t})
        above == Min({h \in Horizons : h >= t})
    IN  IF B = {} THEN {Scale \div 2}
        ELSE IF t <= first THEN {Probability(b, first) : b \in Newest(B)}
        ELSE IF t >= last THEN {Probability(b, last) : b \in Oldest(B)}
        ELSE {Between(Probability(b, below), Probability(c, above),
                      below, above, t) : b, c \in Newest(B)}
==============================================================================
