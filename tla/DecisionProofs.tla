--------------------------- MODULE DecisionProofs ---------------------------
(***************************************************************************)
(* Proofs about one decision, whatever the services answer, whichever part  *)
(* fails, and for any readings, assignments and horizon: what is stored and *)
(* answered is feasible, names the policy that decided, and rests on the    *)
(* data that this policy reads.                                             *)
(***************************************************************************)
EXTENDS Decision, FoldProofs

------------------------------------------------------------------------------
(* The invariant: what each part of the handler may rely on.                *)

\* The assigned policy is at work, or nothing has begun.
Primary == {"begin", "policy", "load", "grid", "observe", "compute"}

\* An error is noted exactly when the primary path was left by its `except`.
ErrorOK ==
    /\ pc \in Primary => ~error
    /\ pc = "fallback" => error
    /\ pc = "raised" => aborted

\* Nothing is stored or answered before the end.
OutputsOK ==
    /\ row # None => pc = "done"
    /\ answer # None => pc = "done"

\* The site load has what the features ask of it, or its loss is noted.
LoadOK ==
    pc \in {"grid", "observe", "compute"} \/ (pc \in {"persist", "done"} /\ ~error) =>
        /\ NeedsDemand(Features) \/ NeedsNet(Features) => load.demand # None
        /\ NeedsNet(Features) /\ load.generation = None
              => "generation" \in warnings

\* What the network reads is there once there is an observation.
BankOK ==
    pc = "compute" \/ (pc \in {"persist", "done"} /\ ~error) =>
        /\ NeedsGeneration(Features) => load.generation # None
        /\ NeedsGrid(Features) => grid # None

\* The observation is what prepare_observation made of the features.
ObsOK ==
    pc = "compute" =>
        IF Features = <<>> THEN obs = <<>>
        ELSE obs = Prepare(ev, load, grid, Features) /\ obs # Failed

\* A decision can be carried out, and is that of the policy it is ascribed to.
DecisionOK ==
    pc \in {"persist", "done"} =>
        /\ decision.action = "charge" =>
              ~ev.full /\ (decision.power # None => decision.power <= ev.nominal)
        /\ ran = IF error THEN "default" ELSE Slug

\* The row and the answer say what the handler knows at its end.
RowOK ==
    pc = "done" =>
        /\ row.executed = Executed /\ row.error = error
        /\ row.warnings = warnings
        /\ answer.charge <=> decision.action = "charge"
        /\ answer.power = decision.power /\ answer.warning = error

IInv ==
    /\ TypeOK /\ ErrorOK /\ OutputsOK /\ LoadOK /\ BankOK /\ ObsOK
    /\ DecisionOK /\ RowOK /\ NetIsDemandMinusGeneration

------------------------------------------------------------------------------
(* The policies, the correction and the data they are given.                *)

LEMMA EventFields ==
    ASSUME NEW e \in Events
    PROVE  /\ e.full \in BOOLEAN /\ e.nominal \in Int /\ e.delivered \in Int
           /\ e.needed \in Int /\ e.connected \in Int /\ e.duration \in Int
  BY EventsAreReadings DEF Readings

\* Whatever a policy wants, the correction makes it feasible.
LEMMA CorrectedIsFeasible ==
    ASSUME NEW raw \in Decisions, NEW full \in BOOLEAN, NEW max \in Int
    PROVE  LET d == Corrected(raw, full, TRUE, max)
           IN  /\ d \in Decisions
               /\ d.action = "charge" =>
                     ~full /\ (d.power # None => d.power <= max)
<1>1. CASE raw.action = "charge" /\ full
  BY <1>1 DEF Corrected, NotCharge, Decision, Decisions
<1>2. CASE ~(raw.action = "charge" /\ full) /\ raw.action = "charge"
           /\ raw.power # None /\ raw.power > max
  BY <1>2 DEF Corrected, Decision, Decisions
<1>3. CASE ~(raw.action = "charge" /\ full)
           /\ ~(raw.action = "charge" /\ raw.power # None /\ raw.power > max)
  <2>1. Corrected(raw, full, TRUE, max) = raw
    BY <1>3 DEF Corrected
  <2>2. ASSUME raw.action = "charge", raw.power # None
        PROVE  raw.power <= max
    BY <1>3, <2>2 DEF Decisions
  <2> QED
    BY <1>3, <2>1, <2>2
<1> QED
  BY <1>1, <1>2, <1>3

LEMMA DefaultDecides ==
    ASSUME NEW e PROVE DefaultAction(e) \in Decisions
  BY DEF DefaultAction, NotCharge, Charge, Decision, Decisions

LEMMA WindDecides ==
    ASSUME NEW e \in Events, NEW wind
    PROVE  WindMaxAction(e, wind) \in Decisions
<1>1. e.nominal \in Int /\ e.nominal \div 2 \in Int
  BY EventFields
<1> QED
  BY <1>1 DEF WindMaxAction, NotCharge, Decision, Decisions, Half

LEMMA AnnDecides ==
    ASSUME NEW a \in Assignments, NEW o, NEW best \in 0 .. (a.outputs - 1),
           AnnAction(a, o, best) # Failed
    PROVE  AnnAction(a, o, best) \in Decisions
<1>1. /\ a.outputs \in Nat
      /\ a.levels # None => a.levels \in Seq(Int)
  BY DEF Assignments
<1>2. CASE a.levels = None
  BY <1>2 DEF AnnAction, NotCharge, Charge, Decision, Decisions
<1>3. CASE a.levels # None
  <2>1. best < Len(a.levels)
    BY <1>1, <1>3 DEF AnnAction
  <2>2. a.levels[best + 1] \in Int
    BY <1>1, <1>3, <2>1
  <2> QED
    BY <1>3, <2>1, <2>2 DEF AnnAction, NotCharge, Decision, Decisions
<1> QED
  BY <1>2, <1>3

\* fetch_site_load_for_features lets no needed demand go missing, and notes a
\* missing generation.
LEMMA LoadIsComplete ==
    ASSUME NEW names, NEW d, NEW g, SiteLoad(names, d, g) # Failed
    PROVE  LET bundle == SiteLoad(names, d, g)
           IN  /\ NeedsDemand(names) \/ NeedsNet(names) => bundle.demand # None
               /\ NeedsNet(names) /\ bundle.generation = None => bundle.warned
  BY DEF SiteLoad, NetOf, NoLoad

\* An observation is made of features that were computed.
LEMMA ObservationIsComplete ==
    ASSUME NEW e, NEW l, NEW g, NEW names, Prepare(e, l, g, names) # Failed
    PROVE  /\ NeedsGeneration(names) => l.generation # None
           /\ NeedsGrid(names) => g # None
<1>1. FeatureBank(e, l, g) # Failed
  BY DEF Prepare
<1>2. ToSet(names) \subseteq FeatureBank(e, l, g)
  BY <1>1 DEF Prepare, Assemble
<1>3. /\ "generation_forecast" \in FeatureBank(e, l, g) => l.generation # None
      /\ "grid_net_power_month" \in FeatureBank(e, l, g) => g # None
  BY <1>1 DEF FeatureBank
<1> QED
  BY <1>2, <1>3 DEF NeedsGeneration, NeedsGrid

\* A rule-based policy asks for nothing.
LEMMA NoFeaturesNoNeeds ==
    /\ ~NeedsDemand(<<>>) /\ ~NeedsNet(<<>>)
    /\ ~NeedsGeneration(<<>>) /\ ~NeedsGrid(<<>>)
  BY DEF NeedsDemand, NeedsNet, NeedsGeneration, NeedsGrid, ToSet

------------------------------------------------------------------------------
(* The net load adds the meters up.                                        *)

\* The sum that _sum_series computes is that of the meters.
LEMMA MeterSumIs ==
    ASSUME NEW meters \in Seq(Seq(Int)), NEW i,
           \A m \in DOMAIN meters : meters[m][i] \in Int
    PROVE  MeterSum(meters, i)
              = SumOf([m \in DOMAIN meters |-> meters[m][i]], DOMAIN meters)
<1> DEFINE D == DOMAIN meters
           First(s) == CHOOSE x \in s : TRUE
           f == [m \in D |-> meters[m][i]]
           c == [s \in SUBSET D |-> First(s)]
           P(g) == g = [s \in SUBSET D |->
                          IF s = {} THEN 0 ELSE meters[First(s)][i] + g[s \ {First(s)}]]
           g == CHOOSE g : P(g)
<1>1. /\ IsFiniteSet(D) /\ \A x \in D : f[x] \in Int
      /\ Chooses(c, D)
  <2>1. D = 1..Len(meters) /\ Len(meters) \in Nat
    OBVIOUS
  <2>2. Chooses(c, D)
    BY DEF Chooses
  <2> QED
    BY <2>1, <2>2, IntervalIsFinite
<1>2. MeterSum(meters, i) = g[D]
  BY DEF MeterSum, MapThenSumSet, MapThenFoldSet
<1>3. \A h : AddsUp(h, D, f, c) <=> P(h)
  <2>1. \A s \in SUBSET D : s # {} => First(s) \in D /\ f[First(s)] = meters[First(s)][i]
    OBVIOUS
  <2>2. \A s \in SUBSET D : c[s] = First(s)
    OBVIOUS
  <2> HIDE DEF First, D, f, c
  <2> QED
    BY <2>1, <2>2 DEF AddsUp
<1>4. P(g)
  <2>1. \E h : AddsUp(h, D, f, c)
    <3> HIDE DEF D, f, c
    <3> QED
      BY <1>1, SumExists
  <2> HIDE DEF P
  <2> QED
    BY <1>3, <2>1
<1>5. g[D] = SumOf(f, D)
  <2> HIDE DEF D, f, c, g, P
  <2> QED
    BY <1>1, <1>3, <1>4, SumAnyway
<1> QED
  BY <1>2, <1>5

LEMMA SumMetersIs ==
    ASSUME NEW meters, NEW n \in Nat, DOMAIN meters = 1..n, NEW i \in 1..Horizon,
           \A m \in 1..n : meters[m][i] \in Int
    PROVE  SumMeters(meters)[i] = SumOf([m \in 1..n |-> meters[m][i]], 1..n)
<1> DEFINE D == 1..n
           f == [m \in D |-> meters[m][i]]
           P(g) == g = [s \in SUBSET D |->
                          IF s = {} THEN 0 ELSE g[s \ {Max(s)}] + meters[Max(s)][i]]
           g == CHOOSE g : P(g)
<1>1. SumMeters(meters)[i] = FoldLeft(LAMBDA sum, m : sum + m[i], 0, meters)
  BY DEF SumMeters
<1>2. FoldLeft(LAMBDA sum, m : sum + m[i], 0, meters) = g[D]
  BY DEF FoldLeft, MapThenFoldSet
<1>3. \A h : AddsFromLeft(h, n, f) <=> P(h)
  <2>1. \A s \in SUBSET D : s # {} => f[Max(s)] = meters[Max(s)][i]
    BY MaxIsFirst
  <2> HIDE DEF f
  <2> QED
    BY <2>1 DEF AddsFromLeft
<1>4. \A k \in 1..n : f[k] \in Int
  OBVIOUS
<1> HIDE DEF f, P
<1>5. P(g)
  BY <1>3, <1>4, LeftSumExists
<1>6. g[D] = SumOf(f, D)
  <2> HIDE DEF g
  <2> QED
    BY <1>3, <1>4, <1>5, LeftSumIs
<1> QED
  BY <1>1, <1>2, <1>6 DEF f

\* What _call_forecaster returns is the sum of the meters of the answer.
LEMMA CallIsMeterSum ==
    ASSUME NEW a \in MeterAnswers, a # None,
           CallForecaster(a) \notin {Failed, Escaped}
    PROVE  \A i \in 1..Horizon : /\ CallForecaster(a)[i] = MeterSum(a, i)
                                 /\ MeterSum(a, i) \in Int
<1>1. a \in Seq(Seq(Int)) /\ a \notin {Failed, Escaped}
  BY DEF CallForecaster, MeterAnswers
<1> DEFINE n == Len(a)
           parsed == [m \in DOMAIN a |-> Parsed(a[m])]
<1>2. /\ n \in Nat /\ DOMAIN a = 1..n /\ DOMAIN parsed = 1..n
      /\ \A m \in 1..n : a[m] \in Seq(Int)
  BY <1>1
<1>3. /\ \A m \in 1..n : Parsed(a[m]) # Failed
      /\ CallForecaster(a) = SumMeters(parsed)
  BY <1>1, <1>2 DEF CallForecaster
<1>4. ASSUME NEW m \in 1..n, NEW i \in 1..Horizon
      PROVE  parsed[m][i] = a[m][i] /\ a[m][i] \in Int
  <2>1. Len(a[m]) >= Horizon /\ parsed[m] = SubSeq(a[m], 1, Horizon)
    BY <1>2, <1>3, HorizonIsPositive DEF Parsed
  <2>2. Horizon \in Nat /\ a[m] \in Seq(Int)
    BY <1>2, HorizonIsPositive
  <2> HIDE DEF parsed, n
  <2> QED
    BY <2>1, <2>2
<1> SUFFICES ASSUME NEW i \in 1..Horizon
             PROVE  /\ CallForecaster(a)[i] = MeterSum(a, i)
                    /\ MeterSum(a, i) \in Int
  OBVIOUS
<1> DEFINE f == [m \in 1..n |-> parsed[m][i]]
           e == [m \in DOMAIN a |-> a[m][i]]
<1>5. /\ IsFiniteSet(1..n) /\ \A m \in 1..n : f[m] \in Int
      /\ \A m \in 1..n : f[m] = e[m] /\ e[m] \in Int
  <2> HIDE DEF parsed, n
  <2> QED
    BY <1>2, <1>4, IntervalIsFinite
<1>6. SumMeters(parsed)[i] = SumOf(f, 1..n)
  <2>1. \A m \in 1..n : parsed[m][i] \in Int
    BY <1>4
  <2> HIDE DEF parsed, n
  <2> QED
    BY <1>2, <2>1, SumMetersIs
<1>7. MeterSum(a, i) = SumOf(e, 1..n)
  <2>1. \A m \in DOMAIN a : a[m][i] \in Int
    BY <1>2, <1>4
  <2> QED
    BY <1>1, <1>2, <2>1, MeterSumIs
<1>8. SumOf(f, 1..n) = SumOf(e, 1..n) /\ SumOf(e, 1..n) \in Int
  <2> HIDE DEF f, e, n
  <2> QED
    BY <1>5, SumOfSame, SumRules
<1> QED
  BY <1>3, <1>6, <1>7, <1>8

LEMMA NetIsDifference ==
    ASSUME NEW names, NEW d \in MeterAnswers, NEW g \in MeterAnswers,
           SiteLoad(names, d, g) # Failed, SiteLoad(names, d, g) # NoLoad,
           SiteLoad(names, d, g).net # None, NEW i \in 1..Horizon
    PROVE  LET bundle == SiteLoad(names, d, g)
           IN  bundle.net[i] = MeterSum(d, i)
                  - (IF bundle.generation = None THEN 0 ELSE MeterSum(g, i))
<1> DEFINE demand == CallForecaster(d)
           generation == IF g # None THEN CallForecaster(g) ELSE None
<1>1. /\ NeedsNet(names)
      /\ SiteLoad(names, d, g) = NetOf(demand, generation, names)
      /\ d # None /\ demand \notin {Failed, Escaped}
      /\ generation # Escaped
  <2> HIDE DEF demand
  <2>1. NeedsNet(names)
    BY DEF SiteLoad, NetOf, NoLoad
  <2>2. d # None
    BY <2>1 DEF SiteLoad
  <2> QED
    BY <2>1, <2>2 DEF SiteLoad, demand
<1>2. demand[i] = MeterSum(d, i) /\ MeterSum(d, i) \in Int
  BY <1>1, CallIsMeterSum
<1>3. CASE generation \in {None, Failed}
  BY <1>1, <1>2, <1>3 DEF NetOf
<1>4. CASE generation \notin {None, Failed}
  <2>1. g # None /\ generation = CallForecaster(g)
    BY <1>4
  <2>2. generation[i] = MeterSum(g, i)
    BY <1>1, <1>4, <2>1, CallIsMeterSum
  <2> HIDE DEF demand, generation
  <2> QED
    BY <1>1, <1>2, <1>4, <2>2 DEF NetOf
<1> QED
  BY <1>3, <1>4

------------------------------------------------------------------------------
(* The ranks and the quantiles of a series.                                 *)

\* A quantile of a series rests on entries of it, in their order.
LEMMA RankedIs ==
    ASSUME NEW s \in Seq(Int)
    PROVE  /\ \A k \in 1..Len(s) : Ranked(s, k) \in Int /\ Ranked(s, k) \in ToSet(s)
           /\ \A j, k \in 1..Len(s) : j <= k => Ranked(s, j) <= Ranked(s, k)
<1> DEFINE n == Len(s)
           D == 1..n
           V == ToSet(s)
           Below(v) == {i \in D : s[i] < v}
           UpTo(v) == {i \in D : s[i] <= v}
<1>1. n \in Nat /\ DOMAIN s = D /\ \A i \in D : s[i] \in Int
  OBVIOUS
<1>2. IsFiniteSet(D) /\ Cardinality(D) = n
  <2> HIDE DEF n
  <2> QED
    BY <1>1, FS_Interval
<1>3. /\ \A v : v \in V <=> \E i \in D : v = s[i]
      /\ V \subseteq Int /\ IsFiniteSet(V)
  <2>1. V = {s[i] : i \in D}
    BY <1>1 DEF ToSet
  <2>2. [i \in D |-> s[i]] \in Surjection(D, V)
    <3> HIDE DEF D, V
    <3> QED
      BY <2>1 DEF Surjection
  <2>3. IsFiniteSet(V)
    <3> HIDE DEF D, V
    <3> QED
      BY <1>2, <2>2, FS_Surjection
  <2> HIDE DEF D, V
  <2> QED
    BY <1>1, <2>1, <2>3
<1>4. ASSUME NEW v \in Int
      PROVE  /\ IsFiniteSet(UpTo(v)) /\ Cardinality(UpTo(v)) \in Nat
             /\ IsFiniteSet(Below(v)) /\ Cardinality(Below(v)) \in Nat
  <2>1. UpTo(v) \subseteq D /\ Below(v) \subseteq D
    OBVIOUS
  <2> HIDE DEF UpTo, Below, D
  <2> QED
    BY <1>2, <2>1, FS_Subset, FS_CardinalityType
<1>5. ASSUME NEW k \in D
      PROVE  /\ Ranked(s, k) \in V
             /\ Cardinality(Below(Ranked(s, k))) < k
             /\ Cardinality(UpTo(Ranked(s, k))) >= k
  <2> DEFINE T == {v \in V : Cardinality(UpTo(v)) >= k}
  <2>1. T # {}
    <3>1. V # {}
      BY <1>3
    <3>2. PICK m \in V : \A v \in V : m >= v
      <4> HIDE DEF V
      <4> QED
        BY <1>3, <3>1, GreatestExists
    <3>3. UpTo(m) = D
      BY <1>1, <1>3, <3>2
    <3> HIDE DEF UpTo, V
    <3> QED
      BY <1>1, <1>2, <3>3
  <2>2. T \subseteq Int /\ IsFiniteSet(T)
    <3>1. T \subseteq V
      OBVIOUS
    <3> HIDE DEF T, V
    <3> QED
      BY <1>3, <3>1, FS_Subset
  <2>3. PICK v \in T : \A u \in T : v <= u
    <3> HIDE DEF T
    <3> QED
      BY <2>1, <2>2, FiniteLeast
  <2>4. v \in V /\ v \in Int /\ Cardinality(UpTo(v)) >= k
    BY <1>3, <2>3
  <2>5. Cardinality(Below(v)) < k
    <3>1. SUFFICES ASSUME ~(Cardinality(Below(v)) < k) PROVE FALSE
      OBVIOUS
    <3> DEFINE W == {u \in V : u < v}
    <3>2. /\ Cardinality(Below(v)) >= k /\ k \in Nat \ {0}
          /\ Cardinality(Below(v)) \in Nat
      <4>1. k \in Nat \ {0}
        BY <1>1
      <4>2. Cardinality(Below(v)) \in Nat
        BY <1>4, <2>4
      <4> HIDE DEF Below
      <4> QED
        BY <3>1, <4>1, <4>2
    <3>3. Below(v) # {}
      <4>1. ASSUME Below(v) = {} PROVE Cardinality(Below(v)) = 0
        BY <4>1, FS_EmptySet, Zenon
      <4> HIDE DEF Below
      <4> QED
        BY <3>2, <4>1
    <3>4. W # {} /\ W \subseteq V
      BY <1>1, <1>3, <3>3
    <3>5. IsFiniteSet(W) /\ W \subseteq Int
      <4> HIDE DEF W, V
      <4> QED
        BY <1>3, <3>4, FS_Subset
    <3>6. PICK u \in W : \A x \in W : u >= x
      <4> HIDE DEF W
      <4> QED
        BY <3>4, <3>5, GreatestExists
    <3>7. u \in V /\ u < v /\ u \in Int
      BY <3>5, <3>6
    <3>8. UpTo(u) = Below(v)
      <4>1. ASSUME NEW i \in D PROVE s[i] <= u <=> s[i] < v
        <5>1. s[i] \in V /\ s[i] \in Int
          BY <1>1, <1>3
        <5>2. s[i] < v => s[i] \in W
          BY <5>1
        <5> HIDE DEF W
        <5> QED
          BY <2>4, <3>6, <3>7, <5>1, <5>2
      <4> QED
        BY <4>1
    <3>9. u \in T
      BY <3>2, <3>7, <3>8
    <3> HIDE DEF T, W, V
    <3> QED
      BY <2>3, <2>4, <3>7, <3>9
  <2>6. Ranked(s, k) = CHOOSE w \in V : /\ Cardinality(Below(w)) < k
                                        /\ Cardinality(UpTo(w)) >= k
    BY <1>1 DEF Ranked
  <2> HIDE DEF V, Below, UpTo
  <2> QED
    BY <2>4, <2>5, <2>6
<1>6. ASSUME NEW j \in D, NEW k \in D, j <= k PROVE Ranked(s, j) <= Ranked(s, k)
  <2> DEFINE v == Ranked(s, j)
             w == Ranked(s, k)
  <2>1. /\ v \in Int /\ w \in Int /\ Cardinality(Below(v)) < j
        /\ Cardinality(UpTo(w)) >= k
    <3> HIDE DEF Below, UpTo, V
    <3> QED
      BY <1>3, <1>5
  <2> HIDE DEF v, w
  <2>2. ASSUME w < v PROVE FALSE
    <3>1. UpTo(w) \subseteq Below(v)
      BY <1>1, <2>1, <2>2
    <3>2. /\ IsFiniteSet(Below(v)) /\ Cardinality(Below(v)) \in Nat
          /\ Cardinality(UpTo(w)) \in Nat
      BY <1>4, <2>1
    <3> HIDE DEF Below, UpTo
    <3>3. Cardinality(UpTo(w)) <= Cardinality(Below(v))
      BY <3>1, <3>2, FS_Subset
    <3>4. j \in Int /\ k \in Int
      OBVIOUS
    <3> QED
      BY <1>6, <2>1, <3>2, <3>3, <3>4
  <2>3. v <= w
    BY <2>1, <2>2
  <2> QED
    BY <2>3 DEF v, w
<1> HIDE DEF V
<1> QED
  BY <1>3, <1>5, <1>6 DEF V

\* Between two closest ranks a quantile lies between their entries.
LEMMA BetweenRanks ==
    ASSUME NEW a \in Int, NEW b \in Int, a <= b, NEW r \in 0..9, NEW q \in 0..9, r <= q
    PROVE  /\ 10 * a <= 10 * a + r * (b - a)
           /\ 10 * a + r * (b - a) <= 10 * a + q * (b - a)
           /\ 10 * a + q * (b - a) <= 10 * b
<1> DEFINE d == b - a
<1>1. d \in Nat /\ b = a + d
  OBVIOUS
<1> HIDE DEF d
<1>2. \A k \in 0..9 : k * d \in Int /\ 0 <= k * d /\ k * d <= 10 * d
  BY <1>1
<1>3. r * d <= q * d
  <2>1. q - r \in 0..9 /\ q * d = r * d + (q - r) * d
    BY <1>1
  <2> QED
    BY <1>2, <2>1
<1> QED
  BY <1>1, <1>2, <1>3 DEF d

LEMMA QuantileIs ==
    ASSUME NEW s \in Seq(Int), s # <<>>, NEW q \in {4, 7}
    PROVE  LET h == (Len(s) - 1) * q
               i == h \div 10
               r == h % 10
           IN  /\ i \in 0..(Len(s) - 1) /\ r \in 0..9 /\ h = 10 * i + r
               /\ r # 0 => i + 2 \in 1..Len(s)
               /\ i + 1 \in 1..Len(s)
               /\ r = 0 => Quantile(s, q) = 10 * Ranked(s, i + 1)
               /\ r # 0 => Quantile(s, q) = 10 * Ranked(s, i + 1)
                              + r * (Ranked(s, i + 2) - Ranked(s, i + 1))
<1> DEFINE n == Len(s)
           h == (n - 1) * q
           i == h \div 10
           r == h % 10
<1>1. n \in Nat \ {0}
  OBVIOUS
<1>2. h \in Nat /\ h <= 7 * (n - 1)
  <2> HIDE DEF n
  <2> QED
    BY <1>1
<1>3. h = 10 * i + r /\ r \in 0..9 /\ i \in Int
  <2> HIDE DEF h
  <2> QED
    BY <1>2
<1>4. /\ Quantile(s, q) = IF r = 0 THEN 10 * Ranked(s, i + 1)
                          ELSE 10 * Ranked(s, i + 1)
                               + r * (Ranked(s, i + 2) - Ranked(s, i + 1))
  BY DEF Quantile
<1> HIDE DEF n, h, i, r
<1>5. i \in 0..(n-1) /\ i + 1 \in 1..n /\ (r # 0 => i + 2 \in 1..n)
  BY <1>1, <1>2, <1>3
<1> QED
  BY <1>3, <1>4, <1>5 DEF n, h, i, r

\* The quantiles of a series are ordered, and below its maximum.
LEMMA QuantilesAreOrdered ==
    ASSUME NEW s \in Seq(Int), s # <<>>
    PROVE  /\ GridStats(s).q40 <= GridStats(s).q70
           /\ GridStats(s).q70 <= GridStats(s).max
<1> DEFINE n == Len(s)
           v(k) == Ranked(s, k)
           h == (n - 1) * 4
           g == (n - 1) * 7
           i == h \div 10
           j == g \div 10
           r == h % 10
           q == g % 10
           m == Max(ToSet(s))
<1>1. /\ \A k \in 1..n : v(k) \in Int /\ v(k) \in ToSet(s)
      /\ \A k, l \in 1..n : k <= l => v(k) <= v(l)
  BY RankedIs
<1>2. /\ i \in 0..(n - 1) /\ r \in 0..9 /\ h = 10 * i + r
      /\ i + 1 \in 1..n /\ (r # 0 => i + 2 \in 1..n)
      /\ r = 0 => Quantile(s, 4) = 10 * v(i + 1)
      /\ r # 0 => Quantile(s, 4) = 10 * v(i + 1) + r * (v(i + 2) - v(i + 1))
  BY QuantileIs
<1>3. /\ j \in 0..(n - 1) /\ q \in 0..9 /\ g = 10 * j + q
      /\ j + 1 \in 1..n /\ (q # 0 => j + 2 \in 1..n)
      /\ q = 0 => Quantile(s, 7) = 10 * v(j + 1)
      /\ q # 0 => Quantile(s, 7) = 10 * v(j + 1) + q * (v(j + 2) - v(j + 1))
  BY QuantileIs
<1>4. GridStats(s) = [max |-> 10 * m, q40 |-> Quantile(s, 4), q70 |-> Quantile(s, 7)]
  BY DEF GridStats
<1>5. n \in Nat \ {0} /\ h <= g
  OBVIOUS
<1>6. m \in Int /\ \A k \in 1..n : v(k) <= m
  <2>1. ToSet(s) = {s[k] : k \in 1..n} /\ ToSet(s) \subseteq Int
    BY DEF ToSet
  <2>2. ToSet(s) # {} /\ IsFiniteSet(ToSet(s))
    <3>1. [k \in 1..n |-> s[k]] \in Surjection(1..n, ToSet(s))
      <4> DEFINE V == ToSet(s)
      <4> HIDE DEF V
      <4>1. V = {s[k] : k \in 1..n}
        BY <2>1 DEF V
      <4>2. [k \in 1..n |-> s[k]] \in Surjection(1..n, V)
        BY <4>1 DEF Surjection
      <4> QED
        BY <4>2 DEF V
    <3>2. IsFiniteSet(1..n)
      BY <1>5, IntervalIsFinite
    <3>3. v(1) \in ToSet(s)
      BY <1>1, <1>5
    <3> QED
      BY <3>1, <3>2, <3>3, FS_Surjection
  <2>3. \E x \in ToSet(s) : \A y \in ToSet(s) : x >= y
    BY <2>1, <2>2, GreatestExists
  <2>4. m \in ToSet(s) /\ \A y \in ToSet(s) : m >= y
    BY <2>3 DEF Max
  <2> QED
    BY <1>1, <2>1, <2>4
<1> HIDE DEF v, m, h, g, i, j, r, q
<1>7. i <= j /\ (i = j => r <= q)
  BY <1>2, <1>3, <1>5
<1> HIDE DEF n
\* Each quantile lies between entries.
<1>8. /\ Quantile(s, 4) \in Int /\ 10 * v(i + 1) <= Quantile(s, 4)
      /\ r # 0 => Quantile(s, 4) <= 10 * v(i + 2)
  <2>1. CASE r = 0
    <3> DEFINE lo == v(i + 1)
    <3>1. lo \in Int /\ Quantile(s, 4) = 10 * lo
      BY <1>1, <1>2, <2>1
    <3> HIDE DEF lo
    <3>2. Quantile(s, 4) \in Int /\ 10 * lo <= Quantile(s, 4)
      BY <3>1
    <3> QED
      BY <1>1, <2>1, <3>2 DEF lo
  <2>2. CASE r # 0
    <3> DEFINE lo == v(i + 1)
               hi == v(i + 2)
    <3>1. /\ lo \in Int /\ hi \in Int /\ lo <= hi
          /\ Quantile(s, 4) = 10 * lo + r * (hi - lo)
      <4>1. i + 1 \in 1..n /\ i + 2 \in 1..n /\ i + 1 <= i + 2
        BY <1>2, <2>2
      <4> QED
        BY <1>1, <1>2, <2>2, <4>1
    <3> HIDE DEF lo, hi
    <3>2. /\ 10 * lo <= Quantile(s, 4) /\ Quantile(s, 4) <= 10 * hi
          /\ Quantile(s, 4) \in Int
      BY <1>2, <3>1, BetweenRanks
    <3> QED
      BY <1>1, <3>2 DEF lo, hi
  <2> QED
    BY <2>1, <2>2
<1>9. /\ Quantile(s, 7) \in Int /\ 10 * v(j + 1) <= Quantile(s, 7)
      /\ Quantile(s, 7) <= 10 * m
  <2>1. CASE q = 0
    <3> DEFINE lo == v(j + 1)
    <3>1. lo \in Int /\ Quantile(s, 7) = 10 * lo /\ lo <= m
      BY <1>1, <1>3, <1>6, <2>1
    <3> HIDE DEF lo
    <3>2. /\ Quantile(s, 7) \in Int /\ 10 * lo <= Quantile(s, 7)
          /\ Quantile(s, 7) <= 10 * m
      BY <1>6, <3>1
    <3> QED
      BY <3>2 DEF lo
  <2>2. CASE q # 0
    <3> DEFINE lo == v(j + 1)
               hi == v(j + 2)
    <3>1. /\ lo \in Int /\ hi \in Int /\ lo <= hi /\ hi <= m
          /\ Quantile(s, 7) = 10 * lo + q * (hi - lo)
      <4>1. j + 1 \in 1..n /\ j + 2 \in 1..n /\ j + 1 <= j + 2
        BY <1>3, <2>2
      <4> QED
        BY <1>1, <1>3, <1>6, <2>2, <4>1
    <3> HIDE DEF lo, hi
    <3>2. /\ 10 * lo <= Quantile(s, 7) /\ Quantile(s, 7) <= 10 * hi
          /\ Quantile(s, 7) \in Int
      BY <1>3, <3>1, BetweenRanks
    <3>3. Quantile(s, 7) <= 10 * m
      BY <1>6, <3>1, <3>2
    <3> QED
      BY <3>2, <3>3 DEF lo
  <2> QED
    BY <2>1, <2>2
<1>10. Quantile(s, 4) <= Quantile(s, 7)
  <2>1. CASE i = j /\ r # 0
    <3> DEFINE lo == v(i + 1)
               hi == v(i + 2)
    <3>1. /\ lo \in Int /\ hi \in Int /\ lo <= hi /\ r <= q /\ q # 0
          /\ Quantile(s, 4) = 10 * lo + r * (hi - lo)
          /\ Quantile(s, 7) = 10 * lo + q * (hi - lo)
      <4>1. i + 1 \in 1..n /\ i + 2 \in 1..n /\ i + 1 <= i + 2
        BY <1>2, <2>1
      <4>2. r <= q /\ q # 0
        BY <1>2, <1>3, <1>7, <2>1
      <4> QED
        BY <1>1, <1>2, <1>3, <2>1, <4>1, <4>2
    <3> HIDE DEF lo, hi
    <3> QED
      BY <1>2, <1>3, <3>1, BetweenRanks
  <2>2. CASE r = 0
    <3> DEFINE lo == v(i + 1)
               hi == v(j + 1)
    <3>1. /\ lo \in Int /\ hi \in Int /\ lo <= hi /\ Quantile(s, 4) = 10 * lo
          /\ 10 * hi <= Quantile(s, 7)
      BY <1>1, <1>2, <1>3, <1>7, <1>9, <2>2
    <3> HIDE DEF lo, hi
    <3> QED
      BY <1>9, <3>1
  <2>3. CASE i < j /\ r # 0
    <3> DEFINE lo == v(i + 2)
               hi == v(j + 1)
    <3>1. /\ lo \in Int /\ hi \in Int /\ lo <= hi
          /\ Quantile(s, 4) <= 10 * lo /\ 10 * hi <= Quantile(s, 7)
      <4>1. i + 2 \in 1..n /\ j + 1 \in 1..n /\ i + 2 <= j + 1
        BY <1>2, <1>3, <2>3
      <4> QED
        BY <1>1, <1>8, <1>9, <2>3, <4>1
    <3> HIDE DEF lo, hi
    <3> QED
      BY <1>8, <1>9, <3>1
  <2> QED
    BY <1>2, <1>3, <1>7, <2>1, <2>2, <2>3
<1> QED
  BY <1>4, <1>9, <1>10

------------------------------------------------------------------------------
(* The series of the grid adds the sensors up.                              *)

\* What GridIsBalanced says a sensor contributes to a box.
Mean(map, b) ==
    LET inBox == {t \in DOMAIN map : BoxOf(t) = b}
    IN  IF inBox = {} THEN 0
        ELSE (Parts * MapThenSumSet(LAMBDA t : map[t], inBox)) \div Cardinality(inBox)

\* A binned sensor has an entry for each of its boxes, the mean of its points.
LEMMA BinnedIs ==
    ASSUME NEW map, IsSensorMap(map)
    PROVE  /\ DOMAIN Binned(map) = {BoxOf(t) : t \in DOMAIN map}
           /\ IsFiniteSet(DOMAIN Binned(map)) /\ DOMAIN Binned(map) \subseteq Int
           /\ \A b : At(Binned(map), b) = Mean(map, b) /\ Mean(map, b) \in Int
<1> DEFINE T == DOMAIN map
           B == {BoxOf(t) : t \in T}
           In(b) == {t \in T : BoxOf(t) = b}
           f(b) == (Parts * MapThenSumSet(LAMBDA t : map[t], In(b))) \div Cardinality(In(b))
<1>1. IsFiniteSet(T) /\ T \subseteq Int /\ \A t \in T : map[t] \in Int
  BY DEF IsSensorMap
<1>2. Binned(map) = [b \in B |-> f(b)]
  BY DEF Binned
<1>3. IsFiniteSet(B)
  <2> DEFINE g == [t \in T |-> BoxOf(t)]
  <2>1. g \in Surjection(T, B)
    BY DEF Surjection
  <2> HIDE DEF T, B, g
  <2> QED
    BY <1>1, <2>1, FS_Surjection
<1>4. B \subseteq Int
  <2>1. \A t \in T : BoxOf(t) \in Int
    BY <1>1, BoxIsPositive DEF BoxOf
  <2> QED
    BY <2>1
<1>5. ASSUME NEW b, In(b) # {} PROVE f(b) \in Int
  <2>1. In(b) \subseteq T
    OBVIOUS
  <2>2. IsFiniteSet(In(b)) /\ \A t \in In(b) : map[t] \in Int
    <3> HIDE DEF In, T
    <3> QED
      BY <1>1, <2>1, FS_Subset
  <2>3. SumOf(map, In(b)) \in Int
    <3> HIDE DEF In
    <3> QED
      BY <2>2, SumRules
  <2>4. Cardinality(In(b)) \in Nat \ {0}
    <3> HIDE DEF In
    <3>1. Cardinality(In(b)) \in Nat /\ Cardinality(In(b)) # 0
      BY <1>5, <2>2, FS_EmptySet, FS_CardinalityType
    <3> QED
      BY <3>1
  <2>5. f(b) = (Parts * SumOf(map, In(b))) \div Cardinality(In(b))
    BY DEF SumOf
  <2> HIDE DEF In, f
  <2> QED
    BY <2>3, <2>4, <2>5 DEF Parts
<1>6. \A b : b \in B <=> In(b) # {}
  OBVIOUS
<1>7. ASSUME NEW b PROVE At(Binned(map), b) = Mean(map, b) /\ Mean(map, b) \in Int
  <2>1. Mean(map, b) = IF In(b) = {} THEN 0 ELSE f(b)
    BY DEF Mean
  <2>2. At(Binned(map), b) = IF b \in B THEN f(b) ELSE 0
    <3> HIDE DEF B, f
    <3> QED
      BY <1>2 DEF At
  <2> HIDE DEF B, f, In
  <2> QED
    BY <1>5, <1>6, <2>1, <2>2
<1>8. DOMAIN Binned(map) = B
  <2> HIDE DEF B, f
  <2> QED
    BY <1>2
<1> HIDE DEF f
<1> QED
  BY <1>3, <1>4, <1>7, <1>8

BinnedMaps(maps) == [i \in DOMAIN maps |-> Binned(maps[i])]
Means(maps, b) == [i \in DOMAIN maps |-> Mean(maps[i], b)]

LEMMA SensorMaps ==
    ASSUME NEW maps, AreSensorMaps(maps)
    PROVE  /\ Len(maps) \in Nat /\ DOMAIN maps = 1..Len(maps)
           /\ IsFiniteSet(DOMAIN maps)
           /\ \A i \in DOMAIN maps : IsSensorMap(maps[i])
<1>1. maps \in Seq(ToSet(maps))
  BY DEF AreSensorMaps
<1>2. Len(maps) \in Nat /\ DOMAIN maps = 1..Len(maps)
  <2> DEFINE V == ToSet(maps)
  <2>1. maps \in Seq(V)
    BY <1>1
  <2> HIDE DEF V
  <2> QED
    BY <2>1
<1>3. \A i \in DOMAIN maps : maps[i] \in ToSet(maps)
  BY DEF ToSet
<1> QED
  BY <1>2, <1>3, IntervalIsFinite DEF AreSensorMaps

\* The sum over the sensors in one box.
LEMMA TotalIs ==
    ASSUME NEW maps, AreSensorMaps(maps), NEW b
    PROVE  /\ Total(BinnedMaps(maps), b) = SumOf(Means(maps, b), DOMAIN maps)
           /\ Total(BinnedMaps(maps), b) \in Int
           /\ \A i \in DOMAIN maps : Means(maps, b)[i] \in Int
<1> DEFINE n == Len(maps)
           D == 1..n
           bins == BinnedMaps(maps)
           f == Means(maps, b)
           P(g) == g = [s \in SUBSET D |->
                          IF s = {} THEN 0 ELSE g[s \ {Max(s)}] + At(bins[Max(s)], b)]
           g == CHOOSE g : P(g)
<1>1. n \in Nat /\ DOMAIN maps = D /\ \A i \in D : IsSensorMap(maps[i])
  BY SensorMaps
<1>2. /\ DOMAIN bins = D
      /\ \A i \in D : f[i] \in Int /\ f[i] = At(bins[i], b)
  BY <1>1, BinnedIs DEF BinnedMaps, Means
<1>3. Total(bins, b) = g[D]
  <2> HIDE DEF D, bins
  <2> QED
    BY <1>2 DEF Total, FoldLeft, MapThenFoldSet
<1> HIDE DEF n, bins
<1>4. \A h : AddsFromLeft(h, n, f) <=> P(h)
  <2>1. \A s \in SUBSET D : s # {} => f[Max(s)] = At(bins[Max(s)], b)
    BY <1>1, <1>2, MaxIsFirst
  <2> HIDE DEF f
  <2> QED
    BY <2>1 DEF AddsFromLeft
<1> HIDE DEF f, P
<1>5. P(g)
  BY <1>1, <1>2, <1>4, LeftSumExists
<1>6. g[D] = SumOf(f, D)
  <2> HIDE DEF g
  <2> QED
    BY <1>1, <1>2, <1>4, <1>5, LeftSumIs
<1>7. IsFiniteSet(D) /\ SumOf(f, D) \in Int
  BY <1>1, <1>2, IntervalIsFinite, SumRules
<1> QED
  BY <1>1, <1>2, <1>3, <1>6, <1>7 DEF f, bins

\* The boxes of time in which a sensor reported.
Reported(imports, exports) ==
    LET maps == imports \o exports
        times == UNION {DOMAIN maps[i] : i \in DOMAIN maps}
    IN  {BoxOf(t) : t \in times}

LEMMA BoxesAre ==
    ASSUME NEW imports, AreSensorMaps(imports), NEW exports, AreSensorMaps(exports)
    PROVE  LET B == Boxes(BinnedMaps(imports)) \cup Boxes(BinnedMaps(exports))
           IN  B = Reported(imports, exports) /\ IsFiniteSet(B) /\ B \subseteq Int
<1> DEFINE B == Boxes(BinnedMaps(imports)) \cup Boxes(BinnedMaps(exports))
<1>1. ASSUME NEW maps, AreSensorMaps(maps)
      PROVE  /\ Boxes(BinnedMaps(maps)) =
                   {BoxOf(t) : t \in UNION {DOMAIN maps[i] : i \in DOMAIN maps}}
             /\ IsFiniteSet(Boxes(BinnedMaps(maps)))
             /\ Boxes(BinnedMaps(maps)) \subseteq Int
  <2> DEFINE bins == BinnedMaps(maps)
             D == DOMAIN maps
             E == {DOMAIN bins[i] : i \in DOMAIN bins}
  <2>1. IsFiniteSet(D) /\ \A i \in D : IsSensorMap(maps[i])
    BY <1>1, SensorMaps
  <2>2. /\ DOMAIN bins = D
        /\ \A i \in D : /\ DOMAIN bins[i] = {BoxOf(t) : t \in DOMAIN maps[i]}
                        /\ IsFiniteSet(DOMAIN bins[i]) /\ DOMAIN bins[i] \subseteq Int
    BY <2>1, BinnedIs DEF BinnedMaps
  <2>3. IsFiniteSet(E)
    <3> DEFINE g == [i \in D |-> DOMAIN bins[i]]
    <3>1. g \in Surjection(D, E)
      BY <2>2 DEF Surjection
    <3> HIDE DEF D, E, g
    <3> QED
      BY <2>1, <3>1, FS_Surjection
  <2>4. \A s \in E : IsFiniteSet(s) /\ s \subseteq Int
    <3> HIDE DEF D, bins
    <3> QED
      BY <2>2
  <2>5. IsFiniteSet(UNION E) /\ UNION E \subseteq Int
    <3> HIDE DEF E
    <3> QED
      BY <2>3, <2>4, FS_UNION
  <2>6. UNION E = {BoxOf(t) : t \in UNION {DOMAIN maps[i] : i \in DOMAIN maps}}
    <3> HIDE DEF bins
    <3> QED
      BY <2>2
  <2> HIDE DEF D, bins
  <2> QED
    BY <2>5, <2>6 DEF Boxes, bins
<1>2. IsFiniteSet(B) /\ B \subseteq Int
  BY <1>1, FS_Union
<1>3. B = Reported(imports, exports)
  <2> DEFINE m == Len(imports)
             n == Len(exports)
             maps == imports \o exports
             U == ToSet(imports) \cup ToSet(exports)
  <2>1. /\ m \in Nat /\ DOMAIN imports = 1..m /\ n \in Nat /\ DOMAIN exports = 1..n
        /\ imports \in Seq(U) /\ exports \in Seq(U)
    <3>1. \A i \in 1..m : imports[i] \in U
      BY SensorMaps DEF ToSet
    <3>2. \A i \in 1..n : exports[i] \in U
      BY SensorMaps DEF ToSet
    <3>3. imports \in Seq(ToSet(imports)) /\ exports \in Seq(ToSet(exports))
      BY DEF AreSensorMaps
    <3>4. /\ m \in Nat /\ DOMAIN imports = 1..m /\ n \in Nat /\ DOMAIN exports = 1..n
      BY SensorMaps
    <3>5. imports \in [1..m -> U] /\ exports \in [1..n -> U]
      <4> DEFINE X == ToSet(imports)
                 Y == ToSet(exports)
      <4> HIDE DEF X, Y
      <4>1. imports \in Seq(X) /\ exports \in Seq(Y)
        BY <3>3 DEF X, Y
      <4>2. imports = [i \in 1..m |-> imports[i]] /\ exports = [i \in 1..n |-> exports[i]]
        BY <4>1
      <4> HIDE DEF U, m, n
      <4> QED
        BY <3>1, <3>2, <4>2
    <3> HIDE DEF U, m, n
    <3> QED
      BY <3>4, <3>5
  <2> HIDE DEF U
  <2>2. /\ DOMAIN maps = 1..(m + n)
        /\ \A i \in 1..m : maps[i] = imports[i]
        /\ \A i \in 1..n : maps[m + i] = exports[i]
    BY <2>1
  <2> HIDE DEF maps, m, n
  <2>3. UNION {DOMAIN maps[i] : i \in DOMAIN maps}
           = (UNION {DOMAIN imports[i] : i \in DOMAIN imports})
             \cup (UNION {DOMAIN exports[i] : i \in DOMAIN exports})
    <3>1. ASSUME NEW i \in 1..(m + n)
          PROVE  \/ i \in 1..m /\ maps[i] = imports[i]
                 \/ \E k \in 1..n : i = m + k /\ maps[i] = exports[k]
      <4>1. CASE i <= m
        BY <2>1, <2>2, <4>1
      <4>2. CASE ~(i <= m)
        <5>1. i - m \in 1..n /\ i = m + (i - m)
          BY <2>1, <4>2
        <5> QED
          BY <2>2, <5>1
      <4> QED
        BY <4>1, <4>2
    <3>2. /\ \A i \in 1..m : i \in 1..(m + n)
          /\ \A i \in 1..n : m + i \in 1..(m + n)
      BY <2>1
    <3> QED
      BY <2>1, <2>2, <3>1, <3>2
  <2>4. Reported(imports, exports)
           = {BoxOf(t) : t \in UNION {DOMAIN maps[i] : i \in DOMAIN maps}}
    BY DEF Reported, maps
  <2> QED
    <3> DEFINE X == UNION {DOMAIN imports[i] : i \in DOMAIN imports}
               Y == UNION {DOMAIN exports[i] : i \in DOMAIN exports}
    <3>1. /\ Boxes(BinnedMaps(imports)) = {BoxOf(t) : t \in X}
          /\ Boxes(BinnedMaps(exports)) = {BoxOf(t) : t \in Y}
      BY <1>1
    <3>2. Reported(imports, exports) = {BoxOf(t) : t \in X \cup Y}
      BY <2>3, <2>4, Zenon
    <3> HIDE DEF X, Y
    <3> QED
      BY <3>1, <3>2
<1> QED
  BY <1>2, <1>3

\* Adding a series up from the left gives its sum.
LEMMA SeriesSum ==
    ASSUME NEW s, NEW n \in Nat, DOMAIN s = 1..n, \A k \in 1..n : s[k] \in Int
    PROVE  FoldLeft(+, 0, s) = SumOf(s, 1..n)
<1> DEFINE D == 1..n
           P(g) == g = [t \in SUBSET D |->
                          IF t = {} THEN 0 ELSE g[t \ {Max(t)}] + s[Max(t)]]
           g == CHOOSE g : P(g)
<1>1. FoldLeft(+, 0, s) = g[D]
  BY DEF FoldLeft, MapThenFoldSet
<1>2. \A h : AddsFromLeft(h, n, s) <=> P(h)
  BY DEF AddsFromLeft
<1> HIDE DEF P
<1>3. P(g)
  BY <1>2, LeftSumExists
<1> HIDE DEF g
<1> QED
  BY <1>1, <1>2, <1>3, LeftSumIs

\* What the sensors contribute, over the sensors and the boxes of a set.
Entries(maps, B) == [p \in (DOMAIN maps) \X B |-> Mean(maps[p[1]], p[2])]

\* The boxes' totals add up to the contributions of the sensors.
LEMMA TotalsAddUp ==
    ASSUME NEW maps, AreSensorMaps(maps), NEW B, IsFiniteSet(B),
           NEW r, \A b \in B : r[b] = Total(BinnedMaps(maps), b)
    PROVE  /\ SumOf(r, B) = SumOf(Entries(maps, B), (DOMAIN maps) \X B)
           /\ \A b \in B : r[b] \in Int
<1> DEFINE D == DOMAIN maps
           f == Entries(maps, B)
           means == [b \in B |-> Means(maps, b)]
<1>1. IsFiniteSet(D)
  BY SensorMaps
<1>2. \A b \in B : \A i \in D :
         f[<<i, b>>] = means[b][i] /\ means[b][i] \in Int
  <2>1. ASSUME NEW b \in B, NEW i \in D
        PROVE  f[<<i, b>>] = means[b][i] /\ means[b][i] \in Int
    <3>1. f[<<i, b>>] = Means(maps, b)[i]
      BY DEF Entries, Means
    <3>2. Means(maps, b)[i] \in Int
      BY TotalIs
    <3> QED
      BY <3>1, <3>2
  <2> QED
    BY <2>1
<1>3. \A b \in B : r[b] = SumOf(means[b], D) /\ r[b] \in Int
  BY TotalIs
<1> HIDE DEF D, f, means
<1>4. SumOf(f, D \X B) = SumOf(r, B)
  <2>1. Rows(f, means, r, D, B)
    BY <1>2, <1>3 DEF Rows
  <2> QED
    BY <1>1, <2>1, SumByRows
<1> QED
  BY <1>3, <1>4 DEF D, f

\* The sum of GridIsBalanced is that of the entries.
LEMMA SensorSumIs ==
    ASSUME NEW maps, AreSensorMaps(maps), NEW B, IsFiniteSet(B)
    PROVE  MapThenSumSet(LAMBDA ib : Mean(maps[ib[1]], ib[2]), (DOMAIN maps) \X B)
              = SumOf(Entries(maps, B), (DOMAIN maps) \X B)
<1> DEFINE D == (DOMAIN maps) \X B
           First(s) == CHOOSE x \in s : TRUE
           e(p) == Mean(maps[p[1]], p[2])
           f == Entries(maps, B)
           c == [s \in SUBSET D |-> First(s)]
           P(g) == g = [s \in SUBSET D |->
                          IF s = {} THEN 0 ELSE e(First(s)) + g[s \ {First(s)}]]
           g == CHOOSE g : P(g)
<1>1. IsFiniteSet(D) /\ Chooses(c, D)
  <2>1. IsFiniteSet(DOMAIN maps)
    BY SensorMaps
  <2>2. Chooses(c, D)
    BY DEF Chooses
  <2> QED
    BY <2>1, <2>2, FS_Product
<1>2. \A x \in D : f[x] = e(x) /\ f[x] \in Int
  <2>1. ASSUME NEW x \in D PROVE f[x] = e(x) /\ f[x] \in Int
    <3>1. f[x] = e(x) /\ x[1] \in DOMAIN maps
      BY DEF Entries
    <3>2. e(x) \in Int
      BY <3>1, SensorMaps, BinnedIs
    <3> QED
      BY <3>1, <3>2
  <2> QED
    BY <2>1
<1>3. MapThenSumSet(LAMBDA ib : Mean(maps[ib[1]], ib[2]), D) = g[D]
  BY DEF MapThenSumSet, MapThenFoldSet
<1>4. \A h : AddsUp(h, D, f, c) <=> P(h)
  <2>1. \A s \in SUBSET D : s # {} => f[First(s)] = e(First(s))
    <3>1. \A s \in SUBSET D : s # {} => First(s) \in D
      OBVIOUS
    <3> HIDE DEF First, D, f, e
    <3> QED
      BY <1>2, <3>1
  <2>2. \A s \in SUBSET D : c[s] = First(s)
    OBVIOUS
  <2> HIDE DEF First, D, f, c, e
  <2> QED
    BY <2>1, <2>2 DEF AddsUp
<1> HIDE DEF D, f, c, P
<1>5. P(g)
  <2>1. \E h : AddsUp(h, D, f, c)
    BY <1>1, <1>2, SumExists
  <2> QED
    BY <1>4, <2>1
<1> HIDE DEF g
<1>6. g[D] = SumOf(f, D)
  BY <1>1, <1>2, <1>4, <1>5, SumAnyway
<1> QED
  BY <1>3, <1>6 DEF D, f

\* What build_net_series_kw returns has one entry for each box, and adds up to
\* what the import sensors contribute less what the export sensors do.
LEMMA NetSeriesIs ==
    ASSUME NEW I, AreSensorMaps(I), NEW E, AreSensorMaps(E)
    PROVE  LET net == NetSeries(I, E)
               B == Reported(I, E)
           IN  /\ net \in Seq(Int) /\ Len(net) = Cardinality(B)
               /\ FoldLeft(+, 0, net)
                     = SumOf(Entries(I, B), (DOMAIN I) \X B)
                       - SumOf(Entries(E, B), (DOMAIN E) \X B)
<1> DEFINE B == Reported(I, E)
           n == Cardinality(B)
           times == Ascending(B)
           net == NetSeries(I, E)
           fi == [b \in B |-> Total(BinnedMaps(I), b)]
           fe == [b \in B |-> Total(BinnedMaps(E), b)]
           d == [b \in B |-> fi[b] - fe[b]]
<1>1. /\ B = Boxes(BinnedMaps(I)) \cup Boxes(BinnedMaps(E))
      /\ IsFiniteSet(B) /\ B \subseteq Int
  BY BoxesAre
<1>2. /\ n \in Nat
      /\ \A k \in 1..n : times[k] \in B
      /\ \A j, k \in 1..n : times[j] = times[k] => j = k
      /\ {times[k] : k \in 1..n} = B
  <2> HIDE DEF B
  <2> QED
    BY <1>1, AscendingIs
<1>3. DOMAIN times = 1..n
  BY DEF Ascending
<1>4. net = [k \in 1..n |-> Total(BinnedMaps(I), times[k]) - Total(BinnedMaps(E), times[k])]
  <2>1. net = LET ts == Ascending(Boxes(BinnedMaps(I)) \cup Boxes(BinnedMaps(E)))
              IN  [k \in DOMAIN ts |-> Total(BinnedMaps(I), ts[k])
                                          - Total(BinnedMaps(E), ts[k])]
    BY DEF NetSeries, BinnedMaps
  <2>2. Boxes(BinnedMaps(I)) \cup Boxes(BinnedMaps(E)) = B
    BY <1>1
  <2> HIDE DEF net, n, B
  <2>3. Ascending(Boxes(BinnedMaps(I)) \cup Boxes(BinnedMaps(E))) = times
    BY <2>2, Zenon
  <2> HIDE DEF times
  <2> QED
    BY <1>3, <2>1, <2>3
<1>5. /\ SumOf(fi, B) = SumOf(Entries(I, B), (DOMAIN I) \X B)
      /\ \A b \in B : fi[b] \in Int
  <2> HIDE DEF B
  <2> QED
    BY <1>1, TotalsAddUp
<1>6. /\ SumOf(fe, B) = SumOf(Entries(E, B), (DOMAIN E) \X B)
      /\ \A b \in B : fe[b] \in Int
  <2> HIDE DEF B
  <2> QED
    BY <1>1, TotalsAddUp
<1>7. SumOf(d, B) = SumOf(fi, B) - SumOf(fe, B)
  <2>1. \A b \in B : d[b] = fi[b] - fe[b]
    OBVIOUS
  <2> HIDE DEF B, fi, fe, d
  <2> QED
    BY <1>1, <1>5, <1>6, <2>1, SumOfDifference
<1>8. /\ DOMAIN net = 1..n
      /\ \A k \in 1..n : net[k] = d[times[k]] /\ net[k] \in Int /\ d[times[k]] \in Int
  <2>1. \A b \in B : d[b] = Total(BinnedMaps(I), b) - Total(BinnedMaps(E), b) /\ d[b] \in Int
    <3>1. \A b \in B : /\ d[b] = Total(BinnedMaps(I), b) - Total(BinnedMaps(E), b)
                       /\ d[b] = fi[b] - fe[b]
      OBVIOUS
    <3> HIDE DEF B, d, fi, fe
    <3> QED
      BY <1>5, <1>6, <3>1
  <2> HIDE DEF B, net, times, d, n
  <2> QED
    BY <1>2, <1>4, <2>1
<1> HIDE DEF B, n, times, net, d, fi, fe
<1>9. net \in Seq(Int) /\ Len(net) = n
  <2>1. net = [k \in 1..n |-> net[k]]
    BY <1>4
  <2>2. net \in [1..n -> Int]
    BY <1>8, <2>1
  <2> QED
    BY <1>2, <2>2
<1>10. FoldLeft(+, 0, net) = SumOf(net, 1..n)
  BY <1>2, <1>8, SeriesSum
<1>11. SumOf(net, 1..n) = SumOf(d, B)
  <2> DEFINE K == 1..n
  <2>1. IsFiniteSet(K)
    BY <1>2, IntervalIsFinite
  <2>2. \A k \in K : d[times[k]] \in Int /\ net[k] = d[times[k]]
    BY <1>8
  <2>3. Pairs(times, K, B)
    BY <1>2 DEF Pairs
  <2> HIDE DEF K
  <2>4. SumOf(net, K) = SumOf(d, B)
    BY <2>1, <2>2, <2>3, SumReindexed
  <2> QED
    BY <2>4 DEF K
<1> QED
  BY <1>5, <1>6, <1>7, <1>9, <1>10, <1>11 DEF B, n, net

\* The grid's statistics are those of a series that balances.
Balanced(maps, net, stats) ==
    /\ Len(net) = Cardinality(Reported(maps.imports, maps.exports))
    /\ FoldLeft(+, 0, net) =
          LET B == Reported(maps.imports, maps.exports)
              sum(ms) == MapThenSumSet(LAMBDA ib : Mean(ms[ib[1]], ib[2]), (DOMAIN ms) \X B)
          IN  sum(maps.imports) - sum(maps.exports)
    /\ stats.q40 <= stats.q70 /\ stats.q70 <= stats.max

LEMMA GridBalances ==
    ASSUME NEW a, AreSensorMaps(a.imports), AreSensorMaps(a.exports),
           NEW net, net = NetSeries(a.imports, a.exports), GridStats(net) # Failed
    PROVE  Balanced(a, net, GridStats(net))
<1> DEFINE I == a.imports
           E == a.exports
           B == Reported(I, E)
<1>1. /\ net \in Seq(Int) /\ Len(net) = Cardinality(B)
      /\ FoldLeft(+, 0, net) = SumOf(Entries(I, B), (DOMAIN I) \X B)
                               - SumOf(Entries(E, B), (DOMAIN E) \X B)
  BY NetSeriesIs
<1>2. net # <<>>
  BY DEF GridStats
<1>3. IsFiniteSet(B)
  BY BoxesAre
<1>4. /\ MapThenSumSet(LAMBDA ib : Mean(I[ib[1]], ib[2]), (DOMAIN I) \X B)
            = SumOf(Entries(I, B), (DOMAIN I) \X B)
      /\ MapThenSumSet(LAMBDA ib : Mean(E[ib[1]], ib[2]), (DOMAIN E) \X B)
            = SumOf(Entries(E, B), (DOMAIN E) \X B)
  <2> HIDE DEF B
  <2> QED
    BY <1>3, SensorSumIs
<1>5. GridStats(net).q40 <= GridStats(net).q70 /\ GridStats(net).q70 <= GridStats(net).max
  BY <1>1, <1>2, QuantilesAreOrdered
<1> QED
  BY <1>1, <1>4, <1>5 DEF Balanced

------------------------------------------------------------------------------
(* The layout of an observation.                                            *)

Sizes(names) == [k \in 1..Len(names) |-> Size(names[k])]
Slices(names) == [k \in 1..Len(names) |-> Slice(names[k])]
\* The numbers of an observation.
Numbers(U) == U \X Nat

LEMMA SlicesAre ==
    ASSUME NEW U, NEW names \in Seq(U)
    PROVE  /\ Len(names) \in Nat /\ DOMAIN names = 1..Len(names)
           /\ \A k \in 1..Len(names) :
                 /\ Slices(names)[k] \in Seq(Numbers(U))
                 /\ Sizes(names)[k] = Len(Slices(names)[k])
                 /\ Sizes(names)[k] = Size(names[k])
                 /\ Sizes(names)[k] \in Nat
                 /\ \A i \in 1..Size(names[k]) :
                       Slices(names)[k][i] = <<names[k], i>>
<1>1. \A name \in U :
         /\ Size(name) \in Nat /\ Slice(name) \in Seq(Numbers(U))
         /\ Len(Slice(name)) = Size(name)
         /\ \A i \in 1..Size(name) : Slice(name)[i] = <<name, i>>
  <2> SUFFICES ASSUME NEW name \in U
               PROVE  /\ Size(name) \in Nat /\ Slice(name) \in Seq(Numbers(U))
                      /\ Len(Slice(name)) = Size(name)
                      /\ \A i \in 1..Size(name) : Slice(name)[i] = <<name, i>>
    OBVIOUS
  <2>1. Size(name) \in Nat
    BY HorizonIsPositive DEF Size
  <2>2. ASSUME NEW i \in 1..Size(name) PROVE <<name, i>> \in Numbers(U)
    <3>1. i \in Nat
      BY <2>1
    <3> QED
      BY <3>1, Zenon DEF Numbers
  <2>3. /\ Slice(name) \in [1..Size(name) -> Numbers(U)]
        /\ \A i \in 1..Size(name) : Slice(name)[i] = <<name, i>>
    BY <2>2 DEF Slice
  <2>4. Slice(name) \in Seq(Numbers(U)) /\ Len(Slice(name)) = Size(name)
    <3> DEFINE slice == Slice(name)
               size == Size(name)
    <3>1. slice \in [1..size -> Numbers(U)] /\ size \in Nat
      BY <2>1, <2>3
    <3> HIDE DEF slice, size
    <3>2. slice \in Seq(Numbers(U)) /\ Len(slice) = size
      BY <3>1
    <3> QED
      BY <3>2 DEF slice, size
  <2> QED
    BY <2>1, <2>3, <2>4, Zenon
<1>2. /\ Len(names) \in Nat /\ DOMAIN names = 1..Len(names)
      /\ \A k \in 1..Len(names) : names[k] \in U
  OBVIOUS
<1>3. ASSUME NEW k \in 1..Len(names)
      PROVE  /\ Slices(names)[k] = Slice(names[k])
             /\ Sizes(names)[k] = Size(names[k])
  BY DEF Slices, Sizes
<1> QED
  BY <1>1, <1>2, <1>3

\* ObservationDim adds the sizes up.
LEMMA DimIs ==
    ASSUME NEW U, NEW names \in Seq(U)
    PROVE  ObservationDim(names) = SumOf(Sizes(names), 1..Len(names))
<1> DEFINE n == Len(names)
           D == 1..n
           f == Sizes(names)
           P(g) == g = [s \in SUBSET D |->
                          IF s = {} THEN 0 ELSE g[s \ {Max(s)}] + Size(names[Max(s)])]
           g == CHOOSE g : P(g)
<1>1. n \in Nat /\ DOMAIN names = D /\ \A k \in D : f[k] \in Int
  BY SlicesAre
<1>2. ObservationDim(names) = g[D]
  <2>1. DOMAIN names = D
    OBVIOUS
  <2> QED
    BY <2>1 DEF ObservationDim, FoldLeft, MapThenFoldSet
<1> HIDE DEF n
<1>3. \A h : AddsFromLeft(h, n, f) <=> P(h)
  <2>1. \A s \in SUBSET D : s # {} => f[Max(s)] = Size(names[Max(s)])
    BY <1>1, MaxIsFirst DEF Sizes, n
  <2> HIDE DEF f
  <2> QED
    BY <2>1 DEF AddsFromLeft
<1> HIDE DEF f, P
<1>4. P(g)
  BY <1>1, <1>3, LeftSumExists
<1>5. g[D] = SumOf(f, D)
  <2> HIDE DEF g
  <2> QED
    BY <1>1, <1>3, <1>4, LeftSumIs
<1> QED
  BY <1>2, <1>5 DEF f, n

LEMMA DimOfPrefix ==
    ASSUME NEW U, NEW names \in Seq(U), NEW k \in 1..Len(names)
    PROVE  ObservationDim(SubSeq(names, 1, k - 1)) = SumOf(Sizes(names), 1..(k-1))
<1> DEFINE p == SubSeq(names, 1, k - 1)
<1>1. /\ p \in Seq(U) /\ Len(p) = k - 1 /\ k - 1 \in Nat
      /\ \A j \in 1..(k-1) : p[j] = names[j] /\ j \in 1..Len(names)
  OBVIOUS
<1> HIDE DEF p
<1>2. \A j \in 1..(k-1) : Sizes(p)[j] \in Int /\ Sizes(p)[j] = Sizes(names)[j]
  BY <1>1, SlicesAre DEF Sizes
<1>3. ObservationDim(p) = SumOf(Sizes(p), 1..(k-1))
  BY <1>1, DimIs
<1>4. SumOf(Sizes(p), 1..(k-1)) = SumOf(Sizes(names), 1..(k-1))
  BY <1>1, <1>2, IntervalIsFinite, SumOfSame
<1> QED
  BY <1>3, <1>4 DEF p

\* What assemble_observation lays out.
Laid(names) == FoldLeft(LAMBDA part, name : part \o Slice(name), <<>>, names)

LEMMA SlicesAreJoined ==
    ASSUME NEW U, NEW names \in Seq(U)
    PROVE  \E r : /\ Joins(r, Len(names), Slices(names))
                  /\ Laid(names) = r[Len(names)]
<1> DEFINE n == Len(names)
           D == 1..n
           f == Slices(names)
           P(g) == g = [s \in SUBSET D |->
                          IF s = {} THEN <<>> ELSE g[s \ {Max(s)}] \o Slice(names[Max(s)])]
           g == CHOOSE g : P(g)
<1>1. n \in Nat /\ DOMAIN names = D /\ \A k \in D : f[k] \in Seq(Numbers(U))
  BY SlicesAre
<1>2. Laid(names) = g[D]
  <2>1. DOMAIN names = D
    OBVIOUS
  <2> QED
    BY <2>1 DEF Laid, FoldLeft, MapThenFoldSet
<1> HIDE DEF n
<1>3. \A h : JoinsFromLeft(h, n, f) <=> P(h)
  <2>1. \A s \in SUBSET D : s # {} => f[Max(s)] = Slice(names[Max(s)])
    BY <1>1, MaxIsFirst DEF Slices, n
  <2> HIDE DEF f
  <2> QED
    BY <2>1 DEF JoinsFromLeft
<1> HIDE DEF f, P
<1>4. P(g)
  BY <1>1, <1>3, LeftJoinExists
<1> HIDE DEF g
<1>5. \E r : Joins(r, n, f) /\ g[D] = r[n]
  BY <1>1, <1>3, <1>4, LeftJoinIs
<1> QED
  BY <1>2, <1>5 DEF f, n

\* An observation has each slice where the sizes of those before it add up to.
AsDeclared(o, names, U) ==
    /\ o \in Seq(Numbers(U)) /\ Len(o) = ObservationDim(names)
    /\ \A k \in 1..Len(names) : \A i \in 1..Size(names[k]) :
          /\ ObservationDim(SubSeq(names, 1, k - 1)) + i \in 1..Len(o)
          /\ o[ObservationDim(SubSeq(names, 1, k - 1)) + i] = <<names[k], i>>

LEMMA LayoutIs ==
    ASSUME NEW U, NEW names \in Seq(U)
    PROVE  AsDeclared(Laid(names), names, U)
<1> DEFINE o == Laid(names)
           n == Len(names)
           f == Slices(names)
           len == Sizes(names)
<1>1. PICK r : Joins(r, n, f) /\ o = r[n]
  BY SlicesAreJoined
<1>2. /\ n \in Nat
      /\ \A k \in 1..n :
            /\ f[k] \in Seq(Numbers(U)) /\ len[k] = Len(f[k]) /\ len[k] = Size(names[k])
            /\ \A i \in 1..Size(names[k]) : f[k][i] = <<names[k], i>>
  BY SlicesAre
<1>3. /\ \A k \in 1..n : ObservationDim(SubSeq(names, 1, k - 1)) = SumOf(len, 1..(k-1))
      /\ ObservationDim(names) = SumOf(len, 1..n)
  BY DimIs, DimOfPrefix
<1> HIDE DEF n, f, len, o
<1>4. LaidOut(o, f, len, n, Numbers(U))
  <2>1. Pieces(f, len, n, Numbers(U)) /\ n \in Nat
    BY <1>2, Zenon DEF Pieces
  <2> QED
    BY <1>1, <2>1, JoinedLayout, Zenon
<1>5. ASSUME NEW k \in 1..n, NEW i \in 1..Size(names[k])
      PROVE  /\ ObservationDim(SubSeq(names, 1, k - 1)) + i \in 1..Len(o)
             /\ o[ObservationDim(SubSeq(names, 1, k - 1)) + i] = <<names[k], i>>
  <2>1. /\ Len(f[k]) = Size(names[k]) /\ f[k][i] = <<names[k], i>>
        /\ ObservationDim(SubSeq(names, 1, k - 1)) = SumOf(len, 1..(k-1))
    BY <1>2, <1>3, Zenon
  <2>2. /\ SumOf(len, 1..(k-1)) + i \in 1..Len(o)
        /\ o[SumOf(len, 1..(k-1)) + i] = f[k][i]
    BY <1>4, <2>1, Zenon DEF LaidOut
  <2> QED
    BY <2>1, <2>2, Zenon
<1> QED
  BY <1>3, <1>4, <1>5 DEF n, o, LaidOut, AsDeclared

LEMMA DefaultIsValid ==
    /\ DefaultFeatures \in Seq(Catalog) /\ Len(DefaultFeatures) = 4
    /\ ValidFeatures(DefaultFeatures)
<1>1. DefaultFeatures \in Seq(Catalog) /\ Len(DefaultFeatures) = 4
  <2>1. /\ "vehicle_connected" \in Catalog
        /\ "energy_charged_rel_needed" \in Catalog
        /\ "load_level_relative" \in Catalog
        /\ "net_demand_forecast" \in Catalog
    BY DEF Catalog, Series
  <2> QED
    BY <2>1 DEF DefaultFeatures
<1>2. ToSet(DefaultFeatures) \subseteq Catalog
  BY DEF DefaultFeatures, ToSet, Catalog, Series
<1>3. IsInjective(DefaultFeatures)
  BY DEF DefaultFeatures, IsInjective
<1> QED
  BY <1>1, <1>2, <1>3 DEF ValidFeatures

LEMMA CutIsSlice ==
    ASSUME NEW name \in ToSet(DefaultFeatures), NEW o, o = Laid(DefaultFeatures)
    PROVE  SubSeq(o, DefaultStart(name) + 1, DefaultStart(name) + Size(name))
              = Slice(name)
<1> DEFINE I == {i \in 1..Len(DefaultFeatures) : DefaultFeatures[i] = name}
           j == Min(I)
<1>1. DefaultFeatures \in Seq(Catalog) /\ Len(DefaultFeatures) = 4
  BY DefaultIsValid
<1>2. I # {} /\ I \subseteq Nat
  <2>1. DOMAIN DefaultFeatures = 1..Len(DefaultFeatures)
    BY <1>1
  <2>2. PICK i \in DOMAIN DefaultFeatures : DefaultFeatures[i] = name
    BY DEF ToSet
  <2> QED
    BY <1>1, <2>1, <2>2
<1>3. j \in I
  <2> HIDE DEF I
  <2>1. \E x \in I : \A y \in I : x <= y
    BY <1>2, LeastExists
  <2> QED
    BY <2>1 DEF Min
<1>4. j \in 1..Len(DefaultFeatures) /\ DefaultFeatures[j] = name
  BY <1>3
<1>5. DefaultStart(name) = ObservationDim(SubSeq(DefaultFeatures, 1, j - 1))
  BY <1>2 DEF DefaultStart, SelectInSeq
<1> HIDE DEF j
<1>6. /\ o \in Seq(Numbers(Catalog))
      /\ \A i \in 1..Size(name) : /\ DefaultStart(name) + i \in 1..Len(o)
                                  /\ o[DefaultStart(name) + i] = <<name, i>>
  <2>1. AsDeclared(o, DefaultFeatures, Catalog)
    BY <1>1, LayoutIs, Zenon
  <2> QED
    BY <1>4, <1>5, <2>1, Zenon DEF AsDeclared
<1>7. Size(name) \in Nat \ {0}
  <2>1. Horizon \in Nat \ {0} /\ 1 \in Nat \ {0}
    BY HorizonIsPositive
  <2> QED
    BY <2>1 DEF Size
<1>8. DefaultStart(name) \in Int
  <2>1. IsFiniteSet(1..(j-1)) /\ \A k \in 1..(j-1) : Sizes(DefaultFeatures)[k] \in Int
    <3>1. j - 1 \in Nat /\ \A k \in 1..(j-1) : k \in 1..Len(DefaultFeatures)
      BY <1>1, <1>4
    <3>2. IsFiniteSet(1..(j-1))
      BY <3>1, IntervalIsFinite
    <3>3. \A k \in 1..Len(DefaultFeatures) : Sizes(DefaultFeatures)[k] \in Nat
      BY <1>1, SlicesAre
    <3> QED
      BY <3>1, <3>2, <3>3
  <2>2. DefaultStart(name) = SumOf(Sizes(DefaultFeatures), 1..(j-1))
    BY <1>1, <1>4, <1>5, DimOfPrefix
  <2> QED
    BY <2>1, <2>2, SumRules
<1> DEFINE a == DefaultStart(name)
           m == Size(name)
<1>9. \A i \in 1..m : a + i \in 1..Len(o) /\ o[a + i] = <<name, i>>
  BY <1>6
<1>10. Slice(name) = [i \in 1..m |-> <<name, i>>] /\ m \in Nat \ {0} /\ a \in Int
  BY <1>7, <1>8 DEF Slice
<1> HIDE DEF a, m
<1>11. SubSeq(o, a + 1, a + m) = [i \in 1..m |-> <<name, i>>]
  <2> DEFINE part == SubSeq(o, a + 1, a + m)
             pair(i) == <<name, i>>
  <2>1. a + 1 \in 1..Len(o) /\ a + m \in 1..Len(o) /\ Len(o) \in Nat
    BY <1>6, <1>9, <1>10
  <2>2. part = [i \in 1..m |-> o[a + i]]
    BY <1>6, <1>10, <2>1
  <2>3. \A i \in 1..m : o[a + i] = pair(i)
    BY <1>9
  <2> HIDE DEF part, pair
  <2>4. part = [i \in 1..m |-> pair(i)]
    BY <2>2, <2>3
  <2> QED
    BY <2>4 DEF part, pair
<1> QED
  BY <1>10, <1>11 DEF a, m

\* select_observation_from_default cuts out of the default observation the
\* one that assemble_observation would lay out.
LEMMA SelectedIsLaid ==
    ASSUME NEW U, NEW names \in Seq(U)
    PROVE  Select(Laid(DefaultFeatures), names) \in {Failed, Laid(names)}
<1> DEFINE full == Laid(DefaultFeatures)
           n == Len(names)
           D == 1..n
           Cut(name) == SubSeq(full, DefaultStart(name) + 1,
                               DefaultStart(name) + Size(name))
           f == Slices(names)
           P(g) == g = [s \in SUBSET D |->
                          IF s = {} THEN <<>> ELSE g[s \ {Max(s)}] \o Cut(names[Max(s)])]
           g == CHOOSE g : P(g)
<1>1. CASE ~(ToSet(names) \subseteq ToSet(DefaultFeatures))
  BY <1>1 DEF Select
<1>2. CASE ToSet(names) \subseteq ToSet(DefaultFeatures)
  <2>1. Select(full, names) \in {Failed, g[D]}
    <3>1. DOMAIN names = D
      OBVIOUS
    <3>2. FoldLeft(LAMBDA part, name :
                      part \o SubSeq(full, DefaultStart(name) + 1,
                                     DefaultStart(name) + Size(name)),
                   <<>>, names) = g[D]
      <4> HIDE DEF full, D
      <4> QED
        BY <3>1 DEF FoldLeft, MapThenFoldSet, Cut
    <3> HIDE DEF g, full, D
    <3> QED
      BY <3>2 DEF Select
  <2>2. /\ n \in Nat /\ DOMAIN names = D /\ \A k \in D : f[k] \in Seq(Numbers(U))
    BY SlicesAre
  <2>3. \A k \in D : f[k] = Cut(names[k])
    <3> SUFFICES ASSUME NEW k \in D PROVE f[k] = Cut(names[k])
      OBVIOUS
    <3>1. names[k] \in ToSet(DefaultFeatures)
      BY <1>2, <2>2 DEF ToSet
    <3>2. Cut(names[k]) = Slice(names[k])
      BY <3>1, CutIsSlice
    <3> QED
      BY <3>2 DEF Slices
  <2> HIDE DEF n, full, Cut
  <2>4. \A h : JoinsFromLeft(h, n, f) <=> P(h)
    <3>1. \A s \in SUBSET D : s # {} => f[Max(s)] = Cut(names[Max(s)])
      BY <2>2, <2>3, MaxIsFirst
    <3> HIDE DEF f
    <3> QED
      BY <3>1 DEF JoinsFromLeft
  <2> HIDE DEF f, P
  <2>5. P(g)
    BY <2>2, <2>4, LeftJoinExists
  <2> HIDE DEF g
  <2>6. PICK r : Joins(r, n, f) /\ g[D] = r[n]
    BY <2>2, <2>4, <2>5, LeftJoinIs
  <2>7. PICK t : Joins(t, n, f) /\ Laid(names) = t[n]
    BY SlicesAreJoined DEF n, f
  <2>8. r[n] = t[n]
    BY <2>2, <2>6, <2>7, JoinsAgree
  <2> QED
    BY <2>1, <2>6, <2>7, <2>8 DEF full
<1> QED
  BY <1>1, <1>2

\* The observation of a network is laid out as its sidecar declares.
LEMMA AssembledIsAsDeclared ==
    ASSUME NEW U, NEW names \in Seq(U), NEW bank,
           Assemble(bank, names) # Failed
    PROVE  LET before(k) == ObservationDim(SubSeq(names, 1, k - 1))
               full == Assemble(ToSet(DefaultFeatures), DefaultFeatures)
               o == Assemble(bank, names)
           IN  /\ Len(o) = ObservationDim(names)
               /\ \A k \in DOMAIN names : \A i \in 1..Size(names[k]) :
                       o[before(k) + i] = <<names[k], i>>
               /\ Select(full, names) \in {o, Failed}
<1>1. Assemble(bank, names) = Laid(names)
  BY DEF Assemble, Laid, FoldLeft, MapThenFoldSet
<1>2. Assemble(ToSet(DefaultFeatures), DefaultFeatures) = Laid(DefaultFeatures)
  BY DefaultIsValid DEF Assemble, Laid, FoldLeft, MapThenFoldSet
<1>3. AsDeclared(Laid(names), names, U)
  BY LayoutIs
<1>4. Select(Laid(DefaultFeatures), names) \in {Failed, Laid(names)}
  BY SelectedIsLaid
<1>5. DOMAIN names = 1..Len(names)
  OBVIOUS
<1> QED
  BY <1>1, <1>2, <1>3, <1>4, <1>5, Zenon DEF AsDeclared

LEMMA NothingIsLaid ==
    ObservationDim(<<>>) = 0 /\ \A o : Select(o, <<>>) = Failed
<1>1. <<>> \in Seq(STRING) /\ Len(<<>>) = 0 /\ 1..0 = {}
  OBVIOUS
<1>2. ObservationDim(<<>>) = SumOf(Sizes(<<>>), {})
  BY <1>1, DimIs
<1>3. SumOf(Sizes(<<>>), {}) = 0
  <2>1. IsFiniteSet({}) /\ \A x \in {} : Sizes(<<>>)[x] \in Int
    BY FS_EmptySet
  <2> QED
    BY <2>1, SumRules
<1>4. \A o : Select(o, <<>>) = Failed
  BY DEF Select, ValidFeatures
<1> QED
  BY <1>2, <1>3, <1>4

------------------------------------------------------------------------------
(* Every step keeps the invariant, one case for each action.                *)

LEMMA InitOK == Init => IInv
  BY DEF Init, IInv, TypeOK, Places, ErrorOK, OutputsOK, LoadOK, BankOK,
         DecisionOK, RowOK, Primary, ObsOK, NetIsDemandMinusGeneration

\* The assignment of a charger is one of the policies, and has a slug.
LEMMA SlugIsOne ==
    ASSUME TypeOK, pc # "begin"
    PROVE  /\ assigned # None => assigned \in Assignments
           /\ Slug \in Slugs
  BY PoliciesAreAssignments DEF TypeOK, Slug, Slugs, Assignments

\* The `except` of the primary path loses nothing the default policy needs.
LEMMA FailsOK ==
    ASSUME IInv, NEW broken \in BOOLEAN, Fails(broken),
           pc \in Primary \ {"begin"},
           UNCHANGED <<inputs, obs, decision, ran, outputs>>,
           warnings' \subseteq Warnings
    PROVE  IInv'
<1>1. /\ pc' = "fallback" /\ error' = TRUE /\ aborted' \in BOOLEAN
      /\ logs' = logs \cup {"policy"}
      /\ ev' = ev /\ assigned' = assigned /\ decision' = decision
      /\ ran' = ran /\ row' = row /\ answer' = answer
  BY DEF Fails, inputs, outputs, IInv, TypeOK
<1>2. row = None /\ answer = None
  BY DEF IInv, OutputsOK, Primary
<1>3. TypeOK'
  BY <1>1 DEF IInv, TypeOK, Places, Primary
<1> QED
  BY <1>1, <1>2, <1>3
     DEF IInv, ErrorOK, OutputsOK, LoadOK, BankOK, DecisionOK, RowOK, Primary,
         ObsOK, NetIsDemandMinusGeneration

LEMMA BeginOK == ASSUME IInv, Begin PROVE IInv'
<1>1. TypeOK'
  BY DEF Begin, IInv, TypeOK, Places, outputs
<1> QED
  BY <1>1 DEF Begin, IInv, ErrorOK, OutputsOK, LoadOK, BankOK, DecisionOK,
              RowOK, Primary, outputs, ObsOK, NetIsDemandMinusGeneration

LEMMA LoadPolicyOK == ASSUME IInv, LoadPolicy PROVE IInv'
<1>1. CASE Continues("load")
  <2>1. TypeOK'
    BY <1>1 DEF LoadPolicy, Continues, IInv, TypeOK, Places, inputs, outputs
  <2> QED
    BY <1>1, <2>1
       DEF LoadPolicy, Continues, IInv, ErrorOK, OutputsOK, LoadOK, BankOK,
           DecisionOK, RowOK, Primary, inputs, outputs, ObsOK,
           NetIsDemandMinusGeneration
<1>2. CASE Fails(FALSE)
  BY <1>2, FailsOK DEF LoadPolicy, Primary, IInv, TypeOK
<1> QED
  BY <1>1, <1>2 DEF LoadPolicy

LEMMA FetchSiteLoadOK == ASSUME IInv, FetchSiteLoad PROVE IInv'
<1> PICK d \in DemandAnswers, g \in GenerationAnswers :
       LET bundle == SiteLoad(Features, d, g)
       IN  IF bundle = Failed
           THEN Fails(FALSE) /\ UNCHANGED <<load, warnings>>
           ELSE /\ load' = bundle
                /\ answers' = IF bundle = NoLoad THEN None
                              ELSE [demand |-> d, generation |-> g]
                /\ warnings' = IF bundle.warned THEN {"generation"} ELSE {}
                /\ Continues("grid")
  BY DEF FetchSiteLoad
<1> DEFINE bundle == SiteLoad(Features, d, g)
<1>1. CASE bundle = Failed
  BY <1>1, FailsOK DEF FetchSiteLoad, Primary, IInv, TypeOK
<1>2. CASE bundle # Failed
  <2>1. /\ pc = "load" /\ pc' = "grid" /\ load' = bundle
        /\ warnings' = IF bundle.warned THEN {"generation"} ELSE {}
        /\ UNCHANGED <<ev, assigned, obs, decision, ran, error, aborted, logs,
                       row, answer>>
    BY <1>2 DEF FetchSiteLoad, Continues, inputs, outputs
  <2>2. Features' = Features
    BY <2>1 DEF Features, ByAnn, Slug
  <2>3. /\ NeedsDemand(Features) \/ NeedsNet(Features) => bundle.demand # None
        /\ NeedsNet(Features) /\ bundle.generation = None => bundle.warned
    BY <1>2, LoadIsComplete
  <2> HIDE DEF bundle
  <2>4. TypeOK'
    BY <2>1 DEF IInv, TypeOK, Places, Warnings
  <2>5. LoadOK'
    BY <2>1, <2>2, <2>3 DEF LoadOK
  <2>6. NetIsDemandMinusGeneration'
    <3> SUFFICES ASSUME load'.net # None, answers' # None, NEW i \in 1..Horizon
                 PROVE  load'.net[i] = MeterSum(answers'.demand, i)
                           - (IF load'.generation = None THEN 0
                              ELSE MeterSum(answers'.generation, i))
      BY DEF NetIsDemandMinusGeneration
    <3>1. /\ bundle # NoLoad /\ bundle.net # None
          /\ answers' = [demand |-> d, generation |-> g]
      <4>1. answers' = IF bundle = NoLoad THEN None
                       ELSE [demand |-> d, generation |-> g]
        BY <1>2 DEF bundle
      <4> QED
        BY <2>1, <4>1
    <3>2. d \in MeterAnswers /\ g \in MeterAnswers
      BY MetersAnswer
    <3>3. bundle.net[i] = MeterSum(d, i)
             - (IF bundle.generation = None THEN 0 ELSE MeterSum(g, i))
      BY <1>2, <3>1, <3>2, NetIsDifference DEF bundle
    <3> QED
      BY <2>1, <3>1, <3>3
  <2> QED
    BY <2>1, <2>4, <2>5, <2>6
       DEF IInv, ErrorOK, OutputsOK, BankOK, DecisionOK, RowOK, Primary, ObsOK
<1> QED
  BY <1>1, <1>2

LEMMA FetchGridOK == ASSUME IInv, FetchGrid PROVE IInv'
<1>1. CASE Fails(FALSE)
  BY <1>1, FailsOK DEF FetchGrid, Primary, IInv, TypeOK
<1>2. CASE Continues("observe")
  <2>1. /\ pc = "grid" /\ pc' = "observe"
        /\ UNCHANGED <<ev, assigned, load, obs, decision, ran, error, aborted,
                       warnings, logs, row, answer>>
    BY <1>2 DEF FetchGrid, Continues, inputs, outputs
  <2>2. Features' = Features
    BY <2>1 DEF Features, ByAnn, Slug
  <2>3. TypeOK'
    BY <2>1 DEF IInv, TypeOK, Places
  <2>4. LoadOK'
    BY <2>1, <2>2 DEF IInv, LoadOK
  <2> QED
    BY <2>1, <2>3, <2>4
       DEF IInv, ErrorOK, OutputsOK, BankOK, DecisionOK, RowOK, Primary, ObsOK,
           NetIsDemandMinusGeneration
<1> QED
  BY <1>1, <1>2 DEF FetchGrid

LEMMA QueryFailsOK == ASSUME IInv, QueryFails PROVE IInv'
  BY FailsOK DEF QueryFails, Primary, IInv, TypeOK

LEMMA ObserveOK == ASSUME IInv, Observe PROVE IInv'
<1>1. CASE Fails(FALSE)
  <2>1. UNCHANGED obs
    BY <1>1 DEF Observe, Fails, Continues
  <2> QED
    BY <1>1, <2>1, FailsOK DEF Observe, Primary, IInv, TypeOK
<1>2. CASE Continues("compute")
  <2>1. /\ pc = "observe" /\ pc' = "compute"
        /\ UNCHANGED <<ev, assigned, load, grid, decision, ran, error, aborted,
                       warnings, logs, row, answer>>
    BY <1>2 DEF Observe, Continues, inputs, outputs
  <2>2. Features' = Features
    BY <2>1 DEF Features, ByAnn, Slug
  <2>3. TypeOK'
    BY <2>1 DEF IInv, TypeOK, Places
  <2>4. LoadOK'
    BY <2>1, <2>2 DEF IInv, LoadOK
  <2>5. /\ NeedsGeneration(Features) => load.generation # None
        /\ NeedsGrid(Features) => grid # None
    <3>1. CASE Features = <<>>
      BY <3>1, NoFeaturesNoNeeds
    <3>2. CASE Features # <<>>
      <4>1. Prepare(ev, load, grid, Features) # Failed
        BY <1>2, <3>2 DEF Observe, Fails, Continues
      <4> QED
        BY <4>1, ObservationIsComplete
    <3> QED
      BY <3>1, <3>2
  <2>6. BankOK'
    BY <2>1, <2>2, <2>5 DEF BankOK
  <2>7. ObsOK'
    BY <1>2, <2>1, <2>2 DEF Observe, Fails, Continues, ObsOK
  <2> QED
    BY <2>1, <2>3, <2>4, <2>6, <2>7
       DEF IInv, ErrorOK, OutputsOK, DecisionOK, RowOK, Primary,
           NetIsDemandMinusGeneration
<1> QED
  BY <1>1, <1>2 DEF Observe

\* A policy that is in its place makes a decision that is its own.
LEMMA DecidedOK ==
    ASSUME IInv, pc \in {"compute", "fallback"},
           NEW raw \in Decisions, NEW by \in Slugs, Decided(raw, by),
           by = IF error THEN "default" ELSE Slug,
           UNCHANGED <<inputs, load, grid, error, outputs>>,
           aborted' \in BOOLEAN, aborted => aborted',
           warnings \subseteq warnings', warnings' \subseteq Warnings,
           logs' \subseteq logs \cup {"wind"}
    PROVE  IInv'
<1>1. /\ pc' = "persist" /\ ran' = by
      /\ decision' = Corrected(raw, ev.full, TRUE, ev.nominal)
      /\ ev' = ev /\ assigned' = assigned /\ load' = load /\ grid' = grid
      /\ error' = error /\ row' = row /\ answer' = answer
  BY DEF Decided, inputs, outputs
<1>2. /\ Features' = Features /\ Slug' = Slug
  BY <1>1 DEF Features, ByAnn, Slug
<1>3. /\ ev \in Events /\ ev.full \in BOOLEAN /\ ev.nominal \in Int
  BY EventFields DEF IInv, TypeOK
<1>4. /\ decision' \in Decisions
      /\ decision'.action = "charge" =>
            ~ev.full /\ (decision'.power # None => decision'.power <= ev.nominal)
  BY <1>1, <1>3, CorrectedIsFeasible
<1>5. TypeOK'
  BY <1>1, <1>4, NoneIsFresh DEF IInv, TypeOK, Places
<1>7. DecisionOK'
  <2>1. (decision.action = "charge" =>
            ~ev.full /\ (decision.power # None => decision.power <= ev.nominal))'
    BY <1>1, <1>4
  <2>2. (ran = IF error THEN "default" ELSE Slug)'
    BY <1>1, <1>2
  <2> QED
    BY <2>1, <2>2 DEF DecisionOK
<1>8. LoadOK' /\ BankOK'
  <2>1. error \/ pc = "compute"
    BY DEF IInv, ErrorOK
  <2> QED
    BY <1>1, <1>2, <2>1 DEF IInv, LoadOK, BankOK
<1> QED
  BY <1>1, <1>5, <1>7, <1>8
     DEF IInv, ErrorOK, OutputsOK, RowOK, Primary, ObsOK,
         NetIsDemandMinusGeneration

LEMMA ComputeWindMaxOK == ASSUME IInv, ComputeWindMax PROVE IInv'
<1> PICK w \in WindAnswers :
       LET reading == WindReading(w)
           excess  == IF reading = None THEN 0 ELSE reading
       IN  /\ Decided(WindMaxAction(ev, excess), "wind_max")
           /\ warnings' = warnings \cup (IF reading = None THEN {"wind"} ELSE {})
           /\ logs' = logs \cup (IF w = Failed THEN {"wind"} ELSE {})
           /\ aborted' \in {aborted} \cup (IF w = Failed THEN {TRUE} ELSE {})
  BY DEF ComputeWindMax
<1> DEFINE excess == IF WindReading(w) = None THEN 0 ELSE WindReading(w)
           raw == WindMaxAction(ev, excess)
<1>1. /\ Decided(raw, "wind_max")
      /\ warnings \subseteq warnings' /\ warnings' \subseteq warnings \cup {"wind"}
      /\ logs' \subseteq logs \cup {"wind"}
  OBVIOUS
<1>2. raw \in Decisions
  BY WindDecides DEF ComputeWindMax, IInv, TypeOK
<1>3. ~error /\ Slug = "wind_max" /\ pc = "compute"
  BY DEF ComputeWindMax, IInv, ErrorOK, Primary
<1>4. warnings' \subseteq Warnings
  BY <1>1 DEF IInv, TypeOK, Warnings
<1>5. /\ UNCHANGED <<inputs, load, grid, error, outputs>>
      /\ aborted' \in BOOLEAN /\ (aborted => aborted')
  BY DEF ComputeWindMax, IInv, TypeOK
<1> HIDE DEF raw
<1> QED
  BY <1>1, <1>2, <1>3, <1>4, <1>5, DecidedOK DEF Slugs

LEMMA ComputeDefaultOK == ASSUME IInv, ComputeDefault PROVE IInv'
<1>1. ~error /\ Slug = "default" /\ pc = "compute"
  BY DEF ComputeDefault, IInv, ErrorOK, Primary
<1>2. Decided(DefaultAction(ev), "default") /\ DefaultAction(ev) \in Decisions
  BY DefaultDecides DEF ComputeDefault
<1>3. /\ UNCHANGED <<inputs, load, grid, error, outputs>>
      /\ aborted' \in BOOLEAN /\ (aborted => aborted')
      /\ warnings' = warnings /\ logs' = logs /\ warnings \subseteq Warnings
  BY DEF ComputeDefault, IInv, TypeOK
<1> QED
  BY <1>1, <1>2, <1>3, DecidedOK DEF Slugs

LEMMA ComputeAnnOK == ASSUME IInv, ComputeAnn PROVE IInv'
<1> PICK best \in 0 .. (assigned.outputs - 1) :
       LET raw == AnnAction(assigned, obs, best)
       IN  IF raw = Failed
           THEN Fails(FALSE) /\ UNCHANGED <<decision, ran>>
           ELSE /\ Decided(raw, "ann")
                /\ UNCHANGED <<answers, error, aborted, logs>>
  BY DEF ComputeAnn
<1> DEFINE raw == AnnAction(assigned, obs, best)
<1>1. CASE raw = Failed
  BY <1>1, FailsOK DEF ComputeAnn, Primary, IInv, TypeOK
<1>2. CASE raw # Failed
  <2>1. ~error /\ Slug = "ann" /\ pc = "compute"
    BY DEF ComputeAnn, ByAnn, IInv, ErrorOK, Primary
  <2>2. assigned \in Assignments
    BY <2>1, SlugIsOne DEF Slug, IInv
  <2>3. raw \in Decisions /\ Decided(raw, "ann")
    BY <1>2, <2>2, AnnDecides
  <2>4. /\ UNCHANGED <<inputs, load, grid, error, outputs>>
        /\ aborted' \in BOOLEAN /\ (aborted => aborted')
        /\ warnings' = warnings /\ logs' = logs /\ warnings \subseteq Warnings
    BY <1>2 DEF ComputeAnn, IInv, TypeOK
  <2> HIDE DEF raw
  <2> QED
    BY <2>1, <2>3, <2>4, DecidedOK DEF Slugs
<1> QED
  BY <1>1, <1>2

LEMMA FallbackOK == ASSUME IInv, Fallback PROVE IInv'
<1>1. error /\ pc = "fallback"
  BY DEF Fallback, IInv, ErrorOK
<1>2. Decided(DefaultAction(ev), "default") /\ DefaultAction(ev) \in Decisions
  BY DefaultDecides DEF Fallback
<1>3. /\ UNCHANGED <<inputs, load, grid, error, outputs>>
      /\ aborted' \in BOOLEAN /\ (aborted => aborted')
      /\ warnings' = warnings /\ logs' = logs /\ warnings \subseteq Warnings
  BY DEF Fallback, IInv, TypeOK
<1> QED
  BY <1>1, <1>2, <1>3, DecidedOK DEF Slugs

LEMMA PersistOK == ASSUME IInv, Persist PROVE IInv'
<1>1. /\ pc = "persist"
      /\ UNCHANGED <<ev, assigned, load, grid, decision, ran, error, aborted,
                     warnings, logs>>
  BY DEF Persist, inputs
<1>2. /\ Features' = Features /\ Slug' = Slug
  BY <1>1 DEF Features, ByAnn, Slug
<1>3. CASE aborted
  <2>1. pc' = "raised" /\ row' = row /\ answer' = answer
    BY <1>3 DEF Persist, outputs
  <2>2. TypeOK'
    BY <1>1, <2>1 DEF IInv, TypeOK, Places
  <2> QED
    BY <1>1, <1>3, <2>1, <2>2
       DEF IInv, ErrorOK, OutputsOK, LoadOK, BankOK, DecisionOK, RowOK, Primary,
           ObsOK, NetIsDemandMinusGeneration
<1>4. CASE ~aborted
  <2>1. /\ pc' = "done"
        /\ row' = [suggested |-> decision.action, power |-> decision.power,
                   executed |-> Executed, error |-> error,
                   series |-> StoredSeries, warnings |-> warnings]
        /\ answer' = [charge |-> decision.action = "charge",
                      power |-> decision.power, warning |-> error]
    BY <1>4 DEF Persist
  <2>2. decision \in Decisions
    BY <1>1 DEF IInv, TypeOK
  <2>3. answer' \in Answers
    BY <2>1, <2>2 DEF Answers, Decisions, IInv, TypeOK
  <2>4. TypeOK'
    BY <1>1, <2>1, <2>3, NoneIsFresh DEF IInv, TypeOK, Places
  <2>5. RowOK'
    BY <1>1, <1>2, <2>1 DEF RowOK, Executed
  <2>6. LoadOK' /\ BankOK' /\ DecisionOK'
    BY <1>1, <1>2, <2>1 DEF IInv, LoadOK, BankOK, DecisionOK
  <2> QED
    BY <2>1, <2>4, <2>5, <2>6
       DEF IInv, ErrorOK, OutputsOK, Primary, ObsOK, NetIsDemandMinusGeneration
<1> QED
  BY <1>3, <1>4

LEMMA StepOK == IInv /\ [Next]_vars => IInv'
<1> SUFFICES ASSUME IInv, [Next]_vars PROVE IInv'
  OBVIOUS
<1>1. CASE UNCHANGED vars
  BY <1>1 DEF vars, IInv, TypeOK, ErrorOK, OutputsOK, LoadOK, BankOK,
              DecisionOK, RowOK, Features, ByAnn, Slug, Executed, ObsOK,
              NetIsDemandMinusGeneration
<1>2. CASE Handler
  BY <1>2, BeginOK, LoadPolicyOK, FetchSiteLoadOK, FetchGridOK, QueryFailsOK,
     ObserveOK, ComputeWindMaxOK, ComputeDefaultOK, ComputeAnnOK, FallbackOK,
     PersistOK DEF Handler
<1> QED
  BY <1>1, <1>2 DEF Next, Ended

LEMMA Invariance == Spec => []IInv
  BY InitOK, StepOK, PTL DEF Spec

\* No grid statistics before they are fetched, and a balance once they are.
GridInv ==
    /\ pc \in {"begin", "policy", "load", "grid"} => grid = None
    /\ GridIsBalanced

LEMMA FetchGridBalances ==
    ASSUME GridInv, FetchGrid, pc' = "observe", grid' # None
    PROVE  Balanced(answers'.maps, answers'.net, grid')
<1>1. PICK g \in GridAnswers \ {Failed} :
         /\ grid' = GridStats(NetSeries(g.imports, g.exports)) /\ grid' # Failed
         /\ answers' = [maps |-> g, net |-> NetSeries(g.imports, g.exports)]
  BY DEF FetchGrid, Fails, Continues, GridInv
<1>2. AreSensorMaps(g.imports) /\ AreSensorMaps(g.exports)
  BY SensorsAnswer
<1>3. answers'.maps = g /\ answers'.net = NetSeries(g.imports, g.exports)
  BY <1>1
<1> QED
  BY <1>1, <1>2, <1>3, GridBalances

LEMMA GridKept == GridInv /\ [Next]_vars => GridInv'
<1> SUFFICES ASSUME GridInv, [Next]_vars PROVE GridInv'
  OBVIOUS
<1>1. CASE FetchGrid
  <2>1. (pc = "observe" /\ grid # None => Balanced(answers.maps, answers.net, grid))'
    BY <1>1, FetchGridBalances
  <2>2. GridIsBalanced'
    BY <2>1 DEF GridIsBalanced, Balanced, Reported, Mean
  <2>3. pc' \in {"observe", "fallback"}
    BY <1>1 DEF FetchGrid, Fails, Continues
  <2> QED
    BY <2>2, <2>3 DEF GridInv
<1>2. CASE UNCHANGED vars \/ Ended
  <2>1. pc' = pc /\ grid' = grid /\ answers' = answers
    BY <1>2 DEF vars, Ended
  <2>2. pc = "observe" /\ grid # None => Balanced(answers.maps, answers.net, grid)
    BY DEF GridInv, GridIsBalanced, Balanced, Reported, Mean
  <2>3. (pc = "observe" /\ grid # None => Balanced(answers.maps, answers.net, grid))'
    BY <2>1, <2>2
  <2>4. GridIsBalanced'
    BY <2>3 DEF GridIsBalanced, Balanced, Reported, Mean
  <2> QED
    BY <2>1, <2>4 DEF GridInv
<1>3. CASE Begin \/ LoadPolicy \/ FetchSiteLoad
  <2>1. /\ pc \in {"begin", "policy", "load"} /\ grid' = grid
        /\ pc' # "observe"
    BY <1>3 DEF Begin, LoadPolicy, FetchSiteLoad, Continues, Fails
  <2> QED
    BY <2>1 DEF GridInv, GridIsBalanced
<1>4. CASE \/ QueryFails \/ Observe \/ ComputeWindMax \/ ComputeDefault
           \/ ComputeAnn \/ Fallback \/ Persist
  <2>1. pc' \in {"fallback", "compute", "persist", "done", "raised"}
    BY <1>4 DEF QueryFails, Observe, ComputeWindMax, ComputeDefault, ComputeAnn,
                Fallback, Persist, Continues, Fails, Decided
  <2> QED
    BY <2>1 DEF GridInv, GridIsBalanced
<1> QED
  BY <1>1, <1>2, <1>3, <1>4 DEF Next, Handler

------------------------------------------------------------------------------
(* The theorems. *)

(***************************************************************************)
(* Types: a decision and an answer have the forms the schema declares, and  *)
(* a part of the handler that needs a result of an earlier part has it.     *)
(***************************************************************************)
THEOREM TypeCorrect == Spec => []TypeOK
  BY Invariance, PTL DEF IInv

(***************************************************************************)
(* Whichever policy decided, and whatever failed before, the answer of      *)
(* compute_and_save_action charges no full vehicle and asks no charger for  *)
(* more than its nominal power.                                             *)
(***************************************************************************)
THEOREM AnswersAreFeasible == Spec => []FeasibleAnswer
<1>1. ASSUME IInv, answer # None, answer.charge
      PROVE  ~ev.full /\ (answer.power # None => answer.power <= ev.nominal)
  <2>1. /\ pc = "done" /\ decision.action = "charge"
        /\ answer.power = decision.power
    BY <1>1 DEF IInv, OutputsOK, RowOK
  <2> QED
    BY <1>1, <2>1 DEF IInv, DecisionOK
<1>2. IInv => FeasibleAnswer
  BY <1>1 DEF FeasibleAnswer
<1> QED
  BY <1>2, Invariance, PTL

(***************************************************************************)
(* The stored row names the policy that computed the decision, and when     *)
(* that is not the assigned one the row and the client say so.              *)
(***************************************************************************)
THEOREM RowsNameTheirDecider == Spec => []RowNamesTheDecider
<1>1. ASSUME IInv, row # None
      PROVE  /\ ran = IF row.executed = None THEN "default" ELSE row.executed
             /\ ran # Slug => answer.warning /\ row.error
  <2>1. /\ pc = "done" /\ row.executed = Executed /\ row.error = error
        /\ answer.warning = error
        /\ ran = IF error THEN "default" ELSE Slug
    BY <1>1 DEF IInv, OutputsOK, DecisionOK, RowOK
  <2>2. Slug # None /\ "default" # None
    BY <1>1, <2>1, SlugIsOne, NoneIsFresh DEF IInv, Slugs
  <2>3. ran = IF row.executed = None THEN "default" ELSE row.executed
    BY <2>1, <2>2 DEF Executed, Slug
  <2>4. error \in BOOLEAN
    BY <1>1 DEF IInv, TypeOK
  <2> QED
    BY <2>1, <2>3, <2>4
<1>2. IInv => RowNamesTheDecider
  BY <1>1 DEF RowNamesTheDecider
<1> QED
  BY <1>2, Invariance, PTL

(***************************************************************************)
(* A network that decided had every series it reads; when its net load is   *)
(* the demand alone, the stored row says that the generation was missing.   *)
(***************************************************************************)
THEOREM NothingMadeUp == Spec => []NothingIsMadeUp
<1>1. ASSUME IInv, row # None, ran = "ann"
      PROVE  /\ pc = "done" /\ ~error /\ row.warnings = warnings
  BY <1>1 DEF IInv, OutputsOK, DecisionOK, RowOK
<1>2. IInv => NothingIsMadeUp
  BY <1>1 DEF IInv, LoadOK, BankOK, NothingIsMadeUp
<1> QED
  BY <1>2, Invariance, PTL

(***************************************************************************)
(* The net load of fetch_site_load_for_features is, step by step, what the  *)
(* meters of the demand add up to less what those of the generation do.     *)
(***************************************************************************)
THEOREM NetLoadIsReckoned == Spec => []NetIsDemandMinusGeneration
  BY Invariance, PTL DEF IInv

(***************************************************************************)
(* However the sensors' clocks differ, the series that build_net_series_kw  *)
(* hands to the grid's statistics has one entry for each box of time in     *)
(* which a sensor reported, and adds up to what the import sensors measured *)
(* less what the export sensors did; its quantiles are ordered.             *)
(***************************************************************************)
THEOREM GridIsInBalance == Spec => []GridIsBalanced
<1>1. Init => GridInv
  BY DEF Init, GridInv, GridIsBalanced
<1>2. GridInv => GridIsBalanced
  BY DEF GridInv
<1> QED
  BY <1>1, <1>2, GridKept, PTL DEF Spec

(***************************************************************************)
(* A network reads what its sidecar declares: assemble_observation puts each*)
(* feature at the place that obs_layout gives it, and so does the selection *)
(* from the default observation.                                            *)
(***************************************************************************)
THEOREM ObservationsAreDeclared == Spec => []ObservationIsAsDeclared
<1>1. ASSUME IInv, ByAnn, pc = "compute" PROVE ObservationIsAsDeclared
  <2>1. Features = assigned.features /\ assigned \in Assignments
    BY <1>1, SlugIsOne DEF Features, ByAnn, Slug, IInv
  <2>2. Features \in Seq(STRING)
    BY <2>1 DEF Assignments
  <2>3. CASE Features = <<>>
    <3>1. obs = <<>>
      BY <1>1, <2>3 DEF IInv, ObsOK
    <3>2. Len(<<>>) = 0 /\ DOMAIN <<>> = {}
      OBVIOUS
    <3> QED
      BY <2>1, <2>3, <3>1, <3>2, NothingIsLaid DEF ObservationIsAsDeclared
  <2>4. CASE Features # <<>>
    <3>1. obs = Prepare(ev, load, grid, Features) /\ obs # Failed
      BY <1>1, <2>4 DEF IInv, ObsOK
    <3>2. obs = Assemble(FeatureBank(ev, load, grid), Features)
      BY <3>1 DEF Prepare
    <3> QED
      BY <2>1, <2>2, <3>1, <3>2, AssembledIsAsDeclared
         DEF ObservationIsAsDeclared
  <2> QED
    BY <2>3, <2>4
<1>2. IInv => ObservationIsAsDeclared
  BY <1>1 DEF ObservationIsAsDeclared
<1> QED
  BY <1>2, Invariance, PTL

(***************************************************************************)
(* compute_and_save_action raises in an aborted transaction only: any other *)
(* failure ends in a decision.                                              *)
(***************************************************************************)
THEOREM OnlyAbortedRaises == Spec => [](pc = "raised" => aborted)
<1>1. IInv => (pc = "raised" => aborted)
  BY DEF IInv, ErrorOK
<1> QED
  BY <1>1, Invariance, PTL
=============================================================================
