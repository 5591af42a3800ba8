------------------------- MODULE ForecastJobsProofs -------------------------
(***************************************************************************)
(* Proofs about ForecastJobs, for any number of workers, tasks and edits of *)
(* the job: the types, that a series is the work of a model its job may     *)
(* use, that it is sound for the vehicles it starts from, and that the      *)
(* series the API returns never goes back.                                  *)
(***************************************************************************)
EXTENDS ForecastJobs, FoldProofs

-----------------------------------------------------------------------------
(* What a simulation and a regression can yield. *)

\* A vehicle in a simulation; its time may have run out before its energy.
Vehicles == [time : Int, energy : Nat]

\* The vehicles that a charger may hold when now[c] of them were connected.
Room(now) ==
    [c \in Chargers |->
        IF c \in Stations THEN Larger(Capacity[c], now[c]) ELSE now[c]]

\* A state of the simulation.
Fits(state, now) ==
    /\ state \in [Chargers -> Seq(Vehicles)]
    /\ \A c \in Chargers : Len(state[c]) <= Room(now)[c]

LEMMA PoolIsVehicles == /\ Pool \subseteq Vehicles /\ Plausible \subseteq Vehicles
                        /\ Safe \in Vehicles /\ Conservative \in Vehicles
  BY PoolIsOfSessions DEF Vehicles, Plausible, Safe, Conservative, Vehicle

LEMMA SamplesAre ==
    ASSUME NEW n \in Nat, NEW x \in Samples(n)
    PROVE  x \in Seq(Vehicles) /\ Len(x) <= n /\ Len(x) \in Nat
<1>1. PICK k \in 0..n : x \in [1..k -> Plausible]
  BY DEF Samples
<1>2. x \in [1..k -> Vehicles]
  BY <1>1, PoolIsVehicles
<1> QED
  BY <1>2

\* update() leaves as many vehicles at a charger as were seen there.
LEMMA ReconcileIs ==
    ASSUME NEW s, NEW n \in Nat, NEW x \in Reconcile(s, n)
    PROVE  x \in Seq(Vehicles) /\ Len(x) = n
<1>1. CASE s \in Stations
  <2>1. PICK new \in Samples(n) : x = new \o [k \in 1 .. n - Len(new) |-> Safe]
    BY <1>1 DEF Reconcile
  <2>2. new \in Seq(Vehicles) /\ Len(new) <= n /\ Len(new) \in Nat
    BY SamplesAre
  <2> DEFINE rest == [k \in 1 .. n - Len(new) |-> Safe]
  <2>3. n - Len(new) \in Nat
    BY <2>2
  <2>4. rest \in Seq(Vehicles) /\ Len(rest) = n - Len(new)
    BY <2>3, PoolIsVehicles
  <2> HIDE DEF rest
  <2> QED
    BY <2>1, <2>2, <2>4, ConcatAt DEF rest
<1>2. CASE s \notin Stations
  <2>1. x \in [1..n -> Vehicles]
    BY <1>2, PoolIsVehicles DEF Reconcile
  <2> QED
    BY <2>1
<1> QED
  BY <1>1, <1>2

LEMMA ReconciledFits ==
    ASSUME NEW now \in [Chargers -> Nat], NEW f \in Reconciled(now)
    PROVE  Fits(f, now) /\ \A c \in Chargers : Len(f[c]) = now[c]
<1>1. DOMAIN f = Chargers /\ f = [c \in Chargers |-> f[c]]
  BY DEF Reconciled
<1>2. \A c \in Chargers : f[c] \in Reconcile(c, now[c])
  BY DEF Reconciled
<1>3. \A c \in Chargers : f[c] \in Seq(Vehicles) /\ Len(f[c]) = now[c]
  BY <1>2, ReconcileIs
<1>4. \A c \in Chargers : now[c] <= Room(now)[c]
  BY CapacityIsNat DEF Room, Larger
<1> QED
  BY <1>1, <1>3, <1>4 DEF Fits

\* Arrivals fill a station up to its capacity.
LEMMA AdmittedIs ==
    ASSUME NEW s \in Stations, NEW evs \in Seq(Vehicles), NEW n \in Nat,
           NEW x \in Admitted(s, evs, n), NEW room \in Nat,
           Capacity[s] <= room, Len(evs) <= room
    PROVE  x \in Seq(Vehicles) /\ Len(x) <= room
<1> DEFINE m == Smaller(n, FreeSlots(s, evs))
<1>1. m \in Nat /\ Len(evs) + m <= room
  BY CapacityIsNat DEF Smaller, FreeSlots
<1>2. PICK new \in Samples(m) : x = evs \o new
  BY DEF Admitted
<1> HIDE DEF m
<1>3. new \in Seq(Vehicles) /\ Len(new) <= m /\ Len(new) \in Nat
  BY <1>1, SamplesAre
<1>4. x \in Seq(Vehicles) /\ Len(x) = Len(evs) + Len(new)
  BY <1>2, <1>3, ConcatAt
<1> QED
  BY <1>1, <1>3, <1>4

\* A step adds no vehicle.
LEMMA AfterStepIs ==
    ASSUME NEW evs \in Seq(Vehicles)
    PROVE  AfterStep(evs) \in Seq(Vehicles) /\ Len(AfterStep(evs)) <= Len(evs)
<1> DEFINE charged == [k \in DOMAIN evs |-> Charged(evs[k])]
           S == {k \in DOMAIN evs : charged[k].energy > 0 \/ charged[k].time > 0}
           n == Cardinality(S)
           stay == Ascending(S)
           after == [i \in DOMAIN stay |-> charged[stay[i]]]
<1>1. \A k \in DOMAIN evs : charged[k] \in Vehicles
  <2>1. ASSUME NEW v \in Vehicles PROVE Charged(v) \in Vehicles
    BY PowerIsPositive DEF Charged, Vehicle, Vehicles
  <2> QED
    BY <2>1
<1>2. S \subseteq 1..Len(evs) /\ S \subseteq Int /\ DOMAIN evs = 1..Len(evs)
  OBVIOUS
<1>3. IsFiniteSet(S) /\ n <= Len(evs)
  <2>1. IsFiniteSet(1..Len(evs)) /\ Cardinality(1..Len(evs)) = Len(evs)
    BY IntervalSize
  <2> DEFINE D == 1..Len(evs)
  <2>2. S \subseteq D /\ IsFiniteSet(D) /\ Cardinality(D) = Len(evs)
    BY <1>2, <2>1
  <2> HIDE DEF S, D
  <2> QED
    BY <2>2, FS_Subset
<1>4. /\ n \in Nat /\ DOMAIN stay = 1..n
      /\ \A i \in 1..n : stay[i] \in S
  <2> HIDE DEF S
  <2>1. DOMAIN stay = 1..n
    BY DEF Ascending
  <2> QED
    BY <1>2, <1>3, <2>1, AscendingIs
<1>5. after \in [1..n -> Vehicles]
  <2> HIDE DEF S, charged, stay, n
  <2> QED
    BY <1>1, <1>2, <1>4
<1>6. AfterStep(evs) = after
  BY DEF AfterStep
<1> HIDE DEF after, n
<1> QED
  BY <1>3, <1>4, <1>5, <1>6

LEMMA NextFits ==
    ASSUME NEW now \in [Chargers -> Nat], NEW f, Fits(f, now), NEW g \in NextStates(f)
    PROVE  Fits(g, now)
<1>1. DOMAIN f = Chargers /\ Stations \subseteq Chargers
  BY DEF Fits, Chargers
<1>2. PICK h : /\ DOMAIN h = Chargers /\ g = Simulated(h)
               /\ \A c \in Chargers :
                     IF c \in Stations
                     THEN \E n \in Arrivals : h[c] \in Admitted(c, f[c], n)
                     ELSE h[c] = f[c]
  BY <1>1 DEF NextStates
<1>3. ASSUME NEW c \in Chargers
      PROVE  h[c] \in Seq(Vehicles) /\ Len(h[c]) <= Room(now)[c]
  <2>1. f[c] \in Seq(Vehicles) /\ Len(f[c]) <= Room(now)[c]
    BY DEF Fits
  <2>2. CASE c \in Stations
    <3>1. Room(now)[c] \in Nat /\ Capacity[c] <= Room(now)[c]
      BY <2>2, CapacityIsNat DEF Room, Larger
    <3>2. PICK n \in Arrivals : h[c] \in Admitted(c, f[c], n)
      BY <1>2, <2>2
    <3>3. n \in Nat
      BY ArrivalsAreCounts
    <3> QED
      BY <2>1, <2>2, <3>1, <3>2, <3>3, AdmittedIs
  <2>3. CASE c \notin Stations
    BY <1>2, <2>1, <2>3
  <2> QED
    BY <2>2, <2>3
<1>4. g = [c \in Chargers |-> AfterStep(h[c])]
  BY <1>2 DEF Simulated
<1>5. ASSUME NEW c \in Chargers
      PROVE  g[c] \in Seq(Vehicles) /\ Len(g[c]) <= Room(now)[c]
  <2>1. g[c] \in Seq(Vehicles) /\ Len(g[c]) <= Len(h[c])
    BY <1>3, <1>4, AfterStepIs
  <2>2. Room(now)[c] \in Int
    BY CapacityIsNat DEF Room, Larger
  <2>3. Len(g[c]) \in Nat /\ Len(h[c]) \in Nat
    BY <1>3, <2>1
  <2> QED
    BY <1>3, <2>1, <2>2, <2>3
<1> QED
  BY <1>4, <1>5 DEF Fits

\* What a step of a series says of the vehicles that are there.
RowFits(row, now) ==
    /\ row.presence \in Nat /\ row.energy \in Nat
    /\ row.presence <= Sum(Room(now))
    /\ row.energy <= Power * row.presence

LEMMA SumOfFunction ==
    ASSUME NEW f, NEW D, DOMAIN f = D
    PROVE  Sum(f) = SumOf(f, D)
  BY Zenon DEF Sum, SumOf

\* The vehicles of a charger take what they need, at most a step's worth each.
LEMMA TakenIs ==
    ASSUME NEW evs \in Seq(Vehicles)
    PROVE  Taken(evs) \in Nat /\ Taken(evs) <= Power * Len(evs)
<1> DEFINE D == 1..Len(evs)
           f == [k \in D |-> Smaller(evs[k].energy, Power)]
           one == [k \in D |-> 1]
<1>1. IsFiniteSet(D) /\ Cardinality(D) = Len(evs)
  BY IntervalSize
<1>2. DOMAIN evs = D
  OBVIOUS
<1>3. Taken(evs) = SumOf(f, D)
  <2>1. Taken(evs) = Sum(f)
    BY <1>2, Zenon DEF Taken
  <2>2. DOMAIN f = D
    OBVIOUS
  <2> HIDE DEF f, D
  <2> QED
    BY <2>1, <2>2, SumOfFunction
<1>4. \A k \in D : f[k] \in Nat /\ f[k] <= Power /\ one[k] = 1
  <2>1. ASSUME NEW k \in D PROVE f[k] \in Nat /\ f[k] <= Power
    <3>1. evs[k] \in Vehicles /\ f[k] = Smaller(evs[k].energy, Power)
      BY <1>2
    <3>2. evs[k].energy \in Nat
      BY <3>1 DEF Vehicles
    <3> HIDE DEF f
    <3> QED
      BY <3>1, <3>2, PowerIsPositive DEF Smaller
  <2> QED
    BY <2>1
<1>5. \A k \in D : f[k] \in Int /\ one[k] \in Int /\ f[k] <= Power * one[k]
  <2> HIDE DEF D, f, one
  <2> QED
    BY <1>4, PowerIsPositive
<1> HIDE DEF D, f, one
<1>6. SumOf(f, D) \in Nat
  BY <1>1, <1>4, SumIsNat
<1>7. SumOf(f, D) <= Power * SumOf(one, D)
  <2>1. Power \in Int
    BY PowerIsPositive
  <2> QED
    BY <1>1, <1>5, <2>1, SumsCompare
<1>8. SumOf(one, D) = Cardinality(D)
  BY <1>1, <1>4, SumOfOnes
<1> QED
  BY <1>1, <1>3, <1>6, <1>7, <1>8

LEMMA RowIs ==
    ASSUME NEW now \in [Chargers -> Nat], NEW state, Fits(state, now)
    PROVE  RowFits(RowOf(state), now)
<1> DEFINE len == [s \in Chargers |-> Len(state[s])]
           taken == [s \in Chargers |-> Taken(state[s])]
           room == Room(now)
<1>1. IsFiniteSet(Chargers)
  BY ChargersAreFinite DEF Chargers
<1>2. /\ DOMAIN state = Chargers /\ DOMAIN room = Chargers
      /\ DOMAIN len = Chargers /\ DOMAIN taken = Chargers
  BY DEF Fits, Room
<1>3. RowOf(state) = [presence |-> Sum(len), energy |-> Sum(taken)]
  BY <1>2 DEF RowOf, Connected, Deliverable
<1>4. \A c \in Chargers : state[c] \in Seq(Vehicles) /\ Len(state[c]) <= room[c]
  BY DEF Fits
<1>5. \A c \in Chargers : room[c] \in Nat
  BY CapacityIsNat DEF Room, Larger
<1>6. \A c \in Chargers : len[c] = Len(state[c]) /\ taken[c] = Taken(state[c])
  OBVIOUS
<1> HIDE DEF len, taken, room
<1>7. \A c \in Chargers :
         /\ len[c] \in Nat /\ taken[c] \in Nat
         /\ taken[c] <= Power * len[c] /\ len[c] <= 1 * room[c]
  <2> SUFFICES ASSUME NEW c \in Chargers
               PROVE  /\ len[c] \in Nat /\ taken[c] \in Nat
                      /\ taken[c] <= Power * len[c] /\ len[c] <= 1 * room[c]
    OBVIOUS
  <2>1. len[c] \in Nat /\ len[c] <= room[c]
    BY <1>4, <1>6
  <2>2. taken[c] \in Nat /\ taken[c] <= Power * len[c]
    BY <1>4, <1>6, TakenIs
  <2>3. len[c] <= 1 * room[c]
    BY <1>5, <2>1
  <2> QED
    BY <2>1, <2>2, <2>3
<1>8. \A c \in Chargers : len[c] \in Int /\ taken[c] \in Int /\ room[c] \in Int
  BY <1>5, <1>7
<1>9. SumOf(len, Chargers) \in Nat /\ SumOf(taken, Chargers) \in Nat
  BY <1>1, <1>7, SumIsNat
<1>10. SumOf(taken, Chargers) <= Power * SumOf(len, Chargers)
  BY <1>1, <1>7, <1>8, PowerIsPositive, SumsCompare
<1>11. SumOf(len, Chargers) <= 1 * SumOf(room, Chargers)
  BY <1>1, <1>7, <1>8, SumsCompare
<1>12. SumOf(room, Chargers) \in Int
  BY <1>1, <1>8, SumRules
<1>13. /\ Sum(len) = SumOf(len, Chargers) /\ Sum(taken) = SumOf(taken, Chargers)
       /\ Sum(room) = SumOf(room, Chargers)
  BY <1>2, SumOfFunction
<1>14. /\ RowOf(state).presence = SumOf(len, Chargers)
       /\ RowOf(state).energy = SumOf(taken, Chargers)
       /\ Sum(Room(now)) = SumOf(room, Chargers)
  BY <1>3, <1>13 DEF room
<1> QED
  BY <1>9, <1>10, <1>11, <1>12, <1>14 DEF RowFits


LEMMA SimSeriesIs ==
    ASSUME NEW now \in [Chargers -> Nat], NEW rows \in SimSeries(now)
    PROVE  \A k \in 1..Steps : RowFits(rows[k], now)
<1> DEFINE R == {row \in [presence : Nat, energy : Nat] : RowFits(row, now)}
           Paths == {f \in [Chargers -> Seq(Vehicles)] : Fits(f, now)} \X Seq(R)
           V == SUBSET Paths
           base == {<<f, <<>>>> : f \in Reconciled(now)}
           Then(ps) == UNION {{<<f, Append(p[2], RowOf(f))>> : f \in NextStates(p[1])} :
                                 p \in ps}
           step == [ps \in V |-> Then(ps)]
           P(g) == g = [k \in 0..Steps |-> IF k = 0 THEN base ELSE Then(g[k-1])]
           g == CHOOSE g : P(g)
<1>1. SimSeries(now) = {p[2] : p \in g[Steps]}
  BY DEF SimSeries
<1>2. base \in V
  <2>1. ASSUME NEW f \in Reconciled(now) PROVE <<f, <<>>>> \in Paths
    <3>1. Fits(f, now) /\ f \in [Chargers -> Seq(Vehicles)]
      BY ReconciledFits DEF Fits
    <3>2. <<>> \in Seq(R)
      OBVIOUS
    <3> HIDE DEF R
    <3> QED
      BY <3>1, <3>2
  <2> HIDE DEF Paths
  <2> QED
    BY <2>1
<1>3. step \in [V -> V]
  <2>1. ASSUME NEW p \in Paths, NEW f \in NextStates(p[1])
        PROVE  <<f, Append(p[2], RowOf(f))>> \in Paths
    <3>1. Fits(p[1], now) /\ p[2] \in Seq(R)
      OBVIOUS
    <3>2. Fits(f, now)
      BY <3>1, NextFits
    <3>3. RowOf(f) \in R
      <4>1. RowFits(RowOf(f), now)
        BY <3>2, RowIs
      <4>2. RowOf(f) = [presence |-> RowOf(f).presence, energy |-> RowOf(f).energy]
        BY DEF RowOf
      <4>3. RowOf(f) \in [presence : Nat, energy : Nat]
        BY <4>1, <4>2 DEF RowFits
      <4> QED
        BY <4>1, <4>3
    <3> HIDE DEF R
    <3>4. Append(p[2], RowOf(f)) \in Seq(R)
      BY <3>1, <3>3
    <3> QED
      BY <3>2, <3>4 DEF Fits
  <2> HIDE DEF Paths
  <2>2. ASSUME NEW ps \in V PROVE Then(ps) \in V
    BY <2>1
  <2> HIDE DEF V, Then
  <2> QED
    BY <2>2
<1>4. Steps \in Nat
  BY StepsArePositive
<1> HIDE DEF base, step, V
<1>5. PICK h : Repeats(h, Steps, base, step) /\ \A k \in 0..Steps : h[k] \in V
  <2> HIDE DEF Then, P, g
  <2> QED
    BY <1>2, <1>3, <1>4, RepeatExists
<1>6. P(h)
  <2>1. \A k \in 0..Steps : k # 0 => step[h[k-1]] = Then(h[k-1])
    <3>1. \A k \in 0..Steps : k # 0 => h[k-1] \in V
      <4>1. \A k \in 0..Steps : h[k] \in V
        BY <1>5
      <4>2. \A k \in 0..Steps : k # 0 => k - 1 \in 0..Steps
        BY <1>4
      <4> HIDE DEF Then
      <4> QED
        BY <4>1, <4>2
    <3>2. \A ps \in V : step[ps] = Then(ps)
      BY DEF step
    <3> HIDE DEF Then
    <3> QED
      BY <3>1, <3>2
  <2> HIDE DEF Then
  <2>2. \A k \in 0..Steps : h[k] = IF k = 0 THEN base ELSE Then(h[k-1])
    BY <1>5, <2>1 DEF Repeats
  <2>3. h = [k \in 0..Steps |-> h[k]]
    BY <1>5 DEF Repeats
  <2> QED
    BY <2>2, <2>3
<1>7. P(g)
  <2> HIDE DEF P
  <2> QED
    BY <1>6
<1> HIDE DEF g
<1>8. \A k \in 0..Steps : g[k] = IF k = 0 THEN base ELSE Then(g[k-1])
  BY <1>7
<1> DEFINE T == {k \in 0..Steps : \A p \in g[k] : p \in Paths /\ Len(p[2]) = k}
<1>9. 0 \in T
  <2>1. \A p \in base : p \in Paths /\ Len(p[2]) = 0
    <3>1. \A p \in base : p \in Paths
      BY <1>2 DEF V
    <3>2. \A p \in base : p[2] = <<>>
      BY DEF base
    <3>3. Len(<<>>) = 0
      OBVIOUS
    <3> HIDE DEF Paths
    <3> QED
      BY <3>1, <3>2, <3>3, Zenon
  <2>2. g[0] = base /\ 0 \in 0..Steps
    <3>1. 0 \in 0..Steps
      BY <1>4
    <3> HIDE DEF Then
    <3> QED
      BY <1>8, <3>1
  <2> HIDE DEF Paths, Then
  <2> QED
    BY <2>1, <2>2
<1>10. ASSUME NEW k \in 1..Steps, k - 1 \in T PROVE k \in T
  <2>1. g[k] = Then(g[k-1]) /\ k \in 0..Steps
    <3>1. k \in 0..Steps /\ k # 0
      BY <1>4
    <3> HIDE DEF Then
    <3> QED
      BY <1>8, <3>1
  <2>2. ASSUME NEW q \in Then(g[k-1]) PROVE q \in Paths /\ Len(q[2]) = k
    <3>1. PICK p \in g[k-1] : \E f \in NextStates(p[1]) : q = <<f, Append(p[2], RowOf(f))>>
      OBVIOUS
    <3>2. p \in Paths /\ Len(p[2]) = k - 1
      BY <1>10, <3>1
    <3>3. g[k-1] \in V
      BY <1>10 DEF V
    <3>4. Then(g[k-1]) \in V
      <4> HIDE DEF Then
      <4> QED
        BY <1>3, <3>3 DEF step
    <3>5. q \in Paths
      BY <3>4 DEF V
    <3>6. p[2] \in Seq(R) /\ q[2] \in Seq(R)
      BY <3>2, <3>5
    <3> HIDE DEF R, Paths, Then
    <3>7. Len(q[2]) = Len(p[2]) + 1
      BY <3>1, <3>6
    <3> QED
      BY <3>2, <3>5, <3>7
  <2> HIDE DEF Then, Paths
  <2> QED
    BY <2>1, <2>2
<1>11. Steps \in T
  <2>1. Steps \in 0..Steps
    BY <1>4
  <2> HIDE DEF T
  <2>2. \A k \in 0..Steps : k \in T
    BY <1>4, <1>9, <1>10, ReachesAll, Zenon
  <2> QED
    BY <2>1, <2>2
<1>12. PICK p \in g[Steps] : rows = p[2]
  BY <1>1
<1>13. rows \in Seq(R) /\ Len(rows) = Steps
  BY <1>11, <1>12
<1> QED
  BY <1>13

\* Post-processing leaves nothing negative, and in the first step at least
\* the vehicles that are connected.
LEMMA RegSeriesIs ==
    ASSUME NEW occupancy \in Int, NEW rows \in RegSeries(occupancy)
    PROVE  /\ \A k \in 1..Steps : rows[k].presence \in Nat /\ rows[k].energy \in Nat
           /\ rows[1].presence >= occupancy
<1>1. PICK p \in [1..Steps -> RawPresence], e \in [1..Steps -> RawEnergy] :
         rows = [k \in 1..Steps |-> [presence |-> Presence(p[k], k, occupancy),
                                     energy   |-> Larger(e[k], 0)]]
  BY DEF RegSeries
<1>2. ASSUME NEW h \in Int PROVE Rounded(Larger(h, 0)) \in Nat
  <2>1. Larger(h, 0) \in Nat
    BY DEF Larger
  <2>2. \A n \in Nat : n \div 2 \in Nat
    OBVIOUS
  <2> QED
    BY <2>1, <2>2 DEF Rounded
<1>3. ASSUME NEW k \in 1..Steps
      PROVE  rows[k].presence \in Nat /\ rows[k].energy \in Nat
  <2>1. p[k] \in Int /\ e[k] \in Int
    BY RawIsInt
  <2>2. rows[k].presence = Presence(p[k], k, occupancy) /\ rows[k].energy = Larger(e[k], 0)
    BY <1>1
  <2>3. Presence(p[k], k, occupancy) \in Nat
    <3> DEFINE n == Rounded(Larger(p[k], 0))
    <3>1. n \in Nat
      BY <1>2, <2>1
    <3>2. Presence(p[k], k, occupancy) = IF k = 1 THEN Larger(n, occupancy) ELSE n
      BY DEF Presence
    <3> HIDE DEF n
    <3> QED
      BY <3>1, <3>2 DEF Larger
  <2>4. Larger(e[k], 0) \in Nat
    BY <2>1 DEF Larger
  <2> QED
    BY <2>2, <2>3, <2>4
<1>4. rows[1].presence >= occupancy
  <2>1. 1 \in 1..Steps
    BY StepsArePositive
  <2>2. p[1] \in Int
    BY <2>1, RawIsInt
  <2>3. rows[1].presence = Larger(Rounded(Larger(p[1], 0)), occupancy)
    BY <1>1, <2>1 DEF Presence
  <2> DEFINE n == Rounded(Larger(p[1], 0))
  <2>4. n \in Nat
    BY <1>2, <2>2
  <2> HIDE DEF n
  <2> QED
    BY <2>3, <2>4 DEF Larger, n
<1> QED
  BY <1>3, <1>4

LEMMA ObservationsAre ==
    ASSUME NEW now \in Observations
    PROVE  now \in [Chargers -> Nat] /\ Total(now) \in Int
<1>1. now \in [Chargers -> Nat]
  BY ParkedIsNat DEF Observations
<1>2. IsFiniteSet(Chargers) /\ \A c \in Chargers : now[c] \in Int
  BY <1>1, ChargersAreFinite DEF Chargers
<1>3. Total(now) = SumOf(now, Chargers)
  BY <1>1, SumOfFunction DEF Total
<1> QED
  BY <1>1, <1>2, <1>3, SumRules

-----------------------------------------------------------------------------

(***************************************************************************)
(* RightModel, also for the series that a task is about to store.           *)
(***************************************************************************)
TasksAccept ==
    \A w \in Workers : tasks[w].pc = "persist" => Accepts(tasks[w].kind, tasks[w].model)

IInv == TypeOK /\ TasksAccept /\ RightModel

\* What the places of a task tell of its other fields.
LEMMA TaskFields ==
    ASSUME NEW t, TaskType(t)
    PROVE  /\ t.pc # "idle" => t.kind \in Kinds /\ t.run_at \in Nat
           /\ t.pc \in {"open", "save", "predict", "persist"} => t.model \in Kinds
           /\ t.pc \in {"idle", "ensure", "open", "save", "predict", "persist"}
  BY DEF TaskType, Idle

\* Goto keeps a task's kind and start, and gives it a model.
LEMMA GotoTask ==
    ASSUME TypeOK, NEW w \in Workers, tasks[w].pc # "idle",
           NEW pc \in {"open", "save", "predict"}, NEW model \in Kinds,
           Goto(w, pc, model)
    PROVE  /\ DOMAIN tasks' = Workers
           /\ \A v \in Workers \ {w} : tasks'[v] = tasks[v]
           /\ TaskType(tasks'[w]) /\ tasks'[w].pc = pc
<1>1. tasks[w].kind \in Kinds /\ tasks[w].run_at \in Nat
  BY TaskFields DEF TypeOK
<1>2. tasks' = [tasks EXCEPT ![w] =
          [pc |-> pc, kind |-> tasks[w].kind, run_at |-> tasks[w].run_at, model |-> model]]
  BY DEF Goto
<1>3. TaskType([pc |-> pc, kind |-> tasks[w].kind, run_at |-> tasks[w].run_at,
                model |-> model])
  BY <1>1 DEF TaskType
<1> QED
  BY <1>2, <1>3 DEF TypeOK

\* The server starts without tasks.
LEMMA InitOK == Init => IInv
<1> SUFFICES ASSUME Init PROVE IInv
  OBVIOUS
<1>1. TaskType(Idle)
  BY DEF TaskType
<1>2. TypeOK
  BY <1>1 DEF Init, TypeOK
<1>3. TasksAccept /\ RightModel
  BY DEF Init, TasksAccept, RightModel, Idle
<1> QED
  BY <1>2, <1>3 DEF IInv

(***************************************************************************)
(* What a step that does not store a series does to the tasks: the others   *)
(* are left alone, and w's own task is of its type and does not hold a      *)
(* series, unless an accepted model has made it.                            *)
(***************************************************************************)
TaskFrame(w) ==
    /\ DOMAIN tasks' = Workers
    /\ \A v \in Workers \ {w} : tasks'[v] = tasks[v]
    /\ TaskType(tasks'[w])
    /\ tasks'[w].pc = "persist" => Accepts(tasks'[w].kind, tasks'[w].model)

\* A task that ends is idle again.
LEMMA EndsFrame ==
    ASSUME TypeOK, NEW w \in Workers, Ends(w)
    PROVE  TaskFrame(w)
  BY DEF TypeOK, Ends, TaskFrame, TaskType, Idle

\* A place that Goto leads to holds no series yet.
LEMMA GotoFrame ==
    ASSUME TypeOK, NEW w \in Workers, tasks[w].pc # "idle",
           NEW pc \in {"open", "save", "predict"}, NEW model \in Kinds,
           Goto(w, pc, model)
    PROVE  TaskFrame(w)
  BY GotoTask DEF TaskFrame

\* Every step of a task keeps to the frame.
LEMMA TaskStepFrame ==
    ASSUME IInv, NEW w \in Workers, Task(w)
    PROVE  TaskFrame(w)
<1> USE DEF IInv
<1>1. CASE Start(w)
  <2>1. CASE job # None /\ job.enabled
    <3>1. job.kind \in Kinds /\ started' \in Nat
      BY <1>1, <2>1 DEF Start, TypeOK, Rows0
    <3>2. tasks' = [tasks EXCEPT ![w] =
                       [pc |-> "ensure", kind |-> job.kind, run_at |-> started']]
      BY <1>1, <2>1 DEF Start
    <3>3. TaskType([pc |-> "ensure", kind |-> job.kind, run_at |-> started'])
      BY <3>1 DEF TaskType
    <3> QED
      BY <3>2, <3>3 DEF TypeOK, TaskFrame
  <2>2. CASE ~(job # None /\ job.enabled)
    BY <1>1, <2>2 DEF Start, TypeOK, TaskFrame, TasksAccept
  <2> QED
    BY <2>1, <2>2
<1>2. CASE Load(w)
  BY <1>2, GotoFrame DEF Load, Whole
<1>3. CASE LoadFails(w)
  BY <1>3, EndsFrame DEF LoadFails
<1>4. CASE Train(w)
  <2>1. tasks[w].kind \in Kinds
    BY <1>4, TaskFields DEF Train, TypeOK
  <2> QED
    BY <1>4, <2>1, EndsFrame, GotoFrame DEF Train
<1>5. CASE OpenFile(w)
  <2>1. tasks[w].model \in Kinds
    BY <1>5, TaskFields DEF OpenFile, TypeOK
  <2> QED
    BY <1>5, <2>1, GotoFrame DEF OpenFile
<1>6. CASE SaveFile(w)
  <2>1. tasks[w].model \in Kinds
    BY <1>6, TaskFields DEF SaveFile, TypeOK
  <2> QED
    BY <1>6, <2>1, GotoFrame DEF SaveFile
<1>7. CASE Predict(w)
  <2> DEFINE kind == tasks[w].kind
             Stored(now, s) ==
                 [pc |-> "persist", kind |-> kind, run_at |-> tasks[w].run_at,
                  model |-> tasks[w].model, observed |-> now, rows |-> s]
  <2>1. kind \in Kinds /\ tasks[w].run_at \in Nat /\ tasks[w].model \in Kinds
    BY <1>7, TaskFields DEF Predict, TypeOK
  <2>2. \/ Ends(w)
        \/ \E now \in Observations : \E s \in SeriesFrom(kind, now) :
              /\ Accepts(kind, tasks[w].model)
              /\ tasks' = [tasks EXCEPT ![w] = Stored(now, s)]
    BY <1>7 DEF Predict, SeriesFrom
  <2>3. ASSUME NEW now \in Observations, NEW s \in SeriesFrom(kind, now),
               Accepts(kind, tasks[w].model),
               tasks' = [tasks EXCEPT ![w] = Stored(now, s)]
        PROVE  TaskFrame(w)
    <3>1. TaskType(Stored(now, s))
      BY <2>1 DEF TaskType
    <3>2. Stored(now, s).kind = kind /\ Stored(now, s).model = tasks[w].model
      OBVIOUS
    <3> HIDE DEF Stored
    <3> QED
      BY <2>3, <3>1, <3>2 DEF TypeOK, TaskFrame
  <2> QED
    BY <2>2, <2>3, EndsFrame
<1>8. CASE Persist(w)
  BY <1>8, EndsFrame DEF Persist
<1>9. CASE Crash(w)
  BY <1>9, EndsFrame DEF Crash
<1> QED
  BY <1>1, <1>2, <1>3, <1>4, <1>5, <1>6, <1>7, <1>8, <1>9 DEF Task

\* Storing a series keeps the later one, and either has the right model.
LEMMA PersistServes ==
    ASSUME IInv, NEW w \in Workers, Persist(w)
    PROVE  /\ served' \in [run_at : Nat, kind : Kinds, by : Kinds] \cup {None}
           /\ RightModel'
           /\ served # None => served'.run_at >= served.run_at
<1> DEFINE t == [run_at |-> tasks[w].run_at, kind |-> tasks[w].kind,
                 by |-> tasks[w].model]
<1>1. served' = IF served = None \/ served.run_at < t.run_at THEN t ELSE served
  BY DEF Persist, Latest
<1>2. /\ t \in [run_at : Nat, kind : Kinds, by : Kinds]
      /\ Accepts(t.kind, t.by)
  BY TaskFields DEF Persist, IInv, TypeOK, TasksAccept
<1> HIDE DEF t
<1>3. served \in [run_at : Nat, kind : Kinds, by : Kinds] \cup {None}
  BY DEF IInv, TypeOK
<1>4. served # None => served'.run_at >= served.run_at
  BY <1>1, <1>2, <1>3
<1>5. RightModel'
  BY <1>1, <1>2 DEF IInv, RightModel, Accepts
<1> QED
  BY <1>1, <1>2, <1>3, <1>4, <1>5

\* Any other step leaves what is served alone.
LEMMA OthersDoNotServe ==
    ASSUME Next, \A w \in Workers : ~Persist(w)
    PROVE  served' = served
  BY DEF Next, Edit, SyncRead, SyncWrite, Fire, Task, Start, Load, LoadFails,
         Train, OpenFile, SaveFile, Predict, Crash

\* No step breaks a type.
LEMMA StepTypeOK == ASSUME IInv, Next PROVE TypeOK'
<1> USE DEF IInv
<1>1. served' \in [run_at : Nat, kind : Kinds, by : Kinds] \cup {None}
  BY PersistServes, OthersDoNotServe DEF TypeOK
<1>2. CASE Edit \/ SyncRead \/ SyncWrite \/ Fire
  <2>1. CASE Edit
    BY <2>1 DEF Edit, TypeOK
  <2>2. CASE SyncRead
    BY <2>2 DEF SyncRead, TypeOK
  <2>3. CASE SyncWrite
    BY <2>3 DEF SyncWrite, Synced, IsActive, TypeOK
  <2>4. CASE Fire
    BY <2>4 DEF Fire, jobVars, TypeOK
  <2> QED
    BY <1>2, <2>1, <2>2, <2>3, <2>4
<1>3. ASSUME NEW w \in Workers, Task(w) PROVE TypeOK'
  <2>1. DOMAIN tasks' = Workers /\ \A v \in Workers : TaskType(tasks'[v])
    BY <1>3, TaskStepFrame DEF TaskFrame, TypeOK
  <2>2. /\ job' = job /\ entry' = entry /\ sync' = sync /\ edits' = edits
        /\ queue' \in Nat /\ started' \in Nat /\ outages' \in Nat
    BY <1>3 DEF Task, Start, Load, LoadFails, Train, OpenFile, SaveFile, Predict,
                Persist, Crash, jobVars, TypeOK
  <2>3. file' \in {"absent", "partial", "mixed"} \cup Kinds
    <3>1. CASE SaveFile(w)
      BY <3>1, TaskFields DEF SaveFile, TypeOK
    <3>2. CASE ~SaveFile(w)
      BY <1>3, <3>2 DEF Task, Start, Load, LoadFails, Train, OpenFile, Predict,
                        Persist, Crash, TypeOK
    <3> QED
      BY <3>1, <3>2
  <2> QED
    BY <1>1, <2>1, <2>2, <2>3 DEF TypeOK
<1> QED
  BY <1>2, <1>3 DEF Next

\* The invariant is inductive.
LEMMA StepOK == IInv /\ [Next]_vars => IInv'
<1> SUFFICES ASSUME IInv, [Next]_vars PROVE IInv'
  OBVIOUS
<1>1. CASE Next
  <2>1. TypeOK'
    BY <1>1, StepTypeOK
  <2>2. TasksAccept'
    <3>1. CASE Edit \/ SyncRead \/ SyncWrite \/ Fire
      BY <3>1 DEF Edit, SyncRead, SyncWrite, Fire, IInv, TasksAccept
    <3>2. ASSUME NEW w \in Workers, Task(w) PROVE TasksAccept'
      BY <3>2, TaskStepFrame DEF TaskFrame, IInv, TasksAccept
    <3> QED
      BY <1>1, <3>1, <3>2 DEF Next
  <2>3. RightModel'
    BY <1>1, PersistServes, OthersDoNotServe DEF IInv, RightModel
  <2> QED
    BY <2>1, <2>2, <2>3 DEF IInv
<1>2. CASE UNCHANGED vars
  BY <1>2 DEF vars, jobVars, IInv, TypeOK, TasksAccept, RightModel
<1> QED
  BY <1>1, <1>2

\* It holds in every behaviour of the jobs.
LEMMA Invariance == Spec => []IInv
  BY InitOK, StepOK, PTL DEF Spec

\* A series of its type is sound.
LEMMA SoundByType == TypeOK => ForecastsAreSound
<1> SUFFICES ASSUME TypeOK, NEW w \in Workers, tasks[w].pc = "persist"
             PROVE  LET rows == tasks[w].rows
                        now  == tasks[w].observed
                        room == Sum(Room(now))
                    IN  /\ \A k \in 1..Steps : rows[k].presence >= 0 /\ rows[k].energy >= 0
                        /\ tasks[w].kind # "sim" => rows[1].presence >= Total(now)
                        /\ tasks[w].kind = "sim" =>
                              /\ \A f \in Reconciled(now) :
                                    \A c \in Chargers : Len(f[c]) = now[c]
                              /\ \A k \in 1..Steps :
                                    /\ rows[k].presence <= room
                                    /\ rows[k].energy <= Power * rows[k].presence
  BY DEF ForecastsAreSound, Room
<1> DEFINE rows == tasks[w].rows
           now == tasks[w].observed
           kind == tasks[w].kind
<1>1. now \in Observations /\ rows \in SeriesFrom(kind, now)
  <2>1. TaskType(tasks[w])
    BY DEF TypeOK
  <2>2. PICK k \in Kinds, model \in Kinds, seen \in Observations :
           \E s \in SeriesFrom(k, seen) :
              tasks[w] = [pc |-> "persist", kind |-> k, run_at |-> tasks[w].run_at,
                          model |-> model, observed |-> seen, rows |-> s]
    <3> DEFINE t == tasks[w]
    <3>1. t # Idle
      BY DEF Idle
    <3>2. t \notin [pc : {"ensure"}, kind : Kinds, run_at : Nat]
      OBVIOUS
    <3>3. t \notin [pc : {"open", "save", "predict"}, kind : Kinds, run_at : Nat,
                    model : Kinds]
      OBVIOUS
    <3> HIDE DEF t
    <3>4. TaskType(t)
      BY <2>1 DEF t
    <3> QED
      BY <3>1, <3>2, <3>3, <3>4, Zenon DEF TaskType, t
  <2>3. now = seen /\ kind = k /\ rows \in SeriesFrom(k, seen)
    BY <2>2
  <2> QED
    BY <2>3
<1> HIDE DEF rows, now, kind
<1>2. now \in [Chargers -> Nat] /\ Total(now) \in Int
  BY <1>1, ObservationsAre
<1>3. CASE kind = "sim"
  <2>1. rows \in SimSeries(now)
    BY <1>1, <1>3 DEF SeriesFrom
  <2>2. \A k \in 1..Steps : RowFits(rows[k], now)
    BY <1>2, <2>1, SimSeriesIs
  <2>3. \A f \in Reconciled(now) : \A c \in Chargers : Len(f[c]) = now[c]
    BY <1>2, ReconciledFits
  <2> QED
    BY <1>3, <2>2, <2>3 DEF RowFits, rows, now, kind
<1>4. CASE kind # "sim"
  <2>1. rows \in RegSeries(Total(now))
    BY <1>1, <1>4 DEF SeriesFrom
  <2>2. /\ \A k \in 1..Steps : rows[k].presence \in Nat /\ rows[k].energy \in Nat
        /\ rows[1].presence >= Total(now)
    BY <1>2, <2>1, RegSeriesIs
  <2>3. \A k \in 1..Steps : rows[k].presence >= 0 /\ rows[k].energy >= 0
    BY <2>2
  <2> QED
    BY <1>4, <2>2, <2>3 DEF rows, now, kind
<1> QED
  BY <1>3, <1>4

(***************************************************************************)
(* The variables keep their types: a task that stores a series holds one    *)
(* that its kind of model can make of the vehicles it saw.                  *)
(***************************************************************************)
THEOREM TypeCorrect == Spec => []TypeOK
  BY Invariance, PTL DEF IInv

(***************************************************************************)
(* However the job is edited while its tasks run and share the model file,  *)
(* the API returns series of models the job's kind accepts.                 *)
(***************************************************************************)
THEOREM SeriesHaveRightModel == Spec => []RightModel
  BY Invariance, PTL DEF IInv

(***************************************************************************)
(* For any stations, histories and arrivals: no series is negative, a      *)
(* regression begins with at least the vehicles that are connected, a      *)
(* simulation with exactly these at each charger, and none of its steps    *)
(* holds more vehicles than fit or delivers more energy than these take.   *)
(***************************************************************************)
THEOREM SeriesAreSound == Spec => []ForecastsAreSound
  BY TypeCorrect, SoundByType, PTL

(***************************************************************************)
(* In whatever order the tasks end, the API never goes back to the series   *)
(* of a task that started earlier.                                          *)
(***************************************************************************)
THEOREM ServedNeverGoesBack == Spec => ServedMovesForward
<1>1. IInv /\ [Next]_vars => [served # None => served'.run_at >= served.run_at]_vars
  <2> SUFFICES ASSUME IInv, Next, served # None
               PROVE  served'.run_at >= served.run_at
    OBVIOUS
  <2>1. CASE \E w \in Workers : Persist(w)
    BY <2>1, PersistServes
  <2>2. CASE \A w \in Workers : ~Persist(w)
    BY <2>2, OthersDoNotServe DEF IInv, TypeOK
  <2> QED
    BY <2>1, <2>2
<1> QED
  BY <1>1, Invariance, PTL DEF Spec, ServedMovesForward
=============================================================================
