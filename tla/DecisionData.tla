---------------------------- MODULE DecisionData ----------------------------
(***************************************************************************)
(* The pure parts of a charging decision: the catalog of observation        *)
(* features and the layout of an observation, the site load and the grid    *)
(* net power obtained from other services, the policies and the correction  *)
(* filter. Powers are in kW, energies in kWh, times in quarters of an hour. *)
(***************************************************************************)
EXTENDS Integers, Sequences, FiniteSets, SequencesExt, FiniteSetsExt, Ordering

CONSTANTS
    Horizon,  \* BASELOAD_FORECAST_HORIZON_STEPS
    Box,      \* aggregate_every: the width of a box of the time grid
    None,     \* Python's None
    Failed,   \* an exception that the caller handles
    Escaped   \* an exception that the caller does not handle

ASSUME HorizonIsPositive == Horizon \in Nat \ {0}
ASSUME BoxIsPositive == Box \in Nat \ {0}

------------------------------------------------------------------------------
(* obs_layout: one scalar stands for those that are always computed, one for *)
(* the three statistics of the grid.                                         *)

Series == {"net_demand_forecast", "demand_forecast", "generation_forecast"}
Catalog == Series \cup {"vehicle_connected", "energy_charged_rel_needed",
                        "load_level_relative", "grid_net_power_month"}
DefaultFeatures == <<"vehicle_connected", "energy_charged_rel_needed",
                     "load_level_relative", "net_demand_forecast">>

Size(name) == IF name \in Series THEN Horizon ELSE 1

\* validate_feature_names finds no problem.
ValidFeatures(names) ==
    names # <<>> /\ ToSet(names) \subseteq Catalog /\ IsInjective(names)

ObservationDim(names) ==
    FoldLeft(LAMBDA n, name : n + Size(name), 0, names)

\* DEFAULT_FEATURE_START, counted from 0.
DefaultStart(name) ==
    ObservationDim(SubSeq(DefaultFeatures, 1, SelectInSeq(DefaultFeatures, LAMBDA f : f = name) - 1))

\* The numbers of a feature are told apart by their place in it only.
Slice(name) == [i \in 1..Size(name) |-> <<name, i>>]

\* Mutant of Assemble: in the order of the bank, not of the sidecar.
AssembleUnordered(bank, names) ==
    IF ~ValidFeatures(names) \/ ~(ToSet(names) \subseteq bank) THEN Failed
    ELSE FoldLeft(LAMBDA obs, name : obs \o Slice(name), <<>>,
                  SetToSortSeq(ToSet(names),
                      LAMBDA a, b : Size(a) < Size(b)))

\* assemble_observation, from the features that were computed.
Assemble(bank, names) ==
    IF ~ValidFeatures(names) \/ ~(ToSet(names) \subseteq bank) THEN Failed
    ELSE FoldLeft(LAMBDA obs, name : obs \o Slice(name), <<>>, names)

\* select_observation_from_default
Select(obs, names) ==
    IF \/ Len(obs) # ObservationDim(DefaultFeatures)
       \/ ~ValidFeatures(names) \/ ~(ToSet(names) \subseteq ToSet(DefaultFeatures))
    THEN Failed
    ELSE FoldLeft(LAMBDA part, name :
                    part \o SubSeq(obs, DefaultStart(name) + 1,
                                   DefaultStart(name) + Size(name)),
                  <<>>, names)

\* build_observation_features: what can be computed for this event. The need
\* divides the energy delivered, whatever the policy reads.
FeatureBank(ev, load, grid) ==
    IF ev.needed = 0 THEN Failed
    ELSE {"vehicle_connected", "energy_charged_rel_needed"}
         \cup (IF load.net # None
               THEN {"load_level_relative", "net_demand_forecast"} ELSE {})
         \cup (IF load.demand # None THEN {"demand_forecast"} ELSE {})
         \cup (IF load.generation # None THEN {"generation_forecast"} ELSE {})
         \cup (IF grid # None THEN {"grid_net_power_month"} ELSE {})

\* prepare_observation
Prepare(ev, load, grid, names) ==
    IF FeatureBank(ev, load, grid) = Failed THEN Failed
    ELSE Assemble(FeatureBank(ev, load, grid), names)

NeedsNet(names) ==
    ToSet(names) \cap {"net_demand_forecast", "load_level_relative"} # {}
NeedsDemand(names) == "demand_forecast" \in ToSet(names)
NeedsGeneration(names) == "generation_forecast" \in ToSet(names)
NeedsGrid(names) == "grid_net_power_month" \in ToSet(names)

------------------------------------------------------------------------------
(* The site load. An answer of a forecaster is None when it is not           *)
(* configured, a failure, or one list of powers for each of its meters.      *)

\* _parse_forecast_list
Parsed(raw) == IF Len(raw) < Horizon THEN Failed ELSE SubSeq(raw, 1, Horizon)

\* Mutant of SumMeters: the last meter instead of all.
SumMetersLast(meters) == Last(meters)

\* _sum_series
SumMeters(meters) ==
    [i \in 1..Horizon |-> FoldLeft(LAMBDA sum, m : sum + m[i], 0, meters)]

\* _call_forecaster: without a secret the exception is one nobody expects.
CallForecaster(answer) ==
    IF answer \in {Failed, Escaped} THEN answer
    ELSE IF answer = <<>> \/ \E i \in DOMAIN answer : Parsed(answer[i]) = Failed
    THEN Failed
    ELSE SumMeters([i \in DOMAIN answer |-> Parsed(answer[i])])

NoLoad == [demand |-> None, generation |-> None, net |-> None, warned |-> FALSE]

\* Mutant of NetOf: a failed generation goes unmentioned.
NetOfSilent(demand, generation, names) ==
    [demand |-> demand,
     generation |-> IF generation = Failed THEN None ELSE generation,
     net |-> IF ~NeedsNet(names) THEN None
             ELSE IF generation \in {None, Failed} THEN demand
             ELSE [i \in 1..Horizon |-> demand[i] - generation[i]],
     warned |-> FALSE]

\* The last part of fetch_site_load_for_features: demand minus generation, or
\* the demand alone, with a warning.
NetOf(demand, generation, names) ==
    [demand |-> demand,
     generation |-> IF generation = Failed THEN None ELSE generation,
     net |-> IF ~NeedsNet(names) THEN None
             ELSE IF generation \in {None, Failed} THEN demand
             ELSE [i \in 1..Horizon |-> demand[i] - generation[i]],
     warned |-> generation = Failed \/ (generation = None /\ NeedsNet(names))]

\* fetch_site_load_for_features
SiteLoad(names, demandAnswer, generationAnswer) ==
    LET mustDemand == NeedsDemand(names) \/ NeedsNet(names)
        mustGen    == NeedsGeneration(names) \/ NeedsNet(names)
        demand == IF mustDemand /\ demandAnswer # None
                  THEN CallForecaster(demandAnswer) ELSE None
        generation == IF mustGen /\ generationAnswer # None
                      THEN CallForecaster(generationAnswer) ELSE None
    IN  IF ~mustDemand /\ ~mustGen THEN NoLoad
        ELSE IF mustDemand /\ demand \in {None, Failed, Escaped} THEN Failed
        ELSE IF generation = Escaped THEN Failed
        ELSE IF generation = None /\ mustGen /\ ~NeedsNet(names) THEN Failed
        ELSE NetOf(demand, generation, names)

------------------------------------------------------------------------------
(* The grid's net power over the month: one map from instants to powers for  *)
(* each sensor. Means are kept in units of 1/Parts kW, quantiles in          *)
(* 1/(10 * Parts).                                                           *)

Parts == 2

BoxOf(t) == t - (t % Box)

\* Mutant of Binned: the sensors keep their own clocks.
BinnedRaw(map) == [t \in DOMAIN map |-> Parts * map[t]]

\* bin_to_grid: the mean of the points that share a box.
Binned(map) ==
    [b \in {BoxOf(t) : t \in DOMAIN map} |->
        LET inBox == {t \in DOMAIN map : BoxOf(t) = b}
        IN  (Parts * MapThenSumSet(LAMBDA t : map[t], inBox)) \div Cardinality(inBox)]

At(map, b) == IF b \in DOMAIN map THEN map[b] ELSE 0
Total(maps, b) == FoldLeft(LAMBDA sum, map : sum + At(map, b), 0, maps)
Boxes(maps) == UNION {DOMAIN maps[i] : i \in DOMAIN maps}

\* build_net_series_kw: imports minus exports in each box, in order of time.
NetSeries(imports, exports) ==
    LET imp   == [i \in DOMAIN imports |-> Binned(imports[i])]
        exp   == [i \in DOMAIN exports |-> Binned(exports[i])]
        times == Ascending(Boxes(imp) \cup Boxes(exp))
    IN  [k \in DOMAIN times |-> Total(imp, times[k]) - Total(exp, times[k])]

\* The k-th smallest entry of a series; equal entries have a place each.
Ranked(net, k) ==
    CHOOSE v \in ToSet(net) :
        /\ Cardinality({i \in DOMAIN net : net[i] < v}) < k
        /\ Cardinality({i \in DOMAIN net : net[i] <= v}) >= k

\* numpy's quantile q/10 of a series: linear between the closest ranks.
Quantile(net, q) ==
    LET h == (Len(net) - 1) * q
        i == h \div 10
    IN  IF h % 10 = 0 THEN 10 * Ranked(net, i + 1)
        ELSE 10 * Ranked(net, i + 1)
             + (h % 10) * (Ranked(net, i + 2) - Ranked(net, i + 1))

\* compute_stats_kw
GridStats(net) ==
    IF net = <<>> THEN Failed
    ELSE [max |-> 10 * Max(ToSet(net)), q40 |-> Quantile(net, 4),
          q70 |-> Quantile(net, 7)]

------------------------------------------------------------------------------
(* The wind excess: the points of an answer, each with its time if it could  *)
(* be read.                                                                  *)

Latest(S) == CHOOSE p \in S : \A q \in S : q.time <= p.time

\* _parse_last_point
LastPoint(points) ==
    LET timed == {p \in ToSet(points) : p.time # None}
    IN  IF timed # {} THEN Latest(timed) ELSE Last(points)

\* get_wind_excess_reading: None when it is not configured, when the query
\* fails (which is logged) and when the window is empty.
WindReading(answer) ==
    IF answer \in {None, Failed} \/ answer = <<>> THEN None
    ELSE LastPoint(answer).value

------------------------------------------------------------------------------
(* The policies and the correction filter.                                  *)

Decision(action, power) == [action |-> action, power |-> power]
NotCharge == Decision("not_charge", None)
Charge == Decision("charge", None)

\* DefaultRuleBasedPolicy.compute_action
DefaultAction(ev) == IF ev.full THEN NotCharge ELSE Charge

Remaining(ev) == ev.duration - ev.connected
Half(power) == power \div 2

\* WindMaxPolicy.compute_action
WindMaxAction(ev, wind) ==
    IF ev.full THEN NotCharge
    ELSE IF wind >= ev.nominal /\ ev.nominal > 0 THEN Decision("charge", ev.nominal)
    ELSE IF \/ wind > 1 /\ wind < ev.nominal
            \/ 10 * ev.delivered < 7 * ev.needed
    THEN Decision("charge", Half(ev.nominal))
    ELSE IF \/ ev.nominal <= 0
            \/ Remaining(ev) * ev.nominal <= 4 * (ev.needed - ev.delivered)
    THEN Decision("charge", ev.nominal)
    ELSE NotCharge

\* AnnPolicy.compute_action: `best` is the index, from 0, of the output with
\* the highest score. An index beyond the power levels raises.
AnnAction(ann, obs, best) ==
    LET input == IF Len(obs) = ObservationDim(ann.features) THEN obs
                 ELSE Select(obs, ann.features)
    IN  IF input = Failed THEN Failed
        ELSE IF ann.levels = None
        THEN IF best = 0 THEN NotCharge ELSE Charge
        ELSE IF best >= Len(ann.levels) THEN Failed
        ELSE IF ann.levels[best + 1] > 0
        THEN Decision("charge", ann.levels[best + 1]) ELSE NotCharge

\* Mutant of Corrected: the power is not clamped.
CorrectedUnclamped(decision, full, connected, max) ==
    IF decision.action = "charge" /\ (full \/ ~connected) THEN NotCharge
    ELSE decision

\* apply_correction
Corrected(decision, full, connected, max) ==
    IF decision.action = "charge" /\ (full \/ ~connected) THEN NotCharge
    ELSE IF decision.action = "charge" /\ decision.power # None /\ decision.power > max
    THEN Decision("charge", max)
    ELSE decision
==============================================================================
