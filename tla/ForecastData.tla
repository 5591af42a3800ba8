---------------------------- MODULE ForecastData ----------------------------
(***************************************************************************)
(* What the forecasting models of a pilot compute (ev_total_forecaster.py, *)
(* celery_pipeline.py): the simulated occupancy of the stations from the   *)
(* vehicles that are connected now, and the post-processing of a predicted *)
(* series.  A length of time is a number of simulation steps, an energy a  *)
(* number of units; a sample from a distribution is any of its values.     *)
(***************************************************************************)
EXTENDS Integers, Sequences, FiniteSets, SequencesExt, FiniteSetsExt, Ordering

CONSTANTS Stations,    \* the stations with completed sessions
          Newcomers,   \* chargers that have none yet
          Capacity,    \* [Stations -> Nat]
          Pool,        \* the sessions of the history: [time, energy]
          Arrivals,    \* the numbers of arrivals drawn for a station and a step
          Power,       \* units a vehicle takes in a step (sim_power_kw)
          MaxPower,    \* units it is believed to take (p_max_kw, always 11.0)
          Steps,       \* the length of a forecast
          RawPresence, \* predicted presence of a step, in halves of a vehicle
          RawEnergy    \* predicted energy of a step

ASSUME StepsArePositive == Steps \in Nat \ {0}
ASSUME PowerIsPositive  == Power \in Nat \ {0} /\ MaxPower \in Nat \ {0}
ASSUME ChargersAreFinite == IsFiniteSet(Stations \cup Newcomers)
ASSUME CapacityIsNat     == Capacity \in [Stations -> Nat]
ASSUME PoolIsOfSessions  == Pool \subseteq [time : Nat \ {0}, energy : Nat \ {0}]
ASSUME ArrivalsAreCounts == Arrivals \subseteq Nat
ASSUME RawIsInt          == RawPresence \cup RawEnergy \subseteq Int

Smaller(a, b) == IF a < b THEN a ELSE b
Larger(a, b)  == IF a < b THEN b ELSE a

Vehicle(t, e) == [time |-> t, energy |-> e]

\* What update() injects when no session of the pool fits, and when there is none.
Safe         == Vehicle(8, 30)
Conservative == Vehicle(2, 10)

\* A sampled session is taken only if its energy fits in its time, at a power
\* that is not that of the simulation.
Plausible == {v \in Pool : v.energy > 0 /\ v.time > 0 /\ v.energy <= MaxPower * v.time}

-----------------------------------------------------------------------------
(***************************************************************************)
(* sample_new_evs for one station: up to n vehicles, fewer when sampling   *)
(* keeps hitting implausible sessions, none at all from an empty pool:     *)
(* then the simulation raises.                                             *)
(***************************************************************************)
Samples(n) ==
    IF Pool = {} /\ n > 0 THEN {}
    ELSE UNION {[1 .. k -> Plausible] : k \in IF Plausible = Pool THEN {n} ELSE 0 .. n}

Raises(observed) ==
    /\ Pool = {}
    /\ \E s \in Stations : observed[s] > 0 \/ (Capacity[s] > 0 /\ \E n \in Arrivals : n > 0)

\* Mutant: the arrivals of a step are admitted beyond the capacity.
FreeSlotsAlways(s, evs) == Capacity[s]

FreeSlots(s, evs) == IF Len(evs) < Capacity[s] THEN Capacity[s] - Len(evs) ELSE 0

Admitted(s, evs, n) ==
    {evs \o new : new \in Samples(Smaller(n, FreeSlots(s, evs)))}

(***************************************************************************)
(* update() on the state that predict() has just reset: as many vehicles   *)
(* at each station as are connected there.  A known station samples its    *)
(* pool and makes up a shortfall, a newcomer samples the pool of all.      *)
(***************************************************************************)
\* Mutant: a shortfall of the sampling is left.
ReconcileSampled(s, n) ==
    IF s \in Stations THEN Samples(n)
    ELSE [1 .. n -> IF Pool = {} THEN {Conservative} ELSE Pool]

Reconcile(s, n) ==
    IF s \in Stations
    THEN {new \o [k \in 1 .. n - Len(new) |-> Safe] : new \in Samples(n)}
    ELSE [1 .. n -> IF Pool = {} THEN {Conservative} ELSE Pool]

\* The states in which every station s has observed[s] vehicles.
Reconciled(observed) ==
    {f \in [DOMAIN observed -> UNION {Reconcile(s, observed[s]) : s \in DOMAIN observed}] :
        \A s \in DOMAIN observed : f[s] \in Reconcile(s, observed[s])}

(***************************************************************************)
(* simulate(): every vehicle charges for one step; one leaves when its     *)
(* energy and its time have both run out.                                  *)
(***************************************************************************)
Charged(v) == Vehicle(v.time - 1, IF v.energy > Power THEN v.energy - Power ELSE 0)

AfterStep(evs) ==
    LET charged == [k \in DOMAIN evs |-> Charged(evs[k])]
        stay    == Ascending({k \in DOMAIN evs :
                                 charged[k].energy > 0 \/ charged[k].time > 0})
    IN  [i \in DOMAIN stay |-> charged[stay[i]]]

Simulated(state) == [s \in DOMAIN state |-> AfterStep(state[s])]

\* The arrivals of one step at the known stations, then the step itself.
NextStates(state) ==
    {Simulated(f) : f \in
        {g \in [DOMAIN state -> UNION {Admitted(s, state[s], n) :
                                          s \in DOMAIN state \cap Stations, n \in Arrivals}
                                \cup {state[s] : s \in DOMAIN state}] :
            \A s \in DOMAIN state :
                IF s \in Stations
                THEN g[s] \in UNION {Admitted(s, state[s], n) : n \in Arrivals}
                ELSE g[s] = state[s]}}

Sum(f) == MapThenSumSet(LAMBDA x : f[x], DOMAIN f)

Connected(state) == Sum([s \in DOMAIN state |-> Len(state[s])])

\* What the vehicles of a station take in a step.
Taken(evs) == Sum([k \in DOMAIN evs |-> Smaller(evs[k].energy, Power)])

Deliverable(state) == Sum([s \in DOMAIN state |-> Taken(state[s])])

RowOf(state) == [presence |-> Connected(state), energy |-> Deliverable(state)]

(***************************************************************************)
(* predict(): the series a simulation from the observed counts can yield;  *)
(* one that raises yields none.                                            *)
(***************************************************************************)
SimSeries(observed) ==
    LET paths[k \in 0 .. Steps] ==
            IF k = 0 THEN {<<f, << >>>> : f \in Reconciled(observed)}
            ELSE UNION {{<<f, Append(p[2], RowOf(f))>> : f \in NextStates(p[1])} :
                           p \in paths[k - 1]}
    IN  {p[2] : p \in paths[Steps]}

-----------------------------------------------------------------------------
(***************************************************************************)
(* _apply_reg_post_processing: a predicted presence is clipped at zero and *)
(* rounded, half to even; the first step has at least the vehicles that    *)
(* are connected now; energy is clipped at zero.                           *)
(***************************************************************************)
Rounded(halves) ==
    LET f == halves \div 2
    IN  IF halves % 2 = 0 \/ f % 2 = 0 THEN f ELSE f + 1

\* Mutant: the connected vehicles do not bound the first step.
PresenceRounded(halves, step, occupancy) == Rounded(Larger(halves, 0))

Presence(halves, step, occupancy) ==
    IF step = 1 THEN Larger(Rounded(Larger(halves, 0)), occupancy)
    ELSE Rounded(Larger(halves, 0))

RegSeries(occupancy) ==
    {[k \in 1 .. Steps |-> [presence |-> Presence(p[k], k, occupancy),
                            energy   |-> Larger(e[k], 0)]] :
        p \in [1 .. Steps -> RawPresence], e \in [1 .. Steps -> RawEnergy]}
=============================================================================
