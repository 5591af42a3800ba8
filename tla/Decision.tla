------------------------------ MODULE Decision ------------------------------
(***************************************************************************)
(* compute_and_save_action: one charging decision, from the event to the     *)
(* stored row. The assigned policy is tried first; whatever it raises, the   *)
(* default policy decides in its place. The filling of the previous action   *)
(* and the commit with the event are modelled in SessionEvents; here the     *)
(* commit matters only because it fails in a transaction that was aborted.   *)
(***************************************************************************)
EXTENDS DecisionData

CONSTANTS
    Events,             \* what may be known of the vehicle and its charger
    Policies,           \* what may be assigned; None is no assignment
    DemandAnswers, GenerationAnswers, GridAnswers, WindAnswers

\* The policies of the registry; "gone" is an assignment it does not find.
Slugs == {"default", "wind_max", "ann", "gone"}

\* The columns of an event, its session and its charger that a decision reads.
Readings ==
    [full : BOOLEAN, nominal : Int, delivered : Int, needed : Int,
     connected : Int, duration : Int]

\* The columns of the charger and, for a network, what its sidecar declares.
Assignments ==
    [slug : Slugs, features : Seq(STRING), levels : {None} \cup Seq(Int),
     outputs : Nat]

\* What _call_forecaster may get: nothing, an exception, a series per meter.
MeterAnswers == {None, Failed, Escaped} \cup Seq(Seq(Int))

\* What _points_to_map may return: the powers at the instants of a sensor's points.
IsSensorMap(map) ==
    /\ IsFiniteSet(DOMAIN map) /\ DOMAIN map \subseteq Int
    /\ \A t \in DOMAIN map : map[t] \in Int

AreSensorMaps(maps) ==
    /\ maps \in Seq(ToSet(maps))
    /\ \A map \in ToSet(maps) : IsSensorMap(map)

ASSUME EventsAreReadings == Events \subseteq Readings
ASSUME PoliciesAreAssignments == Policies \subseteq {None} \cup Assignments
ASSUME MetersAnswer == DemandAnswers \cup GenerationAnswers \subseteq MeterAnswers
ASSUME SensorsAnswer ==
    \A a \in GridAnswers \ {Failed} :
        AreSensorMaps(a.imports) /\ AreSensorMaps(a.exports)

VARIABLES
    pc,        \* the part of the handler that runs next
    ev,        \* the event, with the charger's nominal power
    assigned,  \* control_algorithm and control_policy of the charger's row
    answers,   \* what the other services answered, until it has been used
    load,      \* load_bundle
    grid,      \* grid_stats
    obs,       \* the observation, None before it is built
    decision,  \* the decision after correction
    ran,       \* history: the policy that computed it
    error,     \* policy_error
    aborted,   \* a statement failed: PostgreSQL refuses the transaction
    warnings,  \* context_warnings: what they are about
    logs,      \* sources of the system errors in this transaction
    row,       \* the committed row of actions
    answer     \* what the client receives

vars == <<pc, ev, assigned, answers, load, grid, obs, decision, ran, error,
          aborted, warnings, logs, row, answer>>

inputs == <<ev, assigned>>
outputs == <<row, answer>>

\* control_policy; a charger without one gets the default policy.
Slug == IF assigned = None THEN "default" ELSE assigned.slug
ByAnn == Slug = "ann"

\* _observation_features_for_policy
Features == IF ByAnn THEN assigned.features ELSE <<>>

Init ==
    /\ pc = "begin"
    /\ ev = None /\ assigned = None /\ answers = None
    /\ load = None /\ grid = None /\ obs = None
    /\ decision = None /\ ran = None
    /\ error = FALSE /\ aborted = FALSE
    /\ warnings = {} /\ logs = {}
    /\ row = None /\ answer = None

\* The row of the charger is read; the two probabilities become 0 when they
\* cannot be read.
Begin ==
    /\ pc = "begin"
    /\ ev' \in Events
    /\ assigned' \in Policies
    /\ logs' \in SUBSET {"disconnection_prob", "duration_cdf"}
    /\ pc' = "policy"
    /\ UNCHANGED <<answers, load, grid, obs, decision, ran, error, aborted,
                   warnings, outputs>>

\* Mutant of Fails: a policy that fails before there is an observation leaves
\* nothing for the default policy to work on.
FailsWithoutObservation(broken) ==
    /\ pc' = IF obs = None THEN "raised" ELSE "fallback"
    /\ error' = TRUE
    /\ logs' = logs \cup {"policy"}
    /\ aborted' = (aborted \/ broken)
    /\ answers' = None

\* The `except` of the primary path.
Fails(broken) ==
    /\ pc' = "fallback"
    /\ error' = TRUE
    /\ logs' = logs \cup {"policy"}
    /\ aborted' = (aborted \/ broken)
    /\ answers' = None

Continues(place) ==
    /\ pc' = place
    /\ UNCHANGED <<error, logs, aborted>>

\* get_policy
LoadPolicy ==
    /\ pc = "policy"
    /\ \/ Slug # "gone" /\ Continues("load") /\ UNCHANGED answers
       \/ Slug \in {"gone", "ann"} /\ Fails(FALSE)
    /\ UNCHANGED <<inputs, load, grid, obs, decision, ran, warnings, outputs>>

\* fetch_site_load_for_features
FetchSiteLoad ==
    /\ pc = "load"
    /\ \E d \in DemandAnswers, g \in GenerationAnswers :
          LET bundle == SiteLoad(Features, d, g)
          IN  IF bundle = Failed
              THEN Fails(FALSE) /\ UNCHANGED <<load, warnings>>
              ELSE /\ load' = bundle
                   /\ answers' = IF bundle = NoLoad THEN None
                                 ELSE [demand |-> d, generation |-> g]
                   /\ warnings' = IF bundle.warned THEN {"generation"} ELSE {}
                   /\ Continues("grid")
    /\ UNCHANGED <<inputs, grid, obs, decision, ran, outputs>>

\* fetch_grid_net_power_stats: the answer is Failed or the maps of the import
\* and of the export sensors.
FetchGrid ==
    /\ pc = "grid"
    /\ IF ~NeedsGrid(Features)
       THEN Continues("observe") /\ answers' = None /\ UNCHANGED grid
       ELSE \E g \in GridAnswers :
               IF g = Failed
               THEN Fails(FALSE) /\ UNCHANGED grid
               ELSE LET net == NetSeries(g.imports, g.exports)
                    IN  IF GridStats(net) = Failed
                        THEN Fails(FALSE) /\ UNCHANGED grid
                        ELSE /\ grid' = GridStats(net)
                             /\ answers' = [maps |-> g, net |-> net]
                             /\ Continues("observe")
    /\ UNCHANGED <<inputs, load, obs, decision, ran, warnings, outputs>>

\* A query of the pilot's configuration fails and aborts the transaction.
QueryFails ==
    /\ \/ pc = "load" /\ (NeedsNet(Features) \/ NeedsDemand(Features)
                          \/ NeedsGeneration(Features))
       \/ pc = "grid" /\ NeedsGrid(Features)
       \/ pc = "compute" /\ Slug = "wind_max"
    /\ Fails(TRUE)
    /\ UNCHANGED <<inputs, load, grid, obs, decision, ran, warnings, outputs>>

\* prepare_observation; a rule-based policy gets an empty one.
Observe ==
    /\ pc = "observe"
    /\ IF Features = <<>>
       THEN obs' = <<>> /\ Continues("compute") /\ answers' = None
       ELSE IF Prepare(ev, load, grid, Features) = Failed
       THEN Fails(FALSE) /\ UNCHANGED obs
       ELSE /\ obs' = Prepare(ev, load, grid, Features)
            /\ Continues("compute") /\ answers' = None
    /\ UNCHANGED <<inputs, load, grid, decision, ran, warnings, outputs>>

Decided(raw, by) ==
    /\ decision' = Corrected(raw, ev.full, TRUE, ev.nominal)
    /\ ran' = by
    /\ pc' = "persist"

\* enrich_context and compute_action of the wind policy: an unknown wind
\* excess counts as 0. If it is the lookup of the token's secret that fails, the
\* exception is caught but the transaction is aborted.
ComputeWindMax ==
    /\ pc = "compute" /\ Slug = "wind_max"
    /\ \E w \in WindAnswers :
          LET reading == WindReading(w)
              excess  == IF reading = None THEN 0 ELSE reading
          IN  /\ Decided(WindMaxAction(ev, excess), "wind_max")
              /\ warnings' = warnings \cup (IF reading = None THEN {"wind"} ELSE {})
              /\ logs' = logs \cup (IF w = Failed THEN {"wind"} ELSE {})
              /\ aborted' \in {aborted} \cup (IF w = Failed THEN {TRUE} ELSE {})
    /\ UNCHANGED <<inputs, answers, load, grid, obs, error, outputs>>

ComputeDefault ==
    /\ pc = "compute" /\ Slug = "default"
    /\ Decided(DefaultAction(ev), "default")
    /\ UNCHANGED <<inputs, answers, load, grid, obs, error, aborted, warnings,
                   logs, outputs>>

\* The network: any output may have the highest score.
ComputeAnn ==
    /\ pc = "compute" /\ ByAnn
    /\ \E best \in 0..(assigned.outputs - 1) :
          LET raw == AnnAction(assigned, obs, best)
          IN  IF raw = Failed
              THEN Fails(FALSE) /\ UNCHANGED <<decision, ran>>
              ELSE /\ Decided(raw, "ann")
                   /\ UNCHANGED <<answers, error, aborted, logs>>
    /\ UNCHANGED <<inputs, load, grid, obs, warnings, outputs>>

\* The default policy instead. It reads nothing that can be missing.
Fallback ==
    /\ pc = "fallback"
    /\ Decided(DefaultAction(ev), "default")
    /\ UNCHANGED <<inputs, answers, load, grid, obs, error, aborted, warnings,
                   logs, outputs>>

\* Mutant of Executed: the columns keep the assigned policy.
ExecutedAssigned == IF assigned = None THEN None ELSE Slug

\* The columns control_algorithm and control_policy of the row.
Executed ==
    IF error THEN "default" ELSE IF assigned = None THEN None ELSE Slug

\* The series stored with the row.
StoredSeries ==
    IF load = None THEN None
    ELSE IF load.net # None THEN load.net ELSE load.demand

\* The row is added and committed with the event; in an aborted transaction
\* the commit raises and the event is rolled back.
Persist ==
    /\ pc = "persist"
    /\ IF aborted
       THEN pc' = "raised" /\ UNCHANGED outputs
       ELSE /\ pc' = "done"
            /\ row' = [suggested |-> decision.action, power |-> decision.power,
                       executed |-> Executed, error |-> error,
                       series |-> StoredSeries, warnings |-> warnings]
            /\ answer' = [charge |-> decision.action = "charge",
                          power |-> decision.power, warning |-> error]
    /\ UNCHANGED <<inputs, answers, load, grid, obs, decision, ran, error,
                   aborted, warnings, logs>>

Ended == pc \in {"done", "raised"} /\ UNCHANGED vars

Handler ==
    \/ Begin \/ LoadPolicy \/ FetchSiteLoad \/ FetchGrid \/ QueryFails
    \/ Observe \/ ComputeWindMax \/ ComputeDefault \/ ComputeAnn
    \/ Fallback \/ Persist

Next == Handler \/ Ended

\* The handler is ordinary code: as long as it can go on, it does.
Spec == Init /\ [][Next]_vars /\ WF_vars(Handler)

------------------------------------------------------------------------------
(* What a decision promises.                                                *)

Places == {"begin", "policy", "load", "grid", "observe", "compute",
           "fallback", "persist", "done", "raised"}
Warnings == {"generation", "wind"}
Decisions == [action : {"charge", "not_charge"}, power : Int \cup {None}]
Answers == [charge : BOOLEAN, power : Int \cup {None}, warning : BOOLEAN]

ASSUME NoneIsFresh == None \notin Slugs \cup Decisions \cup Answers

\* Every variable has its type, and a part of the handler that needs a result
\* of an earlier part has it.
TypeOK ==
    /\ pc \in Places
    /\ ev \in Events \cup {None}
    /\ assigned \in Policies \cup {None}
    /\ decision \in Decisions \cup {None}
    /\ ran \in Slugs \cup {None}
    /\ error \in BOOLEAN /\ aborted \in BOOLEAN
    /\ warnings \subseteq Warnings
    /\ logs \subseteq {"disconnection_prob", "duration_cdf", "policy", "wind"}
    /\ answer \in Answers \cup {None}
    /\ pc # "begin" => ev \in Events /\ assigned \in Policies
    /\ pc \in {"persist", "done", "raised"} => decision # None /\ ran # None
    /\ pc = "done" => answer # None

\* Whichever policy decided, and whatever failed before: no vehicle that is
\* full is charged, and no charger is asked for more than its nominal power
\* (compute_and_save_action with apply_correction).
FeasibleAnswer ==
    answer # None /\ answer.charge =>
        ~ev.full /\ (answer.power # None => answer.power <= ev.nominal)

\* The stored row names the policy that computed the decision, and if that is
\* not the assigned one the client has been warned.
RowNamesTheDecider ==
    row # None =>
        /\ ran = IF row.executed = None THEN "default" ELSE row.executed
        /\ ran # Slug => answer.warning /\ row.error

\* Sum of the i-th powers of the meters of an answer.
MeterSum(meters, i) == MapThenSumSet(LAMBDA m : meters[m][i], DOMAIN meters)

\* The net load is, step by step, what the meters of the demand add up to,
\* less what those of the generation do; nothing is invented for a demand
\* that is missing or too short (fetch_site_load_for_features).
NetIsDemandMinusGeneration ==
    pc = "grid" /\ load.net # None /\ answers # None =>
        \A i \in 1..Horizon :
            load.net[i] = MeterSum(answers.demand, i)
                          - (IF load.generation = None THEN 0
                             ELSE MeterSum(answers.generation, i))

\* The series of the grid has one entry for each box of time in which a sensor
\* reported, however their clocks differ, and none of the energy is counted
\* twice or lost; its quantiles are ordered (build_net_series_kw).
GridIsBalanced ==
    pc = "observe" /\ grid # None =>
        LET maps == answers.maps.imports \o answers.maps.exports
            times == UNION {DOMAIN maps[i] : i \in DOMAIN maps}
            boxes == {BoxOf(t) : t \in times}
            mean(map, b) ==
                LET inBox == {t \in DOMAIN map : BoxOf(t) = b}
                IN  IF inBox = {} THEN 0
                    ELSE (Parts * MapThenSumSet(LAMBDA t : map[t], inBox))
                            \div Cardinality(inBox)
            sum(ms) == MapThenSumSet(LAMBDA ib : mean(ms[ib[1]], ib[2]),
                                     (DOMAIN ms) \X boxes)
        IN  /\ Len(answers.net) = Cardinality(boxes)
            /\ FoldLeft(+, 0, answers.net) =
                    sum(answers.maps.imports) - sum(answers.maps.exports)
            /\ grid.q40 <= grid.q70 /\ grid.q70 <= grid.max

\* A network reads what its sidecar declares, each feature at the place it was
\* trained with, and the slices of the default layout agree with the assembled
\* ones (assemble_observation, select_observation_from_default).
ObservationIsAsDeclared ==
    ByAnn /\ pc = "compute" =>
        LET names == assigned.features
            before(k) == ObservationDim(SubSeq(names, 1, k - 1))
            full == Assemble(ToSet(DefaultFeatures), DefaultFeatures)
        IN  /\ Len(obs) = ObservationDim(names)
            /\ \A k \in DOMAIN names : \A i \in 1..Size(names[k]) :
                    obs[before(k) + i] = <<names[k], i>>
            /\ Select(full, names) \in {obs, Failed}

\* A network that decided had every series it reads, and when the generation
\* was missing from the net load the stored row says so.
NothingIsMadeUp ==
    row # None /\ ran = "ann" =>
        /\ NeedsDemand(Features) \/ NeedsNet(Features) => load.demand # None
        /\ NeedsGeneration(Features) => load.generation # None
        /\ NeedsGrid(Features) => grid # None
        /\ NeedsNet(Features) /\ load.generation = None
              => "generation" \in row.warnings

\* The resilience contract: every event gets a decision that is stored and
\* answered, whatever the assigned policy and the other services do; only a
\* transaction that the database aborted is lost.
EveryEventIsDecided == (pc = "policy") ~> (row # None \/ aborted)
==============================================================================
