------------------------------ MODULE MCDecision ------------------------------
(***************************************************************************)
(* Decision for TLC: a horizon of two steps, boxes of two instants, and for  *)
(* every rule of a policy events on both sides of its threshold.            *)
(***************************************************************************)
EXTENDS Decision, TLC

MCEvents ==
    [full : BOOLEAN, nominal : {0, 4}, delivered : {0, 3, 4}, needed : {0, 4},
     connected : {0, 3, 5}, duration : {4}]

FeatureLists ==
    { DefaultFeatures,
      <<"net_demand_forecast", "vehicle_connected">>,
      <<"grid_net_power_month", "energy_charged_rel_needed">>,
      <<"generation_forecast", "demand_forecast">>,
      <<"load_level_relative", "generation_forecast">> }

\* Binary; power levels, one above the nominal power; fewer levels than outputs.
Heads == { [levels |-> None, outputs |-> 2],
           [levels |-> <<0, 4, 8>>, outputs |-> 3],
           [levels |-> <<0>>, outputs |-> 2] }

Policy(slug, features, head) ==
    [slug |-> slug, features |-> features, levels |-> head.levels,
     outputs |-> head.outputs]

\* "gone" is any assignment that get_policy does not find.
MCPolicies ==
    {None}
    \cup {Policy(s, <<>>, [levels |-> None, outputs |-> 0]) :
            s \in {"gone", "default", "wind_max"}}
    \cup {Policy("ann", f, h) : f \in FeatureLists, h \in Heads}

\* Not configured, refused, without a secret, too short, one and two meters.
MCDemandAnswers ==
    {None, Failed, <<>>, << <<5>> >>, << <<5, 7>> >>,
     << <<5, 7, 9>>, <<1, 2>> >>}
MCGenerationAnswers ==
    {None, Failed, Escaped, << <<1, 0>>, <<2>> >>, << <<1, 0>>, <<2, 8>> >>}

Late == 0 :> 2 @@ 1 :> 6
Skewed == 1 :> 4 @@ 2 :> 6
Sparse == 3 :> 8
Silent == << >>
GridMaps == {Late, Skewed, Sparse, Silent}

MCGridAnswers ==
    {Failed}
    \cup {[imports |-> <<a>>, exports |-> <<>>] : a \in GridMaps}
    \cup {[imports |-> <<a, b>>, exports |-> <<c>>] :
            a \in GridMaps, b \in GridMaps, c \in {Late, Silent}}

Point(v, t) == [value |-> v, time |-> t]
MCWindAnswers ==
    {None, Failed, <<>>, <<Point(1, 5)>>, <<Point(5, 4), Point(0, 3)>>,
     <<Point(0, None), Point(2, 3)>>, <<Point(2, None), Point(4, None)>>}
===============================================================================
