----------------------------- MODULE MCRecords -----------------------------
(***************************************************************************)
(* Two overlapping requests on a small store: an administrator, a user     *)
(* with a pilot, and the owner of a charger in that pilot, with a session, *)
(* its action and the rows that refer to them.                             *)
(***************************************************************************)
EXTENDS Records, TLC

Owner(n, ro) == Row("owners", [user |-> n, role |-> ro, token |-> Null])

MCFull ==
    <<Owner("root", "admin"), Owner("ann", "user-adv"), Owner("bob", "user"),
      Row("pilot", [name |-> "root", id_owner |-> 2]),
      Row("chargers", [id_owner |-> 3, id_pilot |-> 4]),
      Row("charging_sessions", [id_charger |-> 5]),
      Row("actions", [id_cs |-> 6]),
      Row("grid_load_forecasted", [id_action |-> 7])>>

MCSupport ==
    <<Owner("root", "admin"), Owner("ann", "user-adv"),
      Row("pilot", [name |-> "root", id_owner |-> 2]),
      Row("forecast_jobs", [job_id |-> 3, id_pilot |-> 3]),
      Row("pilot_secret", [name |-> "ann", id_pilot |-> 3]),
      Row("ev_pilot_forecast_timeseries", [id_pilot |-> 3])>>

MCSeeds == {MCFull, MCSupport}

RequestSymmetry == Permutations(Requests)
=============================================================================
