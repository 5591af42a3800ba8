--------------------------- MODULE MCForecastJobs ---------------------------
(***************************************************************************)
(* Two worker processes, one station with a history and one charger        *)
(* without, more vehicles than the station has places, and short series.   *)
(***************************************************************************)
EXTENDS ForecastJobs

MCCapacity    == [s \in Stations |-> 1]
MCPool        == {Vehicle(1, 1), Vehicle(1, 3)}
MCRawPresence == {-1, 3}
MCRawEnergy   == {-1}

\* Nothing but ForecastsAreSound reads the vehicles and the rows of a series.
SeriesView ==
    LET job_of(t) == IF t.pc = "persist" THEN << t.kind, t.run_at, t.model >> ELSE t
    IN  << jobVars, queue, file, served, started, outages,
           [w \in Workers |-> job_of(tasks[w])], ForecastsAreSound >>
=============================================================================
