\* Two overlapping tasks, a change of the job, an outage or a crash; one place
\* and up to two vehicles.
SPECIFICATION Spec
CONSTANTS
    Stations = {s1}
    Newcomers = {n1}
    Capacity <- MCCapacity
    Pool <- MCPool
    Arrivals = {0, 2}
    Power = 1
    MaxPower = 2
    Steps = 2
    RawPresence <- MCRawPresence
    RawEnergy <- MCRawEnergy
    Workers = {w1, w2}
    Kinds = {"sim", "reg", "reg_prob"}
    Prune = FALSE
    MaxEdits = 1
    MaxTasks = 2
    MaxOutages = 1
    MaxParked = 2
    MayExpire = TRUE
    None = None
VIEW SeriesView
INVARIANTS
    RightModel
    ForecastsAreSound
PROPERTIES
    ServedMovesForward
    EntryFollowsJob
\* Bounded tasks: the worker may run out of them.
CHECK_DEADLOCK FALSE
