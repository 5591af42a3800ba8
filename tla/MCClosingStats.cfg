\* Three sessions end, two updates at a time; one file may be imported.
SPECIFICATION Spec
CONSTANTS
    Sessions = {s1, s2, s3}
    Chargers = {"c1", "c2"}
    Generic = "generic"
    LocalHours = {8}
    Durations = {1, 2, 4}
    Horizons = {2, 5}
    None = None
    MinSessions = 2
    MaxDuration = 3
    Recent = 2
    Importer = Importer
    Kinds <- MCKinds
    MaxInFlight = 2
    MaxImports = 1
VIEW LiveView
SYMMETRY SessionSymmetry
INVARIANTS
    StatsAreExact
    CurvesAreEmpirical
    EachSampleOnce
    LookupsAreDistribution
PROPERTY
    NoRegress
