\* Two updates that overlap, after a first one that did not, continue the same
\* batch: the advisory lock does not keep them apart.
SPECIFICATION Spec
CONSTANTS
    Sessions = {s1, s2, s3}
    Chargers = {"c1", "c2"}
    Generic = "generic"
    LocalHours = {8}
    Durations = {1, 2, 4}
    Horizons = {2, 5}
    None = None
    MinSessions = 2
    MaxDuration = 3
    Recent = 2
    Importer = Importer
    Kinds <- MCKinds
    MaxInFlight = 2
    MaxImports = 0
VIEW LiveView
SYMMETRY SessionSymmetry
CONSTRAINT FirstIsAlone
INVARIANT
    ContinuedOnce
