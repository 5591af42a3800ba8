\* Three requests, two of them overlapping. No symmetry: it is unsound here.
SPECIFICATION FairSpec
CONSTANTS
    Requests = {r1, r2, r3}
    Times = {1, 2, 3}
    Energies = {0}
    FullFlags = {FALSE}
    None = None
    Threshold = 0
    MaxInFlight = 2
VIEW LiveView
PROPERTY
    EveryRequestEnds
