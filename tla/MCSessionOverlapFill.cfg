\* Two requests overlap after the connection: FilledForward does not survive it.
SPECIFICATION Spec
CONSTANTS
    Requests = {r1, r2, r3}
    Times = {1, 2, 3}
    Energies = {0, 1}
    FullFlags = {TRUE, FALSE}
    None = None
    Threshold = 0
    MaxInFlight = 2
VIEW LiveView
SYMMETRY RequestSymmetry
INVARIANT
    FilledForward
