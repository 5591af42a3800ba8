\* Four requests, one at a time, with failures and crashes in between.
SPECIFICATION Spec
CONSTANTS
    Requests = {r1, r2, r3, r4}
    Times = {1, 2, 3, 4}
    Energies = {0, 1}
    FullFlags = {TRUE, FALSE}
    None = None
    Threshold = 0
    MaxInFlight = 1
VIEW LiveView
SYMMETRY RequestSymmetry
INVARIANTS
    OneActiveSession
    ClosedIsFilled
    FilledForward
