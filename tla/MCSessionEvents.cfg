\* Three requests that all overlap, every kind of event and failure.
SPECIFICATION Spec
CONSTANTS
    Requests = {r1, r2, r3}
    Times = {1, 2, 3}
    Energies = {0, 1}
    FullFlags = {TRUE, FALSE}
    None = None
    Threshold = 0
    MaxInFlight = 3
VIEW LiveView
SYMMETRY RequestSymmetry
INVARIANTS
    TypeOK
    CopyIsCurrent
    AnswersAreTrue
    ActionsHaveEvents
    TimelineOK
    ReportsAreDistinct
PROPERTY
    ImplementsContract
