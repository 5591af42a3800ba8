\* Two uploads, two lookups and a restart in any order; one upload and a restart
\* beside two assignments and an edit.
SPECIFICATION MCSpec
CONSTANTS
    Files = {f1, f2}
    Rules = {wind_max}
    Uploads = {u1, u2}
    Lookups = {r1, r2}
    Assigners = {a1, a2}
    Editors = {e1}
    Seed = Seed
    Dims = {d1, d2}
    MaxRestarts = 1
    None = None
SYMMETRY AssignmentSymmetry
VIEW AssignmentView
CONSTRAINT NoneOrApart
INVARIANTS
    CacheIsAccepted
    FailsForAReason
    FilesArePaired
    AssignedIsLoadable
PROPERTY
    ImplementsContract
