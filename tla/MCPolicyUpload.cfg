\* One upload that is rejected, over a file that is in use.
SPECIFICATION Spec
CONSTANTS
    Files = {f1, f2}
    Uploads = {u1}
    Lookups = {r1, r2}
    Seed = Seed
    Dims = {d1, d2}
    MaxRestarts = 0
    None = None
SYMMETRY RegistrySymmetry
VIEW LiveView
INVARIANTS
    AcceptedStays
