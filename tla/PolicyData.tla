----------------------------- MODULE PolicyData -----------------------------
(***************************************************************************)
(* What an upload of a network policy brings: a model and its sidecar, each *)
(* known by the upload it came with and by the dimension of the network's   *)
(* input.                                                                   *)
(***************************************************************************)
CONSTANTS
    Files,        \* names of models
    Uploads,      \* requests POST /admin/policies/ann/upload
    Lookups,      \* decisions that need a network policy
    Seed,         \* the origin of the files that were there at the start
    Dims,         \* input dimensions of a network
    None

Origins == Uploads \cup {Seed}

ASSUME SeedIsNoUpload == Seed \notin Uploads

\* A model expects an input of dimension `dim`; a sidecar declares features
\* that assemble to one.
Contents == [from : Origins, dim : Dims]
Policies == [model : Contents, side : Contents]

ASSUME NoneIsFresh == None \notin Files \cup Origins \cup Contents \cup Policies

FitsTogether(policy) == policy.model.dim = policy.side.dim
=============================================================================
