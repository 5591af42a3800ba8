--------------------------- MODULE MCPolicyRegistry ---------------------------
(***************************************************************************)
(* PolicyRegistry for TLC. Dimensions are only compared: two model values.  *)
(***************************************************************************)
EXTENDS PolicyRegistry, TLC

\* Requests of a kind are interchangeable, and so are the files.
RegistrySymmetry ==
    Permutations(Files) \cup Permutations(Uploads) \cup Permutations(Lookups)
    \cup Permutations(Dims)

\* What a finished request leaves behind in its variables is never read again,
\* but for the policy a lookup was served and the name an upload was sent for.
LiveView ==
    LET live(p, v) == IF pc[p] \in InProgress THEN v ELSE None
    IN  << disk, cache, pc, restarts, history,
           [p \in Requests |-> IF p \in Uploads THEN file[p] ELSE live(p, file[p])],
           [u \in Uploads |-> live(u, bundle[u])],
           [r \in Lookups |-> IF pc[r] = "served" THEN got[r] ELSE live(r, got[r])] >>
===============================================================================
