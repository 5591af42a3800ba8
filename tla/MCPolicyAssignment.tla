------------------------- MODULE MCPolicyAssignment -------------------------
(***************************************************************************)
(* PolicyAssignment for TLC.                                                *)
(***************************************************************************)
EXTENDS PolicyAssignment, MCPolicyRegistry, FiniteSets

\* Requests of a kind are interchangeable.
AssignmentSymmetry == RegistrySymmetry \cup Permutations(Assigners)

\* Of the row as a request read it, what matters is which columns it will save.
AssignmentView ==
    LET during(p, v) == IF at[p] \in Waiting THEN v ELSE None
        sets(p) == << wanted[p], wanted[p].algorithm # seen[p].algorithm,
                      wanted[p].policy # seen[p].policy >>
    IN  << LiveView, row, at, source,
           [p \in ChargerRequests |-> during(p, sets(p))] >>

\* The charger's requests neither read nor write the cache: two of them run over
\* one name, beside one upload and restarts; lookups and a second upload run with
\* no such request.
NoRequest == \A p \in ChargerRequests : at[p] = "idle"

Apart ==
    LET sent  == {u \in Uploads : pc[u] # "idle"}
        begun == {p \in ChargerRequests : at[p] # "idle"}
        names == {wanted[p].policy : p \in begun} \cup {file[u] : u \in sent}
    IN  /\ Cardinality(sent) <= 1 /\ Cardinality(names \cap Files) <= 1
        /\ Cardinality(begun) <= 2
        /\ \A r \in Lookups : pc[r] = "idle"

NoneOrApart == NoRequest \/ Apart

MCNext ==
    \/ NoRequest /\ Next /\ UNCHANGED assignment
    \/ Apart /\ ANext

MCSpec == AInit /\ [][MCNext]_allVars
=============================================================================
