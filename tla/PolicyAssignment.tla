-------------------------- MODULE PolicyAssignment --------------------------
(***************************************************************************)
(* The policy a charger names: the columns control_algorithm and            *)
(* control_policy of its row, beside the registry of PolicyRegistry. The    *)
(* PATCH that assigns a policy validates the pair it was sent; the requests *)
(* that create and edit a charger store whatever they were sent. All read   *)
(* the row first, and save the columns they change: a pair can be put       *)
(* together from two requests.                                              *)
(***************************************************************************)
EXTENDS PolicyRegistry

CONSTANTS
    Assigners,   \* requests PATCH /chargers/{charger_id}/policy
    Editors,     \* requests POST /db/chargers and PUT /db/chargers/{charger_id}
    Rules        \* slugs of _RULE_BASED_REGISTRY

ASSUME ChargerRequestsAreDistinct == Assigners \cap Editors = {}

Algorithms == {"ann", "rule_based", "unknown"}
Slugs == Files \cup Rules

ASSUME SlugsAreDistinct ==
    Files \cap Rules = {} /\ None \notin Rules \cup Algorithms

Pairs == [algorithm : Algorithms \cup {None}, policy : Slugs \cup {None}]
NoPair == [algorithm |-> None, policy |-> None]

VARIABLES
    row,      \* the two columns of the charger
    at,       \* at[p]: place of the request p
    seen,     \* seen[p]: the row as the request read it
    wanted,   \* wanted[p]: the two attributes as it sets them
    source    \* history: "checked" if the pair in the row was validated as it is

assignment == <<row, at, seen, wanted, source>>
allVars == <<vars, assignment>>

ChargerRequests == Assigners \cup Editors

------------------------------------------------------------------------------

\* Mutant of Exists: the directory is not looked at.
ExistsByName(pair) ==
    \/ pair = NoPair
    \/ pair.algorithm = "ann" /\ pair.policy \in Files
    \/ pair.algorithm = "rule_based" /\ pair.policy \in Rules

\* validate_policy_reference: no network is loaded.
Exists(pair) ==
    \/ pair = NoPair
    \/ /\ pair.algorithm = "ann" /\ pair.policy \in Files
       /\ model[pair.policy] # None /\ side[pair.policy] # None
    \/ pair.algorithm = "rule_based" /\ pair.policy \in Rules

\* get_policy finds a policy for the pair: half a pair is the system default.
Resolves(pair) ==
    \/ pair.algorithm = None \/ pair.policy = None
    \/ pair.algorithm = "ann" /\ pair.policy \in Files /\ Loadable(pair.policy)
    \/ pair.algorithm = "rule_based" /\ pair.policy \in Rules

\* The charger was created without a pair. One that create_charger stored with
\* a pair is one that an edit has reached first: neither looks at the pair.
AInit ==
    /\ Init
    /\ row = NoPair
    /\ at = [p \in ChargerRequests |-> "idle"]
    /\ seen = [p \in ChargerRequests |-> NoPair]
    /\ wanted = [p \in ChargerRequests |-> NoPair]
    /\ source = "checked"

Move(p, place) == at' = [at EXCEPT ![p] = place]

\* The row is read with the access check, and the payload is at hand.
ReadRow(p) ==
    /\ at[p] = "idle"
    /\ seen' = [seen EXCEPT ![p] = row]
    /\ \E pair \in Pairs : wanted' = [wanted EXCEPT ![p] = pair]
    /\ Move(p, IF p \in Assigners THEN "validate" ELSE "commit")
    /\ UNCHANGED <<vars, row, source>>

Validate(a) ==
    /\ at[a] = "validate"
    /\ Move(a, IF Exists(wanted[a]) THEN "commit" ELSE "refused")
    /\ UNCHANGED <<vars, row, seen, wanted, source>>

\* The UPDATE names the columns that differ from the row as it was read.
Saved(p) ==
    [algorithm |-> IF wanted[p].algorithm # seen[p].algorithm
                   THEN wanted[p].algorithm ELSE row.algorithm,
     policy    |-> IF wanted[p].policy # seen[p].policy
                   THEN wanted[p].policy ELSE row.policy]

\* assign_charger_policy commits. Its pair stands as it was validated, or the
\* row is left as it was, or it holds columns of two requests: a pair that
\* nobody has looked at, and that may not exist.
CommitAssignment(a) ==
    /\ at[a] = "commit" /\ a \in Assigners
    /\ row' = Saved(a)
    /\ source' = IF row' = wanted[a] THEN "checked"
                 ELSE IF row' = row THEN source ELSE "unchecked"
    /\ Move(a, "saved")
    /\ UNCHANGED <<vars, seen, wanted>>

\* update_charger commits: no column is validated.
CommitEdit(e) ==
    /\ at[e] = "commit" /\ e \in Editors
    /\ row' = Saved(e)
    /\ source' = IF row' = row THEN source ELSE "unchecked"
    /\ Move(e, "saved")
    /\ UNCHANGED <<vars, seen, wanted>>

Waiting == {"validate", "commit"}

\* The requests for chargers end with the process, too.
RestartAll ==
    /\ Restart
    /\ at' = [p \in ChargerRequests |-> IF at[p] \in Waiting THEN "lost" ELSE at[p]]
    /\ UNCHANGED <<row, seen, wanted, source>>

AllQuiet == Quiet /\ \A p \in ChargerRequests : at[p] \notin Waiting \cup {"idle"}

ANext ==
    \/ (\E u \in Uploads : Upload(u)) /\ UNCHANGED assignment
    \/ (\E r \in Lookups : Lookup(r)) /\ UNCHANGED assignment
    \/ \E p \in ChargerRequests : ReadRow(p)
    \/ \E a \in Assigners : Validate(a) \/ CommitAssignment(a)
    \/ \E e \in Editors : CommitEdit(e)
    \/ RestartAll
    \/ AllQuiet /\ UNCHANGED allVars

ASpec == AInit /\ [][ANext]_allVars

------------------------------------------------------------------------------

\* No upload under the pair's name is under way, and the last was accepted.
Settled(pair) ==
    pair.algorithm = "ann" => pair.policy \notin damaged /\ Writing(pair.policy) = {}

\* A pair that the PATCH validated, and that nobody has edited since, can be
\* loaded when the next event needs it, unless an upload under its name was
\* rejected or cut off after the assignment had looked at the directory
\* (assign_charger_policy, upload_ann_model).
AssignedIsLoadable == source = "checked" /\ Settled(row) => Resolves(row)
==============================================================================
