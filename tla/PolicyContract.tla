--------------------------- MODULE PolicyContract ---------------------------
(***************************************************************************)
(* What the registry promises to whoever looks a network policy up: a name  *)
(* is a register that holds the version accepted last, and a lookup reads   *)
(* it in one step. A name is loose while this cannot be said of it: from    *)
(* the first file of an upload on, until an upload is accepted that no      *)
(* lookup overlapped, or a restart empties the cache and finds whole files. *)
(* Even then a lookup gets parts that fit and that came under its name.     *)
(*                                                                          *)
(* The files, the cache and the steps of the handlers are in                *)
(* PolicyRegistry, which implements this module.                            *)
(***************************************************************************)
EXTENDS PolicyData

VARIABLES
    offered,   \* offered[f]: the versions that have been sent under a name
    accepted,  \* accepted[f]: the one whose success was answered last
    answered,  \* the uploads whose success was answered
    loose,     \* the names of which only the weaker promise holds
    served     \* served[r]: the name and the policy that lookup r got

cvars == <<offered, accepted, answered, loose, served>>

Init ==
    /\ offered = [f \in Files |-> {Seed}]
    /\ accepted \in [Files -> {None, Seed}]
    /\ answered = {}
    /\ loose = {}
    /\ served = [r \in Lookups |-> None]

\* An upload has sent its files.
Offer(u, f) ==
    /\ \A g \in Files : u \notin offered[g]
    /\ offered' = [offered EXCEPT ![f] = @ \cup {u}]
    /\ UNCHANGED <<accepted, answered, loose, served>>

\* An upload begins to replace the files of a name.
Loosen(f) ==
    /\ loose' = loose \cup {f}
    /\ UNCHANGED <<offered, accepted, answered, served>>

\* An upload succeeds, once, under the name it was sent for.
Accept(u, f) ==
    /\ f \in loose
    /\ u \in offered[f] \ answered
    /\ accepted' = [accepted EXCEPT ![f] = u]
    /\ answered' = answered \cup {u}
    /\ loose' \in {loose, loose \ {f}}
    /\ UNCHANGED <<offered, served>>

\* A lookup is answered, with the accepted version unless the name is loose.
Serve(r, f) ==
    /\ served[r] = None
    /\ \E p \in Policies :
          /\ FitsTogether(p)
          /\ {p.model.from, p.side.from} \subseteq
                 IF f \in loose THEN offered[f] ELSE {accepted[f]}
          /\ served' = [served EXCEPT ![r] = [file |-> f, policy |-> p]]
    /\ UNCHANGED <<offered, accepted, answered, loose>>

\* A restart forgets which lookups were overlapped.
Restart ==
    /\ loose' \in SUBSET loose
    /\ UNCHANGED <<offered, accepted, answered, served>>

Next ==
    \/ \E f \in Files :
          \/ Loosen(f)
          \/ \E u \in Uploads : Offer(u, f) \/ Accept(u, f)
          \/ \E r \in Lookups : Serve(r, f)
    \/ Restart

Spec == Init /\ [][Next]_cvars
=============================================================================
