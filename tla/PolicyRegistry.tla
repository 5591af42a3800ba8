--------------------------- MODULE PolicyRegistry ---------------------------
(***************************************************************************)
(* The network policies: the files of the models directory (a model and its *)
(* sidecar under one name) and the cache of loaded policies in the memory   *)
(* of the one server process. An upload runs on the event loop, so that two *)
(* uploads do not interleave once their files have been received; decisions *)
(* look policies up in threads of their own. Rule-based policies are never  *)
(* uploaded or invalidated and always load: they are left out here.         *)
(* PolicyAssignment adds the charger that names a policy.                   *)
(***************************************************************************)
EXTENDS PolicyData, Naturals

CONSTANT
    MaxRestarts   \* how often the server process is restarted

ASSUME RequestsAreDistinct == Uploads \cap Lookups = {}

ASSUME MaxRestartsIsNat == MaxRestarts \in Nat

VARIABLES
    model,     \* model[f]: f.pth on disk
    side,      \* side[f]: f.json on disk
    cache,     \* _POLICY_CACHE
    pc,        \* pc[p]: place of the request p
    file,      \* file[p]: the name it is about
    bundle,    \* bundle[u]: the content of the two files of an upload
    got,       \* got[r]: what a lookup has read: a sidecar, then the policy
    restarts,
    accepted,  \* history: the upload whose success was answered last
    raced,     \* history: files whose last upload was overlapped by a lookup
    damaged,   \* history: files whose last upload was rejected or cut off
    torn,      \* history: files whose last model came without its sidecar
    excused    \* history: lookups during which an upload touched their file

disk == <<model, side>>
history == <<accepted, raced, damaged, torn, excused>>
vars == <<disk, cache, pc, file, bundle, got, restarts, history>>

Requests == Uploads \cup Lookups
Writing(f) == {u \in Uploads : file[u] = f /\ pc[u] \in {"side", "verify", "invalidate"}}
Loading(f) == {r \in Lookups : file[r] = f /\ pc[r] \in {"read", "load", "store", "return"}}

\* A policy can be built from what is on disk under this name.
Loadable(f) ==
    model[f] # None /\ side[f] # None /\ model[f].dim = side[f].dim

SeedContent(d) == [from |-> Seed, dim |-> d]

Init ==
    /\ model \in [Files -> {None} \cup {SeedContent(d) : d \in Dims}]
    /\ side = model
    /\ cache = [f \in Files |-> None]
    /\ pc = [p \in Requests |-> "idle"]
    /\ file = [p \in Requests |-> None]
    /\ bundle = [u \in Uploads |-> None]
    /\ got = [r \in Lookups |-> None]
    /\ restarts = 0
    /\ accepted = [f \in Files |-> IF model[f] = None THEN None ELSE Seed]
    /\ raced = {} /\ damaged = {} /\ torn = {} /\ excused = {}

Goto(p, place) == pc' = [pc EXCEPT ![p] = place]

------------------------------------------------------------------------------
(* upload_ann_model                                                          *)

\* The history kept by a step that changes a file or the cache under a name.
Touch(f) ==
    /\ raced' = IF Loading(f) # {} THEN raced \cup {f} ELSE raced
    /\ excused' = excused \cup Loading(f)

\* What an upload finds does not matter if no lookup is at work on the name:
\* it replaces the files and drops what is cached.
StartOver(f) ==
    /\ raced' = IF Loading(f) # {} THEN raced \cup {f} ELSE raced \ {f}
    /\ excused' = excused \cup Loading(f)

\* Both files have been received. Bad names, a sidecar that is no JSON object
\* and invalid observation features are rejected before anything is written.
Receive(u) ==
    /\ pc[u] = "idle"
    /\ \/ \E f \in Files, dm \in Dims, ds \in Dims :
             /\ file' = [file EXCEPT ![u] = f]
             /\ bundle' = [bundle EXCEPT ![u] =
                    [model |-> [from |-> u, dim |-> dm],
                     side  |-> [from |-> u, dim |-> ds]]]
             /\ Goto(u, "model")
       \/ Goto(u, "refused") /\ UNCHANGED <<file, bundle>>
    /\ UNCHANGED <<disk, cache, got, restarts, history>>

\* From here on the handler does not await: no other upload is in between.
WriteModel(u) ==
    /\ pc[u] = "model"
    /\ \A f \in Files : Writing(f) = {}
    /\ model' = [model EXCEPT ![file[u]] = bundle[u].model]
    /\ Goto(u, "side")
    /\ StartOver(file[u])
    /\ UNCHANGED <<side, cache, file, bundle, got, restarts,
                   accepted, damaged, torn>>

WriteSide(u) ==
    /\ pc[u] = "side"
    /\ side' = [side EXCEPT ![file[u]] = bundle[u].side]
    /\ Goto(u, "verify")
    /\ torn' = torn \ {file[u]}
    /\ Touch(file[u])
    /\ UNCHANGED <<model, cache, file, bundle, got, restarts,
                   accepted, damaged>>

\* The write of the sidecar raises OSError, before or after it has emptied the
\* file: it is outside the try, so that nothing is removed or dropped.
WriteSideFails(u) ==
    /\ pc[u] = "side"
    /\ \/ UNCHANGED side
       \/ side' = [side EXCEPT ![file[u]] = None]
    /\ Goto(u, "error")
    /\ torn' = torn \cup {file[u]}
    /\ damaged' = damaged \cup {file[u]}
    /\ Touch(file[u])
    /\ UNCHANGED <<model, cache, file, bundle, got, restarts, accepted>>

\* Mutant of Unlinked: the sidecar is forgotten.
UnlinkedModel(f) == model' = [model EXCEPT ![f] = None] /\ UNCHANGED side

Unlinked(f) ==
    /\ model' = [model EXCEPT ![f] = None]
    /\ side' = [side EXCEPT ![f] = None]

\* The network is loaded and compared with the sidecar; if they do not fit,
\* both files are removed, with whatever was there before the upload.
Verify(u) ==
    /\ pc[u] = "verify"
    /\ LET f == file[u]
       IN  IF bundle[u].model.dim = bundle[u].side.dim
           THEN Goto(u, "invalidate") /\ UNCHANGED <<disk, damaged>>
           ELSE /\ Unlinked(f)
                /\ Goto(u, "rejected")
                /\ damaged' = damaged \cup {f}
    /\ Touch(file[u])
    /\ UNCHANGED <<cache, file, bundle, got, restarts, accepted, torn>>

\* Mutants of Dropped: the wrong key; every key.
DroppedNothing(f) == cache
DroppedAll(f) == [g \in Files |-> None]

\* invalidate_policy_cache
Dropped(f) == [cache EXCEPT ![f] = None]

\* Drops the cached instance and answers.
Invalidate(u) ==
    /\ pc[u] = "invalidate"
    /\ cache' = Dropped(file[u])
    /\ Goto(u, "uploaded")
    /\ accepted' = [accepted EXCEPT ![file[u]] = u]
    /\ damaged' = damaged \ {file[u]}
    /\ Touch(file[u])
    /\ UNCHANGED <<disk, file, bundle, got, restarts, torn>>

------------------------------------------------------------------------------
(* get_policy: _get_or_load with _load_ann.                                  *)

\* `key not in _POLICY_CACHE`
Check(r) ==
    /\ pc[r] = "idle"
    /\ \E f \in Files :
          /\ file' = [file EXCEPT ![r] = f]
          /\ Goto(r, IF cache[f] = None THEN "read" ELSE "return")
          /\ raced' = IF Writing(f) # {} THEN raced \cup {f} ELSE raced
          /\ excused' = IF Writing(f) # {} \/ ~Loadable(f)
                        THEN excused \cup {r} ELSE excused
    /\ UNCHANGED <<disk, cache, bundle, got, restarts, accepted, damaged,
                   torn>>

\* The model file exists and the sidecar is read.
ReadSide(r) ==
    /\ pc[r] = "read"
    /\ IF model[file[r]] # None /\ side[file[r]] # None
       THEN got' = [got EXCEPT ![r] = side[file[r]]] /\ Goto(r, "load")
       ELSE Goto(r, "failed") /\ UNCHANGED got
    /\ UNCHANGED <<disk, cache, file, bundle, restarts, history>>

\* AnnPolicy.__init__ loads the network, if it is still there, and compares
\* its input with the features.
Fits(m, s) == m # None /\ m.dim = s.dim

Built(m, s) == [model |-> m, side |-> s]

\* The policy is built, unless the network fails to load.
LoadModel(r) ==
    /\ pc[r] = "load"
    /\ LET m == model[file[r]]
       IN  IF Fits(m, got[r])
           THEN /\ got' = [got EXCEPT ![r] = Built(m, got[r])]
                /\ Goto(r, "store")
           ELSE Goto(r, "failed") /\ UNCHANGED got
    /\ UNCHANGED <<disk, cache, file, bundle, restarts, history>>

\* Mutant of Stored: one key for all policies.
StoredForAll(r) == [f \in Files |-> got[r]]

Stored(r) == [cache EXCEPT ![file[r]] = got[r]]

Store(r) ==
    /\ pc[r] = "store"
    /\ cache' = Stored(r)
    /\ Goto(r, "return")
    /\ UNCHANGED <<disk, file, bundle, got, restarts, history>>

\* The key is read again: an upload may have dropped it meanwhile, which
\* raises KeyError.
Return(r) ==
    /\ pc[r] = "return"
    /\ Goto(r, IF cache[file[r]] = None THEN "failed" ELSE "served")
    /\ got' = [got EXCEPT ![r] = cache[file[r]]]
    /\ UNCHANGED <<disk, cache, file, bundle, restarts, history>>

------------------------------------------------------------------------------

InProgress == {"model", "side", "verify", "invalidate", "read", "load",
               "store", "return"}

\* The process stops and starts again: files and rows stay, the rest is lost.
Restart ==
    /\ restarts < MaxRestarts
    /\ restarts' = restarts + 1
    /\ cache' = [f \in Files |-> None]
    /\ pc' = [p \in Requests |-> IF pc[p] \in InProgress THEN "lost" ELSE pc[p]]
    /\ raced' = {}
    /\ damaged' = damaged \cup {f \in Files : Writing(f) # {}}
    /\ torn' = torn \cup {file[u] : u \in {v \in Uploads : pc[v] = "side"}}
    /\ UNCHANGED <<disk, file, bundle, got, accepted, excused>>

Upload(u) ==
    \/ Receive(u) \/ WriteModel(u) \/ WriteSide(u) \/ WriteSideFails(u)
    \/ Verify(u) \/ Invalidate(u)
Lookup(r) == Check(r) \/ ReadSide(r) \/ LoadModel(r) \/ Store(r) \/ Return(r)

Quiet == \A p \in Requests : pc[p] # "idle" /\ pc[p] \notin InProgress

Next ==
    \/ \E u \in Uploads : Upload(u)
    \/ \E r \in Lookups : Lookup(r)
    \/ Restart
    \/ Quiet /\ UNCHANGED vars

Spec == Init /\ [][Next]_vars

------------------------------------------------------------------------------
(* What the registry promises.                                              *)

\* Every variable has its type.
TypeOK ==
    /\ model \in [Files -> Contents \cup {None}]
    /\ side \in [Files -> Contents \cup {None}]
    /\ cache \in [Files -> Policies \cup {None}]
    /\ pc \in [Requests -> InProgress \cup {"idle", "refused", "rejected", "uploaded",
                            "error", "served", "failed", "lost"}]
    /\ file \in [Requests -> Files \cup {None}]
    /\ bundle \in [Uploads -> Policies \cup {None}]
    /\ got \in [Lookups -> Contents \cup Policies \cup {None}]
    /\ restarts \in 0..MaxRestarts
    /\ accepted \in [Files -> Origins \cup {None}]
    /\ raced \subseteq Files /\ damaged \subseteq Files /\ torn \subseteq Files
    /\ excused \subseteq Lookups

\* "No restart needed - the registry loads by filename on next use": the cached
\* policy of a file that is not being uploaded is the one whose upload was
\* answered last, unless a lookup overlapped the last upload, or this one was
\* rejected or cut off. The next upload without overlap, and the restart of a
\* server with whole files, mend that (upload_ann_model, _get_or_load).
CacheIsAccepted ==
    \A f \in Files \ (raced \cup damaged) :
        Writing(f) = {} /\ cache[f] # None =>
            cache[f].model.from = accepted[f] /\ cache[f].side.from = accepted[f]

\* A policy is served only with features that fill its network's input, even
\* when its two files were read from different uploads (_load_ann).
ServedFits ==
    \A r \in Lookups : pc[r] = "served" => got[r].model.dim = got[r].side.dim

\* A lookup fails only when its file cannot be loaded at its start or is
\* uploaded meanwhile: not because of another name (_get_or_load).
FailsForAReason ==
    \A r \in Lookups : pc[r] = "failed" => r \in excused

\* Unless the last upload ended between its two files, because the process was
\* stopped or the disk failed there, a model and its sidecar come from the same
\* upload, or neither is there (upload_ann_model).
FilesArePaired ==
    \A f \in Files : Writing(f) = {} /\ f \notin torn =>
        IF model[f] = None THEN side[f] = None
        ELSE side[f] # None /\ side[f].from = model[f].from

------------------------------------------------------------------------------
(* The abstract registry that this one implements.                          *)

Offered == [f \in Files |-> {Seed} \cup {u \in Uploads : file[u] = f}]
Answered == {u \in Uploads : pc[u] = "uploaded"}
Loose == raced \cup damaged \cup {f \in Files : Writing(f) # {}}
Served ==
    [r \in Lookups |->
        IF pc[r] = "served" THEN [file |-> file[r], policy |-> got[r]] ELSE None]

Contract == INSTANCE PolicyContract
    WITH offered <- Offered, answered <- Answered, loose <- Loose, served <- Served

\* However the file operations, the accesses to the cache and restarts
\* interleave, a lookup acts as one atomic read of a register that holds the
\* version accepted last; where uploads make this false, it still gets parts
\* that fit and that were sent under its name (get_policy, upload_ann_model).
ImplementsContract == Contract!Spec

\* "Verify network input dim against sidecar features; roll back on mismatch":
\* after a rejected upload the version that was accepted before is in place.
\* (upload_ann_model removes it.)
AcceptedStays ==
    \A f \in Files \ torn : accepted[f] # None /\ Writing(f) = {} =>
        model[f] # None /\ model[f].from = accepted[f]
==============================================================================
