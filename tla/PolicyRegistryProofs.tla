------------------------ MODULE PolicyRegistryProofs ------------------------
(***************************************************************************)
(* Proofs about PolicyRegistry, for any number of models, uploads and       *)
(* lookups in any order, and any restarts; and about PolicyAssignment, for  *)
(* any number of assignments and edits beside them.                         *)
(***************************************************************************)
EXTENDS PolicyAssignment, TLAPS

(***************************************************************************)
(* The inductive invariant. What an upload in progress has done to the disk *)
(* so far, and that no other upload is in between.                          *)
(***************************************************************************)
Uploading(u) == pc[u] \in {"side", "verify", "invalidate"}

UploadOK(u) ==
    /\ pc[u] \in {"model", "side", "verify", "invalidate"} =>
         /\ file[u] \in Files /\ bundle[u] \in Policies
         /\ bundle[u].model.from = u /\ bundle[u].side.from = u
    /\ Uploading(u) => model[file[u]] = bundle[u].model
    /\ pc[u] \in {"verify", "invalidate"} => side[file[u]] = bundle[u].side
    /\ pc[u] = "invalidate" => bundle[u].model.dim = bundle[u].side.dim

UploadsOK ==
    /\ \A u \in Uploads : UploadOK(u)
    /\ \A u, v \in Uploads : Uploading(u) /\ Uploading(v) => u = v

(***************************************************************************)
(* A name that is not being uploaded: its files come in pairs, of the       *)
(* version accepted last, unless the history says why not.                  *)
(***************************************************************************)
Busy(f) == \E u \in Uploads : file[u] = f /\ Uploading(u)

Paired(f) ==
    IF model[f] = None THEN side[f] = None
    ELSE side[f] # None /\ side[f].from = model[f].from

FileOK(f) ==
    /\ ~Busy(f) /\ (f \notin torn \/ f \notin damaged) => Paired(f)
    /\ ~Busy(f) /\ f \notin damaged /\ model[f] # None =>
         Loadable(f) /\ model[f].from = accepted[f]

FilesOK == \A f \in Files : FileOK(f)

(***************************************************************************)
(* The cache holds policies whose two parts fit and, but for races and      *)
(* damage, those accepted last, unless an upload is about to drop them.     *)
(***************************************************************************)
IsAccepted(content, f) == content.from = accepted[f]

CacheOK ==
    \A f \in Files : cache[f] # None =>
        /\ FitsTogether(cache[f])
        /\ f \notin raced \cup damaged /\ ~Busy(f) =>
             IsAccepted(cache[f].model, f) /\ IsAccepted(cache[f].side, f)

(***************************************************************************)
(* What a lookup may rely on at each of its places.                         *)
(***************************************************************************)
AtWork(r) == pc[r] \in {"read", "load", "store", "return"}

LookupOK(r) ==
    /\ AtWork(r) => file[r] \in Files
    /\ pc[r] = "load" => got[r] \in Contents
    /\ pc[r] \in {"store", "served"} => got[r] \in Policies /\ FitsTogether(got[r])
    /\ AtWork(r) /\ file[r] \notin raced => ~Busy(file[r])
    /\ file[r] \notin raced \cup damaged =>
         /\ pc[r] = "load" => IsAccepted(got[r], file[r])
         /\ pc[r] = "store" =>
              IsAccepted(got[r].model, file[r]) /\ IsAccepted(got[r].side, file[r])
    /\ AtWork(r) /\ r \notin excused =>
         /\ ~Busy(file[r]) /\ Loadable(file[r])
         /\ pc[r] = "load" => got[r] = side[file[r]]
         /\ pc[r] = "return" => cache[file[r]] # None
    /\ pc[r] = "failed" => r \in excused

LookupsOK == \A r \in Lookups : LookupOK(r)

IInv ==
    /\ TypeOK /\ UploadsOK /\ FilesOK /\ CacheOK /\ LookupsOK

------------------------------------------------------------------------------
(* Helpers. *)

Places == InProgress \cup {"idle", "refused", "rejected", "uploaded", "error",
                           "served", "failed", "lost"}

\* Nobody writes the files of a name that is not busy, and lookups at work are
\* those the history speaks of.
LEMMA SetsArePredicates ==
    ASSUME NEW f \in Files
    PROVE  /\ Writing(f) = {} <=> ~Busy(f)
           /\ \A r : r \in Loading(f) <=> r \in Lookups /\ file[r] = f /\ AtWork(r)
  BY DEF Writing, Busy, Uploading, Loading, AtWork

\* NULL is no content and no policy, and the parts of these have their types.
LEMMA ContentFields ==
    /\ \A c \in Contents : c # None /\ c.from \in Origins /\ c.dim \in Dims
    /\ \A p \in Policies : p # None /\ p.model \in Contents /\ p.side \in Contents
  BY NoneIsFresh DEF Contents, Policies

\* The server starts with the shipped models, each with its sidecar.
LEMMA InitOK == Init => IInv
<1> SUFFICES ASSUME Init PROVE IInv
  OBVIOUS
<1>1. \A d \in Dims : SeedContent(d) \in Contents /\ SeedContent(d).from = Seed
  BY DEF SeedContent, Contents, Origins
<1>2. TypeOK
  <2>1. /\ model \in [Files -> Contents \cup {None}]
        /\ side \in [Files -> Contents \cup {None}]
    BY <1>1 DEF Init
  <2>2. accepted \in [Files -> Origins \cup {None}]
    BY DEF Init, Origins
  <2> QED
    BY <2>1, <2>2, MaxRestartsIsNat DEF Init, TypeOK, InProgress
<1>3. UploadsOK
  BY DEF Init, UploadsOK, UploadOK, Uploading, Requests
<1>4. FilesOK
  <2> SUFFICES ASSUME NEW f \in Files PROVE FileOK(f)
    BY DEF FilesOK
  <2>1. /\ ~Busy(f) /\ side[f] = model[f]
        /\ model[f] # None => model[f] \in Contents /\ model[f].from = Seed
        /\ accepted[f] = IF model[f] = None THEN None ELSE Seed
    BY <1>1 DEF Init, Busy, Uploading, Requests
  <2> QED
    BY <2>1 DEF FileOK, Paired, Loadable
<1>5. CacheOK /\ LookupsOK
  BY DEF Init, CacheOK, LookupsOK, LookupOK, AtWork, Requests
<1> QED
  BY <1>2, <1>3, <1>4, <1>5 DEF IInv

------------------------------------------------------------------------------
(* Types. *)

\* Goto keeps the table of places.
LEMMA GotoType ==
    ASSUME TypeOK, NEW p \in Requests, NEW place \in Places, Goto(p, place)
    PROVE  pc' \in [Requests -> Places]
  BY DEF TypeOK, Goto, Places

\* No step breaks a type.
LEMMA StepTypeOK == ASSUME IInv, Next PROVE TypeOK'
<1> USE DEF IInv, disk, history
<1>1. ASSUME NEW u \in Uploads, Receive(u) PROVE TypeOK'
  <2>1. CASE \E f \in Files, dm \in Dims, ds \in Dims :
             /\ file' = [file EXCEPT ![u] = f]
             /\ bundle' = [bundle EXCEPT ![u] =
                    [model |-> [from |-> u, dim |-> dm],
                     side  |-> [from |-> u, dim |-> ds]]]
             /\ Goto(u, "model")
    <3>1. \A d \in Dims : [from |-> u, dim |-> d] \in Contents
      BY DEF Contents, Origins
    <3>2. bundle' \in [Uploads -> Policies \cup {None}]
      BY <2>1, <3>1 DEF TypeOK, Policies
    <3> QED
      BY <1>1, <2>1, <3>2 DEF Receive, TypeOK, Goto, Requests, InProgress
  <2>2. CASE Goto(u, "refused") /\ UNCHANGED <<file, bundle>>
    BY <1>1, <2>2 DEF Receive, TypeOK, Goto, Requests
  <2> QED
    BY <1>1, <2>1, <2>2 DEF Receive
<1>2. ASSUME NEW u \in Uploads,
             WriteModel(u) \/ WriteSide(u) \/ WriteSideFails(u) \/ Verify(u)
               \/ Invalidate(u)
      PROVE  TypeOK'
  <2>1. /\ file[u] \in Files /\ bundle[u] \in Policies
    BY <1>2 DEF WriteModel, WriteSide, WriteSideFails, Verify, Invalidate, UploadsOK, UploadOK
  <2>2. bundle[u].model \in Contents /\ bundle[u].side \in Contents
    BY <2>1, ContentFields
  <2>3. Touch(file[u]) \/ StartOver(file[u]) =>
            raced' \subseteq Files /\ excused' \subseteq Lookups
    BY <2>1 DEF Touch, StartOver, TypeOK, Loading
  <2>4. CASE WriteModel(u)
    BY <2>1, <2>2, <2>3, <2>4 DEF WriteModel, TypeOK, Goto, Requests, InProgress
  <2>5. CASE WriteSide(u)
    BY <2>1, <2>2, <2>3, <2>5 DEF WriteSide, TypeOK, Goto, Requests, InProgress
  <2>8. CASE WriteSideFails(u)
    BY <2>1, <2>3, <2>8 DEF WriteSideFails, TypeOK, Goto, Requests, InProgress
  <2>6. CASE Verify(u)
    BY <2>1, <2>3, <2>6 DEF Verify, Unlinked, TypeOK, Goto, Requests, InProgress
  <2>7. CASE Invalidate(u)
    BY <2>1, <2>3, <2>7 DEF Invalidate, Dropped, TypeOK, Goto, Requests, Origins
  <2> QED
    BY <1>2, <2>4, <2>5, <2>6, <2>7, <2>8
<1>3. ASSUME NEW r \in Lookups, Check(r) PROVE TypeOK'
  BY <1>3 DEF Check, TypeOK, Goto, Requests, InProgress
<1>4. ASSUME NEW r \in Lookups, ReadSide(r) PROVE TypeOK'
  <2>1. file[r] \in Files
    BY <1>4 DEF ReadSide, LookupsOK, LookupOK, AtWork
  <2> QED
    BY <1>4, <2>1 DEF ReadSide, TypeOK, Goto, Requests, InProgress
<1>5. ASSUME NEW r \in Lookups, LoadModel(r) PROVE TypeOK'
  <2>1. file[r] \in Files /\ got[r] \in Contents
    BY <1>5 DEF LoadModel, LookupsOK, LookupOK, AtWork
  <2>2. Fits(model[file[r]], got[r]) => Built(model[file[r]], got[r]) \in Policies
    BY <2>1 DEF Fits, Built, TypeOK, Policies
  <2> QED
    BY <1>5, <2>1, <2>2 DEF LoadModel, TypeOK, Goto, Requests, InProgress
<1>6. ASSUME NEW r \in Lookups, Store(r) PROVE TypeOK'
  <2>1. file[r] \in Files /\ got[r] \in Policies
    BY <1>6 DEF Store, Stored, LookupsOK, LookupOK, AtWork
  <2> QED
    BY <1>6, <2>1 DEF Store, Stored, TypeOK, Goto, Requests, InProgress
<1>7. ASSUME NEW r \in Lookups, Return(r) PROVE TypeOK'
  <2>1. file[r] \in Files
    BY <1>7 DEF Return, LookupsOK, LookupOK, AtWork
  <2> QED
    BY <1>7, <2>1 DEF Return, TypeOK, Goto, Requests, InProgress
<1>10. CASE Restart
  <2>1. \A u \in Uploads : pc[u] = "side" => file[u] \in Files
    BY DEF UploadsOK, UploadOK
  <2> QED
    BY <1>10, <2>1, MaxRestartsIsNat DEF Restart, TypeOK, InProgress
<1>11. CASE Quiet /\ UNCHANGED vars
  BY <1>11 DEF vars, TypeOK
<1> QED
  BY <1>1, <1>2, <1>3, <1>4, <1>5, <1>6, <1>7, <1>10, <1>11
     DEF Next, Upload, Lookup

------------------------------------------------------------------------------
(* Uploads. *)

\* The history of a step of an upload: lookups at work on the name are noted.
Noted(f) ==
    /\ raced' \ {f} = raced \ {f}
    /\ Loading(f) # {} => f \in raced'
    /\ f \in raced /\ Busy(f) => f \in raced'
    /\ excused' = excused \cup Loading(f)

(***************************************************************************)
(* What an upload that has its files does to the others: it leaves their    *)
(* variables alone and changes what is known of its own name only.          *)
(***************************************************************************)
UploadFrame(u) ==
    /\ Noted(file[u])
    /\ \A p \in Requests \ {u} : pc'[p] = pc[p]
    /\ \A v \in Uploads \ {u} : ~Uploading(v)
    /\ \A g \in Files \ {file[u]} :
         /\ model'[g] = model[g] /\ side'[g] = side[g]
         /\ cache'[g] = cache[g] /\ accepted'[g] = accepted[g]
         /\ (g \in damaged' <=> g \in damaged) /\ (g \in torn' <=> g \in torn)
    /\ UNCHANGED <<file, bundle, got, restarts>>

\* The steps keep to the frame.
LEMMA UploadStepFrame ==
    ASSUME IInv, NEW u \in Uploads,
           WriteModel(u) \/ WriteSide(u) \/ WriteSideFails(u) \/ Verify(u)
               \/ Invalidate(u)
    PROVE  UploadFrame(u) /\ file[u] \in Files /\ bundle[u] \in Policies
<1> USE DEF IInv, TypeOK, disk, history, Goto, Requests
<1>1. file[u] \in Files /\ bundle[u] \in Policies
  BY DEF WriteModel, WriteSide, WriteSideFails, Verify, Invalidate, UploadsOK, UploadOK
<1>2. CASE WriteModel(u)
  <2>1. \A v \in Uploads \ {u} : ~Uploading(v)
    <3> SUFFICES ASSUME NEW v \in Uploads \ {u}, Uploading(v) PROVE FALSE
      OBVIOUS
    <3>1. file[v] \in Files
      BY DEF Uploading, UploadsOK, UploadOK
    <3> QED
      BY <1>2, <3>1, SetsArePredicates DEF WriteModel, Busy
  <2>2. ~Busy(file[u])
    BY <1>1, <1>2, SetsArePredicates DEF WriteModel
  <2>3. Noted(file[u])
    BY <1>2, <2>2 DEF WriteModel, StartOver, Noted
  <2> QED
    BY <1>1, <1>2, <2>1, <2>3 DEF WriteModel, UploadFrame
<1>3. CASE WriteSide(u) \/ WriteSideFails(u) \/ Verify(u) \/ Invalidate(u)
  <2>1. \A v \in Uploads \ {u} : ~Uploading(v)
    BY <1>3 DEF WriteSide, WriteSideFails, Verify, Invalidate, UploadsOK, Uploading
  <2>0. Noted(file[u])
    BY <1>3 DEF WriteSide, WriteSideFails, Verify, Invalidate, Touch, Noted
  <2>2. CASE WriteSide(u)
    BY <1>1, <2>0, <2>1, <2>2 DEF WriteSide, UploadFrame
  <2>5. CASE WriteSideFails(u)
    BY <1>1, <2>0, <2>1, <2>5 DEF WriteSideFails, UploadFrame
  <2>3. CASE Verify(u)
    BY <1>1, <2>0, <2>1, <2>3 DEF Verify, Unlinked, UploadFrame
  <2>4. CASE Invalidate(u)
    BY <1>1, <2>0, <2>1, <2>4 DEF Invalidate, Dropped, UploadFrame
  <2> QED
    BY <1>3, <2>2, <2>3, <2>4, <2>5
<1> QED
  BY <1>1, <1>2, <1>3

\* The other names stay as they are: busy or not, and what is known of them.
LEMMA OtherNamesStay ==
    ASSUME IInv, NEW u \in Uploads, UploadFrame(u), NEW g \in Files, g # file[u]
    PROVE  (Busy(g)' <=> Busy(g)) /\ FileOK(g)'
<1>1. Busy(g)' <=> Busy(g)
  BY DEF UploadFrame, Busy, Uploading, Requests
<1>2. FileOK(g)
  BY DEF IInv, FilesOK
<1>3. /\ model'[g] = model[g] /\ side'[g] = side[g] /\ accepted'[g] = accepted[g]
      /\ (g \in damaged' <=> g \in damaged) /\ (g \in torn' <=> g \in torn)
  BY DEF UploadFrame
<1> QED
  BY <1>1, <1>2, <1>3 DEF FileOK, Paired, Loadable

\* The other uploads have not written anything yet, or are over.
LEMMA OtherUploadsStay ==
    ASSUME IInv, NEW u \in Uploads, UploadFrame(u), NEW v \in Uploads, v # u
    PROVE  UploadOK(v)' /\ ~Uploading(v)'
  BY DEF IInv, UploadFrame, UploadsOK, UploadOK, Uploading, Requests

\* A lookup at work on the name is in the history from now on, and may then
\* fail; the others do not notice.
LEMMA LookupsStay ==
    ASSUME IInv, NEW u \in Uploads, UploadFrame(u), file[u] \in Files
    PROVE  LookupsOK'
<1> SUFFICES ASSUME NEW r \in Lookups PROVE LookupOK(r)'
  BY DEF LookupsOK
<1>1. /\ pc'[r] = pc[r] /\ file' = file /\ got' = got
  BY RequestsAreDistinct DEF UploadFrame, Requests
<1>2. LookupOK(r)
  BY DEF IInv, LookupsOK
<1>3. /\ raced \ {file[u]} \subseteq raced' /\ excused \subseteq excused'
      /\ AtWork(r) /\ file[r] = file[u] =>
           file[r] \in raced' /\ r \in excused'
  BY SetsArePredicates DEF UploadFrame, Noted
<1>4. AtWork(r)' <=> AtWork(r)
  BY <1>1 DEF AtWork
<1>5. CASE AtWork(r) /\ file[r] = file[u]
  BY <1>1, <1>2, <1>3, <1>4, <1>5 DEF LookupOK, AtWork
<1>6. CASE AtWork(r) /\ file[r] # file[u]
  <2> DEFINE g == file[r]
  <2>1. g \in Files
    BY <1>2, <1>6 DEF LookupOK
  <2>2. /\ Busy(g)' <=> Busy(g)
        /\ side'[g] = side[g] /\ model'[g] = model[g]
        /\ cache'[g] = cache[g] /\ accepted'[g] = accepted[g]
        /\ (g \in damaged' <=> g \in damaged)
        /\ g \in raced => g \in raced'
    BY <1>3, <1>6, <2>1, OtherNamesStay DEF UploadFrame
  <2> QED
    BY <1>1, <1>2, <1>3, <1>4, <2>2 DEF LookupOK, Loadable, IsAccepted
<1>7. CASE ~AtWork(r)
  BY <1>1, <1>2, <1>3, <1>4, <1>7 DEF LookupOK, AtWork
<1> QED
  BY <1>5, <1>6, <1>7

(***************************************************************************)
(* So an upload has to account for its own name only.                       *)
(***************************************************************************)
LEMMA UploadKeeps ==
    ASSUME IInv, NEW u \in Uploads, UploadFrame(u),
           NEW f \in Files, f = file[u], UploadOK(u)', FileOK(f)',
           cache'[f] \in {None, cache[f]},
           cache'[f] # None => Busy(f)' \/ f \in damaged'
    PROVE  UploadsOK' /\ FilesOK' /\ CacheOK' /\ LookupsOK'
<1>1. UploadsOK'
  BY OtherUploadsStay DEF UploadsOK
<1>2. FilesOK'
  BY OtherNamesStay DEF FilesOK, UploadFrame
<1>3. CacheOK'
  <2> SUFFICES ASSUME NEW g \in Files, cache'[g] # None
               PROVE  /\ FitsTogether(cache'[g])
                      /\ g \notin raced' \cup damaged' /\ ~Busy(g)' =>
                           /\ cache'[g].model.from = accepted'[g]
                           /\ cache'[g].side.from = accepted'[g]
    BY DEF CacheOK, FitsTogether, IsAccepted
  <2>1. cache'[g] = cache[g]
    BY DEF UploadFrame
  <2>2. CASE g = f
    BY <2>1, <2>2 DEF IInv, CacheOK, FitsTogether
  <2>3. CASE g # f
    <3>1. /\ accepted'[g] = accepted[g] /\ (g \in damaged' <=> g \in damaged)
          /\ (g \in raced' <=> g \in raced)
      BY <2>3 DEF UploadFrame, Noted
    <3>2. Busy(g)' <=> Busy(g)
      BY <2>3, OtherNamesStay
    <3> QED
      BY <2>1, <3>1, <3>2 DEF IInv, CacheOK, FitsTogether, IsAccepted
  <2> QED
    BY <2>2, <2>3
<1>4. LookupsOK'
  BY LookupsStay
<1> QED
  BY <1>1, <1>2, <1>3, <1>4

\* Each step of an upload that has its files keeps the invariant.
LEMMA WriterStepOK ==
    ASSUME IInv, NEW u \in Uploads, NEW f \in Files, f = file[u],
           WriteModel(u) \/ WriteSide(u) \/ WriteSideFails(u) \/ Verify(u)
               \/ Invalidate(u)
    PROVE  UploadsOK' /\ FilesOK' /\ CacheOK' /\ LookupsOK'
<1> USE DEF IInv, disk, history
<1>1. /\ UploadFrame(u) /\ bundle[u] \in Policies
      /\ bundle[u].model # None /\ bundle[u].side # None
      /\ UploadOK(u)
      /\ Uploading(u)' => Busy(f)'
      /\ ~Uploading(u)' => ~Busy(f)'
  <2>1. UploadFrame(u) /\ bundle[u] \in Policies
    BY UploadStepFrame
  <2> QED
    BY <2>1, ContentFields DEF UploadFrame, UploadsOK, Busy, Uploading, Requests
<1>2. CASE WriteModel(u)
  <2>1. pc'[u] = "side" /\ model'[f] = bundle[u].model
    BY <1>1, <1>2 DEF WriteModel, Goto, TypeOK, Requests
  <2>2. UploadOK(u)'
    BY <1>1, <1>2, <2>1 DEF WriteModel, UploadOK, Uploading
  <2>3. FileOK(f)'
    BY <1>1, <1>2, <2>1 DEF FileOK, Uploading
  <2> QED
    BY <1>1, <1>2, <2>1, <2>2, <2>3, UploadKeeps DEF WriteModel, Uploading
<1>3. CASE WriteSide(u)
  <2>1. /\ pc'[u] = "verify" /\ side'[f] = bundle[u].side
        /\ model'[f] = bundle[u].model
    BY <1>1, <1>3 DEF WriteSide, Goto, TypeOK, Requests, UploadOK, Uploading
  <2>2. UploadOK(u)'
    BY <1>1, <1>3, <2>1 DEF WriteSide, UploadOK, Uploading
  <2>3. FileOK(f)'
    BY <1>1, <1>3, <2>1 DEF FileOK, Uploading
  <2> QED
    BY <1>1, <1>3, <2>1, <2>2, <2>3, UploadKeeps DEF WriteSide, Uploading
<1>6. CASE WriteSideFails(u)
  <2>1. /\ pc'[u] = "error" /\ cache' = cache
        /\ f \in damaged' /\ f \in torn'
    BY <1>1, <1>6 DEF WriteSideFails, Goto, TypeOK, Requests
  <2>2. UploadOK(u)' /\ FileOK(f)'
    BY <2>1 DEF UploadOK, FileOK, Uploading
  <2> QED
    BY <1>1, <2>1, <2>2, UploadKeeps
<1>4. CASE Verify(u)
  <2>1. /\ pc[u] = "verify" /\ model[f] = bundle[u].model
        /\ side[f] = bundle[u].side /\ cache' = cache /\ accepted' = accepted
        /\ bundle' = bundle /\ file' = file
    BY <1>1, <1>4 DEF Verify, UploadOK, Uploading
  <2>2. CASE bundle[u].model.dim = bundle[u].side.dim
    <3>1. /\ pc'[u] = "invalidate"
          /\ model' = model /\ side' = side
      BY <1>4, <2>2 DEF Verify, Goto, TypeOK, Requests
    <3>2. UploadOK(u)' /\ FileOK(f)'
      BY <1>1, <2>1, <2>2, <3>1 DEF UploadOK, FileOK, Uploading
    <3>3. Busy(f)'
      BY <1>1, <3>1 DEF Uploading
    <3> QED
      BY <1>1, <2>1, <3>1, <3>2, <3>3, UploadKeeps
  <2>3. CASE bundle[u].model.dim # bundle[u].side.dim
    <3>1. /\ pc'[u] = "rejected" /\ f \in damaged'
          /\ model'[f] = None /\ side'[f] = None
      BY <1>1, <1>4, <2>3 DEF Verify, Unlinked, Goto, TypeOK, Requests
    <3>2. UploadOK(u)' /\ FileOK(f)'
      BY <1>1, <2>1, <3>1 DEF UploadOK, FileOK, Paired, Uploading
    <3> QED
      BY <1>1, <2>1, <3>1, <3>2, UploadKeeps
  <2> QED
    BY <2>2, <2>3
<1>5. CASE Invalidate(u)
  <2>1. /\ pc'[u] = "uploaded" /\ model' = model /\ side' = side
        /\ bundle' = bundle /\ file' = file
        /\ cache'[f] = None /\ accepted'[f] = u
    BY <1>1, <1>5 DEF Invalidate, Dropped, Goto, TypeOK, Requests
  <2>2. /\ model[f] = bundle[u].model /\ side[f] = bundle[u].side
        /\ bundle[u].model.dim = bundle[u].side.dim
        /\ bundle[u].model.from = u /\ bundle[u].side.from = u
    BY <1>1, <1>5 DEF Invalidate, UploadOK, Uploading
  <2>3. UploadOK(u)'
    BY <2>1 DEF UploadOK, Uploading
  <2>4. FileOK(f)'
    BY <1>1, <2>1, <2>2 DEF FileOK, Paired, Loadable, Uploading
  <2> QED
    BY <1>1, <2>1, <2>2, <2>3, <2>4, UploadKeeps
<1> QED
  BY <1>2, <1>3, <1>4, <1>5, <1>6

\* Each step of an upload keeps the invariant.
LEMMA UploadStepOK ==
    ASSUME IInv, NEW u \in Uploads, Upload(u)
    PROVE  UploadsOK' /\ FilesOK' /\ CacheOK' /\ LookupsOK'
<1> USE DEF IInv, disk, history
<1>1. CASE Receive(u)
  <2>1. /\ \A p \in Requests \ {u} : pc'[p] = pc[p] /\ file'[p] = file[p]
        /\ \A v \in Uploads \ {u} : bundle'[v] = bundle[v]
        /\ UNCHANGED <<model, side, cache, got, restarts, accepted, raced,
                       damaged, torn, excused>>
    BY <1>1 DEF Receive, Goto, TypeOK, Requests
  <2>2. /\ pc[u] = "idle" /\ pc'[u] \in {"model", "refused"}
        /\ pc'[u] = "model" => /\ file'[u] \in Files /\ bundle'[u] \in Policies
                               /\ bundle'[u].model.from = u
                               /\ bundle'[u].side.from = u
    <3>1. \A d \in Dims : [from |-> u, dim |-> d] \in Contents
      BY DEF Contents, Origins
    <3> QED
      BY <1>1, <3>1 DEF Receive, Goto, TypeOK, Requests, Policies
  <2>3. \A v \in Uploads : Uploading(v)' <=> Uploading(v)
    BY <2>1, <2>2 DEF Uploading, Requests
  <2>4. \A g : Busy(g)' <=> Busy(g)
    BY <2>1, <2>2, <2>3 DEF Busy, Uploading, Requests
  <2>5. UploadsOK'
    BY <2>1, <2>2, <2>3 DEF UploadsOK, UploadOK, Uploading, Requests
  <2>6. FilesOK'
    BY <2>1, <2>4 DEF FilesOK, FileOK, Paired, Loadable
  <2>7. CacheOK'
    BY <2>1, <2>4 DEF CacheOK, FitsTogether, IsAccepted
  <2>8. \A p \in Lookups : pc'[p] = pc[p] /\ file'[p] = file[p]
    BY <2>1, RequestsAreDistinct DEF Requests
  <2>9. LookupsOK'
    BY <2>1, <2>4, <2>8 DEF LookupsOK, LookupOK, AtWork, Loadable, IsAccepted
  <2> QED
    BY <2>5, <2>6, <2>7, <2>9
<1>2. CASE WriteModel(u) \/ WriteSide(u) \/ WriteSideFails(u) \/ Verify(u)
               \/ Invalidate(u)
  BY <1>2, UploadStepFrame, WriterStepOK
<1> QED
  BY <1>1, <1>2 DEF Upload

------------------------------------------------------------------------------
(* Lookups. *)

\* They change neither the files nor an upload.
Bystands ==
    /\ UNCHANGED <<model, side, bundle, restarts, accepted, damaged, torn>>
    /\ \A u \in Uploads : pc'[u] = pc[u] /\ file'[u] = file[u]

LEMMA BystandersKeepFiles ==
    ASSUME IInv, Bystands
    PROVE  UploadsOK' /\ FilesOK' /\ \A f : Busy(f)' <=> Busy(f)
<1>1. \A u \in Uploads : Uploading(u)' <=> Uploading(u)
  BY DEF Bystands, Uploading
<1>2. \A f : Busy(f)' <=> Busy(f)
  BY <1>1 DEF Bystands, Busy
<1>3. UploadsOK'
  BY <1>1 DEF Bystands, IInv, UploadsOK, UploadOK
<1>4. FilesOK'
  BY <1>2 DEF Bystands, IInv, FilesOK, FileOK, Paired, Loadable
<1> QED
  BY <1>2, <1>3, <1>4

\* What a lookup leaves to the others. It may add its policy to the cache.
LookupFrame(r) ==
    /\ Bystands
    /\ \A p \in Requests \ {r} : pc'[p] = pc[p] /\ file'[p] = file[p]
    /\ \A q \in Lookups \ {r} : got'[q] = got[q] /\ (q \in excused' <=> q \in excused)
    /\ raced \subseteq raced'
    /\ \A f \in Files : cache[f] # None => cache'[f] # None

LEMMA LookupStepFrame ==
    ASSUME IInv, NEW r \in Lookups, Lookup(r)
    PROVE  LookupFrame(r)
<1> USE RequestsAreDistinct
        DEF IInv, TypeOK, disk, history, Goto, Requests, LookupFrame, Bystands
<1>1. CASE Check(r)
  BY <1>1 DEF Check
<1>2. CASE ReadSide(r)
  BY <1>2 DEF ReadSide
<1>3. CASE LoadModel(r)
  BY <1>3 DEF LoadModel
<1>4. CASE Store(r)
  <2>1. got[r] # None
    BY <1>4, ContentFields DEF Store, Stored, LookupsOK, LookupOK
  <2> QED
    BY <1>4, <2>1 DEF Store, Stored
<1>5. CASE Return(r)
  BY <1>5 DEF Return
<1> QED
  BY <1>1, <1>2, <1>3, <1>4, <1>5 DEF Lookup

\* So it has to account for itself and for what it adds to the cache.
LEMMA LookupKeeps ==
    ASSUME IInv, NEW r \in Lookups, LookupFrame(r), LookupOK(r)', CacheOK'
    PROVE  UploadsOK' /\ FilesOK' /\ CacheOK' /\ LookupsOK'
<1>1. UploadsOK' /\ FilesOK' /\ \A f : Busy(f)' <=> Busy(f)
  BY BystandersKeepFiles DEF LookupFrame
<1>2. ASSUME NEW q \in Lookups, q # r PROVE LookupOK(q)'
  <2>1. /\ pc'[q] = pc[q] /\ file'[q] = file[q] /\ got'[q] = got[q]
        /\ (q \in excused' <=> q \in excused) /\ raced \subseteq raced'
        /\ UNCHANGED <<model, side, accepted, damaged>>
    BY <1>2 DEF LookupFrame, Bystands, Requests
  <2>2. LookupOK(q)
    BY DEF IInv, LookupsOK
  <2>3. AtWork(q) /\ cache[file[q]] # None => cache'[file[q]] # None
    BY <2>2 DEF LookupOK, LookupFrame
  <2> QED
    BY <1>1, <2>1, <2>2, <2>3 DEF LookupOK, AtWork, Loadable, IsAccepted
<1>3. LookupsOK'
  BY <1>2 DEF LookupsOK
<1> QED
  BY <1>1, <1>3

\* The cache stays as it was, but for the history.
LEMMA CacheStays ==
    ASSUME CacheOK, cache' = cache, accepted' = accepted,
           raced \subseteq raced', damaged \subseteq damaged',
           \A f : Busy(f)' <=> Busy(f)
    PROVE  CacheOK'
  BY DEF CacheOK, IsAccepted, FitsTogether

\* A name that nobody has touched has the files of the version accepted last.
LEMMA FilesAreAccepted ==
    ASSUME IInv, NEW f \in Files, f \notin damaged, ~Busy(f), model[f] # None
    PROVE  /\ side[f] # None /\ Loadable(f)
           /\ IsAccepted(model[f], f) /\ IsAccepted(side[f], f)
  BY DEF IInv, FilesOK, FileOK, Paired, IsAccepted

\* Each step of a lookup keeps the invariant.
LEMMA LookupStepOK ==
    ASSUME IInv, NEW r \in Lookups, Lookup(r)
    PROVE  UploadsOK' /\ FilesOK' /\ CacheOK' /\ LookupsOK'
<1>0. /\ LookupFrame(r) /\ LookupOK(r) /\ r \in Requests
      /\ UNCHANGED <<model, side, accepted, damaged, restarts>>
      /\ \A f : Busy(f)' <=> Busy(f)
  BY LookupStepFrame, BystandersKeepFiles
     DEF IInv, LookupsOK, LookupFrame, Bystands, Requests
<1> USE DEF IInv, disk, history
<1> SUFFICES LookupOK(r)' /\ CacheOK'
  BY <1>0, LookupKeeps
<1>1. CASE Check(r)
  <2>1. PICK f \in Files :
          /\ file'[r] = f
          /\ pc'[r] = IF cache[f] = None THEN "read" ELSE "return"
          /\ raced' = IF Writing(f) # {} THEN raced \cup {f} ELSE raced
          /\ excused' = IF Writing(f) # {} \/ ~Loadable(f)
                        THEN excused \cup {r} ELSE excused
    BY <1>0, <1>1 DEF Check, Goto, TypeOK
  <2>2. cache' = cache
    BY <1>1 DEF Check
  <2>3. LookupOK(r)'
    BY <1>0, <2>1, <2>2, SetsArePredicates DEF LookupOK, AtWork, Loadable
  <2>4. CacheOK'
    BY <1>0, <2>1, <2>2, CacheStays
  <2> QED
    BY <2>3, <2>4
<1>2. ASSUME ReadSide(r) \/ LoadModel(r) \/ Store(r) \/ Return(r)
      PROVE  /\ AtWork(r) /\ file[r] \in Files /\ file' = file
             /\ raced' = raced /\ excused' = excused
  BY <1>0, <1>2 DEF ReadSide, LoadModel, Store, Return, AtWork, LookupOK
<1>3. CASE ReadSide(r)
  <2>1. cache' = cache
    BY <1>3 DEF ReadSide
  <2>2. CASE model[file[r]] # None /\ side[file[r]] # None
    <3>1. pc'[r] = "load" /\ got'[r] = side[file[r]] /\ got'[r] \in Contents
      BY <1>0, <1>2, <1>3, <2>2 DEF ReadSide, Goto, TypeOK
    <3>2. file[r] \notin raced \cup damaged => IsAccepted(side[file[r]], file[r])
      BY <1>0, <1>2, <1>3, <2>2, FilesAreAccepted DEF LookupOK
    <3>3. LookupOK(r)'
      BY <1>0, <1>2, <1>3, <3>1, <3>2 DEF LookupOK, AtWork, Loadable, IsAccepted
    <3> QED
      BY <1>0, <1>2, <1>3, <2>1, <3>3, CacheStays
  <2>3. CASE ~(model[file[r]] # None /\ side[file[r]] # None)
    <3>1. pc'[r] = "failed"
      BY <1>0, <1>3, <2>3 DEF ReadSide, Goto, TypeOK
    <3>2. LookupOK(r)'
      BY <1>0, <1>2, <1>3, <2>3, <3>1 DEF LookupOK, AtWork, Loadable
    <3> QED
      BY <1>0, <1>2, <1>3, <2>1, <3>2, CacheStays
  <2> QED
    BY <2>2, <2>3
<1>4. CASE LoadModel(r)
  <2> DEFINE f == file[r]
  <2>1. /\ pc[r] = "load" /\ cache' = cache /\ got[r] \in Contents
        /\ model[f] \in Contents \cup {None}
    BY <1>0, <1>2, <1>4 DEF LoadModel, LookupOK, TypeOK
  <2>2. CASE Fits(model[f], got[r])
    <3>1. /\ pc'[r] = "store" /\ got'[r] = Built(model[f], got[r])
          /\ model[f] # None
      BY <1>0, <1>4, <2>2 DEF LoadModel, Fits, Goto, TypeOK
    <3>2. /\ got'[r] \in Policies /\ got'[r].model.dim = got'[r].side.dim
          /\ got'[r].model = model[f] /\ got'[r].side = got[r]
      BY <2>1, <2>2, <3>1 DEF Fits, Built, Policies
    <3>3. f \notin raced \cup damaged => IsAccepted(model[f], f)
      BY <1>0, <1>2, <1>4, <3>1, FilesAreAccepted DEF LookupOK
    <3>4. LookupOK(r)'
      BY <1>0, <1>2, <1>4, <2>1, <3>1, <3>2, <3>3
         DEF LookupOK, AtWork, Loadable, IsAccepted, FitsTogether
    <3> QED
      BY <1>0, <1>2, <1>4, <2>1, <3>4, CacheStays
  <2>3. CASE ~Fits(model[f], got[r])
    <3>1. pc'[r] = "failed"
      BY <1>0, <1>4, <2>3 DEF LoadModel, Goto, TypeOK
    <3>2. r \in excused
      BY <1>0, <1>2, <1>4, <2>1, <2>3 DEF LookupOK, Loadable, Fits
    <3>3. LookupOK(r)'
      BY <1>2, <1>4, <3>1, <3>2 DEF LookupOK, AtWork
    <3> QED
      BY <1>0, <1>2, <1>4, <2>1, <3>3, CacheStays
  <2> QED
    BY <2>2, <2>3
<1>5. CASE Store(r)
  <2>1. /\ pc[r] = "store" /\ pc'[r] = "return"
        /\ cache' = [cache EXCEPT ![file[r]] = got[r]]
        /\ got[r] # None /\ FitsTogether(got[r])
    BY <1>0, <1>5, ContentFields DEF Store, Stored, LookupOK, Goto, TypeOK
  <2>2. LookupOK(r)'
    BY <1>0, <1>2, <1>5, <2>1 DEF LookupOK, AtWork, Loadable, TypeOK
  <2>3. CacheOK'
    BY <1>0, <1>2, <1>5, <2>1
       DEF LookupOK, CacheOK, FitsTogether, IsAccepted, TypeOK
  <2> QED
    BY <2>2, <2>3
<1>6. CASE Return(r)
  <2>1. /\ pc[r] = "return" /\ cache' = cache
        /\ pc'[r] = IF cache[file[r]] = None THEN "failed" ELSE "served"
        /\ got'[r] = cache[file[r]]
    BY <1>0, <1>6 DEF Return, Goto, TypeOK
  <2>2. cache[file[r]] # None =>
            cache[file[r]] \in Policies /\ FitsTogether(cache[file[r]])
    BY <1>2, <1>6 DEF CacheOK, TypeOK
  <2>3. LookupOK(r)'
    BY <1>0, <1>2, <1>6, <2>1, <2>2 DEF LookupOK, AtWork, FitsTogether
  <2> QED
    BY <1>0, <1>2, <1>6, <2>1, <2>3, CacheStays
<1> QED
  BY <1>1, <1>3, <1>4, <1>5, <1>6 DEF Lookup

------------------------------------------------------------------------------
(* Restarts, and the invariant. *)

\* A restart loses the requests in progress and the cache; a name that was
\* being uploaded is damaged.
LEMMA RestartOK ==
    ASSUME IInv, Restart
    PROVE  UploadsOK' /\ FilesOK' /\ CacheOK' /\ LookupsOK'
<1> USE DEF IInv
<1>1. /\ UNCHANGED <<model, side, file, bundle, got, accepted, excused>>
      /\ \A p \in Requests : pc'[p] = IF pc[p] \in InProgress THEN "lost" ELSE pc[p]
      /\ cache' = [f \in Files |-> None]
      /\ damaged \subseteq damaged'
      /\ \A f \in Files : Busy(f) => f \in damaged'
      /\ torn \subseteq torn'
      /\ \A u \in Uploads : pc[u] = "side" => file[u] \in torn'
  BY SetsArePredicates DEF Restart, disk, TypeOK
<1>2. /\ \A u \in Uploads : pc'[u] \notin InProgress
      /\ \A r \in Lookups : pc'[r] \notin InProgress
      /\ \A r \in Lookups : pc'[r] \in {"served", "failed"} => pc'[r] = pc[r]
  BY <1>1 DEF Requests, InProgress
<1>3. UploadsOK' /\ \A f : ~Busy(f)'
  BY <1>2 DEF UploadsOK, UploadOK, Uploading, Busy, InProgress
<1>4. FilesOK'
  <2> SUFFICES ASSUME NEW f \in Files PROVE FileOK(f)'
    BY DEF FilesOK
  <2>1. FileOK(f)
    BY DEF FilesOK
  <2>2. CASE ~Busy(f)
    BY <1>1, <2>1, <2>2 DEF FileOK, Paired, Loadable
  <2>3. CASE Busy(f)
    <3>1. PICK u \in Uploads : file[u] = f /\ Uploading(u)
      BY <2>3 DEF Busy
    <3>2. pc[u] # "side" => /\ model[f] = bundle[u].model /\ side[f] = bundle[u].side
                            /\ bundle[u] \in Policies
                            /\ bundle[u].model.from = bundle[u].side.from
      BY <3>1 DEF UploadsOK, UploadOK, Uploading
    <3>3. pc[u] # "side" => Paired(f)
      BY <3>2, ContentFields DEF Paired
    <3> QED
      BY <1>1, <2>3, <3>1, <3>3 DEF FileOK, Paired
  <2> QED
    BY <2>2, <2>3
<1>5. CacheOK'
  BY <1>1 DEF CacheOK
<1>6. LookupsOK'
  BY <1>1, <1>2 DEF LookupsOK, LookupOK, AtWork, InProgress, FitsTogether
<1> QED
  BY <1>3, <1>4, <1>5, <1>6

\* The invariant is inductive.
LEMMA StepOK == IInv /\ [Next]_vars => IInv'
<1> SUFFICES ASSUME IInv, [Next]_vars PROVE IInv'
  OBVIOUS
<1>1. CASE Next
  <2>1. TypeOK'
    BY <1>1, StepTypeOK
  <2>2. CASE UNCHANGED vars
    BY <2>2 DEF vars, disk, history, IInv, TypeOK, UploadsOK, UploadOK,
                Uploading, Busy, FilesOK, FileOK, Paired, Loadable, CacheOK,
                FitsTogether, IsAccepted, LookupsOK, LookupOK, AtWork
  <2> QED
    BY <1>1, <2>1, <2>2, UploadStepOK, LookupStepOK, RestartOK
       DEF Next, IInv
<1>2. CASE UNCHANGED vars
  BY <1>2 DEF vars, disk, history, IInv, TypeOK, UploadsOK, UploadOK,
              Uploading, Busy, FilesOK, FileOK, Paired, Loadable, CacheOK,
              FitsTogether, IsAccepted, LookupsOK, LookupOK, AtWork
<1> QED
  BY <1>1, <1>2

\* It holds in every behaviour of the registry.
LEMMA Invariance == Spec => []IInv
  BY InitOK, StepOK, PTL DEF Spec

(***************************************************************************)
(* The variables keep their types: in particular, what the cache hands out  *)
(* is a whole policy.                                                       *)
(***************************************************************************)
THEOREM TypeCorrect == Spec => []TypeOK
  BY Invariance, PTL DEF IInv

(***************************************************************************)
(* While no lookup of a name overlaps its upload, and no upload of it fails *)
(* or is cut off, what is cached under the name is the version accepted     *)
(* last: no stale policy outlives the upload that replaces it.              *)
(***************************************************************************)
THEOREM CachedIsAccepted == Spec => []CacheIsAccepted
<1>1. IInv => CacheIsAccepted
  BY SetsArePredicates DEF IInv, CacheOK, CacheIsAccepted, IsAccepted
<1> QED
  BY <1>1, Invariance, PTL

(***************************************************************************)
(* Whatever uploads and lookups overlap, a policy that is served has        *)
(* features that fill the input of its network.                             *)
(***************************************************************************)
THEOREM ServedPoliciesFit == Spec => []ServedFits
<1>1. IInv => ServedFits
  BY DEF IInv, LookupsOK, LookupOK, FitsTogether, ServedFits
<1> QED
  BY <1>1, Invariance, PTL

(***************************************************************************)
(* A lookup fails only for a reason of its own name: it cannot be loaded or *)
(* is being uploaded.                                                       *)
(***************************************************************************)
THEOREM FailuresHaveReasons == Spec => []FailsForAReason
<1>1. IInv => FailsForAReason
  BY DEF IInv, LookupsOK, LookupOK, FailsForAReason
<1> QED
  BY <1>1, Invariance, PTL

(***************************************************************************)
(* Unless the last upload of a name ended between its two files, a model    *)
(* and its sidecar come from one upload, or neither is there.               *)
(***************************************************************************)
THEOREM FilesComeInPairs == Spec => []FilesArePaired
<1>1. IInv => FilesArePaired
  BY SetsArePredicates DEF IInv, FilesOK, FileOK, Paired, FilesArePaired
<1> QED
  BY <1>1, Invariance, PTL

------------------------------------------------------------------------------
(* The registry implements PolicyContract. For that it must be known of every *)
(* content on its way from an upload to a lookup under which name it was      *)
(* sent, in the races too.                                                    *)

Sent(o, f) == o = Seed \/ (o \in Uploads /\ file[o] = f)
SentTogether(policy, f) == Sent(policy.model.from, f) /\ Sent(policy.side.from, f)

FilesAreOwn ==
    \A f \in Files :
        /\ model[f] # None => Sent(model[f].from, f)
        /\ side[f] # None => Sent(side[f].from, f)
        /\ cache[f] # None => SentTogether(cache[f], f)

LookupsAreOwn ==
    \A r \in Lookups :
        /\ pc[r] = "load" => Sent(got[r].from, file[r])
        /\ pc[r] = "store" => SentTogether(got[r], file[r])

OInv ==
    /\ \A u \in Uploads : pc[u] = "idle" => file[u] = None
    /\ FilesAreOwn
    /\ LookupsAreOwn

\* The name an upload was sent for is never changed.
NamesStay == \A u \in Uploads : file[u] # None => file'[u] = file[u]

LEMMA SentStays ==
    ASSUME NamesStay, NEW f \in Files, NEW o, Sent(o, f)
    PROVE  Sent(o, f)'
  BY NoneIsFresh DEF NamesStay, Sent

LEMMA NextKeepsNames == ASSUME IInv, OInv, [Next]_vars PROVE NamesStay
<1> USE RequestsAreDistinct DEF IInv, TypeOK, OInv, NamesStay, Requests
<1>1. CASE \E u \in Uploads : Upload(u)
  BY <1>1 DEF Upload, Receive, WriteModel, WriteSide, WriteSideFails, Verify, Invalidate
<1>2. CASE \E r \in Lookups : Lookup(r)
  BY <1>2 DEF Lookup, Check, ReadSide, LoadModel, Store, Return
<1>4. CASE Restart
  BY <1>4 DEF Restart
<1>5. CASE UNCHANGED vars
  BY <1>5 DEF vars
<1> QED
  BY <1>1, <1>2, <1>4, <1>5 DEF Next

\* What has not changed, or is gone, is still of its name.
LEMMA OwnStays ==
    ASSUME IInv, OInv, NamesStay, NEW f \in Files
    PROVE  /\ model'[f] \in {None, model[f]} =>
                 (model'[f] # None => Sent(model[f].from, f)')
           /\ side'[f] \in {None, side[f]} =>
                 (side'[f] # None => Sent(side[f].from, f)')
           /\ cache'[f] \in {None, cache[f]} =>
                 (cache'[f] # None => SentTogether(cache[f], f)')
  BY SentStays DEF OInv, FilesAreOwn, SentTogether

\* A lookup that has not moved still has what it read.
LEMMA LookupStays ==
    ASSUME IInv, OInv, NamesStay, NEW r \in Lookups,
           pc'[r] \in {"load", "store"} =>
               pc'[r] = pc[r] /\ file'[r] = file[r] /\ got'[r] = got[r]
    PROVE  /\ pc'[r] = "load" => Sent(got[r].from, file[r])'
           /\ pc'[r] = "store" => SentTogether(got[r], file[r])'
<1>1. pc[r] \in {"load", "store"} => file[r] \in Files
  BY DEF IInv, LookupsOK, LookupOK, AtWork
<1> QED
  BY <1>1, SentStays DEF OInv, LookupsAreOwn, SentTogether

\* Each step leaves every content under the name it was sent for.
LEMMA OwnSteps == ASSUME IInv, OInv, [Next]_vars PROVE OInv'
<1> USE DEF disk, history
<1>0. NamesStay
  BY NextKeepsNames
<1>1. \A u \in Uploads : pc'[u] = "idle" => file'[u] = None
  <2> USE RequestsAreDistinct DEF IInv, TypeOK, OInv, Goto, Requests
  <2>1. CASE \E u \in Uploads : Upload(u)
    BY <2>1 DEF Upload, Receive, WriteModel, WriteSide, WriteSideFails, Verify, Invalidate
  <2>2. CASE \E r \in Lookups : Lookup(r)
    BY <2>2 DEF Lookup, Check, ReadSide, LoadModel, Store, Return
  <2>4. CASE Restart
    BY <2>4 DEF Restart, InProgress
  <2>5. CASE UNCHANGED vars
    BY <2>5 DEF vars
  <2> QED
    BY <2>1, <2>2, <2>4, <2>5 DEF Next
<1>2. ASSUME \A f \in Files :
                 /\ model'[f] \in {None, model[f]} /\ side'[f] \in {None, side[f]}
                 /\ cache'[f] \in {None, cache[f]},
             \A r \in Lookups : pc'[r] \in {"load", "store"} =>
                 pc'[r] = pc[r] /\ file'[r] = file[r] /\ got'[r] = got[r]
      PROVE  OInv'
  <2>1. FilesAreOwn'
    BY <1>0, <1>2, OwnStays DEF FilesAreOwn
  <2>2. LookupsAreOwn'
    BY <1>0, <1>2, LookupStays DEF LookupsAreOwn
  <2> QED
    BY <1>1, <2>1, <2>2 DEF OInv
<1>3. ASSUME NEW u \in Uploads, Upload(u) PROVE OInv'
  <2>1. \A r \in Lookups : pc'[r] = pc[r] /\ file'[r] = file[r] /\ got'[r] = got[r]
    BY <1>3, RequestsAreDistinct
       DEF Upload, Receive, WriteModel, WriteSide, WriteSideFails, Verify, Invalidate, Goto,
           IInv, TypeOK, Requests
  <2>2. LookupsAreOwn'
    BY <1>0, <2>1, LookupStays DEF LookupsAreOwn
  <2>3. pc[u] \in {"model", "side"} =>
          /\ file[u] \in Files /\ file'[u] = file[u]
          /\ bundle[u].model.from = u /\ bundle[u].side.from = u
    BY <1>0, NoneIsFresh DEF IInv, UploadsOK, UploadOK, NamesStay
  <2>4. \A f \in Files : Sent(u, f)' <=> file'[u] = f
    BY SeedIsNoUpload DEF Sent
  <2>5. CASE Receive(u) \/ Verify(u) \/ Invalidate(u)
    <3>1. \A f \in Files :
            /\ model'[f] \in {None, model[f]} /\ side'[f] \in {None, side[f]}
            /\ cache'[f] \in {None, cache[f]}
      BY <2>5 DEF Receive, Verify, Invalidate, Unlinked, Dropped, IInv, TypeOK
    <3> QED
      BY <1>2, <2>1, <3>1
  <2>6. CASE WriteModel(u)
    <3>1. model' = [model EXCEPT ![file[u]] = bundle[u].model]
          /\ side' = side /\ cache' = cache /\ pc[u] = "model"
      BY <2>6 DEF WriteModel
    <3>2. ASSUME NEW f \in Files, model'[f] # None PROVE Sent(model[f].from, f)'
      <4>1. CASE f = file[u]
        <5>1. model'[f].from = u
          BY <2>3, <3>1, <4>1 DEF IInv, TypeOK
        <5> QED
          BY <2>3, <2>4, <3>1, <4>1, <5>1
      <4>2. CASE f # file[u]
        BY <1>0, <3>1, <3>2, <4>2, OwnStays DEF IInv, TypeOK
      <4> QED
        BY <4>1, <4>2
    <3>3. FilesAreOwn'
      BY <1>0, <3>1, <3>2, OwnStays DEF FilesAreOwn
    <3> QED
      BY <1>1, <2>2, <3>3 DEF OInv
  <2>8. CASE WriteSideFails(u)
    <3>1. \A f \in Files :
            /\ model'[f] = model[f] /\ side'[f] \in {None, side[f]}
            /\ cache'[f] = cache[f]
      BY <2>8 DEF WriteSideFails, IInv, TypeOK
    <3> QED
      BY <1>2, <2>1, <3>1
  <2>7. CASE WriteSide(u)
    <3>1. side' = [side EXCEPT ![file[u]] = bundle[u].side]
          /\ model' = model /\ cache' = cache /\ pc[u] = "side"
      BY <2>7 DEF WriteSide
    <3>2. ASSUME NEW f \in Files, side'[f] # None PROVE Sent(side[f].from, f)'
      <4>1. CASE f = file[u]
        <5>1. side'[f].from = u
          BY <2>3, <3>1, <4>1 DEF IInv, TypeOK
        <5> QED
          BY <2>3, <2>4, <3>1, <4>1, <5>1
      <4>2. CASE f # file[u]
        BY <1>0, <3>1, <3>2, <4>2, OwnStays DEF IInv, TypeOK
      <4> QED
        BY <4>1, <4>2
    <3>3. FilesAreOwn'
      BY <1>0, <3>1, <3>2, OwnStays DEF FilesAreOwn
    <3> QED
      BY <1>1, <2>2, <3>3 DEF OInv
  <2> QED
    BY <1>3, <2>5, <2>6, <2>7, <2>8 DEF Upload
<1>4. ASSUME NEW r \in Lookups, Lookup(r) PROVE OInv'
  <2>1. /\ model' = model /\ side' = side
        /\ \A q \in Lookups \ {r} : pc'[q] = pc[q] /\ file'[q] = file[q] /\ got'[q] = got[q]
    BY <1>4, LookupStepFrame DEF LookupFrame, Bystands, Requests
  <2>2. ASSUME cache' = cache, pc'[r] \notin {"load", "store"} PROVE OInv'
    BY <1>2, <2>1, <2>2
  <2>3. CASE Check(r) \/ Return(r)
    BY <2>2, <2>3 DEF Check, Return, Goto, IInv, TypeOK, Requests
  <2>4. ASSUME cache' = cache,
               pc'[r] = "load" => Sent(got[r].from, file[r])',
               pc'[r] = "store" => SentTogether(got[r], file[r])'
        PROVE  OInv'
    <3>1. FilesAreOwn'
      BY <1>0, <2>1, <2>4, OwnStays DEF FilesAreOwn
    <3>2. ASSUME NEW q \in Lookups, q # r
          PROVE  /\ pc'[q] = "load" => Sent(got[q].from, file[q])'
                 /\ pc'[q] = "store" => SentTogether(got[q], file[q])'
      BY <1>0, <2>1, <3>2, LookupStays
    <3>3. LookupsAreOwn'
      BY <2>4, <3>2 DEF LookupsAreOwn
    <3> QED
      BY <1>1, <3>1, <3>3 DEF OInv
  <2>5. CASE ReadSide(r)
    <3>1. /\ cache' = cache /\ file' = file /\ pc[r] = "read" /\ file[r] \in Files
          /\ pc'[r] \in {"load", "failed"}
          /\ pc'[r] = "load" => side[file[r]] # None /\ got'[r] = side[file[r]]
      BY <2>5 DEF ReadSide, Goto, IInv, TypeOK, Requests, LookupsOK, LookupOK, AtWork
    <3>2. pc'[r] = "load" => Sent(side[file[r]].from, file[r])
      BY <3>1 DEF OInv, FilesAreOwn
    <3>3. pc'[r] = "load" => Sent(got[r].from, file[r])'
      BY <1>0, <3>1, <3>2, SentStays
    <3> QED
      BY <2>4, <3>1, <3>3
  <2>6. CASE LoadModel(r)
    <3>1. /\ cache' = cache /\ file' = file /\ pc[r] = "load" /\ file[r] \in Files
          /\ pc'[r] \in {"store", "failed"}
          /\ pc'[r] = "store" => /\ model[file[r]] # None
                                 /\ got'[r].model = model[file[r]]
                                 /\ got'[r].side = got[r]
      BY <2>6 DEF LoadModel, Fits, Built, Goto, IInv, TypeOK, Requests, LookupsOK,
                  LookupOK, AtWork
    <3>2. pc'[r] = "store" =>
            Sent(model[file[r]].from, file[r]) /\ Sent(got[r].from, file[r])
      BY <3>1 DEF OInv, FilesAreOwn, LookupsAreOwn
    <3>3. pc'[r] = "store" => SentTogether(got[r], file[r])'
      BY <1>0, <3>1, <3>2, SentStays DEF SentTogether
    <3> QED
      BY <2>4, <3>1, <3>3
  <2>7. CASE Store(r)
    <3>1. /\ pc[r] = "store" /\ file[r] \in Files /\ file' = file /\ got' = got
          /\ cache' = [cache EXCEPT ![file[r]] = got[r]] /\ pc'[r] = "return"
      BY <2>7 DEF Store, Stored, Goto, IInv, TypeOK, Requests, LookupsOK,
                  LookupOK, AtWork
    <3>2. SentTogether(got[r], file[r])'
      BY <1>0, <3>1, SentStays DEF OInv, LookupsAreOwn, SentTogether
    <3>3. ASSUME NEW f \in Files, cache'[f] # None PROVE SentTogether(cache[f], f)'
      <4>1. CASE f = file[r]
        <5>1. cache'[f] = got'[r] /\ file'[r] = f
          BY <3>1, <4>1 DEF IInv, TypeOK
        <5> QED
          BY <3>2, <5>1
      <4>2. CASE f # file[r]
        BY <1>0, <3>1, <3>3, <4>2, OwnStays DEF IInv, TypeOK
      <4> QED
        BY <4>1, <4>2
    <3>4. FilesAreOwn'
      BY <1>0, <2>1, <3>3, OwnStays DEF FilesAreOwn
    <3>5. LookupsAreOwn'
      BY <1>0, <2>1, <3>1, LookupStays DEF LookupsAreOwn
    <3> QED
      BY <1>1, <3>4, <3>5 DEF OInv
  <2> QED
    BY <1>4, <2>3, <2>5, <2>6, <2>7 DEF Lookup
<1>6. CASE Restart
  BY <1>2, <1>6, RequestsAreDistinct DEF Restart, InProgress, IInv, TypeOK, Requests
<1>7. CASE UNCHANGED vars
  BY <1>2, <1>7 DEF vars
<1> QED
  BY <1>3, <1>4, <1>6, <1>7 DEF Next

LEMMA LooseIs ==
    /\ \A f \in Files : f \in Loose <=> f \in raced \cup damaged \/ Busy(f)
    /\ IInv => Loose \subseteq Files
  BY SetsArePredicates DEF Loose, IInv, TypeOK

LEMMA LooseIsNext ==
    /\ \A f \in Files : f \in Loose' <=> f \in raced' \cup damaged' \/ Busy(f)'
    /\ IInv' => Loose' \subseteq Files
  BY DEF Loose, Writing, Busy, Uploading, IInv, TypeOK

\* The server starts as the contract's register does.
LEMMA InitRefines == Init => Contract!Init
<1> SUFFICES ASSUME Init PROVE Contract!Init
  OBVIOUS
<1>1. Offered = [f \in Files |-> {Seed}]
  BY NoneIsFresh DEF Init, Offered, Requests
<1>2. accepted \in [Files -> {None, Seed}]
  BY DEF Init
<1>3. Answered = {} /\ Served = [r \in Lookups |-> None]
  BY DEF Init, Answered, Served, Requests
<1>4. Loose = {}
  BY DEF Init, Loose, Writing, Requests
<1> QED
  BY <1>1, <1>2, <1>3, <1>4 DEF Contract!Init

\* What an upload changes in the register is only its own name.
LEMMA UploadRefines ==
    ASSUME IInv, IInv', OInv, NEW u \in Uploads, Upload(u)
    PROVE  [Contract!Next]_Contract!cvars
<1> USE DEF disk, history
<1>1. /\ \A p \in Requests \ {u} : pc'[p] = pc[p] /\ file'[p] = file[p]
      /\ got' = got /\ pc'[u] # "idle"
  BY DEF Upload, Receive, WriteModel, WriteSide, WriteSideFails, Verify, Invalidate, Goto, IInv,
         TypeOK, Requests
<1>2. Served' = Served
  BY <1>1, RequestsAreDistinct DEF Served, Requests
<1>3. CASE Receive(u)
  <2>1. /\ accepted' = accepted /\ raced' = raced /\ damaged' = damaged
        /\ pc[u] = "idle" /\ pc'[u] \in {"model", "refused"} /\ file[u] = None
    BY <1>3 DEF Receive, Goto, IInv, TypeOK, Requests, OInv
  <2>2. Answered' = Answered
    BY <1>1, <2>1 DEF Answered, Requests
  <2>3. Loose' = Loose
    <3>1. \A f \in Files : Busy(f)' <=> Busy(f)
      BY <1>1, <2>1 DEF Busy, Uploading, Requests
    <3> QED
      BY <2>1, <3>1, LooseIs, LooseIsNext
  <2>4. CASE file' = file
    <3>1. Offered' = Offered
      BY <2>4 DEF Offered
    <3> QED
      BY <1>2, <2>1, <2>2, <2>3, <3>1 DEF Contract!cvars
  <2>5. ASSUME NEW f \in Files, file' = [file EXCEPT ![u] = f]
        PROVE  Contract!Next
    <3>1. \A g \in Files : u \notin Offered[g]
      BY <2>1, NoneIsFresh, SeedIsNoUpload DEF Offered
    <3>2. Offered' = [Offered EXCEPT ![f] = @ \cup {u}]
      <4>1. \A g \in Files : {v \in Uploads : file'[v] = g} =
                IF g = f THEN {v \in Uploads : file[v] = g} \cup {u}
                         ELSE {v \in Uploads : file[v] = g}
        BY <2>1, <2>5, NoneIsFresh DEF IInv, TypeOK, Requests
      <4> QED
        BY <4>1 DEF Offered
    <3>3. Contract!Offer(u, f)
      BY <1>2, <2>1, <2>2, <2>3, <3>1, <3>2 DEF Contract!Offer
    <3> QED
      BY <3>3 DEF Contract!Next
  <2> QED
    BY <1>3, <2>4, <2>5 DEF Receive
<1>4. ASSUME WriteModel(u) \/ WriteSide(u) \/ WriteSideFails(u) \/ Verify(u)
               \/ Invalidate(u)
      PROVE  [Contract!Next]_Contract!cvars
  <2>1. PICK f \in Files : f = file[u]
    BY <1>4, UploadStepFrame
  <2>2. UploadFrame(u)
    BY <1>4, UploadStepFrame
  <2>3. Offered' = Offered
    BY <2>2 DEF UploadFrame, Offered
  <2>4. \A g \in Files \ {f} : g \in Loose' <=> g \in Loose
    <3> SUFFICES ASSUME NEW g \in Files, g # f PROVE g \in Loose' <=> g \in Loose
      OBVIOUS
    <3>1. Busy(g)' <=> Busy(g)
      BY <2>1, <2>2, OtherNamesStay
    <3>2. (g \in raced' <=> g \in raced) /\ (g \in damaged' <=> g \in damaged)
      BY <2>1, <2>2 DEF UploadFrame, Noted
    <3> QED
      BY <3>1, <3>2, LooseIs, LooseIsNext
  <2>5. Uploading(u) => f \in Loose
    BY <2>1, LooseIs DEF Busy
  <2>6. Uploading(u)' => f \in Loose'
    BY <2>1, <2>2, LooseIsNext DEF Busy, UploadFrame
  <2>7. Loose \subseteq Files /\ Loose' \subseteq Files
    BY LooseIs, LooseIsNext
  <2>8. CASE WriteModel(u)
    <3>1. pc[u] = "model" /\ pc'[u] = "side" /\ accepted' = accepted
      BY <2>8 DEF WriteModel, Goto, IInv, TypeOK, Requests
    <3>2. Answered' = Answered
      BY <1>1, <3>1 DEF Answered, Requests
    <3>3. Loose' = Loose \cup {f}
      BY <2>4, <2>6, <2>7, <3>1 DEF Uploading
    <3>4. Contract!Loosen(f)
      BY <1>2, <2>3, <3>1, <3>2, <3>3 DEF Contract!Loosen
    <3> QED
      BY <3>4 DEF Contract!Next
  <2>9. CASE WriteSide(u) \/ WriteSideFails(u) \/ Verify(u)
    <3>1. /\ Uploading(u) /\ accepted' = accepted
          /\ pc'[u] \in {"verify", "invalidate", "rejected", "error"}
          /\ pc[u] # "uploaded"
      BY <2>9 DEF WriteSide, WriteSideFails, Verify, Goto, Uploading, IInv, TypeOK, Requests
    <3>2. pc'[u] \in {"rejected", "error"} => f \in damaged'
      BY <2>1, <2>9 DEF WriteSide, WriteSideFails, Verify, Goto, IInv, TypeOK, Requests
    <3>3. f \in Loose'
      BY <2>6, <3>1, <3>2, LooseIsNext DEF Uploading
    <3>4. Loose' = Loose
      BY <2>4, <2>5, <2>7, <3>1, <3>3
    <3>5. Answered' = Answered
      BY <1>1, <3>1 DEF Answered, Requests
    <3> QED
      BY <1>2, <2>3, <3>1, <3>4, <3>5 DEF Contract!cvars
  <2>10. CASE Invalidate(u)
    <3>1. /\ Uploading(u) /\ pc[u] = "invalidate" /\ pc'[u] = "uploaded"
          /\ accepted' = [accepted EXCEPT ![f] = u]
      BY <2>1, <2>10 DEF Invalidate, Goto, Uploading, IInv, TypeOK, Requests
    <3>2. Answered' = Answered \cup {u} /\ u \notin Answered
      BY <1>1, <3>1 DEF Answered, Requests
    <3>3. u \in Offered[f]
      BY <2>1 DEF Offered
    <3>4. Loose' \in {Loose, Loose \ {f}}
      BY <2>4, <2>5, <2>7, <3>1
    <3>5. Contract!Accept(u, f)
      BY <1>2, <2>3, <2>5, <3>1, <3>2, <3>3, <3>4 DEF Contract!Accept
    <3> QED
      BY <3>5 DEF Contract!Next
  <2> QED
    BY <1>4, <2>8, <2>9, <2>10
<1> QED
  BY <1>3, <1>4 DEF Upload

\* Of the steps of a lookup, only its answer shows: it reads the register.
LEMMA LookupRefines ==
    ASSUME IInv, IInv', OInv, NEW r \in Lookups, Lookup(r)
    PROVE  [Contract!Next]_Contract!cvars
<1> USE DEF disk, history
<1>1. /\ LookupFrame(r) /\ pc[r] # "served"
      /\ UNCHANGED <<model, side, accepted, damaged, restarts>>
      /\ \A f : Busy(f)' <=> Busy(f)
  <2>1. LookupFrame(r)
    BY LookupStepFrame
  <2> QED
    BY <2>1, BystandersKeepFiles
       DEF LookupFrame, Bystands, Lookup, Check, ReadSide, LoadModel, Store, Return
<1>2. Offered' = Offered /\ Answered' = Answered
  BY <1>1 DEF LookupFrame, Bystands, Offered, Answered
<1>3. Loose' = Loose
  <2>1. ASSUME NEW f \in Files PROVE f \in Loose' <=> f \in Loose
    <3>1. f \in raced => f \in raced'
      BY <1>1 DEF LookupFrame
    <3>2. f \in raced' => f \in raced \/ Busy(f)
      BY SetsArePredicates
         DEF Lookup, Check, ReadSide, LoadModel, Store, Return
    <3> QED
      BY <1>1, <3>1, <3>2, LooseIs, LooseIsNext
  <2> QED
    BY <2>1, LooseIs, LooseIsNext
<1>4. \A q \in Lookups \ {r} : pc'[q] = pc[q] /\ file'[q] = file[q] /\ got'[q] = got[q]
  BY <1>1 DEF LookupFrame, Requests
<1>5. CASE pc'[r] # "served"
  <2>1. Served' = Served
    BY <1>1, <1>4, <1>5 DEF Served
  <2> QED
    BY <1>1, <1>2, <1>3, <2>1 DEF Contract!cvars
<1>6. CASE pc'[r] = "served"
  <2>1. /\ Return(r) /\ pc[r] = "return" /\ file' = file
        /\ file[r] \in Files /\ cache[file[r]] # None
        /\ got'[r] = cache[file[r]]
    BY <1>6 DEF Lookup, Check, ReadSide, LoadModel, Store, Return, Goto, IInv,
                TypeOK, Requests, LookupsOK, LookupOK, AtWork
  <2>2. PICK f \in Files, p \in Policies : f = file[r] /\ p = cache[f]
    BY <2>1 DEF IInv, TypeOK
  <2>3. p.model.dim = p.side.dim
    BY <2>1, <2>2 DEF IInv, CacheOK, FitsTogether
  <2>4. SentTogether(p, f)
    BY <2>1, <2>2 DEF OInv, FilesAreOwn
  <2>5. p.model.from \in Offered[f] /\ p.side.from \in Offered[f]
    BY <2>4 DEF SentTogether, Sent, Offered
  <2>6. f \notin Loose => p.model.from = accepted[f] /\ p.side.from = accepted[f]
    BY <2>1, <2>2, LooseIs DEF IInv, CacheOK, IsAccepted
  <2>7. Served[r] = None
    BY <1>1 DEF Served
  <2>8. Served' = [Served EXCEPT ![r] = [file |-> f, policy |-> p]]
    BY <1>4, <1>6, <2>1, <2>2 DEF Served
  <2>9. p \in Contract!Policies
    BY DEF Policies, Contents, Origins, Contract!Policies, Contract!Contents,
           Contract!Origins
  <2>10. Contract!Serve(r, f)
    BY <1>1, <1>2, <1>3, <2>3, <2>5, <2>6, <2>7, <2>8, <2>9
       DEF Contract!Serve, Contract!FitsTogether
  <2> QED
    BY <2>10 DEF Contract!Next
<1> QED
  BY <1>5, <1>6

\* A restart shows only in what may be promised.
LEMMA OthersRefine ==
    ASSUME IInv, IInv', Restart \/ UNCHANGED vars
    PROVE  [Contract!Next]_Contract!cvars
<1> USE DEF disk, history
<1>2. CASE Restart
  <2>1. /\ UNCHANGED <<file, got, accepted>>
        /\ \A p \in Requests : pc'[p] = IF pc[p] \in InProgress THEN "lost" ELSE pc[p]
        /\ raced' = {} /\ damaged' = damaged \cup {f \in Files : Writing(f) # {}}
    BY <1>2 DEF Restart
  <2>2. Offered' = Offered /\ Answered' = Answered /\ Served' = Served
    BY <2>1 DEF Offered, Answered, Served, Requests, InProgress
  <2>3. \A f \in Files : ~Busy(f)'
    BY <2>1 DEF Busy, Uploading, Requests, InProgress
  <2>4. Loose' \subseteq Loose
    BY <2>1, <2>3, LooseIsNext DEF Loose
  <2>5. Contract!Restart
    BY <2>1, <2>2, <2>4 DEF Contract!Restart
  <2> QED
    BY <2>5 DEF Contract!Next
<1>3. CASE UNCHANGED vars
  <2>1. UNCHANGED <<pc, file, got, accepted, raced, damaged>>
    BY <1>3 DEF vars
  <2>2. Offered' = Offered /\ Answered' = Answered /\ Served' = Served
    BY <2>1 DEF Offered, Answered, Served
  <2>3. Loose' = Loose
    BY <2>1 DEF Loose, Writing
  <2> QED
    BY <2>1, <2>2, <2>3 DEF Contract!cvars
<1> QED
  BY <1>2, <1>3

(***************************************************************************)
(* However files, cache and restarts interleave, a lookup acts as one       *)
(* atomic read of a register that holds the version accepted last; of a     *)
(* name that uploads have made loose, it gets parts that fit and were sent  *)
(* under this name.                                                         *)
(***************************************************************************)
THEOREM RegistryImplementsContract == Spec => ImplementsContract
<1>1. Init => IInv /\ OInv
  <2>1. Init => OInv
    <3> SUFFICES ASSUME Init PROVE OInv
      OBVIOUS
    <3>1. \A f \in Files : model[f] # None => model[f].from = Seed
      BY DEF Init, SeedContent
    <3> QED
      BY <3>1 DEF Init, OInv, FilesAreOwn, LookupsAreOwn, Sent, Requests
  <2> QED
    BY <2>1, InitOK
<1>2. IInv /\ OInv /\ [Next]_vars => IInv' /\ OInv'
  BY StepOK, OwnSteps
<1>3. IInv /\ OInv /\ IInv' /\ [Next]_vars => [Contract!Next]_Contract!cvars
  BY UploadRefines, LookupRefines, OthersRefine DEF Next
<1> QED
  BY <1>1, <1>2, <1>3, InitRefines, PTL DEF Spec, ImplementsContract, Contract!Spec

------------------------------------------------------------------------------
(* The charger beside the registry. What PolicyAssignment adds leaves the     *)
(* registry alone, so that its invariant holds there, too.                    *)

LEMMA AssignmentKeepsRegistry == ASpec => Spec
<1>1. AInit => Init
  BY DEF AInit
<1>2. [ANext]_allVars => [Next]_vars
  BY DEF ANext, allVars, Next, ReadRow, Validate, CommitAssignment, CommitEdit,
         RestartAll, AllQuiet
<1> QED
  BY <1>1, <1>2, PTL DEF ASpec, Spec

\* A name that had a model has one, unless an upload removed it.
Stays(f) == f \notin damaged => model[f] # None

LEMMA ModelsStay ==
    ASSUME IInv, [Next]_vars, NEW f \in Files, Stays(f)
    PROVE  Stays(f)'
<1> USE DEF IInv, TypeOK, Stays, disk, history
<1>1. ASSUME NEW u \in Uploads, Upload(u) PROVE Stays(f)'
  <2>1. CASE Receive(u)
    BY <2>1 DEF Receive
  <2>2. CASE WriteModel(u) \/ WriteSide(u) \/ WriteSideFails(u) \/ Verify(u)
             \/ Invalidate(u)
    <3>1. /\ UploadFrame(u) /\ file[u] \in Files /\ bundle[u].model # None
          /\ pc[u] = "invalidate" => model[file[u]] = bundle[u].model
      BY <2>2, UploadStepFrame, ContentFields DEF UploadsOK, UploadOK, Uploading
    <3>2. CASE f # file[u]
      BY <3>1, <3>2 DEF UploadFrame
    <3>3. CASE f = file[u]
      BY <2>2, <3>1, <3>3
         DEF WriteModel, WriteSide, WriteSideFails, Verify, Unlinked, Invalidate
    <3> QED
      BY <3>2, <3>3
  <2> QED
    BY <1>1, <2>1, <2>2 DEF Upload
<1>2. ASSUME NEW r \in Lookups, Lookup(r) PROVE Stays(f)'
  BY <1>2, LookupStepFrame DEF LookupFrame, Bystands
<1>3. CASE Restart
  BY <1>3 DEF Restart
<1>4. CASE UNCHANGED vars
  BY <1>4 DEF vars
<1> QED
  BY <1>1, <1>2, <1>3, <1>4 DEF Next

(***************************************************************************)
(* The inductive invariant: a pair that was validated, in a request or in   *)
(* the row, is a rule, or a name whose model only an upload can remove.     *)
(***************************************************************************)
Lasts(pair) ==
    \/ pair = NoPair
    \/ pair.algorithm = "ann" /\ pair.policy \in Files /\ Stays(pair.policy)
    \/ pair.algorithm = "rule_based" /\ pair.policy \in Rules

AssignmentType ==
    /\ row \in Pairs
    /\ at \in [ChargerRequests -> Waiting \cup {"idle", "refused", "saved", "lost"}]
    /\ seen \in [ChargerRequests -> Pairs] /\ wanted \in [ChargerRequests -> Pairs]
    /\ source \in {"checked", "unchecked"}

AInv ==
    /\ AssignmentType
    /\ \A a \in Assigners : at[a] = "commit" => Lasts(wanted[a])
    /\ source = "checked" => Lasts(row)

LEMMA ExistingLasts == ASSUME NEW pair, Exists(pair) PROVE Lasts(pair)
  BY DEF Exists, Lasts, Stays

LEMMA LastsStays ==
    ASSUME IInv, [Next]_vars, NEW pair, Lasts(pair)
    PROVE  \/ pair = NoPair
           \/ pair.algorithm = "ann" /\ pair.policy \in Files /\ Stays(pair.policy)'
           \/ pair.algorithm = "rule_based" /\ pair.policy \in Rules
  BY ModelsStay DEF Lasts

LEMMA AssignmentInit == AInit => AInv
<1> SUFFICES ASSUME AInit PROVE AInv
  OBVIOUS
<1>1. NoPair \in Pairs
  BY DEF NoPair, Pairs
<1> QED
  BY <1>1 DEF AInit, AInv, AssignmentType, Lasts, ChargerRequests

\* A step of the registry leaves the charger and its requests alone.
LEMMA RegistryStepKeeps ==
    ASSUME IInv, AInv, [Next]_vars, UNCHANGED <<row, seen, wanted, source>>,
           at' \in [ChargerRequests -> Waiting \cup {"idle", "refused", "saved", "lost"}],
           \A a \in Assigners : at'[a] = "commit" => at[a] = "commit"
    PROVE  AInv'
<1>1. AssignmentType'
  BY DEF AInv, AssignmentType
<1>2. ASSUME NEW a \in Assigners, at'[a] = "commit" PROVE Lasts(wanted[a])'
  BY <1>2, LastsStays DEF AInv, Lasts
<1>3. source' = "checked" => Lasts(row)'
  BY LastsStays DEF AInv, Lasts
<1> QED
  BY <1>1, <1>2, <1>3 DEF AInv

LEMMA AssignmentStep == IInv /\ AInv /\ [ANext]_allVars => AInv'
<1> SUFFICES ASSUME IInv, AInv, [ANext]_allVars PROVE AInv'
  OBVIOUS
<1> USE DEF AInv, AssignmentType, ChargerRequests
<1>1. ASSUME [Next]_vars, UNCHANGED assignment PROVE AInv'
  BY <1>1, RegistryStepKeeps DEF assignment
<1>2. CASE RestartAll
  BY <1>2, RegistryStepKeeps DEF RestartAll, Next, Waiting
<1>3. ASSUME UNCHANGED vars PROVE \A pair : Lasts(pair)' <=> Lasts(pair)
  BY <1>3 DEF vars, disk, history, Lasts, Stays
<1>4. ASSUME NEW p \in ChargerRequests, ReadRow(p) PROVE AInv'
  <2>1. /\ UNCHANGED <<vars, row, source>>
        /\ p \in Assigners => at'[p] = "validate"
        /\ \A q \in ChargerRequests \ {p} : at'[q] = at[q] /\ wanted'[q] = wanted[q]
    BY <1>4 DEF ReadRow, Move
  <2>2. AssignmentType'
    BY <1>4 DEF ReadRow, Move, Waiting
  <2> QED
    BY <1>3, <2>1, <2>2
<1>5. ASSUME NEW a \in Assigners, Validate(a) PROVE AInv'
  <2>1. /\ UNCHANGED <<vars, row, seen, wanted, source>>
        /\ at'[a] = "commit" => Exists(wanted[a])
        /\ \A q \in ChargerRequests \ {a} : at'[q] = at[q]
    BY <1>5 DEF Validate, Move
  <2>2. AssignmentType'
    BY <1>5 DEF Validate, Move, Waiting
  <2> QED
    BY <1>3, <2>1, <2>2, ExistingLasts
<1>6. ASSUME NEW p \in ChargerRequests PROVE Saved(p) \in Pairs
  BY <1>6 DEF Saved, Pairs
<1>7. ASSUME NEW a \in Assigners, CommitAssignment(a) PROVE AInv'
  <2>1. /\ UNCHANGED <<vars, seen, wanted>> /\ at[a] = "commit" /\ at'[a] = "saved"
        /\ \A q \in ChargerRequests \ {a} : at'[q] = at[q]
        /\ row' = Saved(a)
    BY <1>7 DEF CommitAssignment, Move
  <2>2. AssignmentType'
    BY <1>6, <1>7 DEF CommitAssignment, Move, Waiting
  <2>3. source' = "checked" =>
            row' = wanted[a] \/ (row' = row /\ source = "checked")
    BY <1>7 DEF CommitAssignment
  <2> QED
    BY <1>3, <2>1, <2>2, <2>3
<1>8. ASSUME NEW e \in Editors, CommitEdit(e) PROVE AInv'
  <2>1. /\ UNCHANGED <<vars, seen, wanted>> /\ at'[e] = "saved"
        /\ \A q \in ChargerRequests \ {e} : at'[q] = at[q]
        /\ source' = "checked" => row' = row /\ source = "checked"
    BY <1>8 DEF CommitEdit, Move
  <2>2. AssignmentType'
    BY <1>6, <1>8 DEF CommitEdit, Move, Waiting
  <2> QED
    BY <1>3, <2>1, <2>2
<1>9. CASE UNCHANGED allVars
  BY <1>1, <1>9 DEF allVars
<1> QED
  BY <1>1, <1>2, <1>4, <1>5, <1>7, <1>8, <1>9 DEF ANext, AllQuiet, Next

(***************************************************************************)
(* A pair that the assignment validated and that no edit has touched since  *)
(* can be loaded for the next event, unless an upload under its name was    *)
(* rejected or cut off. Nothing is said of a pair that a POST or PUT of the *)
(* charger stored, or that two overlapping assignments put together.        *)
(***************************************************************************)
THEOREM AssignedLoads == ASpec => []AssignedIsLoadable
<1>1. IInv /\ AInv => AssignedIsLoadable
  <2> SUFFICES ASSUME IInv, AInv, source = "checked", Settled(row) PROVE Resolves(row)
    BY DEF AssignedIsLoadable
  <2>1. CASE row = NoPair
    BY <2>1 DEF Resolves, NoPair
  <2>2. CASE row.algorithm = "ann" /\ row.policy \in Files /\ Stays(row.policy)
    BY <2>2, SetsArePredicates DEF Settled, IInv, FilesOK, FileOK, Stays, Resolves
  <2>3. CASE row.algorithm = "rule_based" /\ row.policy \in Rules
    BY <2>3 DEF Resolves
  <2> QED
    BY <2>1, <2>2, <2>3 DEF AInv, Lasts
<1>2. IInv /\ AInv /\ [ANext]_allVars => AInv'
  BY AssignmentStep
<1> QED
  BY <1>1, <1>2, AssignmentInit, AssignmentKeepsRegistry, Invariance, PTL DEF ASpec
=============================================================================
