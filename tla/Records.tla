------------------------------ MODULE Records ------------------------------
(***************************************************************************)
(* Accounts, tokens and the CRUD endpoints (app/api/routes/auth.py and     *)
(* database.py).  A request reads the store and takes its decision in one  *)
(* step and commits in a later one, so that two requests overlap: what a   *)
(* request writes was decided on rows that may have changed since.  The    *)
(* token is checked before, in a database session of its own.              *)
(***************************************************************************)
EXTENDS RecordsData, Sequences, FiniteSets

CONSTANTS Requests,     \* the threads of the API
          Seeds,        \* the stores the program may start from
          Roles,
          MaxRequests,  \* bound: requests accepted in a behaviour
          MaxRows       \* bound: ids ever given to a row

\* The tokens that owners hold.
Live(store) ==
    {store[i].cols.token : i \in Rows(store, "owners")} \ {Null}

\* The ids of a seed are consecutive, its rows satisfy the constraints, and
\* nobody is logged in.
ASSUME SeedsAreStores ==
    \A store \in Seeds :
        /\ \E n \in 0 .. MaxRows : DOMAIN store = 1 .. n
        /\ \A i \in DOMAIN store : RowType(store, i)
        /\ RefersToRows(store) /\ KeysAreUnique(store)
        /\ Live(store) = {}
ASSUME BoundsAreNat == MaxRequests \in Nat /\ MaxRows \in Nat

VARIABLES db,       \* the committed rows
          made,     \* the number of ids generated so far
          claims,   \* claims[t]: what token t says: its owner's id, name and role
          req,      \* per request: its step and what it holds
          accepted,
          again,    \* history: tokens that more than one login issued
          ended     \* history: tokens that were live and were ended

history == <<again, ended>>
vars == <<db, made, claims, req, accepted, history>>

Idle == [pc |-> "idle"]

Named(n) == {i \in Rows(db, "owners") : db[i].cols.user = n}

Init ==
    /\ db \in Seeds
    /\ made = CHOOSE n \in 0 .. MaxRows : DOMAIN db = 1 .. n
    /\ claims = << >>
    /\ req = [r \in Requests |-> Idle]
    /\ accepted = 0
    /\ again = {} /\ ended = {}

Accept == accepted < MaxRequests /\ accepted' = accepted + 1

-----------------------------------------------------------------------------
(***************************************************************************)
(* What a handler is about to write once its checks have passed.           *)
(***************************************************************************)
Insert(rows)      == [op |-> "insert", rows |-> rows]
Update(i, set)    == [op |-> "update", row |-> i, seen |-> db[i].cols, set |-> set]
Delete(i)         == [op |-> "delete", row |-> i]

New(t, cols) == Insert([i \in {made + 1} |-> Row(t, cols)])

NewOwner(n, ro)  == New("owners", [user |-> n, role |-> ro, token |-> Null])
NewCharger(o, p) == New("chargers", [id_owner |-> o, id_pilot |-> p])
NewSecret(n, p)  == New("pilot_secret", [name |-> n, id_pilot |-> p])
NewJob(n, p)     == New("forecast_jobs", [job_id |-> n, id_pilot |-> p])

\* A pilot is created with a forecast job that refers to it, in one transaction.
NewPilot(n, o) ==
    Insert([i \in {made + 1, made + 2} |->
               IF i = made + 1 THEN Row("pilot", [name |-> n, id_owner |-> o])
               ELSE Row("forecast_jobs", [job_id |-> made + 1, id_pilot |-> made + 1])])

\* A PUT that sets one column of row i to a value of V.
Setting(i, c, V) == {Update(i, Only(c, v)) : v \in V}

Deletes(t) == {Delete(i) : i \in Rows(db, t)}

(***************************************************************************)
(* The writes of each group of endpoints for the caller `who'.             *)
(***************************************************************************)
\* Mutant: the owner's own PUT may carry a role.
OwnerWritesWithRole(who) ==
    UNION {Setting(i, "role", Roles) \cup Setting(i, "user", Names) :
              i \in {o \in Rows(db, "owners") : IsAdmin(who) \/ who.owner_id = o}}

\* An owner changes his own row but never his role.
OwnerWrites(who) ==
    (IF IsAdmin(who)
     THEN {NewOwner(n, ro) : n \in {m \in Names : Named(m) = {}}, ro \in Roles}
          \cup Deletes("owners")
          \cup UNION {Setting(i, "role", Roles) : i \in Rows(db, "owners")}
     ELSE {})
    \cup UNION {Setting(i, "user", Names) :
                  i \in {o \in Rows(db, "owners") : IsAdmin(who) \/ who.owner_id = o}}

\* A user adds chargers to his pilots only, a guest none; no other role is asked
\* for more. Whoever owns the pilot changes them.
ChargerWrites(who) ==
    {NewCharger(o, p) :
        o \in Optional(db, "id_owner"),
        p \in {q \in Optional(db, "id_pilot") :
                  /\ who.role # "guest"
                  /\ IsUser(who) => q # Null /\ MayUsePilot(db, who, q)}}
    \cup UNION {Setting(c, "id_owner", Optional(db, "id_owner"))
                \cup Setting(c, "id_pilot", Optional(db, "id_pilot"))
                \cup {Delete(c)} :
                  c \in {d \in Rows(db, "chargers") : MayUseCharger(db, who, d, FALSE)}}

\* The tables that only an administrator writes, each with one optional reference.
AdminWrites(who, t, c) ==
    IF IsAdmin(who)
    THEN {New(t, Only(c, v)) : v \in Optional(db, c)} \cup Deletes(t)
         \cup UNION {Setting(i, c, Optional(db, c)) : i \in Rows(db, t)}
    ELSE {}

SessionWrites(who)  == AdminWrites(who, "charging_sessions", "id_charger")
ActionWrites(who)   == AdminWrites(who, "actions", "id_cs")
DurationWrites(who) == AdminWrites(who, "ev_duration_cdf", "id_charger")
StatsWrites(who)    == AdminWrites(who, "ev_forecast_stats", "id_charger")
GridLoadWrites(who) == AdminWrites(who, "grid_load_forecasted", "id_action")

\* create_pilot is open to an advanced user, for himself.
PilotWrites(who) ==
    {NewPilot(n, o) :
        n \in Names,
        o \in {p \in Rows(db, "owners") :
                  IsAdmin(who) \/ (who.role = "user-adv" /\ who.owner_id = p)}}
    \cup UNION {Setting(p, "id_owner", Rows(db, "owners"))
                \cup Setting(p, "name", Names) \cup {Delete(p)} :
                  p \in {q \in Rows(db, "pilot") : MayUsePilot(db, who, q)}}

\* PUT sets a secret that exists and creates one that does not.
SecretWrites(who) ==
    UNION {{IF \E s \in Rows(db, "pilot_secret") : db[s].cols = [name |-> n, id_pilot |-> p]
            THEN Update(CHOOSE s \in Rows(db, "pilot_secret") :
                            db[s].cols = [name |-> n, id_pilot |-> p],
                        [name |-> n])
            ELSE NewSecret(n, p) : n \in Names}
           \cup {Delete(s) : s \in {x \in Rows(db, "pilot_secret") :
                                       db[x].cols.id_pilot = p}} :
             p \in {q \in Rows(db, "pilot") : MayUsePilot(db, who, q)}}

\* job_id is the pilot's id, as create_pilot names its job, or 0: another name.
JobWrites(who) ==
    IF IsAdmin(who)
    THEN {NewJob(n, p) :
             n \in {0} \ {db[j].cols.job_id : j \in Rows(db, "forecast_jobs")},
             p \in Rows(db, "pilot")}
         \cup Deletes("forecast_jobs")
         \cup UNION {Setting(j, "job_id",
                             {0} \ {db[k].cols.job_id : k \in Rows(db, "forecast_jobs")}) :
                       j \in Rows(db, "forecast_jobs")}
    ELSE {}

Writes(who) ==
         OwnerWrites(who) \cup ChargerWrites(who) \cup SessionWrites(who)
    \cup PilotWrites(who) \cup SecretWrites(who) \cup ActionWrites(who)
    \cup DurationWrites(who) \cup StatsWrites(who) \cup GridLoadWrites(who)
    \cup JobWrites(who)

-----------------------------------------------------------------------------
(***************************************************************************)
(* The steps of a request.                                                 *)
(***************************************************************************)
Begin(r, who, w) ==
    /\ req' = [req EXCEPT ![r] = [pc |-> "write", who |-> who, write |-> w]]
    /\ made' = IF w.op = "insert" THEN made + Cardinality(DOMAIN w.rows) ELSE made

\* The token issued last with these claims.
LastWith(who) ==
    {t \in DOMAIN claims :
        claims[t] = who /\ \A u \in DOMAIN claims : claims[u] = who => u <= t}

\* login: the password matches; the token carries the role the row has now. The
\* expiry is the only claim that tells two logins apart, and it counts whole
\* seconds: a login in the second of the last one with its claims is given the
\* same token.
Login(r) ==
    \E o \in Rows(db, "owners") :
        /\ req[r].pc = "idle"
        /\ Accept
        /\ LET who == [owner_id |-> o, user |-> db[o].cols.user, role |-> db[o].cols.role]
           IN  \/ /\ claims' = Append(claims, who)
                  /\ Begin(r, who, Update(o, [token |-> Len(claims) + 1]))
                  /\ UNCHANGED again
               \/ \E t \in LastWith(who) :
                     /\ Begin(r, who, Update(o, [token |-> t]))
                     /\ again' = again \cup {t}
                     /\ UNCHANGED claims
        /\ UNCHANGED <<db, ended>>

\* signup: a new guest, under a name nobody has.
Signup(r) ==
    \E n \in Names :
        /\ req[r].pc = "idle" /\ Named(n) = {} /\ made < MaxRows
        /\ Accept
        /\ Begin(r, [owner_id |-> Null, user |-> n, role |-> "guest"],
                 NewOwner(n, "guest"))
        /\ UNCHANGED <<db, claims, history>>

\* get_current_user: the token is the one its owner's row holds.
Authenticate(r) ==
    \E t \in DOMAIN claims :
        /\ req[r].pc = "idle"
        /\ \E o \in Named(claims[t].user) : db[o].cols.token = t
        /\ Accept
        /\ req' = [req EXCEPT ![r] = [pc |-> "handle", who |-> claims[t]]]
        /\ UNCHANGED <<db, made, claims, history>>

\* logout: the row is found again by the name in the token.
Logout(r) ==
    /\ req[r].pc = "handle"
    /\ \E o \in Named(req[r].who.user) :
           Begin(r, req[r].who, Update(o, [token |-> Null]))
    /\ UNCHANGED <<db, claims, accepted, history>>

\* Any endpoint of database.py: its checks pass on the rows as they are now.
Handle(r) ==
    /\ req[r].pc = "handle"
    /\ \E w \in Writes(req[r].who) :
           /\ w.op = "insert" => \A i \in DOMAIN w.rows : i <= MaxRows
           /\ Begin(r, req[r].who, w)
    /\ UNCHANGED <<db, claims, accepted, history>>

\* A GET, or a request that its checks turn down.
Answer(r) ==
    /\ req[r].pc = "handle"
    /\ req' = [req EXCEPT ![r] = Idle]
    /\ UNCHANGED <<db, made, claims, accepted, history>>

\* The commit, or the rollback when the database or the ORM refuses.
Commit(r) ==
    /\ req[r].pc = "write"
    /\ LET w == req[r].write
       IN  db' = CASE w.op = "insert" -> Inserted(db, w.rows)
                   [] w.op = "update" -> Updated(db, w.row, w.seen, w.set)
                   [] w.op = "delete" -> Deleted(db, w.row)
    /\ req' = [req EXCEPT ![r] = Idle]
    /\ ended' = ended \cup (Live(db) \ Live(db'))
    /\ UNCHANGED <<made, claims, accepted, again>>

Next ==
    \E r \in Requests :
        \/ Login(r) \/ Signup(r) \/ Authenticate(r) \/ Logout(r)
        \/ Handle(r) \/ Answer(r) \/ Commit(r)

Spec == Init /\ [][Next]_vars

-----------------------------------------------------------------------------
(***************************************************************************)
(* Properties.                                                             *)
(***************************************************************************)
(***************************************************************************)
(* Types: the rows have their tables' columns and ids that were given out, *)
(* and satisfy the constraints of the database.                            *)
(***************************************************************************)
TypeOK ==
    /\ made \in 0 .. MaxRows
    /\ DOMAIN db \subseteq 1 .. made
    /\ \A i \in DOMAIN db : RowType(db, i)
    /\ RefersToRows(db) /\ KeysAreUnique(db)
    /\ accepted \in 0 .. MaxRequests
    /\ \A r \in Requests : req[r].pc \in {"idle", "handle", "write"}

(***************************************************************************)
(* The list of a table and the GET by id agree, for every token that was   *)
(* ever issued and after any changes of owners, pilots and references: a   *)
(* user's list holds exactly the rows he may read one by one, and an       *)
(* administrator's list every row he may read (it also holds the sessions  *)
(* and actions that lost their charger, which no GET by id shows).         *)
(***************************************************************************)
ListAgreesWithGet ==
    \A t \in DOMAIN claims :
        /\ Shown(db, claims[t]) \subseteq Listed(db, claims[t])
        /\ IsAdmin(claims[t]) \/ Listed(db, claims[t]) \subseteq Shown(db, claims[t])

Ends(r) == req[r].pc = "write" /\ req'[r].pc = "idle"

(***************************************************************************)
(* A row disappears only by a request for it, or with the pilot whose      *)
(* secret it is: the deletion of an owner, a pilot, a charger or a session *)
(* leaves the history below it (sessions, actions, statistics, forecasts). *)
(***************************************************************************)
HistoryIsKept ==
    [][\A i \in DOMAIN db \ DOMAIN db' :
          \E r \in Requests :
              /\ Ends(r) /\ req[r].write.op = "delete"
              /\ LET n == req[r].write.row
                 IN  i = n \/ (db[i].table = "pilot_secret" /\ db[i].cols.id_pilot = n)]_vars

(***************************************************************************)
(* A deletion that was accepted removes the row, whatever other requests   *)
(* commit in between, unless it is an owner who has a pilot or a pilot     *)
(* that has a forecast job: these two fail on a NOT NULL reference.        *)
(***************************************************************************)
DeletesAreCarriedOut ==
    [][\A r \in Requests :
          (Ends(r) /\ req[r].write.op = "delete" /\ req[r].write.row \in DOMAIN db') =>
              \E j \in DOMAIN db :
                  /\ Refer(db, j, req[r].write.row)
                  /\ db[j].table \in {"pilot", "forecast_jobs"}]_vars

(***************************************************************************)
(* The role of an owner changes only by the request of an administrator:   *)
(* no other request carries a role or writes back one that it read.        *)
(***************************************************************************)
RolesAreSetByAdmin ==
    [][\A i \in Rows(db, "owners") \cap DOMAIN db' :
          db'[i].cols.role # db[i].cols.role =>
              \E r \in Requests : Ends(r) /\ IsAdmin(req[r].who)]_vars

(***************************************************************************)
(* A token becomes live only when a login that issued it commits, and one  *)
(* that a logout or a later login ended does so only if another login was  *)
(* given the same token, whichever requests on the owner overlap (login,   *)
(* logout and the writes of the other endpoints to the owner's row).       *)
(***************************************************************************)
EndedTokensStayEnded ==
    [][\A i \in Rows(db, "owners") \cap DOMAIN db' :
          (db'[i].cols.token # db[i].cols.token /\ db'[i].cols.token # Null) =>
              \E r \in Requests :
                  /\ Ends(r) /\ req[r].write.op = "update" /\ req[r].write.row = i
                  /\ "token" \in DOMAIN req[r].write.set
                  /\ req[r].write.set.token = db'[i].cols.token
                  /\ db'[i].cols.token \in ended => db'[i].cols.token \in again]_vars
=============================================================================
