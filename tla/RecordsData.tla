---------------------------- MODULE RecordsData ----------------------------
(***************************************************************************)
(* The tables behind the API as one relational store, what the ORM writes  *)
(* for an INSERT, an UPDATE and a DELETE (app/models.py), and who may see  *)
(* which row (app/services/common/authorization.py).  A store is a         *)
(* function from the ids of its rows to the rows; a row keeps its table    *)
(* and the columns an access rule, a key or a reference depends on.        *)
(***************************************************************************)
EXTENDS Naturals

CONSTANTS Null,     \* SQL NULL
          Names     \* the names a request may give to an owner, pilot, secret

ASSUME NullIsNoId == Null \notin Nat

(***************************************************************************)
(* The columns of each table.  user, name and job_id are keys, a column    *)
(* that starts with id_ refers to a row of another table.                  *)
(***************************************************************************)
Columns ==
    [owners                       |-> {"user", "role", "token"},
     pilot                        |-> {"name", "id_owner"},
     pilot_secret                 |-> {"name", "id_pilot"},
     chargers                     |-> {"id_owner", "id_pilot"},
     charging_sessions            |-> {"id_charger"},
     ev_duration_cdf              |-> {"id_charger"},
     ev_forecast_stats            |-> {"id_charger"},
     actions                      |-> {"id_cs"},
     grid_load_forecasted         |-> {"id_action"},
     ev_pilot_forecast_timeseries |-> {"id_pilot"},
     forecast_jobs                |-> {"job_id", "id_pilot"}]

Target == [id_owner |-> "owners", id_pilot |-> "pilot", id_charger |-> "chargers",
           id_cs |-> "charging_sessions", id_action |-> "actions"]

References(t) == Columns[t] \cap DOMAIN Target

NotNull == {<<"pilot", "id_owner">>, <<"pilot_secret", "id_pilot">>,
            <<"forecast_jobs", "id_pilot">>}

\* The tables whose rows the ORM deletes together with their parent.
Cascaded == {"pilot_secret"}

Keys == [owners |-> {"user"}, pilot |-> {"name"},
         pilot_secret |-> {"id_pilot", "name"}, forecast_jobs |-> {"job_id"}]

Row(t, cols) == [table |-> t, cols |-> cols]

\* One column with its value.
Only(c, v) == [x \in {c} |-> v]

\* Row i has the columns of its table.
RowType(db, i) ==
    /\ db[i] = Row(db[i].table, db[i].cols)
    /\ db[i].table \in DOMAIN Columns
    /\ DOMAIN db[i].cols = Columns[db[i].table]

Rows(db, t) == {i \in DOMAIN db : db[i].table = t}

\* A nullable reference in a request: a row of its table, or none.
Optional(db, c) == Rows(db, Target[c]) \cup {Null}

-----------------------------------------------------------------------------
(***************************************************************************)
(* The constraints of the database, checked when a transaction commits.    *)
(***************************************************************************)
RefersToRows(db) ==
    \A i \in DOMAIN db : \A c \in References(db[i].table) :
        \/ db[i].cols[c] \in Rows(db, Target[c])
        \/ db[i].cols[c] = Null /\ <<db[i].table, c>> \notin NotNull

KeysAreUnique(db) ==
    \A i, j \in DOMAIN db :
        (i # j /\ db[i].table = db[j].table /\ db[i].table \in DOMAIN Keys) =>
            \E c \in Keys[db[i].table] : db[i].cols[c] # db[j].cols[c]

\* Mutant: the keys are not declared unique.
CommittedTwice(db, new) == IF RefersToRows(new) THEN new ELSE db

\* A transaction whose result breaks a constraint is rolled back.
Committed(db, new) == IF RefersToRows(new) /\ KeysAreUnique(new) THEN new ELSE db

(***************************************************************************)
(* Session.add and commit: the new rows, under ids generated beforehand.   *)
(***************************************************************************)
Inserted(db, rows) ==
    Committed(db, [i \in DOMAIN db \cup DOMAIN rows |->
                      IF i \in DOMAIN rows THEN rows[i] ELSE db[i]])

\* Mutant: the row is written back as it was read, like a whole-row update.
UpdatedWhole(db, i, seen, set) ==
    IF i \notin DOMAIN db THEN db
    ELSE Committed(db,
             [db EXCEPT ![i].cols = [c \in DOMAIN @ |->
                 IF c \in DOMAIN set THEN set[c] ELSE seen[c]]])

(***************************************************************************)
(* setattr on a loaded row and commit.  The ORM writes the columns whose   *)
(* new value differs from the one it loaded; a row that is gone meanwhile  *)
(* fails the statement.                                                    *)
(***************************************************************************)
Updated(db, i, seen, set) ==
    IF i \notin DOMAIN db THEN db
    ELSE Committed(db,
             [db EXCEPT ![i].cols = [c \in DOMAIN @ |->
                 IF c \in DOMAIN set /\ set[c] # seen[c] THEN set[c] ELSE @[c]]])

Refer(db, j, i) == \E c \in References(db[j].table) : db[j].cols[c] = i

\* Mutant: the relationships cascade the deletion to every row that refers to i.
DeletedWithRows(db, i) ==
    Committed(db, [j \in {k \in DOMAIN db \ {i} : ~Refer(db, k, i)} |-> db[j]])

\* Mutant: the references are left to the database, without a rule of its own.
DeletedAlone(db, i) == Committed(db, [j \in DOMAIN db \ {i} |-> db[j]])

(***************************************************************************)
(* Session.delete and commit.  The ORM loads the rows that refer to i:     *)
(* it deletes those with a delete-orphan cascade and sets the reference of *)
(* the others to NULL, which fails where the column is NOT NULL.           *)
(***************************************************************************)
Deleted(db, i) ==
    LET gone == {i} \cup {j \in DOMAIN db : db[j].table \in Cascaded /\ Refer(db, j, i)}
        left == [j \in DOMAIN db \ gone |->
                    [db[j] EXCEPT !.cols = [c \in DOMAIN @ |->
                        IF c \in DOMAIN Target /\ @[c] = i THEN Null ELSE @[c]]]]
    IN  Committed(db, left)

-----------------------------------------------------------------------------
(***************************************************************************)
(* The access rules.  who is the token's claim: the owner's id and the     *)
(* role at the time of the login.                                          *)
(***************************************************************************)
IsAdmin(who) == who.role = "admin"
IsUser(who)  == who.role \in {"user", "user-adv"}

MayUsePilot(db, who, p) ==
    IsAdmin(who) \/ (IsUser(who) /\ db[p].cols.id_owner = who.owner_id)

OwnsPilotOf(db, who, c) ==
    /\ db[c].cols.id_pilot # Null
    /\ db[db[c].cols.id_pilot].cols.id_owner = who.owner_id

\* ensure_charger_access; byOwner is allow_charger_owner.
MayUseCharger(db, who, c, byOwner) ==
    \/ IsAdmin(who)
    \/ /\ IsUser(who)
       /\ \/ byOwner /\ db[c].cols.id_owner = who.owner_id
          \/ OwnsPilotOf(db, who, c)

\* ensure_session_access: a session without a charger is shown to nobody.
MayUseSession(db, who, s, byOwner) ==
    /\ db[s].cols.id_charger # Null
    /\ MayUseCharger(db, who, db[s].cols.id_charger, byOwner)

\* ensure_action_access
MayUseAction(db, who, a) ==
    db[a].cols.id_cs # Null /\ MayUseSession(db, who, db[a].cols.id_cs, TRUE)

\* get_grid_load_forecasted: the owner of the pilot, not of the charger.
MayUseGridLoad(db, who, g) ==
    \/ IsAdmin(who)
    \/ /\ IsUser(who)
       /\ db[g].cols.id_action # Null
       /\ LET cs == db[db[g].cols.id_action].cols.id_cs
          IN  cs # Null /\ MayUseSession(db, who, cs, FALSE)

\* Mutant: the list forgets the chargers of the caller's pilots.
AccessibleOwned(db, who, byOwner) ==
    IF IsAdmin(who) THEN Rows(db, "chargers")
    ELSE {c \in Rows(db, "chargers") :
             IsUser(who) /\ byOwner /\ db[c].cols.id_owner = who.owner_id}

(***************************************************************************)
(* get_accessible_charger_ids, and the rows a list shows: all of them to   *)
(* an administrator, else those an inner join with these chargers leaves.  *)
(***************************************************************************)
AccessibleChargers(db, who, byOwner) ==
    IF IsAdmin(who) THEN Rows(db, "chargers")
    ELSE {c \in Rows(db, "chargers") :
             /\ IsUser(who)
             /\ \/ byOwner /\ db[c].cols.id_owner = who.owner_id
                \/ db[c].cols.id_pilot \in
                       {p \in Rows(db, "pilot") : db[p].cols.id_owner = who.owner_id}}

ListedSessions(db, who, byOwner) ==
    {s \in Rows(db, "charging_sessions") :
        IsAdmin(who) \/ db[s].cols.id_charger \in AccessibleChargers(db, who, byOwner)}

ListedActions(db, who, byOwner) ==
    {a \in Rows(db, "actions") :
        IsAdmin(who) \/ db[a].cols.id_cs \in ListedSessions(db, who, byOwner)}

ListedGridLoad(db, who) ==
    {g \in Rows(db, "grid_load_forecasted") :
        IsAdmin(who) \/ db[g].cols.id_action \in ListedActions(db, who, FALSE)}

(***************************************************************************)
(* What a GET by id shows, and what the list of the same table shows.      *)
(***************************************************************************)
Shown(db, who) ==
         {c \in Rows(db, "chargers") : MayUseCharger(db, who, c, TRUE)}
    \cup {s \in Rows(db, "charging_sessions") : MayUseSession(db, who, s, TRUE)}
    \cup {a \in Rows(db, "actions") : MayUseAction(db, who, a)}
    \cup {g \in Rows(db, "grid_load_forecasted") : MayUseGridLoad(db, who, g)}

Listed(db, who) ==
         AccessibleChargers(db, who, TRUE) \cup ListedSessions(db, who, TRUE)
    \cup ListedActions(db, who, TRUE) \cup ListedGridLoad(db, who)
=============================================================================
