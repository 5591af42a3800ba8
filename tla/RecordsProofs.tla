---------------------------- MODULE RecordsProofs ----------------------------
(***************************************************************************)
(* Proofs about Records, for any stores to start from, any names and any   *)
(* number of overlapping requests.                                         *)
(***************************************************************************)
EXTENDS Records, FiniteSetTheorems, TLAPS

IsStore(store) ==
    /\ \A i \in DOMAIN store : RowType(store, i)
    /\ RefersToRows(store) /\ KeysAreUnique(store)

(***************************************************************************)
(* The inductive invariant.  A write that waits for its commit inserts     *)
(* rows of the right shape under ids nobody else has, and carries a role   *)
(* only for an administrator.                                              *)
(***************************************************************************)
Inserts(r) == req[r].pc = "write" /\ req[r].write.op = "insert"

SetsNoRole(who, w) ==
    (w.op = "update" /\ "role" \in DOMAIN w.set) => IsAdmin(who)

WriteOK(r) ==
    /\ req[r].write.op \in {"insert", "update", "delete"}
    /\ SetsNoRole(req[r].who, req[r].write)
    /\ req[r].write.op = "insert" =>
         /\ DOMAIN req[r].write.rows \subseteq (1 .. made) \ DOMAIN db
         /\ \A i \in DOMAIN req[r].write.rows : RowType(req[r].write.rows, i)

WritesOK == \A r \in Requests : req[r].pc = "write" => WriteOK(r)

IdsAreFresh ==
    \A q, r \in Requests :
        q # r /\ Inserts(q) /\ Inserts(r) =>
            DOMAIN req[q].write.rows \cap DOMAIN req[r].write.rows = {}

IInv == TypeOK /\ DOMAIN req = Requests /\ WritesOK /\ IdsAreFresh

-----------------------------------------------------------------------------
(***************************************************************************)
(* What a commit does to a store.                                          *)
(***************************************************************************)
\* Whatever the transaction, the store is one before and after it.
LEMMA CommittedIsStore ==
    ASSUME NEW store, IsStore(store), NEW new,
           \A i \in DOMAIN new : RowType(new, i)
    PROVE  IsStore(Committed(store, new))
  BY DEF IsStore, Committed

LEMMA InsertedIsStore ==
    ASSUME NEW store, IsStore(store), NEW rows,
           \A i \in DOMAIN rows : RowType(rows, i)
    PROVE  /\ IsStore(Inserted(store, rows))
           /\ DOMAIN Inserted(store, rows) \subseteq DOMAIN store \cup DOMAIN rows
           /\ \A i \in DOMAIN store :
                /\ i \in DOMAIN Inserted(store, rows)
                /\ i \notin DOMAIN rows => Inserted(store, rows)[i] = store[i]
<1> DEFINE new == [i \in DOMAIN store \cup DOMAIN rows |->
                      IF i \in DOMAIN rows THEN rows[i] ELSE store[i]]
<1>1. \A i \in DOMAIN new : RowType(new, i)
  BY DEF IsStore, RowType
<1> QED
  BY <1>1, CommittedIsStore DEF Inserted, Committed

\* An update writes at most the columns it sets, to the values it sets.
LEMMA UpdatedIsStore ==
    ASSUME NEW store, IsStore(store), NEW n, NEW seen, NEW set
    PROVE  /\ IsStore(Updated(store, n, seen, set))
           /\ DOMAIN Updated(store, n, seen, set) = DOMAIN store
           /\ \A i \in DOMAIN store :
                Updated(store, n, seen, set)[i].table = store[i].table
           /\ \A i \in DOMAIN store : \A c \in DOMAIN store[i].cols :
                \/ Updated(store, n, seen, set)[i].cols[c] = store[i].cols[c]
                \/ /\ i = n /\ c \in DOMAIN set
                   /\ Updated(store, n, seen, set)[i].cols[c] = set[c]
<1>1. CASE n \notin DOMAIN store
  BY <1>1 DEF Updated
<1>2. CASE n \in DOMAIN store
  <2> DEFINE cols == [c \in DOMAIN store[n].cols |->
                        IF c \in DOMAIN set /\ set[c] # seen[c]
                          THEN set[c] ELSE store[n].cols[c]]
             new == [store EXCEPT ![n].cols = cols]
  <2>1. Updated(store, n, seen, set) = Committed(store, new)
    BY <1>2 DEF Updated
  <2>2. DOMAIN new = DOMAIN store
    OBVIOUS
  <2>3. \A i \in DOMAIN store : i # n => new[i] = store[i]
    OBVIOUS
  <2>4. new[n] = Row(store[n].table, cols)
    <3>1. store[n] = Row(store[n].table, store[n].cols)
      BY <1>2 DEF IsStore, RowType
    <3>2. new[n] = [store[n] EXCEPT !.cols = cols]
      BY <1>2
    <3> QED
      BY <3>1, <3>2 DEF Row
  <2> HIDE DEF new
  <2>5. \A i \in DOMAIN new : RowType(new, i)
    BY <2>2, <2>3, <2>4 DEF IsStore, RowType, Row
  <2>6. \A i \in DOMAIN store : \A c \in DOMAIN store[i].cols :
          \/ new[i].cols[c] = store[i].cols[c]
          \/ i = n /\ c \in DOMAIN set /\ new[i].cols[c] = set[c]
    BY <2>3, <2>4 DEF Row
  <2>7. \A i \in DOMAIN store : new[i].table = store[i].table
    BY <2>3, <2>4 DEF Row
  <2> QED
    BY <2>1, <2>2, <2>5, <2>6, <2>7, CommittedIsStore DEF Committed
<1> QED
  BY <1>1, <1>2

-----------------------------------------------------------------------------
(***************************************************************************)
(* Deletion.                                                               *)
(***************************************************************************)
Gone(store, n) ==
    {n} \cup {j \in DOMAIN store : store[j].table \in Cascaded /\ Refer(store, j, n)}

Unset(cols, n) ==
    [c \in DOMAIN cols |-> IF c \in DOMAIN Target /\ cols[c] = n THEN Null ELSE cols[c]]

Left(store, n) ==
    [j \in DOMAIN store \ Gone(store, n) |->
        Row(store[j].table, Unset(store[j].cols, n))]

\* What the proofs need of the schema.
LEMMA Schema ==
    /\ \A t : \A c \in References(t) :
         c \in Columns[t] /\ c \in DOMAIN Target /\ Target[c] # "pilot_secret"
    /\ \A t \in DOMAIN Keys : Keys[t] \subseteq Columns[t]
    /\ \A t \in DOMAIN Keys : \A c \in Keys[t] \cap DOMAIN Target :
         t = "pilot_secret" /\ c \in References(t)
    /\ \A t, c : <<t, c>> \in NotNull => t \in {"pilot", "forecast_jobs", "pilot_secret"}
    /\ References("pilot_secret") = {"id_pilot"}
<1>1. \A t \in DOMAIN Keys : t \in {"owners", "pilot", "pilot_secret", "forecast_jobs"}
  BY DEF Keys
<1>2. /\ Keys["owners"] = {"user"} /\ Keys["pilot"] = {"name"}
      /\ Keys["pilot_secret"] = {"id_pilot", "name"}
      /\ Keys["forecast_jobs"] = {"job_id"}
  BY DEF Keys
<1>3. /\ Columns["owners"] = {"user", "role", "token"}
      /\ Columns["pilot"] = {"name", "id_owner"}
      /\ Columns["pilot_secret"] = {"name", "id_pilot"}
      /\ Columns["forecast_jobs"] = {"job_id", "id_pilot"}
  BY DEF Columns
<1>4. /\ DOMAIN Target = {"id_owner", "id_pilot", "id_charger", "id_cs", "id_action"}
      /\ \A c \in DOMAIN Target : Target[c] # "pilot_secret"
  BY DEF Target
<1> QED
  BY <1>1, <1>2, <1>3, <1>4 DEF References, NotNull

LEMMA DeletedIsLeft ==
    ASSUME NEW store, IsStore(store), NEW n
    PROVE  Deleted(store, n) = Committed(store, Left(store, n))
<1>1. \A j \in DOMAIN store :
        [store[j] EXCEPT !.cols = Unset(store[j].cols, n)]
          = Row(store[j].table, Unset(store[j].cols, n))
  BY DEF IsStore, RowType, Row
<1> QED
  BY <1>1 DEF Deleted, Left, Gone, Unset

LEMMA LeftRows ==
    ASSUME NEW store, IsStore(store), NEW n
    PROVE  /\ DOMAIN Left(store, n) = DOMAIN store \ Gone(store, n)
           /\ \A j \in DOMAIN Left(store, n) :
                /\ RowType(Left(store, n), j)
                /\ Left(store, n)[j].table = store[j].table
                /\ Left(store, n)[j].cols = Unset(store[j].cols, n)
  BY DEF Left, IsStore, RowType, Row, Unset

\* Only references to n change.
LEMMA UnsetColumns ==
    ASSUME NEW cols, NEW n, NEW c \in DOMAIN cols
    PROVE  /\ c \in DOMAIN Target /\ cols[c] = n => Unset(cols, n)[c] = Null
           /\ ~(c \in DOMAIN Target /\ cols[c] = n) => Unset(cols, n)[c] = cols[c]
  BY DEF Unset

\* What is deleted with row n is the secrets of the pilot n.
LEMMA GoneRows ==
    ASSUME NEW store, NEW n, NEW i \in Gone(store, n), i # n
    PROVE  store[i].table = "pilot_secret" /\ store[i].cols.id_pilot = n
<1>1. store[i].table = "pilot_secret" /\ Refer(store, i, n)
  BY DEF Gone, Cascaded
<1> QED
  BY <1>1, Schema DEF Refer

LEMMA DeletedIsStore ==
    ASSUME NEW store, IsStore(store), NEW n
    PROVE  /\ IsStore(Deleted(store, n))
           /\ DOMAIN Deleted(store, n) \subseteq DOMAIN store
           /\ DOMAIN store \ DOMAIN Deleted(store, n) \subseteq Gone(store, n)
           /\ \A i \in DOMAIN Deleted(store, n) :
                Deleted(store, n)[i].table = store[i].table
           /\ \A i \in DOMAIN Deleted(store, n) :
                \A c \in DOMAIN store[i].cols \ DOMAIN Target :
                   Deleted(store, n)[i].cols[c] = store[i].cols[c]
<1> DEFINE left == Left(store, n)
<1>1. Deleted(store, n) = left \/ Deleted(store, n) = store
  BY DeletedIsLeft DEF Committed
<1>2. IsStore(Deleted(store, n))
  <2>1. \A i \in DOMAIN left : RowType(left, i)
    BY LeftRows
  <2> QED
    BY <2>1, DeletedIsLeft, CommittedIsStore
<1>3. DOMAIN left = DOMAIN store \ Gone(store, n)
  BY LeftRows
<1>4. \A i \in DOMAIN left : \A c \in DOMAIN store[i].cols \ DOMAIN Target :
        left[i].cols[c] = store[i].cols[c]
  <2>1. \A i \in DOMAIN left : left[i].cols = Unset(store[i].cols, n)
    BY LeftRows
  <2> QED
    BY <2>1, UnsetColumns
<1>5. \A i \in DOMAIN left : left[i].table = store[i].table
  BY LeftRows
<1> HIDE DEF left
<1> QED
  BY <1>1, <1>2, <1>3, <1>4, <1>5

\* A reference to n that is NOT NULL and does not cascade.
Blocked(store, n) ==
    \E j \in DOMAIN store :
        Refer(store, j, n) /\ store[j].table \in {"pilot", "forecast_jobs"}

\* Nothing blocks the deletion of row n: the constraints hold without it.
LEMMA LeftIsStore ==
    ASSUME NEW store, IsStore(store), NEW n, ~Blocked(store, n)
    PROVE  RefersToRows(Left(store, n)) /\ KeysAreUnique(Left(store, n))
<1> DEFINE left == Left(store, n)
<1>1. /\ DOMAIN left = DOMAIN store \ Gone(store, n)
      /\ \A j \in DOMAIN left : left[j].table = store[j].table
      /\ \A j \in DOMAIN left : left[j].cols = Unset(store[j].cols, n)
  <2>1. DOMAIN left = DOMAIN store \ Gone(store, n)
    BY LeftRows
  <2>2. \A j \in DOMAIN left : left[j].table = store[j].table
    BY LeftRows
  <2>3. \A j \in DOMAIN left : left[j].cols = Unset(store[j].cols, n)
    BY LeftRows
  <2> QED
    BY <2>1, <2>2, <2>3
<1>2. \A j \in DOMAIN left : /\ j \in DOMAIN store
                             /\ DOMAIN store[j].cols = Columns[store[j].table]
                             /\ store[j].table = "pilot_secret" => ~Refer(store, j, n)
  BY <1>1 DEF IsStore, RowType, Gone, Cascaded
<1> HIDE DEF left
<1>3. RefersToRows(left)
  <2> SUFFICES ASSUME NEW j \in DOMAIN left, NEW c \in References(store[j].table)
               PROVE  \/ left[j].cols[c] \in Rows(left, Target[c])
                      \/ left[j].cols[c] = Null /\ <<store[j].table, c>> \notin NotNull
    BY <1>1 DEF RefersToRows
  <2>1. /\ c \in DOMAIN store[j].cols /\ c \in DOMAIN Target
        /\ Target[c] # "pilot_secret"
    BY <1>2, Schema
  <2>2. \/ store[j].cols[c] \in Rows(store, Target[c])
        \/ store[j].cols[c] = Null /\ <<store[j].table, c>> \notin NotNull
    BY <1>2 DEF IsStore, RefersToRows
  <2>3. CASE store[j].cols[c] = n
    <3>1. Refer(store, j, n)
      BY <2>3 DEF Refer
    <3>2. store[j].table \notin {"pilot", "forecast_jobs", "pilot_secret"}
      BY <1>2, <3>1 DEF Blocked
    <3>3. <<store[j].table, c>> \notin NotNull
      BY <3>2, Schema
    <3> QED
      BY <1>1, <2>1, <2>3, <3>3, UnsetColumns
  <2>4. CASE store[j].cols[c] # n
    <3>1. left[j].cols[c] = store[j].cols[c]
      BY <1>1, <2>1, <2>4, UnsetColumns
    <3>2. ASSUME NEW i \in Rows(store, Target[c]), i # n
          PROVE  i \in Rows(left, Target[c])
      <4>1. store[i].table = Target[c] /\ i \in DOMAIN store
        BY <3>2 DEF Rows
      <4>2. i \notin Gone(store, n)
        BY <2>1, <3>2, <4>1, GoneRows
      <4> QED
        BY <1>1, <4>1, <4>2 DEF Rows
    <3> QED
      BY <2>2, <2>4, <3>1, <3>2
  <2> QED
    BY <2>3, <2>4
<1>4. KeysAreUnique(left)
  <2> SUFFICES ASSUME NEW i \in DOMAIN left, NEW j \in DOMAIN left, i # j,
                      store[i].table = store[j].table, store[i].table \in DOMAIN Keys
               PROVE  \E c \in Keys[store[i].table] : left[i].cols[c] # left[j].cols[c]
    BY <1>1 DEF KeysAreUnique
  <2>1. PICK c \in Keys[store[i].table] : store[i].cols[c] # store[j].cols[c]
    BY <1>2 DEF IsStore, KeysAreUnique
  <2>2. c \in DOMAIN store[i].cols /\ c \in DOMAIN store[j].cols
    BY <1>2, Schema
  <2>3. c \in DOMAIN Target => /\ store[i].table = "pilot_secret"
                               /\ c \in References(store[i].table)
    BY Schema
  <2>4. c \in DOMAIN Target => store[i].cols[c] # n /\ store[j].cols[c] # n
    BY <1>2, <2>3 DEF Refer
  <2>5. /\ left[i].cols[c] = store[i].cols[c]
        /\ left[j].cols[c] = store[j].cols[c]
    BY <1>1, <2>2, <2>4, UnsetColumns
  <2> QED
    BY <2>1, <2>5
<1> QED
  BY <1>3, <1>4 DEF left

-----------------------------------------------------------------------------
(***************************************************************************)
(* The writes that the endpoints prepare.                                  *)
(***************************************************************************)
NewIds(w) ==
    \E n \in {1, 2} :
        /\ DOMAIN w.rows = (made + 1) .. (made + n)
        /\ \A i \in DOMAIN w.rows : RowType(w.rows, i)

Checked(who, w) ==
    /\ w.op \in {"insert", "update", "delete"}
    /\ SetsNoRole(who, w)
    /\ w.op = "insert" => NewIds(w)

NewOwnersAreOut(w) ==
    w.op = "insert" =>
        \A i \in DOMAIN w.rows : w.rows[i].table = "owners" => w.rows[i].cols.token = Null

\* What no login and no logout prepares: it sets no token, and a new owner has none.
LeavesTokens(w) ==
    /\ w.op = "update" => "token" \notin DOMAIN w.set
    /\ NewOwnersAreOut(w)

Prepared(who, w) == Checked(who, w) /\ LeavesTokens(w)

LEMMA NewIsPrepared ==
    ASSUME made \in Nat, NEW who, NEW t \in DOMAIN Columns,
           NEW cols, DOMAIN cols = Columns[t], t = "owners" => cols.token = Null
    PROVE  Prepared(who, New(t, cols))
<1>1. /\ New(t, cols).op = "insert"
      /\ New(t, cols).rows = [i \in {made + 1} |-> Row(t, cols)]
  BY DEF New, Insert
<1>2. {made + 1} = (made + 1) .. (made + 1)
  OBVIOUS
<1> QED
  BY <1>1, <1>2 DEF Prepared, Checked, LeavesTokens, NewOwnersAreOut, SetsNoRole, NewIds,
     RowType, Row

LEMMA UpdateIsPrepared ==
    ASSUME NEW who, NEW i, NEW set, "role" \in DOMAIN set => IsAdmin(who)
    PROVE  /\ Checked(who, Update(i, set))
           /\ "token" \notin DOMAIN set => Prepared(who, Update(i, set))
  BY DEF Prepared, Checked, LeavesTokens, NewOwnersAreOut, SetsNoRole, Update

LEMMA SettingIsPrepared ==
    ASSUME NEW who, NEW i, NEW c, NEW V, c = "role" => IsAdmin(who), c # "token",
           NEW w \in Setting(i, c, V)
    PROVE  Prepared(who, w)
<1> PICK v \in V : w = Update(i, Only(c, v))
  BY DEF Setting
<1>1. DOMAIN Only(c, v) = {c}
  BY DEF Only
<1> QED
  BY <1>1, UpdateIsPrepared

LEMMA DeleteIsPrepared ==
    ASSUME NEW who, NEW i
    PROVE  Prepared(who, Delete(i))
  BY DEF Prepared, Checked, LeavesTokens, NewOwnersAreOut, SetsNoRole, Delete

LEMMA AdminIsPrepared ==
    ASSUME made \in Nat, NEW who,
           NEW t \in DOMAIN Columns, NEW c, Columns[t] = {c}, c \notin {"role", "token"},
           t # "owners",
           NEW w \in AdminWrites(who, t, c)
    PROVE  Prepared(who, w)
<1>1. CASE \E v \in Optional(db, c) : w = New(t, Only(c, v))
  <2>1. \A v : DOMAIN Only(c, v) = {c}
    BY DEF Only
  <2> QED
    BY <1>1, <2>1, NewIsPrepared
<1>2. CASE w \in Deletes(t)
  BY <1>2, DeleteIsPrepared DEF Deletes
<1>3. CASE \E i \in Rows(db, t) : w \in Setting(i, c, Optional(db, c))
  BY <1>3, SettingIsPrepared
<1> QED
  BY <1>1, <1>2, <1>3 DEF AdminWrites

LEMMA NewRowsArePrepared ==
    ASSUME made \in Nat, NEW who, NEW x, NEW y
    PROVE  /\ Prepared(who, NewOwner(x, y)) /\ Prepared(who, NewCharger(x, y))
           /\ Prepared(who, NewSecret(x, y)) /\ Prepared(who, NewJob(x, y))
           /\ Prepared(who, NewPilot(x, y))
<1>1. /\ Prepared(who, NewOwner(x, y)) /\ Prepared(who, NewCharger(x, y))
      /\ Prepared(who, NewSecret(x, y)) /\ Prepared(who, NewJob(x, y))
  BY NewIsPrepared DEF NewOwner, NewCharger, NewSecret, NewJob, Columns
<1>2. Prepared(who, NewPilot(x, y))
  <2> DEFINE w == NewPilot(x, y)
  <2>1. {made + 1, made + 2} = (made + 1) .. (made + 2)
    OBVIOUS
  <2>2. /\ w.op = "insert" /\ DOMAIN w.rows = {made + 1, made + 2}
        /\ w.rows[made + 1] = Row("pilot", [name |-> x, id_owner |-> y])
        /\ w.rows[made + 2] = Row("forecast_jobs",
                                  [job_id |-> made + 1, id_pilot |-> made + 1])
    BY DEF NewPilot, Insert
  <2>3. RowType(w.rows, made + 1) /\ RowType(w.rows, made + 2)
    BY <2>2 DEF RowType, Row, Columns
  <2>4. \A i \in DOMAIN w.rows : w.rows[i].table # "owners"
    BY <2>2 DEF Row
  <2> QED
    BY <2>1, <2>2, <2>3, <2>4 DEF Prepared, Checked, LeavesTokens, NewOwnersAreOut, SetsNoRole,
       NewIds
<1> QED
  BY <1>1, <1>2

LEMMA OwnerIsPrepared ==
    ASSUME made \in Nat, NEW who, NEW w \in OwnerWrites(who)
    PROVE  Prepared(who, w)
<1>1. \/ \E n, ro : w = NewOwner(n, ro)
      \/ w \in Deletes("owners")
      \/ IsAdmin(who) /\ \E i \in Rows(db, "owners") : w \in Setting(i, "role", Roles)
      \/ \E i \in Rows(db, "owners") : w \in Setting(i, "user", Names)
  BY DEF OwnerWrites
<1> QED
  BY <1>1, NewRowsArePrepared, DeleteIsPrepared, SettingIsPrepared DEF Deletes

LEMMA ChargerIsPrepared ==
    ASSUME made \in Nat, NEW who, NEW w \in ChargerWrites(who)
    PROVE  Prepared(who, w)
<1> DEFINE Of(i) == Setting(i, "id_owner", Optional(db, "id_owner"))
                    \cup Setting(i, "id_pilot", Optional(db, "id_pilot"))
                    \cup {Delete(i)}
           C == {d \in Rows(db, "chargers") : MayUseCharger(db, who, d, FALSE)}
           O == Optional(db, "id_owner")
           P == {q \in Optional(db, "id_pilot") :
                    /\ who.role # "guest"
                    /\ IsUser(who) => q # Null /\ MayUsePilot(db, who, q)}
           added == {NewCharger(o, p) : o \in O, p \in P}
           changed == UNION {Of(i) : i \in C}
<1>1. CASE w \in added
  <2> HIDE DEF O, P
  <2> QED
    BY <1>1, NewRowsArePrepared
<1>2. CASE w \in changed
  <2>1. PICK i \in C : w \in Of(i)
    BY <1>2, Zenon
  <2> QED
    BY <2>1, DeleteIsPrepared, SettingIsPrepared
<1>3. ChargerWrites(who) = added \cup changed
  BY DEF ChargerWrites
<1> HIDE DEF added, changed
<1> QED
  BY <1>1, <1>2, <1>3

LEMMA PilotIsPrepared ==
    ASSUME made \in Nat, NEW who, NEW w \in PilotWrites(who)
    PROVE  Prepared(who, w)
<1> DEFINE Of(i) == Setting(i, "id_owner", Rows(db, "owners"))
                    \cup Setting(i, "name", Names) \cup {Delete(i)}
           P == {q \in Rows(db, "pilot") : MayUsePilot(db, who, q)}
<1>1. CASE \E n, o : w = NewPilot(n, o)
  BY <1>1, NewRowsArePrepared
<1>2. CASE w \in UNION {Of(i) : i \in P}
  <2>1. PICK i \in P : w \in Of(i)
    BY <1>2, Zenon
  <2> QED
    BY <2>1, DeleteIsPrepared, SettingIsPrepared
<1> QED
  BY <1>1, <1>2 DEF PilotWrites

LEMMA SecretIsPrepared ==
    ASSUME made \in Nat, NEW who, NEW w \in SecretWrites(who)
    PROVE  Prepared(who, w)
<1>1. \/ \E i, n : w = Update(i, [name |-> n])
      \/ \E n, p : w = NewSecret(n, p)
      \/ \E i : w = Delete(i)
  BY DEF SecretWrites
<1> QED
  BY <1>1, NewRowsArePrepared, UpdateIsPrepared, DeleteIsPrepared

LEMMA JobIsPrepared ==
    ASSUME made \in Nat, NEW who, NEW w \in JobWrites(who)
    PROVE  Prepared(who, w)
<1> DEFINE Free == {0} \ {db[k].cols.job_id : k \in Rows(db, "forecast_jobs")}
<1>1. \/ \E n, p : w = NewJob(n, p)
      \/ w \in Deletes("forecast_jobs")
      \/ \E i \in Rows(db, "forecast_jobs") : w \in Setting(i, "job_id", Free)
  BY DEF JobWrites
<1> QED
  BY <1>1, NewRowsArePrepared, DeleteIsPrepared, SettingIsPrepared DEF Deletes

LEMMA WritesArePrepared ==
    ASSUME made \in Nat, NEW who, NEW w \in Writes(who)
    PROVE  Prepared(who, w)
<1>1. /\ Columns["charging_sessions"] = {"id_charger"}
      /\ Columns["ev_duration_cdf"] = {"id_charger"}
      /\ Columns["ev_forecast_stats"] = {"id_charger"}
      /\ Columns["actions"] = {"id_cs"}
      /\ Columns["grid_load_forecasted"] = {"id_action"}
      /\ {"charging_sessions", "ev_duration_cdf", "ev_forecast_stats", "actions",
          "grid_load_forecasted"} \subseteq DOMAIN Columns
  BY DEF Columns
<1>2. CASE w \in SessionWrites(who) \cup ActionWrites(who) \cup DurationWrites(who)
                 \cup StatsWrites(who) \cup GridLoadWrites(who)
  BY <1>1, <1>2, AdminIsPrepared
     DEF SessionWrites, ActionWrites, DurationWrites, StatsWrites, GridLoadWrites
<1> QED
  BY <1>2, OwnerIsPrepared, ChargerIsPrepared, PilotIsPrepared, SecretIsPrepared,
     JobIsPrepared DEF Writes

-----------------------------------------------------------------------------
(***************************************************************************)
(* The invariant.                                                          *)
(***************************************************************************)
LEMMA InitOK == Init => IInv
<1> SUFFICES ASSUME Init PROVE IInv
  OBVIOUS
<1>1. PICK n \in 0 .. MaxRows : DOMAIN db = 1 .. n
  BY SeedsAreStores DEF Init
<1>2. made \in 0 .. MaxRows /\ DOMAIN db = 1 .. made
  BY <1>1 DEF Init
<1>3. /\ \A i \in DOMAIN db : RowType(db, i)
      /\ RefersToRows(db) /\ KeysAreUnique(db)
  BY SeedsAreStores DEF Init
<1>4. /\ accepted \in 0 .. MaxRequests
      /\ DOMAIN req = Requests /\ \A r \in Requests : req[r].pc = "idle"
  BY BoundsAreNat DEF Init, Idle
<1> QED
  BY <1>2, <1>3, <1>4 DEF IInv, TypeOK, WritesOK, IdsAreFresh, Inserts

LEMMA PreparedIds ==
    ASSUME made \in Nat, NEW who, NEW w, Checked(who, w), w.op = "insert"
    PROVE  /\ DOMAIN w.rows = (made + 1) .. (made + Cardinality(DOMAIN w.rows))
           /\ Cardinality(DOMAIN w.rows) \in {1, 2}
           /\ \A i \in DOMAIN w.rows : RowType(w.rows, i)
<1>1. PICK n \in {1, 2} : DOMAIN w.rows = (made + 1) .. (made + n)
  BY DEF Checked, NewIds
<1> DEFINE a == made + 1
           b == made + n
<1>2. a \in Int /\ b \in Int /\ a <= b /\ b - a + 1 = n
  OBVIOUS
<1>3. Cardinality(a .. b) = n
  <2> HIDE DEF a, b
  <2>1. Cardinality(a .. b) = IF a > b THEN 0 ELSE b - a + 1
    BY <1>2, FS_Interval
  <2> QED
    BY <1>2, <2>1
<1> QED
  BY <1>1, <1>3 DEF Checked, NewIds

\* A request that passed its checks waits for its commit.
LEMMA BeginOK ==
    ASSUME IInv, NEW r \in Requests, NEW who, NEW w, Checked(who, w),
           Begin(r, who, w), UNCHANGED db, accepted' \in 0 .. MaxRequests,
           w.op = "insert" => \A i \in DOMAIN w.rows : i <= MaxRows
    PROVE  IInv'
<1>1. made \in Nat /\ made <= MaxRows /\ MaxRows \in Nat
  BY BoundsAreNat DEF IInv, TypeOK
<1>2. /\ DOMAIN req' = Requests
      /\ req'[r] = [pc |-> "write", who |-> who, write |-> w]
      /\ \A q \in Requests : q # r => req'[q] = req[q]
  <2>1. req' = [req EXCEPT ![r] = [pc |-> "write", who |-> who, write |-> w]]
    BY DEF Begin
  <2>2. DOMAIN req = Requests
    BY DEF IInv
  <2> QED
    BY <2>1, <2>2
<1>3. /\ made' \in made .. MaxRows
      /\ w.op = "insert" => DOMAIN w.rows = (made + 1) .. made'
      /\ w.op = "insert" => \A i \in DOMAIN w.rows : RowType(w.rows, i)
  <2>1. CASE w.op = "insert"
    <3> DEFINE n == Cardinality(DOMAIN w.rows)
    <3>1. /\ DOMAIN w.rows = (made + 1) .. (made + n) /\ n \in {1, 2}
          /\ \A i \in DOMAIN w.rows : RowType(w.rows, i)
      BY <1>1, <2>1, PreparedIds
    <3>2. made' = made + n
      BY <2>1 DEF Begin
    <3> HIDE DEF n
    <3>3. made + n \in DOMAIN w.rows
      BY <1>1, <3>1
    <3>4. made + n <= MaxRows
      BY <2>1, <3>3
    <3> QED
      BY <1>1, <3>1, <3>2, <3>4
  <2>2. CASE w.op # "insert"
    BY <1>1, <2>2 DEF Begin
  <2> QED
    BY <2>1, <2>2
<1>4. TypeOK'
  BY <1>1, <1>2, <1>3 DEF IInv, TypeOK, RowType, Rows, RefersToRows, KeysAreUnique
<1>5. WritesOK'
  <2> SUFFICES ASSUME NEW q \in Requests, req'[q].pc = "write" PROVE WriteOK(q)'
    BY DEF WritesOK
  <2>1. CASE q = r
    <3>1. DOMAIN db \subseteq 1 .. made
      BY DEF IInv, TypeOK
    <3>2. req'[q].who = who /\ req'[q].write = w
      BY <1>2, <2>1
    <3>3. w.op = "insert" => DOMAIN w.rows \subseteq (1 .. made') \ DOMAIN db'
      BY <1>1, <1>3, <3>1
    <3>4. w.op \in {"insert", "update", "delete"} /\ SetsNoRole(who, w)
      BY DEF Checked
    <3> QED
      BY <1>3, <3>2, <3>3, <3>4 DEF WriteOK, SetsNoRole, IsAdmin, RowType
  <2>2. CASE q # r
    <3>1. WriteOK(q) /\ req'[q] = req[q]
      BY <1>2, <2>2 DEF IInv, WritesOK
    <3> QED
      BY <1>1, <1>3, <3>1 DEF WriteOK, SetsNoRole, IsAdmin
  <2> QED
    BY <2>1, <2>2
<1>6. IdsAreFresh'
  <2> SUFFICES ASSUME NEW p \in Requests, NEW q \in Requests, p # q,
                      Inserts(p)', Inserts(q)'
               PROVE  DOMAIN req'[p].write.rows \cap DOMAIN req'[q].write.rows = {}
    BY DEF IdsAreFresh
  <2>1. \A o \in Requests : o # r /\ Inserts(o)' =>
          /\ Inserts(o) /\ req'[o] = req[o]
          /\ DOMAIN req[o].write.rows \subseteq 1 .. made
    BY <1>2 DEF Inserts, IInv, WritesOK, WriteOK
  <2>2. Inserts(r)' => DOMAIN req'[r].write.rows = (made + 1) .. made'
    BY <1>2, <1>3 DEF Inserts
  <2>3. CASE p # r /\ q # r
    BY <2>1, <2>3 DEF IInv, IdsAreFresh
  <2>4. CASE p = r \/ q = r
    BY <1>1, <1>3, <2>1, <2>2, <2>4
  <2> QED
    BY <2>3, <2>4
<1> QED
  BY <1>2, <1>4, <1>5, <1>6 DEF IInv

\* A login writes a token that it issues, or that one before it was given.
LEMMA LoginWrites ==
    ASSUME NEW r \in Requests, Login(r)
    PROVE  \E o, t, who :
              /\ Begin(r, who, Update(o, [token |-> t]))
              /\ \/ /\ t = Len(claims) + 1 /\ claims' = Append(claims, who)
                    /\ UNCHANGED again
                 \/ /\ t \in DOMAIN claims /\ again' = again \cup {t}
                    /\ UNCHANGED claims
              /\ Accept /\ UNCHANGED <<db, ended>>
<1>1. PICK o \in Rows(db, "owners") :
        /\ Accept /\ UNCHANGED <<db, ended>>
        /\ LET who == [owner_id |-> o, user |-> db[o].cols.user, role |-> db[o].cols.role]
           IN  \/ /\ claims' = Append(claims, who)
                  /\ Begin(r, who, Update(o, [token |-> Len(claims) + 1]))
                  /\ UNCHANGED again
               \/ \E t \in LastWith(who) :
                     /\ Begin(r, who, Update(o, [token |-> t]))
                     /\ again' = again \cup {t}
                     /\ UNCHANGED claims
  BY DEF Login
<1> DEFINE who == [owner_id |-> o, user |-> db[o].cols.user, role |-> db[o].cols.role]
<1>2. LastWith(who) \subseteq DOMAIN claims
  BY DEF LastWith
<1> HIDE DEF who
<1>3. CASE /\ claims' = Append(claims, who)
           /\ Begin(r, who, Update(o, [token |-> Len(claims) + 1]))
           /\ UNCHANGED again
  BY <1>1, <1>3
<1>4. CASE \E t \in LastWith(who) :
              /\ Begin(r, who, Update(o, [token |-> t]))
              /\ again' = again \cup {t}
              /\ UNCHANGED claims
  BY <1>1, <1>2, <1>4
<1> QED
  BY <1>1, <1>3, <1>4 DEF who

LEMMA LoginOK == ASSUME IInv, NEW r \in Requests, Login(r) PROVE IInv'
<1>1. PICK o, t, who : /\ Begin(r, who, Update(o, [token |-> t]))
                       /\ Accept /\ UNCHANGED db
  BY LoginWrites
<1>2. accepted' \in 0 .. MaxRequests
  BY <1>1, BoundsAreNat DEF Accept, IInv, TypeOK
<1>3. Checked(who, Update(o, [token |-> t])) /\ Update(o, [token |-> t]).op = "update"
  BY UpdateIsPrepared DEF Update
<1> QED
  BY <1>1, <1>2, <1>3, BeginOK

LEMMA SignupOK == ASSUME IInv, NEW r \in Requests, Signup(r) PROVE IInv'
<1> PICK n \in Names :
       /\ Accept /\ UNCHANGED db /\ made < MaxRows
       /\ Begin(r, [owner_id |-> Null, user |-> n, role |-> "guest"],
                NewOwner(n, "guest"))
  BY DEF Signup
<1>1. accepted' \in 0 .. MaxRequests /\ made \in Nat
  BY BoundsAreNat DEF Accept, IInv, TypeOK
<1>2. \A i \in DOMAIN NewOwner(n, "guest").rows : i <= MaxRows
  BY <1>1, BoundsAreNat DEF NewOwner, New, Insert
<1> QED
  BY <1>1, <1>2, BeginOK, NewRowsArePrepared DEF Prepared

LEMMA LogoutOK == ASSUME IInv, NEW r \in Requests, Logout(r) PROVE IInv'
<1> PICK o \in Named(req[r].who.user) :
       /\ Begin(r, req[r].who, Update(o, [token |-> Null]))
       /\ UNCHANGED <<db, accepted>>
  BY DEF Logout
<1> QED
  BY BeginOK, UpdateIsPrepared DEF Update, IInv, TypeOK

LEMMA HandleOK == ASSUME IInv, NEW r \in Requests, Handle(r) PROVE IInv'
<1> PICK w \in Writes(req[r].who) :
       /\ w.op = "insert" => \A i \in DOMAIN w.rows : i <= MaxRows
       /\ Begin(r, req[r].who, w) /\ UNCHANGED <<db, accepted>>
  BY DEF Handle
<1>1. made \in Nat /\ accepted' \in 0 .. MaxRequests
  BY DEF IInv, TypeOK
<1> QED
  BY <1>1, BeginOK, WritesArePrepared DEF Prepared

\* A step that leaves the store and r without a write.
LEMMA RestOK ==
    ASSUME IInv, NEW r \in Requests, DOMAIN req' = Requests,
           req'[r].pc \in {"idle", "handle"},
           \A q \in Requests : q # r => req'[q] = req[q],
           UNCHANGED <<db, made>>, accepted' \in 0 .. MaxRequests
    PROVE  IInv'
<1>1. TypeOK'
  BY DEF IInv, TypeOK, RowType, Rows, RefersToRows, KeysAreUnique
<1>2. WritesOK' /\ IdsAreFresh'
  BY DEF IInv, WritesOK, WriteOK, SetsNoRole, IdsAreFresh, Inserts, RowType, IsAdmin
<1> QED
  BY <1>1, <1>2 DEF IInv

LEMMA AuthenticateOK == ASSUME IInv, NEW r \in Requests, Authenticate(r) PROVE IInv'
<1>1. accepted' \in 0 .. MaxRequests /\ UNCHANGED <<db, made>>
  BY BoundsAreNat DEF Authenticate, Accept, IInv, TypeOK
<1>2. /\ DOMAIN req' = Requests /\ req'[r].pc = "handle"
      /\ \A q \in Requests : q # r => req'[q] = req[q]
  BY DEF Authenticate, IInv
<1> QED
  BY <1>1, <1>2, RestOK

LEMMA AnswerOK == ASSUME IInv, NEW r \in Requests, Answer(r) PROVE IInv'
<1>1. accepted' \in 0 .. MaxRequests /\ UNCHANGED <<db, made>>
  BY DEF Answer, IInv, TypeOK
<1>2. /\ DOMAIN req' = Requests /\ req'[r].pc = "idle"
      /\ \A q \in Requests : q # r => req'[q] = req[q]
  BY DEF Answer, IInv, Idle
<1> QED
  BY <1>1, <1>2, RestOK

\* The store stays one, and ids that are waited for stay free.
LEMMA CommitOK == ASSUME IInv, NEW r \in Requests, Commit(r) PROVE IInv'
<1> DEFINE w == req[r].write
<1>1. /\ DOMAIN req' = Requests /\ req'[r].pc = "idle" /\ req[r].pc = "write"
      /\ \A q \in Requests : q # r => req'[q] = req[q]
      /\ made' = made /\ accepted' = accepted
  BY DEF IInv, Commit, Idle
<1>2. IsStore(db) /\ DOMAIN db \subseteq 1 .. made
  BY DEF IInv, TypeOK, IsStore
<1>3. WriteOK(r)
  BY <1>1 DEF IInv, WritesOK
<1>4. /\ IsStore(db') /\ DOMAIN db' \subseteq 1 .. made
      /\ \A q \in Requests : q # r /\ Inserts(q) =>
           DOMAIN req[q].write.rows \cap DOMAIN db' = {}
  <2>1. \A q \in Requests : Inserts(q) => DOMAIN req[q].write.rows \cap DOMAIN db = {}
    BY DEF IInv, WritesOK, WriteOK, Inserts
  <2>2. CASE w.op = "insert"
    <3>1. db' = Inserted(db, w.rows)
      BY <2>2 DEF Commit
    <3>2. /\ DOMAIN w.rows \subseteq 1 .. made
          /\ \A i \in DOMAIN w.rows : RowType(w.rows, i)
      BY <1>3, <2>2 DEF WriteOK
    <3>3. IsStore(db') /\ DOMAIN db' \subseteq DOMAIN db \cup DOMAIN w.rows
      BY <1>2, <3>1, <3>2, InsertedIsStore
    <3>4. \A q \in Requests : q # r /\ Inserts(q) =>
            DOMAIN req[q].write.rows \cap DOMAIN w.rows = {}
      BY <1>1, <2>2 DEF IInv, IdsAreFresh, Inserts
    <3> QED
      BY <1>2, <2>1, <3>2, <3>3, <3>4
  <2>3. CASE w.op = "update"
    <3>1. db' = Updated(db, w.row, w.seen, w.set)
      BY <2>3 DEF Commit
    <3>2. IsStore(db') /\ DOMAIN db' = DOMAIN db
      BY <1>2, <3>1, UpdatedIsStore
    <3> QED
      BY <1>2, <2>1, <3>2
  <2>4. CASE w.op = "delete"
    <3>1. db' = Deleted(db, w.row)
      BY <2>4 DEF Commit
    <3>2. IsStore(db') /\ DOMAIN db' \subseteq DOMAIN db
      BY <1>2, <3>1, DeletedIsStore
    <3> QED
      BY <1>2, <2>1, <3>2
  <2> QED
    BY <1>3, <2>2, <2>3, <2>4 DEF WriteOK
<1>5. TypeOK'
  BY <1>1, <1>4 DEF IInv, TypeOK, IsStore, RowType, Rows, RefersToRows, KeysAreUnique
<1>6. WritesOK' /\ IdsAreFresh'
  <2>1. \A q \in Requests : Inserts(q)' => q # r /\ Inserts(q) /\ req'[q] = req[q]
    BY <1>1 DEF Inserts
  <2>2. ASSUME NEW q \in Requests, req'[q].pc = "write" PROVE WriteOK(q)'
    <3>1. q # r /\ req'[q] = req[q] /\ req[q].pc = "write" /\ WriteOK(q)
      BY <1>1, <2>2 DEF IInv, WritesOK
    <3>2. req[q].write.op = "insert" =>
            DOMAIN req[q].write.rows \subseteq (1 .. made) \ DOMAIN db'
      BY <1>1, <1>4, <3>1 DEF WriteOK, Inserts
    <3> QED
      BY <1>1, <3>1, <3>2 DEF WriteOK, SetsNoRole, IsAdmin, RowType
  <2> QED
    BY <2>1, <2>2 DEF WritesOK, IdsAreFresh, IInv
<1> QED
  BY <1>1, <1>5, <1>6 DEF IInv

LEMMA StutterOK == ASSUME IInv, UNCHANGED vars PROVE IInv'
  BY DEF vars, IInv, TypeOK, RowType, Rows, RefersToRows, KeysAreUnique, WritesOK,
         WriteOK, SetsNoRole, IdsAreFresh, Inserts, IsAdmin

LEMMA StepOK == IInv /\ [Next]_vars => IInv'
  BY StutterOK, LoginOK, SignupOK, AuthenticateOK, LogoutOK, HandleOK, AnswerOK,
     CommitOK DEF Next

LEMMA Inductive == Spec => []IInv
  BY InitOK, StepOK, PTL DEF Spec

(***************************************************************************)
(* Types: rows keep their tables' columns, and the constraints of the      *)
(* database hold after every commit (create, update, delete endpoints).    *)
(***************************************************************************)
THEOREM TypeCorrect == Spec => []TypeOK
<1>1. IInv => TypeOK
  BY DEF IInv
<1> QED
  BY <1>1, Inductive, PTL

-----------------------------------------------------------------------------
(***************************************************************************)
(* Lists and single rows.  A reference that is not NULL names a row of its *)
(* table, and NULL is none: an inner join leaves what the checks allow.    *)
(***************************************************************************)
LEMMA ReferencesResolve ==
    ASSUME NEW store, IsStore(store), DOMAIN store \subseteq Nat
    PROVE  /\ \A i \in Rows(store, "chargers") :
                store[i].cols.id_pilot \in Rows(store, "pilot") \cup {Null}
           /\ \A i \in Rows(store, "charging_sessions") :
                store[i].cols.id_charger \in Rows(store, "chargers") \cup {Null}
           /\ \A i \in Rows(store, "actions") :
                store[i].cols.id_cs \in Rows(store, "charging_sessions") \cup {Null}
           /\ \A i \in Rows(store, "grid_load_forecasted") :
                store[i].cols.id_action \in Rows(store, "actions") \cup {Null}
           /\ \A t : Null \notin Rows(store, t)
<1>1. /\ "id_pilot" \in References("chargers") /\ Target["id_pilot"] = "pilot"
      /\ "id_charger" \in References("charging_sessions")
      /\ Target["id_charger"] = "chargers"
      /\ "id_cs" \in References("actions") /\ Target["id_cs"] = "charging_sessions"
      /\ "id_action" \in References("grid_load_forecasted")
      /\ Target["id_action"] = "actions"
  BY DEF References, Columns, Target
<1>2. ASSUME NEW i \in DOMAIN store, NEW c \in References(store[i].table)
      PROVE  store[i].cols[c] \in Rows(store, Target[c]) \cup {Null}
  BY DEF IsStore, RefersToRows
<1>3. \A t : Null \notin Rows(store, t)
  BY NullIsNoId DEF Rows
<1> QED
  BY <1>1, <1>2, <1>3 DEF Rows

LEMMA AccessAgrees ==
    ASSUME NEW store, IsStore(store), DOMAIN store \subseteq Nat, NEW who
    PROVE  /\ Shown(store, who) \subseteq Listed(store, who)
           /\ IsAdmin(who) \/ Listed(store, who) \subseteq Shown(store, who)
<1>1. ASSUME NEW byOwner \in BOOLEAN, NEW c \in Rows(store, "chargers")
      PROVE  MayUseCharger(store, who, c, byOwner) <=>
             c \in AccessibleChargers(store, who, byOwner)
  <2>1. store[c].cols.id_pilot \in Rows(store, "pilot") \cup {Null}
    BY ReferencesResolve
  <2>2. Null \notin Rows(store, "pilot")
    BY ReferencesResolve
  <2> QED
    BY <2>1, <2>2 DEF MayUseCharger, OwnsPilotOf, AccessibleChargers
<1>2. ASSUME NEW byOwner \in BOOLEAN, NEW s \in Rows(store, "charging_sessions")
      PROVE  /\ MayUseSession(store, who, s, byOwner) =>
                  s \in ListedSessions(store, who, byOwner)
             /\ s \in ListedSessions(store, who, byOwner) =>
                  IsAdmin(who) \/ MayUseSession(store, who, s, byOwner)
  <2>1. store[s].cols.id_charger \in Rows(store, "chargers") \cup {Null}
    BY ReferencesResolve
  <2>2. AccessibleChargers(store, who, byOwner) \subseteq Rows(store, "chargers")
    BY DEF AccessibleChargers
  <2>3. Null \notin Rows(store, "chargers")
    BY ReferencesResolve
  <2> QED
    BY <1>1, <2>1, <2>2, <2>3 DEF MayUseSession, ListedSessions
<1>3. ASSUME NEW byOwner \in BOOLEAN, NEW a \in Rows(store, "actions")
      PROVE  /\ store[a].cols.id_cs # Null
                /\ MayUseSession(store, who, store[a].cols.id_cs, byOwner) =>
                  a \in ListedActions(store, who, byOwner)
             /\ a \in ListedActions(store, who, byOwner) =>
                  \/ IsAdmin(who)
                  \/ /\ store[a].cols.id_cs # Null
                     /\ MayUseSession(store, who, store[a].cols.id_cs, byOwner)
  <2>1. store[a].cols.id_cs \in Rows(store, "charging_sessions") \cup {Null}
    BY ReferencesResolve
  <2>2. ListedSessions(store, who, byOwner) \subseteq Rows(store, "charging_sessions")
    BY DEF ListedSessions
  <2>3. Null \notin Rows(store, "charging_sessions")
    BY ReferencesResolve
  <2> QED
    BY <1>2, <2>1, <2>2, <2>3 DEF ListedActions
<1>4. ASSUME NEW g \in Rows(store, "grid_load_forecasted")
      PROVE  /\ MayUseGridLoad(store, who, g) => g \in ListedGridLoad(store, who)
             /\ g \in ListedGridLoad(store, who) =>
                  IsAdmin(who) \/ MayUseGridLoad(store, who, g)
  <2>1. store[g].cols.id_action \in Rows(store, "actions") \cup {Null}
    BY ReferencesResolve
  <2>2. ListedActions(store, who, FALSE) \subseteq Rows(store, "actions")
    BY DEF ListedActions
  <2>3. Null \notin Rows(store, "actions")
    BY ReferencesResolve
  <2>4. \A s : MayUseSession(store, who, s, FALSE) => IsAdmin(who) \/ IsUser(who)
    BY DEF MayUseSession, MayUseCharger
  <2>5. \A a \in ListedActions(store, who, FALSE) :
          \/ IsAdmin(who)
          \/ /\ store[a].cols.id_cs # Null
             /\ MayUseSession(store, who, store[a].cols.id_cs, FALSE)
    BY <1>3, <2>2
  <2>6. \A a \in Rows(store, "actions") :
          store[a].cols.id_cs # Null
          /\ MayUseSession(store, who, store[a].cols.id_cs, FALSE) =>
            a \in ListedActions(store, who, FALSE)
    BY <1>3
  <2> QED
    BY <2>1, <2>2, <2>3, <2>4, <2>5, <2>6 DEF MayUseGridLoad, ListedGridLoad
<1> QED
  BY <1>1, <1>2, <1>3, <1>4 DEF Shown, Listed, MayUseAction, AccessibleChargers,
     ListedSessions, ListedActions, ListedGridLoad

(***************************************************************************)
(* What a list shows and what a GET by id shows agree, for every token and *)
(* after any writes (authorization.py against the list endpoints).         *)
(***************************************************************************)
THEOREM ListsAgree == Spec => []ListAgreesWithGet
<1>1. IInv => ListAgreesWithGet
  <2> SUFFICES ASSUME IInv PROVE ListAgreesWithGet
    OBVIOUS
  <2>1. IsStore(db) /\ DOMAIN db \subseteq Nat
    BY DEF IInv, TypeOK, IsStore
  <2> QED
    BY <2>1, AccessAgrees DEF ListAgreesWithGet
<1> QED
  BY <1>1, Inductive, PTL

-----------------------------------------------------------------------------
(***************************************************************************)
(* What one step does to the store: only the commit of a request changes   *)
(* it, and that request ends in the step.                                  *)
(***************************************************************************)
LEMMA OnlyCommitsWrite ==
    ASSUME IInv, [Next]_vars
    PROVE  /\ \A r \in Requests : Ends(r) => Commit(r)
           /\ db' = db \/ \E r \in Requests : Commit(r) /\ Ends(r)
<1>1. CASE UNCHANGED vars
  BY <1>1 DEF vars, Ends
<1>2. ASSUME NEW q \in Requests, Commit(q)
      PROVE  Ends(q) /\ \A r \in Requests : Ends(r) => r = q
  BY <1>2 DEF Commit, Ends, Idle, IInv
<1>3. ASSUME NEW q \in Requests,
             \/ Login(q) \/ Signup(q) \/ Authenticate(q) \/ Logout(q)
             \/ Handle(q) \/ Answer(q)
      PROVE  db' = db /\ \A r \in Requests : ~Ends(r)
  <2>1. db' = db
    BY <1>3 DEF Login, Signup, Authenticate, Logout, Handle, Answer
  <2>2. req[q].pc # "write"
    BY <1>3 DEF Login, Signup, Authenticate, Logout, Handle, Answer
  <2>3. \A r \in Requests : r # q => req'[r] = req[r]
    BY <1>3 DEF Login, Signup, Authenticate, Logout, Handle, Answer, Begin, IInv
  <2> QED
    BY <2>1, <2>2, <2>3 DEF Ends
<1> QED
  BY <1>1, <1>2, <1>3 DEF Next

\* The effect of the commit of r, by the kind of its write.
LEMMA CommitEffect ==
    ASSUME IInv, NEW r \in Requests, Commit(r)
    PROVE  /\ req[r].write.op = "insert" =>
                \A i \in DOMAIN db : i \in DOMAIN db' /\ db'[i] = db[i]
           /\ \A i \in DOMAIN db \cap DOMAIN db' : db'[i].table = db[i].table
           /\ req[r].write.op = "update" =>
                /\ DOMAIN db' = DOMAIN db
                /\ \A i \in DOMAIN db : \A c \in DOMAIN db[i].cols :
                     db'[i].cols[c] # db[i].cols[c] =>
                        /\ i = req[r].write.row /\ c \in DOMAIN req[r].write.set
                        /\ db'[i].cols[c] = req[r].write.set[c]
           /\ req[r].write.op = "delete" =>
                /\ db' = Deleted(db, req[r].write.row)
                /\ DOMAIN db' \subseteq DOMAIN db
                /\ DOMAIN db \ DOMAIN db' \subseteq Gone(db, req[r].write.row)
                /\ \A i \in DOMAIN db' : \A c \in DOMAIN db[i].cols \ DOMAIN Target :
                     db'[i].cols[c] = db[i].cols[c]
           /\ req[r].write.op \in {"insert", "update", "delete"}
           /\ SetsNoRole(req[r].who, req[r].write)
<1> DEFINE w == req[r].write
<1>1. IsStore(db)
  BY DEF IInv, TypeOK, IsStore
<1>2. WriteOK(r)
  BY DEF Commit, IInv, WritesOK
<1>3. CASE w.op = "insert"
  <2>1. db' = Inserted(db, w.rows)
    BY <1>3 DEF Commit
  <2>2. /\ DOMAIN w.rows \cap DOMAIN db = {}
        /\ \A i \in DOMAIN w.rows : RowType(w.rows, i)
    BY <1>2, <1>3 DEF WriteOK
  <2>3. \A i \in DOMAIN db : /\ i \in DOMAIN db'
                             /\ i \notin DOMAIN w.rows => db'[i] = db[i]
    BY <1>1, <2>1, <2>2, InsertedIsStore
  <2> QED
    BY <1>2, <1>3, <2>2, <2>3 DEF WriteOK
<1>4. CASE w.op = "update"
  <2>1. db' = Updated(db, w.row, w.seen, w.set)
    BY <1>4 DEF Commit
  <2> QED
    BY <1>1, <1>2, <1>4, <2>1, UpdatedIsStore DEF WriteOK
<1>5. CASE w.op = "delete"
  <2>1. db' = Deleted(db, w.row)
    BY <1>5 DEF Commit
  <2> QED
    BY <1>1, <1>2, <1>5, <2>1, DeletedIsStore DEF WriteOK
<1> QED
  BY <1>2, <1>3, <1>4, <1>5 DEF WriteOK

(***************************************************************************)
(* A row disappears only when its own deletion commits, or, a secret, with *)
(* its pilot: the history of a charger or a session stays (models.py).     *)
(***************************************************************************)
THEOREM HistoryStays == Spec => HistoryIsKept
<1> DEFINE Kept ==
      \A i \in DOMAIN db \ DOMAIN db' :
          \E r \in Requests :
              /\ Ends(r) /\ req[r].write.op = "delete"
              /\ LET n == req[r].write.row
                 IN  i = n \/ (db[i].table = "pilot_secret" /\ db[i].cols.id_pilot = n)
<1>1. IInv /\ [Next]_vars => Kept
  <2> SUFFICES ASSUME IInv, [Next]_vars, NEW i \in DOMAIN db \ DOMAIN db'
               PROVE  \E r \in Requests :
                        /\ Ends(r) /\ req[r].write.op = "delete"
                        /\ \/ i = req[r].write.row
                           \/ /\ db[i].table = "pilot_secret"
                              /\ db[i].cols.id_pilot = req[r].write.row
    OBVIOUS
  <2>1. PICK r \in Requests : Commit(r) /\ Ends(r)
    BY OnlyCommitsWrite
  <2>2. req[r].write.op = "delete" /\ i \in Gone(db, req[r].write.row)
    BY <2>1, CommitEffect
  <2> QED
    BY <2>1, <2>2, GoneRows
<1> QED
  BY <1>1, Inductive, PTL DEF Spec, HistoryIsKept

(***************************************************************************)
(* A deletion removes its row unless a pilot or a forecast job refers to   *)
(* it, whatever other requests commit in between (the delete endpoints).   *)
(***************************************************************************)
THEOREM DeletesRemove == Spec => DeletesAreCarriedOut
<1> DEFINE Removed ==
      \A r \in Requests :
          (Ends(r) /\ req[r].write.op = "delete" /\ req[r].write.row \in DOMAIN db') =>
              \E j \in DOMAIN db :
                  /\ Refer(db, j, req[r].write.row)
                  /\ db[j].table \in {"pilot", "forecast_jobs"}
<1>1. IInv /\ [Next]_vars => Removed
  <2> SUFFICES ASSUME IInv, [Next]_vars, NEW r \in Requests, Ends(r),
                      req[r].write.op = "delete", ~Blocked(db, req[r].write.row)
               PROVE  req[r].write.row \notin DOMAIN db'
    BY DEF Blocked
  <2> DEFINE n == req[r].write.row
  <2>1. IsStore(db)
    BY DEF IInv, TypeOK, IsStore
  <2>2. Commit(r)
    BY OnlyCommitsWrite
  <2>3. db' = Deleted(db, n)
    BY <2>2, CommitEffect
  <2>4. Deleted(db, n) = Left(db, n)
    BY <2>1, DeletedIsLeft, LeftIsStore DEF Committed
  <2>5. DOMAIN Left(db, n) = DOMAIN db \ Gone(db, n)
    BY <2>1, LeftRows
  <2> QED
    BY <2>3, <2>4, <2>5 DEF Gone
<1> QED
  BY <1>1, Inductive, PTL DEF Spec, DeletesAreCarriedOut

\* A column of an owner that no reference uses changes by an update that sets it.
LEMMA OwnerColumnChanges ==
    ASSUME IInv, [Next]_vars, NEW i \in Rows(db, "owners") \cap DOMAIN db',
           NEW c \in {"role", "token"}, db'[i].cols[c] # db[i].cols[c]
    PROVE  \E r \in Requests :
              /\ Ends(r) /\ req[r].write.op = "update" /\ req[r].write.row = i
              /\ c \in DOMAIN req[r].write.set
              /\ db'[i].cols[c] = req[r].write.set[c]
              /\ SetsNoRole(req[r].who, req[r].write)
<1>1. PICK r \in Requests : Commit(r) /\ Ends(r)
  BY OnlyCommitsWrite
<1>2. i \in DOMAIN db /\ c \in DOMAIN db[i].cols /\ c \notin DOMAIN Target
  BY DEF Rows, IInv, TypeOK, RowType, Columns, Target
<1>3. req[r].write.op = "update"
  BY <1>1, <1>2, CommitEffect
<1> QED
  BY <1>1, <1>2, <1>3, CommitEffect

(***************************************************************************)
(* An owner's role changes only by an administrator's request (update of   *)
(* owners in database.py; the ORM writes only the columns that are set).   *)
(***************************************************************************)
THEOREM RolesAreTheAdmins == Spec => RolesAreSetByAdmin
<1> DEFINE ByAdmin ==
      \A i \in Rows(db, "owners") \cap DOMAIN db' :
          db'[i].cols.role # db[i].cols.role =>
              \E r \in Requests : Ends(r) /\ IsAdmin(req[r].who)
<1>1. IInv /\ [Next]_vars => ByAdmin
  BY OwnerColumnChanges DEF SetsNoRole
<1> QED
  BY <1>1, Inductive, PTL DEF Spec, RolesAreSetByAdmin

-----------------------------------------------------------------------------
(***************************************************************************)
(* Tokens.  A token that waits to be written, and that one login was given *)
(* alone, is nobody's yet: it is not live, it was never ended, and no      *)
(* other request is about to write it.                                     *)
(***************************************************************************)
SetsToken(r) ==
    /\ req[r].pc = "write" /\ req[r].write.op = "update"
    /\ "token" \in DOMAIN req[r].write.set

Waiting(r) == req[r].write.set.token

Nobodys(r) ==
    /\ Waiting(r) \notin Live(db) \cup ended
    /\ \A q \in Requests \ {r} : SetsToken(q) => Waiting(q) # Waiting(r)

TInv ==
    /\ \E S : claims \in Seq(S)
    /\ Live(db) \cup ended \subseteq DOMAIN claims
    /\ \A r \in Requests : SetsToken(r) => Waiting(r) \in DOMAIN claims \cup {Null}
    /\ \A r \in Requests : SetsToken(r) /\ Waiting(r) \notin again \cup {Null} => Nobodys(r)
    /\ \A r \in Requests : req[r].pc = "write" => NewOwnersAreOut(req[r].write)

LEMMA TokensInit == Init => TInv
<1> SUFFICES ASSUME Init PROVE TInv
  OBVIOUS
<1>1. claims \in Seq({}) /\ Live(db) \cup ended = {}
  BY SeedsAreStores DEF Init
<1>2. \A r \in Requests : req[r].pc = "idle"
  BY DEF Init, Idle
<1> QED
  BY <1>1, <1>2 DEF TInv, SetsToken

\* The store stays, and so do the requests but r.
LEMMA OthersWait ==
    ASSUME NEW r \in Requests, \A q \in Requests : q # r => req'[q] = req[q]
    PROVE  \A q \in Requests : q # r =>
              /\ SetsToken(q)' <=> SetsToken(q)
              /\ Waiting(q)' = Waiting(q)
  BY DEF SetsToken, Waiting

LEMMA BeginFrame ==
    ASSUME IInv, NEW r \in Requests, NEW who, NEW w, Begin(r, who, w)
    PROVE  /\ req'[r] = [pc |-> "write", who |-> who, write |-> w]
           /\ \A q \in Requests : q # r => req'[q] = req[q]
  BY DEF Begin, IInv

\* A step of r that leaves it without a token to write.
LEMMA NoTokenOK ==
    ASSUME TInv, NEW r \in Requests, UNCHANGED <<db, claims, history>>,
           \A q \in Requests : q # r => req'[q] = req[q],
           SetsToken(r)' => Waiting(r)' = Null,
           req'[r].pc = "write" => NewOwnersAreOut(req'[r].write)
    PROVE  TInv'
<1>1. \A q \in Requests : q # r => (SetsToken(q)' <=> SetsToken(q))
                                   /\ Waiting(q)' = Waiting(q)
  BY OthersWait
<1>2. claims' = claims /\ Live(db)' = Live(db) /\ again' = again /\ ended' = ended
  BY DEF history
<1>3. \A q \in Requests : SetsToken(q)' => Waiting(q)' \in DOMAIN claims' \cup {Null}
  BY <1>1, <1>2 DEF TInv
<1>4. ASSUME NEW q \in Requests, SetsToken(q)', Waiting(q)' \notin again' \cup {Null}
      PROVE  Nobodys(q)'
  <2>1. q # r /\ SetsToken(q) /\ Waiting(q)' = Waiting(q) /\ Nobodys(q)
    BY <1>1, <1>2, <1>4 DEF TInv
  <2>2. \A p \in Requests \ {q} : SetsToken(p)' => Waiting(p)' # Waiting(q)'
    BY <1>1, <1>4, <2>1 DEF Nobodys
  <2> QED
    BY <1>2, <2>1, <2>2 DEF Nobodys
<1>5. \A q \in Requests : req'[q].pc = "write" => NewOwnersAreOut(req'[q].write)
  BY DEF TInv
<1> QED
  BY <1>2, <1>3, <1>4, <1>5 DEF TInv

LEMMA TokensLogin ==
    ASSUME IInv, TInv, NEW r \in Requests, Login(r)
    PROVE  TInv'
<1>1. PICK o, t, who :
        /\ Begin(r, who, Update(o, [token |-> t]))
        /\ \/ /\ t = Len(claims) + 1 /\ claims' = Append(claims, who)
              /\ UNCHANGED again
           \/ /\ t \in DOMAIN claims /\ again' = again \cup {t}
              /\ UNCHANGED claims
        /\ UNCHANGED <<db, ended>>
  BY LoginWrites
<1>2. /\ SetsToken(r)' /\ Waiting(r)' = t
      /\ NewOwnersAreOut(req'[r].write)
      /\ \A q \in Requests : q # r => req'[q] = req[q]
  <2> DEFINE w == Update(o, [token |-> t])
  <2>1. /\ req'[r] = [pc |-> "write", who |-> who, write |-> w]
        /\ \A q \in Requests : q # r => req'[q] = req[q]
    BY <1>1, BeginFrame
  <2>2. w.op = "update" /\ w.set = [token |-> t]
    BY DEF Update
  <2> HIDE DEF w
  <2>3. req'[r].pc = "write" /\ req'[r].write = w
    BY <2>1
  <2> QED
    BY <2>1, <2>2, <2>3 DEF SetsToken, Waiting, NewOwnersAreOut
<1>3. \A q \in Requests : q # r => (SetsToken(q)' <=> SetsToken(q))
                                   /\ Waiting(q)' = Waiting(q)
  BY <1>2, OthersWait
<1>4. Live(db)' = Live(db) /\ ended' = ended
  BY <1>1
<1>5. PICK S : claims \in Seq(S)
  BY DEF TInv
<1>6. DOMAIN claims = 1 .. Len(claims) /\ Len(claims) \in Nat
  BY <1>5
<1>7. \A q \in Requests : req'[q].pc = "write" => NewOwnersAreOut(req'[q].write)
  BY <1>2 DEF TInv
<1>8. CASE t = Len(claims) + 1 /\ claims' = Append(claims, who) /\ again' = again
  <2>1. claims' \in Seq(S \cup {who}) /\ DOMAIN claims' = DOMAIN claims \cup {t}
    <3>1. claims \in Seq(S \cup {who})
      BY <1>5
    <3>2. claims' \in Seq(S \cup {who}) /\ Len(claims') = Len(claims) + 1
      BY <1>8, <3>1
    <3> QED
      BY <1>6, <1>8, <3>2
  <2>2. t \notin DOMAIN claims
    BY <1>6, <1>8
  <2>3. t # Null
    BY <1>6, <1>8, NullIsNoId
  <2>4. \A q \in Requests : SetsToken(q)' => Waiting(q)' \in DOMAIN claims' \cup {Null}
    BY <1>2, <1>3, <2>1 DEF TInv
  <2>5. \A q \in Requests : q # r /\ SetsToken(q) => Waiting(q) # t
    BY <2>2, <2>3 DEF TInv
  <2>6. ASSUME NEW q \in Requests, SetsToken(q)', Waiting(q)' \notin again' \cup {Null}
        PROVE  Nobodys(q)'
    <3>1. CASE q = r
      <4>1. t \notin Live(db) \cup ended
        BY <2>2 DEF TInv
      <4> QED
        BY <1>2, <1>3, <1>4, <2>5, <3>1, <4>1 DEF Nobodys
    <3>2. CASE q # r
      <4>1. SetsToken(q) /\ Waiting(q)' = Waiting(q) /\ Nobodys(q)
        BY <1>3, <1>8, <2>6, <3>2 DEF TInv
      <4>2. \A p \in Requests \ {q} : SetsToken(p)' => Waiting(p)' # Waiting(q)'
        BY <1>2, <1>3, <2>5, <3>2, <4>1 DEF Nobodys
      <4> QED
        BY <1>4, <4>1, <4>2 DEF Nobodys
    <3> QED
      BY <3>1, <3>2
  <2> QED
    BY <1>4, <1>7, <2>1, <2>4, <2>6 DEF TInv
<1>9. CASE t \in DOMAIN claims /\ again' = again \cup {t} /\ claims' = claims
  <2>1. \A q \in Requests : SetsToken(q)' => Waiting(q)' \in DOMAIN claims' \cup {Null}
    BY <1>2, <1>3, <1>9 DEF TInv
  <2>2. ASSUME NEW q \in Requests, SetsToken(q)', Waiting(q)' \notin again' \cup {Null}
        PROVE  Nobodys(q)'
    <3>1. q # r /\ Waiting(q)' # t
      BY <1>2, <1>9, <2>2
    <3>2. SetsToken(q) /\ Waiting(q)' = Waiting(q) /\ Nobodys(q)
      BY <1>3, <1>9, <2>2, <3>1 DEF TInv
    <3>3. \A p \in Requests \ {q} : SetsToken(p)' => Waiting(p)' # Waiting(q)'
      BY <1>2, <1>3, <3>1, <3>2 DEF Nobodys
    <3> QED
      BY <1>4, <3>2, <3>3 DEF Nobodys
  <2> QED
    BY <1>4, <1>5, <1>7, <1>9, <2>1, <2>2 DEF TInv
<1> QED
  BY <1>1, <1>8, <1>9

LEMMA TokensPrepared ==
    ASSUME IInv, TInv, NEW r \in Requests, Signup(r) \/ Logout(r) \/ Handle(r)
    PROVE  TInv'
<1>0. made \in Nat
  BY DEF IInv, TypeOK
<1>1. PICK who, w :
        /\ Begin(r, who, w) /\ UNCHANGED <<db, claims, history>>
        /\ LeavesTokens(w) \/ \E o : w = Update(o, [token |-> Null])
  <2>1. CASE Signup(r)
    BY <1>0, <2>1, NewRowsArePrepared DEF Signup, Prepared
  <2>2. CASE Logout(r)
    BY <2>2 DEF Logout
  <2>3. CASE Handle(r)
    BY <1>0, <2>3, WritesArePrepared DEF Handle, Prepared
  <2> QED
    BY <2>1, <2>2, <2>3
<1>2. /\ req'[r] = [pc |-> "write", who |-> who, write |-> w]
      /\ \A q \in Requests : q # r => req'[q] = req[q]
  BY <1>1, BeginFrame
<1>3. CASE LeavesTokens(w)
  <2>1. ~SetsToken(r)' /\ NewOwnersAreOut(req'[r].write)
    BY <1>2, <1>3 DEF SetsToken, LeavesTokens
  <2> QED
    BY <1>1, <1>2, <2>1, NoTokenOK
<1>4. CASE \E o : w = Update(o, [token |-> Null])
  <2>1. Waiting(r)' = Null /\ NewOwnersAreOut(req'[r].write)
    BY <1>2, <1>4 DEF Waiting, NewOwnersAreOut, Update
  <2> QED
    BY <1>1, <1>2, <2>1, NoTokenOK
<1> QED
  BY <1>1, <1>3, <1>4

LEMMA TokensRest ==
    ASSUME IInv, TInv, NEW r \in Requests, Authenticate(r) \/ Answer(r)
    PROVE  TInv'
<1>1. /\ UNCHANGED <<db, claims, history>> /\ req'[r].pc # "write"
      /\ \A q \in Requests : q # r => req'[q] = req[q]
  BY DEF Authenticate, Answer, Idle, IInv
<1>2. ~SetsToken(r)'
  BY <1>1 DEF SetsToken
<1> QED
  BY <1>1, <1>2, NoTokenOK

\* A commit makes no token live but the one it writes.
LEMMA LiveAfterCommit ==
    ASSUME IInv, TInv, NEW r \in Requests, Commit(r)
    PROVE  \A t \in Live(db') \ Live(db) : SetsToken(r) /\ Waiting(r) = t /\ t # Null
<1> SUFFICES ASSUME NEW t \in Live(db') \ Live(db)
             PROVE  SetsToken(r) /\ Waiting(r) = t /\ t # Null
  OBVIOUS
<1>1. PICK i \in Rows(db', "owners") : db'[i].cols.token = t /\ t # Null
  BY DEF Live
<1>2. req[r].pc = "write"
  BY DEF Commit
<1>3. CASE i \in DOMAIN db
  <2>1. i \in DOMAIN db' /\ db'[i].table = "owners"
    BY <1>1 DEF Rows
  <2>2. i \in Rows(db, "owners")
    BY <1>3, <2>1, CommitEffect DEF Rows
  <2>3. "token" \in DOMAIN db[i].cols /\ "token" \notin DOMAIN Target
    BY <1>3, <2>2 DEF Rows, IInv, TypeOK, RowType, Columns, Target
  <2>4. db'[i].cols.token # db[i].cols.token
    BY <1>1, <2>2 DEF Live
  <2>5. req[r].write.op = "update"
    BY <1>3, <2>1, <2>3, <2>4, CommitEffect
  <2> QED
    BY <1>1, <1>2, <1>3, <2>3, <2>4, <2>5, CommitEffect DEF SetsToken, Waiting
<1>4. CASE i \notin DOMAIN db
  <2>1. req[r].write.op = "insert"
    BY <1>1, <1>4, CommitEffect DEF Rows
  <2>2. db' = Inserted(db, req[r].write.rows)
    BY <2>1 DEF Commit
  <2>3. i \in DOMAIN req[r].write.rows /\ db'[i] = req[r].write.rows[i]
    BY <1>1, <1>4, <2>2 DEF Inserted, Committed, Rows
  <2>4. db'[i].cols.token = Null
    BY <1>1, <1>2, <2>1, <2>3 DEF TInv, NewOwnersAreOut, Rows
  <2> QED
    BY <1>1, <2>4
<1> QED
  BY <1>3, <1>4

LEMMA TokensCommit ==
    ASSUME IInv, TInv, NEW r \in Requests, Commit(r)
    PROVE  TInv'
<1>1. /\ ~SetsToken(r)' /\ req'[r].pc # "write"
      /\ \A q \in Requests : q # r => req'[q] = req[q]
      /\ claims' = claims /\ again' = again
      /\ ended' = ended \cup (Live(db) \ Live(db'))
  BY DEF Commit, SetsToken, Idle, IInv
<1>2. \A q \in Requests : q # r => (SetsToken(q)' <=> SetsToken(q))
                                   /\ Waiting(q)' = Waiting(q)
  BY <1>1, OthersWait
<1>3. Live(db)' = Live(db')
  BY DEF Live, Rows
<1>4. Live(db') \cup ended' \subseteq DOMAIN claims'
  BY <1>1, LiveAfterCommit DEF TInv
<1>5. \A q \in Requests : SetsToken(q)' => Waiting(q)' \in DOMAIN claims' \cup {Null}
  BY <1>1, <1>2 DEF TInv
<1>6. ASSUME NEW q \in Requests, SetsToken(q)', Waiting(q)' \notin again' \cup {Null}
      PROVE  Nobodys(q)'
  <2>1. q # r /\ SetsToken(q) /\ Waiting(q)' = Waiting(q) /\ Nobodys(q)
    BY <1>1, <1>2, <1>6 DEF TInv
  <2>2. Waiting(q) \notin Live(db')
    BY <2>1, LiveAfterCommit DEF Nobodys
  <2>3. Waiting(q) \notin Live(db') \cup ended'
    BY <1>1, <2>1, <2>2 DEF Nobodys
  <2>4. \A p \in Requests \ {q} : SetsToken(p)' => Waiting(p)' # Waiting(q)'
    BY <1>1, <1>2, <2>1 DEF Nobodys
  <2> QED
    BY <1>3, <2>1, <2>3, <2>4 DEF Nobodys
<1>7. \A q \in Requests : req'[q].pc = "write" => NewOwnersAreOut(req'[q].write)
  BY <1>1 DEF TInv
<1> QED
  BY <1>1, <1>3, <1>4, <1>5, <1>6, <1>7 DEF TInv

LEMMA TokensStep == IInv /\ TInv /\ [Next]_vars => TInv'
<1> SUFFICES ASSUME IInv, TInv, [Next]_vars PROVE TInv'
  OBVIOUS
<1>1. CASE UNCHANGED vars
  BY <1>1 DEF vars, history, TInv, SetsToken, Waiting, Nobodys, Live, Rows
<1> QED
  BY <1>1, TokensLogin, TokensPrepared, TokensRest, TokensCommit DEF Next

LEMMA TokensInductive == Spec => []TInv
  BY TokensInit, TokensStep, Inductive, PTL DEF Spec

(***************************************************************************)
(* A token becomes live only when a request that sets it commits, and one  *)
(* that was ended only if two logins of one second were given it: what a   *)
(* logout or a later login ended does not come back otherwise, whichever   *)
(* requests overlap (auth.py; the JWT of common/auth.py has no other mark  *)
(* of a login than its expiry).                                            *)
(***************************************************************************)
THEOREM TokensStayEnded == Spec => EndedTokensStayEnded
<1> DEFINE Fresh ==
      \A i \in Rows(db, "owners") \cap DOMAIN db' :
          (db'[i].cols.token # db[i].cols.token /\ db'[i].cols.token # Null) =>
              \E r \in Requests :
                  /\ Ends(r) /\ req[r].write.op = "update" /\ req[r].write.row = i
                  /\ "token" \in DOMAIN req[r].write.set
                  /\ req[r].write.set.token = db'[i].cols.token
                  /\ db'[i].cols.token \in ended => db'[i].cols.token \in again
<1>1. IInv /\ TInv /\ [Next]_vars => Fresh
  <2> SUFFICES ASSUME IInv, TInv, [Next]_vars,
                      NEW i \in Rows(db, "owners") \cap DOMAIN db',
                      db'[i].cols.token # db[i].cols.token, db'[i].cols.token # Null
               PROVE  \E r \in Requests :
                        /\ Ends(r) /\ req[r].write.op = "update" /\ req[r].write.row = i
                        /\ "token" \in DOMAIN req[r].write.set
                        /\ req[r].write.set.token = db'[i].cols.token
                        /\ db'[i].cols.token \in ended => db'[i].cols.token \in again
    OBVIOUS
  <2>1. PICK r \in Requests :
          /\ Ends(r) /\ req[r].write.op = "update" /\ req[r].write.row = i
          /\ "token" \in DOMAIN req[r].write.set
          /\ req[r].write.set.token = db'[i].cols.token
    BY OwnerColumnChanges
  <2>2. SetsToken(r) /\ Waiting(r) = db'[i].cols.token
    BY <2>1 DEF SetsToken, Waiting, Ends
  <2>3. Waiting(r) \in ended => Waiting(r) \in again
    BY <2>2 DEF TInv, Nobodys
  <2> QED
    BY <2>1, <2>2, <2>3
<1> QED
  BY <1>1, Inductive, TokensInductive, PTL DEF Spec, EndedTokensStayEnded
=============================================================================
