---------------------------- MODULE ForecastJobs ----------------------------
(***************************************************************************)
(* The forecast job of a pilot: its row, which the API changes, its entry  *)
(* in the schedule, which a periodic task brings in line with the row      *)
(* (scheduled_tasks.py), and the tasks that the entry starts in the worker *)
(* processes, which load or train the pilot's model, predict and store a   *)
(* series (forecast_tasks.py, celery_pipeline.py).  Tasks of one job may   *)
(* overlap, share the model's file and end in any order.                   *)
(***************************************************************************)
EXTENDS ForecastData

CONSTANTS Workers,     \* the processes of the worker
          Kinds,       \* {"sim", "reg", "reg_prob"}, or fewer
          Prune,       \* FORECAST_PRUNE_ORPHAN_REDBEAT
          MaxEdits,    \* bound: changes of the job's row
          MaxTasks,    \* bound: tasks that start
          MaxOutages,  \* bound: reads of the jobs that fail, and crashes
          MaxParked,   \* bound: vehicles that are connected to the chargers
          MayExpire,   \* FORECAST_ARTIFACT_MAX_AGE_DAYS > 0
          None

ASSUME ParkedIsNat == MaxParked \in Nat

VARIABLES job,      \* the row: [enabled, periodic, kind], or None when deleted
          entry,    \* is the job in the schedule?
          sync,     \* the periodic task: None, or [view |-> the row it has read]
          queue,    \* tasks waiting for a worker
          tasks,    \* per worker: the step of its task and what it holds
          file,     \* the model's file: "absent", "partial", "mixed", or a kind
          served,   \* the series the API returns: [run_at, kind, by], or None
          edits, started, outages

jobVars  == <<job, entry, sync, edits>>
vars     == <<jobVars, queue, tasks, file, served, started, outages>>

(***************************************************************************)
(* What the completed sessions of the pilot allow whenever they are read.  *)
(* 0: nothing; 1: a simulation; 2: a row of features; 3: features and      *)
(* targets, which the training of a regression needs.                      *)
(***************************************************************************)
Levels == 0 .. 3

Chargers == Stations \cup Newcomers

Idle == [pc |-> "idle"]

Rows0 == [enabled : BOOLEAN, periodic : BOOLEAN, kind : Kinds]

\* A job without a schedule entry; tasks of an earlier one may have left a file.
Init ==
    /\ job \in Rows0
    /\ entry = FALSE /\ sync = None /\ queue = 0
    /\ tasks = [w \in Workers |-> Idle]
    /\ file \in {"absent", "mixed"} /\ served = None
    /\ edits = 0 /\ started = 0 /\ outages = 0

-----------------------------------------------------------------------------
(***************************************************************************)
(* The row and the schedule.                                               *)
(***************************************************************************)
\* PATCH and PUT of the job, its deletion, and its creation anew.
Edit ==
    /\ edits < MaxEdits
    /\ edits' = edits + 1
    /\ job' \in (Rows0 \cup {None}) \ {job}
    /\ UNCHANGED <<entry, sync, queue, tasks, file, served, started, outages>>

\* check_and_schedule_tasks reads the rows; when that fails it sees none.
SyncRead ==
    /\ sync = None
    /\ \/ sync' = [view |-> job] /\ UNCHANGED outages
       \/ outages < MaxOutages /\ outages' = outages + 1 /\ sync' = [view |-> None]
    /\ UNCHANGED <<job, entry, edits, queue, tasks, file, served, started>>

IsActive(j) == j # None /\ j.enabled /\ j.periodic

\* Mutant: an inactive job is skipped, its entry stays.
SyncedKeeping(view) == entry \/ IsActive(view)

\* The entry after the loop over the rows read and the pruning of the others.
Synced(view) ==
    IF view = None THEN entry /\ ~Prune ELSE IsActive(view)

SyncWrite ==
    /\ sync # None
    /\ entry' = Synced(sync.view)
    /\ sync' = None
    /\ UNCHANGED <<job, edits, queue, tasks, file, served, started, outages>>

\* The beat fires an entry: one more task, even if the last one still runs.
Fire ==
    /\ entry
    /\ started + queue < MaxTasks
    /\ queue' = queue + 1
    /\ UNCHANGED <<jobVars, tasks, file, served, started, outages>>

-----------------------------------------------------------------------------
(***************************************************************************)
(* A task.                                                                 *)
(***************************************************************************)
Ends(w) == tasks' = [tasks EXCEPT ![w] = Idle]

\* generate_pilot_forecast reads the row again: a job that is gone or disabled ends it.
Start(w) ==
    /\ queue > 0 /\ tasks[w].pc = "idle"
    /\ queue' = queue - 1
    /\ started' = started + 1
    /\ IF job # None /\ job.enabled
       THEN tasks' = [tasks EXCEPT ![w] =
                          [pc |-> "ensure", kind |-> job.kind, run_at |-> started']]
       ELSE UNCHANGED tasks
    /\ UNCHANGED <<jobVars, file, served, outages>>

Whole == file \in Kinds

Goto(w, pc, model) ==
    tasks' = [tasks EXCEPT ![w] =
        [pc |-> pc, kind |-> @.kind, run_at |-> @.run_at, model |-> model]]

\* _ensure_model: the file holds a model that is young enough.
Load(w) ==
    /\ tasks[w].pc = "ensure" /\ Whole
    /\ Goto(w, "predict", file)
    /\ UNCHANGED <<jobVars, queue, file, served, started, outages>>

Writing(v) == tasks[v].pc = "save"

\* An unpickling error that the handler does not expect: a file of two writers,
\* or one that is whole while another task is still writing into it.
LoadFails(w) ==
    /\ tasks[w].pc = "ensure"
    /\ file = "mixed" \/ (Whole /\ \E v \in Workers : Writing(v))
    /\ Ends(w)
    /\ UNCHANGED <<jobVars, queue, file, served, started, outages>>

\* No usable file: train, if the sessions allow; the model is written next.
Needed(kind) == IF kind = "sim" THEN 1 ELSE 3

Train(w) ==
    /\ tasks[w].pc = "ensure" /\ (~Whole \/ MayExpire)
    /\ \E history \in Levels :
           IF history < Needed(tasks[w].kind) THEN Ends(w)
           ELSE Goto(w, "open", tasks[w].kind)
    /\ UNCHANGED <<jobVars, queue, file, served, started, outages>>

\* open(path, "wb") truncates the file, also one that another task is writing.
OpenFile(w) ==
    /\ tasks[w].pc = "open"
    /\ file' = IF \E v \in Workers : Writing(v) THEN "mixed" ELSE "partial"
    /\ Goto(w, "save", tasks[w].model)
    /\ UNCHANGED <<jobVars, queue, served, started, outages>>

\* The dump is complete: the file holds this model unless another task wrote
\* into it meanwhile; one that has ended since may have written last.
SaveFile(w) ==
    /\ tasks[w].pc = "save"
    /\ file' \in {tasks[w].model} \cup
                 (IF file = "partial" /\ ~\E v \in Workers \ {w} : Writing(v)
                  THEN {} ELSE {"mixed"}) \cup ({file} \cap Kinds)
    /\ Goto(w, "predict", tasks[w].model)
    /\ UNCHANGED <<jobVars, queue, served, started, outages>>

\* Mutant: any regression passes for a probabilistic one.
AcceptsRegression(kind, model) == (kind = "sim") = (model = "sim")

\* isinstance(model, ...): a probabilistic regression is a regression.
Accepts(kind, model) ==
    IF kind = "reg" THEN model \in {"reg", "reg_prob"} ELSE model = kind

Total(counts) == Sum(counts)

\* _observed_counts_at: the vehicles connected to each charger of the pilot.
Observations == {f \in [Chargers -> 0 .. MaxParked] : Total(f) <= MaxParked}

\* run_forecast_job: the vehicles are counted now, not when the task started. A
\* simulation that raises ends the task without a series.
Predict(w) ==
    /\ tasks[w].pc = "predict"
    /\ LET kind == tasks[w].kind IN
       \E history \in Levels, now \in Observations : \E raises \in {FALSE, Raises(now)} :
           IF /\ Accepts(kind, tasks[w].model)
              /\ IF kind = "sim" THEN ~raises ELSE history >= 2
           THEN \E s \in IF kind = "sim" THEN SimSeries(now) ELSE RegSeries(Total(now)) :
                    tasks' = [tasks EXCEPT ![w] =
                        [pc |-> "persist", kind |-> kind, run_at |-> @.run_at,
                         model |-> @.model, observed |-> now, rows |-> s]]
           ELSE Ends(w)
    /\ UNCHANGED <<jobVars, queue, file, served, started, outages>>

(***************************************************************************)
(* One transaction adds the series.  The API returns the series of the     *)
(* pilot with the latest start, _latest_pilot_timeseries_rows.             *)
(***************************************************************************)
\* Mutant: the series that was stored last.
LatestStored(s, t) == t

Latest(s, t) == IF s = None \/ s.run_at < t.run_at THEN t ELSE s

Persist(w) ==
    /\ tasks[w].pc = "persist"
    /\ served' = Latest(served, [run_at |-> tasks[w].run_at, kind |-> tasks[w].kind,
                                 by |-> tasks[w].model])
    /\ Ends(w)
    /\ UNCHANGED <<jobVars, queue, file, started, outages>>

\* A worker process dies: its task was acknowledged and is lost.
Crash(w) ==
    /\ tasks[w].pc # "idle" /\ outages < MaxOutages
    /\ outages' = outages + 1
    /\ Ends(w)
    /\ UNCHANGED <<jobVars, queue, file, served, started>>

-----------------------------------------------------------------------------
Task(w) ==
    \/ Start(w) \/ Load(w) \/ LoadFails(w) \/ Train(w) \/ OpenFile(w) \/ SaveFile(w)
    \/ Predict(w) \/ Persist(w) \/ Crash(w)

Next == Edit \/ SyncRead \/ SyncWrite \/ Fire \/ \E w \in Workers : Task(w)

\* The crontab of the beat runs the periodic task every minute.
Spec == Init /\ [][Next]_vars /\ WF_vars(SyncRead) /\ WF_vars(SyncWrite)

-----------------------------------------------------------------------------
(***************************************************************************)
(* Properties.                                                             *)
(***************************************************************************)
\* A task holds the more the further it has come: a kind and its start, the
\* model, and at last the series that the model made of the vehicles it saw.
SeriesFrom(kind, now) == IF kind = "sim" THEN SimSeries(now) ELSE RegSeries(Total(now))

TaskType(t) ==
    \/ t = Idle
    \/ t \in [pc : {"ensure"}, kind : Kinds, run_at : Nat]
    \/ t \in [pc : {"open", "save", "predict"}, kind : Kinds, run_at : Nat, model : Kinds]
    \/ \E kind \in Kinds, model \in Kinds, now \in Observations :
          \E s \in SeriesFrom(kind, now) :
              /\ t.run_at \in Nat
              /\ t = [pc |-> "persist", kind |-> kind, run_at |-> t.run_at,
                      model |-> model, observed |-> now, rows |-> s]

TypeOK ==
    /\ job \in Rows0 \cup {None}
    /\ entry \in BOOLEAN
    /\ sync \in [view : Rows0 \cup {None}] \cup {None}
    /\ queue \in Nat
    /\ DOMAIN tasks = Workers /\ \A w \in Workers : TaskType(tasks[w])
    /\ file \in {"absent", "partial", "mixed"} \cup Kinds
    /\ served \in [run_at : Nat, kind : Kinds, by : Kinds] \cup {None}
    /\ edits \in Nat /\ started \in Nat /\ outages \in Nat

(***************************************************************************)
(* A series is the work of a model of the kind its job asked for, although *)
(* the kind may change while tasks run and the file of another kind stays. *)
(***************************************************************************)
RightModel ==
    served # None =>
        \/ served.kind = served.by
        \/ served.kind = "reg" /\ served.by = "reg_prob"

(***************************************************************************)
(* The series starts from the vehicles that are connected: a regression's  *)
(* first step has at least these, a simulation begins with exactly these   *)
(* at each charger.  Later steps never exceed what the stations hold, and  *)
(* no step delivers more energy than its vehicles can take.                *)
(***************************************************************************)
ForecastsAreSound ==
    \A w \in Workers : tasks[w].pc = "persist" =>
        LET rows == tasks[w].rows  now == tasks[w].observed
            room == Sum([c \in Chargers |->
                        IF c \in Stations THEN Larger(Capacity[c], now[c]) ELSE now[c]])
        IN  /\ \A k \in 1 .. Steps : rows[k].presence >= 0 /\ rows[k].energy >= 0
            /\ tasks[w].kind # "sim" => rows[1].presence >= Total(now)
            /\ tasks[w].kind = "sim" =>
                   /\ \A f \in Reconciled(now) : \A c \in Chargers : Len(f[c]) = now[c]
                   /\ \A k \in 1 .. Steps :
                          /\ rows[k].presence <= room
                          /\ rows[k].energy <= Power * rows[k].presence

(***************************************************************************)
(* The series the API returns never goes back to a task that started       *)
(* earlier, in whatever order the tasks end.                               *)
(***************************************************************************)
ServedMovesForward ==
    [][served # None => served'.run_at >= served.run_at]_vars

(***************************************************************************)
(* The schedule follows the row: once the job is no longer changed its     *)
(* entry is there for good exactly when the job is active, although the    *)
(* periodic task works on rows it has read before, and may fail to read.   *)
(* A deleted job keeps its entry unless orphans are pruned.                *)
(***************************************************************************)
EntryFollowsJob ==
    /\ <>[]IsActive(job) => <>[]entry
    /\ <>[](~IsActive(job) /\ (Prune \/ job # None)) => <>[]~entry
=============================================================================
