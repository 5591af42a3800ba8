# A TLA+ verification of the EV Orchestrator

The EV Orchestrator is a FastAPI server in front of PostgreSQL. Chargers report
that a vehicle was plugged in, how its charging goes and that it left; on every
report the server decides whether the vehicle may charge, and stores the decision.
Around this core there are per-charger statistics, policies that can be uploaded,
forecasts that Celery computes for whole sites, and the usual accounts and roles.

This directory models the server, from the events of a charger to the forecasts of a site:
what is stored, which statements interleave, what may fail in between, and what must
nevertheless hold. Every module is checked by TLC on small instances; most safety properties of
every module are also proved, with TLAPS, for all instances.
Line numbers refer to the repository (`src/`).

## Inventory

What runs: one uvicorn process whose handlers are `def` functions, so that each request
is a thread of a pool (40 by default); one PostgreSQL database, isolation READ COMMITTED,
reached through SQLAlchemy sessions without autoflush (`app/db/session.py:7-16`) and a
pool of 5 + 10 connections; Redis with a RedBeat schedule and a Celery worker.
Handlers share nothing in memory except the policy cache: they interact through rows,
row locks and commits.

| Component | State | Operations | Interacts with | What is hard | Correct when |
|---|---|---|---|---|---|
| Charging sessions, `routes/events.py` | `charging_sessions` | vehicle_connected, charging_update, vehicle_disconnected | decision (call), statistics (call), error log | overlapping events, commits in the middle of a handler, failures after a commit, retries | changes of a session are whole operations validated on the row they change; energy counted once; answers true |
| Action rows, `orchestrator_service.py:359-467` | `actions` | insert with the decision, fill of the previous one | sessions (foreign key) | the row to fill is read without a lock; deadlock with a closing | each action is filled once its outcome is known, by a later event |
| Decision, `orchestrator_service.py:42-426`, `policy/`, `correction_filter.py`, `observation_builder.py`, `obs_layout.py` | none | observation, assigned policy, default policy, correction | signals, statistics, registry | every stage may fail; networks read numbers by position | always a feasible decision and a row, attributed to the policy that made it, from the data it claims |
| Policy registry, `policy_registry.py`, `admin_policies.py` | files, rows, cache | load, upload, delete, assign | chargers | check-then-act on the cache, rollback of files | the cached policy is the accepted one; what is served fits; what an assignment validated loads |
| Hourly statistics, `ev_forecast/updater.py` | `ev_forecast_stats` | update at closing, query | sessions, import | read-modify-write without lock, "latest" by transaction start | count, mean and deviation are those of the sessions counted; no sample is lost or doubled |
| Duration distribution, `duration_cdf/` | `ev_duration_cdf` | update at closing, query | sessions, decision | advisory lock released before the commit; interpolation | no sample is lost; monotone, from 0 to 1 |
| CSV import, `routes/sessions.py:30-360` | both statistics | replace by batch | statistics | concurrent closings, choice of the best row | rows are exact for the sessions they count |
| Tokens and roles, `common/auth.py`, `authorization.py`, `routes/auth.py` | `owners` | login, logout, signup, role change, checks | every endpoint | overlapping login and logout, roles in old tokens | an ended token comes back only with a login of its own second; roles change by administrators only; lists and single reads agree |
| Forecast jobs, `celery_pipeline.py`, `celery_apps/`, `forecast_manifest.py` | `forecast_jobs`, schedule, artifact files | create, configure, delete, train, forecast | pilots | three stores without a common transaction, overlapping tasks | a schedule entry for each active job and none for others; served forecasts come from the right model and never go back |
| CRUD, `routes/database.py` | every table | create, read, update, delete | all | decisions on rows that changed since, children of a deleted row | constraints hold; history survives; accepted deletions happen |
| Signals and site load, `load_forecaster_service.py`, `signals/` | none | HTTP, Influx reads, binning | decision | missing or short series, clocks that differ | net load and net power count every reading once, nothing is invented |
| Time conversion, `db_utils.py` | none | to UTC and back | all | the repeated hour | order of events kept |
| Secrets, error log, startup, machine-learning code | | | | | |

`PROJECT.json` lists the components with the reason for each one that is not modelled,
and the hazards, each at its line.

## The modules

| Module | Contents |
|---|---|
| `SessionData` | events and session rows, with the assumptions on the constants |
| `SessionContract` | what the three endpoints promise about a charger's session rows |
| `SessionEvents` | the handlers statement by statement, transactions, locks, failures; implements `SessionContract` |
| `Fractions` | exact arithmetic on fractions in lowest terms, in place of the code's floating-point numbers |
| `StatsData` | rows of the two learned statistics: running mean and spread, empirical distribution, interpolating lookup |
| `ClosingStats` | the second transaction of a closing and the CSV import, over these rows |
| `Ordering` | a set of integers in ascending order; used by the two modules of data that sort |
| `DecisionData` | features and layout of an observation, site load, grid power, wind, policies, correction filter |
| `Decision` | `compute_and_save_action` from the event to the stored row, with its fallback |
| `PolicyData` | models with their sidecars, by the upload they came with |
| `PolicyContract` | what a lookup may rely on: a register of accepted policies, read in one step |
| `PolicyRegistry` | files and cache of the network policies; implements `PolicyContract` |
| `PolicyAssignment` | beside `PolicyRegistry`, the two columns in which a charger names its policy, and the requests that write them |
| `RecordsData` | the tables as one relational store, what the ORM writes, and who may see what |
| `Records` | accounts, tokens and the CRUD endpoints as overlapping requests |
| `ForecastData` | the simulation of the stations and the post-processing of a regression |
| `ForecastJobs` | a pilot's forecast job: row, schedule entry, tasks, artifact file, served series |
| `MC...` | instances, symmetry and views for TLC |
| `FoldProofs` | what the folds of the community modules compute, ranks, recursive functions on 0..n, least and greatest members: lemmas shared by the proofs |
| `...Proofs` | the theorems |

How they compose. `ClosingStats` continues where `CommitClose` of `SessionEvents` ends (`UpdateModels` there is
the whole of `ClosingStats` here); `Decision` is what happens between `ReadPrevious` and `CommitDecision`;
`Decision` takes any outcome of `PolicyRegistry`'s lookup; `ForecastJobs` starts from the job rows that `Records`
writes. Each module has the state of its neighbours as a choice of everything they may do, instead of as variables: the
product of two of them is out of TLC's reach. `...Data` modules hold the pure parts.

### SessionContract

Three variables: the events submitted, the session rows, and for each request the session it
took effect on. Five operations: `Submit`, `Open`, `Touch` (a repeated connection), `Report` and
`Close`. Each takes effect at once, at most once per request, on a row that is active, and only
if it does not go back in time. Nothing is said of *which* active row, nor that there is
only one: the code does not ensure that (see below).

### SessionEvents

| In the model | In the code (`routes/events.py` unless named) |
|---|---|
| `pc[r]` | the statement the handler of request r is about to run |
| `ev[r]` | the request's body |
| `cand[r]` | the rows that the snapshot of `SELECT ... FOR UPDATE` returned and that are not locked yet (148, 318, 431) |
| `sid[r]`, `row[r]` | `existing_session` / `new_session` / `session`: the ORM object |
| `prev[r]` | `prev_action` (`orchestrator_service.py:441`) |
| `sess`, `actions` | the committed tables |
| `sessLock`, `actLock` | row locks of PostgreSQL |
| `took` | history variable: where a request took effect |

One action is one point at which another thread, another transaction or a failure can be noticed:
a statement that reads or locks shared rows, or a commit. What a handler does to its own
objects between two such points is part of the action.

- *Select and lock* (`SelectActive`, `SkipClosed`, `LockRow`, `NoActive`). The snapshot fixes
  the rows the statement can return; after waiting for a lock PostgreSQL looks at
  the row again, and skips it when it is no longer active. Between the two, others run.
- *Validate* (`Refuse`, `InOrder`): `_validate_event_ordering`, and the access check, whose outcome is a choice.
- *charging_update* (`CommitTelemetry`, `Refresh`, then the decision) has two transactions:
  it gives up the row lock at line 367, before the decision.
- *vehicle_connected* either inserts and commits a session (`CreateSession`, `Refresh`, then the decision)
  or stages a change of the existing one (`StageRow`) and commits it with the decision.
- *The decision* is, as far as the tables go: read the latest unfilled action (`ReadPrevious`), and at
  COMMIT first the UPDATE of that action (`LockPrevious`), then the INSERT of
  the new one, whose foreign key needs a share lock on the session row (`CommitDecision`). The
  statements come in this order because SQLAlchemy flushes at commit here, updates before inserts.
- *vehicle_disconnected* keeps its lock until its only commit (`StageRow`, `ReadPrevious`,
  `LockPrevious`, `CommitClose`), then updates the forecasting tables (`UpdateModels`).
- *Failures*: any step may fail (`Abort`). Inside the inner `try` of a handler the failure is
  rolled back, logged and answered with a warning (`LogError`); everywhere else, the
  `db.refresh` after a commit included, it is a 500. `Crash` loses every handler and rolls
  every open transaction back. `BreakDeadlock` is PostgreSQL's detector.

Abstractions: one charger (every query filters on it, so chargers share no session row);
times are numbers already in UTC; energies are integers, with a threshold of 0 in place of
0.05 kWh; the decision itself, its policies and the forecasts change no row of these
tables and are left out; `last_event_time` is never NULL (it is only on rows older than that column); a row that was skipped
after a wait is not kept locked until the transaction ends; edits through `/db/sessions` are not modelled.

### StatsData and ClosingStats

| In the model | In the code |
|---|---|
| `sess[s]` | a row of `charging_sessions` with its end; `plugged` is `duration`, `charged` the time up to `end_charging_time` (`ev_forecast/updater.py:44-51`) |
| `stats`, `cdf` | `ev_forecast_stats`; `ev_duration_cdf`, where a `Batch` is the rows of one charger and hour that were written together |
| `pc[r]`, `step[r]` | how far the update after a closing has come: `Steps` are the fleet's and the charger's statistics, then the four distributions |
| `new[r]` | rows added to the ORM session; invisible to queries until the commit, as there is no autoflush |
| `start[p]` | `now()` of the transaction, which is `updated_at` of all its rows |
| `lock` | the advisory locks of PostgreSQL |
| `bag` of a row | history: how often each session was counted, and by which measure |

`Close` is the commit of the disconnection; `LookStats` ... `OnlineCdf` are one query each with what
follows it; `Commit` makes the rows visible together. `ImportSessions`, `ImportCharger` and `ImportFleet` are the
two transactions of the import (its queries are two actions of the second one). `Abort` and `Crash` lose
an update: the session stays closed, and its sample is missing.

Durations are whole numbers; means and spreads are fractions in lowest terms, so the model's statistics are those of the code without rounding errors. A `spread` is
the square of the stored deviation: the root that is stored (`updater.py:257`) and the square taken of it later (238) cancel.

### DecisionData and Decision

`pc` names the part of `compute_and_save_action` that runs next: `policy` (`get_policy`), `load`, `grid`,
`observe`, `compute`, `fallback`, `persist`. Every part of the primary path may raise (`Fails`), and a query that fails aborts the
transaction as well (`QueryFails`), so that the commit raises later. `answers` keeps what the other services
answered until it was used, for the properties only.

Powers and energies are integers, times quarters of an hour; a feature's numbers are told apart by their place
only; the network's scores are a choice of any output. The two probabilities and
the remaining scalars of the observation change no path and stand behind one feature each.

### PolicyContract, PolicyRegistry and PolicyAssignment

`model`, `side` are the two files under a name, `cache` is `_POLICY_CACHE`. Uploads are
`async` handlers that do not await once the files are there, so they never interleave with each other, but with the threads
of decisions and assignments, at each file operation and each access to the cache. `Restart` keeps files and rows. A file is written
in one step: `write_bytes` on a model of some kilobytes. The sidecar's write may fail (`WriteSideFails`): it is outside the `try` whose handler unlinks both files
(`admin_policies.py:122`), so the new model stays beside an old sidecar or an empty one. A failing write of the model itself (121) is not modelled.

Four history variables say where the code promises less. `raced`: a lookup overlapped the last upload of the name, so that it may have put the old version back
into the cache (or one put together from both); the next upload without overlap and every restart mend it. `damaged`: the last upload was rejected or cut off; the next one that is accepted mends
it. `torn`: the last model written came without its sidecar. `excused`: lookups during which their name was touched.

In `PolicyContract` a name is a register: `Offer` (files are sent), `Loosen` (they begin to be written), `Accept` (the upload is answered) and
`Serve` (a lookup is answered). `loose` are the names of which the contract promises only that the parts of a policy fit and were sent under its name: in the registry those being
written, `raced` or `damaged`.

`PolicyAssignment` extends the registry with one charger: `row` has its `control_algorithm` and `control_policy`. `Assigners` are requests to
`PATCH /chargers/{id}/policy`: they read the row with the access check (`ReadRow`), validate the pair they were sent (`Validate`), and
commit (`CommitAssignment`). `Editors` are `POST /db/chargers` and `PUT /db/chargers/{id}` (`database.py:164-176`, `225-230`), which store the same
columns without looking at them (`CommitEdit`; a charger created with a pair is one edited before anything else happens to it). Either way the ORM's
UPDATE names only the columns that differ from what the request had read (`Saved`). `source` is history: the pair in the row was validated as it stands (`checked`), or
nobody has looked at it as it stands (`unchecked`), since an edit stored it or it was put together from the columns of two requests. Two assignments put such a pair together only
over a row that names both columns already, which takes a third request; the proof covers any number of them.

### RecordsData and Records

A store maps ids to rows; a row keeps its table and the columns a rule, a key or a reference depends on. `Inserted`, `Updated`
and `Deleted` are what SQLAlchemy writes at the commit: an update writes only the columns whose value changed since the row was
read; a deletion sets the references of the children to NULL, deletes the secrets of a pilot, and fails as a whole
where a reference may not be NULL. `Committed` is PostgreSQL's check of keys.

A request authenticates (`Authenticate`, in a database session of its own), passes its checks and decides what to write on the rows
as they are then (`Handle`), and commits later. `Writes` is the union of all endpoints; `Login`, `Signup`, `Logout` are those of `routes/auth.py`. Tokens are
numbered, and `claims` is what they say: it is never changed, so a role in a token may be old. The JWT has its expiry in whole seconds and no identifier
(`common/auth.py:69-75`), so a login is given a new number or, when it falls into the second of the last login with its claims, that login's number
(`LastWith`). Two history variables go with it: `again` are the tokens that were issued twice, `ended` those that were live and no longer are.

### ForecastData and ForecastJobs

`job` is the row, `entry` the RedBeat entry, `sync` the periodic task between its read of the rows and its write of the entry, `queue` the broker,
`tasks[w]` the task of a worker process, `file` the pickle: `partial` while one task writes, `mixed` when two do. A task reads the row
again (`Start`), loads or trains (`Load`, `LoadFails`, `Train`, `OpenFile`, `SaveFile`), predicts from the vehicles connected now (`Predict`) and stores its series
in one transaction (`Persist`); counting the vehicles and predicting are one step. A simulation without any session to sample raises, and its task ends without a
series (`Raises`, `ev_total_forecaster.py:93`). A sampled session is plausible at the default `p_max_kw` (`MaxPower`), whatever power the simulation charges with (`Power`).
While two tasks write the pickle it may fail to load, or load as the model of either. The history may allow less or more at each read (`Levels`). A simulation's samples are any
sessions of the pool, a regression's raw outputs any of `RawPresence`, `RawEnergy`; what is made of them is the code's.

## The runs

| Run | Instance | Checks |
|---|---|---|
| `overlap` | 3 requests, all overlapping; times 1..3; energies 0, 1; both full flags | `TypeOK`, `CopyIsCurrent`, `AnswersAreTrue`, `ActionsHaveEvents`, `TimelineOK`, `ReportsAreDistinct`, `ImplementsContract` |
| `serial` | 4 requests, one at a time; times 1..4 | `OneActiveSession`, `ClosedIsFilled`, `FilledForward` |
| `liveness` | 3 requests, two at a time; times 1..3; one energy | `EveryRequestEnds` under `FairSpec` |
| `overlap_fill` | 3 requests, two at a time | `FilledForward` is violated |
| `overlap_close` | 3 requests, two at a time | `ClosedIsFilled` is violated |
| `closing_stats` | 3 sessions of 2 chargers, 2 updates at a time, 1 import; one of the sessions is a fleet outlier | `StatsAreExact`, `CurvesAreEmpirical`, `EachSampleOnce`, `LookupsAreDistribution`, `NoRegress` |
| `closing_stats_lock` | the same without import; updates overlap once the first one has committed its distributions | `ContinuedOnce` is violated |
| `decision` | one decision; horizon 2, boxes of 2 instants; events on both sides of every threshold, 5 feature lists, 3 network heads, every kind of answer | `FeasibleAnswer`, `RowNamesTheDecider`, `NetIsDemandMinusGeneration`, `GridIsBalanced`, `ObservationIsAsDeclared`, `NothingIsMadeUp`, `EveryEventIsDecided` |
| `policy_registry` | 2 names, 2 uploads, 2 lookups, 1 restart; or two of 2 assignments and 1 edit beside one upload under one name and a restart | `CacheIsAccepted`, `FailsForAReason`, `FilesArePaired`, `AssignedIsLoadable`, `ImplementsContract` |
| `policy_upload` | 2 names, 1 upload, 2 lookups, no restart | `AcceptedStays` is violated |
| `records` | 2 requests at a time, 4 in all; 8 rows, one of every kind, up to 10 | `TypeOK`, `ListAgreesWithGet`, `HistoryIsKept`, `DeletesAreCarriedOut`, `RolesAreSetByAdmin`, `EndedTokensStayEnded` |
| `forecast_jobs` | 2 workers, 2 tasks, 1 change of the job, 1 outage or crash; 1 station with 1 place, 1 new charger, up to 2 vehicles connected, 0 or 2 arrivals, 2 steps | `RightModel`, `ForecastsAreSound`, `ServedMovesForward`, `EntryFollowsJob` |

The sessions:

- `ImplementsContract` is the main result: behind all the interleavings, the table changes only
  by whole operations, each validated on the row it changes. `CopyIsCurrent` says why: the holder of a row lock has the committed row in
  hand, so no commit undoes another.
- `AnswersAreTrue` relates what the client was told to what is stored; `ActionsHaveEvents` relates the two
  tables; `ReportsAreDistinct` is what makes a client's retry safe.
- The three properties of `serial` hold when a charger's requests do not overlap, whatever fails
  between them. They need that: the two violation runs show two of them failing as soon as two requests overlap.
  `OneActiveSession` fails under overlap as well (two connections that both find no
  session; there is no unique index), but no text of the repository promises it, so it
  is listed as a hazard and not as a finding.

The other modules:

- *Statistics*. Whatever overlaps, every stored row is exact for the sessions it counts (`StatsAreExact`: Welford's step is the mean,
  also after a rebuild or an import; `CurvesAreEmpirical`, which makes every batch a distribution). *Which* sessions it counts depends on the
  overlap: `EachSampleOnce`, `LookupsAreDistribution` and `NoRegress` hold while updates do not overlap (`plain`), failures included:
  they say nothing of the sample that two overlapping closings lose. `closing_stats_lock` shows how it is lost, although each of the two holds the advisory lock while it reads.
- *Decisions*. `EveryEventIsDecided` is the docstring's resilience contract (`orchestrator_service.py:64-68`); the exception is a transaction that the
  database has aborted, which no fallback can save. `RowNamesTheDecider` and `NothingIsMadeUp` relate the stored row to
  what was really read and run.
- *Registry*. `CacheIsAccepted` excludes exactly the names that were looked up during their last upload (`raced`), where the old policy may stay in the cache until
  the next upload or restart, and those whose last upload failed (`damaged`). `FailsForAReason` holds with these races, and so does `ServedFits` (a theorem; what `ImplementsContract` says of a served policy implies it). `ImplementsContract` is the whole of it for who looks
  a policy up: file operations and cache behave as one atomic register, and no policy is ever served under another name.
- *Assignments*. `AssignedIsLoadable` relates the row to the files: what an assignment validated stays loadable through later uploads and restarts, unless one of them failed. It
  claims nothing of a pair that an edit stored or that was put together from two requests; such a charger is decided by the default policy (`EveryEventIsDecided`).
- *Records*. `TypeOK` includes the keys and references of the database, `ListAgreesWithGet` compares two independently written queries for the same rule.
  `EndedTokensStayEnded` leaves one way for a token to come back, a second login of its own second; `DeletesAreCarriedOut` exempts rows that others may not lose, a pilot with a forecast job among them (both under Findings).
- *Forecast jobs*. `RightModel` holds although the artifact is found by job and not by kind; `EntryFollowsJob` is a liveness property
  with a periodic task that works on rows it has read before. `ForecastsAreSound` bounds presence and energy for simulations; of a regression it
  says only that the series is not negative and begins with at least the vehicles connected. `Observations` allow more vehicles at a station than it has places (its capacity is learned).

`ClosingStats`, `Decision`, `PolicyRegistry` and `ForecastJobs` also state a `TypeOK`, which the runs leave out: it is proved.

Mutants. `PROJECT.json` names for each property one change of the model, of the kind a bug in the code would be, that violates it; the definitions marked
`Mutant` are there for that only.

Why the bounds are enough. Three requests give the longest chains of waiting in the code: one that
holds the session row, one that holds an action row, one that waits. Three times allow before, equal
and after, for three events. Two energies tell charged from not charged. Four serial requests reach a session,
its report, its closing and one event of the next session. `LiveView` forgets local variables that the handler will not read again, and the event of
a request that ended without effect: states that differ only there have the same future, and no
property tells them apart. Requests are symmetric (their events are chosen on arrival); the symmetry is not used in the run
with a liveness property.

For the other modules: three closings give a rebuild, an update that continues it and one that overlaps, and `MinSessions = 2` puts both sides of
that threshold within reach; `Horizons` are two, so that lookups fall before, on, between and after them. A decision has no loop, so its one
instance is all of it; a horizon of two steps has a first and a last one. Two uploads are the fewest that mix versions, two lookups the fewest that overlap one
upload and each other. In `records` two requests at a time are the fewest that race; four in all let two log in and then act. Its seeds hold
every table between them. Two tasks are the fewest that share an artifact or end in reverse order; two vehicles at a place for one are the fewest that exceed what a station has learned to hold. `SeriesView` keeps of a series only
whether the forecasts are sound, since nothing else reads it.
A charger's requests neither read nor write the cache, so `policy_registry` (`MCSpec`, `NoneOrApart`) explores them apart from the lookups: one upload and one assignment are the fewest
that put a rejected version under an assigned name, a second request the fewest that overlap on the row. The views of
`MCClosingStats` and `MCPolicyAssignment` forget what a finished request will not use again, and keep of the clock only the order. Runs with a liveness
property (`liveness`, `decision`, `forecast_jobs`) use no symmetry.

Fairness. `WF(Handle(r))` for each request: the threads are scheduled and the database answers; a
wait for a row lock is a disabled action and ends only when the holder gives the lock up. `WF(BreakDeadlock)`: PostgreSQL
runs its detector. No fairness for `Arrive`, `Abort` or `Crash`: nothing obliges clients to send events or faults to happen.
Weak fairness suffices although a lock may be taken by others again and again, since a request takes it a bounded number of times
and requests are finitely many.
`Decision` has `WF(Handler)`: it is sequential code with time-outs on every call. `ForecastJobs` has `WF(SyncRead)` and `WF(SyncWrite)`: the beat runs the
periodic task every minute (`celery_apps/scheduler.py:31-36`); none for edits, tasks and outages.

CHECK_DEADLOCK stays on, with `Quiet` (or `AllQuiet`, `Ended`) as the only legal way to stop, except in the runs of `Records` and `ForecastJobs`: there the bounds on requests, edits
and tasks end every behaviour, and nothing in them waits for anything but a bounded number of them. (In `SessionEvents` a
request that never arrives is no deadlock either, since `Arrive` is enabled then.)

## What is proved

Every theorem holds for any value of the constants that satisfies the named `ASSUME`s, hence for any number of
requests, sessions, chargers, policies, owners and tasks, and any overlap.

| Module | Theorems |
|---|---|
| `SessionContractProofs` | `ContractIsSafe`: the contract keeps rows on their timelines, effective events on the timeline of their session, and reports distinct |
| `SessionEventsProofs` | `TypeCorrect`, `NoStaleCopy` (`CopyIsCurrent`), `HandlersImplementContract` (`ImplementsContract`), `TimelinesHold` (`TimelineOK`), `NoReportTwice` (`ReportsAreDistinct`), `TrueAnswers` (`AnswersAreTrue`), `DecisionsHaveEvents` (`ActionsHaveEvents`); for `MaxInFlight = 1`: `OneSession` (`OneActiveSession`), `ClosedSessionsAreFilled` (`ClosedIsFilled`), `FillsGoForward` (`FilledForward`) |
| `ClosingStatsProofs` | `TypeCorrect`, `StatisticsAreExact` (`StatsAreExact`), `CurvesAreOfTheirSessions` (`CurvesAreEmpirical`), `SamplesAreCountedOnce` (`EachSampleOnce`), `BatchesAreContinuedOnce` (`ContinuedOnce` while `plain`), `StatisticsGrow` (`NoRegress`), `LookupsAreCurves` (`LookupsAreDistribution`) |
| `DecisionProofs` | `TypeCorrect`, `AnswersAreFeasible` (`FeasibleAnswer`), `RowsNameTheirDecider` (`RowNamesTheDecider`), `NothingMadeUp` (`NothingIsMadeUp`), `NetLoadIsReckoned` (`NetIsDemandMinusGeneration`), `ObservationsAreDeclared` (`ObservationIsAsDeclared`), `GridIsInBalance` (`GridIsBalanced`), `OnlyAbortedRaises` |
| `PolicyRegistryProofs` | `TypeCorrect`, `RegistryImplementsContract` (`ImplementsContract`), `CachedIsAccepted` (`CacheIsAccepted`), `ServedPoliciesFit` (`ServedFits`, which no run checks apart from `ImplementsContract`), `FailuresHaveReasons` (`FailsForAReason`), `FilesComeInPairs` (`FilesArePaired`), `AssignedLoads` (`AssignedIsLoadable`) |
| `RecordsProofs` | `TypeCorrect`, `ListsAgree` (`ListAgreesWithGet`), `HistoryStays` (`HistoryIsKept`), `DeletesRemove` (`DeletesAreCarriedOut`), `RolesAreTheAdmins` (`RolesAreSetByAdmin`), `TokensStayEnded` (`EndedTokensStayEnded`) |
| `ForecastJobsProofs` | `TypeCorrect`, `SeriesHaveRightModel` (`RightModel`), `SeriesAreSound` (`ForecastsAreSound`), `ServedNeverGoesBack` (`ServedMovesForward`) |

The assumptions. `NULL` is a value of its own (`NoneIsFresh`, `NoneIsNobody`, `NullIsNoId`, ...); times, energies, thresholds and readings are
integers, durations and hours natural numbers; sessions and horizons are finite, and there is a horizon; the identities of
different kinds of requests differ. `SeedsAreStores` lets `Records` start from a database that satisfies its own constraints;
`EventsAreReadings` and `PoliciesAreAssignments` are the column types of what a decision reads, `MetersAnswer` what the
load service may return and `SensorsAnswer` what the sensors' points become (a sequence of finite maps from instants to powers). For
the forecasts, chargers are finitely many, capacities and arrivals are counts, raw predictions integers, and a session of the pool has a positive
time and a positive energy (`ev_total_forecaster.py:55` drops the others). TLC evaluates all of them on every run.

### The sessions

`CopyIsCurrent` is not inductive: it needs to know that a handler about to insert a session has not done so
yet, that whoever is past its lock has a complete row, that the action to be filled exists. `HandlersOK` says, place by place of `pc`,
what a handler may rely on, and `IInv == TypeOK /\ HandlersOK /\ CopyIsCurrent` is inductive. The proof
separates what a step does to the others from what it does to its own request. `Frame(r)`: a step of r leaves the
others' variables and locks alone, writes only rows that r has locked or inserts, and deletes nothing
(`StepFrame`, one case per action); from it alone the others keep what they rely on (`OthersStayOK`, `OthersCopiesStay`). `StepOwn` then checks, one case per
action, what r itself may rely on afterwards. With `IInv`, a commit by the lock
holder is one operation of the contract (`CommitIsEffect`), and every other step changes none of
its variables but the two that submit an event or insert a session (`StepRefines`).

The contract is small enough for a direct proof: every operation but a submission is an `Effect`, which moves one row forward to
the time of one event (`StepsHaveEffect`), and an effect keeps the invariant (`EffectStep`): a report is strictly later than everything recorded on its session, hence
distinct from every earlier report. Through the refinement these invariants hold of the handlers without
another induction over their steps.

`AnswersAreTrue` and `ActionsHaveEvents` are about what a request has done so far. `ProgressOK(r)` adds it to
the places of `pc`: it says at which places r's effect and r's action are, or are not yet, in the tables.
It is kept by every step, given `IInv`; with the contract's invariant, which puts an effective event on the timeline of its session, it gives both.

The three serial properties assume `MaxInFlight = 1`: without it they are false (`overlap_fill`, `overlap_close`). `SerialOK` adds to them that nobody else
runs, that a session has at most one action without an outcome, and, place by place (`SerialAt`), what the one handler has seen: that no row is
active when it inserts one, that its session is not later than its event, that the action it fills is the open one. An
aborted or crashed handler leaves all this as it was, which is why the properties survive failures.

### The statistics

Two inductive invariants. `IInv == Shape /\ (plain => Calm)`. `Shape` needs no discipline of the updates: rows have their
types, and every batch is a distribution, since a rebuild counts the sessions within each horizon and an online step adds one to a suffix of the
horizons (`BatchFromIsDistribution`, `NextBatchIsDistribution`). `Calm` is about *which* sessions are counted, while updates do not overlap: at
most one update is in flight, the rows of later transactions are later (`Ordered`), every committed row counts each session at most once, the
rows that are read account for every session whose update was carried out (`AccountsForAll`), and the rows
an update has staged account for its own session too, except the steps it has yet to take (`WorkOK`). The lemmas say what one step
stages (`LookStatsAdds` ... `OnlineCdfAdds`), that staging keeps the invariant (`StageOK`), and that a commit makes what was staged what is read
(`CommitOK`), an abort nothing (`RollBackOK`).

`EInv`, on top of it, says that a batch is the empirical distribution of the sessions in its bag: the samples within a horizon are
a finite set, and an online step adds one sample to it (`OneMoreSample`). `LookupsAreDistribution` follows
from `OneIsRead` (one batch is the latest) and from `CurveIs`: the interpolation between two horizons lies between their values. The extreme horizons exist
by well-ordering (`LeastExists`) and by the least bound of a finite set (`GreatestExists`), both in `FoldProofs`.

`StatsAreExact` is not inductive: the sum of the squares around a mean cannot be continued when the mean moves. `Exact(w)` says it with moments instead. If the n sessions of
a row add up to s and their squares to t, the mean is s/n and the spread (n t - s s)/n^2 (`SpreadIs`). What a fraction in lowest terms is worth is
`IsRatio`: the arithmetic only has to produce some fraction of the right worth (`LowestIs`, `Arithmetic`), and two fractions of one worth are exchanged by
cross-multiplication (`SameRatio`). Welford's step is then one polynomial identity (`ContinuedMoments`), and adds one sample to each moment (`SumOfWith`). A rebuild or an import has the
moments of a set (`MomentsOfSessions`). `ExactIsExact` goes back from the moments to the sum around the mean, which is a linear combination of three sums
over the same samples (`SumsCombine` in `FoldProofs`). An import stores a sample's deviation, so the spread is claimed only while the importer is idle (`XInv`); count and mean always.
With `XInv`, what is left of `TypeOK` are the columns of the rows (`TInv`): means and spreads are not negative, and no row is dated later than the last transaction.

### The decision

`IInv` says for each part of the handler what it has: the error is noted exactly when the primary path was left
(`ErrorOK`), a load that the features need is there or its loss is noted (`LoadOK`), what the network reads is there once an observation is (`BankOK`), the
decision is feasible and belongs to the policy that `ran` names (`DecisionOK`), and the row repeats it (`RowOK`). The lemmas about the operators carry the
content: the correction makes any decision feasible (`CorrectedIsFeasible`), an observation that
was assembled had all its features (`ObservationIsComplete`), and a bundle that was returned has what was asked for (`LoadIsComplete`). One lemma serves every way to fail (`FailsOK`) and one every way to decide (`DecidedOK`).

Two more conjuncts are about numbers: `NetIsDemandMinusGeneration`, and `ObsOK`, that an observation is laid out as declared.
The net load is a sum over meters, the vector a concatenation of slices, both by folds, and a fold is the CHOOSE of a function that satisfies a recursive equation.
`FoldProofs` shows that the equation has a solution on every finite set (`FoldExists`) and, from it, what a fold is: a sum does not depend
on the order and takes the sum of a union apart (`SumTakesAny`, `SumOf`), and a concatenation has each piece at the place where the lengths of the earlier ones put it
(`JoinedLayout`). Where one would use induction a smallest counterexample is taken instead (`SmallestSet`, `ReachesAll`), because the library's
induction theorems take an operator. In `DecisionProofs`, `CallIsMeterSum` and `NetIsDifference` then give the sum, `SlicesAreJoined` and `LayoutIs` that slices and
layout have the same lengths, and `SelectedIsLaid` the places.

`GridIsBalanced` is inductive with little beside it (`GridInv`: there are no statistics before they are fetched), and what it says is arithmetic. The boxes of time in
ascending order are a bijection of ranks and boxes (`AscendingIs`), so that adding up the series is adding up over the boxes (`SumReindexed`, `SeriesSum`);
what the sensors contribute is a table of sensors and boxes, which may be added up by its rows (`SumByRows`, `TotalsAddUp`);
and a quantile lies between the entries of the two closest ranks, which are ordered (`RankedIs`, `QuantileIs`, `QuantilesAreOrdered`). For this the model sorts by rank
(`Ascending`, in module `Ordering`, and `Ranked`) and not with a sorting operator of the library: the boxes are a set, and only the values at two ranks of the series are read.

### The registry

The files, the cache and the lookups each need the others: what a lookup reads depends on no upload being halfway, what the cache
holds on what the lookup read. `UploadsOK` says what an upload has written so far and that no two are halfway (their handlers do not await); `FilesOK` that a name
that nobody is writing has the pair accepted last, unless `damaged`; `LookupsOK` what a lookup holds at each place, unless `raced`; `CacheOK` what is cached.
Steps of a kind that leaves files alone share `BystandersKeepFiles`. What a first file overwrites may be stale, so `CacheOK` claims nothing of a name that is
being uploaded: the same upload drops what is cached before it is accepted.

The refinement needs one more invariant, `OInv`: every content on disk, in the cache or in a lookup's hands was sent under the name where it is (`OwnSteps`). With it each step of an
upload changes only its own name in the register (`UploadRefines`), and of a lookup's steps all are stutters but the answer, which reads the cache where `CacheOK` holds
(`LookupRefines`); that a name is loose whenever a step makes it `raced` is what makes the others stutter.

`AssignedLoads` is about `ASpec`, whose steps are steps of the registry, steps of the requests for the charger, or a restart of both. Its invariant says that a validated pair
which is about to be committed, or stands in the row since, is a rule or a name whose model is on disk unless the name is `damaged` (`Lasts`): accepted uploads replace a model, and all others make
the name `damaged` (`ModelsStay`). With `FilesOK`, of a name that is neither, the pair on disk loads.

### The records

`TypeOK` (keys and references included) is preserved because a commit either satisfies the constraints or changes nothing (`CommittedIsStore`); what it needs from the requests
in flight is `WritesOK` (rows of the right shape; a role only by an administrator) and `IdsAreFresh`. `HistoryIsKept`,
`DeletesAreCarriedOut`, `RolesAreSetByAdmin` and `EndedTokensStayEnded` are action properties: only a commit changes the store (`CommitEffect`), and each kind of write
removes or changes only what it names. `ListAgreesWithGet` compares the two queries table by table, using the references that `TypeOK` guarantees.

For the tokens, `TInv` says who holds and who is about to set which token: the live and the ended tokens have been issued, and a
token that a login has yet to commit and that no other login was given is nobody's: neither live nor ended, and no other request is about to write it. Each step is one lemma (`TokensLogin`, `TokensPrepared`, `TokensCommit`, ...).

### The forecast jobs

`RightModel` is inductive once it is also said of a series that a task is about to store (`TasksAccept`): the artifact on disk may be of any
kind, and `Load` checks it. `ServedMovesForward` follows since `Persist` is the only step that
serves anything, and a series replaces another only when its task started later (`Latest`).

`ForecastsAreSound` follows from the types: `TypeOK` says that a series is one of `SimSeries` or `RegSeries`, so it is a matter of what these can
yield. A state of the simulation keeps within each charger's room (`Fits`): the reconciled counts do (`ReconciledFits`), arrivals fill free slots
only (`AdmittedIs`), and a step of charging takes vehicles away, picked by their ranks (`AfterStepIs`, with `Ascending` as in the decision); so a step keeps `Fits` (`NextFits`).
The recursion over the steps is a recursive function, whose existence is proved first (`RepeatExists`), and the bounds of a row are sums compared
term by term (`RowIs`, with `SumsCompare`). `ReachesAll` takes the place of induction over the steps (`SimSeriesIs`).

### Only model-checked

- Liveness (`EveryRequestEnds`, `EveryEventIsDecided`, `EntryFollowsJob`): fairness and ENABLED are out of the prover's reach. The safety half of
  `EveryEventIsDecided` is `OnlyAbortedRaises`.
- The four violations, of course.

## Findings

1. *The last action of a session may stay unfilled* (`overlap_close`). `README.md:408` says "The last action gets `real_action` and
   `real_power_kw`". An update commits its telemetry, and with it the lock, before it inserts its action; a disconnection in between closes the session,
   and the action that is inserted afterwards is never filled.
2. *An action may be filled by an event earlier than itself* (`overlap_fill`). `orchestrator_service.py:85` says
   "Fill real_action/real_power_kw on the previous action row before creating the new one." When updates overtake each other between
   the telemetry commit and the decision, the row with the latest time is filled although it is later than the event; the negative elapsed time is
   clamped to 0.001 h (`orchestrator_service.py:452-455`), and the power computed from it is meaningless.

3. *Two updates may continue the same distribution* (`closing_stats_lock`). `duration_cdf/updater.py:126` says "Uses advisory lock to prevent concurrent update races."
   The lock ends in a `finally` (175), and the new rows are not visible before the caller commits (`events.py:523`). An update that takes the lock in between reads
   the batch that the other one has continued, and continues it, too: each of the two new batches lacks the other's session, whichever of them is read later. (The first batch
   of a charger is built without the lock; the run lets the first update end alone, so that what it shows is the path that has it.)
4. *A rejected upload removes the accepted version* (`policy_upload`). `admin_policies.py:124` says "roll back on mismatch"; the files
   of the version in use have been overwritten by then (121-122), and the rollback unlinks them (135-136).

Met while modelling, without a run of their own:

- Two assignments may save a pair that does not exist. `policy_registry.py:79-82` says "Raise ValueError if the (algorithm, policy) pair does not exist. Used by the charger
  policy-assignment endpoint to reject invalid input before it is saved". A charger with (rule_based, default) gets two PATCHes, to (ann, f) and to (rule_based, wind_max). Both read the row first, so that the second one's UPDATE names the policy
  only (`admin_policies.py:293-295`): the row ends as (ann, wind_max), and its events are decided by the default policy. `AssignedIsLoadable` exempts such a row.
- A token that was ended may become valid again. `README.md:110` (of the repository) says "logout or a new login invalidates older tokens." A login in the same second as the login before the logout
  is given the same JWT (`common/auth.py:69-75`), and with it everybody who still has the old one. `EndedTokensStayEnded` allows exactly that.
- A pilot with a forecast job cannot be deleted. `models.py:264` declares `ondelete='CASCADE'` for the job's reference, and `README.md:463` lists `DELETE` for pilots. The relationship (`models.py:58`) has no
  cascade, so SQLAlchemy sets the reference to NULL, which the column forbids, before the DELETE could cascade. Every pilot is created with a job (`database.py:398-416`); an administrator has to delete it first. `DeletesAreCarriedOut` exempts it as a row that others may not lose.
- The import puts no limit on outliers (`sessions.py:284-346`), although README.md:429 describes limits for the fleet; its standard deviation is a sample's, that of the online update a population's.
- A rebuild measures a session up to the end of its charge, an online update up to the disconnection.
- A larger, older batch stays the one that is read after the import of a smaller fleet sample.
- A failing unlock in an aborted transaction leaves the advisory lock with its pooled connection.
- A missing secret for the optional generation forecaster fails the whole policy, since only three exceptions count as "optional" (`load_forecaster_service.py:357`).
- A forecasted energy of zero divides by zero in the observation and leads to the default policy.
- After a fallback the row still carries the series that the failed policy had fetched.
- The branch for two failing policies cannot be reached: the default policy reads nothing that can be missing.
- The wind policy at little wind charges at half power even when the vehicle could only catch up at full power.
- An administrator's list contains sessions and actions without charger, which the GET by id refuses.
- An artifact of another kind than its job stays in place; every run then ends with `model_type_mismatch` until it is deleted or expires.
- A deleted job keeps its schedule entry unless pruning is switched on; with pruning, one failed read of the table removes every entry until the next minute.

## Not modelled

- The time-zone conversion, startup and seed data, and the development tools, for the reasons in `PROJECT.json`.
- The numeric learning (LightGBM regressors, feature construction, calibration) and the network's inference: a choice in the models.
- A failing write of a model file (`admin_policies.py:121`), before which nothing has changed or after which the file is neither the old nor the new one.
- Deletion of the pilot in `ForecastJobs`; a forecast job that is inserted between the ORM's reading of a pilot's children and its DELETE (it would go with the pilot).
- HTTP and Flux requests, parsing of CSV files, password hashing, encryption, validation of data-source settings: each succeeds or fails.
- The connection pool: a wait there ends in a failure, and every module has failures where a connection is needed.
- PUT on a primary key; the connection tests of data sources; endpoints that only read, beyond the access rules.
- The composition of `SessionEvents` with the administrator's edits of sessions, listed as a hazard without a property.
