# Fast Tracker: specifications, model checking and proofs

Fast Tracker (`src/`) is a time-tracking backend: FastAPI handlers over
PostgreSQL (async SQLAlchemy, READ COMMITTED), with JWT sessions in signed
cookies and a Redis client. Employees book hours per task and date in an
Excel-like sheet; the sheet is saved by one endpoint, `POST
/activity/worklog-batch`, which is the heart of the program.

This directory holds TLA+ modules translated from the source, the TLC runs
that check them, and proofs checked by TLAPS. `PROJECT.json` maps every
definition to the lines it models, and lists runs, mutants, findings, hazards
and theorems. Run a model with `tlc -workers 2 -config X.cfg M`, a proof with
`tlapm M.tla`.

## Inventory

The server is one asyncio process (or several). A request gets an
`AsyncSession` of its own (`core/database/session.py`); every `await` on the
database is a point where other requests run. Requests interact through the
tables, their locks and their unique keys, and through nothing else: no
in-memory state is shared.

| component | state | operations | interacts with | hard behaviour | correct when |
|---|---|---|---|---|---|
| Worklog batch (`services/activity.py`, `api/v1/activity.py`) | `activity_tasks`, `worklogs`, the open transaction | delete tasks, upsert each task, upsert cells, delete cells, check the day, commit | all tables, session manager | statements of two batches interleave; row and key locks, deadlocks; any statement may fail; the connection may be lost in COMMIT | a batch is all or nothing, references and unique keys hold, no day over 8 hours, every request answered |
| Accounts and sessions (`services/auth.py`, `services/session.py`, `dependencies/auth.py`, `core/security/*`) | `users`, `sessions`, the clients' cookies, the clock | register, login, refresh, logout, check of the access cookie | every endpoint behind `CurrentUser` | token seconds, two requests on one session, failures that are swallowed | a logged-out session stays out and a fresh one is accepted, as far as tokens tell sessions apart |
| Catalog (`services/activity.py:42-73`, `dependencies/activity.py`) | `activity_types`, `activities`, `activity_users`, `activity_tasks` | create activity, assign, add task, lists | batch, roles | check then insert | a task is added by assigned employees only, no assignment twice |
| Journal (`domain/activity.py:24-46`) | none | read a user's matrix for a date range | all tables | rows that joins and filters drop | what a batch saved is shown, and stays so until a batch names the cell or its task |
| Roles (`dependencies/auth.py:72-78`) | `users.role` | guard of the routes | catalog, batch, journal | equality, not order: an admin is no employee | each route has one role |
| Generic CRUD (`core/database/base.py`, `mixin.py`) | the transaction of its session | create, read, update, delete, upsert, one or many, with or without commit | everything that stores | several statements in one operation, several operations in one transaction, any of which may fail; results validated after the write | operations are published together with those since the last commit, whole, or not at all |
| Session manager (`core/database/session.py`) | engine, session maker | session, close | all requests, lifecycle | rollback and close on every path; close of the engine at shutdown | no transaction outlives its request, no request runs without an engine |
| Lifecycle (`core/setup.py`), Redis client (`redis_client/client.py`) | engine, Redis pool | start, stop | session manager, Redis | Redis that does not answer, a release that fails, one that calls itself | requests are served by what is open, and a backend told to stop stops |
| Seeder (`seed/data.py`) | all tables | six steps, each committed | migrations, backend | crash between steps, a second run | a rerun completes what is missing |
| Migrations (`src/migrations`) | the schema, `alembic_version`, all rows | ten revisions up and down | seeder, backend (which does not wait for them) | rows written meanwhile, two runs, a run killed half way, downgrades over named and unnamed constraints | the schema is that of its version, an upgrade keeps the rows, a downgrade can be made |
| Pagination (`core/pagination`, `get_many`) | none | parse filters and sorts, count and read a page | generic CRUD | operators that contain each other or stand in a value, two SELECTs per page | an accepted filter means what it says, pages show each row once |
| Settings, tests, docs | | | | | |

The hazards, each at its line with the properties that would catch it, are in
`PROJECT.json`.

## Modules

| module | what it is |
|---|---|
| `TrackerTables` | the two tables as values: rows, rounding, CHECK, unique keys, foreign key, hours of a day |
| `TaskBatch` | the body of a batch and what the service computes from it |
| `WorklogBatch` | the batch run by concurrent requests, one action per SQL statement |
| `Timesheet` | the abstract specification of the batch: one atomic step |
| `WorklogBatchProperties` | what is checked of the batch |
| `MCWorklogBatch` | instances for TLC |
| `WorklogBatchProofs`, `UniqueKeysProofs`, `TimesheetProofs` | theorems about the batch: its references, its unique keys, and that it implements `Timesheet` |
| `Tracker` | the batch composed with assignments, added tasks and journals, over the same tables |
| `TrackerProperties`, `MCTracker` | what is checked of the composition, and instances |
| `TrackerProofs` | theorems about it: what journals show, and the ways past the 8-hour limit |
| `AuthSessions` | accounts and sessions, run by concurrent requests |
| `AuthSessionsProperties`, `MCAuthSessions` | what is checked of them, and instances |
| `AuthSessionsProofs` | theorems about them |
| `Seeder` | the seeder beside the migrations, registrations and removed tasks |
| `SeederProperties`, `MCSeeder` | what is checked of it, and instances |
| `SeederProofs` | theorems about it |
| `Revisions` | the ten revisions as changes of a schema |
| `SchemaChain` | the abstract chain: the schema of every version, and that of the models |
| `Migrations` | alembic runs over tables with rows |
| `Lifecycle` | the backend process, its engine, Redis client and request sessions |
| `Deployment` | `Migrations` and `Lifecycle` composed: requests write while revisions are made |
| `DeploymentProperties`, `MCDeployment` | what is checked of a deployment, and instances |
| `MigrationsProofs` | theorems about it |
| `Records` | a table with a unique key and what transactions have written of it |
| `UnitOfWork` | the abstract specification of a request's session: units, published or dropped |
| `Repository` | the generic operations, run by concurrent requests, one action per statement |
| `Pagination` | filters, sorts and pages as operators |
| `Listing` | a client that asks for page after page, over the table of `Repository` |
| `RepositoryProperties`, `MCRepository` | `Repository` and `Listing` composed, what is checked of them, and instances |
| `RepositoryProofs` | theorems about them |

### WorklogBatch

`tasks` and `worklogs` are the committed tables. A request slot `r` has a step
`pc[r]`, its user and batch `job[r]`, the ids `current_task` took so far
(`current[r]`), and the rows its open transaction has written (`wtasks[r]`,
`wlogs[r]`). A statement sees the committed rows overlaid with its own
(`TaskView`, `LogView`); a row another open transaction has written is locked,
and so are the unique keys of its old and new version.

| action | code |
|---|---|
| `Begin` | the route, with the employee's batch |
| `DeleteTasks` | the bulk DELETE and the foreign key's SET NULL; a null `deletions` raises |
| `UpsertTask`, `TasksDone` | the loop over the tasks, one INSERT ... ON CONFLICT per task |
| `UpsertLogs` | one INSERT ... ON CONFLICT for all cells, row by row against the unique key |
| `DeleteLogs` | the DELETE of cleared cells and the validation of the rows it returns |
| `CheckLimit` | the sum over `affected_dates`, which is that of the last task |
| `Commit`, `Rollback` | the two ends of `SessionManager.session()` |
| `DeadlockVictim`, `ConnectionLost` | PostgreSQL ends a deadlock; a connection breaks at any step, also in COMMIT with an unknown result |

Abstractions. A statement that must wait runs, in one step, when its wait is
over; its partial locks while it waits are not modelled, the transaction's are.
A key a transaction gave up within itself (an intermediate version of a row) is
not held. Durations are hundredths of an hour when sent and tenths when
stored. What is sent is a double, and the driver hands over its exact value, which
the column rounds, a half up: a decimal half is stored a tenth lower where the double
nearest to it lies below it (`Stored`, with the doubles' spacing from half an hour on). An
omitted duration is 0, since the code treats both
alike where the validator lets them through. Ids of deleted rows may be used
again, so that later batches can name rows the database made. The response and
the journal's `created_at` order are left out.

### Tracker

`Tracker` extends `WorklogBatch`: its next-state relation is that of the batches,
or a step of another request on the same tables. `assigned` are the rows of
`activity_users`; a client slot `c` keeps in `call[c]` what its request has read
and will use in its next statement.

| action | code |
|---|---|
| `Assign` | `POST /assign`: the INSERT and its COMMIT |
| `ValidateActivity` | the SELECT of `validate_activity`, behind which a task is added |
| `InsertTask` | the INSERT and the COMMIT of the task; or the request's failure |
| `ReadTasks`, `ReadLogs` | the two SELECTs of a journal: the tasks of the user's activities, then their worklogs in the date range |

Abstractions. An added task's INSERT and COMMIT are one step: nobody sees the
row between them, and a transaction that meets its key waits. A request that is
refused (401, a second assignment, a title that is taken) changes nothing.
`create_activity` always fails, since it passes `expected_hours_monthly` to a
model without that column, so `Activities` is a constant. Of a journal the rows
are kept, not their order and layout. The lists (activity types, activities,
tasks of an employee) read once and change nothing; the role guards compare
`users.role`, which no endpoint changes. They are left out.

### AuthSessions

`now` counts seconds, the unit of `iat` and `exp`. A session row keeps its
user, the second of its tokens and whether it is active; the hashes are
determined by the user and the second, so they are not kept. `cookies` are the
pairs a client was given: the tokens, the second they were signed in, the
session they came with. Three history variables serve the properties only:
`replaced` (sessions whose refresh or logout was asked for), `loggedOut`
(sessions whose logout was answered with 204) and `swallowed` (those of them whose
logout had failed). Nothing keeps two sessions of a user out of one second, so
their tokens may be the same; a lookup then finds any of their rows (`RowsOf`).

Each request is a sequence of awaits: `RegisterSelect`, `RegisterInsert`,
`RegisterCommit`; `LoginSelect` or `RefreshSelect`, then `SessionCommit` (the
UPDATE of the old row and the INSERT of the new one are flushed together and
committed), then `Answer` (the cookies are signed and sent); `LogoutSelect`,
`LogoutCommit`; `MeSelect`. A refused cookie or token answers before the first
await. `DatabaseFails` fails any statement or commit: `logout_from_session`
swallows the exception and the client gets 204, everywhere else it gets an
error.

Abstractions. Both tokens of a session are made in the same second, and both
cookies are signed in the same second; a pair that straddles a second collides
in one of its two tokens instead of both. `get_current_user` reads the session
and the user: the second read never refuses, since nothing clears
`users.is_active` or deletes users. The model has one clock.

### Seeder

A slot `s` runs one seeder after another: `Start`, then `SeedAdmin`,
`SeedEmployees`, `SeedTypes`, `SeedActivities` (two commits), `SeedAssignments`,
`SeedTasks`. Each is one `INSERT ... ON CONFLICT` with its commit, and takes
effect as a whole: the rows of a key wait for each other, and all seeders insert
in one order. `known[s]` are the users its upserts returned, which the later
steps use. `Crash` ends a seeder between two commits; `NoTable` is a statement
before `Migrate` (one transaction for the whole chain). `Register` takes a
seeded email, and `RemoveTask` stands for a batch that deletes or renames a
seeded task.

Only the last step can fail on data: it inserts its tasks under new ids, so
that `ON CONFLICT (id)` never applies, and a title that is there already
violates `uq_title_activity_id`.

Abstractions. The columns an upsert overwrites besides the role (name, password,
flags, the id of an assignment) are left out. Titles of the employees' own tasks
are taken to differ from the seeder's. The test for empty lists
(`seed/data.py:122`) never applies, since every upsert returns all its rows.

### Deployment

`Revisions` has one operator per revision file and direction, made of the
operations of `alembic.op`; an operation that cannot be made leaves a schema with
the status "refused". `Migrations` keeps the committed `schema`, `version` and
`rows`; `run[m]` is an open alembic run with its target and the schema it has
reached. `Lifecycle` keeps the phase of the process, its engine, whether the Redis
client is set, and which requests have a session.

| action | code |
|---|---|
| `Start`, `Revise`, `CommitRun` | `alembic upgrade` or `downgrade` to a version: the transaction of `env.py`, one revision file after another, the UPDATE of `alembic_version` |
| `RollbackRun` | a refused revision, or a runner that is killed |
| `SaveTask`, `SaveLog`, `RemoveTask` | the statements of requests, with their commits, as the schema of the moment allows them |
| `AddActivity` | the seeder's upsert of activities; no request adds one at the head, where `create_activity` passes a column that the model does not have |
| `Boot`, `Connect`, `Signal`, `CloseEngine`, `Disconnect`, `Exit`, `Killed` | the two halves of the lifespan, between the import of the application and the end of the process |
| `OpenSession`, `CloseSession` | `SessionManager.session()` around a request |

Abstractions. Of the schema the columns, constraints and types are kept that
some revision changes. A revision is one step, taken when it can be made on the
rows of that moment and they obey the schema it leads to; `CommitRun` converts the
rows that are committed by then. The first revision of a run updates the row of
`alembic_version`, for which others wait, and each locks the tables it alters until
the run ends (`Locked`). Requests write rows that any schema on the way has allowed
(another version of the backend may run), and commit each statement. A request
ends without an answer when the process does. `connect()` leaves its client set
after a failed ping, so `Connect` has one outcome. `disconnect()` awaits itself:
`calls` counts the calls that have not returned, up to Python's limit
(`RecursionLimit`, a bound of the runs), where the innermost one raises
RecursionError, which the `except` of a call outside it logs; then they return.

### Repository and Listing

A session `s` makes the calls of `program[s]` one after another. `pending[s]` is
what its transaction has written, `done[s]` counts the statements of the running
call, and `before[s]` is a history variable for the refinement. A statement sees
the committed table overlaid with `pending[s]` (`View`) and waits for rows and keys
that others have written (`Free`).

| action | code |
|---|---|
| `Begin` | an operation up to its first statement: empty lists are answered at once, without commit; a missing `where_clause` or value raises |
| `Execute` | one statement: `Effects` has those of create, create_many (a batch), update_one, update_many_by_id (a row), update_many_by_whereclause, delete_one, delete_many, upsert_one, upsert_many |
| `CommitCall`, `CommitLost` | `session.commit()` when the call asks for it, answered or not |
| `Answer`, `ReadBack` | the end of an operation: `None` is validated, not found or returned; update_many_by_id selects its rows again |
| `Fail` | an exception of a statement |
| `End` | rollback and close by `session()` |

Abstractions. A table has an id, a key (its only unique column, and the index
element of upserts) and a nullable value; a `where_clause` is the set of ids it
selects. After the first error PostgreSQL ends the transaction, whatever the code
does next, so `Fail` drops `pending[s]` in one step. Ids that are free may be used.
Whether a call asks for its result as it is (`return_as_base`) is left open, so a
result of `None` may raise or not. `exists` and `get_one` change nothing.
`update_many_by_id` with conditions is SQLAlchemy's bulk UPDATE by primary key; the
pinned version (2.0.41, `uv.lock`) takes WHERE criteria beside it when
`synchronize_session` is None, as `base.py:561` passes it, and sends one UPDATE
per row. A row the criteria leave out is not matched, which `Fail` covers. The
services call create, get_one, upsert_one, upsert_many and delete_many only;
the others are modelled as the class offers them.

`Pagination` reads a pair of `filter_by` as the sequence of the pieces between its
`__`, which do not begin with `_`. Texts are compared by their place in the order
of texts; which texts are numerals or contain each other are constants. `Verdict`
gives the answer of the validators in their order (400, 422, or 500 where the
exception is raised with an argument it does not take). `Listing` has the two
SELECTs of a page, `Count` and `ReadPage`, each of what is committed when it runs;
a sort that leaves rows equal leaves their order open, anew for each page
(`Arrangements`).

## Runs

| run | what it shows |
|---|---|
| `batches_together` | Two concurrent batches of one user, out of twelve: edit, move, clear, swap, delete and recreate, opposite orders, an hour more, and four that fail. Types, references, `WritesHeld`, unique keys; the batch implements `Timesheet`; orphans stay; a day passes 8 hours in two ways only; every batch is answered, although batches wait for each other and deadlock. |
| `tracker_together` | Batches of two users, or two of one, beside assignments, added tasks and journals: unique keys; what a batch saved is what the journal shows, and stays there until a batch names the cell or its task; between the two reads of a journal what it shows changes by such batches, or the reader's own, only. |
| `daily_limit_race` | Violated: two batches of one user each check the day before the other commits, and 9.1 hours on it pass. |
| `daily_limit_two_tasks` | Violated: `affected_dates` is overwritten by each task, so 9 hours on a date pass. |
| `no_orphans` | Violated: a bulk DELETE bypasses the ORM cascade; hours stay without a task. |
| `deletions_succeed` | Violated: a batch of deletions only raises UnboundLocalError at the limit check. |
| `sessions_together` | Two requests of one user, with tokens that collide and statements that fail: an email is registered once, a refresh is answered only after both rows are stored, a revoked session stays revoked; a session is refused only if its refresh or logout, or that of another with the same tokens, was asked for; after a logout its cookies are accepted only if it failed silently, or another session has the same tokens. |
| `logout_failure` | Violated: a logout that fails is answered with 204. |
| `seeder_reruns` | Two seeders, four runs, two crashes: a run that completes leaves everything; only a run after a complete one, or before the migrations, fails; of two seeders together one completes. |
| `deployment` | Two alembic runs, up or down, refused or killed anywhere, beside a backend that starts, writes, stops and is killed: the schema is always that of `alembic_version`, at the head that of the models; an upgrade changes no task and no worklog; requests have an engine and a Redis client; a backend told to stop stops. |
| `downgrades` | Violated: the downgrades of `49987cbed3c3` and `21ce19e90146` drop a constraint without naming it, so they always raise and no run passes them. |
| `repository` | Two requests of up to three generic operations each, or one beside a client that pages through the table: the operations implement `UnitOfWork`; an accepted filter is read as it is written; with a total order the pages of a quiet table show each row once, and with any order as many rows as `total_records` says. |

The passing runs assume nothing that the code does not: the ways past the daily limit,
the collisions of tokens and the silent failure of a logout are in them, and their
properties say what holds nevertheless. What the code, a docstring or a model says
and does not hold has a violated run of its own.

Bounds. Two requests in flight are enough for every conflict between
statements, which are pairwise; three tasks and three worklogs leave room for
two existing rows and a new one, or for two requests that each create one. Two
dates and one activity suffice, since keys compare for equality only. Batches
come from a fixed list, chosen so that each branch of the service and each kind
of conflict is reached; ids are enumerated by the model, so a batch may meet
the rows, or not. `RoomFor` starts a request only while ids are left for the
rows it may make; `MaxPerUser` bounds a user's requests in flight: two, so that one
can overtake the other. In `batches_together` a day is passed in each of the ways that
`PassedTheLimit` names: by a batch that was overtaken (`Edit` and `HourMore`), and by one
whose first task's dates are not checked (`Forth`, `Back`). `tracker_together` has one date, two batches in flight and one other request,
which is enough for a step of each between any two of the other's; `SpareTask`
keeps an id for every task a batch in flight may make. In `AuthSessions`,
`MaxTime` stops the clock, `RoomForOne` keeps session ids for the requests under
way, three of them, so that two sessions of one second meet a third; one email is enough,
since no statement relates two users; lives of one and two seconds let cookies
and tokens expire within the clock. Slots, users and session ids are used
symmetrically, and SYMMETRY is on in safety runs only. In `Seeder`, four runs
let two seeders overlap and each be started again after a crash; two employees
and two projects make a partial upsert visible; three user ids are as many as
there are emails. `Seeder` stops when all its runs are used up. In `deployment`, two
tasks are enough to break a unique key and one worklog to lose its task or its
tenths; `RecursionLimit` is two, since the calls of `disconnect` differ in being the
outermost, the innermost or neither; `Targets` has a version on each side of every revision that refuses rows
or cannot be undone, and runs between them pass the others. In
`repository`, two sessions suffice, since waits are pairwise; batches of one
row give create_many several statements; three rows and pages of one or two give
full, partial and empty last pages; the texts have an operator in one of them
(`eq__b`), and the operators contain each other (`gt` in `gte`). The programs
call every operation, and all pairs of them meet; a listing meets one writer, since
it reads what is committed only. `CHECK_DEADLOCK FALSE` is said there because
requests and listings end.

Fairness. `FairSpec` has strong fairness of each request's `Advance`: the event
loop resumes a coroutine whose statement was answered, PostgreSQL queues the
waiters of a row and wakes them in turn (so a statement that is possible again
and again is not passed over for ever), and it breaks deadlocks by itself.
Nothing forces clients to send requests or connections to break. In `Seeder`
the migrations, a first start and the steps of a seeder are weakly fair: the
containers are started once and their processes run. `OneCompletes` speaks of
seeders that do not crash any more, and nothing is fair about a second start: a
seeder that failed for want of tables stays failed (`restart: "no"`). In
`Deployment` the second half of the lifespan, the exit of a process whose lifespan
is over and the end of a request are weakly fair: the event loop resumes
coroutines, and uvicorn exits. Nothing is fair about signals, alembic runs or
statements.

## Proofs

`WorklogBatchProofs` proves, for any finite set of requests and worklog ids and any tables
and batches allowed by `TablesAssumption` and `BatchAssumption`:

- `TypeCorrect`: `Spec => []TypeOK`. `TypeOK` alone is not inductive: that a
  cell's row has a task id needs `Phase`, which ties `pc` to `job` and to the
  length of `current` (the loop is over when the cells are written).
- `WritesAreHeld`: `Spec => []WritesHeld`, where `WritesHeld` is `Locks` (a row
  has one uncommitted writer at most) and `Owned` (a transaction has written
  the task of every worklog it has written).
- `TasksOfWorklogsExist`: `Spec => []ReferentialIntegrity`. The inductive
  invariant is `IInv == Typed /\ Locks /\ Owned /\ ReferentialIntegrity`. The
  interesting step is `Commit` (lemma `CommitRefs`): r's rows become visible to
  q, and q's view stays sound because q holds the tasks of the worklogs it has
  written, and cannot have deleted a task r has written.

The lemmas follow the actions: `TypedStep`, `LocksStep`, `OwnedStep`,
`RefsStep` have one step per action.

`UniqueKeysProofs` proves `KeysStayUnique`: `Spec => []NoDuplicates`. Each statement
checks a key against its own transaction's view only, so that the tables have
distinct keys is not inductive. `KeysInv` adds that every view has distinct keys
and that no two open transactions have written rows of one key (`TaskKeysHeld`,
`LogKeysHeld`): a commit (`CommitTaskKeys`, `CommitLogKeys`) then meets no row of
its key in another view. The step that takes new keys is `UpsertLogKeys`: rows of
one statement differ because each is compared with those before it
(`CellsOrdered`), with the others' because the statement waits for their keys.

`TimesheetProofs` proves, from the inductive invariant
`SaveInv == IInv /\ KeysInv /\ UnderWay`:

- `BatchesSaveAtomically`: `Spec => SavesAtomically`, the refinement of `Timesheet`.
  `UnderWay` says of every request what it has in store at each step: the tasks it has
  written are those it went through, as the last item that names each says, and
  those its DELETE took (`TasksWritten`); its worklogs are those that lost their task
  (`Orphaned`) and its cells under the ids `f` the upsert gave them (`Placed`). Other
  requests leave this alone (`UnderOthers`), because a transaction holds the tasks its
  worklogs refer to: nobody commits a worklog of a task that r has deleted. So a commit
  (`CommitSaves`) is one `Save`, of the ids `current[r]` and `f`, which removes the
  tasks `Removed(r)` and clears the cells `Cleared(r)`; every other step is a stutter
  (`OnlyCommits`).
- `OrphansAreKept`: `Spec => OrphansStay`, from the same invariant.

`TrackerProofs` proves, beside any assignments, added tasks and journals:

- `TrackerTypeCorrect`, `TrackerTasksExist` and `TrackerKeysStayUnique`:
  `TrackerTypeOK`, `ReferentialIntegrity` and `NoDuplicates` are invariants of
  `TrackerSpec`. An added task has an unused id and a key nobody holds, so it
  changes the batches' views by one row (`InsertKeeps`, `InsertKeepsKeys`).
- `SavedCellsAreShown`: `TrackerSpec => SavedIsShown`. `Saves` follows a request
  through its steps: the tasks it went through are its user's from then on, and
  every cell it does not clear as well is a row it has written. Only a commit
  answers "ok" (`OkByCommit`), and it publishes these rows.
- `NoOtherWayPastTheLimit`: `Spec => PassedTheLimit`, and `TrackerHasNoOtherWay`:
  `TrackerSpec => PassedTheLimit`, for any batches and any `MaxPerUser`. What
  `CheckLimit` has found (`CheckPasses`) is still true when the request commits unless
  another batch of the user was committed in the meantime (`Overtaken`, `CheckStays`):
  by `SaveInv` a commit leaves the rows of other users as they were, or without a task
  (`CommittedRow`). For the same reason a day comes to hold more by a commit of its user
  only, and by one that checked the day only if it was overtaken (`BookedMore`).
  `daily_limit_race` and `daily_limit_two_tasks` show both ways; the theorem says there
  is no third. A sum over rows is brought into reach of the
  provers as a cardinality: the hours of a date are the set of pairs of a worklog and
  one of its tenths (`Tenths`), so that fewer hours are a subset. That the
  fold by which the sum is defined is this cardinality follows from a smallest set on
  which the two would differ.
- `JournalCellsStay`: `TrackerSpec => SavedStaysShown`, and `JournalsHoldStill`:
  `TrackerSpec => JournalHoldsStill`, from `SaveInv`, which holds beside the other
  requests too (`TrackerSaveNext`). A commit changes a worklog that is there only if its
  batch names it or deletes its task (`LogChanged`), and a task only if its batch names
  it (`TaskChanged`); every other step of the tracker leaves worklogs and tasks that are
  there alone (`StepTables`).

`AuthSessionsProofs` proves, for any emails, requests, lives and clock:

- `TypeCorrect`: `Spec => []TypeOK`, by `Typed`, which adds to `TypeOK` what a
  job holds at each step (`Fits`).
- `RevokedStaysRevoked`: `Spec => RevokedForGood`, from `RowsKept`, which lemma
  `RequestStep` proves of every step together with `Typed`.
- `RotationIsCommitted`: `Spec => []RotationCommitted`. A request comes to be
  answered by `SessionCommit` only (`AnswerAfterCommit`), which stores both rows
  (`CommitRotates`), and no other request undoes them (`RotatedStays`).
- `RegisteredAtMostOnce`: `Spec => RegisteredOnce`. `RegisterInv` says that an
  uncommitted insert is the only one of its email and that the email has no
  row; the unique index makes a second insert wait, and refuses it after.
- `FreshStaysAccepted`: `Spec => FreshSessionAccepted`. The invariant is `SessionsInv`: a
  cookie's tokens are those of a stored session (`Backed`), a request that will revoke a
  session holds the tokens of one whose refresh or logout was asked for (`Holds`), and a
  revoked session has such tokens (`OnlyAskedRevoked`). What a lookup finds has the
  tokens of the cookies (`RowsAlike`), though it may be another session of the same second.
- `LoggedOutRefused`: `Spec => LoggedOutLetIn`. `LogoutInv` adds that a logged-out session
  is revoked, or excused (`OutIsRevoked`, `ExcusedBy`): its logout failed silently, or
  another session has its tokens; and that a request which came after the logout gets past
  the lookup only then (`Late`).

Neither has a hypothesis: tokens may collide and any statement may fail. `logout_failure`
shows the first exception of `LoggedOutLetIn`.

`SeederProofs` proves, for any emails, projects, ids, seeders, runs and
crashes, from `IInv == TypeOK /\ Accounts /\ Whole /\ \A s : Left(pc[s], known[s])`:

- `TypeCorrect`: `Spec => []TypeOK`. It needs `Left`, since an assignment of a
  user the seeder does not know would be none.
- `InterruptedCanComplete`: `Spec => RerunCompletes`. Only `SeedTasks` can clash,
  and `Whole` says that there are no tasks unless a run has completed.
- `CompletedIsWhole`: `Spec => DoneMeansSeeded`. `Left` collects what each step
  has committed; `Accounts` says that the ids a seeder knows stay those of the
  accounts (lemma `SeedUsersEffect`), so that others' steps keep it (`LeftStays`).

`MigrationsProofs` proves, for any rows, runners, targets and requests:

- `UpgradeReaches`: a revision leads from the schema of the version before to that
  of its own, as `SchemaChain` gives it; and `DowngradeReturns`: its downgrade leads
  back, or is refused as a whole, which those of `21ce19e90146` and `49987cbed3c3`
  always are, since the constraint they drop has no name they know. A
  refused change stays refused (`RefusedStays`).
- `RunsKeepTheChain`: `Spec => []MigrationsInv`, where `MigrationsInv` says that
  an open run has the schema of the version it has reached and that the row of
  `alembic_version` has one holder, which alone can commit a change. With it
  `SchemaIsByVersion` and `HeadHasModels` (`[]SchemaByVersion`, `[]HeadIsModels`).
- `RequestsAreServed` (`Spec => []RequestsServed`), from `LifeInv`, which
  ties the engine and the client to the phase; and `DeploymentTyped`.
- `UpgradesKeepRows`: `Spec => UpgradeKeepsRows`, from the inductive invariant
  `FitsInv == MigrationsInv /\ RowsObeySchema /\ RunsFit`. The committed rows obey the
  committed schema (`RowsObeySchema`, which PostgreSQL sees to). `RunsFit` says that the rows
  of the moment, once converted, fit the schema that an open run has reached. Requests
  write meanwhile, as the committed schema allows them; what they may still
  write is of tables the run has not altered (`Locked`), on which the two schemas say
  the same. An upgrade rounds nothing: no version with whole hours follows one with
  tenths, and the rows of a version are rounded already as it says.

`RepositoryProofs` proves, for any table, sessions, programs and queries:

- `AllowedIsReadAsWritten`: if the field a pair is split at is allowed, it is the
  first piece and the operator is the second, whatever operators follow in
  the value; hence `FiltersReadAsWritten`: `Spec => []AcceptedReadAsWritten`.
- `RepositoryTypeCorrect`: `Spec => []TypeOK`, with the statements each call has left.
- `SessionsStayApart`: `Spec => []IInv`. `IInv` adds to the types that no two
  sessions have written one row or hold one key (`Apart`), that every view has
  unique keys (`Unique`), and that a call adds to what the calls before it have
  written (`Grows`).
- `PublishesWholeUnits`: `Spec => WorksInUnits`, the refinement of `UnitOfWork`.
  `unit[s]` is `before[s]` while a call has statements left, and `pending[s]`
  otherwise; only `CommitCall` and `CommitLost` publish, when no statement
  is left, and by `IInv` what they publish overlaps with no other session's.

- `PagesShowEveryRowOnce`: `Spec => []PagesPartition`, and `PagesShowAsManyAsCounted`:
  `Spec => []CountMatchesPages`, from `PagesAreCutInOrder`: `Spec => []PagesInv`. As
  long as the table has not changed, each page that was shown is the page of its number
  in some order of the rows, and a next page was asked for only while rows were left.
  The places of the pages are in one-to-one correspondence with the numbers up to the
  number of rows (`PlaceOf`, `OnePlace`, `PositionsCount`), which gives the count for
  any order; when the sort fields tell rows apart there is one order only
  (`OneArrangement`: at the first place where two orders differ, each would have the
  other's row later), so each row has one place.

The assumptions are those on the constants, each named in the module that declares
them: that the sets of ids, requests and rows are finite or typed as the tables are,
and that marks such as `Null`, `NoRow` and `Unwritten` are not rows (`RowsAssumption` in
`Migrations`, `TablesAssumption` in `TrackerTables`, `BatchAssumption` in
`WorklogBatch`). TLC evaluates them in the runs of the modules
that extend theirs.

Every safety property that a passing run checks is proved. Only model-checked is
liveness (`Answered`, `OneCompletes`, `Stops`): it rests on fairness, hence on ENABLED,
which the prover does not reason about. The violated properties (`DailyLimit`,
`NoOrphans`, `DeletionsSucceed`, `LoggedOutStaysOut`, `DowngradesCanBeMade`)
have counterexamples instead.

## Not modelled

- Roles: the guards compare `users.role`, which no endpoint changes, with the
  role of the route, in the read that finds the user. The seeder's write of it is
  in `Seeder`.
- The lists of the catalog (activity types, activities, tasks of an employee):
  one read each, of what is committed.
- Exception handlers: a table from exceptions to answers, without state.
- Redis `get`, `set`, `delete`, `exists`: nothing calls them, and they change
  nothing in the program.
- The conversion of floats, booleans and dates in filters: parsing by Python's
  own types; that of integers and texts stands for it.
- The pool of database connections: its limit is a default of SQLAlchemy and set
  nowhere in the code.
- Settings, CORS, response models and their aliases, logging, password hashing,
  Docker files, tests.

Hazards that no property covers are listed in `PROJECT.json` with the reason. Some
behaviours are in the models as the code has them, without a property, since
nothing says what they should be: the pattern of `not_ilike` has no `%` at its end
(`operator.py:75`); a value that cannot be converted ends in 500, as
`BadRequestException` takes no `detail` (`base_parser.py:55`, `factory.py:80`);
`update_many_by_whereclause` without a clause changes every row (`base.py:591`);
and `update_many_by_id` may raise after its commit, when it reads its rows again
(`base.py:566`).
