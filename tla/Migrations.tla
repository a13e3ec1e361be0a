----------------------------- MODULE Migrations -----------------------------
(***************************************************************************)
(* Alembic runs over tables that hold rows: "alembic upgrade head" of the  *)
(* migration container, and the upgrades and downgrades of developers.  A  *)
(* run reads alembic_version, makes its revisions in one transaction       *)
(* (src/migrations/env.py), and each revision ends with an UPDATE of       *)
(* alembic_version that must find the version the run came from.           *)
(*                                                                         *)
(* A revision is one step.  It takes effect if its changes can be made and *)
(* the rows obey the schema it leads to.  From the first UPDATE of         *)
(* alembic_version on, another run's waits; the tables a run has altered   *)
(* are locked until its end.                                               *)
(***************************************************************************)
EXTENDS Revisions

CONSTANTS
    Runners,      \* processes that run alembic
    Targets,      \* versions that runs are started for
    Durations,    \* worklogs.duration as sent, in tenths of an hour
    Idle

VARIABLES
    schema,       \* the committed schema
    rows,         \* the committed rows, by table
    version,      \* alembic_version
    run           \* run[m]: the open run of m, or Idle

database == <<schema, rows, version, run>>

TaskRow == [title : Titles, activity_id : ActivityId \cup {Null}, user_id : Users \cup {Null}]
Tenths == 10 .. 80
LogRow == [date : Dates, duration : Tenths, activity_task_id : TaskId \cup {Null}, user_id : Users]

\* An activity's row keeps whether it has a value for expected_hours_monthly.
Rows == [activities : [ActivityId -> {NoRow, "hours", "no hours"}],
         tasks : [TaskId -> TaskRow \cup {NoRow}],
         logs : [LogId -> LogRow \cup {NoRow}]]

NoRows == [activities |-> [a \in ActivityId |-> NoRow], tasks |-> [t \in TaskId |-> NoRow],
           logs |-> [w \in LogId |-> NoRow]]

\* NoRow is a marker, never a row.
ASSUME RowsAssumption == NoRow \notin {"hours", "no hours"} \cup TaskRow \cup LogRow

(***************************************************************************)
(* The rows a schema allows.                                               *)
(***************************************************************************)
\* No two rows agree on the columns of a constraint; nulls are distinct.
Distinct(table, uniques) ==
    \A u \in uniques : \A i, j \in DOMAIN table :
        i # j /\ table[i] # NoRow /\ table[j] # NoRow =>
            \E c \in u.columns : table[i][c] # table[j][c] \/ table[i][c] = Null

On(s, table) == {u \in s.uniques : u.table = table}
Allows(s, column, value) ==
    CASE s.columns[column] = "required" -> value # Null
      [] s.columns[column] = "nullable" -> TRUE
      [] s.columns[column] = "absent" -> value = Null

Refers(s, column, value, target) ==
    (\E k \in s.fkeys : k.column = column) /\ value # Null => target[value] # NoRow

ActivitiesObey(db, s) ==
    \A a \in ActivityId :
        /\ db.activities[a] = "hours" => s.columns["activities.expected_hours_monthly"] # "absent"
        /\ db.activities[a] = "no hours" => s.columns["activities.expected_hours_monthly"] # "required"

TasksObey(db, s) ==
    /\ \A t \in TaskId : db.tasks[t] # NoRow =>
         /\ Allows(s, "activity_tasks.activity_id", db.tasks[t].activity_id)
         /\ Allows(s, "activity_tasks.user_id", db.tasks[t].user_id)
         /\ Refers(s, "activity_tasks.activity_id", db.tasks[t].activity_id, db.activities)
    /\ Distinct(db.tasks, On(s, "activity_tasks"))

\* numeric(1,0) and smallint hold whole hours.
Rounded(s, d) == IF s.duration \in {"smallint", "numeric(1,0)"} THEN ((d + 5) \div 10) * 10 ELSE d

LogsObey(db, s) ==
    /\ \A w \in LogId : db.logs[w] # NoRow =>
         /\ Allows(s, "worklogs.activity_task_id", db.logs[w].activity_task_id)
         /\ Refers(s, "worklogs.activity_task_id", db.logs[w].activity_task_id, db.tasks)
         /\ db.logs[w].duration = Rounded(s, db.logs[w].duration)
    /\ Distinct(db.logs, On(s, "worklogs"))

Obeys(db, s) ==
    /\ ~Created(s) => db = NoRows
    /\ ActivitiesObey(db, s) /\ TasksObey(db, s) /\ LogsObey(db, s)

\* What a revision makes of the rows: dropped columns and tables go with their
\* values, and durations take the new type.
Converted(db, s) ==
    IF ~Created(s) THEN NoRows ELSE
    [activities |-> [a \in ActivityId |->
        IF db.activities[a] # NoRow /\ s.columns["activities.expected_hours_monthly"] = "absent"
        THEN "no hours" ELSE db.activities[a]],
     tasks |-> [t \in TaskId |->
        IF db.tasks[t] # NoRow /\ s.columns["activity_tasks.user_id"] = "absent"
        THEN [db.tasks[t] EXCEPT !.user_id = Null] ELSE db.tasks[t]],
     logs |-> [w \in LogId |->
        IF db.logs[w] # NoRow THEN [db.logs[w] EXCEPT !.duration = Rounded(s, @)] ELSE db.logs[w]]]

SchemaType ==
    [status : {"ok", "refused"},
     columns : [Columns -> {"absent", "required", "nullable"}],
     uniques : SUBSET {TitleKey, ActivityTaskTitle, ActivityIdUserId, TitleUserId,
                       TitleActivityId, UserTaskDate},
     fkeys : SUBSET [column : Columns, ondelete : {"CASCADE", "SET NULL"}],
     duration : {"absent", "smallint", "numeric(1,0)", "numeric(3,1)"}]

Versions == 0 .. HeadVersion

ASSUME TargetsAssumption == Targets \subseteq Versions
ASSUME DurationsAssumption == Durations \subseteq Tenths

Run == [from : Versions, at : Versions, to : Versions, schema : SchemaType]

MigrationsTypeOK ==
    /\ schema \in SchemaType
    /\ rows \in Rows
    /\ version \in Versions
    /\ run \in [Runners -> Run \cup {Idle}]

MigrationsInit ==
    /\ schema = EmptySchema
    /\ rows = NoRows
    /\ version = 0
    /\ run = [m \in Runners |-> Idle]

(***************************************************************************)
(* Alembic.                                                                *)
(***************************************************************************)
\* m has updated alembic_version, and keeps its row until the run ends.
HoldsVersion(m) == run[m] # Idle /\ run[m].at # run[m].from

\* The tables revision v alters; a foreign key also locks the table it refers to.
AlteredBy(v) ==
    CASE v = 1 -> Tables
      [] v \in {2, 3} -> {"activity_tasks", "worklogs"}
      [] v \in {4, 7, 9} -> {"activity_tasks"}
      [] v \in {5, 10} -> {"worklogs"}
      [] v = 6 -> {"activity_tasks", "activities", "activity_users"}
      [] v = 8 -> {"activities"}

Made(r) == {v \in Versions : (r.from < v /\ v <= r.at) \/ (r.at < v /\ v <= r.from)}
Locked == UNION {AlteredBy(v) : v \in UNION {Made(run[m]) : m \in {n \in Runners : run[n] # Idle}}}

Start(m, to) ==
    /\ run[m] = Idle
    /\ to # version
    /\ run' = [run EXCEPT ![m] = [from |-> version, at |-> version, to |-> to, schema |-> schema]]
    /\ UNCHANGED <<schema, rows, version>>

\* Mutant: a downgrade counts up.
NextAt_Up(r) == r.at + 1

\* The schema after the next revision of r, in the direction of its target.  The
\* first revision waits for other runs, and then sees what they have committed.
NextAt(r) == IF r.from < r.to THEN r.at + 1 ELSE r.at - 1
NextSchema(r) ==
    LET s == IF r.at = r.from THEN schema ELSE r.schema
    IN  IF r.from < r.to THEN Upgrade(r.at + 1, s) ELSE Downgrade(r.at, s)

\* The UPDATE of alembic_version finds no row when another run has moved it.
VersionMatches(r) == r.at = r.from => version = r.from

Revise(m) ==
    /\ run[m] # Idle /\ run[m].at # run[m].to
    /\ \A n \in Runners \ {m} : ~HoldsVersion(n)
    /\ VersionMatches(run[m])
    /\ NextSchema(run[m]).status = "ok"
    /\ Obeys(Converted(rows, NextSchema(run[m])), NextSchema(run[m]))
    /\ run' = [run EXCEPT ![m].at = NextAt(run[m]), ![m].schema = NextSchema(run[m])]
    /\ UNCHANGED <<schema, rows, version>>

CommitRun(m) ==
    /\ run[m] # Idle /\ run[m].at = run[m].to
    /\ schema' = run[m].schema
    /\ rows' = Converted(rows, run[m].schema)
    /\ version' = run[m].to
    /\ run' = [run EXCEPT ![m] = Idle]

\* A revision is refused, or the process or its connection is lost.
RollbackRun(m) ==
    /\ run[m] # Idle
    /\ run' = [run EXCEPT ![m] = Idle]
    /\ UNCHANGED <<schema, rows, version>>

Migrate == \E m \in Runners :
    \/ \E to \in Targets : Start(m, to)
    \/ Revise(m) \/ CommitRun(m) \/ RollbackRun(m)

(***************************************************************************)
(* The statements of the backends and the seeder that run beside it, each  *)
(* with its commit: rows as any schema on the way has allowed them.        *)
(***************************************************************************)
Write(tables, db) ==
    /\ tables \cap Locked = {}
    /\ Obeys(db, schema)
    /\ rows' = db
    /\ UNCHANGED <<schema, version, run>>

\* At head the activities are the seeder's: create_activity passes a value for
\* expected_hours_monthly, a column the model no longer has, and always fails.
\* With one they are those of the backends of the schemas that had the column.
AddActivity(a) ==
    /\ rows.activities[a] = NoRow
    /\ \E kind \in {"hours", "no hours"} :
         Write({"activities"}, [rows EXCEPT !.activities[a] = kind])

SaveTask(t, title, a, u) ==
    Write({"activity_tasks", "activities"},
          [rows EXCEPT !.tasks[t] =
              [title |-> title, activity_id |-> a,
               user_id |-> IF schema.columns["activity_tasks.user_id"] = "absent" THEN Null ELSE u]])

SaveLog(w, t, u, d, h) ==
    Write({"worklogs", "activity_tasks"},
          [rows EXCEPT !.logs[w] = [date |-> d, duration |-> Rounded(schema, h),
                                    activity_task_id |-> t, user_id |-> u]])

\* The worklogs of a task stay, without it: ON DELETE SET NULL.
RemoveTask(t) ==
    /\ rows.tasks[t] # NoRow
    /\ Write({"worklogs", "activity_tasks"},
             [rows EXCEPT !.tasks[t] = NoRow,
                          !.logs = [w \in LogId |->
                              IF rows.logs[w] # NoRow /\ rows.logs[w].activity_task_id = t
                              THEN [rows.logs[w] EXCEPT !.activity_task_id = Null]
                              ELSE rows.logs[w]]])

=============================================================================
