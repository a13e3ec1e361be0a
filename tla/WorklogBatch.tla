---------------------------- MODULE WorklogBatch ----------------------------
(***************************************************************************)
(* ActivityService.batch_worklog (src/app/services/activity.py) run by     *)
(* concurrent requests, each in an AsyncSession of its own, over           *)
(* PostgreSQL at READ COMMITTED.                                           *)
(*                                                                         *)
(* One action per SQL statement: between two of them the coroutine is      *)
(* suspended and other requests run.  What a transaction has written and   *)
(* not committed is kept apart from the tables; a row it has written is    *)
(* locked until it ends.  A statement that needs a row or a unique key     *)
(* another open transaction has written waits, and then runs on the tables *)
(* as they are when its wait is over.                                      *)
(***************************************************************************)
EXTENDS TaskBatch

CONSTANTS
    Requests,     \* request slots: a slot serves one request after another
    Batches,      \* the batches clients send
    MaxPerUser,   \* bound: requests one user has in flight at a time
    Unwritten     \* "this transaction has not written the row"

ASSUME BatchAssumption ==
    /\ Batches \subseteq TaskBatchDto
    /\ IsFiniteSet(Requests)
    /\ MaxPerUser \in Nat
    /\ Unwritten \notin TaskRow \cup LogRow \cup {NoRow}
    /\ Null \notin [user : Users, batch : Batches]

VARIABLES
    tasks,      \* activity_tasks, committed
    worklogs,   \* worklogs, committed
    wtasks,     \* wtasks[r]: rows of activity_tasks written by r's open transaction
    wlogs,      \* wlogs[r]: the same for worklogs
    pc,         \* pc[r]: the statement r runs next
    job,        \* job[r]: r's user and batch
    current,    \* current[r]: the ids of current_task, one per task handled so far
    outcome     \* outcome[r]: what r's last request was answered

tables == <<tasks, worklogs>>
vars == <<tasks, worklogs, wtasks, wlogs, pc, job, current, outcome>>

Job == [user : Users, batch : Batches]

Steps == {"idle", "delete_tasks", "upsert_tasks", "upsert_logs", "delete_logs",
          "check_limit", "commit", "rollback"}

Outcomes == {"none", "ok", "bad_request", "error"}

TypeOK ==
    /\ tasks \in TaskTable
    /\ worklogs \in LogTable
    /\ wtasks \in [Requests -> [TaskId -> TaskRow \cup {NoRow, Unwritten}]]
    /\ wlogs \in [Requests -> [LogId -> LogRow \cup {NoRow, Unwritten}]]
    /\ pc \in [Requests -> Steps]
    /\ job \in [Requests -> Job \cup {Null}]
    /\ current \in [Requests -> Seq(TaskId)]
    /\ outcome \in [Requests -> Outcomes]

NoTaskWrites == [t \in TaskId |-> Unwritten]
NoLogWrites == [w \in LogId |-> Unwritten]

Init ==
    /\ tasks = [t \in TaskId |-> NoRow]
    /\ worklogs = [w \in LogId |-> NoRow]
    /\ wtasks = [r \in Requests |-> NoTaskWrites]
    /\ wlogs = [r \in Requests |-> NoLogWrites]
    /\ pc = [r \in Requests |-> "idle"]
    /\ job = [r \in Requests |-> Null]
    /\ current = [r \in Requests |-> << >>]
    /\ outcome = [r \in Requests |-> "none"]
----------------------------------------------------------------------------
(* What a transaction sees: the committed rows, and its own writes.        *)

TaskView(r) == [t \in TaskId |-> IF wtasks[r][t] = Unwritten THEN tasks[t] ELSE wtasks[r][t]]

LogView(r) == [w \in LogId |-> IF wlogs[r][w] = Unwritten THEN worklogs[w] ELSE wlogs[r][w]]

Batch(r) == job[r].batch

\* The task the loop is at.
NextTask(r) == Batch(r).tasks[Len(current[r]) + 1]

\* The task of the batch a cell belongs to is current_task; the worklog is the
\* requester's.
LogRowOf(r, c) ==
    [date     |-> Cell(Batch(r), c).date,
     duration |-> Stored(Cell(Batch(r), c).duration),
     task     |-> current[r][c[1]],
     user     |-> job[r].user]

\* A mutant of TaskRowOf: a task that is there keeps its owner.
MutantTaskRowOf(r, item) ==
    [title |-> item.title, activity |-> item.activity,
     user |-> IF item.id # Null /\ TaskView(r)[item.id] # NoRow THEN TaskView(r)[item.id].user
                                                             ELSE job[r].user]

\* Whoever saves a task owns it from then on.
TaskRowOf(r, item) == [title |-> item.title, activity |-> item.activity, user |-> job[r].user]

InFlight == {r \in Requests : pc[r] # "idle"}

\* A uuid4: no row has it and no request in flight can know it.  The ids of
\* deleted rows serve again, so that later batches can name the rows the
\* database made.
UnusedTask(t) ==
    /\ tasks[t] = NoRow
    /\ \A q \in InFlight : wtasks[q][t] = Unwritten /\ t \notin NamedTasks(Batch(q))

UnusedLog(w) ==
    /\ worklogs[w] = NoRow
    /\ \A q \in InFlight : wlogs[q][w] = Unwritten /\ w \notin NamedLogs(Batch(q))
----------------------------------------------------------------------------
(* Waiting.  Another transaction q holds the old and the new version of    *)
(* every row it has written, and the unique keys of both.                  *)

TaskKeyHeldBy(q, key) ==
    \E t \in TaskId :
        /\ wtasks[q][t] # Unwritten
        /\ \/ tasks[t] # NoRow /\ TaskKey(tasks[t]) = key
           \/ wtasks[q][t] # NoRow /\ TaskKey(wtasks[q][t]) = key

LogKeyHeldBy(q, key) ==
    \E w \in LogId :
        /\ wlogs[q][w] # Unwritten
        /\ \/ worklogs[w] # NoRow /\ LogKey(worklogs[w]) = key
           \/ wlogs[q][w] # NoRow /\ LogKey(wlogs[q][w]) = key

\* DELETE waits for the rows it finds, and the ON DELETE SET NULL it causes for
\* the worklogs that refer to them.
DeleteTasksWaitsFor(r, q) ==
    \/ \E t \in Batch(r).deletions : tasks[t] # NoRow /\ wtasks[q][t] # Unwritten
    \/ \E w \in LogId : /\ worklogs[w] # NoRow /\ wlogs[q][w] # Unwritten
                        /\ worklogs[w].task \in Batch(r).deletions

\* INSERT ... ON CONFLICT (id) waits for the id and for the other unique key.
UpsertTaskWaitsFor(r, q) ==
    \/ NextTask(r).id # Null /\ wtasks[q][NextTask(r).id] # Unwritten
    \/ TaskKeyHeldBy(q, TaskKey(TaskRowOf(r, NextTask(r))))

UpsertLogsWaitsFor(r, q) ==
    \E c \in ToUpsert(Batch(r)) :
        \/ Cell(Batch(r), c).id # Null /\ wlogs[q][Cell(Batch(r), c).id] # Unwritten
        \/ LogKeyHeldBy(q, LogKey(LogRowOf(r, c)))

DeleteLogsWaitsFor(r, q) ==
    \E w \in ToDelete(Batch(r)) : worklogs[w] # NoRow /\ wlogs[q][w] # Unwritten

WaitsFor(r, q) ==
    /\ q # r
    /\ \/ pc[r] = "delete_tasks" /\ Batch(r).deletions # Null /\ DeleteTasksWaitsFor(r, q)
       \/ /\ pc[r] = "upsert_tasks" /\ Len(current[r]) < Len(Batch(r).tasks)
          /\ UpsertTaskWaitsFor(r, q)
       \/ pc[r] = "upsert_logs" /\ UpsertLogsWaitsFor(r, q)
       \/ pc[r] = "delete_logs" /\ DeleteLogsWaitsFor(r, q)

Waiting(r) == \E q \in Requests : WaitsFor(r, q)

\* r is on, or behind, a cycle of waits.
Deadlocked(r) ==
    \E S \in SUBSET Requests : r \in S /\ \A p \in S : \E q \in S : WaitsFor(p, q)
----------------------------------------------------------------------------
(* How a request goes on and ends.                                         *)

GoTo(r, step) == pc' = [pc EXCEPT ![r] = step]

\* A Python exception: the transaction stays open until the session rolls back.
Raise(r, answer) == GoTo(r, "rollback") /\ outcome' = [outcome EXCEPT ![r] = answer]

\* The request is answered; its transaction is over and its locks are free.
End(r) ==
    /\ wtasks' = [wtasks EXCEPT ![r] = NoTaskWrites]
    /\ wlogs' = [wlogs EXCEPT ![r] = NoLogWrites]
    /\ pc' = [pc EXCEPT ![r] = "idle"]
    /\ job' = [job EXCEPT ![r] = Null]
    /\ current' = [current EXCEPT ![r] = << >>]

\* A statement fails: PostgreSQL aborts the transaction at once, the service
\* lets the exception through and the client gets a 500.
Fail(r) ==
    /\ End(r)
    /\ outcome' = [outcome EXCEPT ![r] = "error"]
    /\ UNCHANGED tables
----------------------------------------------------------------------------
(* The requests.                                                           *)

\* Bound: a request starts only while there are ids left for every row the
\* requests in flight, and this one, may create.
RoomFor(b) ==
    /\ MapThenSumSet(LAMBDA r : Cardinality(NewTasks(Batch(r))), InFlight)
           + Cardinality(NewTasks(b))
         <= Cardinality({t \in TaskId : UnusedTask(t) /\ t \notin NamedTasks(b)})
    /\ MapThenSumSet(LAMBDA r : Cardinality(NewLogs(Batch(r))), InFlight)
           + Cardinality(NewLogs(b))
         <= Cardinality({w \in LogId : UnusedLog(w) /\ w \notin NamedLogs(b)})

\* POST /worklog-batch by an employee.
Begin(r) ==
    /\ pc[r] = "idle"
    /\ \E u \in Users, b \in Batches :
         /\ Cardinality({q \in InFlight : job[q].user = u}) < MaxPerUser
         /\ RoomFor(b)
         /\ job' = [job EXCEPT ![r] = [user |-> u, batch |-> b]]
    /\ GoTo(r, "delete_tasks")
    /\ outcome' = [outcome EXCEPT ![r] = "none"]
    /\ UNCHANGED <<tasks, worklogs, wtasks, wlogs, current>>

\* A mutant of LogsOf: the foreign key does nothing on delete.
MutantLogsOf(r, doomed) == {}

\* The worklogs ON DELETE SET NULL updates.
LogsOf(r, doomed) == {w \in LogId : LogView(r)[w] # NoRow /\ LogView(r)[w].task \in doomed}

\* DELETE FROM activity_tasks WHERE id IN deletions.  It is a bulk DELETE: the
\* ORM's delete-orphan cascade does not run, the foreign key sets the
\* worklogs' task to NULL.  A null "deletions" is refused by in_().
DeleteTasks(r) ==
    LET doomed   == {t \in Batch(r).deletions : TaskView(r)[t] # NoRow}
        orphaned == LogsOf(r, doomed)
    IN  /\ pc[r] = "delete_tasks"
        /\ ~Waiting(r)
        /\ \/ /\ Batch(r).deletions = Null
              /\ Raise(r, "error")
              /\ UNCHANGED <<wtasks, wlogs>>
           \/ /\ Batch(r).deletions # Null
              /\ GoTo(r, "upsert_tasks")
              /\ wtasks' = [wtasks EXCEPT ![r] =
                     [t \in TaskId |-> IF t \in doomed THEN NoRow ELSE @[t]]]
              /\ wlogs' = [wlogs EXCEPT ![r] =
                     [w \in LogId |-> IF w \in orphaned THEN [LogView(r)[w] EXCEPT !.task = Null]
                                      ELSE @[w]]]
              /\ UNCHANGED outcome
        /\ UNCHANGED <<tasks, worklogs, job, current>>

\* A mutant of TaskClash: the unique key includes the user.
MutantTaskClash(r, t, row) ==
    \E s \in TaskId \ {t} : /\ TaskView(r)[s] # NoRow /\ TaskView(r)[s].user = row.user
                            /\ TaskKey(TaskView(r)[s]) = TaskKey(row)

\* The rows an upsert of row with id t must not meet: another task of the same
\* title and activity.
TaskClash(r, t, row) ==
    \E s \in TaskId \ {t} : TaskView(r)[s] # NoRow /\ TaskKey(TaskView(r)[s]) = TaskKey(row)

\* A mutant of UpsertTask: upsert_one is called without commit=False.
MutantUpsertTask(r) ==
    /\ pc[r] = "upsert_tasks" /\ Len(current[r]) < Len(Batch(r).tasks) /\ ~Waiting(r)
    /\ \E t \in TaskId :
         LET row == TaskRowOf(r, NextTask(r))
         IN  /\ IF NextTask(r).id # Null THEN t = NextTask(r).id ELSE UnusedTask(t)
             /\ NextTask(r).activity \in Activities /\ ~TaskClash(r, t, row)
             /\ tasks' = [TaskView(r) EXCEPT ![t] = row]
             /\ current' = [current EXCEPT ![r] = Append(@, t)]
    /\ worklogs' = LogView(r)
    /\ wtasks' = [wtasks EXCEPT ![r] = NoTaskWrites]
    /\ wlogs' = [wlogs EXCEPT ![r] = NoLogWrites]
    /\ UNCHANGED <<pc, job, outcome>>

\* INSERT INTO activity_tasks ... ON CONFLICT (id) DO UPDATE, for the next task
\* of the batch.
UpsertTask(r) ==
    /\ pc[r] = "upsert_tasks"
    /\ Len(current[r]) < Len(Batch(r).tasks)
    /\ ~Waiting(r)
    /\ \E t \in TaskId :
         LET item == NextTask(r)
             row  == TaskRowOf(r, item)
         IN  /\ IF item.id # Null THEN t = item.id ELSE UnusedTask(t)
             /\ \/ /\ item.activity \notin Activities \/ TaskClash(r, t, row)
                   /\ Fail(r)
                \/ /\ item.activity \in Activities
                   /\ ~TaskClash(r, t, row)
                   /\ wtasks' = [wtasks EXCEPT ![r][t] = row]
                   /\ current' = [current EXCEPT ![r] = Append(@, t)]
                   /\ UNCHANGED <<tasks, worklogs, wlogs, pc, job, outcome>>

\* The loop ends.
TasksDone(r) ==
    /\ pc[r] = "upsert_tasks"
    /\ Len(current[r]) = Len(Batch(r).tasks)
    /\ GoTo(r, "upsert_logs")
    /\ UNCHANGED <<tasks, worklogs, wtasks, wlogs, job, current, outcome>>

\* The ids the rows of the upsert get: the one sent, or a new one each.
LogIds(r) ==
    {f \in [ToUpsert(Batch(r)) -> LogId] :
        \A c \in DOMAIN f :
            IF Cell(Batch(r), c).id # Null
            THEN f[c] = Cell(Batch(r), c).id
            ELSE UnusedLog(f[c]) /\ \A d \in DOMAIN f \ {c} : f[d] # f[c]}

\* A mutant of LogClash: uq_user_activity_task_date is missing.
MutantLogClash(r, f, c) == FALSE

\* The rows are inserted one after the other: a row clashes with the new value
\* of the rows before it and with the old value of the others.
LogClash(r, f, c) ==
    \E w \in LogId \ {f[c]} :
        IF \E d \in DOMAIN f : f[d] = w /\ Before(d, c)
        THEN \E d \in DOMAIN f : /\ f[d] = w
                                /\ LogKey(LogRowOf(r, d)) = LogKey(LogRowOf(r, c))
        ELSE LogView(r)[w] # NoRow /\ LogKey(LogView(r)[w]) = LogKey(LogRowOf(r, c))

\* The rows PostgreSQL accepts in one INSERT ... ON CONFLICT (id) DO UPDATE: no
\* id twice, every duration in range, every cell still free.
LogsAccepted(r, f) ==
    /\ \A c, d \in DOMAIN f : c # d => f[c] # f[d]
    /\ \A c \in DOMAIN f : /\ DurationAllowed(LogRowOf(r, c).duration)
                           /\ ~LogClash(r, f, c)

\* INSERT INTO worklogs ... ON CONFLICT (id) DO UPDATE, all rows in one
\* statement; without rows no statement is sent.
UpsertLogs(r) ==
    /\ pc[r] = "upsert_logs"
    /\ ~Waiting(r)
    /\ \E f \in LogIds(r) :
         \/ /\ ~LogsAccepted(r, f)
            /\ Fail(r)
         \/ /\ LogsAccepted(r, f)
            /\ wlogs' = [wlogs EXCEPT ![r] =
                   [w \in LogId |-> IF \E c \in DOMAIN f : f[c] = w
                                    THEN LogRowOf(r, CHOOSE c \in DOMAIN f : f[c] = w)
                                    ELSE @[w]]]
            /\ GoTo(r, "delete_logs")
            /\ UNCHANGED <<tasks, worklogs, wtasks, job, current, outcome>>

\* A mutant of InvalidRow: activity_task_id is optional in WorklogBase.
MutantInvalidRow(row) == FALSE

\* The deleted rows come back and are validated as WorklogBase, whose
\* activity_task_id is not optional.
InvalidRow(row) == row.task = Null

\* DELETE FROM worklogs WHERE id IN to_delete.  An orphan among the rows raises.
DeleteLogs(r) ==
    LET doomed == {w \in ToDelete(Batch(r)) : LogView(r)[w] # NoRow}
    IN  /\ pc[r] = "delete_logs"
        /\ ~Waiting(r)
        /\ wlogs' = [wlogs EXCEPT ![r] =
               [w \in LogId |-> IF w \in doomed THEN NoRow ELSE @[w]]]
        /\ IF \E w \in doomed : InvalidRow(LogView(r)[w])
           THEN Raise(r, "error")
           ELSE GoTo(r, "check_limit") /\ UNCHANGED outcome
        /\ UNCHANGED <<tasks, worklogs, wtasks, job, current>>

\* A mutant of OverLimit: the sums are read before the writes are flushed.
MutantOverLimit(r) ==
    {d \in AffectedDates(Batch(r)) : Booked(worklogs, job[r].user, d) > DailyLimitTenths}

\* The dates SELECT ... HAVING sum(duration) > 8 returns.
OverLimit(r) ==
    {d \in AffectedDates(Batch(r)) : Booked(LogView(r), job[r].user, d) > DailyLimitTenths}

\* Without tasks affected_dates is unbound and building the query raises.
CheckLimit(r) ==
    /\ pc[r] = "check_limit"
    /\ \/ /\ Batch(r).tasks = << >>
          /\ Raise(r, "error")
       \/ /\ Batch(r).tasks # << >>
          /\ OverLimit(r) # {}
          /\ Raise(r, "bad_request")
       \/ /\ Batch(r).tasks # << >>
          /\ OverLimit(r) = {}
          /\ GoTo(r, "commit")
          /\ UNCHANGED outcome
    /\ UNCHANGED <<tasks, worklogs, wtasks, wlogs, job, current>>

Commit(r) ==
    /\ pc[r] = "commit"
    /\ tasks' = TaskView(r)
    /\ worklogs' = LogView(r)
    /\ End(r)
    /\ outcome' = [outcome EXCEPT ![r] = "ok"]

\* A mutant of Rollback: the session is left open, its locks are not released.
MutantRollback(r) ==
    /\ pc[r] = "rollback"
    /\ GoTo(r, "idle")
    /\ job' = [job EXCEPT ![r] = Null]
    /\ current' = [current EXCEPT ![r] = << >>]
    /\ UNCHANGED <<tasks, worklogs, wtasks, wlogs, outcome>>

\* SessionManager.session(): rollback, close, and the exception goes on to the
\* handler that answers.
Rollback(r) ==
    /\ pc[r] = "rollback"
    /\ End(r)
    /\ UNCHANGED <<tasks, worklogs, outcome>>

\* PostgreSQL ends a deadlock by failing a statement of it.
DeadlockVictim(r) == Deadlocked(r) /\ Fail(r)

\* The connection to the database is lost.  What was not committed is rolled
\* back; a COMMIT under way may have taken effect all the same.
ConnectionLost(r) ==
    /\ pc[r] # "idle"
    /\ \/ UNCHANGED tables
       \/ /\ pc[r] = "commit"
          /\ tasks' = TaskView(r)
          /\ worklogs' = LogView(r)
    /\ End(r)
    /\ outcome' = [outcome EXCEPT ![r] = "error"]

\* What a request does once it has begun and its connection holds.
Advance(r) ==
    \/ DeleteTasks(r) \/ UpsertTask(r) \/ TasksDone(r) \/ UpsertLogs(r) \/ DeleteLogs(r)
    \/ CheckLimit(r) \/ Commit(r) \/ Rollback(r) \/ DeadlockVictim(r)

Next == \E r \in Requests : Begin(r) \/ Advance(r) \/ ConnectionLost(r)

Spec == Init /\ [][Next]_vars

\* A task that can run is run, a statement is answered, and a waiter is woken
\* in its turn: PostgreSQL queues the waiters of a row.
Fairness == \A r \in Requests : SF_vars(Advance(r))

FairSpec == Spec /\ Fairness

=============================================================================
