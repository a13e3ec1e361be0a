----------------------------- MODULE Timesheet -----------------------------
(***************************************************************************)
(* What POST /worklog-batch promises of the tables, whatever else runs: a  *)
(* batch takes effect in one step and as a whole, or not at all.  There    *)
(* are no requests, statements or locks here; WorklogBatch implements it.  *)
(***************************************************************************)
EXTENDS TaskBatch

CONSTANT Batches

VARIABLES tasks, worklogs

tables == <<tasks, worklogs>>

Init == tasks = [t \in TaskId |-> NoRow] /\ worklogs = [w \in LogId |-> NoRow]

\* The rows a batch may give its tasks (or its cells): the id the client sent,
\* or one that has no row.
TaskIds(b) ==
    {f \in [DOMAIN b.tasks -> TaskId] :
        \A k \in DOMAIN f : IF b.tasks[k].id # Null THEN f[k] = b.tasks[k].id
                                                   ELSE tasks[f[k]] = NoRow}

LogIds(b) ==
    {f \in [ToUpsert(b) -> LogId] :
        /\ \A c, d \in DOMAIN f : c # d => f[c] # f[d]
        /\ \A c \in DOMAIN f : IF Cell(b, c).id # Null THEN f[c] = Cell(b, c).id
                                                      ELSE worklogs[f[c]] = NoRow}

\* What the tables may hold, after any number of batches: worklogs refer to
\* tasks that exist, and no task and no cell is there twice.
Sound(tsks, logs) == References(logs, tsks) /\ DistinctTasks(tsks) /\ DistinctLogs(logs)

\* u saves b.  "removed" and "cleared" are the rows the batch deletes: none but
\* those it names, and not all of them when another request has made one of
\* them in the meantime.  A task that is sent twice keeps what was sent last; a
\* worklog of a removed task stays, without a task.
Save(u, b) ==
    /\ b.deletions # Null
    /\ \E tid \in TaskIds(b), lid \in LogIds(b),
          removed \in SUBSET b.deletions, cleared \in SUBSET ToDelete(b) :
         /\ tasks' = [t \in TaskId |->
               IF \E k \in DOMAIN tid : tid[k] = t
               THEN LET last == b.tasks[Max({k \in DOMAIN tid : tid[k] = t})]
                    IN  [title |-> last.title, activity |-> last.activity, user |-> u]
               ELSE IF t \in removed THEN NoRow ELSE tasks[t]]
         /\ worklogs' = [w \in LogId |->
               IF w \in cleared THEN NoRow
               ELSE IF \E c \in DOMAIN lid : lid[c] = w
               THEN LET c == CHOOSE c \in DOMAIN lid : lid[c] = w
                    IN  [date |-> Cell(b, c).date, duration |-> Stored(Cell(b, c).duration),
                         task |-> tid[c[1]], user |-> u]
               ELSE IF worklogs[w] # NoRow /\ worklogs[w].task \in removed
               THEN [worklogs[w] EXCEPT !.task = Null]
               ELSE worklogs[w]]
    /\ Sound(tasks', worklogs')

Next == \E u \in Users, b \in Batches : Save(u, b)

Spec == Init /\ [][Next]_tables

=============================================================================
