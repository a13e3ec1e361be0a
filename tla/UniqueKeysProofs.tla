-------------------------- MODULE UniqueKeysProofs --------------------------
(***************************************************************************)
(* The unique keys of activity_tasks and worklogs: each statement checks   *)
(* them against what its own transaction sees, and they hold of the tables *)
(* all the same, since a key that an open transaction has written is held  *)
(* until it ends.                                                          *)
(***************************************************************************)
EXTENDS WorklogBatchProofs

\* No two open transactions have written rows of one key.
TaskKeysHeld ==
    \A q, r \in Requests : q # r =>
        \A s, t \in TaskId :
            wtasks[q][s] \in TaskRow /\ wtasks[r][t] \in TaskRow
               => TaskKey(wtasks[q][s]) # TaskKey(wtasks[r][t])

LogKeysHeld ==
    \A q, r \in Requests : q # r =>
        \A v, w \in LogId :
            wlogs[q][v] \in LogRow /\ wlogs[r][w] \in LogRow /\ wlogs[q][v].task # Null
               => LogKey(wlogs[q][v]) # LogKey(wlogs[r][w])

TaskKeys ==
    /\ DistinctTasks(tasks)
    /\ \A r \in Requests : DistinctTasks(TaskView(r))
    /\ TaskKeysHeld

LogKeys ==
    /\ DistinctLogs(worklogs)
    /\ \A r \in Requests : DistinctLogs(LogView(r))
    /\ LogKeysHeld

KeysInv == Typed /\ TaskKeys /\ LogKeys

\* A row that is none of the markers is a row of its table.
LEMMA WrittenRows ==
    ASSUME TypeOK, NEW r \in Requests
    PROVE  /\ \A t \in TaskId : /\ wtasks[r][t] # Unwritten /\ wtasks[r][t] # NoRow <=> wtasks[r][t] \in TaskRow
                                /\ tasks[t] # NoRow <=> tasks[t] \in TaskRow
                                /\ tasks[t] # Unwritten
           /\ \A w \in LogId : /\ wlogs[r][w] # Unwritten /\ wlogs[r][w] # NoRow <=> wlogs[r][w] \in LogRow
                               /\ worklogs[w] # NoRow <=> worklogs[w] \in LogRow
                               /\ worklogs[w] # Unwritten
<1>1. NoRow \notin TaskRow /\ NoRow \notin LogRow
  BY TablesAssumption DEF TaskRow, LogRow
<1>2. Unwritten \notin TaskRow \cup LogRow \cup {NoRow}
  BY BatchAssumption
<1> QED
  BY <1>1, <1>2 DEF TypeOK, TaskTable, LogTable
----------------------------------------------------------------------------
(* Tasks.                                                                  *)

\* The end of a request that changes no table: its rows are gone.
LEMMA AbortTaskKeys ==
    ASSUME Typed, TaskKeys, NEW r \in Requests, UNCHANGED tasks,
           wtasks' = [wtasks EXCEPT ![r] = NoTaskWrites]
    PROVE  TaskKeys'
<1>1. \A q \in Requests : q # r => wtasks'[q] = wtasks[q]
  BY DEF Typed, TypeOK
<1>2. wtasks'[r] = NoTaskWrites
  BY DEF Typed, TypeOK
<1>3. TaskView(r)' = [t \in TaskId |-> tasks[t]]
  BY <1>2 DEF TaskView, NoTaskWrites
<1>4. \A q \in Requests : q # r => TaskView(q)' = TaskView(q)
  BY <1>1 DEF TaskView
<1>5. \A q \in Requests : DistinctTasks(TaskView(q)')
  BY <1>3, <1>4 DEF TaskKeys, DistinctTasks
<1>6. TaskKeysHeld'
  BY <1>1, <1>2, BatchAssumption DEF TaskKeys, TaskKeysHeld, NoTaskWrites
<1> QED
  BY <1>5, <1>6 DEF TaskKeys, DistinctTasks

\* A commit shows its rows to the other transactions: none of them has written
\* a row of the same key.
LEMMA CommitTaskKeys ==
    ASSUME Typed, TaskKeys, NEW r \in Requests, tasks' = TaskView(r),
           wtasks' = [wtasks EXCEPT ![r] = NoTaskWrites]
    PROVE  TaskKeys'
<1>a. TypeOK
  BY DEF Typed
<1>1. \A q \in Requests : q # r => wtasks'[q] = wtasks[q]
  BY <1>a DEF TypeOK
<1>2. wtasks'[r] = NoTaskWrites
  BY <1>a DEF TypeOK
<1>3. DistinctTasks(tasks')
  BY DEF TaskKeys
<1>4. TaskView(r)' = [t \in TaskId |-> tasks'[t]]
  BY <1>2 DEF TaskView, NoTaskWrites
<1>5. ASSUME NEW q \in Requests, q # r,
             NEW s \in TaskId, NEW t \in TaskId, s # t,
             TaskView(q)'[s] # NoRow, TaskView(q)'[t] # NoRow
      PROVE  TaskKey(TaskView(q)'[s]) # TaskKey(TaskView(q)'[t])
  <2>1. \A x \in TaskId : TaskView(q)'[x] = IF wtasks[q][x] = Unwritten THEN TaskView(r)[x] ELSE wtasks[q][x]
    BY <1>1, <1>5 DEF TaskView
  <2>2. \A x \in TaskId : TaskView(q)[x] = IF wtasks[q][x] = Unwritten THEN tasks[x] ELSE wtasks[q][x]
    BY DEF TaskView
  <2>3. \A x \in TaskId : TaskView(r)[x] = IF wtasks[r][x] = Unwritten THEN tasks[x] ELSE wtasks[r][x]
    BY DEF TaskView
  <2>4. \A x, y \in TaskId : x # y /\ TaskView(q)[x] # NoRow /\ TaskView(q)[y] # NoRow
                               => TaskKey(TaskView(q)[x]) # TaskKey(TaskView(q)[y])
    BY DEF TaskKeys, DistinctTasks
  <2>5. ASSUME NEW x \in TaskId, NEW y \in TaskId, x # y,
               wtasks[q][x] # Unwritten, wtasks[q][x] # NoRow,
               wtasks[q][y] = Unwritten, TaskView(r)[y] # NoRow
        PROVE  TaskKey(wtasks[q][x]) # TaskKey(TaskView(r)[y])
    <3>1. CASE wtasks[r][y] = Unwritten
      BY <2>2, <2>3, <2>4, <2>5, <3>1
    <3>2. CASE wtasks[r][y] # Unwritten
      <4>1. wtasks[r][y] \in TaskRow /\ wtasks[q][x] \in TaskRow
        BY <1>a, <2>3, <2>5, <3>2, WrittenRows
      <4> QED
        BY <1>5, <2>3, <3>2, <4>1 DEF TaskKeys, TaskKeysHeld
    <3> QED
      BY <3>1, <3>2
  <2>6. CASE wtasks[q][s] = Unwritten /\ wtasks[q][t] = Unwritten
    BY <1>3, <1>5, <2>1, <2>6 DEF DistinctTasks
  <2>7. CASE wtasks[q][s] # Unwritten /\ wtasks[q][t] # Unwritten
    BY <1>5, <2>1, <2>2, <2>4, <2>7
  <2>8. CASE wtasks[q][s] # Unwritten /\ wtasks[q][t] = Unwritten
    BY <1>5, <2>1, <2>5, <2>8
  <2>9. CASE wtasks[q][s] = Unwritten /\ wtasks[q][t] # Unwritten
    BY <1>5, <2>1, <2>5, <2>9
  <2> QED
    BY <2>6, <2>7, <2>8, <2>9
<1>6. \A q \in Requests : DistinctTasks(TaskView(q)')
  BY <1>3, <1>4, <1>5 DEF DistinctTasks
<1>7. TaskKeysHeld'
  BY <1>1, <1>2, BatchAssumption DEF TaskKeys, TaskKeysHeld, NoTaskWrites
<1> QED
  BY <1>3, <1>6, <1>7 DEF TaskKeys

\* An upsert that need not wait and meets no clash takes a key of its own.
LEMMA UpsertTaskKeys ==
    ASSUME Typed, TaskKeys, NEW r \in Requests, NEW t \in TaskId, NEW row \in TaskRow,
           \A q \in Requests \ {r} : ~TaskKeyHeldBy(q, TaskKey(row)),
           ~TaskClash(r, t, row),
           UNCHANGED tasks, wtasks' = [wtasks EXCEPT ![r][t] = row]
    PROVE  TaskKeys'
<1>a. TypeOK
  BY DEF Typed
<1>1. \A q \in Requests : q # r => wtasks'[q] = wtasks[q]
  BY <1>a DEF TypeOK
<1>2. wtasks'[r] = [wtasks[r] EXCEPT ![t] = row] /\ wtasks[r] = [x \in TaskId |-> wtasks[r][x]]
  BY <1>a DEF TypeOK
<1>3. row # NoRow /\ row # Unwritten
  BY TablesAssumption, BatchAssumption DEF TaskRow
<1>4. \A x \in TaskId : TaskView(r)'[x] = IF x = t THEN row ELSE TaskView(r)[x]
  <2>1. \A x \in TaskId : wtasks'[r][x] = IF x = t THEN row ELSE wtasks[r][x]
    BY <1>2
  <2> QED
    BY <1>3, <2>1 DEF TaskView
<1>5. DistinctTasks(TaskView(r)')
  <2>1. DistinctTasks(TaskView(r))
    BY DEF TaskKeys
  <2> QED
    BY <1>3, <1>4, <2>1 DEF DistinctTasks, TaskClash
<1>6. \A q \in Requests : q # r => TaskView(q)' = TaskView(q)
  BY <1>1 DEF TaskView
<1>7. ASSUME NEW q \in Requests, q # r, NEW s \in TaskId, wtasks[q][s] \in TaskRow
      PROVE  TaskKey(wtasks[q][s]) # TaskKey(row)
  BY <1>a, <1>7, WrittenRows DEF TaskKeyHeldBy
<1>8. TaskKeysHeld'
  BY <1>1, <1>2, <1>7 DEF TaskKeys, TaskKeysHeld
<1> QED
  BY <1>5, <1>6, <1>8 DEF TaskKeys, DistinctTasks

\* Deleted rows have no key.
LEMMA DeleteTaskKeys ==
    ASSUME Typed, TaskKeys, NEW r \in Requests, NEW doomed, UNCHANGED tasks,
           wtasks' = [wtasks EXCEPT ![r] = [t \in TaskId |-> IF t \in doomed THEN NoRow ELSE @[t]]]
    PROVE  TaskKeys'
<1>a. TypeOK
  BY DEF Typed
<1>1. \A q \in Requests : q # r => wtasks'[q] = wtasks[q]
  BY <1>a DEF TypeOK
<1>2. wtasks'[r] = [t \in TaskId |-> IF t \in doomed THEN NoRow ELSE wtasks[r][t]]
  BY <1>a DEF TypeOK
<1>3. NoRow # Unwritten /\ NoRow \notin TaskRow
  BY TablesAssumption, BatchAssumption DEF TaskRow
<1>4. \A t \in TaskId : TaskView(r)'[t] = IF t \in doomed THEN NoRow ELSE TaskView(r)[t]
  BY <1>2, <1>3 DEF TaskView
<1>5. DistinctTasks(TaskView(r)')
  BY <1>4 DEF TaskKeys, DistinctTasks
<1>6. \A q \in Requests : q # r => TaskView(q)' = TaskView(q)
  BY <1>1 DEF TaskView
<1>7. TaskKeysHeld'
  BY <1>1, <1>2, <1>3 DEF TaskKeys, TaskKeysHeld
<1> QED
  BY <1>5, <1>6, <1>7 DEF TaskKeys, DistinctTasks

\* Every step keeps the keys of the tasks.
LEMMA TaskKeysStep ==
    ASSUME Typed, TaskKeys, NEW r \in Requests, Begin(r) \/ Advance(r) \/ ConnectionLost(r)
    PROVE  TaskKeys'
<1>1. CASE UNCHANGED <<tasks, wtasks>>
  BY <1>1 DEF TaskKeys, TaskKeysHeld, TaskView, DistinctTasks
<1>2. CASE End(r) /\ UNCHANGED tasks
  BY <1>2, AbortTaskKeys DEF End
<1>3. CASE End(r) /\ tasks' = TaskView(r)
  BY <1>3, CommitTaskKeys DEF End
<1>4. CASE DeleteTasks(r) /\ Batch(r).deletions # Null
  <2>1. PICK doomed :
          wtasks' = [wtasks EXCEPT ![r] = [t \in TaskId |-> IF t \in doomed THEN NoRow ELSE @[t]]]
    BY <1>4 DEF DeleteTasks
  <2> QED
    BY <1>4, <2>1, DeleteTaskKeys DEF DeleteTasks
<1>5. CASE UpsertTask(r) /\ ~Fail(r)
  <2>1. PICK t \in TaskId :
          /\ ~TaskClash(r, t, TaskRowOf(r, NextTask(r)))
          /\ wtasks' = [wtasks EXCEPT ![r][t] = TaskRowOf(r, NextTask(r))]
          /\ UNCHANGED tasks
          /\ NextTask(r).activity \in Activities
    BY <1>5 DEF UpsertTask
  <2>2. Batch(r) \in Batches /\ job[r].user \in Users
    BY <1>5 DEF UpsertTask, Typed, Phase, Job, Batch
  <2>3. NextTask(r) \in UpsertActivityTask
    BY <1>5, <2>2, NextTaskType DEF UpsertTask, Typed, TypeOK
  <2>4. TaskRowOf(r, NextTask(r)) \in TaskRow
    BY <2>1, <2>2, <2>3 DEF TaskRowOf, TaskRow, UpsertActivityTask
  <2>5. \A q \in Requests \ {r} : ~TaskKeyHeldBy(q, TaskKey(TaskRowOf(r, NextTask(r))))
    BY <1>5 DEF UpsertTask, Waiting, WaitsFor, UpsertTaskWaitsFor
  <2> QED
    BY <2>1, <2>4, <2>5, UpsertTaskKeys
<1> QED
  BY <1>1, <1>2, <1>3, <1>4, <1>5
     DEF Begin, Advance, DeleteTasks, Raise, TasksDone, UpsertLogs, DeleteLogs, CheckLimit, Commit,
         Rollback, DeadlockVictim, ConnectionLost, Fail, tables

----------------------------------------------------------------------------
(* Worklogs.  A row without a task has no key.                             *)

\* The end of a request that changes no table: its rows are gone.
LEMMA AbortLogKeys ==
    ASSUME Typed, LogKeys, NEW r \in Requests, UNCHANGED worklogs,
           wlogs' = [wlogs EXCEPT ![r] = NoLogWrites]
    PROVE  LogKeys'
<1>1. \A q \in Requests : q # r => wlogs'[q] = wlogs[q]
  BY DEF Typed, TypeOK
<1>2. wlogs'[r] = NoLogWrites
  BY DEF Typed, TypeOK
<1>3. LogView(r)' = [w \in LogId |-> worklogs[w]]
  BY <1>2 DEF LogView, NoLogWrites
<1>4. \A q \in Requests : q # r => LogView(q)' = LogView(q)
  BY <1>1 DEF LogView
<1>5. \A q \in Requests : DistinctLogs(LogView(q)')
  BY <1>3, <1>4 DEF LogKeys, DistinctLogs
<1>6. LogKeysHeld'
  BY <1>1, <1>2, BatchAssumption DEF LogKeys, LogKeysHeld, NoLogWrites
<1> QED
  BY <1>5, <1>6 DEF LogKeys, DistinctLogs

\* A commit shows its rows to the other transactions: none of them has written
\* a row of the same key.
LEMMA CommitLogKeys ==
    ASSUME Typed, LogKeys, NEW r \in Requests, worklogs' = LogView(r),
           wlogs' = [wlogs EXCEPT ![r] = NoLogWrites]
    PROVE  LogKeys'
<1>a. TypeOK
  BY DEF Typed
<1>1. \A q \in Requests : q # r => wlogs'[q] = wlogs[q]
  BY <1>a DEF TypeOK
<1>2. wlogs'[r] = NoLogWrites
  BY <1>a DEF TypeOK
<1>3. DistinctLogs(worklogs')
  BY DEF LogKeys
<1>4. LogView(r)' = [w \in LogId |-> worklogs'[w]]
  BY <1>2 DEF LogView, NoLogWrites
<1>5. ASSUME NEW q \in Requests, q # r,
             NEW v \in LogId, NEW w \in LogId, v # w,
             LogView(q)'[v] # NoRow, LogView(q)'[w] # NoRow, LogView(q)'[v].task # Null
      PROVE  LogKey(LogView(q)'[v]) # LogKey(LogView(q)'[w])
  <2>0. SUFFICES ASSUME LogView(q)'[w].task # Null
                 PROVE  LogKey(LogView(q)'[v]) # LogKey(LogView(q)'[w])
    BY <1>5 DEF LogKey
  <2>1. \A x \in LogId : LogView(q)'[x] = IF wlogs[q][x] = Unwritten THEN LogView(r)[x] ELSE wlogs[q][x]
    BY <1>1, <1>5 DEF LogView
  <2>2. \A x \in LogId : LogView(q)[x] = IF wlogs[q][x] = Unwritten THEN worklogs[x] ELSE wlogs[q][x]
    BY DEF LogView
  <2>3. \A x \in LogId : LogView(r)[x] = IF wlogs[r][x] = Unwritten THEN worklogs[x] ELSE wlogs[r][x]
    BY DEF LogView
  <2>4. \A x, y \in LogId :
           x # y /\ LogView(q)[x] # NoRow /\ LogView(q)[y] # NoRow /\ LogView(q)[x].task # Null
              => LogKey(LogView(q)[x]) # LogKey(LogView(q)[y])
    BY DEF LogKeys, DistinctLogs
  <2>5. ASSUME NEW x \in LogId, NEW y \in LogId, x # y,
               wlogs[q][x] # Unwritten, wlogs[q][x] # NoRow, wlogs[q][x].task # Null,
               wlogs[q][y] = Unwritten, LogView(r)[y] # NoRow
        PROVE  LogKey(wlogs[q][x]) # LogKey(LogView(r)[y])
    <3>1. CASE wlogs[r][y] = Unwritten
      BY <2>2, <2>3, <2>4, <2>5, <3>1
    <3>2. CASE wlogs[r][y] # Unwritten
      <4>1. wlogs[r][y] \in LogRow /\ wlogs[q][x] \in LogRow
        BY <1>a, <2>3, <2>5, <3>2, WrittenRows
      <4> QED
        BY <1>5, <2>3, <2>5, <3>2, <4>1 DEF LogKeys, LogKeysHeld
    <3> QED
      BY <3>1, <3>2
  <2>6. CASE wlogs[q][v] = Unwritten /\ wlogs[q][w] = Unwritten
    BY <1>3, <1>5, <2>1, <2>6 DEF DistinctLogs
  <2>7. CASE wlogs[q][v] # Unwritten /\ wlogs[q][w] # Unwritten
    BY <1>5, <2>1, <2>2, <2>4, <2>7
  <2>8. CASE wlogs[q][v] # Unwritten /\ wlogs[q][w] = Unwritten
    BY <1>5, <2>1, <2>5, <2>8
  <2>9. CASE wlogs[q][v] = Unwritten /\ wlogs[q][w] # Unwritten
    BY <1>5, <2>0, <2>1, <2>5, <2>9
  <2> QED
    BY <2>6, <2>7, <2>8, <2>9
<1>6. \A q \in Requests : DistinctLogs(LogView(q)')
  BY <1>3, <1>4, <1>5 DEF DistinctLogs
<1>7. LogKeysHeld'
  BY <1>1, <1>2, BatchAssumption DEF LogKeys, LogKeysHeld, NoLogWrites
<1> QED
  BY <1>3, <1>6, <1>7 DEF LogKeys

\* A statement that replaces rows, some by rows without a key or by none, keeps
\* the keys as they are.
LEMMA DropLogKeys ==
    ASSUME Typed, LogKeys, NEW r \in Requests, UNCHANGED worklogs,
           \A q \in Requests : q # r => wlogs'[q] = wlogs[q],
           \A w \in LogId : \/ wlogs'[r][w] = wlogs[r][w]
                            \/ wlogs'[r][w] = NoRow
                            \/ wlogs'[r][w] \in LogRow /\ wlogs'[r][w].task = Null
    PROVE  LogKeys'
<1>1. NoRow # Unwritten /\ NoRow \notin LogRow /\ Unwritten \notin LogRow
  BY TablesAssumption, BatchAssumption DEF LogRow
<1>2. \A w \in LogId : \/ LogView(r)'[w] = LogView(r)[w]
                       \/ LogView(r)'[w] = NoRow
                       \/ LogView(r)'[w].task = Null
  BY <1>1 DEF LogView
<1>3. DistinctLogs(LogView(r)')
  <2>1. SUFFICES ASSUME NEW v \in LogId, NEW w \in LogId, v # w,
                        LogView(r)'[v] # NoRow, LogView(r)'[w] # NoRow, LogView(r)'[v].task # Null,
                        LogKey(LogView(r)'[v]) = LogKey(LogView(r)'[w])
                 PROVE  FALSE
    BY DEF DistinctLogs
  <2>2. LogView(r)'[w].task # Null
    BY <2>1 DEF LogKey
  <2>3. LogView(r)'[v] = LogView(r)[v] /\ LogView(r)'[w] = LogView(r)[w]
    BY <1>2, <2>1, <2>2
  <2> QED
    BY <2>1, <2>3 DEF LogKeys, DistinctLogs
<1>4. \A q \in Requests : q # r => LogView(q)' = LogView(q)
  BY DEF LogView
<1>5. LogKeysHeld'
  <2>1. SUFFICES ASSUME NEW p \in Requests, NEW q \in Requests, p # q,
                        NEW v \in LogId, NEW w \in LogId,
                        wlogs'[p][v] \in LogRow, wlogs'[q][w] \in LogRow, wlogs'[p][v].task # Null,
                        LogKey(wlogs'[p][v]) = LogKey(wlogs'[q][w])
                 PROVE  FALSE
    BY DEF LogKeysHeld
  <2>2. wlogs'[q][w].task # Null
    BY <2>1 DEF LogKey
  <2>3. wlogs'[p][v] = wlogs[p][v] /\ wlogs'[q][w] = wlogs[q][w]
    BY <1>1, <2>1, <2>2
  <2> QED
    BY <2>1, <2>3 DEF LogKeys, LogKeysHeld
<1> QED
  BY <1>3, <1>4, <1>5 DEF LogKeys, DistinctLogs

\* The cells of a batch are visited one after the other.
LEMMA CellsOrdered ==
    ASSUME NEW b \in Batches, NEW c \in Cells(b), NEW d \in Cells(b), c # d
    PROVE  Before(c, d) \/ Before(d, c)
<1>1. b.tasks \in Seq(UpsertActivityTask)
  BY BatchAssumption DEF TaskBatchDto
<1>2. ASSUME NEW x \in Cells(b)
      PROVE  \E k, j \in Nat : x = <<k, j>>
  <2>1. PICK k \in DOMAIN b.tasks : x \in {<<k, j>> : j \in DOMAIN b.tasks[k].worklogs}
    BY <1>2 DEF Cells
  <2>2. k \in Nat /\ b.tasks[k] \in UpsertActivityTask
    BY <1>1
  <2>3. b.tasks[k].worklogs \in Seq(WorklogDto)
    BY <2>2 DEF UpsertActivityTask
  <2>4. PICK j \in DOMAIN b.tasks[k].worklogs : x = <<k, j>>
    BY <2>1
  <2>5. j \in Nat
    BY <2>3
  <2> QED
    BY <2>2, <2>4, <2>5
<1>3. PICK k, j \in Nat : c = <<k, j>>
  BY <1>2
<1>4. PICK l, m \in Nat : d = <<l, m>>
  BY <1>2
<1> QED
  BY <1>3, <1>4 DEF Before

\* An upsert of worklogs that need not wait and that PostgreSQL accepts takes a
\* key of its own for every row.
LEMMA UpsertLogKeys ==
    ASSUME Typed, LogKeys, NEW r \in Requests, pc[r] = "upsert_logs", ~Waiting(r),
           NEW f \in LogIds(r), LogsAccepted(r, f), UNCHANGED worklogs,
           wlogs' = [wlogs EXCEPT ![r] =
               [w \in LogId |-> IF \E c \in DOMAIN f : f[c] = w
                                THEN LogRowOf(r, CHOOSE c \in DOMAIN f : f[c] = w)
                                ELSE @[w]]]
    PROVE  LogKeys'
<1>a. TypeOK
  BY DEF Typed
<1>1. \A q \in Requests : q # r => wlogs'[q] = wlogs[q]
  BY <1>a DEF TypeOK
<1>2. DOMAIN f = ToUpsert(Batch(r)) /\ \A c \in DOMAIN f : f[c] \in LogId
  BY DEF LogIds
<1>3. \A c \in DOMAIN f : LogRowOf(r, c) \in LogRow
  BY WrittenLogsType
<1>4. NoRow # Unwritten /\ NoRow \notin LogRow /\ Unwritten \notin LogRow
  BY TablesAssumption, BatchAssumption DEF LogRow
<1>5. ASSUME NEW w \in LogId
      PROVE  \/ \E c \in DOMAIN f : f[c] = w /\ wlogs'[r][w] = LogRowOf(r, c)
             \/ (\A c \in DOMAIN f : f[c] # w) /\ wlogs'[r][w] = wlogs[r][w]
  <2>1. wlogs'[r][w] = IF \E c \in DOMAIN f : f[c] = w
                       THEN LogRowOf(r, CHOOSE c \in DOMAIN f : f[c] = w)
                       ELSE wlogs[r][w]
    BY <1>a DEF TypeOK
  <2> QED
    BY <2>1
<1>6. ASSUME NEW w \in LogId
      PROVE  \/ \E c \in DOMAIN f : f[c] = w /\ LogView(r)'[w] = LogRowOf(r, c)
             \/ (\A c \in DOMAIN f : f[c] # w) /\ LogView(r)'[w] = LogView(r)[w]
  BY <1>3, <1>4, <1>5 DEF LogView
<1>7. ASSUME NEW c \in DOMAIN f, NEW d \in DOMAIN f, c # d
      PROVE  LogKey(LogRowOf(r, c)) # LogKey(LogRowOf(r, d))
  <2>1. \A x, y \in DOMAIN f : x # y => f[x] # f[y]
    BY DEF LogsAccepted
  <2>2. ASSUME NEW x \in DOMAIN f, NEW y \in DOMAIN f, x # y, Before(x, y)
        PROVE  LogKey(LogRowOf(r, x)) # LogKey(LogRowOf(r, y))
    <3>1. ~LogClash(r, f, y)
      BY DEF LogsAccepted
    <3>2. f[x] \in LogId \ {f[y]}
      BY <1>2, <2>1, <2>2
    <3> QED
      BY <2>2, <3>1, <3>2 DEF LogClash
  <2>3. Before(c, d) \/ Before(d, c)
    <3>1. Batch(r) \in Batches
      BY DEF Typed, Phase, Job, Batch
    <3>2. c \in Cells(Batch(r)) /\ d \in Cells(Batch(r))
      BY <1>2 DEF ToUpsert
    <3> QED
      BY <1>7, <3>1, <3>2, CellsOrdered
  <2> QED
    BY <1>7, <2>2, <2>3
<1>8. ASSUME NEW c \in DOMAIN f, NEW w \in LogId, \A d \in DOMAIN f : f[d] # w, LogView(r)[w] # NoRow
      PROVE  LogKey(LogView(r)[w]) # LogKey(LogRowOf(r, c))
  BY <1>8 DEF LogsAccepted, LogClash
<1>9. DistinctLogs(LogView(r)')
  <2>1. SUFFICES ASSUME NEW v \in LogId, NEW w \in LogId, v # w,
                        LogView(r)'[v] # NoRow, LogView(r)'[w] # NoRow, LogView(r)'[v].task # Null
                 PROVE  LogKey(LogView(r)'[v]) # LogKey(LogView(r)'[w])
    BY DEF DistinctLogs
  <2>2. CASE (\A c \in DOMAIN f : f[c] # v) /\ (\A c \in DOMAIN f : f[c] # w)
    <3>1. LogView(r)'[v] = LogView(r)[v] /\ LogView(r)'[w] = LogView(r)[w]
      BY <1>6, <2>2
    <3> QED
      BY <2>1, <3>1 DEF LogKeys, DistinctLogs
  <2>3. ASSUME NEW c \in DOMAIN f, f[c] = v, LogView(r)'[v] = LogRowOf(r, c)
        PROVE  LogKey(LogView(r)'[v]) # LogKey(LogView(r)'[w])
    BY <1>6, <1>7, <1>8, <2>1, <2>3
  <2>4. ASSUME NEW c \in DOMAIN f, f[c] = w, LogView(r)'[w] = LogRowOf(r, c)
        PROVE  LogKey(LogView(r)'[v]) # LogKey(LogView(r)'[w])
    BY <1>6, <1>7, <1>8, <2>1, <2>4
  <2> QED
    BY <1>6, <2>2, <2>3, <2>4
<1>10. ASSUME NEW q \in Requests, q # r, NEW v \in LogId, wlogs[q][v] \in LogRow, NEW c \in DOMAIN f
       PROVE  LogKey(wlogs[q][v]) # LogKey(LogRowOf(r, c))
  <2>1. ~LogKeyHeldBy(q, LogKey(LogRowOf(r, c)))
    BY <1>2, <1>10 DEF Waiting, WaitsFor, UpsertLogsWaitsFor
  <2> QED
    BY <1>4, <1>10, <2>1 DEF LogKeyHeldBy
<1>11. \A q \in Requests : q # r => LogView(q)' = LogView(q)
  BY <1>1 DEF LogView
<1>12. LogKeysHeld'
  <2>1. ASSUME NEW q \in Requests, q # r, NEW v \in LogId, NEW w \in LogId,
               wlogs'[q][v] \in LogRow, wlogs'[r][w] \in LogRow, wlogs'[q][v].task # Null
        PROVE  LogKey(wlogs'[q][v]) # LogKey(wlogs'[r][w])
    <3>1. wlogs'[q] = wlogs[q]
      BY <1>1, <2>1
    <3>2. CASE \E c \in DOMAIN f : wlogs'[r][w] = LogRowOf(r, c)
      BY <1>10, <2>1, <3>1, <3>2
    <3>3. CASE wlogs'[r][w] = wlogs[r][w]
      BY <2>1, <3>1, <3>3 DEF LogKeys, LogKeysHeld
    <3> QED
      BY <1>5, <3>2, <3>3
  <2>2. ASSUME NEW p \in Requests, NEW q \in Requests, p # q, NEW v \in LogId, NEW w \in LogId,
               wlogs'[p][v] \in LogRow, wlogs'[q][w] \in LogRow, wlogs'[p][v].task # Null,
               LogKey(wlogs'[p][v]) = LogKey(wlogs'[q][w])
        PROVE  FALSE
    <3>1. wlogs'[q][w].task # Null
      BY <2>2 DEF LogKey
    <3>2. CASE p # r /\ q # r
      BY <1>1, <2>2, <3>2 DEF LogKeys, LogKeysHeld
    <3>3. CASE p = r
      BY <2>1, <2>2, <3>1, <3>3
    <3>4. CASE q = r
      BY <2>1, <2>2, <3>4
    <3> QED
      BY <3>2, <3>3, <3>4
  <2> QED
    BY <2>2 DEF LogKeysHeld
<1> QED
  BY <1>9, <1>11, <1>12 DEF LogKeys, DistinctLogs

\* Every step keeps the keys of the worklogs.
LEMMA LogKeysStep ==
    ASSUME Typed, LogKeys, NEW r \in Requests, Begin(r) \/ Advance(r) \/ ConnectionLost(r)
    PROVE  LogKeys'
<1>1. CASE UNCHANGED <<worklogs, wlogs>>
  BY <1>1 DEF LogKeys, LogKeysHeld, LogView, DistinctLogs
<1>2. CASE End(r) /\ UNCHANGED worklogs
  BY <1>2, AbortLogKeys DEF End
<1>3. CASE End(r) /\ worklogs' = LogView(r)
  BY <1>3, CommitLogKeys DEF End
<1>4. ASSUME DeleteTasks(r), Batch(r).deletions # Null PROVE LogKeys'
  <2> DEFINE orphaned == LogsOf(r, {t \in Batch(r).deletions : TaskView(r)[t] # NoRow})
  <2>1. UNCHANGED worklogs
    BY <1>4 DEF DeleteTasks
  <2>2. wlogs' = [wlogs EXCEPT ![r] =
           [w \in LogId |-> IF w \in orphaned THEN [LogView(r)[w] EXCEPT !.task = Null] ELSE @[w]]]
    BY <1>4 DEF DeleteTasks
  <2>3. \A w \in orphaned : LogView(r)[w] \in LogRow
    BY ViewType DEF LogsOf, LogTable, Typed
  <2>4. \A w \in orphaned : /\ [LogView(r)[w] EXCEPT !.task = Null] \in LogRow
                            /\ [LogView(r)[w] EXCEPT !.task = Null].task = Null
    BY <2>3 DEF LogRow
  <2> HIDE DEF orphaned
  <2>5. \A q \in Requests : q # r => wlogs'[q] = wlogs[q]
    BY <2>2 DEF Typed, TypeOK
  <2>6. \A w \in LogId : wlogs'[r][w] = IF w \in orphaned THEN [LogView(r)[w] EXCEPT !.task = Null]
                                                          ELSE wlogs[r][w]
    BY <2>2 DEF Typed, TypeOK
  <2> QED
    BY <2>1, <2>4, <2>5, <2>6, DropLogKeys
<1>5. ASSUME UpsertLogs(r), ~Fail(r) PROVE LogKeys'
  <2>1. PICK f \in LogIds(r) :
          /\ LogsAccepted(r, f)
          /\ wlogs' = [wlogs EXCEPT ![r] =
                [w \in LogId |-> IF \E c \in DOMAIN f : f[c] = w
                                 THEN LogRowOf(r, CHOOSE c \in DOMAIN f : f[c] = w)
                                 ELSE @[w]]]
    BY <1>5 DEF UpsertLogs
  <2>2. UNCHANGED worklogs /\ pc[r] = "upsert_logs" /\ ~Waiting(r)
    BY <1>5 DEF UpsertLogs
  <2> QED
    BY <2>1, <2>2, UpsertLogKeys
<1>6. ASSUME DeleteLogs(r) PROVE LogKeys'
  <2>1. UNCHANGED worklogs
    BY <1>6 DEF DeleteLogs
  <2>2. \A q \in Requests : q # r => wlogs'[q] = wlogs[q]
    BY <1>6 DEF DeleteLogs, Typed, TypeOK
  <2>3. \A w \in LogId : wlogs'[r][w] = wlogs[r][w] \/ wlogs'[r][w] = NoRow
    BY <1>6 DEF DeleteLogs, Typed, TypeOK
  <2> QED
    BY <2>1, <2>2, <2>3, DropLogKeys
<1> QED
  BY <1>1, <1>2, <1>3, <1>4, <1>5, <1>6
     DEF Begin, Advance, DeleteTasks, Raise, TasksDone, UpsertTask, CheckLimit, Commit,
         Rollback, DeadlockVictim, ConnectionLost, Fail, tables
----------------------------------------------------------------------------
(* The theorem.                                                            *)

\* Empty tables have distinct keys.
LEMMA KeysInit == Init => KeysInv
<1> SUFFICES ASSUME Init PROVE KeysInv
  OBVIOUS
<1>1. Typed
  BY TypedInit
<1>2. TaskKeys
  BY BatchAssumption DEF Init, TaskKeys, TaskKeysHeld, DistinctTasks, TaskView, NoTaskWrites
<1>3. LogKeys
  BY BatchAssumption DEF Init, LogKeys, LogKeysHeld, DistinctLogs, LogView, NoLogWrites
<1> QED
  BY <1>1, <1>2, <1>3 DEF KeysInv

\* KeysInv is inductive.
LEMMA KeysNext == KeysInv /\ [Next]_vars => KeysInv'
<1> SUFFICES ASSUME KeysInv, [Next]_vars PROVE KeysInv'
  OBVIOUS
<1>1. CASE Next
  <2>1. PICK r \in Requests : Begin(r) \/ Advance(r) \/ ConnectionLost(r)
    BY <1>1 DEF Next
  <2> QED
    BY <2>1, TypedStep, TaskKeysStep, LogKeysStep DEF KeysInv
<1>2. CASE UNCHANGED vars
  <2>1. Typed'
    BY <1>2, TypedNext DEF KeysInv
  <2>2. TaskKeys'
    BY <1>2 DEF vars, KeysInv, TaskKeys, TaskKeysHeld, TaskView, DistinctTasks
  <2>3. LogKeys'
    BY <1>2 DEF vars, KeysInv, LogKeys, LogKeysHeld, LogView, DistinctLogs
  <2> QED
    BY <2>1, <2>2, <2>3 DEF KeysInv
<1> QED
  BY <1>1, <1>2

\* Whatever requests run together, no two committed tasks have one title and
\* activity, and no two committed worklogs of one user are for one task and date.
THEOREM KeysStayUnique == Spec => []NoDuplicates
<1>1. KeysInv => NoDuplicates
  BY DEF KeysInv, TaskKeys, LogKeys, NoDuplicates
<1> QED
  BY <1>1, KeysInit, KeysNext, PTL DEF Spec

=============================================================================
