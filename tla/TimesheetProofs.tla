-------------------------- MODULE TimesheetProofs --------------------------
(***************************************************************************)
(* WorklogBatch implements Timesheet: a batch that five statements write,  *)
(* one after another and beside others, takes effect in its commit as one  *)
(* Save, with the ids, the removed tasks and the cleared cells that its    *)
(* transaction has in store by then.                                       *)
(***************************************************************************)
EXTENDS UniqueKeysProofs

Item(r, k) == Batch(r).tasks[k]

\* What r has written of the tasks: those it went through, as the last item of
\* the batch that names them says, and the ones it has deleted.
TasksWritten(r) ==
    /\ \A k \in DOMAIN current[r] :
         IF Item(r, k).id # Null THEN current[r][k] = Item(r, k).id
                                 ELSE tasks[current[r][k]] = NoRow
    /\ \A t \in TaskId :
         \/ /\ \A k \in DOMAIN current[r] : current[r][k] # t
            /\ wtasks[r][t] = Unwritten \/ (wtasks[r][t] = NoRow /\ t \in Batch(r).deletions)
         \/ \E k \in DOMAIN current[r] :
              /\ current[r][k] = t
              /\ wtasks[r][t] = TaskRowOf(r, Item(r, k))
              /\ \A j \in DOMAIN current[r] : current[r][j] = t => j <= k

\* r's DELETE took the task of w.  r has written the task since, and with w all
\* the worklogs of the task that are committed.
Orphaned(r, w) ==
    /\ worklogs[w] # NoRow
    /\ wlogs[r][w] = [worklogs[w] EXCEPT !.task = Null]
    /\ worklogs[w].task \in Batch(r).deletions
    /\ wtasks[r][worklogs[w].task] # Unwritten
    /\ \A v \in LogId : worklogs[v] # NoRow /\ worklogs[v].task = worklogs[w].task
                           => wlogs[r][v] # Unwritten

Kept(r, w) == wlogs[r][w] = Unwritten \/ Orphaned(r, w)

\* What r has written of the worklogs, when its cells have got the ids f.
Placed(r, f) ==
    /\ \A c, d \in DOMAIN f : c # d => f[c] # f[d]
    /\ \A c \in DOMAIN f :
         /\ IF Cell(Batch(r), c).id # Null THEN f[c] = Cell(Batch(r), c).id
                                           ELSE worklogs[f[c]] = NoRow
         /\ wlogs[r][f[c]] # Unwritten
         /\ \/ wlogs[r][f[c]] = LogRowOf(r, c)
            \/ wlogs[r][f[c]] = NoRow /\ f[c] \in ToDelete(Batch(r))
    /\ \A w \in LogId : (\A c \in DOMAIN f : f[c] # w) =>
         \/ Kept(r, w)
         \/ /\ wlogs[r][w] = NoRow /\ w \in ToDelete(Batch(r))
            /\ worklogs[w] # NoRow /\ worklogs[w].task # Null

\* What r has in store at each of its steps.
Under(r) ==
    /\ pc[r] \in {"upsert_tasks", "upsert_logs", "delete_logs", "check_limit", "commit"} =>
         Batch(r).deletions # Null /\ TasksWritten(r)
    /\ pc[r] \in {"upsert_tasks", "upsert_logs"} => \A w \in LogId : Kept(r, w)
    /\ pc[r] \in {"upsert_logs", "delete_logs", "check_limit", "commit"} =>
         Len(current[r]) = Len(Batch(r).tasks)
    /\ pc[r] \in {"delete_logs", "check_limit", "commit"} =>
         \E f \in [ToUpsert(Batch(r)) -> LogId] : Placed(r, f)

UnderWay == \A r \in Requests : Under(r)

SaveInv == IInv /\ KeysInv /\ UnderWay

----------------------------------------------------------------------------
\* What a request has in store stays, while the rows it has written stay as they are
\* committed and no worklog comes to a task that it has written.
LEMMA UnderStays ==
  ASSUME Typed, Owned, NEW r \in Requests, Under(r),
         wtasks'[r] = wtasks[r], wlogs'[r] = wlogs[r], pc'[r] = pc[r],
         job'[r] = job[r], current'[r] = current[r],
         \A t \in TaskId : wtasks[r][t] # Unwritten => tasks'[t] = tasks[t],
         \A w \in LogId : wlogs[r][w] # Unwritten => worklogs'[w] = worklogs[w],
         \A w \in LogId : /\ wlogs[r][w] = Unwritten /\ worklogs'[w] # NoRow
                          /\ worklogs'[w].task \in TaskId
                          /\ wtasks[r][worklogs'[w].task] # Unwritten
                          => worklogs'[w] = worklogs[w]
  PROVE  Under(r)'
<1>0. CASE pc[r] \in {"idle", "delete_tasks", "rollback"}
  BY <1>0 DEF Under
<1>00. CASE pc[r] \notin {"idle", "delete_tasks", "rollback"}
<2>1. Batch(r)' = Batch(r)
  BY DEF Batch
<2>2. \A k : Item(r, k)' = Item(r, k)
  BY <2>1 DEF Item
<2>3. \A c : LogRowOf(r, c)' = LogRowOf(r, c)
  BY <2>1 DEF LogRowOf
<2>4. \A x : TaskRowOf(r, x)' = TaskRowOf(r, x)
  BY DEF TaskRowOf
<2>5. Batch(r) \in TaskBatchDto
  BY <1>00, BatchAssumption DEF Typed, Phase, Job, Batch
<2>6. Batch(r).deletions # Null => Batch(r).deletions \subseteq TaskId
  BY <2>5 DEF TaskBatchDto
<2>7. TasksWritten(r) => TasksWritten(r)'
  <3>1. ASSUME TasksWritten(r), NEW k \in DOMAIN current[r]
        PROVE  tasks'[current[r][k]] = tasks[current[r][k]]
    <4>1. current[r][k] \in TaskId
      BY DEF Typed, TypeOK
    <4>2. wtasks[r][current[r][k]] # Unwritten
      BY BatchAssumption DEF Owned
    <4> QED  BY <4>1, <4>2
  <3> QED  BY <2>1, <2>2, <2>4, <3>1 DEF TasksWritten
<2>8. ASSUME NEW w \in LogId, Kept(r, w), Batch(r).deletions # Null
      PROVE  Kept(r, w)'
  <3> QED BY <2>1, <2>6, <2>8 DEF Kept, Orphaned
<2>9. ASSUME NEW f \in [ToUpsert(Batch(r)) -> LogId], Placed(r, f), Batch(r).deletions # Null
      PROVE  Placed(r, f)'
  <3>1. ASSUME NEW c \in DOMAIN f
        PROVE worklogs'[f[c]] = worklogs[f[c]]
    BY <2>9 DEF Placed
  <3>2. \A w \in LogId : wlogs[r][w] = NoRow => worklogs'[w] = worklogs[w]
    BY BatchAssumption
  <3> QED  BY <2>1, <2>3, <2>8, <2>9, <3>1, <3>2 DEF Placed
<2> QED  BY <1>00, <2>1, <2>7, <2>8, <2>9 DEF Under
<1> QED BY <1>0, <1>00

\* What a step of q leaves to r: the rows r has written are not q's to commit, and
\* the tasks of q's worklogs are q's.
LEMMA OthersLeave ==
  ASSUME IInv, NEW r \in Requests, NEW q \in Requests, q # r,
         Begin(q) \/ Advance(q) \/ ConnectionLost(q)
  PROVE  /\ wtasks'[r] = wtasks[r] /\ wlogs'[r] = wlogs[r] /\ pc'[r] = pc[r]
         /\ job'[r] = job[r] /\ current'[r] = current[r]
         /\ UNCHANGED tables \/ (tasks' = TaskView(q) /\ worklogs' = LogView(q))
<1> USE DEF IInv, Typed, TypeOK
<1>1. CASE End(q)
  <2>1. UNCHANGED tables \/ (tasks' = TaskView(q) /\ worklogs' = LogView(q))
    BY <1>1 DEF Begin, GoTo, Advance, DeleteTasks, UpsertTask, TasksDone, UpsertLogs, DeleteLogs,
       CheckLimit, Commit, Rollback, DeadlockVictim, ConnectionLost, Fail, Raise, tables
  <2> QED  BY <1>1, <2>1 DEF End
<1>2. CASE ~End(q)
  <2>1. CASE Begin(q)
    BY <2>1 DEF Begin, GoTo, tables
  <2>2. CASE DeleteTasks(q)
    BY <2>2 DEF DeleteTasks, Raise, GoTo, tables
  <2>3. CASE UpsertTask(q)
    BY <1>2, <2>3 DEF UpsertTask, Fail, tables
  <2>4. CASE TasksDone(q)
    BY <2>4 DEF TasksDone, GoTo, tables
  <2>5. CASE UpsertLogs(q)
    BY <1>2, <2>5 DEF UpsertLogs, Fail, GoTo, tables
  <2>6. CASE DeleteLogs(q)
    BY <2>6 DEF DeleteLogs, Raise, GoTo, tables
  <2>7. CASE CheckLimit(q)
    BY <2>7 DEF CheckLimit, Raise, GoTo, tables
  <2> QED  BY <1>2, <2>1, <2>2, <2>3, <2>4, <2>5, <2>6, <2>7
           DEF Advance, Commit, Rollback, DeadlockVictim, Fail, ConnectionLost
<1> QED  BY <1>1, <1>2

\* Whatever q does, r keeps what it has in store.
LEMMA UnderOthers ==
  ASSUME IInv, NEW r \in Requests, NEW q \in Requests, q # r, Under(r),
         Begin(q) \/ Advance(q) \/ ConnectionLost(q)
  PROVE  Under(r)'
<1> USE DEF IInv
<1>1. /\ wtasks'[r] = wtasks[r] /\ wlogs'[r] = wlogs[r] /\ pc'[r] = pc[r]
      /\ job'[r] = job[r] /\ current'[r] = current[r]
      /\ UNCHANGED tables \/ (tasks' = TaskView(q) /\ worklogs' = LogView(q))
  BY OthersLeave
<1>2. CASE UNCHANGED tables
  BY <1>1, <1>2, UnderStays DEF tables
<1>3. CASE tasks' = TaskView(q) /\ worklogs' = LogView(q)
  <2>1. \A t \in TaskId : wtasks[r][t] # Unwritten => tasks'[t] = tasks[t]
    BY <1>3 DEF TaskView, Locks
  <2>2. \A w \in LogId : wlogs[r][w] # Unwritten => worklogs'[w] = worklogs[w]
    BY <1>3 DEF LogView, Locks
  <2>3. ASSUME NEW w \in LogId, worklogs'[w] # NoRow, worklogs'[w].task \in TaskId,
               wtasks[r][worklogs'[w].task] # Unwritten
        PROVE  worklogs'[w] = worklogs[w]
    <3>1. CASE wlogs[q][w] = Unwritten
      BY <1>3, <3>1 DEF LogView
    <3>2. CASE wlogs[q][w] # Unwritten
      <4>1. worklogs'[w] = wlogs[q][w]
        BY <1>3, <3>2 DEF LogView
      <4>2. wlogs[q][w] \in LogRow
        BY <2>3, <3>2, <4>1 DEF Typed, TypeOK
      <4>3. wlogs[q][w].task # Null
        BY <2>3, <4>1, TablesAssumption
      <4>4. wtasks[q][wlogs[q][w].task] \in TaskRow
        BY <4>2, <4>3 DEF Owned
      <4>5. wtasks[q][wlogs[q][w].task] # Unwritten
        BY <4>4, BatchAssumption
      <4> QED  BY <2>3, <4>1, <4>5 DEF Locks
    <3> QED  BY <3>1, <3>2
  <2> QED  BY <1>1, <2>1, <2>2, <2>3, UnderStays
<1> QED  BY <1>1, <1>2, <1>3

\* The DELETE of tasks, with the worklogs that lose their task.
LEMMA UnderDeleteTasks ==
  ASSUME IInv, NEW r \in Requests, DeleteTasks(r)
  PROVE  Under(r)'
<1> USE DEF IInv, Typed
<1> DEFINE doomed == {t \in Batch(r).deletions : TaskView(r)[t] # NoRow}
<1>1. CASE Batch(r).deletions = Null
  <2>1. pc'[r] = "rollback"
    BY <1>1 DEF DeleteTasks, Raise, GoTo, TypeOK
  <2> QED  BY <2>1 DEF Under
<1>2. CASE Batch(r).deletions # Null
  <2>1. /\ pc'[r] = "upsert_tasks" /\ job' = job /\ current' = current
        /\ tasks' = tasks /\ worklogs' = worklogs
        /\ wtasks'[r] = [t \in TaskId |-> IF t \in doomed THEN NoRow ELSE wtasks[r][t]]
        /\ wlogs'[r] = [w \in LogId |-> IF w \in LogsOf(r, doomed) THEN [LogView(r)[w] EXCEPT !.task = Null]
                                         ELSE wlogs[r][w]]
    BY <1>2 DEF DeleteTasks, GoTo, TypeOK
  <2>2. NoWrites(r) /\ current[r] = << >>
    BY DEF DeleteTasks, Phase
  <2>3. doomed \subseteq Batch(r).deletions /\ doomed \subseteq TaskId
    BY <1>2, BatchAssumption DEF Phase, Job, Batch, TaskBatchDto, DeleteTasks
  <2>4. \A w \in LogId : wlogs[r][w] = Unwritten /\ LogView(r)[w] = worklogs[w]
    BY <2>2 DEF NoWrites, NoLogWrites, LogView
  <2>5. \A t \in TaskId : wtasks[r][t] = Unwritten
    BY <2>2 DEF NoWrites, NoTaskWrites
  <2>6. Batch(r)' = Batch(r)
    BY <2>1 DEF Batch
  <2> HIDE DEF doomed
  <2>7. \A t \in doomed : wtasks'[r][t] = NoRow /\ NoRow # Unwritten
    BY <2>1, <2>3, BatchAssumption
  <2>8. \A w \in LogId : IF worklogs[w] # NoRow /\ worklogs[w].task \in doomed
                         THEN /\ wlogs'[r][w] = [worklogs[w] EXCEPT !.task = Null]
                              /\ wlogs'[r][w] # Unwritten
                         ELSE wlogs'[r][w] = Unwritten
    <3>1. ASSUME NEW w \in LogId, worklogs[w] # NoRow
          PROVE  [worklogs[w] EXCEPT !.task = Null] # Unwritten
      BY <3>1, BatchAssumption DEF TypeOK, LogTable, LogRow
    <3> QED  BY <2>1, <2>4, <3>1 DEF LogsOf
  <2>9. ASSUME NEW w \in LogId
        PROVE  Kept(r, w)'
    BY <2>1, <2>3, <2>6, <2>7, <2>8 DEF Kept, Orphaned
  <2>10. TasksWritten(r)'
    BY <2>1, <2>2, <2>3, <2>5, <2>6 DEF TasksWritten
  <2> QED  BY <1>2, <2>1, <2>6, <2>9, <2>10 DEF Under
<1> QED  BY <1>1, <1>2

\* One more task.
LEMMA UnderUpsertTask ==
  ASSUME IInv, NEW r \in Requests, Under(r), UpsertTask(r)
  PROVE  Under(r)'
<1> USE DEF IInv, Typed
<1>1. CASE Fail(r)
  BY <1>1 DEF Fail, End, TypeOK, Under
<1>2. CASE ~Fail(r)
  <2>1. PICK t \in TaskId :
          /\ IF NextTask(r).id # Null THEN t = NextTask(r).id ELSE UnusedTask(t)
          /\ wtasks' = [wtasks EXCEPT ![r][t] = TaskRowOf(r, NextTask(r))]
          /\ current' = [current EXCEPT ![r] = Append(@, t)]
          /\ NextTask(r).activity \in Activities
          /\ UNCHANGED <<tasks, worklogs, wlogs, pc, job, outcome>>
    BY <1>2 DEF UpsertTask
  <2>2. Batch(r)' = Batch(r) /\ (\A k : Item(r, k)' = Item(r, k))
        /\ (\A x : TaskRowOf(r, x)' = TaskRowOf(r, x))
    BY <2>1 DEF Batch, Item, TaskRowOf
  <2>3. current[r] \in Seq(TaskId)
    BY DEF TypeOK
  <2> DEFINE n == Len(current[r])
  <2>4. /\ n \in Nat /\ DOMAIN current[r] = 1 .. n /\ DOMAIN current'[r] = 1 .. n + 1
        /\ \A k \in 1 .. n : current'[r][k] = current[r][k]
        /\ current'[r][n + 1] = t
    BY <2>1, <2>3 DEF TypeOK
  <2>5. /\ wtasks'[r][t] = TaskRowOf(r, NextTask(r))
        /\ \A s \in TaskId : s # t => wtasks'[r][s] = wtasks[r][s]
    BY <2>1 DEF TypeOK
  <2>6. NextTask(r) = Item(r, n + 1)
    BY DEF NextTask, Item
  <2>7. Batch(r).deletions # Null /\ TasksWritten(r) /\ (\A w \in LogId : Kept(r, w))
        /\ pc[r] = "upsert_tasks"
    BY DEF UpsertTask, Under
  <2> HIDE DEF n
  <2>8. TasksWritten(r)'
    <3>1. ASSUME NEW k \in 1 .. n + 1
          PROVE  IF Item(r, k).id # Null THEN current'[r][k] = Item(r, k).id
                                         ELSE tasks[current'[r][k]] = NoRow
      <4>1. CASE k = n + 1
        BY <2>1, <2>4, <2>6, <4>1 DEF UnusedTask
      <4>2. CASE k # n + 1
        BY <2>4, <2>7, <4>2 DEF TasksWritten
      <4> QED  BY <4>1, <4>2
    <3>2. ASSUME NEW s \in TaskId
          PROVE  \/ /\ \A k \in 1 .. n + 1 : current'[r][k] # s
                    /\ wtasks'[r][s] = Unwritten \/ (wtasks'[r][s] = NoRow /\ s \in Batch(r).deletions)
                 \/ \E k \in 1 .. n + 1 :
                      /\ current'[r][k] = s
                      /\ wtasks'[r][s] = TaskRowOf(r, Item(r, k))
                      /\ \A j \in 1 .. n + 1 : current'[r][j] = s => j <= k
      <4>1. CASE s = t
        <5>1. n + 1 \in 1 .. n + 1 /\ \A j \in 1 .. n + 1 : j <= n + 1
          BY <2>4
        <5> QED  BY <2>4, <2>5, <2>6, <4>1, <5>1
      <4>2. CASE s # t
        <5>1. \A k \in 1 .. n + 1 : current'[r][k] = s => k \in 1 .. n
          BY <2>4, <4>2
        <5>2. 1 .. n \subseteq 1 .. n + 1
          BY <2>4
        <5> QED  BY <2>4, <2>5, <2>7, <4>2, <5>1, <5>2 DEF TasksWritten
      <4> QED  BY <4>1, <4>2
    <3>3. tasks' = tasks
      BY <2>1
    <3>4. DOMAIN current'[r] = 1 .. n + 1 /\ Batch(r)'.deletions = Batch(r).deletions
      BY <2>2, <2>4
    <3>5. \A k \in DOMAIN current'[r] :
            IF Item(r, k)'.id # Null THEN current'[r][k] = Item(r, k)'.id
                                     ELSE tasks'[current'[r][k]] = NoRow
      BY <2>2, <3>1, <3>3, <3>4
    <3>6. \A s \in TaskId :
            \/ /\ \A k \in DOMAIN current'[r] : current'[r][k] # s
               /\ wtasks'[r][s] = Unwritten \/ (wtasks'[r][s] = NoRow /\ s \in Batch(r)'.deletions)
            \/ \E k \in DOMAIN current'[r] :
                 /\ current'[r][k] = s
                 /\ wtasks'[r][s] = TaskRowOf(r, Item(r, k))'
                 /\ \A j \in DOMAIN current'[r] : current'[r][j] = s => j <= k
      <4>1. \A k : TaskRowOf(r, Item(r, k))' = TaskRowOf(r, Item(r, k))
        BY <2>2
      <4> QED  BY <3>2, <3>4, <4>1
    <3> QED  BY <3>5, <3>6 DEF TasksWritten
  <2>9. \A s \in TaskId : wtasks[r][s] # Unwritten => wtasks'[r][s] # Unwritten
    <3>1. job[r] \in Job /\ Batch(r) \in Batches
      BY <2>7 DEF Phase, Job, Batch
    <3>2. NextTask(r) \in UpsertActivityTask
      BY <2>3, <3>1, NextTaskType DEF UpsertTask
    <3>3. TaskRowOf(r, NextTask(r)) \in TaskRow
      BY <2>1, <3>1, <3>2 DEF TaskRowOf, TaskRow, UpsertActivityTask, Job
    <3> QED  BY <2>5, <3>3, BatchAssumption
  <2>10. ASSUME NEW w \in LogId
         PROVE  Kept(r, w)'
    <3>1. Batch(r).deletions \subseteq TaskId
      BY <2>7, BatchAssumption DEF Phase, Job, Batch, TaskBatchDto
    <3> QED  BY <2>1, <2>2, <2>7, <2>9, <3>1 DEF Kept, Orphaned
  <2> QED  BY <2>1, <2>2, <2>7, <2>8, <2>10 DEF Under
<1> QED  BY <1>1, <1>2

\* The cells get their ids.
LEMMA UnderUpsertLogs ==
  ASSUME IInv, NEW r \in Requests, Under(r), UpsertLogs(r)
  PROVE  Under(r)'
<1> USE DEF IInv, Typed
<1>1. CASE Fail(r)
  BY <1>1 DEF Fail, End, TypeOK, Under
<1>2. CASE ~Fail(r)
  <2>1. PICK f \in LogIds(r) :
             /\ LogsAccepted(r, f)
             /\ wlogs' = [wlogs EXCEPT ![r] =
                   [w \in LogId |-> IF \E c \in DOMAIN f : f[c] = w
                                    THEN LogRowOf(r, CHOOSE c \in DOMAIN f : f[c] = w)
                                    ELSE @[w]]]
             /\ GoTo(r, "delete_logs")
             /\ UNCHANGED <<tasks, worklogs, wtasks, job, current, outcome>>
    BY <1>2 DEF UpsertLogs
  <2>2. Batch(r)' = Batch(r) /\ (\A c : LogRowOf(r, c)' = LogRowOf(r, c))
        /\ TasksWritten(r)' = TasksWritten(r)
    BY <2>1 DEF Batch, LogRowOf, TasksWritten, Item, TaskRowOf
  <2>3. Batch(r).deletions # Null /\ TasksWritten(r) /\ (\A w \in LogId : Kept(r, w))
        /\ pc[r] = "upsert_logs" /\ pc'[r] = "delete_logs" /\ Len(current[r]) = Len(Batch(r).tasks)
    BY <2>1 DEF UpsertLogs, Under, GoTo, TypeOK
  <2>4. f \in [ToUpsert(Batch(r)) -> LogId]
    BY DEF LogIds
  <2>5. \A c, d \in DOMAIN f : c # d => f[c] # f[d]
    BY <2>1 DEF LogsAccepted
  <2>6. \A c \in DOMAIN f : LogRowOf(r, c) # Unwritten
    BY <2>1, <2>3, WrittenLogsType, BatchAssumption
  <2>7. \A w \in LogId : wlogs'[r][w] = IF \E c \in DOMAIN f : f[c] = w
                                    THEN LogRowOf(r, CHOOSE c \in DOMAIN f : f[c] = w)
                                    ELSE wlogs[r][w]
    BY <2>1 DEF TypeOK
  <2>8. \A c \in DOMAIN f : wlogs'[r][f[c]] = LogRowOf(r, c)
    <3>1. ASSUME NEW c \in DOMAIN f
          PROVE  (CHOOSE d \in DOMAIN f : f[d] = f[c]) = c
      BY <2>5
    <3> QED  BY <2>4, <2>7, <3>1
  <2>9. \A w \in LogId : wlogs[r][w] # Unwritten => wlogs'[r][w] # Unwritten
    BY <2>6, <2>7
  <2>10. ASSUME NEW w \in LogId, \A c \in DOMAIN f : f[c] # w
         PROVE  Kept(r, w)'
    BY <2>1, <2>2, <2>3, <2>7, <2>9, <2>10 DEF Kept, Orphaned
  <2>11. \A c \in DOMAIN f : IF Cell(Batch(r), c).id # Null THEN f[c] = Cell(Batch(r), c).id
                                                       ELSE worklogs[f[c]] = NoRow
    BY DEF LogIds, UnusedLog
  <2>12. Placed(r, f)'
    BY <2>1, <2>2, <2>5, <2>6, <2>8, <2>10, <2>11 DEF Placed
  <2> QED  BY <2>1, <2>2, <2>3, <2>4, <2>12 DEF Under
<1> QED  BY <1>1, <1>2

\* The DELETE of the cleared cells.
LEMMA UnderDeleteLogs ==
  ASSUME IInv, NEW r \in Requests, Under(r), DeleteLogs(r)
  PROVE  Under(r)'
<1> USE DEF IInv, Typed
<1> DEFINE doomed == {w \in ToDelete(Batch(r)) : LogView(r)[w] # NoRow}
<1>1. /\ pc'[r] \in {"rollback", "check_limit"}
      /\ \A w \in LogId : wlogs'[r][w] = IF w \in doomed THEN NoRow ELSE wlogs[r][w]
      /\ UNCHANGED <<tasks, worklogs, wtasks, job, current>>
      /\ pc[r] = "delete_logs"
  BY DEF DeleteLogs, Raise, GoTo, TypeOK
<1>2. Batch(r)' = Batch(r) /\ (\A c : LogRowOf(r, c)' = LogRowOf(r, c))
      /\ TasksWritten(r)' = TasksWritten(r)
  BY <1>1 DEF Batch, LogRowOf, TasksWritten, Item, TaskRowOf
<1>3. Batch(r).deletions # Null /\ TasksWritten(r) /\ Len(current[r]) = Len(Batch(r).tasks)
  BY <1>1 DEF Under
<1>4. PICK f \in [ToUpsert(Batch(r)) -> LogId] : Placed(r, f)
  BY <1>1 DEF Under
<1>5. doomed \subseteq ToDelete(Batch(r))
  OBVIOUS
<1> HIDE DEF doomed
<1>6. \A w \in LogId : wlogs[r][w] # Unwritten => wlogs'[r][w] # Unwritten
  BY <1>1, BatchAssumption
<1>7. ASSUME NEW w \in LogId, Kept(r, w), w \notin doomed
      PROVE  Kept(r, w)'
  BY <1>1, <1>2, <1>6, <1>7 DEF Kept, Orphaned
<1>8. ASSUME pc'[r] = "check_limit", NEW w \in LogId, Kept(r, w), w \in doomed
      PROVE  worklogs[w] # NoRow /\ worklogs[w].task # Null
  <2>1. LogView(r)[w] # NoRow /\ ~InvalidRow(LogView(r)[w])
    BY <1>8 DEF doomed, DeleteLogs, Raise, GoTo, TypeOK
  <2>2. ~Orphaned(r, w)
    <3>1. worklogs[w] # NoRow => [worklogs[w] EXCEPT !.task = Null] \in LogRow
      BY DEF TypeOK, LogTable, LogRow
    <3> QED  BY <2>1, <3>1, BatchAssumption DEF Orphaned, InvalidRow, LogView, LogRow
  <2> QED  BY <1>8, <2>1, <2>2 DEF Kept, LogView, InvalidRow
<1>9. CASE pc'[r] = "rollback"
  BY <1>9 DEF Under
<1>10. CASE pc'[r] = "check_limit"
  <2>1. \A c \in DOMAIN f : f[c] \in LogId
    OBVIOUS
  <2>2. Placed(r, f)'
    BY <1>1, <1>2, <1>4, <1>5, <1>6, <1>7, <1>8, <1>10, <2>1 DEF Placed
  <2> QED  BY <1>1, <1>2, <1>3, <1>10, <2>2 DEF Under
<1> QED BY <1>1, <1>9, <1>10

\* What every request has in store is kept by every step.
LEMMA UnderStep ==
  ASSUME IInv, UnderWay, NEW q \in Requests, Begin(q) \/ Advance(q) \/ ConnectionLost(q)
  PROVE  UnderWay'
<1> SUFFICES ASSUME NEW r \in Requests PROVE Under(r)'
  BY DEF UnderWay
<1>1. Under(r)
  BY DEF UnderWay
<1>2. CASE q # r
  BY <1>1, <1>2, UnderOthers
<1>3. CASE q = r
  <2> USE DEF IInv, Typed
  <2>1. CASE Begin(r)
    BY <2>1 DEF Begin, GoTo, TypeOK, Under
  <2>2. CASE DeleteTasks(r)
    BY <2>2, UnderDeleteTasks
  <2>3. CASE UpsertTask(r)
    BY <1>1, <2>3, UnderUpsertTask
  <2>4. CASE TasksDone(r)
    BY <1>1, <2>4 DEF TasksDone, GoTo, TypeOK, Under, TasksWritten, Kept, Orphaned, Item, TaskRowOf, Batch
  <2>5. CASE UpsertLogs(r)
    BY <1>1, <2>5, UnderUpsertLogs
  <2>6. CASE DeleteLogs(r)
    BY <1>1, <2>6, UnderDeleteLogs
  <2>7. CASE CheckLimit(r)
    <3>1. pc[r] = "check_limit" /\ pc'[r] \in {"rollback", "commit"}
      BY <2>7 DEF CheckLimit, Raise, GoTo, TypeOK
    <3>2. UNCHANGED <<tasks, worklogs, wtasks, wlogs, job, current>>
      BY <2>7 DEF CheckLimit
    <3>3. TasksWritten(r)' = TasksWritten(r) /\ (\A f : Placed(r, f)' = Placed(r, f))
          /\ Batch(r)' = Batch(r)
      BY <3>2 DEF TasksWritten, Placed, Kept, Orphaned, Item, TaskRowOf, LogRowOf, Batch
    <3> QED  BY <1>1, <3>1, <3>2, <3>3 DEF Under
  <2>8. CASE End(r)
    BY <2>8 DEF End, TypeOK, Under
  <2> QED  BY <1>3, <2>1, <2>2, <2>3, <2>4, <2>5, <2>6, <2>7, <2>8
           DEF Advance, Commit, Rollback, DeadlockVictim, Fail, ConnectionLost
<1> QED  BY <1>2, <1>3

----------------------------------------------------------------------------
(* The refinement.                                                         *)

\* Nothing is in store before the first request.
LEMMA SaveInvInit == Init => SaveInv
<1> SUFFICES ASSUME Init PROVE SaveInv
  OBVIOUS
<1>1. UnderWay
  BY DEF Init, UnderWay, Under
<1> QED  BY <1>1, IInvInit, KeysInit DEF SaveInv

\* SaveInv is inductive.
LEMMA SaveInvNext == SaveInv /\ [Next]_vars => SaveInv'
<1> SUFFICES ASSUME SaveInv, [Next]_vars PROVE SaveInv'
  OBVIOUS
<1>1. IInv' /\ KeysInv'
  BY IInvNext, KeysNext DEF SaveInv
<1>2. ASSUME Next PROVE UnderWay'
  <2>1. PICK q \in Requests : Begin(q) \/ Advance(q) \/ ConnectionLost(q)
    BY <1>2 DEF Next
  <2> QED  BY <2>1, UnderStep DEF SaveInv
<1>3. ASSUME UNCHANGED vars PROVE UnderWay'
  <2>1. \A r : TasksWritten(r)' = TasksWritten(r)
    BY <1>3 DEF vars, TasksWritten, Item, TaskRowOf, Batch
  <2>2. \A r, f : Placed(r, f)' = Placed(r, f)
    BY <1>3 DEF vars, Placed, Kept, Orphaned, LogRowOf, Batch
  <2>3. \A r, w : Kept(r, w)' = Kept(r, w)
    BY <1>3 DEF vars, Kept, Orphaned, Batch
  <2> QED  BY <1>3, <2>1, <2>2, <2>3 DEF vars, SaveInv, UnderWay, Under, Batch
<1> QED  BY <1>1, <1>2, <1>3 DEF SaveInv

\* Timesheet speaks of batches and rows as WorklogBatch does.
LEMMA SameSheet ==
  /\ \A b, c : Sheet!Cell(b, c) = Cell(b, c)
  /\ \A b : Sheet!ToUpsert(b) = ToUpsert(b) /\ Sheet!ToDelete(b) = ToDelete(b)
  /\ \A x : Sheet!Stored(x) = Stored(x)
  /\ \A S : Sheet!Max(S) = Max(S)
  /\ \A logs, tsks : Sheet!Sound(tsks, logs)
       <=> References(logs, tsks) /\ DistinctTasks(tsks) /\ DistinctLogs(logs)
<1>1. \A b, c : Sheet!Cell(b, c) = Cell(b, c)
  BY DEF Sheet!Cell, Cell
<1>2. \A b : Sheet!Cells(b) = Cells(b)
  BY DEF Sheet!Cells, Cells
<1>3. \A item : Sheet!Clears(item) = Clears(item)
  BY DEF Sheet!Clears, Clears
<1>4. \A b : Sheet!ToUpsert(b) = ToUpsert(b) /\ Sheet!ToDelete(b) = ToDelete(b)
  BY <1>1, <1>2, <1>3 DEF Sheet!ToUpsert, ToUpsert, Sheet!ToDelete, ToDelete
<1>5. \A x : Sheet!Stored(x) = Stored(x)
  <2>1. \A h : Sheet!SentBelow(h) = SentBelow(h)
    BY DEF Sheet!SentBelow, SentBelow, Sheet!Spacing, Spacing
  <2> QED  BY <2>1 DEF Sheet!Stored, Stored
<1>6. \A S : Sheet!Max(S) = Max(S)
  BY DEF Sheet!Max, Max
<1>7. \A logs, tsks : Sheet!References(logs, tsks) = References(logs, tsks)
  BY DEF Sheet!References, References
<1>8. \A tsks : Sheet!DistinctTasks(tsks) = DistinctTasks(tsks)
  BY DEF Sheet!DistinctTasks, DistinctTasks, Sheet!TaskKey, TaskKey
<1>9. \A logs : Sheet!DistinctLogs(logs) = DistinctLogs(logs)
  BY DEF Sheet!DistinctLogs, DistinctLogs, Sheet!LogKey, LogKey
<1> QED  BY <1>1, <1>4, <1>5, <1>6, <1>7, <1>8, <1>9 DEF Sheet!Sound

\* The tasks that a batch removes: those its DELETE took and no worklog is left of.
Removed(r) ==
    {t \in Batch(r).deletions :
        /\ wtasks[r][t] # Unwritten
        /\ \A w \in LogId : wlogs[r][w] = Unwritten /\ worklogs[w] # NoRow => worklogs[w].task # t}

\* The cells it clears.
Cleared(r) == {w \in ToDelete(Batch(r)) : wlogs[r][w] = NoRow}

\* A commit leaves the tasks as the batch, saved at once, leaves them.
LEMMA TasksSaved ==
  ASSUME SaveInv, NEW r \in Requests, pc[r] = "commit", NEW t \in TaskId
  PROVE  TaskView(r)[t] =
           IF \E k \in DOMAIN current[r] : current[r][k] = t
           THEN TaskRowOf(r, Item(r, Max({k \in DOMAIN current[r] : current[r][k] = t})))
           ELSE IF t \in Removed(r) THEN NoRow ELSE tasks[t]
<1> USE DEF SaveInv, IInv, Typed
<1>1. TasksWritten(r) /\ Batch(r).deletions # Null /\ current[r] \in Seq(TaskId)
  BY DEF UnderWay, Under, TypeOK
<1>2. CASE \E k \in DOMAIN current[r] : current[r][k] = t
  <2>1. PICK k \in DOMAIN current[r] :
          /\ current[r][k] = t
          /\ wtasks[r][t] = TaskRowOf(r, Item(r, k))
          /\ \A j \in DOMAIN current[r] : current[r][j] = t => j <= k
    BY <1>1, <1>2 DEF TasksWritten
  <2> DEFINE S == {j \in DOMAIN current[r] : current[r][j] = t}
  <2>2. S \subseteq Int /\ k \in S /\ \A j \in S : j <= k
    BY <1>1, <2>1
  <2> HIDE DEF S
  <2>3. Max(S) = k
    BY <2>2 DEF Max
  <2>4. wtasks[r][t] # Unwritten
    BY <2>1, BatchAssumption DEF Owned
  <2> QED  BY <1>2, <2>1, <2>3, <2>4 DEF TaskView, S
<1>3. CASE \A k \in DOMAIN current[r] : current[r][k] # t
  <2>1. CASE wtasks[r][t] = Unwritten
    BY <1>3, <2>1 DEF TaskView, Removed
  <2>2. CASE wtasks[r][t] # Unwritten
    <3>1. wtasks[r][t] = NoRow /\ t \in Batch(r).deletions
      BY <1>1, <1>3, <2>2 DEF TasksWritten
    <3>2. TaskView(r)[t] = NoRow
      BY <2>2, <3>1 DEF TaskView
    <3>3. ASSUME NEW w \in LogId, wlogs[r][w] = Unwritten, worklogs[w] # NoRow
          PROVE  worklogs[w].task # t
      <4>1. LogView(r)[w] = worklogs[w]
        BY <3>3 DEF LogView
      <4> QED  BY <3>2, <3>3, <4>1, TablesAssumption DEF ReferentialIntegrity, References
    <3> QED  BY <1>3, <2>2, <3>1, <3>2, <3>3 DEF Removed
  <2> QED  BY <2>1, <2>2
<1> QED  BY <1>2, <1>3

\* The cell that got the id w.
CellAt(f, w) == CHOOSE c \in DOMAIN f : f[c] = w

\* And the worklogs.
LEMMA LogsSaved ==
  ASSUME SaveInv, NEW r \in Requests, pc[r] = "commit",
         NEW f \in [ToUpsert(Batch(r)) -> LogId], Placed(r, f), NEW w \in LogId
  PROVE  LogView(r)[w] =
           IF w \in Cleared(r) THEN NoRow
           ELSE IF \E c \in DOMAIN f : f[c] = w THEN LogRowOf(r, CellAt(f, w))
           ELSE IF worklogs[w] # NoRow /\ worklogs[w].task \in Removed(r)
           THEN [worklogs[w] EXCEPT !.task = Null]
           ELSE worklogs[w]
<1>0. NoRow # Unwritten
  BY BatchAssumption
<1>1. CASE w \in Cleared(r)
  BY <1>0, <1>1 DEF Cleared, LogView
<1>2. ASSUME w \notin Cleared(r), NEW d \in DOMAIN f, f[d] = w
      PROVE  LogView(r)[w] = LogRowOf(r, CellAt(f, w))
  <2>1. CellAt(f, w) = d
    BY <1>2 DEF Placed, CellAt
  <2>2. wlogs[r][w] = LogRowOf(r, d) /\ wlogs[r][w] # Unwritten
    BY <1>2 DEF Placed, Cleared
  <2> QED  BY <2>1, <2>2 DEF LogView
<1>3. CASE w \notin Cleared(r) /\ \A c \in DOMAIN f : f[c] # w
  <2>1. Kept(r, w)
    BY <1>3 DEF Placed, Cleared
  <2>2. CASE wlogs[r][w] = Unwritten
    <3>1. LogView(r)[w] = worklogs[w]
      BY <2>2 DEF LogView
    <3>2. ~(worklogs[w] # NoRow /\ worklogs[w].task \in Removed(r))
      BY <2>2 DEF Removed
    <3> QED  BY <1>3, <3>1, <3>2
  <2>3. CASE wlogs[r][w] # Unwritten
    <3>1. Orphaned(r, w)
      BY <2>1, <2>3 DEF Kept
    <3>2. worklogs[w] # NoRow /\ worklogs[w].task \in Removed(r)
      BY <3>1 DEF Orphaned, Removed
    <3>3. LogView(r)[w] = [worklogs[w] EXCEPT !.task = Null]
      BY <2>3, <3>1 DEF Orphaned, LogView
    <3> QED  BY <1>3, <3>2, <3>3
  <2> QED  BY <2>2, <2>3
<1> QED  BY <1>1, <1>2, <1>3

\* A commit is one Save.
LEMMA CommitSaves ==
  ASSUME SaveInv, SaveInv', NEW r \in Requests, pc[r] = "commit",
         tasks' = TaskView(r), worklogs' = LogView(r)
  PROVE  Sheet!Next
<1> DEFINE b == Batch(r)
           tid == current[r]
<1>1. job[r] \in Job /\ b \in Batches /\ job[r].user \in Users
  BY DEF SaveInv, IInv, Typed, Phase, Job, Batch
<1>2. b.deletions # Null /\ Len(tid) = Len(b.tasks) /\ TasksWritten(r)
  BY DEF SaveInv, UnderWay, Under
<1>3. PICK f \in [ToUpsert(b) -> LogId] : Placed(r, f)
  BY DEF SaveInv, UnderWay, Under
<1>4. b.tasks \in Seq(UpsertActivityTask)
  BY <1>1, BatchAssumption DEF TaskBatchDto
<1>5. tid \in Seq(TaskId)
  BY DEF SaveInv, IInv, Typed, TypeOK
<1>6. tid \in [DOMAIN b.tasks -> TaskId]
  BY <1>2, <1>4, <1>5
<1>7. tid \in Sheet!TaskIds(b)
  BY <1>2, <1>6 DEF TasksWritten, Item, Sheet!TaskIds
<1>8. f \in Sheet!LogIds(b)
  BY <1>3, SameSheet DEF Placed, Sheet!LogIds
<1>9. Removed(r) \in SUBSET b.deletions /\ Cleared(r) \in SUBSET Sheet!ToDelete(b)
  BY SameSheet DEF Removed, Cleared
<1>10. tasks' = [t \in TaskId |->
          IF \E k \in DOMAIN tid : tid[k] = t
          THEN LET last == b.tasks[Sheet!Max({k \in DOMAIN tid : tid[k] = t})]
               IN  [title |-> last.title, activity |-> last.activity, user |-> job[r].user]
          ELSE IF t \in Removed(r) THEN NoRow ELSE tasks[t]]
  <2>1. tasks' = [t \in TaskId |-> TaskView(r)[t]]
    BY DEF TaskView
  <2> QED  BY <2>1, TasksSaved, SameSheet DEF TaskRowOf, Item
<1>11. worklogs' = [w \in LogId |->
          IF w \in Cleared(r) THEN NoRow
          ELSE IF \E c \in DOMAIN f : f[c] = w
          THEN LET c == CellAt(f, w)
               IN  [date |-> Sheet!Cell(b, c).date, duration |-> Sheet!Stored(Sheet!Cell(b, c).duration),
                    task |-> tid[c[1]], user |-> job[r].user]
          ELSE IF worklogs[w] # NoRow /\ worklogs[w].task \in Removed(r)
          THEN [worklogs[w] EXCEPT !.task = Null]
          ELSE worklogs[w]]
  <2>1. worklogs' = [w \in LogId |-> LogView(r)[w]]
    BY DEF LogView
  <2> QED  BY <1>3, <2>1, LogsSaved, SameSheet DEF LogRowOf
<1>12. Sheet!Sound(tasks', worklogs')
  BY SameSheet DEF SaveInv, IInv, KeysInv, TaskKeys, LogKeys, ReferentialIntegrity
<1>13. Sheet!Save(job[r].user, b)
  <2> SUFFICES \E tsk \in Sheet!TaskIds(b), lid \in Sheet!LogIds(b),
                  removed \in SUBSET b.deletions, cleared \in SUBSET Sheet!ToDelete(b) :
         /\ tasks' = [t \in TaskId |->
               IF \E k \in DOMAIN tsk : tsk[k] = t
               THEN LET last == b.tasks[Sheet!Max({k \in DOMAIN tsk : tsk[k] = t})]
                    IN  [title |-> last.title, activity |-> last.activity, user |-> job[r].user]
               ELSE IF t \in removed THEN NoRow ELSE tasks[t]]
         /\ worklogs' = [w \in LogId |->
               IF w \in cleared THEN NoRow
               ELSE IF \E c \in DOMAIN lid : lid[c] = w
               THEN LET c == CHOOSE c \in DOMAIN lid : lid[c] = w
                    IN  [date |-> Sheet!Cell(b, c).date,
                         duration |-> Sheet!Stored(Sheet!Cell(b, c).duration),
                         task |-> tsk[c[1]], user |-> job[r].user]
               ELSE IF worklogs[w] # NoRow /\ worklogs[w].task \in removed
               THEN [worklogs[w] EXCEPT !.task = Null]
               ELSE worklogs[w]]
    BY <1>2, <1>12 DEF Sheet!Save
  <2> USE <1>7, <1>8, <1>9
  <2> WITNESS tid \in Sheet!TaskIds(b)
  <2> WITNESS f \in Sheet!LogIds(b)
  <2> WITNESS Removed(r) \in SUBSET b.deletions
  <2> WITNESS Cleared(r) \in SUBSET Sheet!ToDelete(b)
  <2> QED  BY <1>10, <1>11 DEF CellAt
<1> QED  BY <1>1, <1>13 DEF Sheet!Next

\* A request changes the tables by its commit, whether it is told so or loses its
\* connection.
LEMMA OnlyCommits ==
  ASSUME NEW r \in Requests, Begin(r) \/ Advance(r) \/ ConnectionLost(r)
  PROVE  \/ UNCHANGED tables
         \/ pc[r] = "commit" /\ End(r) /\ tasks' = TaskView(r) /\ worklogs' = LogView(r)
BY DEF Begin, Advance, DeleteTasks, UpsertTask, TasksDone, UpsertLogs, DeleteLogs, CheckLimit,
       Commit, Rollback, DeadlockVictim, ConnectionLost, Fail, tables

\* However requests interleave, fail or lose their connection, every batch takes
\* effect in one step and as a whole, or not at all.
THEOREM BatchesSaveAtomically == Spec => SavesAtomically
<1>1. Init => Sheet!Init
  BY DEF Init, Sheet!Init
<1>2. SaveInv /\ SaveInv' /\ [Next]_vars => [Sheet!Next]_(Sheet!tables)
  <2> SUFFICES ASSUME SaveInv, SaveInv', [Next]_vars PROVE Sheet!Next \/ UNCHANGED Sheet!tables
    OBVIOUS
  <2>1. CASE UNCHANGED vars
    BY <2>1 DEF vars, Sheet!tables
  <2>2. CASE Next
    <3>1. PICK r \in Requests : Begin(r) \/ Advance(r) \/ ConnectionLost(r)
      BY <2>2 DEF Next
    <3> QED  BY <3>1, OnlyCommits, CommitSaves DEF tables, Sheet!tables
  <2> QED  BY <2>1, <2>2
<1> QED  BY <1>1, <1>2, SaveInvInit, SaveInvNext, PTL DEF Spec, SavesAtomically, Sheet!Spec

\* Whatever batches run together, a worklog that has lost its task is deleted by a
\* commit of a batch that gives it a task again, and by nothing else.
THEOREM OrphansAreKept == Spec => OrphansStay
<1>1. SaveInv /\ [Next]_vars => 
        [\A w \in LogId :
           worklogs[w] # NoRow /\ worklogs[w].task = Null /\ worklogs'[w] = NoRow
              => \E r \in Requests : /\ pc[r] = "commit" /\ pc'[r] = "idle"
                                    /\ \E c \in ToUpsert(Batch(r)) : Cell(Batch(r), c).id = w]_vars
  <2> SUFFICES ASSUME SaveInv, [Next]_vars, NEW w \in LogId,
                      worklogs[w] # NoRow, worklogs[w].task = Null, worklogs'[w] = NoRow
               PROVE  \E r \in Requests :
                        /\ pc[r] = "commit" /\ pc'[r] = "idle"
                        /\ \E c \in ToUpsert(Batch(r)) : Cell(Batch(r), c).id = w
    OBVIOUS
  <2>1. PICK r \in Requests : Begin(r) \/ Advance(r) \/ ConnectionLost(r)
    BY DEF Next, vars
  <2>2. pc[r] = "commit" /\ End(r) /\ worklogs' = LogView(r)
    BY <2>1, OnlyCommits DEF tables
  <2>3. pc'[r] = "idle"
    BY <2>2 DEF End, SaveInv, IInv, Typed, TypeOK
  <2>4. wlogs[r][w] = NoRow
    BY <2>2 DEF LogView
  <2>5. PICK f \in [ToUpsert(Batch(r)) -> LogId] : Placed(r, f)
    BY <2>2 DEF SaveInv, UnderWay, Under
  <2>6. ~Kept(r, w)
    <3>1. [worklogs[w] EXCEPT !.task = Null] # NoRow
      BY TablesAssumption DEF SaveInv, IInv, Typed, TypeOK, LogTable, LogRow
    <3> QED  BY <2>4, <3>1, BatchAssumption DEF Kept, Orphaned
  <2>7. PICK c \in ToUpsert(Batch(r)) : f[c] = w
    BY <2>5, <2>6 DEF Placed
  <2>8. Cell(Batch(r), c).id = w
    BY <2>5, <2>7 DEF Placed
  <2> QED  BY <2>2, <2>3, <2>8
<1> QED  BY <1>1, SaveInvInit, SaveInvNext, PTL DEF Spec, OrphansStay

=============================================================================
