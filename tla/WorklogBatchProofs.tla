------------------------- MODULE WorklogBatchProofs -------------------------
(***************************************************************************)
(* Proofs about WorklogBatch, for every value of its constants.            *)
(***************************************************************************)
EXTENDS WorklogBatchProperties, TLAPS

----------------------------------------------------------------------------
(* Batches.                                                                *)

\* What a cell of a batch holds, and where it is.
LEMMA CellType ==
    ASSUME NEW b \in Batches, NEW c \in Cells(b)
    PROVE  /\ c[1] \in DOMAIN b.tasks
           /\ Cell(b, c) \in WorklogDto
<1>1. b \in TaskBatchDto
  BY BatchAssumption
<1>2. PICK k \in DOMAIN b.tasks : c \in {<<k, j>> : j \in DOMAIN b.tasks[k].worklogs}
  BY DEF Cells
<1>3. PICK j \in DOMAIN b.tasks[k].worklogs : c = <<k, j>>
  BY <1>2
<1>4. b.tasks \in Seq(UpsertActivityTask)
  BY <1>1 DEF TaskBatchDto
<1>5. b.tasks[k] \in UpsertActivityTask
  BY <1>4
<1>6. b.tasks[k].worklogs \in Seq(WorklogDto)
  BY <1>5 DEF UpsertActivityTask
<1>7. b.tasks[k].worklogs[j] \in WorklogDto
  BY <1>6
<1> QED
  BY <1>3, <1>7 DEF Cell

\* The next task of a batch that is not through is one of the batch's tasks.
LEMMA NextTaskType ==
    ASSUME NEW r \in Requests, Batch(r) \in Batches, current[r] \in Seq(TaskId),
           Len(current[r]) < Len(Batch(r).tasks)
    PROVE  NextTask(r) \in UpsertActivityTask
<1>1. Batch(r) \in TaskBatchDto
  BY BatchAssumption
<1>2. Batch(r).tasks \in Seq(UpsertActivityTask)
  BY <1>1 DEF TaskBatchDto
<1>3. Len(current[r]) \in Nat /\ Len(Batch(r).tasks) \in Nat
  BY <1>2
<1>4. Len(current[r]) + 1 \in 1 .. Len(Batch(r).tasks)
  BY <1>3
<1> QED
  BY <1>2, <1>4 DEF NextTask
----------------------------------------------------------------------------
(* Type correctness.                                                       *)

NoWrites(r) == wtasks[r] = NoTaskWrites /\ wlogs[r] = NoLogWrites

\* What holds of a request at each of its steps.
Phase ==
    \A r \in Requests :
        /\ pc[r] \in {"idle", "delete_tasks"} => NoWrites(r) /\ current[r] = << >>
        /\ pc[r] # "idle" => job[r] \in Job
        /\ pc[r] = "upsert_logs" => Len(current[r]) = Len(Batch(r).tasks)

Typed == TypeOK /\ Phase

\* The views of a transaction are tables.
LEMMA ViewType ==
    ASSUME TypeOK, NEW r \in Requests
    PROVE  TaskView(r) \in TaskTable /\ LogView(r) \in LogTable
<1>1. \A t \in TaskId : wtasks[r][t] \in TaskRow \cup {NoRow, Unwritten} /\ tasks[t] \in TaskRow \cup {NoRow}
  BY DEF TypeOK, TaskTable
<1>2. \A w \in LogId : wlogs[r][w] \in LogRow \cup {NoRow, Unwritten} /\ worklogs[w] \in LogRow \cup {NoRow}
  BY DEF TypeOK, LogTable
<1> QED
  BY <1>1, <1>2 DEF TaskView, LogView, TaskTable, LogTable

\* The end of a request leaves it typed; the tables are what the caller says.
LEMMA EndTyped ==
    ASSUME Typed, NEW r \in Requests, End(r),
           tasks' \in TaskTable, worklogs' \in LogTable,
           outcome' \in [Requests -> Outcomes]
    PROVE  Typed'
<1> USE DEF Typed, End
<1>1. TypeOK'
  <2>1. NoTaskWrites \in [TaskId -> TaskRow \cup {NoRow, Unwritten}]
    BY DEF NoTaskWrites
  <2>2. NoLogWrites \in [LogId -> LogRow \cup {NoRow, Unwritten}]
    BY DEF NoLogWrites
  <2>3. << >> \in Seq(TaskId)
    OBVIOUS
  <2> QED
    BY <2>1, <2>2, <2>3 DEF TypeOK, Steps
<1>2. Phase'
  BY DEF Phase, TypeOK, NoWrites, NoTaskWrites, NoLogWrites, Batch
<1> QED
  BY <1>1, <1>2

\* A failed statement is answered with an error and leaves the tables as they are.
LEMMA FailTyped ==
    ASSUME Typed, NEW r \in Requests, Fail(r)
    PROVE  Typed'
<1>1. tasks' \in TaskTable /\ worklogs' \in LogTable /\ outcome' \in [Requests -> Outcomes]
  BY DEF Fail, tables, Typed, TypeOK, Outcomes
<1> QED
  BY <1>1, EndTyped DEF Fail

\* What PostgreSQL accepts for worklogs are rows of that table.
LEMMA WrittenLogsType ==
    ASSUME Typed, NEW r \in Requests, pc[r] = "upsert_logs",
           NEW f \in LogIds(r), LogsAccepted(r, f)
    PROVE  \A c \in DOMAIN f : LogRowOf(r, c) \in LogRow
<1>1. Batch(r) \in Batches /\ job[r].user \in Users /\ Len(current[r]) = Len(Batch(r).tasks)
  BY DEF Typed, Phase, Job, Batch
<1>2. Batch(r).tasks \in Seq(UpsertActivityTask)
  BY <1>1, BatchAssumption DEF TaskBatchDto
<1>3. SUFFICES ASSUME NEW c \in DOMAIN f PROVE LogRowOf(r, c) \in LogRow
  OBVIOUS
<1>4. c \in Cells(Batch(r))
  BY DEF LogIds, ToUpsert
<1>5. c[1] \in DOMAIN Batch(r).tasks /\ Cell(Batch(r), c) \in WorklogDto
  BY <1>1, <1>4, CellType
<1>6. current[r][c[1]] \in TaskId
  BY <1>1, <1>2, <1>5 DEF Typed, TypeOK
<1>7. Stored(Cell(Batch(r), c).duration) \in 10 .. 80
  BY DEF LogsAccepted, DurationAllowed, LogRowOf
<1> QED
  BY <1>1, <1>5, <1>6, <1>7 DEF LogRowOf, LogRow, WorklogDto

\* Every step keeps the types and the phases.
LEMMA TypedStep ==
    ASSUME Typed, NEW r \in Requests,
           Begin(r) \/ Advance(r) \/ ConnectionLost(r)
    PROVE  Typed'
<1> USE DEF Typed
<1>1. ASSUME Begin(r) PROVE Typed'
  <2>1. PICK u \in Users, b \in Batches : job' = [job EXCEPT ![r] = [user |-> u, batch |-> b]]
    BY <1>1 DEF Begin
  <2>2. [user |-> u, batch |-> b] \in Job
    BY DEF Job
  <2>3. TypeOK'
    BY <1>1, <2>1, <2>2 DEF Begin, GoTo, TypeOK, Steps, Outcomes
  <2>4. Phase'
    BY <1>1, <2>1, <2>2 DEF Begin, GoTo, TypeOK, Phase, NoWrites, NoTaskWrites, NoLogWrites, Batch
  <2> QED
    BY <2>3, <2>4
<1>2. ASSUME DeleteTasks(r) PROVE Typed'
  <2> DEFINE doomed == {t \in Batch(r).deletions : TaskView(r)[t] # NoRow}
  <2>1. \A w \in LogsOf(r, doomed) : [LogView(r)[w] EXCEPT !.task = Null] \in LogRow
    BY ViewType DEF LogsOf, LogTable, LogRow
  <2>2. TypeOK'
    <3>1. CASE Batch(r).deletions = Null
      BY <1>2, <3>1 DEF DeleteTasks, Raise, GoTo, TypeOK, Steps, Outcomes
    <3>2. CASE Batch(r).deletions # Null
      <4>1. wtasks' = [wtasks EXCEPT ![r] = [t \in TaskId |-> IF t \in doomed THEN NoRow ELSE @[t]]]
        BY <1>2, <3>2 DEF DeleteTasks
      <4>2. wlogs' = [wlogs EXCEPT ![r] =
               [w \in LogId |-> IF w \in LogsOf(r, doomed) THEN [LogView(r)[w] EXCEPT !.task = Null] ELSE @[w]]]
        BY <1>2, <3>2 DEF DeleteTasks
      <4>3. wtasks' \in [Requests -> [TaskId -> TaskRow \cup {NoRow, Unwritten}]]
        BY <4>1 DEF TypeOK
      <4>4. wlogs' \in [Requests -> [LogId -> LogRow \cup {NoRow, Unwritten}]]
        <5> HIDE DEF doomed
        <5> QED
          BY <2>1, <4>2 DEF TypeOK
      <4> QED
        BY <1>2, <3>2, <4>3, <4>4 DEF DeleteTasks, GoTo, TypeOK, Steps
    <3> QED
      BY <3>1, <3>2
  <2>3. Phase'
    BY <1>2 DEF DeleteTasks, Raise, GoTo, TypeOK, Phase, NoWrites, NoTaskWrites, NoLogWrites, Batch
  <2> QED
    BY <2>2, <2>3
<1>3. ASSUME UpsertTask(r) PROVE Typed'
  <2>1. Batch(r) \in Batches /\ job[r].user \in Users
    BY <1>3 DEF UpsertTask, Phase, Job, Batch
  <2>2. NextTask(r) \in UpsertActivityTask
    BY <1>3, <2>1, NextTaskType DEF UpsertTask, TypeOK
  <2>3. CASE Fail(r)
    BY <2>3, FailTyped
  <2>4. ASSUME NEW t \in TaskId,
               NextTask(r).activity \in Activities,
               wtasks' = [wtasks EXCEPT ![r][t] = TaskRowOf(r, NextTask(r))],
               current' = [current EXCEPT ![r] = Append(@, t)],
               UNCHANGED <<tasks, worklogs, wlogs, pc, job, outcome>>
        PROVE  Typed'
    <3>1. TaskRowOf(r, NextTask(r)) \in TaskRow
      BY <2>1, <2>2, <2>4 DEF TaskRowOf, UpsertActivityTask, TaskRow
    <3>2. Append(current[r], t) \in Seq(TaskId)
      BY DEF TypeOK
    <3>3. TypeOK'
      BY <2>4, <3>1, <3>2 DEF TypeOK
    <3>4. Phase'
      BY <1>3, <2>4 DEF UpsertTask, TypeOK, Phase, NoWrites, NoTaskWrites, NoLogWrites, Batch
    <3> QED
      BY <3>3, <3>4
  <2> QED
    BY <1>3, <2>3, <2>4 DEF UpsertTask
<1>4. ASSUME TasksDone(r) PROVE Typed'
  BY <1>4 DEF TasksDone, GoTo, TypeOK, Steps, Phase, NoWrites, NoTaskWrites, NoLogWrites, Batch
<1>5. ASSUME UpsertLogs(r) PROVE Typed'
  <2>1. PICK f \in LogIds(r) :
          \/ Fail(r)
          \/ /\ LogsAccepted(r, f)
             /\ wlogs' = [wlogs EXCEPT ![r] =
                   [w \in LogId |-> IF \E c \in DOMAIN f : f[c] = w
                                    THEN LogRowOf(r, CHOOSE c \in DOMAIN f : f[c] = w)
                                    ELSE @[w]]]
             /\ GoTo(r, "delete_logs")
             /\ UNCHANGED <<tasks, worklogs, wtasks, job, current, outcome>>
    BY <1>5 DEF UpsertLogs
  <2>2. CASE Fail(r)
    BY <2>2, FailTyped
  <2>3. CASE ~Fail(r)
    <3>3. \A c \in DOMAIN f : LogRowOf(r, c) \in LogRow
      BY <1>5, <2>1, <2>3, WrittenLogsType DEF UpsertLogs
    <3> DEFINE written == [w \in LogId |-> IF \E c \in DOMAIN f : f[c] = w
                                          THEN LogRowOf(r, CHOOSE c \in DOMAIN f : f[c] = w)
                                          ELSE wlogs[r][w]]
    <3>4. TypeOK'
      <4>1. ASSUME NEW w \in LogId, \E c \in DOMAIN f : f[c] = w
            PROVE  LogRowOf(r, CHOOSE c \in DOMAIN f : f[c] = w) \in LogRow
        BY <3>3, <4>1
      <4>2. wlogs[r] \in [LogId -> LogRow \cup {NoRow, Unwritten}]
        BY DEF TypeOK
      <4>3. written \in [LogId -> LogRow \cup {NoRow, Unwritten}]
        BY <4>1, <4>2
      <4>4. wlogs' = [wlogs EXCEPT ![r] = written]
        BY <2>1, <2>3 DEF TypeOK
      <4> HIDE DEF written
      <4> QED
        BY <2>1, <2>3, <4>3, <4>4 DEF TypeOK, GoTo, Steps
    <3>5. Phase'
      BY <1>5, <2>1, <2>3 DEF UpsertLogs, GoTo, TypeOK, Phase, NoWrites, NoTaskWrites, NoLogWrites, Batch
    <3> QED
      BY <3>4, <3>5
  <2> QED
    BY <2>2, <2>3
<1>6. ASSUME DeleteLogs(r) PROVE Typed'
  <2>1. TypeOK'
    BY <1>6 DEF DeleteLogs, Raise, GoTo, TypeOK, Steps, Outcomes
  <2>2. Phase'
    BY <1>6 DEF DeleteLogs, Raise, GoTo, TypeOK, Phase, NoWrites, NoTaskWrites, NoLogWrites, Batch
  <2> QED
    BY <2>1, <2>2
<1>7. ASSUME CheckLimit(r) PROVE Typed'
  <2>1. TypeOK'
    BY <1>7 DEF CheckLimit, Raise, GoTo, TypeOK, Steps, Outcomes
  <2>2. Phase'
    BY <1>7 DEF CheckLimit, Raise, GoTo, TypeOK, Phase, NoWrites, NoTaskWrites, NoLogWrites, Batch
  <2> QED
    BY <2>1, <2>2
<1>8. ASSUME Commit(r) PROVE Typed'
  BY <1>8, ViewType, EndTyped DEF Commit, TypeOK, Outcomes
<1>9. ASSUME Rollback(r) PROVE Typed'
  BY <1>9, EndTyped DEF Rollback, TypeOK
<1>10. ASSUME DeadlockVictim(r) PROVE Typed'
  BY <1>10, FailTyped DEF DeadlockVictim
<1>11. ASSUME ConnectionLost(r) PROVE Typed'
  <2>1. tasks' \in TaskTable /\ worklogs' \in LogTable
    BY <1>11, ViewType DEF ConnectionLost, tables, TypeOK
  <2>2. End(r) /\ outcome' \in [Requests -> Outcomes]
    BY <1>11 DEF ConnectionLost, TypeOK, Outcomes
  <2> QED
    BY <2>1, <2>2, EndTyped
<1> QED
  BY <1>1, <1>2, <1>3, <1>4, <1>5, <1>6, <1>7, <1>8, <1>9, <1>10, <1>11 DEF Advance

\* The empty tables and idle slots are typed.
LEMMA TypedInit == Init => Typed
<1> SUFFICES ASSUME Init PROVE Typed
  OBVIOUS
<1>1. << >> \in Seq(TaskId)
  OBVIOUS
<1>2. TypeOK
  BY <1>1 DEF Init, TypeOK, TaskTable, LogTable, NoTaskWrites, NoLogWrites, Steps, Outcomes
<1>3. Phase
  BY DEF Init, Phase, NoWrites, Batch
<1> QED
  BY <1>2, <1>3 DEF Typed

\* Typed is inductive.
LEMMA TypedNext == Typed /\ [Next]_vars => Typed'
<1> SUFFICES ASSUME Typed, [Next]_vars PROVE Typed'
  OBVIOUS
<1>1. CASE Next
  BY <1>1, TypedStep DEF Next
<1>2. CASE UNCHANGED vars
  BY <1>2 DEF vars, Typed, TypeOK, Phase, NoWrites, Batch
<1> QED
  BY <1>1, <1>2

\* Every row the program ever writes or commits is a row of its table: a
\* duration between 1 and 8 hours, an activity that exists, a task id the loop
\* has upserted.
THEOREM TypeCorrect == Spec => []TypeOK
<1>1. Typed => TypeOK
  BY DEF Typed
<1> QED
  BY <1>1, TypedInit, TypedNext, PTL DEF Spec

----------------------------------------------------------------------------
(* Referential integrity.                                                  *)

\* The inductive invariant: types and phases, who holds which row, and the
\* references themselves.
IInv == Typed /\ Locks /\ Owned /\ ReferentialIntegrity

\* Row ids that no request in flight has written are written by nobody.
LEMMA UnusedIsFree ==
    ASSUME Typed, NEW q \in Requests
    PROVE  /\ \A t \in TaskId : UnusedTask(t) => wtasks[q][t] = Unwritten
           /\ \A w \in LogId : UnusedLog(w) => wlogs[q][w] = Unwritten
BY DEF UnusedTask, UnusedLog, InFlight, Typed, Phase, NoWrites, NoTaskWrites, NoLogWrites

\* What a statement that need not wait has to itself.
LEMMA DeleteTasksFree ==
    ASSUME Typed, NEW r \in Requests, NEW q \in Requests, q # r,
           pc[r] = "delete_tasks", Batch(r).deletions # Null, ~Waiting(r),
           NEW doomed, doomed = {t \in Batch(r).deletions : TaskView(r)[t] # NoRow}
    PROVE  /\ doomed \subseteq TaskId
           /\ \A t \in doomed : wtasks[q][t] = Unwritten
           /\ \A w \in LogsOf(r, doomed) : wlogs[q][w] = Unwritten
<1>1. ~DeleteTasksWaitsFor(r, q)
  BY DEF Waiting, WaitsFor
<1>2. Batch(r) \in TaskBatchDto
  BY BatchAssumption DEF Typed, Phase, Job, Batch
<1>3. doomed \subseteq TaskId
  BY <1>2 DEF TaskBatchDto
<1>4. NoWrites(r)
  BY DEF Typed, Phase
<1>5. \A t \in TaskId : TaskView(r)[t] = tasks[t]
  BY <1>4 DEF TaskView, NoWrites, NoTaskWrites
<1>6. \A w \in LogId : LogView(r)[w] = worklogs[w]
  BY <1>4 DEF LogView, NoWrites, NoLogWrites
<1>7. \A t \in doomed : wtasks[q][t] = Unwritten
  BY <1>1, <1>3, <1>5 DEF DeleteTasksWaitsFor
<1>8. \A w \in LogsOf(r, doomed) : wlogs[q][w] = Unwritten
  BY <1>1, <1>6 DEF DeleteTasksWaitsFor, LogsOf
<1> QED
  BY <1>3, <1>7, <1>8

\* The end of a request frees what it held.
LEMMA EndLocks ==
    ASSUME Typed, Locks, NEW r \in Requests, End(r)
    PROVE  Locks'
BY DEF End, Locks, Typed, TypeOK, NoTaskWrites, NoLogWrites

\* No step gives a row that one open transaction has written to another: the waits
\* of the statements keep writers apart.
LEMMA LocksStep ==
    ASSUME Typed, Locks, NEW r \in Requests,
           Begin(r) \/ Advance(r) \/ ConnectionLost(r)
    PROVE  Locks'
<1>1. CASE End(r)
  BY <1>1, EndLocks
<1>2. CASE UNCHANGED <<wtasks, wlogs>>
  BY <1>2 DEF Locks
<1>3. ASSUME DeleteTasks(r), Batch(r).deletions # Null PROVE Locks'
  <2> DEFINE doomed == {t \in Batch(r).deletions : TaskView(r)[t] # NoRow}
             ts == [t \in TaskId |-> IF t \in doomed THEN NoRow ELSE wtasks[r][t]]
             ls == [w \in LogId |-> IF w \in LogsOf(r, doomed)
                                    THEN [LogView(r)[w] EXCEPT !.task = Null]
                                    ELSE wlogs[r][w]]
  <2>1. \A q \in Requests : q # r =>
            /\ \A t \in doomed : wtasks[q][t] = Unwritten
            /\ \A w \in LogsOf(r, doomed) : wlogs[q][w] = Unwritten
    <3>1. doomed = {t \in Batch(r).deletions : TaskView(r)[t] # NoRow}
      OBVIOUS
    <3>2. pc[r] = "delete_tasks" /\ ~Waiting(r)
      BY <1>3 DEF DeleteTasks
    <3> HIDE DEF doomed
    <3> QED
      BY <1>3, <3>1, <3>2, DeleteTasksFree
  <2>2. wtasks' = [wtasks EXCEPT ![r] = ts]
    BY <1>3 DEF DeleteTasks, Typed, TypeOK
  <2>3. wlogs' = [wlogs EXCEPT ![r] = ls]
    BY <1>3 DEF DeleteTasks, Typed, TypeOK
  <2>4. \A t \in TaskId : ts[t] = wtasks[r][t] \/ t \in doomed
    OBVIOUS
  <2>5. \A w \in LogId : ls[w] = wlogs[r][w] \/ w \in LogsOf(r, doomed)
    OBVIOUS
  <2> HIDE DEF doomed, ts, ls
  <2> QED
    BY <2>1, <2>2, <2>3, <2>4, <2>5 DEF Locks, Typed, TypeOK
<1>4. ASSUME UpsertTask(r), ~Fail(r) PROVE Locks'
  <2>1. PICK t \in TaskId :
          /\ IF NextTask(r).id # Null THEN t = NextTask(r).id ELSE UnusedTask(t)
          /\ wtasks' = [wtasks EXCEPT ![r][t] = TaskRowOf(r, NextTask(r))]
          /\ UNCHANGED wlogs
    BY <1>4 DEF UpsertTask
  <2>2. ASSUME NEW q \in Requests, q # r PROVE wtasks[q][t] = Unwritten
    <3>1. CASE NextTask(r).id = Null
      BY <2>1, <3>1, UnusedIsFree
    <3>2. CASE NextTask(r).id # Null
      BY <1>4, <2>1, <2>2, <3>2 DEF UpsertTask, Waiting, WaitsFor, UpsertTaskWaitsFor
    <3> QED
      BY <3>1, <3>2
  <2> QED
    BY <2>1, <2>2 DEF Locks, Typed, TypeOK
<1>5. ASSUME UpsertLogs(r), ~Fail(r) PROVE Locks'
  <2>1. PICK f \in LogIds(r) :
          /\ wlogs' = [wlogs EXCEPT ![r] =
                [w \in LogId |-> IF \E c \in DOMAIN f : f[c] = w
                                 THEN LogRowOf(r, CHOOSE c \in DOMAIN f : f[c] = w)
                                 ELSE @[w]]]
          /\ UNCHANGED wtasks
    BY <1>5 DEF UpsertLogs
  <2> DEFINE ls == [w \in LogId |-> IF \E c \in DOMAIN f : f[c] = w
                                    THEN LogRowOf(r, CHOOSE c \in DOMAIN f : f[c] = w)
                                    ELSE wlogs[r][w]]
  <2>2. ASSUME NEW q \in Requests, q # r, NEW c \in DOMAIN f PROVE wlogs[q][f[c]] = Unwritten
    <3>1. c \in ToUpsert(Batch(r)) /\ f[c] \in LogId
      BY DEF LogIds
    <3>2. CASE Cell(Batch(r), c).id = Null
      BY <3>1, <3>2, UnusedIsFree DEF LogIds
    <3>3. CASE Cell(Batch(r), c).id # Null
      <4>1. f[c] = Cell(Batch(r), c).id
        BY <3>3 DEF LogIds
      <4> QED
        BY <1>5, <2>2, <3>1, <3>3, <4>1 DEF UpsertLogs, Waiting, WaitsFor, UpsertLogsWaitsFor
    <3> QED
      BY <3>2, <3>3
  <2>3. wlogs' = [wlogs EXCEPT ![r] = ls]
    BY <2>1 DEF Typed, TypeOK
  <2>4. \A w \in LogId : ls[w] = wlogs[r][w] \/ \E c \in DOMAIN f : f[c] = w
    OBVIOUS
  <2> HIDE DEF ls
  <2> QED
    <3>1. \A q \in Requests : q # r => wlogs'[q] = wlogs[q]
      BY <2>3 DEF Typed, TypeOK
    <3>2. wlogs'[r] = ls
      BY <2>3 DEF Typed, TypeOK
    <3>3. \A q \in Requests, w \in LogId : q # r => ls[w] = Unwritten \/ wlogs[q][w] = Unwritten
      BY <2>2, <2>4 DEF Locks
    <3> QED
      BY <2>1, <3>1, <3>2, <3>3 DEF Locks
<1>6. ASSUME DeleteLogs(r) PROVE Locks'
  <2> DEFINE doomed == {w \in ToDelete(Batch(r)) : LogView(r)[w] # NoRow}
  <2>1. wlogs' = [wlogs EXCEPT ![r] = [w \in LogId |-> IF w \in doomed THEN NoRow ELSE @[w]]]
        /\ UNCHANGED wtasks
    BY <1>6 DEF DeleteLogs
  <2>2. ASSUME NEW q \in Requests, q # r, NEW w \in LogId, w \in doomed
        PROVE  wlogs[q][w] = Unwritten
    <3>1. ~DeleteLogsWaitsFor(r, q)
      BY <1>6, <2>2 DEF DeleteLogs, Waiting, WaitsFor
    <3>2. CASE wlogs[r][w] = Unwritten
      BY <2>2, <3>1, <3>2 DEF DeleteLogsWaitsFor, LogView
    <3>3. CASE wlogs[r][w] # Unwritten
      BY <2>2, <3>3 DEF Locks
    <3> QED
      BY <3>2, <3>3
  <2> HIDE DEF doomed
  <2> QED
    BY <2>1, <2>2 DEF Locks, Typed, TypeOK
<1> QED
  BY <1>1, <1>2, <1>3, <1>4, <1>5, <1>6
     DEF Begin, Advance, DeleteTasks, TasksDone, CheckLimit, Commit, Rollback, DeadlockVictim,
         ConnectionLost, Fail

\* The end of a request leaves the others' ownership as it is.
LEMMA EndOwned ==
    ASSUME Typed, Owned, NEW r \in Requests, End(r)
    PROVE  Owned'
<1>1. \A q \in Requests : q # r => /\ wtasks'[q] = wtasks[q] /\ wlogs'[q] = wlogs[q]
                                  /\ current'[q] = current[q]
  BY DEF End, Typed, TypeOK
<1>2. current'[r] = << >> /\ wlogs'[r] = NoLogWrites
  BY DEF End, Typed, TypeOK
<1>3. \A w \in LogId : wlogs'[r][w] \notin LogRow
  BY <1>2, BatchAssumption DEF NoLogWrites
<1> QED
  BY <1>1, <1>2, <1>3 DEF Owned

\* Every step keeps what a transaction has written tied to the tasks it holds.
LEMMA OwnedStep ==
    ASSUME Typed, Owned, NEW r \in Requests,
           Begin(r) \/ Advance(r) \/ ConnectionLost(r)
    PROVE  Owned'
<1>1. CASE End(r)
  BY <1>1, EndOwned
<1>2. CASE UNCHANGED <<wtasks, wlogs, current>>
  BY <1>2 DEF Owned
<1>3. ASSUME DeleteTasks(r), Batch(r).deletions # Null PROVE Owned'
  <2> DEFINE doomed == {t \in Batch(r).deletions : TaskView(r)[t] # NoRow}
             ls == [w \in LogId |-> IF w \in LogsOf(r, doomed)
                                    THEN [LogView(r)[w] EXCEPT !.task = Null]
                                    ELSE wlogs[r][w]]
  <2>1. current[r] = << >> /\ wlogs[r] = NoLogWrites
    BY <1>3 DEF DeleteTasks, Typed, Phase, NoWrites
  <2>2. current' = current
    BY <1>3 DEF DeleteTasks
  <2>3. \A q \in Requests : q # r => wtasks'[q] = wtasks[q] /\ wlogs'[q] = wlogs[q]
    BY <1>3 DEF DeleteTasks, Typed, TypeOK
  <2>4. wlogs'[r] = ls
    BY <1>3 DEF DeleteTasks, Typed, TypeOK
  <2>5. ASSUME NEW w \in LogId, wlogs'[r][w] \in LogRow PROVE wlogs'[r][w].task = Null
    <3>1. w \in LogsOf(r, doomed)
      BY <2>1, <2>4, <2>5, BatchAssumption DEF NoLogWrites
    <3>2. LogView(r)[w] \in LogRow
      BY <3>1, ViewType DEF LogsOf, LogTable, Typed
    <3>3. wlogs'[r][w] = [LogView(r)[w] EXCEPT !.task = Null]
      BY <2>4, <3>1
    <3> QED
      BY <3>2, <3>3 DEF LogRow
  <2> QED
    BY <2>1, <2>2, <2>3, <2>5 DEF Owned
<1>4. ASSUME UpsertTask(r), ~Fail(r) PROVE Owned'
  <2>1. PICK t \in TaskId :
          /\ NextTask(r).activity \in Activities
          /\ wtasks' = [wtasks EXCEPT ![r][t] = TaskRowOf(r, NextTask(r))]
          /\ current' = [current EXCEPT ![r] = Append(@, t)]
          /\ UNCHANGED wlogs
    BY <1>4 DEF UpsertTask
  <2>2. TaskRowOf(r, NextTask(r)) \in TaskRow
    <3>1. Batch(r) \in Batches /\ job[r].user \in Users
      BY <1>4 DEF UpsertTask, Typed, Phase, Job, Batch
    <3>2. NextTask(r) \in UpsertActivityTask
      BY <1>4, <3>1, NextTaskType DEF UpsertTask, Typed, TypeOK
    <3> QED
      BY <2>1, <3>1, <3>2 DEF TaskRowOf, UpsertActivityTask, TaskRow
  <2>3. \A q \in Requests : q # r => wtasks'[q] = wtasks[q] /\ current'[q] = current[q]
    BY <2>1 DEF Typed, TypeOK
  <2>4. wtasks'[r] = [wtasks[r] EXCEPT ![t] = TaskRowOf(r, NextTask(r))]
    BY <2>1 DEF Typed, TypeOK
  <2>5. wtasks[r] \in [TaskId -> TaskRow \cup {NoRow, Unwritten}] /\ current[r] \in Seq(TaskId)
    BY DEF Typed, TypeOK
  <2>6. \A s \in TaskId : wtasks[r][s] \in TaskRow => wtasks'[r][s] \in TaskRow
    BY <2>2, <2>4, <2>5
  <2>7. wtasks'[r][t] \in TaskRow
    BY <2>2, <2>4, <2>5
  <2>8. current'[r] = Append(current[r], t)
    BY <2>1 DEF Typed, TypeOK
  <2>9. \A k \in DOMAIN current'[r] : wtasks'[r][current'[r][k]] \in TaskRow
    <3>1. SUFFICES ASSUME NEW k \in DOMAIN current'[r] PROVE wtasks'[r][current'[r][k]] \in TaskRow
      OBVIOUS
    <3>2. k \in 1 .. Len(current[r]) + 1
      BY <2>5, <2>8
    <3>3. CASE k = Len(current[r]) + 1
      BY <2>5, <2>7, <2>8, <3>3
    <3>4. CASE k \in 1 .. Len(current[r])
      <4>1. current'[r][k] = current[r][k] /\ current[r][k] \in TaskId /\ k \in DOMAIN current[r]
        BY <2>5, <2>8, <3>4
      <4> QED
        BY <2>6, <4>1 DEF Owned
    <3> QED
      BY <2>5, <3>2, <3>3, <3>4
  <2>10. \A w \in LogId : wlogs'[r][w] \in LogRow /\ wlogs'[r][w].task # Null
                            => wtasks'[r][wlogs'[r][w].task] \in TaskRow
    BY <2>1, <2>6 DEF Owned, LogRow
  <2> QED
    BY <2>1, <2>3, <2>9, <2>10 DEF Owned
<1>5. ASSUME UpsertLogs(r), ~Fail(r) PROVE Owned'
  <2>1. PICK f \in LogIds(r) :
          /\ wlogs' = [wlogs EXCEPT ![r] =
                [w \in LogId |-> IF \E c \in DOMAIN f : f[c] = w
                                 THEN LogRowOf(r, CHOOSE c \in DOMAIN f : f[c] = w)
                                 ELSE @[w]]]
          /\ UNCHANGED <<wtasks, current>>
    BY <1>5 DEF UpsertLogs
  <2>2. \A q \in Requests : q # r => wlogs'[q] = wlogs[q]
    BY <2>1 DEF Typed, TypeOK
  <2>3. ASSUME NEW c \in DOMAIN f PROVE wtasks[r][LogRowOf(r, c).task] \in TaskRow
    <3>1. Batch(r) \in Batches /\ Len(current[r]) = Len(Batch(r).tasks) /\ current[r] \in Seq(TaskId)
      BY <1>5 DEF UpsertLogs, Typed, TypeOK, Phase, Job, Batch
    <3>2. c \in Cells(Batch(r))
      BY DEF LogIds, ToUpsert
    <3>3. c[1] \in DOMAIN Batch(r).tasks
      BY <3>1, <3>2, CellType
    <3>4. Batch(r).tasks \in Seq(UpsertActivityTask)
      BY <3>1, BatchAssumption DEF TaskBatchDto
    <3>5. c[1] \in DOMAIN current[r]
      BY <3>1, <3>3, <3>4
    <3> QED
      BY <3>5 DEF LogRowOf, Owned
  <2>4. ASSUME NEW w \in LogId, wlogs'[r][w] \in LogRow, wlogs'[r][w].task # Null
        PROVE  wtasks[r][wlogs'[r][w].task] \in TaskRow
    <3>1. CASE \E c \in DOMAIN f : f[c] = w
      <4>1. PICK c \in DOMAIN f : wlogs'[r][w] = LogRowOf(r, c)
        BY <2>1, <3>1 DEF Typed, TypeOK
      <4> QED
        BY <2>3, <4>1
    <3>2. CASE ~ \E c \in DOMAIN f : f[c] = w
      <4>1. wlogs'[r][w] = wlogs[r][w]
        BY <2>1, <3>2 DEF Typed, TypeOK
      <4> QED
        BY <2>4, <4>1 DEF Owned
    <3> QED
      BY <3>1, <3>2
  <2> QED
    BY <2>1, <2>2, <2>4 DEF Owned
<1>6. ASSUME DeleteLogs(r) PROVE Owned'
  <2>1. UNCHANGED <<wtasks, current>>
    BY <1>6 DEF DeleteLogs
  <2>2. \A q \in Requests : q # r => wlogs'[q] = wlogs[q]
    BY <1>6 DEF DeleteLogs, Typed, TypeOK
  <2>3. \A w \in LogId : wlogs'[r][w] = wlogs[r][w] \/ wlogs'[r][w] = NoRow
    BY <1>6 DEF DeleteLogs, Typed, TypeOK
  <2>4. NoRow \notin LogRow
    BY TablesAssumption DEF LogRow
  <2> QED
    BY <2>1, <2>2, <2>3, <2>4 DEF Owned
<1> QED
  BY <1>1, <1>2, <1>3, <1>4, <1>5, <1>6
     DEF Begin, Advance, DeleteTasks, TasksDone, CheckLimit, Commit, Rollback, DeadlockVictim,
         ConnectionLost, Fail

\* A request's own writes cannot break the views of the others while the tables
\* stay as they are.
LEMMA OwnWritesRefs ==
    ASSUME Typed, ReferentialIntegrity, NEW r \in Requests,
           UNCHANGED tables,
           \A q \in Requests : q # r => wtasks'[q] = wtasks[q] /\ wlogs'[q] = wlogs[q],
           References(LogView(r)', TaskView(r)')
    PROVE  ReferentialIntegrity'
<1>1. ASSUME NEW q \in Requests, q # r
      PROVE  LogView(q)' = LogView(q) /\ TaskView(q)' = TaskView(q)
  BY <1>1 DEF LogView, TaskView, tables
<1>2. \A q \in Requests : References(LogView(q)', TaskView(q)')
  BY <1>1 DEF ReferentialIntegrity
<1>3. References(worklogs', tasks')
  BY DEF ReferentialIntegrity, tables
<1> QED
  BY <1>2, <1>3 DEF ReferentialIntegrity, References

\* A request that ends without committing sees the tables again.
LEMMA AbortRefs ==
    ASSUME Typed, ReferentialIntegrity, NEW r \in Requests, End(r), UNCHANGED tables
    PROVE  ReferentialIntegrity'
<1>1. \A q \in Requests : q # r => wtasks'[q] = wtasks[q] /\ wlogs'[q] = wlogs[q]
  BY DEF End, Typed, TypeOK
<1>2. wtasks'[r] = NoTaskWrites /\ wlogs'[r] = NoLogWrites
  BY DEF End, Typed, TypeOK
<1>3. \A t \in TaskId : TaskView(r)'[t] = tasks[t]
  BY <1>2 DEF TaskView, NoTaskWrites, tables
<1>4. \A w \in LogId : LogView(r)'[w] = worklogs[w]
  BY <1>2 DEF LogView, NoLogWrites, tables
<1>5. \A w \in LogId : worklogs[w] # NoRow /\ worklogs[w].task # Null => worklogs[w].task \in TaskId
  BY DEF Typed, TypeOK, LogTable, LogRow
<1>6. References(LogView(r)', TaskView(r)')
  BY <1>3, <1>4, <1>5 DEF References, ReferentialIntegrity
<1> QED
  BY <1>1, <1>6, OwnWritesRefs

\* A commit publishes r's view.  What another request q sees then is still
\* sound: a worklog q has written refers to a task q holds; any other worklog q
\* sees refers to a task r has made or found, and q cannot have deleted it.
LEMMA CommitRefs ==
    ASSUME IInv, NEW r \in Requests, End(r), tasks' = TaskView(r), worklogs' = LogView(r)
    PROVE  ReferentialIntegrity'
<1> USE DEF IInv
<1>1. \A q \in Requests : q # r => wtasks'[q] = wtasks[q] /\ wlogs'[q] = wlogs[q]
  BY DEF End, Typed, TypeOK
<1>2. wtasks'[r] = NoTaskWrites /\ wlogs'[r] = NoLogWrites
  BY DEF End, Typed, TypeOK
<1>3. References(worklogs', tasks')
  BY DEF ReferentialIntegrity
<1>4. \A q \in Requests, w \in LogId :
         LogView(q)[w] # NoRow /\ LogView(q)[w].task # Null => LogView(q)[w].task \in TaskId
  BY ViewType DEF Typed, LogTable, LogRow
<1>5. References(LogView(r)', TaskView(r)')
  <2>1. \A t \in TaskId : TaskView(r)'[t] = TaskView(r)[t]
    BY <1>2 DEF TaskView, NoTaskWrites
  <2>2. \A w \in LogId : LogView(r)'[w] = LogView(r)[w]
    BY <1>2 DEF LogView, NoLogWrites
  <2> QED
    BY <1>4, <2>1, <2>2 DEF References, ReferentialIntegrity
<1>6. ASSUME NEW q \in Requests, q # r
      PROVE  References(LogView(q)', TaskView(q)')
  <2>1. SUFFICES ASSUME NEW w \in LogId, LogView(q)'[w] # NoRow, LogView(q)'[w].task # Null
                 PROVE  TaskView(q)'[LogView(q)'[w].task] # NoRow
    BY DEF References
  <2> DEFINE t == LogView(q)'[w].task
  <2>2. CASE wlogs[q][w] # Unwritten
    <3>1. LogView(q)'[w] = wlogs[q][w]
      BY <1>1, <1>6, <2>2 DEF LogView
    <3>2. wlogs[q][w] \in LogRow
      BY <2>1, <2>2, <3>1 DEF Typed, TypeOK
    <3>3. wtasks[q][t] \in TaskRow /\ t \in TaskId
      BY <2>1, <3>1, <3>2 DEF Owned, LogRow
    <3>4. TaskView(q)'[t] = wtasks[q][t]
      BY <1>1, <1>6, <3>3, BatchAssumption DEF TaskView
    <3> QED
      BY <3>3, <3>4, TablesAssumption DEF TaskRow
  <2>3. CASE wlogs[q][w] = Unwritten
    <3>1. LogView(q)'[w] = LogView(r)[w]
      BY <1>1, <1>6, <2>3 DEF LogView
    <3>2. t \in TaskId /\ TaskView(r)[t] # NoRow
      BY <1>4, <2>1, <3>1 DEF ReferentialIntegrity, References
    <3>3. CASE wtasks[q][t] = Unwritten
      <4>1. TaskView(q)'[t] = TaskView(r)[t]
        BY <1>1, <1>6, <3>2, <3>3 DEF TaskView
      <4> QED
        BY <3>2, <4>1
    <3>4. CASE wtasks[q][t] # Unwritten
      <4>1. wtasks[r][t] = Unwritten
        BY <1>6, <3>2, <3>4 DEF Locks
      <4>2. wlogs[r][w] = Unwritten
        <5>1. SUFFICES ASSUME wlogs[r][w] # Unwritten PROVE FALSE
          OBVIOUS
        <5>2. wlogs[r][w] = LogView(r)[w]
          BY <5>1 DEF LogView
        <5>3. wlogs[r][w] \in LogRow /\ wlogs[r][w].task = t
          BY <2>1, <3>1, <5>1, <5>2 DEF Typed, TypeOK
        <5>4. wtasks[r][t] \in TaskRow
          BY <2>1, <5>3 DEF Owned
        <5> QED
          BY <4>1, <5>4, BatchAssumption
      <4>3. LogView(q)[w] = LogView(r)[w]
        BY <2>3, <4>2 DEF LogView
      <4>4. TaskView(q)[t] # NoRow
        BY <2>1, <3>1, <4>3 DEF ReferentialIntegrity, References
      <4>5. TaskView(q)'[t] = TaskView(q)[t]
        BY <1>1, <1>6, <3>2, <3>4 DEF TaskView
      <4> QED
        BY <4>4, <4>5
    <3> QED
      BY <3>3, <3>4
  <2> QED
    BY <2>2, <2>3
<1> QED
  BY <1>3, <1>5, <1>6 DEF ReferentialIntegrity, References

\* Every step keeps the references of the tables and of every view.
LEMMA RefsStep ==
    ASSUME IInv, NEW r \in Requests,
           Begin(r) \/ Advance(r) \/ ConnectionLost(r)
    PROVE  ReferentialIntegrity'
<1> USE DEF IInv
<1>1. CASE UNCHANGED <<tasks, worklogs, wtasks, wlogs>>
  BY <1>1 DEF ReferentialIntegrity, References, LogView, TaskView
<1>2. CASE End(r) /\ UNCHANGED tables
  BY <1>2, AbortRefs
<1>3. CASE End(r) /\ tasks' = TaskView(r) /\ worklogs' = LogView(r)
  BY <1>3, CommitRefs
<1>4. ASSUME DeleteTasks(r), Batch(r).deletions # Null PROVE ReferentialIntegrity'
  <2> DEFINE doomed == {t \in Batch(r).deletions : TaskView(r)[t] # NoRow}
             ts == [t \in TaskId |-> IF t \in doomed THEN NoRow ELSE wtasks[r][t]]
             ls == [w \in LogId |-> IF w \in LogsOf(r, doomed)
                                    THEN [LogView(r)[w] EXCEPT !.task = Null]
                                    ELSE wlogs[r][w]]
  <2>1. UNCHANGED tables
    BY <1>4 DEF DeleteTasks, tables
  <2>2. \A q \in Requests : q # r => wtasks'[q] = wtasks[q] /\ wlogs'[q] = wlogs[q]
    BY <1>4 DEF DeleteTasks, Typed, TypeOK
  <2>3. wtasks'[r] = ts /\ wlogs'[r] = ls
    BY <1>4 DEF DeleteTasks, Typed, TypeOK
  <2>4. ASSUME NEW w \in LogId, LogView(r)'[w] # NoRow, LogView(r)'[w].task # Null
        PROVE  TaskView(r)'[LogView(r)'[w].task] # NoRow
    <3>1. w \notin LogsOf(r, doomed)
      <4>1. SUFFICES ASSUME w \in LogsOf(r, doomed) PROVE FALSE
        OBVIOUS
      <4>2. LogView(r)[w] \in LogRow
        BY <4>1, ViewType DEF LogsOf, LogTable, Typed
      <4>3. [LogView(r)[w] EXCEPT !.task = Null] \in LogRow
        BY <4>2 DEF LogRow
      <4>4. LogView(r)'[w] = [LogView(r)[w] EXCEPT !.task = Null]
        BY <2>3, <4>1, <4>3, BatchAssumption DEF LogView
      <4> QED
        BY <2>4, <4>2, <4>4 DEF LogRow
    <3>2. LogView(r)'[w] = LogView(r)[w]
      BY <2>1, <2>3, <3>1 DEF LogView, tables
    <3>3. LogView(r)[w].task \in TaskId /\ TaskView(r)[LogView(r)[w].task] # NoRow
      BY <2>4, <3>2, ViewType DEF ReferentialIntegrity, References, LogTable, LogRow, Typed
    <3>4. LogView(r)[w].task \notin doomed
      BY <2>4, <3>1, <3>2 DEF LogsOf
    <3>5. TaskView(r)'[LogView(r)[w].task] = TaskView(r)[LogView(r)[w].task]
      BY <2>1, <2>3, <3>3, <3>4 DEF TaskView, tables
    <3> QED
      BY <3>2, <3>3, <3>5
  <2> HIDE DEF doomed, ts, ls
  <2> QED
    BY <2>1, <2>2, <2>4, OwnWritesRefs DEF References
<1>5. ASSUME UpsertTask(r), ~Fail(r) PROVE ReferentialIntegrity'
  <2>1. UNCHANGED <<tasks, worklogs, wlogs>>
    BY <1>5 DEF UpsertTask
  <2>2. PICK t \in TaskId :
          /\ NextTask(r).activity \in Activities
          /\ wtasks' = [wtasks EXCEPT ![r][t] = TaskRowOf(r, NextTask(r))]
    BY <1>5 DEF UpsertTask
  <2>3. TaskRowOf(r, NextTask(r)) \in TaskRow
    <3>1. Batch(r) \in Batches /\ job[r].user \in Users
      BY <1>5 DEF UpsertTask, Typed, Phase, Job, Batch
    <3>2. NextTask(r) \in UpsertActivityTask
      BY <1>5, <3>1, NextTaskType DEF UpsertTask, Typed, TypeOK
    <3> QED
      BY <2>2, <3>1, <3>2 DEF TaskRowOf, UpsertActivityTask, TaskRow
  <2>4. \A q \in Requests : q # r => wtasks'[q] = wtasks[q] /\ wlogs'[q] = wlogs[q]
    BY <2>1, <2>2 DEF Typed, TypeOK
  <2>5. \A s \in TaskId : TaskView(r)[s] # NoRow => TaskView(r)'[s] # NoRow
    <3>1. wtasks'[r] = [wtasks[r] EXCEPT ![t] = TaskRowOf(r, NextTask(r))]
      BY <2>2 DEF Typed, TypeOK
    <3>2. TaskRowOf(r, NextTask(r)) # NoRow /\ TaskRowOf(r, NextTask(r)) # Unwritten
      BY <2>3, TablesAssumption, BatchAssumption DEF TaskRow
    <3>3. wtasks[r] \in [TaskId -> TaskRow \cup {NoRow, Unwritten}]
      BY DEF Typed, TypeOK
    <3>4. \A s \in TaskId : wtasks'[r][s] = wtasks[r][s] \/ s = t
      BY <3>1, <3>3
    <3>5. wtasks'[r][t] = TaskRowOf(r, NextTask(r))
      BY <3>1, <3>3
    <3>6. TaskView(r)'[t] = TaskRowOf(r, NextTask(r))
      BY <3>2, <3>5 DEF TaskView
    <3>7. \A s \in TaskId : s # t => TaskView(r)'[s] = TaskView(r)[s]
      BY <2>1, <3>4 DEF TaskView
    <3> QED
      BY <3>2, <3>6, <3>7
  <2>6. LogView(r)' = LogView(r)
    BY <2>1 DEF LogView
  <2>7. LogView(r) \in LogTable
    BY ViewType DEF Typed
  <2>8. References(LogView(r)', TaskView(r)')
    BY <2>5, <2>6, <2>7 DEF ReferentialIntegrity, References, LogTable, LogRow
  <2> QED
    BY <2>1, <2>4, <2>8, OwnWritesRefs DEF tables
<1>6. ASSUME UpsertLogs(r), ~Fail(r), Typed', Owned' PROVE ReferentialIntegrity'
  <2>1. UNCHANGED <<tasks, worklogs, wtasks>>
    BY <1>6 DEF UpsertLogs
  <2>2. PICK f \in LogIds(r) :
          /\ LogsAccepted(r, f)
          /\ wlogs' = [wlogs EXCEPT ![r] =
                [w \in LogId |-> IF \E c \in DOMAIN f : f[c] = w
                                 THEN LogRowOf(r, CHOOSE c \in DOMAIN f : f[c] = w)
                                 ELSE @[w]]]
    BY <1>6 DEF UpsertLogs
  <2>3. \A c \in DOMAIN f : LogRowOf(r, c) # Unwritten
    BY <1>6, <2>2, WrittenLogsType, BatchAssumption DEF UpsertLogs
  <2>4. \A q \in Requests : q # r => wlogs'[q] = wlogs[q]
    BY <2>2 DEF Typed, TypeOK
  <2>5. TaskView(r)' = TaskView(r)
    BY <2>1 DEF TaskView
  <2>6. ASSUME NEW w \in LogId, LogView(r)'[w] # NoRow, LogView(r)'[w].task # Null
        PROVE  TaskView(r)'[LogView(r)'[w].task] # NoRow
    <3>1. CASE wlogs'[r][w] = Unwritten
      <4>1. LogView(r)'[w] = worklogs[w]
        BY <2>1, <3>1 DEF LogView
      <4>2. CASE wlogs[r][w] = Unwritten
        BY <2>5, <2>6, <4>1, <4>2 DEF LogView, ReferentialIntegrity, References
      <4>3. CASE wlogs[r][w] # Unwritten
        BY <2>2, <3>1, <4>3, <2>3 DEF Typed, TypeOK
      <4> QED
        BY <4>2, <4>3
    <3>2. CASE wlogs'[r][w] # Unwritten
      <4>1. LogView(r)'[w] = wlogs'[r][w]
        BY <3>2 DEF LogView
      <4>2. wlogs'[r][w] \in LogRow
        BY <1>6, <2>6, <3>2, <4>1 DEF Typed, TypeOK
      <4>3. wtasks'[r][wlogs'[r][w].task] \in TaskRow /\ wlogs'[r][w].task \in TaskId
        BY <1>6, <2>6, <4>1, <4>2 DEF Owned, LogRow
      <4>4. TaskView(r)'[wlogs'[r][w].task] = wtasks'[r][wlogs'[r][w].task]
        BY <4>3, BatchAssumption DEF TaskView
      <4> QED
        BY <4>1, <4>3, <4>4, TablesAssumption DEF TaskRow
    <3> QED
      BY <3>1, <3>2
  <2> QED
    BY <2>1, <2>4, <2>6, OwnWritesRefs DEF References, tables
<1>7. ASSUME DeleteLogs(r) PROVE ReferentialIntegrity'
  <2>1. UNCHANGED <<tasks, worklogs, wtasks>>
    BY <1>7 DEF DeleteLogs
  <2>2. \A q \in Requests : q # r => wlogs'[q] = wlogs[q]
    BY <1>7 DEF DeleteLogs, Typed, TypeOK
  <2>3. \A w \in LogId : wlogs'[r][w] = wlogs[r][w] \/ wlogs'[r][w] = NoRow
    BY <1>7 DEF DeleteLogs, Typed, TypeOK
  <2>4. \A w \in LogId : LogView(r)'[w] = LogView(r)[w] \/ LogView(r)'[w] = NoRow
    BY <2>1, <2>3, BatchAssumption DEF LogView
  <2>5. TaskView(r)' = TaskView(r)
    BY <2>1 DEF TaskView
  <2>6. References(LogView(r)', TaskView(r)')
    BY <2>4, <2>5 DEF ReferentialIntegrity, References
  <2> QED
    BY <2>1, <2>2, <2>6, OwnWritesRefs DEF tables
<1> QED
  BY <1>1, <1>2, <1>3, <1>4, <1>5, <1>6, <1>7, TypedStep, OwnedStep
     DEF Begin, Advance, DeleteTasks, TasksDone, CheckLimit, Commit, Rollback, DeadlockVictim,
         ConnectionLost, Fail, tables

\* The inductive invariant holds at the start.
LEMMA IInvInit == Init => IInv
<1> SUFFICES ASSUME Init PROVE IInv
  OBVIOUS
<1>1. Typed
  BY TypedInit
<1>2. Locks
  BY DEF Init, Locks, NoTaskWrites, NoLogWrites
<1>3. Owned
  BY BatchAssumption DEF Init, Owned, NoTaskWrites, NoLogWrites
<1>4. ReferentialIntegrity
  BY DEF Init, ReferentialIntegrity, References, LogView, NoLogWrites
<1> QED
  BY <1>1, <1>2, <1>3, <1>4 DEF IInv

\* The inductive invariant is inductive.
LEMMA IInvNext == IInv /\ [Next]_vars => IInv'
<1> SUFFICES ASSUME IInv, [Next]_vars PROVE IInv'
  OBVIOUS
<1>1. CASE Next
  <2>1. PICK r \in Requests : Begin(r) \/ Advance(r) \/ ConnectionLost(r)
    BY <1>1 DEF Next
  <2> QED
    BY <2>1, TypedStep, LocksStep, OwnedStep, RefsStep DEF IInv
<1>2. CASE UNCHANGED vars
  <2>1. Typed'
    BY <1>2, TypedNext DEF IInv
  <2> QED
    BY <1>2, <2>1 DEF vars, IInv, Locks, Owned, ReferentialIntegrity, References, LogView, TaskView
<1> QED
  BY <1>1, <1>2

\* Whatever runs together, no two open transactions hold the same row, and each
\* holds the tasks of the worklogs it has written.
THEOREM WritesAreHeld == Spec => []WritesHeld
<1>1. IInv => WritesHeld
  BY DEF IInv, WritesHeld
<1> QED
  BY <1>1, IInvInit, IInvNext, PTL DEF Spec

\* However requests interleave, fail or lose their connection, no worklog ever
\* refers to a task that is gone: not in the tables, and not in what any open
\* transaction sees.
THEOREM TasksOfWorklogsExist == Spec => []ReferentialIntegrity
<1>1. IInv => ReferentialIntegrity
  BY DEF IInv
<1> QED
  BY <1>1, IInvInit, IInvNext, PTL DEF Spec

=============================================================================
