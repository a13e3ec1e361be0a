--------------------------- MODULE TrackerProofs ---------------------------
(***************************************************************************)
(* Theorems about Tracker: what is proved of the batches holds beside the  *)
(* other requests too, what a batch saves is what the journal shows, and   *)
(* stays there, and a day exceeds the daily limit in two ways only.        *)
(***************************************************************************)
EXTENDS TrackerProperties, TimesheetProofs, FiniteSetTheorems, WellFoundedInduction

\* What r's open transaction has saved so far: the tasks it went through are
\* its user's, and from the upsert of the cells on every cell that the batch
\* does not clear as well is a row it has written and will not delete.
SavedBy(r) ==
    /\ pc[r] # "idle" => outcome[r] # "ok"
    /\ \A k \in DOMAIN current[r] : /\ wtasks[r][current[r][k]] \in TaskRow
                                    /\ wtasks[r][current[r][k]].user = job[r].user
    /\ pc[r] \in {"delete_logs", "check_limit", "commit"} =>
         /\ Len(current[r]) = Len(Batch(r).tasks)
         /\ \A c \in ToUpsert(Batch(r)) : Cell(Batch(r), c).id \notin ToDelete(Batch(r)) =>
              \E w \in LogId \ ToDelete(Batch(r)) :
                 wlogs[r][w] = LogRowOf(r, c) /\ wlogs[r][w] \in LogRow

Saves == \A r \in Requests : SavedBy(r)

TrackerInv == TrackerTypeOK /\ IInv /\ Saves

\* A step of a request leaves what the others have written, and where they are,
\* alone.
LEMMA OthersStay ==
    ASSUME Typed, NEW r \in Requests, Begin(r) \/ Advance(r) \/ ConnectionLost(r),
           NEW q \in Requests, q # r
    PROVE  /\ pc'[q] = pc[q] /\ job'[q] = job[q] /\ current'[q] = current[q]
           /\ outcome'[q] = outcome[q] /\ wtasks'[q] = wtasks[q] /\ wlogs'[q] = wlogs[q]
<1> USE DEF Typed, TypeOK
<1>1. CASE Begin(r)
  BY <1>1 DEF Begin, GoTo
<1>2. CASE DeleteTasks(r)
  BY <1>2 DEF DeleteTasks, GoTo, Raise
<1>3. CASE UpsertTask(r)
  BY <1>3 DEF UpsertTask, Fail, End
<1>4. CASE TasksDone(r)
  BY <1>4 DEF TasksDone, GoTo
<1>5. CASE UpsertLogs(r)
  BY <1>5 DEF UpsertLogs, GoTo, Fail, End
<1>6. CASE DeleteLogs(r)
  BY <1>6 DEF DeleteLogs, GoTo, Raise
<1>7. CASE CheckLimit(r)
  BY <1>7 DEF CheckLimit, GoTo, Raise
<1>8. CASE Commit(r) \/ Rollback(r) \/ DeadlockVictim(r) \/ ConnectionLost(r)
  BY <1>8 DEF Commit, Rollback, DeadlockVictim, ConnectionLost, Fail, End
<1> QED
  BY <1>1, <1>2, <1>3, <1>4, <1>5, <1>6, <1>7, <1>8 DEF Advance

\* A request that is over has nothing to save.
LEMMA EndSaves ==
    ASSUME Typed, NEW r \in Requests, End(r)
    PROVE  SavedBy(r)'
<1>1. pc'[r] = "idle" /\ current'[r] = << >>
  BY DEF End, Typed, TypeOK
<1> QED
  BY <1>1 DEF SavedBy

\* The cells PostgreSQL accepts are stored, each in a row of its own that the
\* batch does not clear.
LEMMA CellsWritten ==
    ASSUME Typed, NEW r \in Requests, pc[r] = "upsert_logs",
           NEW f \in LogIds(r), LogsAccepted(r, f),
           wlogs' = [wlogs EXCEPT ![r] =
               [w \in LogId |-> IF \E c \in DOMAIN f : f[c] = w
                                THEN LogRowOf(r, CHOOSE c \in DOMAIN f : f[c] = w)
                                ELSE @[w]]],
           NEW c \in ToUpsert(Batch(r)), Cell(Batch(r), c).id \notin ToDelete(Batch(r))
    PROVE  \E w \in LogId \ ToDelete(Batch(r)) :
              wlogs'[r][w] = LogRowOf(r, c) /\ wlogs'[r][w] \in LogRow
<1>1. DOMAIN f = ToUpsert(Batch(r)) /\ f[c] \in LogId
  BY DEF LogIds
<1>2. (CHOOSE d \in DOMAIN f : f[d] = f[c]) = c
  BY <1>1 DEF LogsAccepted
<1>3. wlogs'[r][f[c]] = LogRowOf(r, c)
  BY <1>1, <1>2 DEF Typed, TypeOK
<1>4. LogRowOf(r, c) \in LogRow
  BY <1>1, WrittenLogsType
<1>5. f[c] \notin ToDelete(Batch(r))
  <2>1. CASE Cell(Batch(r), c).id # Null
    BY <1>1, <2>1 DEF LogIds
  <2>2. CASE Cell(Batch(r), c).id = Null
    <3>1. UnusedLog(f[c])
      BY <1>1, <2>2 DEF LogIds
    <3>2. f[c] \notin NamedLogs(Batch(r))
      BY <3>1 DEF UnusedLog, InFlight
    <3>3. f[c] # Null
      BY <1>1, TablesAssumption
    <3> QED
      BY <3>2, <3>3 DEF NamedLogs, ToDelete
  <2> QED
    BY <2>1, <2>2
<1> QED
  BY <1>1, <1>3, <1>4, <1>5

\* Every step of a request keeps what it has saved.
LEMMA SavesStep ==
    ASSUME Typed, Saves, NEW r \in Requests, Begin(r) \/ Advance(r) \/ ConnectionLost(r)
    PROVE  Saves'
<1>a. SavedBy(r) /\ TypeOK /\ Phase
  BY DEF Saves, Typed
<1>b. ASSUME NEW q \in Requests, q # r PROVE SavedBy(q)'
  <2>1. /\ pc'[q] = pc[q] /\ job'[q] = job[q] /\ current'[q] = current[q]
        /\ outcome'[q] = outcome[q] /\ wtasks'[q] = wtasks[q] /\ wlogs'[q] = wlogs[q]
    BY <1>b, OthersStay
  <2> QED
    BY <2>1 DEF Saves, SavedBy, Batch, LogRowOf
<1>c. SUFFICES SavedBy(r)'
  BY <1>b DEF Saves
<1>1. CASE End(r)
  BY <1>1, EndSaves
<1>2. CASE Begin(r)
  <2>1. pc'[r] = "delete_tasks" /\ outcome'[r] = "none" /\ current'[r] = << >>
    BY <1>2, <1>a DEF Begin, GoTo, TypeOK, Phase
  <2> QED
    BY <2>1 DEF SavedBy
<1>3. CASE DeleteTasks(r)
  <2>1. /\ pc'[r] \in {"upsert_tasks", "rollback"} /\ outcome'[r] # "ok" /\ current'[r] = << >>
    BY <1>3, <1>a DEF DeleteTasks, GoTo, Raise, TypeOK, Phase, SavedBy
  <2> QED
    BY <2>1 DEF SavedBy
<1>4. CASE UpsertTask(r) /\ ~Fail(r)
  <2>1. PICK t \in TaskId :
          /\ wtasks' = [wtasks EXCEPT ![r][t] = TaskRowOf(r, NextTask(r))]
          /\ current' = [current EXCEPT ![r] = Append(@, t)]
          /\ UNCHANGED <<pc, job, outcome>>
          /\ NextTask(r).activity \in Activities
    BY <1>4 DEF UpsertTask
  <2>2. TaskRowOf(r, NextTask(r)) \in TaskRow
    <3>1. Batch(r) \in Batches /\ job[r].user \in Users
      BY <1>4, <1>a DEF UpsertTask, Phase, Job, Batch
    <3>2. NextTask(r) \in UpsertActivityTask
      BY <1>4, <1>a, <3>1, NextTaskType DEF UpsertTask, TypeOK
    <3> QED
      BY <2>1, <3>1, <3>2 DEF TaskRowOf, TaskRow, UpsertActivityTask
  <2>3. wtasks'[r][t] = TaskRowOf(r, NextTask(r)) /\ TaskRowOf(r, NextTask(r)).user = job[r].user
    BY <1>a, <2>1 DEF TypeOK, TaskRowOf
  <2>4. \A s \in TaskId \ {t} : wtasks'[r][s] = wtasks[r][s]
    BY <1>a, <2>1 DEF TypeOK
  <2>5. current'[r] = Append(current[r], t) /\ current[r] \in Seq(TaskId)
    BY <1>a, <2>1 DEF TypeOK
  <2>6. ASSUME NEW k \in DOMAIN current'[r]
        PROVE  /\ wtasks'[r][current'[r][k]] \in TaskRow
               /\ wtasks'[r][current'[r][k]].user = job[r].user
    <3>1. CASE k = Len(current[r]) + 1
      BY <2>2, <2>3, <2>5, <3>1
    <3>2. CASE k # Len(current[r]) + 1
      <4>1. k \in DOMAIN current[r] /\ current'[r][k] = current[r][k] /\ current[r][k] \in TaskId
        BY <2>5, <3>2
      <4> QED
        BY <1>a, <2>2, <2>3, <2>4, <4>1 DEF SavedBy
    <3> QED
      BY <3>1, <3>2
  <2> QED
    BY <1>4, <1>a, <2>1, <2>6 DEF SavedBy, UpsertTask
<1>5. CASE TasksDone(r)
  BY <1>5, <1>a DEF TasksDone, GoTo, TypeOK, SavedBy
<1>6. CASE UpsertLogs(r) /\ ~Fail(r)
  <2>1. PICK f \in LogIds(r) :
          /\ LogsAccepted(r, f)
          /\ wlogs' = [wlogs EXCEPT ![r] =
                 [w \in LogId |-> IF \E c \in DOMAIN f : f[c] = w
                                  THEN LogRowOf(r, CHOOSE c \in DOMAIN f : f[c] = w)
                                  ELSE @[w]]]
    BY <1>6 DEF UpsertLogs
  <2>2. UNCHANGED <<wtasks, job, current, outcome>> /\ pc'[r] = "delete_logs" /\ pc[r] = "upsert_logs"
    BY <1>6, <1>a DEF UpsertLogs, GoTo, TypeOK
  <2>3. \A c \in ToUpsert(Batch(r)) : Cell(Batch(r), c).id \notin ToDelete(Batch(r)) =>
           \E w \in LogId \ ToDelete(Batch(r)) :
              wlogs'[r][w] = LogRowOf(r, c) /\ wlogs'[r][w] \in LogRow
    BY <1>a, <2>1, <2>2, CellsWritten DEF Typed
  <2>4. Len(current[r]) = Len(Batch(r).tasks)
    BY <1>a, <2>2 DEF Phase
  <2> QED
    BY <1>a, <2>2, <2>3, <2>4 DEF SavedBy, Batch, LogRowOf
<1>7. CASE DeleteLogs(r)
  <2>1. /\ UNCHANGED <<wtasks, job, current>> /\ outcome'[r] # "ok"
        /\ pc'[r] \in {"check_limit", "rollback"} /\ pc[r] = "delete_logs"
    BY <1>7, <1>a DEF DeleteLogs, GoTo, Raise, TypeOK, SavedBy
  <2>2. \A w \in LogId \ ToDelete(Batch(r)) : wlogs'[r][w] = wlogs[r][w]
    BY <1>7, <1>a DEF DeleteLogs, TypeOK
  <2> QED
    BY <1>a, <2>1, <2>2 DEF SavedBy, Batch, LogRowOf
<1>8. CASE CheckLimit(r)
  <2>1. /\ UNCHANGED <<wtasks, wlogs, job, current>> /\ outcome'[r] # "ok"
        /\ pc'[r] \in {"commit", "rollback"} /\ pc[r] = "check_limit"
    BY <1>8, <1>a DEF CheckLimit, GoTo, Raise, TypeOK, SavedBy
  <2> QED
    BY <1>a, <2>1 DEF SavedBy, Batch, LogRowOf
<1> QED
  BY <1>1, <1>2, <1>3, <1>4, <1>5, <1>6, <1>7, <1>8
     DEF Advance, Fail, Commit, Rollback, DeadlockVictim, ConnectionLost

\* A task that is added by itself breaks nothing the batches rely on.
LEMMA InsertKeeps ==
    ASSUME TrackerTypeOK, IInv, NEW c \in Clients, InsertTask(c)
    PROVE  IInv'
<1>1. UNCHANGED <<worklogs, wtasks, wlogs, pc, job, current, outcome>>
  BY DEF InsertTask
<1>2. CASE UNCHANGED tasks
  BY <1>1, <1>2 DEF IInv, Typed, TypeOK, Phase, NoWrites, Batch, Locks, Owned,
                    ReferentialIntegrity, References, TaskView, LogView
<1>3. CASE ~UNCHANGED tasks
  <2>1. PICK t \in TaskId, row \in TaskRow : tasks' = [tasks EXCEPT ![t] = row] /\ tasks[t] = NoRow
    <3>1. call[c] \in Adding
      BY DEF InsertTask, TrackerTypeOK, Adding, Reading
    <3> QED
      BY <1>3, <3>1 DEF InsertTask, Adding, TaskRow, UnusedTask
  <2>2. row # NoRow
    BY TablesAssumption DEF TaskRow
  <2>3. tasks' \in TaskTable
    BY <2>1 DEF IInv, Typed, TypeOK, TaskTable
  <2>4. Typed' /\ Locks' /\ Owned'
    BY <1>1, <2>3 DEF IInv, Typed, TypeOK, Phase, NoWrites, Batch, Locks, Owned
  <2>5. \A s \in TaskId : tasks[s] # NoRow => tasks'[s] # NoRow
    BY <2>1, <2>2 DEF IInv, Typed, TypeOK, TaskTable
  <2>6. \A r \in Requests : \A s \in TaskId : TaskView(r)[s] # NoRow => TaskView(r)'[s] # NoRow
    BY <1>1, <2>5 DEF TaskView
  <2>7. \A r \in Requests : LogView(r)' = LogView(r) /\ LogView(r) \in LogTable
    BY <1>1, ViewType DEF LogView, IInv, Typed
  <2>8. ReferentialIntegrity'
    <3>1. References(worklogs', tasks')
      BY <1>1, <2>5 DEF IInv, ReferentialIntegrity, References, Typed, TypeOK, LogTable, LogRow
    <3>2. \A r \in Requests : References(LogView(r)', TaskView(r)')
      BY <2>6, <2>7 DEF IInv, ReferentialIntegrity, References, LogTable, LogRow
    <3> QED
      BY <3>1, <3>2 DEF ReferentialIntegrity
  <2> QED
    BY <2>4, <2>8 DEF IInv
<1> QED
  BY <1>2, <1>3

\* The other requests write what their types say.
LEMMA TypedOthers ==
    ASSUME TrackerTypeOK, Assign \/ \E c \in Clients : ValidateActivity(c) \/ InsertTask(c)
                                                  \/ ReadTasks(c) \/ ReadLogs(c)
    PROVE  TrackerTypeOK'
<1>1. CASE Assign
  BY <1>1 DEF Assign, TrackerTypeOK
<1>2. ASSUME NEW c \in Clients, ValidateActivity(c) PROVE TrackerTypeOK'
  <2>1. PICK u \in Users, a \in Activities, title \in Titles :
          call' = [call EXCEPT ![c] = [kind |-> "add", user |-> u, activity |-> a, title |-> title]]
    BY <1>2 DEF ValidateActivity
  <2>2. [kind |-> "add", user |-> u, activity |-> a, title |-> title] \in Adding
    BY DEF Adding
  <2> QED
    BY <1>2, <2>1, <2>2 DEF ValidateActivity, TrackerTypeOK
<1>3. ASSUME NEW c \in Clients, ReadTasks(c) PROVE TrackerTypeOK'
  <2>1. PICK u \in Users, period \in Periods :
          call' = [call EXCEPT ![c] =
            [kind |-> "journal", user |-> u, period |-> period, found |-> JournalTasks(u)]]
    BY <1>3 DEF ReadTasks
  <2>2. [kind |-> "journal", user |-> u, period |-> period, found |-> JournalTasks(u)] \in Reading
    BY DEF Reading, JournalTasks
  <2> QED
    BY <1>3, <2>1, <2>2 DEF ReadTasks, TrackerTypeOK
<1>4. ASSUME NEW c \in Clients, InsertTask(c) \/ ReadLogs(c) PROVE TrackerTypeOK'
  BY <1>4 DEF InsertTask, ReadLogs, TrackerTypeOK
<1> QED
  BY <1>1, <1>2, <1>3, <1>4

\* The empty tables satisfy TrackerInv.
LEMMA TrackerInvInit == TrackerInit => TrackerInv
<1> SUFFICES ASSUME TrackerInit PROVE TrackerInv
  OBVIOUS
<1>1. TrackerTypeOK
  BY DEF TrackerInit, TrackerTypeOK
<1>2. IInv
  BY IInvInit DEF TrackerInit
<1>3. Saves
  BY DEF TrackerInit, Init, Saves, SavedBy
<1> QED
  BY <1>1, <1>2, <1>3 DEF TrackerInv

\* TrackerInv is inductive.
LEMMA TrackerInvNext == TrackerInv /\ [TrackerNext]_trackerVars => TrackerInv'
<1> SUFFICES ASSUME TrackerInv, [TrackerNext]_trackerVars PROVE TrackerInv'
  OBVIOUS
<1>a. TrackerTypeOK /\ IInv /\ Saves /\ Typed
  BY DEF TrackerInv, IInv
<1>1. CASE Next /\ UNCHANGED <<assigned, call>>
  <2>1. IInv'
    BY <1>1, <1>a, IInvNext
  <2>2. Saves'
    BY <1>1, <1>a, SavesStep DEF Next
  <2>3. TrackerTypeOK'
    BY <1>1, <1>a DEF TrackerTypeOK
  <2> QED
    BY <2>1, <2>2, <2>3 DEF TrackerInv
<1>2. CASE Assign \/ \E c \in Clients : ValidateActivity(c) \/ InsertTask(c)
                                     \/ ReadTasks(c) \/ ReadLogs(c)
  <2>1. TrackerTypeOK'
    BY <1>2, <1>a, TypedOthers
  <2>2. IInv'
    <3>1. CASE \E c \in Clients : InsertTask(c)
      BY <1>a, <3>1, InsertKeeps
    <3>2. CASE UNCHANGED vars
      BY <1>a, <3>2, IInvNext
    <3> QED
      BY <1>2, <3>1, <3>2 DEF Assign, ValidateActivity, ReadTasks, ReadLogs
  <2>3. UNCHANGED <<worklogs, wtasks, wlogs, pc, job, current, outcome>>
    BY <1>2 DEF Assign, ValidateActivity, InsertTask, ReadTasks, ReadLogs, vars
  <2>4. Saves'
    BY <1>a, <2>3 DEF Saves, SavedBy, Batch, LogRowOf
  <2> QED
    BY <2>1, <2>2, <2>4 DEF TrackerInv
<1>3. CASE UNCHANGED trackerVars
  <2>1. UNCHANGED vars /\ UNCHANGED <<assigned, call>>
    BY <1>3 DEF trackerVars
  <2>2. IInv'
    BY <1>a, <2>1, IInvNext
  <2> QED
    BY <1>a, <2>1, <2>2 DEF TrackerInv, TrackerTypeOK, Saves, SavedBy, Batch, LogRowOf, vars
<1> QED
  BY <1>1, <1>2, <1>3 DEF TrackerNext

\* The rows of the assignments, and what a request has read, are of their kinds.
THEOREM TrackerTypeCorrect == TrackerSpec => []TrackerTypeOK
<1>1. TrackerInv => TrackerTypeOK
  BY DEF TrackerInv
<1> QED
  BY <1>1, TrackerInvInit, TrackerInvNext, PTL DEF TrackerSpec

\* Beside added tasks too, no worklog ever refers to a task that is missing,
\* in the tables or in the view of an open batch.
THEOREM TrackerTasksExist == TrackerSpec => []ReferentialIntegrity
<1>1. TrackerInv => ReferentialIntegrity
  BY DEF TrackerInv, IInv
<1> QED
  BY <1>1, TrackerInvInit, TrackerInvNext, PTL DEF TrackerSpec

\* A request is answered "ok" by its commit only.
LEMMA OkByCommit ==
    ASSUME TrackerInv, TrackerNext, NEW r \in Requests, pc[r] = "commit", outcome'[r] = "ok"
    PROVE  Commit(r) /\ UNCHANGED <<assigned, call>>
<1>1. Typed /\ TypeOK /\ outcome[r] # "ok"
  BY DEF TrackerInv, IInv, Typed, Saves, SavedBy
<1>2. PICK q \in Requests : /\ Begin(q) \/ Advance(q) \/ ConnectionLost(q)
                            /\ UNCHANGED <<assigned, call>>
  BY <1>1 DEF TrackerNext, Next, Assign, ValidateActivity, InsertTask, ReadTasks, ReadLogs, vars
<1>3. q = r
  BY <1>1, <1>2, OthersStay
<1>4. ~Begin(r) /\ ~DeleteTasks(r) /\ ~UpsertTask(r) /\ ~TasksDone(r) /\ ~UpsertLogs(r)
      /\ ~DeleteLogs(r) /\ ~CheckLimit(r) /\ ~Rollback(r)
  BY DEF Begin, DeleteTasks, UpsertTask, TasksDone, UpsertLogs, DeleteLogs, CheckLimit, Rollback
<1>5. ~DeadlockVictim(r) /\ ~ConnectionLost(r)
  BY <1>1 DEF DeadlockVictim, ConnectionLost, Fail, TypeOK
<1> QED
  BY <1>2, <1>3, <1>4, <1>5 DEF Advance

\* What a batch saves is what the journal of its user shows right after, on the
\* activities the user is assigned to, whoever had the tasks before and whatever
\* ran together with the batch.
THEOREM SavedCellsAreShown == TrackerSpec => SavedIsShown
<1>1. TrackerInv /\ [TrackerNext]_trackerVars =>
    [\A r \in Requests, u \in Users, b \in Batches :
         pc[r] = "commit" /\ outcome'[r] = "ok" /\ job[r] = [user |-> u, batch |-> b] =>
           \A c \in ToUpsert(b) :
             /\ <<u, tasks'[current[r][c[1]]].activity>> \in assigned
             /\ Cell(b, c).id \notin ToDelete(b)
             => \E w \in JournalLogs(u, {Cell(b, c).date}, JournalTasks(u))' :
                  /\ worklogs'[w].task = current[r][c[1]]
                  /\ worklogs'[w].duration = Stored(Cell(b, c).duration)]_trackerVars
  <2> SUFFICES ASSUME TrackerInv, TrackerNext,
                      NEW r \in Requests, NEW u \in Users, NEW b \in Batches,
                      pc[r] = "commit", outcome'[r] = "ok", job[r] = [user |-> u, batch |-> b],
                      NEW c \in ToUpsert(b),
                      <<u, tasks'[current[r][c[1]]].activity>> \in assigned,
                      Cell(b, c).id \notin ToDelete(b)
               PROVE  \E w \in JournalLogs(u, {Cell(b, c).date}, JournalTasks(u))' :
                         /\ worklogs'[w].task = current[r][c[1]]
                         /\ worklogs'[w].duration = Stored(Cell(b, c).duration)
    OBVIOUS
  <2> DEFINE t == current[r][c[1]]
  <2>1. TypeOK /\ SavedBy(r) /\ Batch(r) = b /\ job[r].user = u
    BY DEF TrackerInv, IInv, Typed, Saves, Batch
  <2>2. tasks' = TaskView(r) /\ worklogs' = LogView(r) /\ assigned' = assigned
    BY OkByCommit DEF Commit
  <2>3. c[1] \in DOMAIN current[r]
    <3>1. c[1] \in DOMAIN b.tasks
      BY CellType DEF ToUpsert
    <3>2. b.tasks \in Seq(UpsertActivityTask)
      BY BatchAssumption DEF TaskBatchDto
    <3>3. Len(current[r]) = Len(b.tasks) /\ current[r] \in Seq(TaskId)
      BY <2>1 DEF SavedBy, TypeOK
    <3> QED
      BY <3>1, <3>2, <3>3
  <2>4. t \in TaskId /\ wtasks[r][t] \in TaskRow /\ wtasks[r][t].user = u
    BY <2>1, <2>3 DEF TypeOK, SavedBy
  <2>5. tasks'[t] = wtasks[r][t] /\ tasks'[t] # NoRow
    BY <2>2, <2>4, TablesAssumption, BatchAssumption DEF TaskView, TaskRow
  <2>6. t \in JournalTasks(u)'
    BY <2>2, <2>4, <2>5 DEF JournalTasks
  <2>7. PICK w \in LogId : wlogs[r][w] = LogRowOf(r, c) /\ wlogs[r][w] \in LogRow
    BY <2>1 DEF SavedBy
  <2>8. worklogs'[w] = LogRowOf(r, c) /\ worklogs'[w] # NoRow
    BY <2>2, <2>7, TablesAssumption, BatchAssumption DEF LogView, LogRow
  <2>9. /\ worklogs'[w].task = t /\ worklogs'[w].user = u
        /\ worklogs'[w].date = Cell(b, c).date
        /\ worklogs'[w].duration = Stored(Cell(b, c).duration)
    BY <2>1, <2>8 DEF LogRowOf
  <2>10. w \in JournalLogs(u, {Cell(b, c).date}, JournalTasks(u))'
    BY <2>6, <2>8, <2>9 DEF JournalLogs
  <2> QED
    BY <2>9, <2>10
<1> QED
  BY <1>1, TrackerInvInit, TrackerInvNext, PTL DEF TrackerSpec, SavedIsShown

----------------------------------------------------------------------------
(* Unique keys.                                                            *)

\* A task that is added by itself has a title of its own, in the tables and in
\* every view.
LEMMA InsertKeepsKeys ==
    ASSUME TrackerTypeOK, KeysInv, NEW c \in Clients, InsertTask(c)
    PROVE  TaskKeys' /\ LogKeys'
<1>1. UNCHANGED <<worklogs, wtasks, wlogs>>
  BY DEF InsertTask
<1>2. LogKeys'
  BY <1>1 DEF KeysInv, LogKeys, LogKeysHeld, LogView, DistinctLogs
<1>3. CASE UNCHANGED tasks
  BY <1>1, <1>2, <1>3 DEF KeysInv, TaskKeys, TaskKeysHeld, TaskView, DistinctTasks
<1>4. CASE ~UNCHANGED tasks
  <2> DEFINE row == [title |-> call[c].title, activity |-> call[c].activity, user |-> call[c].user]
  <2>1. row \in TaskRow
    BY DEF InsertTask, TrackerTypeOK, Adding, Reading, TaskRow
  <2>2. PICK t \in TaskId : /\ UnusedTask(t) /\ tasks' = [tasks EXCEPT ![t] = row]
                            /\ ~InsertWaits(TaskKey(row))
                            /\ \A s \in TaskId : tasks[s] # NoRow => TaskKey(tasks[s]) # TaskKey(row)
    BY <1>4 DEF InsertTask
  <2> HIDE DEF row
  <2>3. row # NoRow /\ row # Unwritten
    BY <2>1, TablesAssumption, BatchAssumption DEF TaskRow
  <2>4. \A s \in TaskId : tasks'[s] = IF s = t THEN row ELSE tasks[s]
    BY <2>2 DEF KeysInv, Typed, TypeOK, TaskTable
  <2>5. DistinctTasks(tasks')
    BY <2>2, <2>4 DEF KeysInv, TaskKeys, DistinctTasks
  <2>6. ASSUME NEW r \in Requests
        PROVE  DistinctTasks(TaskView(r)')
    <3>1. wtasks[r][t] = Unwritten
      BY <2>2 DEF UnusedTask, InFlight, KeysInv, Typed, Phase, NoWrites, NoTaskWrites
    <3>2. \A s \in TaskId : TaskView(r)'[s] = IF s = t THEN row ELSE TaskView(r)[s]
      BY <1>1, <2>4, <3>1 DEF TaskView
    <3>3. \A s \in TaskId : TaskView(r)[s] # NoRow => TaskKey(TaskView(r)[s]) # TaskKey(row)
      BY <2>2 DEF InsertWaits, TaskKeyHeldBy, TaskView
    <3> QED
      BY <3>2, <3>3 DEF KeysInv, TaskKeys, DistinctTasks
  <2>7. TaskKeysHeld'
    BY <1>1 DEF KeysInv, TaskKeys, TaskKeysHeld
  <2> QED
    BY <1>2, <2>5, <2>6, <2>7 DEF TaskKeys
<1> QED
  BY <1>3, <1>4

\* Beside the other requests the keys are inductive too.
LEMMA TrackerKeysNext ==
    TrackerInv /\ KeysInv /\ [TrackerNext]_trackerVars => KeysInv'
<1> SUFFICES ASSUME TrackerInv, KeysInv, [TrackerNext]_trackerVars PROVE KeysInv'
  OBVIOUS
<1>1. CASE Next
  BY <1>1, KeysNext
<1>2. CASE UNCHANGED vars
  BY <1>2, KeysNext
<1>3. ASSUME NEW c \in Clients, InsertTask(c) PROVE KeysInv'
  <2>1. Typed'
    BY <1>3, TrackerInvNext DEF TrackerNext, TrackerInv, IInv
  <2> QED
    BY <1>3, <2>1, InsertKeepsKeys DEF TrackerInv, KeysInv
<1> QED
  BY <1>1, <1>2, <1>3
     DEF TrackerNext, trackerVars, Assign, ValidateActivity, ReadTasks, ReadLogs

\* Beside added tasks too, no two tasks have one title and activity, and no two
\* worklogs of one user are for one task and date.
THEOREM TrackerKeysStayUnique == TrackerSpec => []NoDuplicates
<1>1. TrackerInit => KeysInv
  BY KeysInit DEF TrackerInit
<1>2. KeysInv => NoDuplicates
  BY DEF KeysInv, TaskKeys, LogKeys, NoDuplicates
<1> QED
  BY <1>1, <1>2, TrackerKeysNext, TrackerInvInit, TrackerInvNext, PTL DEF TrackerSpec

----------------------------------------------------------------------------
(* The hours of a day.                                                     *)

\* The tenths of an hour that the rows S of logs hold, one by one.
Tenths(logs, S) == {p \in S \X (1 .. 80) : p[2] <= logs[p[1]].duration}

\* The sum the daily limit and the journal are about.
Hours(logs, S) == MapThenSumSet(LAMBDA w : logs[w].duration, S)

\* The row the sum goes on with.
Any(S) == CHOOSE x \in S : TRUE

\* g sums the durations of logs over every subset of S.
Sums(g, logs, S) ==
    g = [s \in SUBSET S |-> IF s = {} THEN 0 ELSE logs[Any(s)].duration + g[s \ {Any(s)}]]

\* Hours is such a sum.
LEMMA HoursUnfold ==
  ASSUME NEW logs, NEW S
  PROVE  Hours(logs, S) = (CHOOSE g : Sums(g, logs, S))[S]
BY DEF Hours, Sums, Any, MapThenSumSet, MapThenFoldSet

\* Rows that can be counted hold tenths that can be counted.
LEMMA TenthsFinite ==
  ASSUME NEW logs, NEW S, IsFiniteSet(S)
  PROVE  IsFiniteSet(Tenths(logs, S))
<1>1. 1 \in Int /\ 80 \in Int
  OBVIOUS
<1>2. IsFiniteSet(1 .. 80)
  BY <1>1, FS_Interval
<1>3. IsFiniteSet(S \X (1 .. 80))
  BY <1>2, FS_Product
<1> QED  BY <1>3, FS_Subset DEF Tenths

\* A row adds as many tenths as it is long.
LEMMA TenthsAdd ==
  ASSUME NEW logs, NEW S, IsFiniteSet(S), NEW x \in S, logs[x].duration \in 10 .. 80
  PROVE  Cardinality(Tenths(logs, S)) = logs[x].duration + Cardinality(Tenths(logs, S \ {x}))
<1> DEFINE n == logs[x].duration
           own == {x} \X (1 .. n)
           rest == Tenths(logs, S \ {x})
<1>1. n \in Nat /\ 1 \in Int /\ n \in Int /\ 1 <= n /\ n <= 80
  OBVIOUS
<1>2. Tenths(logs, S) = rest \cup own /\ rest \cap own = {}
  BY DEF Tenths
<1> HIDE DEF n
<1>3. IsFiniteSet(own) /\ Cardinality(own) = n
  <2>1. IsFiniteSet({x}) /\ Cardinality({x}) = 1
    BY FS_Singleton
  <2>2. IsFiniteSet(1 .. n) /\ Cardinality(1 .. n) = IF 1 > n THEN 0 ELSE n - 1 + 1
    BY <1>1, FS_Interval
  <2>3. IsFiniteSet(own) /\ Cardinality(own) = Cardinality({x}) * Cardinality(1 .. n)
    BY <2>1, <2>2, FS_Product
  <2> QED  BY <1>1, <2>1, <2>2, <2>3
<1>4. IsFiniteSet(rest)
  <2>1. IsFiniteSet(S \ {x})
    BY FS_RemoveElement
  <2> QED  BY <2>1, TenthsFinite
<1> HIDE DEF own, rest
<1>5. Cardinality(rest \cup own) = Cardinality(rest) + Cardinality(own) - Cardinality({})
  BY <1>2, <1>3, <1>4, FS_Union
<1>6. Cardinality(rest) \in Nat /\ Cardinality({}) = 0
  BY <1>4, FS_CardinalityType, FS_EmptySet
<1>7. Cardinality(Tenths(logs, S)) = n + Cardinality(rest)
  BY <1>1, <1>2, <1>3, <1>5, <1>6
<1> QED  BY <1>7 DEF n, rest

\* To sum the hours of a table's rows is to count their tenths, in whatever order the
\* sum takes the rows.
LEMMA HoursCounted ==
  ASSUME NEW logs, NEW S, IsFiniteSet(S), \A w \in S : logs[w].duration \in 10 .. 80
  PROVE  Hours(logs, S) = Cardinality(Tenths(logs, S))
<1> DEFINE Size(s) == Cardinality(Tenths(logs, s))
           count == [s \in SUBSET S |-> Size(s)]
<1>1. Size({}) = 0
  <2>1. Tenths(logs, {}) = {}
    BY DEF Tenths
  <2> QED  BY <2>1, FS_EmptySet
<1>2. \A s \in SUBSET S : s # {} => /\ Any(s) \in s
                                    /\ Size(s) = logs[Any(s)].duration + Size(s \ {Any(s)})
  <2> SUFFICES ASSUME NEW s \in SUBSET S, s # {}
               PROVE  Any(s) \in s /\ Size(s) = logs[Any(s)].duration + Size(s \ {Any(s)})
    OBVIOUS
  <2>1. Any(s) \in s
    BY DEF Any
  <2>2. IsFiniteSet(s)
    BY FS_Subset
  <2> QED  BY <2>1, <2>2, TenthsAdd
<1> HIDE DEF Size
<1>3. Sums(count, logs, S)
  BY <1>1, <1>2 DEF Sums
<1>4. PICK g : g = (CHOOSE h : Sums(h, logs, S)) /\ Sums(g, logs, S)
  BY <1>3
<1> HIDE DEF count
<1>5. /\ g[{}] = 0
      /\ \A s \in SUBSET S : s # {} => g[s] = logs[Any(s)].duration + g[s \ {Any(s)}]
  BY <1>4 DEF Sums
<1> DEFINE wrong == {s \in SUBSET S : g[s] # Size(s)}
<1>6. wrong = {}
  <2> SUFFICES ASSUME wrong # {} PROVE FALSE
    OBVIOUS
  <2>1. wrong \subseteq FiniteSubsetsOf(S)
    BY FS_Subset DEF FiniteSubsetsOf
  <2>2. PICK s \in wrong : \A z \in wrong : ~ (<<z, s>> \in StrictSubsetOrdering(S))
    BY <2>1, FS_StrictSubsetOrderingWellFounded, WFMin
  <2>3. s # {}
    BY <1>1, <1>5
  <2>4. s \ {Any(s)} \notin wrong
    BY <1>2, <2>1, <2>2, <2>3 DEF StrictSubsetOrdering
  <2> QED  BY <1>2, <1>5, <2>3, <2>4
<1>7. Hours(logs, S) = g[S]
  BY <1>4, HoursUnfold
<1> QED  BY <1>6, <1>7 DEF Size

\* Fewer rows hold no more hours.
LEMMA FewerHours ==
  ASSUME NEW logs, NEW others, NEW S, NEW T, IsFiniteSet(T), S \subseteq T,
         \A w \in T : others[w].duration \in 10 .. 80,
         \A w \in S : logs[w].duration = others[w].duration
  PROVE  Hours(logs, S) <= Hours(others, T)
<1>1. IsFiniteSet(S) /\ \A w \in S : logs[w].duration \in 10 .. 80
  BY FS_Subset
<1>2. Hours(logs, S) = Cardinality(Tenths(logs, S)) /\ Hours(others, T) = Cardinality(Tenths(others, T))
  BY <1>1, HoursCounted
<1>3. Tenths(logs, S) \subseteq Tenths(others, T)
  BY DEF Tenths
<1>4. IsFiniteSet(Tenths(others, T))
  BY TenthsFinite
<1> QED  BY <1>2, <1>3, <1>4, FS_Subset

\* The worklogs of u on d.
Booking(logs, u, d) == {w \in LogId : logs[w] # NoRow /\ logs[w].user = u /\ logs[w].date = d}

\* What is booked is a number: the hours of these worklogs.
LEMMA BookedHours ==
  ASSUME NEW logs \in LogTable, NEW u, NEW d
  PROVE  /\ Booked(logs, u, d) = Hours(logs, Booking(logs, u, d))
         /\ Booked(logs, u, d) \in Nat
         /\ IsFiniteSet(Booking(logs, u, d))
         /\ \A w \in Booking(logs, u, d) : logs[w].duration \in 10 .. 80
<1>1. Booked(logs, u, d) = Hours(logs, Booking(logs, u, d))
  BY DEF Booked, Hours, Booking
<1>2. IsFiniteSet(Booking(logs, u, d))
  BY TablesAssumption, FS_Subset DEF Booking
<1>3. \A w \in Booking(logs, u, d) : logs[w].duration \in 10 .. 80
  BY DEF Booking, LogTable, LogRow
<1>4. Booked(logs, u, d) \in Nat
  BY <1>1, <1>2, <1>3, HoursCounted, TenthsFinite, FS_CardinalityType
<1> QED  BY <1>1, <1>2, <1>3, <1>4

\* Who has no more worklogs on a date has no more hours on it.
LEMMA NoMoreBooked ==
  ASSUME NEW logs \in LogTable, NEW others \in LogTable, NEW u, NEW d,
         \A w \in Booking(logs, u, d) : w \in Booking(others, u, d) /\ logs[w].duration = others[w].duration
  PROVE  Booked(logs, u, d) <= Booked(others, u, d)
<1>1. Booking(logs, u, d) \subseteq Booking(others, u, d)
  OBVIOUS
<1> QED  BY <1>1, BookedHours, FewerHours

\* A worklog that a commit leaves is of the committer, or booked as it was before.
LEMMA CommittedRow ==
  ASSUME SaveInv, NEW r \in Requests, pc[r] = "commit", NEW w \in LogId, LogView(r)[w] # NoRow
  PROVE  \/ LogView(r)[w].user = job[r].user
         \/ /\ worklogs[w] # NoRow
            /\ LogView(r)[w].user = worklogs[w].user
            /\ LogView(r)[w].date = worklogs[w].date
            /\ LogView(r)[w].duration = worklogs[w].duration
<1>1. PICK f \in [ToUpsert(Batch(r)) -> LogId] : Placed(r, f)
  BY DEF SaveInv, UnderWay, Under
<1>2. LogView(r)[w] =
        IF w \in Cleared(r) THEN NoRow
        ELSE IF \E c \in DOMAIN f : f[c] = w THEN LogRowOf(r, CellAt(f, w))
        ELSE IF worklogs[w] # NoRow /\ worklogs[w].task \in Removed(r)
        THEN [worklogs[w] EXCEPT !.task = Null]
        ELSE worklogs[w]
  BY <1>1, LogsSaved
<1>3. CASE w \notin Cleared(r) /\ \E c \in DOMAIN f : f[c] = w
  BY <1>2, <1>3 DEF LogRowOf
<1>4. CASE w \in Cleared(r) \/ \A c \in DOMAIN f : f[c] # w
  <2>1. LogView(r)[w] \in {worklogs[w], [worklogs[w] EXCEPT !.task = Null]} /\ worklogs[w] # NoRow
    BY <1>2, <1>4
  <2>2. worklogs[w] \in LogRow
    BY <2>1 DEF SaveInv, IInv, Typed, TypeOK, LogTable
  <2> QED  BY <2>1, <2>2 DEF LogRow
<1> QED  BY <1>3, <1>4

\* A commit books nothing for the other users.
LEMMA OthersBooked ==
  ASSUME SaveInv, NEW r \in Requests, pc[r] = "commit", NEW u, u # job[r].user, NEW d
  PROVE  Booked(LogView(r), u, d) <= Booked(worklogs, u, d)
<1>1. LogView(r) \in LogTable /\ worklogs \in LogTable
  BY ViewType DEF SaveInv, IInv, Typed, TypeOK
<1>2. \A w \in Booking(LogView(r), u, d) :
         w \in Booking(worklogs, u, d) /\ LogView(r)[w].duration = worklogs[w].duration
  BY CommittedRow DEF Booking
<1> QED  BY <1>1, <1>2, NoMoreBooked

\* A commit of another user's batch adds nothing to what r has checked.
LEMMA CheckStays ==
  ASSUME SaveInv, NEW r \in Requests, NEW q \in Requests, job[q].user # job[r].user,
         pc[q] = "commit", pc[r] = "commit", WithinLimit(r),
         wlogs'[r] = wlogs[r], job'[r] = job[r], worklogs' = LogView(q)
  PROVE  WithinLimit(r)'
<1> DEFINE u == job[r].user
<1>1. LogView(r) \in LogTable /\ LogView(q) \in LogTable /\ TypeOK
  BY ViewType DEF SaveInv, IInv, Typed
<1>2. LogView(r)' \in LogTable
  <2>1. \A w \in LogId : wlogs[r][w] \in LogRow \cup {NoRow, Unwritten}
    BY <1>1 DEF TypeOK
  <2> QED  BY <1>1, <2>1 DEF LogView, LogTable
<1>3. ASSUME NEW d, NEW w \in Booking(LogView(r)', u, d)
      PROVE  w \in Booking(LogView(r), u, d) /\ LogView(r)'[w].duration = LogView(r)[w].duration
  <2>1. /\ w \in LogId /\ LogView(r)'[w] # NoRow
        /\ LogView(r)'[w].user = u /\ LogView(r)'[w].date = d
    BY <1>3 DEF Booking
  <2>2. CASE wlogs[r][w] # Unwritten
    <3>1. LogView(r)'[w] = LogView(r)[w]
      BY <2>1, <2>2 DEF LogView
    <3> QED  BY <2>1, <3>1 DEF Booking
  <2>3. CASE wlogs[r][w] = Unwritten
    <3>1. LogView(r)'[w] = LogView(q)[w] /\ LogView(r)[w] = worklogs[w]
      BY <2>1, <2>3 DEF LogView
    <3>2. /\ worklogs[w] # NoRow
          /\ LogView(q)[w].user = worklogs[w].user
          /\ LogView(q)[w].date = worklogs[w].date
          /\ LogView(q)[w].duration = worklogs[w].duration
      BY <2>1, <3>1, CommittedRow
    <3> QED  BY <2>1, <3>1, <3>2 DEF Booking
  <2> QED  BY <2>2, <2>3
<1>4. Batch(r)' = Batch(r) /\ job'[r].user = u
  BY DEF Batch
<1> HIDE DEF u
<1>5. \A d : /\ Booked(LogView(r)', u, d) <= Booked(LogView(r), u, d)
             /\ Booked(LogView(r)', u, d) \in Nat /\ Booked(LogView(r), u, d) \in Nat
  BY <1>1, <1>2, <1>3, NoMoreBooked, BookedHours
<1>6. Batch(r).tasks # << >>
      /\ \A d \in AffectedDates(Batch(r)) : Booked(LogView(r), u, d) <= DailyLimitTenths
  BY DEF WithinLimit, u
<1>7. \A d \in AffectedDates(Batch(r)) : Booked(LogView(r)', u, d) <= DailyLimitTenths
  BY <1>5, <1>6 DEF DailyLimitTenths
<1> QED  BY <1>4, <1>6, <1>7 DEF WithinLimit

\* Who passes the check is within the limit.
LEMMA CheckPasses ==
  ASSUME SaveInv, NEW r \in Requests, CheckLimit(r), pc'[r] = "commit"
  PROVE  WithinLimit(r)'
<1>1. TypeOK /\ Typed
  BY DEF SaveInv, IInv, Typed
<1>2. Batch(r).tasks # << >> /\ OverLimit(r) = {} /\ UNCHANGED <<worklogs, wlogs, job>>
  BY <1>1 DEF CheckLimit, Raise, GoTo, TypeOK
<1>3. Batch(r)' = Batch(r) /\ LogView(r)' = LogView(r) /\ LogView(r) \in LogTable
  BY <1>1, <1>2, ViewType DEF Batch, LogView
<1>4. \A d \in AffectedDates(Batch(r)) : ~ (Booked(LogView(r), job[r].user, d) > DailyLimitTenths)
  BY <1>2 DEF OverLimit
<1>5. \A d \in AffectedDates(Batch(r)) : Booked(LogView(r), job[r].user, d) <= DailyLimitTenths
  BY <1>3, <1>4, BookedHours DEF DailyLimitTenths
<1> QED  BY <1>2, <1>3, <1>5 DEF WithinLimit

\* The commits that OnlyCommits speaks of are those of the properties.
LEMMA TablesByCommit ==
  ASSUME SaveInv, NEW q \in Requests, Begin(q) \/ Advance(q) \/ ConnectionLost(q)
  PROVE  \/ UNCHANGED tables
         \/ Commits(q) /\ tasks' = TaskView(q) /\ worklogs' = LogView(q)
<1>1. End(q) => pc'[q] = "idle"
  BY DEF End, SaveInv, IInv, Typed, TypeOK
<1> QED  BY <1>1, OnlyCommits DEF Commits

\* A request that has passed the check is overtaken by the commits of its user only.
LEMMA Overtaken ==
  ASSUME SaveInv, NEW q \in Requests, Begin(q) \/ Advance(q) \/ ConnectionLost(q),
         NEW r \in Requests, pc'[r] = "commit", pc[r] = "commit" => WithinLimit(r), ~WithinLimit(r)'
  PROVE  q # r /\ Commits(q) /\ job[q].user = job[r].user
<1> USE DEF SaveInv, IInv, Typed
<1>1. CASE q = r
  <2>1. ~Begin(q) /\ ~End(q)
    BY <1>1 DEF Begin, GoTo, End, TypeOK
  <2>2. CheckLimit(q)
    BY <1>1, <2>1 DEF Advance, DeleteTasks, UpsertTask, TasksDone, UpsertLogs, DeleteLogs,
       Commit, Rollback, DeadlockVictim, ConnectionLost, Fail, GoTo, Raise, TypeOK
  <2> QED  BY <1>1, <2>2, CheckPasses
<1>2. CASE q # r
  <2>1. wlogs'[r] = wlogs[r] /\ pc[r] = "commit" /\ job'[r] = job[r]
    BY <1>2, OthersLeave
  <2>2. ~UNCHANGED worklogs
    <3>1. UNCHANGED worklogs => LogView(r)' = LogView(r) /\ Batch(r)' = Batch(r)
      BY <2>1 DEF LogView, Batch
    <3> QED  BY <2>1, <3>1 DEF WithinLimit
  <2>3. Commits(q) /\ worklogs' = LogView(q)
    BY <2>2, TablesByCommit DEF tables
  <2> QED  BY <1>2, <2>1, <2>3, CheckStays DEF Commits
<1> QED  BY <1>1, <1>2

\* A day comes to hold more by a commit of its user only, and not by one that has checked
\* the day and is within the limit.
LEMMA BookedMore ==
  ASSUME SaveInv, NEW q \in Requests, Begin(q) \/ Advance(q) \/ ConnectionLost(q),
         NEW u \in Users, NEW d \in Dates,
         Booked(worklogs', u, d) > DailyLimitTenths, Booked(worklogs', u, d) > Booked(worklogs, u, d)
  PROVE  /\ Commits(q) /\ job[q].user = u
         /\ d \in AffectedDates(Batch(q)) => ~WithinLimit(q)
<1>1. LogView(q) \in LogTable /\ worklogs \in LogTable
  BY ViewType DEF SaveInv, IInv, Typed, TypeOK
<1>2. Booked(LogView(q), u, d) \in Nat /\ Booked(worklogs, u, d) \in Nat
  BY <1>1, BookedHours
<1>3. Commits(q) /\ worklogs' = LogView(q)
  BY <1>2, TablesByCommit DEF tables
<1>4. job[q].user = u
  <2> SUFFICES ASSUME job[q].user # u PROVE FALSE
    OBVIOUS
  <2>1. Booked(LogView(q), u, d) <= Booked(worklogs, u, d)
    BY <1>3, OthersBooked DEF Commits
  <2> QED  BY <1>2, <1>3, <2>1
<1>5. d \in AffectedDates(Batch(q)) => ~WithinLimit(q)
  <2> SUFFICES ASSUME d \in AffectedDates(Batch(q)), WithinLimit(q) PROVE FALSE
    OBVIOUS
  <2>1. Booked(LogView(q), u, d) <= DailyLimitTenths
    BY <1>4 DEF WithinLimit
  <2> QED  BY <1>2, <1>3, <2>1 DEF DailyLimitTenths
<1> QED  BY <1>3, <1>4, <1>5

\* The step formula of PassedTheLimit.
NoThirdWay ==
    /\ \A r \in Requests :
         /\ pc'[r] = "commit" /\ (pc[r] = "commit" => WithinLimit(r)) /\ ~WithinLimit(r)'
         => \E q \in Requests \ {r} : Commits(q) /\ job[q].user = job[r].user
    /\ \A u \in Users, d \in Dates :
         /\ Booked(worklogs', u, d) > DailyLimitTenths
         /\ Booked(worklogs', u, d) > Booked(worklogs, u, d)
         => \E r \in Requests :
              /\ Commits(r) /\ job[r].user = u
              /\ d \in AffectedDates(Batch(r)) => ~WithinLimit(r)

\* A step of a request goes past the limit in no third way.
LEMMA LimitStep == SaveInv /\ Next => NoThirdWay
<1> SUFFICES ASSUME SaveInv, Next PROVE NoThirdWay
  OBVIOUS
<1>1. PICK q \in Requests : Begin(q) \/ Advance(q) \/ ConnectionLost(q)
  BY DEF Next
<1>2. ASSUME NEW r \in Requests, pc'[r] = "commit", pc[r] = "commit" => WithinLimit(r), ~WithinLimit(r)'
      PROVE  \E p \in Requests \ {r} : Commits(p) /\ job[p].user = job[r].user
  BY <1>1, <1>2, Overtaken
<1>3. ASSUME NEW u \in Users, NEW d \in Dates, Booked(worklogs', u, d) > DailyLimitTenths,
             Booked(worklogs', u, d) > Booked(worklogs, u, d)
      PROVE  \E r \in Requests :
               /\ Commits(r) /\ job[r].user = u
               /\ d \in AffectedDates(Batch(r)) => ~WithinLimit(r)
  BY <1>1, <1>3, BookedMore
<1> QED  BY <1>2, <1>3 DEF NoThirdWay

\* However batches interleave, and whatever they hold, a day passes 8 hours by a batch
\* that a batch of the same user overtook after its check, or that did not check the day.
THEOREM NoOtherWayPastTheLimit == Spec => PassedTheLimit
<1>1. SaveInv /\ [Next]_vars => [NoThirdWay]_vars
  BY LimitStep
<1> QED
  BY <1>1, SaveInvInit, SaveInvNext, PTL DEF Spec, PassedTheLimit, NoThirdWay

----------------------------------------------------------------------------
(* What a journal shows.                                                   *)

\* Beside the other requests batches have in store what they have alone.
LEMMA TrackerSaveNext == TrackerInv /\ SaveInv /\ [TrackerNext]_trackerVars => SaveInv'
<1> SUFFICES ASSUME TrackerInv, SaveInv, [TrackerNext]_trackerVars PROVE SaveInv'
  OBVIOUS
<1>1. CASE Next \/ UNCHANGED vars
  BY <1>1, SaveInvNext
<1>2. ASSUME NEW c \in Clients, InsertTask(c) PROVE SaveInv'
  <2>1. UNCHANGED <<worklogs, wtasks, wlogs, pc, job, current, outcome>>
    BY <1>2 DEF InsertTask
  <2>2. IInv' /\ KeysInv'
    BY <1>2, InsertKeeps, TrackerKeysNext DEF TrackerInv, SaveInv
  <2>3. ASSUME NEW r \in Requests, NEW t \in TaskId, wtasks[r][t] # Unwritten
        PROVE  tasks'[t] = tasks[t]
    BY <1>2, <2>3, UnusedIsFree DEF InsertTask, SaveInv, IInv, Typed, TypeOK, TaskTable
  <2>4. UnderWay'
    BY <2>1, <2>3, UnderStays DEF SaveInv, IInv, UnderWay
  <2> QED  BY <2>2, <2>4 DEF SaveInv
<1> QED
  BY <1>1, <1>2 DEF TrackerNext, trackerVars, Assign, ValidateActivity, ReadTasks, ReadLogs

\* A step that books nothing and checks nothing goes past no limit.
LEMMA NothingBooked ==
  ASSUME SaveInv, UNCHANGED <<worklogs, wlogs, pc, job>>
  PROVE  NoThirdWay
<1>1. \A r \in Requests : WithinLimit(r)' <=> WithinLimit(r)
  BY DEF WithinLimit, Batch, LogView
<1>2. \A u \in Users, d \in Dates : Booked(worklogs, u, d) \in Nat
  BY BookedHours DEF SaveInv, IInv, Typed, TypeOK
<1>3. \A u \in Users, d \in Dates : ~ (Booked(worklogs', u, d) > Booked(worklogs, u, d))
  BY <1>2
<1> QED  BY <1>1, <1>3 DEF NoThirdWay

\* Beside added tasks and assignments there is no third way past the limit either.
THEOREM TrackerHasNoOtherWay == TrackerSpec => PassedTheLimit
<1>1. TrackerInv /\ SaveInv /\ [TrackerNext]_trackerVars => [NoThirdWay]_vars
  <2> SUFFICES ASSUME SaveInv, TrackerNext \/ UNCHANGED vars PROVE NoThirdWay \/ UNCHANGED vars
    BY DEF trackerVars
  <2>1. CASE Next
    BY <2>1, LimitStep
  <2>2. ASSUME NEW c \in Clients, InsertTask(c) PROVE NoThirdWay
    BY <2>2, NothingBooked DEF InsertTask
  <2> QED
    BY <2>1, <2>2 DEF TrackerNext, Assign, ValidateActivity, ReadTasks, ReadLogs
<1>2. TrackerInit => SaveInv
  BY SaveInvInit DEF TrackerInit
<1> QED
  BY <1>1, <1>2, TrackerSaveNext, TrackerInvInit, TrackerInvNext, PTL
     DEF TrackerSpec, PassedTheLimit, NoThirdWay

\* A worklog is changed by a batch that names it or deletes its task, and a new one is
\* of the committer.
LEMMA LogChanged ==
  ASSUME SaveInv, NEW q \in Requests, pc[q] = "commit", NEW w \in LogId, LogView(q)[w] # worklogs[w]
  PROVE  \/ w \in NamedLogs(Batch(q))
         \/ worklogs[w] # NoRow /\ worklogs[w].task \in Batch(q).deletions
         \/ worklogs[w] = NoRow /\ LogView(q)[w].user = job[q].user
<1>1. PICK f \in [ToUpsert(Batch(q)) -> LogId] : Placed(q, f)
  BY DEF SaveInv, UnderWay, Under
<1>2. LogView(q)[w] =
        IF w \in Cleared(q) THEN NoRow
        ELSE IF \E c \in DOMAIN f : f[c] = w THEN LogRowOf(q, CellAt(f, w))
        ELSE IF worklogs[w] # NoRow /\ worklogs[w].task \in Removed(q)
        THEN [worklogs[w] EXCEPT !.task = Null]
        ELSE worklogs[w]
  BY <1>1, LogsSaved
<1>3. w # Null
  BY TablesAssumption
<1>4. CASE w \in Cleared(q)
  BY <1>3, <1>4 DEF Cleared, ToDelete, NamedLogs
<1>5. CASE w \notin Cleared(q) /\ \E c \in DOMAIN f : f[c] = w
  <2>1. CellAt(f, w) \in DOMAIN f /\ f[CellAt(f, w)] = w
    BY <1>5 DEF CellAt
  <2>2. CASE Cell(Batch(q), CellAt(f, w)).id # Null
    <3>1. w = Cell(Batch(q), CellAt(f, w)).id /\ CellAt(f, w) \in Cells(Batch(q))
      BY <1>1, <2>1, <2>2 DEF Placed, ToUpsert
    <3> QED  BY <1>3, <3>1 DEF NamedLogs
  <2>3. CASE Cell(Batch(q), CellAt(f, w)).id = Null
    <3>1. worklogs[w] = NoRow
      BY <1>1, <2>1, <2>3 DEF Placed
    <3>2. LogView(q)[w] = LogRowOf(q, CellAt(f, w))
      BY <1>2, <1>5
    <3> QED  BY <3>1, <3>2 DEF LogRowOf
  <2> QED  BY <2>2, <2>3
<1>6. CASE w \notin Cleared(q) /\ \A c \in DOMAIN f : f[c] # w
  BY <1>2, <1>6 DEF Removed
<1> QED  BY <1>4, <1>5, <1>6

\* And a task by a batch that names it.
LEMMA TaskChanged ==
  ASSUME SaveInv, NEW q \in Requests, pc[q] = "commit", NEW t \in TaskId, tasks[t] # NoRow,
         TaskView(q)[t] # tasks[t]
  PROVE  t \in NamedTasks(Batch(q))
<1>1. TasksWritten(q) /\ Batch(q).deletions # Null /\ Len(current[q]) = Len(Batch(q).tasks)
  BY DEF SaveInv, UnderWay, Under
<1>2. Batch(q).tasks \in Seq(UpsertActivityTask) /\ current[q] \in Seq(TaskId)
  BY BatchAssumption DEF SaveInv, IInv, Typed, TypeOK, Phase, Job, Batch, TaskBatchDto
<1>3. t # Null
  BY TablesAssumption
<1>4. CASE \E k \in DOMAIN current[q] : current[q][k] = t
  <2>1. PICK k \in DOMAIN current[q] : current[q][k] = t
    BY <1>4
  <2>2. Item(q, k).id = t
    BY <1>1, <2>1 DEF TasksWritten
  <2>3. k \in DOMAIN Batch(q).tasks
    BY <1>1, <1>2
  <2> QED  BY <1>3, <2>2, <2>3 DEF NamedTasks, Item
<1>5. CASE ~\E k \in DOMAIN current[q] : current[q][k] = t
  <2>1. t \in Removed(q)
    BY <1>5, TasksSaved
  <2> QED  BY <1>1, <1>3, <2>1 DEF Removed, NamedTasks
<1> QED  BY <1>4, <1>5

\* What a step of the tracker does to the tables: a batch is committed, or no worklog and
\* no task that is there changes.
LEMMA StepTables ==
  ASSUME TrackerInv, SaveInv, TrackerNext
  PROVE  \/ \E q \in Requests : /\ Commits(q) /\ UNCHANGED assigned
                                /\ tasks' = TaskView(q) /\ worklogs' = LogView(q)
         \/ /\ UNCHANGED worklogs /\ assigned \subseteq assigned'
            /\ \A t \in TaskId : tasks[t] # NoRow => tasks'[t] = tasks[t]
<1>1. CASE Next /\ UNCHANGED <<assigned, call>>
  <2>1. PICK q \in Requests : Begin(q) \/ Advance(q) \/ ConnectionLost(q)
    BY <1>1 DEF Next
  <2> QED  BY <1>1, <2>1, TablesByCommit DEF tables
<1>2. ASSUME NEW c \in Clients, InsertTask(c)
      PROVE  /\ UNCHANGED <<worklogs, assigned>>
             /\ \A t \in TaskId : tasks[t] # NoRow => tasks'[t] = tasks[t]
  BY <1>2 DEF InsertTask, UnusedTask, SaveInv, IInv, Typed, TypeOK, TaskTable
<1> QED
  BY <1>1, <1>2 DEF TrackerNext, Assign, ValidateActivity, ReadTasks, ReadLogs, vars

\* The step formula of SavedStaysShown.
ShownStep ==
    \A u \in Users : \A w \in InJournal(u) :
       \/ w \in InJournal(u)' /\ worklogs'[w] = worklogs[w]
       \/ \E r \in Requests :
            /\ Commits(r)
            /\ \/ w \in NamedLogs(Batch(r))
               \/ worklogs[w].task \in NamedTasks(Batch(r))

\* A cell that a journal shows leaves it, or changes, by a batch that names it or its task.
LEMMA JournalKeeps == TrackerInv /\ SaveInv /\ TrackerNext => ShownStep
<1> SUFFICES ASSUME TrackerInv, SaveInv, TrackerNext, NEW u \in Users, NEW w \in InJournal(u)
             PROVE  \/ w \in InJournal(u)' /\ worklogs'[w] = worklogs[w]
                    \/ \E r \in Requests : /\ Commits(r)
                                           /\ \/ w \in NamedLogs(Batch(r))
                                              \/ worklogs[w].task \in NamedTasks(Batch(r))
  BY DEF ShownStep
<1> DEFINE t == worklogs[w].task
<1>1. /\ w \in LogId /\ worklogs[w] # NoRow /\ worklogs[w].user = u /\ worklogs[w].date \in Dates
      /\ t \in TaskId /\ tasks[t] # NoRow /\ tasks[t].user = u /\ <<u, tasks[t].activity>> \in assigned
  BY DEF InJournal, JournalLogs, JournalTasks
<1>2. ASSUME worklogs'[w] = worklogs[w], tasks'[t] = tasks[t], assigned \subseteq assigned'
      PROVE  w \in InJournal(u)' /\ worklogs'[w] = worklogs[w]
  BY <1>1, <1>2 DEF InJournal, JournalLogs, JournalTasks
<1>3. CASE \E q \in Requests : /\ Commits(q) /\ UNCHANGED assigned
                               /\ tasks' = TaskView(q) /\ worklogs' = LogView(q)
  <2>1. PICK q \in Requests : /\ Commits(q) /\ UNCHANGED assigned
                              /\ tasks' = TaskView(q) /\ worklogs' = LogView(q)
    BY <1>3
  <2>2. pc[q] = "commit" /\ Batch(q).deletions # Null
    BY <2>1 DEF Commits, SaveInv, UnderWay, Under
  <2>3. CASE worklogs'[w] # worklogs[w]
    <3>1. w \in NamedLogs(Batch(q)) \/ t \in Batch(q).deletions
      BY <1>1, <2>1, <2>2, <2>3, LogChanged
    <3>2. t # Null
      BY <1>1, TablesAssumption
    <3>3. t \in Batch(q).deletions => t \in NamedTasks(Batch(q))
      BY <2>2, <3>2 DEF NamedTasks
    <3> QED  BY <2>1, <3>1, <3>3
  <2>4. CASE tasks'[t] # tasks[t]
    <3>1. t \in NamedTasks(Batch(q))
      BY <1>1, <2>1, <2>2, <2>4, TaskChanged
    <3> QED  BY <2>1, <3>1
  <2>5. CASE worklogs'[w] = worklogs[w] /\ tasks'[t] = tasks[t]
    BY <1>2, <2>1, <2>5
  <2> QED  BY <2>3, <2>4, <2>5
<1>4. CASE /\ UNCHANGED worklogs /\ assigned \subseteq assigned'
           /\ \A s \in TaskId : tasks[s] # NoRow => tasks'[s] = tasks[s]
  BY <1>1, <1>2, <1>4
<1> QED  BY <1>3, <1>4, StepTables

\* What the journal shows stays there, whatever runs together, until a batch names the
\* cell or its task.
THEOREM JournalCellsStay == TrackerSpec => SavedStaysShown
<1>1. TrackerInv /\ SaveInv /\ [TrackerNext]_trackerVars => [ShownStep]_trackerVars
  BY JournalKeeps
<1>2. TrackerInit => SaveInv
  BY SaveInvInit DEF TrackerInit
<1> QED
  BY <1>1, <1>2, TrackerSaveNext, TrackerInvInit, TrackerInvNext, PTL
     DEF TrackerSpec, SavedStaysShown, ShownStep

\* The step formula of JournalHoldsStill.
ReadingStep ==
    \A c \in Clients, w \in LogId :
       /\ call[c] # Null /\ call[c].kind = "journal" /\ call'[c] = call[c]
       /\ \/ w \in Shown(c) /\ w \notin Shown(c)'
          \/ w \in Shown(c)' /\ w \notin Shown(c)
          \/ w \in Shown(c) /\ worklogs'[w] # worklogs[w]
       => \E r \in Requests :
            /\ Commits(r)
            /\ \/ job[r].user = call[c].user
               \/ w \in NamedLogs(Batch(r))
               \/ worklogs[w] # NoRow /\ worklogs[w].task \in Batch(r).deletions

\* While a journal is read, what it will show changes by such commits only.
LEMMA ReadingKeeps == TrackerInv /\ SaveInv /\ TrackerNext => ReadingStep
<1> SUFFICES ASSUME TrackerInv, SaveInv, TrackerNext, NEW c \in Clients, NEW w \in LogId,
                    call'[c] = call[c],
                    \/ w \in Shown(c) /\ w \notin Shown(c)'
                    \/ w \in Shown(c)' /\ w \notin Shown(c)
                    \/ w \in Shown(c) /\ worklogs'[w] # worklogs[w]
             PROVE  \E r \in Requests :
                      /\ Commits(r)
                      /\ \/ job[r].user = call[c].user
                         \/ w \in NamedLogs(Batch(r))
                         \/ worklogs[w] # NoRow /\ worklogs[w].task \in Batch(r).deletions
  BY DEF ReadingStep
<1>1. worklogs'[w] # worklogs[w]
  BY DEF Shown, JournalLogs
<1>2. PICK q \in Requests : Commits(q) /\ worklogs' = LogView(q)
  BY <1>1, StepTables
<1>3. \/ w \in NamedLogs(Batch(q))
      \/ worklogs[w] # NoRow /\ worklogs[w].task \in Batch(q).deletions
      \/ worklogs[w] = NoRow /\ LogView(q)[w].user = job[q].user
  BY <1>1, <1>2, LogChanged DEF Commits
<1>4. worklogs[w] = NoRow => worklogs'[w].user = call[c].user
  BY DEF Shown, JournalLogs
<1> QED  BY <1>2, <1>3, <1>4

\* Between its two SELECTs a journal changes by the reader's own batches, and by those
\* that name the cell or delete its task.
THEOREM JournalsHoldStill == TrackerSpec => JournalHoldsStill
<1>1. TrackerInv /\ SaveInv /\ [TrackerNext]_trackerVars => [ReadingStep]_trackerVars
  BY ReadingKeeps
<1>2. TrackerInit => SaveInv
  BY SaveInvInit DEF TrackerInit
<1> QED
  BY <1>1, <1>2, TrackerSaveNext, TrackerInvInit, TrackerInvNext, PTL
     DEF TrackerSpec, JournalHoldsStill, ReadingStep

=============================================================================
