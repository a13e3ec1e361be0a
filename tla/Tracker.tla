------------------------------ MODULE Tracker ------------------------------
(***************************************************************************)
(* Batches together with the other requests of the tracker: admins assign  *)
(* employees to activities, employees add single tasks and read their      *)
(* journal (src/app/api/v1/activity.py, journal.py).  The batches run as   *)
(* in WorklogBatch; the others share activity_tasks and worklogs with      *)
(* them.                                                                   *)
(*                                                                         *)
(* create_activity passes expected_hours_monthly to a model without such a *)
(* column and always fails, so activities is a constant.                   *)
(***************************************************************************)
EXTENDS WorklogBatch

CONSTANTS
    Clients,      \* slots of the requests that are not batches
    Periods       \* the date ranges a journal is read for, as sets of dates

ASSUME TrackerAssumption == Periods \subseteq SUBSET Dates

VARIABLES
    assigned,     \* activity_users, as pairs <<user_id, activity_id>>
    call          \* call[c]: what c's request has read, Null between requests

trackerVars == <<vars, assigned, call>>

Adding == [kind : {"add"}, user : Users, activity : Activities, title : Titles]

Reading == [kind : {"journal"}, user : Users, period : Periods, found : SUBSET TaskId]

TrackerTypeOK ==
    /\ assigned \subseteq Users \X Activities
    /\ call \in [Clients -> Adding \cup Reading \cup {Null}]

TrackerInit ==
    /\ Init
    /\ assigned = {}
    /\ call = [c \in Clients |-> Null]
----------------------------------------------------------------------------
(* Assignments.                                                            *)

\* A mutant of Assign: no foreign key to activities.
MutantAssign ==
    /\ \E u \in Users, a \in ActivityIds : assigned' = assigned \cup {<<u, a>>}
    /\ UNCHANGED <<vars, call>>

\* POST /assign: one INSERT and its COMMIT.  The foreign key refuses an unknown
\* activity, uq_user_activity a second assignment.
Assign ==
    /\ \E u \in Users, a \in Activities : assigned' = assigned \cup {<<u, a>>}
    /\ UNCHANGED <<vars, call>>
----------------------------------------------------------------------------
(* POST /{activity_id}/task.                                               *)

\* validate_activity: a SELECT.  Who is not assigned is answered with 401.
ValidateActivity(c) ==
    /\ call[c] = Null
    /\ \E u \in Users, a \in Activities, title \in Titles :
         /\ <<u, a>> \in assigned
         /\ call' = [call EXCEPT ![c] = [kind |-> "add", user |-> u, activity |-> a, title |-> title]]
    /\ UNCHANGED <<vars, assigned>>

\* Bound: there is an id left for every task the batches in flight may create.
SpareTask ==
    MapThenSumSet(LAMBDA r : Cardinality(NewTasks(Batch(r))), InFlight)
        < Cardinality({t \in TaskId : UnusedTask(t)})

\* The INSERT waits for a transaction that has written a task of this title and
\* activity.
InsertWaits(key) == \E q \in Requests : TaskKeyHeldBy(q, key)

\* A mutant of InsertTask: a task of this title and activity is taken over.
MutantInsertTask(c) ==
    /\ call[c] # Null /\ call[c].kind = "add"
    /\ LET row == [title |-> call[c].title, activity |-> call[c].activity, user |-> call[c].user]
       IN  /\ ~InsertWaits(TaskKey(row))
           /\ SpareTask
           /\ \E t \in TaskId :
                /\ \A s \in TaskId : tasks[s] # NoRow /\ TaskKey(tasks[s]) = TaskKey(row) => s = t
                /\ UnusedTask(t) \/ (tasks[t] # NoRow /\ TaskKey(tasks[t]) = TaskKey(row))
                /\ tasks' = [tasks EXCEPT ![t] = row]
    /\ call' = [call EXCEPT ![c] = Null]
    /\ UNCHANGED <<worklogs, wtasks, wlogs, pc, job, current, outcome, assigned>>

\* ActivityTaskBase.create: INSERT and COMMIT.  Nobody sees the row in between,
\* and who meets its key waits.  A title that is taken ends the request with an
\* error, and so does a failure of either.
InsertTask(c) ==
    /\ call[c] # Null /\ call[c].kind = "add"
    /\ LET row == [title |-> call[c].title, activity |-> call[c].activity, user |-> call[c].user]
       IN  \/ /\ ~InsertWaits(TaskKey(row))
              /\ SpareTask
              /\ \A t \in TaskId : tasks[t] # NoRow => TaskKey(tasks[t]) # TaskKey(row)
              /\ \E t \in TaskId : UnusedTask(t) /\ tasks' = [tasks EXCEPT ![t] = row]
           \/ UNCHANGED tasks
    /\ call' = [call EXCEPT ![c] = Null]
    /\ UNCHANGED <<worklogs, wtasks, wlogs, pc, job, current, outcome, assigned>>
----------------------------------------------------------------------------
(* GET /journal.                                                           *)

\* The first SELECT of get_journal: activities JOIN activity_users JOIN
\* activity_tasks, both of the user.
JournalTasks(u) ==
    {t \in TaskId : tasks[t] # NoRow /\ tasks[t].user = u /\ <<u, tasks[t].activity>> \in assigned}

\* A mutant of JournalLogs: the worklogs of a task, whoever's they are.
MutantJournalLogs(u, period, found) ==
    {w \in LogId : /\ worklogs[w] # NoRow
                   /\ worklogs[w].task \in found
                   /\ worklogs[w].date \in period}

\* The second one, of selectinload: the worklogs of these tasks, with the
\* criteria on their date and user.
JournalLogs(u, period, found) ==
    {w \in LogId : /\ worklogs[w] # NoRow
                   /\ worklogs[w].task \in found
                   /\ worklogs[w].date \in period /\ worklogs[w].user = u}

ReadTasks(c) ==
    /\ call[c] = Null
    /\ \E u \in Users, period \in Periods :
         call' = [call EXCEPT ![c] =
             [kind |-> "journal", user |-> u, period |-> period, found |-> JournalTasks(u)]]
    /\ UNCHANGED <<vars, assigned>>

\* What the journal of c shows, if its second SELECT runs now.
Shown(c) == JournalLogs(call[c].user, call[c].period, call[c].found)

\* The second SELECT and the answer.
ReadLogs(c) ==
    /\ call[c] # Null /\ call[c].kind = "journal"
    /\ call' = [call EXCEPT ![c] = Null]
    /\ UNCHANGED <<vars, assigned>>
----------------------------------------------------------------------------
TrackerNext ==
    \/ Next /\ UNCHANGED <<assigned, call>>
    \/ Assign
    \/ \E c \in Clients : ValidateActivity(c) \/ InsertTask(c) \/ ReadTasks(c) \/ ReadLogs(c)

TrackerSpec == TrackerInit /\ [][TrackerNext]_trackerVars

=============================================================================
