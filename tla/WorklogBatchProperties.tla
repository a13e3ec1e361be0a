----------------------- MODULE WorklogBatchProperties -----------------------
(***************************************************************************)
(* What is checked of WorklogBatch.                                        *)
(***************************************************************************)
EXTENDS WorklogBatch

\* A worklog's task exists, or it has none: no interleaving of a task's
\* deletion with requests that book hours on it leaves a dangling reference,
\* neither in the tables nor in what an open transaction sees
\* (models.py, activity_task_id; activity.py, batch_worklog).
ReferentialIntegrity ==
    /\ References(worklogs, tasks)
    /\ \A r \in Requests : References(LogView(r), TaskView(r))

\* A row is written by one open transaction at most.
Locks ==
    \A q, r \in Requests : q # r =>
        /\ \A t \in TaskId : wtasks[q][t] = Unwritten \/ wtasks[r][t] = Unwritten
        /\ \A w \in LogId : wlogs[q][w] = Unwritten \/ wlogs[r][w] = Unwritten

\* A request holds the tasks it has gone through and the task of every worklog
\* it has written: nobody else can delete them before it commits.
Owned ==
    \A r \in Requests :
        /\ \A k \in DOMAIN current[r] : wtasks[r][current[r][k]] \in TaskRow
        /\ \A w \in LogId : wlogs[r][w] \in LogRow /\ wlogs[r][w].task # Null
                               => wtasks[r][wlogs[r][w].task] \in TaskRow

\* The rows an open transaction has written are its own until it ends, and with
\* them the tasks its new worklogs refer to: a batch never builds on rows that
\* another one may still roll back (base.py:431-524, activity.py:81-109).
WritesHeld == Locks /\ Owned

\* Two requests that save the same new cell, or the same new task, never both
\* succeed: uq_title_activity_id and uq_user_activity_task_date hold of every
\* committed state although each request checks them against its own view.
NoDuplicates == DistinctTasks(tasks) /\ DistinctLogs(worklogs)

\* A batch takes effect in one step and as a whole (see Timesheet): nothing of
\* a refused or failed batch stays, and no concurrent batch's rows are lost.
Sheet == INSTANCE Timesheet WITH tasks <- tasks, worklogs <- worklogs
SavesAtomically == Sheet!Spec

\* No day of a user exceeds 8 hours (activity.py:113-125).
DailyLimit == \A u \in Users, d \in Dates : Booked(worklogs, u, d) <= DailyLimitTenths

\* What r would commit now keeps the limit on the dates that r checks.
WithinLimit(r) ==
    Batch(r).tasks # << >> /\ \A d \in AffectedDates(Batch(r)) :
        Booked(LogView(r), job[r].user, d) <= DailyLimitTenths

Commits(r) == pc[r] = "commit" /\ pc'[r] = "idle"

\* There are two ways past the limit and no third.  A request that has passed
\* the check and is past the limit when it commits was overtaken by a commit of
\* the same user; a day comes to hold more than 8 hours, or more than it held,
\* only by the commit of such a request, or of one that did not check the day
\* (activity.py:85, 113-127).
PassedTheLimit ==
    [][/\ \A r \in Requests :
            /\ pc'[r] = "commit" /\ (pc[r] = "commit" => WithinLimit(r)) /\ ~WithinLimit(r)'
            => \E q \in Requests \ {r} : Commits(q) /\ job[q].user = job[r].user
       /\ \A u \in Users, d \in Dates :
            /\ Booked(worklogs', u, d) > DailyLimitTenths
            /\ Booked(worklogs', u, d) > Booked(worklogs, u, d)
            => \E r \in Requests :
                 /\ Commits(r) /\ job[r].user = u
                 /\ d \in AffectedDates(Batch(r)) => ~WithinLimit(r)]_vars

\* A worklog that lost its task is not deleted by a later batch, unless that
\* batch also gives it a task again: deleting it fails the whole batch
\* (activity.py:109, domain/worklog.py:17).
OrphansStay ==
    [][\A w \in LogId :
         worklogs[w] # NoRow /\ worklogs[w].task = Null /\ worklogs'[w] = NoRow
            => \E r \in Requests : /\ pc[r] = "commit" /\ pc'[r] = "idle"
                                  /\ \E c \in ToUpsert(Batch(r)) : Cell(Batch(r), c).id = w]_vars

\* Every worklog belongs to a task: deleting a task deletes its worklogs
\* (models.py:131, cascade="all, delete-orphan").
NoOrphans == \A w \in LogId : worklogs[w] # NoRow => worklogs[w].task # Null

\* A batch that only deletes tasks, which the DTO's defaults allow, passes the
\* limit check: it books nothing (dto/activity.py:54, api/v1/activity.py:112).
DeletionsSucceed ==
    [][\A r \in Requests :
         pc[r] = "check_limit" /\ Batch(r).tasks = << >> => pc'[r] # "rollback"]_vars

\* Every request is answered, also when transactions wait for each other.
Answered == \A r \in Requests : pc[r] # "idle" ~> pc[r] = "idle"

=============================================================================
