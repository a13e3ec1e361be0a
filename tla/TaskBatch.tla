----------------------------- MODULE TaskBatch -----------------------------
(***************************************************************************)
(* A worklog batch, the body of POST /worklog-batch (TaskBatchDto in       *)
(* src/app/dto/activity.py), and the parts of it that                      *)
(* ActivityService.batch_worklog computes before and between its           *)
(* statements: which cells are written, which are cleared, and which dates *)
(* the daily limit is checked for.                                         *)
(***************************************************************************)
EXTENDS TrackerTables, Sequences

\* One cell of the sheet.  Its duration is in hundredths of an hour; 0 also
\* stands for an omitted duration, which the validator allows with an id only.
WorklogDto == [id : LogId \cup {Null}, date : Dates, duration : Nat]

UpsertActivityTask ==
    [id : TaskId \cup {Null}, title : Titles, activity : ActivityIds, worklogs : Seq(WorklogDto)]

TaskBatchDto == [deletions : (SUBSET TaskId) \cup {Null}, tasks : Seq(UpsertActivityTask)]

\* The cells of a batch are numbered <<task, worklog>> in the order the two
\* nested loops visit them.
Cells(b) == UNION {{<<k, j>> : j \in DOMAIN b.tasks[k].worklogs} : k \in DOMAIN b.tasks}

Cell(b, c) == b.tasks[c[1]].worklogs[c[2]]

Before(c, d) == c[1] < d[1] \/ (c[1] = d[1] /\ c[2] < d[2])

\* An existing worklog sent with no duration, or a zero one, is deleted.
Clears(item) == item.id # Null /\ item.duration = 0

ToUpsert(b) == {c \in Cells(b) : ~Clears(Cell(b, c))}

ToDelete(b) == {Cell(b, c).id : c \in {d \in Cells(b) : Clears(Cell(b, d))}}

\* affected_dates is assigned anew for every task: after the loop it holds the
\* dates of the last one.  Without a task it is not bound at all.
AffectedDates(b) ==
    LET last == b.tasks[Len(b.tasks)]
    IN  {last.worklogs[j].date : j \in DOMAIN last.worklogs}

\* The ids a batch names.
NamedTasks(b) ==
    ({b.tasks[k].id : k \in DOMAIN b.tasks}
        \cup (IF b.deletions = Null THEN {} ELSE b.deletions)) \ {Null}

NamedLogs(b) == {Cell(b, c).id : c \in Cells(b)} \ {Null}

\* The tasks and the cells of a batch that get an id of their own.
NewTasks(b) == {k \in DOMAIN b.tasks : b.tasks[k].id = Null}

NewLogs(b) == {c \in ToUpsert(b) : Cell(b, c).id = Null}

=============================================================================
