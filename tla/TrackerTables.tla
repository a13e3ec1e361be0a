--------------------------- MODULE TrackerTables ---------------------------
(***************************************************************************)
(* The two tables the tracker's core endpoint writes, activity_tasks and   *)
(* worklogs (src/app/models.py), as values: what a row holds, the          *)
(* constraints PostgreSQL enforces on a table, and the hours a user has    *)
(* booked on a date.  A table is a function from ids to rows; an id that   *)
(* has no row maps to NoRow.                                               *)
(***************************************************************************)
EXTENDS Integers, FiniteSets, FiniteSetsExt

CONSTANTS
    Users,        \* users.id
    ActivityIds,  \* the activity ids a client may send
    Activities,   \* the ones that have a row in activities
    TaskId,       \* activity_tasks.id
    LogId,        \* worklogs.id
    Titles,       \* activity_tasks.title
    Dates,        \* worklogs.date
    Null,         \* SQL NULL, and Python's None
    NoRow         \* "no row with this id"

\* Null and NoRow are markers, never an id or a row.
ASSUME TablesAssumption ==
    /\ Activities \subseteq ActivityIds
    /\ IsFiniteSet(LogId)
    /\ Null \notin TaskId \cup LogId
    /\ NoRow \notin [title : Titles, activity : Activities, user : Users]
    /\ NoRow \notin [date : Dates, duration : 10 .. 80, task : TaskId \cup {Null}, user : Users]
----------------------------------------------------------------------------
\* Durations are Numeric(3, 1): stored in tenths of an hour.  A client sends
\* a float, here in hundredths.

\* From half an hour on, the doubles around h hundredths lie 2^-k apart: 2^k
\* modulo 100.
Spacing(h) ==
    CASE h < 100 -> 92 [] h \in 100 .. 199 -> 96 [] h \in 200 .. 399 -> 48
      [] h \in 400 .. 799 -> 24 [] OTHER -> 12

\* The double nearest to h hundredths is less than that.
SentBelow(h) == (h * Spacing(h)) % 100 \in 1 .. 49

\* The driver sends the exact value of the double and the column rounds it, a
\* half up: a decimal half goes down where the double is below it (0.95, 1.15),
\* and up elsewhere (1.05, 1.25).
Stored(h) ==
    IF h % 10 = 5 /\ SentBelow(h) THEN h \div 10 ELSE (h + 5) \div 10

\* A mutant of DurationAllowed: no lower bound.
MutantDurationAllowed(tenths) == tenths \in 0 .. 80

\* CHECK (duration >= 1 AND duration <= 8), on the stored value.
DurationAllowed(tenths) == tenths \in 10 .. 80

DailyLimitTenths == 80

TaskRow == [title : Titles, activity : Activities, user : Users]

LogRow == [date : Dates, duration : 10 .. 80, task : TaskId \cup {Null}, user : Users]

TaskTable == [TaskId -> TaskRow \cup {NoRow}]

LogTable == [LogId -> LogRow \cup {NoRow}]

\* uq_title_activity_id
TaskKey(row) == <<row.title, row.activity>>

\* uq_user_activity_task_date; PostgreSQL never matches a key with a NULL.
LogKey(row) == <<row.task, row.user, row.date>>

\* Foreign key worklogs.activity_task_id -> activity_tasks.id.
References(logs, tsks) ==
    \A w \in LogId : logs[w] # NoRow /\ logs[w].task # Null => tsks[logs[w].task] # NoRow

DistinctTasks(tsks) ==
    \A s, t \in TaskId : s # t /\ tsks[s] # NoRow /\ tsks[t] # NoRow
                            => TaskKey(tsks[s]) # TaskKey(tsks[t])

DistinctLogs(logs) ==
    \A v, w \in LogId : v # w /\ logs[v] # NoRow /\ logs[w] # NoRow /\ logs[v].task # Null
                            => LogKey(logs[v]) # LogKey(logs[w])

\* SELECT sum(duration) FROM worklogs WHERE user_id = u AND date = d; rows
\* whose task is gone count as well.
Booked(logs, u, d) ==
    MapThenSumSet(LAMBDA w : logs[w].duration,
                  {w \in LogId : logs[w] # NoRow /\ logs[w].user = u /\ logs[w].date = d})

=============================================================================
