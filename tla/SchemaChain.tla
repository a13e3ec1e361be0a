---------------------------- MODULE SchemaChain ----------------------------
(***************************************************************************)
(* What the chain of revisions is for: every version has one schema.  A    *)
(* schema is given here by the versions between which each column,         *)
(* constraint and type is there, apart from the revisions that lead to it; *)
(* that of the last version is what src/app/models.py declares.            *)
(***************************************************************************)
EXTENDS Revisions

\* Absent before version "from", required from then on, nullable from "until" on.
Since(v, from, until) == IF v < from THEN "absent" ELSE IF v < until THEN "required" ELSE "nullable"

ColumnAt(v, c) ==
    IF c = "activities.expected_hours_monthly" THEN IF v \in 1 .. 7 THEN "required" ELSE "absent"
    ELSE IF c = "activity_tasks.user_id" THEN Since(v, 2, 6)
    ELSE IF c = "worklogs.activity_task_id" THEN Since(v, 1, 10)
    ELSE Since(v, 1, 6)

During(v, from, until, x) == IF v \in from .. until THEN {x} ELSE {}

UniquesAt(v) ==
    During(v, 1, 2, TitleKey) \cup During(v, 2, 3, ActivityTaskTitle)
      \cup During(v, 4, 6, ActivityIdUserId) \cup During(v, 5, 10, UserTaskDate)
      \cup During(v, 7, 8, TitleUserId) \cup During(v, 9, 10, TitleActivityId)

LogTask == Fkey("worklogs.activity_task_id", "SET NULL")
TaskUser == Fkey("activity_tasks.user_id", "SET NULL")
TaskActivity == Fkey("activity_tasks.activity_id", "CASCADE")
TaskActivityNull == Fkey("activity_tasks.activity_id", "SET NULL")

FkeysAt(v) ==
    During(v, 1, 10, LogTask) \cup During(v, 2, 10, TaskUser)
      \cup During(v, 1, 5, TaskActivity) \cup During(v, 6, 10, TaskActivityNull)

DurationAt(v) ==
    IF v = 0 THEN "absent" ELSE IF v = 1 THEN "smallint"
    ELSE IF v = 2 THEN "numeric(1,0)" ELSE "numeric(3,1)"

SchemaAt(v) == Schema("ok", [c \in Columns |-> ColumnAt(v, c)], UniquesAt(v), FkeysAt(v), DurationAt(v))

\* The schema of the models, of which Revisions keeps what some revision changes.
ModelsSchema ==
    Schema("ok", [c \in Columns |->
                    IF c = "activities.expected_hours_monthly" THEN "absent" ELSE "nullable"],
           {TitleActivityId, UserTaskDate},
           {TaskActivityNull, TaskUser, LogTask},
           "numeric(3,1)")

=============================================================================
