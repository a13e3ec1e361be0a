----------------------------- MODULE Revisions -----------------------------
(***************************************************************************)
(* The ten revisions of src/migrations/versions, as changes of the schema, *)
(* and the rows a schema allows.  Of the schema only what some revision    *)
(* changes is kept: six columns, the unique constraints and foreign keys   *)
(* of activity_tasks and worklogs, and the type of worklogs.duration.      *)
(***************************************************************************)
EXTENDS Integers

CONSTANTS ActivityId, TaskId, LogId, Users, Titles, Dates, Null, NoRow

HeadVersion == 10   \* 967828c46e3f

Columns == {"activities.expected_hours_monthly",
            "activity_tasks.activity_id", "activity_tasks.user_id",
            "activity_users.user_id", "activity_users.activity_id",
            "worklogs.activity_task_id"}

Tables == {"activities", "activity_tasks", "activity_users", "worklogs"}

\* The status "refused" is that of a schema that a change could not be made to:
\* PostgreSQL then undoes the whole transaction.
Schema(status, columns, uniques, fkeys, duration) ==
    [status |-> status, columns |-> columns, uniques |-> uniques, fkeys |-> fkeys,
     duration |-> duration]

EmptySchema == Schema("ok", [c \in Columns |-> "absent"], {}, {}, "absent")

Created(s) == s.duration # "absent"

Unique(name, table, cols) == [name |-> name, table |-> table, columns |-> cols]

\* A foreign key that is created without a name takes PostgreSQL's name for it.
Fkey(column, ondelete) == [column |-> column, ondelete |-> ondelete]

(***************************************************************************)
(* The operations of alembic.op on a schema s.                             *)
(***************************************************************************)
If(s, possible) == IF possible THEN s.status ELSE "refused"

ChangeColumn(s, c, before, after) ==
    Schema(If(s, s.columns[c] \in before), [s.columns EXCEPT ![c] = after],
           s.uniques, s.fkeys, s.duration)
Present == {"required", "nullable"}
AddColumn(s, c) == ChangeColumn(s, c, {"absent"}, "required")
DropColumn(s, c) == ChangeColumn(s, c, Present, "absent")
MakeNullable(s, c) == ChangeColumn(s, c, Present, "nullable")
MakeRequired(s, c) == ChangeColumn(s, c, Present, "required")

AddUnique(s, u) ==
    Schema(If(s, \A w \in s.uniques : w.name # u.name),
           s.columns, s.uniques \cup {u}, s.fkeys, s.duration)
DropUnique(s, name) ==
    Schema(If(s, \E u \in s.uniques : u.name = name),
           s.columns, {u \in s.uniques : u.name # name}, s.fkeys, s.duration)
AddFkey(s, k) ==
    Schema(If(s, \A l \in s.fkeys : l.column # k.column),
           s.columns, s.uniques, s.fkeys \cup {k}, s.duration)
DropFkey(s, c) ==
    Schema(If(s, \E k \in s.fkeys : k.column = c),
           s.columns, s.uniques, {k \in s.fkeys : k.column # c}, s.duration)
DropUnnamed(s) == Schema("refused", s.columns, s.uniques, s.fkeys, s.duration) \* drop_constraint(None, ...)
SetDuration(s, type) == Schema(s.status, s.columns, s.uniques, s.fkeys, type)

TitleKey == Unique("activity_tasks_title_key", "activity_tasks", {"title"})
ActivityTaskTitle == Unique("uq_activity_task_title", "activity_tasks", {"activity_id", "title"})
ActivityIdUserId == Unique("uq_activity_id_user_id", "activity_tasks", {"activity_id", "user_id"})
TitleUserId == Unique("uq_title_user_id", "activity_tasks", {"title", "user_id"})
TitleActivityId == Unique("uq_title_activity_id", "activity_tasks", {"title", "activity_id"})
UserTaskDate == Unique("uq_user_activity_task_date", "worklogs",
                       {"activity_task_id", "user_id", "date"})

(***************************************************************************)
(* The revisions, in the order of their down_revision.                     *)
(***************************************************************************)
Upgrade_c2d9b55b6856(s) ==
    Schema(If(s, ~Created(s)),
           [c \in Columns |-> IF c = "activity_tasks.user_id" THEN "absent" ELSE "required"],
           {TitleKey},
           {Fkey("activity_tasks.activity_id", "CASCADE"), Fkey("worklogs.activity_task_id", "SET NULL")},
           "smallint")
Downgrade_c2d9b55b6856(s) == Schema(If(s, Created(s)), [c \in Columns |-> "absent"], {}, {}, "absent")

Upgrade_21ce19e90146(s) ==
    LET s1 == AddColumn(s, "activity_tasks.user_id")
        s2 == AddUnique(s1, ActivityTaskTitle)
        s3 == AddFkey(s2, Fkey("activity_tasks.user_id", "SET NULL"))
    IN  SetDuration(s3, "numeric(1,0)")
Downgrade_21ce19e90146(s) ==
    LET s1 == SetDuration(s, "smallint")
        s2 == DropUnnamed(s1)
        s3 == DropUnique(s2, "uq_activity_task_title")
    IN  DropColumn(s3, "activity_tasks.user_id")

Upgrade_b807c46724da(s) == SetDuration(DropUnique(s, "activity_tasks_title_key"), "numeric(3,1)")
Downgrade_b807c46724da(s) == AddUnique(SetDuration(s, "numeric(1,0)"), TitleKey)

Upgrade_096a9ef46a20(s) == AddUnique(DropUnique(s, "uq_activity_task_title"), ActivityIdUserId)
Downgrade_096a9ef46a20(s) == AddUnique(DropUnique(s, "uq_activity_id_user_id"), ActivityTaskTitle)

Upgrade_b707471af2d6(s) == AddUnique(s, UserTaskDate)
Downgrade_b707471af2d6(s) == DropUnique(s, "uq_user_activity_task_date")

Upgrade_49987cbed3c3(s) ==
    LET s1 == MakeNullable(MakeNullable(s, "activity_tasks.activity_id"), "activity_tasks.user_id")
        s2 == DropFkey(s1, "activity_tasks.activity_id")
        s3 == AddFkey(s2, Fkey("activity_tasks.activity_id", "SET NULL"))
    IN  MakeNullable(MakeNullable(s3, "activity_users.user_id"), "activity_users.activity_id")
Downgrade_49987cbed3c3(s) ==
    LET s1 == MakeRequired(MakeRequired(s, "activity_users.activity_id"), "activity_users.user_id")
        s2 == DropUnnamed(s1)
        s3 == AddFkey(s2, Fkey("activity_tasks.activity_id", "CASCADE"))
    IN  MakeRequired(MakeRequired(s3, "activity_tasks.user_id"), "activity_tasks.activity_id")

Upgrade_c1c963e4f75d(s) == AddUnique(DropUnique(s, "uq_activity_id_user_id"), TitleUserId)
\* Mutant: the constraint of the version before is not made again.
Downgrade_c1c963e4f75d_Half(s) == DropUnique(s, "uq_title_user_id")
Downgrade_c1c963e4f75d(s) == AddUnique(DropUnique(s, "uq_title_user_id"), ActivityIdUserId)

Upgrade_13d08d795146(s) == DropColumn(s, "activities.expected_hours_monthly")
Downgrade_13d08d795146(s) == AddColumn(s, "activities.expected_hours_monthly")

\* Mutant: the type of durations is set back to whole hours.
Upgrade_77d81d86ad07_Whole(s) ==
    SetDuration(AddUnique(DropUnique(s, "uq_title_user_id"), TitleActivityId), "numeric(1,0)")
Upgrade_77d81d86ad07(s) == AddUnique(DropUnique(s, "uq_title_user_id"), TitleActivityId)
Downgrade_77d81d86ad07(s) == AddUnique(DropUnique(s, "uq_title_activity_id"), TitleUserId)

\* Mutant: the revision was generated before the model changed.
Upgrade_967828c46e3f_Empty(s) == s
Upgrade_967828c46e3f(s) == MakeNullable(s, "worklogs.activity_task_id")
Downgrade_967828c46e3f(s) == MakeRequired(s, "worklogs.activity_task_id")

\* Revision v, made and undone.
Upgrade(v, s) ==
    IF v = 1 THEN Upgrade_c2d9b55b6856(s)
    ELSE IF v = 2 THEN Upgrade_21ce19e90146(s)
    ELSE IF v = 3 THEN Upgrade_b807c46724da(s)
    ELSE IF v = 4 THEN Upgrade_096a9ef46a20(s)
    ELSE IF v = 5 THEN Upgrade_b707471af2d6(s)
    ELSE IF v = 6 THEN Upgrade_49987cbed3c3(s)
    ELSE IF v = 7 THEN Upgrade_c1c963e4f75d(s)
    ELSE IF v = 8 THEN Upgrade_13d08d795146(s)
    ELSE IF v = 9 THEN Upgrade_77d81d86ad07(s)
    ELSE Upgrade_967828c46e3f(s)

Downgrade(v, s) ==
    IF v = 1 THEN Downgrade_c2d9b55b6856(s)
    ELSE IF v = 2 THEN Downgrade_21ce19e90146(s)
    ELSE IF v = 3 THEN Downgrade_b807c46724da(s)
    ELSE IF v = 4 THEN Downgrade_096a9ef46a20(s)
    ELSE IF v = 5 THEN Downgrade_b707471af2d6(s)
    ELSE IF v = 6 THEN Downgrade_49987cbed3c3(s)
    ELSE IF v = 7 THEN Downgrade_c1c963e4f75d(s)
    ELSE IF v = 8 THEN Downgrade_13d08d795146(s)
    ELSE IF v = 9 THEN Downgrade_77d81d86ad07(s)
    ELSE Downgrade_967828c46e3f(s)

=============================================================================
