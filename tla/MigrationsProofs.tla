-------------------------- MODULE MigrationsProofs --------------------------
(***************************************************************************)
(* Proofs about deployments.  Each revision is shown to lead from the      *)
(* schema of one version to that of the next, so that runs of alembic,     *)
(* which wait for one another at alembic_version, keep the schema that of  *)
(* the version.                                                            *)
(***************************************************************************)
EXTENDS DeploymentProperties, TLAPS

(***************************************************************************)
(* The schema of each version.                                             *)
(***************************************************************************)

\* The names of the unique constraints differ.
LEMMA Names ==
  /\ TitleKey.name = "activity_tasks_title_key"
  /\ ActivityTaskTitle.name = "uq_activity_task_title"
  /\ ActivityIdUserId.name = "uq_activity_id_user_id"
  /\ TitleUserId.name = "uq_title_user_id"
  /\ TitleActivityId.name = "uq_title_activity_id"
  /\ UserTaskDate.name = "uq_user_activity_task_date"
  BY DEF TitleKey, ActivityTaskTitle, ActivityIdUserId, TitleUserId, TitleActivityId, UserTaskDate, Unique

\* The unique constraints of each version, listed.
LEMMA UniquesByVersion ==
  /\ UniquesAt(0) = {}
  /\ UniquesAt(1) = {TitleKey}
  /\ UniquesAt(2) = {TitleKey, ActivityTaskTitle}
  /\ UniquesAt(3) = {ActivityTaskTitle}
  /\ UniquesAt(4) = {ActivityIdUserId}
  /\ UniquesAt(5) = {ActivityIdUserId, UserTaskDate}
  /\ UniquesAt(6) = {ActivityIdUserId, UserTaskDate}
  /\ UniquesAt(7) = {TitleUserId, UserTaskDate}
  /\ UniquesAt(8) = {TitleUserId, UserTaskDate}
  /\ UniquesAt(9) = {TitleActivityId, UserTaskDate}
  /\ UniquesAt(10) = {TitleActivityId, UserTaskDate}
  BY DEF UniquesAt, During


\* The columns of version v.
ColumnsAt(v) == [c \in Columns |-> ColumnAt(v, c)]

\* Two versions whose columns agree except in one.
LEMMA ColumnsDiffer ==
  ASSUME NEW v, NEW w, NEW x \in Columns, NEW after, ColumnAt(v, x) = after,
         \A c \in Columns \ {x} : ColumnAt(v, c) = ColumnAt(w, c)
  PROVE  ColumnsAt(v) = [ColumnsAt(w) EXCEPT ![x] = after]
  BY DEF ColumnsAt

\* What each revision that changes at most one column makes of the columns.
LEMMA ColumnsByVersion ==
  /\ ColumnsAt(2) = [ColumnsAt(1) EXCEPT !["activity_tasks.user_id"] = "required"]
  /\ ColumnsAt(3) = ColumnsAt(2) /\ ColumnsAt(4) = ColumnsAt(3) /\ ColumnsAt(5) = ColumnsAt(4)
  /\ ColumnsAt(7) = ColumnsAt(6) /\ ColumnsAt(9) = ColumnsAt(8)
  /\ ColumnsAt(8) = [ColumnsAt(7) EXCEPT !["activities.expected_hours_monthly"] = "absent"]
  /\ ColumnsAt(7) = [ColumnsAt(8) EXCEPT !["activities.expected_hours_monthly"] = "required"]
  /\ ColumnsAt(10) = [ColumnsAt(9) EXCEPT !["worklogs.activity_task_id"] = "nullable"]
  /\ ColumnsAt(9) = [ColumnsAt(10) EXCEPT !["worklogs.activity_task_id"] = "required"]
<1> USE DEF ColumnAt, Since, Columns
<1>1. ColumnsAt(2) = [ColumnsAt(1) EXCEPT !["activity_tasks.user_id"] = "required"]
  BY ColumnsDiffer
<1>2. /\ ColumnsAt(3) = ColumnsAt(2) /\ ColumnsAt(4) = ColumnsAt(3) /\ ColumnsAt(5) = ColumnsAt(4)
      /\ ColumnsAt(7) = ColumnsAt(6) /\ ColumnsAt(9) = ColumnsAt(8)
  BY DEF ColumnsAt
<1>3. ColumnsAt(8) = [ColumnsAt(7) EXCEPT !["activities.expected_hours_monthly"] = "absent"]
  BY ColumnsDiffer
<1>4. ColumnsAt(7) = [ColumnsAt(8) EXCEPT !["activities.expected_hours_monthly"] = "required"]
  BY ColumnsDiffer
<1>5. ColumnsAt(10) = [ColumnsAt(9) EXCEPT !["worklogs.activity_task_id"] = "nullable"]
  BY ColumnsDiffer
<1>6. ColumnsAt(9) = [ColumnsAt(10) EXCEPT !["worklogs.activity_task_id"] = "required"]
  BY ColumnsDiffer
<1> QED  BY <1>1, <1>2, <1>3, <1>4, <1>5, <1>6

\* The foreign keys of versions 2 to 5, and of those from 6 on.
Keys5 == {LogTask, TaskUser, TaskActivity}
Keys10 == {LogTask, TaskUser, TaskActivityNull}

\* The schema of each version, with its parts listed.
LEMMA Schemas ==
  /\ SchemaAt(0) = Schema("ok", ColumnsAt(0), {}, {}, "absent")
  /\ SchemaAt(1) = Schema("ok", ColumnsAt(1), {TitleKey}, {LogTask, TaskActivity}, "smallint")
  /\ SchemaAt(2) = Schema("ok", ColumnsAt(2), {TitleKey, ActivityTaskTitle}, Keys5, "numeric(1,0)")
  /\ SchemaAt(3) = Schema("ok", ColumnsAt(3), {ActivityTaskTitle}, Keys5, "numeric(3,1)")
  /\ SchemaAt(4) = Schema("ok", ColumnsAt(4), {ActivityIdUserId}, Keys5, "numeric(3,1)")
  /\ SchemaAt(5) = Schema("ok", ColumnsAt(5), {ActivityIdUserId, UserTaskDate}, Keys5, "numeric(3,1)")
  /\ SchemaAt(6) = Schema("ok", ColumnsAt(6), {ActivityIdUserId, UserTaskDate}, Keys10, "numeric(3,1)")
  /\ SchemaAt(7) = Schema("ok", ColumnsAt(7), {TitleUserId, UserTaskDate}, Keys10, "numeric(3,1)")
  /\ SchemaAt(8) = Schema("ok", ColumnsAt(8), {TitleUserId, UserTaskDate}, Keys10, "numeric(3,1)")
  /\ SchemaAt(9) = Schema("ok", ColumnsAt(9), {TitleActivityId, UserTaskDate}, Keys10, "numeric(3,1)")
  /\ SchemaAt(10) = Schema("ok", ColumnsAt(10), {TitleActivityId, UserTaskDate}, Keys10, "numeric(3,1)")
<1>0. SchemaAt(0) = Schema("ok", ColumnsAt(0), {}, {}, "absent")
  <2>1. FkeysAt(0) = {}
    BY DEF FkeysAt, During
  <2>2. DurationAt(0) = "absent"
    BY DEF DurationAt
  <2> QED  BY <2>1, <2>2, UniquesByVersion DEF SchemaAt, ColumnsAt
<1>1. SchemaAt(1) = Schema("ok", ColumnsAt(1), {TitleKey}, {LogTask, TaskActivity}, "smallint")
  <2>1. FkeysAt(1) = {LogTask, TaskActivity}
    BY DEF FkeysAt, During
  <2>2. DurationAt(1) = "smallint"
    BY DEF DurationAt
  <2> QED  BY <2>1, <2>2, UniquesByVersion DEF SchemaAt, ColumnsAt
<1>2. SchemaAt(2) = Schema("ok", ColumnsAt(2), {TitleKey, ActivityTaskTitle}, Keys5, "numeric(1,0)")
  <2>1. FkeysAt(2) = Keys5
    BY DEF FkeysAt, During, Keys5
  <2>2. DurationAt(2) = "numeric(1,0)"
    BY DEF DurationAt
  <2> QED  BY <2>1, <2>2, UniquesByVersion DEF SchemaAt, ColumnsAt
<1>3. SchemaAt(3) = Schema("ok", ColumnsAt(3), {ActivityTaskTitle}, Keys5, "numeric(3,1)")
  <2>1. FkeysAt(3) = Keys5
    BY DEF FkeysAt, During, Keys5
  <2>2. DurationAt(3) = "numeric(3,1)"
    BY DEF DurationAt
  <2> QED  BY <2>1, <2>2, UniquesByVersion DEF SchemaAt, ColumnsAt
<1>4. SchemaAt(4) = Schema("ok", ColumnsAt(4), {ActivityIdUserId}, Keys5, "numeric(3,1)")
  <2>1. FkeysAt(4) = Keys5
    BY DEF FkeysAt, During, Keys5
  <2>2. DurationAt(4) = "numeric(3,1)"
    BY DEF DurationAt
  <2> QED  BY <2>1, <2>2, UniquesByVersion DEF SchemaAt, ColumnsAt
<1>5. SchemaAt(5) = Schema("ok", ColumnsAt(5), {ActivityIdUserId, UserTaskDate}, Keys5, "numeric(3,1)")
  <2>1. FkeysAt(5) = Keys5
    BY DEF FkeysAt, During, Keys5
  <2>2. DurationAt(5) = "numeric(3,1)"
    BY DEF DurationAt
  <2> QED  BY <2>1, <2>2, UniquesByVersion DEF SchemaAt, ColumnsAt
<1>6. SchemaAt(6) = Schema("ok", ColumnsAt(6), {ActivityIdUserId, UserTaskDate}, Keys10, "numeric(3,1)")
  <2>1. FkeysAt(6) = Keys10
    BY DEF FkeysAt, During, Keys10
  <2>2. DurationAt(6) = "numeric(3,1)"
    BY DEF DurationAt
  <2> QED  BY <2>1, <2>2, UniquesByVersion DEF SchemaAt, ColumnsAt
<1>7. SchemaAt(7) = Schema("ok", ColumnsAt(7), {TitleUserId, UserTaskDate}, Keys10, "numeric(3,1)")
  <2>1. FkeysAt(7) = Keys10
    BY DEF FkeysAt, During, Keys10
  <2>2. DurationAt(7) = "numeric(3,1)"
    BY DEF DurationAt
  <2> QED  BY <2>1, <2>2, UniquesByVersion DEF SchemaAt, ColumnsAt
<1>8. SchemaAt(8) = Schema("ok", ColumnsAt(8), {TitleUserId, UserTaskDate}, Keys10, "numeric(3,1)")
  <2>1. FkeysAt(8) = Keys10
    BY DEF FkeysAt, During, Keys10
  <2>2. DurationAt(8) = "numeric(3,1)"
    BY DEF DurationAt
  <2> QED  BY <2>1, <2>2, UniquesByVersion DEF SchemaAt, ColumnsAt
<1>9. SchemaAt(9) = Schema("ok", ColumnsAt(9), {TitleActivityId, UserTaskDate}, Keys10, "numeric(3,1)")
  <2>1. FkeysAt(9) = Keys10
    BY DEF FkeysAt, During, Keys10
  <2>2. DurationAt(9) = "numeric(3,1)"
    BY DEF DurationAt
  <2> QED  BY <2>1, <2>2, UniquesByVersion DEF SchemaAt, ColumnsAt
<1>10. SchemaAt(10) = Schema("ok", ColumnsAt(10), {TitleActivityId, UserTaskDate}, Keys10, "numeric(3,1)")
  <2>1. FkeysAt(10) = Keys10
    BY DEF FkeysAt, During, Keys10
  <2>2. DurationAt(10) = "numeric(3,1)"
    BY DEF DurationAt
  <2> QED  BY <2>1, <2>2, UniquesByVersion DEF SchemaAt, ColumnsAt
<1> QED  BY <1>0, <1>1, <1>2, <1>3, <1>4, <1>5, <1>6, <1>7, <1>8, <1>9, <1>10

\* 49987cbed3c3 makes four columns nullable.
LEMMA ColumnsMadeNullable ==
  ColumnsAt(6) = [[[[ColumnsAt(5) EXCEPT !["activity_tasks.activity_id"] = "nullable"]
                      EXCEPT !["activity_tasks.user_id"] = "nullable"]
                      EXCEPT !["activity_users.user_id"] = "nullable"]
                      EXCEPT !["activity_users.activity_id"] = "nullable"]
  BY DEF ColumnsAt, ColumnAt, Since, Columns

\* The columns of the foreign keys.
LEMMA FkeyColumns ==
  /\ LogTask.column = "worklogs.activity_task_id"
  /\ TaskUser.column = "activity_tasks.user_id"
  /\ TaskActivity.column = "activity_tasks.activity_id"
  /\ TaskActivityNull.column = "activity_tasks.activity_id"
  BY DEF LogTask, TaskUser, TaskActivity, TaskActivityNull, Fkey

(***************************************************************************)
(* The revisions.                                                          *)
(***************************************************************************)
\* c2d9b55b6856 leads from version 0 to version 1.
LEMMA Upgrade1 == Upgrade_c2d9b55b6856(SchemaAt(0)) = SchemaAt(1)
<1> DEFINE s0 == Schema("ok", ColumnsAt(0), {}, {}, "absent")
<1>1. SchemaAt(0) = s0
  BY Schemas
<1>2. If(s0, ~Created(s0)) = "ok"
  BY DEF Created, Schema, If
<1>3. ColumnsAt(1) = [c \in Columns |-> IF c = "activity_tasks.user_id" THEN "absent" ELSE "required"]
  BY DEF ColumnsAt, ColumnAt, Since, Columns
<1>4. {TaskActivity, LogTask} = {LogTask, TaskActivity}
  OBVIOUS
<1>5. Upgrade_c2d9b55b6856(s0) = Schema("ok", ColumnsAt(1), {TitleKey}, {LogTask, TaskActivity}, "smallint")
  <2> HIDE DEF s0
  <2> QED  BY <1>2, <1>3, <1>4 DEF Upgrade_c2d9b55b6856, LogTask, TaskActivity
<1> QED  BY <1>1, <1>5, Schemas

\* 21ce19e90146 leads from version 1 to version 2.
LEMMA Upgrade2 == Upgrade_21ce19e90146(SchemaAt(1)) = SchemaAt(2)
<1> DEFINE u0 == {TitleKey}
           f0 == {LogTask, TaskActivity}
           u1 == {TitleKey, ActivityTaskTitle}
           s0 == SchemaAt(1)
           s1 == AddColumn(s0, "activity_tasks.user_id")
           s2 == AddUnique(s1, ActivityTaskTitle)
           s3 == AddFkey(s2, TaskUser)
           s4 == SetDuration(s3, "numeric(1,0)")
<1>0. s0 = Schema("ok", ColumnsAt(1), u0, f0, "smallint")
  BY Schemas
<1>1. s1 = Schema("ok", ColumnsAt(2), u0, f0, "smallint")
  <2>1. ColumnsAt(1)["activity_tasks.user_id"] \in {"absent"}
    BY DEF ColumnsAt, ColumnAt, Since, Columns
  <2>2. ColumnsAt(2) = [ColumnsAt(1) EXCEPT !["activity_tasks.user_id"] = "required"]
    BY ColumnsByVersion
  <2> HIDE DEF s0, u0, f0, u1
  <2> QED  BY <1>0, <2>1, <2>2 DEF If, Schema, ChangeColumn, AddColumn
<1>2. s2 = Schema("ok", ColumnsAt(2), u1, f0, "smallint")
  <2>1. u1 = u0 \cup {ActivityTaskTitle}
    OBVIOUS
  <2>2. \A w \in u0 : w.name # ActivityTaskTitle.name
    BY Names
  <2> HIDE DEF s1, u0, f0, u1
  <2> QED  BY <1>1, <2>1, <2>2 DEF AddUnique, If, Schema
<1>3. s3 = Schema("ok", ColumnsAt(2), u1, Keys5, "smallint")
  <2>1. Keys5 = f0 \cup {TaskUser}
    BY DEF Keys5, Keys10
  <2>2. \A l \in f0 : l.column # TaskUser.column
    BY FkeyColumns DEF Keys5, Keys10
  <2> HIDE DEF s2, u0, f0, u1
  <2> QED  BY <1>2, <2>1, <2>2 DEF AddFkey, If, Schema
<1>4. s4 = Schema("ok", ColumnsAt(2), u1, Keys5, "numeric(1,0)")
  <2> HIDE DEF s3, u0, f0, u1
  <2> QED  BY <1>3 DEF SetDuration, Schema
<1>5. SchemaAt(2) = Schema("ok", ColumnsAt(2), u1, Keys5, "numeric(1,0)")
  BY Schemas
<1>6. s4 = SchemaAt(2)
  <2> HIDE DEF s4, u0, f0, u1
  <2> QED  BY <1>4, <1>5
<1> QED  BY <1>6 DEF Upgrade_21ce19e90146, TaskUser, TaskActivity, TaskActivityNull

\* b807c46724da leads from version 2 to version 3.
LEMMA Upgrade3 == Upgrade_b807c46724da(SchemaAt(2)) = SchemaAt(3)
<1> DEFINE u0 == {TitleKey, ActivityTaskTitle}
           u1 == {ActivityTaskTitle}
           s0 == SchemaAt(2)
           s1 == DropUnique(s0, "activity_tasks_title_key")
           s2 == SetDuration(s1, "numeric(3,1)")
<1>0. s0 = Schema("ok", ColumnsAt(2), u0, Keys5, "numeric(1,0)")
  BY Schemas
<1>1. s1 = Schema("ok", ColumnsAt(2), u1, Keys5, "numeric(1,0)")
  <2>1. u1 = {w \in u0 : w.name # TitleKey.name}
    BY Names
  <2>2. TitleKey \in u0
    OBVIOUS
  <2> HIDE DEF s0, u0, u1
  <2> QED  BY <1>0, <2>1, <2>2, Names DEF DropUnique, If, Schema
<1>2. s2 = Schema("ok", ColumnsAt(2), u1, Keys5, "numeric(3,1)")
  <2> HIDE DEF s1, u0, u1
  <2> QED  BY <1>1 DEF SetDuration, Schema
<1>3. SchemaAt(3) = Schema("ok", ColumnsAt(3), u1, Keys5, "numeric(3,1)")
  BY Schemas
<1>4. ColumnsAt(3) = ColumnsAt(2)
  BY ColumnsByVersion
<1>5. s2 = SchemaAt(3)
  <2> HIDE DEF s2, u0, u1
  <2> QED  BY <1>2, <1>3, <1>4
<1> QED  BY <1>5 DEF Upgrade_b807c46724da, TaskUser, TaskActivity, TaskActivityNull

\* The downgrade of b807c46724da leads back to version 2.
LEMMA Downgrade3 == Downgrade_b807c46724da(SchemaAt(3)) = SchemaAt(2)
<1> DEFINE u0 == {ActivityTaskTitle}
           u1 == {TitleKey, ActivityTaskTitle}
           s0 == SchemaAt(3)
           s1 == SetDuration(s0, "numeric(1,0)")
           s2 == AddUnique(s1, TitleKey)
<1>0. s0 = Schema("ok", ColumnsAt(3), u0, Keys5, "numeric(3,1)")
  BY Schemas
<1>1. s1 = Schema("ok", ColumnsAt(3), u0, Keys5, "numeric(1,0)")
  <2> HIDE DEF s0, u0, u1
  <2> QED  BY <1>0 DEF SetDuration, Schema
<1>2. s2 = Schema("ok", ColumnsAt(3), u1, Keys5, "numeric(1,0)")
  <2>1. u1 = u0 \cup {TitleKey}
    OBVIOUS
  <2>2. \A w \in u0 : w.name # TitleKey.name
    BY Names
  <2> HIDE DEF s1, u0, u1
  <2> QED  BY <1>1, <2>1, <2>2 DEF AddUnique, If, Schema
<1>3. SchemaAt(2) = Schema("ok", ColumnsAt(2), u1, Keys5, "numeric(1,0)")
  BY Schemas
<1>4. ColumnsAt(2) = ColumnsAt(3)
  BY ColumnsByVersion
<1>5. s2 = SchemaAt(2)
  <2> HIDE DEF s2, u0, u1
  <2> QED  BY <1>2, <1>3, <1>4
<1> QED  BY <1>5 DEF Downgrade_b807c46724da, TaskUser, TaskActivity, TaskActivityNull

\* 096a9ef46a20 leads from version 3 to version 4.
LEMMA Upgrade4 == Upgrade_096a9ef46a20(SchemaAt(3)) = SchemaAt(4)
<1> DEFINE u0 == {ActivityTaskTitle}
           u1 == {}
           u2 == {ActivityIdUserId}
           s0 == SchemaAt(3)
           s1 == DropUnique(s0, "uq_activity_task_title")
           s2 == AddUnique(s1, ActivityIdUserId)
<1>0. s0 = Schema("ok", ColumnsAt(3), u0, Keys5, "numeric(3,1)")
  BY Schemas
<1>1. s1 = Schema("ok", ColumnsAt(3), u1, Keys5, "numeric(3,1)")
  <2>1. u1 = {w \in u0 : w.name # ActivityTaskTitle.name}
    BY Names
  <2>2. ActivityTaskTitle \in u0
    OBVIOUS
  <2> HIDE DEF s0, u0, u1, u2
  <2> QED  BY <1>0, <2>1, <2>2, Names DEF DropUnique, If, Schema
<1>2. s2 = Schema("ok", ColumnsAt(3), u2, Keys5, "numeric(3,1)")
  <2>1. u2 = u1 \cup {ActivityIdUserId}
    OBVIOUS
  <2>2. \A w \in u1 : w.name # ActivityIdUserId.name
    BY Names
  <2> HIDE DEF s1, u0, u1, u2
  <2> QED  BY <1>1, <2>1, <2>2 DEF AddUnique, If, Schema
<1>3. SchemaAt(4) = Schema("ok", ColumnsAt(4), u2, Keys5, "numeric(3,1)")
  BY Schemas
<1>4. ColumnsAt(4) = ColumnsAt(3)
  BY ColumnsByVersion
<1>5. s2 = SchemaAt(4)
  <2> HIDE DEF s2, u0, u1, u2
  <2> QED  BY <1>2, <1>3, <1>4
<1> QED  BY <1>5 DEF Upgrade_096a9ef46a20, TaskUser, TaskActivity, TaskActivityNull

\* The downgrade of 096a9ef46a20 leads back to version 3.
LEMMA Downgrade4 == Downgrade_096a9ef46a20(SchemaAt(4)) = SchemaAt(3)
<1> DEFINE u0 == {ActivityIdUserId}
           u1 == {}
           u2 == {ActivityTaskTitle}
           s0 == SchemaAt(4)
           s1 == DropUnique(s0, "uq_activity_id_user_id")
           s2 == AddUnique(s1, ActivityTaskTitle)
<1>0. s0 = Schema("ok", ColumnsAt(4), u0, Keys5, "numeric(3,1)")
  BY Schemas
<1>1. s1 = Schema("ok", ColumnsAt(4), u1, Keys5, "numeric(3,1)")
  <2>1. u1 = {w \in u0 : w.name # ActivityIdUserId.name}
    BY Names
  <2>2. ActivityIdUserId \in u0
    OBVIOUS
  <2> HIDE DEF s0, u0, u1, u2
  <2> QED  BY <1>0, <2>1, <2>2, Names DEF DropUnique, If, Schema
<1>2. s2 = Schema("ok", ColumnsAt(4), u2, Keys5, "numeric(3,1)")
  <2>1. u2 = u1 \cup {ActivityTaskTitle}
    OBVIOUS
  <2>2. \A w \in u1 : w.name # ActivityTaskTitle.name
    BY Names
  <2> HIDE DEF s1, u0, u1, u2
  <2> QED  BY <1>1, <2>1, <2>2 DEF AddUnique, If, Schema
<1>3. SchemaAt(3) = Schema("ok", ColumnsAt(3), u2, Keys5, "numeric(3,1)")
  BY Schemas
<1>4. ColumnsAt(3) = ColumnsAt(4)
  BY ColumnsByVersion
<1>5. s2 = SchemaAt(3)
  <2> HIDE DEF s2, u0, u1, u2
  <2> QED  BY <1>2, <1>3, <1>4
<1> QED  BY <1>5 DEF Downgrade_096a9ef46a20, TaskUser, TaskActivity, TaskActivityNull

\* b707471af2d6 leads from version 4 to version 5.
LEMMA Upgrade5 == Upgrade_b707471af2d6(SchemaAt(4)) = SchemaAt(5)
<1> DEFINE u0 == {ActivityIdUserId}
           u1 == {ActivityIdUserId, UserTaskDate}
           s0 == SchemaAt(4)
           s1 == AddUnique(s0, UserTaskDate)
<1>0. s0 = Schema("ok", ColumnsAt(4), u0, Keys5, "numeric(3,1)")
  BY Schemas
<1>1. s1 = Schema("ok", ColumnsAt(4), u1, Keys5, "numeric(3,1)")
  <2>1. u1 = u0 \cup {UserTaskDate}
    OBVIOUS
  <2>2. \A w \in u0 : w.name # UserTaskDate.name
    BY Names
  <2> HIDE DEF s0, u0, u1
  <2> QED  BY <1>0, <2>1, <2>2 DEF AddUnique, If, Schema
<1>2. SchemaAt(5) = Schema("ok", ColumnsAt(5), u1, Keys5, "numeric(3,1)")
  BY Schemas
<1>3. ColumnsAt(5) = ColumnsAt(4)
  BY ColumnsByVersion
<1>4. s1 = SchemaAt(5)
  <2> HIDE DEF s1, u0, u1
  <2> QED  BY <1>1, <1>2, <1>3
<1> QED  BY <1>4 DEF Upgrade_b707471af2d6, TaskUser, TaskActivity, TaskActivityNull

\* The downgrade of b707471af2d6 leads back to version 4.
LEMMA Downgrade5 == Downgrade_b707471af2d6(SchemaAt(5)) = SchemaAt(4)
<1> DEFINE u0 == {ActivityIdUserId, UserTaskDate}
           u1 == {ActivityIdUserId}
           s0 == SchemaAt(5)
           s1 == DropUnique(s0, "uq_user_activity_task_date")
<1>0. s0 = Schema("ok", ColumnsAt(5), u0, Keys5, "numeric(3,1)")
  BY Schemas
<1>1. s1 = Schema("ok", ColumnsAt(5), u1, Keys5, "numeric(3,1)")
  <2>1. u1 = {w \in u0 : w.name # UserTaskDate.name}
    BY Names
  <2>2. UserTaskDate \in u0
    OBVIOUS
  <2> HIDE DEF s0, u0, u1
  <2> QED  BY <1>0, <2>1, <2>2, Names DEF DropUnique, If, Schema
<1>2. SchemaAt(4) = Schema("ok", ColumnsAt(4), u1, Keys5, "numeric(3,1)")
  BY Schemas
<1>3. ColumnsAt(4) = ColumnsAt(5)
  BY ColumnsByVersion
<1>4. s1 = SchemaAt(4)
  <2> HIDE DEF s1, u0, u1
  <2> QED  BY <1>1, <1>2, <1>3
<1> QED  BY <1>4 DEF Downgrade_b707471af2d6, TaskUser, TaskActivity, TaskActivityNull

\* 49987cbed3c3 leads from version 5 to version 6.
LEMMA Upgrade6 == Upgrade_49987cbed3c3(SchemaAt(5)) = SchemaAt(6)
<1> DEFINE u0 == {ActivityIdUserId, UserTaskDate}
           f0 == {LogTask, TaskUser}
           c1 == [ColumnsAt(5) EXCEPT !["activity_tasks.activity_id"] = "nullable"]
           c2 == [c1 EXCEPT !["activity_tasks.user_id"] = "nullable"]
           c3 == [c2 EXCEPT !["activity_users.user_id"] = "nullable"]
           c4 == [c3 EXCEPT !["activity_users.activity_id"] = "nullable"]
           s0 == SchemaAt(5)
           s1 == MakeNullable(s0, "activity_tasks.activity_id")
           s2 == MakeNullable(s1, "activity_tasks.user_id")
           s3 == DropFkey(s2, "activity_tasks.activity_id")
           s4 == AddFkey(s3, TaskActivityNull)
           s5 == MakeNullable(s4, "activity_users.user_id")
           s6 == MakeNullable(s5, "activity_users.activity_id")
<1>0. s0 = Schema("ok", ColumnsAt(5), u0, Keys5, "numeric(3,1)")
  BY Schemas
<1>1. s1 = Schema("ok", c1, u0, Keys5, "numeric(3,1)")
  <2>1. ColumnsAt(5)["activity_tasks.activity_id"] \in Present
    BY DEF ColumnsAt, ColumnAt, Since, Columns, Present
  <2> HIDE DEF s0, u0, f0
  <2> QED  BY <1>0, <2>1 DEF If, Schema, ChangeColumn, MakeNullable, Present
<1>2. s2 = Schema("ok", c2, u0, Keys5, "numeric(3,1)")
  <2>1. c1["activity_tasks.user_id"] \in Present
    BY DEF ColumnsAt, ColumnAt, Since, Columns, Present
  <2> HIDE DEF s1, u0, f0
  <2> QED  BY <1>1, <2>1 DEF If, Schema, ChangeColumn, MakeNullable, Present
<1>3. s3 = Schema("ok", c2, u0, f0, "numeric(3,1)")
  <2>1. f0 = {l \in Keys5 : l.column # TaskActivity.column}
    BY FkeyColumns DEF Keys5, Keys10
  <2>2. TaskActivity \in Keys5
    BY DEF Keys5, Keys10
  <2> HIDE DEF s2, u0, f0
  <2> QED  BY <1>2, <2>1, <2>2, FkeyColumns DEF DropFkey, If, Schema
<1>4. s4 = Schema("ok", c2, u0, Keys10, "numeric(3,1)")
  <2>1. Keys10 = f0 \cup {TaskActivityNull}
    BY DEF Keys5, Keys10
  <2>2. \A l \in f0 : l.column # TaskActivityNull.column
    BY FkeyColumns DEF Keys5, Keys10
  <2> HIDE DEF s3, u0, f0
  <2> QED  BY <1>3, <2>1, <2>2 DEF AddFkey, If, Schema
<1>5. s5 = Schema("ok", c3, u0, Keys10, "numeric(3,1)")
  <2>1. c2["activity_users.user_id"] \in Present
    BY DEF ColumnsAt, ColumnAt, Since, Columns, Present
  <2> HIDE DEF s4, u0, f0
  <2> QED  BY <1>4, <2>1 DEF If, Schema, ChangeColumn, MakeNullable, Present
<1>6. s6 = Schema("ok", c4, u0, Keys10, "numeric(3,1)")
  <2>1. c3["activity_users.activity_id"] \in Present
    BY DEF ColumnsAt, ColumnAt, Since, Columns, Present
  <2> HIDE DEF s5, u0, f0
  <2> QED  BY <1>5, <2>1 DEF If, Schema, ChangeColumn, MakeNullable, Present
<1>7. SchemaAt(6) = Schema("ok", ColumnsAt(6), u0, Keys10, "numeric(3,1)")
  BY Schemas
<1>8. ColumnsAt(6) = c4
  BY ColumnsMadeNullable
<1>9. s6 = SchemaAt(6)
  <2> HIDE DEF s6, u0, f0, c1, c2, c3, c4
  <2> QED  BY <1>6, <1>7, <1>8
<1> QED  BY <1>9 DEF Upgrade_49987cbed3c3, TaskUser, TaskActivity, TaskActivityNull

\* c1c963e4f75d leads from version 6 to version 7.
LEMMA Upgrade7 == Upgrade_c1c963e4f75d(SchemaAt(6)) = SchemaAt(7)
<1> DEFINE u0 == {ActivityIdUserId, UserTaskDate}
           u1 == {UserTaskDate}
           u2 == {TitleUserId, UserTaskDate}
           s0 == SchemaAt(6)
           s1 == DropUnique(s0, "uq_activity_id_user_id")
           s2 == AddUnique(s1, TitleUserId)
<1>0. s0 = Schema("ok", ColumnsAt(6), u0, Keys10, "numeric(3,1)")
  BY Schemas
<1>1. s1 = Schema("ok", ColumnsAt(6), u1, Keys10, "numeric(3,1)")
  <2>1. u1 = {w \in u0 : w.name # ActivityIdUserId.name}
    BY Names
  <2>2. ActivityIdUserId \in u0
    OBVIOUS
  <2> HIDE DEF s0, u0, u1, u2
  <2> QED  BY <1>0, <2>1, <2>2, Names DEF DropUnique, If, Schema
<1>2. s2 = Schema("ok", ColumnsAt(6), u2, Keys10, "numeric(3,1)")
  <2>1. u2 = u1 \cup {TitleUserId}
    OBVIOUS
  <2>2. \A w \in u1 : w.name # TitleUserId.name
    BY Names
  <2> HIDE DEF s1, u0, u1, u2
  <2> QED  BY <1>1, <2>1, <2>2 DEF AddUnique, If, Schema
<1>3. SchemaAt(7) = Schema("ok", ColumnsAt(7), u2, Keys10, "numeric(3,1)")
  BY Schemas
<1>4. ColumnsAt(7) = ColumnsAt(6)
  BY ColumnsByVersion
<1>5. s2 = SchemaAt(7)
  <2> HIDE DEF s2, u0, u1, u2
  <2> QED  BY <1>2, <1>3, <1>4
<1> QED  BY <1>5 DEF Upgrade_c1c963e4f75d, TaskUser, TaskActivity, TaskActivityNull

\* The downgrade of c1c963e4f75d leads back to version 6.
LEMMA Downgrade7 == Downgrade_c1c963e4f75d(SchemaAt(7)) = SchemaAt(6)
<1> DEFINE u0 == {TitleUserId, UserTaskDate}
           u1 == {UserTaskDate}
           u2 == {ActivityIdUserId, UserTaskDate}
           s0 == SchemaAt(7)
           s1 == DropUnique(s0, "uq_title_user_id")
           s2 == AddUnique(s1, ActivityIdUserId)
<1>0. s0 = Schema("ok", ColumnsAt(7), u0, Keys10, "numeric(3,1)")
  BY Schemas
<1>1. s1 = Schema("ok", ColumnsAt(7), u1, Keys10, "numeric(3,1)")
  <2>1. u1 = {w \in u0 : w.name # TitleUserId.name}
    BY Names
  <2>2. TitleUserId \in u0
    OBVIOUS
  <2> HIDE DEF s0, u0, u1, u2
  <2> QED  BY <1>0, <2>1, <2>2, Names DEF DropUnique, If, Schema
<1>2. s2 = Schema("ok", ColumnsAt(7), u2, Keys10, "numeric(3,1)")
  <2>1. u2 = u1 \cup {ActivityIdUserId}
    OBVIOUS
  <2>2. \A w \in u1 : w.name # ActivityIdUserId.name
    BY Names
  <2> HIDE DEF s1, u0, u1, u2
  <2> QED  BY <1>1, <2>1, <2>2 DEF AddUnique, If, Schema
<1>3. SchemaAt(6) = Schema("ok", ColumnsAt(6), u2, Keys10, "numeric(3,1)")
  BY Schemas
<1>4. ColumnsAt(6) = ColumnsAt(7)
  BY ColumnsByVersion
<1>5. s2 = SchemaAt(6)
  <2> HIDE DEF s2, u0, u1, u2
  <2> QED  BY <1>2, <1>3, <1>4
<1> QED  BY <1>5 DEF Downgrade_c1c963e4f75d, TaskUser, TaskActivity, TaskActivityNull

\* 77d81d86ad07 leads from version 8 to version 9.
LEMMA Upgrade9 == Upgrade_77d81d86ad07(SchemaAt(8)) = SchemaAt(9)
<1> DEFINE u0 == {TitleUserId, UserTaskDate}
           u1 == {UserTaskDate}
           u2 == {TitleActivityId, UserTaskDate}
           s0 == SchemaAt(8)
           s1 == DropUnique(s0, "uq_title_user_id")
           s2 == AddUnique(s1, TitleActivityId)
<1>0. s0 = Schema("ok", ColumnsAt(8), u0, Keys10, "numeric(3,1)")
  BY Schemas
<1>1. s1 = Schema("ok", ColumnsAt(8), u1, Keys10, "numeric(3,1)")
  <2>1. u1 = {w \in u0 : w.name # TitleUserId.name}
    BY Names
  <2>2. TitleUserId \in u0
    OBVIOUS
  <2> HIDE DEF s0, u0, u1, u2
  <2> QED  BY <1>0, <2>1, <2>2, Names DEF DropUnique, If, Schema
<1>2. s2 = Schema("ok", ColumnsAt(8), u2, Keys10, "numeric(3,1)")
  <2>1. u2 = u1 \cup {TitleActivityId}
    OBVIOUS
  <2>2. \A w \in u1 : w.name # TitleActivityId.name
    BY Names
  <2> HIDE DEF s1, u0, u1, u2
  <2> QED  BY <1>1, <2>1, <2>2 DEF AddUnique, If, Schema
<1>3. SchemaAt(9) = Schema("ok", ColumnsAt(9), u2, Keys10, "numeric(3,1)")
  BY Schemas
<1>4. ColumnsAt(9) = ColumnsAt(8)
  BY ColumnsByVersion
<1>5. s2 = SchemaAt(9)
  <2> HIDE DEF s2, u0, u1, u2
  <2> QED  BY <1>2, <1>3, <1>4
<1> QED  BY <1>5 DEF Upgrade_77d81d86ad07, TaskUser, TaskActivity, TaskActivityNull

\* The downgrade of 77d81d86ad07 leads back to version 8.
LEMMA Downgrade9 == Downgrade_77d81d86ad07(SchemaAt(9)) = SchemaAt(8)
<1> DEFINE u0 == {TitleActivityId, UserTaskDate}
           u1 == {UserTaskDate}
           u2 == {TitleUserId, UserTaskDate}
           s0 == SchemaAt(9)
           s1 == DropUnique(s0, "uq_title_activity_id")
           s2 == AddUnique(s1, TitleUserId)
<1>0. s0 = Schema("ok", ColumnsAt(9), u0, Keys10, "numeric(3,1)")
  BY Schemas
<1>1. s1 = Schema("ok", ColumnsAt(9), u1, Keys10, "numeric(3,1)")
  <2>1. u1 = {w \in u0 : w.name # TitleActivityId.name}
    BY Names
  <2>2. TitleActivityId \in u0
    OBVIOUS
  <2> HIDE DEF s0, u0, u1, u2
  <2> QED  BY <1>0, <2>1, <2>2, Names DEF DropUnique, If, Schema
<1>2. s2 = Schema("ok", ColumnsAt(9), u2, Keys10, "numeric(3,1)")
  <2>1. u2 = u1 \cup {TitleUserId}
    OBVIOUS
  <2>2. \A w \in u1 : w.name # TitleUserId.name
    BY Names
  <2> HIDE DEF s1, u0, u1, u2
  <2> QED  BY <1>1, <2>1, <2>2 DEF AddUnique, If, Schema
<1>3. SchemaAt(8) = Schema("ok", ColumnsAt(8), u2, Keys10, "numeric(3,1)")
  BY Schemas
<1>4. ColumnsAt(8) = ColumnsAt(9)
  BY ColumnsByVersion
<1>5. s2 = SchemaAt(8)
  <2> HIDE DEF s2, u0, u1, u2
  <2> QED  BY <1>2, <1>3, <1>4
<1> QED  BY <1>5 DEF Downgrade_77d81d86ad07, TaskUser, TaskActivity, TaskActivityNull

\* 13d08d795146 leads from version 7 to version 8.
LEMMA Upgrade8 == Upgrade_13d08d795146(SchemaAt(7)) = SchemaAt(8)
<1> DEFINE u0 == {TitleUserId, UserTaskDate}
           s0 == SchemaAt(7)
           s1 == DropColumn(s0, "activities.expected_hours_monthly")
<1>0. s0 = Schema("ok", ColumnsAt(7), u0, Keys10, "numeric(3,1)")
  BY Schemas
<1>1. s1 = Schema("ok", ColumnsAt(8), u0, Keys10, "numeric(3,1)")
  <2>1. ColumnsAt(7)["activities.expected_hours_monthly"] \in Present
    BY DEF ColumnsAt, ColumnAt, Since, Columns, Present
  <2>2. ColumnsAt(8) = [ColumnsAt(7) EXCEPT !["activities.expected_hours_monthly"] = "absent"]
    BY ColumnsByVersion
  <2> HIDE DEF s0, u0
  <2> QED  BY <1>0, <2>1, <2>2 DEF If, Schema, ChangeColumn, DropColumn, Present
<1>2. SchemaAt(8) = Schema("ok", ColumnsAt(8), u0, Keys10, "numeric(3,1)")
  BY Schemas
<1>3. s1 = SchemaAt(8)
  <2> HIDE DEF s1, u0
  <2> QED  BY <1>1, <1>2
<1> QED  BY <1>3 DEF Upgrade_13d08d795146, TaskUser, TaskActivity, TaskActivityNull

\* The downgrade of 13d08d795146 leads back to version 7.
LEMMA Downgrade8 == Downgrade_13d08d795146(SchemaAt(8)) = SchemaAt(7)
<1> DEFINE u0 == {TitleUserId, UserTaskDate}
           s0 == SchemaAt(8)
           s1 == AddColumn(s0, "activities.expected_hours_monthly")
<1>0. s0 = Schema("ok", ColumnsAt(8), u0, Keys10, "numeric(3,1)")
  BY Schemas
<1>1. s1 = Schema("ok", ColumnsAt(7), u0, Keys10, "numeric(3,1)")
  <2>1. ColumnsAt(8)["activities.expected_hours_monthly"] \in {"absent"}
    BY DEF ColumnsAt, ColumnAt, Since, Columns
  <2>2. ColumnsAt(7) = [ColumnsAt(8) EXCEPT !["activities.expected_hours_monthly"] = "required"]
    BY ColumnsByVersion
  <2> HIDE DEF s0, u0
  <2> QED  BY <1>0, <2>1, <2>2 DEF If, Schema, ChangeColumn, AddColumn
<1>2. SchemaAt(7) = Schema("ok", ColumnsAt(7), u0, Keys10, "numeric(3,1)")
  BY Schemas
<1>3. s1 = SchemaAt(7)
  <2> HIDE DEF s1, u0
  <2> QED  BY <1>1, <1>2
<1> QED  BY <1>3 DEF Downgrade_13d08d795146, TaskUser, TaskActivity, TaskActivityNull

\* 967828c46e3f leads from version 9 to version 10.
LEMMA Upgrade10 == Upgrade_967828c46e3f(SchemaAt(9)) = SchemaAt(10)
<1> DEFINE u0 == {TitleActivityId, UserTaskDate}
           s0 == SchemaAt(9)
           s1 == MakeNullable(s0, "worklogs.activity_task_id")
<1>0. s0 = Schema("ok", ColumnsAt(9), u0, Keys10, "numeric(3,1)")
  BY Schemas
<1>1. s1 = Schema("ok", ColumnsAt(10), u0, Keys10, "numeric(3,1)")
  <2>1. ColumnsAt(9)["worklogs.activity_task_id"] \in Present
    BY DEF ColumnsAt, ColumnAt, Since, Columns, Present
  <2>2. ColumnsAt(10) = [ColumnsAt(9) EXCEPT !["worklogs.activity_task_id"] = "nullable"]
    BY ColumnsByVersion
  <2> HIDE DEF s0, u0
  <2> QED  BY <1>0, <2>1, <2>2 DEF If, Schema, ChangeColumn, MakeNullable, Present
<1>2. SchemaAt(10) = Schema("ok", ColumnsAt(10), u0, Keys10, "numeric(3,1)")
  BY Schemas
<1>3. s1 = SchemaAt(10)
  <2> HIDE DEF s1, u0
  <2> QED  BY <1>1, <1>2
<1> QED  BY <1>3 DEF Upgrade_967828c46e3f, TaskUser, TaskActivity, TaskActivityNull

\* The downgrade of 967828c46e3f leads back to version 9.
LEMMA Downgrade10 == Downgrade_967828c46e3f(SchemaAt(10)) = SchemaAt(9)
<1> DEFINE u0 == {TitleActivityId, UserTaskDate}
           s0 == SchemaAt(10)
           s1 == MakeRequired(s0, "worklogs.activity_task_id")
<1>0. s0 = Schema("ok", ColumnsAt(10), u0, Keys10, "numeric(3,1)")
  BY Schemas
<1>1. s1 = Schema("ok", ColumnsAt(9), u0, Keys10, "numeric(3,1)")
  <2>1. ColumnsAt(10)["worklogs.activity_task_id"] \in Present
    BY DEF ColumnsAt, ColumnAt, Since, Columns, Present
  <2>2. ColumnsAt(9) = [ColumnsAt(10) EXCEPT !["worklogs.activity_task_id"] = "required"]
    BY ColumnsByVersion
  <2> HIDE DEF s0, u0
  <2> QED  BY <1>0, <2>1, <2>2 DEF If, Schema, ChangeColumn, MakeRequired, Present
<1>2. SchemaAt(9) = Schema("ok", ColumnsAt(9), u0, Keys10, "numeric(3,1)")
  BY Schemas
<1>3. s1 = SchemaAt(9)
  <2> HIDE DEF s1, u0
  <2> QED  BY <1>1, <1>2
<1> QED  BY <1>3 DEF Downgrade_967828c46e3f, TaskUser, TaskActivity, TaskActivityNull

\* Each revision leads from the schema of the version before to that of its own.
THEOREM UpgradeReaches ==
  ASSUME NEW v \in 1 .. 10
  PROVE  Upgrade(v, SchemaAt(v - 1)) = SchemaAt(v)
<1>1. CASE v = 1
  <2>1. Upgrade(1, SchemaAt(0)) = Upgrade_c2d9b55b6856(SchemaAt(0))
    BY DEF Upgrade
  <2> QED  BY <1>1, <2>1, Upgrade1
<1>2. CASE v = 2
  <2>1. Upgrade(2, SchemaAt(1)) = Upgrade_21ce19e90146(SchemaAt(1))
    BY DEF Upgrade
  <2> QED  BY <1>2, <2>1, Upgrade2
<1>3. CASE v = 3
  <2>1. Upgrade(3, SchemaAt(2)) = Upgrade_b807c46724da(SchemaAt(2))
    BY DEF Upgrade
  <2> QED  BY <1>3, <2>1, Upgrade3
<1>4. CASE v = 4
  <2>1. Upgrade(4, SchemaAt(3)) = Upgrade_096a9ef46a20(SchemaAt(3))
    BY DEF Upgrade
  <2> QED  BY <1>4, <2>1, Upgrade4
<1>5. CASE v = 5
  <2>1. Upgrade(5, SchemaAt(4)) = Upgrade_b707471af2d6(SchemaAt(4))
    BY DEF Upgrade
  <2> QED  BY <1>5, <2>1, Upgrade5
<1>6. CASE v = 6
  <2>1. Upgrade(6, SchemaAt(5)) = Upgrade_49987cbed3c3(SchemaAt(5))
    BY DEF Upgrade
  <2> QED  BY <1>6, <2>1, Upgrade6
<1>7. CASE v = 7
  <2>1. Upgrade(7, SchemaAt(6)) = Upgrade_c1c963e4f75d(SchemaAt(6))
    BY DEF Upgrade
  <2> QED  BY <1>7, <2>1, Upgrade7
<1>8. CASE v = 8
  <2>1. Upgrade(8, SchemaAt(7)) = Upgrade_13d08d795146(SchemaAt(7))
    BY DEF Upgrade
  <2> QED  BY <1>8, <2>1, Upgrade8
<1>9. CASE v = 9
  <2>1. Upgrade(9, SchemaAt(8)) = Upgrade_77d81d86ad07(SchemaAt(8))
    BY DEF Upgrade
  <2> QED  BY <1>9, <2>1, Upgrade9
<1>10. CASE v = 10
  <2>1. Upgrade(10, SchemaAt(9)) = Upgrade_967828c46e3f(SchemaAt(9))
    BY DEF Upgrade
  <2> QED  BY <1>10, <2>1, Upgrade10
<1> QED  BY <1>1, <1>2, <1>3, <1>4, <1>5, <1>6, <1>7, <1>8, <1>9, <1>10

\* The downgrade of c2d9b55b6856 leads back to version 0.
LEMMA Downgrade1 == Downgrade_c2d9b55b6856(SchemaAt(1)) = SchemaAt(0)
<1> DEFINE s1 == Schema("ok", ColumnsAt(1), {TitleKey}, {LogTask, TaskActivity}, "smallint")
<1>1. SchemaAt(1) = s1
  BY Schemas
<1>2. If(s1, Created(s1)) = "ok"
  BY DEF Created, Schema, If
<1>3. ColumnsAt(0) = [c \in Columns |-> "absent"]
  BY DEF ColumnsAt, ColumnAt, Since, Columns
<1>4. Downgrade_c2d9b55b6856(s1) = Schema("ok", ColumnsAt(0), {}, {}, "absent")
  <2> HIDE DEF s1
  <2> QED  BY <1>2, <1>3 DEF Downgrade_c2d9b55b6856
<1> QED  BY <1>1, <1>4, Schemas

\* After a change that could not be made no other can.
LEMMA RefusedStays ==
  ASSUME NEW s, s.status = "refused"
  PROVE  /\ \A n : DropUnique(s, n).status = "refused"
         /\ \A k : AddFkey(s, k).status = "refused"
         /\ \A c, before, after : ChangeColumn(s, c, before, after).status = "refused"
  BY DEF DropUnique, AddFkey, ChangeColumn, If, Schema

\* The downgrade of 21ce19e90146 drops a constraint without a name.
LEMMA Downgrade2Refused ==
  ASSUME NEW s
  PROVE  Downgrade_21ce19e90146(s).status = "refused"
<1> DEFINE s2 == DropUnnamed(SetDuration(s, "smallint"))
           s3 == DropUnique(s2, "uq_activity_task_title")
<1>1. s2.status = "refused"
  BY DEF DropUnnamed, Schema
<1>2. s3.status = "refused"
  BY <1>1, RefusedStays
<1>3. DropColumn(s3, "activity_tasks.user_id").status = "refused"
  BY <1>2, RefusedStays DEF DropColumn
<1> QED  BY <1>3 DEF Downgrade_21ce19e90146

\* So does that of 49987cbed3c3.
LEMMA Downgrade6Refused ==
  ASSUME NEW s
  PROVE  Downgrade_49987cbed3c3(s).status = "refused"
<1> DEFINE s2 == DropUnnamed(MakeRequired(MakeRequired(s, "activity_users.activity_id"), "activity_users.user_id"))
           s3 == AddFkey(s2, Fkey("activity_tasks.activity_id", "CASCADE"))
           s4 == MakeRequired(s3, "activity_tasks.user_id")
<1>1. s2.status = "refused"
  BY DEF DropUnnamed, Schema
<1>2. s3.status = "refused"
  <2> HIDE DEF s2
  <2> QED  BY <1>1, RefusedStays
<1>3. s4.status = "refused"
  <2> HIDE DEF s3
  <2> QED  BY <1>2, RefusedStays DEF MakeRequired
<1>4. MakeRequired(s4, "activity_tasks.activity_id").status = "refused"
  <2> HIDE DEF s4
  <2> QED  BY <1>3, RefusedStays DEF MakeRequired
<1> QED  BY <1>4 DEF Downgrade_49987cbed3c3

\* A downgrade of a version leads back to the one before, or is refused as a
\* whole: that of 21ce19e90146 and that of 49987cbed3c3 always are.
THEOREM DowngradeReturns ==
  ASSUME NEW v \in 1 .. 10
  PROVE  IF v \in {2, 6} THEN Downgrade(v, SchemaAt(v)).status = "refused"
         ELSE Downgrade(v, SchemaAt(v)) = SchemaAt(v - 1)
<1>1. CASE v = 1
  <2>1. Downgrade(1, SchemaAt(1)) = Downgrade_c2d9b55b6856(SchemaAt(1))
    BY DEF Downgrade
  <2> QED  BY <1>1, <2>1, Downgrade1
<1>2. CASE v = 2
  <2>1. Downgrade(2, SchemaAt(2)) = Downgrade_21ce19e90146(SchemaAt(2))
    BY DEF Downgrade
  <2> QED  BY <1>2, <2>1, Downgrade2Refused
<1>3. CASE v = 3
  <2>1. Downgrade(3, SchemaAt(3)) = Downgrade_b807c46724da(SchemaAt(3))
    BY DEF Downgrade
  <2> QED  BY <1>3, <2>1, Downgrade3
<1>4. CASE v = 4
  <2>1. Downgrade(4, SchemaAt(4)) = Downgrade_096a9ef46a20(SchemaAt(4))
    BY DEF Downgrade
  <2> QED  BY <1>4, <2>1, Downgrade4
<1>5. CASE v = 5
  <2>1. Downgrade(5, SchemaAt(5)) = Downgrade_b707471af2d6(SchemaAt(5))
    BY DEF Downgrade
  <2> QED  BY <1>5, <2>1, Downgrade5
<1>6. CASE v = 6
  <2>1. Downgrade(6, SchemaAt(6)) = Downgrade_49987cbed3c3(SchemaAt(6))
    BY DEF Downgrade
  <2> QED  BY <1>6, <2>1, Downgrade6Refused
<1>7. CASE v = 7
  <2>1. Downgrade(7, SchemaAt(7)) = Downgrade_c1c963e4f75d(SchemaAt(7))
    BY DEF Downgrade
  <2> QED  BY <1>7, <2>1, Downgrade7
<1>8. CASE v = 8
  <2>1. Downgrade(8, SchemaAt(8)) = Downgrade_13d08d795146(SchemaAt(8))
    BY DEF Downgrade
  <2> QED  BY <1>8, <2>1, Downgrade8
<1>9. CASE v = 9
  <2>1. Downgrade(9, SchemaAt(9)) = Downgrade_77d81d86ad07(SchemaAt(9))
    BY DEF Downgrade
  <2> QED  BY <1>9, <2>1, Downgrade9
<1>10. CASE v = 10
  <2>1. Downgrade(10, SchemaAt(10)) = Downgrade_967828c46e3f(SchemaAt(10))
    BY DEF Downgrade
  <2> QED  BY <1>10, <2>1, Downgrade10
<1> QED  BY <1>1, <1>2, <1>3, <1>4, <1>5, <1>6, <1>7, <1>8, <1>9, <1>10

(***************************************************************************)
(* Types.                                                                  *)
(***************************************************************************)
\* The schema of a version has its type.
LEMMA SchemaTyped ==
  ASSUME NEW v \in Versions
  PROVE  SchemaAt(v) \in SchemaType
<1>1. \A c : ColumnAt(v, c) \in {"absent", "required", "nullable"}
  BY DEF ColumnAt, Since
<1>2. [c \in Columns |-> ColumnAt(v, c)] \in [Columns -> {"absent", "required", "nullable"}]
  BY <1>1
<1>3. UniquesAt(v) \in SUBSET {TitleKey, ActivityTaskTitle, ActivityIdUserId, TitleUserId,
                              TitleActivityId, UserTaskDate}
  BY DEF UniquesAt, During
<1>4. FkeysAt(v) \in SUBSET [column : Columns, ondelete : {"CASCADE", "SET NULL"}]
  <2>1. {LogTask, TaskUser, TaskActivity, TaskActivityNull}
          \subseteq [column : Columns, ondelete : {"CASCADE", "SET NULL"}]
    BY DEF LogTask, TaskUser, TaskActivity, TaskActivityNull, Fkey, Columns
  <2>2. FkeysAt(v) \subseteq {LogTask, TaskUser, TaskActivity, TaskActivityNull}
    BY DEF FkeysAt, During
  <2> QED  BY <2>1, <2>2
<1>5. DurationAt(v) \in {"absent", "smallint", "numeric(1,0)", "numeric(3,1)"}
  BY DEF DurationAt
<1> DEFINE cs == [c \in Columns |-> ColumnAt(v, c)]
<1>6. SchemaAt(v) = Schema("ok", cs, UniquesAt(v), FkeysAt(v), DurationAt(v))
  BY DEF SchemaAt
<1>7. ASSUME NEW c \in [Columns -> {"absent", "required", "nullable"}],
             NEW u \in SUBSET {TitleKey, ActivityTaskTitle, ActivityIdUserId, TitleUserId,
                              TitleActivityId, UserTaskDate},
             NEW f \in SUBSET [column : Columns, ondelete : {"CASCADE", "SET NULL"}],
             NEW d \in {"absent", "smallint", "numeric(1,0)", "numeric(3,1)"}
      PROVE  Schema("ok", c, u, f, d) \in SchemaType
  BY DEF SchemaType, Schema
<1>8. Schema("ok", cs, UniquesAt(v), FkeysAt(v), DurationAt(v)) \in SchemaType
  <2>1. cs \in [Columns -> {"absent", "required", "nullable"}]
    BY <1>2
  <2> HIDE DEF cs
  <2> QED  BY <2>1, <1>3, <1>4, <1>5, <1>7
<1> QED  BY <1>6, <1>8

\* A duration within the limits keeps within them as whole hours.
LEMMA RoundedTyped ==
  ASSUME NEW s, NEW d \in Tenths
  PROVE  Rounded(s, d) \in Tenths
<1>1. (d + 5) \div 10 \in 1 .. 8
  BY SMT DEF Tenths
<1>2. \A q \in 1 .. 8 : q * 10 \in 10 .. 80
  OBVIOUS
<1> QED  BY <1>1, <1>2 DEF Rounded, Tenths

\* Empty tables have their type.
LEMMA NoRowsTyped == NoRows \in Rows
  BY DEF NoRows, Rows

\* A revision keeps the type of the rows.
LEMMA ConvertedTyped ==
  ASSUME NEW db \in Rows, NEW s
  PROVE  Converted(db, s) \in Rows
<1> DEFINE activities == [a \in ActivityId |->
              IF db.activities[a] # NoRow /\ s.columns["activities.expected_hours_monthly"] = "absent"
              THEN "no hours" ELSE db.activities[a]]
           tasks == [t \in TaskId |->
              IF db.tasks[t] # NoRow /\ s.columns["activity_tasks.user_id"] = "absent"
              THEN [db.tasks[t] EXCEPT !.user_id = Null] ELSE db.tasks[t]]
           logs == [w \in LogId |->
              IF db.logs[w] # NoRow THEN [db.logs[w] EXCEPT !.duration = Rounded(s, @)] ELSE db.logs[w]]
<1>1. activities \in [ActivityId -> {NoRow, "hours", "no hours"}]
  BY DEF Rows
<1>2. tasks \in [TaskId -> TaskRow \cup {NoRow}]
  <2>1. ASSUME NEW t \in TaskId, db.tasks[t] # NoRow
        PROVE  [db.tasks[t] EXCEPT !.user_id = Null] \in TaskRow
    <3>1. db.tasks[t] \in TaskRow
      BY <2>1 DEF Rows
    <3> QED  BY <3>1 DEF TaskRow
  <2> QED  BY <2>1 DEF Rows
<1>3. logs \in [LogId -> LogRow \cup {NoRow}]
  <2>1. ASSUME NEW w \in LogId, db.logs[w] # NoRow
        PROVE  [db.logs[w] EXCEPT !.duration = Rounded(s, @)] \in LogRow
    <3>1. db.logs[w] \in LogRow
      BY <2>1 DEF Rows
    <3>2. Rounded(s, db.logs[w].duration) \in Tenths
      BY <3>1, RoundedTyped DEF LogRow
    <3> QED  BY <3>1, <3>2 DEF LogRow
  <2> QED  BY <2>1 DEF Rows
<1>4. Converted(db, s) = IF ~Created(s) THEN NoRows
                         ELSE [activities |-> activities, tasks |-> tasks, logs |-> logs]
  BY DEF Converted
<1> HIDE DEF activities, tasks, logs
<1>5. [activities |-> activities, tasks |-> tasks, logs |-> logs] \in Rows
  BY <1>1, <1>2, <1>3 DEF Rows
<1> QED  BY <1>4, <1>5, NoRowsTyped

(***************************************************************************)
(* The inductive invariant.                                                *)
(***************************************************************************)
\* An open run has come from where alembic_version is if it has made a revision,
\* and has then built the schema of the version it is at.
Built(r, v) == r.at # r.from => v = r.from /\ r.schema = SchemaAt(r.at)

\* A run goes from its start towards its target, and not down over a revision
\* that cannot be undone.
Course(r) ==
    /\ r.from # r.to
    /\ IF r.from < r.to THEN r.from <= r.at /\ r.at <= r.to ELSE r.to <= r.at /\ r.at <= r.from
    /\ r.from >= 6 => r.at >= 6
    /\ r.from >= 2 => r.at >= 2

RunsFollow == \A m \in Runners : run[m] # Idle => Built(run[m], version) /\ Course(run[m])

OneHolder == \A m, n \in Runners : HoldsVersion(m) /\ HoldsVersion(n) => m = n

MigrationsInv == MigrationsTypeOK /\ SchemaByVersion /\ RunsFollow /\ OneHolder

\* The versions, with the last one spelled out.
LEMMA VersionsInterval == Versions = 0 .. 10
  BY DEF Versions, HeadVersion

\* A new database has the schema of version 0.
LEMMA EmptyIsFirst == EmptySchema = SchemaAt(0)
<1>1. ColumnsAt(0) = [c \in Columns |-> "absent"]
  BY DEF ColumnsAt, ColumnAt, Since, Columns
<1> QED  BY <1>1, Schemas DEF EmptySchema

\* The invariant holds of a new database.
LEMMA MigrationsInitInv == MigrationsInit => MigrationsInv
<1> SUFFICES ASSUME MigrationsInit PROVE MigrationsInv
  OBVIOUS
<1>1. SchemaByVersion
  BY EmptyIsFirst DEF MigrationsInit, SchemaByVersion
<1>2. MigrationsTypeOK
  <2>1. schema \in SchemaType
    BY EmptyIsFirst, SchemaTyped, VersionsInterval DEF MigrationsInit
  <2> QED  BY <2>1, NoRowsTyped, VersionsInterval DEF MigrationsInit, MigrationsTypeOK
<1>3. RunsFollow /\ OneHolder
  BY DEF MigrationsInit, RunsFollow, OneHolder, HoldsVersion
<1> QED  BY <1>1, <1>2, <1>3 DEF MigrationsInv

\* A new run has made nothing.
LEMMA StartInv ==
  ASSUME MigrationsInv, NEW m \in Runners, NEW to \in Targets, Start(m, to)
  PROVE  MigrationsInv'
<1> DEFINE r == [from |-> version, at |-> version, to |-> to, schema |-> schema]
<1>1. r \in Run
  BY TargetsAssumption DEF MigrationsInv, MigrationsTypeOK, Run
<1>2. \A n \in Runners : run'[n] = IF n = m THEN r ELSE run[n]
  BY DEF Start, MigrationsInv, MigrationsTypeOK
<1>3. Built(r, version) /\ Course(r)
  <2>1. version \in 0 .. 10 /\ to \in 0 .. 10 /\ to # version
    BY TargetsAssumption, VersionsInterval DEF Start, MigrationsInv, MigrationsTypeOK
  <2>2. Built(r, version)
    BY DEF Built
  <2>3. Course(r)
    BY <2>1 DEF Course
  <2> QED  BY <2>2, <2>3
<1>4. r.at = r.from
  OBVIOUS
<1> HIDE DEF r
<1>5. MigrationsTypeOK'
  BY <1>1 DEF Start, MigrationsInv, MigrationsTypeOK, r
<1>6. SchemaByVersion'
  BY DEF Start, MigrationsInv, SchemaByVersion
<1>7. RunsFollow'
  BY <1>2, <1>3 DEF Start, MigrationsInv, RunsFollow
<1>8. OneHolder'
  BY <1>2, <1>4 DEF Start, MigrationsInv, OneHolder, HoldsVersion
<1> QED  BY <1>5, <1>6, <1>7, <1>8 DEF MigrationsInv

\* The schema after a revision that can be made is that of the version after.
LEMMA NextIsBuilt ==
  ASSUME MigrationsInv, NEW m \in Runners, Revise(m)
  PROVE  /\ version = run[m].from
         /\ NextAt(run[m]) \in Versions
         /\ NextSchema(run[m]) = SchemaAt(NextAt(run[m]))
         /\ NextAt(run[m]) # run[m].from
         /\ Course([run[m] EXCEPT !.at = NextAt(run[m]), !.schema = NextSchema(run[m])])
<1> DEFINE r == run[m]
           s == IF r.at = r.from THEN schema ELSE r.schema
<1>1. /\ r \in Run /\ r # Idle /\ r.at # r.to
      /\ Built(r, version) /\ Course(r)
  BY DEF Revise, MigrationsInv, MigrationsTypeOK, RunsFollow
<1>2. r.from \in 0 .. 10 /\ r.at \in 0 .. 10 /\ r.to \in 0 .. 10
  BY <1>1, VersionsInterval DEF Run
<1>3. version = r.from
  BY <1>1 DEF Revise, VersionMatches, Built
<1>4. s = SchemaAt(r.at)
  BY <1>1, <1>3 DEF Built, MigrationsInv, SchemaByVersion
<1>5. NextSchema(r) = IF r.from < r.to THEN Upgrade(r.at + 1, s) ELSE Downgrade(r.at, s)
  BY DEF NextSchema
<1>6. NextSchema(r).status = "ok"
  BY DEF Revise
<1> HIDE DEF r, s
<1>7. CASE r.from < r.to
  <2>1. r.at + 1 \in 1 .. 10 /\ (r.at + 1) - 1 = r.at
    BY <1>1, <1>2, <1>7 DEF Course
  <2>2. NextSchema(r) = SchemaAt(r.at + 1)
    BY <1>4, <1>5, <1>7, <2>1, UpgradeReaches
  <2>3. NextAt(r) = r.at + 1
    BY <1>7 DEF NextAt
  <2>4. Course([r EXCEPT !.at = NextAt(r), !.schema = NextSchema(r)])
    BY <1>1, <1>2, <1>7, <2>3 DEF Course, Run
  <2>5. NextAt(r) # r.from /\ NextAt(r) \in Versions
    BY <1>1, <1>2, <1>7, <2>1, <2>3, VersionsInterval DEF Course
  <2> QED  BY <1>3, <2>2, <2>3, <2>4, <2>5 DEF r
<1>8. CASE r.to < r.from
  <2>1. r.at \in 1 .. 10 /\ ~(r.from < r.to)
    BY <1>1, <1>2, <1>8 DEF Course
  <2>2. NextSchema(r) = Downgrade(r.at, SchemaAt(r.at))
    BY <1>4, <1>5, <2>1
  <2>3. NextSchema(r) = SchemaAt(r.at - 1) /\ r.at \notin {2, 6}
    BY <1>6, <2>1, <2>2, DowngradeReturns
  <2>4. NextAt(r) = r.at - 1
    BY <2>1 DEF NextAt
  <2>5. Course([r EXCEPT !.at = NextAt(r), !.schema = NextSchema(r)])
    BY <1>1, <1>2, <1>8, <2>3, <2>4 DEF Course, Run
  <2>6. NextAt(r) # r.from /\ NextAt(r) \in Versions
    BY <1>1, <1>2, <1>8, <2>1, <2>4, VersionsInterval DEF Course
  <2> QED  BY <1>3, <2>3, <2>4, <2>5, <2>6 DEF r
<1>9. r.from < r.to \/ r.to < r.from
  BY <1>1, <1>2 DEF Course
<1> QED  BY <1>7, <1>8, <1>9

\* A revision keeps the invariant: its run is the only one that has made any.
LEMMA ReviseInv ==
  ASSUME MigrationsInv, NEW m \in Runners, Revise(m)
  PROVE  MigrationsInv'
<1> DEFINE r == [run[m] EXCEPT !.at = NextAt(run[m]), !.schema = NextSchema(run[m])]
<1>1. /\ version = run[m].from
      /\ NextAt(run[m]) \in Versions
      /\ NextSchema(run[m]) = SchemaAt(NextAt(run[m]))
      /\ NextAt(run[m]) # run[m].from
      /\ Course(r)
  BY NextIsBuilt
<1>2. run[m] \in Run
  BY DEF Revise, MigrationsInv, MigrationsTypeOK
<1>3. NextSchema(run[m]) \in SchemaType
  BY <1>1, SchemaTyped
<1>4. r \in Run /\ r.from = run[m].from /\ r.at = NextAt(run[m]) /\ r.schema = NextSchema(run[m])
  BY <1>1, <1>2, <1>3 DEF Run
<1>5. run' = [run EXCEPT ![m] = r] /\ UNCHANGED <<schema, rows, version>>
  BY DEF Revise
<1> HIDE DEF r
<1>6. \A n \in Runners : run'[n] = IF n = m THEN r ELSE run[n]
  BY <1>5 DEF MigrationsInv, MigrationsTypeOK
<1>7. Built(r, version)
  BY <1>1, <1>4 DEF Built
<1>8. MigrationsTypeOK'
  BY <1>4, <1>5 DEF MigrationsInv, MigrationsTypeOK
<1>9. SchemaByVersion'
  BY <1>5 DEF MigrationsInv, SchemaByVersion
<1>10. RunsFollow'
  BY <1>1, <1>5, <1>6, <1>7 DEF MigrationsInv, RunsFollow
<1>11. OneHolder'
  <2>1. \A n \in Runners \ {m} : ~HoldsVersion(n)
    BY DEF Revise
  <2>2. \A n \in Runners \ {m} : ~HoldsVersion(n)'
    BY <1>6, <2>1 DEF HoldsVersion
  <2> QED  BY <2>2 DEF OneHolder
<1> QED  BY <1>8, <1>9, <1>10, <1>11 DEF MigrationsInv

\* The committing run is the only one that has made a revision.
LEMMA CommitInv ==
  ASSUME MigrationsInv, NEW m \in Runners, CommitRun(m)
  PROVE  /\ MigrationsInv'
         /\ version = run[m].from /\ version' = run[m].at /\ Course(run[m])
<1>1. /\ run[m] \in Run /\ run[m] # Idle
      /\ Built(run[m], version) /\ Course(run[m])
      /\ run[m].at = run[m].to
  BY DEF CommitRun, MigrationsInv, MigrationsTypeOK, RunsFollow
<1>2. HoldsVersion(m)
  BY <1>1 DEF HoldsVersion, Course
<1>3. /\ version = run[m].from
      /\ run[m].schema = SchemaAt(run[m].at)
      /\ run[m].at \in Versions
  BY <1>1, <1>2 DEF HoldsVersion, Built, Run
<1>4. /\ schema' = SchemaAt(version') /\ version' \in Versions /\ version' = run[m].at
  BY <1>1, <1>3 DEF CommitRun
<1>5. \A n \in Runners : run'[n] = IF n = m THEN Idle ELSE run[n]
  BY DEF CommitRun, MigrationsInv, MigrationsTypeOK
<1>6. MigrationsTypeOK'
  <2>1. schema' \in SchemaType
    BY <1>4, SchemaTyped
  <2>2. rows' \in Rows
    BY ConvertedTyped DEF CommitRun, MigrationsInv, MigrationsTypeOK
  <2>3. run' \in [Runners -> Run \cup {Idle}]
    BY DEF CommitRun, MigrationsInv, MigrationsTypeOK
  <2> QED  BY <1>4, <2>1, <2>2, <2>3 DEF MigrationsTypeOK
<1>7. SchemaByVersion'
  BY <1>4 DEF SchemaByVersion
<1>8. RunsFollow'
  <2>1. ASSUME NEW n \in Runners, n # m, run[n] # Idle
        PROVE  run[n].at = run[n].from /\ Course(run[n])
    BY <1>2, <2>1 DEF MigrationsInv, OneHolder, HoldsVersion, RunsFollow
  <2>2. ASSUME NEW n \in Runners, run'[n] # Idle
        PROVE  Built(run'[n], version') /\ Course(run'[n])
    BY <1>5, <2>1, <2>2 DEF Built
  <2> QED  BY <2>2 DEF RunsFollow
<1>9. OneHolder'
  BY <1>5 DEF MigrationsInv, OneHolder, HoldsVersion
<1> QED  BY <1>1, <1>3, <1>4, <1>6, <1>7, <1>8, <1>9 DEF MigrationsInv

\* A run that is undone leaves what was committed.
LEMMA RollbackInv ==
  ASSUME MigrationsInv, NEW m \in Runners, RollbackRun(m)
  PROVE  MigrationsInv'
<1>1. \A n \in Runners : run'[n] = IF n = m THEN Idle ELSE run[n]
  BY DEF RollbackRun, MigrationsInv, MigrationsTypeOK
<1>2. MigrationsTypeOK'
  BY DEF RollbackRun, MigrationsInv, MigrationsTypeOK
<1>3. SchemaByVersion'
  BY DEF RollbackRun, MigrationsInv, SchemaByVersion
<1>4. RunsFollow'
  BY <1>1 DEF RollbackRun, MigrationsInv, RunsFollow
<1>5. OneHolder'
  BY <1>1 DEF MigrationsInv, OneHolder, HoldsVersion
<1> QED  BY <1>2, <1>3, <1>4, <1>5 DEF MigrationsInv

\* Only the rows of the tables are written beside the runs.
LEMMA RowsInv ==
  ASSUME MigrationsInv, rows' \in Rows, UNCHANGED <<schema, version, run>>
  PROVE  MigrationsInv'
  BY DEF MigrationsInv, MigrationsTypeOK, SchemaByVersion, RunsFollow, OneHolder, HoldsVersion

\* The statements beside the runs write rows of the right type, and nothing else.
LEMMA RequestTyped ==
  ASSUME MigrationsInv, Written
  PROVE  rows' \in Rows /\ UNCHANGED <<schema, version, run>>
<1>1. rows \in Rows
  BY DEF MigrationsInv, MigrationsTypeOK
<1>2. ASSUME NEW a \in ActivityId, AddActivity(a)
      PROVE  rows' \in Rows /\ UNCHANGED <<schema, version, run>>
  <2>1. PICK kind \in {"hours", "no hours"} :
              rows' = [rows EXCEPT !.activities[a] = kind] /\ UNCHANGED <<schema, version, run>>
    BY <1>2 DEF AddActivity, Write
  <2> QED  BY <1>1, <2>1 DEF Rows
<1>3. ASSUME NEW t \in TaskId, NEW title \in Titles, NEW a \in ActivityId, NEW u \in Users,
             SaveTask(t, title, a, u)
      PROVE  rows' \in Rows /\ UNCHANGED <<schema, version, run>>
  <2> DEFINE task == [title |-> title, activity_id |-> a,
                      user_id |-> IF schema.columns["activity_tasks.user_id"] = "absent" THEN Null ELSE u]
  <2>1. task \in TaskRow
    BY DEF TaskRow
  <2>2. rows' = [rows EXCEPT !.tasks[t] = task] /\ UNCHANGED <<schema, version, run>>
    BY <1>3 DEF SaveTask, Write
  <2> HIDE DEF task
  <2> QED  BY <1>1, <2>1, <2>2 DEF Rows
<1>4. ASSUME NEW w \in LogId, NEW t \in TaskId, NEW u \in Users, NEW d \in Dates, NEW h \in Durations,
             SaveLog(w, t, u, d, h)
      PROVE  rows' \in Rows /\ UNCHANGED <<schema, version, run>>
  <2> DEFINE log == [date |-> d, duration |-> Rounded(schema, h), activity_task_id |-> t, user_id |-> u]
  <2>1. log \in LogRow
    BY RoundedTyped, DurationsAssumption DEF LogRow
  <2>2. rows' = [rows EXCEPT !.logs[w] = log] /\ UNCHANGED <<schema, version, run>>
    BY <1>4 DEF SaveLog, Write
  <2> HIDE DEF log
  <2> QED  BY <1>1, <2>1, <2>2 DEF Rows
<1>5. ASSUME NEW t \in TaskId, RemoveTask(t)
      PROVE  rows' \in Rows /\ UNCHANGED <<schema, version, run>>
  <2> DEFINE logs == [w \in LogId |->
                 IF rows.logs[w] # NoRow /\ rows.logs[w].activity_task_id = t
                 THEN [rows.logs[w] EXCEPT !.activity_task_id = Null] ELSE rows.logs[w]]
  <2>1. logs \in [LogId -> LogRow \cup {NoRow}]
    <3>1. ASSUME NEW w \in LogId, rows.logs[w] # NoRow
          PROVE  [rows.logs[w] EXCEPT !.activity_task_id = Null] \in LogRow
      <4>1. rows.logs[w] \in LogRow
        BY <1>1, <3>1 DEF Rows
      <4> QED  BY <4>1 DEF LogRow
    <3> QED  BY <1>1, <3>1 DEF Rows
  <2>2. rows' = [rows EXCEPT !.tasks[t] = NoRow, !.logs = logs] /\ UNCHANGED <<schema, version, run>>
    BY <1>5 DEF RemoveTask, Write
  <2> HIDE DEF logs
  <2> QED  BY <1>1, <2>1, <2>2 DEF Rows
<1> QED  BY <1>2, <1>3, <1>4, <1>5 DEF Written, Request

\* Every step of a deployment keeps the invariant of the runs.
LEMMA MigrationsNext ==
  ASSUME MigrationsInv, [Next]_vars
  PROVE  MigrationsInv'
<1>1. CASE Migrate
  BY <1>1, StartInv, ReviseInv, CommitInv, RollbackInv DEF Migrate
<1>2. ASSUME Written
      PROVE  MigrationsInv'
  BY <1>2, RequestTyped, RowsInv
<1>3. CASE UNCHANGED database
  BY <1>3, RowsInv DEF database, MigrationsInv, MigrationsTypeOK
<1> QED  BY <1>1, <1>2, <1>3 DEF Next, vars, database

\* Along every behaviour the invariant of the runs holds.
THEOREM RunsKeepTheChain == Spec => []MigrationsInv
<1>1. Init => MigrationsInv
  BY MigrationsInitInv DEF Init
<1>2. MigrationsInv /\ [Next]_vars => MigrationsInv'
  BY MigrationsNext
<1> QED  BY <1>1, <1>2, PTL DEF Spec

\* The committed schema is that of the committed version
\* (src/migrations/env.py:56-60, src/migrations/versions).
THEOREM SchemaIsByVersion == Spec => []SchemaByVersion
<1>1. MigrationsInv => SchemaByVersion
  BY DEF MigrationsInv
<1> QED  BY <1>1, RunsKeepTheChain, PTL

\* The schema of the last version is that of the models.
LEMMA ModelsAreLast == SchemaAt(10) = ModelsSchema
<1>1. ColumnsAt(10) = [c \in Columns |->
          IF c = "activities.expected_hours_monthly" THEN "absent" ELSE "nullable"]
  BY DEF ColumnsAt, ColumnAt, Since, Columns
<1>2. Keys10 = {TaskActivityNull, TaskUser, LogTask}
  BY DEF Keys10
<1> QED  BY <1>1, <1>2, Schemas DEF ModelsSchema

\* At the last version the schema is the one the models declare
\* (src/app/models.py).
THEOREM HeadHasModels == Spec => []HeadIsModels
<1>1. SchemaByVersion => HeadIsModels
  BY ModelsAreLast DEF SchemaByVersion, HeadIsModels, HeadVersion
<1> QED  BY <1>1, SchemaIsByVersion, PTL

(***************************************************************************)
(* The rows.  A run decides whether a revision can be made by the rows as  *)
(* they are then; they fit its schema until it commits, since what the     *)
(* requests write meanwhile is in tables its revisions have not altered,   *)
(* and to these tables the two schemas say the same.                       *)
(***************************************************************************)
\* A revision to the schema s can be made of the rows db.
Fits(db, s) == Obeys(Converted(db, s), s)

\* The committed rows obey the committed schema.
RowsObeySchema == Obeys(rows, schema)

\* Every open run can still be committed.
RunsFit == \A m \in Runners : HoldsVersion(m) => Fits(rows, run[m].schema)

FitsInv == MigrationsInv /\ RowsObeySchema /\ RunsFit

\* The parts of the schema of a version.
LEMMA SchemaParts ==
  ASSUME NEW v
  PROVE  /\ \A c \in Columns : SchemaAt(v).columns[c] = ColumnAt(v, c)
         /\ SchemaAt(v).uniques = UniquesAt(v) /\ SchemaAt(v).fkeys = FkeysAt(v)
         /\ SchemaAt(v).duration = DurationAt(v)
  BY DEF SchemaAt, Schema

\* The tables exist from the first version on.
LEMMA CreatedSince1 ==
  ASSUME NEW v \in 0 .. 10
  PROVE  Created(SchemaAt(v)) <=> v >= 1
<1>1. SchemaAt(v).duration = DurationAt(v)
  BY SchemaParts
<1>2. CASE v = 0
  BY <1>1, <1>2 DEF Created, DurationAt
<1>3. CASE v # 0
  <2>1. v >= 1
    BY <1>3
  <2>2. DurationAt(v) # "absent"
    BY <1>3 DEF DurationAt
  <2> QED  BY <1>1, <2>1, <2>2 DEF Created
<1> QED  BY <1>2, <1>3

\* From the first version on the tables are there.
LEMMA TablesCreated ==
  ASSUME NEW v \in 1 .. 10
  PROVE  Created(SchemaAt(v))
  BY CreatedSince1

\* What a revision makes of each table; rows stay rows.
LEMMA ConvertedParts ==
  ASSUME NEW db \in Rows, NEW s, Created(s)
  PROVE  /\ Converted(db, s) \in Rows
         /\ \A a \in ActivityId :
              /\ Converted(db, s).activities[a] =
                   IF db.activities[a] # NoRow /\ s.columns["activities.expected_hours_monthly"] = "absent"
                   THEN "no hours" ELSE db.activities[a]
              /\ Converted(db, s).activities[a] = NoRow <=> db.activities[a] = NoRow
         /\ \A t \in TaskId :
              /\ Converted(db, s).tasks[t] =
                   IF db.tasks[t] # NoRow /\ s.columns["activity_tasks.user_id"] = "absent"
                   THEN [db.tasks[t] EXCEPT !.user_id = Null] ELSE db.tasks[t]
              /\ Converted(db, s).tasks[t] = NoRow <=> db.tasks[t] = NoRow
         /\ \A w \in LogId :
              /\ Converted(db, s).logs[w] =
                   IF db.logs[w] # NoRow THEN [db.logs[w] EXCEPT !.duration = Rounded(s, @)] ELSE db.logs[w]
              /\ Converted(db, s).logs[w] = NoRow <=> db.logs[w] = NoRow
<1>1. Converted(db, s) \in Rows
  BY ConvertedTyped
<1>2. /\ \A a \in ActivityId : Converted(db, s).activities[a] =
                   IF db.activities[a] # NoRow /\ s.columns["activities.expected_hours_monthly"] = "absent"
                   THEN "no hours" ELSE db.activities[a]
      /\ \A t \in TaskId : Converted(db, s).tasks[t] =
                   IF db.tasks[t] # NoRow /\ s.columns["activity_tasks.user_id"] = "absent"
                   THEN [db.tasks[t] EXCEPT !.user_id = Null] ELSE db.tasks[t]
      /\ \A w \in LogId : Converted(db, s).logs[w] =
                   IF db.logs[w] # NoRow THEN [db.logs[w] EXCEPT !.duration = Rounded(s, @)] ELSE db.logs[w]
  BY DEF Converted
<1>3. \A t \in TaskId : db.tasks[t] # NoRow => [db.tasks[t] EXCEPT !.user_id = Null] # NoRow
  <2>1. ASSUME NEW t \in TaskId, db.tasks[t] # NoRow
        PROVE  [db.tasks[t] EXCEPT !.user_id = Null] \in TaskRow
    BY <2>1 DEF Rows, TaskRow
  <2> QED  BY <2>1, RowsAssumption
<1>4. \A w \in LogId : db.logs[w] # NoRow => [db.logs[w] EXCEPT !.duration = Rounded(s, @)] # NoRow
  <2>1. ASSUME NEW w \in LogId, db.logs[w] # NoRow
        PROVE  [db.logs[w] EXCEPT !.duration = Rounded(s, @)] \in LogRow
    <3>1. db.logs[w] \in LogRow
      BY <2>1 DEF Rows
    <3>2. Rounded(s, db.logs[w].duration) \in Tenths
      BY <3>1, RoundedTyped DEF LogRow
    <3> QED  BY <3>1, <3>2 DEF LogRow
  <2> QED  BY <2>1, RowsAssumption
<1> QED  BY <1>1, <1>2, <1>3, <1>4, RowsAssumption

\* Activities that obey a schema obey another that has the column they differ in, or
\* lacks it, as well.
LEMMA ActivitiesCarry ==
  ASSUME NEW db \in Rows, NEW s, NEW s2, Created(s2), ActivitiesObey(db, s),
         s2.columns["activities.expected_hours_monthly"] = s.columns["activities.expected_hours_monthly"],
         s2.columns["activities.expected_hours_monthly"] \in {"required", "absent"}
  PROVE  ActivitiesObey(Converted(db, s2), s2)
  BY ConvertedParts, RowsAssumption DEF ActivitiesObey

\* Tasks that obey a schema obey another that says the same of tasks.
LEMMA TasksCarry ==
  ASSUME NEW db \in Rows, NEW s, NEW s2, Created(s2), TasksObey(db, s),
         s2.columns["activity_tasks.activity_id"] = s.columns["activity_tasks.activity_id"],
         s2.columns["activity_tasks.user_id"] = s.columns["activity_tasks.user_id"],
         s2.columns["activity_tasks.user_id"] # "absent",
         s2.fkeys = s.fkeys, On(s2, "activity_tasks") = On(s, "activity_tasks")
  PROVE  TasksObey(Converted(db, s2), s2)
<1> DEFINE e == Converted(db, s2)
<1>1. e \in Rows /\ (\A t \in TaskId : e.tasks[t] = db.tasks[t])
      /\ \A a \in ActivityId : e.activities[a] = NoRow <=> db.activities[a] = NoRow
  BY ConvertedParts
<1> HIDE DEF e
<1>2. e.tasks = db.tasks
  <2>1. e.tasks \in [TaskId -> TaskRow \cup {NoRow}] /\ db.tasks \in [TaskId -> TaskRow \cup {NoRow}]
    BY <1>1 DEF Rows
  <2> QED  BY <1>1, <2>1
<1>3. \A t \in TaskId : db.tasks[t] # NoRow /\
        db.tasks[t].activity_id # Null => db.tasks[t].activity_id \in ActivityId
  BY DEF Rows, TaskRow
<1>4. ASSUME NEW t \in TaskId, e.tasks[t] # NoRow
      PROVE  /\ Allows(s2, "activity_tasks.activity_id", e.tasks[t].activity_id)
             /\ Allows(s2, "activity_tasks.user_id", e.tasks[t].user_id)
             /\ Refers(s2, "activity_tasks.activity_id", e.tasks[t].activity_id, e.activities)
  BY <1>1, <1>2, <1>3, <1>4 DEF TasksObey, Allows, Refers
<1>5. Distinct(e.tasks, On(s2, "activity_tasks"))
  BY <1>2 DEF TasksObey
<1> QED  BY <1>4, <1>5 DEF TasksObey, e

\* Worklogs that obey a schema obey another that says the same of worklogs.
LEMMA LogsCarry ==
  ASSUME NEW db \in Rows, NEW s, NEW s2, Created(s2), LogsObey(db, s),
         s2.columns["worklogs.activity_task_id"] = s.columns["worklogs.activity_task_id"],
         s2.duration = s.duration, s2.fkeys = s.fkeys, On(s2, "worklogs") = On(s, "worklogs")
  PROVE  LogsObey(Converted(db, s2), s2)
<1> DEFINE e == Converted(db, s2)
<1>1. \A d : Rounded(s2, d) = Rounded(s, d)
  BY DEF Rounded
<1>2. e \in Rows /\ (\A t \in TaskId : e.tasks[t] = NoRow <=> db.tasks[t] = NoRow)
  BY ConvertedParts
<1>3. ASSUME NEW w \in LogId PROVE e.logs[w] = db.logs[w]
  <2>1. CASE db.logs[w] = NoRow
    BY <2>1, ConvertedParts
  <2>2. CASE db.logs[w] # NoRow
    <3>1. db.logs[w] \in LogRow /\ Rounded(s2, db.logs[w].duration) = db.logs[w].duration
      BY <1>1, <2>2 DEF Rows, LogsObey
    <3>2. [db.logs[w] EXCEPT !.duration = Rounded(s2, @)] = db.logs[w]
      BY <3>1 DEF LogRow
    <3>3. e.logs[w] = [db.logs[w] EXCEPT !.duration = Rounded(s2, @)]
      <4>1. e.logs = [x \in LogId |->
              IF db.logs[x] # NoRow THEN [db.logs[x] EXCEPT !.duration = Rounded(s2, @)] ELSE db.logs[x]]
        BY DEF Converted
      <4> QED  BY <2>2, <4>1
    <3> QED  BY <3>2, <3>3
  <2> QED  BY <2>1, <2>2
<1> HIDE DEF e
<1>4. e.logs = db.logs
  <2>1. e.logs \in [LogId -> LogRow \cup {NoRow}] /\ db.logs \in [LogId -> LogRow \cup {NoRow}]
    BY <1>2 DEF Rows
  <2> QED  BY <1>3, <2>1
<1>5. \A w \in LogId : db.logs[w] # NoRow /\
        db.logs[w].activity_task_id # Null => db.logs[w].activity_task_id \in TaskId
  BY DEF Rows, LogRow
<1>6. ASSUME NEW w \in LogId, e.logs[w] # NoRow
      PROVE  /\ Allows(s2, "worklogs.activity_task_id", e.logs[w].activity_task_id)
             /\ Refers(s2, "worklogs.activity_task_id", e.logs[w].activity_task_id, e.tasks)
             /\ e.logs[w].duration = Rounded(s2, e.logs[w].duration)
  BY <1>1, <1>2, <1>4, <1>5, <1>6 DEF LogsObey, Allows, Refers
<1>7. Distinct(e.logs, On(s2, "worklogs"))
  BY <1>4 DEF LogsObey
<1> QED  BY <1>6, <1>7 DEF LogsObey, e

\* Tasks keep obeying a schema when activities come.
LEMMA TasksKeep ==
  ASSUME NEW db \in Rows, NEW e \in Rows, NEW s, TasksObey(db, s), e.tasks = db.tasks,
         \A a \in ActivityId : db.activities[a] # NoRow => e.activities[a] # NoRow
  PROVE  TasksObey(e, s)
<1>1. \A t \in TaskId : db.tasks[t] # NoRow /\
        db.tasks[t].activity_id # Null => db.tasks[t].activity_id \in ActivityId
  BY DEF Rows, TaskRow
<1> QED  BY <1>1 DEF TasksObey, Refers

\* Worklogs keep obeying a schema when tasks come or change.
LEMMA LogsKeep ==
  ASSUME NEW db \in Rows, NEW e \in Rows, NEW s, LogsObey(db, s), e.logs = db.logs,
         \A t \in TaskId : db.tasks[t] # NoRow => e.tasks[t] # NoRow
  PROVE  LogsObey(e, s)
<1>1. \A w \in LogId : db.logs[w] # NoRow /\
        db.logs[w].activity_task_id # Null => db.logs[w].activity_task_id \in TaskId
  BY DEF Rows, LogRow
<1> QED  BY <1>1 DEF LogsObey, Refers

\* A request writes no table that an open run has altered.
LEMMA NotLocked ==
  ASSUME MigrationsInv, NEW m \in Runners, HoldsVersion(m), NEW tables, tables \cap Locked = {},
         NEW v \in Versions, NEW table \in tables, table \in AlteredBy(v)
  PROVE  run[m].from < v <=> run[m].at < v
<1>1. run[m] \in Run /\ run[m] # Idle
  BY DEF HoldsVersion, MigrationsInv, MigrationsTypeOK
<1>2. run[m].from \in 0 .. 10 /\ run[m].at \in 0 .. 10 /\ v \in 0 .. 10
  BY <1>1, VersionsInterval DEF Run
<1>3. table \notin Locked
  OBVIOUS
<1>4. v \notin Made(run[m])
  BY <1>1, <1>3 DEF Locked
<1>5. ~(run[m].from < v /\ v <= run[m].at) /\ ~(run[m].at < v /\ v <= run[m].from)
  BY <1>4 DEF Made
<1> QED  BY <1>2, <1>5

\* Between which versions an open run moves whose tables a request writes.
LEMMA WrittenBeside ==
  ASSUME MigrationsInv, NEW m \in Runners, HoldsVersion(m), NEW tables, tables \cap Locked = {},
         tables \subseteq Tables, tables # {}
  PROVE  /\ run[m].from \in 1 .. 10 /\ run[m].at \in 1 .. 10
         /\ schema = SchemaAt(run[m].from) /\ run[m].schema = SchemaAt(run[m].at)
         /\ "activities" \in tables => (run[m].from < 8 <=> run[m].at < 8)
         /\ {"activities", "activity_tasks"} \subseteq tables =>
              \/ run[m].from \in {4, 5} /\ run[m].at \in {4, 5}
              \/ run[m].from \in {9, 10} /\ run[m].at \in {9, 10}
         /\ {"worklogs", "activity_tasks"} \subseteq tables =>
              run[m].from \in {7, 8} /\ run[m].at \in {7, 8}
<1> DEFINE f == run[m].from
           a == run[m].at
<1>1. run[m] \in Run /\ run[m] # Idle /\ f # a
  BY DEF HoldsVersion, MigrationsInv, MigrationsTypeOK
<1>2. f \in 0 .. 10 /\ a \in 0 .. 10
  BY <1>1, VersionsInterval DEF Run
<1>3. schema = SchemaAt(f) /\ run[m].schema = SchemaAt(a)
  BY <1>1 DEF MigrationsInv, RunsFollow, Built, SchemaByVersion
<1> HIDE DEF f, a
<1>4. ASSUME NEW v \in 1 .. 10, NEW table \in tables, table \in AlteredBy(v)
      PROVE  f < v <=> a < v
  <2>1. v \in Versions
    BY VersionsInterval
  <2> QED  BY <1>4, <2>1, NotLocked DEF f, a
<1>5. f < 1 <=> a < 1
  BY <1>4 DEF AlteredBy
<1>6. f \in 1 .. 10 /\ a \in 1 .. 10
  BY <1>1, <1>2, <1>5
<1>7. ASSUME "activities" \in tables
      PROVE  /\ f < 6 <=> a < 6
             /\ f < 8 <=> a < 8
  BY <1>4, <1>7 DEF AlteredBy
<1>8. ASSUME "activity_tasks" \in tables
      PROVE  /\ f < 2 <=> a < 2
             /\ f < 3 <=> a < 3
             /\ f < 4 <=> a < 4
             /\ f < 6 <=> a < 6
             /\ f < 7 <=> a < 7
             /\ f < 9 <=> a < 9
  <2>1. \A v \in {2, 3, 4, 6, 7, 9} : v \in 1 .. 10 /\ "activity_tasks" \in AlteredBy(v)
    BY DEF AlteredBy
  <2>2. \A v \in {2, 3, 4, 6, 7, 9} : f < v <=> a < v
    BY <1>4, <1>8, <2>1
  <2> QED  BY <2>2
<1>9. ASSUME "worklogs" \in tables
      PROVE  /\ f < 5 <=> a < 5
             /\ f < 10 <=> a < 10
  <2>1. \A v \in {5, 10} : v \in 1 .. 10 /\ "worklogs" \in AlteredBy(v)
    BY DEF AlteredBy
  <2> QED  BY <1>4, <1>9, <2>1
<1>10. ASSUME "activities" \in tables, "activity_tasks" \in tables
       PROVE  (f \in {4, 5} /\ a \in {4, 5}) \/ (f \in {9, 10} /\ a \in {9, 10})
  <2>1. f # a
    BY <1>1 DEF f, a
  <2> QED  BY <1>6, <1>7, <1>8, <1>10, <2>1
<1>11. ASSUME "worklogs" \in tables, "activity_tasks" \in tables
       PROVE  f \in {7, 8} /\ a \in {7, 8}
  <2>1. f # a
    BY <1>1 DEF f, a
  <2> QED  BY <1>6, <1>8, <1>9, <1>11, <2>1
<1>12. {"activities", "activity_tasks"} \subseteq tables =>
         (f \in {4, 5} /\ a \in {4, 5}) \/ (f \in {9, 10} /\ a \in {9, 10})
  BY <1>10
<1>13. {"worklogs", "activity_tasks"} \subseteq tables => f \in {7, 8} /\ a \in {7, 8}
  BY <1>11
<1>14. "activities" \in tables => (f < 8 <=> a < 8)
  BY <1>7
<1> QED  BY <1>3, <1>6, <1>12, <1>13, <1>14 DEF f, a

\* The versions that a request for a task can run between say the same of tasks.
LEMMA TasksAgree ==
  ASSUME NEW P \in {{4, 5}, {7, 8}, {9, 10}}, NEW v \in P, NEW w \in P
  PROVE  /\ SchemaAt(w).columns["activity_tasks.activity_id"] = SchemaAt(v).columns["activity_tasks.activity_id"]
         /\ SchemaAt(w).columns["activity_tasks.user_id"] = SchemaAt(v).columns["activity_tasks.user_id"]
         /\ SchemaAt(w).columns["activity_tasks.user_id"] # "absent"
         /\ SchemaAt(w).fkeys = SchemaAt(v).fkeys
         /\ On(SchemaAt(w), "activity_tasks") = On(SchemaAt(v), "activity_tasks")
<1>1. P = {4, 5} \/ P = {7, 8} \/ P = {9, 10}
  OBVIOUS
<1>2. (v \in {4, 5} /\ w \in {4, 5}) \/ (v \in {9, 10} /\ w \in {9, 10}) \/ (v \in {7, 8} /\ w \in {7, 8})
  BY <1>1
<1>3. {"activity_tasks.activity_id", "activity_tasks.user_id"} \subseteq Columns
  BY DEF Columns
<1>4. \A c \in {"activity_tasks.activity_id", "activity_tasks.user_id"} : ColumnAt(w, c) = ColumnAt(v, c)
  BY <1>2 DEF ColumnAt, Since
<1>5. ColumnAt(w, "activity_tasks.user_id") # "absent"
  BY <1>2 DEF ColumnAt, Since
<1>6. FkeysAt(w) = FkeysAt(v)
  BY <1>2 DEF FkeysAt, During
<1>7. UserTaskDate.table # "activity_tasks"
  BY DEF UserTaskDate, Unique
<1>8. {u \in UniquesAt(w) : u.table = "activity_tasks"} = {u \in UniquesAt(v) : u.table = "activity_tasks"}
  BY <1>2, <1>7, UniquesByVersion
<1> QED  BY <1>3, <1>4, <1>5, <1>6, <1>8, SchemaParts DEF On

\* The versions that a request for a worklog can run between say the same of
\* worklogs.
LEMMA LogsAgree ==
  ASSUME NEW v \in {7, 8}, NEW w \in {7, 8}
  PROVE  /\ SchemaAt(w).columns["worklogs.activity_task_id"] = SchemaAt(v).columns["worklogs.activity_task_id"]
         /\ SchemaAt(w).duration = SchemaAt(v).duration
         /\ SchemaAt(w).fkeys = SchemaAt(v).fkeys
         /\ On(SchemaAt(w), "worklogs") = On(SchemaAt(v), "worklogs")
<1>1. \A x \in {7, 8} : ColumnAt(x, "worklogs.activity_task_id") = "required"
  BY DEF ColumnAt, Since
<1>2. \A x \in {7, 8} : DurationAt(x) = "numeric(3,1)"
  BY DEF DurationAt
<1>3. FkeysAt(w) = FkeysAt(v) /\ UniquesAt(w) = UniquesAt(v)
  BY UniquesByVersion DEF FkeysAt, During
<1>4. "worklogs.activity_task_id" \in Columns
  BY DEF Columns
<1>5. /\ SchemaAt(v).columns["worklogs.activity_task_id"] = "required"
      /\ SchemaAt(w).columns["worklogs.activity_task_id"] = "required"
  BY <1>1, <1>4, SchemaParts
<1>6. SchemaAt(v).duration = "numeric(3,1)" /\ SchemaAt(w).duration = "numeric(3,1)"
  BY <1>2, SchemaParts
<1>7. SchemaAt(w).fkeys = SchemaAt(v).fkeys /\ On(SchemaAt(w), "worklogs") = On(SchemaAt(v), "worklogs")
  BY <1>3, SchemaParts DEF On
<1> QED  BY <1>5, <1>6, <1>7

\* The versions before 8 agree on the column that revision drops, and so do the others.
LEMMA ActivitiesAgree ==
  ASSUME NEW v \in 1 .. 10, NEW w \in 1 .. 10, v < 8 <=> w < 8
  PROVE  /\ SchemaAt(w).columns["activities.expected_hours_monthly"]
              = SchemaAt(v).columns["activities.expected_hours_monthly"]
         /\ SchemaAt(w).columns["activities.expected_hours_monthly"] \in {"required", "absent"}
<1>1. \A x \in 1 .. 10 : SchemaAt(x).columns["activities.expected_hours_monthly"] =
                          IF x < 8 THEN "required" ELSE "absent"
  BY SchemaParts DEF Columns, ColumnAt
<1> QED  BY <1>1

\* A new activity fits into every schema that a run may have built beside it.
LEMMA AddActivityFits ==
  ASSUME FitsInv, NEW m \in Runners, HoldsVersion(m), NEW a \in ActivityId, AddActivity(a)
  PROVE  Fits(rows, run[m].schema)'
<1> DEFINE s == run[m].schema
           d == Converted(rows, s)
           e == Converted(rows', s)
<1> USE DEF FitsInv, MigrationsInv
<1>1. PICK kind \in {"hours", "no hours"} :
        /\ {"activities"} \cap Locked = {}
        /\ Obeys(rows', schema)
        /\ rows' = [rows EXCEPT !.activities[a] = kind]
        /\ rows.activities[a] = NoRow /\ run' = run
  BY DEF AddActivity, Write
<1>2. rows \in Rows /\ rows' \in Rows
  BY <1>1 DEF MigrationsTypeOK, Rows
<1>3. /\ run[m].from \in 1 .. 10 /\ run[m].at \in 1 .. 10
      /\ schema = SchemaAt(run[m].from) /\ s = SchemaAt(run[m].at)
  BY <1>1, WrittenBeside DEF Tables
<1>a. run[m].from < 8 <=> run[m].at < 8
  BY <1>1, WrittenBeside DEF Tables
<1>4. Created(s)
  BY <1>3, TablesCreated
<1>5. Obeys(d, s)
  BY DEF RunsFit, Fits
<1>6. ActivitiesObey(e, s)
  BY <1>1, <1>2, <1>3, <1>4, <1>a, ActivitiesAgree, ActivitiesCarry DEF Obeys
<1>7. d \in Rows /\ e \in Rows
  BY <1>2, ConvertedTyped
<1>8. rows'.tasks = rows.tasks /\ rows'.logs = rows.logs
  BY <1>1, <1>2 DEF Rows
<1>9. e.tasks = d.tasks /\ e.logs = d.logs
  BY <1>4, <1>8 DEF Converted
<1>10. \A x \in ActivityId : d.activities[x] # NoRow => e.activities[x] # NoRow
  <2>1. \A x \in ActivityId : rows.activities[x] # NoRow => rows'.activities[x] # NoRow
    BY <1>1, <1>2 DEF Rows
  <2> QED  BY <1>2, <1>4, <2>1, ConvertedParts
<1> HIDE DEF d, e, s
<1>11. TasksObey(e, s)
  BY <1>5, <1>7, <1>9, <1>10, TasksKeep DEF Obeys
<1>12. LogsObey(e, s)
  BY <1>5, <1>7, <1>9, LogsKeep DEF Obeys
<1>13. Obeys(e, s)
  BY <1>4, <1>6, <1>11, <1>12 DEF Obeys
<1> QED  BY <1>1, <1>13 DEF Fits, e, s

\* A saved task fits as well.
LEMMA SaveTaskFits ==
  ASSUME FitsInv, NEW m \in Runners, HoldsVersion(m), NEW t \in TaskId, NEW title \in Titles,
         NEW a \in ActivityId, NEW u \in Users, SaveTask(t, title, a, u), rows' \in Rows
  PROVE  Fits(rows, run[m].schema)'
<1> DEFINE s == run[m].schema
           d == Converted(rows, s)
           e == Converted(rows', s)
           task == [title |-> title, activity_id |-> a,
                    user_id |-> IF schema.columns["activity_tasks.user_id"] = "absent" THEN Null ELSE u]
<1> USE DEF FitsInv, MigrationsInv
<1>1. /\ {"activity_tasks", "activities"} \cap Locked = {}
      /\ Obeys(rows', schema)
      /\ rows' = [rows EXCEPT !.tasks[t] = task]
      /\ run' = run
  BY DEF SaveTask, Write
<1>a. task \in TaskRow
  BY DEF TaskRow
<1> HIDE DEF task
<1>2. rows \in Rows /\ task # NoRow
  BY <1>a, RowsAssumption DEF MigrationsTypeOK
<1>3. /\ run[m].from \in 1 .. 10 /\ run[m].at \in 1 .. 10
      /\ \/ run[m].from \in {4, 5} /\ run[m].at \in {4, 5}
         \/ run[m].from \in {9, 10} /\ run[m].at \in {9, 10}
      /\ schema = SchemaAt(run[m].from) /\ s = SchemaAt(run[m].at)
  BY <1>1, WrittenBeside DEF Tables
<1>4. Created(s)
  BY <1>3, TablesCreated
<1>5. Obeys(d, s)
  BY DEF RunsFit, Fits
<1>6. TasksObey(e, s)
  BY <1>1, <1>3, <1>4, TasksAgree, TasksCarry DEF Obeys
<1>7. d \in Rows /\ e \in Rows
  BY <1>2, ConvertedTyped
<1>8. rows'.activities = rows.activities /\ rows'.logs = rows.logs
  BY <1>1, <1>2 DEF Rows
<1>9. e.activities = d.activities /\ e.logs = d.logs
  BY <1>4, <1>8 DEF Converted
<1>10. \A x \in TaskId : d.tasks[x] # NoRow => e.tasks[x] # NoRow
  <2>1. \A x \in TaskId : rows.tasks[x] # NoRow => rows'.tasks[x] # NoRow
    BY <1>1, <1>2 DEF Rows
  <2>2. \A x \in TaskId : d.tasks[x] = NoRow <=> rows.tasks[x] = NoRow
    BY <1>2, <1>4, ConvertedParts
  <2>3. \A x \in TaskId : e.tasks[x] = NoRow <=> rows'.tasks[x] = NoRow
    BY <1>4, ConvertedParts
  <2> QED  BY <2>1, <2>2, <2>3
<1> HIDE DEF d, e, s
<1>11. ActivitiesObey(e, s)
  BY <1>5, <1>9 DEF Obeys, ActivitiesObey
<1>12. LogsObey(e, s)
  BY <1>5, <1>7, <1>9, <1>10, LogsKeep DEF Obeys
<1>13. Obeys(e, s)
  BY <1>4, <1>6, <1>11, <1>12 DEF Obeys
<1> QED  BY <1>1, <1>13 DEF Fits, e, s

\* So do a saved worklog and what the removal of a task leaves.
LEMMA LogsFit ==
  ASSUME FitsInv, NEW m \in Runners, HoldsVersion(m),
         {"worklogs", "activity_tasks"} \cap Locked = {}, Obeys(rows', schema),
         rows' \in Rows, rows'.activities = rows.activities, run' = run
  PROVE  Fits(rows, run[m].schema)'
<1> DEFINE s == run[m].schema
           d == Converted(rows, s)
           e == Converted(rows', s)
<1> USE DEF FitsInv, MigrationsInv
<1>1. /\ run[m].from \in 1 .. 10 /\ run[m].at \in 1 .. 10
      /\ run[m].from \in {7, 8} /\ run[m].at \in {7, 8}
      /\ schema = SchemaAt(run[m].from) /\ s = SchemaAt(run[m].at)
  BY WrittenBeside DEF Tables
<1>2. Created(s)
  BY <1>1, TablesCreated
<1>3. Obeys(d, s)
  BY DEF RunsFit, Fits
<1>4. TasksObey(e, s)
  BY <1>1, <1>2, TasksAgree, TasksCarry DEF Obeys
<1>5. LogsObey(e, s)
  BY <1>1, <1>2, LogsAgree, LogsCarry DEF Obeys
<1>6. e.activities = d.activities
  BY <1>2 DEF Converted
<1> HIDE DEF d, e, s
<1>7. ActivitiesObey(e, s)
  BY <1>3, <1>6 DEF Obeys, ActivitiesObey
<1>8. Obeys(e, s)
  BY <1>2, <1>4, <1>5, <1>7 DEF Obeys
<1> QED  BY <1>8 DEF Fits, e, s

\* What is written beside the runs fits into the schema of every open run.
LEMMA RequestFits ==
  ASSUME FitsInv, Written
  PROVE  RowsObeySchema' /\ RunsFit'
<1>1. rows' \in Rows /\ UNCHANGED <<schema, version, run>>
  BY RequestTyped DEF FitsInv
<1>2. RowsObeySchema'
  BY <1>1 DEF Written, Request, AddActivity, SaveTask, RemoveTask, SaveLog, Write, RowsObeySchema
<1>3. ASSUME NEW m \in Runners, HoldsVersion(m)
      PROVE  Fits(rows, run[m].schema)'
  <2>1. rows \in Rows
    BY DEF FitsInv, MigrationsInv, MigrationsTypeOK
  <2>2. ASSUME NEW t \in TaskId, RemoveTask(t)
        PROVE  Fits(rows, run[m].schema)'
    BY <1>1, <1>3, <2>1, <2>2, LogsFit DEF RemoveTask, Write, Rows
  <2>3. ASSUME NEW w \in LogId, NEW t \in TaskId, NEW u \in Users, NEW d \in Dates, NEW h \in Durations,
               SaveLog(w, t, u, d, h)
        PROVE  Fits(rows, run[m].schema)'
    BY <1>1, <1>3, <2>1, <2>3, LogsFit DEF SaveLog, Write, Rows
  <2> QED  BY <1>1, <1>3, <2>2, <2>3, AddActivityFits, SaveTaskFits DEF Written, Request
<1>4. \A m \in Runners : HoldsVersion(m)' <=> HoldsVersion(m)
  BY <1>1 DEF HoldsVersion
<1> QED  BY <1>2, <1>3, <1>4 DEF RunsFit

\* Runs fit at every step: a revision is made of rows that fit, and no other run
\* commits before its end.
LEMMA FitsNext ==
  ASSUME FitsInv, [Next]_vars
  PROVE  FitsInv'
<1>0. MigrationsInv'
  BY MigrationsNext DEF FitsInv
<1>1. ASSUME NEW m \in Runners, NEW to \in Targets, Start(m, to)
      PROVE  RowsObeySchema' /\ RunsFit'
  <2>1. UNCHANGED <<rows, schema>> /\ ~HoldsVersion(m)'
        /\ \A n \in Runners \ {m} : run'[n] = run[n]
    BY <1>1 DEF Start, HoldsVersion, FitsInv, MigrationsInv, MigrationsTypeOK
  <2> QED  BY <2>1 DEF FitsInv, RowsObeySchema, RunsFit, HoldsVersion
<1>2. ASSUME NEW m \in Runners, Revise(m)
      PROVE  RowsObeySchema' /\ RunsFit'
  <2>1. /\ UNCHANGED <<rows, schema>> /\ Fits(rows, run'[m].schema)
        /\ \A n \in Runners \ {m} : run'[n] = run[n] /\ ~HoldsVersion(n)
    BY <1>2 DEF Revise, Fits, FitsInv, MigrationsInv, MigrationsTypeOK
  <2> QED  BY <2>1 DEF FitsInv, RowsObeySchema, RunsFit, HoldsVersion
<1>3. ASSUME NEW m \in Runners, CommitRun(m)
      PROVE  RowsObeySchema' /\ RunsFit'
  <2>1. /\ run[m] # Idle /\ run[m].at = run[m].to /\ rows' = Converted(rows, run[m].schema)
        /\ schema' = run[m].schema
        /\ \A n \in Runners : run'[n] = IF n = m THEN Idle ELSE run[n]
    BY <1>3 DEF CommitRun, FitsInv, MigrationsInv, MigrationsTypeOK
  <2>2. HoldsVersion(m)
    BY <2>1 DEF HoldsVersion, FitsInv, MigrationsInv, RunsFollow, Course
  <2>3. \A n \in Runners : ~HoldsVersion(n)'
    BY <2>1, <2>2 DEF HoldsVersion, FitsInv, MigrationsInv, OneHolder
  <2> QED  BY <2>1, <2>2, <2>3 DEF FitsInv, RowsObeySchema, RunsFit, Fits
<1>4. ASSUME NEW m \in Runners, RollbackRun(m)
      PROVE  RowsObeySchema' /\ RunsFit'
  <2>1. UNCHANGED <<rows, schema>> /\ \A n \in Runners : run'[n] = IF n = m THEN Idle ELSE run[n]
    BY <1>4 DEF RollbackRun, FitsInv, MigrationsInv, MigrationsTypeOK
  <2> QED  BY <2>1 DEF FitsInv, RowsObeySchema, RunsFit, HoldsVersion
<1>5. ASSUME UNCHANGED database
      PROVE  RowsObeySchema' /\ RunsFit'
  <2>1. schema' = schema /\ rows' = rows /\ run' = run
    BY <1>5 DEF database
  <2>2. RowsObeySchema' = RowsObeySchema
    BY <2>1 DEF RowsObeySchema
  <2>3. RunsFit' = RunsFit
    BY <2>1 DEF RunsFit, HoldsVersion
  <2> QED  BY <2>2, <2>3 DEF FitsInv
<1>6. RowsObeySchema' /\ RunsFit'
  BY <1>1, <1>2, <1>3, <1>4, <1>5, RequestFits DEF Next, Migrate, vars, database
<1> QED  BY <1>0, <1>6 DEF FitsInv

\* A new database has no rows.
LEMMA FitsInit == MigrationsInit => FitsInv
<1> SUFFICES ASSUME MigrationsInit PROVE FitsInv
  OBVIOUS
<1>1. RunsFit
  BY DEF MigrationsInit, RunsFit, HoldsVersion
<1>2. ActivitiesObey(NoRows, EmptySchema)
  BY RowsAssumption DEF ActivitiesObey, NoRows
<1>3. TasksObey(NoRows, EmptySchema) /\ LogsObey(NoRows, EmptySchema)
  BY DEF TasksObey, LogsObey, NoRows, Distinct
<1>4. RowsObeySchema
  BY <1>2, <1>3 DEF MigrationsInit, RowsObeySchema, Obeys
<1> QED  BY <1>1, <1>4, MigrationsInitInv DEF FitsInv

\* Along every behaviour the rows fit the open runs.
LEMMA RunsAlwaysFit == Spec => []FitsInv
<1>1. Init => FitsInv
  BY FitsInit DEF Init
<1>2. FitsInv /\ [Next]_vars => FitsInv'
  BY FitsNext
<1> QED  BY <1>1, <1>2, PTL DEF Spec

\* What an upgrade makes of tasks and worklogs: nothing.
LEMMA UpgradeKeeps ==
  ASSUME FitsInv, NEW m \in Runners, CommitRun(m), version' > version
  PROVE  rows'.tasks = rows.tasks /\ rows'.logs = rows.logs
<1> DEFINE f == run[m].from
           a == run[m].at
           s == run[m].schema
<1> USE DEF FitsInv, MigrationsInv
<1>1. run[m] \in Run /\ run[m] # Idle /\ run[m].at = run[m].to /\ rows' = Converted(rows, s)
  BY DEF CommitRun, MigrationsTypeOK
<1>2. version = f /\ version' = a /\ f \in 0 .. 10 /\ a \in 0 .. 10 /\ f < a
  BY <1>1, CommitInv, VersionsInterval DEF Run
<1>3. schema = SchemaAt(f) /\ s = SchemaAt(a)
  BY <1>1, <1>2 DEF SchemaByVersion, RunsFollow, Built
<1>4. rows \in Rows /\ Obeys(rows, schema)
  BY DEF MigrationsTypeOK, RowsObeySchema
<1>5. Created(s)
  BY <1>2, <1>3, CreatedSince1
<1>6. rows' \in Rows
  BY <1>1, <1>4, ConvertedTyped
<1>7. f = 0 => rows = NoRows
  BY <1>2, <1>3, <1>4, CreatedSince1 DEF Obeys
<1>8. ASSUME NEW t \in TaskId PROVE rows'.tasks[t] = rows.tasks[t]
  <2>1. CASE f = 0
    <3>1. rows.tasks[t] = NoRow
      BY <1>7, <2>1 DEF NoRows
    <3> QED  BY <1>1, <1>5, <3>1 DEF Converted
  <2>2. CASE f # 0
    <3>1. a >= 2
      BY <1>2, <2>2
    <3>2. ColumnAt(a, "activity_tasks.user_id") # "absent"
      BY <1>2, <3>1 DEF ColumnAt, Since
    <3>3. s.columns["activity_tasks.user_id"] # "absent"
      BY <1>3, <3>2, SchemaParts DEF Columns
    <3> QED  BY <1>1, <1>5, <3>3 DEF Converted
  <2> QED  BY <2>1, <2>2
<1>9. ASSUME NEW w \in LogId PROVE rows'.logs[w] = rows.logs[w]
  <2>0. rows'.logs[w] = IF rows.logs[w] # NoRow THEN [rows.logs[w] EXCEPT !.duration = Rounded(s, @)]
                                                ELSE rows.logs[w]
    BY <1>1, <1>5 DEF Converted
  <2>1. CASE rows.logs[w] = NoRow
    BY <2>0, <2>1
  <2>2. CASE rows.logs[w] # NoRow
    <3>1. rows.logs[w] \in LogRow /\ rows.logs[w].duration = Rounded(schema, rows.logs[w].duration)
      BY <1>4, <2>2 DEF Rows, Obeys, LogsObey
    <3>2. f # 0
      BY <1>7, <2>2 DEF NoRows
    <3>3. schema.duration = DurationAt(f) /\ s.duration = DurationAt(a)
      BY <1>3, SchemaParts
    <3>4. DurationAt(a) \in {"smallint", "numeric(1,0)"} => DurationAt(f) \in {"smallint", "numeric(1,0)"}
      BY <1>2, <3>2 DEF DurationAt
    <3>5. Rounded(s, rows.logs[w].duration) = rows.logs[w].duration
      BY <3>1, <3>3, <3>4 DEF Rounded
    <3> QED  BY <2>0, <2>2, <3>1, <3>5 DEF LogRow
  <2> QED  BY <2>1, <2>2
<1>10. rows'.tasks = rows.tasks
  <2>1. rows.tasks \in [TaskId -> TaskRow \cup {NoRow}] /\ rows'.tasks \in [TaskId -> TaskRow \cup {NoRow}]
    BY <1>4, <1>6 DEF Rows
  <2> QED  BY <1>8, <2>1
<1>11. rows'.logs = rows.logs
  <2>1. rows.logs \in [LogId -> LogRow \cup {NoRow}] /\ rows'.logs \in [LogId -> LogRow \cup {NoRow}]
    BY <1>4, <1>6 DEF Rows
  <2> QED  BY <1>9, <2>1
<1> QED  BY <1>10, <1>11

\* Whichever runs go up, and whatever is saved meanwhile, no task and no worklog is lost
\* or changed by an upgrade (src/migrations/versions).
THEOREM UpgradesKeepRows == Spec => UpgradeKeepsRows
<1>1. FitsInv /\ [Next]_vars =>
        [version' > version => /\ rows'.tasks = rows.tasks
                               /\ rows'.logs = rows.logs]_vars
  <2> SUFFICES ASSUME FitsInv, [Next]_vars, version' > version
               PROVE  rows'.tasks = rows.tasks /\ rows'.logs = rows.logs
    OBVIOUS
  <2>1. version' # version
    BY VersionsInterval DEF FitsInv, MigrationsInv, MigrationsTypeOK
  <2>2. ~Written
    BY <2>1, RequestTyped DEF FitsInv
  <2>3. PICK m \in Runners : CommitRun(m)
    BY <2>1, <2>2 DEF Next, vars, database, Migrate, Start, Revise, RollbackRun
  <2> QED  BY <2>3, UpgradeKeeps
<1> QED  BY <1>1, RunsAlwaysFit, PTL DEF Spec, UpgradeKeepsRows

(***************************************************************************)
(* The backend process.                                                    *)
(***************************************************************************)
\* Requests run between the two halves of the lifespan, where the engine and
\* the Redis client are.
LifeInv ==
    /\ LifecycleTypeOK
    /\ process \in {"serving", "stopping"} => engine = "open" /\ redis = TRUE
    /\ process = "starting" => engine = "open"
    /\ \A r \in Requests : session[r] => process \in {"serving", "stopping"}
    /\ process = "returning" => calls # 0

\* The invariant of the process holds before it is started.
LEMMA LifeInit == LifecycleInit => LifeInv
<1>1. 0 \in 0 .. RecursionLimit
  BY RecursionAssumption
<1> QED  BY <1>1 DEF LifecycleInit, LifeInv, LifecycleTypeOK, Phases

\* Every step of a deployment keeps the invariant of the process.
LEMMA LifeNext ==
  ASSUME LifeInv, [Next]_vars
  PROVE  LifeInv'
<1> USE RecursionAssumption DEF LifeInv, LifecycleTypeOK, Phases
<1>1. CASE Boot
  BY <1>1 DEF Boot
<1>2. CASE Connect
  BY <1>2 DEF Connect
<1>3. ASSUME NEW r \in Requests, OpenSession(r)
      PROVE  LifeInv'
  BY <1>3 DEF OpenSession
<1>4. ASSUME NEW r \in Requests, CloseSession(r)
      PROVE  LifeInv'
  BY <1>4 DEF CloseSession
<1>5. CASE Signal
  BY <1>5 DEF Signal
<1>6. CASE CloseEngine
  BY <1>6 DEF CloseEngine
<1>7. CASE Disconnect
  BY <1>7 DEF Disconnect
<1>8. CASE Killed
  <2>1. 0 \in 0 .. RecursionLimit
    BY RecursionAssumption
  <2> QED  BY <1>8, <2>1 DEF Killed, Exit
<1>9. CASE UNCHANGED life
  BY <1>9 DEF life
<1> QED
  BY <1>1, <1>2, <1>3, <1>4, <1>5, <1>6, <1>7, <1>8, <1>9 DEF Next, Live, vars, life

\* The invariant of the process holds along every behaviour.
LEMMA LifeAlways == Spec => []LifeInv
<1>1. Init => LifeInv
  BY LifeInit DEF Init
<1>2. LifeInv /\ [Next]_vars => LifeInv'
  BY LifeNext
<1> QED  BY <1>1, <1>2, PTL DEF Spec

\* Requests have an engine and a Redis client, in every phase of the process
\* (src/app/core/setup.py:27-33).
THEOREM RequestsAreServed == Spec => []RequestsServed
<1>1. LifeInv => RequestsServed
  BY DEF LifeInv, RequestsServed
<1> QED  BY <1>1, LifeAlways, PTL

\* Every variable of a deployment keeps its type.
THEOREM DeploymentTyped == Spec => []TypeOK
<1>1. MigrationsInv /\ LifeInv => TypeOK
  BY DEF MigrationsInv, LifeInv, TypeOK
<1> QED  BY <1>1, RunsKeepTheChain, LifeAlways, PTL

=============================================================================
