------------------------------- MODULE Seeder -------------------------------
(***************************************************************************)
(* The seeder container (src/app/seed/data.py): six steps, each in a       *)
(* session of its own and committed at its end, started beside the         *)
(* migrations and the backend (src/docker-compose.yml).  It may crash and  *)
(* be started again, and two of them may run together, while clients       *)
(* register and employees remove their tasks.                              *)
(*                                                                         *)
(* A step is one INSERT ... ON CONFLICT and its COMMIT: another insert of  *)
(* a key waits until it is over, and all seeders insert in one order, so   *)
(* that a step takes effect as a whole.                                    *)
(***************************************************************************)
EXTENDS Integers, FiniteSets, FiniteSetsExt

CONSTANTS
    Seeders,      \* seeder slots: a slot runs one seeder after another
    Admin,        \* the admin's email
    Employees,    \* the employees' emails
    Projects,     \* the ids of the activities of the first type
    Others,       \* the ids of those of the second
    UserId,       \* users.id
    MaxRuns,      \* bound: how often a seeder is started
    MaxCrashes,   \* bound: how often one crashes
    NoRow

Emails == Employees \cup {Admin}

ASSUME SeederAssumption ==
    /\ IsFiniteSet(UserId) /\ IsFiniteSet(Employees) /\ Cardinality(Emails) <= Cardinality(UserId)
    /\ Admin \notin Employees
    /\ Employees # {} /\ Projects # {} /\ Projects \cap Others = {}
    /\ MaxRuns \in Nat /\ MaxCrashes \in Nat
    /\ NoRow \notin UserId \cup [id : UserId, role : {"admin", "user"}]

VARIABLES
    migrated,     \* the schema is at head
    users,        \* users, by email
    activities,   \* the ids of the rows in activities
    assigned,     \* activity_users, as pairs <<user_id, activity_id>>
    tasks,        \* activity_tasks; the seeder's titles name activity and employee
    pc,           \* pc[s]: the step s is at
    known,        \* known[s]: the users its upserts returned, by email
    runs, crashes,
    seeded        \* a run has completed

vars == <<migrated, users, activities, assigned, tasks, pc, known, runs, crashes, seeded>>
tables == <<users, activities, assigned, tasks>>

UserRow == [id : UserId, role : {"admin", "user"}]
TaskRow == [activity : Projects, employee : Employees, user : UserId]

Steps == {"off", "admin", "employees", "types", "projects", "others", "assign", "tasks",
          "done", "failed", "crashed"}

TypeOK ==
    /\ migrated \in BOOLEAN
    /\ users \in [Emails -> UserRow \cup {NoRow}]
    /\ activities \subseteq Projects \cup Others
    /\ assigned \subseteq UserId \X Projects
    /\ tasks \subseteq TaskRow
    /\ pc \in [Seeders -> Steps]
    /\ known \in [Seeders -> [Emails -> UserId \cup {NoRow}]]
    /\ runs \in 0 .. MaxRuns
    /\ crashes \in 0 .. MaxCrashes
    /\ seeded \in BOOLEAN

Nobody == [e \in Emails |-> NoRow]

Init ==
    /\ migrated = FALSE
    /\ users = Nobody
    /\ activities = {}
    /\ assigned = {}
    /\ tasks = {}
    /\ pc = [s \in Seeders |-> "off"]
    /\ known = [s \in Seeders |-> Nobody]
    /\ runs = 0
    /\ crashes = 0
    /\ seeded = FALSE

Running(s) == pc[s] \notin {"off", "done", "failed", "crashed"}
----------------------------------------------------------------------------
(* What runs beside the seeders.                                           *)

\* alembic upgrade head
Migrate ==
    /\ ~migrated
    /\ migrated' = TRUE
    /\ UNCHANGED <<users, activities, assigned, tasks, pc, known, runs, crashes, seeded>>

FreshUser(id) == \A e \in Emails : users[e] # NoRow => users[e].id # id

\* POST /auth/register with an email the seeder uses too.
Register ==
    /\ migrated
    /\ \E e \in Emails, id \in UserId :
         /\ users[e] = NoRow /\ FreshUser(id)
         /\ users' = [users EXCEPT ![e] = [id |-> id, role |-> "user"]]
    /\ UNCHANGED <<migrated, activities, assigned, tasks, pc, known, runs, crashes, seeded>>

\* An employee deletes a task, or gives it a title of their own.
RemoveTask ==
    /\ \E t \in tasks : tasks' = tasks \ {t}
    /\ UNCHANGED <<migrated, users, activities, assigned, pc, known, runs, crashes, seeded>>
----------------------------------------------------------------------------
(* The steps of a seeder.                                                  *)

GoTo(s, step) == pc' = [pc EXCEPT ![s] = step]

Start(s) ==
    /\ ~Running(s)
    /\ runs < MaxRuns
    /\ runs' = runs + 1
    /\ GoTo(s, "admin")
    /\ known' = [known EXCEPT ![s] = Nobody]
    /\ UNCHANGED <<migrated, tables, crashes, seeded>>

\* A mutant of Upserted: a row that conflicts is given the new id.
MutantUpserted(es, role, f) ==
    [e \in Emails |-> IF e \in es THEN [id |-> f[e], role |-> role] ELSE users[e]]

\* INSERT INTO users ... ON CONFLICT (email) DO UPDATE: a row that is there
\* keeps its id, a new one gets f's.
Upserted(es, role, f) ==
    [e \in Emails |-> IF e \notin es THEN users[e]
                      ELSE [id |-> IF users[e] = NoRow THEN f[e] ELSE users[e].id, role |-> role]]

\* A mutant of SeedUsers: on conflict nothing is done, and nothing returned.
MutantSeedUsers(s, es, role) ==
    /\ \E f \in [es -> UserId] :
         /\ \A e \in es : users[e] = NoRow => FreshUser(f[e])
         /\ \A d, e \in es : d # e => f[d] # f[e]
         /\ users' = [e \in Emails |-> IF e \in es /\ users[e] = NoRow
                                      THEN [id |-> f[e], role |-> role] ELSE users[e]]
    /\ known' = [known EXCEPT ![s] = [e \in Emails |->
                   IF e \in es /\ users[e] = NoRow THEN users'[e].id ELSE @[e]]]

\* Users with these emails are there afterwards, and returned.
SeedUsers(s, es, role) ==
    /\ \E f \in [es -> UserId] :
         /\ \A e \in es : users[e] = NoRow => FreshUser(f[e])
         /\ \A d, e \in es : d # e => f[d] # f[e]
         /\ users' = Upserted(es, role, f)
    /\ known' = [known EXCEPT ![s] = [e \in Emails |-> IF e \in es THEN users'[e].id ELSE @[e]]]

SeedAdmin(s) ==
    /\ pc[s] = "admin" /\ migrated
    /\ SeedUsers(s, {Admin}, "admin")
    /\ GoTo(s, "employees")
    /\ UNCHANGED <<migrated, activities, assigned, tasks, runs, crashes, seeded>>

\* A mutant of SeedEmployees: a plain INSERT.
MutantSeedEmployees(s) ==
    /\ pc[s] = "employees" /\ migrated
    /\ \/ /\ \E e \in Employees : users[e] # NoRow
          /\ GoTo(s, "failed")
          /\ UNCHANGED <<users, known>>
       \/ /\ \A e \in Employees : users[e] = NoRow
          /\ SeedUsers(s, Employees, "user")
          /\ GoTo(s, "types")
    /\ UNCHANGED <<migrated, activities, assigned, tasks, runs, crashes, seeded>>

SeedEmployees(s) ==
    /\ pc[s] = "employees" /\ migrated
    /\ SeedUsers(s, Employees, "user")
    /\ GoTo(s, "types")
    /\ UNCHANGED <<migrated, activities, assigned, tasks, runs, crashes, seeded>>

\* The three types have fixed ids and nothing else writes them.
SeedTypes(s) ==
    /\ pc[s] = "types" /\ migrated
    /\ GoTo(s, "projects")
    /\ UNCHANGED <<migrated, tables, known, runs, crashes, seeded>>

\* Two upserts in one session, each with its commit.
SeedActivities(s) ==
    /\ migrated
    /\ \/ /\ pc[s] = "projects"
          /\ activities' = activities \cup Projects
          /\ GoTo(s, "others")
       \/ /\ pc[s] = "others"
          /\ activities' = activities \cup Others
          /\ GoTo(s, "assign")
    /\ UNCHANGED <<migrated, users, assigned, tasks, known, runs, crashes, seeded>>

\* ON CONFLICT (user_id, activity_id) DO UPDATE, for the employees the upsert
\* returned and the projects.
SeedAssignments(s) ==
    /\ pc[s] = "assign" /\ migrated
    /\ assigned' = assigned \cup {known[s][e] : e \in Employees} \X Projects
    /\ GoTo(s, "tasks")
    /\ UNCHANGED <<migrated, users, activities, tasks, known, runs, crashes, seeded>>

NewTasks(s) ==
    {[activity |-> a, employee |-> e, user |-> known[s][e]] : a \in Projects, e \in Employees}

\* uq_title_activity_id
Clashes(s) ==
    \E t \in tasks, n \in NewTasks(s) : t.activity = n.activity /\ t.employee = n.employee

\* A mutant of SeedTasks: the tasks are inserted and committed one by one.
MutantSeedTasks(s) ==
    /\ pc[s] = "tasks" /\ migrated
    /\ \/ Clashes(s) /\ GoTo(s, "failed") /\ UNCHANGED <<tasks, seeded>>
       \/ \E n \in NewTasks(s) :
            /\ ~Clashes(s)
            /\ tasks' = tasks \cup {n}
            /\ IF NewTasks(s) \subseteq tasks' THEN GoTo(s, "done") /\ seeded' = TRUE
                                              ELSE UNCHANGED <<pc, seeded>>
    /\ UNCHANGED <<migrated, users, activities, assigned, known, runs, crashes>>

\* The ids are new, so that nothing conflicts on them; a title that is there
\* already fails the whole statement.
SeedTasks(s) ==
    /\ pc[s] = "tasks" /\ migrated
    /\ \/ Clashes(s) /\ GoTo(s, "failed") /\ UNCHANGED <<tasks, seeded>>
       \/ /\ ~Clashes(s)
          /\ tasks' = tasks \cup NewTasks(s)
          /\ GoTo(s, "done")
          /\ seeded' = TRUE
    /\ UNCHANGED <<migrated, users, activities, assigned, known, runs, crashes>>

\* A statement on a table the migrations have not made yet.
NoTable(s) ==
    /\ Running(s) /\ ~migrated
    /\ GoTo(s, "failed")
    /\ UNCHANGED <<migrated, tables, known, runs, crashes, seeded>>

\* The process dies, or loses the database: the step under way is rolled back,
\* the ones before it stay.
Crash(s) ==
    /\ Running(s)
    /\ crashes < MaxCrashes
    /\ crashes' = crashes + 1
    /\ GoTo(s, "crashed")
    /\ UNCHANGED <<migrated, tables, known, runs, seeded>>

Step(s) ==
    \/ SeedAdmin(s) \/ SeedEmployees(s) \/ SeedTypes(s) \/ SeedActivities(s)
    \/ SeedAssignments(s) \/ SeedTasks(s) \/ NoTable(s)

Next ==
    \/ Migrate \/ Register \/ RemoveTask
    \/ \E s \in Seeders : Start(s) \/ Step(s) \/ Crash(s)

Spec == Init /\ [][Next]_vars

\* The migrations run and so does a seeder that was started, which the
\* containers do once; nothing starts it again (restart: "no").
Fairness ==
    /\ WF_vars(Migrate)
    /\ \A s \in Seeders : WF_vars(Step(s)) /\ WF_vars(runs = 0 /\ Start(s))

FairSpec == Spec /\ Fairness

=============================================================================
