---------------------------- MODULE SeederProofs ----------------------------
(***************************************************************************)
(* Theorems about the seeder, for any employees and projects, any number   *)
(* of seeders, and any number of runs and crashes.                         *)
(***************************************************************************)
EXTENDS SeederProperties, TLAPS

\* The steps that come after a step of the seeder has been committed.
AfterAdmin == {"employees", "types", "projects", "others", "assign", "tasks"}
AfterEmployees == AfterAdmin \ {"employees"}
AfterProjects == {"others", "assign", "tasks"}
AfterOthers == {"assign", "tasks"}

\* What a seeder knows of a user is so, and every employee's role is "user".
Accounts ==
    /\ \A s \in Seeders, e \in Emails : known[s][e] # NoRow
          => users[e] # NoRow /\ users[e].id = known[s][e]
    /\ \A e \in Employees : users[e] # NoRow => users[e].role = "user"

\* What a seeder at some step, knowing ids, has left in the tables.
Left(step, ids) ==
    /\ step \in AfterAdmin => users[Admin] # NoRow /\ users[Admin].role = "admin"
    /\ step \in AfterEmployees => \A e \in Employees : ids[e] # NoRow
    /\ step \in AfterProjects => Projects \subseteq activities
    /\ step \in AfterOthers => Others \subseteq activities
    /\ step = "tasks" => \A e \in Employees, a \in Projects : <<ids[e], a>> \in assigned

\* The tasks of a seeder are stored with the end of its run only.
Whole == tasks # {} => seeded

IInv == TypeOK /\ Accounts /\ Whole /\ \A s \in Seeders : Left(pc[s], known[s])

\* An upsert of users stores and returns them, keeps the ids there are, and
\* leaves other users alone.
LEMMA SeedUsersEffect ==
    ASSUME TypeOK, NEW s \in Seeders, NEW es \in SUBSET Emails, NEW role \in {"admin", "user"},
           SeedUsers(s, es, role)
    PROVE  /\ users' \in [Emails -> UserRow \cup {NoRow}]
           /\ known' \in [Seeders -> [Emails -> UserId \cup {NoRow}]]
           /\ \A e \in Emails : users[e] # NoRow => users'[e] # NoRow /\ users'[e].id = users[e].id
           /\ \A e \in Emails \ es : users'[e] = users[e] /\ known'[s][e] = known[s][e]
           /\ \A e \in es : /\ users'[e] # NoRow /\ users'[e].role = role
                            /\ known'[s][e] = users'[e].id /\ known'[s][e] # NoRow
           /\ \A q \in Seeders \ {s} : known'[q] = known[q]
<1>1. PICK f \in [es -> UserId] : users' = Upserted(es, role, f)
  BY DEF SeedUsers
<1>2. \A e \in Emails : users[e] # NoRow => users[e].id \in UserId
  BY DEF TypeOK, UserRow
<1>3. \A e \in es : users'[e] \in UserRow /\ users'[e].role = role /\ users'[e].id \in UserId
  BY <1>1, <1>2 DEF Upserted, UserRow
<1>4. \A e \in es : users'[e] # NoRow
  BY <1>3, SeederAssumption DEF UserRow
<1>5. \A e \in Emails \ es : users'[e] = users[e]
  BY <1>1 DEF Upserted
<1>6. users' \in [Emails -> UserRow \cup {NoRow}]
  <2>1. \A e \in Emails : users'[e] \in UserRow \cup {NoRow}
    BY <1>3, <1>5 DEF TypeOK
  <2>2. users' = [e \in Emails |-> users'[e]]
    BY <1>1 DEF Upserted
  <2> QED
    BY <2>1, <2>2
<1>7. \A e \in es : users[e] # NoRow => users'[e].id = users[e].id
  BY <1>1 DEF Upserted
<1>8. known' = [known EXCEPT ![s] = [e \in Emails |-> IF e \in es THEN users'[e].id ELSE known[s][e]]]
  BY DEF SeedUsers
<1>9. known' \in [Seeders -> [Emails -> UserId \cup {NoRow}]]
  BY <1>3, <1>8 DEF TypeOK
<1>10. \A e \in Emails : known'[s][e] = IF e \in es THEN users'[e].id ELSE known[s][e]
  BY <1>8 DEF TypeOK
<1>11. \A q \in Seeders \ {s} : known'[q] = known[q]
  BY <1>8 DEF TypeOK
<1> QED
  BY <1>3, <1>4, <1>5, <1>6, <1>7, <1>9, <1>10, <1>11, SeederAssumption

\* A seeder that has just started knows no user.
LEMMA NobodyKnown == Nobody \in [Emails -> UserId \cup {NoRow}]
BY DEF Nobody

\* The empty tables satisfy IInv.
LEMMA InvInit == Init => IInv
<1> SUFFICES ASSUME Init PROVE IInv
  OBVIOUS
<1>1. TypeOK
  <2>1. users \in [Emails -> UserRow \cup {NoRow}] /\ pc \in [Seeders -> Steps]
    BY DEF Init, Nobody, Steps
  <2>2. known \in [Seeders -> [Emails -> UserId \cup {NoRow}]]
    BY NobodyKnown DEF Init
  <2>3. runs \in 0 .. MaxRuns /\ crashes \in 0 .. MaxCrashes
    BY SeederAssumption DEF Init
  <2> QED
    BY <2>1, <2>2, <2>3 DEF Init, TypeOK
<1>2. Accounts /\ Whole
  BY DEF Init, Accounts, Whole, Nobody, Emails
<1>3. \A s \in Seeders : Left(pc[s], known[s])
  BY DEF Init, Left, AfterAdmin, AfterEmployees, AfterProjects, AfterOthers
<1> QED
  BY <1>1, <1>2, <1>3 DEF IInv

\* Users that come or stay leave what the seeders know and did as it is.
LEMMA LeftStays ==
    ASSUME IInv, NEW q \in Seeders, pc'[q] = pc[q], known'[q] = known[q],
           \A e \in Emails : users[e] # NoRow => users'[e] # NoRow /\ users'[e].id = users[e].id,
           users[Admin] # NoRow /\ users[Admin].role = "admin" => users'[Admin].role = "admin",
           activities \subseteq activities', assigned \subseteq assigned'
    PROVE  Left(pc[q], known[q])'
BY DEF IInv, Left, Emails

\* Every step of a seeder keeps IInv.
LEMMA StepKeeps ==
    ASSUME IInv, NEW s \in Seeders, Start(s) \/ Step(s) \/ Crash(s)
    PROVE  IInv'
<1> USE DEF GoTo
<1>a. TypeOK /\ Accounts /\ Whole /\ Left(pc[s], known[s])
  BY DEF IInv
<1>b. Admin \in Emails /\ Employees \subseteq Emails /\ Admin \notin Employees
  BY SeederAssumption DEF Emails
<1>c. ASSUME NEW step \in Steps, pc' = [pc EXCEPT ![s] = step], UNCHANGED <<users, known>>,
             activities \subseteq activities', assigned \subseteq assigned',
             Left(step, known[s])'
      PROVE  Accounts' /\ \A q \in Seeders : Left(pc[q], known[q])'
  <2>1. Accounts'
    BY <1>a, <1>c DEF Accounts
  <2>2. ASSUME NEW q \in Seeders PROVE Left(pc[q], known[q])'
    <3>1. CASE q = s
      BY <1>a, <1>c, <3>1 DEF TypeOK
    <3>2. CASE q # s
      <4>1. pc'[q] = pc[q] /\ known'[q] = known[q]
        BY <1>a, <1>c, <3>2 DEF TypeOK
      <4> QED
        BY <1>c, <4>1, LeftStays
    <3> QED
      BY <3>1, <3>2
  <2> QED
    BY <2>1, <2>2
<1>1. CASE Start(s)
  <2>1. TypeOK'
    <3>1. pc' \in [Seeders -> Steps]
      BY <1>1, <1>a DEF Start, TypeOK, Steps
    <3>2. known' \in [Seeders -> [Emails -> UserId \cup {NoRow}]]
      BY <1>1, <1>a, NobodyKnown DEF Start, TypeOK
    <3>3. runs' \in 0 .. MaxRuns
      BY <1>1, <1>a, SeederAssumption DEF Start, TypeOK
    <3> QED
      BY <1>1, <1>a, <3>1, <3>2, <3>3 DEF Start, TypeOK, tables
  <2>2. known'[s] = Nobody /\ \A q \in Seeders \ {s} : known'[q] = known[q] /\ pc'[q] = pc[q]
    BY <1>1, <1>a DEF Start, TypeOK
  <2>3. Accounts'
    BY <1>1, <1>a, <2>2 DEF Start, tables, Accounts, Nobody
  <2>4. ASSUME NEW q \in Seeders PROVE Left(pc[q], known[q])'
    <3>1. CASE q = s
      BY <1>1, <1>a, <3>1
         DEF Start, TypeOK, Left, AfterAdmin, AfterEmployees, AfterProjects, AfterOthers
    <3>2. CASE q # s
      BY <1>1, <2>2, <3>2, LeftStays DEF Start, tables
    <3> QED
      BY <3>1, <3>2
  <2> QED
    BY <1>1, <1>a, <2>1, <2>3, <2>4 DEF IInv, Whole, Start, tables
<1>2. CASE SeedAdmin(s) \/ SeedEmployees(s)
  <2>1. PICK es \in SUBSET Emails, role \in {"admin", "user"}, step \in {"employees", "types"} :
          /\ SeedUsers(s, es, role) /\ pc' = [pc EXCEPT ![s] = step]
          /\ \/ es = {Admin} /\ role = "admin" /\ step = "employees"
             \/ es = Employees /\ role = "user" /\ step = "types" /\ pc[s] = "employees"
    BY <1>2, <1>b DEF SeedAdmin, SeedEmployees
  <2>2. UNCHANGED <<migrated, activities, assigned, tasks, runs, crashes, seeded>>
    BY <1>2 DEF SeedAdmin, SeedEmployees
  <2>3. /\ users' \in [Emails -> UserRow \cup {NoRow}]
        /\ known' \in [Seeders -> [Emails -> UserId \cup {NoRow}]]
        /\ \A e \in Emails : users[e] # NoRow => users'[e] # NoRow /\ users'[e].id = users[e].id
        /\ \A e \in Emails \ es : users'[e] = users[e] /\ known'[s][e] = known[s][e]
        /\ \A e \in es : /\ users'[e] # NoRow /\ users'[e].role = role
                         /\ known'[s][e] = users'[e].id /\ known'[s][e] # NoRow
        /\ \A q \in Seeders \ {s} : known'[q] = known[q]
    BY <1>a, <2>1, SeedUsersEffect
  <2>4. TypeOK'
    BY <1>a, <2>1, <2>2, <2>3 DEF TypeOK, Steps
  <2>5. Accounts'
    <3>1. ASSUME NEW q \in Seeders, NEW e \in Emails, known'[q][e] # NoRow
          PROVE  users'[e] # NoRow /\ users'[e].id = known'[q][e]
      <4>1. CASE q = s /\ e \in es
        BY <2>3, <4>1
      <4>2. CASE ~(q = s /\ e \in es)
        <5>1. known'[q][e] = known[q][e]
          BY <2>3, <4>2
        <5> QED
          BY <1>a, <2>3, <3>1, <5>1 DEF Accounts
      <4> QED
        BY <4>1, <4>2
    <3>2. \A e \in Employees : users'[e] # NoRow => users'[e].role = "user"
      BY <1>a, <1>b, <2>1, <2>3 DEF Accounts
    <3> QED
      BY <3>1, <3>2 DEF Accounts
  <2>6. users[Admin] # NoRow /\ users[Admin].role = "admin" => users'[Admin].role = "admin"
    BY <1>b, <2>1, <2>3
  <2>7. ASSUME NEW q \in Seeders PROVE Left(pc[q], known[q])'
    <3>1. CASE q = s
      <4>1. pc'[s] = step
        BY <1>a, <2>1 DEF TypeOK
      <4>2. users'[Admin] # NoRow /\ users'[Admin].role = "admin"
        BY <1>a, <1>b, <2>1, <2>3, <2>6 DEF Left, AfterAdmin
      <4>3. step = "types" => \A e \in Employees : known'[s][e] # NoRow
        BY <2>1, <2>3
      <4> QED
        BY <2>1, <3>1, <4>1, <4>2, <4>3
           DEF Left, AfterAdmin, AfterEmployees, AfterProjects, AfterOthers
    <3>2. CASE q # s
      <4>1. pc'[q] = pc[q] /\ known'[q] = known[q]
        BY <1>a, <2>1, <2>3, <3>2 DEF TypeOK
      <4> QED
        BY <2>2, <2>3, <2>6, <4>1, LeftStays
    <3> QED
      BY <3>1, <3>2
  <2> QED
    BY <1>a, <2>2, <2>4, <2>5, <2>7 DEF IInv, Whole
<1>3. CASE SeedTypes(s)
  BY <1>3, <1>a, <1>c DEF SeedTypes, tables, IInv, TypeOK, Whole, Steps, Left, AfterAdmin,
                          AfterEmployees, AfterProjects, AfterOthers
<1>4. CASE SeedActivities(s)
  BY <1>4, <1>a, <1>c DEF SeedActivities, IInv, TypeOK, Whole, Steps, Left, AfterAdmin,
                          AfterEmployees, AfterProjects, AfterOthers
<1>5. CASE SeedAssignments(s)
  <2>1. \A e \in Employees : known[s][e] \in UserId
    BY <1>5, <1>a, <1>b DEF SeedAssignments, Left, AfterEmployees, AfterAdmin, TypeOK
  <2>2. assigned' = assigned \cup {known[s][e] : e \in Employees} \X Projects
    BY <1>5 DEF SeedAssignments
  <2>3. TypeOK'
    BY <1>5, <1>a, <2>1, <2>2 DEF SeedAssignments, TypeOK, Steps
  <2>4. Left("tasks", known[s])'
    BY <1>5, <1>a, <2>2 DEF SeedAssignments, Left, AfterAdmin, AfterEmployees, AfterProjects,
                            AfterOthers
  <2>5. "tasks" \in Steps
    BY DEF Steps
  <2> QED
    BY <1>5, <1>a, <1>c, <2>2, <2>3, <2>4, <2>5 DEF SeedAssignments, IInv, Whole
<1>6. CASE SeedTasks(s)
  <2>1. NewTasks(s) \subseteq TaskRow
    BY <1>6, <1>a, <1>b DEF SeedTasks, NewTasks, TaskRow, Left, AfterEmployees, AfterAdmin, TypeOK
  <2>2. TypeOK' /\ Whole'
    BY <1>6, <1>a, <2>1 DEF SeedTasks, TypeOK, Steps, Whole
  <2>3. PICK step \in {"done", "failed"} : pc' = [pc EXCEPT ![s] = step]
    BY <1>6 DEF SeedTasks
  <2>4. Left(step, known[s])' /\ step \in Steps
    BY DEF Left, AfterAdmin, AfterEmployees, AfterProjects, AfterOthers, Steps
  <2> QED
    BY <1>6, <1>a, <1>c, <2>2, <2>3, <2>4 DEF SeedTasks, IInv
<1>7. CASE NoTable(s) \/ Crash(s)
  <2>1. PICK step \in {"failed", "crashed"} : pc' = [pc EXCEPT ![s] = step]
    BY <1>7 DEF NoTable, Crash
  <2>2. UNCHANGED <<migrated, users, activities, assigned, tasks, known, runs, seeded>>
    BY <1>7 DEF NoTable, Crash, tables
  <2>3. crashes' \in 0 .. MaxCrashes
    BY <1>7, <1>a, SeederAssumption DEF NoTable, Crash, TypeOK
  <2>4. TypeOK' /\ Whole'
    BY <1>a, <2>1, <2>2, <2>3 DEF TypeOK, Steps, Whole
  <2>5. Left(step, known[s])' /\ step \in Steps
    BY DEF Left, AfterAdmin, AfterEmployees, AfterProjects, AfterOthers, Steps
  <2> QED
    BY <1>c, <2>1, <2>2, <2>4, <2>5 DEF IInv
<1> QED
  BY <1>1, <1>2, <1>3, <1>4, <1>5, <1>6, <1>7 DEF Step

\* IInv is inductive.
LEMMA InvNext == IInv /\ [Next]_vars => IInv'
<1> SUFFICES ASSUME IInv, [Next]_vars PROVE IInv'
  OBVIOUS
<1>a. TypeOK /\ Accounts /\ Whole
  BY DEF IInv
<1>1. CASE Migrate \/ RemoveTask \/ UNCHANGED vars
  <2>1. TypeOK' /\ Whole'
    BY <1>1, <1>a DEF Migrate, RemoveTask, vars, TypeOK, Whole
  <2>2. UNCHANGED <<users, pc, known, activities, assigned>>
    BY <1>1 DEF Migrate, RemoveTask, vars
  <2> QED
    BY <1>a, <2>1, <2>2 DEF IInv, Accounts, Left
<1>2. CASE Register
  <2>1. PICK e \in Emails, id \in UserId :
          /\ users[e] = NoRow
          /\ users' = [users EXCEPT ![e] = [id |-> id, role |-> "user"]]
    BY <1>2 DEF Register
  <2>2. UNCHANGED <<migrated, activities, assigned, tasks, pc, known, runs, crashes, seeded>>
    BY <1>2 DEF Register
  <2>3. [id |-> id, role |-> "user"] \in UserRow
    BY DEF UserRow
  <2>4. TypeOK'
    BY <1>a, <2>1, <2>2, <2>3 DEF TypeOK
  <2>5. \A d \in Emails : users[d] # NoRow => users'[d] = users[d]
    BY <1>a, <2>1 DEF TypeOK
  <2>6. \A d \in Emails : users'[d] # users[d] => users'[d].role = "user"
    BY <1>a, <2>1 DEF TypeOK
  <2>7. Accounts'
    BY <1>a, <2>2, <2>5, <2>6 DEF Accounts, Emails
  <2>8. \A q \in Seeders : Left(pc[q], known[q])'
    BY <2>2, <2>5, LeftStays DEF Emails
  <2> QED
    BY <1>a, <2>2, <2>4, <2>7, <2>8 DEF IInv, Whole
<1>3. CASE \E s \in Seeders : Start(s) \/ Step(s) \/ Crash(s)
  BY <1>3, StepKeeps
<1> QED
  BY <1>1, <1>2, <1>3 DEF Next

\* The rows of every table, and what a seeder knows, are of their kinds.
THEOREM TypeCorrect == Spec => []TypeOK
<1>1. IInv => TypeOK
  BY DEF IInv
<1> QED
  BY <1>1, InvInit, InvNext, PTL DEF Spec

\* Once the schema is there, a run fails only after another one has completed:
\* whatever was interrupted can be completed by starting the seeder again.
THEOREM InterruptedCanComplete == Spec => RerunCompletes
<1>1. IInv /\ [Next]_vars =>
        [\A s \in Seeders : Running(s) /\ pc'[s] = "failed" => ~migrated \/ seeded]_vars
  <2> SUFFICES ASSUME IInv, [Next]_vars, NEW q \in Seeders, Running(q), pc'[q] = "failed"
               PROVE  ~migrated \/ seeded
    OBVIOUS
  <2>1. TypeOK /\ Whole /\ pc[q] # "failed"
    BY DEF IInv, Running
  <2>2. PICK s \in Seeders : Start(s) \/ Step(s) \/ Crash(s)
    BY <2>1 DEF Next, Migrate, Register, RemoveTask, vars
  <2>3. s = q
    BY <2>1, <2>2 DEF Start, Step, Crash, SeedAdmin, SeedEmployees, SeedTypes, SeedActivities,
                      SeedAssignments, SeedTasks, NoTable, GoTo, TypeOK
  <2>4. (SeedTasks(q) /\ Clashes(q)) \/ NoTable(q)
    BY <2>1, <2>2, <2>3 DEF Start, Step, Crash, SeedAdmin, SeedEmployees, SeedTypes,
                            SeedActivities, SeedAssignments, SeedTasks, GoTo, TypeOK
  <2> QED
    BY <2>1, <2>4 DEF Whole, Clashes, NoTable
<1> QED
  BY <1>1, InvInit, InvNext, PTL DEF Spec, RerunCompletes

\* A run that completes has left all it promises, with the ids the accounts
\* have, whoever registered or seeded at the same time.
THEOREM CompletedIsWhole == Spec => DoneMeansSeeded
<1>1. IInv /\ [Next]_vars =>
        [\A s \in Seeders : pc[s] = "tasks" /\ pc'[s] = "done" =>
           /\ users'[Admin] # NoRow /\ users'[Admin].role = "admin"
           /\ Projects \cup Others \subseteq activities'
           /\ \A e \in Employees, a \in Projects :
                /\ users'[e] # NoRow /\ users'[e].role = "user"
                /\ <<users'[e].id, a>> \in assigned'
                /\ {t.user : t \in {u \in tasks' : u.activity = a /\ u.employee = e}}
                      = {users'[e].id}]_vars
  <2> SUFFICES ASSUME IInv, [Next]_vars, NEW q \in Seeders, pc[q] = "tasks", pc'[q] = "done"
               PROVE  /\ users'[Admin] # NoRow /\ users'[Admin].role = "admin"
                      /\ Projects \cup Others \subseteq activities'
                      /\ \A e \in Employees, a \in Projects :
                           /\ users'[e] # NoRow /\ users'[e].role = "user"
                           /\ <<users'[e].id, a>> \in assigned'
                           /\ {t.user : t \in {u \in tasks' : u.activity = a /\ u.employee = e}}
                                 = {users'[e].id}
    OBVIOUS
  <2>1. TypeOK /\ Accounts /\ Left("tasks", known[q])
    BY DEF IInv
  <2>2. PICK s \in Seeders : Start(s) \/ Step(s) \/ Crash(s)
    BY DEF Next, Migrate, Register, RemoveTask, vars
  <2>3. s = q
    BY <2>1, <2>2 DEF Start, Step, Crash, SeedAdmin, SeedEmployees, SeedTypes, SeedActivities,
                      SeedAssignments, SeedTasks, NoTable, GoTo, TypeOK
  <2>4. SeedTasks(q) /\ ~Clashes(q)
    BY <2>1, <2>2, <2>3 DEF Start, Step, Crash, SeedAdmin, SeedEmployees, SeedTypes,
                            SeedActivities, SeedAssignments, SeedTasks, NoTable, GoTo, TypeOK
  <2>5. tasks' = tasks \cup NewTasks(q) /\ UNCHANGED <<users, activities, assigned>>
    BY <2>1, <2>4 DEF SeedTasks, GoTo, TypeOK
  <2>6. ASSUME NEW e \in Employees, NEW a \in Projects
        PROVE  /\ users'[e] # NoRow /\ users'[e].role = "user" /\ users'[e].id = known[q][e]
               /\ <<users'[e].id, a>> \in assigned'
               /\ {t.user : t \in {u \in tasks' : u.activity = a /\ u.employee = e}} = {known[q][e]}
    <3>1. e \in Emails /\ known[q][e] # NoRow
      BY <2>1 DEF Emails, Left, AfterEmployees, AfterAdmin
    <3>2. users[e] # NoRow /\ users[e].id = known[q][e] /\ users[e].role = "user"
      BY <2>1, <3>1 DEF Accounts
    <3>3. <<known[q][e], a>> \in assigned
      BY <2>1 DEF Left
    <3> DEFINE n == [activity |-> a, employee |-> e, user |-> known[q][e]]
    <3>4. n \in NewTasks(q) /\ n.activity = a /\ n.employee = e /\ n.user = known[q][e]
      BY DEF NewTasks
    <3>5. \A u \in tasks : ~(u.activity = a /\ u.employee = e)
      BY <2>4, <3>4 DEF Clashes
    <3>6. \A u \in NewTasks(q) : u.activity = a /\ u.employee = e => u.user = known[q][e]
      BY DEF NewTasks
    <3> HIDE DEF n
    <3>7. {t.user : t \in {u \in tasks' : u.activity = a /\ u.employee = e}} = {known[q][e]}
      BY <2>5, <3>4, <3>5, <3>6
    <3> QED
      BY <2>5, <3>2, <3>3, <3>7
  <2>7. /\ users[Admin] # NoRow /\ users[Admin].role = "admin"
        /\ Projects \subseteq activities /\ Others \subseteq activities
    BY <2>1 DEF Left, AfterAdmin, AfterProjects, AfterOthers
  <2> QED
    BY <2>5, <2>6, <2>7
<1> QED
  BY <1>1, InvInit, InvNext, PTL DEF Spec, DoneMeansSeeded

=============================================================================
