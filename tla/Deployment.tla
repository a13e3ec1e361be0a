----------------------------- MODULE Deployment -----------------------------
(***************************************************************************)
(* The containers of src/docker-compose.yml over one database: the backend *)
(* starts when the migrations have started, not when they are over, so its *)
(* requests write while revisions are made.                                *)
(***************************************************************************)
EXTENDS Migrations, Lifecycle

vars == <<schema, rows, version, run, process, engine, redis, calls, session>>

TypeOK == MigrationsTypeOK /\ LifecycleTypeOK

Init == MigrationsInit /\ LifecycleInit

\* A statement of an open request and its commit.
Request(r) ==
    /\ session[r]
    /\ \/ \E t \in TaskId, title \in Titles, a \in ActivityId, u \in Users : SaveTask(t, title, a, u)
       \/ \E t \in TaskId : RemoveTask(t)
       \/ \E w \in LogId, t \in TaskId, u \in Users, d \in Dates, h \in Durations : SaveLog(w, t, u, d, h)

\* What is written beside the runs: the seeder does not wait for a request.
Written == (\E a \in ActivityId : AddActivity(a)) \/ \E r \in Requests : Request(r)

Next ==
    \/ (Migrate \/ Written) /\ UNCHANGED life
    \/ Live /\ UNCHANGED database

Spec == Init /\ [][Next]_vars

\* The loop resumes the requests and the lifespan, and the process exits when
\* its lifespan is over.
Fairness ==
    /\ WF_vars(Connect /\ UNCHANGED database)
    /\ WF_vars(CloseEngine /\ UNCHANGED database)
    /\ WF_vars(Disconnect /\ UNCHANGED database)
    /\ WF_vars(process = "ended" /\ Exit /\ UNCHANGED database)
    /\ \A r \in Requests : WF_vars(CloseSession(r) /\ UNCHANGED database)

FairSpec == Spec /\ Fairness

=============================================================================
