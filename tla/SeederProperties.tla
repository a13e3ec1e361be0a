-------------------------- MODULE SeederProperties --------------------------
(***************************************************************************)
(* What is checked of Seeder.                                              *)
(***************************************************************************)
EXTENDS Seeder

\* A run that ends well leaves everything the seeder promises, whatever ran
\* beside it: the admin is one, and every employee is assigned to every project
\* and owns one task of it, under the id the employee's account has
\* (seed/data.py:161-178).
DoneMeansSeeded ==
    [][\A s \in Seeders : pc[s] = "tasks" /\ pc'[s] = "done" =>
         /\ users'[Admin] # NoRow /\ users'[Admin].role = "admin"
         /\ Projects \cup Others \subseteq activities'
         /\ \A e \in Employees, a \in Projects :
              /\ users'[e] # NoRow /\ users'[e].role = "user"
              /\ <<users'[e].id, a>> \in assigned'
              /\ {t.user : t \in {u \in tasks' : u.activity = a /\ u.employee = e}} = {users'[e].id}]_vars

\* A seeding that was interrupted, at any step and any number of times, can be
\* completed by starting it again: after the migrations a run fails only if one
\* has completed before (seed/data.py:14-158, docker-compose.yml:63).
RerunCompletes ==
    [][\A s \in Seeders : Running(s) /\ pc'[s] = "failed" => ~migrated \/ seeded]_vars

\* Two seeders that start together after the migrations do not both fail, unless
\* they crash: one completes (seed/data.py:38-48, :161-178).
OneCompletes ==
    (migrated /\ crashes = MaxCrashes /\ \A s \in Seeders : pc[s] = "admin") ~> seeded

==============================================================================
