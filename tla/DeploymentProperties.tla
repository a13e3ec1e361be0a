------------------------ MODULE DeploymentProperties ------------------------
(***************************************************************************)
(* What is checked of a deployment.                                        *)
(***************************************************************************)
EXTENDS Deployment, SchemaChain

\* Whatever runs go up and down, together, refused or killed half way, the
\* committed schema is the one of the committed alembic_version
\* (src/migrations/env.py:56-60: the revisions of a run are one transaction).
SchemaByVersion == schema = SchemaAt(version)

\* At the version "alembic upgrade head" leads to, the schema is the one
\* src/app/models.py declares, which the backend's statements are written for.
HeadIsModels == version = HeadVersion => schema = ModelsSchema

\* A run that goes down finds its next revision possible, as far as the schema
\* goes: "Downgrade schema." (docstring of downgrade() in every revision, as in
\* 49987cbed3c3_activity_user_optional_values.py:42).
DowngradesCanBeMade ==
    \A m \in Runners :
        /\ run[m] # Idle /\ run[m].to < run[m].at
        /\ VersionMatches(run[m])
        /\ \A n \in Runners \ {m} : ~HoldsVersion(n)
        => NextSchema(run[m]).status = "ok"

\* A run that goes up leaves every task and every worklog as it was, those
\* saved while it was under way too, and refuses what it could not keep.
UpgradeKeepsRows ==
    [][version' > version => /\ rows'.tasks = rows.tasks
                             /\ rows'.logs = rows.logs]_vars

\* No request runs without an engine and a Redis client: not at startup, which
\* goes on when Redis does not answer (src/app/redis_client/client.py:44-50), and
\* not at a shutdown, which disposes the engine (src/app/core/setup.py:30-33).
RequestsServed == \A r \in Requests : session[r] => engine = "open" /\ redis

\* A backend that is told to stop stops, although the release of the engine may
\* fail and that of the Redis client calls itself (src/app/core/setup.py:32-33,
\* src/app/redis_client/client.py:55).
Stops == process = "stopping" ~> process = "down"

=============================================================================
