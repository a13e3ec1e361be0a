----------------------------- MODULE Lifecycle -----------------------------
(***************************************************************************)
(* The backend process: its lifespan (src/app/core/setup.py), the engine   *)
(* of its session manager (core/database/session.py) and its Redis client  *)
(* (redis_client/client.py).  uvicorn serves requests between the two      *)
(* halves of the lifespan, and starts the second when they have ended.     *)
(***************************************************************************)
EXTENDS Naturals

CONSTANTS
    Requests,
    RecursionLimit   \* the calls Python nests before it raises RecursionError

ASSUME RecursionAssumption == RecursionLimit \in Nat \ {0}

VARIABLES
    process,      \* where the process is in its lifespan
    engine,       \* session_manager.engine: "open", or None after close()
    redis,        \* the Redis client holds a connection pool
    calls,        \* calls of disconnect() that have not returned
    session       \* session[r]: r has a session of the engine

life == <<process, engine, redis, calls, session>>

Phases == {"down", "starting", "serving", "stopping", "releasing", "returning", "ended"}

LifecycleTypeOK ==
    /\ process \in Phases
    /\ engine \in {"none", "open"}
    /\ redis \in BOOLEAN
    /\ calls \in 0 .. RecursionLimit
    /\ session \in [Requests -> BOOLEAN]

LifecycleInit ==
    /\ process = "down"
    /\ engine = "none"
    /\ redis = FALSE
    /\ calls = 0
    /\ session = [r \in Requests |-> FALSE]

\* Importing the application makes the session manager with its engine.
Boot ==
    /\ process = "down"
    /\ process' = "starting"
    /\ engine' = "open"
    /\ UNCHANGED <<redis, calls, session>>

\* Mutant: a client that could not ping is dropped, and startup goes on.
Connect_DropsClient ==
    /\ process = "starting"
    /\ redis' \in BOOLEAN
    /\ process' = "serving"
    /\ UNCHANGED <<engine, calls, session>>

\* connect() makes the client and pings.  A failed ping is logged and startup
\* goes on, with the client as after an answered one.
Connect ==
    /\ process = "starting"
    /\ redis' = TRUE
    /\ process' = "serving"
    /\ UNCHANGED <<engine, calls, session>>

OpenSession(r) ==
    /\ process = "serving" /\ engine = "open"
    /\ ~session[r]
    /\ session' = [session EXCEPT ![r] = TRUE]
    /\ UNCHANGED <<process, engine, redis, calls>>

\* The end of a request, with or without an exception.
CloseSession(r) ==
    /\ session[r]
    /\ session' = [session EXCEPT ![r] = FALSE]
    /\ UNCHANGED <<process, engine, redis, calls>>

Signal ==
    /\ process = "serving"
    /\ process' = "stopping"
    /\ UNCHANGED <<engine, redis, calls, session>>

\* session_manager.close().  When dispose() raises, so does the lifespan, and
\* nothing of it is left to run.
CloseEngine ==
    /\ process = "stopping" /\ \A r \in Requests : ~session[r]
    /\ engine = "open"
    /\ \/ engine' = "none" /\ process' = "releasing"
       \/ engine' = engine /\ process' = "ended"
    /\ UNCHANGED <<redis, calls, session>>

\* Mutant: the call that catches the error calls disconnect() again.
Disconnect_Again ==
    /\ process = "releasing"
    /\ calls' = IF calls < RecursionLimit THEN calls + 1 ELSE calls - 1
    /\ UNCHANGED <<process, engine, redis, session>>

\* disconnect() awaits itself until Python refuses another call.  The calls
\* return one after the other: the innermost that has room left to log the
\* RecursionError ends it, and the client is kept.
Disconnect ==
    /\ \/ /\ process = "releasing" /\ calls < RecursionLimit
          /\ calls' = calls + 1
          /\ UNCHANGED process
       \/ /\ process = "releasing" /\ calls = RecursionLimit
          /\ process' = "returning"
          /\ UNCHANGED calls
       \/ /\ process = "returning"
          /\ calls' = calls - 1
          /\ process' = IF calls = 1 THEN "ended" ELSE "returning"
    /\ UNCHANGED <<engine, redis, session>>

\* The process is over, or killed; the system closes its connections.
Exit ==
    /\ process' = "down"
    /\ engine' = "none"
    /\ redis' = FALSE
    /\ calls' = 0
    /\ session' = [r \in Requests |-> FALSE]

Killed == process # "down" /\ Exit

Live ==
    \/ Boot \/ Connect \/ Signal \/ CloseEngine \/ Disconnect \/ Killed
    \/ \E r \in Requests : OpenSession(r) \/ CloseSession(r)

=============================================================================
