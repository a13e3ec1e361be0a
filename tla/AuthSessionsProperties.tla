----------------------- MODULE AuthSessionsProperties -----------------------
(***************************************************************************)
(* What is checked of AuthSessions.                                        *)
(***************************************************************************)
EXTENDS AuthSessions

\* Session s carries the tokens of cookie c.
HasTokens(s, c) ==
    sessions[s] # NoRow /\ sessions[s].user = c.sub /\ sessions[s].iat = c.iat

\* A client that has just logged in or refreshed is recognised: its access
\* cookie is refused for being inactive only if the refresh or the logout of a
\* session with its tokens was asked for.  That is its own session, or one the
\* same user started in the same second (dependencies/auth.py:44-49, jwt.py:106).
FreshSessionAccepted ==
    [][\A r \in Requests :
         pc[r] = "me_select" /\ outcome'[r] = "unauthorized"
            => \E s \in replaced : HasTokens(s, job[r].cookie)]_vars

\* Once a logout was answered with 204, a request that comes later with the
\* cookies of that session is neither let in nor given a new session
\* (api/v1/auth.py:58-65).
LoggedOutStaysOut ==
    [][\A r \in Requests :
         pc[r] \in {"me_select", "answer"} /\ job[r].late => outcome'[r] # "ok"]_vars

\* In two cases alone such a request is answered as if there had been no
\* logout: the logout had failed without saying so, or another session of the
\* user has the same tokens (services/session.py:29-40, services/auth.py:95-103,
\* dependencies/auth.py:44-49).
LoggedOutLetIn ==
    [][\A r \in Requests :
         LET c == job[r].cookie IN
         pc[r] \in {"me_select", "answer"} /\ job[r].late /\ outcome'[r] = "ok"
            => c.sid \in swallowed \/ \E t \in SessionId \ {c.sid} : HasTokens(t, c)]_vars

\* When the cookies of a session are sent, its row is stored with their tokens,
\* and the session they replace, if any, is revoked already: a refresh leaves
\* the client with one usable pair, whatever fails or runs in between
\* (services/auth.py:108-116).
RotationCommitted ==
    \A r \in Requests : pc[r] = "answer" =>
        /\ sessions[job[r].sid] # NoRow
        /\ sessions[job[r].sid].user = job[r].user /\ sessions[job[r].sid].iat = job[r].iat
        /\ job[r].row # None => ~sessions[job[r].row].active

\* Of the registrations of an email one at most is ever answered with success,
\* and it is the one that made the user (services/auth.py:33-55).
RegisteredOnce ==
    [][\A r \in Requests :
         pc[r] = "register_commit" /\ outcome'[r] = "ok"
            => job[r].user \notin users /\ job[r].user \in users']_vars

\* A session is revoked once and for good, and its row keeps its user and its
\* tokens, whatever refreshes and logouts of it are under way
\* (services/auth.py:108, services/session.py:37).
RevokedForGood ==
    [][\A s \in SessionId : sessions[s] # NoRow =>
         /\ sessions'[s] # NoRow
         /\ sessions'[s].user = sessions[s].user /\ sessions'[s].iat = sessions[s].iat
         /\ sessions'[s].active => sessions[s].active]_vars

=============================================================================
