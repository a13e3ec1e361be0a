---------------------------- MODULE AuthSessions ----------------------------
(***************************************************************************)
(* Registration, login, refresh, logout and the check of the access cookie *)
(* (src/app/services/auth.py, services/session.py, dependencies/auth.py,   *)
(* core/security/jwt.py), run by concurrent requests over PostgreSQL.      *)
(*                                                                         *)
(* Time is counted in seconds, the unit of a token's "iat" and "exp".  A   *)
(* token carries nothing but its subject, its type and these two: two      *)
(* tokens of one user and type made in the same second are the same token, *)
(* and so are their hashes, by which the sessions are looked up.  The two  *)
(* tokens of a session are made in one go and are named here by their      *)
(* subject and second.                                                     *)
(*                                                                         *)
(* One action per await at which another request may interfere: a read, or *)
(* a write with the commit that publishes it.                              *)
(***************************************************************************)
EXTENDS Integers, FiniteSets

CONSTANTS
    Emails,           \* users.email, the subject of the tokens
    SessionId,        \* sessions.id
    Requests,         \* request slots
    AccessLife,       \* ACCESS_TOKEN_EXPIRE_MINUTES, in seconds
    RefreshLife,      \* REFRESH_TOKEN_EXPIRE_MINUTES, in seconds
    MaxTime,          \* bound: the clock stops here
    NoRow, None

ASSUME AuthAssumption ==
    /\ AccessLife \in Nat /\ RefreshLife \in Nat /\ MaxTime \in Nat
    /\ None \notin SessionId
    /\ NoRow \notin [user : Emails, iat : Nat, active : BOOLEAN]

VARIABLES
    now,        \* the clock
    users,      \* the emails that have a row in users
    sessions,   \* the sessions table
    pc,         \* pc[r]: what request r does next
    job,        \* job[r]: what it works on
    outcome,    \* outcome[r]: what its last request was answered
    cookies,    \* the pairs of cookies clients have been given
    replaced,   \* the sessions whose refresh or logout has been asked for
    loggedOut,  \* the sessions whose logout has been answered with 204
    swallowed   \* those of them whose first such logout had failed

vars == <<now, users, sessions, pc, job, outcome, cookies, replaced, loggedOut, swallowed>>

SessionRow == [user : Emails, iat : 0 .. MaxTime, active : BOOLEAN]

\* A pair of cookies: the tokens in it, when it was signed, and the session_id
\* that came with it.
Cookie == [sub : Emails, iat : 0 .. MaxTime, ts : 0 .. MaxTime, sid : SessionId]

Steps == {"idle", "register_select", "register_insert", "register_commit",
          "login_select", "refresh_select", "session_commit", "answer",
          "logout_select", "logout_commit", "me_select"}

Outcomes == {"none", "ok", "unauthorized", "not_found", "error"}

\* user: whom the request is about; right: the password matches; cookie: what it
\* presents; late: that cookie's session had been logged out before; row: the
\* session row it found; iat, sid: the tokens and the session it makes.
Job == [user : Emails \cup {None}, right : BOOLEAN, cookie : Cookie \cup {None}, late : BOOLEAN,
        row : SessionId \cup {None}, iat : 0 .. MaxTime, sid : SessionId \cup {None}]

NoJob == [user |-> None, right |-> FALSE, cookie |-> None, late |-> FALSE,
          row |-> None, iat |-> 0, sid |-> None]

TypeOK ==
    /\ now \in 0 .. MaxTime
    /\ users \subseteq Emails
    /\ sessions \in [SessionId -> SessionRow \cup {NoRow}]
    /\ pc \in [Requests -> Steps]
    /\ job \in [Requests -> Job]
    /\ outcome \in [Requests -> Outcomes]
    /\ cookies \subseteq Cookie
    /\ replaced \subseteq SessionId
    /\ loggedOut \subseteq SessionId
    /\ swallowed \subseteq loggedOut

Init ==
    /\ now = 0
    /\ users = {}
    /\ sessions = [s \in SessionId |-> NoRow]
    /\ pc = [r \in Requests |-> "idle"]
    /\ job = [r \in Requests |-> NoJob]
    /\ outcome = [r \in Requests |-> "none"]
    /\ cookies = {}
    /\ replaced = {}
    /\ loggedOut = {}
    /\ swallowed = {}
----------------------------------------------------------------------------
(* Tokens and cookies.                                                     *)

\* jwt.decode refuses a token from its "exp" on.
TokenExpired(c, life) == now >= c.iat + life

\* The signer refuses a cookie older than its age.
CookieExpired(c, life) == now - c.ts > life

\* Mutant: the session is looked up by its user alone.
MutantSessionOfUser(c) ==
    {s \in SessionId : sessions[s] # NoRow /\ sessions[s].user = c.sub}

\* SELECT ... WHERE access_token_hash (or refresh_token_hash) = hash: get_one
\* takes the first row of these, whichever it is.
RowsOf(c) ==
    {s \in SessionId : sessions[s] # NoRow /\ sessions[s].user = c.sub /\ sessions[s].iat = c.iat}
----------------------------------------------------------------------------
(* How a request begins, goes on and ends.                                 *)

Start(r, step, j) ==
    /\ pc[r] = "idle"
    /\ pc' = [pc EXCEPT ![r] = step]
    /\ job' = [job EXCEPT ![r] = j]
    /\ outcome' = [outcome EXCEPT ![r] = "none"]

\* A request refused before its first await.
Refuse(r, answer) ==
    /\ pc[r] = "idle"
    /\ outcome' = [outcome EXCEPT ![r] = answer]
    /\ UNCHANGED <<pc, job>>

GoTo(r, step, j) ==
    /\ pc' = [pc EXCEPT ![r] = step]
    /\ job' = [job EXCEPT ![r] = j]
    /\ UNCHANGED outcome

End(r, answer) ==
    /\ pc' = [pc EXCEPT ![r] = "idle"]
    /\ job' = [job EXCEPT ![r] = NoJob]
    /\ outcome' = [outcome EXCEPT ![r] = answer]

\* The requests that are going to store a session.
Making == {r \in Requests : pc[r] \in {"login_select", "refresh_select", "session_commit"}}

FreeIds == {s \in SessionId : sessions[s] = NoRow}

\* Bound: there are session ids left for one more.
RoomForOne == Cardinality(Making) < Cardinality(FreeIds)

\* JwtManager.create_token, for both tokens of a session of user e.
Mint(r, e, row) ==
    GoTo(r, "session_commit", [job[r] EXCEPT !.user = e, !.row = row, !.iat = now])

Tick ==
    /\ now < MaxTime
    /\ now' = now + 1
    /\ UNCHANGED <<users, sessions, pc, job, outcome, cookies, replaced, loggedOut, swallowed>>
----------------------------------------------------------------------------
(* POST /auth/register                                                     *)

Register(r) ==
    /\ \E e \in Emails : Start(r, "register_select", [NoJob EXCEPT !.user = e])
    /\ UNCHANGED <<now, users, sessions, cookies, replaced, loggedOut, swallowed>>

RegisterSelect(r) ==
    /\ pc[r] = "register_select"
    /\ IF job[r].user \in users THEN End(r, "error")
                                ELSE GoTo(r, "register_insert", job[r])
    /\ UNCHANGED <<now, users, sessions, cookies, replaced, loggedOut, swallowed>>

\* Mutant: users.email is not unique.
MutantNoUniqueEmail(r) ==
    /\ pc[r] = "register_insert"
    /\ GoTo(r, "register_commit", job[r])
    /\ UNCHANGED <<now, users, sessions, cookies, replaced, loggedOut, swallowed>>

\* INSERT INTO users: it waits for another insert of the email to end.
RegisterInsert(r) ==
    /\ pc[r] = "register_insert"
    /\ \A q \in Requests : ~(pc[q] = "register_commit" /\ job[q].user = job[r].user)
    /\ IF job[r].user \in users THEN End(r, "error")
                                ELSE GoTo(r, "register_commit", job[r])
    /\ UNCHANGED <<now, users, sessions, cookies, replaced, loggedOut, swallowed>>

RegisterCommit(r) ==
    /\ pc[r] = "register_commit"
    /\ users' = users \cup {job[r].user}
    /\ End(r, "ok")
    /\ UNCHANGED <<now, sessions, cookies, replaced, loggedOut, swallowed>>
----------------------------------------------------------------------------
(* POST /auth/login                                                        *)

Login(r) ==
    /\ RoomForOne
    /\ \E e \in Emails, right \in BOOLEAN :
         Start(r, "login_select", [NoJob EXCEPT !.user = e, !.right = right])
    /\ UNCHANGED <<now, users, sessions, cookies, replaced, loggedOut, swallowed>>

LoginSelect(r) ==
    /\ pc[r] = "login_select"
    /\ \/ job[r].user \notin users /\ End(r, "not_found")
       \/ job[r].user \in users /\ ~job[r].right /\ End(r, "error")
       \/ job[r].user \in users /\ job[r].right /\ Mint(r, job[r].user, None)
    /\ UNCHANGED <<now, users, sessions, cookies, replaced, loggedOut, swallowed>>

\* Mutants: the refreshed session was read as a copy, which the UPDATE misses;
\* and the refreshed row is given the new tokens.
MutantKeepRefreshed(r) ==
    /\ pc[r] = "session_commit"
    /\ \E s \in FreeIds :
         /\ sessions' = [sessions EXCEPT ![s] =
                           [user |-> job[r].user, iat |-> job[r].iat, active |-> TRUE]]
         /\ GoTo(r, "answer", [job[r] EXCEPT !.sid = s])
    /\ UNCHANGED <<now, users, cookies, replaced, loggedOut, swallowed>>

MutantRefreshInPlace(r) ==
    /\ pc[r] = "session_commit"
    /\ \E s \in IF job[r].row = None THEN FreeIds ELSE {job[r].row} :
         /\ sessions' = [sessions EXCEPT ![s] =
                           [user |-> job[r].user, iat |-> job[r].iat, active |-> TRUE]]
         /\ GoTo(r, "answer", [job[r] EXCEPT !.sid = s])
    /\ UNCHANGED <<now, users, cookies, replaced, loggedOut, swallowed>>

\* The INSERT of the new session and, in the same transaction, the UPDATE of
\* the refreshed one; then COMMIT.
SessionCommit(r) ==
    /\ pc[r] = "session_commit"
    /\ \E s \in FreeIds :
         /\ sessions' = [t \in SessionId |->
               IF t = s THEN [user |-> job[r].user, iat |-> job[r].iat, active |-> TRUE]
               ELSE IF t = job[r].row THEN [sessions[t] EXCEPT !.active = FALSE]
               ELSE sessions[t]]
         /\ GoTo(r, "answer", [job[r] EXCEPT !.sid = s])
    /\ UNCHANGED <<now, users, cookies, replaced, loggedOut, swallowed>>

\* Mutant: the answer names the session that was replaced.
MutantAnswerOldSession(r) ==
    /\ pc[r] = "answer"
    /\ cookies' = cookies \cup
          {[sub |-> job[r].user, iat |-> job[r].iat, ts |-> now, sid |-> job[r].row]}
    /\ End(r, "ok")
    /\ UNCHANGED <<now, users, sessions, replaced, loggedOut, swallowed>>

\* The cookies are signed, and the client gets them.
Answer(r) ==
    /\ pc[r] = "answer"
    /\ cookies' = cookies \cup
          {[sub |-> job[r].user, iat |-> job[r].iat, ts |-> now, sid |-> job[r].sid]}
    /\ End(r, "ok")
    /\ UNCHANGED <<now, users, sessions, replaced, loggedOut, swallowed>>
----------------------------------------------------------------------------
(* POST /auth/refresh                                                      *)

\* The cookie and the token in it are validated at once.
Refresh(r) ==
    /\ \E c \in cookies :
         /\ replaced' = replaced \cup {c.sid}
         /\ \/ CookieExpired(c, RefreshLife) /\ Refuse(r, "unauthorized")
            \/ /\ ~CookieExpired(c, RefreshLife) /\ TokenExpired(c, RefreshLife)
               /\ Refuse(r, "error")
            \/ /\ ~CookieExpired(c, RefreshLife) /\ ~TokenExpired(c, RefreshLife)
               /\ RoomForOne
               /\ Start(r, "refresh_select",
                        [NoJob EXCEPT !.cookie = c, !.late = c.sid \in loggedOut])
    /\ UNCHANGED <<now, users, sessions, cookies, loggedOut, swallowed>>

RefreshNoCookie(r) ==
    /\ Refuse(r, "unauthorized")
    /\ UNCHANGED <<now, users, sessions, cookies, replaced, loggedOut, swallowed>>

\* The user and the session are read; an inactive session ends it here.
RefreshSelect(r) ==
    /\ pc[r] = "refresh_select"
    /\ \E s \in RowsOf(job[r].cookie) :
         \/ ~sessions[s].active /\ End(r, "unauthorized")
         \/ sessions[s].active /\ Mint(r, job[r].cookie.sub, s)
    /\ UNCHANGED <<now, users, sessions, cookies, replaced, loggedOut, swallowed>>
----------------------------------------------------------------------------
(* POST /auth/logout                                                       *)

\* The signature and the age of the cookie are checked, the token is not.
Logout(r) ==
    /\ \E c \in cookies :
         /\ replaced' = replaced \cup {c.sid}
         /\ IF CookieExpired(c, RefreshLife)
            THEN Refuse(r, "error")
            ELSE Start(r, "logout_select", [NoJob EXCEPT !.cookie = c])
    /\ UNCHANGED <<now, users, sessions, cookies, loggedOut, swallowed>>

LogoutNoCookie(r) ==
    /\ Refuse(r, "error")
    /\ UNCHANGED <<now, users, sessions, cookies, replaced, loggedOut, swallowed>>

LogoutSelect(r) ==
    /\ pc[r] = "logout_select"
    /\ \E s \in RowsOf(job[r].cookie) : GoTo(r, "logout_commit", [job[r] EXCEPT !.row = s])
    /\ UNCHANGED <<now, users, sessions, cookies, replaced, loggedOut, swallowed>>

\* Mutant: the logout is not committed.
MutantLogoutNotCommitted(r) ==
    /\ pc[r] = "logout_commit"
    /\ loggedOut' = loggedOut \cup {job[r].cookie.sid}
    /\ End(r, "ok")
    /\ UNCHANGED <<now, users, sessions, cookies, replaced, swallowed>>

LogoutCommit(r) ==
    /\ pc[r] = "logout_commit"
    /\ sessions' = [sessions EXCEPT ![job[r].row].active = FALSE]
    /\ loggedOut' = loggedOut \cup {job[r].cookie.sid}
    /\ End(r, "ok")
    /\ UNCHANGED <<now, users, cookies, replaced, swallowed>>
----------------------------------------------------------------------------
(* get_current_user, for GET /auth/me                                      *)

Me(r) ==
    /\ \E c \in cookies :
         IF CookieExpired(c, AccessLife) \/ TokenExpired(c, AccessLife)
         THEN Refuse(r, "unauthorized")
         ELSE Start(r, "me_select", [NoJob EXCEPT !.cookie = c, !.late = c.sid \in loggedOut])
    /\ UNCHANGED <<now, users, sessions, cookies, replaced, loggedOut, swallowed>>

MeSelect(r) ==
    /\ pc[r] = "me_select"
    /\ \E s \in RowsOf(job[r].cookie) :
         End(r, IF sessions[s].active THEN "ok" ELSE "unauthorized")
    /\ UNCHANGED <<now, users, sessions, cookies, replaced, loggedOut, swallowed>>
----------------------------------------------------------------------------
(* The database fails a statement or a commit: the transaction is rolled   *)
(* back and the client gets an error, but not from logout, which swallows  *)
(* every exception and answers 204.                                        *)
DatabaseFails(r) ==
    /\ pc[r] \notin {"idle", "answer"}
    /\ IF pc[r] \in {"logout_select", "logout_commit"}
       THEN /\ End(r, "ok")
            /\ loggedOut' = loggedOut \cup {job[r].cookie.sid}
            /\ swallowed' = swallowed \cup ({job[r].cookie.sid} \ loggedOut)
       ELSE End(r, "error") /\ UNCHANGED <<loggedOut, swallowed>>
    /\ UNCHANGED <<now, users, sessions, cookies, replaced>>

Begin(r) ==
    \/ Register(r) \/ Login(r) \/ Refresh(r) \/ RefreshNoCookie(r)
    \/ Logout(r) \/ LogoutNoCookie(r) \/ Me(r)

Advance(r) ==
    \/ RegisterSelect(r) \/ RegisterInsert(r) \/ RegisterCommit(r)
    \/ LoginSelect(r) \/ RefreshSelect(r) \/ SessionCommit(r) \/ Answer(r)
    \/ LogoutSelect(r) \/ LogoutCommit(r) \/ MeSelect(r)

Next == Tick \/ \E r \in Requests : Begin(r) \/ Advance(r) \/ DatabaseFails(r)

Spec == Init /\ [][Next]_vars

=============================================================================
