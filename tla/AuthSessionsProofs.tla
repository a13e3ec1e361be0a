------------------------- MODULE AuthSessionsProofs -------------------------
(***************************************************************************)
(* Theorems about accounts and sessions, for any emails, requests, token   *)
(* lives and clock.                                                        *)
(***************************************************************************)
EXTENDS AuthSessionsProperties, TLAPS

\* What a request has at a step: whom it is about, what it presented, and the
\* rows it found and made.
Fits(step, j, rows) ==
    /\ step \in {"register_select", "register_insert", "register_commit", "login_select",
                 "session_commit", "answer"} => j.user \in Emails
    /\ step \in {"refresh_select", "logout_select", "logout_commit", "me_select"}
          => j.cookie \in Cookie
    /\ step \in {"session_commit", "answer", "logout_commit"} /\ j.row # None
          => rows[j.row] # NoRow
    /\ step = "logout_commit" => j.row \in SessionId
    /\ step = "answer" => j.sid \in SessionId

Typed == TypeOK /\ \A r \in Requests : Fits(pc[r], job[r], sessions)

\* The rows of sessions stay, and keep their user and their tokens; none is
\* activated again.
RowsKept ==
    \A s \in SessionId : sessions[s] # NoRow =>
        /\ sessions'[s] # NoRow
        /\ sessions'[s].user = sessions[s].user /\ sessions'[s].iat = sessions[s].iat
        /\ sessions'[s].active => sessions[s].active

\* One request goes to another step with another job that fits; the sessions
\* are typed and kept.
LEMMA MoveTyped ==
    ASSUME Typed, NEW r \in Requests, NEW step \in Steps, NEW j \in Job, NEW answer \in Outcomes,
           pc' = [pc EXCEPT ![r] = step], job' = [job EXCEPT ![r] = j],
           outcome' = [outcome EXCEPT ![r] = answer] \/ UNCHANGED outcome,
           now' \in 0 .. MaxTime, users' \subseteq Emails,
           sessions' \in [SessionId -> SessionRow \cup {NoRow}], RowsKept,
           cookies' \subseteq Cookie, replaced' \subseteq SessionId, loggedOut' \subseteq SessionId,
           swallowed' \subseteq loggedOut', Fits(step, j, sessions')
    PROVE  Typed'
<1>1. TypeOK'
  BY DEF Typed, TypeOK
<1>2. ASSUME NEW q \in Requests PROVE Fits(pc'[q], job'[q], sessions')
  <2>1. CASE q = r
    BY <2>1 DEF Typed, TypeOK, Fits
  <2>2. CASE q # r
    <3>1. pc'[q] = pc[q] /\ job'[q] = job[q] /\ Fits(pc[q], job[q], sessions) /\ job[q] \in Job
      BY <2>2 DEF Typed, TypeOK
    <3>2. job[q].row \in SessionId \cup {None}
      BY <3>1 DEF Job
    <3> QED
      BY <3>1, <3>2 DEF Fits, RowsKept
  <2> QED
    BY <2>1, <2>2
<1> QED
  BY <1>1, <1>2 DEF Typed

\* The same of a request that stays among the sessions, users and cookies as
\* they are.
LEMMA QuietMoveTyped ==
    ASSUME Typed, NEW r \in Requests, NEW step \in Steps, NEW j \in Job, NEW answer \in Outcomes,
           pc' = [pc EXCEPT ![r] = step], job' = [job EXCEPT ![r] = j],
           outcome' = [outcome EXCEPT ![r] = answer] \/ UNCHANGED outcome,
           UNCHANGED <<now, users, sessions, cookies>>,
           replaced' \subseteq SessionId, loggedOut' \subseteq SessionId, swallowed' \subseteq loggedOut',
           Fits(step, j, sessions)
    PROVE  Typed' /\ RowsKept
<1>1. RowsKept
  BY DEF RowsKept
<1> QED
  BY <1>1, MoveTyped DEF Typed, TypeOK

\* A request that ends leaves everything typed.
LEMMA EndTyped ==
    ASSUME Typed, NEW r \in Requests, NEW answer \in Outcomes, End(r, answer),
           UNCHANGED <<now, users, sessions, cookies>>,
           replaced' \subseteq SessionId, loggedOut' \subseteq SessionId, swallowed' \subseteq loggedOut'
    PROVE  Typed' /\ RowsKept
<1>1. NoJob \in Job /\ "idle" \in Steps
  BY AuthAssumption DEF NoJob, Job, Steps
<1>2. Fits("idle", NoJob, sessions)
  BY DEF Fits
<1> QED
  BY <1>1, <1>2, QuietMoveTyped DEF End

\* Every step of a request keeps everything typed and the rows of sessions.
LEMMA RequestStep ==
    ASSUME Typed, NEW r \in Requests, Begin(r) \/ Advance(r) \/ DatabaseFails(r)
    PROVE  Typed' /\ RowsKept
<1> USE DEF Outcomes
<1>a. NoJob \in Job /\ job[r] \in Job /\ Fits(pc[r], job[r], sessions)
  BY AuthAssumption DEF NoJob, Job, Typed, TypeOK
<1>b. \A e \in Emails, right \in BOOLEAN :
         /\ [NoJob EXCEPT !.user = e] \in Job
         /\ [NoJob EXCEPT !.user = e, !.right = right] \in Job
  BY <1>a DEF Job
<1>c. \A c \in cookies :
         /\ [NoJob EXCEPT !.cookie = c] \in Job
         /\ [NoJob EXCEPT !.cookie = c, !.late = c.sid \in loggedOut] \in Job
  <2> TAKE c \in cookies
  <2> DEFINE late == c.sid \in loggedOut
  <2>1. c \in Cookie /\ late \in BOOLEAN
    BY DEF Typed, TypeOK
  <2> HIDE DEF late
  <2>2. [NoJob EXCEPT !.cookie = c] \in Job /\ [NoJob EXCEPT !.cookie = c, !.late = late] \in Job
    BY <1>a, <2>1 DEF Job
  <2> QED
    BY <2>2 DEF late
<1>d. \A c \in cookies : c \in Cookie /\ c.sid \in SessionId
  BY DEF Typed, TypeOK, Cookie
<1>e. replaced \subseteq SessionId /\ loggedOut \subseteq SessionId /\ swallowed \subseteq loggedOut
  BY DEF Typed, TypeOK
<1>f. ASSUME NEW answer \in Outcomes, Refuse(r, answer), UNCHANGED <<now, users, sessions, cookies>>,
             replaced' \subseteq SessionId, UNCHANGED <<loggedOut, swallowed>>
      PROVE  Typed' /\ RowsKept
  <2>1. pc' = [pc EXCEPT ![r] = "idle"] /\ job' = [job EXCEPT ![r] = job[r]]
    BY <1>f DEF Refuse, Typed, TypeOK
  <2>2. "idle" \in Steps /\ Fits("idle", job[r], sessions)
    BY DEF Steps, Fits
  <2> QED
    BY <1>a, <1>e, <1>f, <2>1, <2>2, QuietMoveTyped DEF Refuse
<1>1. CASE Register(r)
  <2>1. PICK e \in Emails : Start(r, "register_select", [NoJob EXCEPT !.user = e])
    BY <1>1 DEF Register
  <2>2. Fits("register_select", [NoJob EXCEPT !.user = e], sessions)
    BY DEF Fits, NoJob
  <2> QED
    BY <1>1, <1>b, <1>e, <2>1, <2>2, QuietMoveTyped DEF Register, Start, Steps
<1>2. CASE RegisterSelect(r)
  <2>1. CASE job[r].user \in users
    BY <1>2, <1>e, <2>1, EndTyped DEF RegisterSelect
  <2>2. CASE job[r].user \notin users
    <3>1. Fits("register_insert", job[r], sessions)
      BY <1>2, <1>a DEF RegisterSelect, Fits
    <3> QED
      BY <1>2, <1>a, <1>e, <2>2, <3>1, QuietMoveTyped DEF RegisterSelect, GoTo, Steps
  <2> QED
    BY <2>1, <2>2
<1>3. CASE RegisterInsert(r)
  <2>1. CASE job[r].user \in users
    BY <1>3, <1>e, <2>1, EndTyped DEF RegisterInsert
  <2>2. CASE job[r].user \notin users
    <3>1. Fits("register_commit", job[r], sessions)
      BY <1>3, <1>a DEF RegisterInsert, Fits
    <3> QED
      BY <1>3, <1>a, <1>e, <2>2, <3>1, QuietMoveTyped DEF RegisterInsert, GoTo, Steps
  <2> QED
    BY <2>1, <2>2
<1>4. CASE RegisterCommit(r)
  <2>1. users' \subseteq Emails
    BY <1>4, <1>a DEF RegisterCommit, Fits, Typed, TypeOK
  <2>2. RowsKept
    BY <1>4 DEF RegisterCommit, RowsKept
  <2>3. Fits("idle", NoJob, sessions') /\ "idle" \in Steps
    BY DEF Fits, Steps
  <2> QED
    BY <1>4, <1>a, <2>1, <2>2, <2>3, MoveTyped DEF RegisterCommit, End, Typed, TypeOK
<1>5. CASE Login(r)
  <2>1. PICK e \in Emails, right \in BOOLEAN :
          Start(r, "login_select", [NoJob EXCEPT !.user = e, !.right = right])
    BY <1>5 DEF Login
  <2>2. Fits("login_select", [NoJob EXCEPT !.user = e, !.right = right], sessions)
    BY DEF Fits, NoJob
  <2> QED
    BY <1>5, <1>b, <1>e, <2>1, <2>2, QuietMoveTyped DEF Login, Start, Steps
<1>6. ASSUME NEW e \in Emails, NEW row \in SessionId \cup {None}, Mint(r, e, row),
             row # None => sessions[row] # NoRow,
             UNCHANGED <<now, users, sessions, cookies>>,
             UNCHANGED <<replaced, loggedOut, swallowed>>
      PROVE  Typed' /\ RowsKept
  <2> DEFINE j == [job[r] EXCEPT !.user = e, !.row = row, !.iat = now]
  <2>1. j \in Job
    BY <1>a, <1>6 DEF Job, Typed, TypeOK
  <2>2. Fits("session_commit", j, sessions)
    BY <1>a, <1>6 DEF Fits, Job
  <2> HIDE DEF j
  <2>3. pc' = [pc EXCEPT ![r] = "session_commit"] /\ job' = [job EXCEPT ![r] = j]
           /\ UNCHANGED outcome
    BY <1>6 DEF Mint, GoTo, j
  <2> QED
    BY <1>e, <1>6, <2>1, <2>2, <2>3, QuietMoveTyped DEF Steps
<1>7. CASE LoginSelect(r)
  <2>1. job[r].user \in Emails
    BY <1>a, <1>7 DEF LoginSelect, Fits
  <2> QED
    BY <1>7, <1>6, <1>e, <2>1, EndTyped DEF LoginSelect
<1>8. CASE SessionCommit(r)
  <2>1. PICK s \in FreeIds :
          /\ sessions' = [t \in SessionId |->
                IF t = s THEN [user |-> job[r].user, iat |-> job[r].iat, active |-> TRUE]
                ELSE IF t = job[r].row THEN [sessions[t] EXCEPT !.active = FALSE]
                ELSE sessions[t]]
          /\ GoTo(r, "answer", [job[r] EXCEPT !.sid = s])
    BY <1>8 DEF SessionCommit
  <2>2. s \in SessionId /\ sessions[s] = NoRow
    BY DEF FreeIds
  <2>3. job[r].user \in Emails /\ job[r].iat \in 0 .. MaxTime
           /\ (job[r].row # None => sessions[job[r].row] # NoRow)
    BY <1>8, <1>a DEF SessionCommit, Fits, Job
  <2>4. \A t \in SessionId : sessions[t] \in SessionRow \cup {NoRow}
    BY DEF Typed, TypeOK
  <2>5. \A t \in SessionId : t = job[r].row => t # None /\ sessions[t] \in SessionRow
    BY <2>3, <2>4, AuthAssumption
  <2>6. sessions' \in [SessionId -> SessionRow \cup {NoRow}]
    BY <2>1, <2>3, <2>4, <2>5 DEF SessionRow
  <2>7. NoRow \notin SessionRow
    BY AuthAssumption DEF SessionRow
  <2>8. RowsKept
    BY <2>1, <2>2, <2>4, <2>5, <2>7 DEF RowsKept, SessionRow
  <2> DEFINE j == [job[r] EXCEPT !.sid = s]
  <2>9. j \in Job
    BY <1>a, <2>2 DEF Job
  <2>10. Fits("answer", j, sessions')
    BY <1>a, <1>8, <2>2, <2>3, <2>8 DEF Fits, Job, RowsKept
  <2>11. pc' = [pc EXCEPT ![r] = "answer"] /\ job' = [job EXCEPT ![r] = j] /\ UNCHANGED outcome
    BY <2>1 DEF GoTo
  <2> HIDE DEF j
  <2> QED
    BY <1>8, <1>e, <2>6, <2>8, <2>9, <2>10, <2>11, MoveTyped DEF SessionCommit, Steps, Typed, TypeOK
<1>9. CASE Answer(r)
  <2>1. job[r].user \in Emails /\ job[r].iat \in 0 .. MaxTime /\ job[r].sid \in SessionId
    BY <1>a, <1>9 DEF Answer, Fits, Job
  <2>2. cookies' \subseteq Cookie
    BY <1>9, <2>1 DEF Answer, Cookie, Typed, TypeOK
  <2>3. RowsKept
    BY <1>9 DEF Answer, RowsKept
  <2>4. Fits("idle", NoJob, sessions') /\ "idle" \in Steps
    BY DEF Fits, Steps
  <2> QED
    BY <1>9, <1>a, <2>2, <2>3, <2>4, MoveTyped DEF Answer, End, Typed, TypeOK
<1>10. CASE Refresh(r)
  <2>1. PICK c \in cookies :
          /\ replaced' = replaced \cup {c.sid}
          /\ \/ Refuse(r, "unauthorized")
             \/ Refuse(r, "error")
             \/ Start(r, "refresh_select",
                      [NoJob EXCEPT !.cookie = c, !.late = c.sid \in loggedOut])
    BY <1>10 DEF Refresh
  <2>2. replaced' \subseteq SessionId
    BY <1>d, <1>e, <2>1
  <2>3. CASE Start(r, "refresh_select",
                   [NoJob EXCEPT !.cookie = c, !.late = c.sid \in loggedOut])
    <3>1. [NoJob EXCEPT !.cookie = c, !.late = c.sid \in loggedOut] \in Job
      BY <1>c
    <3>2. Fits("refresh_select", [NoJob EXCEPT !.cookie = c, !.late = c.sid \in loggedOut], sessions)
      BY <1>d DEF Fits, NoJob
    <3> QED
      BY <1>10, <1>e, <2>2, <2>3, <3>1, <3>2, QuietMoveTyped DEF Refresh, Start, Steps
  <2> QED
    BY <1>10, <1>f, <2>1, <2>2, <2>3 DEF Refresh
<1>11. CASE RefreshNoCookie(r)
  BY <1>11, <1>e, <1>f DEF RefreshNoCookie
<1>12. CASE RefreshSelect(r)
  <2>1. PICK s \in RowsOf(job[r].cookie) :
          \/ End(r, "unauthorized")
          \/ Mint(r, job[r].cookie.sub, s)
    BY <1>12 DEF RefreshSelect
  <2>2. s \in SessionId /\ sessions[s] # NoRow
    BY DEF RowsOf
  <2>3. job[r].cookie.sub \in Emails
    BY <1>12, <1>a DEF RefreshSelect, Fits, Cookie
  <2> QED
    BY <1>12, <1>6, <1>e, <2>1, <2>2, <2>3, EndTyped DEF RefreshSelect
<1>13. CASE Logout(r)
  <2>1. PICK c \in cookies :
          /\ replaced' = replaced \cup {c.sid}
          /\ \/ Refuse(r, "error")
             \/ Start(r, "logout_select", [NoJob EXCEPT !.cookie = c])
    BY <1>13 DEF Logout
  <2>2. replaced' \subseteq SessionId
    BY <1>d, <1>e, <2>1
  <2>3. CASE Start(r, "logout_select", [NoJob EXCEPT !.cookie = c])
    <3>1. Fits("logout_select", [NoJob EXCEPT !.cookie = c], sessions)
      BY <1>d DEF Fits, NoJob
    <3> QED
      BY <1>13, <1>c, <1>e, <2>2, <2>3, <3>1, QuietMoveTyped DEF Logout, Start, Steps
  <2> QED
    BY <1>13, <1>f, <2>1, <2>2, <2>3 DEF Logout
<1>14. CASE LogoutNoCookie(r)
  BY <1>14, <1>e, <1>f DEF LogoutNoCookie
<1>15. CASE LogoutSelect(r)
  <2>1. PICK s \in RowsOf(job[r].cookie) : GoTo(r, "logout_commit", [job[r] EXCEPT !.row = s])
    BY <1>15 DEF LogoutSelect
  <2>2. s \in SessionId /\ sessions[s] # NoRow
    BY DEF RowsOf
  <2> DEFINE j == [job[r] EXCEPT !.row = s]
  <2>3. j \in Job
    BY <1>a, <2>2 DEF Job
  <2>4. Fits("logout_commit", j, sessions)
    BY <1>a, <1>15, <2>2 DEF LogoutSelect, Fits, Job
  <2>5. pc' = [pc EXCEPT ![r] = "logout_commit"] /\ job' = [job EXCEPT ![r] = j] /\ UNCHANGED outcome
    BY <2>1 DEF GoTo
  <2> HIDE DEF j
  <2> QED
    BY <1>15, <1>e, <2>3, <2>4, <2>5, QuietMoveTyped DEF LogoutSelect, Steps
<1>16. CASE LogoutCommit(r)
  <2>1. job[r].row \in SessionId /\ job[r].cookie \in Cookie
    BY <1>16, <1>a DEF LogoutCommit, Fits
  <2>2. sessions[job[r].row] \in SessionRow
    BY <1>16, <1>a, <2>1, AuthAssumption DEF LogoutCommit, Fits, Typed, TypeOK
  <2>3. /\ sessions' \in [SessionId -> SessionRow \cup {NoRow}]
        /\ \A s \in SessionId \ {job[r].row} : sessions'[s] = sessions[s]
        /\ sessions'[job[r].row] = [sessions[job[r].row] EXCEPT !.active = FALSE]
        /\ sessions'[job[r].row] \in SessionRow
    BY <1>16, <2>1, <2>2 DEF LogoutCommit, Typed, TypeOK, SessionRow
  <2>4. RowsKept
    BY <2>1, <2>2, <2>3, AuthAssumption DEF RowsKept, SessionRow
  <2>5. loggedOut' \subseteq SessionId /\ swallowed' \subseteq loggedOut'
    BY <1>16, <1>e, <2>1 DEF LogoutCommit, Cookie
  <2>6. Fits("idle", NoJob, sessions') /\ "idle" \in Steps
    BY DEF Fits, Steps
  <2> QED
    BY <1>16, <1>a, <2>3, <2>4, <2>5, <2>6, MoveTyped DEF LogoutCommit, End, Typed, TypeOK
<1>17. CASE Me(r)
  <2>1. PICK c \in cookies :
          \/ Refuse(r, "unauthorized")
          \/ Start(r, "me_select", [NoJob EXCEPT !.cookie = c, !.late = c.sid \in loggedOut])
    BY <1>17 DEF Me
  <2>2. CASE Start(r, "me_select", [NoJob EXCEPT !.cookie = c, !.late = c.sid \in loggedOut])
    <3>1. [NoJob EXCEPT !.cookie = c, !.late = c.sid \in loggedOut] \in Job
      BY <1>c
    <3>2. Fits("me_select", [NoJob EXCEPT !.cookie = c, !.late = c.sid \in loggedOut], sessions)
      BY <1>d DEF Fits, NoJob
    <3> QED
      BY <1>17, <1>e, <2>2, <3>1, <3>2, QuietMoveTyped DEF Me, Start, Steps
  <2> QED
    BY <1>17, <1>e, <1>f, <2>1, <2>2 DEF Me
<1>18. CASE MeSelect(r)
  BY <1>18, <1>e, EndTyped DEF MeSelect
<1>19. CASE DatabaseFails(r)
  <2>1. CASE pc[r] \in {"logout_select", "logout_commit"}
    <3>1. job[r].cookie \in Cookie
      BY <1>a, <2>1 DEF Fits
    <3>2. loggedOut' \subseteq SessionId /\ swallowed' \subseteq loggedOut'
      BY <1>19, <1>e, <2>1, <3>1 DEF DatabaseFails, Cookie
    <3> QED
      BY <1>19, <1>e, <2>1, <3>2, EndTyped DEF DatabaseFails
  <2>2. CASE pc[r] \notin {"logout_select", "logout_commit"}
    BY <1>19, <1>e, <2>2, EndTyped DEF DatabaseFails
  <2> QED
    BY <2>1, <2>2
<1> QED
  BY <1>1, <1>2, <1>3, <1>4, <1>5, <1>7, <1>8, <1>9, <1>10, <1>11, <1>12, <1>13, <1>14, <1>15,
     <1>16, <1>17, <1>18, <1>19 DEF Begin, Advance

\* The clock keeps everything typed.
LEMMA TickStep == Typed /\ Tick => Typed' /\ RowsKept
<1> SUFFICES ASSUME Typed, Tick PROVE Typed' /\ RowsKept
  OBVIOUS
<1>1. now' \in 0 .. MaxTime
  BY AuthAssumption DEF Tick, Typed, TypeOK
<1>2. TypeOK'
  BY <1>1 DEF Tick, Typed, TypeOK
<1>3. RowsKept
  BY DEF Tick, RowsKept
<1> QED
  BY <1>2, <1>3 DEF Tick, Typed

\* The empty tables and idle slots are typed.
LEMMA TypedInit == Init => Typed
<1> SUFFICES ASSUME Init PROVE Typed
  OBVIOUS
<1>1. 0 \in 0 .. MaxTime
  BY AuthAssumption
<1>2. NoJob \in Job
  BY <1>1 DEF NoJob, Job
<1>3. TypeOK
  BY <1>1, <1>2 DEF Init, TypeOK, Steps, Outcomes
<1>4. \A r \in Requests : Fits(pc[r], job[r], sessions)
  BY DEF Init, Fits
<1> QED
  BY <1>3, <1>4 DEF Typed

\* Every step keeps everything typed and the rows of sessions.
LEMMA TypedNext == Typed /\ [Next]_vars => Typed' /\ RowsKept
<1> SUFFICES ASSUME Typed, [Next]_vars PROVE Typed' /\ RowsKept
  OBVIOUS
<1>1. CASE Tick
  BY <1>1, TickStep
<1>2. CASE \E r \in Requests : Begin(r) \/ Advance(r) \/ DatabaseFails(r)
  BY <1>2, RequestStep
<1>3. CASE UNCHANGED vars
  BY <1>3 DEF vars, Typed, TypeOK, RowsKept
<1> QED
  BY <1>1, <1>2, <1>3 DEF Next

\* Every request has, at each of its steps, what that step uses, and every row
\* and cookie it makes is one of its kind.
THEOREM TypeCorrect == Spec => []TypeOK
<1>1. Typed => TypeOK
  BY DEF Typed
<1> QED
  BY <1>1, TypedInit, TypedNext, PTL DEF Spec

\* No interleaving of refreshes and logouts of a session, and no failure of one
\* of them, loses a session, changes whose it is, or revives it.
THEOREM RevokedStaysRevoked == Spec => RevokedForGood
<1>1. RowsKept => [\A s \in SessionId : sessions[s] # NoRow =>
         /\ sessions'[s] # NoRow
         /\ sessions'[s].user = sessions[s].user /\ sessions'[s].iat = sessions[s].iat
         /\ sessions'[s].active => sessions[s].active]_vars
  BY DEF RowsKept
<1> QED
  BY <1>1, TypedInit, TypedNext, PTL DEF Spec, RevokedForGood
----------------------------------------------------------------------------
(* Rotation.                                                               *)

\* A step of one request leaves the others where they are.
LEMMA OthersStay ==
    ASSUME Typed, NEW r \in Requests, Begin(r) \/ Advance(r) \/ DatabaseFails(r),
           NEW q \in Requests, q # r
    PROVE  pc'[q] = pc[q] /\ job'[q] = job[q] /\ outcome'[q] = outcome[q]
<1> USE DEF Typed, TypeOK, Start, Refuse, GoTo, End
<1>1. CASE Begin(r)
  BY <1>1 DEF Begin, Register, Login, Refresh, RefreshNoCookie, Logout, LogoutNoCookie, Me
<1>2. CASE Advance(r)
  BY <1>2 DEF Advance, RegisterSelect, RegisterInsert, RegisterCommit, LoginSelect, RefreshSelect,
              Mint, SessionCommit, Answer, LogoutSelect, LogoutCommit, MeSelect
<1>3. CASE DatabaseFails(r)
  BY <1>3 DEF DatabaseFails
<1> QED
  BY <1>1, <1>2, <1>3

\* A request that comes to be answered with cookies has just committed.
LEMMA AnswerAfterCommit ==
    ASSUME Typed, NEW r \in Requests, Begin(r) \/ Advance(r) \/ DatabaseFails(r), pc'[r] = "answer"
    PROVE  SessionCommit(r)
<1> USE DEF Typed, TypeOK, Start, Refuse, GoTo, End
<1>1. ~Begin(r)
  BY DEF Begin, Register, Login, Refresh, RefreshNoCookie, Logout, LogoutNoCookie, Me
<1>2. ~DatabaseFails(r)
  BY DEF DatabaseFails
<1>3. CASE Advance(r)
  BY <1>3 DEF Advance, RegisterSelect, RegisterInsert, RegisterCommit, LoginSelect, RefreshSelect,
              Mint, Answer, LogoutSelect, LogoutCommit, MeSelect
<1> QED
  BY <1>1, <1>2, <1>3

\* The rows a request is answered about, once stored, stay as they were stored.
LEMMA RotatedStays ==
    ASSUME Typed, RowsKept, NEW q \in Requests, UNCHANGED <<pc[q], job[q]>>,
           pc[q] = "answer" =>
               /\ sessions[job[q].sid] # NoRow
               /\ sessions[job[q].sid].user = job[q].user /\ sessions[job[q].sid].iat = job[q].iat
               /\ job[q].row # None => ~sessions[job[q].row].active
    PROVE  pc'[q] = "answer" =>
               /\ sessions'[job'[q].sid] # NoRow
               /\ sessions'[job'[q].sid].user = job'[q].user
               /\ sessions'[job'[q].sid].iat = job'[q].iat
               /\ job'[q].row # None => ~sessions'[job'[q].row].active
<1>1. job[q] \in Job /\ Fits(pc[q], job[q], sessions)
  BY DEF Typed, TypeOK
<1>2. job[q].row # None => job[q].row \in SessionId
  BY <1>1 DEF Job
<1>3. pc[q] = "answer" => /\ job[q].sid \in SessionId
                          /\ job[q].row # None => sessions[job[q].row] # NoRow
  BY <1>1 DEF Fits
<1> QED
  <2> SUFFICES ASSUME pc[q] = "answer"
               PROVE  /\ sessions'[job[q].sid] # NoRow
                      /\ sessions'[job[q].sid].user = job[q].user
                      /\ sessions'[job[q].sid].iat = job[q].iat
                      /\ job[q].row # None => ~sessions'[job[q].row].active
    OBVIOUS
  <2>1. sessions[job[q].sid] # NoRow /\ job[q].sid \in SessionId
    BY <1>3
  <2> QED
    BY <1>2, <1>3, <2>1 DEF RowsKept

\* The commit of a session stores the new row and revokes the refreshed one.
LEMMA CommitRotates ==
    ASSUME Typed, NEW r \in Requests, SessionCommit(r)
    PROVE  /\ sessions'[job'[r].sid] # NoRow
           /\ sessions'[job'[r].sid].user = job'[r].user
           /\ sessions'[job'[r].sid].iat = job'[r].iat
           /\ job'[r].row # None => ~sessions'[job'[r].row].active
<1>1. PICK s \in FreeIds :
        /\ sessions' = [t \in SessionId |->
              IF t = s THEN [user |-> job[r].user, iat |-> job[r].iat, active |-> TRUE]
              ELSE IF t = job[r].row THEN [sessions[t] EXCEPT !.active = FALSE]
              ELSE sessions[t]]
        /\ GoTo(r, "answer", [job[r] EXCEPT !.sid = s])
  BY DEF SessionCommit
<1>2. s \in SessionId /\ sessions[s] = NoRow
  BY DEF FreeIds
<1>3. job[r] \in Job /\ Fits(pc[r], job[r], sessions) /\ pc[r] = "session_commit"
  BY DEF Typed, TypeOK, SessionCommit
<1>4. /\ job[r].user \in Emails /\ job[r].iat \in 0 .. MaxTime
      /\ job[r].row # None => job[r].row \in SessionId /\ sessions[job[r].row] # NoRow
  BY <1>3 DEF Fits, Job
<1>5. /\ job'[r].sid = s /\ job'[r].user = job[r].user /\ job'[r].iat = job[r].iat
      /\ job'[r].row = job[r].row
  BY <1>1, <1>3 DEF GoTo, Typed, TypeOK, Job
<1>6. sessions'[s] = [user |-> job[r].user, iat |-> job[r].iat, active |-> TRUE]
  BY <1>1, <1>2
<1>7. [user |-> job[r].user, iat |-> job[r].iat, active |-> TRUE] # NoRow
  <2>1. job[r].iat \in Nat
    BY <1>4, AuthAssumption
  <2>2. [user |-> job[r].user, iat |-> job[r].iat, active |-> TRUE]
           \in [user : Emails, iat : Nat, active : BOOLEAN]
    BY <1>4, <2>1
  <2> QED
    BY <2>2, AuthAssumption
<1>8. ASSUME job[r].row # None PROVE ~sessions'[job[r].row].active
  <2>1. sessions'[job[r].row] = [sessions[job[r].row] EXCEPT !.active = FALSE]
    BY <1>1, <1>2, <1>4, <1>8
  <2>2. sessions[job[r].row] \in SessionRow
    BY <1>4, <1>8 DEF Typed, TypeOK
  <2> QED
    BY <2>1, <2>2 DEF SessionRow
<1> QED
  BY <1>5, <1>6, <1>7, <1>8

\* Every step keeps RotationCommitted.
LEMMA RotationNext == Typed /\ RotationCommitted /\ [Next]_vars => RotationCommitted'
<1> SUFFICES ASSUME Typed, RotationCommitted, [Next]_vars, NEW q \in Requests
             PROVE  pc'[q] = "answer" =>
                      /\ sessions'[job'[q].sid] # NoRow
                      /\ sessions'[job'[q].sid].user = job'[q].user
                      /\ sessions'[job'[q].sid].iat = job'[q].iat
                      /\ job'[q].row # None => ~sessions'[job'[q].row].active
  BY DEF RotationCommitted
<1>1. RowsKept
  BY TypedNext
<1>2. CASE UNCHANGED <<pc[q], job[q]>>
  BY <1>1, <1>2, RotatedStays DEF RotationCommitted
<1>3. CASE ~UNCHANGED <<pc[q], job[q]>>
  <2>1. PICK r \in Requests : Begin(r) \/ Advance(r) \/ DatabaseFails(r)
    BY <1>3 DEF Next, Tick, vars
  <2>2. q = r
    BY <1>3, <2>1, OthersStay
  <2> QED
    BY <2>1, <2>2, AnswerAfterCommit, CommitRotates
<1> QED
  BY <1>2, <1>3

\* Cookies are sent only after the new session is stored and the refreshed one
\* revoked, whatever else runs on the same session or fails.
THEOREM RotationIsCommitted == Spec => []RotationCommitted
<1>1. Init => RotationCommitted
  BY DEF Init, RotationCommitted
<1> QED
  BY <1>1, TypedInit, TypedNext, RotationNext, PTL DEF Spec
----------------------------------------------------------------------------
(* Registration.                                                           *)

\* An insert that is not committed yet is of an email without a row, the only
\* one of that email, and not answered.
Registering ==
    \A r \in Requests : pc[r] = "register_commit" =>
        /\ job[r].user \notin users
        /\ outcome[r] = "none"
        /\ \A q \in Requests \ {r} : pc[q] = "register_commit" => job[q].user # job[r].user

\* A request in flight has no answer yet.
Unanswered == \A r \in Requests : pc[r] # "idle" => outcome[r] = "none"

RegisterInv == Typed /\ Unanswered /\ Registering

\* A request that comes to commit a user has just inserted it.
LEMMA CommitAfterInsert ==
    ASSUME Typed, NEW r \in Requests, Begin(r) \/ Advance(r) \/ DatabaseFails(r),
           pc'[r] = "register_commit"
    PROVE  /\ pc[r] = "register_insert" /\ job[r].user \notin users /\ job'[r] = job[r]
           /\ \A q \in Requests : pc[q] = "register_commit" => job[q].user # job[r].user
           /\ UNCHANGED <<users, outcome>>
<1> USE DEF Typed, TypeOK, Start, Refuse, GoTo, End
<1>1. ~Begin(r)
  BY DEF Begin, Register, Login, Refresh, RefreshNoCookie, Logout, LogoutNoCookie, Me
<1>2. ~DatabaseFails(r)
  BY DEF DatabaseFails
<1>3. RegisterInsert(r)
  BY <1>1, <1>2 DEF Advance, RegisterSelect, RegisterCommit, LoginSelect, RefreshSelect,
                    Mint, SessionCommit, Answer, LogoutSelect, LogoutCommit, MeSelect
<1> QED
  BY <1>3 DEF RegisterInsert

\* Only the commit of a registration changes users, by the user it is about.
LEMMA UsersStep ==
    ASSUME Typed, NEW r \in Requests, Begin(r) \/ Advance(r) \/ DatabaseFails(r)
    PROVE  /\ UNCHANGED users \/ (RegisterCommit(r) /\ users' = users \cup {job[r].user})
           /\ pc'[r] # "idle" => outcome'[r] = "none" \/ (pc[r] # "idle" /\ UNCHANGED outcome)
<1> USE DEF Typed, TypeOK, Start, Refuse, GoTo, End
<1>1. CASE Begin(r)
  BY <1>1 DEF Begin, Register, Login, Refresh, RefreshNoCookie, Logout, LogoutNoCookie, Me
<1>2. CASE Advance(r)
  BY <1>2 DEF Advance, RegisterSelect, RegisterInsert, RegisterCommit, LoginSelect, RefreshSelect,
              Mint, SessionCommit, Answer, LogoutSelect, LogoutCommit, MeSelect
<1>3. CASE DatabaseFails(r)
  BY <1>3 DEF DatabaseFails
<1> QED
  BY <1>1, <1>2, <1>3

\* Every step keeps Unanswered.
LEMMA UnansweredNext == Typed /\ Unanswered /\ [Next]_vars => Unanswered'
<1> SUFFICES ASSUME Typed, Unanswered, [Next]_vars PROVE Unanswered'
  OBVIOUS
<1>1. CASE UNCHANGED <<pc, outcome>>
  BY <1>1 DEF Unanswered
<1>2. ASSUME NEW r \in Requests, Begin(r) \/ Advance(r) \/ DatabaseFails(r)
      PROVE  Unanswered'
  BY <1>2, OthersStay, UsersStep DEF Unanswered
<1> QED
  BY <1>1, <1>2 DEF Next, Tick, vars

\* RegisterInv holds at the start.
LEMMA RegisterInit == Init => RegisterInv
BY TypedInit DEF Init, RegisterInv, Unanswered, Registering

\* RegisterInv is inductive: the unique index keeps a second insert of the email
\* waiting, and refuses it once the first is committed.
LEMMA RegisterNext == RegisterInv /\ [Next]_vars => RegisterInv'
<1> SUFFICES ASSUME RegisterInv, [Next]_vars PROVE RegisterInv'
  OBVIOUS
<1>1. Typed' /\ Typed /\ Unanswered'
  BY TypedNext, UnansweredNext DEF RegisterInv
<1>2. CASE UNCHANGED <<users, pc, job, outcome>>
  BY <1>1, <1>2 DEF RegisterInv, Registering
<1>3. ASSUME NEW r \in Requests, Begin(r) \/ Advance(r) \/ DatabaseFails(r)
      PROVE  Registering'
  <2>1. \A q \in Requests \ {r} : UNCHANGED <<pc[q], job[q], outcome[q]>>
    BY <1>1, <1>3, OthersStay
  <2>3. ASSUME NEW q \in Requests, pc'[q] = "register_commit"
        PROVE  job'[q].user \notin users'
    <3>1. CASE q = r
      BY <1>1, <1>3, <2>3, <3>1, CommitAfterInsert
    <3>2. CASE q # r
      <4>1. pc[q] = "register_commit" /\ job'[q] = job[q] /\ job[q].user \notin users
        BY <2>1, <2>3, <3>2 DEF RegisterInv, Registering
      <4>2. RegisterCommit(r) => job[q].user # job[r].user
        BY <3>2, <4>1 DEF RegisterCommit, RegisterInv, Registering
      <4> QED
        BY <1>1, <1>3, <4>1, <4>2, UsersStep
    <3> QED
      BY <3>1, <3>2
  <2>4. ASSUME NEW p \in Requests, NEW q \in Requests, p # q,
               pc'[p] = "register_commit", pc'[q] = "register_commit"
        PROVE  job'[p].user # job'[q].user
    <3>1. CASE p = r
      BY <1>1, <1>3, <2>1, <2>4, <3>1, CommitAfterInsert
    <3>2. CASE q = r
      BY <1>1, <1>3, <2>1, <2>4, <3>2, CommitAfterInsert
    <3>3. CASE p # r /\ q # r
      BY <2>1, <2>4, <3>3 DEF RegisterInv, Registering
    <3> QED
      BY <3>1, <3>2, <3>3
  <2>5. \A q \in Requests : pc'[q] = "register_commit" => outcome'[q] = "none"
    BY <1>1 DEF Unanswered
  <2> QED
    BY <2>3, <2>4, <2>5 DEF Registering
<1> QED
  BY <1>1, <1>2, <1>3 DEF RegisterInv, Next, Tick, vars

\* Of the registrations of an email that run together one at most succeeds: the
\* one that makes the user.
THEOREM RegisteredAtMostOnce == Spec => RegisteredOnce
<1>1. RegisterInv /\ [Next]_vars =>
        [\A r \in Requests : pc[r] = "register_commit" /\ outcome'[r] = "ok"
            => job[r].user \notin users /\ job[r].user \in users']_vars
  <2> SUFFICES ASSUME RegisterInv, [Next]_vars, NEW q \in Requests,
                      pc[q] = "register_commit", outcome'[q] = "ok"
               PROVE  job[q].user \notin users /\ job[q].user \in users'
    OBVIOUS
  <2>1. Typed /\ outcome[q] = "none" /\ job[q].user \notin users
    BY DEF RegisterInv, Registering
  <2>2. PICK r \in Requests : Begin(r) \/ Advance(r) \/ DatabaseFails(r)
    BY <2>1 DEF Next, Tick, vars
  <2>3. r = q
    BY <2>1, <2>2, OthersStay
  <2>4. RegisterCommit(q)
    BY <2>1, <2>2, <2>3
       DEF Begin, Register, Login, Refresh, RefreshNoCookie, Logout, LogoutNoCookie, Me, Start, Refuse,
           Advance, RegisterSelect, RegisterInsert, LoginSelect, RefreshSelect, SessionCommit, Answer,
           LogoutSelect, LogoutCommit, MeSelect, DatabaseFails, End, Typed, TypeOK
  <2> QED
    BY <2>1, <2>4 DEF RegisterCommit
<1> QED
  BY <1>1, RegisterInit, RegisterNext, PTL DEF Spec, RegisteredOnce
----------------------------------------------------------------------------
(* Sessions that have the same tokens, and who may revoke one.             *)

\* Sessions s and t are of one user and started in one second.
Alike(rows, s, t) ==
    /\ rows[s] # NoRow /\ rows[t] # NoRow
    /\ rows[s].user = rows[t].user /\ rows[s].iat = rows[t].iat

\* Sessions that have the same tokens keep them.
LEMMA AlikeStays ==
    ASSUME RowsKept, NEW s \in SessionId, NEW t \in SessionId, Alike(sessions, s, t)
    PROVE  Alike(sessions', s, t)
BY DEF RowsKept, Alike

\* What a pair of cookies names is the session it came with.
Backed ==
    \A c \in cookies :
        sessions[c.sid] # NoRow /\ sessions[c.sid].user = c.sub /\ sessions[c.sid].iat = c.iat

\* A request holds cookies that were sent; what it revokes has the tokens of a
\* session of which that was asked for.
HoldsAt(step, j, rows, cs, asked) ==
    /\ step \in {"refresh_select", "logout_select", "logout_commit", "me_select"} => j.cookie \in cs
    /\ step \in {"refresh_select", "logout_select", "logout_commit"} => j.cookie.sid \in asked
    /\ step = "logout_commit" => Alike(rows, j.row, j.cookie.sid)
    /\ step = "session_commit" /\ j.row # None => \E t \in asked : Alike(rows, j.row, t)

Holds == \A r \in Requests : HoldsAt(pc[r], job[r], sessions, cookies, replaced)

OnlyAskedRevoked ==
    \A s \in SessionId : sessions[s] # NoRow /\ ~sessions[s].active
        => \E t \in replaced : Alike(sessions, s, t)

SessionsInv ==
    Typed /\ RotationCommitted /\ Unanswered /\ Backed /\ Holds /\ OnlyAskedRevoked

\* The rows a lookup finds have the tokens of the session the cookies came with.
LEMMA RowsAlike ==
    ASSUME SessionsInv, NEW c \in cookies
    PROVE  /\ c.sid \in SessionId
           /\ \A s \in RowsOf(c) : s \in SessionId /\ Alike(sessions, s, c.sid)
<1>1. c.sid \in SessionId
  BY DEF SessionsInv, Typed, TypeOK, Cookie
<1> QED
  BY <1>1 DEF SessionsInv, Backed, RowsOf, Alike

\* A request's next step holds what HoldsAt says; nothing is taken back.
LEMMA HoldsStep ==
    ASSUME SessionsInv, NEW r \in Requests, Begin(r) \/ Advance(r) \/ DatabaseFails(r)
    PROVE  /\ HoldsAt(pc'[r], job'[r], sessions', cookies', replaced')
           /\ cookies \subseteq cookies' /\ replaced \subseteq replaced'
<1>a. /\ pc \in [Requests -> Steps] /\ job \in [Requests -> Job]
      /\ HoldsAt(pc[r], job[r], sessions, cookies, replaced)
  BY DEF SessionsInv, Typed, TypeOK, Holds
<1>b. ASSUME pc'[r] \in {"idle", "register_select", "register_insert", "register_commit",
                         "login_select", "answer"}
      PROVE  HoldsAt(pc'[r], job'[r], sessions', cookies', replaced')
  BY <1>b DEF HoldsAt
<1> USE DEF Start, Refuse, GoTo, End
<1>1. CASE Register(r) \/ Login(r) \/ RefreshNoCookie(r) \/ LogoutNoCookie(r)
  BY <1>1, <1>a, <1>b DEF Register, Login, RefreshNoCookie, LogoutNoCookie
<1>2. CASE RegisterSelect(r) \/ RegisterInsert(r) \/ RegisterCommit(r)
  BY <1>2, <1>a, <1>b DEF RegisterSelect, RegisterInsert, RegisterCommit
<1>3. CASE SessionCommit(r) \/ Answer(r) \/ LogoutCommit(r) \/ MeSelect(r) \/ DatabaseFails(r)
  BY <1>3, <1>a, <1>b DEF SessionCommit, Answer, LogoutCommit, MeSelect, DatabaseFails
<1>4. CASE LoginSelect(r)
  <2>1. CASE pc'[r] = "idle"
    BY <1>4, <1>b, <2>1 DEF LoginSelect
  <2>2. CASE pc'[r] # "idle"
    <3>1. pc'[r] = "session_commit" /\ job'[r].row = None
      BY <1>4, <1>a, <2>2 DEF LoginSelect, Mint, Job
    <3> QED
      BY <1>4, <3>1 DEF LoginSelect, HoldsAt
  <2> QED
    BY <2>1, <2>2
<1>5. CASE Refresh(r)
  <2>1. CASE pc'[r] = "idle"
    BY <1>5, <1>b, <2>1 DEF Refresh
  <2>2. CASE pc'[r] # "idle"
    <3>1. PICK c \in cookies :
            /\ replaced' = replaced \cup {c.sid}
            /\ Start(r, "refresh_select",
                     [NoJob EXCEPT !.cookie = c, !.late = c.sid \in loggedOut])
      BY <1>5, <1>a, <2>2 DEF Refresh
    <3>2. pc'[r] = "refresh_select" /\ job'[r].cookie = c
      BY <1>a, <3>1 DEF NoJob
    <3> QED
      BY <1>5, <3>1, <3>2 DEF Refresh, HoldsAt
  <2> QED
    BY <2>1, <2>2
<1>6. CASE RefreshSelect(r)
  <2>1. CASE pc'[r] = "idle"
    BY <1>6, <1>b, <2>1 DEF RefreshSelect
  <2>2. CASE pc'[r] # "idle"
    <3>1. job[r].cookie \in cookies /\ job[r].cookie.sid \in replaced
      BY <1>6, <1>a DEF RefreshSelect, HoldsAt
    <3>2. PICK s \in RowsOf(job[r].cookie) : Mint(r, job[r].cookie.sub, s)
      BY <1>6, <1>a, <2>2 DEF RefreshSelect
    <3>3. Alike(sessions, s, job[r].cookie.sid)
      BY <3>1, <3>2, RowsAlike
    <3>4. pc'[r] = "session_commit" /\ job'[r].row = s
      BY <1>a, <3>2 DEF Mint, Job
    <3> QED
      BY <1>6, <3>1, <3>3, <3>4 DEF RefreshSelect, HoldsAt
  <2> QED
    BY <2>1, <2>2
<1>7. CASE Logout(r)
  <2>1. CASE pc'[r] = "idle"
    BY <1>7, <1>b, <2>1 DEF Logout
  <2>2. CASE pc'[r] # "idle"
    <3>1. PICK c \in cookies :
            /\ replaced' = replaced \cup {c.sid}
            /\ Start(r, "logout_select", [NoJob EXCEPT !.cookie = c])
      BY <1>7, <1>a, <2>2 DEF Logout
    <3>2. pc'[r] = "logout_select" /\ job'[r].cookie = c
      BY <1>a, <3>1 DEF NoJob
    <3> QED
      BY <1>7, <3>1, <3>2 DEF Logout, HoldsAt
  <2> QED
    BY <2>1, <2>2
<1>8. CASE LogoutSelect(r)
  <2>1. job[r].cookie \in cookies /\ job[r].cookie.sid \in replaced
    BY <1>8, <1>a DEF LogoutSelect, HoldsAt
  <2>2. PICK s \in RowsOf(job[r].cookie) : GoTo(r, "logout_commit", [job[r] EXCEPT !.row = s])
    BY <1>8 DEF LogoutSelect
  <2>3. Alike(sessions, s, job[r].cookie.sid)
    BY <2>1, <2>2, RowsAlike
  <2>4. pc'[r] = "logout_commit" /\ job'[r].cookie = job[r].cookie /\ job'[r].row = s
    BY <1>a, <2>2 DEF Job
  <2> QED
    BY <1>8, <2>1, <2>3, <2>4 DEF LogoutSelect, HoldsAt
<1>9. CASE Me(r)
  <2>1. CASE pc'[r] = "idle"
    BY <1>9, <1>b, <2>1 DEF Me
  <2>2. CASE pc'[r] # "idle"
    <3>1. PICK c \in cookies :
            Start(r, "me_select", [NoJob EXCEPT !.cookie = c, !.late = c.sid \in loggedOut])
      BY <1>9, <1>a, <2>2 DEF Me
    <3>2. pc'[r] = "me_select" /\ job'[r].cookie = c
      BY <1>a, <3>1 DEF NoJob
    <3> QED
      BY <1>9, <3>1, <3>2 DEF Me, HoldsAt
  <2> QED
    BY <2>1, <2>2
<1> QED
  BY <1>1, <1>2, <1>3, <1>4, <1>5, <1>6, <1>7, <1>8, <1>9 DEF Begin, Advance


\* What a request was to revoke, it is still to revoke after another's step.
LEMMA HoldsStays ==
    ASSUME Typed, RowsKept, NEW q \in Requests, UNCHANGED <<pc[q], job[q]>>,
           HoldsAt(pc[q], job[q], sessions, cookies, replaced),
           cookies \subseteq cookies', replaced \subseteq replaced'
    PROVE  HoldsAt(pc'[q], job'[q], sessions', cookies', replaced')
<1>1. replaced \subseteq SessionId /\ job[q].row \in SessionId \cup {None}
         /\ (pc[q] = "logout_commit" => job[q].cookie.sid \in SessionId /\ job[q].row \in SessionId)
  BY DEF Typed, TypeOK, Job, Fits, Cookie
<1>2. pc[q] = "logout_commit" => Alike(sessions', job[q].row, job[q].cookie.sid)
  BY <1>1, AlikeStays DEF HoldsAt
<1>3. pc[q] = "session_commit" /\ job[q].row # None
         => \E t \in replaced' : Alike(sessions', job[q].row, t)
  BY <1>1, AlikeStays DEF HoldsAt
<1> QED
  BY <1>2, <1>3 DEF HoldsAt

\* A session that a step revokes has the tokens of one the request was to revoke.
LEMMA RevokedStep ==
    ASSUME SessionsInv, NEW r \in Requests, Begin(r) \/ Advance(r) \/ DatabaseFails(r),
           NEW s \in SessionId, sessions'[s] # NoRow, ~sessions'[s].active
    PROVE  \E t \in replaced' : Alike(sessions', s, t)
<1>a. /\ Typed /\ RowsKept /\ replaced \subseteq replaced' /\ replaced \subseteq SessionId
      /\ HoldsAt(pc[r], job[r], sessions, cookies, replaced)
  BY RequestStep, HoldsStep DEF SessionsInv, Typed, TypeOK, Holds
<1>b. ASSUME NEW t \in replaced, Alike(sessions, s, t) PROVE \E u \in replaced' : Alike(sessions', s, u)
  BY <1>a, <1>b, AlikeStays
<1>c. sessions[s] # NoRow /\ ~sessions[s].active => \E t \in replaced : Alike(sessions, s, t)
  BY DEF SessionsInv, OnlyAskedRevoked
<1>1. CASE sessions'[s] = sessions[s]
  BY <1>1, <1>b, <1>c
<1>2. CASE LogoutCommit(r)
  <2>1. CASE s = job[r].row
    BY <1>2, <1>a, <1>b, <2>1 DEF LogoutCommit, HoldsAt
  <2>2. CASE s # job[r].row
    BY <1>1, <1>2, <1>a, <2>2 DEF LogoutCommit, Typed, TypeOK
  <2> QED
    BY <2>1, <2>2
<1>3. CASE SessionCommit(r)
  <2>1. PICK n \in FreeIds :
          sessions' = [t \in SessionId |->
                IF t = n THEN [user |-> job[r].user, iat |-> job[r].iat, active |-> TRUE]
                ELSE IF t = job[r].row THEN [sessions[t] EXCEPT !.active = FALSE]
                ELSE sessions[t]]
    BY <1>3 DEF SessionCommit
  <2>2. CASE s = n
    BY <2>1, <2>2
  <2>3. CASE s # n /\ s = job[r].row
    <3>1. job[r].row # None
      BY <2>3, AuthAssumption
    <3> QED
      BY <1>3, <1>a, <1>b, <2>3, <3>1 DEF SessionCommit, HoldsAt
  <2>4. CASE s # n /\ s # job[r].row
    BY <1>1, <2>1, <2>4
  <2> QED
    BY <2>2, <2>3, <2>4
<1> QED
  <2>1. Begin(r) => UNCHANGED sessions
    BY DEF Begin, Register, Login, Refresh, RefreshNoCookie, Logout, LogoutNoCookie, Me
  <2>2. DatabaseFails(r) => UNCHANGED sessions
    BY DEF DatabaseFails
  <2>3. Advance(r) => UNCHANGED sessions \/ LogoutCommit(r) \/ SessionCommit(r)
    BY DEF Advance, RegisterSelect, RegisterInsert, RegisterCommit, LoginSelect, RefreshSelect,
           Answer, LogoutSelect, MeSelect
  <2> QED
    BY <1>1, <1>2, <1>3, <2>1, <2>2, <2>3

\* The cookies a step sends are of the session it has stored.
LEMMA BackedStep ==
    ASSUME SessionsInv, NEW r \in Requests, Begin(r) \/ Advance(r) \/ DatabaseFails(r)
    PROVE  Backed'
<1>a. Typed /\ Typed' /\ RowsKept
  BY RequestStep DEF SessionsInv
<1>1. ASSUME NEW c \in cookies
      PROVE  sessions'[c.sid] # NoRow /\ sessions'[c.sid].user = c.sub /\ sessions'[c.sid].iat = c.iat
  <2>1. c.sid \in SessionId
    BY <1>a DEF Typed, TypeOK, Cookie
  <2> QED
    BY <1>a, <2>1 DEF RowsKept, SessionsInv, Backed
<1>2. CASE Answer(r)
  <2> DEFINE new == [sub |-> job[r].user, iat |-> job[r].iat, ts |-> now, sid |-> job[r].sid]
  <2>1. cookies' = cookies \cup {new} /\ UNCHANGED sessions
    BY <1>2 DEF Answer
  <2>2. /\ sessions[new.sid] # NoRow
        /\ sessions[new.sid].user = new.sub /\ sessions[new.sid].iat = new.iat
    BY <1>2 DEF Answer, SessionsInv, RotationCommitted
  <2> HIDE DEF new
  <2> QED
    BY <1>1, <2>1, <2>2 DEF Backed
<1>3. CASE UNCHANGED cookies
  BY <1>1, <1>3 DEF Backed
<1> QED
  <2>1. Begin(r) => UNCHANGED cookies
    BY DEF Begin, Register, Login, Refresh, RefreshNoCookie, Logout, LogoutNoCookie, Me
  <2>2. DatabaseFails(r) => UNCHANGED cookies
    BY DEF DatabaseFails
  <2>3. Advance(r) => UNCHANGED cookies \/ Answer(r)
    BY DEF Advance, RegisterSelect, RegisterInsert, RegisterCommit, LoginSelect, RefreshSelect,
           SessionCommit, LogoutSelect, LogoutCommit, MeSelect
  <2> QED
    BY <1>2, <1>3, <2>1, <2>2, <2>3

\* SessionsInv holds at the start.
LEMMA SessionsInit == Init => SessionsInv
BY TypedInit
   DEF Init, SessionsInv, RotationCommitted, Unanswered, Backed, Holds, HoldsAt, OnlyAskedRevoked

\* SessionsInv is inductive: a session is revoked only by those who present the
\* tokens it has.
LEMMA SessionsNext == SessionsInv /\ [Next]_vars => SessionsInv'
<1> SUFFICES ASSUME SessionsInv, [Next]_vars PROVE SessionsInv'
  OBVIOUS
<1>1. Typed /\ Typed' /\ RowsKept /\ RotationCommitted' /\ Unanswered'
  BY TypedNext, RotationNext, UnansweredNext DEF SessionsInv
<1>2. CASE UNCHANGED <<sessions, pc, job, cookies, replaced>>
  BY <1>1, <1>2 DEF SessionsInv, Backed, Holds, OnlyAskedRevoked
<1>3. ASSUME NEW r \in Requests, Begin(r) \/ Advance(r) \/ DatabaseFails(r)
      PROVE  SessionsInv'
  <2>1. ASSUME NEW q \in Requests
        PROVE  HoldsAt(pc'[q], job'[q], sessions', cookies', replaced')
    <3>1. CASE q = r
      BY <1>3, <3>1, HoldsStep
    <3>2. CASE q # r
      <4>1. /\ pc'[q] = pc[q] /\ job'[q] = job[q]
            /\ HoldsAt(pc[q], job[q], sessions, cookies, replaced)
        BY <1>1, <1>3, <3>2, OthersStay DEF SessionsInv, Holds
      <4>2. cookies \subseteq cookies' /\ replaced \subseteq replaced'
        BY <1>3, HoldsStep
      <4> QED
        BY <1>1, <4>1, <4>2, HoldsStays
    <3> QED
      BY <3>1, <3>2
  <2>2. OnlyAskedRevoked'
    BY <1>3, RevokedStep DEF OnlyAskedRevoked
  <2> QED
    BY <1>1, <1>3, <2>1, <2>2, BackedStep DEF SessionsInv, Holds
<1> QED
  BY <1>2, <1>3 DEF Next, Tick, vars

\* A client is recognised until somebody asks to refresh or to log out a session
\* with its tokens, whatever the other requests, of its user too, are doing.
THEOREM FreshStaysAccepted == Spec => FreshSessionAccepted
<1>1. SessionsInv /\ [Next]_vars =>
        [\A r \in Requests :
           pc[r] = "me_select" /\ outcome'[r] = "unauthorized"
              => \E s \in replaced : HasTokens(s, job[r].cookie)]_vars
  <2> SUFFICES ASSUME SessionsInv, [Next]_vars, NEW q \in Requests, pc[q] = "me_select",
                      outcome'[q] = "unauthorized"
               PROVE  \E s \in replaced : HasTokens(s, job[q].cookie)
    OBVIOUS
  <2>1. Typed /\ outcome[q] = "none" /\ job[q].cookie \in cookies
    BY DEF SessionsInv, Unanswered, Holds, HoldsAt
  <2>2. PICK r \in Requests : Begin(r) \/ Advance(r) \/ DatabaseFails(r)
    BY <2>1 DEF Next, Tick, vars
  <2>3. r = q
    BY <2>1, <2>2, OthersStay
  <2>4. MeSelect(q)
    BY <2>1, <2>2, <2>3
       DEF Begin, Register, Login, Refresh, RefreshNoCookie, Logout, LogoutNoCookie, Me, Start, Refuse,
           Advance, RegisterSelect, RegisterInsert, RegisterCommit, LoginSelect, RefreshSelect,
           SessionCommit, Answer, LogoutSelect, LogoutCommit, DatabaseFails, End, Typed, TypeOK
  <2>5. PICK s \in RowsOf(job[q].cookie) : ~sessions[s].active
    BY <2>1, <2>4 DEF MeSelect, End, Typed, TypeOK
  <2>6. s \in SessionId /\ HasTokens(s, job[q].cookie)
    BY DEF RowsOf, HasTokens
  <2>7. PICK t \in replaced : Alike(sessions, s, t)
    BY <2>5, <2>6 DEF SessionsInv, OnlyAskedRevoked, HasTokens
  <2> QED
    BY <2>6, <2>7 DEF Alike, HasTokens
<1> QED
  BY <1>1, SessionsInit, SessionsNext, PTL DEF Spec, FreshSessionAccepted
----------------------------------------------------------------------------
(* Logout.                                                                 *)

\* Why a session may be in use after its logout.
ExcusedBy(rows, lost, s) ==
    s \in lost \/ \E t \in SessionId \ {s} : Alike(rows, s, t)

\* A request that came after the logout of its session is looking it up, or was
\* let through for a reason.
LateAt(r) ==
    pc[r] # "idle" /\ job[r].late =>
        /\ pc[r] \in {"me_select", "refresh_select", "session_commit", "answer"}
        /\ job[r].cookie \in cookies /\ job[r].cookie.sid \in loggedOut
        /\ pc[r] \in {"session_commit", "answer"} => ExcusedBy(sessions, swallowed, job[r].cookie.sid)

Late == \A r \in Requests : LateAt(r)

\* A session that was logged out is revoked, or there is a reason.
OutIsRevoked ==
    \A s \in loggedOut :
        sessions[s] # NoRow /\ (sessions[s].active => ExcusedBy(sessions, swallowed, s))

LogoutInv == SessionsInv /\ Late /\ OutIsRevoked

\* Nothing of this is taken back.
LEMMA OutGrows ==
    ASSUME Typed, NEW r \in Requests, Begin(r) \/ Advance(r) \/ DatabaseFails(r)
    PROVE  cookies \subseteq cookies' /\ loggedOut \subseteq loggedOut' /\ swallowed \subseteq swallowed'
<1>1. CASE Begin(r)
  BY <1>1 DEF Begin, Register, Login, Refresh, RefreshNoCookie, Logout, LogoutNoCookie, Me
<1>2. CASE Advance(r)
  BY <1>2 DEF Advance, RegisterSelect, RegisterInsert, RegisterCommit, LoginSelect, RefreshSelect,
              SessionCommit, Answer, LogoutSelect, LogoutCommit, MeSelect
<1>3. CASE DatabaseFails(r)
  BY <1>3 DEF DatabaseFails
<1> QED
  BY <1>1, <1>2, <1>3

\* A reason stays one.
LEMMA ExcusedStays ==
    ASSUME RowsKept, swallowed \subseteq swallowed', NEW s \in SessionId, ExcusedBy(sessions, swallowed, s)
    PROVE  ExcusedBy(sessions', swallowed', s)
BY AlikeStays DEF ExcusedBy

\* A lookup that finds an active row for a session that was logged out finds it
\* for a reason.
LEMMA FoundForAReason ==
    ASSUME LogoutInv, NEW c \in cookies, c.sid \in loggedOut,
           NEW s \in RowsOf(c), sessions[s].active
    PROVE  ExcusedBy(sessions, swallowed, c.sid)
<1>1. c.sid \in SessionId /\ s \in SessionId /\ Alike(sessions, s, c.sid)
  BY RowsAlike DEF LogoutInv
<1>2. CASE s = c.sid
  BY <1>2 DEF LogoutInv, OutIsRevoked
<1>3. CASE s # c.sid
  BY <1>1, <1>3 DEF ExcusedBy, Alike
<1> QED
  BY <1>2, <1>3

\* A request that came late stops at the lookup of its session, or goes on for a
\* reason.
LEMMA LateStep ==
    ASSUME LogoutInv, NEW r \in Requests, Begin(r) \/ Advance(r) \/ DatabaseFails(r)
    PROVE  LateAt(r)'
<1>a. /\ Typed /\ pc \in [Requests -> Steps] /\ job \in [Requests -> Job]
      /\ LateAt(r) /\ HoldsAt(pc[r], job[r], sessions, cookies, replaced)
  BY DEF LogoutInv, SessionsInv, Typed, TypeOK, Holds, Late
<1>b. ASSUME pc'[r] = "idle" \/ ~job'[r].late PROVE LateAt(r)'
  BY <1>b DEF LateAt
<1>c. /\ RowsKept /\ cookies \subseteq cookies' /\ loggedOut \subseteq loggedOut'
      /\ swallowed \subseteq swallowed'
  BY <1>a, RequestStep, OutGrows
<1>d. ASSUME pc[r] # "idle", job[r].late, job'[r].cookie = job[r].cookie,
             pc'[r] \in {"session_commit", "answer"}, ExcusedBy(sessions, swallowed, job[r].cookie.sid)
      PROVE  LateAt(r)'
  <2>1. job[r].cookie \in cookies /\ job[r].cookie.sid \in loggedOut
    BY <1>a, <1>d DEF LateAt
  <2>2. job[r].cookie.sid \in SessionId
    BY <1>a, <2>1 DEF Typed, TypeOK
  <2>3. ExcusedBy(sessions', swallowed', job[r].cookie.sid)
    BY <1>c, <1>d, <2>2, ExcusedStays
  <2> QED
    BY <1>c, <1>d, <2>1, <2>3 DEF LateAt
<1> USE DEF Start, Refuse, GoTo, End
<1>1. CASE Register(r) \/ Login(r) \/ RefreshNoCookie(r) \/ LogoutNoCookie(r) \/ Logout(r)
  <2>1. pc'[r] = "idle" \/ ~job'[r].late
    BY <1>1, <1>a DEF Register, Login, RefreshNoCookie, LogoutNoCookie, Logout, NoJob
  <2> QED
    BY <1>b, <2>1
<1>2. CASE Refresh(r) \/ Me(r)
  <2>1. UNCHANGED <<cookies, loggedOut>>
    BY <1>2 DEF Refresh, Me
  <2>2. CASE pc'[r] # "idle"
    <3>1. PICK c \in cookies, step \in {"me_select", "refresh_select"} :
            Start(r, step, [NoJob EXCEPT !.cookie = c, !.late = c.sid \in loggedOut])
      BY <1>2, <1>a, <2>2 DEF Refresh, Me
    <3>2. pc'[r] = step /\ job'[r].cookie = c
      BY <1>a, <3>1 DEF NoJob
    <3>3. job'[r].late => c.sid \in loggedOut
      BY <1>a, <3>1 DEF NoJob
    <3> QED
      BY <2>1, <3>2, <3>3 DEF LateAt
  <2> QED
    BY <1>b, <2>2
<1>3. CASE RegisterSelect(r) \/ RegisterInsert(r) \/ RegisterCommit(r) \/ LoginSelect(r)
           \/ LogoutSelect(r) \/ LogoutCommit(r)
  <2>1. pc[r] # "idle" /\ pc[r] \notin {"me_select", "refresh_select", "session_commit", "answer"}
    BY <1>3 DEF RegisterSelect, RegisterInsert, RegisterCommit, LoginSelect, LogoutSelect, LogoutCommit
  <2>2. ~job[r].late
    BY <1>a, <2>1 DEF LateAt
  <2>3. pc'[r] = "idle" \/ job'[r].late = job[r].late
    BY <1>3, <1>a DEF RegisterSelect, RegisterInsert, RegisterCommit, LoginSelect, Mint,
                      LogoutSelect, LogoutCommit, Job
  <2> QED
    BY <1>b, <2>2, <2>3
<1>4. CASE Answer(r) \/ MeSelect(r) \/ DatabaseFails(r)
  BY <1>4, <1>a, <1>b DEF Answer, MeSelect, DatabaseFails
<1>5. CASE SessionCommit(r)
  <2>1. /\ pc[r] = "session_commit" /\ pc'[r] = "answer"
        /\ job'[r].cookie = job[r].cookie /\ job'[r].late = job[r].late
    BY <1>5, <1>a DEF SessionCommit, Job
  <2>2. CASE job[r].late
    BY <1>a, <1>d, <2>1, <2>2 DEF LateAt
  <2> QED
    BY <1>b, <2>1, <2>2
<1>6. CASE RefreshSelect(r)
  <2>1. PICK s \in RowsOf(job[r].cookie) :
          \/ End(r, "unauthorized")
          \/ sessions[s].active /\ Mint(r, job[r].cookie.sub, s)
    BY <1>6 DEF RefreshSelect
  <2>2. pc[r] # "idle" /\ job[r].cookie \in cookies
    BY <1>6, <1>a DEF RefreshSelect, HoldsAt
  <2>3. CASE sessions[s].active /\ Mint(r, job[r].cookie.sub, s)
    <3>1. /\ pc'[r] = "session_commit"
          /\ job'[r].cookie = job[r].cookie /\ job'[r].late = job[r].late
      BY <1>a, <2>3 DEF Mint, Job
    <3>2. CASE job[r].late
      <4>1. job[r].cookie.sid \in loggedOut
        BY <1>a, <2>2, <3>2 DEF LateAt
      <4>2. ExcusedBy(sessions, swallowed, job[r].cookie.sid)
        BY <2>2, <2>3, <4>1, FoundForAReason
      <4> QED
        BY <1>d, <2>2, <3>1, <3>2, <4>2
    <3> QED
      BY <1>b, <3>1, <3>2
  <2>4. CASE End(r, "unauthorized")
    BY <1>a, <1>b, <2>4
  <2> QED
    BY <2>1, <2>3, <2>4
<1> QED
  BY <1>1, <1>2, <1>3, <1>4, <1>5, <1>6 DEF Begin, Advance

\* A logout that is answered has revoked the session it names, or there is a
\* reason.
LEMMA OutStep ==
    ASSUME LogoutInv, NEW r \in Requests, Begin(r) \/ Advance(r) \/ DatabaseFails(r)
    PROVE  OutIsRevoked'
<1>a. /\ Typed /\ HoldsAt(pc[r], job[r], sessions, cookies, replaced) /\ loggedOut \subseteq SessionId
  BY DEF LogoutInv, SessionsInv, Typed, TypeOK, Holds
<1>b. RowsKept /\ loggedOut \subseteq loggedOut' /\ swallowed \subseteq swallowed'
  BY <1>a, RequestStep, OutGrows
<1>1. ASSUME NEW s \in loggedOut
      PROVE  sessions'[s] # NoRow /\ (sessions'[s].active => ExcusedBy(sessions', swallowed', s))
  <2>1. s \in SessionId /\ sessions[s] # NoRow /\ (sessions[s].active => ExcusedBy(sessions, swallowed, s))
    BY <1>a DEF LogoutInv, OutIsRevoked
  <2> QED
    BY <1>b, <2>1, ExcusedStays DEF RowsKept
<1> DEFINE own == job[r].cookie.sid
<1>2. CASE LogoutCommit(r)
  <2>1. /\ own \in SessionId /\ job[r].row \in SessionId
        /\ Alike(sessions, job[r].row, own)
    BY <1>2, <1>a DEF LogoutCommit, HoldsAt, Typed, TypeOK, Fits, Cookie
  <2>2. Alike(sessions', job[r].row, own)
    BY <1>b, <2>1, AlikeStays
  <2>3. CASE job[r].row = own
    <3>1. sessions[own] \in SessionRow
      BY <1>a, <2>1, <2>3 DEF Typed, TypeOK, Alike
    <3>2. sessions'[own] = [sessions[own] EXCEPT !.active = FALSE]
      BY <1>2, <1>a, <2>1, <2>3 DEF LogoutCommit, Typed, TypeOK
    <3>3. ~sessions'[own].active
      BY <3>1, <3>2 DEF SessionRow
    <3> QED
      BY <1>1, <1>2, <2>2, <3>3 DEF LogoutCommit, OutIsRevoked, Alike
  <2>4. CASE job[r].row # own
    <3>1. ExcusedBy(sessions', swallowed', own)
      BY <2>1, <2>2, <2>4 DEF ExcusedBy, Alike
    <3> QED
      BY <1>1, <1>2, <2>2, <3>1 DEF LogoutCommit, OutIsRevoked, Alike
  <2> QED
    BY <1>1, <1>2, <2>2, <2>3, <2>4 DEF LogoutCommit, OutIsRevoked, Alike
<1>3. CASE DatabaseFails(r) /\ pc[r] \in {"logout_select", "logout_commit"}
  <2>1. /\ loggedOut' = loggedOut \cup {own}
        /\ swallowed' = swallowed \cup ({own} \ loggedOut)
        /\ UNCHANGED sessions
    BY <1>3 DEF DatabaseFails
  <2>2. own \notin loggedOut => ExcusedBy(sessions', swallowed', own)
    BY <2>1 DEF ExcusedBy
  <2>3. job[r].cookie \in cookies
    BY <1>3, <1>a DEF HoldsAt
  <2>4. sessions'[own] # NoRow
    BY <2>1, <2>3 DEF LogoutInv, SessionsInv, Backed
  <2> QED
    BY <1>1, <2>1, <2>2, <2>4 DEF OutIsRevoked
<1>4. CASE UNCHANGED loggedOut
  BY <1>1, <1>4 DEF OutIsRevoked
<1> QED
  BY <1>2, <1>3, <1>4
     DEF Begin, Register, Login, Refresh, RefreshNoCookie, Logout, LogoutNoCookie, Me,
         Advance, RegisterSelect, RegisterInsert, RegisterCommit, LoginSelect, RefreshSelect,
         SessionCommit, Answer, LogoutSelect, MeSelect, DatabaseFails

\* LogoutInv is inductive.
LEMMA LogoutNext == LogoutInv /\ [Next]_vars => LogoutInv'
<1> SUFFICES ASSUME LogoutInv, [Next]_vars PROVE LogoutInv'
  OBVIOUS
<1>1. SessionsInv' /\ RowsKept /\ Typed
  BY SessionsNext, TypedNext DEF LogoutInv, SessionsInv
<1>2. CASE UNCHANGED <<sessions, pc, job, cookies, loggedOut, swallowed>>
  BY <1>1, <1>2 DEF LogoutInv, Late, LateAt, OutIsRevoked, ExcusedBy
<1>3. ASSUME NEW r \in Requests, Begin(r) \/ Advance(r) \/ DatabaseFails(r) PROVE LogoutInv'
  <2>1. ASSUME NEW q \in Requests PROVE LateAt(q)'
    <3>1. CASE q = r
      BY <1>3, <3>1, LateStep
    <3>2. CASE q # r
      <4>1. pc'[q] = pc[q] /\ job'[q] = job[q] /\ LateAt(q)
        BY <1>1, <1>3, <3>2, OthersStay DEF LogoutInv, Late
      <4>2. /\ cookies \subseteq cookies' /\ loggedOut \subseteq loggedOut'
            /\ swallowed \subseteq swallowed'
        BY <1>1, <1>3, OutGrows
      <4>3. job[q].cookie \in cookies => job[q].cookie.sid \in SessionId
        BY <1>1 DEF Typed, TypeOK, Cookie
      <4>4. job[q].cookie \in cookies /\ ExcusedBy(sessions, swallowed, job[q].cookie.sid) => ExcusedBy(sessions', swallowed', job[q].cookie.sid)
        BY <1>1, <4>1, <4>2, <4>3, AlikeStays DEF ExcusedBy
      <4> QED
        BY <4>1, <4>2, <4>4 DEF LateAt
    <3> QED
      BY <3>1, <3>2
  <2>2. OutIsRevoked'
    BY <1>3, OutStep
  <2> QED
    BY <1>1, <2>1, <2>2 DEF LogoutInv, Late
<1> QED
  BY <1>2, <1>3 DEF Next, Tick, vars

\* A logout that was answered holds, in every interleaving and whatever fails,
\* but where it failed silently or where the user has another session of the same
\* second: else its cookies, access or refresh, let nobody in any more.
THEOREM LoggedOutRefused == Spec => LoggedOutLetIn
<1>1. Init => LogoutInv
  BY SessionsInit DEF Init, LogoutInv, Late, LateAt, OutIsRevoked
<1>2. LogoutInv /\ [Next]_vars =>
        [\A r \in Requests :
           LET c == job[r].cookie IN
           pc[r] \in {"me_select", "answer"} /\ job[r].late /\ outcome'[r] = "ok"
              => c.sid \in swallowed \/ \E t \in SessionId \ {c.sid} : HasTokens(t, c)]_vars
  <2> SUFFICES ASSUME LogoutInv, [Next]_vars, NEW q \in Requests,
                      pc[q] \in {"me_select", "answer"}, job[q].late, outcome'[q] = "ok"
               PROVE  \/ job[q].cookie.sid \in swallowed
                      \/ \E t \in SessionId \ {job[q].cookie.sid} : HasTokens(t, job[q].cookie)
    OBVIOUS
  <2>1. job[q].cookie \in cookies /\ job[q].cookie.sid \in loggedOut
    BY DEF LogoutInv, Late, LateAt
  <2>2. Typed /\ outcome[q] = "none"
    BY DEF LogoutInv, SessionsInv, Unanswered
  <2>3. PICK r \in Requests : Begin(r) \/ Advance(r) \/ DatabaseFails(r)
    BY <2>2 DEF Next, Tick, vars
  <2>4. r = q
    BY <2>2, <2>3, OthersStay
  <2>5. ExcusedBy(sessions, swallowed, job[q].cookie.sid)
    <3>1. CASE pc[q] = "answer"
      BY <3>1 DEF LogoutInv, Late, LateAt
    <3>2. CASE pc[q] = "me_select"
      <4>1. MeSelect(q)
        BY <2>1, <2>2, <2>3, <2>4, <3>2
           DEF Begin, Register, Login, Refresh, RefreshNoCookie, Logout, LogoutNoCookie, Me, Start,
               Refuse, Advance, RegisterSelect, RegisterInsert, RegisterCommit, LoginSelect,
               RefreshSelect, SessionCommit, Answer, LogoutSelect, LogoutCommit, DatabaseFails, End,
               Typed, TypeOK
      <4>2. PICK s \in RowsOf(job[q].cookie) : sessions[s].active
        BY <2>2, <4>1 DEF MeSelect, End, Typed, TypeOK
      <4> QED
        BY <2>1, <4>2, FoundForAReason
    <3> QED
      BY <3>1, <3>2
  <2> QED
    BY <2>1, <2>5 DEF ExcusedBy, Alike, HasTokens, LogoutInv, SessionsInv, Backed
<1> QED
  BY <1>1, <1>2, LogoutNext, PTL DEF Spec, LoggedOutLetIn

=============================================================================
