---------------------------- MODULE AuthSessions ----------------------------
(***************************************************************************)
(* The single administrator's account and sessions: setup, login with a    *)
(* wait after failures, logout, change of password, and the middleware in  *)
(* front of the API (web/routes/auth.py, web/auth/store.py,                *)
(* web/auth/session.py, web/app.py).                                       *)
(*                                                                         *)
(* A handler runs without awaiting, so no other runs beside it; but each   *)
(* of its transactions is committed on its own, and the server may die, or *)
(* the next transaction fail, between two.  The middleware awaits the      *)
(* handler it calls, so other requests run between its check and the       *)
(* handler.                                                                *)
(*                                                                         *)
(* Time is kept as what is left of every deadline.  A row is forgotten     *)
(* when no client holds a cookie for it, and its number used again: a uuid *)
(* is new, and nobody can ask for the row that is gone.                    *)
(***************************************************************************)
EXTENDS Naturals, Integers, FiniteSets, FiniteSetsExt

CONSTANTS
    Clients,
    Sessions,      \* session numbers, more than there are clients
    Mistyping,     \* clients that may send a wrong password
    Passwords,
    Ttl,           \* _SESSION_TTL_HOURS
    WaitStep,      \* 2 seconds more with every failure, ...
    MaxWait,       \* ... up to 30
    MaxCrashes     \* bound: deaths of the server and failed transactions

VARIABLES
    password,      \* the administrator's, None before setup
    row,           \* each session's row: what is left of it, and revoked
    failures,      \* _login_failures: attempts and what is left of the wait
    cookie,        \* the session each client has a cookie for, None
    at,            \* where the request of each client is
    entered,       \* the current and the new password it sends
    crashes,       \* deaths of the server and failed transactions so far
    outdated,      \* sessions from before the last change of password (history)
    cut            \* a change of password ended before its second transaction,
                   \* and no later one has come to its own (history)

authVars == <<password, row, failures, cookie, at, entered, crashes, outdated, cut>>

None     == "none"
\* "none" stands for no session, and a session lives for some time.
ASSUME AuthAssumption == None \notin Sessions /\ Ttl \in Nat

NoRow    == [left |-> -2, revoked |-> FALSE]
RevokedRow == [left |-> 0, revoked |-> TRUE]   \* what was left matters to nobody
NoWait   == [attempts |-> 0, wait |-> 0]
Nothing  == [current |-> None, new |-> None]

-----------------------------------------------------------------------------
\* validate_session (the token is the session's: expires_at < now ends it)
Valid(s) == s # None /\ ~row[s].revoked /\ row[s].left >= 0

\* A handler is between two of its transactions.
Handler == {"issue", "update", "revoke"}
ServerFree == \A c \in Clients : at[c] \notin Handler

Goto(c, where) == at' = [at EXCEPT ![c] = where]

Forget(c) ==
    /\ Goto(c, "idle")
    /\ entered' = [entered EXCEPT ![c] = Nothing]

AuthInit ==
    /\ password = None
    /\ row = [s \in Sessions |-> NoRow]
    /\ failures = [c \in Clients |-> NoWait]
    /\ cookie = [c \in Clients |-> None]
    /\ at = [c \in Clients |-> "idle"]
    /\ entered = [c \in Clients |-> Nothing]
    /\ crashes = 0
    /\ outdated = {}
    /\ cut = FALSE

Unused == {s \in Sessions : \A c \in Clients : cookie[c] # s}

\* What is kept of rows when the clients hold these cookies.
Held(rows, cookies) ==
    [s \in Sessions |-> IF \E c \in Clients : cookies[c] = s THEN rows[s] ELSE NoRow]

\* A new row, its expiry fixed for good.
NewRow == [left |-> Ttl, revoked |-> FALSE]

\* _issue_session, in a handler that is at "issue", and the answer.
IssueSession(c) ==
    /\ at[c] = "issue" /\ Unused # {}
    /\ LET s == CHOOSE s \in Unused : TRUE
       IN /\ cookie' = [cookie EXCEPT ![c] = s]
          /\ row' = Held([row EXCEPT ![s] = NewRow], cookie')
          /\ outdated' = outdated \ {s, cookie[c]}
    /\ Forget(c)
    /\ UNCHANGED <<password, failures, crashes, cut>>

-----------------------------------------------------------------------------
\* POST /auth/setup: refused once there is an administrator.
Setup(c, pw) ==
    /\ at[c] = "idle" /\ ServerFree
    /\ password = None
    /\ password' = pw
    /\ Goto(c, "issue")
    /\ UNCHANGED <<row, failures, cookie, entered, crashes, outdated, cut>>

\* The wait after a failure.
WaitAfter(attempts) == Min({MaxWait, attempts * WaitStep})
Counted(n) == Min({n, MaxWait \div WaitStep})   \* bound: more failures wait no longer

\* POST /auth/login, with the right password: the failures are forgotten, ...
LoginRight(c) ==
    /\ at[c] = "idle" /\ ServerFree
    /\ password # None /\ failures[c].wait = 0
    /\ failures' = [failures EXCEPT ![c] = NoWait]
    /\ Goto(c, "issue")
    /\ UNCHANGED <<password, row, cookie, entered, crashes, outdated, cut>>

\* ... with a wrong name or password: the next wait is longer, ...
LoginWrong(c) ==
    /\ at[c] = "idle" /\ ServerFree /\ c \in Mistyping
    /\ password # None /\ failures[c].wait = 0
    /\ failures' = [failures EXCEPT ![c] =
          [attempts |-> Counted(@.attempts + 1), wait |-> WaitAfter(@.attempts + 1)]]
    /\ UNCHANGED <<password, row, cookie, at, entered, crashes, outdated, cut>>

\* Mutant of LoginBlocked: it counts as a failure.
LoginBlockedCounts(c) ==
    /\ at[c] = "idle" /\ ServerFree
    /\ password # None /\ failures[c].wait > 0
    /\ failures' = [failures EXCEPT ![c] =
          [attempts |-> Counted(@.attempts + 1), wait |-> WaitAfter(@.attempts + 1)]]
    /\ UNCHANGED <<password, row, cookie, at, entered, crashes, outdated, cut>>

\* ... and before the wait is over: refused, and not counted.
LoginBlocked(c) ==
    /\ at[c] = "idle" /\ ServerFree
    /\ password # None /\ failures[c].wait > 0
    /\ UNCHANGED authVars

-----------------------------------------------------------------------------
\* Mutant of Seen: a session that is used lives longer.
SeenRenews(s) == [row EXCEPT ![s].left = Ttl]

\* The row after validate_session, whose last_seen_at nothing reads.
Seen(s) == row

\* dispatch: the session is validated, then the handler is called (those of
\* the rest of the API read and write nothing of this).
Dispatch(c, request, sends) ==
    /\ at[c] = "idle" /\ ServerFree
    /\ password # None /\ Valid(cookie[c])
    /\ row' = Seen(cookie[c])
    /\ entered' = [entered EXCEPT ![c] = sends]
    /\ Goto(c, request)
    /\ UNCHANGED <<password, failures, cookie, crashes, outdated, cut>>

\* Mutant of Revoked: every session of the administrator.
RevokedAll(s) == [t \in Sessions |-> IF row[t] = NoRow THEN NoRow ELSE RevokedRow]

\* revoke_session
Revoked(s) == [row EXCEPT ![s] = RevokedRow]

\* POST /auth/logout
Logout(c) ==
    /\ at[c] = "logout" /\ ServerFree
    /\ cookie' = [cookie EXCEPT ![c] = None]
    /\ row' = Held(Revoked(cookie[c]), cookie')
    /\ outdated' = outdated \ {cookie[c]}
    /\ Forget(c)
    /\ UNCHANGED <<password, failures, crashes, cut>>

\* Mutant of MayChange: the middleware has checked the session.
MayChangeOnceChecked(c) == entered[c].current = password

\* POST /auth/change-password: the session is validated again, and the
\* current password verified.
MayChange(c) == Valid(cookie[c]) /\ entered[c].current = password

BeginChange(c) ==
    /\ at[c] = "change" /\ ServerFree
    /\ \/ MayChange(c) /\ Goto(c, "update") /\ UNCHANGED entered
       \/ ~MayChange(c) /\ Forget(c)
    /\ UNCHANGED <<password, row, failures, cookie, crashes, outdated, cut>>

UpdatePassword(c) ==
    /\ at[c] = "update"
    /\ password' = entered[c].new
    /\ Goto(c, "revoke")
    /\ outdated' = {s \in Sessions : row[s] # NoRow}
    /\ UNCHANGED <<row, failures, cookie, entered, crashes, cut>>

\* Mutant of RevokeSessions: only the session that asked.
RevokeOwnSession(c) ==
    /\ at[c] = "revoke"
    /\ row' = [row EXCEPT ![cookie[c]] = RevokedRow]
    /\ cut' = FALSE
    /\ Goto(c, "issue")
    /\ entered' = [entered EXCEPT ![c] = Nothing]
    /\ UNCHANGED <<password, failures, cookie, crashes, outdated>>

\* revoke_all_sessions; then a new one is issued for the client.
RevokeSessions(c) ==
    /\ at[c] = "revoke"
    /\ row' = [s \in Sessions |-> IF row[s] = NoRow THEN NoRow ELSE RevokedRow]
    /\ cut' = FALSE
    /\ Goto(c, "issue")
    /\ entered' = [entered EXCEPT ![c] = Nothing]
    /\ UNCHANGED <<password, failures, cookie, crashes, outdated>>

-----------------------------------------------------------------------------
\* The next transaction of a request fails (the database is locked, the disk
\* full): the request ends there, and what was committed before it stays.
HandlerFails(c) ==
    /\ at[c] # "idle"
    /\ crashes < MaxCrashes
    /\ crashes' = crashes + 1
    /\ cut' = (cut \/ at[c] = "revoke")
    /\ Forget(c)
    /\ UNCHANGED <<password, row, failures, cookie, outdated>>

\* A password has been changed, and the sessions are about to be revoked.
ChangeUnderWay == \E c \in Clients : at[c] = "revoke"

\* The server dies: the failures and the requests are gone, committed rows
\* are not.  An answer that is lost takes its cookie with it.
CrashServer ==
    /\ crashes < MaxCrashes
    /\ crashes' = crashes + 1
    /\ failures' = [c \in Clients |-> NoWait]
    /\ at' = [c \in Clients |-> "idle"]
    /\ entered' = [c \in Clients |-> Nothing]
    /\ cut' = (cut \/ ChangeUnderWay)
    /\ UNCHANGED <<password, row, cookie, outdated>>

\* A client loses its cookie: the browser drops it, or an answer never came.
LoseCookie(c) ==
    /\ cookie[c] # None /\ at[c] = "idle"
    /\ cookie' = [cookie EXCEPT ![c] = None]
    /\ row' = Held(row, cookie')
    /\ outdated' = outdated \ {cookie[c]}
    /\ UNCHANGED <<password, failures, at, entered, crashes, cut>>

Tick ==
    /\ row' = [s \in Sessions |-> IF Valid(s) THEN [row[s] EXCEPT !.left = @ - 1] ELSE row[s]]
    /\ failures' = [c \in Clients |-> [failures[c] EXCEPT !.wait = IF @ > 0 THEN @ - 1 ELSE 0]]
    /\ UNCHANGED <<password, cookie, at, entered, crashes, outdated, cut>>

\* Requests of a client, and what the server does for it.
Request(c) ==
    \/ \E pw \in Passwords : Setup(c, pw)
    \/ LoginWrong(c) \/ LoginBlocked(c) \/ LoginRight(c)
    \/ Dispatch(c, "idle", Nothing) \/ Dispatch(c, "logout", Nothing)
    \/ \E old, new \in Passwords :
          old # new /\ Dispatch(c, "change", [current |-> old, new |-> new])

Handle(c) ==
    \/ Logout(c) \/ BeginChange(c)
    \/ UpdatePassword(c) \/ RevokeSessions(c) \/ IssueSession(c)

AuthNext ==
    \/ \E c \in Clients : Request(c) \/ Handle(c) \/ HandlerFails(c) \/ LoseCookie(c)
    \/ CrashServer \/ Tick

\* Time passes, a handler that runs goes on, and a client without a session
\* keeps trying to log in, so that one of its tries meets the end of a wait.
\* Nothing else is owed.
AuthFairness ==
    /\ WF_authVars(Tick)
    /\ \A c \in Clients : WF_authVars(Handle(c)) /\ SF_authVars(cookie[c] = None /\ LoginRight(c))

AuthSpec == AuthInit /\ [][AuthNext]_authVars /\ AuthFairness

-----------------------------------------------------------------------------
\* From the moment the password is changed the sessions from before it are
\* to end.  They are still valid while that handler is between its two
\* transactions, and after it was cut short there (the code repairs nothing
\* then); in every other state none of them validates, whoever holds it and
\* whatever was issued, logged out of, lost or restarted since.
OldSessionsEnd == cut \/ ChangeUnderWay \/ \A s \in outdated : ~Valid(s)

\* A client that was given a session keeps it until it expires, until it
\* logs out of it or until the password is changed: no other client's login,
\* logout or failures and no restart of the server ends it.
SessionKept ==
    \A c \in Clients :
        LET s == cookie[c]
        IN  s # None /\ s \notin outdated => Valid(s) \/ row[s].left < 0

\* The password changes only for a client whose session is not revoked by
\* then and who sent the password it replaces: two clients that both passed
\* the middleware cannot both change it from the same password.
ChangeIsAuthenticated ==
    [][\A c \in Clients : UpdatePassword(c) =>
          cookie[c] # None /\ ~row[cookie[c]].revoked /\ entered[c].current = password]_authVars

\* A session ends, however busy its client keeps it: its 12 hours are counted
\* from the login.
SessionsEnd ==
    \A c \in Clients, s \in Sessions :
        (cookie[c] = s /\ Valid(s)) ~> (cookie[c] # s \/ ~Valid(s))

\* Once there is an administrator, a client that keeps trying to log in gets
\* a session, however often it or anything else sends a wrong password from
\* its address, and wherever the server has died.
LoginEventually == \A c \in Clients : password # None ~> cookie[c] # None
=============================================================================
