------------------------- MODULE AuthSessionsProofs -------------------------
(***************************************************************************)
(* For any clients, sessions, passwords and times: sessions end with the   *)
(* password, a session is kept by the client it was given to, and the      *)
(* password changes only from an authenticated session.                    *)
(*                                                                         *)
(* SessionInv is about rows and cookies: no two clients hold one session,  *)
(* and a row is there exactly for a session somebody holds.  HandlerInv is *)
(* about requests: one handler runs at a time, and what BeginChange saw of *)
(* the session and the password still holds when they are changed.  A      *)
(* change that has replaced the password finds every session outdated      *)
(* until it revokes them, so no client loses one that was given out later. *)
(***************************************************************************)
EXTENDS AuthSessions, TLAPS

Rows == [left : Int, revoked : BOOLEAN]

SessionInv ==
    /\ row \in [Sessions -> Rows]
    /\ cookie \in [Clients -> Sessions \union {None}]
    /\ outdated \subseteq Sessions
    /\ \A c, d \in Clients : cookie[c] = cookie[d] /\ cookie[c] # None => c = d
    /\ \A c \in Clients : cookie[c] # None => row[cookie[c]].left >= -1
    /\ SessionKept

Steps == {"idle", "logout", "change"} \union Handler

HandlerInv ==
    /\ at \in [Clients -> Steps]
    /\ DOMAIN entered = Clients
    /\ \A c, d \in Clients : at[c] \in Handler /\ at[d] \in Handler => c = d
    /\ \A c \in Clients : at[c] = "update" =>
          cookie[c] # None /\ ~row[cookie[c]].revoked /\ entered[c].current = password
    /\ \A c, d \in Clients : at[c] = "revoke" /\ cookie[d] # None => cookie[d] \in outdated

AuthInv == SessionInv /\ HandlerInv /\ OldSessionsEnd

\* No session from before the last change of password validates.
Ended == \A s \in outdated : ~Valid(s)

-----------------------------------------------------------------------------
\* It holds at first ...
LEMMA InitAuthInv == AuthInit => AuthInv
  BY AuthAssumption
  DEF AuthInit, AuthInv, SessionInv, HandlerInv, Rows, NoRow, Steps, Handler,
      OldSessionsEnd, SessionKept, None

\* What SessionInv says depends on three variables only.
LEMMA SessionFrame ==
    ASSUME SessionInv, UNCHANGED <<row, cookie, outdated>>
    PROVE  SessionInv' /\ (Ended => Ended')
  BY DEF SessionInv, Ended, SessionKept, Valid

\* A step that leaves a change that is under way, or was cut short, as it is.
LEMMA ChangeFrame ==
    ASSUME OldSessionsEnd, cut => cut', Ended => Ended',
           \A c \in Clients : at[c] = "revoke" => at'[c] = "revoke"
    PROVE  OldSessionsEnd'
  BY DEF OldSessionsEnd, ChangeUnderWay, Ended

\* A session a cookie holds keeps its row, and no other row changes but to none.
LEMMA HeldRows ==
    ASSUME NEW rows \in [Sessions -> Rows], NEW cookies \in [Clients -> Sessions \union {None}]
    PROVE  /\ Held(rows, cookies) \in [Sessions -> Rows]
           /\ \A c \in Clients : cookies[c] # None => Held(rows, cookies)[cookies[c]] = rows[cookies[c]]
           /\ \A s \in Sessions : Held(rows, cookies)[s] \in {rows[s], NoRow}
  BY DEF Held, Rows, NoRow

\* A session is issued.
LEMMA IssueKeepsSessions ==
    ASSUME SessionInv, NEW c \in Clients, IssueSession(c)
    PROVE  SessionInv' /\ (Ended => Ended')
<1> DEFINE s == CHOOSE t \in Unused : TRUE
<1> DEFINE rows == [row EXCEPT ![s] = NewRow]
<1>1. s \in Sessions /\ \A d \in Clients : cookie[d] # s
  BY DEF IssueSession, Unused
<1>2. s # None
  BY <1>1, AuthAssumption
<1>3. NewRow \in Rows /\ ~NewRow.revoked /\ NewRow.left >= 0
  BY AuthAssumption DEF NewRow, Rows
<1>4. /\ cookie' = [cookie EXCEPT ![c] = s]
      /\ row' = Held(rows, cookie')
      /\ outdated' = outdated \ {s, cookie[c]}
  BY DEF IssueSession
<1> HIDE DEF s
<1>5. rows \in [Sessions -> Rows] /\ cookie' \in [Clients -> Sessions \union {None}]
  BY <1>1, <1>3, <1>4 DEF SessionInv
<1>6. rows[s] = NewRow /\ \A t \in Sessions \ {s} : rows[t] = row[t]
  BY <1>1 DEF SessionInv
<1>7. cookie'[c] = s /\ \A d \in Clients \ {c} : cookie'[d] = cookie[d]
  BY <1>4 DEF SessionInv
<1> HIDE DEF rows
<1>8. /\ row' \in [Sessions -> Rows]
      /\ \A d \in Clients : cookie'[d] # None => row'[cookie'[d]] = rows[cookie'[d]]
      /\ \A t \in Sessions : row'[t] \in {rows[t], NoRow}
  BY <1>4, <1>5, HeldRows
<1>9. \A d \in Clients \ {c} : cookie'[d] # None => row'[cookie'[d]] = row[cookie[d]]
  BY <1>1, <1>5, <1>6, <1>7, <1>8
<1>10. row'[s] = NewRow
  BY <1>2, <1>6, <1>7, <1>8
<1>11. \A d, e \in Clients : cookie'[d] = cookie'[e] /\ cookie'[d] # None => d = e
  BY <1>1, <1>7 DEF SessionInv
<1>12. \A d \in Clients : cookie'[d] # None => row'[cookie'[d]].left >= -1
  BY <1>3, <1>7, <1>9, <1>10 DEF SessionInv, Rows
<1>13. Ended => Ended'
  <2> SUFFICES ASSUME Ended, NEW t \in outdated'
               PROVE  t # None => row'[t].revoked \/ ~(row'[t].left >= 0)
    BY DEF Ended, Valid
  <2>1. t \in outdated /\ t \in Sessions /\ t # s
    BY <1>4 DEF SessionInv
  <2>2. row'[t] = row[t] \/ row'[t] = NoRow
    BY <2>1, <1>6, <1>8
  <2>3. t # None => row[t].revoked \/ ~(row[t].left >= 0)
    BY <2>1 DEF Ended, Valid
  <2> QED
    BY <2>2, <2>3 DEF NoRow
<1>14. SessionKept'
  <2> SUFFICES ASSUME NEW d \in Clients, cookie'[d] # None, cookie'[d] \notin outdated'
               PROVE  ~row'[cookie'[d]].revoked \/ row'[cookie'[d]].left < 0
    <3>1. \A d \in Clients : cookie'[d] # None => row'[cookie'[d]].left \in Int
      BY <1>5, <1>8 DEF Rows
    <3> QED
      BY <3>1 DEF SessionKept, Valid
  <2>1. CASE d = c
    BY <2>1, <1>3, <1>7, <1>10
  <2>2. CASE d # c
    <3>1. cookie'[d] = cookie[d] /\ cookie[d] \notin {s, cookie[c]}
      BY <2>2, <1>1, <1>7 DEF SessionInv
    <3>2. cookie[d] \notin outdated /\ cookie[d] # None
      BY <3>1, <1>4
    <3>3. row'[cookie'[d]] = row[cookie[d]]
      BY <2>2, <1>9
    <3>4. ~row[cookie[d]].revoked \/ row[cookie[d]].left < 0
      BY <3>2 DEF SessionInv, SessionKept, Valid
    <3> QED
      BY <3>3, <3>4
  <2> QED
    BY <2>1, <2>2
<1> QED
  BY <1>4, <1>5, <1>8, <1>11, <1>12, <1>13, <1>14 DEF SessionInv

\* A client's cookie goes, and what is kept of its row is not asked for.
LEMMA DropKeepsSessions ==
    ASSUME SessionInv, NEW c \in Clients, NEW rows \in [Sessions -> Rows],
           \A t \in Sessions : t # cookie[c] => rows[t] = row[t],
           \A t \in Sessions : rows[t] = row[t] \/ rows[t].revoked,
           cookie' = [cookie EXCEPT ![c] = None],
           row' = Held(rows, cookie'),
           outdated' = outdated \ {cookie[c]}
    PROVE  SessionInv' /\ (Ended => Ended')
<1>1. cookie' \in [Clients -> Sessions \union {None}]
  BY DEF SessionInv
<1>2. cookie'[c] = None /\ \A d \in Clients \ {c} : cookie'[d] = cookie[d]
  BY DEF SessionInv
<1>3. /\ row' \in [Sessions -> Rows]
      /\ \A d \in Clients : cookie'[d] # None => row'[cookie'[d]] = rows[cookie'[d]]
      /\ \A t \in Sessions : row'[t] \in {rows[t], NoRow}
  BY <1>1, HeldRows
<1>4. \A d \in Clients : cookie'[d] # None =>
          /\ d # c /\ cookie'[d] = cookie[d] /\ cookie[d] # cookie[c]
          /\ row'[cookie'[d]] = row[cookie[d]]
  BY <1>1, <1>2, <1>3 DEF SessionInv
<1>5. Ended => Ended'
  <2> SUFFICES ASSUME Ended, NEW t \in outdated'
               PROVE  t # None => row'[t].revoked \/ ~(row'[t].left >= 0)
    BY DEF Ended, Valid
  <2>1. t \in outdated /\ t \in Sessions
    BY DEF SessionInv
  <2>2. t # None => row[t].revoked \/ ~(row[t].left >= 0)
    BY <2>1 DEF Ended, Valid
  <2>3. row'[t] = row[t] \/ row'[t].revoked \/ row'[t] = NoRow
    BY <2>1, <1>3
  <2> QED
    BY <2>2, <2>3 DEF NoRow
<1>6. SessionKept'
  BY <1>4 DEF SessionInv, SessionKept, Valid
<1>7. outdated' \subseteq Sessions
  BY DEF SessionInv
<1>8. \A d, e \in Clients : cookie'[d] = cookie'[e] /\ cookie'[d] # None => d = e
  BY <1>4 DEF SessionInv
<1>9. \A d \in Clients : cookie'[d] # None => row'[cookie'[d]].left >= -1
  BY <1>4 DEF SessionInv
<1> QED
  BY <1>1, <1>3, <1>5, <1>6, <1>7, <1>8, <1>9 DEF SessionInv

\* The password is changed: no session of a client counts as kept any more.
LEMMA UpdateKeepsSessions ==
    ASSUME SessionInv, NEW c \in Clients, UpdatePassword(c)
    PROVE  SessionInv'
<1>1. outdated' = {s \in Sessions : row[s] # NoRow} /\ row' = row /\ cookie' = cookie
  BY DEF UpdatePassword
<1>2. \A d \in Clients : cookie[d] # None => cookie[d] \in outdated'
  BY <1>1 DEF SessionInv, NoRow
<1>3. SessionKept'
  BY <1>1, <1>2 DEF SessionKept
<1> QED
  BY <1>1, <1>3 DEF SessionInv

\* All sessions are revoked.
LEMMA RevokeKeepsSessions ==
    ASSUME SessionInv, HandlerInv, NEW c \in Clients, RevokeSessions(c)
    PROVE  SessionInv' /\ Ended'
<1>1. /\ row' = [s \in Sessions |-> IF row[s] = NoRow THEN NoRow ELSE RevokedRow]
      /\ cookie' = cookie /\ outdated' = outdated
  BY DEF RevokeSessions
<1>2. row' \in [Sessions -> Rows]
  BY <1>1 DEF Rows, NoRow, RevokedRow
<1>3. \A d \in Clients : cookie[d] # None => row'[cookie[d]] = RevokedRow
  BY <1>1 DEF SessionInv, NoRow
<1>4. \A t \in Sessions : row'[t] = NoRow \/ row'[t] = RevokedRow
  BY <1>1
<1>5. Ended'
  BY <1>1, <1>4 DEF SessionInv, Ended, Valid, NoRow, RevokedRow
<1>6. SessionKept'
  BY <1>1 DEF HandlerInv, RevokeSessions, SessionKept
<1> QED
  BY <1>1, <1>2, <1>3, <1>5, <1>6 DEF SessionInv, RevokedRow

\* Time passes.
LEMMA TickKeepsSessions ==
    ASSUME SessionInv, Tick
    PROVE  SessionInv' /\ (Ended => Ended')
<1>1. /\ row' = [s \in Sessions |-> IF Valid(s) THEN [row[s] EXCEPT !.left = @ - 1] ELSE row[s]]
      /\ UNCHANGED <<cookie, outdated>>
  BY DEF Tick
<1>2. row' \in [Sessions -> Rows]
  BY <1>1 DEF SessionInv, Rows
<1>3. \A s \in Sessions : /\ row'[s].revoked = row[s].revoked
                          /\ ~Valid(s) => row'[s] = row[s]
                          /\ Valid(s) => row'[s].left = row[s].left - 1 /\ row[s].left >= 0
  BY <1>1 DEF SessionInv, Rows, Valid
<1>4. Ended => Ended'
  BY <1>1, <1>3 DEF SessionInv, Ended, Valid
<1>5. \A c \in Clients : cookie[c] # None => row'[cookie[c]].left >= -1
  BY <1>3 DEF SessionInv, Rows
<1>6. SessionKept'
  BY <1>1, <1>2, <1>3 DEF SessionInv, SessionKept, Valid, Rows
<1> QED
  BY <1>1, <1>2, <1>4, <1>5, <1>6 DEF SessionInv

-----------------------------------------------------------------------------
\* What each step does to the rows and cookies, ...
LEMMA StepKeepsSessions ==
    ASSUME AuthInv, [AuthNext]_authVars
    PROVE  /\ SessionInv'
           /\ (\A c \in Clients : ~UpdatePassword(c)) => (Ended => Ended')
           /\ (\E c \in Clients : RevokeSessions(c)) => Ended'
<1> USE DEF AuthInv
<1> DEFINE Kept == SessionInv' /\ (Ended => Ended')
<1>1. ASSUME NEW c \in Clients, IssueSession(c) PROVE Kept
  BY <1>1, IssueKeepsSessions
<1>2. ASSUME NEW c \in Clients, Logout(c) PROVE Kept
  <2> DEFINE rows == Revoked(cookie[c])
  <2>1. RevokedRow \in Rows
    BY DEF RevokedRow, Rows
  <2>2. rows \in [Sessions -> Rows] /\ \A t \in Sessions : t # cookie[c] => rows[t] = row[t]
    BY <2>1 DEF Revoked, SessionInv
  <2>3. \A t \in Sessions : rows[t] = row[t] \/ rows[t].revoked
    BY DEF Revoked, RevokedRow, SessionInv
  <2>4. /\ cookie' = [cookie EXCEPT ![c] = None]
        /\ row' = Held(rows, cookie')
        /\ outdated' = outdated \ {cookie[c]}
    BY <1>2 DEF Logout
  <2> QED
    BY <2>2, <2>3, <2>4, DropKeepsSessions
<1>3. ASSUME NEW c \in Clients, LoseCookie(c) PROVE Kept
  <2>1. row \in [Sessions -> Rows]
    BY DEF SessionInv
  <2> QED
    BY <1>3, <2>1, DropKeepsSessions DEF LoseCookie
<1>4. ASSUME Tick PROVE Kept
  BY <1>4, TickKeepsSessions
<1>5. ASSUME UNCHANGED <<row, cookie, outdated>> PROVE Kept
  BY <1>5, SessionFrame
<1>6. ASSUME NEW c \in Clients, UpdatePassword(c) PROVE SessionInv' /\ ~RevokeSessions(c)
  BY <1>6, UpdateKeepsSessions DEF UpdatePassword, RevokeSessions
<1>7. ASSUME NEW c \in Clients, RevokeSessions(c) PROVE SessionInv' /\ Ended'
  BY <1>7, RevokeKeepsSessions
<1>8. ASSUME NEW c \in Clients, Request(c) PROVE UNCHANGED <<row, cookie, outdated>>
  BY <1>8 DEF Request, Setup, LoginWrong, LoginBlocked, LoginRight, Dispatch, Seen, authVars
<1>9. ASSUME NEW c \in Clients, BeginChange(c) \/ HandlerFails(c)
      PROVE  UNCHANGED <<row, cookie, outdated>>
  BY <1>9 DEF BeginChange, HandlerFails
<1>10. CrashServer \/ UNCHANGED authVars => UNCHANGED <<row, cookie, outdated>>
  BY DEF CrashServer, authVars
<1>11. (\E c \in Clients : UpdatePassword(c)) \/ (\E c \in Clients : RevokeSessions(c)) \/ Kept
  BY <1>1, <1>2, <1>3, <1>4, <1>5, <1>8, <1>9, <1>10 DEF AuthNext, Handle
<1> HIDE DEF Kept
<1>12. CASE \E c \in Clients : UpdatePassword(c)
  BY <1>6, <1>7, <1>12
<1>13. CASE \E c \in Clients : RevokeSessions(c)
  BY <1>7, <1>13
<1>14. CASE Kept /\ ~(\E c \in Clients : RevokeSessions(c))
  BY <1>14 DEF Kept
<1> QED
  BY <1>11, <1>12, <1>13, <1>14

\* ... to the requests, ...
LEMMA StepKeepsHandlers ==
    ASSUME AuthInv, [AuthNext]_authVars
    PROVE  HandlerInv'
<1> USE DEF AuthInv
<1>1. ASSUME NEW c \in Clients, IssueSession(c) PROVE HandlerInv'
  BY <1>1 DEF IssueSession, Forget, Goto, HandlerInv, Steps, Handler
<1>2. ASSUME NEW c \in Clients, NEW pw \in Passwords, Setup(c, pw) PROVE HandlerInv'
  BY <1>2 DEF Setup, ServerFree, Goto, HandlerInv, Steps, Handler
<1>3. ASSUME NEW c \in Clients, LoginRight(c) PROVE HandlerInv'
  BY <1>3 DEF LoginRight, ServerFree, Goto, HandlerInv, Steps, Handler
<1>4. ASSUME NEW c \in Clients, LoginWrong(c) PROVE HandlerInv'
  BY <1>4 DEF LoginWrong, HandlerInv
<1>5. ASSUME NEW c \in Clients, NEW to \in {"idle", "logout", "change"}, NEW sends, Dispatch(c, to, sends)
      PROVE HandlerInv'
  BY <1>5 DEF Dispatch, Seen, ServerFree, Goto, HandlerInv, Steps, Handler
<1>6. ASSUME NEW c \in Clients, Logout(c) PROVE HandlerInv'
  BY <1>6 DEF Logout, ServerFree, Forget, Goto, HandlerInv, Steps, Handler
<1>7. ASSUME NEW c \in Clients, BeginChange(c) PROVE HandlerInv'
  <2>1. CASE MayChange(c) /\ Goto(c, "update") /\ UNCHANGED entered
    <3>1. /\ cookie[c] # None /\ ~row[cookie[c]].revoked /\ entered[c].current = password
          /\ \A d \in Clients : at[d] \notin Handler
          /\ at' = [at EXCEPT ![c] = "update"]
          /\ UNCHANGED <<password, row, cookie, entered, outdated>>
      BY <1>7, <2>1 DEF BeginChange, MayChange, Valid, ServerFree, Goto
    <3>2. at' \in [Clients -> Steps] /\ at'[c] = "update" /\ \A d \in Clients \ {c} : at'[d] = at[d]
      BY <3>1 DEF HandlerInv, Steps, Handler
    <3>3. \A d \in Clients : at'[d] \in Handler => d = c
      BY <3>1, <3>2
    <3>4. DOMAIN entered' = Clients
      BY <3>1 DEF HandlerInv
    <3>5. \A d \in Clients : at'[d] = "update" =>
              cookie'[d] # None /\ ~row'[cookie'[d]].revoked /\ entered'[d].current = password'
      BY <3>1, <3>3 DEF Handler
    <3>6. \A d \in Clients : at'[d] # "revoke"
      BY <3>2, <3>3 DEF Handler
    <3> QED
      BY <3>2, <3>3, <3>4, <3>5, <3>6 DEF HandlerInv
  <2>2. CASE Forget(c)
    <3>1. /\ at' = [at EXCEPT ![c] = "idle"]
          /\ entered' = [entered EXCEPT ![c] = Nothing]
          /\ \A d \in Clients : at[d] \notin Handler
      BY <1>7, <2>2 DEF BeginChange, ServerFree, Forget, Goto
    <3>2. /\ at' \in [Clients -> Steps] /\ DOMAIN entered' = Clients
          /\ \A d \in Clients : at'[d] \notin Handler
      BY <3>1 DEF HandlerInv, Steps, Handler
    <3> QED
      BY <3>2 DEF HandlerInv, Handler
  <2> QED
    BY <1>7, <2>1, <2>2 DEF BeginChange
<1>8. ASSUME NEW c \in Clients, UpdatePassword(c) PROVE HandlerInv'
  <2>1. \A d \in Clients : cookie'[d] # None => cookie'[d] \in outdated'
    BY <1>8 DEF UpdatePassword, SessionInv, NoRow
  <2> QED
    BY <1>8, <2>1 DEF UpdatePassword, Goto, HandlerInv, Steps, Handler
<1>9. ASSUME NEW c \in Clients, RevokeSessions(c) PROVE HandlerInv'
  BY <1>9 DEF RevokeSessions, Goto, HandlerInv, Steps, Handler
<1>10. CASE CrashServer
  BY <1>10 DEF CrashServer, HandlerInv, Steps, Handler
<1>11. ASSUME NEW c \in Clients, HandlerFails(c) PROVE HandlerInv'
  BY <1>11 DEF HandlerFails, Forget, Goto, HandlerInv, Steps, Handler
<1>12. ASSUME NEW c \in Clients, LoseCookie(c) PROVE HandlerInv'
  <2>1. ASSUME NEW d \in Clients, cookie'[d] # None
        PROVE  d # c /\ cookie'[d] = cookie[d] /\ cookie[d] # cookie[c]
    BY <1>12, <2>1 DEF LoseCookie, SessionInv
  <2>2. ASSUME NEW d \in Clients, at[d] = "update"
        PROVE  cookie'[d] = cookie[d] /\ row'[cookie[d]] = row[cookie[d]]
    <3>1. d # c
      BY <1>12, <2>2 DEF LoseCookie
    <3>2. cookie'[d] = cookie[d] /\ cookie[d] \in Sessions
      BY <1>12, <2>2, <3>1 DEF LoseCookie, SessionInv, HandlerInv
    <3> QED
      BY <1>12, <3>2 DEF LoseCookie, Held
  <2>3. UNCHANGED <<password, at, entered>> /\ outdated' = outdated \ {cookie[c]}
    BY <1>12 DEF LoseCookie
  <2>4. \A d \in Clients : at[d] = "update" =>
            cookie'[d] # None /\ ~row'[cookie'[d]].revoked /\ entered[d].current = password
    BY <2>2 DEF HandlerInv
  <2>5. \A e, d \in Clients : at[e] = "revoke" /\ cookie'[d] # None => cookie'[d] \in outdated'
    BY <2>1, <2>3 DEF HandlerInv
  <2> QED
    BY <2>3, <2>4, <2>5 DEF HandlerInv
<1>13. CASE Tick
  <2>1. \A s \in Sessions : row'[s].revoked = row[s].revoked
    BY <1>13 DEF Tick, SessionInv, Rows
  <2> QED
    BY <1>13, <2>1 DEF Tick, HandlerInv, SessionInv
<1>14. CASE UNCHANGED authVars
  BY <1>14 DEF authVars, HandlerInv
<1>15. ASSUME NEW c \in Clients, Request(c) PROVE HandlerInv'
  BY <1>15, <1>2, <1>3, <1>4, <1>5, <1>14 DEF Request, LoginBlocked
<1>16. ASSUME NEW c \in Clients, Handle(c) PROVE HandlerInv'
  BY <1>16, <1>1, <1>6, <1>7, <1>8, <1>9 DEF Handle
<1> QED
  BY <1>10, <1>11, <1>12, <1>13, <1>14, <1>15, <1>16 DEF AuthNext

\* ... and to a change of password: it is under way until it has revoked the
\* sessions or is cut short.
LEMMA StepEndsSessions ==
    ASSUME AuthInv, [AuthNext]_authVars
    PROVE  OldSessionsEnd'
<1> USE DEF AuthInv
<1> DEFINE Stays == (cut => cut') /\ \A c \in Clients : at[c] = "revoke" => at'[c] = "revoke"
<1>1. CASE \E c \in Clients : UpdatePassword(c)
  <2>1. PICK c \in Clients : UpdatePassword(c)
    BY <1>1
  <2>2. at'[c] = "revoke"
    BY <2>1 DEF UpdatePassword, Goto, HandlerInv
  <2> QED
    BY <2>2 DEF OldSessionsEnd, ChangeUnderWay
<1>2. CASE \E c \in Clients : RevokeSessions(c)
  BY <1>2, StepKeepsSessions DEF OldSessionsEnd, Ended
<1>3. CASE \A c \in Clients : ~UpdatePassword(c)
  <2>0. Ended => Ended'
    BY <1>3, StepKeepsSessions
  <2>1. ASSUME NEW c \in Clients, HandlerFails(c) PROVE OldSessionsEnd'
    <3>1. CASE at[c] = "revoke"
      BY <2>1, <3>1 DEF HandlerFails, OldSessionsEnd
    <3>2. CASE at[c] # "revoke"
      BY <2>0, <2>1, <3>2, ChangeFrame DEF HandlerFails, Forget, Goto, HandlerInv
    <3> QED
      BY <3>1, <3>2
  <2>2. CASE CrashServer
    BY <2>0, <2>2 DEF CrashServer, OldSessionsEnd, ChangeUnderWay, Ended
  <2>3. ASSUME NEW c \in Clients, Request(c) PROVE Stays
    BY <2>3 DEF Request, Setup, LoginWrong, LoginBlocked, LoginRight, Dispatch, Goto,
                HandlerInv, authVars
  <2>4. ASSUME NEW c \in Clients, BeginChange(c) \/ Logout(c) \/ IssueSession(c) PROVE Stays
    BY <2>4 DEF BeginChange, Logout, IssueSession, Forget, Goto, HandlerInv
  <2>5. ASSUME NEW c \in Clients, LoseCookie(c) PROVE Stays
    BY <2>5 DEF LoseCookie
  <2>6. CASE Tick \/ UNCHANGED authVars
    BY <2>0, <2>6, ChangeFrame DEF Tick, authVars
  <2>7. ASSUME Stays PROVE OldSessionsEnd'
    <3>1. OldSessionsEnd
      OBVIOUS
    <3> QED
      BY <2>0, <2>7, <3>1, ChangeFrame
  <2> QED
    BY <1>2, <1>3, <2>1, <2>2, <2>3, <2>4, <2>5, <2>6, <2>7 DEF AuthNext, Handle
<1> QED
  BY <1>1, <1>3

LEMMA NextAuthInv == AuthInv /\ [AuthNext]_authVars => AuthInv'
  BY StepKeepsSessions, StepKeepsHandlers, StepEndsSessions DEF AuthInv

\* The relations between account, sessions, cookies and running handlers hold at
\* any time (web/auth/store.py, web/routes/auth.py).
THEOREM AuthInvariant == AuthSpec => []AuthInv
  BY InitAuthInv, NextAuthInv, PTL DEF AuthSpec

\* A change of password that is not cut short between its two transactions
\* ends every session from before it, for good.
THEOREM OldSessionsAreEnded == AuthSpec => []OldSessionsEnd
<1>1. AuthInv => OldSessionsEnd
  BY DEF AuthInv
<1> QED
  BY <1>1, AuthInvariant, PTL

\* Nothing another client does takes a client's session away, but a change
\* of the password.
THEOREM SessionsAreKept == AuthSpec => []SessionKept
<1>1. AuthInv => SessionKept
  BY DEF AuthInv, SessionInv
<1> QED
  BY <1>1, AuthInvariant, PTL

\* The password is replaced only by a client whose session is not revoked at
\* that moment and who knew the password it replaces.
THEOREM ChangesAreAuthenticated == AuthSpec => ChangeIsAuthenticated
<1>1. AuthInv => [\A c \in Clients : UpdatePassword(c) =>
          cookie[c] # None /\ ~row[cookie[c]].revoked /\ entered[c].current = password]_authVars
  BY DEF AuthInv, HandlerInv, UpdatePassword
<1> QED
  BY <1>1, AuthInvariant, PTL DEF AuthSpec, ChangeIsAuthenticated
=============================================================================
