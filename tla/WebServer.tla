----------------------------- MODULE WebServer -----------------------------
(***************************************************************************)
(* What the web server keeps for its clients beside the jobs: the event    *)
(* streams of a job (in memory), and the administrator's account and       *)
(* sessions (in the auth database).                                        *)
(*                                                                         *)
(* They share nothing: a stream is let through by the middleware once,     *)
(* when it is requested, and none of its events asks for the session       *)
(* again.  So a behaviour follows one of them, chosen at the start, while  *)
(* the other rests.                                                        *)
(***************************************************************************)
EXTENDS AuthSessions, JobEvents

VARIABLE part      \* what this behaviour is about

serverVars == <<authVars, vars, part>>

ServerInit ==
    /\ part \in {"accounts", "streams"}
    /\ AuthInit /\ Init

ServerNext ==
    /\ UNCHANGED part
    /\ \/ part = "accounts" /\ AuthNext /\ UNCHANGED vars
       \/ part = "streams" /\ Next /\ UNCHANGED authVars

\* AuthFairness and Fairness, each in the behaviours it is about.
ServerFairness ==
    /\ WF_authVars(part = "accounts" /\ Tick)
    /\ \A c \in Clients :
          /\ WF_authVars(part = "accounts" /\ Handle(c))
          /\ SF_authVars(part = "accounts" /\ cookie[c] = None /\ LoginRight(c))
    /\ WF_vars(part = "streams" /\ Runner)
    /\ \A v \in Viewers :
          /\ WF_vars(part = "streams" /\ Subscribe(v))
          /\ WF_vars(part = "streams" /\ Consume(v))

ServerSpec == ServerInit /\ [][ServerNext]_serverVars /\ ServerFairness
=============================================================================
