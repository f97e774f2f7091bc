---------------------------- MODULE JobContract ----------------------------
(***************************************************************************)
(* What a client of the jobs API may rely on: the abstract life of a job   *)
(* row.  A row is created queued, it is run at most once, it ends at most  *)
(* once, and an ended row is never touched again.  Several rows may move   *)
(* in one step, because a server start fails every running row at once.    *)
(***************************************************************************)
CONSTANT Jobs

VARIABLE status

Active   == {"queued", "running"}
Terminal == {"succeeded", "failed", "canceled"}
Statuses == {"absent"} \union Active \union Terminal

Init == status = [j \in Jobs |-> "absent"]

\* The rows that the row s may turn into in one step.
Successors(s) ==
    CASE s = "absent"  -> {"absent", "queued"}
      [] s = "queued"  -> {"queued", "running", "canceled"}
      [] s = "running" -> {"running"} \union Terminal
      [] OTHER         -> {s}

Next ==
    /\ status' \in [Jobs -> Statuses]
    /\ \A j \in Jobs : status'[j] \in Successors(status[j])

Spec == Init /\ [][Next]_status

=============================================================================
