----------------------------- MODULE TaskStatus -----------------------------
(***************************************************************************)
(* The life-cycle statuses of a task (lib/Logger.go) and the transition    *)
(* rule that TaskRunner.SetStatus applies to them                          *)
(* (services/tasks/TaskRunner.go).                                         *)
(***************************************************************************)

TaskStatuses ==
    {"waiting", "starting", "running", "stopping", "stopped", "success", "error"}

\* TaskStatus.IsFinished.
IsFinished(s) == s \in {"stopped", "success", "error"}

(***************************************************************************)
(* The switch of SetStatus on the old status.  The cases of "success" and  *)
(* "error" are empty and Go does not fall through, so both statuses can    *)
(* still be replaced: only "stopped" is final.                             *)
(***************************************************************************)
Accepts(old, new) ==
    /\ new # old
    /\ ~ (old = "running" /\ new = "waiting")
    /\ ~ (old = "stopping" /\ new \in {"waiting", "running"})
    /\ old # "stopped"

\* The status a TaskRunner has after SetStatus(new).
NextStatus(old, new) == IF Accepts(old, new) THEN new ELSE old

=============================================================================
