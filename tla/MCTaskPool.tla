----------------------------- MODULE MCTaskPool -----------------------------
(***************************************************************************)
(* Instances of TaskPool.  Tasks 1 and 2 run template "A", a build, and    *)
(* task 3 runs template "B" that is started by A's success; both belong to *)
(* one project.  So two tasks compete for a template, two for the limits,  *)
(* and the autorun of a build competes with tasks added by users; and when *)
(* the playbook of task 1 does not end, task 2 is blocked for ever while   *)
(* task 3, behind it in the queue, is free.                                *)
(***************************************************************************)
EXTENDS TaskPool

MCTemplateOf == [t \in Task |-> IF t = 3 THEN "B" ELSE "A"]
MCProjectOf == [tpl \in Template |-> "p"]
MCAutorunOf == [tpl \in Template |-> IF tpl = "A" THEN {"B"} ELSE {}]

=============================================================================
