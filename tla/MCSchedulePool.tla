--------------------------- MODULE MCSchedulePool ---------------------------
(***************************************************************************)
(* Instances of SchedulePool: schedule "s1" watches a repository with two   *)
(* commits, "s2" only has a time.  Requests, firings and commits are alike. *)
(***************************************************************************)
EXTENDS SchedulePool, TLC

MCSymmetry == Permutations(Req) \cup Permutations(Firing) \cup Permutations(Hash)

=============================================================================
