----------------------------- MODULE MCLocalJob -----------------------------
(***************************************************************************)
(* An instance of LocalJob: commit 2, the tip at the start, follows commit *)
(* 1; it changes the roles and is the first with collections.              *)
(***************************************************************************)
EXTENDS LocalJob, TLC

MCAncestor == [c \in Commit |-> {1, c}]

MCRequires == [k \in Kind |-> [c \in Commit |->
    IF c = 2 THEN "v2" ELSE IF k = "roles" THEN "v1" ELSE None]]

MCKeyTypes == {[user |-> "ssh", become |-> "login_password", vault |-> "ssh"]}

MCSymmetry == Permutations(Job) \cup Permutations(Url) \cup Permutations(Update)

=============================================================================
