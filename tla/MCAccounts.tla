----------------------------- MODULE MCAccounts -----------------------------
(***************************************************************************)
(* An instance of Accounts: user 1 is an administrator, user 2 owns the     *)
(* project, and both are logged in.                                         *)
(***************************************************************************)
EXTENDS Accounts, TLC

MCRow(n, admin) == [name |-> n, admin |-> admin, external |-> FALSE, pwd |-> "x"]

MCSeed ==
    [users    |-> [u \in User |-> CASE u = 1 -> MCRow("n1", TRUE) [] u = 2 -> MCRow("n2", FALSE)
                                    [] OTHER -> NoRow],
     member   |-> [p \in Project |-> [u \in User |-> IF p = "p1" /\ u = 2 THEN "owner" ELSE "none"]],
     projects |-> {"p1"},
     sessions |-> [s \in Session |-> IF s \in {1, 2} THEN [user |-> s, age |-> "fresh"] ELSE NoRow]]

MCSymmetry == Permutations(Req)

=============================================================================
