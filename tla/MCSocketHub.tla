----------------------------- MODULE MCSocketHub -----------------------------
(***************************************************************************)
(* Instances of SocketHub: connection "c1" is user "u1"'s and "c2" is user  *)
(* "u2"'s; the buffers are small enough to overflow.                        *)
(***************************************************************************)
EXTENDS SocketHub

MCUserOf == [c \in Conn |-> IF c = "c1" THEN "u1" ELSE "u2"]

=============================================================================
