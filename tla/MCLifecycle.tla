---------------------------- MODULE MCLifecycle ----------------------------
(* Lifecycle for TLC: one client that goes on for ever, and a file that      *)
(* authorizes it or not.                                                     *)
EXTENDS Lifecycle

CONSTANT c1

AllOrNobody == {{}, {c1}}
ForEver == [c \in Clients |-> MaxFailed + 1]

=============================================================================
