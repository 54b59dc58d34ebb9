--------------------------- MODULE MCCommandIntake ---------------------------
(* A small instance of CommandIntake: one comment of one pull request,     *)
(* written by a member who is not its approver.                            *)
EXTENDS CommandIntake

CONSTANTS c1, p1, member, approver, d1, d2

OnePR == [c \in Comments |-> p1]
ByMember == [c \in Comments |-> member]
===============================================================================
