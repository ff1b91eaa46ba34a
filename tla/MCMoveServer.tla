---------------------------- MODULE MCMoveServer ----------------------------
(* Instance of MoveServer for TLC: two goals in opposite directions, one   *)
(* at the edge of the range, and one beyond it.                            *)
EXTENDS MoveServer

CONSTANTS right, left, far

TargetOf == [g \in Goals |-> IF g = right THEN 3 ELSE IF g = left THEN -2 ELSE -7]
=============================================================================
