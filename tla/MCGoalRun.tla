------------------------------ MODULE MCGoalRun ------------------------------
(* Graphs of subtasks for GoalRun. *)
EXTENDS GoalRun, TLC

CONSTANTS a, b, v, c

\* Work, its review, and work on the reviewed result.
Chain == [s \in {a, v, c} |-> IF s = a THEN {} ELSE IF s = v THEN {a} ELSE {v}]
\* Two pieces of work that a third joins.
Join == [s \in {a, b, c} |-> IF s = c THEN {a, b} ELSE {}]
HandlerSymmetry == Permutations(Handlers)
=============================================================================
