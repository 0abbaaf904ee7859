---------------------------- MODULE MCIssueCache ----------------------------
EXTENDS IssueCache, TLC

(* Two of the paged columns, in the order of the board.                    *)
Board == <<"todo", "done">>

Symmetry == Permutations(Ops)
=============================================================================
