-------------------------- MODULE MCIssueTimeline --------------------------
EXTENDS IssueTimeline

CONSTANTS root, reply, deep, late

(* A comment, two replies to it, a reply to one of them.                   *)
Thread == [c \in Comments |-> CASE c = deep -> reply [] c = root -> None [] OTHER -> root]
=============================================================================
