--------------------------- MODULE IssueTimeline ---------------------------
(***************************************************************************)
(* The comment timeline of one issue in the web and desktop clients: one   *)
(* query that optimistic mutations, granular event handlers (while the     *)
(* issue is open), the global fallback (which only flags) and refetches    *)
(* all write.  The server commits operations of this user and of others    *)
(* and emits one event for each.                                           *)
(*                                                                         *)
(* Sources: packages/views/issues/hooks/use-issue-timeline.ts,             *)
(* packages/core/issues/mutations.ts, packages/core/realtime/*.            *)
(***************************************************************************)
EXTENDS QueryCache, FiniteSets, Functions

CONSTANTS Comments, Initial,   \* all comments; those there at the start
          Parent, None,        \* Parent[c]: the comment c replies to, or None
          Ops, Kinds,          \* bound: the operations, and what they may be
          Leaves,              \* bound: whether the user leaves the issue
          Faults               \* subset of {"drop", "reject", "badfetch"}

ASSUME TimelineAssumption ==
  /\ None \notin Comments /\ Parent \in [Comments -> Comments \cup {None}]
  /\ Initial \subseteq Comments /\ \A c \in Initial : Parent[c] \in Initial \cup {None}
  /\ Kinds \subseteq {"create", "edit", "resolve", "delete", "react"}
  /\ Leaves \in BOOLEAN
  /\ Faults \subseteq {"drop", "reject", "badfetch"}

VARIABLES
  timeline,  \* the query issueKeys.timeline(issueId)
  open,      \* IssueDetail is mounted: the query is observed
  order,     \* which of the two handlers of an event runs last
  op,        \* op[k]: an operation and, if mine, its mutation
  stored,    \* server: the comments that exist
  wire,      \* events on the socket
  conn,      \* "up", "down", or "again" after a reconnect
  gap        \* history: since the server last answered a fetch, a fetch
             \* failed, an event was lost and no reconnect found the issue
             \* open, or the answer to a create hid what was missing; or
             \* that answer left out a reply that its events bring back

vars == <<timeline, open, order, op, stored, wire, conn, gap>>

New == [text |-> "first", resolved |-> FALSE, liked |-> FALSE]
Entry == [text : {"first", "edited"}, resolved : BOOLEAN, liked : BOOLEAN]
Timelines == UNION {[S -> Entry] : S \in SUBSET Comments}

Without(f, S) == [c \in DOMAIN f \ S |-> f[c]]
With(f, c, e) == [d \in DOMAIN f \cup {c} |-> IF d = c THEN e ELSE f[d]]
Change(f, c, g(_)) == IF c \in DOMAIN f THEN [f EXCEPT ![c] = g(@)] ELSE f

(* The comment and, to any depth, the replies to it: the smallest set that *)
(* holds it and, with a comment, the replies to it in the list.            *)
Cascade(f, c) ==
  LET swept == {S \in SUBSET (DOMAIN f \cup {c}) :
                  c \in S /\ \A d \in DOMAIN f : Parent[d] \in S => d \in S}
  IN  {d \in DOMAIN f : \A S \in swept : d \in S}

NoOp == [kind |-> "none", comment |-> None, phase |-> "none", prev |-> <<>>]

Init ==
  /\ timeline = Absent
  /\ open = FALSE
  /\ order \in {"granular", "global"}
  /\ op = [k \in Ops |-> NoOp]
  /\ stored = [c \in Initial |-> New]
  /\ wire = <<>>
  /\ conn = "up"
  /\ gap = FALSE

-----------------------------------------------------------------------------
(* The user opens and leaves the issue.                                    *)
Open ==
  /\ ~open
  /\ open' = TRUE
  /\ timeline' = Mount(timeline)
  /\ UNCHANGED <<order, op, stored, wire, conn, gap>>

Close ==
  /\ open /\ Leaves
  /\ open' = FALSE
  /\ UNCHANGED <<timeline, order, op, stored, wire, conn, gap>>

-----------------------------------------------------------------------------
(* Mutations.  What an operation makes of a list of comments, on the       *)
(* server and, for all but create and react, in the optimistic write.      *)
Apply(kind, c, f) ==
  CASE kind = "create"  -> With(f, c, New)
    [] kind = "edit"    -> Change(f, c, LAMBDA e : [e EXCEPT !.text = "edited"])
    [] kind = "resolve" -> Change(f, c, LAMBDA e : [e EXCEPT !.resolved = TRUE])
    [] kind = "react"   -> Change(f, c, LAMBDA e : [e EXCEPT !.liked = ~@])
    [] kind = "delete"  -> Without(f, Cascade(f, c))

Optimistic == {"edit", "resolve", "delete"}

(* Each comment is created once; the other operations act on one the user  *)
(* sees.                                                                   *)
Fresh(c) == c \notin Initial /\ \A k \in Ops : ~(op[k].kind = "create" /\ op[k].comment = c)
Seen(c)  == HasData(timeline) /\ c \in DOMAIN timeline.data[1]

(* onMutate: cancel the fetch, keep the list, write optimistically.        *)
Mutate(k, kind, c) ==
  /\ op[k] = NoOp /\ open /\ HasData(timeline)
  /\ IF kind = "create" THEN Fresh(c) /\ (Parent[c] # None => Seen(Parent[c])) ELSE Seen(c)
  /\ op' = [op EXCEPT ![k] =
       [kind |-> kind, comment |-> c, phase |-> "sent",
        prev |-> IF kind \in Optimistic THEN timeline.data ELSE <<>>]]
  /\ timeline' = IF kind \in Optimistic
                 THEN Patch(Cancel(timeline), LAMBDA f : Apply(kind, c, f)) ELSE timeline
  /\ UNCHANGED <<open, order, stored, wire, conn, gap>>

(* useCreateComment.onSuccess: added unless an event brought it; a list    *)
(* that was never loaded becomes this one entry.                           *)
AddEntry(q, c, e) ==
  IF ~HasData(q) THEN SetData(q, [d \in {c} |-> e])
  ELSE Patch(q, LAMBDA f : IF c \in DOMAIN f THEN f ELSE With(f, c, e))

\* mutant: the rollback is the last word
SettleQuietly(k) ==
  /\ op[k].phase \in {"committed", "refused"}
  /\ op' = [op EXCEPT ![k].phase = "settled", ![k].prev = <<>>]
  /\ timeline' = IF op[k].phase = "refused" /\ op[k].prev # <<>>
                 THEN SetData(timeline, op[k].prev[1]) ELSE timeline
  /\ UNCHANGED <<open, order, stored, wire, conn, gap>>

(* The answer to a create unflags the flagged list of a closed issue, or   *)
(* brings back a comment whose deletion was already shown.                 *)
Hides(k) == /\ op[k].kind = "create" /\ op[k].phase = "committed"
            /\ (timeline.stale /\ ~open) \/ op[k].comment \notin DOMAIN stored

(* onSuccess, onError (roll back to the list as it was) and onSettled      *)
(* (invalidate), which create does not have.                               *)
Settle(k) ==
  /\ op[k].phase \in {"committed", "refused"}
  /\ op' = [op EXCEPT ![k].phase = "settled", ![k].prev = <<>>]
  /\ timeline' =
       IF op[k].kind = "create"
       THEN IF op[k].phase = "committed" THEN AddEntry(timeline, op[k].comment, New) ELSE timeline
       ELSE Invalidate(IF op[k].phase = "refused" /\ op[k].prev # <<>>
                       THEN SetData(timeline, op[k].prev[1]) ELSE timeline, open)
  /\ gap' = (gap \/ Hides(k))
  /\ UNCHANGED <<open, order, stored, wire, conn>>

-----------------------------------------------------------------------------
(* The server.  An event carries the comment as it is after the commit.    *)
Emit(kind, c, f) ==
  /\ wire' = IF conn = "down" THEN wire
             ELSE Append(wire, [kind |-> kind, comment |-> c,
                                entry |-> IF c \in DOMAIN f THEN f[c] ELSE New])
  /\ gap' = (gap \/ conn = "down")

Possible(kind, c) ==
  IF kind = "create" THEN Parent[c] # None => Parent[c] \in DOMAIN stored ELSE c \in DOMAIN stored

Commit(k) ==
  /\ op[k].phase = "sent" /\ Possible(op[k].kind, op[k].comment)
  /\ stored' = Apply(op[k].kind, op[k].comment, stored)
  /\ Emit(op[k].kind, op[k].comment, stored')
  /\ \/ op' = [op EXCEPT ![k].phase = "committed"]
     \/ "reject" \in Faults /\ op' = [op EXCEPT ![k].phase = "refused"]
  /\ UNCHANGED <<timeline, open, order, conn>>

Refuse(k) ==
  /\ op[k].phase = "sent"
  /\ "reject" \in Faults \/ ~Possible(op[k].kind, op[k].comment)
  /\ op' = [op EXCEPT ![k].phase = "refused"]
  /\ UNCHANGED <<timeline, open, order, stored, wire, conn, gap>>

OtherActs(k, kind, c) ==
  /\ op[k] = NoOp
  /\ IF kind = "create" THEN Fresh(c) ELSE TRUE
  /\ Possible(kind, c)
  /\ op' = [op EXCEPT ![k] = [kind |-> kind, comment |-> c, phase |-> "settled", prev |-> <<>>]]
  /\ stored' = Apply(kind, c, stored)
  /\ Emit(kind, c, stored')
  /\ UNCHANGED <<timeline, open, order, conn>>

-----------------------------------------------------------------------------
(* The socket.                                                             *)

\* mutant: the event's comment is stored as it came, not as an entry
GranularVerbatim(q, m) ==
  CASE m.kind = "create" -> AddEntry(q, m.comment, m.entry)
    [] m.kind \in {"edit", "resolve", "react"} ->
         Patch(q, LAMBDA f : Change(f, m.comment, LAMBDA e : m))
    [] m.kind = "delete" -> Patch(q, LAMBDA f : Without(f, Cascade(f, m.comment)))

(* The handlers of useIssueTimeline.  A reaction event changes one         *)
(* reaction, the others carry the whole comment.                           *)
Granular(q, m) ==
  CASE m.kind = "create" -> AddEntry(q, m.comment, m.entry)
    [] m.kind \in {"edit", "resolve"} ->
         Patch(q, LAMBDA f : Change(f, m.comment, LAMBDA e : m.entry))
    [] m.kind = "react" ->
         Patch(q, LAMBDA f : Change(f, m.comment, LAMBDA e : [e EXCEPT !.liked = m.entry.liked]))
    [] m.kind = "delete" -> Patch(q, LAMBDA f : Without(f, Cascade(f, m.comment)))

(* Open: the granular handler and the global flag, in the order in which   *)
(* they subscribed.  Closed: the flag alone.                               *)
Deliver ==
  /\ conn # "down" /\ wire # <<>>
  /\ wire' = Tail(wire)
  /\ timeline' = IF ~open THEN Flag(timeline)
                 ELSE IF order = "global" THEN Flag(Granular(timeline, wire[1]))
                 ELSE Granular(Flag(timeline), wire[1])
  /\ UNCHANGED <<open, order, op, stored, conn, gap>>

Drop ==
  /\ "drop" \in Faults /\ conn = "up"
  /\ conn' = "down"
  /\ wire' = <<>>
  /\ gap' = (gap \/ wire # <<>>)
  /\ UNCHANGED <<timeline, open, order, op, stored>>

(* useWSReconnect invalidates the timeline of the open issue; the global   *)
(* handler invalidates issueKeys.all(wsId) = ["issues", wsId], no prefix   *)
(* of ["issues", "timeline", issueId].                                     *)
Reconnect ==
  /\ conn = "down"
  /\ conn' = "again"
  /\ timeline' = IF open THEN Invalidate(timeline, TRUE) ELSE timeline
  /\ gap' = (gap /\ ~open)
  /\ UNCHANGED <<open, order, op, stored, wire>>

(* An answer without a reply to a reply whose creation and deletion are    *)
(* both still to be announced: the sweep of the deletion will not reach    *)
(* it, for the reply between is missing.                                   *)
Orphans == \E n \in DOMAIN wire :
  LET c == wire[n].comment
  IN  /\ wire[n].kind = "create" /\ c \notin DOMAIN stored
      /\ Parent[c] # None /\ Parent[Parent[c]] # None

Fetch ==
  /\ \/ Sent(timeline) /\ timeline' = Answer(timeline, stored) /\ gap' = Orphans
     \/ Back(timeline) /\ timeline' = Land(timeline) /\ gap' = gap
     \/ "badfetch" \in Faults /\ ~Idle(timeline) /\ timeline' = Fail(timeline) /\ gap' = TRUE
  /\ UNCHANGED <<open, order, op, stored, wire, conn>>

Next ==
  \/ Open \/ Close \/ Deliver \/ Drop \/ Reconnect \/ Fetch
  \/ \E k \in Ops : Settle(k) \/ Commit(k) \/ Refuse(k)
  \/ \E k \in Ops, kind \in Kinds, c \in Comments : Mutate(k, kind, c) \/ OtherActs(k, kind, c)

Spec == Init /\ [][Next]_vars

-----------------------------------------------------------------------------
TypeOK ==
  /\ IsQuery(timeline, LAMBDA f : f \in Timelines)
  /\ stored \in Timelines
  /\ \A k \in Ops : op[k].prev = <<>> \/ (Len(op[k].prev) = 1 /\ op[k].prev[1] \in Timelines)

Quiet ==
  /\ open /\ HasData(timeline) /\ Idle(timeline)
  /\ conn # "down" /\ wire = <<>>
  /\ \A k \in Ops : op[k].phase \in {"none", "settled"}

ShowsServer == timeline.data[1] = stored

(* An open timeline shows what the server has once nothing is under way:   *)
(* after rollbacks, refused and lost answers, overlapping mutations of two *)
(* users and a reconnect.  Two exceptions are recorded: an answer that     *)
(* landed over a later event, and a gap.                                   *)
Converges == Quiet /\ ~timeline.owed /\ ~gap => ShowsServer
=============================================================================
