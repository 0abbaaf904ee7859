----------------------------- MODULE IssueCache -----------------------------
(***************************************************************************)
(* The board of one workspace in the web and desktop clients: the paged    *)
(* list query, kept as one bucket per status, and the detail query of one  *)
(* issue.  Mutations write both optimistically, the handlers of the issue  *)
(* events patch them, and refetches replace them; a refetch of the list is *)
(* one request per column, answered one by one.                            *)
(*                                                                         *)
(* Sources: packages/core/issues/{cache-helpers,ws-updaters,mutations,     *)
(* delete-cache,queries}.ts, packages/core/realtime/use-realtime-sync.ts.  *)
(***************************************************************************)
EXTENDS QueryCache, FiniteSets, Functions

CONSTANTS Issues,          \* numbers, in the order of creation
          Initial,         \* the issues at the start
          Columns, Hidden, \* the statuses the board pages, in its order; those it does not
          Viewed,          \* the issue whose page the user opens
          PageSize,        \* ISSUE_PAGE_SIZE, also the offset's unit
          Ops, Kinds,      \* bound: the operations, and what they may be
          Faults           \* subset of {"drop", "reject"}

ASSUME IssueAssumption ==
  /\ Issues \subseteq Nat /\ IsFiniteSet(Issues) /\ Initial \subseteq Issues /\ Viewed \in Issues
  /\ Columns \in Seq(STRING) /\ Columns # <<>> /\ IsFiniteSet(Hidden)
  /\ PageSize \in Nat \ {0}
  /\ Kinds \subseteq {"create", "update", "batch", "delete", "more"}
  /\ Faults \subseteq {"drop", "reject"}

VARIABLES
  list,    \* the query issueKeys.list: a bucket per status
  detail,  \* the query issueKeys.detail of Viewed: its status
  open,    \* the page of Viewed is mounted
  op,      \* op[k]: an operation and, if mine, its mutation
  stored,  \* server: the status of every issue there is
  wire,    \* events on the socket
  conn,    \* "up", "down", or "again" after a reconnect
  gap,     \* history: a page that load-more appended had changed meanwhile, or
           \* a page counted an issue whose event was still to come
  putBack  \* history: a refused delete put back a detail that had changed
           \* meanwhile

vars == <<list, detail, open, op, stored, wire, conn, gap, putBack>>

Paged == Range(Columns)
Statuses == Paged \cup Hidden
Bucket == [issues : SUBSET Issues, total : Nat]
IsBoard(b) == DOMAIN b \subseteq Statuses /\ \A s \in DOMAIN b : b[s] \in Bucket

-----------------------------------------------------------------------------
(* cache-helpers.ts.                                                       *)
EmptyBucket == [issues |-> {}, total |-> 0]
getBucket(b, s) == IF s \in DOMAIN b THEN b[s] ELSE EmptyBucket
setBucket(b, s, bucket) ==
  [t \in DOMAIN b \cup {s} |-> IF t = s THEN bucket ELSE b[t]]

Put(bucket, i) == [issues |-> bucket.issues \cup {i}, total |-> bucket.total + 1]
\* mutant: the count is not kept at 0
TakeBelow(bucket, i) ==
  [issues |-> bucket.issues \ {i}, total |-> bucket.total - 1]

Take(bucket, i) ==
  [issues |-> bucket.issues \ {i}, total |-> IF bucket.total = 0 THEN 0 ELSE bucket.total - 1]

(* The paged columns that hold i, by their place on the board; the first   *)
(* one is where findIssueLocation finds it.                                *)
Places(b, i) == {n \in DOMAIN Columns : i \in getBucket(b, Columns[n]).issues}
findIssueLocation(b, i) == Columns[CHOOSE n \in Places(b, i) : \A m \in Places(b, i) : n <= m]

addIssueToBuckets(b, i, s) ==
  IF i \in getBucket(b, s).issues THEN b ELSE setBucket(b, s, Put(getBucket(b, s), i))

removeIssueFromBuckets(b, i) ==
  IF Places(b, i) = {} THEN b
  ELSE LET s == findIssueLocation(b, i) IN setBucket(b, s, Take(getBucket(b, s), i))

patchIssueInBuckets(b, i, s) ==
  IF Places(b, i) = {} THEN b
  ELSE LET from == findIssueLocation(b, i)
           left == setBucket(b, from, Take(getBucket(b, from), i))
       IN  IF s = from THEN b ELSE setBucket(left, s, Put(getBucket(left, s), i))

-----------------------------------------------------------------------------
(* The server: a page of a column.  A new issue is put on top.             *)
Column(s) == {i \in DOMAIN stored : stored[i] = s}
Rank(i, s) == Cardinality({j \in Column(s) : j > i})
Page(s, offset) ==
  [issues |-> {i \in Column(s) : Rank(i, s) \in offset..(offset + PageSize - 1)},
   total |-> Cardinality(Column(s))]

NoOp == [kind |-> "none", issues |-> {}, status |-> "", phase |-> "none", keep |-> <<>>]

(* What is kept of an operation that is over: the issue it created.        *)
Over(kind, S) ==
  [NoOp EXCEPT !.phase = "settled", !.issues = IF kind = "create" THEN S ELSE {}]

Init ==
  /\ list = Refetch(Absent)
  /\ detail = Absent
  /\ open = FALSE
  /\ op = [k \in Ops |-> NoOp]
  /\ stored = [i \in Initial |-> Columns[1]]
  /\ wire = <<>>
  /\ conn = "up"
  /\ gap = FALSE /\ putBack = FALSE

-----------------------------------------------------------------------------
(* The user's mutations.                                                   *)
Known(i) == \/ HasData(list) /\ Places(list.data[1], i) # {}
            \/ i = Viewed /\ HasData(detail)
Unused == {i \in Issues : i \notin Initial /\ \A k \in Ops : (i \notin op[k].issues)}
Fresh(i) == i \in Unused /\ \A j \in Unused : i <= j

Begin(k, kind, S, s, keep) ==
  op' = [op EXCEPT ![k] = [kind |-> kind, issues |-> S, status |-> s, phase |-> "sent",
                           keep |-> keep]]

Create(k, i, s) ==
  /\ "create" \in Kinds /\ op[k] = NoOp /\ Fresh(i)
  /\ Begin(k, "create", {i}, s, <<>>)
  /\ UNCHANGED <<list, detail, open, stored, wire, conn, gap, putBack>>

(* useUpdateIssue: cancels the fetch of the list alone, keeps both queries,*)
(* writes both.                                                            *)
Update(k, i, s) ==
  /\ "update" \in Kinds /\ op[k] = NoOp /\ Known(i)
  /\ Begin(k, "update", {i}, s, <<list.data, IF i = Viewed THEN detail.data ELSE <<>>>>)
  /\ list' = Patch(Cancel(list), LAMBDA b : patchIssueInBuckets(b, i, s))
  /\ detail' = IF i = Viewed THEN Patch(detail, LAMBDA old : s) ELSE detail
  /\ UNCHANGED <<open, stored, wire, conn, gap, putBack>>

(* useBatchUpdateIssues, of two issues (a bound): the list only.           *)
Batch(k, i, j, s) ==
  /\ "batch" \in Kinds /\ op[k] = NoOp /\ Known(i) /\ Known(j) /\ i # j
  /\ Begin(k, "batch", {i, j}, s, <<list.data, <<>>>>)
  /\ list' = Patch(Cancel(list), LAMBDA b :
                 patchIssueInBuckets(patchIssueInBuckets(b, i, s), j, s))
  /\ UNCHANGED <<detail, open, stored, wire, conn, gap, putBack>>

(* useDeleteIssue: prunes the list and removes the detail query, which a   *)
(* mounted page fetches again.                                             *)
Removed(i) == IF i # Viewed THEN detail ELSE IF open THEN Mount(Absent) ELSE Absent

Delete(k, i) ==
  /\ "delete" \in Kinds /\ op[k] = NoOp /\ Known(i)
  /\ Begin(k, "delete", {i}, "", <<list.data, IF i = Viewed THEN detail.data ELSE <<>>>>)
  /\ list' = Patch(Cancel(list), LAMBDA b : removeIssueFromBuckets(b, i))
  /\ detail' = Removed(i)
  /\ UNCHANGED <<open, stored, wire, conn, gap, putBack>>

(* useLoadMoreByStatus: the offset is what is loaded now, whatever the     *)
(* answer finds; one request of a column at a time.                        *)
LoadMore(k, s) ==
  LET bucket == getBucket(list.data[1], s)
      loaded == Cardinality(bucket.issues)
  IN  /\ "more" \in Kinds /\ op[k] = NoOp /\ HasData(list) /\ loaded < bucket.total
      /\ \A j \in Ops : op[j].kind = "more" => op[j].status # s
      /\ Begin(k, "more", {}, s, <<loaded>>)
      /\ UNCHANGED <<list, detail, open, stored, wire, conn, gap, putBack>>

(* onSuccess, onError and onSettled of each.  An answer to load-more is    *)
(* appended to whatever the column holds by now.                           *)
Extended(bucket, page) ==
  [issues |-> bucket.issues \cup page.issues, total |-> page.total]

Restore(q, was) == IF was = <<>> THEN q ELSE SetData(q, was[1])

Landed(k) ==
  LET o == op[k]
      i == CHOOSE j \in o.issues : TRUE
  IN  CASE o.phase = "refused" /\ o.kind \in {"update", "batch", "delete"} ->
             Restore(list, o.keep[1])
        [] o.phase = "committed" /\ o.kind = "create" ->
             Patch(list, LAMBDA b : addIssueToBuckets(b, i, o.status))
        [] o.phase = "committed" /\ o.kind = "delete" ->
             Patch(list, LAMBDA b : removeIssueFromBuckets(b, i))
        [] OTHER -> list

\* mutant: no onSettled
WrittenQuietly(k) == Landed(k)

Written(k) == Invalidate(Landed(k), TRUE)

PutsBack(k) ==
  /\ op[k].phase = "refused" /\ op[k].kind = "delete" /\ op[k].keep[2] # <<>>
  /\ Viewed \in DOMAIN stored => op[k].keep[2][1] # stored[Viewed]

Settle(k) ==
  /\ op[k].phase \in {"committed", "refused"} /\ op[k].kind # "more"
  /\ op' = [op EXCEPT ![k] = Over(op[k].kind, op[k].issues)]
  /\ list' = Written(k)
  /\ detail' =
       LET back == IF op[k].phase = "refused" /\ op[k].kind \in {"update", "delete"}
                   THEN Restore(detail, op[k].keep[2]) ELSE detail
       IN  IF Viewed \notin op[k].issues THEN detail
           ELSE CASE op[k].kind = "update" -> Invalidate(back, open)
                  [] op[k].kind = "delete" /\ op[k].phase = "committed" -> Removed(Viewed)
                  [] OTHER -> back
  /\ putBack' = (putBack \/ PutsBack(k))
  /\ UNCHANGED <<open, stored, wire, conn, gap>>

MoreLands(k) ==
  /\ op[k].kind = "more" /\ op[k].phase = "committed"
  /\ op' = [op EXCEPT ![k] = Over(op[k].kind, op[k].issues)]
  /\ list' = Patch(list, LAMBDA b :
                setBucket(b, op[k].status, Extended(getBucket(b, op[k].status), op[k].keep[2])))
  /\ gap' = (gap \/ op[k].keep[2] # Page(op[k].status, op[k].keep[1])
                  \/ \E n \in DOMAIN wire : wire[n].kind = "created")
  /\ UNCHANGED <<detail, open, stored, wire, conn, putBack>>

-----------------------------------------------------------------------------
(* The server.  Every event carries the whole issue, a position included.  *)
Events(kind, S, s) ==
  [n \in 1..Cardinality(S) |->
     [kind |-> kind, status |-> s,
      issue |-> CHOOSE i \in S : Cardinality({j \in S : j < i}) = n - 1]]

Notify(kind, S, s) == wire' = IF conn = "down" THEN wire ELSE wire \o Events(kind, S, s)

Do(kind, S, s) ==
  LET there == S \cap DOMAIN stored
  IN  CASE kind = "create" ->
             stored' = [i \in DOMAIN stored \cup S |-> IF i \in S THEN s ELSE stored[i]]
             /\ Notify("created", S, s)
        [] kind \in {"update", "batch"} ->
             stored' = [i \in DOMAIN stored |-> IF i \in S THEN s ELSE stored[i]]
             /\ Notify("updated", there, s)
        [] kind = "delete" ->
             stored' = [i \in DOMAIN stored \ S |-> stored[i]]
             /\ Notify("deleted", there, "")

(* A batch skips what is gone, the others need their issue.  An answer may *)
(* be lost after the commit: the client then rolls back.                   *)
Possible(o) == o.kind \in {"create", "batch"} \/ o.issues \subseteq DOMAIN stored

Commit(k) ==
  /\ op[k].phase = "sent" /\ op[k].kind # "more" /\ Possible(op[k])
  /\ Do(op[k].kind, op[k].issues, op[k].status)
  /\ \/ op' = [op EXCEPT ![k].phase = "committed"]
     \/ "reject" \in Faults /\ op' = [op EXCEPT ![k].phase = "refused"]
  /\ UNCHANGED <<list, detail, open, conn, gap, putBack>>

Refuse(k) ==
  /\ op[k].phase = "sent"
  /\ "reject" \in Faults \/ ~Possible(op[k])
  /\ op' = [op EXCEPT ![k] = IF op[k].kind = "more" THEN Over("more", {})
                              ELSE [@ EXCEPT !.phase = "refused"]]
  /\ UNCHANGED <<list, detail, open, stored, wire, conn, gap, putBack>>

AnswerMore(k) ==
  /\ op[k].kind = "more" /\ op[k].phase = "sent"
  /\ op' = [op EXCEPT ![k].phase = "committed",
                      ![k].keep = <<@[1], Page(op[k].status, @[1])>>]
  /\ UNCHANGED <<list, detail, open, stored, wire, conn, gap, putBack>>

OtherActs(k, kind, S, s) ==
  /\ op[k] = NoOp /\ kind \in Kinds \ {"batch", "more"}
  /\ IF kind = "create" THEN \A i \in S : Fresh(i) ELSE \A i \in S : i \in DOMAIN stored /\ stored[i] # s
  /\ Do(kind, S, s)
  /\ op' = [op EXCEPT ![k] = Over(kind, S)]
  /\ UNCHANGED <<list, detail, open, conn, gap, putBack>>

-----------------------------------------------------------------------------
(* The socket: onIssueCreated, onIssueUpdated, onIssueDeleted.             *)
Deliver ==
  /\ conn # "down" /\ wire # <<>>
  /\ wire' = Tail(wire)
  /\ LET m == wire[1] IN
     CASE m.kind = "created" ->
            /\ list' = Patch(list, LAMBDA b : addIssueToBuckets(b, m.issue, m.status))
            /\ detail' = detail
       [] m.kind = "updated" ->
            /\ list' = Invalidate(Patch(list, LAMBDA b : patchIssueInBuckets(b, m.issue, m.status)), TRUE)
            /\ detail' = IF m.issue = Viewed THEN Patch(detail, LAMBDA old : m.status) ELSE detail
       [] m.kind = "deleted" ->
            /\ list' = Invalidate(Patch(list, LAMBDA b : removeIssueFromBuckets(b, m.issue)), TRUE)
            /\ detail' = Removed(m.issue)
  /\ UNCHANGED <<open, op, stored, conn, gap, putBack>>

Drop ==
  /\ "drop" \in Faults /\ conn = "up"
  /\ conn' = "down" /\ wire' = <<>>
  /\ UNCHANGED <<list, detail, open, op, stored, gap, putBack>>

\* mutant: the detail query is forgotten
ReconnectList ==
  /\ conn = "down"
  /\ conn' = "again"
  /\ list' = Invalidate(list, TRUE)
  /\ UNCHANGED <<detail, open, op, stored, wire, gap, putBack>>

(* invalidateWorkspaceScopedQueries: issueKeys.all is a prefix of both.    *)
Reconnect ==
  /\ conn = "down"
  /\ conn' = "again"
  /\ list' = Invalidate(list, TRUE)
  /\ detail' = Invalidate(detail, open)
  /\ UNCHANGED <<open, op, stored, wire, gap, putBack>>

Open ==
  /\ ~open
  /\ open' = TRUE
  /\ detail' = Mount(detail)
  /\ UNCHANGED <<list, op, stored, wire, conn, gap, putBack>>

(* fetchFirstPages: a request per column, read one by one; the answer is   *)
(* whole when all are in.                                                  *)
ReadColumn(s) ==
  /\ ~Idle(list)
  /\ LET have == IF Sent(list) THEN <<>> ELSE list.fetch[2]
     IN  /\ s \notin DOMAIN have
         /\ list' = Answer(list, setBucket(have, s, Page(s, 0)))
  /\ gap' = (gap \/ \E n \in DOMAIN wire :
                 wire[n].kind = "created" /\ wire[n].issue \in Column(s) \ Page(s, 0).issues)
  /\ UNCHANGED <<detail, open, op, stored, wire, conn, putBack>>

ListLands ==
  /\ Back(list) /\ DOMAIN list.fetch[2] = Paged
  /\ list' = Land(list)
  /\ UNCHANGED <<detail, open, op, stored, wire, conn, gap, putBack>>

(* A detail that is gone is answered with 404.                             *)
FetchDetail ==
  /\ detail' = CASE Sent(detail) -> IF Viewed \in DOMAIN stored THEN Answer(detail, stored[Viewed])
                                    ELSE Fail(detail)
                 [] Back(detail) -> Land(detail)
                 [] OTHER -> detail
  /\ ~Idle(detail)
  /\ UNCHANGED <<list, open, op, stored, wire, conn, gap, putBack>>

Next ==
  \/ Deliver \/ Drop \/ Reconnect \/ Open \/ ListLands \/ FetchDetail
  \/ \E s \in Paged : ReadColumn(s)
  \/ \E k \in Ops : Settle(k) \/ MoreLands(k) \/ Commit(k) \/ Refuse(k) \/ AnswerMore(k)
  \/ \E k \in Ops, i \in Issues : Delete(k, i)
  \/ \E k \in Ops, s \in Paged : LoadMore(k, s) \/ \E i \in Issues : Create(k, i, s)
  \/ \E k \in Ops, s \in Statuses, i \in Issues :
       Update(k, i, s) \/ \E j \in Issues : Batch(k, i, j, s)
  \/ \E k \in Ops, kind \in Kinds, s \in Statuses, i \in Issues : OtherActs(k, kind, {i}, s)

Spec == Init /\ [][Next]_vars

-----------------------------------------------------------------------------
TypeOK ==
  /\ IsQuery(list, IsBoard)
  /\ IsQuery(detail, LAMBDA s : s \in Statuses)
  /\ stored \in UNION {[S -> Statuses] : S \in SUBSET Issues}

Quiet ==
  /\ Idle(list) /\ Idle(detail)
  /\ conn # "down" /\ wire = <<>>
  /\ \A k \in Ops : op[k].phase \in {"none", "settled"}

(* Once nothing is under way every column shows only issues that are in it *)
(* - so none twice, and none that is deleted - the first page of them at   *)
(* least, and the right total, whatever raced: torn refetches, drags,      *)
(* rollbacks, deletions, a reconnect.                                      *)
BoardConverges ==
  Quiet /\ HasData(list) /\ ~list.owed /\ ~gap =>
    \A s \in Paged :
      LET bucket == getBucket(list.data[1], s)
      IN  /\ Page(s, 0).issues \subseteq bucket.issues /\ bucket.issues \subseteq Column(s)
          /\ bucket.total = Cardinality(Column(s))

(* The page of the issue then shows its status, unless an answer that was  *)
(* older than an event landed over it.                                     *)
DetailConverges ==
  Quiet /\ open /\ HasData(detail) /\ ~detail.owed /\ ~putBack
    /\ Viewed \in DOMAIN stored =>
    detail.data[1] = stored[Viewed]
=============================================================================
