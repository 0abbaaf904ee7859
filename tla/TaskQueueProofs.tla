--------------------------- MODULE TaskQueueProofs ---------------------------
(***************************************************************************)
(* Proofs about TaskQueue, for any number of tasks, agents, runtimes and   *)
(* issues.  The steps of Next are grouped by what they do to the rows: an  *)
(* insert, a move of one row, the end of a set of rows.                    *)
(***************************************************************************)
EXTENDS TaskQueue, TLAPS

\* What Insert leaves: one new queued row, every other row as it was.
LEMMA InsertType ==
    ASSUME TypeOK, NEW t \in TaskIds, NEW c \in Columns, Insert(t, c)
    PROVE  /\ status' \in [TaskIds -> Status]
           /\ info' \in [TaskIds -> Columns \cup {NoColumns}]
           /\ reason' \in [TaskIds -> Reasons \cup {None}]
  BY DEF TypeOK, Insert, Status, LiveStatus

\* An insert the unique index lets in keeps the serialisation invariant: the
\* new row is in no snapshot, and no pending row shares its issue and agent.
LEMMA InsertSerial ==
    ASSUME TypeOK, SerialInv, NEW t \in TaskIds, NEW c \in Columns,
           IndexFree(c.agent, c.link), Insert(t, c), UNCHANGED claims
    PROVE  SerialInv'
  <1> USE QueueAssumption DEF Insert, TypeOK, claims
  <1>1. /\ status[t] = "none" /\ status'[t] = "queued" /\ info'[t] = c
        /\ \A u \in TaskIds \ {t} : status'[u] = status[u] /\ info'[u] = info[u]
    OBVIOUS
  <1>2. RowsHaveColumns'
    BY <1>1 DEF SerialInv, RowsHaveColumns
  <1>3. UniquePending'
    BY <1>1 DEF SerialInv, UniquePending, IndexFree, Pending, SameWork
  <1>4. IssueSerialized'
    BY <1>1 DEF SerialInv, IssueSerialized, Active, ActiveStatus, SameWork
  <1>5. SnapshotsSafe'
    <2> SUFFICES ASSUME NEW r \in Runtimes, NEW u \in seen[r]
                 PROVE  /\ status'[u] # "none"
                        /\ Queued(u)' /\ info'[u].link \in Issues =>
                               \A v \in TaskIds : Active(v)' => ~SameWork(u, v)'
      BY DEF SnapshotsSafe
    <2>1. u \in TaskIds /\ u # t
      BY <1>1 DEF SerialInv, SnapshotsSafe
    <2> QED
      BY <1>1, <2>1 DEF SerialInv, SnapshotsSafe, Queued, Active, ActiveStatus, SameWork
  <1> QED
    BY <1>2, <1>3, <1>4, <1>5 DEF SerialInv

\* Rows that leave the queue or finish free their issue: nothing to break.
LEMMA EndSerial ==
    ASSUME TypeOK, SerialInv, NEW S \in SUBSET TaskIds, NEW s \in TerminalStatus,
           \A t \in S : Live(t),
           status' = [t \in TaskIds |-> IF t \in S THEN s ELSE status[t]],
           UNCHANGED <<info, seen>>
    PROVE  SerialInv'
  <1> USE DEF TypeOK, Live, LiveStatus, ActiveStatus, TerminalStatus
  <1>1. \A t \in TaskIds : /\ (status'[t] = "none") = (status[t] = "none")
                           /\ status'[t] = status[t] \/ status'[t] \in TerminalStatus
    OBVIOUS
  <1>2. RowsHaveColumns'
    BY <1>1 DEF SerialInv, RowsHaveColumns
  <1>3. UniquePending'
    BY <1>1 DEF SerialInv, UniquePending, Pending, SameWork
  <1>4. IssueSerialized'
    BY <1>1 DEF SerialInv, IssueSerialized, Active, SameWork
  <1>5. SnapshotsSafe'
    BY <1>1 DEF SerialInv, SnapshotsSafe, Queued, Active, SameWork
  <1> QED
    BY <1>2, <1>3, <1>4, <1>5 DEF SerialInv

\* A move of one row from dispatched or waiting to an active status other
\* than dispatched, or out of running, keeps the serialisation invariant.
LEMMA MoveSerial ==
    ASSUME TypeOK, SerialInv, NEW t \in TaskIds,
           NEW s \in {"waiting_local_directory", "running", "completed"},
           Active(t), MoveTo(t, s)
    PROVE  SerialInv'
  <1> USE DEF TypeOK, MoveTo, claims, Active, ActiveStatus
  <1>1. /\ \A u \in TaskIds : Active(u)' => Active(u)
        /\ \A u \in TaskIds : Pending(u)' => Pending(u)
        /\ \A u \in TaskIds : Queued(u)' => Queued(u)
        /\ \A u \in TaskIds : (status'[u] = "none") = (status[u] = "none")
    BY DEF Pending, Queued
  <1>2. UNCHANGED info /\ UNCHANGED seen
    OBVIOUS
  <1>3. RowsHaveColumns'
    BY <1>1, <1>2 DEF SerialInv, RowsHaveColumns
  <1>4. UniquePending'
    BY <1>1, <1>2 DEF SerialInv, UniquePending, SameWork
  <1>5. IssueSerialized'
    <2> SUFFICES ASSUME NEW u \in TaskIds, NEW v \in TaskIds, Active(u)', Active(v)',
                        info'[u].link \in Issues, SameWork(u, v)'
                 PROVE  u = v
      BY DEF IssueSerialized
    <2> QED BY <1>1, <1>2 DEF SerialInv, IssueSerialized, SameWork
  <1>6. SnapshotsSafe'
    BY <1>1, <1>2 DEF SerialInv, SnapshotsSafe, SameWork
  <1> QED
    BY <1>3, <1>4, <1>5, <1>6 DEF SerialInv

\* The step that matters: locking a row of an old snapshot.  The row is still
\* queued, so by SnapshotsSafe its issue is free, and by UniquePending the rows
\* of other snapshots that share its issue and agent are no longer queued.
LEMMA ClaimLockSerial ==
    ASSUME TypeOK, SerialInv, NEW r \in Runtimes, NEW t \in TaskIds, ClaimLock(r, t)
    PROVE  SerialInv'
  <1> USE DEF TypeOK, ClaimLock
  <1>1. /\ t \in seen[r] /\ status[t] = "queued" /\ status'[t] = "dispatched"
        /\ \A u \in TaskIds \ {t} : status'[u] = status[u]
        /\ UNCHANGED info
        /\ \A q \in Runtimes : seen'[q] \subseteq seen[q]
    BY DEF Queued
  <1>2. RowsHaveColumns'
    BY <1>1 DEF SerialInv, RowsHaveColumns
  <1>3. UniquePending'
    BY <1>1 DEF SerialInv, UniquePending, Pending, SameWork
  <1>4. IssueSerialized'
    BY <1>1 DEF SerialInv, IssueSerialized, SnapshotsSafe, Queued, Active, ActiveStatus, SameWork
  <1>5. SnapshotsSafe'
    <2> SUFFICES ASSUME NEW q \in Runtimes, NEW u \in seen'[q]
                 PROVE  /\ status'[u] # "none"
                        /\ Queued(u)' /\ info'[u].link \in Issues =>
                               \A v \in TaskIds : Active(v)' => ~SameWork(u, v)'
      BY DEF SnapshotsSafe
    <2>1. u \in seen[q] /\ u \in TaskIds
      BY <1>1
    <2>2. status'[u] # "none"
      BY <1>1, <2>1 DEF SerialInv, SnapshotsSafe
    <2>3. ASSUME Queued(u)', info'[u].link \in Issues, NEW v \in TaskIds, Active(v)'
          PROVE  ~SameWork(u, v)'
      <3>1. u # t /\ Queued(u)
        BY <1>1, <2>1, <2>3 DEF Queued
      <3>2. CASE v = t
        BY <1>1, <2>1, <2>3, <3>1, <3>2 DEF SerialInv, UniquePending, Pending, Queued, SameWork
      <3>3. CASE v # t
        BY <1>1, <2>1, <2>3, <3>1, <3>3
           DEF SerialInv, SnapshotsSafe, Active, ActiveStatus, SameWork
      <3> QED BY <3>2, <3>3
    <2> QED BY <2>2, <2>3
  <1> QED
    BY <1>2, <1>3, <1>4, <1>5 DEF SerialInv

\* A new snapshot holds queued rows whose issue is free.
LEMMA ClaimScanSerial ==
    ASSUME TypeOK, SerialInv, NEW r \in Runtimes, NEW a \in Agents, ClaimScan(r, a)
    PROVE  SerialInv'
  <1> USE DEF TypeOK, ClaimScan
  <1>1. RowsHaveColumns' /\ UniquePending' /\ IssueSerialized'
    BY DEF SerialInv, RowsHaveColumns, UniquePending, IssueSerialized, Pending, Active, SameWork
  <1>2. ASSUME NEW q \in Runtimes, NEW t \in seen'[q]
        PROVE  /\ status[t] # "none"
               /\ Queued(t) /\ info[t].link \in Issues =>
                      \A u \in TaskIds : Active(u) => ~SameWork(t, u)
    <2>1. CASE t \in seen[q]
      BY <2>1 DEF SerialInv, SnapshotsSafe
    <2>2. CASE t \notin seen[q]
      <3>1. t \in Claimable(a)
        BY <1>2, <2>2
      <3> QED BY <3>1, QueueAssumption DEF Claimable, Queued
    <2> QED BY <2>1, <2>2
  <1>3. SnapshotsSafe'
    BY <1>2 DEF SnapshotsSafe, Queued, Active, SameWork
  <1> QED
    BY <1>1, <1>3 DEF SerialInv

\* Forgetting a snapshot, or any change outside rows and snapshots.
LEMMA ForgetSerial ==
    ASSUME TypeOK, SerialInv, UNCHANGED <<status, info>>,
           \A r \in Runtimes : seen'[r] \subseteq seen[r]
    PROVE  SerialInv'
  <1>1. RowsHaveColumns' /\ UniquePending' /\ IssueSerialized'
    BY DEF SerialInv, RowsHaveColumns, UniquePending, IssueSerialized, Pending, Active, SameWork
  <1>2. SnapshotsSafe'
    BY DEF TypeOK, SerialInv, SnapshotsSafe, Queued, Active, SameWork
  <1> QED
    BY <1>1, <1>2 DEF SerialInv

-----------------------------------------------------------------------------
(* The retry invariant, by what a step does to the rows.                   *)

\* A row that is no retry and takes the place of no row leaves the retries be.
LEMMA InsertRetry ==
    ASSUME TypeOK, SerialInv, RetryInv, NEW t \in TaskIds, NEW c \in Columns,
           c.parent = None, Insert(t, c), UNCHANGED retryDue
    PROVE  RetryInv'
  <1> USE QueueAssumption DEF Insert, TypeOK
  <1>1. /\ status[t] = "none" /\ status'[t] = "queued" /\ info'[t] = c
        /\ UNCHANGED reason
        /\ \A u \in TaskIds \ {t} : status'[u] = status[u] /\ info'[u] = info[u]
    OBVIOUS
  <1>2. RetryDueFailed'
    BY <1>1 DEF RetryInv, RetryDueFailed, CanRetry
  <1>3. RetryChain'
    <2> SUFFICES ASSUME NEW p \in TaskIds, NEW u \in TaskIds,
                        status'[u] # "none", info'[u].parent = p
                 PROVE  /\ status'[p] = "failed" /\ reason'[p] = "infrastructure"
                        /\ SameWork(p, u)' /\ info'[p].link \in Issues \cup Chats
                        /\ info'[u].runtime = info'[p].runtime
                        /\ info'[u].attempt = info'[p].attempt + 1
                        /\ p \notin retryDue'
                        /\ \A v \in TaskIds : info'[v].parent = p => v = u
      BY DEF RetryChain
    <2>1. u # t
      BY <1>1
    <2>2. status[u] # "none" /\ info[u].parent = p
      BY <1>1, <2>1
    <2>3. status[p] = "failed"
      BY <2>2 DEF RetryInv, RetryChain
    <2>4. p # t
      BY <1>1, <2>3
    <2> QED
      BY <1>1, <2>1, <2>2, <2>4 DEF RetryInv, RetryChain, SameWork
  <1> QED BY <1>2, <1>3 DEF RetryInv

\* Steps that keep the columns and every failed row keep the retries.
LEMMA KeepRetry ==
    ASSUME TypeOK, RetryInv, UNCHANGED <<info, retryDue>>,
           \A t \in TaskIds : (status'[t] = "none") = (status[t] = "none"),
           \A t \in TaskIds : status[t] = "failed" =>
               status'[t] = "failed" /\ reason'[t] = reason[t]
    PROVE  RetryInv'
  <1>1. RetryDueFailed'
    BY DEF TypeOK, RetryInv, RetryDueFailed, CanRetry
  <1>2. RetryChain'
    BY DEF TypeOK, RetryInv, RetryChain, SameWork
  <1> QED BY <1>1, <1>2 DEF RetryInv

\* Failing live rows makes some of them due a retry; none of them has a child,
\* because a child's parent failed before.
LEMMA FailRetry ==
    ASSUME TypeOK, RetryInv, NEW S \in SUBSET TaskIds, NEW why \in Reasons,
           \A t \in S : Live(t), FailRows(S, why)
    PROVE  RetryInv'
  <1> USE DEF FailRows, TypeOK, Live, LiveStatus, ActiveStatus
  <1>1. /\ UNCHANGED info
        /\ \A t \in S : status[t] # "failed" /\ status[t] # "none"
        /\ \A t \in S : status'[t] = "failed" /\ reason'[t] = why
        /\ \A t \in TaskIds \ S : status'[t] = status[t] /\ reason'[t] = reason[t]
        /\ \A t \in retryDue' : t \in retryDue \/ (t \in S /\ CanRetry(t, why))
    OBVIOUS
  <1>2. RetryDueFailed'
    <2> SUFFICES ASSUME NEW t \in retryDue'
                 PROVE  /\ status'[t] = "failed" /\ reason'[t] = "infrastructure"
                        /\ CanRetry(t, reason[t])'
      BY DEF RetryDueFailed
    <2>1. CASE t \in S /\ CanRetry(t, why)
      BY <1>1, <2>1 DEF CanRetry
    <2>2. CASE t \in retryDue
      BY <1>1, <2>2 DEF RetryInv, RetryDueFailed, CanRetry
    <2> QED BY <1>1, <2>1, <2>2
  <1>3. RetryChain'
    <2> SUFFICES ASSUME NEW p \in TaskIds, NEW u \in TaskIds,
                        status'[u] # "none", info'[u].parent = p
                 PROVE  /\ status'[p] = "failed" /\ reason'[p] = "infrastructure"
                        /\ SameWork(p, u)' /\ info'[p].link \in Issues \cup Chats
                        /\ info'[u].runtime = info'[p].runtime
                        /\ info'[u].attempt = info'[p].attempt + 1
                        /\ p \notin retryDue'
                        /\ \A v \in TaskIds : info'[v].parent = p => v = u
      BY DEF RetryChain
    <2>1. status[u] # "none" /\ info[u].parent = p
      BY <1>1
    <2>2. p \notin S /\ p \notin retryDue
      BY <1>1, <2>1 DEF RetryInv, RetryChain
    <2> QED
      BY <1>1, <2>1, <2>2 DEF RetryInv, RetryChain, SameWork
  <1> QED BY <1>2, <1>3 DEF RetryInv

\* The child of a retry: its parent leaves retryDue in the same step, so no
\* second child can follow, and had none before, because it was still due.
LEMMA ChildRetry ==
    ASSUME TypeOK, SerialInv, RetryInv, NEW t \in TaskIds, NEW u \in TaskIds,
           t \in retryDue, retryDue' = retryDue \ {t},
           Insert(u, [info[t] EXCEPT !.attempt = @ + 1, !.parent = t])
    PROVE  RetryInv'
  <1> USE QueueAssumption DEF TypeOK
  <1>1. /\ status[t] = "failed" /\ reason[t] = "infrastructure" /\ CanRetry(t, reason[t])
        /\ info[t] \in Columns
    BY DEF RetryInv, RetryDueFailed, SerialInv, RowsHaveColumns
  <1>2. /\ status[u] = "none" /\ status'[u] = "queued" /\ u # t /\ UNCHANGED reason
        /\ \A v \in TaskIds \ {u} : status'[v] = status[v] /\ info'[v] = info[v]
        /\ info'[u] = [info[t] EXCEPT !.attempt = @ + 1, !.parent = t]
    BY <1>1 DEF Insert
  <1>3. /\ info'[u].agent = info[t].agent /\ info'[u].link = info[t].link
        /\ info'[u].runtime = info[t].runtime
        /\ info'[u].attempt = info[t].attempt + 1 /\ info'[u].parent = t
    BY <1>1, <1>2 DEF Columns
  <1>4. \A v \in TaskIds : info[v].parent # t
    <2> SUFFICES ASSUME NEW v \in TaskIds, info[v].parent = t PROVE FALSE
      OBVIOUS
    <2>1. status[v] # "none"
      BY DEF SerialInv, RowsHaveColumns, NoColumns
    <2> QED BY <2>1 DEF RetryInv, RetryChain
  <1>5. RetryDueFailed'
    BY <1>2 DEF RetryInv, RetryDueFailed, CanRetry
  <1>6. RetryChain'
    <2> SUFFICES ASSUME NEW p \in TaskIds, NEW w \in TaskIds,
                        status'[w] # "none", info'[w].parent = p
                 PROVE  /\ status'[p] = "failed" /\ reason'[p] = "infrastructure"
                        /\ SameWork(p, w)' /\ info'[p].link \in Issues \cup Chats
                        /\ info'[w].runtime = info'[p].runtime
                        /\ info'[w].attempt = info'[p].attempt + 1
                        /\ p \notin retryDue'
                        /\ \A v \in TaskIds : info'[v].parent = p => v = w
      BY DEF RetryChain
    <2>1. CASE w = u
      <3>1. p = t
        BY <1>3, <2>1
      <3>2. \A v \in TaskIds : info'[v].parent = t => v = u
        BY <1>2, <1>4
      <3>3. info'[t] = info[t] /\ status'[t] = "failed" /\ reason'[t] = "infrastructure"
        BY <1>1, <1>2
      <3>4. info[t].link \in Issues \cup Chats /\ t \notin retryDue'
        BY <1>1 DEF CanRetry
      <3>5. SameWork(p, w)'
        BY <1>3, <2>1, <3>1, <3>3 DEF SameWork
      <3> QED BY <1>3, <2>1, <3>1, <3>2, <3>3, <3>4, <3>5
    <2>2. CASE w # u
      <3>1. status[w] # "none" /\ info[w].parent = p
        BY <1>2, <2>2
      <3>2. p # t /\ p # u
        BY <1>2, <1>4, <3>1 DEF RetryInv, RetryChain
      <3>3. \A v \in TaskIds : info[v].parent = p => v = w
        BY <3>1 DEF RetryInv, RetryChain
      <3>4. \A v \in TaskIds : info'[v].parent = p => v = w
        <4> SUFFICES ASSUME NEW v \in TaskIds, info'[v].parent = p PROVE v = w
          OBVIOUS
        <4>1. v # u
          BY <1>3, <3>2
        <4>2. info[v].parent = p
          BY <1>2, <4>1
        <4> QED BY <3>3, <4>2
      <3> QED BY <1>2, <2>2, <3>1, <3>2, <3>4 DEF RetryInv, RetryChain, SameWork
    <2> QED BY <2>1, <2>2
  <1> QED BY <1>5, <1>6 DEF RetryInv

\* Re-pointing rows to another runtime touches no column an invariant compares
\* except a retry's runtime, which follows its parent's because both are moved.
LEMMA ReassignInductive ==
    ASSUME Inductive, NEW q \in Runtimes, NEW r \in Runtimes, ReassignTasksToRuntime(q, r)
    PROVE  Inductive'
  <1> USE QueueAssumption DEF ReassignTasksToRuntime, claims
  <1>0. TypeOK /\ SerialInv /\ RetryInv
    BY DEF Inductive
  <1>1. /\ UNCHANGED <<status, reason, untried, seen, retryDue, owed>>
        /\ info' = [t \in TaskIds |-> IF info[t].runtime = q
                                   THEN [info[t] EXCEPT !.runtime = r] ELSE info[t]]
    OBVIOUS
  <1>2. ASSUME NEW t \in TaskIds
        PROVE  /\ info'[t].agent = info[t].agent /\ info'[t].link = info[t].link
               /\ info'[t].attempt = info[t].attempt /\ info'[t].parent = info[t].parent
               /\ info'[t].runtime = IF info[t].runtime = q THEN r ELSE info[t].runtime
               /\ (info[t] = NoColumns) => info'[t] = NoColumns
               /\ info[t] \in Columns => info'[t] \in Columns
    <2>1. info[t] \in Columns \cup {NoColumns}
      BY <1>0 DEF TypeOK
    <2>2. CASE info[t] \in Columns
      BY <1>1, <2>2 DEF Columns, NoColumns
    <2>3. CASE info[t] = NoColumns
      BY <1>1, <2>3 DEF Columns, NoColumns
    <2> QED BY <2>1, <2>2, <2>3
  <1>3. TypeOK'
    <2>1. info' \in [TaskIds -> Columns \cup {NoColumns}]
      BY <1>0, <1>1, <1>2 DEF TypeOK
    <2> QED BY <1>0, <1>1, <2>1 DEF TypeOK
  <1>4. SerialInv'
    <2>1. RowsHaveColumns'
      BY <1>0, <1>1, <1>2 DEF SerialInv, RowsHaveColumns
    <2>2. UniquePending'
      BY <1>0, <1>1, <1>2 DEF SerialInv, UniquePending, Pending, SameWork
    <2>3. IssueSerialized'
      BY <1>0, <1>1, <1>2 DEF SerialInv, IssueSerialized, Active, SameWork
    <2>4. SnapshotsSafe'
      <3>1. \A p \in Runtimes : seen[p] \subseteq TaskIds
        BY <1>0 DEF TypeOK
      <3> QED BY <1>0, <1>1, <1>2, <3>1 DEF SerialInv, SnapshotsSafe, Queued, Active, SameWork
    <2> QED BY <2>1, <2>2, <2>3, <2>4 DEF SerialInv
  <1>5. RetryInv'
    <2>1. RetryDueFailed'
      <3>1. retryDue \subseteq TaskIds
        BY <1>0 DEF TypeOK
      <3> QED BY <1>0, <1>1, <1>2, <3>1 DEF RetryInv, RetryDueFailed, CanRetry
    <2>2. RetryChain'
      BY <1>0, <1>1, <1>2 DEF RetryInv, RetryChain, SameWork
    <2> QED BY <2>1, <2>2 DEF RetryInv
  <1> QED BY <1>3, <1>4, <1>5 DEF Inductive

-----------------------------------------------------------------------------
(* The whole invariant, by shape of step.                                  *)

\* An INSERT the unique index lets in (an enqueue of any kind, a rerun).
LEMMA InsertInductive ==
    ASSUME Inductive, NEW t \in TaskIds, NEW c \in Columns, c.parent = None,
           IndexFree(c.agent, c.link), Insert(t, c), UNCHANGED <<claims, retryDue>>,
           owed' \subseteq Issues \X Agents
    PROVE  Inductive'
  <1>1. TypeOK /\ SerialInv /\ RetryInv
    BY DEF Inductive
  <1>2. TypeOK'
    BY <1>1, InsertType DEF TypeOK, claims
  <1>3. SerialInv' /\ RetryInv'
    BY <1>1, InsertSerial, InsertRetry
  <1> QED BY <1>2, <1>3 DEF Inductive

\* A commit that fails live rows, whichever callback or sweeper issues it.
LEMMA FailInductive ==
    ASSUME Inductive, NEW S \in SUBSET TaskIds, NEW why \in Reasons,
           \A t \in S : Live(t), FailRows(S, why)
    PROVE  Inductive'
  <1>1. TypeOK /\ SerialInv /\ RetryInv
    BY DEF Inductive
  <1>2. TypeOK'
    BY <1>1 DEF TypeOK, FailRows, claims, Status, TerminalStatus
  <1>3. SerialInv'
    BY <1>1, EndSerial DEF FailRows, claims, TerminalStatus
  <1>4. RetryInv'
    BY <1>1, FailRetry
  <1> QED BY <1>2, <1>3, <1>4 DEF Inductive

\* A cancellation of live rows, of one task or of a whole issue or runtime.
LEMMA CancelInductive ==
    ASSUME Inductive, NEW S \in SUBSET TaskIds, \A t \in S : Live(t), CancelRows(S),
           owed' \subseteq Issues \X Agents
    PROVE  Inductive'
  <1>1. TypeOK /\ SerialInv /\ RetryInv
    BY DEF Inductive
  <1>2. TypeOK'
    BY <1>1 DEF TypeOK, CancelRows, claims, Status, TerminalStatus
  <1>3. SerialInv'
    BY <1>1, EndSerial DEF CancelRows, claims, TerminalStatus
  <1>4. RetryInv'
    <2>1. /\ \A t \in TaskIds : (status'[t] = "none") = (status[t] = "none")
          /\ \A t \in TaskIds : status[t] = "failed" =>
                 status'[t] = "failed" /\ reason'[t] = reason[t]
      BY <1>1 DEF TypeOK, CancelRows, Live, LiveStatus, ActiveStatus
    <2> QED BY <1>1, <2>1, KeepRetry DEF CancelRows
  <1> QED BY <1>2, <1>3, <1>4 DEF Inductive

\* The daemon's callbacks that move a row it was given.
LEMMA MoveInductive ==
    ASSUME Inductive, NEW t \in TaskIds,
           NEW s \in {"waiting_local_directory", "running", "completed"},
           Active(t), MoveTo(t, s)
    PROVE  Inductive'
  <1>1. TypeOK /\ SerialInv /\ RetryInv
    BY DEF Inductive
  <1>2. TypeOK'
    BY <1>1 DEF TypeOK, MoveTo, claims, Status, LiveStatus, ActiveStatus, TerminalStatus
  <1>3. SerialInv'
    BY <1>1, MoveSerial
  <1>4. RetryInv'
    <2>1. /\ \A u \in TaskIds : (status'[u] = "none") = (status[u] = "none")
          /\ \A u \in TaskIds : status[u] = "failed" =>
                 status'[u] = "failed" /\ reason'[u] = reason[u]
      BY <1>1 DEF TypeOK, MoveTo, Active, ActiveStatus
    <2> QED BY <1>1, <2>1, KeepRetry DEF MoveTo
  <1> QED BY <1>2, <1>3, <1>4 DEF Inductive

\* The steps of a poll other than the lock.
LEMMA PollInductive ==
    ASSUME Inductive, NEW r \in Runtimes,
           \/ ListCandidates(r)
           \/ \E a \in Agents : ClaimScan(r, a)
           \/ ClaimNothing(r)
           \/ ClaimError(r)
    PROVE  Inductive'
  <1>1. TypeOK /\ SerialInv /\ RetryInv
    BY DEF Inductive
  <1>2. UNCHANGED <<status, info, reason, retryDue, owed>>
    BY DEF ListCandidates, ClaimScan, ClaimNothing, ClaimError
  <1>3. RetryInv'
    BY <1>1, <1>2, KeepRetry
  <1>4. CASE ListCandidates(r)
    <2>1. {info[t].agent : t \in {u \in TaskIds : Queued(u) /\ info[u].runtime = r}}
            \subseteq Agents
      BY <1>1 DEF SerialInv, RowsHaveColumns, Queued, Columns
    <2>2. TypeOK'
      BY <1>1, <1>2, <1>4, <2>1 DEF TypeOK, ListCandidates
    <2>3. SerialInv'
      BY <1>1, <1>2, <1>4, ForgetSerial DEF ListCandidates
    <2> QED BY <1>3, <2>2, <2>3 DEF Inductive
  <1>5. ASSUME NEW a \in Agents, ClaimScan(r, a) PROVE Inductive'
    <2>1. Claimable(a) \subseteq TaskIds
      BY DEF Claimable
    <2>2. TypeOK'
      BY <1>1, <1>2, <1>5, <2>1 DEF TypeOK, ClaimScan
    <2>3. SerialInv'
      BY <1>1, <1>5, ClaimScanSerial
    <2> QED BY <1>3, <2>2, <2>3 DEF Inductive
  <1>6. CASE ClaimNothing(r) \/ ClaimError(r)
    <2>1. TypeOK'
      BY <1>1, <1>2, <1>6 DEF TypeOK, ClaimNothing, ClaimError
    <2>2. \A q \in Runtimes : seen'[q] \subseteq seen[q]
      BY <1>1, <1>6 DEF TypeOK, ClaimNothing, ClaimError
    <2>3. SerialInv'
      BY <1>1, <1>2, <2>2, ForgetSerial
    <2> QED BY <1>3, <2>1, <2>3 DEF Inductive
  <1> QED BY <1>4, <1>5, <1>6

\* The second half of ClaimAgentTask, from a snapshot however old.
LEMMA ClaimLockInductive ==
    ASSUME Inductive, NEW r \in Runtimes, NEW t \in TaskIds, ClaimLock(r, t)
    PROVE  Inductive'
  <1>1. TypeOK /\ SerialInv /\ RetryInv
    BY DEF Inductive
  <1>2. TypeOK'
    BY <1>1 DEF TypeOK, ClaimLock, Status, LiveStatus, ActiveStatus
  <1>3. SerialInv'
    BY <1>1, ClaimLockSerial
  <1>4. RetryInv'
    <2>1. /\ \A u \in TaskIds : (status'[u] = "none") = (status[u] = "none")
          /\ \A u \in TaskIds : status[u] = "failed" =>
                 status'[u] = "failed" /\ reason'[u] = reason[u]
      BY <1>1 DEF TypeOK, ClaimLock, Queued
    <2> QED BY <1>1, <2>1, KeepRetry DEF ClaimLock
  <1> QED BY <1>2, <1>3, <1>4 DEF Inductive

\* The columns of a retry are columns: its attempt is within the budget.
LEMMA ChildColumns ==
    ASSUME Inductive, NEW t \in retryDue
    PROVE  /\ t \in TaskIds /\ info[t] \in Columns
           /\ [info[t] EXCEPT !.attempt = @ + 1, !.parent = t] \in Columns
  <1>1. t \in TaskIds /\ info[t] \in Columns /\ info[t].attempt < MaxAttempts
    BY DEF Inductive, TypeOK, SerialInv, RetryInv, RowsHaveColumns, RetryDueFailed, CanRetry
  <1>2. info[t].attempt + 1 \in 1..MaxAttempts
    BY <1>1, QueueAssumption DEF Columns
  <1> QED BY <1>1, <1>2 DEF Columns

\* The late INSERT of a retry, whether the index lets it in or not.
LEMMA RetryInsertInductive ==
    ASSUME Inductive, NEW t \in TaskIds, RetryInsert(t)
    PROVE  Inductive'
  <1>1. TypeOK /\ SerialInv /\ RetryInv
    BY DEF Inductive
  <1>2. t \in retryDue /\ retryDue' = retryDue \ {t} /\ UNCHANGED <<claims, owed>>
    BY DEF RetryInsert
  <1>3. CASE UNCHANGED <<status, info, reason>>
    <2>1. TypeOK'
      BY <1>1, <1>2, <1>3 DEF TypeOK, claims
    <2>2. SerialInv'
      BY <1>1, <1>2, <1>3, ForgetSerial DEF claims
    <2>3. RetryInv'
      BY <1>1, <1>2, <1>3
         DEF RetryInv, RetryDueFailed, RetryChain, CanRetry, SameWork
    <2> QED BY <2>1, <2>2, <2>3 DEF Inductive
  <1>4. CASE /\ IndexFree(info[t].agent, info[t].link)
             /\ \E u \in Fresh :
                    Insert(u, [info[t] EXCEPT !.attempt = @ + 1, !.parent = t])
    <2> DEFINE c == [info[t] EXCEPT !.attempt = @ + 1, !.parent = t]
    <2>1. PICK u \in TaskIds : Insert(u, c)
      BY <1>4 DEF Fresh
    <2>2. c \in Columns /\ info[t] \in Columns
      BY <1>2, ChildColumns
    <2>3. c.agent = info[t].agent /\ c.link = info[t].link
      BY <2>2 DEF Columns
    <2>4. IndexFree(c.agent, c.link)
      BY <1>4, <2>3
    <2> HIDE DEF c
    <2>5. TypeOK'
      BY <1>1, <1>2, <2>1, <2>2, InsertType DEF TypeOK, claims
    <2>6. SerialInv'
      BY <1>1, <1>2, <2>1, <2>2, <2>4, InsertSerial
    <2>7. RetryInv'
      BY <1>1, <1>2, <2>1, ChildRetry DEF c
    <2> QED BY <2>5, <2>6, <2>7 DEF Inductive
  <1> QED BY <1>3, <1>4 DEF RetryInsert

-----------------------------------------------------------------------------
\* The empty table.
LEMMA InitInductive == Init => Inductive
  <1> SUFFICES ASSUME Init PROVE Inductive
    OBVIOUS
  <1> USE QueueAssumption DEF Init
  <1>1. TypeOK
    BY DEF TypeOK, Status
  <1>2. SerialInv
    BY DEF SerialInv, RowsHaveColumns, UniquePending, IssueSerialized, SnapshotsSafe,
           Pending, Active, ActiveStatus
  <1>3. RetryInv
    BY DEF RetryInv, RetryDueFailed, RetryChain
  <1> QED BY <1>1, <1>2, <1>3 DEF Inductive

\* The columns of a first attempt are columns: the budget is at least one.
LEMMA FirstAttempt ==
    ASSUME NEW a \in Agents, NEW l \in Links, NEW r \in Runtimes
    PROVE  [agent |-> a, link |-> l, runtime |-> r, attempt |-> 1, parent |-> None] \in Columns
  BY QueueAssumption DEF Columns

\* The enqueue a rerun or a reassignment still owes.
LEMMA EnqueueOwedInductive ==
    ASSUME Inductive, NEW i \in Issues, NEW a \in Agents, EnqueueOwed(i, a)
    PROVE  Inductive'
  <1>1. TypeOK /\ SerialInv /\ RetryInv
    BY DEF Inductive
  <1>2. UNCHANGED <<claims, retryDue>> /\ owed' \subseteq Issues \X Agents
    BY <1>1 DEF EnqueueOwed, TypeOK
  <1>3. CASE UNCHANGED <<status, info, reason>>
    <2>1. TypeOK'
      BY <1>1, <1>2, <1>3 DEF TypeOK, claims
    <2>2. SerialInv'
      BY <1>1, <1>2, <1>3, ForgetSerial DEF claims
    <2>3. RetryInv'
      BY <1>1, <1>2, <1>3, KeepRetry
    <2> QED BY <2>1, <2>2, <2>3 DEF Inductive
  <1>4. ASSUME IndexFree(a, i), NEW t \in Fresh, NEW r \in Runtimes,
               Insert(t, [agent |-> a, link |-> i, runtime |-> r,
                          attempt |-> 1, parent |-> None])
        PROVE  Inductive'
    <2> DEFINE c == [agent |-> a, link |-> i, runtime |-> r, attempt |-> 1, parent |-> None]
    <2>1. c \in Columns /\ t \in TaskIds
      BY FirstAttempt DEF Links, Fresh
    <2>2. c.agent = a /\ c.link = i /\ c.parent = None
      OBVIOUS
    <2>3. IndexFree(c.agent, c.link) /\ Insert(t, c)
      BY <1>4, <2>2
    <2> HIDE DEF c
    <2> QED BY <1>2, <2>1, <2>2, <2>3, InsertInductive
  <1> QED BY <1>3, <1>4 DEF EnqueueOwed

\* Every kind of enqueue.
LEMMA EnqueueInductive ==
    ASSUME Inductive, NEW t \in TaskIds, NEW a \in Agents, NEW l \in Links,
           NEW r \in Runtimes, Enqueue(t, a, l, r)
    PROVE  Inductive'
  <1> DEFINE c == [agent |-> a, link |-> l, runtime |-> r, attempt |-> 1, parent |-> None]
  <1>1. c \in Columns
    BY FirstAttempt
  <1>2. c.agent = a /\ c.link = l /\ c.parent = None
    OBVIOUS
  <1>3. IndexFree(c.agent, c.link) /\ Insert(t, c) /\ UNCHANGED <<claims, retryDue, owed>>
    BY <1>2 DEF Enqueue
  <1>4. owed' \subseteq Issues \X Agents
    BY <1>3 DEF Inductive, TypeOK
  <1> HIDE DEF c
  <1> QED BY <1>1, <1>2, <1>3, <1>4, InsertInductive

\* Every action keeps the invariant.
LEMMA NextInductive == Inductive /\ [Next]_vars => Inductive'
  <1> SUFFICES ASSUME Inductive, [Next]_vars PROVE Inductive'
    OBVIOUS
  <1>0. owed \subseteq Issues \X Agents
    BY DEF Inductive, TypeOK
  <1>1. ASSUME NEW t \in TaskIds, NEW a \in Agents, NEW l \in Links, NEW r \in Runtimes,
               Enqueue(t, a, l, r)
        PROVE  Inductive'
    BY <1>1, EnqueueInductive
  <1>2. ASSUME NEW t \in TaskIds, NEW r \in Runtimes, ClaimLock(r, t) PROVE Inductive'
    BY <1>2, ClaimLockInductive
  <1>3. ASSUME NEW t \in TaskIds, MarkTaskWaitingLocalDirectory(t) PROVE Inductive'
    BY <1>3, MoveInductive DEF MarkTaskWaitingLocalDirectory, Active, ActiveStatus
  <1>4. ASSUME NEW t \in TaskIds, StartTask(t) PROVE Inductive'
    BY <1>4, MoveInductive DEF StartTask, Active, ActiveStatus
  <1>5. ASSUME NEW t \in TaskIds, CompleteTask(t) PROVE Inductive'
    BY <1>5, MoveInductive DEF CompleteTask, Active, ActiveStatus
  <1>6. ASSUME NEW t \in TaskIds, FailTask(t) PROVE Inductive'
    BY <1>6, FailInductive DEF FailTask, Active, Live, LiveStatus
  <1>7. ASSUME NEW t \in TaskIds, RetryInsert(t) PROVE Inductive'
    BY <1>7, RetryInsertInductive
  <1>8. ASSUME NEW t \in TaskIds, CancelTask(t) PROVE Inductive'
    BY <1>0, <1>8, CancelInductive DEF CancelTask
  <1>9. ASSUME NEW r \in Runtimes,
               ListCandidates(r) \/ (\E a \in Agents : ClaimScan(r, a))
                 \/ ClaimNothing(r) \/ ClaimError(r)
        PROVE  Inductive'
    BY <1>9, PollInductive
  <1>10. ASSUME NEW r \in Runtimes, FailTasksForOfflineRuntimes(r) \/ RecoverOrphanedTasks(r)
         PROVE  Inductive'
    <2>1. RowsOf(r) \in SUBSET TaskIds /\ \A t \in RowsOf(r) : Live(t)
      BY DEF RowsOf, Active, Live, LiveStatus
    <2> QED BY <1>10, <2>1, FailInductive
            DEF FailTasksForOfflineRuntimes, RecoverOrphanedTasks, Reasons
  <1>11. CASE FailStaleTasks
    BY <1>11, FailInductive DEF FailStaleTasks, Reasons, Live, LiveStatus, ActiveStatus
  <1>12. CASE ExpireStaleQueuedTasks
    BY <1>12, FailInductive DEF ExpireStaleQueuedTasks, Reasons, Queued, Live, LiveStatus
  <1>13. ASSUME NEW l \in Issues \cup Chats, CancelTasksForLink(l) PROVE Inductive'
    BY <1>0, <1>13, CancelInductive DEF CancelTasksForLink, LiveRows
  <1>14. ASSUME NEW R \in SUBSET Runtimes, NEW A \in SUBSET Agents,
                CancelTasksByRuntimeOrAgent(R, A)
         PROVE  Inductive'
    BY <1>0, <1>14, CancelInductive DEF CancelTasksByRuntimeOrAgent
  <1>15. ASSUME NEW q \in Runtimes, NEW r \in Runtimes, ReassignTasksToRuntime(q, r)
         PROVE  Inductive'
    BY <1>15, ReassignInductive
  <1>16. ASSUME NEW i \in Issues, CancelTasksByTriggerComment(i) PROVE Inductive'
    BY <1>0, <1>16, CancelInductive DEF CancelTasksByTriggerComment, LiveRows
  <1>17. ASSUME NEW i \in Issues, NEW a \in Agents, RerunIssue(i, a) \/ ReassignIssue(i, a)
         PROVE  Inductive'
    <2>1. owed' \subseteq Issues \X Agents
      BY <1>0, <1>17 DEF RerunIssue, ReassignIssue
    <2>2. \A t \in LiveRows(i) : t \in TaskIds /\ Live(t)
      BY DEF LiveRows
    <2>3. CASE RerunIssue(i, a)
      BY <2>1, <2>2, <2>3, CancelInductive DEF RerunIssue
    <2>4. CASE ReassignIssue(i, a)
      BY <2>1, <2>2, <2>4, CancelInductive DEF ReassignIssue
    <2> QED BY <1>17, <2>3, <2>4
  <1>18. ASSUME NEW i \in Issues, NEW a \in Agents, EnqueueOwed(i, a) PROVE Inductive'
    BY <1>18, EnqueueOwedInductive
  <1>19. CASE UNCHANGED vars
    BY <1>19 DEF vars, Inductive, TypeOK, SerialInv, RetryInv, RowsHaveColumns, UniquePending,
                 IssueSerialized, SnapshotsSafe, RetryDueFailed, RetryChain, CanRetry,
                 Queued, Pending, Active, SameWork
  <1> QED
    BY <1>1, <1>2, <1>3, <1>4, <1>5, <1>6, <1>7, <1>8, <1>9, <1>10, <1>11, <1>12, <1>13,
       <1>14, <1>15, <1>16, <1>17, <1>18, <1>19 DEF Next

\* The inductive invariant holds of the queue, whatever its size: the columns,
\* the unique index, the snapshots of the polls and the retries owed fit
\* together in every reachable state.
THEOREM QueueInvariant == Spec => []Inductive
  BY InitInductive, NextInductive, PTL DEF Spec

\* The columns of the rows stay what the schema and the code make of them.
THEOREM TypeCorrect == Spec => []TypeOK
  <1>1. Inductive => TypeOK
    BY DEF Inductive
  <1> QED BY <1>1, QueueInvariant, PTL

\* Two tasks of one issue and agent are never handed out at once, although
\* ClaimAgentTask tests that in a snapshot older than the row it locks.
THEOREM IssueSerial == Spec => []IssueSerialized
  <1>1. Inductive => IssueSerialized
    BY DEF Inductive, SerialInv
  <1> QED BY <1>1, QueueInvariant, PTL

\* A failed task has one retry at most, and a retry continues its parent.
THEOREM RetryOnce == Spec => []RetryChain
  <1>1. Inductive => RetryChain
    BY DEF Inductive, RetryInv
  <1> QED BY <1>1, QueueInvariant, PTL

-----------------------------------------------------------------------------
(* What a step may do.                                                     *)

FinishedStays == \A t \in TaskIds : status[t] \in TerminalStatus =>
                     /\ status'[t] = status[t] /\ reason'[t] = reason[t]
                     /\ info'[t] = [info[t] EXCEPT !.runtime = info'[t].runtime]

\* What a step does to the rows, whatever its action: six shapes cover Next.
LEMMA StepShapes ==
    ASSUME Inductive, Next
    PROVE  \/ \E t \in TaskIds, c \in Columns : Insert(t, c)
           \/ \E S \in SUBSET TaskIds, s \in TerminalStatus :
                 /\ \A t \in S : Live(t)
                 /\ status' = [t \in TaskIds |-> IF t \in S THEN s ELSE status[t]]
                 /\ \A t \in TaskIds \ S : reason'[t] = reason[t]
                 /\ UNCHANGED info
           \/ \E t \in TaskIds, s \in {"waiting_local_directory", "running", "completed"} :
                 Active(t) /\ MoveTo(t, s)
           \/ \E t \in TaskIds, r \in Runtimes : ClaimLock(r, t)
           \/ UNCHANGED <<status, info, reason>>
           \/ \E q, r \in Runtimes : ReassignTasksToRuntime(q, r)
  <1> DEFINE Ends == \E S \in SUBSET TaskIds, s \in TerminalStatus :
                        /\ \A t \in S : Live(t)
                        /\ status' = [t \in TaskIds |-> IF t \in S THEN s ELSE status[t]]
                        /\ \A t \in TaskIds \ S : reason'[t] = reason[t]
                        /\ UNCHANGED info
  <1> DEFINE Inserts == \E t \in TaskIds, c \in Columns : Insert(t, c)
  <1> DEFINE Moves == \E t \in TaskIds, s \in {"waiting_local_directory", "running", "completed"} :
                          Active(t) /\ MoveTo(t, s)
  <1>1. ASSUME NEW S \in SUBSET TaskIds, NEW why \in Reasons,
               \A t \in S : Live(t), FailRows(S, why)
        PROVE  Ends
    <2>1. \A t \in TaskIds \ S : reason'[t] = reason[t]
      BY <1>1 DEF FailRows
    <2> QED BY <1>1, <2>1 DEF FailRows, TerminalStatus
  <1>2. ASSUME NEW S \in SUBSET TaskIds, \A t \in S : Live(t), CancelRows(S)
        PROVE  Ends
    BY <1>2 DEF CancelRows, TerminalStatus
  <1>3. ASSUME NEW t \in TaskIds, NEW a \in Agents, NEW l \in Links, NEW r \in Runtimes,
               Insert(t, [agent |-> a, link |-> l, runtime |-> r,
                          attempt |-> 1, parent |-> None])
        PROVE  Inserts
    BY <1>3, FirstAttempt
  <1> HIDE DEF Ends, Inserts
  <1>4. ASSUME NEW t \in TaskIds, RetryInsert(t)
        PROVE  Inserts \/ UNCHANGED <<status, info, reason>>
    <2>1. t \in retryDue
      BY <1>4 DEF RetryInsert
    <2> QED BY <1>4, <2>1, ChildColumns DEF RetryInsert, Inserts, Fresh
  <1>5. ASSUME NEW i \in Issues, NEW a \in Agents, EnqueueOwed(i, a)
        PROVE  Inserts \/ UNCHANGED <<status, info, reason>>
    BY <1>3, <1>5 DEF EnqueueOwed, Fresh, Links
  <1>6. ASSUME NEW t \in TaskIds,
               \/ \E a \in Agents, l \in Links, r \in Runtimes : Enqueue(t, a, l, r)
               \/ FailTask(t) \/ CancelTask(t)
               \/ MarkTaskWaitingLocalDirectory(t) \/ StartTask(t) \/ CompleteTask(t)
        PROVE  Inserts \/ Ends \/ Moves
    <2>1. CASE \E a \in Agents, l \in Links, r \in Runtimes : Enqueue(t, a, l, r)
      BY <1>3, <2>1 DEF Enqueue
    <2>2. CASE FailTask(t)
      BY <1>1, <2>2 DEF FailTask, Active, Live, LiveStatus
    <2>3. CASE CancelTask(t)
      BY <1>2, <2>3 DEF CancelTask
    <2>4. CASE MarkTaskWaitingLocalDirectory(t) \/ StartTask(t) \/ CompleteTask(t)
      BY <2>4 DEF MarkTaskWaitingLocalDirectory, StartTask, CompleteTask, Active, ActiveStatus
    <2> QED BY <1>6, <2>1, <2>2, <2>3, <2>4
  <1>7. ASSUME NEW r \in Runtimes,
               FailTasksForOfflineRuntimes(r) \/ RecoverOrphanedTasks(r)
        PROVE  Ends
    <2>1. RowsOf(r) \in SUBSET TaskIds /\ \A t \in RowsOf(r) : Live(t)
      BY DEF RowsOf, Active, Live, LiveStatus
    <2> QED BY <1>1, <1>7, <2>1 DEF FailTasksForOfflineRuntimes, RecoverOrphanedTasks, Reasons
  <1>8. ASSUME FailStaleTasks \/ ExpireStaleQueuedTasks PROVE Ends
    <2>1. ASSUME FailStaleTasks PROVE Ends
      BY <1>1, <2>1 DEF FailStaleTasks, Reasons, Live, LiveStatus, ActiveStatus
    <2>2. ASSUME ExpireStaleQueuedTasks PROVE Ends
      BY <1>1, <2>2 DEF ExpireStaleQueuedTasks, Reasons, Queued, Live, LiveStatus
    <2> QED BY <1>8, <2>1, <2>2
  <1>9. ASSUME NEW l \in Issues \cup Chats, CancelTasksForLink(l) PROVE Ends
    BY <1>2, <1>9 DEF CancelTasksForLink, LiveRows
  <1>10. ASSUME NEW R \in SUBSET Runtimes, NEW A \in SUBSET Agents,
                CancelTasksByRuntimeOrAgent(R, A)
         PROVE  Ends
    BY <1>2, <1>10 DEF CancelTasksByRuntimeOrAgent
  <1>11. ASSUME NEW i \in Issues,
                \/ CancelTasksByTriggerComment(i)
                \/ \E a \in Agents : RerunIssue(i, a) \/ ReassignIssue(i, a)
         PROVE  Ends
    <2>1. \A S \in SUBSET LiveRows(i) : S \in SUBSET TaskIds /\ \A t \in S : Live(t)
      BY DEF LiveRows
    <2>2. CASE CancelTasksByTriggerComment(i)
      BY <1>2, <2>1, <2>2 DEF CancelTasksByTriggerComment
    <2>3. CASE \E a \in Agents : RerunIssue(i, a) \/ ReassignIssue(i, a)
      BY <1>2, <2>1, <2>3 DEF RerunIssue, ReassignIssue
    <2> QED BY <1>11, <2>2, <2>3
  <1>12. ASSUME NEW r \in Runtimes,
                \/ ListCandidates(r) \/ ClaimNothing(r) \/ ClaimError(r)
                \/ \E a \in Agents : ClaimScan(r, a)
         PROVE  UNCHANGED <<status, info, reason>>
    BY <1>12 DEF ListCandidates, ClaimNothing, ClaimError, ClaimScan
  <1> QED
    BY <1>4, <1>5, <1>6, <1>7, <1>8, <1>9, <1>10, <1>11, <1>12 DEF Next, Ends, Inserts

\* No step of the queue finishes a finished row again.
LEMMA StepFinished == Inductive /\ [Next]_vars => FinishedStays
  <1> SUFFICES ASSUME Inductive, [Next]_vars, NEW t \in TaskIds, status[t] \in TerminalStatus
               PROVE  /\ status'[t] = status[t] /\ reason'[t] = reason[t]
                      /\ info'[t] = [info[t] EXCEPT !.runtime = info'[t].runtime]
    BY DEF FinishedStays
  <1> USE DEF TerminalStatus
  <1>1. /\ info[t] \in Columns
        /\ status \in [TaskIds -> Status] /\ info \in [TaskIds -> Columns \cup {NoColumns}]
        /\ reason \in [TaskIds -> Reasons \cup {None}]
    BY DEF Inductive, TypeOK, SerialInv, RowsHaveColumns
  <1>2. info[t] = [info[t] EXCEPT !.runtime = info[t].runtime]
    BY <1>1 DEF Columns
  <1>3. ASSUME status'[t] = status[t], reason'[t] = reason[t], info'[t] = info[t]
        PROVE  /\ status'[t] = status[t] /\ reason'[t] = reason[t]
               /\ info'[t] = [info[t] EXCEPT !.runtime = info'[t].runtime]
    BY <1>2, <1>3
  <1>4. ASSUME NEW u \in TaskIds, NEW c \in Columns, Insert(u, c)
        PROVE  status'[t] = status[t] /\ reason'[t] = reason[t] /\ info'[t] = info[t]
    BY <1>1, <1>4 DEF Insert
  <1>5. ASSUME NEW S \in SUBSET TaskIds, NEW s \in TerminalStatus, \A u \in S : Live(u),
               status' = [u \in TaskIds |-> IF u \in S THEN s ELSE status[u]],
               \A u \in TaskIds \ S : reason'[u] = reason[u], UNCHANGED info
        PROVE  status'[t] = status[t] /\ reason'[t] = reason[t] /\ info'[t] = info[t]
    <2>1. t \notin S
      BY <1>5 DEF Live, LiveStatus, ActiveStatus
    <2> QED BY <1>5, <2>1
  <1>6. ASSUME NEW u \in TaskIds,
               \/ \E s \in {"waiting_local_directory", "running", "completed"} :
                      Active(u) /\ MoveTo(u, s)
               \/ \E r \in Runtimes : ClaimLock(r, u)
        PROVE  status'[t] = status[t] /\ reason'[t] = reason[t] /\ info'[t] = info[t]
    BY <1>1, <1>6 DEF MoveTo, ClaimLock, Active, ActiveStatus, Queued
  <1>7. ASSUME NEW q \in Runtimes, NEW r \in Runtimes, ReassignTasksToRuntime(q, r)
        PROVE  /\ status'[t] = status[t] /\ reason'[t] = reason[t]
               /\ info'[t] = [info[t] EXCEPT !.runtime = info'[t].runtime]
    <2>1. info'[t] = [info[t] EXCEPT !.runtime = r] \/ info'[t] = info[t]
      BY <1>7 DEF ReassignTasksToRuntime
    <2>2. info'[t] = [info[t] EXCEPT !.runtime = info'[t].runtime]
      BY <1>1, <1>2, <2>1 DEF Columns
    <2> QED BY <1>7, <2>2 DEF ReassignTasksToRuntime
  <1>8. CASE UNCHANGED vars
    BY <1>3, <1>8 DEF vars
  <1>9. CASE Next
    BY <1>3, <1>4, <1>5, <1>6, <1>7, <1>9, StepShapes
  <1> QED BY <1>8, <1>9

\* A finished task stays as it finished, whoever acts on it late.
THEOREM FinishedTasksStay == Spec => FinishedIsFinal
  <1>1. Inductive /\ [Next]_vars => [FinishedStays]_vars
    BY StepFinished
  <1>2. FinishedStays <=> \A t \in TaskIds : status[t] \in TerminalStatus =>
           /\ status'[t] = status[t] /\ reason'[t] = reason[t]
           /\ info'[t] = [info[t] EXCEPT !.runtime = info'[t].runtime]
    BY DEF FinishedStays
  <1> QED BY <1>1, <1>2, QueueInvariant, PTL DEF Spec, FinishedIsFinal

-----------------------------------------------------------------------------
(* What is owed after a commit is done or left in a pending row.           *)

RetryLeaves == \A t \in retryDue \ retryDue' :
                   info[t].link \in Issues =>
                       \E u \in TaskIds : Pending(u)' /\ (SameWork(t, u))'

RerunLeaves == \A e \in owed \ owed' :
                   \E u \in TaskIds :
                       Pending(u)' /\ info'[u].link = e[1] /\ info'[u].agent = e[2]

\* Only RetryInsert takes a row out of retryDue, only EnqueueOwed out of owed.
LEMMA DueStays ==
    ASSUME [Next]_vars,
           \A t \in TaskIds : ~RetryInsert(t),
           \A i \in Issues, a \in Agents : ~EnqueueOwed(i, a)
    PROVE  retryDue \subseteq retryDue' /\ owed \subseteq owed'
  BY DEF Next, vars, Enqueue, ListCandidates, ClaimScan, ClaimLock, ClaimNothing, ClaimError,
         MarkTaskWaitingLocalDirectory, StartTask, CompleteTask, MoveTo, FailTask, FailRows,
         FailStaleTasks, ExpireStaleQueuedTasks, FailTasksForOfflineRuntimes,
         RecoverOrphanedTasks, CancelRows, CancelTask, CancelTasksForLink,
         CancelTasksByTriggerComment, CancelTasksByRuntimeOrAgent, ReassignTasksToRuntime,
         RerunIssue, ReassignIssue

\* The INSERT of a retry puts a row there, or the index shows the one that is.
LEMMA RetryInsertLeaves ==
    ASSUME Inductive, NEW t \in TaskIds, RetryInsert(t)
    PROVE  RetryLeaves /\ RerunLeaves
  <1>1. t \in retryDue /\ retryDue' = retryDue \ {t} /\ UNCHANGED owed
    BY DEF RetryInsert
  <1>2. ASSUME info[t].link \in Issues
        PROVE  \E u \in TaskIds : Pending(u)' /\ (SameWork(t, u))'
    <2>1. CASE ~IndexFree(info[t].agent, info[t].link) /\ UNCHANGED <<status, info, reason>>
      BY <2>1 DEF IndexFree, Pending, SameWork
    <2>2. ASSUME NEW u \in Fresh,
                 Insert(u, [info[t] EXCEPT !.attempt = @ + 1, !.parent = t])
          PROVE  Pending(u)' /\ (SameWork(t, u))'
      <3>1. info[t] \in Columns
        BY <1>1, ChildColumns
      <3>2. status \in [TaskIds -> Status] /\ info \in [TaskIds -> Columns \cup {NoColumns}]
        BY DEF Inductive, TypeOK
      <3>3. u # t
        BY <1>1, <2>2 DEF Inductive, RetryInv, RetryDueFailed, Fresh
      <3> QED BY <2>2, <3>1, <3>2, <3>3 DEF Insert, Fresh, Pending, SameWork, Columns
    <2> QED BY <2>1, <2>2 DEF RetryInsert, Fresh
  <1> QED BY <1>1, <1>2 DEF RetryLeaves, RerunLeaves

\* The same for the enqueue a rerun owes.
LEMMA EnqueueOwedLeaves ==
    ASSUME Inductive, NEW i \in Issues, NEW a \in Agents, EnqueueOwed(i, a)
    PROVE  RetryLeaves /\ RerunLeaves
  <1>1. owed' = owed \ {<<i, a>>} /\ UNCHANGED retryDue
    BY DEF EnqueueOwed
  <1>2. \E u \in TaskIds : Pending(u)' /\ info'[u].link = i /\ info'[u].agent = a
    <2>1. CASE ~IndexFree(a, i) /\ UNCHANGED <<status, info, reason>>
      BY <2>1 DEF IndexFree, Pending
    <2>2. ASSUME NEW u \in Fresh, NEW r \in Runtimes,
                 Insert(u, [agent |-> a, link |-> i, runtime |-> r,
                            attempt |-> 1, parent |-> None])
          PROVE  Pending(u)' /\ info'[u].link = i /\ info'[u].agent = a
      <3>1. status \in [TaskIds -> Status] /\ info \in [TaskIds -> Columns \cup {NoColumns}]
        BY DEF Inductive, TypeOK
      <3> QED BY <2>2, <3>1 DEF Insert, Fresh, Pending
    <2> QED BY <2>1, <2>2 DEF EnqueueOwed, Fresh
  <1> QED BY <1>1, <1>2 DEF RetryLeaves, RerunLeaves

\* So every step that settles a retry or a rerun leaves a row to do the work.
LEMMA StepLeaves == Inductive /\ [Next]_vars => RetryLeaves /\ RerunLeaves
  <1> SUFFICES ASSUME Inductive, [Next]_vars PROVE RetryLeaves /\ RerunLeaves
    OBVIOUS
  <1>1. CASE \E t \in TaskIds : RetryInsert(t)
    BY <1>1, RetryInsertLeaves
  <1>2. CASE \E i \in Issues, a \in Agents : EnqueueOwed(i, a)
    BY <1>2, EnqueueOwedLeaves
  <1>3. CASE ~(\E t \in TaskIds : RetryInsert(t)) /\ ~(\E i \in Issues, a \in Agents : EnqueueOwed(i, a))
    BY <1>3, DueStays DEF RetryLeaves, RerunLeaves
  <1> QED BY <1>1, <1>2, <1>3

\* The retry of an issue task that is refused by the index is refused because
\* its work is already queued or dispatched.
THEOREM RetryHandsWorkOver == Spec => RetryHandsOver
  <1>1. Inductive /\ [Next]_vars => [RetryLeaves]_vars
    BY StepLeaves
  <1>2. RetryLeaves <=> \A t \in retryDue \ retryDue' :
           info[t].link \in Issues => \E u \in TaskIds : Pending(u)' /\ (SameWork(t, u))'
    BY DEF RetryLeaves
  <1> QED BY <1>1, <1>2, QueueInvariant, PTL DEF Spec, RetryHandsOver

\* A rerun or a reassignment leaves a pending row of its agent on the issue.
THEOREM RerunLeavesWork == Spec => RerunLeavesPending
  <1>1. Inductive /\ [Next]_vars => [RerunLeaves]_vars
    BY StepLeaves
  <1>2. RerunLeaves <=> \A e \in owed \ owed' :
           \E u \in TaskIds : Pending(u)' /\ info'[u].link = e[1] /\ info'[u].agent = e[2]
    BY DEF RerunLeaves
  <1> QED BY <1>1, <1>2, QueueInvariant, PTL DEF Spec, RerunLeavesPending

-----------------------------------------------------------------------------
(* The queue implements SerialWork.                                        *)

\* The mapped state, row by row.
LEMMA MappedInit == Init => Work!Init
  BY QueueAssumption DEF Init, Work!Init, Phase, Key, NoColumns, Links

\* An INSERT for an issue is a submission; any other leaves the issue rows be.
LEMMA MappedInsert ==
    ASSUME Inductive, NEW t \in TaskIds, NEW c \in Columns, Insert(t, c)
    PROVE  [Work!Next]_(Work!vars)
  <1>1. status \in [TaskIds -> Status] /\ info \in [TaskIds -> Columns \cup {NoColumns}]
    BY DEF Inductive, TypeOK
  <1>2. /\ status[t] = "none" /\ status'[t] = "queued" /\ info'[t] = c
        /\ info[t] = NoColumns
        /\ \A u \in TaskIds \ {t} : status'[u] = status[u] /\ info'[u] = info[u]
    BY <1>1 DEF Insert, Inductive, SerialInv, RowsHaveColumns
  <1>3. \A u \in TaskIds \ {t} : Phase(u)' = Phase(u) /\ Key(u)' = Key(u)
    BY <1>2 DEF Phase, Key, Queued, Active
  <1>4. Phase(t) = "absent" /\ Key(t) = None
    BY <1>2, QueueAssumption DEF Phase, Key, NoColumns, Links
  <1>5. CASE c.link \in Issues
    <2>1. /\ Phase(t)' = "waiting" /\ Key(t)' = <<c.link, c.agent>>
          /\ <<c.link, c.agent>> \in Issues \X Agents
      BY <1>2, <1>5 DEF Phase, Key, Queued, Columns
    <2>2. Work!Submit(t, <<c.link, c.agent>>)
      BY <1>3, <1>4, <2>1 DEF Work!Submit
    <2> QED BY <2>1, <2>2 DEF Work!Next
  <1>6. CASE c.link \notin Issues
    <2>1. Phase(t)' = "absent" /\ Key(t)' = None
      BY <1>2, <1>6 DEF Phase, Key
    <2> QED BY <1>3, <1>4, <2>1 DEF Work!vars
  <1> QED BY <1>5, <1>6

\* Rows that finish: the issue rows among them end, the others are not seen.
LEMMA MappedEnd ==
    ASSUME Inductive, NEW S \in SUBSET TaskIds, NEW s \in TerminalStatus,
           \A t \in S : Live(t),
           status' = [t \in TaskIds |-> IF t \in S THEN s ELSE status[t]],
           UNCHANGED info
    PROVE  [Work!Next]_(Work!vars)
  <1> DEFINE E == {t \in S : info[t].link \in Issues}
  <1>1. \A t \in TaskIds : Key(t)' = Key(t)
    BY DEF Key
  <1>2. \A t \in TaskIds \ E : Phase(t)' = Phase(t)
    BY DEF Phase, Queued, Active
  <1>3. \A t \in E : Phase(t)' = "done" /\ Phase(t) \in {"waiting", "active"}
    BY DEF Phase, Queued, Active, Live, LiveStatus, ActiveStatus, TerminalStatus
  <1>4. Work!End(E)
    BY <1>1, <1>2, <1>3 DEF Work!End
  <1> QED BY <1>4 DEF Work!Next

\* A claim is a grant: the snapshot was right about the issue after all.
LEMMA MappedClaim ==
    ASSUME Inductive, NEW r \in Runtimes, NEW t \in TaskIds, ClaimLock(r, t)
    PROVE  [Work!Next]_(Work!vars)
  <1>1. status \in [TaskIds -> Status] /\ seen \in [Runtimes -> SUBSET TaskIds]
    BY DEF Inductive, TypeOK
  <1>2. /\ t \in seen[r] /\ status[t] = "queued" /\ status'[t] = "dispatched"
        /\ \A u \in TaskIds \ {t} : status'[u] = status[u]
        /\ UNCHANGED info
    BY <1>1 DEF ClaimLock, Queued
  <1>3. \A u \in TaskIds \ {t} : Phase(u)' = Phase(u)
    BY <1>2 DEF Phase, Queued, Active
  <1>4. \A u \in TaskIds : Key(u)' = Key(u)
    BY <1>2 DEF Key
  <1>5. CASE info[t].link \in Issues
    <2>1. Phase(t) = "waiting" /\ Phase(t)' = "active"
      BY <1>2, <1>5 DEF Phase, Queued, Active, ActiveStatus
    <2>2. \A u \in TaskIds : Phase(u) = "active" => Active(u) /\ info[u].link \in Issues
      BY DEF Phase
    <2>3. \A u \in TaskIds : Active(u) => ~SameWork(t, u)
      BY <1>2, <1>5 DEF Inductive, SerialInv, SnapshotsSafe, Queued
    <2>4. \A u \in TaskIds : Phase(u) = "active" => Key(u) # Key(t)
      BY <1>5, <2>2, <2>3 DEF Key, SameWork
    <2>5. Work!Grant(t)
      BY <1>3, <1>4, <2>1, <2>4 DEF Work!Grant
    <2> QED BY <2>5 DEF Work!Next
  <1>6. CASE info[t].link \notin Issues
    <2>1. Phase(t)' = Phase(t)
      BY <1>2, <1>6 DEF Phase
    <2> QED BY <1>3, <1>4, <2>1 DEF Work!vars
  <1> QED BY <1>5, <1>6

\* A row that stays active is active still: a stutter of the abstract queue.
LEMMA MappedMove ==
    ASSUME Inductive, NEW t \in TaskIds,
           NEW s \in {"waiting_local_directory", "running", "completed"},
           Active(t), MoveTo(t, s)
    PROVE  [Work!Next]_(Work!vars)
  <1>1. status \in [TaskIds -> Status]
    BY DEF Inductive, TypeOK
  <1>2. CASE s = "completed"
    <2>1. status' = [u \in TaskIds |-> IF u \in {t} THEN "completed" ELSE status[u]]
      BY <1>1, <1>2 DEF MoveTo
    <2> QED BY <2>1, MappedEnd DEF MoveTo, Live, LiveStatus, Active, TerminalStatus
  <1>3. CASE s # "completed"
    <2>1. \A u \in TaskIds : Phase(u)' = Phase(u) /\ Key(u)' = Key(u)
      BY <1>1, <1>3 DEF MoveTo, Phase, Key, Queued, Active, ActiveStatus
    <2> QED BY <2>1 DEF Work!vars
  <1> QED BY <1>2, <1>3

\* What a poll or a due retry forgets is not seen by the abstract queue.
LEMMA MappedStutter ==
    ASSUME UNCHANGED status,
           \A t \in TaskIds : info'[t].link = info[t].link /\ info'[t].agent = info[t].agent
    PROVE  [Work!Next]_(Work!vars)
  <1>1. \A t \in TaskIds : Phase(t)' = Phase(t) /\ Key(t)' = Key(t)
    BY DEF Phase, Key, Queued, Active
  <1> QED BY <1>1 DEF Work!vars

\* Every action implements an abstract step or a stutter.
LEMMA MappedNext == Inductive /\ [Next]_vars => [Work!Next]_(Work!vars)
  <1> SUFFICES ASSUME Inductive, [Next]_vars PROVE [Work!Next]_(Work!vars)
    OBVIOUS
  <1>1. ASSUME NEW q \in Runtimes, NEW r \in Runtimes, ReassignTasksToRuntime(q, r)
        PROVE  [Work!Next]_(Work!vars)
    <2>1. info \in [TaskIds -> Columns \cup {NoColumns}]
      BY DEF Inductive, TypeOK
    <2>2. \A t \in TaskIds : info'[t].link = info[t].link /\ info'[t].agent = info[t].agent
      BY <1>1, <2>1 DEF ReassignTasksToRuntime, Columns, NoColumns
    <2> QED BY <1>1, <2>2, MappedStutter DEF ReassignTasksToRuntime
  <1>2. CASE UNCHANGED vars
    BY <1>2, MappedStutter DEF vars
  <1>3. CASE UNCHANGED <<status, info, reason>>
    BY <1>3, MappedStutter
  <1>4. CASE Next
    BY <1>1, <1>3, <1>4, StepShapes, MappedInsert, MappedEnd, MappedClaim, MappedMove
  <1> QED BY <1>2, <1>4

\* The queue implements its abstract specification on the tasks of issues.
THEOREM QueueImplementsSerialWork == Spec => ImplementsSerialWork
  BY MappedInit, MappedNext, QueueInvariant, PTL DEF Spec, ImplementsSerialWork, Work!Spec

=============================================================================
