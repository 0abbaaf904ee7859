--------------------------- MODULE TaskServiceProofs --------------------------
(***************************************************************************)
(* Two parts of the task service beside the queue itself.                  *)
(*                                                                         *)
(* A failed row is handled by one request or sweep and retried by it once, *)
(* for any number of tasks, agents, handlers and attempts, with the        *)
(* daemon's own reports among the failures.                                *)
(*                                                                         *)
(* The verdict of the empty-claim cache hides no task, for any number of   *)
(* rows and polls and versions that grow without bound.                    *)
(***************************************************************************)
EXTENDS FailureSweep, EmptyClaimCache, TLAPS

-----------------------------------------------------------------------------
(* HandleFailedTasks.                                                      *)

(* Types of the rows, which HandledOnce is about, and of the rest.         *)
RowsTyped ==
  /\ task \in [Tasks -> {"none", "pending", "running", "failed", "ended"}]
  /\ agent \in [Tasks -> Agents \cup {None}]
  /\ batch \in [Handlers -> SUBSET Tasks]

RestTyped ==
  /\ issue \in {"todo", "in_progress", "done"}
  /\ pc \in [Handlers -> {"idle", "next", "issue", "active", "reset", "tail"}]
  /\ retryable \in [Handlers -> BOOLEAN]
  /\ retried \in [Handlers -> BOOLEAN]
  /\ processed \in [Handlers -> BOOLEAN]

LEMMA TypeSplit == TypeOK <=> RowsTyped /\ RestTyped
  BY DEF TypeOK, RowsTyped, RestTyped

LEMMA TypeSplitNext == TypeOK' <=> RowsTyped' /\ RestTyped'
  BY DEF TypeOK, RowsTyped, RestTyped

-----------------------------------------------------------------------------
(* Four things a step may do to rows and batches.                          *)
Same == task' = task /\ batch' = batch /\ agent' = agent

Move(t, status) ==
  /\ task[t] # "none" /\ task[t] # "failed" /\ status \in {"running", "ended"}
  /\ task' = [task EXCEPT ![t] = status]
  /\ batch' = batch /\ agent' = agent

Fails(h, S) ==
  /\ \A t \in S : Live(t)
  /\ task' = [t \in Tasks |-> IF t \in S THEN "failed" ELSE task[t]]
  /\ batch' = [batch EXCEPT ![h] = S]
  /\ agent' = agent

(* The row t is dealt with, and h holds no more than it held.              *)
Handles(h, t) ==
  /\ t \in batch[h]
  /\ \E inserted \in BOOLEAN : Retry(h, t, inserted)
  /\ \E B \in SUBSET batch[h] : t \notin B /\ batch' = [batch EXCEPT ![h] = B]

LEMMA SameKeeps ==
  ASSUME RowsTyped, HandledOnce, Same
  PROVE  RowsTyped' /\ HandledOnce'
  BY DEF RowsTyped, HandledOnce, Same

LEMMA MoveKeeps ==
  ASSUME RowsTyped, HandledOnce, NEW t \in Tasks,
         NEW status, Move(t, status)
  PROVE  RowsTyped' /\ HandledOnce'
  <1>1. RowsTyped'
    BY DEF RowsTyped, Move
  <1>2. \A u \in Tasks : /\ task'[u] = "failed" <=> task[u] = "failed"
                         /\ task'[u] = "none" <=> task[u] = "none"
    BY DEF RowsTyped, Move
  <1>3. batch' = batch
    BY DEF Move
  <1>4. \A h \in Handlers : batch[h] \subseteq Tasks
    BY DEF RowsTyped
  <1> QED BY <1>1, <1>2, <1>3, <1>4 DEF HandledOnce

LEMMA EnqueueKeeps ==
  ASSUME RowsTyped, HandledOnce, NEW w \in Works, NEW a \in Agents, Enqueue(w, a)
  PROVE  RowsTyped' /\ HandledOnce'
  <1> DEFINE n == <<w, 1>>
  <1>0. n \in Tasks /\ task[n] = "none" /\ batch' = batch /\ task' = [task EXCEPT ![n] = "pending"]
        /\ agent' = [agent EXCEPT ![n] = a]
    BY SweepAssumption DEF Enqueue, Insert, Tasks, locals
  <1>1. RowsTyped'
    BY <1>0 DEF RowsTyped
  <1>2. \A u \in Tasks : /\ task'[u] = "failed" <=> task[u] = "failed"
                         /\ u # n => task'[u] = task[u]
    BY <1>0 DEF RowsTyped
  <1>3. \A t \in Tasks : ~IsRetryOf(n, t)
    BY SweepAssumption DEF IsRetryOf, Tasks
  <1>4. \A h \in Handlers : batch[h] \subseteq Tasks
    BY DEF RowsTyped
  <1> QED BY <1>0, <1>1, <1>2, <1>3, <1>4 DEF HandledOnce

LEMMA FailsKeeps ==
  ASSUME RowsTyped, HandledOnce, NEW h \in Handlers, NEW S \in SUBSET Tasks,
         Fails(h, S)
  PROVE  RowsTyped' /\ HandledOnce'
  <1>1. RowsTyped'
    BY DEF RowsTyped, Fails
  <1>2. \A k \in Handlers : batch'[k] = IF k = h THEN S ELSE batch[k]
    BY DEF RowsTyped, Fails
  <1>3. \A t \in Tasks : task'[t] = IF t \in S THEN "failed" ELSE task[t]
    BY DEF Fails
  <1>4. \A t \in S : task[t] # "failed" /\ task[t] # "none"
    BY DEF Fails, Live
  <1>5. \A k \in Handlers : batch[k] \subseteq Tasks /\ batch[k] \cap S = {}
    BY <1>4 DEF RowsTyped, HandledOnce
  <1>6. \A k \in Handlers : \A t \in batch'[k] : task'[t] = "failed"
    BY <1>2, <1>3, <1>5 DEF HandledOnce
  <1>7. \A k, l \in Handlers : k # l => batch'[k] \cap batch'[l] = {}
    BY <1>2, <1>5 DEF HandledOnce
  <1>8. ASSUME NEW t \in Tasks, NEW u \in Tasks, IsRetryOf(u, t),
               task'[t] # "failed" \/ \E k \in Handlers : t \in batch'[k]
        PROVE  task'[u] = "none"
    <2>1. task[t] # "failed" \/ \E k \in Handlers : t \in batch[k]
      BY <1>2, <1>3, <1>4, <1>8
    <2>2. task[u] = "none"
      BY <1>8, <2>1 DEF HandledOnce
    <2> QED BY <1>3, <1>4, <2>2
  <1> QED BY <1>1, <1>6, <1>7, <1>8 DEF HandledOnce

LEMMA HandlesKeeps ==
  ASSUME RowsTyped, HandledOnce, NEW h \in Handlers, NEW t \in Tasks, Handles(h, t)
  PROVE  RowsTyped' /\ HandledOnce'
  <1> DEFINE n == <<t[1], t[2] + 1>>
  <1>1. PICK B \in SUBSET batch[h] : t \notin B /\ batch' = [batch EXCEPT ![h] = B]
    BY DEF Handles
  <1>2. /\ \A k \in Handlers : batch[k] \subseteq Tasks /\ batch'[k] \subseteq batch[k]
        /\ \A k \in Handlers : t \notin batch'[k]
        /\ batch' \in [Handlers -> SUBSET Tasks]
    BY <1>1 DEF RowsTyped, HandledOnce, Handles
  <1>3. \A k, l \in Handlers : k # l => batch'[k] \cap batch'[l] = {}
    BY <1>2 DEF HandledOnce
  <1>4. task[t] = "failed"
    BY DEF Handles, HandledOnce
  <1>5. CASE UNCHANGED rows
    BY <1>2, <1>3, <1>5 DEF RowsTyped, HandledOnce, rows
  <1>6. CASE Insert(n, agent[t]) /\ t[2] < MaxAttempts
    <2>1. n \in Tasks /\ IsRetryOf(n, t) /\ n # t
      BY <1>6, SweepAssumption DEF Tasks, IsRetryOf
    <2>2. /\ task[n] = "none"
          /\ task' = [task EXCEPT ![n] = "pending"]
          /\ agent' = [agent EXCEPT ![n] = agent[t]]
      BY <1>6 DEF Insert
    <2>3. RowsTyped'
      BY <1>2, <2>1, <2>2 DEF RowsTyped
    <2>4. \A u \in Tasks : task'[u] = IF u = n THEN "pending" ELSE task[u]
      BY <2>2 DEF RowsTyped
    <2>5. \A k \in Handlers : \A u \in batch'[k] : task'[u] = "failed"
      BY <1>2, <2>2, <2>4 DEF HandledOnce
    <2>6. \A p \in Tasks : IsRetryOf(n, p) => p = t
      BY <2>1, SweepAssumption DEF Tasks, IsRetryOf
    <2>7. ASSUME NEW p \in Tasks, NEW u \in Tasks, IsRetryOf(u, p),
                 task'[p] # "failed" \/ \E k \in Handlers : p \in batch'[k]
          PROVE  task'[u] = "none"
      <3>1. p # t
        BY <1>2, <1>4, <2>1, <2>4, <2>7
      <3>2. u # n
        BY <2>6, <2>7, <3>1
      <3>3. task[p] # "failed" \/ \E k \in Handlers : p \in batch[k]
        BY <1>2, <2>2, <2>4, <2>7
      <3>4. task[u] = "none"
        BY <2>7, <3>3 DEF HandledOnce
      <3> QED BY <2>4, <3>2, <3>4
    <2> QED BY <1>3, <2>3, <2>5, <2>7 DEF HandledOnce
  <1> QED BY <1>5, <1>6 DEF Handles, Retry, CanRetry

-----------------------------------------------------------------------------
(* Every step is one of the four for the rows, and types the rest.         *)
RowsKept == RowsTyped' /\ HandledOnce'

LEMMA RestKept ==
  ASSUME TypeOK, [Next]_vars
  PROVE  RestTyped'
  <1>0. RestTyped /\ RowsTyped
    BY TypeSplit
  <1>1. ASSUME NEW h \in Handlers, NEW S, NEW infrastructure \in BOOLEAN,
               NEW entry \in {"next", "tail"}, FailRows(h, S, infrastructure, entry)
        PROVE  RestTyped'
    BY <1>0, <1>1 DEF FailRows, RestTyped
  <1>2. ASSUME NEW w \in Works, NEW a \in Agents, Enqueue(w, a) PROVE RestTyped'
    BY <1>0, <1>2 DEF Enqueue, RestTyped, locals
  <1>3. ASSUME NEW t \in Tasks, Start(t) \/ End(t) PROVE RestTyped'
    BY <1>0, <1>3 DEF Start, End, RestTyped, locals
  <1>4. CASE AgentTakesUp
    BY <1>0, <1>4 DEF AgentTakesUp, RestTyped, locals
  <1>5. ASSUME NEW s \in {"todo", "done"}, SetStatus(s) PROVE RestTyped'
    BY <1>0, <1>5 DEF SetStatus, RestTyped, locals
  <1>6. ASSUME NEW h \in Handlers, NEW S, Sweep(h, S) PROVE RestTyped'
    BY <1>1, <1>6 DEF Sweep
  <1>7. ASSUME NEW h \in Handlers, NEW t \in Tasks, NextRow(h, t) PROVE RestTyped'
    BY <1>0, <1>7 DEF NextRow, RestTyped
  <1>8. ASSUME NEW h \in Handlers, ReadIssue(h) PROVE RestTyped'
    BY <1>0, <1>8 DEF ReadIssue, RestTyped
  <1>9. ASSUME NEW h \in Handlers, CheckActive(h) \/ ResetIssue(h) \/ Return(h) PROVE RestTyped'
    BY <1>0, <1>9 DEF CheckActive, ResetIssue, Return, RestTyped, locals
  <1>10. ASSUME NEW h \in Handlers, NEW t \in Tasks, FailTask(h, t) PROVE RestTyped'
    BY <1>1, <1>10 DEF FailTask
  <1>11. ASSUME NEW h \in Handlers, FailTaskTail(h) PROVE RestTyped'
    BY <1>0, <1>11 DEF FailTaskTail, RestTyped
  <1>12. CASE UNCHANGED vars
    BY <1>0, <1>12 DEF vars, RestTyped
  <1> QED BY <1>2, <1>3, <1>4, <1>5, <1>6, <1>7, <1>8, <1>9, <1>10, <1>11, <1>12
          DEF Next, SweepNext

LEMMA RowsAreKept ==
  ASSUME RowsTyped, HandledOnce, [Next]_vars
  PROVE  RowsKept
  <1>1. ASSUME Same PROVE RowsKept
    BY <1>1, SameKeeps DEF RowsKept
  <1>2. ASSUME NEW h \in Handlers, NEW S \in SUBSET {t \in Tasks : Live(t)},
               NEW infrastructure, NEW entry, FailRows(h, S, infrastructure, entry)
        PROVE  RowsKept
    <2>1. Fails(h, S) /\ S \in SUBSET Tasks
      BY <1>2 DEF FailRows, Fails
    <2> QED BY <2>1, FailsKeeps DEF RowsKept
  <1>3. ASSUME NEW w \in Works, NEW a \in Agents, Enqueue(w, a) PROVE RowsKept
    BY <1>3, EnqueueKeeps DEF RowsKept
  <1>4. ASSUME NEW t \in Tasks, Start(t) \/ End(t) PROVE RowsKept
    <2>1. Move(t, "running") \/ Move(t, "ended")
      BY <1>4 DEF Start, End, Move, Pending, Live, locals
    <2> QED BY <2>1, MoveKeeps DEF RowsKept
  <1>5. CASE AgentTakesUp \/ \E s \in {"todo", "done"} : SetStatus(s)
    BY <1>1, <1>5 DEF AgentTakesUp, SetStatus, Same, rows, locals
  <1>6. ASSUME NEW h \in Handlers, NEW S \in SUBSET {t \in Tasks : Live(t)}, Sweep(h, S)
        PROVE  RowsKept
    BY <1>2, <1>6 DEF Sweep
  <1>7. ASSUME NEW h \in Handlers, NEW t \in Tasks, NextRow(h, t) PROVE RowsKept
    <2>1. Handles(h, t)
      BY <1>7 DEF NextRow, Handles
    <2> QED BY <2>1, HandlesKeeps DEF RowsKept
  <1>8. ASSUME NEW h \in Handlers, ReadIssue(h) \/ CheckActive(h) \/ ResetIssue(h) \/ Return(h)
        PROVE  RowsKept
    BY <1>1, <1>8 DEF ReadIssue, CheckActive, ResetIssue, Return, Same, rows, locals
  <1>9. ASSUME NEW h \in Handlers, NEW t \in Tasks, Live(t), FailTask(h, t) PROVE RowsKept
    <2>1. {t} \in SUBSET {u \in Tasks : Live(u)}
      BY <1>9
    <2> QED BY <1>2, <1>9, <2>1 DEF FailTask
  <1>10. ASSUME NEW h \in Handlers, FailTaskTail(h) PROVE RowsKept
    <2>1. PICK t \in batch[h] : \E inserted \in BOOLEAN : Retry(h, t, inserted)
      BY <1>10 DEF FailTaskTail
    <2>2. t \in Tasks
      BY <2>1 DEF RowsTyped
    <2>3. Handles(h, t)
      BY <1>10, <2>1 DEF FailTaskTail, Handles
    <2> QED BY <2>2, <2>3, HandlesKeeps DEF RowsKept
  <1>11. CASE UNCHANGED vars
    BY <1>1, <1>11 DEF vars, Same
  <1> QED BY <1>3, <1>4, <1>5, <1>6, <1>7, <1>8, <1>9, <1>10, <1>11 DEF Next, SweepNext

LEMMA SweepInvInit == Init => SweepInv
  BY DEF Init, SweepInv, TypeOK, HandledOnce

LEMMA SweepInvStep == SweepInv /\ [Next]_vars => SweepInv'
  BY RestKept, RowsAreKept, TypeSplit, TypeSplitNext DEF SweepInv, RowsKept

-----------------------------------------------------------------------------
(* However sweeps, recoveries and the daemon's own reports overlap, a       *)
(* failed row is in the hands of one of them, and has no retry before it is *)
(* dealt with: two statements never return one row, so none is retried      *)
(* twice.                                                                   *)
THEOREM FailedOnce == Spec => []SweepInv
  BY SweepInvInit, SweepInvStep, PTL DEF Spec

(* The same of HandleFailedTasks alone, as the run has it.                  *)
THEOREM SweptOnce == SweepSpec => []SweepInv
  <1>1. [SweepNext]_vars => [Next]_vars
    BY DEF Next
  <1> QED BY <1>1, SweepInvInit, SweepInvStep, PTL DEF SweepSpec

-----------------------------------------------------------------------------
(* EmptyClaimCache.                                                        *)
\* With no key, no row and no poll, every conjunct holds.
LEMMA InitCache == CacheInit => CacheInv
  BY CacheAssumption
     DEF CacheInit, CacheInv, CacheTypeOK, VersionsBehind, EmptySeen, NoHiddenTask, IsEmpty

\* A row that is not announced by the step: no verdict is contradicted by it.
LEMMA RowStep ==
    ASSUME CacheInv, CacheTypeOK', UNCHANGED <<version, verdict, poll, observed>>,
           \A r \in Rows : row'[r] = "queued" /\ bump'[r] = "done" =>
                               row[r] = "queued" /\ bump[r] = "done"
    PROVE  CacheInv'
  <1>1. Announced' \subseteq Announced
    BY DEF Announced, Queued
  <1>2. VersionsBehind'
    BY DEF CacheInv, VersionsBehind
  <1>3. EmptySeen' /\ NoHiddenTask'
    BY <1>1 DEF CacheInv, EmptySeen, NoHiddenTask, IsEmpty
  <1> QED BY <1>2, <1>3 DEF CacheInv

\* A bump leaves every verdict and every sample behind the new version.
LEMMA BumpStep ==
    ASSUME CacheInv, NEW r \in Rows, Bump(r)
    PROVE  CacheInv'
  <1> USE DEF CacheInv, CacheTypeOK, Bump
  <1>1. CacheTypeOK'
    OBVIOUS
  <1>2. VersionsBehind' /\ \A p \in Polls : observed'[p] < version'
    BY CacheAssumption DEF VersionsBehind
  <1>3. verdict' # NoVerdict => verdict' < version'
    BY CacheAssumption DEF VersionsBehind
  <1>4. EmptySeen'
    BY <1>2 DEF EmptySeen
  <1>5. NoHiddenTask'
    BY <1>3, CacheAssumption DEF NoHiddenTask, IsEmpty
  <1> QED BY <1>1, <1>2, <1>4, <1>5

\* A poll changes a place, a sample, a verdict, or takes a row away.  Select is
\* where "no row was announced" becomes known, MarkEmpty where it is written.
LEMMA PollStep ==
    ASSUME CacheInv, NEW p \in Polls, Poll(p)
    PROVE  CacheInv'
  <1> USE CacheAssumption DEF CacheInv, CacheTypeOK, Go
  <1>1. CASE CacheMiss(p) \/ CacheError(p) \/ MarkEmptyLost(p)
    <2> USE DEF CacheMiss, CacheError, MarkEmptyLost
    <2>1. CacheTypeOK' /\ VersionsBehind'
      BY <1>1 DEF VersionsBehind
    <2>2. Announced' = Announced
      BY <1>1 DEF Announced, Queued
    <2>3. \A q \in Polls : poll'[q] = "empty" => poll[q] = "empty"
      BY <1>1
    <2>4. EmptySeen' /\ NoHiddenTask'
      BY <1>1, <2>2, <2>3 DEF EmptySeen, NoHiddenTask, IsEmpty
    <2> QED BY <2>1, <2>4
  <1>2. CASE Sample(p)
    <2> USE DEF Sample
    <2>1. CacheTypeOK' /\ VersionsBehind'
      BY <1>2 DEF VersionsBehind
    <2>2. Announced' = Announced /\ NoHiddenTask'
      BY <1>2 DEF Announced, Queued, NoHiddenTask, IsEmpty
    <2>3. \A q \in Polls : poll'[q] = "empty" => poll[q] = "empty" /\ observed'[q] = observed[q]
      BY <1>2
    <2>4. EmptySeen'
      BY <1>2, <2>2, <2>3 DEF EmptySeen
    <2> QED BY <2>1, <2>2, <2>4
  <1>3. CASE Select(p)
    <2> USE DEF Select
    <2>1. CacheTypeOK' /\ VersionsBehind'
      BY <1>3 DEF VersionsBehind
    <2>2. Announced' = Announced /\ NoHiddenTask'
      BY <1>3 DEF Announced, Queued, NoHiddenTask, IsEmpty
    <2>3. \A q \in Polls : poll'[q] = "empty" => poll[q] = "empty" \/ Queued = {}
      BY <1>3
    <2>4. Announced \subseteq Queued
      BY DEF Announced
    <2>5. EmptySeen'
      BY <1>3, <2>2, <2>3, <2>4 DEF EmptySeen
    <2> QED BY <2>1, <2>2, <2>5
  <1>4. CASE Claim(p)
    <2> USE DEF Claim
    <2>1. CacheTypeOK' /\ VersionsBehind'
      BY <1>4 DEF VersionsBehind, Queued
    <2>2. Announced' \subseteq Announced
      BY <1>4 DEF Announced, Queued
    <2>3. \A q \in Polls : poll'[q] = "empty" => poll[q] = "empty"
      BY <1>4
    <2>4. EmptySeen' /\ NoHiddenTask'
      BY <1>4, <2>2, <2>3 DEF EmptySeen, NoHiddenTask, IsEmpty
    <2> QED BY <2>1, <2>4
  <1>5. CASE MarkEmpty(p)
    <2> USE DEF MarkEmpty
    <2>1. CacheTypeOK' /\ VersionsBehind'
      BY <1>5 DEF VersionsBehind
    <2>2. Announced' = Announced
      BY <1>5 DEF Announced, Queued
    <2>3. \A q \in Polls : poll'[q] = "empty" => poll[q] = "empty"
      BY <1>5
    <2>4. EmptySeen' /\ NoHiddenTask'
      BY <1>5, <2>2, <2>3 DEF EmptySeen, NoHiddenTask, IsEmpty
    <2> QED BY <2>1, <2>4
  <1> QED BY <1>1, <1>2, <1>3, <1>4, <1>5 DEF Poll

\* Every step keeps the invariant: the lemmas above, one per kind of step.
LEMMA NextCache == CacheInv /\ [CacheNext]_cacheVars => CacheInv'
  <1> SUFFICES ASSUME CacheInv, [CacheNext]_cacheVars PROVE CacheInv'
    OBVIOUS
  <1>1. ASSUME NEW r \in Rows, InsertTask(r) \/ BumpLost(r) \/ Adopt(r) \/ Leave(r)
        PROVE  CacheInv'
    <2> USE DEF InsertTask, BumpLost, Adopt, Leave
    <2>1. CacheTypeOK'
      BY <1>1 DEF CacheInv, CacheTypeOK
    <2>2. UNCHANGED <<version, verdict, poll, observed>>
      BY <1>1
    <2>3. \A q \in Rows : row'[q] = "queued" /\ bump'[q] = "done" =>
                              row[q] = "queued" /\ bump[q] = "done"
      BY <1>1 DEF CacheInv, CacheTypeOK
    <2> QED BY <2>1, <2>2, <2>3, RowStep
  <1>2. ASSUME NEW r \in Rows, Bump(r) PROVE CacheInv'
    BY <1>2, BumpStep
  <1>3. ASSUME NEW p \in Polls, Poll(p) PROVE CacheInv'
    BY <1>3, PollStep
  <1>4. CASE ExpireVerdict
    BY <1>4 DEF ExpireVerdict, CacheInv, CacheTypeOK, VersionsBehind, EmptySeen, NoHiddenTask,
                IsEmpty, Announced, Queued
  <1>5. CASE UNCHANGED cacheVars
    BY <1>5 DEF cacheVars, CacheInv, CacheTypeOK, VersionsBehind, EmptySeen, NoHiddenTask, IsEmpty,
                Announced, Queued
  <1> QED BY <1>1, <1>2, <1>3, <1>4, <1>5 DEF CacheNext

\* Versions, samples and verdicts fit together in every reachable state.
THEOREM CacheInvariant == CacheSpec => []CacheInv
  BY InitCache, NextCache, PTL DEF CacheSpec

\* The cache never answers "empty" over a row whose enqueue has bumped the
\* version, with any number of polls in flight.
THEOREM VerdictHidesNoTask == CacheSpec => []NoHiddenTask
  <1>1. CacheInv => NoHiddenTask
    BY DEF CacheInv
  <1> QED BY <1>1, CacheInvariant, PTL
=============================================================================
