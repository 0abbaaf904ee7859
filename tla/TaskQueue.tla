------------------------------ MODULE TaskQueue ------------------------------
(***************************************************************************)
(* The agent task queue of the server: the rows of agent_task_queue, the   *)
(* statements that move them (pkg/db/queries/agent.sql) and the handlers   *)
(* of TaskService that issue those statements.                             *)
(*                                                                         *)
(* A step is one SQL statement or one transaction.  A handler made of      *)
(* several statements is several steps, and what it still owes after its   *)
(* first commit is kept in a variable (seen and untried for a claim,       *)
(* retryDue for a failure, owed for a rerun or a reassignment), so that    *)
(* the steps of other handlers fall between.  ClaimAgentTask runs under    *)
(* READ COMMITTED: it reads one snapshot and locks a row of it later, so   *)
(* it is two steps, ClaimScan and ClaimLock.                               *)
(***************************************************************************)
EXTENDS Naturals, FiniteSets

CONSTANTS
    TaskIds,       \* the ids of the rows; a bound on the tasks ever created
    Agents,
    Runtimes,
    Issues,        \* issue_id values: serialised, indexed and retried
    Chats,         \* chat_session_id values: serialised and retried
    QuickCreate,   \* the shape with no link at all: serialised
    Unkeyed,       \* autopilot runs and goal subtasks: neither
    MaxAttempts,   \* max_attempts, 2 by default
    None

Links == Issues \cup Chats \cup {QuickCreate} \cup Unkeyed

ASSUME QueueAssumption ==
    /\ MaxAttempts \in Nat \ {0}
    /\ None \notin TaskIds
    /\ None \notin Agents \cup Runtimes
    /\ None \notin Links
    /\ Issues \cap (Chats \cup {QuickCreate} \cup Unkeyed) = {}

ActiveStatus == {"dispatched", "waiting_local_directory", "running"}
LiveStatus == ActiveStatus \cup {"queued"}
TerminalStatus == {"completed", "failed", "cancelled"}
Status == {"none"} \cup LiveStatus \cup TerminalStatus

\* failure_reason, by what the retry path makes of it: "infrastructure" is a
\* member of retryableReasons (runtime_offline, runtime_recovery, timeout,
\* codex_semantic_inactivity), "final" any other (agent_error, ...).
Reasons == {"infrastructure", "final"}

Columns == [agent : Agents, link : Links, runtime : Runtimes,
            attempt : 1..MaxAttempts, parent : TaskIds \cup {None}]
NoColumns == [agent |-> None, link |-> None, runtime |-> None,
              attempt |-> 0, parent |-> None]

VARIABLES
    status,     \* status column; "none" while the row does not exist
    info,       \* the columns an INSERT fixes; only runtime_id changes later
    reason,     \* failure_reason column
    untried,    \* per runtime: agents its ClaimTaskForRuntime has yet to try
    seen,       \* per runtime: the rows its ClaimAgentTask found claimable
    retryDue,   \* failed rows whose MaybeRetryFailedTask has yet to insert
    owed        \* (issue, agent) enqueues owed after the cancel before them

vars == <<status, info, reason, untried, seen, retryDue, owed>>
claims == <<untried, seen>>

-----------------------------------------------------------------------------
(* The conditions the statements test.                                     *)

Fresh == {t \in TaskIds : status[t] = "none"}
Queued(t) == status[t] = "queued"
Active(t) == status[t] \in ActiveStatus
Live(t) == status[t] \in LiveStatus
Pending(t) == status[t] \in {"queued", "dispatched"}

SameWork(t, u) == info[t].agent = info[u].agent /\ info[t].link = info[u].link

\* mutant: the index covers running rows too
IndexFreeLive(a, l) ==
    l \in Issues =>
        ~\E u \in TaskIds : Live(u) /\ info[u].agent = a /\ info[u].link = l

\* mutant: the index forgets dispatched rows
IndexFreeQueued(a, l) ==
    l \in Issues =>
        ~\E u \in TaskIds : Queued(u) /\ info[u].agent = a /\ info[u].link = l

\* idx_one_pending_task_per_issue_agent lets the row in.
IndexFree(a, l) ==
    l \in Issues =>
        ~\E u \in TaskIds : Pending(u) /\ info[u].agent = a /\ info[u].link = l

\* mutant: the subquery does not know waiting_local_directory
ClaimableBesideWaiting(a) ==
    {t \in TaskIds :
        /\ Queued(t)
        /\ info[t].agent = a
        /\ \/ info[t].link \in Unkeyed
           \/ ~\E u \in TaskIds : status[u] \in {"dispatched", "running"} /\ SameWork(t, u)}

\* The subquery of ClaimAgentTask: queued rows of the agent that no active
\* row of the same issue, chat or quick-create shape keeps back.
Claimable(a) ==
    {t \in TaskIds :
        /\ Queued(t)
        /\ info[t].agent = a
        /\ info[t].link \in Unkeyed \/ ~\E u \in TaskIds : Active(u) /\ SameWork(t, u)}

\* What MaybeRetryFailedTask tests before it inserts the child.
CanRetry(t, why) ==
    /\ why = "infrastructure"
    /\ info[t].attempt < MaxAttempts
    /\ info[t].link \in Issues \cup Chats

-----------------------------------------------------------------------------
Init ==
    /\ status = [t \in TaskIds |-> "none"]
    /\ info = [t \in TaskIds |-> NoColumns]
    /\ reason = [t \in TaskIds |-> None]
    /\ untried = [r \in Runtimes |-> {}]
    /\ seen = [r \in Runtimes |-> {}]
    /\ retryDue = {}
    /\ owed = {}

Insert(t, columns) ==
    /\ status[t] = "none"
    /\ status' = [status EXCEPT ![t] = "queued"]
    /\ info' = [info EXCEPT ![t] = columns]
    /\ UNCHANGED reason

\* Enqueue for an issue (assignee, mention, squad leader), a chat message, a
\* quick-create, an autopilot run or a goal subtask.  The runtime is the
\* agent's or the chat session's at that moment; either can be re-pointed.
Enqueue(t, a, l, r) ==
    /\ IndexFree(a, l)
    /\ Insert(t, [agent |-> a, link |-> l, runtime |-> r, attempt |-> 1, parent |-> None])
    /\ UNCHANGED <<claims, retryDue, owed>>

-----------------------------------------------------------------------------
(* ClaimTaskForRuntime, the daemon's poll.                                 *)

\* ListQueuedClaimCandidatesByRuntime: the agents the loop will try.
ListCandidates(r) ==
    LET candidates == {info[t].agent : t \in {u \in TaskIds : Queued(u) /\ info[u].runtime = r}}
    IN  /\ untried[r] = {} /\ seen[r] = {} /\ candidates # {}
        /\ untried' = [untried EXCEPT ![r] = candidates]
        /\ UNCHANGED <<status, info, reason, seen, retryDue, owed>>

\* ClaimAgentTask takes its snapshot; with no row in it the loop goes on.
ClaimScan(r, a) ==
    /\ a \in untried[r] /\ seen[r] = {}
    /\ untried' = [untried EXCEPT ![r] = @ \ {a}]
    /\ seen' = [seen EXCEPT ![r] = Claimable(a)]
    /\ UNCHANGED <<status, info, reason, retryDue, owed>>

\* mutant: the locked row is not rechecked
ClaimLockBlind(r, t) ==
    /\ t \in seen[r]
    /\ status' = [status EXCEPT ![t] = "dispatched"]
    /\ seen' = [seen EXCEPT ![r] = {}]
    /\ untried' = [untried EXCEPT ![r] = IF info[t].runtime = r THEN {} ELSE @]
    /\ UNCHANGED <<info, reason, retryDue, owed>>

\* ClaimAgentTask locks a row of its snapshot, rechecking only that row, and
\* skips rows another claim holds: which one is left to the choice of t.  The
\* loop stops at the first row that belongs to this runtime.
ClaimLock(r, t) ==
    /\ t \in seen[r] /\ Queued(t)
    /\ status' = [status EXCEPT ![t] = "dispatched"]
    /\ seen' = [seen EXCEPT ![r] = {}]
    /\ untried' = [untried EXCEPT ![r] = IF info[t].runtime = r THEN {} ELSE @]
    /\ UNCHANGED <<info, reason, retryDue, owed>>

\* Every row of the snapshot was taken meanwhile.
ClaimNothing(r) ==
    /\ seen[r] # {} /\ \A t \in seen[r] : ~Queued(t)
    /\ seen' = [seen EXCEPT ![r] = {}]
    /\ UNCHANGED <<status, info, reason, untried, retryDue, owed>>

\* A database error or a client that went away ends the poll.
ClaimError(r) ==
    /\ untried[r] # {} \/ seen[r] # {}
    /\ untried' = [untried EXCEPT ![r] = {}]
    /\ seen' = [seen EXCEPT ![r] = {}]
    /\ UNCHANGED <<status, info, reason, retryDue, owed>>

-----------------------------------------------------------------------------
(* The daemon's callbacks for a task it was given.                         *)

MoveTo(t, s) ==
    /\ status' = [status EXCEPT ![t] = s]
    /\ UNCHANGED <<info, reason, claims, retryDue, owed>>

MarkTaskWaitingLocalDirectory(t) ==
    status[t] = "dispatched" /\ MoveTo(t, "waiting_local_directory")

StartTask(t) ==
    status[t] \in {"dispatched", "waiting_local_directory"} /\ MoveTo(t, "running")

\* mutant: a late completion overwrites a cancellation
CompleteTaskLate(t) ==
    status[t] \in {"running", "cancelled"} /\ MoveTo(t, "completed")

CompleteTask(t) ==
    status[t] = "running" /\ MoveTo(t, "completed")

\* A commit that fails the rows of S.  The retries come after it.
FailRows(S, why) ==
    /\ S # {}
    /\ status' = [t \in TaskIds |-> IF t \in S THEN "failed" ELSE status[t]]
    /\ reason' = [t \in TaskIds |-> IF t \in S THEN why ELSE reason[t]]
    /\ retryDue' = retryDue \cup {t \in S : CanRetry(t, why)}
    /\ UNCHANGED <<info, claims, owed>>

\* mutant: a late report fails a failed row again
FailTaskAgain(t) ==
    (Active(t) \/ status[t] = "failed") /\ \E why \in Reasons : FailRows({t}, why)

\* The daemon reports a failure, with a reason of either kind.
FailTask(t) == Active(t) /\ \E why \in Reasons : FailRows({t}, why)

-----------------------------------------------------------------------------
(* The sweepers and the recovery after a daemon restart.                   *)

\* Rows past the dispatch or the running timeout; waiting rows are exempt.
FailStaleTasks ==
    \E S \in SUBSET {t \in TaskIds : status[t] \in {"dispatched", "running"}} :
        FailRows(S, "infrastructure")

ExpireStaleQueuedTasks ==
    \E S \in SUBSET {t \in TaskIds : Queued(t)} : FailRows(S, "final")

RowsOf(r) == {t \in TaskIds : Active(t) /\ info[t].runtime = r}
FailTasksForOfflineRuntimes(r) == FailRows(RowsOf(r), "infrastructure")
RecoverOrphanedTasks(r) == FailRows(RowsOf(r), "infrastructure")

\* MaybeRetryFailedTask inserts the child.  A pending row of the same issue
\* and agent makes the INSERT fail on the unique index: no child then.  A
\* server that dies before the INSERT never takes this step.
RetryInsert(t) ==
    /\ t \in retryDue
    /\ retryDue' = retryDue \ {t}
    /\ \/ /\ IndexFree(info[t].agent, info[t].link)
          /\ \E u \in Fresh :
                 Insert(u, [info[t] EXCEPT !.attempt = @ + 1, !.parent = t])
       \/ /\ ~IndexFree(info[t].agent, info[t].link)
          /\ UNCHANGED <<status, info, reason>>
    /\ UNCHANGED <<claims, owed>>

-----------------------------------------------------------------------------
(* Cancellation, rerun and reassignment.                                   *)

CancelRows(S) ==
    /\ status' = [t \in TaskIds |-> IF t \in S THEN "cancelled" ELSE status[t]]
    /\ UNCHANGED <<info, reason, claims, retryDue>>

LiveRows(l) == {t \in TaskIds : Live(t) /\ info[t].link = l}

CancelTask(t) == Live(t) /\ CancelRows({t}) /\ UNCHANGED owed

\* CancelTasksForIssue, and the same for a deleted chat session.
CancelTasksForLink(l) ==
    LiveRows(l) # {} /\ CancelRows(LiveRows(l)) /\ UNCHANGED owed

\* The rows a deleted comment triggered: some of the rows of its issue.
CancelTasksByTriggerComment(i) ==
    \E S \in SUBSET LiveRows(i) : S # {} /\ CancelRows(S) /\ UNCHANGED owed

\* CancelTasksForAgent, a member's revocation and a runtime's deletion.
CancelTasksByRuntimeOrAgent(R, A) ==
    LET S == {t \in TaskIds : Live(t) /\ (info[t].runtime \in R \/ info[t].agent \in A)}
    IN  S # {} /\ CancelRows(S) /\ UNCHANGED owed

\* A daemon registers under a new id: the rows of its old runtime, finished
\* ones too, move to the new one, whatever a poll of the old one is doing.
ReassignTasksToRuntime(q, r) ==
    /\ q # r
    /\ \E t \in TaskIds : info[t].runtime = q
    /\ info' = [t \in TaskIds |-> IF info[t].runtime = q
                                 THEN [info[t] EXCEPT !.runtime = r] ELSE info[t]]
    /\ UNCHANGED <<status, reason, claims, retryDue, owed>>

\* RerunIssue cancels the rows of one agent on the issue, then enqueues.
RerunIssue(i, a) ==
    /\ <<i, a>> \notin owed
    /\ CancelRows({t \in LiveRows(i) : info[t].agent = a})
    /\ owed' = owed \cup {<<i, a>>}

\* UpdateIssue with a new assignee cancels every row of the issue first.
ReassignIssue(i, a) ==
    /\ <<i, a>> \notin owed
    /\ CancelRows(LiveRows(i))
    /\ owed' = owed \cup {<<i, a>>}

\* The enqueue that follows; on a conflict its error is all that is left.  An
\* archived agent or one with no runtime is refused: the step is not taken.
EnqueueOwed(i, a) ==
    /\ <<i, a>> \in owed
    /\ owed' = owed \ {<<i, a>>}
    /\ \/ /\ IndexFree(a, i)
          /\ \E t \in Fresh, r \in Runtimes :
                 Insert(t, [agent |-> a, link |-> i, runtime |-> r, attempt |-> 1, parent |-> None])
       \/ /\ ~IndexFree(a, i)
          /\ UNCHANGED <<status, info, reason>>
    /\ UNCHANGED <<claims, retryDue>>

-----------------------------------------------------------------------------
Next ==
    \/ \E t \in TaskIds :
        \/ \E a \in Agents, l \in Links, r \in Runtimes : Enqueue(t, a, l, r)
        \/ \E r \in Runtimes : ClaimLock(r, t)
        \/ MarkTaskWaitingLocalDirectory(t)
        \/ StartTask(t)
        \/ CompleteTask(t)
        \/ FailTask(t)
        \/ RetryInsert(t)
        \/ CancelTask(t)
    \/ \E r \in Runtimes :
        \/ ListCandidates(r)
        \/ \E a \in Agents : ClaimScan(r, a)
        \/ ClaimNothing(r)
        \/ ClaimError(r)
        \/ FailTasksForOfflineRuntimes(r)
        \/ RecoverOrphanedTasks(r)
    \/ FailStaleTasks
    \/ ExpireStaleQueuedTasks
    \/ \E l \in Issues \cup Chats : CancelTasksForLink(l)
    \/ \E R \in SUBSET Runtimes, A \in SUBSET Agents : CancelTasksByRuntimeOrAgent(R, A)
    \/ \E q, r \in Runtimes : ReassignTasksToRuntime(q, r)
    \/ \E i \in Issues :
        \/ CancelTasksByTriggerComment(i)
        \/ \E a \in Agents : RerunIssue(i, a) \/ ReassignIssue(i, a) \/ EnqueueOwed(i, a)

Spec == Init /\ [][Next]_vars

-----------------------------------------------------------------------------
(* Properties.                                                             *)

TypeOK ==
    /\ status \in [TaskIds -> Status]
    /\ info \in [TaskIds -> Columns \cup {NoColumns}]
    /\ reason \in [TaskIds -> Reasons \cup {None}]
    /\ untried \in [Runtimes -> SUBSET Agents]
    /\ seen \in [Runtimes -> SUBSET TaskIds]
    /\ retryDue \subseteq TaskIds
    /\ owed \subseteq Issues \X Agents

\* An agent never has two tasks of one issue handed out at a time: whatever
\* the overlap of polls, retries, reruns and cancels, ClaimAgentTask's stale
\* snapshot never lets a second row through, because the unique index keeps
\* a second queued row from existing while the first is queued or dispatched.
IssueSerialized ==
    \A t, u \in TaskIds :
        Active(t) /\ Active(u) /\ info[t].link \in Issues /\ SameWork(t, u) => t = u

\* The same promise for chats, which the comment on ClaimAgentTask makes
\* ("Chat tasks use chat_session_id for serialization instead") with no index
\* behind it.
ChatSerialized ==
    \A t, u \in TaskIds :
        Active(t) /\ Active(u) /\ info[t].link \in Chats /\ SameWork(t, u) => t = u

\* A task is retried once at most, only after an infrastructure failure, for
\* the same agent and the same work, one attempt later and within the budget:
\* two sweepers, a daemon callback and an orphan recovery that all see the
\* same row must not each spawn a child.
RetryChain ==
    \A t, u \in TaskIds :
        status[u] # "none" /\ info[u].parent = t =>
            /\ status[t] = "failed" /\ reason[t] = "infrastructure"
            /\ SameWork(t, u) /\ info[t].link \in Issues \cup Chats
            /\ info[u].runtime = info[t].runtime
            /\ info[u].attempt = info[t].attempt + 1
            /\ t \notin retryDue
            /\ \A v \in TaskIds : info[v].parent = t => v = u

-----------------------------------------------------------------------------
(* The inductive invariant behind IssueSerialized and RetryChain.          *)

\* A row has its columns exactly while it exists.
RowsHaveColumns ==
    \A t \in TaskIds :
        IF status[t] = "none" THEN info[t] = NoColumns ELSE info[t] \in Columns

\* idx_one_pending_task_per_issue_agent.
UniquePending ==
    \A t, u \in TaskIds :
        Pending(t) /\ Pending(u) /\ info[t].link \in Issues /\ SameWork(t, u) => t = u

\* A snapshot holds only rows that exist, and an issue row of it that is
\* still queued still has no active row of its issue and agent.
SnapshotsSafe ==
    \A r \in Runtimes : \A t \in seen[r] :
        /\ status[t] # "none"
        /\ Queued(t) /\ info[t].link \in Issues =>
               \A u \in TaskIds : Active(u) => ~SameWork(t, u)

\* The rows a retry is owed for failed in a way that allows it.
RetryDueFailed ==
    \A t \in retryDue :
        status[t] = "failed" /\ reason[t] = "infrastructure" /\ CanRetry(t, reason[t])

SerialInv == RowsHaveColumns /\ UniquePending /\ IssueSerialized /\ SnapshotsSafe
RetryInv == RetryDueFailed /\ RetryChain
Inductive == TypeOK /\ SerialInv /\ RetryInv

-----------------------------------------------------------------------------
(* What a step may do.                                                     *)

\* A finished row is never finished again: a late callback, a sweep or a
\* cancel that lost the race changes neither its status nor its reason, and
\* no insert takes its place.  Only its runtime may be re-pointed.
FinishedIsFinal ==
    [][\A t \in TaskIds : status[t] \in TerminalStatus =>
           /\ status'[t] = status[t] /\ reason'[t] = reason[t]
           /\ info'[t] = [info[t] EXCEPT !.runtime = info'[t].runtime]]_vars

\* A retryable failure of an issue task hands its work over: when its retry
\* has been dealt with, a queued or dispatched row of the same agent and issue
\* is there to do it, the child or the row that kept the child out.
RetryHandsOver ==
    [][\A t \in retryDue \ retryDue' :
           info[t].link \in Issues =>
               \E u \in TaskIds : Pending(u)' /\ (SameWork(t, u))']_vars

\* The same for a rerun or a reassignment: when the enqueue that follows the
\* cancellation got as far as its INSERT, the issue is not left without a task.
RerunLeavesPending ==
    [][\A e \in owed \ owed' :
           \E u \in TaskIds :
               Pending(u)' /\ info'[u].link = e[1] /\ info'[u].agent = e[2]]_vars

\* What the issue tasks promise: one at a time per issue and agent.
Key(t) == IF info[t].link \in Issues THEN <<info[t].link, info[t].agent>> ELSE None
Phase(t) ==
    IF info[t].link \notin Issues \/ status[t] = "none" THEN "absent"
    ELSE IF Queued(t) THEN "waiting" ELSE IF Active(t) THEN "active" ELSE "done"

Work == INSTANCE SerialWork WITH
    Jobs <- TaskIds,
    Keys <- Issues \X Agents,
    NoKey <- None,
    key <- [t \in TaskIds |-> Key(t)],
    phase <- [t \in TaskIds |-> Phase(t)]

\* Every step of the queue is a step of SerialWork on the issue tasks.
ImplementsSerialWork == Work!Spec
=============================================================================
