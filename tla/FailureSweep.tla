----------------------------- MODULE FailureSweep -----------------------------
(***************************************************************************)
(* What follows a failure: TaskService.HandleFailedTasks, which sweepers   *)
(* and recover-orphans run over the rows one statement has failed, and the *)
(* tail of FailTask, which a daemon's report runs over one row.  For each  *)
(* row a retry may be inserted, and an in_progress issue that is left with *)
(* no task is put back to todo.  Every query is a step: another handler,   *)
(* an agent or a user acts between them.                                   *)
(*                                                                         *)
(* One issue: two issues share no state here.  The rows are abstracted to  *)
(* what the handlers ask of them; TaskQueue has the statements themselves. *)
(***************************************************************************)
EXTENDS Naturals, FiniteSets

CONSTANTS
    Works,          \* tasks enqueued for the issue: a bound on them
    Agents,
    Handlers,       \* requests and sweeps that may run at once
    MaxAttempts,
    None

\* A row is named by the task that was enqueued and its attempt: no row is
\* retried twice (RetryChain in TaskQueue), so a retry has a name of its own.
Tasks == Works \X (1..MaxAttempts)

ASSUME SweepAssumption == MaxAttempts \in Nat \ {0} /\ None \notin Agents

VARIABLES
    task,       \* "none", "pending", "running", "failed", "ended"
    agent,      \* of a row
    issue,      \* "todo", "in_progress", "done"
    pc,         \* where a handler is
    batch,      \* the failed rows a handler has still to see
    retryable,  \* the reason of its batch is one of retryableReasons
    retried,    \* retriedIssues has the issue
    processed   \* processedIssues has the issue

vars == <<task, agent, issue, pc, batch, retryable, retried, processed>>
rows == <<task, agent>>
locals == <<batch, retryable, retried, processed>>

Pending(t) == task[t] = "pending"                  \* queued or dispatched
Live(t) == task[t] \in {"pending", "running"}      \* running or waiting for a directory
\* mutant: failed rows count as active
HasUnfinishedTask == \E t \in Tasks : task[t] \notin {"none", "ended"}

HasActiveTaskForIssue == \E t \in Tasks : Live(t)

Init ==
    /\ task = [t \in Tasks |-> "none"]
    /\ agent = [t \in Tasks |-> None]
    /\ issue = "todo"
    /\ pc = [h \in Handlers |-> "idle"]
    /\ batch = [h \in Handlers |-> {}]
    /\ retryable = [h \in Handlers |-> FALSE]
    /\ retried = [h \in Handlers |-> FALSE]
    /\ processed = [h \in Handlers |-> FALSE]

-----------------------------------------------------------------------------
(* The life of the rows and of the issue, outside the handlers.            *)

IndexFree(a) == ~\E t \in Tasks : Pending(t) /\ agent[t] = a

Insert(t, a) ==
    /\ task[t] = "none"
    /\ task' = [task EXCEPT ![t] = "pending"]
    /\ agent' = [agent EXCEPT ![t] = a]

Enqueue(w, a) ==
    /\ IndexFree(a)
    /\ Insert(<<w, 1>>, a)
    /\ UNCHANGED <<issue, pc, locals>>

Start(t) ==
    /\ Pending(t)
    /\ task' = [task EXCEPT ![t] = "running"]
    /\ UNCHANGED <<agent, issue, pc, locals>>

\* Completed or cancelled: neither touches the issue's status.
End(t) ==
    /\ Live(t)
    /\ task' = [task EXCEPT ![t] = "ended"]
    /\ UNCHANGED <<agent, issue, pc, locals>>

\* An agent takes the issue up while its task runs.
AgentTakesUp ==
    /\ issue = "todo" /\ \E t \in Tasks : task[t] = "running"
    /\ issue' = "in_progress"
    /\ UNCHANGED <<rows, pc, locals>>

\* A user, or an agent, closes or reopens the issue.
SetStatus(s) ==
    /\ s \in {"todo", "done"} /\ s # issue
    /\ issue' = s
    /\ UNCHANGED <<rows, pc, locals>>

-----------------------------------------------------------------------------
(* A failure, and the loop of HandleFailedTasks over it.                   *)

FailRows(h, S, infrastructure, entry) ==
    /\ pc[h] = "idle" /\ S # {}
    /\ task' = [t \in Tasks |-> IF t \in S THEN "failed" ELSE task[t]]
    /\ pc' = [pc EXCEPT ![h] = entry]
    /\ batch' = [batch EXCEPT ![h] = S]
    /\ retryable' = [retryable EXCEPT ![h] = infrastructure]
    /\ retried' = [retried EXCEPT ![h] = FALSE]
    /\ processed' = [processed EXCEPT ![h] = FALSE]
    /\ UNCHANGED <<agent, issue>>

\* FailStaleTasks, FailTasksForOfflineRuntimes, RecoverOrphanedTasksForRuntime
\* with a retryable reason; ExpireStaleQueuedTasks with another.
Sweep(h, S) ==
    \/ FailRows(h, S, TRUE, "next")
    \/ (\A t \in S : Pending(t)) /\ FailRows(h, S, FALSE, "next")

\* The daemon reports a failure.  Its tail is the retry, and nothing else.
FailTask(h, t) ==
    \E infrastructure \in BOOLEAN : FailRows(h, {t}, infrastructure, "tail")

CanRetry(h, t) == retryable[h] /\ t[2] < MaxAttempts

\* MaybeRetryFailedTask: a pending row of the agent makes the INSERT fail.
Retry(h, t, inserted) ==
    IF CanRetry(h, t) /\ IndexFree(agent[t])
    THEN inserted /\ Insert(<<t[1], t[2] + 1>>, agent[t])
    ELSE ~inserted /\ UNCHANGED rows

\* mutant: the loop does not move on
NextRowAgain(h, t) ==
    /\ pc[h] = "next" /\ t \in batch[h]
    /\ \E inserted \in BOOLEAN :
           /\ Retry(h, t, inserted)
           /\ retried' = [retried EXCEPT ![h] = @ \/ inserted]
    /\ pc' = [pc EXCEPT ![h] = "issue"]
    /\ UNCHANGED <<issue, batch, retryable, processed>>

\* The rows come in whatever order RETURNING gave them.
NextRow(h, t) ==
    /\ pc[h] = "next" /\ t \in batch[h]
    /\ \E inserted \in BOOLEAN :
           /\ Retry(h, t, inserted)
           /\ retried' = [retried EXCEPT ![h] = @ \/ inserted]
    /\ pc' = [pc EXCEPT ![h] = "issue"]
    /\ batch' = [batch EXCEPT ![h] = @ \ {t}]
    /\ UNCHANGED <<issue, retryable, processed>>

\* GetIssue, and the test before the active check.
ReadIssue(h) ==
    LET stuck == issue = "in_progress" /\ ~processed[h] /\ ~retried[h]
    IN  /\ pc[h] = "issue"
        /\ pc' = [pc EXCEPT ![h] = IF stuck THEN "active" ELSE "next"]
        /\ processed' = [processed EXCEPT ![h] = @ \/ stuck]
        /\ UNCHANGED <<rows, issue, batch, retryable, retried>>

CheckActive(h) ==
    /\ pc[h] = "active"
    /\ pc' = [pc EXCEPT ![h] = IF HasActiveTaskForIssue THEN "next" ELSE "reset"]
    /\ UNCHANGED <<rows, issue, locals>>

\* UpdateIssueStatus has no condition on the status it replaces.
ResetIssue(h) ==
    /\ pc[h] = "reset"
    /\ issue' = "todo"
    /\ pc' = [pc EXCEPT ![h] = "next"]
    /\ UNCHANGED <<rows, locals>>

Return(h) ==
    /\ pc[h] = "next" /\ batch[h] = {}
    /\ pc' = [pc EXCEPT ![h] = "idle"]
    /\ UNCHANGED <<rows, issue, locals>>

FailTaskTail(h) ==
    /\ pc[h] = "tail"
    /\ \E t \in batch[h], inserted \in BOOLEAN : Retry(h, t, inserted)
    /\ pc' = [pc EXCEPT ![h] = "idle"]
    /\ batch' = [batch EXCEPT ![h] = {}]
    /\ UNCHANGED <<issue, retryable, retried, processed>>

-----------------------------------------------------------------------------
HandlerStep(h) ==
    \/ \E t \in Tasks : NextRow(h, t)
    \/ ReadIssue(h) \/ CheckActive(h) \/ ResetIssue(h) \/ Return(h)
    \/ FailTaskTail(h)

\* Everything but the daemon's own reports.
SweepNext ==
    \/ \E w \in Works, a \in Agents : Enqueue(w, a)
    \/ \E t \in Tasks : Start(t) \/ End(t)
    \/ AgentTakesUp
    \/ \E s \in {"todo", "done"} : SetStatus(s)
    \/ \E h \in Handlers :
        \/ \E S \in SUBSET {t \in Tasks : Live(t)} : Sweep(h, S)
        \/ \E t \in Tasks : NextRow(h, t)
        \/ ReadIssue(h) \/ CheckActive(h) \/ ResetIssue(h) \/ Return(h)

Next ==
    \/ SweepNext
    \/ \E h \in Handlers :
        \/ \E t \in Tasks : Live(t) /\ FailTask(h, t)
        \/ FailTaskTail(h)

\* A handler that was called runs to its end; nobody has to fail or act.
Running == \A h \in Handlers : WF_vars(HandlerStep(h))

SweepSpec == Init /\ [][SweepNext]_vars /\ Running
Spec == Init /\ [][Next]_vars /\ Running

-----------------------------------------------------------------------------
TypeOK ==
    /\ task \in [Tasks -> {"none", "pending", "running", "failed", "ended"}]
    /\ agent \in [Tasks -> Agents \cup {None}]
    /\ issue \in {"todo", "in_progress", "done"}
    /\ pc \in [Handlers -> {"idle", "next", "issue", "active", "reset", "tail"}]
    /\ batch \in [Handlers -> SUBSET Tasks]
    /\ retryable \in [Handlers -> BOOLEAN]
    /\ retried \in [Handlers -> BOOLEAN]
    /\ processed \in [Handlers -> BOOLEAN]

IsRetryOf(u, t) == u[1] = t[1] /\ u[2] = t[2] + 1

\* A failed row is in the hands of one handler: whichever statements overlap,
\* only one of them returns it.  Until that handler is past it, and as long as
\* it has not failed, it has no retry; so MaybeRetryFailedTask, which does not
\* look for one, makes no second.
HandledOnce ==
    /\ \A h \in Handlers : \A t \in batch[h] : task[t] = "failed"
    /\ \A h, k \in Handlers : h # k => batch[h] \cap batch[k] = {}
    /\ \A t, u \in Tasks :
           /\ IsRetryOf(u, t)
           /\ task[t] # "failed" \/ \E h \in Handlers : t \in batch[h]
           => task[u] = "none"

SweepInv == TypeOK /\ HandledOnce

\* An agent took the issue up, and every task it ever had has failed.
Stuck ==
    /\ issue = "in_progress"
    /\ \A t \in Tasks : task[t] \in {"none", "failed"}

\* "Reset stuck in_progress issues": whichever handlers overlap, an issue whose
\* tasks have all failed does not stay in_progress.  HandleFailedTasks says so
\* of every path ("All callers that surface a task as failed -- sweepers,
\* FailTask, recover-orphans -- funnel through here"); with FailTask it is not so.
StuckIssueReset == Stuck ~> ~Stuck
=============================================================================
