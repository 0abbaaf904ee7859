-------------------------------- MODULE GoalRun --------------------------------
(***************************************************************************)
(* The execution of a goal (service/goal.go): a planned graph of subtasks, *)
(* each run by a task of the queue, and the coordinator's judgements.  A   *)
(* request or a task event is served by a handler, whose queries are steps *)
(* between which the other handlers move; no statement of goal.sql looks   *)
(* at the status it overwrites.                                            *)
(*                                                                         *)
(* One goal_run and its only plan.  The queue is abstracted to the number  *)
(* of live tasks of a subtask: a task with neither issue nor chat is not   *)
(* retried (willRetryTask), so it ends once.                               *)
(***************************************************************************)
EXTENDS Naturals, Sequences, FiniteSets

CONSTANTS
    Subtasks,
    Deps,           \* goal_subtask.depends_on
    Verify,         \* the subtasks of kind 'verify'
    Handlers,       \* requests and events served at once
    Ends,           \* how a task may end: "completed", "failed", "cancelled"
    Verdicts,       \* what a verifier may report: "pass", "reject"
    Decisions,      \* what a coordinator may report: "retry", "proceed", "abort"
    RetryOn,        \* statuses of the subtasks a user retries
    SkipOn,         \* statuses of the subtasks a user skips
    MaxRuns,        \* bound: nothing is retried that had as many tasks
    None

ASSUME GoalAssumption ==
    /\ Deps \in [Subtasks -> SUBSET Subtasks]
    /\ Verify \subseteq Subtasks
    /\ Ends \subseteq {"completed", "failed", "cancelled"}
    /\ Verdicts \subseteq {"pass", "reject"}
    /\ MaxRuns \in Nat
    /\ None \notin Subtasks

VARIABLES
    run,        \* goal_run.status
    status,     \* goal_subtask.status
    verdict,    \* goal_subtask.verdict
    live,       \* live tasks of a subtask
    runs,       \* tasks a subtask has had
    reported,   \* verifiers that have called `multica goal verdict` in this run
    planner,    \* the planning task is live
    decision,   \* the decision task on a subtask: "none", "asked", "answered"
    summary,    \* live summary tasks, by the outcome they carry
    summarized, \* a summary task exists, live or not
    job         \* what a handler is doing

vars == <<run, status, verdict, live, runs, reported, planner, decision,
          summary, summarized, job>>
tasks == <<live, runs, reported>>
leader == <<planner, decision, summary, summarized>>

Dependents(s) == {d \in Subtasks : s \in Deps[d]}
Roots == {s \in Subtasks : Deps[s] = {}}
Succeeded(s) == status[s] \in {"completed", "skipped"}
\* mutant: one dependency is enough
depsSatisfiedByOne(s) == Deps[s] = {} \/ \E d \in Deps[s] : Succeeded(d)
depsSatisfied(s) == \A d \in Deps[s] : Succeeded(d)
\* mutant: a skipped subtask counts as work in flight
TerminalUnskipped(s) == status[s] \in {"completed", "failed", "blocked"}
Terminal(s) == status[s] \in {"completed", "failed", "blocked", "skipped"}
Blockable(s) == {d \in Dependents(s) : status[d] \in {"pending", "ready"}}
Outcomes == {"completed", "partial", "failed"}
Settled == run \in Outcomes

\* A verifier parked by its own rejection: what DecideSubtask may adjudicate.
Parked(s) == s \in Verify /\ status[s] = "pending" /\ verdict[s] = "reject"

(***************************************************************************)
(* A job: where the handler is; the subtask it is at; which loop it is in  *)
(* and the subtasks that loop has still to do; the levels of the recursion *)
(* of blockDownstream; how the task ended, or the outcome to write; the    *)
(* decision task whose call it serves.                                     *)
(***************************************************************************)
Idle == [at |-> "idle", node |-> None, loop |-> None, todo |-> {},
         levels |-> <<>>, fate |-> None, call |-> None]

At(h, place) == job[h].at = place
Goto(h, place) == job' = [job EXCEPT ![h].at = place]
Begin(h, first) == job' = [job EXCEPT ![h] = first]
Loop(h, kind, S) == job' = [job EXCEPT ![h].at = "loop", ![h].loop = kind, ![h].todo = S]
Finish(h) == job' = [job EXCEPT ![h] = Idle]

Init ==
    /\ run = "planning"
    /\ status = [s \in Subtasks |-> "pending"]
    /\ verdict = [s \in Subtasks |-> None]
    /\ live = [s \in Subtasks |-> 0]
    /\ runs = [s \in Subtasks |-> 0]
    /\ reported = {}
    /\ planner = TRUE
    /\ decision = [s \in Subtasks |-> "none"]
    /\ summary = [o \in Outcomes |-> 0]
    /\ summarized = FALSE
    /\ job = [h \in Handlers |-> Idle]

-----------------------------------------------------------------------------
(* Planning.                                                               *)

\* The plan lands: rows, executing, then the dispatch of the roots.
SubmitPlan(h) ==
    /\ At(h, "idle") /\ run = "planning" /\ planner
    /\ run' = "executing"
    /\ status' = [s \in Subtasks |-> IF s \in Roots THEN "ready" ELSE "pending"]
    /\ Loop(h, "launch", Roots)
    /\ UNCHANGED <<verdict, tasks, leader>>

\* A planning task that ends without a plan fails the goal.
SyncPlanningFromTask ==
    /\ planner /\ planner' = FALSE
    /\ run' = IF run = "planning" THEN "failed" ELSE run
    /\ UNCHANGED <<status, verdict, tasks, decision, summary, summarized, job>>

-----------------------------------------------------------------------------
(* Dispatch.  Three loops end in it: the launch of the roots, the subtasks *)
(* a success readies, and those a retry rearms.                            *)

Looping(h, kind) == At(h, "loop") /\ job[h].loop = kind
Take(h, s) ==
    /\ s \in job[h].todo
    /\ job' = [job EXCEPT ![h].at = "gate", ![h].node = s, ![h].todo = @ \ {s}]

LaunchNext(h) ==
    /\ Looping(h, "launch")
    /\ \E s \in Subtasks : Take(h, s)
    /\ UNCHANGED <<run, status, verdict, tasks, leader>>

\* A dependent that the snapshot of unblockDownstream found ready.
ReadyNext(h) ==
    /\ Looping(h, "ready")
    /\ \E s \in Subtasks : Take(h, s) /\ status' = [status EXCEPT ![s] = "ready"]
    /\ UNCHANGED <<run, verdict, tasks, leader>>

RearmNext(h) ==
    /\ Looping(h, "rearm")
    /\ \E s \in Subtasks :
         /\ Take(h, s)
         /\ status' = [status EXCEPT ![s] = "ready"]
         /\ verdict' = [verdict EXCEPT ![s] = None]
    /\ UNCHANGED <<run, tasks, leader>>

\* After the last of them, only the success edge recomputes the goal.
LoopDone(h) ==
    /\ At(h, "loop") /\ job[h].todo = {}
    /\ IF job[h].loop = "ready" THEN Goto(h, "recompute") ELSE Finish(h)
    /\ UNCHANGED <<run, status, verdict, tasks, leader>>

\* The dependency gate of dispatchSubtask: a subtask that is held goes back
\* to pending.
Gate(h) ==
    LET s == job[h].node IN
    /\ At(h, "gate")
    /\ \/ depsSatisfied(s) /\ Goto(h, "start") /\ UNCHANGED status
       \/ /\ ~depsSatisfied(s) /\ Goto(h, "loop")
          /\ status' = [status EXCEPT ![s] = "pending"]
    /\ UNCHANGED <<run, verdict, tasks, leader>>

\* The task is inserted and the subtask marked running.
StartSubtask(h) ==
    LET s == job[h].node IN
    /\ At(h, "start") /\ Goto(h, "loop")
    /\ live' = [live EXCEPT ![s] = @ + 1]
    /\ runs' = [runs EXCEPT ![s] = @ + 1]
    /\ reported' = reported \ {s}
    /\ status' = [status EXCEPT ![s] = "running"]
    /\ UNCHANGED <<run, verdict, leader>>

-----------------------------------------------------------------------------
(* The end of a subtask's task.                                            *)

\* Its agent waits for the answer to a call before it ends.
TaskEnds(h, s, end) ==
    /\ At(h, "idle") /\ live[s] > 0
    /\ \A g \in Handlers : ~(At(g, "revert") /\ job[g].node = s)
    /\ live' = [live EXCEPT ![s] = @ - 1]
    /\ Begin(h, [Idle EXCEPT !.at = "sync", !.node = s, !.fate = end])
    /\ UNCHANGED <<run, status, verdict, runs, reported, leader>>

\* The row the task's end writes, and which handler goes on from there; a
\* verifier that rejects is parked, one that said nothing passes.
SyncSubtaskFromTask(h) ==
    LET s == job[h].node
        end == job[h].fate
        rejects == s \in Verify /\ verdict[s] = "reject"
        Land(to, place) == status' = [status EXCEPT ![s] = to] /\ Goto(h, place)
    IN
    /\ At(h, "sync")
    /\ \/ end = "completed" /\ ~rejects /\ Land("completed", "unblock")
       \/ end = "completed" /\ rejects /\ Land("pending", "refer")
       \/ end = "failed" /\ Land("failed", "judge")
       \/ end = "cancelled" /\ Finish(h) /\ UNCHANGED status
    /\ verdict' = IF end = "completed" /\ s \in Verify /\ ~rejects
                  THEN [verdict EXCEPT ![s] = "pass"] ELSE verdict
    /\ UNCHANGED <<run, tasks, leader>>

\* The two statements of `multica goal verdict`: the first also completes
\* the subtask, the second takes that back.
SubmitVerdict(h, s, v) ==
    /\ At(h, "idle") /\ s \in Verify \ reported /\ live[s] > 0
    /\ verdict' = [verdict EXCEPT ![s] = v]
    /\ status' = [status EXCEPT ![s] = "completed"]
    /\ reported' = reported \cup {s}
    /\ Begin(h, [Idle EXCEPT !.at = "revert", !.node = s])
    /\ UNCHANGED <<run, live, runs, leader>>

RevertVerdictStatus(h) ==
    /\ At(h, "revert")
    /\ status' = [status EXCEPT ![job[h].node] = "running"]
    /\ Finish(h)
    /\ UNCHANGED <<run, verdict, tasks, leader>>

-----------------------------------------------------------------------------
(* What follows: success unblocks, failure asks the coordinator or blocks. *)

\* mutant: what an earlier failure blocked stays blocked
UnblockPendingOnly(h) ==
    /\ At(h, "unblock")
    /\ Loop(h, "ready", {d \in Dependents(job[h].node) :
                           depsSatisfied(d) /\ status[d] = "pending"})
    /\ UNCHANGED <<run, status, verdict, tasks, leader>>

\* The snapshot of loadDependents, taken once for the whole loop.
UnblockDownstream(h) ==
    /\ At(h, "unblock")
    /\ Loop(h, "ready", {d \in Dependents(job[h].node) :
                           depsSatisfied(d) /\ status[d] \in {"pending", "blocked"}})
    /\ UNCHANGED <<run, status, verdict, tasks, leader>>

\* A decision task is inserted: none is in flight for the subtask, and the
\* coordinator can be asked.
Ask(h) ==
    /\ decision[job[h].node] = "none"
    /\ decision' = [decision EXCEPT ![job[h].node] = "asked"]
    /\ Goto(h, "recompute")
    /\ UNCHANGED <<planner, summary, summarized>>

Blocking(h) ==
    job' = [job EXCEPT ![h].at = "block", ![h].levels = <<Blockable(job[h].node)>>]

\* mutant: a failed leaf leaves the goal as it is
FailLeafSilently(h) ==
    /\ At(h, "judge")
    /\ \/ Dependents(job[h].node) = {} /\ Finish(h) /\ UNCHANGED leader
       \/ Dependents(job[h].node) # {} /\ Ask(h)
       \/ Dependents(job[h].node) # {} /\ Blocking(h) /\ UNCHANGED leader
    /\ UNCHANGED <<run, status, verdict, tasks>>

\* A leaf has nothing to judge.  Without an answer in sight (the leader
\* cannot be used, or is asked already) the downstream is blocked.
HandleSubtaskFailure(h) ==
    /\ At(h, "judge")
    /\ \/ /\ Dependents(job[h].node) = {}
          /\ Goto(h, "recompute") /\ UNCHANGED leader
       \/ Dependents(job[h].node) # {} /\ Ask(h)
       \/ Dependents(job[h].node) # {} /\ Blocking(h) /\ UNCHANGED leader
    /\ UNCHANGED <<run, status, verdict, tasks>>

\* A rejection nobody can judge lets the work pass.
ReferRejection(h) ==
    /\ At(h, "refer")
    /\ \/ Ask(h) /\ UNCHANGED <<status, verdict>>
       \/ /\ verdict' = [verdict EXCEPT ![job[h].node] = "reject"]
          /\ status' = [status EXCEPT ![job[h].node] = "completed"]
          /\ Goto(h, "unblock") /\ UNCHANGED leader
    /\ UNCHANGED <<run, tasks>>

\* blockDownstream: one dependent is blocked and its own dependents are next.
BlockNext(h) ==
    /\ At(h, "block")
    /\ \E d \in Head(job[h].levels) :
         /\ status' = [status EXCEPT ![d] = "blocked"]
         /\ job' = [job EXCEPT ![h].levels =
                      <<Blockable(d), Head(@) \ {d}>> \o Tail(@)]
    /\ UNCHANGED <<run, verdict, tasks, leader>>

\* Each level of the recursion ends with a recompute.
BlockLevelDone(h) ==
    /\ At(h, "block") /\ Head(job[h].levels) = {}
    /\ job' = [job EXCEPT ![h].at = "recompute", ![h].levels = Tail(@)]
    /\ UNCHANGED <<run, status, verdict, tasks, leader>>

-----------------------------------------------------------------------------
(* The goal's own status.                                                  *)

\* mutants: skipped work counts as completed; no success is a cancellation
RollUpSkipped ==
    IF \A s \in Subtasks : Succeeded(s) THEN "completed"
    ELSE IF \E s \in Subtasks : status[s] = "completed" THEN "partial" ELSE "failed"
RollUpCancelled ==
    IF \A s \in Subtasks : status[s] = "completed" THEN "completed"
    ELSE IF \E s \in Subtasks : status[s] = "completed" THEN "partial" ELSE "cancelled"

RollUp ==
    IF \A s \in Subtasks : status[s] = "completed" THEN "completed"
    ELSE IF \E s \in Subtasks : status[s] = "completed" THEN "partial" ELSE "failed"

Resume(h) == IF job[h].levels = <<>> THEN Finish(h) ELSE Goto(h, "block")

RecomputeGoalStatus(h) ==
    /\ At(h, "recompute")
    /\ IF \A s \in Subtasks : Terminal(s)
       THEN job' = [job EXCEPT ![h].at = "settle", ![h].fate = RollUp]
       ELSE Resume(h)
    /\ UNCHANGED <<run, status, verdict, tasks, leader>>

\* One summary for a goal with some success; its end settles the goal.
DispatchSummary(h) ==
    /\ At(h, "settle") /\ job[h].fate # "failed" /\ ~summarized
    /\ summarized' = TRUE
    /\ summary' = [summary EXCEPT ![job[h].fate] = @ + 1]
    /\ Resume(h)
    /\ UNCHANGED <<run, status, verdict, tasks, planner, decision>>

\* Nothing succeeded, a summary exists already, or the leader cannot write it.
FinalizeGoalRun(h) ==
    /\ At(h, "settle")
    /\ run' = job[h].fate
    /\ Resume(h)
    /\ UNCHANGED <<status, verdict, tasks, leader>>

SyncSummaryFromTask(o) ==
    /\ summary[o] > 0
    /\ summary' = [summary EXCEPT ![o] = @ - 1]
    /\ run' = IF run = "executing" THEN o ELSE run
    /\ UNCHANGED <<status, verdict, tasks, planner, decision, summarized, job>>

-----------------------------------------------------------------------------
(* Judgements and interventions.                                           *)

Revived == IF run \in {"partial", "failed"} THEN "executing" ELSE run

\* What a retry of a rejection runs again: not the verifier, which the last
\* of them to complete sets off.
\* mutant: the verifier is rearmed with the work it reviews
ReviewedAndVerifier(s) == Deps[s] \cup {s}
Reviewed(s) == Deps[s]

Rearm(h, S, s, call) ==
    /\ \A d \in S : runs[d] < MaxRuns
    /\ run' = Revived
    /\ Begin(h, [Idle EXCEPT !.at = "loop", !.loop = "rearm", !.todo = S,
                             !.node = s, !.call = call])
    /\ UNCHANGED <<status, verdict>>

Pass(h, s, to, call) ==
    /\ run' = Revived
    /\ status' = [status EXCEPT ![s] = to]
    /\ Begin(h, [Idle EXCEPT !.at = "unblock", !.node = s, !.call = call])

\* `multica goal decide`, called by the agent of the decision task.  A retry
\* (or reshape) of a rejection runs the reviewed work again; a subtask that
\* is past its decision is left alone.
DecideSubtask(h, s, choice) ==
    LET failed == status[s] = "failed" IN
    /\ At(h, "idle") /\ decision[s] = "asked"
    /\ decision' = [decision EXCEPT ![s] = "answered"]
    /\ \/ choice = "retry" /\ failed /\ Rearm(h, {s}, s, s)
       \/ choice = "retry" /\ Parked(s) /\ Rearm(h, Reviewed(s), s, s)
       \/ /\ choice = "proceed" /\ failed
          /\ Pass(h, s, "skipped", s) /\ UNCHANGED verdict
       \/ /\ choice = "proceed" /\ Parked(s)
          /\ Pass(h, s, "completed", s)
          /\ verdict' = [verdict EXCEPT ![s] = "pass"]
       \/ /\ choice = "abort" /\ (failed \/ Parked(s))
          /\ Begin(h, [Idle EXCEPT !.at = "block", !.levels = <<Blockable(s)>>,
                                   !.node = s, !.call = s])
          /\ UNCHANGED <<run, status, verdict>>
       \/ ~failed /\ ~Parked(s) /\ UNCHANGED <<run, status, verdict, job>>
    /\ UNCHANGED <<tasks, planner, summary, summarized>>

\* The agent waits for the answer to its call before its task ends.
DecisionTaskEnds(h, s) ==
    /\ At(h, "idle") /\ decision[s] # "none"
    /\ \A g \in Handlers : job[g].call # s
    /\ decision' = [decision EXCEPT ![s] = "none"]
    /\ Begin(h, [Idle EXCEPT !.at = "undecided", !.node = s])
    /\ UNCHANGED <<run, status, verdict, tasks, planner, summary, summarized>>

\* The fail-safe for a decision task that decided nothing.
SyncDecisionFromTask(h) ==
    /\ At(h, "undecided")
    /\ IF status[job[h].node] = "failed" THEN Blocking(h) ELSE Finish(h)
    /\ UNCHANGED <<run, status, verdict, tasks, leader>>

\* RetrySubtask, and ReassignSubtask and EditSubtaskSpec, which change the
\* agent or the spec before they do the same.
RetrySubtask(h, s) ==
    /\ At(h, "idle") /\ run # "planning" /\ status[s] \in RetryOn
    /\ Rearm(h, {s}, s, None)
    /\ UNCHANGED <<tasks, leader>>

SkipSubtask(h, s) ==
    /\ At(h, "idle") /\ run # "planning" /\ status[s] \in SkipOn
    /\ Pass(h, s, "skipped", None)
    /\ UNCHANGED <<verdict, tasks, leader>>

-----------------------------------------------------------------------------
Step(h) ==
    \/ LaunchNext(h) \/ ReadyNext(h) \/ RearmNext(h) \/ LoopDone(h)
    \/ Gate(h) \/ StartSubtask(h)
    \/ SyncSubtaskFromTask(h) \/ RevertVerdictStatus(h)
    \/ UnblockDownstream(h) \/ HandleSubtaskFailure(h) \/ ReferRejection(h)
    \/ BlockNext(h) \/ BlockLevelDone(h)
    \/ RecomputeGoalStatus(h) \/ DispatchSummary(h) \/ FinalizeGoalRun(h)
    \/ SyncDecisionFromTask(h)

\* What goes on without a call from an agent or a user.
Progress ==
    \/ SyncPlanningFromTask
    \/ \E o \in Outcomes : SyncSummaryFromTask(o)
    \/ \E h \in Handlers :
         \/ Step(h)
         \/ \E s \in Subtasks :
              DecisionTaskEnds(h, s) \/ \E end \in Ends : TaskEnds(h, s, end)

Calls(h) ==
    \/ SubmitPlan(h)
    \/ \E s \in Subtasks :
         \/ \E v \in Verdicts : SubmitVerdict(h, s, v)
         \/ \E choice \in Decisions : DecideSubtask(h, s, choice)
         \/ RetrySubtask(h, s) \/ SkipSubtask(h, s)

Next == Progress \/ \E h \in Handlers : Calls(h)

Spec == Init /\ [][Next]_vars

\* A handler runs to its end, and a task that is live ends: its agent
\* finishes it or a sweep fails it.  No call is ever due.
FairSpec == Spec /\ WF_vars(Progress)

-----------------------------------------------------------------------------
\* What a job is at each place: the steps at a subtask have one, there is a
\* level to block, and a goal is settled with an outcome.
AtSubtask == {"gate", "start", "sync", "revert", "unblock", "refer", "judge", "undecided"}
Places == AtSubtask \cup {"idle", "loop", "block", "recompute", "settle"}
Jobs == [at : Places, node : Subtasks \cup {None}, loop : {None, "launch", "ready", "rearm"},
         todo : SUBSET Subtasks, levels : Seq(SUBSET Subtasks),
         fate : {None} \cup Ends \cup Outcomes, call : Subtasks \cup {None}]
JobOK(h) ==
    /\ job[h].at \in AtSubtask => job[h].node \in Subtasks
    /\ At(h, "block") => job[h].levels # <<>>
    /\ At(h, "settle") => job[h].fate \in Outcomes
JobsTyped == job \in [Handlers -> Jobs] /\ \A h \in Handlers : JobOK(h)

TypeOK ==
    /\ run \in {"planning", "executing"} \cup Outcomes
    /\ status \in [Subtasks -> {"pending", "ready", "running", "completed",
                                "failed", "blocked", "skipped"}]
    /\ verdict \in [Subtasks -> {"pass", "reject", None}]
    /\ live \in [Subtasks -> Nat] /\ runs \in [Subtasks -> Nat]
    /\ \A s \in Subtasks : live[s] <= runs[s]
    /\ reported \subseteq Verify
    /\ planner \in BOOLEAN
    /\ decision \in [Subtasks -> {"none", "asked", "answered"}]
    /\ summary \in [Outcomes -> Nat] /\ summarized \in BOOLEAN
    /\ JobsTyped

\* No subtask has two tasks at once: two agents would work on it together
\* and the later end would overwrite the earlier one (StartGoalSubtask and
\* CompleteGoalSubtask look at no status).
OneTaskPerNode == \A s \in Subtasks : live[s] <= 1

\* The dependency gate (depsSatisfied): a subtask has a task only while all
\* it depends on is completed or skipped.
GateHolds == \A s \in Subtasks : live[s] > 0 => \A d \in Deps[s] : Succeeded(d)

\* No subtask runs beside work it depends on, above all no verifier beside
\* the work it reviews: what depsSatisfied is there to prevent.
NoOvertaking ==
    \A s \in Subtasks : live[s] > 0 => \A d \in Deps[s] : live[d] = 0

\* A goal that is reported completed has only completed subtasks, although
\* the outcome was written into the summary task before it ran.
Truthful == run = "completed" => \A s \in Subtasks : status[s] = "completed"

\* A goal that has come to rest has no subtask blocked whose dependencies
\* all succeeded since: unblockDownstream takes blocked ones up again.
NoNodeLeftBehind ==
    Settled /\ (\A h \in Handlers : At(h, "idle")) =>
        \A s \in Subtasks :
            status[s] = "blocked" => \E d \in Deps[s] : ~Succeeded(d)

\* Once the planning, every task and every handler have run to their end,
\* the goal has a final status: "never a stuck goal" (handleSubtaskFailure).
GoalSettles == []<>Settled
=============================================================================
