---------------------------- MODULE GoalRunProofs ----------------------------
(***************************************************************************)
(* Theorems about the execution of a goal, for any graph of subtasks, any  *)
(* agents' reports and any bound on retries: types, whatever the number of *)
(* handlers; and what one handler at a time guarantees.  The runs show     *)
(* what two handlers make of the same properties.                          *)
(***************************************************************************)
EXTENDS GoalRun, TLAPS

-----------------------------------------------------------------------------
(* Types.                                                                  *)

LEMMA BeginTyped ==
    ASSUME JobsTyped, NEW h \in Handlers, NEW first \in Jobs, Begin(h, first),
           first.at \in AtSubtask => first.node \in Subtasks,
           first.at = "block" => first.levels # <<>>,
           first.at = "settle" => first.fate \in Outcomes
    PROVE  JobsTyped'
    BY DEF JobsTyped, Begin, JobOK, AtSubtask, At

LEMMA IdleTyped == Idle \in Jobs /\ Idle.at = "idle"
    <1>1. <<>> \in Seq(SUBSET Subtasks)
      OBVIOUS
    <1> QED BY <1>1 DEF Idle, Jobs, Places

LEMMA FinishTyped ==
    ASSUME JobsTyped, NEW h \in Handlers, Finish(h)
    PROVE  JobsTyped'
    BY IdleTyped, BeginTyped DEF Begin, Finish, AtSubtask

\* A job that moves from place to place without another change.
LEMMA GotoTyped ==
    ASSUME JobsTyped, NEW h \in Handlers, NEW p \in Places, Goto(h, p),
           p \in AtSubtask => job[h].node \in Subtasks,
           p = "block" => job[h].levels # <<>>,
           p # "settle"
    PROVE  JobsTyped'
    <1> DEFINE r == [job[h] EXCEPT !.at = p]
    <1>1. job[h] \in Jobs
      BY DEF JobsTyped
    <1>2. r \in Jobs /\ r.at = p /\ r.node = job[h].node /\ r.levels = job[h].levels
      BY <1>1 DEF Jobs
    <1>3. Begin(h, r)
      BY <1>1 DEF Goto, Begin, JobsTyped
    <1> HIDE DEF r
    <1> QED BY <1>2, <1>3, BeginTyped

LEMMA LoopTyped ==
    ASSUME JobsTyped, NEW h \in Handlers, NEW kind \in {"launch", "ready", "rearm"},
           NEW S \in SUBSET Subtasks, Loop(h, kind, S)
    PROVE  JobsTyped'
    <1> DEFINE r == [job[h] EXCEPT !.at = "loop", !.loop = kind, !.todo = S]
    <1>1. job[h] \in Jobs
      BY DEF JobsTyped
    <1>2. r \in Jobs /\ r.at = "loop"
      BY <1>1 DEF Jobs, Places
    <1>3. Begin(h, r)
      BY <1>1 DEF Loop, Begin, JobsTyped
    <1> HIDE DEF r
    <1> QED BY <1>2, <1>3, BeginTyped DEF AtSubtask

LEMMA TakeTyped ==
    ASSUME JobsTyped, NEW h \in Handlers, NEW s \in Subtasks, Take(h, s)
    PROVE  JobsTyped'
    <1> DEFINE r == [job[h] EXCEPT !.at = "gate", !.node = s, !.todo = @ \ {s}]
    <1>1. job[h] \in Jobs
      BY DEF JobsTyped
    <1>2. r \in Jobs /\ r.at = "gate" /\ r.node = s
      BY <1>1 DEF Jobs, Places, AtSubtask
    <1>3. Begin(h, r)
      BY <1>1 DEF Take, Begin, JobsTyped
    <1> HIDE DEF r
    <1> QED BY <1>2, <1>3, BeginTyped

\* A job that is at another place with other levels.
LEMMA LevelsTyped ==
    ASSUME JobsTyped, NEW h \in Handlers, NEW p \in {"block", "recompute"},
           NEW q \in Seq(SUBSET Subtasks), p = "block" => q # <<>>,
           job' = [job EXCEPT ![h].at = p, ![h].levels = q]
    PROVE  JobsTyped'
    <1> DEFINE r == [job[h] EXCEPT !.at = p, !.levels = q]
    <1>1. job[h] \in Jobs
      BY DEF JobsTyped
    <1>2. r \in Jobs /\ r.at = p /\ r.levels = q
      BY <1>1 DEF Jobs, Places
    <1>3. Begin(h, r)
      BY <1>1 DEF Begin, JobsTyped
    <1> HIDE DEF r
    <1> QED BY <1>2, <1>3, BeginTyped DEF AtSubtask

LEMMA BlockableTyped ==
    ASSUME NEW s
    PROVE  /\ Blockable(s) \in SUBSET Subtasks
           /\ <<Blockable(s)>> \in Seq(SUBSET Subtasks) /\ <<Blockable(s)>> # <<>>
    <1>1. Blockable(s) \in SUBSET Subtasks
      BY DEF Blockable, Dependents
    <1> QED BY <1>1

LEMMA ResumeTyped ==
    ASSUME JobsTyped, NEW h \in Handlers, Resume(h)
    PROVE  JobsTyped'
    <1>1. CASE job[h].levels = <<>>
      BY <1>1, FinishTyped DEF Resume
    <1>2. CASE job[h].levels # <<>>
      BY <1>2, GotoTyped DEF Resume, Places, AtSubtask
    <1> QED BY <1>1, <1>2

\* The rest of the state.
RowsTyped ==
    /\ run \in {"planning", "executing"} \cup Outcomes
    /\ status \in [Subtasks -> {"pending", "ready", "running", "completed",
                                "failed", "blocked", "skipped"}]
    /\ verdict \in [Subtasks -> {"pass", "reject", None}]
    /\ live \in [Subtasks -> Nat] /\ runs \in [Subtasks -> Nat]
    /\ \A s \in Subtasks : live[s] <= runs[s]
    /\ reported \subseteq Verify
    /\ planner \in BOOLEAN
    /\ decision \in [Subtasks -> {"none", "asked", "answered"}]
    /\ summary \in [Outcomes -> Nat] /\ summarized \in BOOLEAN

LEMMA TypeSplit == TypeOK <=> RowsTyped /\ JobsTyped
    BY DEF TypeOK, RowsTyped

LEMMA AskTyped ==
    ASSUME RowsTyped, JobsTyped, NEW h \in Handlers, Ask(h)
    PROVE  JobsTyped' /\ decision' \in [Subtasks -> {"none", "asked", "answered"}]
    <1>1. Goto(h, "recompute") /\ "recompute" \in Places /\ "recompute" \notin AtSubtask
      BY DEF Ask, Places, AtSubtask
    <1>2. decision' \in [Subtasks -> {"none", "asked", "answered"}]
      BY DEF Ask, RowsTyped
    <1> QED BY <1>1, <1>2, GotoTyped

LEMMA BlockingTyped ==
    ASSUME JobsTyped, NEW h \in Handlers, Blocking(h)
    PROVE  JobsTyped'
    BY BlockableTyped, LevelsTyped DEF Blocking

LEMMA PlanTyped ==
    ASSUME RowsTyped, JobsTyped, NEW h \in Handlers, SubmitPlan(h)
    PROVE  RowsTyped' /\ JobsTyped'
    <1>1. Loop(h, "launch", Roots) /\ Roots \in SUBSET Subtasks
      BY DEF SubmitPlan, Roots
    <1>2. JobsTyped'
      BY <1>1, LoopTyped
    <1>3. RowsTyped'
      BY DEF SubmitPlan, RowsTyped, tasks, leader
    <1> QED BY <1>2, <1>3

LEMMA LeaderTyped ==
    ASSUME RowsTyped, JobsTyped,
           SyncPlanningFromTask \/ \E o \in Outcomes : SyncSummaryFromTask(o)
    PROVE  RowsTyped' /\ JobsTyped'
    <1>1. JobsTyped'
      BY DEF SyncPlanningFromTask, SyncSummaryFromTask, JobsTyped, JobOK, At
    <1>2. CASE SyncPlanningFromTask
      <2>1. planner' \in BOOLEAN
        BY <1>2 DEF SyncPlanningFromTask
      <2> QED BY <1>1, <1>2, <2>1 DEF SyncPlanningFromTask, RowsTyped, tasks, Outcomes
    <1>3. ASSUME NEW o \in Outcomes, SyncSummaryFromTask(o)
          PROVE  RowsTyped'
      BY <1>3 DEF SyncSummaryFromTask, RowsTyped, tasks
    <1> QED BY <1>1, <1>2, <1>3

LEMMA LoopsTyped ==
    ASSUME RowsTyped, JobsTyped, NEW h \in Handlers,
           LaunchNext(h) \/ ReadyNext(h) \/ RearmNext(h) \/ LoopDone(h)
    PROVE  RowsTyped' /\ JobsTyped'
    <1>1. CASE LoopDone(h)
      <2>1. Goto(h, "recompute") \/ Finish(h)
        BY <1>1 DEF LoopDone
      <2>2. JobsTyped'
        BY <2>1, GotoTyped, FinishTyped DEF Places, AtSubtask
      <2> QED BY <1>1, <2>2 DEF LoopDone, RowsTyped, tasks, leader
    <1>2. CASE ~LoopDone(h)
      <2>1. PICK s \in Subtasks :
              /\ Take(h, s)
              /\ status' \in {status, [status EXCEPT ![s] = "ready"]}
              /\ verdict' \in {verdict, [verdict EXCEPT ![s] = None]}
              /\ UNCHANGED <<run, tasks, leader>>
        BY <1>2 DEF LaunchNext, ReadyNext, RearmNext
      <2>2. JobsTyped'
        BY <2>1, TakeTyped
      <2>3. RowsTyped'
        BY <2>1 DEF RowsTyped, tasks, leader
      <2> QED BY <2>2, <2>3
    <1> QED BY <1>1, <1>2

LEMMA DispatchTyped ==
    ASSUME RowsTyped, JobsTyped, NEW h \in Handlers, Gate(h) \/ StartSubtask(h)
    PROVE  RowsTyped' /\ JobsTyped'
    <1>1. job[h].node \in Subtasks
      BY DEF Gate, StartSubtask, JobsTyped, JobOK, At, AtSubtask
    <1>2. \E p \in {"start", "loop"} : Goto(h, p)
      BY DEF Gate, StartSubtask
    <1>3. JobsTyped'
      BY <1>1, <1>2, GotoTyped DEF Places, AtSubtask
    <1>4. CASE Gate(h)
      BY <1>1, <1>3, <1>4 DEF Gate, RowsTyped, tasks, leader
    <1>5. CASE StartSubtask(h)
      BY <1>1, <1>3, <1>5 DEF StartSubtask, RowsTyped, leader
    <1> QED BY <1>3, <1>4, <1>5

LEMMA EndTyped ==
    ASSUME RowsTyped, JobsTyped, NEW h \in Handlers, NEW s \in Subtasks, NEW end \in Ends,
           TaskEnds(h, s, end)
    PROVE  RowsTyped' /\ JobsTyped'
    <1> DEFINE r == [Idle EXCEPT !.at = "sync", !.node = s, !.fate = end]
    <1>1. r \in Jobs /\ r.at = "sync" /\ r.node = s
      BY IdleTyped DEF Jobs, Places, AtSubtask
    <1>2. Begin(h, r)
      BY DEF TaskEnds
    <1> HIDE DEF r
    <1>3. JobsTyped'
      BY <1>1, <1>2, BeginTyped
    <1>4. RowsTyped'
      BY DEF TaskEnds, RowsTyped, leader
    <1> QED BY <1>3, <1>4

LEMMA SyncTyped ==
    ASSUME RowsTyped, JobsTyped, NEW h \in Handlers, SyncSubtaskFromTask(h)
    PROVE  RowsTyped' /\ JobsTyped'
    <1>1. job[h].node \in Subtasks
      BY DEF SyncSubtaskFromTask, JobsTyped, JobOK, At, AtSubtask
    <1>2. Finish(h) \/ \E p \in {"unblock", "refer", "judge"} : Goto(h, p)
      BY DEF SyncSubtaskFromTask
    <1>3. JobsTyped'
      BY <1>1, <1>2, GotoTyped, FinishTyped DEF Places, AtSubtask
    <1>4. /\ \E to \in {"completed", "pending", "failed"} :
               status' \in {status, [status EXCEPT ![job[h].node] = to]}
          /\ verdict' \in {verdict, [verdict EXCEPT ![job[h].node] = "pass"]}
          /\ UNCHANGED <<run, tasks, leader>>
      BY DEF SyncSubtaskFromTask
    <1>5. RowsTyped'
      BY <1>1, <1>4 DEF RowsTyped, tasks, leader
    <1> QED BY <1>3, <1>5

LEMMA VerdictTyped ==
    ASSUME RowsTyped, JobsTyped, NEW h \in Handlers,
           \/ RevertVerdictStatus(h)
           \/ \E s \in Subtasks, v \in Verdicts : SubmitVerdict(h, s, v)
    PROVE  RowsTyped' /\ JobsTyped'
    <1>1. CASE RevertVerdictStatus(h)
      <2>1. job[h].node \in Subtasks
        BY <1>1 DEF RevertVerdictStatus, JobsTyped, JobOK, At, AtSubtask
      <2>2. RowsTyped'
        BY <1>1, <2>1 DEF RevertVerdictStatus, RowsTyped, tasks, leader
      <2> QED BY <1>1, <2>2, FinishTyped DEF RevertVerdictStatus
    <1>2. ASSUME NEW s \in Subtasks, NEW v \in Verdicts, SubmitVerdict(h, s, v)
          PROVE  RowsTyped' /\ JobsTyped'
      <2> DEFINE r == [Idle EXCEPT !.at = "revert", !.node = s]
      <2>1. r \in Jobs /\ r.at = "revert" /\ r.node = s
        BY IdleTyped DEF Jobs, Places, AtSubtask
      <2>2. Begin(h, r)
        BY <1>2 DEF SubmitVerdict
      <2> HIDE DEF r
      <2>3. JobsTyped'
        BY <2>1, <2>2, BeginTyped
      <2>4. v \in {"pass", "reject"}
        BY GoalAssumption
      <2>5. RowsTyped'
        BY <1>2, <2>4 DEF SubmitVerdict, RowsTyped, leader
      <2> QED BY <2>3, <2>5
    <1> QED BY <1>1, <1>2

LEMMA AftermathTyped ==
    ASSUME RowsTyped, JobsTyped, NEW h \in Handlers,
           \/ UnblockDownstream(h) \/ HandleSubtaskFailure(h) \/ ReferRejection(h)
           \/ SyncDecisionFromTask(h)
    PROVE  RowsTyped' /\ JobsTyped'
    <1>1. job[h].node \in Subtasks
      BY DEF UnblockDownstream, HandleSubtaskFailure, ReferRejection,
         SyncDecisionFromTask,
             JobsTyped, JobOK, At, AtSubtask
    <1>2. CASE UnblockDownstream(h)
      <2>1. PICK S \in SUBSET Subtasks : Loop(h, "ready", S)
        BY <1>2 DEF UnblockDownstream, Dependents
      <2>2. JobsTyped'
        BY <2>1, LoopTyped
      <2> QED BY <1>2, <2>2 DEF UnblockDownstream, RowsTyped, tasks, leader
    <1>3. CASE HandleSubtaskFailure(h)
      <2>1. CASE Ask(h)
        BY <1>3, <2>1, AskTyped DEF HandleSubtaskFailure, Ask, RowsTyped, tasks
      <2>2. CASE ~Ask(h)
        <3>1. (Goto(h, "recompute") \/ Blocking(h)) /\ UNCHANGED leader
          BY <1>3, <2>2 DEF HandleSubtaskFailure
        <3>2. JobsTyped'
          BY <3>1, GotoTyped, BlockingTyped DEF Places, AtSubtask
        <3> QED BY <1>3, <3>1, <3>2 DEF HandleSubtaskFailure, RowsTyped, tasks, leader
      <2> QED BY <2>1, <2>2
    <1>4. CASE ReferRejection(h)
      <2>1. CASE Ask(h) /\ UNCHANGED <<status, verdict>>
        BY <1>4, <2>1, AskTyped DEF ReferRejection, Ask, RowsTyped, tasks
      <2>2. CASE ~(Ask(h) /\ UNCHANGED <<status, verdict>>)
        <3>1. JobsTyped'
          BY <1>1, <1>4, <2>2, GotoTyped DEF ReferRejection, Places, AtSubtask
        <3> QED BY <1>1, <1>4, <2>2, <3>1 DEF ReferRejection, RowsTyped, tasks, leader
      <2> QED BY <2>1, <2>2
    <1>5. CASE SyncDecisionFromTask(h)
      <2>1. Blocking(h) \/ Finish(h)
        BY <1>5 DEF SyncDecisionFromTask
      <2>2. JobsTyped'
        BY <2>1, BlockingTyped, FinishTyped
      <2> QED BY <1>5, <2>2 DEF SyncDecisionFromTask, RowsTyped, tasks, leader
    <1> QED BY <1>2, <1>3, <1>4, <1>5

LEMMA BlockTyped ==
    ASSUME RowsTyped, JobsTyped, NEW h \in Handlers, BlockNext(h) \/ BlockLevelDone(h)
    PROVE  RowsTyped' /\ JobsTyped'
    <1> DEFINE q == job[h].levels
    <1>1. q \in Seq(SUBSET Subtasks) /\ q # <<>> /\ At(h, "block") /\ job \in [Handlers -> Jobs]
      BY DEF BlockNext, BlockLevelDone, JobsTyped, JobOK, Jobs, At
    <1>2. Head(q) \in SUBSET Subtasks /\ Tail(q) \in Seq(SUBSET Subtasks)
      BY <1>1
    <1>3. CASE BlockLevelDone(h)
      <2>1. job' = [job EXCEPT ![h].at = "recompute", ![h].levels = Tail(q)]
        BY <1>3 DEF BlockLevelDone
      <2>2. JobsTyped'
        BY <1>2, <2>1, LevelsTyped
      <2> QED BY <1>3, <2>2 DEF BlockLevelDone, RowsTyped, tasks, leader
    <1>4. ASSUME NEW d \in Head(q),
                 job' = [job EXCEPT ![h].levels = <<Blockable(d), Head(@) \ {d}>> \o Tail(@)]
          PROVE  JobsTyped'
      <2> DEFINE deeper == <<Blockable(d), Head(q) \ {d}>> \o Tail(q)
      <2>1. <<Blockable(d), Head(q) \ {d}>> \in Seq(SUBSET Subtasks)
        BY <1>2, BlockableTyped
      <2>2. deeper \in Seq(SUBSET Subtasks) /\ deeper # <<>>
        BY <1>2, <2>1
      <2>3. job' = [job EXCEPT ![h].at = "block", ![h].levels = deeper]
        BY <1>1, <1>4 DEF Jobs, At
      <2> HIDE DEF deeper
      <2> QED BY <2>2, <2>3, LevelsTyped
    <1>5. CASE BlockNext(h)
      <2>1. PICK d \in Head(q) :
              /\ status' = [status EXCEPT ![d] = "blocked"]
              /\ job' = [job EXCEPT ![h].levels = <<Blockable(d), Head(@) \ {d}>> \o Tail(@)]
        BY <1>5 DEF BlockNext
      <2>2. JobsTyped'
        BY <1>4, <2>1
      <2>3. d \in Subtasks
        BY <1>2
      <2>4. UNCHANGED <<run, verdict, tasks, leader>>
        BY <1>5 DEF BlockNext
      <2>5. RowsTyped'
        BY <2>1, <2>3, <2>4 DEF RowsTyped, tasks, leader
      <2> QED BY <2>2, <2>5
    <1> QED BY <1>3, <1>5

LEMMA SettleTyped ==
    ASSUME RowsTyped, JobsTyped, NEW h \in Handlers,
           RecomputeGoalStatus(h) \/ DispatchSummary(h) \/ FinalizeGoalRun(h)
    PROVE  RowsTyped' /\ JobsTyped'
    <1>1. CASE RecomputeGoalStatus(h)
      <2>1. CASE job' = [job EXCEPT ![h].at = "settle", ![h].fate = RollUp]
        <3> DEFINE r == [job[h] EXCEPT !.at = "settle", !.fate = RollUp]
        <3>1. job[h] \in Jobs /\ RollUp \in Outcomes
          BY DEF JobsTyped, RollUp, Outcomes
        <3>2. r \in Jobs /\ r.at = "settle" /\ r.fate \in Outcomes
          BY <3>1 DEF Jobs, Places
        <3>3. Begin(h, r)
          BY <2>1, <3>1 DEF Begin, JobsTyped
        <3> HIDE DEF r
        <3> QED BY <1>1, <3>2, <3>3, BeginTyped DEF AtSubtask, RecomputeGoalStatus, RowsTyped, tasks, leader
      <2>2. CASE Resume(h)
        BY <1>1, <2>2, ResumeTyped DEF RecomputeGoalStatus, RowsTyped, tasks, leader
      <2> QED BY <1>1, <2>1, <2>2 DEF RecomputeGoalStatus
    <1>2. CASE DispatchSummary(h) \/ FinalizeGoalRun(h)
      <2>1. job[h].fate \in Outcomes
        BY <1>2 DEF DispatchSummary, FinalizeGoalRun, JobsTyped, JobOK
      <2>2. JobsTyped'
        BY <1>2, ResumeTyped DEF DispatchSummary, FinalizeGoalRun
      <2>3. RowsTyped'
        <3>1. CASE DispatchSummary(h)
          <4>1. summary' \in [Outcomes -> Nat] /\ summarized' \in BOOLEAN
            BY <2>1, <3>1 DEF DispatchSummary, RowsTyped
          <4> QED BY <3>1, <4>1 DEF DispatchSummary, RowsTyped, tasks
        <3>2. CASE FinalizeGoalRun(h)
          BY <2>1, <3>2 DEF FinalizeGoalRun, RowsTyped, tasks, leader
        <3> QED BY <1>2, <3>1, <3>2
      <2> QED BY <2>2, <2>3
    <1> QED BY <1>1, <1>2

\* A retry, and work that is let pass.
LEMMA RearmTyped ==
    ASSUME RowsTyped, JobsTyped, NEW h \in Handlers, NEW S \in SUBSET Subtasks,
           NEW s \in Subtasks, NEW call \in Subtasks \cup {None}, Rearm(h, S, s, call)
    PROVE  /\ JobsTyped' /\ UNCHANGED <<status, verdict>>
           /\ run' \in {"planning", "executing"} \cup Outcomes
    <1> DEFINE r == [Idle EXCEPT !.at = "loop", !.loop = "rearm", !.todo = S, !.node = s,
                                 !.call = call]
    <1>1. r \in Jobs /\ r.at = "loop"
      BY IdleTyped DEF Jobs, Places
    <1>2. Begin(h, r)
      BY DEF Rearm
    <1> HIDE DEF r
    <1>3. JobsTyped'
      BY <1>1, <1>2, BeginTyped DEF AtSubtask
    <1> QED BY <1>3 DEF Rearm, Revived, RowsTyped

LEMMA PassTyped ==
    ASSUME RowsTyped, JobsTyped, NEW h \in Handlers, NEW s \in Subtasks,
           NEW to \in {"skipped", "completed"}, NEW call \in Subtasks \cup {None},
           Pass(h, s, to, call)
    PROVE  /\ JobsTyped' /\ status' = [status EXCEPT ![s] = to]
           /\ run' \in {"planning", "executing"} \cup Outcomes
    <1> DEFINE r == [Idle EXCEPT !.at = "unblock", !.node = s, !.call = call]
    <1>1. r \in Jobs /\ r.at = "unblock" /\ r.node \in Subtasks
      BY IdleTyped DEF Jobs, Places, AtSubtask
    <1>2. Begin(h, r)
      BY DEF Pass
    <1> HIDE DEF r
    <1>3. JobsTyped'
      BY <1>1, <1>2, BeginTyped
    <1> QED BY <1>3 DEF Pass, Revived, RowsTyped

LEMMA DecideTyped ==
    ASSUME RowsTyped, JobsTyped, NEW h \in Handlers, NEW s \in Subtasks, NEW choice \in Decisions,
           DecideSubtask(h, s, choice)
    PROVE  RowsTyped' /\ JobsTyped'
    <1>1. decision' \in [Subtasks -> {"none", "asked", "answered"}]
          /\ UNCHANGED <<tasks, planner, summary, summarized>>
      BY DEF DecideSubtask, RowsTyped
    <1>2. {s} \in SUBSET Subtasks /\ Reviewed(s) \in SUBSET Subtasks
      BY GoalAssumption DEF Reviewed
    <1>3. CASE \E S \in SUBSET Subtasks : Rearm(h, S, s, s)
      BY <1>1, <1>3, RearmTyped DEF RowsTyped, tasks
    <1>4. CASE \E to \in {"skipped", "completed"} :
                 Pass(h, s, to, s) /\ verdict' \in {verdict, [verdict EXCEPT ![s] = "pass"]}
      BY <1>1, <1>4, PassTyped DEF RowsTyped, tasks
    <1>5. CASE /\ Begin(h, [Idle EXCEPT !.at = "block", !.levels = <<Blockable(s)>>,
                                        !.node = s, !.call = s])
               /\ UNCHANGED <<run, status, verdict>>
      <2> DEFINE r == [Idle EXCEPT !.at = "block", !.levels = <<Blockable(s)>>, !.node = s, !.call = s]
      <2>1. r \in Jobs /\ r.at = "block" /\ r.levels # <<>>
        BY IdleTyped, BlockableTyped DEF Jobs, Places
      <2>2. Begin(h, r)
        BY <1>5
      <2> HIDE DEF r
      <2>3. JobsTyped'
        BY <2>1, <2>2, BeginTyped DEF AtSubtask
      <2> QED BY <1>1, <1>5, <2>3 DEF RowsTyped, tasks
    <1>6. CASE UNCHANGED <<run, status, verdict, job>>
      BY <1>1, <1>6 DEF RowsTyped, tasks, JobsTyped, JobOK, At
    <1> QED BY <1>2, <1>3, <1>4, <1>5, <1>6 DEF DecideSubtask

LEMMA InterventionTyped ==
    ASSUME RowsTyped, JobsTyped, NEW h \in Handlers, NEW s \in Subtasks,
           DecisionTaskEnds(h, s) \/ RetrySubtask(h, s) \/ SkipSubtask(h, s)
    PROVE  RowsTyped' /\ JobsTyped'
    <1>1. CASE DecisionTaskEnds(h, s)
      <2> DEFINE r == [Idle EXCEPT !.at = "undecided", !.node = s]
      <2>1. r \in Jobs /\ r.at = "undecided" /\ r.node \in Subtasks
        BY IdleTyped DEF Jobs, Places, AtSubtask
      <2>2. Begin(h, r)
        BY <1>1 DEF DecisionTaskEnds
      <2> HIDE DEF r
      <2>3. JobsTyped'
        BY <2>1, <2>2, BeginTyped
      <2> QED BY <1>1, <2>3 DEF DecisionTaskEnds, RowsTyped, tasks
    <1>2. CASE RetrySubtask(h, s)
      BY <1>2, RearmTyped DEF RetrySubtask, RowsTyped, tasks, leader
    <1>3. CASE SkipSubtask(h, s)
      BY <1>3, PassTyped DEF SkipSubtask, RowsTyped, tasks, leader
    <1> QED BY <1>1, <1>2, <1>3

LEMMA TypeInit == Init => TypeOK
    <1>1. Init => RowsTyped
      <2> SUFFICES ASSUME Init PROVE RowsTyped
        OBVIOUS
      <2>1. planner \in BOOLEAN /\ summarized \in BOOLEAN
        BY DEF Init
      <2> QED BY <2>1 DEF Init, RowsTyped
    <1>2. Init => JobsTyped
      BY IdleTyped DEF Init, JobsTyped, JobOK, At, AtSubtask
    <1> QED BY <1>1, <1>2, TypeSplit

LEMMA TypeStep == TypeOK /\ [Next]_vars => TypeOK'
    <1> SUFFICES ASSUME RowsTyped, JobsTyped, [Next]_vars PROVE RowsTyped' /\ JobsTyped'
      BY TypeSplit, PTL
    <1>1. CASE UNCHANGED vars
      BY <1>1 DEF vars, RowsTyped, JobsTyped, JobOK, At
    <1>2. CASE SyncPlanningFromTask \/ \E o \in Outcomes : SyncSummaryFromTask(o)
      BY <1>2, LeaderTyped
    <1>3. ASSUME NEW h \in Handlers, Step(h) PROVE RowsTyped' /\ JobsTyped'
      BY <1>3, LoopsTyped, DispatchTyped, SyncTyped, VerdictTyped, AftermathTyped,
         BlockTyped,
         SettleTyped DEF Step
    <1>4. ASSUME NEW h \in Handlers, NEW s \in Subtasks,
                 DecisionTaskEnds(h, s) \/ \E end \in Ends : TaskEnds(h, s, end)
          PROVE  RowsTyped' /\ JobsTyped'
      BY <1>4, InterventionTyped, EndTyped
    <1>5. ASSUME NEW h \in Handlers, Calls(h) PROVE RowsTyped' /\ JobsTyped'
      BY <1>5, PlanTyped, VerdictTyped, DecideTyped, InterventionTyped DEF Calls
    <1> QED BY <1>1, <1>2, <1>3, <1>4, <1>5 DEF Next, Progress

\* Whatever handlers, agents and users do, the rows of the goal hold values of
\* their columns, and a handler is where its job says it can be: it has a
\* subtask, a level to block or an outcome when its next step needs one.
THEOREM TypeCorrect == Spec => []TypeOK
    BY TypeInit, TypeStep, PTL DEF Spec

-----------------------------------------------------------------------------
(* The levels of blockDownstream, which are all within one set.            *)

LEMMA OneLevel ==
    ASSUME NEW W, NEW A \in SUBSET W
    PROVE  \A i \in DOMAIN <<A>> : <<A>>[i] \subseteq W
    <1>1. DOMAIN <<A>> = {1} /\ <<A>>[1] = A
      OBVIOUS
    <1> QED BY <1>1

LEMMA PopLevel ==
    ASSUME NEW W, NEW L \in Seq(SUBSET Subtasks), L # <<>>,
           \A i \in DOMAIN L : L[i] \subseteq W
    PROVE  /\ Head(L) \subseteq W
           /\ \A i \in DOMAIN Tail(L) : Tail(L)[i] \subseteq W
    <1>1. Len(L) \in Nat /\ Len(L) > 0 /\ DOMAIN L = 1..Len(L)
      OBVIOUS
    <1>2. Head(L) = L[1] /\ Len(Tail(L)) = Len(L) - 1
          /\ \A i \in 1..(Len(L) - 1) : Tail(L)[i] = L[i + 1]
      BY <1>1
    <1>3. DOMAIN Tail(L) = 1..(Len(L) - 1)
      BY <1>1, <1>2
    <1> QED BY <1>1, <1>2, <1>3

LEMMA PushLevel ==
    ASSUME NEW W, NEW L \in Seq(SUBSET Subtasks), L # <<>>,
           \A i \in DOMAIN L : L[i] \subseteq W,
           NEW A \in SUBSET Subtasks, NEW B \in SUBSET Subtasks, A \subseteq W, B \subseteq W
    PROVE  \A i \in DOMAIN (<<A, B>> \o Tail(L)) : (<<A, B>> \o Tail(L))[i] \subseteq W
    <1>1. Tail(L) \in Seq(SUBSET Subtasks) /\ <<A, B>> \in Seq(SUBSET Subtasks)
      OBVIOUS
    <1> DEFINE T == Tail(L)
    <1>2. T \in Seq(SUBSET Subtasks) /\ \A i \in DOMAIN T : T[i] \subseteq W
      BY <1>1, PopLevel
    <1> HIDE DEF T
    <1>3. \A i \in DOMAIN (<<A, B>> \o T) : (<<A, B>> \o T)[i] \subseteq W
      <2>1. Len(T) \in Nat /\ DOMAIN T = 1..Len(T) /\ Len(<<A, B>>) = 2
        BY <1>2
      <2>2. DOMAIN (<<A, B>> \o T) = 1..(2 + Len(T))
        BY <1>1, <1>2, <2>1
      <2>3. ASSUME NEW i \in 1..(2 + Len(T))
            PROVE  (<<A, B>> \o T)[i] \subseteq W
        <3>1. CASE i <= 2
          BY <1>1, <1>2, <2>1, <3>1
        <3>2. CASE i > 2
          <4>1. (<<A, B>> \o T)[i] = T[i - 2] /\ i - 2 \in DOMAIN T
            BY <1>1, <1>2, <2>1, <3>2
          <4> QED BY <1>2, <4>1
        <3> QED BY <3>1, <3>2
      <2> QED BY <2>2, <2>3
    <1> QED BY <1>3 DEF T

-----------------------------------------------------------------------------
(* One handler at a time: three conditions, and the inductive invariant.   *)

OneAtATime == \E h : Handlers = {h}

\* Users retry only what does not run and did not succeed, and skip only
\* what neither runs nor is completed: the client offers both on failed and
\* blocked subtasks (goal-status-tree.tsx:295), the server takes any.
Considerate ==
    /\ RetryOn \cap {"running", "completed", "skipped"} = {}
    /\ SkipOn \cap {"running", "completed"} = {}

\* What a verifier reviews is built on by nobody but the verifier: a retry
\* of its rejection runs that work again, whoever else has used it.
OwnReviewer == \A v \in Verify : \A d \in Deps[v] : Dependents(d) = {v}

\* A task runs under the status "running", but for the moment in which a
\* verifier's report has completed the subtask and not taken it back.
OneLive(h) ==
    \A s \in Subtasks :
        /\ live[s] \in {0, 1}
        /\ live[s] = 1 => status[s] = "running" \/ (At(h, "revert") /\ job[h].node = s)

\* A subtask is judged only while all it depends on is done.
AskedReady == \A s \in Subtasks : decision[s] = "asked" => depsSatisfied(s)

\* Nothing moves before there is a plan.
Untouched(h) ==
    run = "planning" =>
        /\ \A s \in Subtasks : status[s] = "pending" /\ live[s] = 0 /\ decision[s] = "none"
        /\ At(h, "idle")

\* Nothing that depends on s runs or is judged.
Quiet(s) == \A x \in Dependents(s) : live[x] = 0 /\ decision[x] # "asked"

\* The subtask a handler is at, by the place.
Here(h) ==
    LET s == job[h].node IN
    /\ At(h, "revert") => live[s] = 1 /\ Quiet(s)
    /\ At(h, "sync") => live[s] = 0 /\ status[s] = "running" /\ depsSatisfied(s)
    /\ At(h, "refer") => status[s] = "pending" /\ depsSatisfied(s)
    /\ At(h, "judge") => status[s] = "failed" /\ depsSatisfied(s)
    /\ At(h, "gate") => status[s] = "ready"
    /\ At(h, "start") => status[s] = "ready" /\ depsSatisfied(s)

\* What a loop has still to do, by the loop.
InLoop(h, kind) == job[h].at \in {"loop", "gate", "start"} /\ job[h].loop = kind
Todo(h) ==
    LET todo == job[h].todo IN
    /\ job[h].at \in {"gate", "start"} => job[h].node \notin todo
    /\ InLoop(h, "launch") => \A d \in todo : status[d] = "ready"
    /\ InLoop(h, "ready") => \A d \in todo : status[d] \in {"pending", "blocked"}
    /\ InLoop(h, "rearm") =>
         /\ \A d \in todo : status[d] # "running" /\ Quiet(d)
         /\ \A d, e \in todo : d # e => d \notin Deps[e]
         /\ ~At(h, "loop") => \A d \in todo : d \notin Deps[job[h].node]
         /\ At(h, "loop") /\ todo # {} => \E s \in Subtasks : status[s] # "completed"

\* What blockDownstream has still to block waits for something.
Waits == {d \in Subtasks : status[d] \in {"pending", "ready", "blocked"} /\ ~depsSatisfied(d)}
Levels(h) ==
    IF job[h].at \in {"block", "recompute", "settle"}
    THEN \A i \in DOMAIN job[h].levels : job[h].levels[i] \subseteq Waits
    ELSE job[h].levels = <<>>

\* What a change of one status does to the dependency gate.
LEMMA GateUp ==
    ASSUME TypeOK, NEW s \in Subtasks, NEW to \in {"completed", "skipped"},
           status' = [status EXCEPT ![s] = to]
    PROVE  /\ \A x \in Subtasks : depsSatisfied(x) => depsSatisfied(x)'
           /\ \A x \in Subtasks : s \notin Deps[x] => (depsSatisfied(x)' <=> depsSatisfied(x))
    BY GoalAssumption DEF TypeOK, depsSatisfied, Succeeded

LEMMA GateSame ==
    ASSUME TypeOK, NEW s \in Subtasks, NEW to, ~Succeeded(s),
           to \notin {"completed", "skipped"}, status' = [status EXCEPT ![s] = to]
    PROVE  \A x \in Subtasks : depsSatisfied(x)' <=> depsSatisfied(x)
    BY GoalAssumption DEF TypeOK, depsSatisfied, Succeeded

\* What taking the next subtask of a loop does to the job.
LEMMA TakeEffect ==
    ASSUME JobsTyped, NEW h \in Handlers, NEW s \in Subtasks, Take(h, s)
    PROVE  /\ s \in job[h].todo /\ job'[h].at = "gate" /\ job'[h].node = s
           /\ job'[h].loop = job[h].loop /\ job'[h].todo = job[h].todo \ {s}
           /\ job'[h].levels = job[h].levels
    BY DEF Take, JobsTyped, Jobs

\* What was found complete, is going to be reported complete or has been,
\* still is.
Complete == \A s \in Subtasks : status[s] = "completed" /\ live[s] = 0
TrueEnd(h) ==
    /\ run = "completed" \/ summary["completed"] > 0 => Complete
    /\ At(h, "settle") /\ job[h].fate = "completed" => Complete

\* What is blocked waits for something, or the handler is about to take it up.
TakesUp(h, s) ==
    \/ job[h].at \in {"unblock", "revert"} /\ job[h].node \in Deps[s]
    \/ InLoop(h, "ready") /\ s \in job[h].todo
BlockedWaits(h) ==
    \A s \in Subtasks : status[s] = "blocked" => ~depsSatisfied(s) \/ TakesUp(h, s)

SerialInv(h) ==
    /\ OneLive(h) /\ GateHolds /\ AskedReady /\ Untouched(h)
    /\ Here(h) /\ Todo(h) /\ Levels(h) /\ TrueEnd(h) /\ BlockedWaits(h)

\* The types these proofs use.
LEMMA RowTypes ==
    ASSUME TypeOK, NEW h, Handlers = {h}
    PROVE  /\ status \in [Subtasks -> {"pending", "ready", "running", "completed",
                                     "failed", "blocked", "skipped"}]
           /\ live \in [Subtasks -> Nat]
           /\ decision \in [Subtasks -> {"none", "asked", "answered"}]
           /\ job[h] \in Jobs
           /\ job[h].at \in AtSubtask => job[h].node \in Subtasks
           /\ Deps \in [Subtasks -> SUBSET Subtasks]
    BY GoalAssumption DEF TypeOK, JobsTyped, JobOK

-----------------------------------------------------------------------------
(* Every action preserves it: first what the action does to the state the  *)
(* invariant is about, then one step per conjunct.                         *)

LEMMA PlanSerial ==
    ASSUME TypeOK, NEW h, Handlers = {h}, SerialInv(h), Considerate, OwnReviewer,
           SubmitPlan(h)
    PROVE  SerialInv(h)'
    <1>1. /\ At(h, "idle") /\ run = "planning" /\ run' = "executing"
          /\ status' = [s \in Subtasks |-> IF s \in Roots THEN "ready" ELSE "pending"]
          /\ job'[h].at = "loop" /\ job'[h].loop = "launch" /\ job'[h].todo = Roots
          /\ Roots \subseteq Subtasks
          /\ job'[h].levels \in {<<>>, job[h].levels}
          /\ UNCHANGED <<verdict, live, decision, summary>>
      BY DEF SubmitPlan, TypeOK, JobsTyped, Jobs, Loop, tasks, leader, Roots
    <1>a0. OneLive(h)'
      BY <1>1 DEF SerialInv, Untouched, OneLive
    <1>a1. GateHolds'
      BY <1>1 DEF SerialInv, Untouched, GateHolds
    <1>a2. AskedReady'
      BY <1>1 DEF SerialInv, Untouched, AskedReady
    <1>a3. Untouched(h)'
      BY <1>1 DEF SerialInv, Untouched, At
    <1>a4. Here(h)'
      BY <1>1 DEF SerialInv, Here, At
    <1>a5. Todo(h)'
      BY <1>1 DEF SerialInv, Todo, InLoop, At
    <1>a6. Levels(h)'
      BY <1>1 DEF SerialInv, Levels, At
    <1>a7. TrueEnd(h)'
      BY RowTypes, <1>1, GoalAssumption DEF SerialInv, Untouched, TrueEnd, Complete, At,
         Roots
    <1>a8. BlockedWaits(h)'
      BY <1>1 DEF SerialInv, BlockedWaits, TakesUp, InLoop, At
    <1> QED BY <1>a0, <1>a1, <1>a2, <1>a3, <1>a4, <1>a5, <1>a6, <1>a7, <1>a8 DEF SerialInv

LEMMA PlanningEndSerial ==
    ASSUME TypeOK, NEW h, Handlers = {h}, SerialInv(h), Considerate, OwnReviewer,
           SyncPlanningFromTask
    PROVE  SerialInv(h)'
    <1>1. /\ run' \in {run, "failed"} /\ UNCHANGED <<status, verdict, live, decision, summary, job>>
      BY DEF SyncPlanningFromTask, tasks
    <1>a0. OneLive(h)'
      BY <1>1 DEF SerialInv, OneLive, At
    <1>a1. GateHolds'
      BY <1>1 DEF SerialInv, GateHolds, Succeeded
    <1>a2. AskedReady'
      BY <1>1 DEF SerialInv, AskedReady, depsSatisfied, Succeeded
    <1>a3. Untouched(h)'
      BY <1>1 DEF SerialInv, Untouched, At
    <1>a4. Here(h)'
      BY <1>1 DEF SerialInv, Here, At, OneLive, Quiet, GateHolds, AskedReady,
         depsSatisfied, Succeeded, Dependents
    <1>a5. Todo(h)'
      BY <1>1 DEF SerialInv, Todo, InLoop, At, Quiet
    <1>a6. Levels(h)'
      BY <1>1 DEF SerialInv, Levels, At, Waits, depsSatisfied, Succeeded
    <1>a7. TrueEnd(h)'
      BY <1>1 DEF SerialInv, TrueEnd, Complete, At
    <1>a8. BlockedWaits(h)'
      BY <1>1 DEF SerialInv, BlockedWaits, TakesUp, InLoop, At, depsSatisfied, Succeeded
    <1> QED BY <1>a0, <1>a1, <1>a2, <1>a3, <1>a4, <1>a5, <1>a6, <1>a7, <1>a8 DEF SerialInv

LEMMA SummarySerial ==
    ASSUME TypeOK, NEW h, Handlers = {h}, SerialInv(h), Considerate, OwnReviewer,
           \E o \in Outcomes : SyncSummaryFromTask(o)
    PROVE  SerialInv(h)'
    <1>1. PICK o \in Outcomes :
            /\ summary[o] > 0 /\ summary' = [summary EXCEPT ![o] = @ - 1]
            /\ run' = IF run = "executing" THEN o ELSE run
            /\ UNCHANGED <<status, verdict, live, decision, job>>
            /\ summary \in [Outcomes -> Nat]
      BY DEF SyncSummaryFromTask, tasks, TypeOK
    <1>a0. OneLive(h)'
      BY <1>1 DEF SerialInv, OneLive, At
    <1>a1. GateHolds'
      BY <1>1 DEF SerialInv, GateHolds, Succeeded
    <1>a2. AskedReady'
      BY <1>1 DEF SerialInv, AskedReady, depsSatisfied, Succeeded
    <1>a3. Untouched(h)'
      BY <1>1 DEF SerialInv, Untouched, At, Outcomes
    <1>a4. Here(h)'
      BY <1>1 DEF SerialInv, Here, At, OneLive, Quiet, GateHolds, AskedReady,
         depsSatisfied, Succeeded, Dependents
    <1>a5. Todo(h)'
      BY <1>1 DEF SerialInv, Todo, InLoop, At, Quiet
    <1>a6. Levels(h)'
      BY <1>1 DEF SerialInv, Levels, At, Waits, depsSatisfied, Succeeded
    <1>a7. TrueEnd(h)'
      BY <1>1 DEF SerialInv, TrueEnd, Complete, At, Outcomes
    <1>a8. BlockedWaits(h)'
      BY <1>1 DEF SerialInv, BlockedWaits, TakesUp, InLoop, At, depsSatisfied, Succeeded
    <1> QED BY <1>a0, <1>a1, <1>a2, <1>a3, <1>a4, <1>a5, <1>a6, <1>a7, <1>a8 DEF SerialInv

LEMMA LaunchNextSerial ==
    ASSUME TypeOK, NEW h, Handlers = {h}, SerialInv(h), Considerate, OwnReviewer,
           LaunchNext(h)
    PROVE  SerialInv(h)'
    <1>2. PICK s \in Subtasks :
            /\ Looping(h, "launch") /\ Take(h, s)
            /\ UNCHANGED <<run, status, live, decision, summary>>
      BY DEF LaunchNext, tasks, leader
    <1>3. h \in Handlers /\ JobsTyped
      BY DEF TypeOK
    <1>1. /\ At(h, "loop") /\ job[h].loop = "launch" /\ s \in job[h].todo
          /\ job'[h].at = "gate" /\ job'[h].node = s /\ job'[h].loop = "launch"
          /\ job'[h].todo = job[h].todo \ {s} /\ job'[h].levels = job[h].levels
          /\ UNCHANGED <<run, status, live, decision, summary>>
      BY <1>2, <1>3, TakeEffect DEF Looping
    <1>a0. OneLive(h)'
      BY <1>1 DEF SerialInv, OneLive, At
    <1>a1. GateHolds'
      BY <1>1 DEF SerialInv, GateHolds, Succeeded
    <1>a2. AskedReady'
      BY <1>1 DEF SerialInv, AskedReady, depsSatisfied, Succeeded
    <1>a3. Untouched(h)'
      BY <1>1 DEF SerialInv, Untouched, At
    <1>a4. Here(h)'
      BY <1>1 DEF SerialInv, Here, At, Todo, InLoop
    <1>a5. Todo(h)'
      BY <1>1 DEF SerialInv, Todo, InLoop, At
    <1>a6. Levels(h)'
      BY <1>1 DEF SerialInv, Levels, At
    <1>a7. TrueEnd(h)'
      BY <1>1 DEF SerialInv, TrueEnd, Complete, At
    <1>a8. BlockedWaits(h)'
      BY <1>1 DEF SerialInv, BlockedWaits, TakesUp, InLoop, At, depsSatisfied, Succeeded
    <1> QED BY <1>a0, <1>a1, <1>a2, <1>a3, <1>a4, <1>a5, <1>a6, <1>a7, <1>a8 DEF SerialInv

LEMMA ReadyNextSerial ==
    ASSUME TypeOK, NEW h, Handlers = {h}, SerialInv(h), Considerate, OwnReviewer,
           ReadyNext(h)
    PROVE  SerialInv(h)'
    <1>2. PICK s \in Subtasks :
            /\ Looping(h, "ready") /\ Take(h, s)
            /\ status' = [status EXCEPT ![s] = "ready"]
            /\ UNCHANGED <<run, live, decision, summary>>
      BY DEF ReadyNext, tasks, leader
    <1>3. h \in Handlers /\ JobsTyped
      BY DEF TypeOK
    <1>1. /\ At(h, "loop") /\ job[h].loop = "ready" /\ s \in job[h].todo
          /\ job'[h].at = "gate" /\ job'[h].node = s /\ job'[h].loop = "ready"
          /\ job'[h].todo = job[h].todo \ {s} /\ job'[h].levels = job[h].levels
          /\ status' = [status EXCEPT ![s] = "ready"]
          /\ UNCHANGED <<run, live, decision, summary>>
      BY <1>2, <1>3, TakeEffect DEF Looping
    <1>4. live[s] = 0 /\ status[s] \in {"pending", "blocked"}
      BY <1>1 DEF SerialInv, OneLive, Todo, InLoop, At
    <1>a0. OneLive(h)'
      BY RowTypes, <1>1, <1>4 DEF SerialInv, OneLive, At
    <1>a1. GateHolds'
      BY <1>1 DEF SerialInv, GateHolds, Succeeded, OneLive, At, Here, depsSatisfied,
         Todo, InLoop, Quiet, Dependents
    <1>a2. AskedReady'
      BY <1>1 DEF SerialInv, AskedReady, depsSatisfied, Succeeded, Here, At, Quiet,
         Dependents, Todo, InLoop
    <1>a3. Untouched(h)'
      BY <1>1 DEF SerialInv, Untouched, At
    <1>a4. Here(h)'
      BY RowTypes, <1>1 DEF SerialInv, Here, At
    <1>a5. Todo(h)'
      BY <1>1 DEF SerialInv, Todo, InLoop, At
    <1>a6. Levels(h)'
      BY <1>1 DEF SerialInv, Levels, At
    <1>a7. TrueEnd(h)'
      BY <1>1 DEF SerialInv, TrueEnd, Complete, At, Todo, InLoop
    <1>a8. BlockedWaits(h)'
      BY RowTypes, <1>1 DEF SerialInv, BlockedWaits, TakesUp, InLoop, At, depsSatisfied,
         Succeeded
    <1> QED BY <1>a0, <1>a1, <1>a2, <1>a3, <1>a4, <1>a5, <1>a6, <1>a7, <1>a8 DEF SerialInv

LEMMA RearmNextSerial ==
    ASSUME TypeOK, NEW h, Handlers = {h}, SerialInv(h), Considerate, OwnReviewer,
           RearmNext(h)
    PROVE  SerialInv(h)'
    <1>2. PICK s \in Subtasks :
            /\ Looping(h, "rearm") /\ Take(h, s)
            /\ status' = [status EXCEPT ![s] = "ready"]
            /\ UNCHANGED <<run, live, decision, summary>>
      BY DEF RearmNext, tasks, leader
    <1>3. h \in Handlers /\ JobsTyped
      BY DEF TypeOK
    <1>1. /\ At(h, "loop") /\ job[h].loop = "rearm" /\ s \in job[h].todo
          /\ job'[h].at = "gate" /\ job'[h].node = s /\ job'[h].loop = "rearm"
          /\ job'[h].todo = job[h].todo \ {s} /\ job'[h].levels = job[h].levels
          /\ status' = [status EXCEPT ![s] = "ready"]
          /\ UNCHANGED <<run, live, decision, summary>>
      BY <1>2, <1>3, TakeEffect DEF Looping
    <1>a0. OneLive(h)'
      BY <1>1 DEF SerialInv, OneLive, At, Here, Todo, InLoop
    <1>a1. GateHolds'
      BY <1>1 DEF SerialInv, GateHolds, Succeeded, OneLive, At, Here, depsSatisfied,
         Todo, InLoop, Quiet, Dependents
    <1>a2. AskedReady'
      BY <1>1 DEF SerialInv, AskedReady, depsSatisfied, Succeeded, Here, At, Quiet,
         Dependents, Todo, InLoop
    <1>a3. Untouched(h)'
      BY <1>1 DEF SerialInv, Untouched, At
    <1>a4. Here(h)'
      BY RowTypes, <1>1 DEF SerialInv, Here, At
    <1>a5. Todo(h)'
      BY <1>1 DEF SerialInv, Todo, InLoop, At, Quiet
    <1>a6. Levels(h)'
      BY <1>1 DEF SerialInv, Levels, At
    <1>a7. TrueEnd(h)'
      BY <1>1 DEF SerialInv, TrueEnd, Complete, At, Todo, InLoop
    <1>a8. BlockedWaits(h)'
      BY <1>1 DEF SerialInv, BlockedWaits, TakesUp, InLoop, At, depsSatisfied, Succeeded
    <1> QED BY <1>a0, <1>a1, <1>a2, <1>a3, <1>a4, <1>a5, <1>a6, <1>a7, <1>a8 DEF SerialInv

LEMMA LoopDoneSerial ==
    ASSUME TypeOK, NEW h, Handlers = {h}, SerialInv(h), Considerate, OwnReviewer,
           LoopDone(h)
    PROVE  SerialInv(h)'
    <1>1. /\ At(h, "loop") /\ job[h].todo = {} /\ job'[h].at \in {"recompute", "idle"}
          /\ job'[h].levels \in {<<>>, job[h].levels}
          /\ UNCHANGED <<run, status, verdict, live, decision, summary>>
      BY DEF LoopDone, Goto, Finish, Idle, TypeOK, JobsTyped, Jobs, tasks, leader
    <1>a0. OneLive(h)'
      BY <1>1 DEF SerialInv, OneLive, At
    <1>a1. GateHolds'
      BY <1>1 DEF SerialInv, GateHolds, Succeeded
    <1>a2. AskedReady'
      BY <1>1 DEF SerialInv, AskedReady, depsSatisfied, Succeeded
    <1>a3. Untouched(h)'
      BY <1>1 DEF SerialInv, Untouched, At
    <1>a4. Here(h)'
      BY <1>1 DEF SerialInv, Here, At
    <1>a5. Todo(h)'
      BY <1>1 DEF SerialInv, Todo, InLoop, At
    <1>a6. Levels(h)'
      BY <1>1 DEF SerialInv, Levels, At
    <1>a7. TrueEnd(h)'
      BY <1>1 DEF SerialInv, TrueEnd, Complete, At
    <1>a8. BlockedWaits(h)'
      BY <1>1 DEF SerialInv, BlockedWaits, TakesUp, InLoop, At, depsSatisfied, Succeeded
    <1> QED BY <1>a0, <1>a1, <1>a2, <1>a3, <1>a4, <1>a5, <1>a6, <1>a7, <1>a8 DEF SerialInv

LEMMA GateSerial ==
    ASSUME TypeOK, NEW h, Handlers = {h}, SerialInv(h), Considerate, OwnReviewer,
           Gate(h)
    PROVE  SerialInv(h)'
    <1>1. /\ At(h, "gate") /\ job[h].node \in Subtasks
          /\ \/ depsSatisfied(job[h].node) /\ job'[h].at = "start" /\ UNCHANGED status
             \/ /\ ~depsSatisfied(job[h].node) /\ job'[h].at = "loop"
                /\ status' = [status EXCEPT ![job[h].node] = "pending"]
          /\ job'[h].node = job[h].node /\ job'[h].loop = job[h].loop /\ job'[h].todo = job[h].todo
          /\ job'[h].levels \in {<<>>, job[h].levels}
          /\ UNCHANGED <<run, verdict, live, decision, summary>>
      BY RowTypes DEF At, AtSubtask, Gate, TypeOK, JobsTyped, Jobs, Goto, tasks, leader
    <1>3. status[job[h].node] = "ready"
      BY <1>1 DEF SerialInv, Here
    <1>2. \A x \in Subtasks : depsSatisfied(x)' <=> depsSatisfied(x)
      <2>1. CASE UNCHANGED status
        BY <2>1 DEF depsSatisfied, Succeeded
      <2>2. CASE status' = [status EXCEPT ![job[h].node] = "pending"]
        BY <1>1, <1>3, <2>2, GateSame DEF Succeeded
      <2> QED BY <1>1, <2>1, <2>2
    <1>a0. OneLive(h)'
      BY RowTypes, <1>1 DEF SerialInv, OneLive, At, Here
    <1>a1. GateHolds'
      BY RowTypes, <1>1 DEF SerialInv, GateHolds, Succeeded, OneLive, At, Here,
         depsSatisfied
    <1>a2. AskedReady'
      BY RowTypes, <1>1 DEF SerialInv, AskedReady, depsSatisfied, Succeeded, Here, At
    <1>a3. Untouched(h)'
      BY <1>1 DEF SerialInv, Untouched, At
    <1>a4. Here(h)'
      BY <1>1 DEF SerialInv, Here, At, depsSatisfied, Succeeded
    <1>a5. Todo(h)'
      <2>1. CASE status' = [status EXCEPT ![job[h].node] = "pending"]
        BY RowTypes, <1>1, <1>3, <2>1 DEF SerialInv, Todo, Quiet, InLoop, At, Dependents
      <2>2. CASE UNCHANGED status
        BY RowTypes, <1>1, <1>3, <2>2 DEF SerialInv, Todo, Quiet, InLoop, At, Dependents
      <2> QED BY <1>1, <2>1, <2>2
    <1>a6. Levels(h)'
      BY <1>1 DEF SerialInv, Levels, At
    <1>a7. TrueEnd(h)'
      BY <1>1 DEF SerialInv, TrueEnd, Complete, At, Here
    <1>a8. BlockedWaits(h)'
      BY RowTypes, <1>1, <1>2, <1>3 DEF SerialInv, BlockedWaits, TakesUp, InLoop, At
    <1> QED BY <1>a0, <1>a1, <1>a2, <1>a3, <1>a4, <1>a5, <1>a6, <1>a7, <1>a8 DEF SerialInv

LEMMA StartSerial ==
    ASSUME TypeOK, NEW h, Handlers = {h}, SerialInv(h), Considerate, OwnReviewer,
           StartSubtask(h)
    PROVE  SerialInv(h)'
    <1>1. /\ At(h, "start") /\ job[h].node \in Subtasks /\ job'[h].at = "loop"
          /\ job'[h].node = job[h].node /\ job'[h].loop = job[h].loop /\ job'[h].todo = job[h].todo
          /\ live' = [live EXCEPT ![job[h].node] = @ + 1]
          /\ status' = [status EXCEPT ![job[h].node] = "running"]
          /\ job'[h].levels \in {<<>>, job[h].levels}
          /\ UNCHANGED <<run, verdict, decision, summary>>
      BY RowTypes DEF At, AtSubtask, StartSubtask, TypeOK, JobsTyped, Jobs, Goto, leader
    <1>a0. OneLive(h)'
      BY RowTypes, <1>1 DEF SerialInv, OneLive, At, Here
    <1>a1. GateHolds'
      BY <1>1 DEF SerialInv, GateHolds, Succeeded, OneLive, At, Here, depsSatisfied
    <1>a2. AskedReady'
      BY <1>1 DEF SerialInv, AskedReady, depsSatisfied, Succeeded, Here, At
    <1>a3. Untouched(h)'
      BY <1>1 DEF SerialInv, Untouched, At
    <1>a4. Here(h)'
      BY <1>1 DEF SerialInv, Here, At
    <1>a5. Todo(h)'
      BY <1>1 DEF SerialInv, Todo, InLoop, At, Here, Quiet, Dependents
    <1>a6. Levels(h)'
      BY <1>1 DEF SerialInv, Levels, At
    <1>a7. TrueEnd(h)'
      BY <1>1 DEF SerialInv, TrueEnd, Complete, At, Here
    <1>a8. BlockedWaits(h)'
      BY <1>1 DEF SerialInv, BlockedWaits, TakesUp, InLoop, At, depsSatisfied, Succeeded
    <1> QED BY <1>a0, <1>a1, <1>a2, <1>a3, <1>a4, <1>a5, <1>a6, <1>a7, <1>a8 DEF SerialInv

LEMMA TaskEndsSerial ==
    ASSUME TypeOK, NEW h, Handlers = {h}, SerialInv(h), Considerate, OwnReviewer,
           NEW s \in Subtasks, NEW end \in Ends, TaskEnds(h, s, end)
    PROVE  SerialInv(h)'
    <1>1. /\ At(h, "idle") /\ live[s] > 0 /\ live' = [live EXCEPT ![s] = @ - 1]
          /\ job'[h].at = "sync" /\ job'[h].node = s
          /\ job'[h].levels \in {<<>>, job[h].levels}
          /\ UNCHANGED <<run, status, verdict, decision, summary>>
      BY DEF TaskEnds, Begin, Idle, TypeOK, JobsTyped, Jobs, leader
    <1>a0. OneLive(h)'
      BY <1>1 DEF SerialInv, OneLive, At
    <1>a1. GateHolds'
      BY <1>1 DEF SerialInv, GateHolds, Succeeded
    <1>a2. AskedReady'
      BY <1>1 DEF SerialInv, AskedReady, depsSatisfied, Succeeded
    <1>a3. Untouched(h)'
      BY <1>1 DEF SerialInv, Untouched, At
    <1>a4. Here(h)'
      BY RowTypes, <1>1 DEF SerialInv, Here, At, OneLive, Quiet, GateHolds, AskedReady,
         depsSatisfied, Succeeded, Dependents
    <1>a5. Todo(h)'
      BY <1>1 DEF SerialInv, Todo, InLoop, At
    <1>a6. Levels(h)'
      BY <1>1 DEF SerialInv, Levels, At
    <1>a7. TrueEnd(h)'
      BY <1>1 DEF SerialInv, TrueEnd, Complete, At
    <1>a8. BlockedWaits(h)'
      BY <1>1 DEF SerialInv, BlockedWaits, TakesUp, InLoop, At, depsSatisfied, Succeeded
    <1> QED BY <1>a0, <1>a1, <1>a2, <1>a3, <1>a4, <1>a5, <1>a6, <1>a7, <1>a8 DEF SerialInv

LEMMA SyncSubtaskSerial ==
    ASSUME TypeOK, NEW h, Handlers = {h}, SerialInv(h), Considerate, OwnReviewer,
           SyncSubtaskFromTask(h)
    PROVE  SerialInv(h)'
    <1>1. /\ At(h, "sync") /\ job[h].node \in Subtasks
          /\ \/ /\ job'[h].at = "unblock" /\ job'[h].node = job[h].node
                /\ status' = [status EXCEPT ![job[h].node] = "completed"]
             \/ /\ job'[h].at = "refer" /\ job'[h].node = job[h].node
                /\ status' = [status EXCEPT ![job[h].node] = "pending"]
             \/ /\ job'[h].at = "judge" /\ job'[h].node = job[h].node
                /\ status' = [status EXCEPT ![job[h].node] = "failed"]
             \/ job'[h].at = "idle" /\ UNCHANGED status
          /\ job'[h].levels \in {<<>>, job[h].levels}
          /\ UNCHANGED <<run, live, decision, summary>>
      BY RowTypes DEF At, AtSubtask, SyncSubtaskFromTask, Goto, Finish, Idle, TypeOK,
         JobsTyped, Jobs, tasks, leader
    <1>3. status[job[h].node] = "running" /\ depsSatisfied(job[h].node) /\ live[job[h].node] = 0
      BY <1>1 DEF SerialInv, Here
    <1>2. job'[h].at \in {"refer", "judge"} => \A x \in Subtasks : depsSatisfied(x)' <=> depsSatisfied(x)
      <2>1. ASSUME NEW to \in {"pending", "failed"}, status' = [status EXCEPT ![job[h].node] = to]
            PROVE  \A x \in Subtasks : depsSatisfied(x)' <=> depsSatisfied(x)
        BY RowTypes, <1>1, <1>3, <2>1, GateSame DEF Succeeded
      <2> QED BY <1>1, <2>1
    <1>a0. OneLive(h)'
      BY RowTypes, <1>1 DEF SerialInv, OneLive, At, Here
    <1>a1. GateHolds'
      BY RowTypes, <1>1 DEF SerialInv, GateHolds, Succeeded, OneLive, At, Here,
         depsSatisfied
    <1>a2. AskedReady'
      BY RowTypes, <1>1 DEF SerialInv, AskedReady, depsSatisfied, Succeeded, Here, At
    <1>a3. Untouched(h)'
      BY <1>1 DEF SerialInv, Untouched, At
    <1>a4. Here(h)'
      BY RowTypes, <1>1, <1>2, <1>3 DEF SerialInv, Here, At
    <1>a5. Todo(h)'
      BY <1>1 DEF SerialInv, Todo, InLoop, At
    <1>a6. Levels(h)'
      BY <1>1 DEF SerialInv, Levels, At
    <1>a7. TrueEnd(h)'
      BY <1>1 DEF SerialInv, TrueEnd, Complete, At, Here
    <1>a8. BlockedWaits(h)'
      BY RowTypes, <1>1, SMTT(30) DEF SerialInv, BlockedWaits, TakesUp, InLoop, At, depsSatisfied,
         Succeeded, Here, Todo
    <1> QED BY <1>a0, <1>a1, <1>a2, <1>a3, <1>a4, <1>a5, <1>a6, <1>a7, <1>a8 DEF SerialInv

LEMMA SubmitVerdictSerial ==
    ASSUME TypeOK, NEW h, Handlers = {h}, SerialInv(h), Considerate, OwnReviewer,
           NEW s \in Subtasks, NEW v \in Verdicts, SubmitVerdict(h, s, v)
    PROVE  SerialInv(h)'
    <1>1. /\ At(h, "idle") /\ live[s] > 0 /\ job'[h].at = "revert" /\ job'[h].node = s
          /\ status' = [status EXCEPT ![s] = "completed"]
          /\ job'[h].levels \in {<<>>, job[h].levels}
          /\ UNCHANGED <<run, live, decision, summary>>
      BY DEF SubmitVerdict, Begin, Idle, TypeOK, JobsTyped, Jobs, leader
    <1>a0. OneLive(h)'
      BY <1>1 DEF SerialInv, OneLive, At
    <1>a1. GateHolds'
      BY <1>1 DEF SerialInv, GateHolds, Succeeded
    <1>a2. AskedReady'
      BY <1>1 DEF SerialInv, AskedReady, depsSatisfied, Succeeded
    <1>a3. Untouched(h)'
      BY <1>1 DEF SerialInv, Untouched, At
    <1>a4. Here(h)'
      BY <1>1 DEF SerialInv, Here, At, OneLive, Quiet, GateHolds, AskedReady,
         depsSatisfied, Succeeded, Dependents
    <1>a5. Todo(h)'
      BY <1>1 DEF SerialInv, Todo, InLoop, At
    <1>a6. Levels(h)'
      BY <1>1 DEF SerialInv, Levels, At
    <1>a7. TrueEnd(h)'
      BY <1>1 DEF SerialInv, TrueEnd, Complete, At
    <1>a8. BlockedWaits(h)'
      BY <1>1 DEF SerialInv, BlockedWaits, TakesUp, InLoop, At, depsSatisfied, Succeeded
    <1> QED BY <1>a0, <1>a1, <1>a2, <1>a3, <1>a4, <1>a5, <1>a6, <1>a7, <1>a8 DEF SerialInv

LEMMA RevertSerial ==
    ASSUME TypeOK, NEW h, Handlers = {h}, SerialInv(h), Considerate, OwnReviewer,
           RevertVerdictStatus(h)
    PROVE  SerialInv(h)'
    <1>1. /\ At(h, "revert") /\ job'[h].at = "idle"
          /\ status' = [status EXCEPT ![job[h].node] = "running"]
          /\ job'[h].levels \in {<<>>, job[h].levels}
          /\ UNCHANGED <<run, verdict, live, decision, summary>>
      BY DEF RevertVerdictStatus, Finish, Idle, TypeOK, JobsTyped, Jobs, tasks, leader
    <1>a0. OneLive(h)'
      BY RowTypes, <1>1 DEF SerialInv, OneLive, At
    <1>a1. GateHolds'
      BY <1>1 DEF SerialInv, GateHolds, Succeeded, OneLive, At, Here, depsSatisfied,
         Todo, InLoop, Quiet, Dependents
    <1>a2. AskedReady'
      BY <1>1 DEF SerialInv, AskedReady, depsSatisfied, Succeeded, Here, At, Quiet,
         Dependents
    <1>a3. Untouched(h)'
      BY <1>1 DEF SerialInv, Untouched, At
    <1>a4. Here(h)'
      BY <1>1 DEF SerialInv, Here, At
    <1>a5. Todo(h)'
      BY <1>1 DEF SerialInv, Todo, InLoop, At
    <1>a6. Levels(h)'
      BY <1>1 DEF SerialInv, Levels, At
    <1>a7. TrueEnd(h)'
      BY <1>1 DEF SerialInv, TrueEnd, Complete, At, Here
    <1>a8. BlockedWaits(h)'
      BY RowTypes, <1>1 DEF SerialInv, BlockedWaits, TakesUp, InLoop, At, depsSatisfied,
         Succeeded
    <1> QED BY <1>a0, <1>a1, <1>a2, <1>a3, <1>a4, <1>a5, <1>a6, <1>a7, <1>a8 DEF SerialInv

LEMMA UnblockSerial ==
    ASSUME TypeOK, NEW h, Handlers = {h}, SerialInv(h), Considerate, OwnReviewer,
           UnblockDownstream(h)
    PROVE  SerialInv(h)'
    <1>1. /\ At(h, "unblock") /\ job'[h].at = "loop" /\ job'[h].loop = "ready"
          /\ job'[h].todo = {d \in Dependents(job[h].node) :
                               depsSatisfied(d) /\ status[d] \in {"pending", "blocked"}}
          /\ job'[h].levels \in {<<>>, job[h].levels}
          /\ UNCHANGED <<run, status, verdict, live, decision, summary>>
      BY DEF UnblockDownstream, Loop, TypeOK, JobsTyped, Jobs, tasks, leader
    <1>a0. OneLive(h)'
      BY <1>1 DEF SerialInv, OneLive, At
    <1>a1. GateHolds'
      BY <1>1 DEF SerialInv, GateHolds, Succeeded
    <1>a2. AskedReady'
      BY <1>1 DEF SerialInv, AskedReady, depsSatisfied, Succeeded
    <1>a3. Untouched(h)'
      BY <1>1 DEF SerialInv, Untouched, At
    <1>a4. Here(h)'
      BY <1>1 DEF SerialInv, Here, At
    <1>a5. Todo(h)'
      BY <1>1 DEF SerialInv, Todo, InLoop, At
    <1>a6. Levels(h)'
      BY <1>1 DEF SerialInv, Levels, At
    <1>a7. TrueEnd(h)'
      BY <1>1 DEF SerialInv, TrueEnd, Complete, At
    <1>a8. BlockedWaits(h)'
      BY <1>1 DEF SerialInv, BlockedWaits, TakesUp, InLoop, At, depsSatisfied,
         Succeeded, Dependents
    <1> QED BY <1>a0, <1>a1, <1>a2, <1>a3, <1>a4, <1>a5, <1>a6, <1>a7, <1>a8 DEF SerialInv

LEMMA JudgeSerial ==
    ASSUME TypeOK, NEW h, Handlers = {h}, SerialInv(h), Considerate, OwnReviewer,
           HandleSubtaskFailure(h)
    PROVE  SerialInv(h)'
    <1>1. /\ At(h, "judge") /\ job[h].node \in Subtasks
          /\ \/ /\ job'[h].at = "recompute" /\ job'[h].levels = job[h].levels
                /\ decision' \in {decision, [decision EXCEPT ![job[h].node] = "asked"]}
             \/ /\ job'[h].at = "block" /\ job'[h].levels = <<Blockable(job[h].node)>>
                /\ UNCHANGED decision
          /\ UNCHANGED <<run, status, live, summary>>
      BY RowTypes DEF HandleSubtaskFailure, Ask, Blocking, Goto, TypeOK, JobsTyped,
         Jobs, tasks, leader, At, AtSubtask
    <1>2. Blockable(job[h].node) \subseteq Waits
      BY RowTypes, <1>1 DEF SerialInv, Here, Waits, Blockable, Dependents,
         depsSatisfied, Succeeded, At
    <1>a0. OneLive(h)'
      BY <1>1 DEF SerialInv, OneLive, At
    <1>a1. GateHolds'
      BY <1>1 DEF SerialInv, GateHolds, Succeeded
    <1>a2. AskedReady'
      BY RowTypes, <1>1 DEF SerialInv, AskedReady, depsSatisfied, Succeeded, Here, At
    <1>a3. Untouched(h)'
      BY <1>1 DEF SerialInv, Untouched, At
    <1>a4. Here(h)'
      BY <1>1 DEF SerialInv, Here, At
    <1>a5. Todo(h)'
      BY <1>1 DEF SerialInv, Todo, InLoop, At
    <1>a6. Levels(h)'
      BY RowTypes, <1>1, <1>2, OneLevel DEF SerialInv, Levels, Waits, depsSatisfied,
         Succeeded, At
    <1>a7. TrueEnd(h)'
      BY <1>1 DEF SerialInv, TrueEnd, Complete, At
    <1>a8. BlockedWaits(h)'
      BY <1>1 DEF SerialInv, BlockedWaits, TakesUp, InLoop, At, depsSatisfied, Succeeded
    <1> QED BY <1>a0, <1>a1, <1>a2, <1>a3, <1>a4, <1>a5, <1>a6, <1>a7, <1>a8 DEF SerialInv

LEMMA ReferSerial ==
    ASSUME TypeOK, NEW h, Handlers = {h}, SerialInv(h), Considerate, OwnReviewer,
           ReferRejection(h)
    PROVE  SerialInv(h)'
    <1>1. /\ At(h, "refer") /\ job[h].node \in Subtasks
          /\ \/ /\ job'[h].at = "recompute" /\ job'[h].levels = job[h].levels
                /\ decision' = [decision EXCEPT ![job[h].node] = "asked"]
                /\ UNCHANGED <<status, summary>>
             \/ /\ job'[h].at = "unblock" /\ job'[h].node = job[h].node
                /\ status' = [status EXCEPT ![job[h].node] = "completed"]
                /\ UNCHANGED <<decision, summary>>
          /\ job'[h].levels \in {<<>>, job[h].levels}
          /\ UNCHANGED <<run, live>>
      BY RowTypes DEF At, AtSubtask, ReferRejection, Ask, Goto, TypeOK, JobsTyped, Jobs,
         tasks, leader
    <1>2. /\ \A x \in Subtasks : depsSatisfied(x) => depsSatisfied(x)'
          /\ \A x \in Subtasks : job[h].node \notin Deps[x] => (depsSatisfied(x)' <=> depsSatisfied(x))
      <2>1. CASE UNCHANGED status
        BY <2>1 DEF depsSatisfied, Succeeded
      <2>2. CASE status' = [status EXCEPT ![job[h].node] = "completed"]
        BY RowTypes, <1>1, <2>2, GateUp
      <2> QED BY <1>1, <2>1, <2>2
    <1>a0. OneLive(h)'
      BY RowTypes, <1>1 DEF SerialInv, OneLive, At, Here
    <1>a1. GateHolds'
      BY RowTypes, <1>1 DEF SerialInv, GateHolds, Succeeded
    <1>a2. AskedReady'
      BY RowTypes, <1>1, <1>2 DEF SerialInv, AskedReady, Here, depsSatisfied, Succeeded
    <1>a3. Untouched(h)'
      BY <1>1 DEF SerialInv, Untouched, At
    <1>a4. Here(h)'
      BY <1>1 DEF SerialInv, Here, At
    <1>a5. Todo(h)'
      BY <1>1 DEF SerialInv, Todo, InLoop, At
    <1>a6. Levels(h)'
      BY <1>1 DEF SerialInv, Levels, At
    <1>a7. TrueEnd(h)'
      BY RowTypes, <1>1 DEF SerialInv, TrueEnd, Complete, At
    <1>a8. BlockedWaits(h)'
      <2>1. \A x \in Subtasks : ~TakesUp(h, x)
        BY <1>1 DEF TakesUp, InLoop, At
      <2>2. CASE UNCHANGED status
        BY <1>2, <2>1, <2>2 DEF SerialInv, BlockedWaits, depsSatisfied, Succeeded
      <2>3. CASE status' = [status EXCEPT ![job[h].node] = "completed"]
        <3>1. status[job[h].node] = "pending"
          BY <1>1 DEF SerialInv, Here
        <3>2. job'[h].at = "unblock" /\ job'[h].node = job[h].node
          BY RowTypes, <1>1, <2>3, <3>1
        <3> QED BY RowTypes, <1>1, <1>2, <2>1, <2>3, <3>2 DEF SerialInv, BlockedWaits, TakesUp
      <2> QED BY <1>1, <2>2, <2>3
    <1> QED BY <1>a0, <1>a1, <1>a2, <1>a3, <1>a4, <1>a5, <1>a6, <1>a7, <1>a8 DEF SerialInv

LEMMA BlockNextSerial ==
    ASSUME TypeOK, NEW h, Handlers = {h}, SerialInv(h), Considerate, OwnReviewer,
           BlockNext(h)
    PROVE  SerialInv(h)'
    <1>2. PICK d \in Head(job[h].levels) :
            /\ status' = [status EXCEPT ![d] = "blocked"]
            /\ job' = [job EXCEPT ![h].levels = <<Blockable(d), Head(@) \ {d}>> \o Tail(@)]
            /\ At(h, "block") /\ UNCHANGED <<run, live, decision, summary>>
      BY DEF BlockNext, tasks, leader
    <1> DEFINE L == job[h].levels
    <1>3. L \in Seq(SUBSET Subtasks) /\ L # <<>> /\ \A i \in DOMAIN L : L[i] \subseteq Waits
      BY RowTypes, <1>2 DEF Jobs, SerialInv, Levels, At, TypeOK, JobsTyped, JobOK
    <1>4. Head(L) \subseteq Waits /\ d \in Waits
      BY <1>2, <1>3, PopLevel
    <1>1. /\ At(h, "block") /\ job'[h].at = "block" /\ d \in Subtasks
          /\ status[d] \in {"pending", "ready", "blocked"} /\ ~depsSatisfied(d)
          /\ status' = [status EXCEPT ![d] = "blocked"]
          /\ UNCHANGED <<run, live, decision, summary>>
      BY <1>2, <1>4 DEF TypeOK, JobsTyped, Jobs, At, Waits
    <1>5. job'[h].levels = <<Blockable(d), Head(L) \ {d}>> \o Tail(L)
      BY <1>2 DEF TypeOK, JobsTyped, Jobs
    <1>6. \A x \in Subtasks : depsSatisfied(x)' <=> depsSatisfied(x)
      BY RowTypes, <1>1, GateSame DEF Succeeded
    <1>7. Waits \subseteq Waits' /\ Blockable(d) \subseteq Waits'
      BY RowTypes, <1>1, <1>6 DEF Waits, Blockable, Dependents, depsSatisfied, Succeeded
    <1>a0. OneLive(h)'
      BY <1>1 DEF SerialInv, OneLive, At
    <1>a1. GateHolds'
      BY <1>1 DEF SerialInv, GateHolds, Succeeded
    <1>a2. AskedReady'
      BY RowTypes, <1>1, <1>6 DEF SerialInv, AskedReady
    <1>a3. Untouched(h)'
      BY <1>1 DEF SerialInv, Untouched, At
    <1>a4. Here(h)'
      BY <1>1 DEF SerialInv, Here, At
    <1>a5. Todo(h)'
      BY <1>1 DEF SerialInv, Todo, InLoop, At
    <1>a6. Levels(h)'
      <2>1. /\ Blockable(d) \in SUBSET Subtasks /\ Head(L) \ {d} \in SUBSET Subtasks
            /\ Head(L) \ {d} \subseteq Waits' /\ \A i \in DOMAIN L : L[i] \subseteq Waits'
        BY <1>3, <1>4, <1>7 DEF Blockable, Dependents, Waits
      <2> HIDE DEF L
      <2>2. \A i \in DOMAIN job'[h].levels : job'[h].levels[i] \subseteq Waits'
        BY <1>3, <1>5, <1>7, <2>1, PushLevel
      <2> QED BY <1>1, <2>2 DEF Levels
    <1>a7. TrueEnd(h)'
      BY <1>1 DEF SerialInv, TrueEnd, Complete, At
    <1>a8. BlockedWaits(h)'
      BY RowTypes, <1>1, <1>6 DEF SerialInv, BlockedWaits, TakesUp, InLoop, At
    <1> QED BY <1>a0, <1>a1, <1>a2, <1>a3, <1>a4, <1>a5, <1>a6, <1>a7, <1>a8 DEF SerialInv

LEMMA BlockLevelDoneSerial ==
    ASSUME TypeOK, NEW h, Handlers = {h}, SerialInv(h), Considerate, OwnReviewer,
           BlockLevelDone(h)
    PROVE  SerialInv(h)'
    <1>1. /\ At(h, "block") /\ job'[h].at = "recompute" /\ job'[h].levels = Tail(job[h].levels)
          /\ UNCHANGED <<run, status, verdict, live, decision, summary>>
      BY DEF BlockLevelDone, TypeOK, JobsTyped, Jobs, tasks, leader
    <1>a0. OneLive(h)'
      BY <1>1 DEF SerialInv, OneLive, At
    <1>a1. GateHolds'
      BY <1>1 DEF SerialInv, GateHolds, Succeeded
    <1>a2. AskedReady'
      BY <1>1 DEF SerialInv, AskedReady, depsSatisfied, Succeeded
    <1>a3. Untouched(h)'
      BY <1>1 DEF SerialInv, Untouched, At
    <1>a4. Here(h)'
      BY <1>1 DEF SerialInv, Here, At
    <1>a5. Todo(h)'
      BY <1>1 DEF SerialInv, Todo, InLoop, At
    <1>a6. Levels(h)'
      BY RowTypes, <1>1, PopLevel DEF SerialInv, Levels, Waits, depsSatisfied,
         Succeeded, At, Jobs, TypeOK, JobsTyped, JobOK
    <1>a7. TrueEnd(h)'
      BY <1>1 DEF SerialInv, TrueEnd, Complete, At
    <1>a8. BlockedWaits(h)'
      BY <1>1 DEF SerialInv, BlockedWaits, TakesUp, InLoop, At, depsSatisfied, Succeeded
    <1> QED BY <1>a0, <1>a1, <1>a2, <1>a3, <1>a4, <1>a5, <1>a6, <1>a7, <1>a8 DEF SerialInv

LEMMA RecomputeSerial ==
    ASSUME TypeOK, NEW h, Handlers = {h}, SerialInv(h), Considerate, OwnReviewer,
           RecomputeGoalStatus(h)
    PROVE  SerialInv(h)'
    <1>1. /\ At(h, "recompute")
          /\ \/ /\ job'[h].at = "settle" /\ job'[h].fate = RollUp /\ job'[h].levels = job[h].levels
             \/ job'[h].at = "idle" /\ job'[h].levels = <<>>
             \/ job'[h].at = "block" /\ job'[h].levels = job[h].levels
          /\ UNCHANGED <<run, status, verdict, live, decision, summary>>
      BY DEF RecomputeGoalStatus, Resume, Finish, Goto, Idle, TypeOK, JobsTyped, Jobs,
         tasks, leader
    <1>a0. OneLive(h)'
      BY <1>1 DEF SerialInv, OneLive, At
    <1>a1. GateHolds'
      BY <1>1 DEF SerialInv, GateHolds, Succeeded
    <1>a2. AskedReady'
      BY <1>1 DEF SerialInv, AskedReady, depsSatisfied, Succeeded
    <1>a3. Untouched(h)'
      BY <1>1 DEF SerialInv, Untouched, At
    <1>a4. Here(h)'
      BY <1>1 DEF SerialInv, Here, At
    <1>a5. Todo(h)'
      BY <1>1 DEF SerialInv, Todo, InLoop, At
    <1>a6. Levels(h)'
      BY <1>1 DEF SerialInv, Levels, At, Waits, depsSatisfied, Succeeded
    <1>a7. TrueEnd(h)'
      BY <1>1 DEF SerialInv, TrueEnd, Complete, At, OneLive, RollUp
    <1>a8. BlockedWaits(h)'
      BY <1>1 DEF SerialInv, BlockedWaits, TakesUp, InLoop, At, depsSatisfied, Succeeded
    <1> QED BY <1>a0, <1>a1, <1>a2, <1>a3, <1>a4, <1>a5, <1>a6, <1>a7, <1>a8 DEF SerialInv

LEMMA SettleSerial ==
    ASSUME TypeOK, NEW h, Handlers = {h}, SerialInv(h), Considerate, OwnReviewer,
           DispatchSummary(h) \/ FinalizeGoalRun(h)
    PROVE  SerialInv(h)'
    <1>1. /\ At(h, "settle") /\ job[h].fate \in Outcomes /\ summary \in [Outcomes -> Nat]
          /\ (job'[h].at = "idle" /\ job'[h].levels = <<>>) \/ (job'[h].at = "block" /\ job'[h].levels = job[h].levels)
          /\ \/ summary' = [summary EXCEPT ![job[h].fate] = @ + 1] /\ UNCHANGED run
             \/ run' = job[h].fate /\ UNCHANGED summary
          /\ UNCHANGED <<status, verdict, live, decision>>
      BY DEF DispatchSummary, FinalizeGoalRun, Resume, Finish, Goto, Idle, TypeOK,
         JobsTyped, JobOK, Jobs,
             tasks, leader
    <1>a0. OneLive(h)'
      BY <1>1 DEF SerialInv, OneLive, At
    <1>a1. GateHolds'
      BY <1>1 DEF SerialInv, GateHolds, Succeeded
    <1>a2. AskedReady'
      BY <1>1 DEF SerialInv, AskedReady, depsSatisfied, Succeeded
    <1>a3. Untouched(h)'
      BY <1>1 DEF SerialInv, Untouched, At, Outcomes
    <1>a4. Here(h)'
      BY <1>1 DEF SerialInv, Here, At
    <1>a5. Todo(h)'
      BY <1>1 DEF SerialInv, Todo, InLoop, At
    <1>a6. Levels(h)'
      BY <1>1 DEF SerialInv, Levels, At, Waits, depsSatisfied, Succeeded
    <1>a7. TrueEnd(h)'
      BY <1>1 DEF SerialInv, TrueEnd, Complete, At, Outcomes
    <1>a8. BlockedWaits(h)'
      BY <1>1 DEF SerialInv, BlockedWaits, TakesUp, InLoop, At, depsSatisfied, Succeeded
    <1> QED BY <1>a0, <1>a1, <1>a2, <1>a3, <1>a4, <1>a5, <1>a6, <1>a7, <1>a8 DEF SerialInv

LEMMA DecisionEndSerial ==
    ASSUME TypeOK, NEW h, Handlers = {h}, SerialInv(h), Considerate, OwnReviewer,
           NEW s \in Subtasks, DecisionTaskEnds(h, s)
    PROVE  SerialInv(h)'
    <1>1. /\ At(h, "idle") /\ job'[h].at = "undecided" /\ job'[h].node = s
          /\ decision' = [decision EXCEPT ![s] = "none"]  /\ decision[s] # "none"
          /\ job'[h].levels \in {<<>>, job[h].levels}
          /\ UNCHANGED <<run, status, verdict, live, summary>>
      BY DEF DecisionTaskEnds, Begin, Idle, TypeOK, JobsTyped, Jobs, tasks
    <1>a0. OneLive(h)'
      BY <1>1 DEF SerialInv, OneLive, At
    <1>a1. GateHolds'
      BY <1>1 DEF SerialInv, GateHolds, Succeeded
    <1>a2. AskedReady'
      BY <1>1 DEF SerialInv, AskedReady, depsSatisfied, Succeeded
    <1>a3. Untouched(h)'
      BY <1>1 DEF SerialInv, Untouched, At
    <1>a4. Here(h)'
      BY <1>1 DEF SerialInv, Here, At
    <1>a5. Todo(h)'
      BY <1>1 DEF SerialInv, Todo, InLoop, At
    <1>a6. Levels(h)'
      BY <1>1 DEF SerialInv, Levels, At
    <1>a7. TrueEnd(h)'
      BY <1>1 DEF SerialInv, TrueEnd, Complete, At
    <1>a8. BlockedWaits(h)'
      BY <1>1 DEF SerialInv, BlockedWaits, TakesUp, InLoop, At, depsSatisfied, Succeeded
    <1> QED BY <1>a0, <1>a1, <1>a2, <1>a3, <1>a4, <1>a5, <1>a6, <1>a7, <1>a8 DEF SerialInv

LEMMA FailSafeSerial ==
    ASSUME TypeOK, NEW h, Handlers = {h}, SerialInv(h), Considerate, OwnReviewer,
           SyncDecisionFromTask(h)
    PROVE  SerialInv(h)'
    <1>1. /\ At(h, "undecided") /\ job[h].node \in Subtasks
          /\ \/ /\ status[job[h].node] = "failed" /\ job'[h].at = "block"
                /\ job'[h].levels = <<Blockable(job[h].node)>>
             \/ job'[h].at = "idle" /\ job'[h].levels = <<>>
          /\ UNCHANGED <<run, status, live, decision, summary>>
      BY RowTypes DEF SyncDecisionFromTask, Blocking, Finish, Idle, TypeOK, JobsTyped,
         Jobs, tasks, leader, At, AtSubtask
    <1>2. status[job[h].node] = "failed" => Blockable(job[h].node) \subseteq Waits
      BY RowTypes, <1>1 DEF Waits, Blockable, Dependents, depsSatisfied, Succeeded
    <1>a0. OneLive(h)'
      BY <1>1 DEF SerialInv, OneLive, At
    <1>a1. GateHolds'
      BY <1>1 DEF SerialInv, GateHolds, Succeeded
    <1>a2. AskedReady'
      BY <1>1 DEF SerialInv, AskedReady, depsSatisfied, Succeeded
    <1>a3. Untouched(h)'
      BY <1>1 DEF SerialInv, Untouched, At
    <1>a4. Here(h)'
      BY <1>1 DEF SerialInv, Here, At
    <1>a5. Todo(h)'
      BY <1>1 DEF SerialInv, Todo, InLoop, At
    <1>a6. Levels(h)'
      BY RowTypes, <1>1, <1>2, OneLevel DEF SerialInv, Levels, Waits, depsSatisfied,
         Succeeded, At
    <1>a7. TrueEnd(h)'
      BY <1>1 DEF SerialInv, TrueEnd, Complete, At
    <1>a8. BlockedWaits(h)'
      BY <1>1 DEF SerialInv, BlockedWaits, TakesUp, InLoop, At, depsSatisfied, Succeeded
    <1> QED BY <1>a0, <1>a1, <1>a2, <1>a3, <1>a4, <1>a5, <1>a6, <1>a7, <1>a8 DEF SerialInv

LEMMA RearmSerial ==
    ASSUME TypeOK, NEW h, Handlers = {h}, SerialInv(h), Considerate, OwnReviewer,
           NEW S \in SUBSET Subtasks, At(h, "idle"), run # "planning", run' # "planning",
           job'[h].at = "loop", job'[h].loop = "rearm", job'[h].todo = S, job'[h].levels =
           <<>>, run' = "completed" => run = "completed", \A x \in Subtasks : decision'[x]
           = "asked" => decision[x] = "asked", \A d \in S : status[d] # "running" /\ \A x
           \in Dependents(d) : live[x] = 0 /\ decision'[x] # "asked", \A d, e \in S : d # e
           => d \notin Deps[e], S # {} => \E s \in Subtasks : status[s] # "completed",
           UNCHANGED <<status, live, summary>>
    PROVE  SerialInv(h)'
    <1>1. \A x \in Subtasks : depsSatisfied(x)' <=> depsSatisfied(x)
      BY DEF depsSatisfied, Succeeded
    <1>a0. OneLive(h)'
      BY DEF SerialInv, OneLive, At
    <1>a1. GateHolds'
      BY DEF SerialInv, GateHolds, Succeeded
    <1>a2. AskedReady'
      BY DEF SerialInv, AskedReady, depsSatisfied, Succeeded
    <1>a3. Untouched(h)'
      BY DEF SerialInv, Untouched, At
    <1>a4. Here(h)'
      BY DEF SerialInv, Here, At
    <1>a5. Todo(h)'
      BY DEF SerialInv, Todo, InLoop, At, Quiet
    <1>a6. Levels(h)'
      BY DEF SerialInv, Levels
    <1>a7. TrueEnd(h)'
      BY DEF SerialInv, TrueEnd, Complete, At
    <1>a8. BlockedWaits(h)'
      BY <1>1 DEF SerialInv, BlockedWaits, TakesUp, InLoop, At
    <1> QED BY <1>a0, <1>a1, <1>a2, <1>a3, <1>a4, <1>a5, <1>a6, <1>a7, <1>a8 DEF SerialInv

LEMMA PassSerial ==
    ASSUME TypeOK, NEW h, Handlers = {h}, SerialInv(h), Considerate, OwnReviewer,
           NEW s \in Subtasks, NEW to \in {"completed", "skipped"}, At(h, "idle"), run #
           "planning", run' # "planning", job'[h].at = "unblock", job'[h].node = s,
           job'[h].levels = <<>>, run' = "completed" => run = "completed", \A x \in
           Subtasks : decision'[x] = "asked" => decision[x] = "asked", status[s] \notin
           {"running", "completed"}, status' = [status EXCEPT ![s] = to], UNCHANGED <<live,
           summary>>
    PROVE  SerialInv(h)'
    <1>2. live[s] = 0 /\ ~Complete
      BY DEF SerialInv, OneLive, Complete, At
    <1>1. /\ \A x \in Subtasks : depsSatisfied(x) => depsSatisfied(x)'
          /\ \A x \in Subtasks : s \notin Deps[x] => (depsSatisfied(x)' <=> depsSatisfied(x))
      BY RowTypes, GateUp
    <1>a0. OneLive(h)'
      BY <1>2 DEF SerialInv, OneLive, At
    <1>a1. GateHolds'
      BY <1>2 DEF SerialInv, GateHolds, Succeeded
    <1>a2. AskedReady'
      BY <1>2 DEF SerialInv, AskedReady, depsSatisfied, Succeeded
    <1>a3. Untouched(h)'
      BY <1>2 DEF SerialInv, Untouched, At
    <1>a4. Here(h)'
      BY <1>2 DEF SerialInv, Here, At
    <1>a5. Todo(h)'
      BY <1>2 DEF SerialInv, Todo, InLoop, At
    <1>a6. Levels(h)'
      BY <1>2 DEF SerialInv, Levels
    <1>a7. TrueEnd(h)'
      BY <1>2 DEF SerialInv, TrueEnd, Complete, At
    <1>a8. BlockedWaits(h)'
      BY <1>1, <1>2 DEF SerialInv, BlockedWaits, TakesUp, InLoop, At
    <1> QED BY <1>a0, <1>a1, <1>a2, <1>a3, <1>a4, <1>a5, <1>a6, <1>a7, <1>a8 DEF SerialInv

LEMMA AbortSerial ==
    ASSUME TypeOK, NEW h, Handlers = {h}, SerialInv(h), Considerate, OwnReviewer,
           NEW s \in Subtasks, At(h, "idle"), run # "planning", job'[h].at = "block",
           job'[h].levels = <<Blockable(s)>>, \A x \in Subtasks : decision'[x] = "asked" =>
           decision[x] = "asked", ~Succeeded(s), UNCHANGED <<run, status, live, summary>>
    PROVE  SerialInv(h)'
    <1>1. \A x \in Subtasks : depsSatisfied(x)' <=> depsSatisfied(x)
      BY DEF depsSatisfied, Succeeded
    <1>2. Blockable(s) \subseteq Waits
      BY RowTypes DEF Waits, Blockable, Dependents, depsSatisfied, Succeeded
    <1>a0. OneLive(h)'
      BY DEF SerialInv, OneLive, At
    <1>a1. GateHolds'
      BY DEF SerialInv, GateHolds, Succeeded
    <1>a2. AskedReady'
      BY DEF SerialInv, AskedReady, depsSatisfied, Succeeded
    <1>a3. Untouched(h)'
      BY DEF SerialInv, Untouched, At
    <1>a4. Here(h)'
      BY DEF SerialInv, Here, At
    <1>a5. Todo(h)'
      BY DEF SerialInv, Todo, InLoop, At
    <1>a6. Levels(h)'
      BY RowTypes, <1>1, <1>2, OneLevel DEF SerialInv, Levels, Waits, depsSatisfied,
         Succeeded, At
    <1>a7. TrueEnd(h)'
      BY DEF SerialInv, TrueEnd, Complete, At
    <1>a8. BlockedWaits(h)'
      BY <1>1 DEF SerialInv, BlockedWaits, TakesUp, InLoop, At
    <1> QED BY <1>a0, <1>a1, <1>a2, <1>a3, <1>a4, <1>a5, <1>a6, <1>a7, <1>a8 DEF SerialInv

-----------------------------------------------------------------------------
(* Judgements and interventions are one of these three.                    *)

LEMMA NotPlanning ==
    ASSUME TypeOK, NEW h, SerialInv(h), NEW s \in Subtasks, decision[s] = "asked"
    PROVE  run # "planning"
    BY DEF SerialInv, Untouched

\* What a retry begins with.
LEMMA RearmEffect ==
    ASSUME TypeOK, NEW h \in Handlers, NEW S \in SUBSET Subtasks, NEW s \in Subtasks, NEW call,
           Rearm(h, S, s, call)
    PROVE  /\ job'[h].at = "loop" /\ job'[h].loop = "rearm" /\ job'[h].todo = S
           /\ job'[h].levels = <<>>
           /\ run' \in {run, "executing"} /\ (run = "completed" => run' = run)
           /\ UNCHANGED <<status, verdict>>
    BY DEF Rearm, Revived, Begin, Idle, TypeOK, JobsTyped

LEMMA PassEffect ==
    ASSUME TypeOK, NEW h \in Handlers, NEW s \in Subtasks, NEW to, NEW call, Pass(h, s, to, call)
    PROVE  /\ job'[h].at = "unblock" /\ job'[h].node = s /\ job'[h].levels = <<>>
           /\ run' \in {run, "executing"} /\ (run = "completed" => run' = run)
           /\ status' = [status EXCEPT ![s] = to]
    BY DEF Pass, Revived, Begin, Idle, TypeOK, JobsTyped

\* A subtask that neither runs nor succeeded is one nothing builds on yet.
LEMMA Unbuilt ==
    ASSUME TypeOK, NEW h, SerialInv(h), At(h, "idle"), NEW s \in Subtasks,
           status[s] \notin {"running", "completed", "skipped"}
    PROVE  live[s] = 0 /\ \A x \in Dependents(s) : live[x] = 0 /\ decision[x] # "asked"
    <1>1. live[s] = 0
      BY DEF SerialInv, OneLive, At
    <1>2. ASSUME NEW x \in Dependents(s)
          PROVE  live[x] = 0 /\ decision[x] # "asked"
      <2>1. ~depsSatisfied(x) /\ x \in Subtasks
        BY GoalAssumption DEF Dependents, depsSatisfied, Succeeded
      <2>2. live[x] = 0
        BY <2>1 DEF SerialInv, GateHolds, OneLive, depsSatisfied
      <2> QED BY <2>1, <2>2 DEF SerialInv, AskedReady
    <1> QED BY <1>1, <1>2

LEMMA RetrySerial ==
    ASSUME TypeOK, NEW h, Handlers = {h}, SerialInv(h), Considerate, OwnReviewer,
           NEW s \in Subtasks, RetrySubtask(h, s)
    PROVE  SerialInv(h)'
    <1>1. /\ At(h, "idle") /\ run # "planning" /\ Rearm(h, {s}, s, None)
          /\ status[s] \notin {"running", "completed", "skipped"}
          /\ UNCHANGED <<live, decision, summary>>
      BY DEF RetrySubtask, Considerate, tasks, leader
    <1>2. /\ live[s] = 0 /\ \A x \in Dependents(s) : live[x] = 0 /\ decision[x] # "asked"
          /\ {s} \in SUBSET Subtasks /\ h \in Handlers
      BY <1>1, Unbuilt
    <1>3. /\ job'[h].at = "loop" /\ job'[h].loop = "rearm" /\ job'[h].todo = {s}
          /\ job'[h].levels = <<>> /\ UNCHANGED status
          /\ run' # "planning" /\ (run' = "completed" => run = "completed")
      BY <1>1, <1>2, RearmEffect
    <1> QED BY <1>1, <1>2, <1>3, RearmSerial

LEMMA SkipSerial ==
    ASSUME TypeOK, NEW h, Handlers = {h}, SerialInv(h), Considerate, OwnReviewer,
           NEW s \in Subtasks, SkipSubtask(h, s)
    PROVE  SerialInv(h)'
    <1>1. /\ At(h, "idle") /\ run # "planning" /\ Pass(h, s, "skipped", None)
          /\ status[s] \notin {"running", "completed"} /\ h \in Handlers
          /\ UNCHANGED <<live, decision, summary>>
      BY DEF SkipSubtask, Considerate, tasks, leader
    <1>2. /\ job'[h].at = "unblock" /\ job'[h].node = s /\ job'[h].levels = <<>>
          /\ status' = [status EXCEPT ![s] = "skipped"]
          /\ run' # "planning" /\ (run' = "completed" => run = "completed")
      BY <1>1, PassEffect
    <1> QED BY <1>1, <1>2, PassSerial

LEMMA DecideSerial ==
    ASSUME TypeOK, NEW h, Handlers = {h}, SerialInv(h), Considerate, OwnReviewer,
           NEW s \in Subtasks, NEW choice \in Decisions, DecideSubtask(h, s, choice)
    PROVE  SerialInv(h)'
    <1>1. /\ At(h, "idle") /\ decision[s] = "asked" /\ UNCHANGED <<live, summary>>
          /\ run # "planning" /\ h \in Handlers
          /\ decision'[s] = "answered" /\ depsSatisfied(s)
          /\ \A x \in Subtasks : decision'[x] = "asked" => decision[x] = "asked"
      BY NotPlanning DEF DecideSubtask, tasks, TypeOK, SerialInv, AskedReady
    <1>2. ASSUME NEW S \in SUBSET Subtasks, Rearm(h, S, s, s),
                 \A d \in S : status[d] # "running" /\ \A x \in Dependents(d) :
                                 live[x] = 0 /\ decision'[x] # "asked",
                 \A d, e \in S : d # e => d \notin Deps[e],
                 status[s] # "completed"
          PROVE  SerialInv(h)'
      <2>1. /\ job'[h].at = "loop" /\ job'[h].loop = "rearm" /\ job'[h].todo = S
            /\ job'[h].levels = <<>> /\ UNCHANGED status
            /\ run' # "planning" /\ (run' = "completed" => run = "completed")
        BY <1>1, <1>2, RearmEffect
      <2> QED BY <1>1, <1>2, <2>1, RearmSerial
    <1>3. CASE status[s] = "failed" /\ Rearm(h, {s}, s, s)
      <2>1. \A x \in Dependents(s) : live[x] = 0 /\ decision[x] # "asked"
        BY <1>1, <1>3, Unbuilt
      <2>2. \A x \in Dependents(s) : decision'[x] # "asked"
        BY <1>1, <2>1 DEF Dependents
      <2> QED BY <1>2, <1>3, <2>1, <2>2
    <1>4. CASE Parked(s) /\ Rearm(h, Reviewed(s), s, s)
      <2>1. /\ s \in Verify /\ status[s] = "pending" /\ Deps[s] \in SUBSET Subtasks
            /\ \A d \in Deps[s] : Dependents(d) = {s} /\ Succeeded(d)
        BY <1>1, <1>4, GoalAssumption DEF Parked, OwnReviewer, depsSatisfied
      <2>2. live[s] = 0
        BY <1>1, <2>1, Unbuilt
      <2>3. \A d \in Deps[s] : /\ status[d] # "running"
                               /\ \A x \in Dependents(d) : live[x] = 0 /\ decision'[x] # "asked"
        BY <1>1, <2>1, <2>2 DEF Succeeded
      <2>4. \A d, e \in Deps[s] : d # e => d \notin Deps[e]
        BY <2>1 DEF Dependents, Succeeded
      <2> QED BY <1>2, <1>4, <2>1, <2>3, <2>4 DEF Reviewed
    <1>5. CASE \E to \in {"completed", "skipped"} :
                  (status[s] = "failed" \/ Parked(s)) /\ Pass(h, s, to, s)
      <2>1. PICK to \in {"completed", "skipped"} :
               status[s] \in {"failed", "pending"} /\ Pass(h, s, to, s)
        BY <1>5 DEF Parked
      <2>2. /\ job'[h].at = "unblock" /\ job'[h].node = s /\ job'[h].levels = <<>>
            /\ status' = [status EXCEPT ![s] = to]
            /\ run' # "planning" /\ (run' = "completed" => run = "completed")
        BY <1>1, <2>1, PassEffect
      <2> QED BY <1>1, <2>1, <2>2, PassSerial
    <1>6. CASE /\ status[s] = "failed" \/ Parked(s)
               /\ Begin(h, [Idle EXCEPT !.at = "block", !.levels = <<Blockable(s)>>,
                                        !.node = s, !.call = s])
               /\ UNCHANGED <<run, status>>
      <2>1. job'[h].at = "block" /\ job'[h].levels = <<Blockable(s)>> /\ ~Succeeded(s)
        BY <1>1, <1>6 DEF Begin, Idle, TypeOK, JobsTyped, Parked, Succeeded
      <2> QED BY <1>1, <1>6, <2>1, AbortSerial
    <1>7. CASE UNCHANGED <<run, status, job>>
      BY <1>1, <1>7 DEF SerialInv, OneLive, GateHolds, AskedReady, Untouched, Here,
         Todo, Levels,
                        TrueEnd, BlockedWaits, Waits, Quiet, Complete, TakesUp, InLoop,
                        depsSatisfied, Succeeded, Dependents, At
    <1>8. \/ status[s] = "failed" /\ Rearm(h, {s}, s, s)
          \/ Parked(s) /\ Rearm(h, Reviewed(s), s, s)
          \/ status[s] = "failed" /\ Pass(h, s, "skipped", s)
          \/ Parked(s) /\ Pass(h, s, "completed", s)
          \/ /\ status[s] = "failed" \/ Parked(s)
             /\ Begin(h, [Idle EXCEPT !.at = "block", !.levels = <<Blockable(s)>>,
                                      !.node = s, !.call = s])
             /\ UNCHANGED <<run, status>>
          \/ UNCHANGED <<run, status, job>>
      BY Zenon DEF DecideSubtask
    <1> QED BY <1>3, <1>4, <1>5, <1>6, <1>7, <1>8

-----------------------------------------------------------------------------
LEMMA SerialInit ==
    ASSUME Init, NEW h \in Handlers
    PROVE  SerialInv(h)
    BY DEF Init, Idle, Outcomes, SerialInv, OneLive, GateHolds, AskedReady, Untouched,
       Here, Todo,
           Levels, TrueEnd, BlockedWaits, Waits, Quiet, Complete, TakesUp, InLoop, At

LEMMA SerialStep ==
    ASSUME TypeOK, NEW h, Handlers = {h}, SerialInv(h), Considerate, OwnReviewer, [Next]_vars
    PROVE  SerialInv(h)'
    <1>1. ASSUME Step(h)
          PROVE  SerialInv(h)'
      BY <1>1, LaunchNextSerial, ReadyNextSerial, RearmNextSerial, LoopDoneSerial,
         GateSerial,
         StartSerial, SyncSubtaskSerial, RevertSerial, UnblockSerial, JudgeSerial, ReferSerial,
         BlockNextSerial, BlockLevelDoneSerial, RecomputeSerial, SettleSerial, FailSafeSerial
         DEF Step
    <1>2. ASSUME Calls(h)
          PROVE  SerialInv(h)'
      BY <1>2, PlanSerial, SubmitVerdictSerial, DecideSerial, RetrySerial, SkipSerial
         DEF Calls
    <1>3. ASSUME Progress
          PROVE  SerialInv(h)'
      BY <1>1, <1>3, PlanningEndSerial, SummarySerial, DecisionEndSerial, TaskEndsSerial
         DEF Progress
    <1>4. CASE UNCHANGED vars
      BY <1>4 DEF vars, SerialInv, OneLive, GateHolds, AskedReady, Untouched, Here,
         Todo, Levels,
                  TrueEnd, BlockedWaits, Waits, Quiet, Complete, TakesUp, InLoop,
                  depsSatisfied, Succeeded, Dependents, At
    <1> QED BY <1>2, <1>3, <1>4 DEF Next

\* While one handler is at work, all of the invariant holds in every state.
THEOREM SerialCorrect ==
    ASSUME NEW h, Handlers = {h}, Considerate, OwnReviewer
    PROVE  Spec => []SerialInv(h)
    <1>1. Init => SerialInv(h)
      BY SerialInit
    <1>2. TypeOK /\ SerialInv(h) /\ [Next]_vars => SerialInv(h)'
      BY SerialStep
    <1> QED BY <1>1, <1>2, TypeCorrect, PTL DEF Spec

\* What the invariant gives in every state.
LEMMA SerialGives ==
    ASSUME TypeOK, NEW h, Handlers = {h}, SerialInv(h)
    PROVE  OneTaskPerNode /\ GateHolds /\ NoOvertaking /\ Truthful /\ NoNodeLeftBehind
    <1>1. OneTaskPerNode
      BY DEF SerialInv, OneLive, OneTaskPerNode
    <1>2. GateHolds
      BY DEF SerialInv
    <1>3. NoOvertaking
      <2>1. SUFFICES ASSUME NEW s \in Subtasks, live[s] > 0, NEW d \in Deps[s], live[d] = 1
                     PROVE  FALSE
        BY GoalAssumption DEF SerialInv, OneLive, NoOvertaking
      <2>2. d \in Subtasks /\ Succeeded(d) /\ s \in Dependents(d) /\ live[s] # 0
        BY <2>1, GoalAssumption DEF SerialInv, GateHolds, Dependents
      <2>3. At(h, "revert") /\ job[h].node = d
        BY <2>1, <2>2 DEF SerialInv, OneLive, Succeeded
      <2> QED BY <2>2, <2>3 DEF SerialInv, Here, Quiet
    <1>4. Truthful
      BY DEF SerialInv, TrueEnd, Complete, Truthful
    <1>5. NoNodeLeftBehind
      BY DEF SerialInv, BlockedWaits, TakesUp, InLoop, At, NoNodeLeftBehind,
         depsSatisfied
    <1> QED BY <1>1, <1>2, <1>3, <1>4, <1>5

LEMMA SerialAlways ==
    ASSUME OneAtATime, Considerate, OwnReviewer
    PROVE  Spec => [](OneTaskPerNode /\ GateHolds /\ NoOvertaking /\ Truthful /\ NoNodeLeftBehind)
    <1>1. PICK h \in Handlers : Handlers = {h}
      BY DEF OneAtATime
    <1>2. Spec => []SerialInv(h)
      BY <1>1, SerialCorrect
    <1>3. TypeOK /\ SerialInv(h) =>
            OneTaskPerNode /\ GateHolds /\ NoOvertaking /\ Truthful /\ NoNodeLeftBehind
      BY <1>1, SerialGives
    <1> QED BY <1>2, <1>3, TypeCorrect, PTL

-----------------------------------------------------------------------------
\* A handler at a time, a subtask never has two tasks.
THEOREM SerialOneTask ==
    ASSUME OneAtATime, Considerate, OwnReviewer PROVE Spec => []OneTaskPerNode
    BY SerialAlways, PTL

\* ... and has one only while all it depends on has succeeded: a success is
\* not taken back while anything builds on it.
THEOREM SerialGate ==
    ASSUME OneAtATime, Considerate, OwnReviewer PROVE Spec => []GateHolds
    BY SerialAlways, PTL

\* ... nor beside work it depends on: no verifier beside what it reviews.
THEOREM SerialOvertakesNone ==
    ASSUME OneAtATime, Considerate, OwnReviewer PROVE Spec => []NoOvertaking
    BY SerialAlways, PTL

\* The outcome that a summary carried is still true when it is written.
THEOREM SerialTruthful ==
    ASSUME OneAtATime, Considerate, OwnReviewer PROVE Spec => []Truthful
    BY SerialAlways, PTL

\* What an earlier failure blocked is taken up once its dependencies are done.
THEOREM SerialLeavesNone ==
    ASSUME OneAtATime, Considerate, OwnReviewer PROVE Spec => []NoNodeLeftBehind
    BY SerialAlways, PTL

=============================================================================
