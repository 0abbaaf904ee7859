------------------------- MODULE DesktopDaemonProofs ------------------------
(***************************************************************************)
(* The commands of the desktop client and their guard, for any number of   *)
(* functions in flight, commands and faults.                               *)
(***************************************************************************)
EXTENDS DesktopDaemon, TLAPS

Indices == Slots \cup {Timer}
OpsTyped == ops \in [Indices -> Op]

Does == {"none", "poll", "ensure", "autoStart", "syncToken", "stop", "start"}
Places == {"ask", "land", "cli", "shut", "exit", "failed"}
Daemons == [phase : {"down", "coming", "up"}, old : BOOLEAN, busy : BOOLEAN]

-----------------------------------------------------------------------------
(* What a step does to the functions in flight: it goes on with one and    *)
(* leaves what that holds, or it ends one and releases what that held.     *)
GoesOn(i) ==
  /\ ops' \in [Indices -> Op]
  /\ \A j \in Indices : ops'[j].guarded = ops[j].guarded
  /\ operationInProgress' = operationInProgress

LetsGo(i) ==
  /\ ops' \in [Indices -> Op]
  /\ \A j \in Indices \ {i} : ops'[j].guarded = ops[j].guarded
  /\ ops'[i].guarded = FALSE
  /\ operationInProgress' = (operationInProgress /\ ~ops[i].guarded)

LEMMA NewTypes ==
  ASSUME NEW do \in Does, NEW g \in BOOLEAN
  PROVE  New(do, g) \in Op /\ New(do, g).guarded = g
  BY DEF New, Op, Does

LEMMA AnswerTypes == TypeOK => Answer \in Health \cup {None}
  BY DEF TypeOK, Answer, Health

LEMMA GoesTypes ==
  ASSUME OpsTyped, NEW i \in Indices, NEW do \in Does, NEW at \in Places,
         Goes(i, do, at), UNCHANGED operationInProgress
  PROVE  GoesOn(i)
  <1>1. ops[i] \in Op
    BY DEF OpsTyped
  <1>2. [ops[i] EXCEPT !.do = do, !.at = at, !.saw = None, !.again = ops[i].again /\ do = "stop"] \in Op
    BY <1>1 DEF Op, Does, Places
  <1>3. [ops[i] EXCEPT !.do = do, !.at = at, !.saw = None, !.again = ops[i].again /\ do = "stop"].guarded
        = ops[i].guarded
    BY <1>1 DEF Op
  <1> QED BY <1>2, <1>3 DEF OpsTyped, Goes, GoesOn

LEMMA StopsTypes ==
  ASSUME OpsTyped, NEW i \in Indices, NEW again \in BOOLEAN,
         Stops(i, again), UNCHANGED operationInProgress
  PROVE  GoesOn(i)
  <1>1. ops[i] \in Op
    BY DEF OpsTyped
  <1> DEFINE s == [ops[i] EXCEPT !.do = "stop", !.at = "cli", !.saw = None, !.again = again]
  <1>2. s \in Op /\ s.guarded = ops[i].guarded
    BY <1>1 DEF Op
  <1>3. ops' = [ops EXCEPT ![i] = s]
    BY DEF Stops, OpsTyped
  <1> HIDE DEF s
  <1> QED BY <1>2, <1>3 DEF OpsTyped, GoesOn

LEMMA DoneTypes ==
  ASSUME OpsTyped, NEW i \in Indices, Done(i)
  PROVE  LetsGo(i)
  <1>1. NoOp \in Op /\ NoOp.guarded = FALSE
    BY NewTypes DEF NoOp, Does
  <1> QED BY <1>1 DEF OpsTyped, Done, Release, LetsGo

LEMMA EndsWithPollTypes ==
  ASSUME OpsTyped, NEW i \in Indices, EndsWithPoll(i)
  PROVE  LetsGo(i)
  <1>1. New("poll", FALSE) \in Op /\ New("poll", FALSE).guarded = FALSE
    BY NewTypes DEF Does
  <1> QED BY <1>1 DEF OpsTyped, EndsWithPoll, Release, LetsGo

(* The guard survives both kinds of step.                                  *)
LEMMA GoesOnKeeps ==
  ASSUME OpsTyped, GuardHeld, NEW i \in Indices, GoesOn(i)
  PROVE  GuardHeld'
  <1>1. Holders' = Holders
    BY DEF Holders, GoesOn, OpsTyped
  <1> QED BY <1>1 DEF GuardHeld, GoesOn

LEMMA LetsGoKeeps ==
  ASSUME OpsTyped, GuardHeld, operationInProgress \in BOOLEAN, NEW i \in Indices, LetsGo(i)
  PROVE  GuardHeld'
  <1>1. Holders' = Holders \ {i}
    BY DEF Holders, LetsGo, OpsTyped
  <1>2. CASE ops[i].guarded
    <2>1. Holders = {i}
      BY <1>2 DEF GuardHeld, Holders, OpsTyped
    <2> QED BY <1>1, <1>2, <2>1 DEF GuardHeld, LetsGo
  <1>3. CASE ~ops[i].guarded
    <2>1. i \notin Holders
      BY <1>3 DEF Holders
    <2> QED BY <1>1, <1>3, <2>1 DEF GuardHeld, LetsGo
  <1> QED BY <1>2, <1>3

-----------------------------------------------------------------------------
(* Each action is one of the two on the function it runs, and keeps the    *)
(* other variables in their types.                                         *)
Ways(i) == GoesOn(i) \/ LetsGo(i)

Rest ==
  /\ shown \in Setup \cup {"stopped", "starting", "running", "stopping"}
  /\ pendingVersionRestart \in BOOLEAN /\ operationInProgress \in BOOLEAN /\ stopAsked \in BOOLEAN
  /\ daemon \in Daemons
  /\ commands \in 0..MaxCommands /\ tasks \in 0..MaxTasks /\ happened \subseteq Faults

LEMMA TypeParts == TypeOK <=> Rest /\ OpsTyped
  BY DEF TypeOK, Rest, OpsTyped, Indices, Daemons

LEMMA TypePartsNext == Rest' /\ OpsTyped' => TypeOK'
  BY DEF TypeOK, Rest, OpsTyped, Indices, Daemons

LEMMA DownTypes ==
  Down \in Daemons /\ [Down EXCEPT !.phase = "coming"] \in Daemons
  BY DEF Down, Daemons

LEMMA WaysType ==
  ASSUME NEW i \in Indices, Ways(i), operationInProgress \in BOOLEAN
  PROVE  OpsTyped' /\ operationInProgress' \in BOOLEAN
  BY DEF Ways, GoesOn, LetsGo, OpsTyped

LEMMA WaysGuard ==
  ASSUME Rest, OpsTyped, GuardHeld, NEW i \in Indices, Ways(i)
  PROVE  GuardHeld'
  BY GoesOnKeeps, LetsGoKeeps DEF Ways, Rest

LEMMA AskWays ==
  ASSUME Rest, OpsTyped, NEW i \in Indices, Ask(i)
  PROVE  Ways(i) /\ Rest'
  <1>1. Answer \in Health \cup {None}
    BY AnswerTypes, TypeParts
  <1>2. ops[i] \in Op
    BY DEF OpsTyped
  <1> DEFINE heard == [ops[i] EXCEPT !.at = "land", !.saw = Answer]
             lost == [ops[i] EXCEPT !.at = "land"]
  <1>3. /\ heard \in Op /\ heard.guarded = ops[i].guarded
        /\ lost \in Op /\ lost.guarded = ops[i].guarded
    BY <1>1, <1>2 DEF Op
  <1>4. ops' = [ops EXCEPT ![i] = heard] \/ ops' = [ops EXCEPT ![i] = lost]
    BY DEF Ask, OpsTyped
  <1> HIDE DEF heard, lost
  <1>5. GoesOn(i)
    BY <1>3, <1>4 DEF GoesOn, OpsTyped, Ask
  <1>6. Rest'
    BY DEF Rest, Ask, Fault
  <1> QED BY <1>5, <1>6 DEF Ways

LEMMA ActWays ==
  ASSUME Rest, OpsTyped, NEW i \in Indices, Act(i)
  PROVE  Ways(i) /\ Rest'
  <1> USE DEF Does, Places
  <1>1. CASE Poll(i)
    <2>1. Ways(i)
      BY <1>1, DoneTypes, GoesTypes DEF Poll, Ways
    <2>2. shown' \in Setup \cup {"stopped", "starting", "running", "stopping"}
      BY <1>1 DEF Poll, Status
    <2> QED BY <1>1, <2>1, <2>2, WaysType DEF Poll, Act, Rest
  <1>2. CASE EnsureRunningDaemonVersionMatches(i)
    <2>1. Ways(i)
      BY <1>2, DoneTypes, StopsTypes DEF EnsureRunningDaemonVersionMatches, Ways
    <2>2. shown' \in Setup \cup {"stopped", "starting", "running", "stopping"}
      BY <1>2 DEF EnsureRunningDaemonVersionMatches, Stops, Rest
    <2>3. pendingVersionRestart' \in BOOLEAN
      BY <1>2 DEF EnsureRunningDaemonVersionMatches
    <2> QED BY <2>1, <2>2, <2>3, WaysType DEF Act, Rest
  <1>3. CASE AutoStart(i)
    <2>1. Ways(i)
      BY <1>3, GoesTypes DEF AutoStart, Ways
    <2> QED BY <1>3, <2>1 DEF AutoStart, Act, Rest
  <1>4. CASE SyncToken(i)
    <2>1. Ways(i)
      BY <1>4, DoneTypes, StopsTypes DEF SyncToken, Ways
    <2>2. shown' \in Setup \cup {"stopped", "starting", "running", "stopping"}
      BY <1>4 DEF SyncToken, Stops, Rest
    <2> QED BY <1>4, <2>1, <2>2, WaysType DEF SyncToken, Act, Rest
  <1>5. CASE StartDaemon(i)
    <2>1. Ways(i)
      BY <1>5, EndsWithPollTypes, GoesTypes DEF StartDaemon, Ways
    <2>2. shown' \in Setup \cup {"stopped", "starting", "running", "stopping"}
      BY <1>5 DEF StartDaemon, Rest
    <2> QED BY <1>5, <2>1, <2>2, WaysType DEF StartDaemon, Act, Rest
  <1> QED BY <1>1, <1>2, <1>3, <1>4, <1>5 DEF Act

LEMMA CliWays ==
  ASSUME Rest, OpsTyped, NEW i \in Indices, Cli(i)
  PROVE  Ways(i) /\ Rest'
  <1> USE DEF Does, Places
  <1>0. UNCHANGED operationInProgress
    BY DEF Cli
  <1>1. CASE StopAsks(i)
    <2> DEFINE s == [ops[i] EXCEPT !.at = IF Answer # None THEN "shut" ELSE "exit"]
    <2>1. s \in Op /\ s.guarded = ops[i].guarded
      BY DEF Op, OpsTyped
    <2>2. ops' = [ops EXCEPT ![i] = s]
      BY <1>1 DEF StopAsks, OpsTyped
    <2> HIDE DEF s
    <2>3. GoesOn(i)
      BY <1>0, <2>1, <2>2 DEF GoesOn, OpsTyped
    <2> QED BY <1>1, <2>3 DEF StopAsks, Cli, Rest, Ways
  <1>2. CASE StopShuts(i)
    <2>1. Ways(i)
      BY <1>0, <1>2, GoesTypes DEF StopShuts, Ways
    <2>2. daemon' \in Daemons
      BY <1>2, DownTypes DEF StopShuts, Rest
    <2>3. happened' \subseteq Faults
      BY <1>2 DEF StopShuts, Fault, Rest
    <2> QED BY <2>1, <2>2, <2>3 DEF Cli, Rest
  <1>3. CASE StartSpawns(i)
    <2>1. Ways(i)
      BY <1>0, <1>3, GoesTypes DEF StartSpawns, Ways
    <2>2. daemon' \in Daemons
      BY <1>3, DownTypes DEF StartSpawns, Rest
    <2> QED BY <1>3, <2>1, <2>2 DEF StartSpawns, Cli, Rest
  <1> QED BY <1>1, <1>2, <1>3 DEF Cli

LEMMA ExitWays ==
  ASSUME Rest, OpsTyped, NEW i \in Indices, Exit(i)
  PROVE  Ways(i) /\ Rest'
  <1> USE DEF Does, Places
  <1>1. Ways(i)
    BY EndsWithPollTypes, GoesTypes, DoneTypes DEF Exit, Ways
  <1>2. shown' \in Setup \cup {"stopped", "starting", "running", "stopping"}
    BY DEF Exit, Rest
  <1> QED BY <1>1, <1>2, WaysType DEF Exit, Rest

-----------------------------------------------------------------------------
(* The steps that begin a function: on an index that is free.              *)
Begins(i) ==
  /\ ops[i].guarded = FALSE
  /\ ops' \in [Indices -> Op]
  /\ \A j \in Indices \ {i} : ops'[j].guarded = ops[j].guarded
  /\ \/ ops'[i].guarded = FALSE /\ operationInProgress' = operationInProgress
     \/ ops'[i].guarded = TRUE /\ operationInProgress = FALSE /\ operationInProgress' = TRUE

LEMMA BeginsGuard ==
  ASSUME OpsTyped, GuardHeld, NEW i \in Indices, Begins(i)
  PROVE  GuardHeld'
  <1>1. CASE ops'[i].guarded = FALSE /\ operationInProgress' = operationInProgress
    <2>1. Holders' = Holders
      BY <1>1 DEF Holders, Begins, OpsTyped
    <2> QED BY <1>1, <2>1 DEF GuardHeld
  <1>2. CASE ops'[i].guarded = TRUE /\ operationInProgress = FALSE /\ operationInProgress' = TRUE
    <2>1. Holders = {}
      BY <1>2 DEF GuardHeld
    <2>2. Holders' = {i}
      BY <1>2, <2>1 DEF Holders, Begins, OpsTyped
    <2> QED BY <1>2, <2>2 DEF GuardHeld
  <1> QED BY <1>1, <1>2 DEF Begins

LEMMA PollBegins ==
  ASSUME OpsTyped, ops[Timer].guarded = FALSE, UNCHANGED operationInProgress,
         ops' = [ops EXCEPT ![Timer] = New("poll", FALSE)]
  PROVE  Begins(Timer)
  <1>1. New("poll", FALSE) \in Op /\ New("poll", FALSE).guarded = FALSE
    BY NewTypes DEF Does
  <1>2. Timer \in Indices
    BY DEF Indices
  <1> QED BY <1>1, <1>2 DEF Begins, OpsTyped

LEMMA BootstrapBegins ==
  ASSUME Rest, OpsTyped, ops[Timer].guarded = FALSE, BootstrapCli
  PROVE  (Begins(Timer) \/ UNCHANGED <<ops, operationInProgress>>) /\ Rest'
  <1>1. Begins(Timer) \/ UNCHANGED <<ops, operationInProgress>>
    BY PollBegins DEF BootstrapCli
  <1>2. Rest'
    BY DEF BootstrapCli, Rest, Setup
  <1> QED BY <1>1, <1>2

LEMMA TickBegins ==
  ASSUME Rest, OpsTyped, Tick
  PROVE  Begins(Timer) /\ Rest'
  <1>1. ops[Timer].guarded = FALSE
    BY NewTypes DEF Tick, NoOp, Does
  <1> QED BY <1>1, PollBegins DEF Tick, Rest

(* A command takes a free slot; those of the user take the guard with it.  *)
LEMMA CommandBegins ==
  ASSUME Rest, OpsTyped, Command
  PROVE  (\E i \in Slots : Begins(i)) /\ Rest'
  <1> DEFINE i == CHOOSE j \in Free : TRUE
             stopFirst(again) == [New("stop", TRUE) EXCEPT !.at = "cli", !.again = again]
  <1>1. i \in Free
    BY DEF Command
  <1>2. i \in Slots /\ i \in Indices /\ ops[i].guarded = FALSE
    BY <1>1, NewTypes DEF Free, NoOp, Indices, Does
  <1> HIDE DEF i
  <1>3. /\ New("start", TRUE) \in Op /\ New("start", TRUE).guarded = TRUE
        /\ \A again \in BOOLEAN :
             stopFirst(again) \in Op /\ stopFirst(again).guarded = TRUE
        /\ \A do \in {"autoStart", "syncToken"} :
             New(do, FALSE) \in Op /\ New(do, FALSE).guarded = FALSE
    BY DEF New, Op
  <1>4. \/ Guarded /\ ops' = [ops EXCEPT ![i] = New("start", TRUE)]
        \/ Guarded /\ \E again \in BOOLEAN : ops' = [ops EXCEPT ![i] = stopFirst(again)]
        \/ /\ \E do \in {"autoStart", "syncToken"} : ops' = [ops EXCEPT ![i] = New(do, FALSE)]
           /\ operationInProgress' = operationInProgress
    BY DEF Command, i
  <1> HIDE DEF stopFirst
  <1>5. Begins(i)
    <2>1. CASE Guarded /\ ops' = [ops EXCEPT ![i] = New("start", TRUE)]
      BY <1>2, <1>3, <2>1 DEF Begins, Guarded, OpsTyped, Rest
    <2>2. CASE Guarded /\ \E again \in BOOLEAN : ops' = [ops EXCEPT ![i] = stopFirst(again)]
      BY <1>2, <1>3, <2>2 DEF Begins, Guarded, OpsTyped, Rest
    <2>3. CASE /\ \E do \in {"autoStart", "syncToken"} : ops' = [ops EXCEPT ![i] = New(do, FALSE)]
               /\ operationInProgress' = operationInProgress
      BY <1>2, <1>3, <2>3 DEF Begins, OpsTyped
    <2> QED BY <1>4, <2>1, <2>2, <2>3
  <1>6. commands' \in 0..MaxCommands
    BY DaemonAssumption DEF Command, Rest
  <1>7. operationInProgress' \in BOOLEAN
    BY DEF Command, Guarded, Rest
  <1>8. shown' \in Setup \cup {"stopped", "starting", "running", "stopping"}
    BY DEF Command, Rest
  <1>9. stopAsked' \in BOOLEAN
    BY DEF Command, Rest
  <1> QED BY <1>2, <1>5, <1>6, <1>7, <1>8, <1>9 DEF Command, Rest

LEMMA DaemonRest ==
  ASSUME Rest, Daemon
  PROVE  Rest'
  <1>1. daemon' \in Daemons
    <2>1. /\ [daemon EXCEPT !.phase = "up"] \in Daemons
          /\ \A work \in BOOLEAN : [daemon EXCEPT !.busy = work] \in Daemons
      BY DEF Rest, Daemons
    <2> QED BY <2>1, DownTypes DEF Daemon, ComesUp, TakesTask, EndsTask, Dies
  <1>2. tasks' \in 0..MaxTasks
    BY DaemonAssumption DEF Daemon, ComesUp, TakesTask, EndsTask, Dies, Rest
  <1>3. happened' \subseteq Faults
    BY DEF Daemon, ComesUp, TakesTask, EndsTask, Dies, Fault, Rest
  <1> QED BY <1>1, <1>2, <1>3 DEF Daemon, Rest

-----------------------------------------------------------------------------
(* The timer's poll never holds the guard, also as what it goes on to.     *)
TimerFree == ops[Timer].guarded = FALSE

GuardInv == TypeOK /\ GuardHeld /\ TimerFree

LEMMA GuardInvInit == Init => GuardInv
  <1> SUFFICES ASSUME Init PROVE GuardInv
    OBVIOUS
  <1>1. NoOp \in Op /\ NoOp.guarded = FALSE
    BY NewTypes DEF NoOp, Does
  <1>2. OpsTyped /\ \A j \in Indices : ops[j].guarded = FALSE
    BY <1>1 DEF Init, OpsTyped, Indices
  <1>3. Rest
    <2>1. daemon \in Daemons
      BY DownTypes DEF Init, Daemons
    <2>2. 0 \in 0..MaxCommands /\ 0 \in 0..MaxTasks
      BY DaemonAssumption
    <2>3. happened \subseteq Faults /\ shown \in Setup
      BY DEF Init, Setup
    <2> QED BY <2>1, <2>2, <2>3 DEF Init, Rest
  <1>4. GuardHeld /\ TimerFree
    BY <1>2 DEF Init, GuardHeld, Holders, TimerFree, OpsTyped, Indices
  <1> QED BY <1>2, <1>3, <1>4, TypeParts DEF GuardInv

LEMMA GuardInvStep == GuardInv /\ [Next]_vars => GuardInv'
  <1> SUFFICES ASSUME GuardInv, [Next]_vars PROVE GuardInv'
    OBVIOUS
  <1>0. Rest /\ OpsTyped /\ GuardHeld /\ TimerFree /\ Timer \in Indices
    BY TypeParts DEF GuardInv, Indices
  <1>1. ASSUME NEW i \in Indices, Ways(i), Rest' PROVE GuardInv'
    <2>1. OpsTyped' /\ GuardHeld'
      BY <1>0, <1>1, WaysType, WaysGuard DEF Rest
    <2>2. TimerFree'
      BY <1>0, <1>1 DEF Ways, GoesOn, LetsGo, TimerFree
    <2> QED BY <1>1, <2>1, <2>2, TypePartsNext DEF GuardInv
  <1>2. ASSUME NEW i \in Indices, Begins(i), Rest', i = Timer => ops'[i].guarded = FALSE
        PROVE  GuardInv'
    <2>1. OpsTyped' /\ GuardHeld'
      BY <1>0, <1>2, BeginsGuard DEF Begins, OpsTyped
    <2>2. TimerFree'
      BY <1>0, <1>2 DEF Begins, TimerFree
    <2> QED BY <1>2, <2>1, <2>2, TypePartsNext DEF GuardInv
  <1>3. ASSUME Rest', UNCHANGED <<ops, operationInProgress>> PROVE GuardInv'
    <2>1. OpsTyped' /\ GuardHeld' /\ TimerFree'
      BY <1>0, <1>3 DEF OpsTyped, GuardHeld, Holders, TimerFree
    <2> QED BY <1>3, <2>1, TypePartsNext DEF GuardInv
  <1>4. CASE \E i \in Slots \cup {Timer} : Runs(i)
    <2> PICK i \in Indices : Runs(i)
      BY <1>4 DEF Indices
    <2>1. Ways(i) /\ Rest'
      BY <1>0, AskWays, ActWays, CliWays, ExitWays DEF Runs
    <2> QED BY <1>1, <2>1
  <1>5. CASE BootstrapCli
    <2>1. (Begins(Timer) \/ UNCHANGED <<ops, operationInProgress>>) /\ Rest'
      BY <1>0, <1>5, BootstrapBegins DEF TimerFree
    <2>2. ops'[Timer].guarded = FALSE
      BY <1>0, <1>5, NewTypes DEF BootstrapCli, TimerFree, OpsTyped, Does
    <2> QED BY <1>0, <1>2, <1>3, <2>1, <2>2
  <1>6. CASE Tick
    <2>1. Begins(Timer) /\ Rest'
      BY <1>0, <1>6, TickBegins
    <2>2. ops'[Timer].guarded = FALSE
      BY <1>0, <1>6, NewTypes DEF Tick, OpsTyped, Does
    <2> QED BY <1>0, <1>2, <2>1, <2>2
  <1>7. CASE Command
    <2>1. (\E i \in Slots : Begins(i)) /\ Rest'
      BY <1>0, <1>7, CommandBegins
    <2>2. PICK i \in Slots : Begins(i)
      BY <2>1
    <2>3. i \in Indices /\ i # Timer
      BY DaemonAssumption DEF Indices, Timer
    <2> QED BY <1>2, <2>1, <2>2, <2>3
  <1>8. CASE Daemon
    <2>1. Rest' /\ UNCHANGED <<ops, operationInProgress>>
      BY <1>0, <1>8, DaemonRest DEF Daemon
    <2> QED BY <1>3, <2>1
  <1>9. CASE UNCHANGED vars
    <2>1. Rest' /\ UNCHANGED <<ops, operationInProgress>>
      BY <1>0, <1>9 DEF vars, Rest
    <2> QED BY <1>3, <2>1
  <1> QED BY <1>4, <1>5, <1>6, <1>7, <1>8, <1>9 DEF Next

-----------------------------------------------------------------------------
(* Types, the guard and the timer's poll hold together in every reachable  *)
(* state: what a function does when it goes on, lets go of the guard or     *)
(* begins leaves all three, so the two theorems below follow.               *)
THEOREM GuardInvariant == Spec => []GuardInv
  BY GuardInvInit, GuardInvStep, PTL DEF Spec

(* What the client shows is one of the states the interface knows, and the *)
(* functions in flight are ones of daemon-manager.ts at one of their       *)
(* awaits, whatever the number of functions, commands and faults.          *)
THEOREM TypeCorrect == Spec => []TypeOK
  <1>1. GuardInv => TypeOK
    BY DEF GuardInv
  <1> QED BY <1>1, GuardInvariant, PTL

(* operationInProgress is set exactly while one command of the user is in  *)
(* flight: withGuard lets go of it on every way out, and only once.        *)
THEOREM GuardCorrect == Spec => []GuardHeld
  <1>1. GuardInv => GuardHeld
    BY DEF GuardInv
  <1> QED BY <1>1, GuardInvariant, PTL
=============================================================================
