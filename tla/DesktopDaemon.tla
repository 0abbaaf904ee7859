---------------------------- MODULE DesktopDaemon ---------------------------
(***************************************************************************)
(* The desktop client's main process and the daemon it runs: what it shows *)
(* of it, the commands that start, stop and restart it, the poll, and the  *)
(* restart of a daemon of another version once it has no work left.        *)
(*                                                                         *)
(* Commands are asynchronous functions that ask /health and run the        *)
(* command line tool; between two awaits of one the others run.  Only the  *)
(* user's three commands exclude each other.                               *)
(*                                                                         *)
(* Source: apps/desktop/src/main/daemon-manager.ts, version-decision.ts.   *)
(* The daemon and the tool are external: what /health answers, what        *)
(* "daemon start" and "daemon stop" do.                                    *)
(***************************************************************************)
EXTENDS Naturals, FiniteSets

CONSTANTS Slots,        \* bound: the commands in flight, besides the timer's poll
          None,         \* no answer
          MaxCommands,  \* bound: the commands given
          MaxTasks,     \* bound: the tasks the daemon takes up
          Faults        \* the faults that may happen, each once: an answer of
                        \* /health is "lost", a "stop" fails, the daemon has
                        \* a "crash" or is "stillborn": ends while "starting"

ASSUME DaemonAssumption ==
  /\ Slots \subseteq Nat /\ IsFiniteSet(Slots) /\ Slots # {} /\ 0 \notin Slots
  /\ {MaxCommands, MaxTasks} \subseteq Nat
  /\ Faults \subseteq {"lost", "stop", "crash", "stillborn"}

VARIABLES
  shown,                  \* currentState
  pendingVersionRestart,
  operationInProgress,
  ops,                    \* the functions in flight; 0 is the timer's poll
  daemon,                 \* phase, version, whether it has work (external)
  commands, tasks,        \* how many so far
  happened,               \* history: the faults so far
  stopAsked               \* history: whether the user ever stopped the daemon

vars == <<shown, pendingVersionRestart, operationInProgress, ops, daemon, commands, tasks,
          happened, stopAsked>>

Timer == 0
Setup == {"installing_cli", "cli_not_found"}
Health == [old : BOOLEAN, busy : BOOLEAN]

(* A function in flight: what it does, where it waits, what it saw of the  *)
(* daemon, whether a start follows its stop, whether it holds the guard.   *)
Op == [do : {"none", "poll", "ensure", "autoStart", "syncToken", "stop", "start"},
       at : {"ask", "land", "cli", "shut", "exit", "failed"},
       saw : Health \cup {None}, again : BOOLEAN, guarded : BOOLEAN]

New(do, guarded) == [do |-> do, at |-> "ask", saw |-> None, again |-> FALSE, guarded |-> guarded]
NoOp == New("none", FALSE)

Down == [phase |-> "down", old |-> FALSE, busy |-> FALSE]
Answer == IF daemon.phase = "up" THEN [old |-> daemon.old, busy |-> daemon.busy] ELSE None

Fault(kind) == kind \in Faults \ happened /\ happened' = happened \cup {kind}

-----------------------------------------------------------------------------
(* Steps of a function: it goes on to something else, or is done, which    *)
(* releases the guard it holds.                                            *)
Goes(i, do, at) ==
  ops' = [ops EXCEPT ![i] = [ops[i] EXCEPT !.do = do, !.at = at, !.saw = None,
                                           !.again = ops[i].again /\ do = "stop"]]

Release(i) ==
  operationInProgress' = (operationInProgress /\ ~ops[i].guarded)

Done(i) == ops' = [ops EXCEPT ![i] = NoOp] /\ Release(i)

\* mutant: no answer leaves the state as it is
StatusKeeps(saw) == IF saw # None THEN "running" ELSE shown

\* mutant: the state as the daemon names it
StatusVerbatim(saw) == IF saw # None THEN "up" ELSE "stopped"

(* fetchHealth, when the answer is there.                                  *)
Status(saw) ==
  IF saw # None THEN "running"
  ELSE IF shown = "starting" THEN "starting" ELSE "stopped"

(* decideVersionAction.                                                    *)
VersionAction(saw) ==
  IF saw = None THEN "not_running"
  ELSE IF ~saw.old THEN "ok"
  ELSE IF saw.busy THEN "defer"
  ELSE "restart"

Stops(i, again) ==
  /\ shown' = "stopping"
  /\ ops' = [ops EXCEPT ![i].do = "stop", ![i].at = "cli", ![i].saw = None, ![i].again = again]

-----------------------------------------------------------------------------
(* /health is asked, answers or times out, and the answer is acted on.     *)
Ask(i) ==
  /\ ops[i].do # "none" /\ ops[i].at = "ask"
  /\ \/ ops' = [ops EXCEPT ![i].at = "land", ![i].saw = Answer] /\ UNCHANGED happened
     \/ Answer # None /\ Fault("lost") /\ ops' = [ops EXCEPT ![i].at = "land"]
  /\ UNCHANGED <<shown, pendingVersionRestart, operationInProgress, daemon, commands, tasks, stopAsked>>

Lands(i, do) == ops[i].do = do /\ ops[i].at = "land"

\* mutant: a restart that waits is left to the next start of the client
PollOnly(i) ==
  /\ Lands(i, "poll")
  /\ shown' = Status(ops[i].saw) /\ Done(i) /\ UNCHANGED pendingVersionRestart

(* pollOnce: a restart that waits is looked at again.                      *)
Poll(i) ==
  /\ Lands(i, "poll")
  /\ shown' = Status(ops[i].saw)
  /\ IF pendingVersionRestart /\ ops[i].saw # None
     THEN Goes(i, "ensure", "ask") /\ UNCHANGED operationInProgress
     ELSE Done(i)
  /\ UNCHANGED pendingVersionRestart

EnsureRunningDaemonVersionMatches(i) ==
  /\ Lands(i, "ensure")
  /\ pendingVersionRestart' = (VersionAction(ops[i].saw) = "defer")
  /\ IF VersionAction(ops[i].saw) = "restart"
     THEN Stops(i, TRUE) /\ UNCHANGED operationInProgress
     ELSE Done(i) /\ UNCHANGED shown

AutoStart(i) ==
  /\ Lands(i, "autoStart")
  /\ Goes(i, IF ops[i].saw # None THEN "ensure" ELSE "start", "ask")
  /\ UNCHANGED <<shown, pendingVersionRestart, operationInProgress>>

\* mutant: the daemon is stopped and left to the next start
SyncTokenStops(i) ==
  /\ Lands(i, "syncToken")
  /\ IF ops[i].saw # None THEN Stops(i, FALSE) /\ UNCHANGED operationInProgress
     ELSE Done(i) /\ UNCHANGED shown
  /\ UNCHANGED pendingVersionRestart

(* syncToken, when the user changed: a daemon that runs is restarted.      *)
SyncToken(i) ==
  /\ Lands(i, "syncToken")
  /\ IF ops[i].saw # None THEN Stops(i, TRUE) /\ UNCHANGED operationInProgress
     ELSE Done(i) /\ UNCHANGED shown
  /\ UNCHANGED pendingVersionRestart

(* startDaemon ends with a poll it does not wait for.                      *)
EndsWithPoll(i) ==
  /\ ops' = [ops EXCEPT ![i] = New("poll", FALSE)]
  /\ Release(i)

StartDaemon(i) ==
  /\ Lands(i, "start")
  /\ IF ops[i].saw # None THEN EndsWithPoll(i) /\ UNCHANGED shown
     ELSE /\ shown' = "starting" /\ Goes(i, "start", "cli")
          /\ UNCHANGED operationInProgress
  /\ UNCHANGED pendingVersionRestart

Act(i) ==
  /\ Poll(i) \/ EnsureRunningDaemonVersionMatches(i) \/ AutoStart(i) \/ SyncToken(i) \/ StartDaemon(i)
  /\ UNCHANGED <<daemon, commands, tasks, happened, stopAsked>>

-----------------------------------------------------------------------------
(* "daemon stop": asks /health, then posts the shutdown; the daemon no     *)
(* longer answers from then on.  It fails when the daemon is gone by then. *)
StopAsks(i) ==
  /\ ops[i].do = "stop" /\ ops[i].at = "cli"
  /\ ops' = [ops EXCEPT ![i].at = IF Answer # None THEN "shut" ELSE "exit"]
  /\ UNCHANGED <<daemon, happened>>

StopShuts(i) ==
  /\ ops[i].do = "stop" /\ ops[i].at = "shut"
  /\ IF daemon.phase = "up"
     THEN \/ daemon' = Down /\ Goes(i, "stop", "exit") /\ UNCHANGED happened
          \/ Fault("stop") /\ Goes(i, "stop", "failed") /\ UNCHANGED daemon
     ELSE Goes(i, "stop", "failed") /\ UNCHANGED <<daemon, happened>>

(* "daemon start": fails when a daemon answers; else spawns one, which     *)
(* exits at once when another has the port, and waits for an answer.       *)
StartSpawns(i) ==
  /\ ops[i].do = "start" /\ ops[i].at = "cli"
  /\ IF daemon.phase = "up" THEN Goes(i, "start", "failed") /\ UNCHANGED daemon
     ELSE Goes(i, "start", "exit") /\ daemon' = [Down EXCEPT !.phase = "coming"]
  /\ UNCHANGED happened

Cli(i) ==
  /\ StopAsks(i) \/ StopShuts(i) \/ StartSpawns(i)
  /\ UNCHANGED <<shown, pendingVersionRestart, operationInProgress, commands, tasks, stopAsked>>

(* The callbacks of the two; the wait for an answer has an end.            *)
Exit(i) ==
  /\ ops[i].do \in {"stop", "start"} /\ ops[i].at \in {"exit", "failed"}
  /\ IF ops[i].do = "start" /\ ops[i].at = "exit"
     THEN EndsWithPoll(i) /\ UNCHANGED shown
     ELSE /\ shown' = "stopped"
          /\ IF ops[i].at = "exit" /\ ops[i].again
             THEN Goes(i, "start", "ask") /\ UNCHANGED operationInProgress
             ELSE Done(i)
  /\ UNCHANGED <<pendingVersionRestart, daemon, commands, tasks, happened, stopAsked>>

-----------------------------------------------------------------------------
(* bootstrapCli, again after retry-install; polling starts when the tool   *)
(* is there.                                                               *)
BootstrapCli ==
  /\ shown \in Setup
  /\ \/ shown' = "stopped" /\ ops' = [ops EXCEPT ![Timer] = New("poll", FALSE)]
     \/ shown' = "cli_not_found" /\ UNCHANGED ops
  /\ UNCHANGED <<pendingVersionRestart, operationInProgress, daemon, commands, tasks, happened, stopAsked>>

Tick ==
  /\ shown \notin Setup /\ ops[Timer] = NoOp
  /\ ops' = [ops EXCEPT ![Timer] = New("poll", FALSE)]
  /\ UNCHANGED <<shown, pendingVersionRestart, operationInProgress, daemon, commands, tasks, happened, stopAsked>>

(* The user's commands, one at a time; signing in, also as another user.   *)
Free == {i \in Slots : ops[i] = NoOp}

\* mutant: the guard is taken whether or not it is free
GuardedAlways == operationInProgress' = TRUE

Guarded == ~operationInProgress /\ operationInProgress' = TRUE

Command ==
  /\ shown \notin Setup /\ commands < MaxCommands /\ Free # {}
  /\ commands' = commands + 1
  /\ LET i == CHOOSE j \in Free : TRUE
         Begin(do, guarded) == ops' = [ops EXCEPT ![i] = New(do, guarded)]
         StopFirst(again) ==
           /\ shown' = "stopping"
           /\ ops' = [ops EXCEPT ![i] = [New("stop", TRUE) EXCEPT !.at = "cli", !.again = again]]
     IN  \/ Guarded /\ Begin("start", TRUE) /\ UNCHANGED <<shown, stopAsked>>
         \/ Guarded /\ StopFirst(FALSE) /\ stopAsked' = TRUE
         \/ Guarded /\ StopFirst(TRUE) /\ UNCHANGED stopAsked
         \/ /\ \E do \in {"autoStart", "syncToken"} : Begin(do, FALSE)
            /\ UNCHANGED <<shown, stopAsked, operationInProgress>>
  /\ UNCHANGED <<pendingVersionRestart, daemon, tasks, happened>>

-----------------------------------------------------------------------------
(* The daemon (external): comes up, takes up and ends work, or dies.       *)
ComesUp ==
  /\ daemon.phase = "coming"
  /\ daemon' = [daemon EXCEPT !.phase = "up"] /\ UNCHANGED <<tasks, happened>>

TakesTask ==
  /\ daemon.phase = "up" /\ ~daemon.busy /\ tasks < MaxTasks
  /\ daemon' = [daemon EXCEPT !.busy = TRUE] /\ tasks' = tasks + 1 /\ UNCHANGED happened

EndsTask ==
  /\ daemon.busy
  /\ daemon' = [daemon EXCEPT !.busy = FALSE] /\ UNCHANGED <<tasks, happened>>

Dies ==
  /\ daemon.phase # "down"
  /\ Fault(IF shown = "starting" THEN "stillborn" ELSE "crash")
  /\ daemon' = Down /\ UNCHANGED tasks

Daemon ==
  /\ ComesUp \/ TakesTask \/ EndsTask \/ Dies
  /\ UNCHANGED <<shown, pendingVersionRestart, operationInProgress, ops, commands, stopAsked>>

-----------------------------------------------------------------------------
(* The client starts beside no daemon or one of the last session, which    *)
(* may be of another version and have work.                                *)
Init ==
  /\ shown = "installing_cli" /\ pendingVersionRestart = FALSE /\ operationInProgress = FALSE
  /\ ops = [i \in Slots \cup {Timer} |-> NoOp]
  /\ daemon \in {Down} \cup [phase : {"up"}, old : BOOLEAN, busy : BOOLEAN]
  /\ commands = 0 /\ tasks = 0 /\ happened = {} /\ stopAsked = FALSE

Runs(i) == Ask(i) \/ Act(i) \/ Cli(i) \/ Exit(i)

Next ==
  \/ \E i \in Slots \cup {Timer} : Runs(i)
  \/ BootstrapCli \/ Tick \/ Command \/ Daemon

(* Answers, the tool and the interval's callback come; a daemon that was   *)
(* spawned comes up and work ends.  Nobody has to give a command.          *)
Fairness ==
  /\ \A i \in Slots \cup {Timer} : WF_vars(Runs(i))
  /\ WF_vars(Tick)
  /\ WF_vars(ComesUp /\ Daemon) /\ WF_vars(EndsTask /\ Daemon)

Spec == Init /\ [][Next]_vars /\ Fairness

-----------------------------------------------------------------------------
TypeOK ==
  /\ shown \in Setup \cup {"stopped", "starting", "running", "stopping"}
  /\ {pendingVersionRestart, operationInProgress, stopAsked} \subseteq BOOLEAN
  /\ ops \in [Slots \cup {Timer} -> Op]
  /\ daemon \in [phase : {"down", "coming", "up"}, old : BOOLEAN, busy : BOOLEAN]
  /\ commands \in 0..MaxCommands /\ tasks \in 0..MaxTasks /\ happened \subseteq Faults

(* The user's commands exclude each other, and the guard is let go on      *)
(* every way out of them: refused, failed, or gone on as a restart's start *)
(* (withGuard); what a start leaves running behind it does not hold it.    *)
Holders == {i \in DOMAIN ops : ops[i].guarded}

GuardHeld ==
  /\ operationInProgress <=> Holders # {}
  /\ \A i, j \in Holders : i = j

(* Whatever commands, restarts, polls and lost answers crossed each other: *)
(* in the end the client shows what is true of the daemon - unless one     *)
(* ended before it was seen, which nothing tells from a slow start.        *)
Agrees == shown = IF daemon.phase = "up" THEN "running" ELSE "stopped"
ShowsTruth == <>[](Agrees \/ shown \in Setup \/ "stillborn" \in happened)

(* A restart put off until the daemon drains is not forgotten, provided no *)
(* answer is lost and no stop fails.                                       *)
DeferredFires ==
  pendingVersionRestart ~>
    (~(daemon.phase = "up" /\ daemon.old) \/ {"lost", "stop"} \cap happened # {})

(* Restarts bring the daemon back: if the user never stops it and it does  *)
(* not end by itself, one that ran runs in the end, however many restarts crossed.   *)
BroughtBack ==
  <>(daemon.phase = "up") => <>[](daemon.phase = "up" \/ stopAsked \/ {"crash", "stillborn"} \cap happened # {})
=============================================================================
