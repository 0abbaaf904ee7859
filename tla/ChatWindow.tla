----------------------------- MODULE ChatWindow -----------------------------
(***************************************************************************)
(* The chat window of the web and desktop clients and the part of the      *)
(* realtime handlers that keeps its two caches: the messages of a session  *)
(* and its pending task ("the pill").  The server, the daemon and the      *)
(* second device are the environment: they only commit tasks and messages  *)
(* and emit the events of server/internal/{handler/chat,service/task}.go.  *)
(*                                                                         *)
(* Sources: packages/views/chat/components/chat-window.tsx,                *)
(* packages/core/realtime/use-realtime-sync.ts.                            *)
(***************************************************************************)
EXTENDS QueryCache, FiniteSets, SequencesExt

CONSTANTS Agents,    \* agents the user may chat with
          Sessions,  \* chat sessions the server may create
          Sends,     \* the messages users send; n is also the id of its task
          Upload,    \* the one file the user attaches
          None,
          MaxWire,   \* bound: events on the socket at a time
          Faults     \* subset of {"drop", "reject", "badfetch", "park"}

ASSUME ChatAssumption ==
  /\ Faults \subseteq {"drop", "reject", "badfetch", "park"}
  /\ Upload \notin Sends /\ None \notin Sessions \cup Agents

Callers == Sends \cup {Upload}

VARIABLES
  agent,     \* store.ts: selectedAgentId
  active,    \* store.ts: activeSessionId
  creating,  \* sessionPromiseRef: <<>> or <<agent, the sends that wait for the
             \* id in order, whether the file does>>
  call,      \* call[c]: a handleSend or handleUploadFile of this window
  messages,  \* messages[s]: the query chatKeys.messages(s)
  pending,   \* pending[s]: the query chatKeys.pendingTask(s)
  conn,      \* the socket: "up", "down", or "again" after a reconnect
  wire,      \* the events on the socket, in order
  owner,     \* server: the agent of a session, None before it exists
  task,      \* server: [status, session] of the task of a send
  log,       \* server: the messages of a session, in order
  excuse     \* history: what of a session may disagree with the server: "none",
             \* the "pill" after a late answer, or "both" caches

client == <<agent, active, creating, call>>
cache  == <<messages, pending>>
server == <<owner, task, log>>
net    == <<conn, wire>>
vars   == <<client, cache, server, net, excuse>>

InFlight == {"queued", "running", "waiting_local_directory"}

(* Messages: the row of send n, the optimistic stand-in for it, the reply. *)
User(n)       == <<"user", n>>
Optimistic(n) == <<"optimistic", n>>
Reply(n)      == <<"assistant", n>>
MessageId     == {"user", "optimistic", "assistant"} \X Sends

(* ChatPendingTask: {} or a task id, real or optimistic, and a status.     *)
NoPill      == <<>>
Pill(id, status) == <<id, status>>
PillValue   == {NoPill} \cup
               {Pill(<<k, n>>, st) : k \in {"task", "optimistic"}, n \in Sends, st \in InFlight}
Task(n)     == <<"task", n>>

DataOf(q) == IF HasData(q) THEN q.data[1] ELSE <<>>
PillOf(s) == IF HasData(pending[s]) THEN pending[s].data[1] ELSE NoPill
Shown(s)  == DataOf(messages[s])
IsRunning == active # None /\ PillOf(active) # NoPill

Phases   == {"none", "creating", "posted", "stored", "answering", "done", "failed", "other"}

Init ==
  /\ agent \in Agents
  /\ active = None
  /\ creating = <<>>
  /\ call = [c \in Callers |-> [phase |-> "none", session |-> None]]
  /\ messages = [s \in Sessions |-> Absent]
  /\ pending = [s \in Sessions |-> Absent]
  /\ conn = "up"
  /\ wire = <<>>
  /\ owner = [s \in Sessions |-> None]
  /\ task = [n \in Sends |-> [status |-> "none", session |-> None]]
  /\ log = [s \in Sessions |-> <<>>]
  /\ excuse = [s \in Sessions |-> "none"]

Excuse(s, what) == excuse' = [excuse EXCEPT ![s] = IF @ = "both" THEN @ ELSE what]

-----------------------------------------------------------------------------
(* The window: useQuery(messages) and useQuery(pendingTask) follow active. *)

(* setActiveSession, and the mount of the two observers for the session.   *)
Activate(s, msgs, pend) ==
  /\ active' = s
  /\ messages' = IF s = None THEN msgs ELSE [msgs EXCEPT ![s] = Mount(@)]
  /\ pending' = IF s = None THEN pend ELSE [pend EXCEPT ![s] = Mount(@)]

(* What a caller does once it has its session: handleUploadFile primes an  *)
(* empty list, handleSend appends the optimistic message and seeds the     *)
(* pill before the POST leaves.                                            *)
SeedMessages(q, sends) ==
  SetData(q, DataOf(q) \o [k \in DOMAIN sends |-> Optimistic(sends[k])])
SeedPending(q, sends) ==
  IF sends = <<>> THEN q ELSE SetData(q, Pill(Optimistic(Last(sends)), "queued"))

Continue(sends, file, s) ==
  /\ Activate(s, [messages EXCEPT ![s] = SeedMessages(@, sends)],
                 [pending EXCEPT ![s] = SeedPending(@, sends)])
  /\ call' = [c \in Callers |->
       IF c \in Range(sends) THEN [phase |-> "posted", session |-> s]
       ELSE IF file /\ c = Upload THEN [phase |-> "done", session |-> s]
       ELSE call[c]]

Sending(c) == IF c = Upload THEN <<>> ELSE <<c>>
Create(c) == <<agent, Sending(c), c = Upload>>
Join(c) == <<creating[1], creating[2] \o Sending(c), creating[3] \/ c = Upload>>

\* mutant: without the ref, a second caller starts a creation of its own
AskAlone(c) ==
  /\ call[c].phase = "none"
  /\ c # Upload => ~IsRunning
  /\ IF active # None
     THEN Continue(Sending(c), c = Upload, active) /\ UNCHANGED creating
     ELSE /\ call' = [call EXCEPT ![c].phase = "creating"]
          /\ creating' = Create(c)
          /\ UNCHANGED <<active, cache>>
  /\ UNCHANGED <<agent, server, net, excuse>>

(* handleSend and handleUploadFile up to ensureSession: the active session *)
(* is taken as it is, a creation under way is joined, and otherwise one is *)
(* started for the selected agent.  The input refuses to send while the    *)
(* pill shows; the first await of an open session yields to nobody.        *)
Ask(c) ==
  /\ call[c].phase = "none"
  /\ c # Upload => ~IsRunning
  /\ IF active # None
     THEN Continue(Sending(c), c = Upload, active) /\ UNCHANGED creating
     ELSE /\ call' = [call EXCEPT ![c].phase = "creating"]
          /\ creating' = IF creating = <<>> THEN Create(c) ELSE Join(c)
          /\ UNCHANGED <<active, cache>>
  /\ UNCHANGED <<agent, server, net, excuse>>

(* The session exists: every caller that waits for it goes on, in order.   *)
SessionCreated(s) ==
  /\ creating # <<>>
  /\ owner[s] = None
  /\ owner' = [owner EXCEPT ![s] = creating[1]]
  /\ creating' = <<>>
  /\ Continue(creating[2], creating[3], s)
  /\ UNCHANGED <<agent, task, log, net, excuse>>

(* The creation fails: the promise rejects and so does every caller.       *)
CreationFails ==
  /\ "reject" \in Faults
  /\ creating # <<>>
  /\ creating' = <<>>
  /\ call' = [c \in Callers |-> IF call[c].phase = "creating"
                                THEN [call[c] EXCEPT !.phase = "failed"] ELSE call[c]]
  /\ UNCHANGED <<agent, active, cache, server, net, excuse>>

(* The answer to the POST lands: the pill is set to the server's task as   *)
(* "queued", whatever it shows by now, and the messages are invalidated.   *)
AnswerLands(n) ==
  /\ call[n].phase = "answering"
  /\ LET s == call[n].session IN
     /\ call' = [call EXCEPT ![n].phase = "done"]
     /\ pending' = [pending EXCEPT ![s] = SetData(@, Pill(Task(n), "queued"))]
     /\ messages' = [messages EXCEPT ![s] = Invalidate(@, active = s)]
     /\ IF task[n].status \in InFlight THEN UNCHANGED excuse ELSE Excuse(s, "pill")
  /\ UNCHANGED <<agent, active, creating, server, net>>

(* The POST fails, before or after the server stored it: handleSend has no *)
(* catch, so the optimistic message and pill stay as they are.             *)
PostFails(n) ==
  /\ "reject" \in Faults
  /\ call[n].phase \in {"posted", "answering"}
  /\ call' = [call EXCEPT ![n].phase = "failed"]
  /\ Excuse(call[n].session, "both")
  /\ UNCHANGED <<agent, active, creating, cache, server, net>>

(* handleStop: the pill is cleared at once, the cancel request is not      *)
(* waited for; whether the server still cancels anything is up to Cancel.  *)
Stop ==
  /\ IsRunning
  /\ pending' = [pending EXCEPT ![active] = SetData(@, NoPill)]
  /\ messages' = [messages EXCEPT ![active] = Invalidate(@, TRUE)]
  /\ UNCHANGED <<client, server, net, excuse>>

(* handleSelectAgent, handleNewChat, handleSelectSession.                  *)
SelectAgent(a) ==
  /\ a # agent
  /\ agent' = a
  /\ Activate(None, messages, pending)
  /\ UNCHANGED <<creating, call, server, net, excuse>>

NewChat ==
  /\ active # None
  /\ Activate(None, messages, pending)
  /\ UNCHANGED <<agent, creating, call, server, net, excuse>>

SelectSession(s) ==
  /\ owner[s] # None /\ s # active
  /\ agent' = owner[s]
  /\ Activate(s, messages, pending)
  /\ UNCHANGED <<creating, call, server, net, excuse>>

-----------------------------------------------------------------------------
(* The server: SendChatMessage, EnqueueChatTask, the task lifecycle and    *)
(* the second device of the user.                                          *)

Emit(e) ==
  /\ Len(wire) < MaxWire
  /\ wire' = IF conn = "down" THEN wire ELSE Append(wire, e)
Lost(s) == IF conn = "down" THEN Excuse(s, "both") ELSE UNCHANGED excuse

Store(n, s) ==
  /\ log' = [log EXCEPT ![s] = Append(@, User(n))]
  /\ task' = [task EXCEPT ![n] = [status |-> "queued", session |-> s]]
  /\ Emit(<<"task:queued", n>>)
  /\ Lost(s)
  /\ UNCHANGED <<owner, conn>>

(* The POST reaches the server: message row, task, task:queued ...         *)
ServerStores(n) ==
  /\ call[n].phase = "posted"
  /\ Store(n, call[n].session)
  /\ call' = [call EXCEPT ![n].phase = "stored"]
  /\ UNCHANGED <<agent, active, creating, cache>>

(* ... then chat:message and the answer.                                   *)
ServerAnnounces(n) ==
  /\ call[n].phase \in {"stored", "other"}
  /\ call' = [call EXCEPT ![n].phase = IF @ = "other" THEN "done" ELSE "answering"]
  /\ Emit(<<"chat:message", n>>)
  /\ Lost(call[n].session)
  /\ UNCHANGED <<agent, active, creating, cache, server, conn>>

(* The same message sent from another device of the user.                  *)
OtherDeviceSends(n, s) ==
  /\ call[n].phase = "none"
  /\ owner[s] # None
  /\ Store(n, s)
  /\ call' = [call EXCEPT ![n] = [phase |-> "other", session |-> s]]
  /\ UNCHANGED <<agent, active, creating, cache>>

(* A task moves on.  CompleteTask and FailTask also write the reply.       *)
Moves == {<<"queued", "running", "task:dispatch">>,
          <<"running", "waiting_local_directory", "task:waiting_local_directory">>,
          <<"waiting_local_directory", "running", "task:running">>,
          <<"running", "completed", "chat:done">>,
          <<"running", "failed", "task:failed">>,
          <<"queued", "cancelled", "task:cancelled">>,
          <<"running", "cancelled", "task:cancelled">>}

ServerMoves(n, m) ==
  /\ task[n].status = m[1]
  /\ m[2] = "waiting_local_directory" => "park" \in Faults
  /\ task' = [task EXCEPT ![n].status = m[2]]
  /\ log' = IF m[2] \in {"completed", "failed"}
            THEN [log EXCEPT ![task[n].session] = Append(@, Reply(n))] ELSE log
  /\ Emit(<<m[3], n>>)
  /\ Lost(task[n].session)
  /\ UNCHANGED <<client, cache, owner, conn>>

-----------------------------------------------------------------------------
(* The realtime handlers of use-realtime-sync.ts.                          *)

\* mutant: the server's own word is stored
ProgressVerbatim(n, status, p) ==
  IF p # NoPill /\ p[1] = Task(n) THEN Pill(p[1], "dispatched") ELSE p

(* task:dispatch, task:running, task:waiting_local_directory: the pill     *)
(* moves on if it shows this task.                                         *)
Progress(n, status, p) == IF p # NoPill /\ p[1] = Task(n) THEN Pill(p[1], status) ELSE p

\* mutant: a failure only clears the pill, as before #1823
EndedQuietly(n, s) ==
  /\ pending' = [pending EXCEPT ![s] = Invalidate(SetData(@, NoPill), active = s)]
  /\ UNCHANGED <<messages, excuse>>

(* task:failed: no pill, and both caches are invalidated.                  *)
Ended(n, s) ==
  /\ pending' = [pending EXCEPT ![s] = Invalidate(SetData(@, NoPill), active = s)]
  /\ messages' = [messages EXCEPT ![s] = Invalidate(@, active = s)]
  /\ UNCHANGED excuse

\* mutant: the reply is appended whether or not a fetch brought it already
ChatDoneAgain(n, s) ==
  LET append(old) == Append(old, Reply(n))
  IN  /\ pending' = [pending EXCEPT ![s] = Invalidate(SetData(@, NoPill), active = s)]
      /\ messages' = [messages EXCEPT ![s] = Invalidate(Patch(@, append), active = s)]
      /\ UNCHANGED excuse

\* mutant: the pill is left to another event
ChatDoneKeepsPill(n, s) ==
  LET append(old) == IF Reply(n) \in Range(old) THEN old ELSE Append(old, Reply(n))
  IN  /\ messages' = [messages EXCEPT ![s] = Invalidate(Patch(@, append), active = s)]
      /\ UNCHANGED <<pending, excuse>>

(* applyChatDoneToCache: the reply is appended unless it is there.         *)
ChatDone(n, s) ==
  LET append(old) == IF Reply(n) \in Range(old) THEN old ELSE Append(old, Reply(n))
  IN  /\ pending' = [pending EXCEPT ![s] = Invalidate(SetData(@, NoPill), active = s)]
      /\ messages' = [messages EXCEPT ![s] = Invalidate(Patch(@, append), active = s)]
      /\ UNCHANGED excuse

Handle(type, n, s) ==
  LET progress(status) ==
        /\ pending' = [pending EXCEPT ![s] = Patch(@, LAMBDA p : Progress(n, status, p))]
        /\ UNCHANGED <<messages, excuse>>
  IN
  CASE type = "task:queued" ->
         /\ pending' = [pending EXCEPT ![s] = SetData(@, Pill(Task(n), "queued"))]
         /\ UNCHANGED <<messages, excuse>>
    [] type = "chat:message" ->
         /\ pending' = [pending EXCEPT ![s] = Invalidate(@, active = s)]
         /\ messages' = [messages EXCEPT ![s] = Invalidate(@, active = s)]
         /\ UNCHANGED excuse
    [] type \in {"task:dispatch", "task:running"} -> progress("running")
    [] type = "task:waiting_local_directory" -> progress("waiting_local_directory")
    [] type = "task:cancelled" ->
         /\ pending' = [pending EXCEPT ![s] = SetData(@, NoPill)]
         /\ UNCHANGED <<messages, excuse>>
    [] type = "chat:done" -> ChatDone(n, s)
    [] type = "task:failed" -> Ended(n, s)

Deliver ==
  /\ conn # "down" /\ wire # <<>>
  /\ Handle(wire[1][1], wire[1][2], call[wire[1][2]].session)
  /\ wire' = Tail(wire)
  /\ UNCHANGED <<client, server, conn>>

(* The socket drops: the events on it are lost.  onReconnect invalidates   *)
(* chatKeys.all(wsId) = ["chat", wsId], which is no prefix of the keys     *)
(* ["chat", "messages", s] and ["chat", "pending-task", s]: nothing here.  *)
Drop ==
  /\ "drop" \in Faults /\ conn = "up"
  /\ conn' = "down"
  /\ wire' = <<>>
  /\ excuse' = [s \in Sessions |->
       IF \E i \in DOMAIN wire : call[wire[i][2]].session = s THEN "both" ELSE excuse[s]]
  /\ UNCHANGED <<client, cache, server>>

Reconnect ==
  /\ conn = "down"
  /\ conn' = "again"
  /\ UNCHANGED <<client, cache, server, wire, excuse>>

-----------------------------------------------------------------------------
(* The fetches: listChatMessages and getPendingChatTask (the newest task   *)
(* in flight).                                                             *)

InFlightOf(s) == {n \in Sends : task[n].session = s /\ task[n].status \in InFlight}

(* The answer of getPendingChatTask: the newest of the tasks in flight.    *)
ServerPill(s) ==
  LET at(n) == CHOOSE i \in DOMAIN log[s] : log[s][i] = User(n)
      newest == {n \in InFlightOf(s) : \A m \in InFlightOf(s) : at(m) <= at(n)}
  IN  IF newest = {} THEN NoPill
      ELSE LET n == CHOOSE n \in newest : TRUE IN Pill(Task(n), task[n].status)

FetchMessages(s) ==
  /\ \/ Sent(messages[s]) /\ messages' = [messages EXCEPT ![s] = Answer(@, log[s])]
     \/ Back(messages[s]) /\ messages' = [messages EXCEPT ![s] = Land(@)]
  /\ UNCHANGED <<client, pending, server, net, excuse>>

FetchPending(s) ==
  /\ \/ Sent(pending[s]) /\ pending' = [pending EXCEPT ![s] = Answer(@, ServerPill(s))]
     \/ Back(pending[s]) /\ pending' = [pending EXCEPT ![s] = Land(@)]
  /\ UNCHANGED <<client, messages, server, net, excuse>>

FetchFails(s) ==
  /\ "badfetch" \in Faults
  /\ \/ ~Idle(messages[s]) /\ messages' = [messages EXCEPT ![s] = Fail(@)] /\ UNCHANGED pending
     \/ ~Idle(pending[s]) /\ pending' = [pending EXCEPT ![s] = Fail(@)] /\ UNCHANGED messages
  /\ Excuse(s, "both")
  /\ UNCHANGED <<client, server, net>>

Next ==
  \/ \E c \in Callers : Ask(c)
  \/ \E s \in Sessions : SessionCreated(s) \/ SelectSession(s)
                          \/ FetchMessages(s) \/ FetchPending(s) \/ FetchFails(s)
  \/ CreationFails \/ Stop \/ NewChat
  \/ \E a \in Agents : SelectAgent(a)
  \/ \E n \in Sends : AnswerLands(n) \/ PostFails(n) \/ ServerStores(n) \/ ServerAnnounces(n)
  \/ \E n \in Sends, s \in Sessions : OtherDeviceSends(n, s)
  \/ \E n \in Sends, m \in Moves : ServerMoves(n, m)
  \/ Deliver \/ Drop \/ Reconnect

Spec == Init /\ [][Next]_vars

-----------------------------------------------------------------------------
TypeOK ==
  /\ agent \in Agents /\ active \in Sessions \cup {None}
  /\ \A c \in Callers : call[c].phase \in Phases
  /\ \A s \in Sessions : IsQuery(pending[s], LAMBDA v : v \in PillValue)
  /\ \A s \in Sessions : Range(Shown(s)) \subseteq MessageId

(* A file dropped and a message sent while no session exists yet end in    *)
(* one session: whoever waits for a creation at the same time goes on with *)
(* the same id, or fails together (chat-window.tsx:202-207).               *)
BurstShares ==
  [][\A c, d \in Callers :
       /\ call[c].phase = "creating" /\ call[d].phase = "creating"
       /\ call'[c].phase # "creating"
       => call'[d].session = call'[c].session /\ call'[d].phase # "creating"]_vars

(* A message is never listed twice, and never beside its optimistic        *)
(* stand-in, whatever the order of events, answers and fetches.            *)
ShownOnce ==
  \A s \in Sessions :
    /\ \A i, j \in DOMAIN Shown(s) : Shown(s)[i] = Shown(s)[j] => i = j
    /\ \A n \in Sends : ~({User(n), Optimistic(n)} \subseteq Range(Shown(s)))

(* Session s is open and everything under way for it has arrived.          *)
Quiet(s) ==
  /\ conn # "down" /\ wire = <<>> /\ active = s
  /\ \A n \in Sends : call[n].session = s => call[n].phase \in {"done", "failed"}

(* Once quiet, the open chat lists the server's messages, unless a POST    *)
(* failed, events were lost, or an invalidation met a first fetch that the *)
(* server had answered.                                                    *)
MessagesConverge ==
  \A s \in Sessions :
    Quiet(s) /\ Settled(messages[s]) /\ ~messages[s].owed /\ excuse[s] # "both"
    => Shown(s) = log[s]

(* Once quiet, the pill of the open chat names a task in flight or is      *)
(* gone, unless a POST failed or was answered late, or as above.           *)
PillExplained ==
  \A s \in Sessions :
    Quiet(s) /\ Settled(pending[s]) /\ ~pending[s].owed /\ excuse[s] = "none"
    => PillOf(s) = NoPill \/ \E n \in InFlightOf(s) : PillOf(s)[1] = Task(n)
=============================================================================
