--------------------------- MODULE ChatWindowProofs --------------------------
(***************************************************************************)
(* The chat window, for any number of agents, sessions, messages and       *)
(* events on the socket and any faults: callers that wait for a session    *)
(* share it, no message is listed twice, and once nothing is under way the *)
(* open chat lists the server's messages and its pill names a task.        *)
(*                                                                         *)
(* The inductive invariant is built in layers, each proved with the help   *)
(* of those before it: BurstInv (who waits for a session), ServerInv (what *)
(* the server knows, and what the socket carries), RowsInv (what a list    *)
(* may show), FreshInv (a list that is not fetched again is the server's,  *)
(* or what it lacks is announced) and PillInv (the same for the pill).     *)
(***************************************************************************)
EXTENDS ChatWindow, TLAPS

Calls == [Callers -> [phase : Phases, session : Sessions \cup {None}]]

Distinct(L) == \A i, j \in DOMAIN L : L[i] = L[j] => i = j
Creations == {<<>>} \cup (Agents \X Seq(Sends) \X BOOLEAN)

(* The callers that wait for the promise in sessionPromiseRef.             *)
Files(file) == IF file THEN {Upload} ELSE {}
Waiting == IF creating = <<>> THEN {} ELSE Range(creating[2]) \cup Files(creating[3])

(* Who is creating a session waits, once, for the one promise there is;    *)
(* nobody has a session before.                                            *)
BurstInv ==
  /\ call \in Calls /\ active \in Sessions \cup {None} /\ agent \in Agents
  /\ owner \in [Sessions -> Agents \cup {None}]
  /\ creating \in Creations /\ (creating # <<>> => Distinct(creating[2]))
  /\ \A c \in Callers : call[c].phase = "creating" <=> c \in Waiting
  /\ \A c \in Callers : call[c].phase \in {"none", "creating"} => call[c].session = None

Together ==
  \A c, d \in Callers :
    /\ call[c].phase = "creating" /\ call[d].phase = "creating"
    /\ call'[c].phase # "creating"
    => call'[d].session = call'[c].session /\ call'[d].phase # "creating"

-----------------------------------------------------------------------------
(* Sequences: what they hold, and whether they hold it once.               *)
LEMMA RangeOfAppend ==
  ASSUME NEW S, NEW q \in Seq(S), NEW x \in S
  PROVE  /\ Append(q, x) \in Seq(S)
         /\ Range(Append(q, x)) = Range(q) \cup {x}
         /\ Distinct(q) /\ x \notin Range(q) => Distinct(Append(q, x))
  <1> DEFINE r == Append(q, x)
  <1>1. /\ r \in Seq(S) /\ DOMAIN r = 1..(Len(q) + 1) /\ DOMAIN q = 1..Len(q) /\ Len(q) \in Nat
        /\ \A i \in 1..Len(q) : r[i] = q[i]
        /\ r[Len(q) + 1] = x
    OBVIOUS
  <1> HIDE DEF r
  <1>2. ASSUME NEW y \in Range(r) PROVE y \in Range(q) \cup {x}
    <2>1. PICK i \in 1..(Len(q) + 1) : y = r[i]
      BY <1>1 DEF Range
    <2>2. i \in 1..Len(q) \/ i = Len(q) + 1
      BY <1>1
    <2> QED BY <1>1, <2>1, <2>2 DEF Range
  <1>3. ASSUME NEW y \in Range(q) PROVE y \in Range(r)
    <2>1. PICK i \in 1..Len(q) : y = q[i]
      BY <1>1 DEF Range
    <2>2. i \in 1..(Len(q) + 1) /\ y = r[i]
      BY <1>1, <2>1
    <2> QED BY <1>1, <2>2 DEF Range
  <1>4. Len(q) + 1 \in DOMAIN r
    BY <1>1
  <1>5. x \in Range(r)
    BY <1>1, <1>4 DEF Range
  <1>6. Range(r) = Range(q) \cup {x}
    BY <1>2, <1>3, <1>5
  <1>7. ASSUME Distinct(q), x \notin Range(q) PROVE Distinct(r)
    <2>1. \A k \in 1..Len(q) : q[k] # x
      BY <1>1, <1>7 DEF Range
    <2> QED BY <1>1, <1>7, <2>1 DEF Distinct
  <1> QED BY <1>1, <1>6, <1>7 DEF r

LEMMA RangeOfTail ==
  ASSUME NEW S, NEW q \in Seq(S), q # <<>>
  PROVE  /\ Tail(q) \in Seq(S) /\ q[1] \in S
         /\ Range(q) = Range(Tail(q)) \cup {q[1]}
  <1> DEFINE r == Tail(q)
  <1>1. /\ r \in Seq(S) /\ DOMAIN r = 1..(Len(q) - 1) /\ DOMAIN q = 1..Len(q)
        /\ Len(q) \in Nat /\ Len(q) > 0 /\ \A i \in 1..(Len(q) - 1) : r[i] = q[i + 1]
    OBVIOUS
  <1> HIDE DEF r
  <1>2. ASSUME NEW y \in Range(q) PROVE y \in Range(r) \cup {q[1]}
    <2>1. PICK i \in 1..Len(q) : y = q[i]
      BY <1>1 DEF Range
    <2>2. CASE i # 1
      <3>1. i - 1 \in DOMAIN r /\ r[i - 1] = y
        BY <1>1, <2>1, <2>2
      <3> QED BY <3>1 DEF Range
    <2> QED BY <2>1, <2>2
  <1>3. ASSUME NEW y \in Range(r) PROVE y \in Range(q)
    <2>1. PICK i \in 1..(Len(q) - 1) : y = r[i]
      BY <1>1 DEF Range
    <2>2. i + 1 \in DOMAIN q /\ q[i + 1] = y
      BY <1>1, <2>1
    <2> QED BY <2>2 DEF Range
  <1>4. q[1] \in Range(q) /\ q[1] \in S
    BY <1>1 DEF Range
  <1> QED BY <1>1, <1>2, <1>3, <1>4 DEF r

LEMMA RangeOfConcat ==
  ASSUME NEW S, NEW q \in Seq(S), NEW r \in Seq(S)
  PROVE  /\ q \o r \in Seq(S)
         /\ Range(q \o r) = Range(q) \cup Range(r)
         /\ Distinct(q) /\ Distinct(r) /\ Range(q) \cap Range(r) = {} => Distinct(q \o r)
  <1> DEFINE t == q \o r
  <1>1. /\ t \in Seq(S) /\ DOMAIN t = 1..(Len(q) + Len(r)) /\ DOMAIN q = 1..Len(q)
        /\ DOMAIN r = 1..Len(r) /\ Len(q) \in Nat /\ Len(r) \in Nat
        /\ \A i \in 1..Len(q) : t[i] = q[i]
        /\ \A i \in (Len(q) + 1)..(Len(q) + Len(r)) : t[i] = r[i - Len(q)]
    OBVIOUS
  <1> HIDE DEF t
  <1>2. ASSUME NEW y \in Range(t) PROVE y \in Range(q) \cup Range(r)
    <2>1. PICK i \in DOMAIN t : y = t[i]
      BY DEF Range
    <2>2. CASE i <= Len(q)
      BY <1>1, <2>1, <2>2 DEF Range
    <2>3. CASE i > Len(q)
      <3>1. i - Len(q) \in DOMAIN r /\ y = r[i - Len(q)]
        BY <1>1, <2>1, <2>3
      <3> QED BY <3>1 DEF Range
    <2> QED BY <1>1, <2>2, <2>3
  <1>3. ASSUME NEW y \in Range(q) PROVE y \in Range(t)
    <2>1. PICK i \in DOMAIN q : y = q[i]
      BY DEF Range
    <2>2. i \in DOMAIN t /\ y = t[i]
      BY <1>1, <2>1
    <2> QED BY <2>2 DEF Range
  <1>4. ASSUME NEW y \in Range(r) PROVE y \in Range(t)
    <2>1. PICK i \in DOMAIN r : y = r[i]
      BY DEF Range
    <2>2. i \in 1..Len(r) /\ Len(q) \in Nat /\ Len(r) \in Nat
      BY <1>1
    <2>3. i + Len(q) \in (Len(q) + 1)..(Len(q) + Len(r)) /\ (i + Len(q)) - Len(q) = i
      BY <2>2
    <2>4. t[i + Len(q)] = r[(i + Len(q)) - Len(q)] /\ i + Len(q) \in 1..(Len(q) + Len(r))
      BY <1>1, <2>2, <2>3
    <2>5. i + Len(q) \in DOMAIN t /\ y = t[i + Len(q)]
      BY <1>1, <2>1, <2>3, <2>4
    <2> QED BY <2>5 DEF Range
  <1>5. ASSUME Distinct(q), Distinct(r), Range(q) \cap Range(r) = {},
               NEW i \in DOMAIN t, NEW j \in DOMAIN t, t[i] = t[j]
        PROVE  i = j
    <2>1. CASE i <= Len(q) /\ j <= Len(q)
      BY <1>1, <1>5, <2>1 DEF Distinct
    <2>2. CASE i > Len(q) /\ j > Len(q)
      <3>1. /\ i - Len(q) \in DOMAIN r /\ j - Len(q) \in DOMAIN r
            /\ r[i - Len(q)] = r[j - Len(q)]
        BY <1>1, <1>5, <2>2
      <3>2. i - Len(q) = j - Len(q)
        BY <1>5, <3>1 DEF Distinct
      <3> QED BY <1>1, <3>2
    <2>3. ASSUME NEW k \in DOMAIN t, NEW l \in DOMAIN t, k <= Len(q), l > Len(q)
          PROVE  t[k] # t[l]
      <3>0. /\ k \in 1..Len(q) /\ l \in (Len(q) + 1)..(Len(q) + Len(r)) /\ l - Len(q) \in 1..Len(r)
        <4>1. k \in 1..(Len(q) + Len(r)) /\ l \in 1..(Len(q) + Len(r)) /\ Len(q) \in Nat /\ Len(r) \in Nat
          BY <1>1, <2>3
        <4> QED BY <2>3, <4>1
      <3>1. l - Len(q) \in DOMAIN r /\ t[l] = r[l - Len(q)] /\ k \in DOMAIN q /\ t[k] = q[k]
        BY <1>1, <3>0
      <3>2. t[l] \in Range(r) /\ t[k] \in Range(q)
        BY <3>1 DEF Range
      <3> QED BY <1>5, <3>2
    <2> QED BY <1>1, <1>5, <2>1, <2>2, <2>3
  <1>6. Range(t) = Range(q) \cup Range(r)
    BY <1>2, <1>3, <1>4
  <1>7. Distinct(q) /\ Distinct(r) /\ Range(q) \cap Range(r) = {} => Distinct(t)
    BY <1>5 DEF Distinct
  <1> QED BY <1>1, <1>6, <1>7 DEF t

LEMMA RangeOfOne ==
  ASSUME NEW x
  PROVE  Range(<<x>>) = {x} /\ Distinct(<<x>>) /\ \A S : x \in S => <<x>> \in Seq(S)
  BY DEF Range, Distinct

LEMMA RangeOfNone == Range(<<>>) = {} /\ Distinct(<<>>) /\ \A S : <<>> \in Seq(S)
  BY DEF Range, Distinct

LEMMA RangeIn == ASSUME NEW S, NEW q \in Seq(S) PROVE Range(q) \subseteq S
  BY DEF Range

LEMMA SendingIs ==
  ASSUME NEW c \in Callers
  PROVE  /\ Sending(c) \in Seq(Sends) /\ Distinct(Sending(c))
         /\ Range(Sending(c)) \cup Files(c = Upload) = {c}
         /\ Range(Sending(c)) \subseteq {c}
  <1>1. CASE c = Upload
    BY <1>1, RangeOfNone DEF Sending, Files
  <1>2. CASE c # Upload
    BY <1>2, RangeOfOne DEF Sending, Files, Callers
  <1> QED BY <1>1, <1>2

-----------------------------------------------------------------------------
(* A step that neither begins a creation nor ends one.                     *)
Apart ==
  /\ call' \in Calls /\ creating' = creating /\ active' \in Sessions \cup {None}
  /\ agent' \in Agents /\ owner' = owner
  /\ \A c \in Callers : call[c].phase = "creating" => call'[c] = call[c]
  /\ \A c \in Callers : call'[c].phase \in {"none", "creating"} => call'[c] = call[c]

LEMMA ApartKeeps == ASSUME BurstInv, Apart PROVE BurstInv' /\ Together
  BY DEF BurstInv, Apart, Waiting, Together

(* One caller's phase changes, from and to another than "creating".        *)
LEMMA OnePhase ==
  ASSUME BurstInv, NEW n \in Callers, NEW p \in Phases \ {"none", "creating"},
         call[n].phase # "creating", creating' = creating, active' = active, agent' = agent, owner' = owner,
         call' = [call EXCEPT ![n].phase = p]
  PROVE  Apart
  BY DEF BurstInv, Apart, Calls

LEMMA ContinueCalls ==
  ASSUME BurstInv, NEW s \in Sessions, NEW sends \in Seq(Sends), NEW file \in BOOLEAN,
         Continue(sends, file, s)
  PROVE  /\ call' \in Calls /\ active' = s
         /\ \A c \in Range(sends) \cup Files(file) :
              call'[c].phase \notin {"none", "creating"} /\ call'[c].session = s
         /\ \A c \in Range(sends) : call'[c].phase = "posted"
         /\ Upload \notin Range(sends)
         /\ \A c \in Callers : c \notin Range(sends) \cup Files(file) => call'[c] = call[c]
  <1>1. Range(sends) \subseteq Sends /\ Upload \notin Range(sends)
    BY ChatAssumption, RangeIn
  <1> QED BY <1>1 DEF BurstInv, Calls, Continue, Activate, Phases, Callers, Files

-----------------------------------------------------------------------------
(* The steps that begin, join and end a creation.                          *)
LEMMA AskKeeps ==
  ASSUME BurstInv, NEW c \in Callers, Ask(c)
  PROVE  BurstInv' /\ Together
  <1>0. /\ call[c].phase = "none" /\ agent' = agent /\ owner' = owner
        /\ c \notin Waiting
    BY DEF Ask, BurstInv, server
  <1>1. CASE active # None
    <2>1. Continue(Sending(c), c = Upload, active) /\ creating' = creating
      BY <1>1 DEF Ask
    <2>2. active \in Sessions
      BY <1>1 DEF BurstInv
    <2>3. /\ call' \in Calls /\ active' = active
          /\ call'[c].phase \notin {"none", "creating"}
          /\ \A d \in Callers : d # c => call'[d] = call[d]
      <3> DEFINE file == c = Upload
      <3>1. Sending(c) \in Seq(Sends) /\ file \in BOOLEAN /\ Continue(Sending(c), file, active)
        BY <2>1, SendingIs
      <3> HIDE DEF file
      <3>2. /\ call' \in Calls /\ active' = active
            /\ \A d \in Range(Sending(c)) \cup Files(file) : call'[d].phase \notin {"none", "creating"}
            /\ \A d \in Callers : d \notin Range(Sending(c)) \cup Files(file) => call'[d] = call[d]
        BY <2>2, <3>1, ContinueCalls
      <3>3. Range(Sending(c)) \cup Files(file) = {c}
        BY SendingIs DEF file
      <3> QED BY <3>2, <3>3
    <2>4. Apart
      BY <1>0, <2>1, <2>2, <2>3 DEF Apart, BurstInv
    <2> QED BY <2>4, ApartKeeps
  <1>2. CASE active = None
    <2>1. /\ active' = active
          /\ call' = [call EXCEPT ![c].phase = "creating"]
          /\ creating' = IF creating = <<>> THEN Create(c) ELSE Join(c)
      BY <1>2 DEF Ask
    <2>2. \A d \in Callers : /\ call'[d].phase = "creating" <=> call[d].phase = "creating" \/ d = c
                             /\ call'[d].session = call[d].session
      BY <2>1 DEF BurstInv, Calls
    <2>3. call' \in Calls
      BY <2>1 DEF BurstInv, Calls, Phases
    <2>4. /\ creating' # <<>> /\ creating' \in Creations /\ Distinct(creating'[2])
          /\ Waiting' = Waiting \cup {c}
      <3>1. CASE creating = <<>>
        <4>1. creating' = <<agent, Sending(c), c = Upload>>
          BY <2>1, <3>1 DEF Create
        <4> QED BY <3>1, <4>1, SendingIs DEF Waiting, Creations, BurstInv
      <3>2. CASE creating # <<>>
        <4>1. PICK a \in Agents, sends \in Seq(Sends), file \in BOOLEAN :
                creating = <<a, sends, file>>
          BY <3>2 DEF BurstInv, Creations
        <4>2. creating' = <<a, sends \o Sending(c), file \/ c = Upload>>
          BY <2>1, <3>2, <4>1 DEF Join
        <4>3. Waiting = Range(sends) \cup Files(file) /\ Distinct(sends)
          BY <3>2, <4>1 DEF Waiting, BurstInv
        <4>4. Range(sends) \cap Range(Sending(c)) = {}
          BY <1>0, <4>3, SendingIs
        <4>5. /\ sends \o Sending(c) \in Seq(Sends) /\ Distinct(sends \o Sending(c))
              /\ Range(sends \o Sending(c)) = Range(sends) \cup Range(Sending(c))
          BY <4>3, <4>4, SendingIs, RangeOfConcat
        <4>6. Files(file \/ c = Upload) = Files(file) \cup Files(c = Upload)
          BY DEF Files
        <4>7. creating' # <<>> /\ creating' \in Creations /\ Distinct(creating'[2])
          BY <4>2, <4>5 DEF Creations
        <4>8. Waiting' = Range(sends \o Sending(c)) \cup Files(file \/ c = Upload)
          BY <4>2, <4>7 DEF Waiting
        <4> QED BY <4>3, <4>5, <4>6, <4>7, <4>8, SendingIs
      <3> QED BY <3>1, <3>2
    <2>5. \A d \in Callers : call'[d].phase \in {"none", "creating"} => call'[d].session = None
      BY <1>0, <2>1, <2>2 DEF BurstInv, Calls
    <2> QED BY <1>0, <2>1, <2>2, <2>3, <2>4, <2>5 DEF BurstInv, Together
  <1> QED BY <1>1, <1>2

LEMMA SessionCreatedKeeps ==
  ASSUME BurstInv, NEW s \in Sessions, SessionCreated(s)
  PROVE  BurstInv' /\ Together
  <1>1. /\ creating # <<>> /\ creating' = <<>> /\ Continue(creating[2], creating[3], s)
        /\ agent' = agent /\ owner' = [owner EXCEPT ![s] = creating[1]]
    BY DEF SessionCreated
  <1>2. /\ creating[2] \in Seq(Sends) /\ creating[3] \in BOOLEAN
        /\ Waiting = Range(creating[2]) \cup Files(creating[3])
    BY <1>1 DEF BurstInv, Creations, Waiting
  <1>3. /\ call' \in Calls /\ active' = s
        /\ \A c \in Waiting : call'[c].phase \notin {"none", "creating"} /\ call'[c].session = s
        /\ \A c \in Callers : c \notin Waiting => call'[c] = call[c]
    BY <1>1, <1>2, ContinueCalls
  <1>4. Waiting' = {} /\ creating' \in Creations
    BY <1>1 DEF Waiting, Creations
  <1>5. creating[1] \in Agents
    BY <1>1 DEF BurstInv, Creations
  <1> QED BY <1>1, <1>3, <1>4, <1>5 DEF BurstInv, Together

LEMMA CreationFailsKeeps ==
  ASSUME BurstInv, CreationFails
  PROVE  BurstInv' /\ Together
  <1>1. /\ creating' = <<>> /\ active' = active /\ agent' = agent /\ owner' = owner
        /\ call' = [c \in Callers |-> IF call[c].phase = "creating"
                                      THEN [call[c] EXCEPT !.phase = "failed"] ELSE call[c]]
    BY DEF CreationFails, server
  <1>2. \A c \in Callers : call[c].phase = "creating" =>
          /\ call'[c].phase = "failed" /\ call'[c].session = call[c].session
          /\ call'[c] \in [phase : Phases, session : Sessions \cup {None}]
    BY <1>1 DEF BurstInv, Calls, Phases
  <1>3. \A c \in Callers : call[c].phase # "creating" => call'[c] = call[c]
    BY <1>1
  <1>4. call' \in Calls
    BY <1>1, <1>2, <1>3 DEF BurstInv, Calls
  <1>5. Waiting' = {} /\ creating' \in Creations
    BY <1>1 DEF Waiting, Creations
  <1> QED BY <1>1, <1>2, <1>3, <1>4, <1>5 DEF BurstInv, Together

-----------------------------------------------------------------------------
(* All the others leave it alone.                                          *)
LEMMA OthersApart ==
  ASSUME BurstInv,
         \/ \E n \in Sends : AnswerLands(n) \/ PostFails(n) \/ ServerStores(n) \/ ServerAnnounces(n)
         \/ \E n \in Sends, s \in Sessions : OtherDeviceSends(n, s)
  PROVE  Apart
  <1>0. Sends \subseteq Callers
    BY DEF Callers
  <1>1. ASSUME NEW n \in Sends, AnswerLands(n) PROVE Apart
    BY <1>0, <1>1, OnePhase DEF AnswerLands, Phases, server
  <1>2. ASSUME NEW n \in Sends, PostFails(n) PROVE Apart
    BY <1>0, <1>2, OnePhase DEF PostFails, Phases, server
  <1>3. ASSUME NEW n \in Sends, ServerStores(n) PROVE Apart
    BY <1>0, <1>3, OnePhase DEF ServerStores, Store, Phases
  <1>4. ASSUME NEW n \in Sends, ServerAnnounces(n) PROVE Apart
    <2>1. PICK p \in {"done", "answering"} : call' = [call EXCEPT ![n].phase = p]
      BY <1>4 DEF ServerAnnounces
    <2> QED BY <1>0, <1>4, <2>1, OnePhase DEF ServerAnnounces, Phases, server
  <1>5. ASSUME NEW n \in Sends, NEW s \in Sessions, OtherDeviceSends(n, s) PROVE Apart
    <2>1. /\ call[n].phase = "none" /\ creating' = creating /\ active' = active /\ agent' = agent
          /\ owner' = owner /\ call' = [call EXCEPT ![n] = [phase |-> "other", session |-> s]]
      BY <1>5 DEF OtherDeviceSends, Store
    <2> QED BY <1>0, <2>1 DEF BurstInv, Apart, Calls, Phases
  <1> QED BY <1>1, <1>2, <1>3, <1>4, <1>5

LEMMA RestApart ==
  ASSUME BurstInv, call' = call, creating' = creating, active' \in Sessions \cup {None},
         agent' \in Agents, owner' = owner
  PROVE  Apart
  BY DEF BurstInv, Apart

LEMMA BurstInvInit == Init => BurstInv
  BY DEF Init, BurstInv, Calls, Phases, Waiting, Creations

LEMMA BurstStep == BurstInv /\ [Next]_vars => BurstInv' /\ Together
  <1> SUFFICES ASSUME BurstInv, [Next]_vars PROVE BurstInv' /\ Together
    OBVIOUS
  <1>0. /\ active \in Sessions \cup {None} /\ agent \in Agents
        /\ owner \in [Sessions -> Agents \cup {None}]
    BY DEF BurstInv
  <1>1. CASE UNCHANGED <<client, owner>>
    BY <1>0, <1>1, RestApart, ApartKeeps DEF client
  <1>2. CASE \E c \in Callers : Ask(c)
    BY <1>2, AskKeeps
  <1>3. CASE \E s \in Sessions : SessionCreated(s)
    BY <1>3, SessionCreatedKeeps
  <1>4. CASE CreationFails
    BY <1>4, CreationFailsKeeps
  <1>5. CASE \/ \E s \in Sessions : SelectSession(s)
             \/ NewChat
             \/ \E a \in Agents : SelectAgent(a)
    BY <1>0, <1>5, RestApart, ApartKeeps DEF SelectSession, NewChat, SelectAgent, Activate, server
  <1>6. CASE \/ \E n \in Sends : AnswerLands(n) \/ PostFails(n) \/ ServerStores(n) \/ ServerAnnounces(n)
             \/ \E n \in Sends, s \in Sessions : OtherDeviceSends(n, s)
    BY <1>6, OthersApart, ApartKeeps
  <1>7. CASE \/ \E s \in Sessions : FetchMessages(s) \/ FetchPending(s) \/ FetchFails(s)
             \/ Stop \/ Deliver \/ Drop \/ Reconnect
             \/ \E n \in Sends, m \in Moves : ServerMoves(n, m)
    <2>1. UNCHANGED <<client, owner>>
      BY <1>7 DEF FetchMessages, FetchPending, FetchFails, Stop, Deliver, Drop, Reconnect,
                  ServerMoves, server
    <2> QED BY <1>1, <2>1
  <1>8. CASE UNCHANGED vars
    BY <1>1, <1>8 DEF vars, server
  <1> QED BY <1>2, <1>3, <1>4, <1>5, <1>6, <1>7, <1>8 DEF Next

-----------------------------------------------------------------------------
(* A file dropped and a message sent while no session exists, in any number *)
(* and in any order with switches of the agent or the session: all who wait *)
(* for a creation get the session it made, or fail together.                *)
THEOREM BurstSharesOne == Spec => BurstShares
  <1>1. BurstInv /\ [Next]_vars => [Together]_vars
    BY BurstStep
  <1>2. BurstInv /\ [Next]_vars => BurstInv'
    BY BurstStep
  <1>3. Init /\ [][Next]_vars => [][Together]_vars
    BY <1>1, <1>2, BurstInvInit, PTL
  <1> QED BY <1>3 DEF Spec, BurstShares, Together

-----------------------------------------------------------------------------
(* Rows and events are told apart by their kind and their send.          *)
LEMMA RowsDiffer ==
  ASSUME NEW n \in Sends
  PROVE  /\ {User(n), Optimistic(n), Reply(n)} \subseteq MessageId
         /\ \A m \in Sends : /\ User(n) # Optimistic(m) /\ User(n) # Reply(m) /\ Optimistic(n) # Reply(m)
                             /\ User(n) = User(m) => n = m
                             /\ Optimistic(n) = Optimistic(m) => n = m
                             /\ Reply(n) = Reply(m) => n = m
  BY DEF User, Optimistic, Reply, MessageId

Statuses == InFlight \cup {"none", "completed", "failed", "cancelled"}
Kinds == {"task:queued", "chat:message", "task:dispatch", "task:running",
          "task:waiting_local_directory", "task:cancelled", "chat:done", "task:failed"}

ServerTyped ==
  /\ task \in [Sends -> [status : Statuses, session : Sessions \cup {None}]]
  /\ log \in [Sessions -> Seq(MessageId)]
  /\ wire \in Seq(Kinds \X Sends) /\ conn \in {"up", "down", "again"}
  /\ excuse \in [Sessions -> {"none", "pill", "both"}]

(* The server knows what was sent and nothing else, and a session's log    *)
(* lists each of its sends at most once, and the reply once it ended.      *)
Stored(n) == task[n].status # "none"

CallsKnown ==
  \A n \in Sends :
    /\ call[n].phase \in {"none", "creating", "posted"} => ~Stored(n)
    /\ call[n].phase \in {"stored", "answering", "done", "other"} => Stored(n)
    /\ Stored(n) => task[n].session = call[n].session /\ call[n].session \in Sessions

LogOK(s) ==
  /\ Distinct(log[s])
  /\ \A m \in Range(log[s]) : \E n \in Sends :
       /\ Stored(n) /\ call[n].session = s
       /\ m = User(n) \/ (m = Reply(n) /\ task[n].status \in {"completed", "failed"})

(* A session the server has not made is nobody's.                          *)
Unmade(s) == log[s] = <<>> /\ active # s /\ \A c \in Callers : call[c].session # s

WireOK ==
  /\ \A e \in Range(wire) :
       Stored(e[2]) /\ (e[1] = "chat:done" => Reply(e[2]) \in Range(log[call[e[2]].session]))
  /\ conn = "down" => wire = <<>>

(* A send whose POST failed excuses its session.                           *)
FailedExcused ==
  \A n \in Sends : call[n].phase = "failed" /\ call[n].session # None => excuse[call[n].session] = "both"

Underway == {"posted", "stored", "answering", "done", "other"}
SessionsKnown == \A c \in Callers : call[c].phase \in Underway => call[c].session \in Sessions

ServerInv ==
  /\ ServerTyped
  /\ SessionsKnown
  /\ CallsKnown
  /\ \A s \in Sessions : LogOK(s)
  /\ \A s \in Sessions : owner[s] = None => Unmade(s)
  /\ WireOK
  /\ FailedExcused

(* Every step leaves alone the session of a call that has one.             *)
Keep == \A c \in Callers : call[c].phase \notin {"none", "creating"} => call'[c].session = call[c].session

LEMMA ServerInit == Init => ServerInv
  <1> SUFFICES ASSUME Init PROVE ServerInv
    OBVIOUS
  <1>1. ServerTyped
    BY RangeOfNone DEF Init, ServerTyped, Statuses
  <1>2. SessionsKnown /\ CallsKnown /\ FailedExcused
    BY DEF Init, SessionsKnown, CallsKnown, FailedExcused, Underway, Stored, Callers
  <1>3. \A s \in Sessions : LogOK(s) /\ Unmade(s)
    BY RangeOfNone, ChatAssumption DEF Init, LogOK, Unmade
  <1>4. WireOK
    BY RangeOfNone DEF Init, WireOK
  <1> QED BY <1>1, <1>2, <1>3, <1>4 DEF ServerInv

(* What changes nothing of the server, of the calls or of the socket.      *)
LEMMA ServerFrame ==
  ASSUME BurstInv, ServerInv, call' = call, UNCHANGED server, UNCHANGED net,
         excuse' = excuse \/ \E s \in Sessions : Excuse(s, "both"),
         active' = active \/ active' = None \/ owner[active'] # None
  PROVE  ServerInv'
  <1>1. UNCHANGED <<call, task, log, owner, wire, conn>>
    BY DEF server, net
  <1>2. excuse' \in [Sessions -> {"none", "pill", "both"}] /\ \A s \in Sessions : excuse[s] = "both" => excuse'[s] = "both"
    BY DEF ServerInv, ServerTyped, Excuse
  <1>3. ServerTyped' /\ SessionsKnown' /\ CallsKnown' /\ WireOK'
    BY <1>1, <1>2 DEF ServerInv, ServerTyped, SessionsKnown, CallsKnown, WireOK, Stored
  <1>4. ASSUME NEW s \in Sessions PROVE LogOK(s)'
    BY <1>1 DEF ServerInv, LogOK, Stored
  <1>5. ASSUME NEW s \in Sessions, owner'[s] = None PROVE Unmade(s)'
    BY <1>1, <1>5, ChatAssumption DEF ServerInv, Unmade
  <1>6. FailedExcused'
    BY <1>1, <1>2 DEF ServerInv, FailedExcused, BurstInv, Calls, Callers
  <1> QED BY <1>3, <1>4, <1>5, <1>6 DEF ServerInv

(* A call that was stored keeps its session, so the log and the socket     *)
(* still say what they said.                                               *)
LEMMA ServerSame ==
  ASSUME ServerInv, UNCHANGED <<task, log, wire, conn>>, Keep
  PROVE  WireOK' /\ \A s \in Sessions : LogOK(s)'
  <1>1. \A n \in Sends : Stored(n)' = Stored(n) /\ (Stored(n) => call'[n].session = call[n].session)
    BY DEF ServerInv, CallsKnown, Keep, Stored, Callers
  <1>2. WireOK'
    <2>1. \A e \in Range(wire) : e[2] \in Sends
      BY RangeIn DEF ServerInv, ServerTyped
    <2> QED BY <1>1, <2>1 DEF ServerInv, WireOK
  <1>3. ASSUME NEW s \in Sessions PROVE LogOK(s)'
    <2>1. LogOK(s)
      BY DEF ServerInv
    <2> QED BY <1>1, <2>1 DEF LogOK
  <1> QED BY <1>2, <1>3

LEMMA ContinueServer ==
  ASSUME BurstInv, ServerInv, NEW s \in Sessions, NEW sends \in Seq(Sends), NEW file \in BOOLEAN,
         Continue(sends, file, s), UNCHANGED <<task, log, net, excuse>>,
         \A c \in Range(sends) \cup Files(file) : call[c].phase \in {"none", "creating"},
         owner' = owner \/ owner' = [owner EXCEPT ![s] = creating[1]],
         owner'[s] # None
  PROVE  ServerInv' /\ Keep
  <1> DEFINE W == Range(sends) \cup Files(file)
  <1>1. /\ call' \in Calls /\ active' = s
        /\ \A c \in W : call'[c].phase \notin {"none", "creating"} /\ call'[c].session = s
        /\ \A c \in Range(sends) : call'[c].phase = "posted"
        /\ Upload \notin Range(sends)
        /\ \A c \in Callers : c \notin W => call'[c] = call[c]
    BY ContinueCalls
  <1>2. Range(sends) \subseteq Sends /\ Files(file) \cap Sends = {} /\ W \subseteq Callers
    BY RangeIn, ChatAssumption DEF Files, Callers
  <1>3. UNCHANGED <<task, log, wire, conn, excuse>>
    BY DEF net
  <1>4. Keep
    BY <1>1 DEF Keep
  <1>5. ServerTyped'
    BY <1>3 DEF ServerInv, ServerTyped
  <1>6. SessionsKnown'
    BY <1>1 DEF ServerInv, SessionsKnown
  <1>7. CallsKnown'
    <2> SUFFICES ASSUME NEW n \in Sends
                 PROVE /\ call'[n].phase \in {"none", "creating", "posted"} => ~Stored(n)'
                       /\ call'[n].phase \in {"stored", "answering", "done", "other"} => Stored(n)'
                       /\ Stored(n)' => task'[n].session = call'[n].session /\ call'[n].session \in Sessions
      BY DEF CallsKnown
    <2>1. Stored(n)' = Stored(n) /\ n \in Callers /\ task' = task
      BY <1>3 DEF Stored, Callers
    <2>2. CASE n \in Range(sends)
      BY <1>1, <2>1, <2>2 DEF ServerInv, CallsKnown
    <2>3. CASE n \notin Range(sends)
      BY <1>1, <1>2, <2>1, <2>3 DEF ServerInv, CallsKnown
    <2> QED BY <2>2, <2>3
  <1>8. ASSUME NEW t \in Sessions, owner'[t] = None PROVE Unmade(t)'
    <2>1. t # s /\ owner[t] = None
      BY <1>8 DEF BurstInv
    <2>2. Unmade(t)
      BY <2>1 DEF ServerInv
    <2> QED BY <1>1, <1>3, <2>1, <2>2 DEF Unmade
  <1>9. FailedExcused'
    BY <1>1, <1>2, <1>3 DEF ServerInv, FailedExcused, Callers
  <1> QED BY <1>3, <1>4, <1>5, <1>6, <1>7, <1>8, <1>9, ServerSame DEF ServerInv

LEMMA AskServer ==
  ASSUME BurstInv, ServerInv, NEW c \in Callers, Ask(c)
  PROVE  ServerInv' /\ Keep
  <1>0. call[c].phase = "none" /\ UNCHANGED <<server, net, excuse>>
    BY DEF Ask
  <1>1. CASE active # None
    <2> DEFINE file == c = Upload
    <2>1. Continue(Sending(c), file, active) /\ file \in BOOLEAN /\ active \in Sessions
      BY <1>1 DEF Ask, BurstInv
    <2>2. owner[active] # None
      BY <2>1 DEF ServerInv, Unmade
    <2>3. Range(Sending(c)) \cup Files(file) = {c} /\ Sending(c) \in Seq(Sends)
      BY SendingIs
    <2> HIDE DEF file
    <2> QED BY <1>0, <2>1, <2>2, <2>3, ContinueServer DEF server
  <1>2. CASE active = None
    <2>1. /\ active' = active /\ UNCHANGED <<task, log, wire, conn, owner, excuse>>
          /\ call' = [call EXCEPT ![c].phase = "creating"]
      BY <1>0, <1>2 DEF Ask, server, net
    <2>2. /\ call'[c].phase = "creating" /\ call'[c].session = None
          /\ \A d \in Callers : d # c => call'[d] = call[d]
      BY <1>0, <2>1 DEF BurstInv, Calls
    <2>3. Keep
      BY <1>0, <2>2 DEF Keep
    <2>4. ServerTyped'
      BY <2>1 DEF ServerInv, ServerTyped
    <2>5. SessionsKnown'
      BY <2>2 DEF ServerInv, SessionsKnown, Underway
    <2>6. CallsKnown'
      BY <1>0, <2>1, <2>2 DEF ServerInv, CallsKnown, Stored, Callers
    <2>7. ASSUME NEW t \in Sessions, owner'[t] = None PROVE Unmade(t)'
      <3>1. Unmade(t) /\ t # None
        BY <2>1, <2>7, ChatAssumption DEF ServerInv
      <3> QED BY <2>1, <2>2, <3>1 DEF Unmade
    <2>8. FailedExcused'
      BY <2>1, <2>2 DEF ServerInv, FailedExcused, Callers
    <2> QED BY <2>1, <2>3, <2>4, <2>5, <2>6, <2>7, <2>8, ServerSame DEF ServerInv
  <1> QED BY <1>1, <1>2

LEMMA SessionCreatedServer ==
  ASSUME BurstInv, ServerInv, NEW s \in Sessions, SessionCreated(s)
  PROVE  ServerInv' /\ Keep
  <1>1. /\ creating # <<>> /\ Continue(creating[2], creating[3], s)
        /\ owner' = [owner EXCEPT ![s] = creating[1]] /\ UNCHANGED <<task, log, net, excuse>>
    BY DEF SessionCreated
  <1>2. /\ creating[1] \in Agents /\ creating[2] \in Seq(Sends) /\ creating[3] \in BOOLEAN
        /\ Waiting = Range(creating[2]) \cup Files(creating[3])
    BY <1>1 DEF BurstInv, Creations, Waiting
  <1>3. \A c \in Waiting : call[c].phase \in {"none", "creating"}
    <2>1. Waiting \subseteq Callers
      BY <1>2, RangeIn DEF Files, Callers
    <2> QED BY <2>1 DEF BurstInv
  <1>4. owner'[s] # None
    BY <1>1, <1>2, ChatAssumption DEF BurstInv
  <1> QED BY <1>1, <1>2, <1>3, <1>4, ContinueServer

LEMMA CreationFailsServer ==
  ASSUME BurstInv, ServerInv, CreationFails
  PROVE  ServerInv' /\ Keep
  <1>1. /\ active' = active /\ UNCHANGED <<task, log, wire, conn, owner, excuse>>
        /\ call' = [c \in Callers |-> IF call[c].phase = "creating"
                                      THEN [call[c] EXCEPT !.phase = "failed"] ELSE call[c]]
    BY DEF CreationFails, server, net
  <1>2. \A c \in Callers :
          /\ call[c].phase = "creating" => call'[c].phase = "failed" /\ call'[c].session = None
          /\ call[c].phase # "creating" => call'[c] = call[c]
    BY <1>1 DEF BurstInv, Calls
  <1>3. Keep
    BY <1>2 DEF Keep
  <1>4. ServerTyped'
    BY <1>1 DEF ServerInv, ServerTyped
  <1>5. SessionsKnown'
    BY <1>2 DEF ServerInv, SessionsKnown, Underway
  <1>6. CallsKnown'
    BY <1>1, <1>2 DEF ServerInv, CallsKnown, Stored, Callers
  <1>7. ASSUME NEW t \in Sessions, owner'[t] = None PROVE Unmade(t)'
    <2>1. Unmade(t) /\ t # None
      BY <1>1, <1>7, ChatAssumption DEF ServerInv
    <2> QED BY <1>1, <1>2, <2>1 DEF Unmade
  <1>8. FailedExcused'
    BY <1>1, <1>2 DEF ServerInv, FailedExcused, Callers
  <1> QED BY <1>1, <1>3, <1>4, <1>5, <1>6, <1>7, <1>8, ServerSame DEF ServerInv

(* The answer lands, or the POST fails.                                    *)
LEMMA AnswerServer ==
  ASSUME BurstInv, ServerInv, NEW n \in Sends, AnswerLands(n) \/ PostFails(n)
  PROVE  ServerInv' /\ Keep
  <1>1. PICK p \in {"done", "failed"} :
          /\ call' = [call EXCEPT ![n].phase = p]
          /\ call[n].phase \in {"posted", "answering"}
          /\ p = "done" => call[n].phase = "answering"
          /\ p = "failed" => Excuse(call[n].session, "both")
          /\ UNCHANGED excuse \/ Excuse(call[n].session, "pill") \/ Excuse(call[n].session, "both")
          /\ active' = active /\ UNCHANGED <<task, log, wire, conn, owner>>
    <2>1. CASE AnswerLands(n)
      BY <2>1 DEF AnswerLands, server, net
    <2>2. CASE PostFails(n)
      BY <2>2 DEF PostFails, server, net
    <2> QED BY <2>1, <2>2
  <1>2. /\ n \in Callers /\ call'[n].phase = p /\ call'[n].session = call[n].session
        /\ \A d \in Callers : d # n => call'[d] = call[d]
    BY <1>1 DEF BurstInv, Calls, Callers
  <1>3. Keep
    BY <1>2 DEF Keep
  <1>0. /\ excuse' \in [Sessions -> {"none", "pill", "both"}]
        /\ \A s \in Sessions : excuse[s] = "both" => excuse'[s] = "both"
        /\ p = "failed" /\ call[n].session \in Sessions => excuse'[call[n].session] = "both"
    BY <1>1 DEF ServerInv, ServerTyped, Excuse
  <1>4. ServerTyped'
    BY <1>0, <1>1 DEF ServerInv, ServerTyped
  <1>5. SessionsKnown'
    BY <1>1, <1>2 DEF ServerInv, SessionsKnown, Underway
  <1>6. CallsKnown'
    BY <1>1, <1>2 DEF ServerInv, CallsKnown, Stored, Callers
  <1>7. ASSUME NEW t \in Sessions, owner'[t] = None PROVE Unmade(t)'
    <2>1. Unmade(t) /\ t # None
      BY <1>1, <1>7, ChatAssumption DEF ServerInv
    <2> QED BY <1>1, <1>2, <2>1 DEF Unmade
  <1>8. FailedExcused'
    BY <1>0, <1>1, <1>2 DEF ServerInv, FailedExcused, Callers, BurstInv, Calls
  <1> QED BY <1>1, <1>3, <1>4, <1>5, <1>6, <1>7, <1>8, ServerSame DEF ServerInv

-----------------------------------------------------------------------------
(* The server's steps.  What a down socket loses is excused.               *)
LEMMA EmitIs ==
  ASSUME ServerInv, NEW k \in Kinds, NEW n \in Sends, Emit(<<k, n>>), conn' = conn
  PROVE  /\ wire' \in Seq(Kinds \X Sends)
         /\ Range(wire') \subseteq Range(wire) \cup {<<k, n>>}
         /\ Range(wire) \subseteq Range(wire')
         /\ conn # "down" => <<k, n>> \in Range(wire')
         /\ conn' = "down" => wire' = <<>>
  <1>1. wire \in Seq(Kinds \X Sends) /\ (conn = "down" => wire = <<>>)
    BY DEF ServerInv, ServerTyped, WireOK
  <1>2. wire' = IF conn = "down" THEN wire ELSE Append(wire, <<k, n>>)
    BY DEF Emit
  <1>3. <<k, n>> \in Kinds \X Sends
    OBVIOUS
  <1> DEFINE e == <<k, n>>
  <1>4. e \in Kinds \X Sends
    BY <1>3
  <1> HIDE DEF e
  <1>5. /\ Append(wire, e) \in Seq(Kinds \X Sends)
        /\ Range(Append(wire, e)) = Range(wire) \cup {e}
    BY <1>1, <1>4, RangeOfAppend
  <1>6. Append(wire, e) = Append(wire, <<k, n>>) /\ e = <<k, n>>
    BY DEF e
  <1> QED BY <1>1, <1>2, <1>5, <1>6

LEMMA LostIs ==
  ASSUME ServerInv, NEW s \in Sessions, Lost(s)
  PROVE  /\ excuse' \in [Sessions -> {"none", "pill", "both"}]
         /\ \A t \in Sessions : excuse[t] = "both" => excuse'[t] = "both"
         /\ \A t \in Sessions : t # s => excuse'[t] = excuse[t]
         /\ conn = "down" => excuse'[s] = "both"
         /\ conn # "down" => excuse' = excuse
  BY DEF ServerInv, ServerTyped, Lost, Excuse

(* A log that grows by a row of one of its stored sends.                   *)
LEMMA LogGrows ==
  ASSUME ServerInv, NEW s \in Sessions, NEW m \in MessageId, m \notin Range(log[s]),
         log' = [log EXCEPT ![s] = Append(@, m)]
  PROVE  /\ log' \in [Sessions -> Seq(MessageId)]
         /\ Range(log'[s]) = Range(log[s]) \cup {m} /\ Distinct(log'[s])
         /\ \A t \in Sessions : t # s => log'[t] = log[t]
         /\ \A t \in Sessions : Range(log[t]) \subseteq Range(log'[t])
  <1>1. log[s] \in Seq(MessageId) /\ Distinct(log[s]) /\ log'[s] = Append(log[s], m)
    BY DEF ServerInv, ServerTyped, LogOK
  <1>2. /\ Append(log[s], m) \in Seq(MessageId) /\ Range(Append(log[s], m)) = Range(log[s]) \cup {m}
        /\ Distinct(Append(log[s], m))
    BY <1>1, RangeOfAppend
  <1> HIDE DEF Distinct
  <1> QED BY <1>1, <1>2 DEF ServerInv, ServerTyped

LEMMA StoreServer ==
  ASSUME BurstInv, BurstInv', ServerInv, NEW n \in Sends, NEW s \in Sessions, Store(n, s),
         NEW p \in {"stored", "other"},
         \/ call[n].phase = "posted" /\ call[n].session = s
         \/ call[n].phase = "none" /\ owner[s] # None,
         call'[n] = [phase |-> p, session |-> s],
         \A c \in Callers : c # n => call'[c] = call[c],
         active' = active
  PROVE  ServerInv' /\ Keep
  <1>0. /\ log' = [log EXCEPT ![s] = Append(@, User(n))] /\ Emit(<<"task:queued", n>>) /\ Lost(s)
        /\ task' = [task EXCEPT ![n] = [status |-> "queued", session |-> s]]
        /\ owner' = owner /\ conn' = conn /\ n \in Callers
    BY DEF Store, Callers
  <1>1. Keep
    BY <1>0 DEF Keep
  <1>2. ~Stored(n) /\ task' \in [Sends -> [status : Statuses, session : Sessions \cup {None}]]
        /\ task'[n].status = "queued" /\ task'[n].session = s
        /\ \A m \in Sends : m # n => task'[m] = task[m]
    BY <1>0 DEF ServerInv, ServerTyped, CallsKnown, Statuses, InFlight
  <1>3. User(n) \notin Range(log[s]) /\ User(n) \in MessageId
    BY <1>2, RowsDiffer DEF ServerInv, LogOK
  <1>4. /\ log' \in [Sessions -> Seq(MessageId)]
        /\ Range(log'[s]) = Range(log[s]) \cup {User(n)} /\ Distinct(log'[s])
        /\ \A t \in Sessions : t # s => log'[t] = log[t]
        /\ \A t \in Sessions : Range(log[t]) \subseteq Range(log'[t])
    BY <1>0, <1>3, LogGrows
  <1>5. /\ wire' \in Seq(Kinds \X Sends)
        /\ Range(wire') \subseteq Range(wire) \cup {<<"task:queued", n>>}
        /\ conn' = "down" => wire' = <<>>
    BY <1>0, EmitIs DEF Kinds
  <1>6. /\ excuse' \in [Sessions -> {"none", "pill", "both"}]
        /\ \A t \in Sessions : excuse[t] = "both" => excuse'[t] = "both"
    BY <1>0, LostIs
  <1>7. ServerTyped'
    BY <1>0, <1>2, <1>4, <1>5, <1>6 DEF ServerInv, ServerTyped
  <1>8. SessionsKnown'
    BY <1>0 DEF ServerInv, SessionsKnown
  <1>9. CallsKnown'
    BY <1>2 DEF ServerInv, CallsKnown, Stored, Callers
  <1>10. \A m \in Sends : /\ Stored(m) => Stored(m)' /\ m # n /\ task'[m] = task[m]
                          /\ Stored(m) => call'[m].session = call[m].session
    BY <1>2 DEF Stored, Callers
  <1>11. ASSUME NEW t \in Sessions PROVE LogOK(t)'
    <2>1. LogOK(t)
      BY DEF ServerInv
    <2>2. Distinct(log'[t])
      BY <1>4, <2>1 DEF LogOK
    <2>3. ASSUME NEW m \in Range(log[t])
          PROVE \E k \in Sends : /\ Stored(k)' /\ call'[k].session = t
                                 /\ m = User(k) \/ (m = Reply(k) /\ task'[k].status \in {"completed", "failed"})
      BY <1>10, <2>1 DEF LogOK
    <2>4. Stored(n)' /\ call'[n].session = s
      BY <1>2 DEF Stored
    <2>5. ASSUME NEW m \in Range(log'[t]), m \notin Range(log[t]) PROVE m = User(n) /\ t = s
      BY <1>4, <2>5
    <2> QED BY <2>2, <2>3, <2>4, <2>5 DEF LogOK
  <1>12. ASSUME NEW t \in Sessions, owner'[t] = None PROVE Unmade(t)'
    <2>1. Unmade(t) /\ t # s
      BY <1>0, <1>12 DEF ServerInv, Unmade
    <2> QED BY <1>0, <1>4, <2>1 DEF Unmade
  <1>13. WireOK'
    <2>1. ASSUME NEW e \in Range(wire')
          PROVE /\ Stored(e[2])'
                /\ e[1] = "chat:done" => Reply(e[2]) \in Range(log'[call'[e[2]].session])
      <3>1. CASE e \in Range(wire)
        <4>1. e[2] \in Sends
          BY <3>1, RangeIn DEF ServerInv, ServerTyped
        <4>2. Stored(e[2]) /\ (e[1] = "chat:done" => Reply(e[2]) \in Range(log[call[e[2]].session]))
          BY <3>1 DEF ServerInv, WireOK
        <4>3. call[e[2]].session \in Sessions
          BY <4>1, <4>2 DEF ServerInv, CallsKnown
        <4> QED BY <1>4, <1>10, <4>1, <4>2, <4>3
      <3>2. CASE e = <<"task:queued", n>>
        BY <1>2, <3>2 DEF Stored
      <3> QED BY <1>5, <3>1, <3>2
    <2> QED BY <1>5, <2>1 DEF WireOK
  <1>14. FailedExcused'
    BY <1>6 DEF ServerInv, FailedExcused, Callers, BurstInv, Calls
  <1> QED BY <1>1, <1>7, <1>8, <1>9, <1>11, <1>12, <1>13, <1>14 DEF ServerInv

LEMMA StoresServer ==
  ASSUME BurstInv, BurstInv', ServerInv, NEW n \in Sends,
         ServerStores(n) \/ \E s \in Sessions : OtherDeviceSends(n, s)
  PROVE  ServerInv' /\ Keep
  <1>0. n \in Callers
    BY DEF Callers
  <1>1. CASE ServerStores(n)
    <2>1. /\ call[n].phase = "posted" /\ active' = active /\ Store(n, call[n].session)
          /\ call' = [call EXCEPT ![n].phase = "stored"]
      BY <1>1 DEF ServerStores
    <2>2. call[n].session \in Sessions
      BY <1>0, <2>1 DEF ServerInv, SessionsKnown, Underway
    <2>3. /\ call'[n] = [phase |-> "stored", session |-> call[n].session]
          /\ \A c \in Callers : c # n => call'[c] = call[c]
      BY <1>0, <2>1 DEF BurstInv, Calls
    <2> QED BY <2>1, <2>2, <2>3, StoreServer
  <1>2. ASSUME NEW s \in Sessions, OtherDeviceSends(n, s) PROVE ServerInv' /\ Keep
    <2>1. /\ call[n].phase = "none" /\ owner[s] # None /\ active' = active /\ Store(n, s)
          /\ call' = [call EXCEPT ![n] = [phase |-> "other", session |-> s]]
      BY <1>2 DEF OtherDeviceSends
    <2>2. /\ call'[n] = [phase |-> "other", session |-> s]
          /\ \A c \in Callers : c # n => call'[c] = call[c]
      BY <1>0, <2>1 DEF BurstInv, Calls
    <2> QED BY <2>1, <2>2, StoreServer
  <1> QED BY <1>1, <1>2

(* What a step of the server that writes no log leaves of the socket.      *)
LEMMA WireKept ==
  ASSUME BurstInv, ServerInv, NEW k \in Kinds, NEW n \in Sends, Stored(n),
         Emit(<<k, n>>), conn' = conn, Keep,
         \A m \in Sends : Stored(m) => Stored(m)',
         \A t \in Sessions : Range(log[t]) \subseteq Range(log'[t]),
         k = "chat:done" => Reply(n) \in Range(log'[call[n].session])
  PROVE  WireOK'
  <1>1. /\ Range(wire') \subseteq Range(wire) \cup {<<k, n>>}
        /\ conn' = "down" => wire' = <<>>
    BY EmitIs
  <1>2. \A m \in Sends : Stored(m) => call[m].session \in Sessions /\ call'[m].session = call[m].session
    BY DEF ServerInv, CallsKnown, Keep, Callers
  <1>3. ASSUME NEW e \in Range(wire')
        PROVE /\ Stored(e[2])'
              /\ e[1] = "chat:done" => Reply(e[2]) \in Range(log'[call'[e[2]].session])
    <2>1. CASE e \in Range(wire)
      <3>1. e[2] \in Sends
        BY <2>1, RangeIn DEF ServerInv, ServerTyped
      <3>2. Stored(e[2]) /\ (e[1] = "chat:done" => Reply(e[2]) \in Range(log[call[e[2]].session]))
        BY <2>1 DEF ServerInv, WireOK
      <3> QED BY <1>2, <3>1, <3>2
    <2>2. CASE e = <<k, n>>
      BY <1>2, <2>2
    <2> QED BY <1>1, <2>1, <2>2
  <1> QED BY <1>1, <1>3 DEF WireOK

LEMMA AnnouncesServer ==
  ASSUME BurstInv, ServerInv, NEW n \in Sends, ServerAnnounces(n)
  PROVE  ServerInv' /\ Keep
  <1>1. PICK p \in {"answering", "done"} :
          /\ call' = [call EXCEPT ![n].phase = p] /\ call[n].phase \in {"stored", "other"}
          /\ Emit(<<"chat:message", n>>) /\ Lost(call[n].session)
          /\ active' = active /\ UNCHANGED <<task, log, conn, owner>>
    BY DEF ServerAnnounces, server
  <1>2. /\ n \in Callers /\ call'[n].phase = p /\ call'[n].session = call[n].session
        /\ \A d \in Callers : d # n => call'[d] = call[d]
        /\ Stored(n) /\ call[n].session \in Sessions
    BY <1>1 DEF BurstInv, Calls, Callers, ServerInv, CallsKnown
  <1>3. Keep
    BY <1>2 DEF Keep
  <1>4. /\ wire' \in Seq(Kinds \X Sends) /\ WireOK'
    BY <1>1, <1>2, <1>3, EmitIs, WireKept DEF Kinds, Stored
  <1>5. /\ excuse' \in [Sessions -> {"none", "pill", "both"}]
        /\ \A t \in Sessions : excuse[t] = "both" => excuse'[t] = "both"
    BY <1>1, <1>2, LostIs
  <1>6. ServerTyped'
    BY <1>1, <1>4, <1>5 DEF ServerInv, ServerTyped
  <1>7. SessionsKnown'
    BY <1>2 DEF ServerInv, SessionsKnown
  <1>8. CallsKnown'
    BY <1>1, <1>2 DEF ServerInv, CallsKnown, Stored, Callers
  <1>9. ASSUME NEW t \in Sessions PROVE LogOK(t)'
    <2>1. LogOK(t) /\ \A m \in Sends : Stored(m)' = Stored(m) /\ call'[m].session = call[m].session
      BY <1>1, <1>2 DEF ServerInv, Stored, Callers
    <2> QED BY <1>1, <2>1 DEF LogOK
  <1>10. ASSUME NEW t \in Sessions, owner'[t] = None PROVE Unmade(t)'
    <2>1. Unmade(t)
      BY <1>1, <1>10 DEF ServerInv
    <2> QED BY <1>1, <1>2, <2>1 DEF Unmade
  <1>11. FailedExcused'
    BY <1>2, <1>5 DEF ServerInv, FailedExcused, Callers, BurstInv, Calls
  <1> QED BY <1>3, <1>4, <1>6, <1>7, <1>8, <1>9, <1>10, <1>11 DEF ServerInv

LEMMA MovesServer ==
  ASSUME BurstInv, ServerInv, NEW n \in Sends, NEW m \in Moves, ServerMoves(n, m)
  PROVE  ServerInv' /\ Keep
  <1> DEFINE s == call[n].session
  <1>1. /\ m[1] \in InFlight /\ m[2] \in Statuses \ {"none"} /\ m[3] \in Kinds
        /\ m[3] = "chat:done" => m[2] \in {"completed", "failed"}
    BY DEF Moves, InFlight, Statuses, Kinds
  <1>2. /\ task[n].status = m[1] /\ task' = [task EXCEPT ![n].status = m[2]]
        /\ log' = IF m[2] \in {"completed", "failed"}
                  THEN [log EXCEPT ![task[n].session] = Append(@, Reply(n))] ELSE log
        /\ Emit(<<m[3], n>>) /\ Lost(task[n].session)
        /\ call' = call /\ active' = active /\ owner' = owner /\ conn' = conn
    BY DEF ServerMoves, client
  <1>3. /\ Stored(n) /\ task[n].session = s /\ s \in Sessions
        /\ task[n].status \notin {"completed", "failed"}
    BY <1>1, <1>2 DEF ServerInv, CallsKnown, Stored, InFlight
  <1>4. Keep
    BY <1>2 DEF Keep
  <1>5. /\ task' \in [Sends -> [status : Statuses, session : Sessions \cup {None}]]
        /\ task'[n].status = m[2] /\ task'[n].session = s
        /\ \A k \in Sends : k # n => task'[k] = task[k]
    BY <1>1, <1>2, <1>3 DEF ServerInv, ServerTyped
  <1>6. /\ log' \in [Sessions -> Seq(MessageId)]
        /\ \A t \in Sessions : Distinct(log'[t])
        /\ \A t \in Sessions : Range(log[t]) \subseteq Range(log'[t])
        /\ \A t \in Sessions : \A k \in Range(log'[t]) :
             k \in Range(log[t]) \/ (t = s /\ k = Reply(n) /\ m[2] \in {"completed", "failed"})
        /\ m[2] \in {"completed", "failed"} => Reply(n) \in Range(log'[s])
    <2>1. CASE m[2] \in {"completed", "failed"}
      <3>1. Reply(n) \notin Range(log[s]) /\ Reply(n) \in MessageId
        BY <1>3, RowsDiffer DEF ServerInv, LogOK
      <3>2. log' = [log EXCEPT ![s] = Append(@, Reply(n))]
        BY <1>2, <1>3, <2>1
      <3>3. \A t \in Sessions : Distinct(log[t])
        BY DEF ServerInv, LogOK
      <3>4. /\ log' \in [Sessions -> Seq(MessageId)]
            /\ Range(log'[s]) = Range(log[s]) \cup {Reply(n)} /\ Distinct(log'[s])
            /\ \A t \in Sessions : t # s => log'[t] = log[t]
            /\ \A t \in Sessions : Range(log[t]) \subseteq Range(log'[t])
        BY <1>3, <3>1, <3>2, LogGrows
      <3> HIDE DEF s
      <3>5. ASSUME NEW t \in Sessions, NEW k \in Range(log'[t])
            PROVE  k \in Range(log[t]) \/ (t = s /\ k = Reply(n))
        BY <3>4, <3>5
      <3>6. \A t \in Sessions : Distinct(log'[t])
        BY <3>3, <3>4
      <3> QED BY <2>1, <3>4, <3>5, <3>6
    <2>2. CASE m[2] \notin {"completed", "failed"}
      BY <1>2, <2>2 DEF ServerInv, ServerTyped, LogOK
    <2> QED BY <2>1, <2>2
  <1>7. \A k \in Sends : Stored(k)' <=> Stored(k)
    BY <1>1, <1>3, <1>5 DEF Stored, Statuses
  <1>8. /\ wire' \in Seq(Kinds \X Sends) /\ WireOK'
    BY <1>1, <1>2, <1>3, <1>4, <1>6, <1>7, EmitIs, WireKept
  <1>9. /\ excuse' \in [Sessions -> {"none", "pill", "both"}]
        /\ \A t \in Sessions : excuse[t] = "both" => excuse'[t] = "both"
    BY <1>2, <1>3, LostIs
  <1>10. ServerTyped'
    BY <1>2, <1>5, <1>6, <1>8, <1>9 DEF ServerInv, ServerTyped
  <1>11. SessionsKnown'
    BY <1>2 DEF ServerInv, SessionsKnown
  <1>12. CallsKnown'
    BY <1>2, <1>3, <1>5, <1>7 DEF ServerInv, CallsKnown
  <1>13. ASSUME NEW t \in Sessions PROVE LogOK(t)'
    <2>1. LogOK(t)
      BY DEF ServerInv
    <2>2. ASSUME NEW k \in Range(log[t])
          PROVE \E j \in Sends : /\ Stored(j)' /\ call'[j].session = t
                                 /\ k = User(j) \/ (k = Reply(j) /\ task'[j].status \in {"completed", "failed"})
      <3>1. PICK j \in Sends : /\ Stored(j) /\ call[j].session = t
                               /\ k = User(j) \/ (k = Reply(j) /\ task[j].status \in {"completed", "failed"})
        BY <2>1 DEF LogOK
      <3>2. task[j].status \in {"completed", "failed"} => task'[j] = task[j]
        BY <1>3, <1>5
      <3>3. Stored(j)' /\ call'[j].session = t
        <4>1. call' = call
          BY <1>2
        <4> QED BY <1>7, <3>1, <4>1
      <3>4. k = User(j) \/ (k = Reply(j) /\ task'[j].status \in {"completed", "failed"})
        BY <3>1, <3>2
      <3> QED BY <3>3, <3>4
    <2>3. ASSUME NEW k \in Range(log'[t]), k \notin Range(log[t])
          PROVE /\ t = s /\ k = Reply(n) /\ task'[n].status \in {"completed", "failed"}
      BY <1>5, <1>6, <2>3
    <2> QED BY <1>2, <1>3, <1>6, <1>7, <2>2, <2>3 DEF LogOK
  <1>14. ASSUME NEW t \in Sessions, owner'[t] = None PROVE Unmade(t)'
    <2>1. Unmade(t) /\ t # s
      BY <1>2, <1>14 DEF ServerInv, Unmade, Callers
    <2>2. log'[t] = log[t]
      BY <1>2, <1>3, <2>1 DEF ServerInv, ServerTyped
    <2> QED BY <1>2, <2>1, <2>2 DEF Unmade
  <1>15. FailedExcused'
    BY <1>2, <1>9 DEF ServerInv, FailedExcused, Callers, BurstInv, Calls
  <1> QED BY <1>4, <1>8, <1>10, <1>11, <1>12, <1>13, <1>14, <1>15 DEF ServerInv

-----------------------------------------------------------------------------
(* The socket: an event is delivered, or all are lost and excused.         *)
LEMMA SocketServer ==
  ASSUME BurstInv, ServerInv, Deliver \/ Drop \/ Reconnect
  PROVE  ServerInv' /\ Keep
  <1>1. /\ UNCHANGED <<call, active, task, log, owner>>
        /\ conn' = "down" => wire' = <<>>
    BY DEF Deliver, Drop, Reconnect, client, server, ServerInv, WireOK
  <1>2. /\ wire' \in Seq(Kinds \X Sends) /\ Range(wire') \subseteq Range(wire)
        /\ conn' \in {"up", "down", "again"}
    <2>1. CASE Deliver
      BY <2>1, RangeOfTail DEF ServerInv, ServerTyped, Deliver
    <2>2. CASE Drop
      BY <2>2, RangeOfNone DEF Drop
    <2>3. CASE Reconnect
      BY <2>3 DEF ServerInv, ServerTyped, Reconnect
    <2> QED BY <2>1, <2>2, <2>3
  <1>3. /\ excuse' \in [Sessions -> {"none", "pill", "both"}]
        /\ \A t \in Sessions : excuse[t] = "both" => excuse'[t] = "both"
    <2>1. CASE Deliver
      <3>1. wire[1] \in Kinds \X Sends /\ Handle(wire[1][1], wire[1][2], call[wire[1][2]].session)
        BY <2>1, RangeOfTail DEF ServerInv, ServerTyped, Deliver
      <3>2. ASSUME NEW k \in Kinds, NEW n, NEW s, Handle(k, n, s) PROVE excuse' = excuse
        BY <3>2 DEF Handle, ChatDone, Ended, Kinds
      <3>3. excuse' = excuse
        BY <3>1, <3>2
      <3> QED BY <3>3 DEF ServerInv, ServerTyped
    <2>2. CASE Drop \/ Reconnect
      BY <2>2 DEF Drop, Reconnect, ServerInv, ServerTyped
    <2> QED BY <2>1, <2>2
  <1>4. ServerTyped'
    BY <1>1, <1>2, <1>3 DEF ServerInv, ServerTyped
  <1>5. SessionsKnown' /\ CallsKnown' /\ Keep
    BY <1>1 DEF ServerInv, SessionsKnown, CallsKnown, Keep, Stored
  <1>6. WireOK'
    BY <1>1, <1>2 DEF ServerInv, WireOK, Stored
  <1>7. ASSUME NEW s \in Sessions PROVE LogOK(s)'
    BY <1>1 DEF ServerInv, LogOK, Stored
  <1>8. ASSUME NEW s \in Sessions, owner'[s] = None PROVE Unmade(s)'
    BY <1>1, <1>8 DEF ServerInv, Unmade
  <1>9. FailedExcused'
    BY <1>1, <1>3 DEF ServerInv, FailedExcused, Callers, BurstInv, Calls
  <1> QED BY <1>4, <1>5, <1>6, <1>7, <1>8, <1>9 DEF ServerInv

LEMMA ServerStep == BurstInv /\ BurstInv' /\ ServerInv /\ [Next]_vars => ServerInv' /\ Keep
  <1> SUFFICES ASSUME BurstInv, BurstInv', ServerInv, [Next]_vars PROVE ServerInv' /\ Keep
    OBVIOUS
  <1>1. CASE \E c \in Callers : Ask(c)
    BY <1>1, AskServer
  <1>2. CASE \E s \in Sessions : SessionCreated(s)
    BY <1>2, SessionCreatedServer
  <1>3. CASE CreationFails
    BY <1>3, CreationFailsServer
  <1>4. CASE \E n \in Sends : AnswerLands(n) \/ PostFails(n)
    BY <1>4, AnswerServer
  <1>5. CASE \E n \in Sends : ServerStores(n) \/ \E s \in Sessions : OtherDeviceSends(n, s)
    BY <1>5, StoresServer
  <1>6. CASE \E n \in Sends : ServerAnnounces(n)
    BY <1>6, AnnouncesServer
  <1>7. CASE \E n \in Sends, m \in Moves : ServerMoves(n, m)
    BY <1>7, MovesServer
  <1>8. CASE Deliver \/ Drop \/ Reconnect
    BY <1>8, SocketServer
  <1>9. CASE \/ \E s \in Sessions : \/ SelectSession(s) \/ FetchMessages(s)
                                      \/ FetchPending(s) \/ FetchFails(s)
             \/ Stop \/ NewChat \/ UNCHANGED vars
             \/ \E a \in Agents : SelectAgent(a)
    <2>1. /\ call' = call /\ UNCHANGED server /\ UNCHANGED net
          /\ excuse' = excuse \/ \E s \in Sessions : Excuse(s, "both")
          /\ active' = active \/ active' = None \/ owner[active'] # None
      BY <1>9 DEF SelectSession, FetchMessages, FetchPending, FetchFails, Stop, NewChat, SelectAgent,
                  Activate, vars, client
    <2> QED BY <2>1, ServerFrame DEF Keep
  <1> QED BY <1>1, <1>2, <1>3, <1>4, <1>5, <1>6, <1>7, <1>8, <1>9 DEF Next

-----------------------------------------------------------------------------
(* One query: what each operation of QueryCache does to it.                *)
Query(V) == [data : {<<>>} \cup {<<v>> : v \in V}, stale : BOOLEAN,
             fetch : {<<>>, <<"sent">>} \cup {<<"back", v>> : v \in V}, owed : BOOLEAN]

LEMMA QueryIs ==
  ASSUME NEW V, NEW q \in Query(V)
  PROVE  /\ HasData(q) => q.data[1] \in V
         /\ Idle(q) \/ Sent(q) \/ Back(q)
         /\ Back(q) => q.fetch[2] \in V /\ ~Idle(q) /\ ~Sent(q)
         /\ Sent(q) => ~Idle(q)
  <1>1. q.data \in {<<>>} \cup {<<v>> : v \in V} /\ q.fetch \in {<<>>, <<"sent">>} \cup {<<"back", v>> : v \in V}
    BY DEF Query
  <1>2. HasData(q) => q.data[1] \in V
    BY <1>1 DEF HasData
  <1>3. CASE q.fetch \in {<<>>, <<"sent">>}
    <2>1. CASE q.fetch = <<>>
      BY <1>2, <2>1 DEF Idle, Sent, Back
    <2>2. CASE q.fetch = <<"sent">>
      BY <1>2, <2>2 DEF Idle, Sent, Back
    <2> QED BY <1>3, <2>1, <2>2
  <1>4. CASE \E v \in V : q.fetch = <<"back", v>>
    BY <1>2, <1>4 DEF Idle, Sent, Back
  <1> QED BY <1>1, <1>3, <1>4

LEMMA AbsentIs == ASSUME NEW V PROVE Absent \in Query(V) /\ ~HasData(Absent) /\ Idle(Absent)
  BY DEF Absent, Query, HasData, Idle

LEMMA SetDataIs ==
  ASSUME NEW V, NEW q \in Query(V), NEW v \in V
  PROVE  /\ SetData(q, v) \in Query(V)
         /\ HasData(SetData(q, v)) /\ DataOf(SetData(q, v)) = v /\ ~SetData(q, v).stale
         /\ SetData(q, v).fetch = q.fetch /\ (SetData(q, v).owed <=> q.owed \/ Back(q))
  BY DEF SetData, Query, HasData, Back, DataOf

LEMMA InvalidateIs ==
  ASSUME NEW V, NEW q \in Query(V), NEW b \in BOOLEAN
  PROVE  /\ Invalidate(q, b) \in Query(V)
         /\ Invalidate(q, b).data = q.data
         /\ Invalidate(q, b).fetch = q.fetch \/ Sent(Invalidate(q, b))
         /\ Back(Invalidate(q, b)) => Invalidate(q, b).fetch = q.fetch /\ Invalidate(q, b).owed
         /\ b => ~Idle(Invalidate(q, b))
         /\ Idle(Invalidate(q, b)) /\ HasData(q) => Invalidate(q, b).stale
  <1> DEFINE r == Invalidate(q, b)
  <1>1. CASE b /\ (HasData(q) \/ Idle(q))
    <2>1. r = [q EXCEPT !.stale = TRUE, !.fetch = <<"sent">>, !.owed = FALSE]
      BY <1>1 DEF Invalidate, Refetch, Query
    <2>2. r \in Query(V) /\ r.data = q.data /\ Sent(r)
      BY <2>1 DEF Query, Sent
    <2> HIDE DEF r
    <2>3. ~Idle(r) /\ ~Back(r)
      BY <2>2, QueryIs
    <2> QED BY <2>2, <2>3 DEF r
  <1>2. CASE ~(b /\ (HasData(q) \/ Idle(q))) /\ ~b /\ q = Absent
    <2>1. r = q
      BY <1>2 DEF Invalidate
    <2> QED BY <1>2, <2>1, AbsentIs, QueryIs DEF Idle, HasData, Back
  <1>3. CASE ~(b /\ (HasData(q) \/ Idle(q))) /\ ~(~b /\ q = Absent)
    <2>1. r = [q EXCEPT !.stale = TRUE, !.owed = q.owed \/ Back(q)]
      BY <1>3 DEF Invalidate
    <2>2. r \in Query(V) /\ r.data = q.data /\ r.fetch = q.fetch /\ r.stale = TRUE /\ (r.owed <=> q.owed \/ Back(q))
      BY <2>1 DEF Query, Back
    <2> HIDE DEF r
    <2> QED BY <1>3, <2>2 DEF Idle, Back, HasData, r
  <1> QED BY <1>1, <1>2, <1>3

LEMMA MountIs ==
  ASSUME NEW V, NEW q \in Query(V)
  PROVE  /\ Mount(q) \in Query(V) /\ Mount(q).data = q.data
         /\ Mount(q) = q \/ Sent(Mount(q))
         /\ Idle(Mount(q)) => Mount(q) = q /\ HasData(q) /\ ~q.stale
         /\ Back(Mount(q)) => Mount(q) = q
  <1>1. CASE Idle(q) /\ (q.stale \/ ~HasData(q))
    <2> DEFINE r == Mount(q)
    <2>1. r = [q EXCEPT !.fetch = <<"sent">>, !.owed = FALSE]
      BY <1>1 DEF Mount, Refetch
    <2>2. r \in Query(V) /\ r.data = q.data /\ Sent(r)
      BY <2>1 DEF Query, Sent
    <2> HIDE DEF r
    <2>3. ~Idle(r) /\ ~Back(r)
      BY <2>2, QueryIs
    <2> QED BY <2>2, <2>3 DEF r
  <1>2. CASE ~(Idle(q) /\ (q.stale \/ ~HasData(q)))
    BY <1>2 DEF Mount
  <1> QED BY <1>1, <1>2

LEMMA FetchIs ==
  ASSUME NEW V, NEW q \in Query(V), NEW v \in V
  PROVE  /\ Answer(q, v) \in Query(V)
         /\ Answer(q, v).data = q.data /\ Answer(q, v).stale = q.stale /\ Answer(q, v).owed = q.owed
         /\ Answer(q, v).fetch[2] = v /\ Back(Answer(q, v)) /\ ~Idle(Answer(q, v))
         /\ Fail(q) \in Query(V) /\ Fail(q).data = q.data /\ Idle(Fail(q)) /\ ~Back(Fail(q))
         /\ Back(q) => /\ Land(q) \in Query(V) /\ HasData(Land(q)) /\ DataOf(Land(q)) = q.fetch[2] /\ ~Land(q).stale
                       /\ Idle(Land(q)) /\ ~Back(Land(q)) /\ Land(q).owed = q.owed
  <1>1. /\ Answer(q, v) \in Query(V)
        /\ Answer(q, v).data = q.data /\ Answer(q, v).stale = q.stale /\ Answer(q, v).owed = q.owed
        /\ Answer(q, v).fetch[2] = v /\ Back(Answer(q, v)) /\ ~Idle(Answer(q, v))
    BY DEF Answer, Query, Back, Idle
  <1>2. Fail(q) \in Query(V) /\ Fail(q).data = q.data /\ Idle(Fail(q)) /\ ~Back(Fail(q))
    <2>1. Fail(q) \in Query(V) /\ Fail(q).data = q.data /\ Idle(Fail(q))
      BY DEF Fail, Query, Idle
    <2> QED BY <2>1, QueryIs
  <1>3. ASSUME Back(q)
        PROVE /\ Land(q) \in Query(V) /\ HasData(Land(q)) /\ DataOf(Land(q)) = q.fetch[2] /\ ~Land(q).stale
              /\ Idle(Land(q)) /\ ~Back(Land(q)) /\ Land(q).owed = q.owed
    <2>1. q.fetch[2] \in V
      BY <1>3, QueryIs
    <2>2. /\ Land(q) \in Query(V) /\ HasData(Land(q)) /\ DataOf(Land(q)) = q.fetch[2] /\ ~Land(q).stale
          /\ Idle(Land(q)) /\ Land(q).owed = q.owed
      BY <2>1 DEF Land, Query, Idle, HasData, DataOf
    <2> QED BY <2>2, QueryIs
  <1> QED BY <1>1, <1>2, <1>3

(* A write that finds no data to patch.                                    *)
LEMMA UnpatchedIs ==
  ASSUME NEW V, NEW q \in Query(V)
  PROVE  LET r == [q EXCEPT !.owed = @ \/ Back(q)]
         IN  r \in Query(V) /\ r.data = q.data /\ r.stale = q.stale /\ r.fetch = q.fetch /\ (r.owed <=> q.owed \/ Back(q))
  BY DEF Query, Back

-----------------------------------------------------------------------------
(* What the client lists: rows of the server's log and the stand-ins of    *)
(* sends of its own, never a row and its stand-in.                         *)
Posted(n) == call[n].phase \notin {"none", "creating", "other"}

RowsOK(L, s) ==
  /\ Distinct(L)
  /\ \A m \in Range(L) : \/ m \in Range(log[s])
                         \/ \E n \in Sends : m = Optimistic(n) /\ Posted(n) /\ call[n].session = s
  /\ \A n \in Sends : ~({User(n), Optimistic(n)} \subseteq Range(L))

FetchOK(q, s) == Back(q) => Distinct(q.fetch[2]) /\ Range(q.fetch[2]) \subseteq Range(log[s])
RowsInv == \A s \in Sessions : RowsOK(DataOf(messages[s]), s) /\ FetchOK(messages[s], s)

Rows == Seq(MessageId)
Lists == Query(Rows)
CacheTyped == messages \in [Sessions -> Lists] /\ pending \in [Sessions -> Query(PillValue)]

(* No log loses a row, and a send that was posted stays with its session.  *)
Forward ==
  /\ \A s \in Sessions : Range(log[s]) \subseteq Range(log'[s])
  /\ \A n \in Sends : Posted(n) => Posted(n)' /\ call'[n].session = call[n].session

LEMMA ForwardCalls ==
  ASSUME BurstInv, log' = log, NEW W \in SUBSET Callers,
         \A c \in Callers : c \notin W => call'[c] = call[c],
         \A c \in W : call[c].phase \in {"none", "creating", "other"}
  PROVE  Forward
  BY DEF Forward, Posted, Callers

LEMMA ForwardStep == BurstInv /\ ServerInv /\ [Next]_vars => Forward
  <1> SUFFICES ASSUME BurstInv, ServerInv, [Next]_vars PROVE Forward
    OBVIOUS
  <1>0. Sends \subseteq Callers
    BY DEF Callers
  <1>1. ASSUME NEW c \in Callers, Ask(c) PROVE Forward
    <2>1. call[c].phase = "none" /\ log' = log
      BY <1>1 DEF Ask, server
    <2>2. \A d \in Callers : d # c => call'[d] = call[d]
      <3>1. CASE active # None
        <4>1. Continue(Sending(c), c = Upload, active) /\ active \in Sessions
          BY <1>1, <3>1 DEF Ask, BurstInv
        <4> DEFINE file == c = Upload
        <4>2. file \in BOOLEAN /\ Sending(c) \in Seq(Sends) /\ Continue(Sending(c), file, active)
              /\ Range(Sending(c)) \cup Files(file) = {c}
          BY <4>1, SendingIs
        <4> HIDE DEF file
        <4> QED BY <4>1, <4>2, ContinueCalls
      <3>2. CASE active = None
        BY <1>1, <3>2 DEF Ask, BurstInv, Calls
      <3> QED BY <3>1, <3>2
    <2> DEFINE W == {c}
    <2>3. /\ W \in SUBSET Callers /\ \A d \in Callers : d \notin W => call'[d] = call[d]
          /\ \A d \in W : call[d].phase \in {"none", "creating", "other"}
      BY <2>1, <2>2
    <2> HIDE DEF W
    <2> QED BY <2>1, <2>3, ForwardCalls
  <1>2. ASSUME NEW s \in Sessions, SessionCreated(s) PROVE Forward
    <2>1. creating # <<>> /\ Continue(creating[2], creating[3], s) /\ log' = log
      BY <1>2 DEF SessionCreated
    <2>2. /\ creating[2] \in Seq(Sends) /\ creating[3] \in BOOLEAN
          /\ Waiting = Range(creating[2]) \cup Files(creating[3])
      BY <2>1 DEF BurstInv, Creations, Waiting
    <2>3. Waiting \subseteq Callers
      BY <2>2, RangeIn DEF Files, Callers
    <2>4. \A c \in Waiting : call[c].phase \in {"none", "creating", "other"}
      BY <2>3 DEF BurstInv
    <2>5. \A c \in Callers : c \notin Waiting => call'[c] = call[c]
      BY <2>1, <2>2, ContinueCalls
    <2> QED BY <2>1, <2>3, <2>4, <2>5, ForwardCalls
  <1>3. CASE CreationFails
    <2>1. log' = log /\ \A c \in Callers : call[c].phase # "creating" => call'[c] = call[c]
      BY <1>3 DEF CreationFails, server
    <2> QED BY <1>0, <2>1 DEF Forward, Posted
  <1>4. ASSUME NEW n \in Sends, AnswerLands(n) \/ PostFails(n) PROVE Forward
    <2>1. /\ call[n].phase \in {"posted", "answering"} /\ log' = log
          /\ call' = [call EXCEPT ![n].phase = "done"] \/ call' = [call EXCEPT ![n].phase = "failed"]
      BY <1>4 DEF AnswerLands, PostFails, server
    <2> QED BY <1>0, <2>1 DEF Forward, Posted, BurstInv, Calls
  <1>5. ASSUME NEW n \in Sends, ServerStores(n) \/ \E s \in Sessions : OtherDeviceSends(n, s)
        PROVE  Forward
    <2>1. PICK s \in Sessions : log' = [log EXCEPT ![s] = Append(@, User(n))]
      <3>1. ServerStores(n) => call[n].session \in Sessions
        BY <1>0 DEF ServerStores, ServerInv, SessionsKnown, Underway
      <3> QED BY <1>5, <3>1 DEF ServerStores, OtherDeviceSends, Store
    <2>2. call[n].phase \in {"posted", "none"}
      BY <1>5 DEF ServerStores, OtherDeviceSends
    <2>3. User(n) \notin Range(log[s]) /\ User(n) \in MessageId
      <3>1. ~Stored(n)
        BY <2>2 DEF ServerInv, CallsKnown
      <3> QED BY <3>1, RowsDiffer DEF ServerInv, LogOK
    <2>4. \A t \in Sessions : Range(log[t]) \subseteq Range(log'[t])
      BY <2>1, <2>3, LogGrows
    <2>5. \A m \in Sends : Posted(m) => Posted(m)' /\ call'[m].session = call[m].session
      BY <1>0, <1>5 DEF ServerStores, OtherDeviceSends, Posted, BurstInv, Calls
    <2> QED BY <2>4, <2>5 DEF Forward
  <1>6. ASSUME NEW n \in Sends, ServerAnnounces(n) PROVE Forward
    <2>1. /\ call[n].phase \in {"stored", "other"} /\ log' = log
          /\ call' = [call EXCEPT ![n].phase = "done"] \/ call' = [call EXCEPT ![n].phase = "answering"]
      BY <1>6 DEF ServerAnnounces, server
    <2> QED BY <1>0, <2>1 DEF Forward, Posted, BurstInv, Calls
  <1>7. ASSUME NEW n \in Sends, NEW m \in Moves, ServerMoves(n, m) PROVE Forward
    <2>1. /\ call' = call /\ task[n].status = m[1]
          /\ log' = IF m[2] \in {"completed", "failed"}
                    THEN [log EXCEPT ![task[n].session] = Append(@, Reply(n))] ELSE log
      BY <1>7 DEF ServerMoves, client
    <2>2. /\ Stored(n) /\ task[n].session = call[n].session /\ call[n].session \in Sessions
          /\ task[n].status \notin {"completed", "failed"}
      BY <2>1 DEF Moves, ServerInv, CallsKnown, Stored
    <2>3. Reply(n) \notin Range(log[call[n].session]) /\ Reply(n) \in MessageId
      BY <2>2, RowsDiffer DEF ServerInv, LogOK
    <2>4. \A t \in Sessions : Range(log[t]) \subseteq Range(log'[t])
      <3>1. CASE m[2] \in {"completed", "failed"}
        <4>1. log' = [log EXCEPT ![call[n].session] = Append(@, Reply(n))]
          BY <2>1, <2>2, <3>1
        <4> QED BY <2>2, <2>3, <4>1, LogGrows
      <3>2. CASE m[2] \notin {"completed", "failed"}
        BY <2>1, <3>2
      <3> QED BY <3>1, <3>2
    <2> QED BY <2>1, <2>4 DEF Forward, Posted
  <1>8. CASE UNCHANGED <<call, log>>
    BY <1>8 DEF Forward, Posted
  <1>9. CASE \/ \E s \in Sessions : \/ SelectSession(s) \/ FetchMessages(s)
                                      \/ FetchPending(s) \/ FetchFails(s)
             \/ Stop \/ NewChat \/ UNCHANGED vars \/ Deliver \/ Drop \/ Reconnect
             \/ \E a \in Agents : SelectAgent(a)
    <2>1. UNCHANGED <<call, log>>
      BY <1>9 DEF SelectSession, FetchMessages, FetchPending, FetchFails, Stop, NewChat, SelectAgent,
                  Deliver, Drop, Reconnect, vars, client, server
    <2> QED BY <1>8, <2>1
  <1> QED BY <1>1, <1>2, <1>3, <1>4, <1>5, <1>6, <1>7, <1>9 DEF Next

-----------------------------------------------------------------------------
(* The pills.                                                              *)
LEMMA PillsAre ==
  ASSUME NEW n \in Sends
  PROVE  /\ NoPill \in PillValue /\ Pill(Optimistic(n), "queued") \in PillValue
         /\ \A st \in InFlight : Pill(Task(n), st) \in PillValue
         /\ \A st \in InFlight, p \in PillValue : Progress(n, st, p) \in PillValue
  <1>1. /\ NoPill \in PillValue /\ Pill(Optimistic(n), "queued") \in PillValue
        /\ \A st \in InFlight : Pill(Task(n), st) \in PillValue
    BY DEF PillValue, NoPill, Pill, Optimistic, Task, InFlight
  <1>2. ASSUME NEW st \in InFlight, NEW p \in PillValue PROVE Progress(n, st, p) \in PillValue
    <2>1. CASE p # NoPill /\ p[1] = Task(n)
      BY <1>1, <2>1 DEF Progress
    <2>2. CASE ~(p # NoPill /\ p[1] = Task(n))
      BY <1>2, <2>2 DEF Progress
    <2> QED BY <2>1, <2>2
  <1> QED BY <1>1, <1>2

LEMMA ServerPillIs ==
  ASSUME ServerInv, NEW s \in Sessions
  PROVE  /\ ServerPill(s) \in PillValue
         /\ ServerPill(s) = NoPill \/ \E n \in InFlightOf(s) : ServerPill(s) = Pill(Task(n), task[n].status)
  <1> DEFINE at(n) == CHOOSE i \in DOMAIN log[s] : log[s][i] = User(n)
             newest == {n \in InFlightOf(s) : \A m \in InFlightOf(s) : at(m) <= at(n)}
             k == CHOOSE n \in newest : TRUE
  <1>1. ServerPill(s) = IF newest = {} THEN NoPill ELSE Pill(Task(k), task[k].status)
    BY DEF ServerPill
  <1>2. newest \subseteq InFlightOf(s)
    OBVIOUS
  <1> HIDE DEF newest
  <1>3. newest # {} => k \in newest
    OBVIOUS
  <1> HIDE DEF k
  <1>4. newest # {} => k \in InFlightOf(s) /\ k \in Sends /\ task[k].status \in InFlight
    BY <1>2, <1>3 DEF InFlightOf
  <1>5. NoPill \in PillValue
    BY DEF NoPill, PillValue
  <1> QED BY <1>1, <1>4, <1>5, PillsAre

-----------------------------------------------------------------------------
(* The event that is delivered, and what its handler does.                 *)
LEMMA Delivered ==
  ASSUME ServerInv, Deliver
  PROVE  \E k \in Kinds, n \in Sends, s \in Sessions :
           /\ s = call[n].session /\ Stored(n) /\ Handle(k, n, s)
           /\ k = "chat:done" => Reply(n) \in Range(log[s])
           /\ Range(wire) = Range(wire') \cup {<<k, n>>}
  <1>1. wire \in Seq(Kinds \X Sends) /\ wire # <<>> /\ wire' = Tail(wire)
    BY DEF ServerInv, ServerTyped, Deliver
  <1> DEFINE e == wire[1]
  <1>2. e \in Kinds \X Sends /\ Range(wire) = Range(wire') \cup {e}
    BY <1>1, RangeOfTail
  <1>3. Handle(e[1], e[2], call[e[2]].session)
    BY DEF Deliver
  <1>4. Stored(e[2]) /\ (e[1] = "chat:done" => Reply(e[2]) \in Range(log[call[e[2]].session]))
    BY <1>2 DEF ServerInv, WireOK
  <1> HIDE DEF e
  <1>5. e[1] \in Kinds /\ e[2] \in Sends /\ e = <<e[1], e[2]>>
    BY <1>2
  <1>6. call[e[2]].session \in Sessions
    BY <1>4, <1>5 DEF ServerInv, CallsKnown
  <1> QED BY <1>2, <1>3, <1>4, <1>5, <1>6

Telling == {"chat:message", "chat:done", "task:failed"}

WithReply(n, q) ==
  IF HasData(q)
  THEN SetData(q, IF Reply(n) \in Range(q.data[1]) THEN q.data[1] ELSE Append(q.data[1], Reply(n)))
  ELSE [q EXCEPT !.owed = @ \/ Back(q)]

LEMMA HandleMessages ==
  ASSUME NEW k \in Kinds, NEW n, NEW s, Handle(k, n, s)
  PROVE  /\ k \notin Telling => messages' = messages
         /\ k \in {"chat:message", "task:failed"} =>
              messages' = [messages EXCEPT ![s] = Invalidate(@, active = s)]
         /\ k = "chat:done" => messages' = [messages EXCEPT ![s] = Invalidate(WithReply(n, @), active = s)]
         /\ excuse' = excuse
  <1>1. k \notin Telling => messages' = messages
    BY DEF Handle, Kinds, Telling
  <1>2. k \in {"chat:message", "task:failed"} =>
          messages' = [messages EXCEPT ![s] = Invalidate(@, active = s)]
    BY DEF Handle, Ended
  <1>3. k = "chat:done" => messages' = [messages EXCEPT ![s] = Invalidate(WithReply(n, @), active = s)]
    BY DEF Handle, ChatDone, WithReply, Patch
  <1>4. excuse' = excuse
    BY DEF Handle, Kinds, ChatDone, Ended
  <1> QED BY <1>1, <1>2, <1>3, <1>4

LEMMA HandlePending ==
  ASSUME CacheTyped, NEW k \in Kinds, NEW n \in Sends, NEW s \in Sessions, Handle(k, n, s)
  PROVE  pending' \in [Sessions -> Query(PillValue)]
  <1> DEFINE b == active = s
             q == pending[s]
  <1>1. b \in BOOLEAN /\ q \in Query(PillValue)
    BY DEF CacheTyped
  <1>2. /\ SetData(q, NoPill) \in Query(PillValue)
        /\ SetData(q, Pill(Task(n), "queued")) \in Query(PillValue)
    BY <1>1, PillsAre, SetDataIs DEF InFlight
  <1>3. /\ Invalidate(q, b) \in Query(PillValue)
        /\ Invalidate(SetData(q, NoPill), b) \in Query(PillValue)
    BY <1>1, <1>2, InvalidateIs
  <1>4. ASSUME NEW st \in InFlight
        PROVE  Patch(q, LAMBDA p : Progress(n, st, p)) \in Query(PillValue)
    <2>1. CASE HasData(q)
      <3>1. Progress(n, st, q.data[1]) \in PillValue
        BY <1>1, <2>1, QueryIs, PillsAre
      <3> QED BY <1>1, <2>1, <3>1, SetDataIs DEF Patch
    <2>2. CASE ~HasData(q)
      BY <1>1, <2>2, UnpatchedIs DEF Patch
    <2> QED BY <2>1, <2>2
  <1>5. \E r \in Query(PillValue) : pending' = [pending EXCEPT ![s] = r]
    <2>1. CASE k \in {"task:dispatch", "task:running"}
      <3>1. pending' = [pending EXCEPT ![s] = Patch(q, LAMBDA p : Progress(n, "running", p))]
        BY <2>1 DEF Handle
      <3> QED BY <1>4, <3>1 DEF InFlight
    <2>2. CASE k = "task:waiting_local_directory"
      <3>1. pending' = [pending EXCEPT ![s] = Patch(q, LAMBDA p : Progress(n, "waiting_local_directory", p))]
        BY <2>2 DEF Handle
      <3> QED BY <1>4, <3>1 DEF InFlight
    <2>3. CASE k \in {"task:queued", "task:cancelled"}
      BY <1>2, <2>3 DEF Handle
    <2>4. CASE k \in {"chat:message", "chat:done", "task:failed"}
      BY <1>3, <2>4 DEF Handle, ChatDone, Ended
    <2> QED BY <2>1, <2>2, <2>3, <2>4 DEF Kinds
  <1> QED BY <1>5 DEF CacheTyped

-----------------------------------------------------------------------------
(* One query of messages changes.                                          *)
LEMMA DataOfIs ==
  ASSUME CacheTyped, NEW s \in Sessions
  PROVE  DataOf(messages[s]) \in Seq(MessageId)
  <1>1. messages[s] \in Lists
    BY DEF CacheTyped
  <1> QED BY <1>1, QueryIs, RangeOfNone DEF DataOf, Lists, Rows

LEMMA SameRows ==
  ASSUME RowsInv, Forward, NEW s \in Sessions,
         messages'[s].data = messages[s].data,
         Back(messages'[s]) => messages'[s].fetch = messages[s].fetch
  PROVE  RowsOK(DataOf(messages[s]), s)' /\ FetchOK(messages[s], s)'
  <1> DEFINE L == DataOf(messages[s])
  <1>1. RowsOK(DataOf(messages[s]), s) /\ FetchOK(messages[s], s)
    BY DEF RowsInv
  <1>2. DataOf(messages'[s]) = DataOf(messages[s])
    BY DEF DataOf, HasData
  <1>3. Range(log[s]) \subseteq Range(log'[s])
    BY DEF Forward
  <1>4. ASSUME NEW m \in Range(DataOf(messages[s]))
        PROVE  \/ m \in Range(log'[s])
               \/ \E n \in Sends : m = Optimistic(n) /\ Posted(n)' /\ call'[n].session = s
    BY <1>1, <1>3 DEF RowsOK, Forward
  <1>5. RowsOK(DataOf(messages[s]), s)'
    BY <1>1, <1>2, <1>4 DEF RowsOK
  <1>6. FetchOK(messages[s], s)'
    BY <1>1, <1>3 DEF FetchOK, Back
  <1> QED BY <1>5, <1>6

LEMMA OneList ==
  ASSUME CacheTyped, RowsInv, Forward, NEW s \in Sessions, NEW r \in Lists,
         messages' = [messages EXCEPT ![s] = r],
         messages'[s] = r => RowsOK(DataOf(messages[s]), s)' /\ FetchOK(messages[s], s)'
  PROVE  messages' \in [Sessions -> Lists] /\ RowsInv'
  <1>1. /\ messages' \in [Sessions -> Lists] /\ messages'[s] = r
        /\ \A t \in Sessions : t # s => messages'[t] = messages[t]
    BY DEF CacheTyped
  <1>2. ASSUME NEW t \in Sessions PROVE RowsOK(DataOf(messages[t]), t)' /\ FetchOK(messages[t], t)'
    <2>1. CASE t = s
      BY <1>1, <2>1
    <2>2. CASE t # s
      BY <1>1, <2>2, SameRows
    <2> QED BY <2>1, <2>2
  <1> QED BY <1>1, <1>2 DEF RowsInv

LEMMA OneListSame ==
  ASSUME CacheTyped, RowsInv, Forward, NEW s \in Sessions, NEW r \in Lists,
         messages' = [messages EXCEPT ![s] = r], r.data = messages[s].data,
         Back(r) => r.fetch = messages[s].fetch
  PROVE  messages' \in [Sessions -> Lists] /\ RowsInv'
  BY SameRows, OneList

LEMMA NoList ==
  ASSUME CacheTyped, RowsInv, Forward, messages' = messages
  PROVE  messages' \in [Sessions -> Lists] /\ RowsInv'
  BY SameRows DEF CacheTyped, RowsInv

(* New data: its rows are in the log or stand for what was posted.         *)
LEMMA NewRows ==
  ASSUME NEW s \in Sessions, NEW L, DataOf(messages'[s]) = L, Distinct(L),
         \A m \in Range(L) : \/ m \in Range(log'[s])
                            \/ \E n \in Sends : m = Optimistic(n) /\ Posted(n)' /\ call'[n].session = s,
         \A n \in Sends : ~({User(n), Optimistic(n)} \subseteq Range(L))
  PROVE  RowsOK(DataOf(messages[s]), s)'
  BY DEF RowsOK

LEMMA LogRows ==
  ASSUME ServerInv, NEW s \in Sessions, NEW n \in Sends
  PROVE  Optimistic(n) \notin Range(log[s])
  BY RowsDiffer DEF ServerInv, LogOK

-----------------------------------------------------------------------------
(* Activate, Continue, the answer, the events and the fetches.             *)
LEMMA ActivateRows ==
  ASSUME CacheTyped, RowsInv, Forward, NEW s \in Sessions \cup {None}, Activate(s, messages, pending)
  PROVE  CacheTyped' /\ RowsInv'
  <1>1. CASE s = None
    BY <1>1, NoList DEF Activate, CacheTyped
  <1>2. CASE s # None
    <2>1. messages[s] \in Lists /\ pending[s] \in Query(PillValue) /\ s \in Sessions
      BY <1>2 DEF CacheTyped
    <2>2. /\ Mount(messages[s]) \in Lists /\ Mount(messages[s]).data = messages[s].data
          /\ Back(Mount(messages[s])) => Mount(messages[s]).fetch = messages[s].fetch
          /\ Mount(pending[s]) \in Query(PillValue)
      BY <2>1, MountIs DEF Lists
    <2>3. /\ messages' = [messages EXCEPT ![s] = Mount(messages[s])]
          /\ pending' = [pending EXCEPT ![s] = Mount(pending[s])]
      BY <1>2 DEF Activate
    <2>4. messages' \in [Sessions -> Lists] /\ RowsInv'
      BY <2>1, <2>2, <2>3, OneListSame
    <2> QED BY <2>1, <2>2, <2>3, <2>4 DEF CacheTyped
  <1> QED BY <1>1, <1>2

LEMMA StandIns ==
  ASSUME NEW sends \in Seq(Sends), Distinct(sends)
  PROVE  LET O == [k \in DOMAIN sends |-> Optimistic(sends[k])]
         IN  O \in Seq(MessageId) /\ Range(O) = {Optimistic(n) : n \in Range(sends)} /\ Distinct(O)
  <1> DEFINE O == [k \in DOMAIN sends |-> Optimistic(sends[k])]
  <1>1. \A k \in DOMAIN sends : sends[k] \in Sends /\ O[k] = Optimistic(sends[k])
    OBVIOUS
  <1>2. O \in Seq(MessageId)
    BY <1>1, RowsDiffer
  <1>3. Range(O) = {Optimistic(n) : n \in Range(sends)}
    BY <1>1 DEF Range
  <1>4. Distinct(O)
    BY <1>1, RowsDiffer DEF Distinct
  <1> QED BY <1>2, <1>3, <1>4

LEMMA SeedIs ==
  ASSUME CacheTyped, NEW s \in Sessions, NEW sends \in Seq(Sends), NEW file \in BOOLEAN, Distinct(sends),
         Continue(sends, file, s)
  PROVE  LET L == DataOf(messages[s]) \o [k \in DOMAIN sends |-> Optimistic(sends[k])]
             r == SetData(messages[s], L)
         IN  /\ L \in Rows /\ r \in Lists /\ Mount(r) \in Lists /\ DataOf(Mount(r)) = L
             /\ messages' = [messages EXCEPT ![s] = Mount(r)]
             /\ Back(Mount(r)) => Mount(r).fetch = messages[s].fetch
             /\ pending' \in [Sessions -> Query(PillValue)]
  <1> DEFINE O == [k \in DOMAIN sends |-> Optimistic(sends[k])]
             L == DataOf(messages[s]) \o O
             r == SetData(messages[s], L)
             p == SeedPending(pending[s], sends)
  <1>1. messages[s] \in Lists /\ pending[s] \in Query(PillValue)
    BY DEF CacheTyped
  <1>2. O \in Seq(MessageId) /\ DataOf(messages[s]) \in Seq(MessageId)
    BY StandIns, DataOfIs
  <1>3. messages' = [messages EXCEPT ![s] = Mount(r)]
    <2>1. messages' = [[messages EXCEPT ![s] = r] EXCEPT ![s] = Mount([messages EXCEPT ![s] = r][s])]
      BY ChatAssumption DEF Continue, Activate, SeedMessages
    <2> HIDE DEF r
    <2> QED BY <2>1 DEF CacheTyped
  <1>4. p \in Query(PillValue)
    <2>1. CASE sends = <<>>
      BY <1>1, <2>1 DEF SeedPending
    <2>2. CASE sends # <<>>
      <3>1. Last(sends) \in Sends
        BY <2>2 DEF Last
      <3>2. Pill(Optimistic(Last(sends)), "queued") \in PillValue
        BY <3>1, PillsAre
      <3> QED BY <1>1, <2>2, <3>2, SetDataIs DEF SeedPending
    <2> QED BY <2>1, <2>2
  <1>5. pending' \in [Sessions -> Query(PillValue)]
    <2>1. pending' = [[pending EXCEPT ![s] = p] EXCEPT ![s] = Mount([pending EXCEPT ![s] = p][s])]
      BY ChatAssumption DEF Continue, Activate
    <2> HIDE DEF p
    <2>2. Mount(p) \in Query(PillValue)
      BY <1>4, MountIs
    <2> QED BY <2>1, <2>2 DEF CacheTyped
  <1> HIDE DEF O
  <1>6. L \in Rows
    BY <1>2, RangeOfConcat DEF Rows
  <1> HIDE DEF L
  <1>7. r \in Lists /\ DataOf(r) = L /\ r.fetch = messages[s].fetch
    BY <1>1, <1>6, SetDataIs DEF Lists
  <1>8. Mount(r) \in Lists /\ DataOf(Mount(r)) = L /\ (Back(Mount(r)) => Mount(r).fetch = messages[s].fetch)
    <2> HIDE DEF r
    <2> QED BY <1>7, MountIs DEF Lists, DataOf, HasData
  <1> QED BY <1>3, <1>5, <1>6, <1>7, <1>8 DEF O, L

LEMMA ContinueRows ==
  ASSUME BurstInv, ServerInv, CacheTyped, RowsInv, Forward,
         NEW s \in Sessions, NEW sends \in Seq(Sends), NEW file \in BOOLEAN, Distinct(sends),
         Continue(sends, file, s), log' = log,
         \A c \in Range(sends) : call[c].phase \in {"none", "creating"}
  PROVE  CacheTyped' /\ RowsInv'
  <1> DEFINE O == [k \in DOMAIN sends |-> Optimistic(sends[k])]
             D == DataOf(messages[s])
             L == D \o O
             r == SetData(messages[s], L)
  <1>1. /\ L \in Rows /\ Mount(r) \in Lists /\ DataOf(Mount(r)) = L
        /\ messages' = [messages EXCEPT ![s] = Mount(r)]
        /\ Back(Mount(r)) => Mount(r).fetch = messages[s].fetch
        /\ pending' \in [Sessions -> Query(PillValue)]
    BY SeedIs
  <1>2. O \in Seq(MessageId) /\ Range(O) = {Optimistic(n) : n \in Range(sends)} /\ Distinct(O)
    BY StandIns
  <1> HIDE DEF O
  <1>3. RowsOK(D, s) /\ FetchOK(messages[s], s) /\ D \in Seq(MessageId)
    BY DataOfIs DEF RowsInv
  <1>4. Range(sends) \subseteq Sends
    BY RangeIn
  <1>5. \A n \in Range(sends) : Optimistic(n) \notin Range(D) /\ User(n) \notin Range(D)
    <2> SUFFICES ASSUME NEW n \in Range(sends)
                 PROVE  Optimistic(n) \notin Range(D) /\ User(n) \notin Range(D)
      OBVIOUS
    <2>1. n \in Sends /\ ~Posted(n) /\ ~Stored(n)
      BY <1>4 DEF ServerInv, CallsKnown, Posted
    <2>2. User(n) \notin Range(log[s]) /\ Optimistic(n) \notin Range(log[s])
      <3>1. User(n) \notin Range(log[s])
        BY <2>1, RowsDiffer DEF ServerInv, LogOK
      <3> QED BY <2>1, <3>1, LogRows
    <2> QED BY <1>3, <2>1, <2>2, RowsDiffer DEF RowsOK
  <1> HIDE DEF D
  <1>6. Range(L) = Range(D) \cup Range(O) /\ Distinct(L)
    <2>1. Range(D) \cap Range(O) = {}
      BY <1>2, <1>5
    <2> QED BY <1>2, <1>3, <2>1, RangeOfConcat DEF RowsOK
  <1> HIDE DEF L
  <1>7. \A n \in Range(sends) : Posted(n)' /\ call'[n].session = s
    BY <1>4, ContinueCalls DEF Posted
  <1>8. ASSUME NEW m \in Range(L)
        PROVE  \/ m \in Range(log'[s])
               \/ \E n \in Sends : m = Optimistic(n) /\ Posted(n)' /\ call'[n].session = s
    <2>1. CASE m \in Range(D)
      BY <1>3, <2>1 DEF RowsOK, Forward
    <2>2. CASE m \in Range(O)
      BY <1>2, <1>4, <1>7, <2>2
    <2> QED BY <1>6, <2>1, <2>2
  <1>9. ASSUME NEW n \in Sends PROVE ~({User(n), Optimistic(n)} \subseteq Range(L))
    <2>1. ~({User(n), Optimistic(n)} \subseteq Range(D))
      BY <1>3 DEF RowsOK
    <2>2. User(n) \notin Range(O)
      BY <1>2, <1>4, RowsDiffer
    <2>3. Optimistic(n) \in Range(O) => n \in Range(sends)
      BY <1>2, <1>4, RowsDiffer
    <2> QED BY <1>5, <1>6, <2>1, <2>2, <2>3
  <1> HIDE DEF r
  <1>10. ASSUME messages'[s] = Mount(r) PROVE RowsOK(DataOf(messages[s]), s)' /\ FetchOK(messages[s], s)'
    <2>1. RowsOK(DataOf(messages[s]), s)'
      BY <1>1, <1>6, <1>8, <1>9, <1>10, NewRows
    <2>2. FetchOK(messages[s], s)'
      BY <1>1, <1>3, <1>10 DEF FetchOK, Back
    <2> QED BY <2>1, <2>2
  <1> QED BY <1>1, <1>10, OneList DEF CacheTyped

(* The events.                                                             *)
LEMMA DeliverRows ==
  ASSUME ServerInv, CacheTyped, RowsInv, Forward, Deliver
  PROVE  CacheTyped' /\ RowsInv'
  <1>1. PICK k \in Kinds, n \in Sends, s \in Sessions :
          /\ s = call[n].session /\ Stored(n) /\ Handle(k, n, s)
          /\ k = "chat:done" => Reply(n) \in Range(log[s])
    BY Delivered
  <1>2. pending' \in [Sessions -> Query(PillValue)]
    BY <1>1, HandlePending
  <1> DEFINE b == active = s
             q == messages[s]
             w == WithReply(n, q)
  <1>3. b \in BOOLEAN /\ q \in Lists /\ log' = log
    BY DEF CacheTyped, Deliver, server
  <1>4. CASE k \notin Telling
    BY <1>1, <1>2, <1>4, HandleMessages, NoList DEF CacheTyped
  <1>5. CASE k \in {"chat:message", "task:failed"}
    <2>1. messages' = [messages EXCEPT ![s] = Invalidate(q, b)]
      BY <1>1, <1>5, HandleMessages
    <2>2. /\ Invalidate(q, b) \in Lists /\ Invalidate(q, b).data = q.data
          /\ Back(Invalidate(q, b)) => Invalidate(q, b).fetch = q.fetch
      BY <1>3, InvalidateIs DEF Lists
    <2> QED BY <1>2, <2>1, <2>2, OneListSame DEF CacheTyped
  <1>6. CASE k = "chat:done"
    <2>1. messages' = [messages EXCEPT ![s] = Invalidate(w, b)] /\ Reply(n) \in Range(log[s])
      BY <1>1, <1>6, HandleMessages
    <2>2. RowsOK(DataOf(q), s) /\ FetchOK(q, s)
      BY DEF RowsInv
    <2>3. CASE HasData(q)
      <3> DEFINE old == q.data[1]
                 L == IF Reply(n) \in Range(old) THEN old ELSE Append(old, Reply(n))
      <3>1. old \in Rows /\ DataOf(q) = old
        BY <1>3, <2>3, QueryIs DEF Lists, DataOf
      <3>2. L \in Rows /\ Range(L) = Range(old) \cup {Reply(n)} /\ Distinct(L)
        <4>1. Reply(n) \in MessageId /\ Distinct(old)
          BY <2>2, <3>1, RowsDiffer DEF RowsOK
        <4>2. CASE Reply(n) \in Range(old)
          BY <3>1, <4>1, <4>2
        <4>3. CASE Reply(n) \notin Range(old)
          <5> HIDE DEF old
          <5> QED BY <3>1, <4>1, <4>3, RangeOfAppend DEF Rows
        <4> QED BY <4>2, <4>3
      <3>3. w = SetData(q, L)
        BY <2>3 DEF WithReply
      <3> HIDE DEF L
      <3>4. w \in Lists /\ DataOf(w) = L /\ w.fetch = q.fetch
        BY <1>3, <3>2, <3>3, SetDataIs DEF Lists
      <3> HIDE DEF w
      <3>5. /\ Invalidate(w, b) \in Lists /\ DataOf(Invalidate(w, b)) = L
            /\ Back(Invalidate(w, b)) => Invalidate(w, b).fetch = q.fetch
        BY <1>3, <3>4, InvalidateIs DEF Lists, DataOf, HasData
      <3>6. \A m \in Range(L) : \/ m \in Range(log'[s])
                               \/ \E j \in Sends : m = Optimistic(j) /\ Posted(j)' /\ call'[j].session = s
        BY <1>3, <2>1, <2>2, <3>1, <3>2 DEF RowsOK, Forward
      <3>7. \A j \in Sends : ~({User(j), Optimistic(j)} \subseteq Range(L))
        BY <2>2, <3>1, <3>2, RowsDiffer DEF RowsOK
      <3>8. ASSUME messages'[s] = Invalidate(w, b)
            PROVE  RowsOK(DataOf(messages[s]), s)' /\ FetchOK(messages[s], s)'
        <4>1. RowsOK(DataOf(messages[s]), s)'
          BY <3>2, <3>5, <3>6, <3>7, <3>8, NewRows
        <4>2. FetchOK(messages[s], s)'
          BY <1>3, <2>2, <3>5, <3>8 DEF FetchOK, Back
        <4> QED BY <4>1, <4>2
      <3> QED BY <1>2, <2>1, <3>5, <3>8, OneList DEF CacheTyped
    <2>4. CASE ~HasData(q)
      <3>1. w = [q EXCEPT !.owed = @ \/ Back(q)]
        BY <2>4 DEF WithReply
      <3>2. w \in Lists /\ w.data = q.data /\ w.fetch = q.fetch
        BY <1>3, <3>1, UnpatchedIs DEF Lists
      <3> HIDE DEF w
      <3>3. /\ Invalidate(w, b) \in Lists /\ Invalidate(w, b).data = q.data
            /\ Back(Invalidate(w, b)) => Invalidate(w, b).fetch = q.fetch
        BY <1>3, <3>2, InvalidateIs DEF Lists
      <3> QED BY <1>2, <2>1, <3>3, OneListSame DEF CacheTyped
    <2> QED BY <2>3, <2>4
  <1> QED BY <1>4, <1>5, <1>6 DEF Telling

(* The answers and the failures of the fetches.                            *)
LEMMA FetchRows ==
  ASSUME ServerInv, CacheTyped, RowsInv, Forward, NEW s \in Sessions,
         FetchMessages(s) \/ FetchPending(s) \/ FetchFails(s)
  PROVE  CacheTyped' /\ RowsInv'
  <1> DEFINE q == messages[s]
             p == pending[s]
  <1>1. /\ q \in Lists /\ p \in Query(PillValue) /\ log[s] \in Rows
        /\ ServerPill(s) \in PillValue /\ log' = log
    BY ServerPillIs DEF Rows, CacheTyped, ServerInv, ServerTyped, FetchMessages, FetchPending, FetchFails, server
  <1>2. CASE FetchMessages(s)
    <2>1. pending' = pending
      BY <1>2 DEF FetchMessages
    <2>2. CASE messages' = [messages EXCEPT ![s] = Answer(@, log[s])]
      <3>1. Answer(q, log[s]) \in Lists /\ Answer(q, log[s]).data = q.data /\ Answer(q, log[s]).fetch[2] = log[s]
        BY <1>1, FetchIs DEF Lists
      <3>2. ASSUME messages'[s] = Answer(q, log[s])
            PROVE  RowsOK(DataOf(messages[s]), s)' /\ FetchOK(messages[s], s)'
        <4>1. DataOf(messages'[s]) = DataOf(q)
          BY <3>1, <3>2 DEF DataOf, HasData
        <4>2. RowsOK(DataOf(q), s) /\ Distinct(log[s])
          BY DEF RowsInv, ServerInv, LogOK
        <4>3. RowsOK(DataOf(messages[s]), s)'
          BY <4>1, <4>2 DEF RowsOK, Forward
        <4>4. FetchOK(messages[s], s)'
          BY <1>1, <3>1, <3>2, <4>2 DEF FetchOK
        <4> QED BY <4>3, <4>4
      <3> QED BY <1>1, <2>1, <2>2, <3>1, <3>2, OneList DEF CacheTyped
    <2>3. CASE Back(q) /\ messages' = [messages EXCEPT ![s] = Land(@)]
      <3>1. /\ Land(q) \in Lists /\ DataOf(Land(q)) = q.fetch[2] /\ ~Back(Land(q))
            /\ q.fetch[2] \in Rows /\ Distinct(q.fetch[2]) /\ Range(q.fetch[2]) \subseteq Range(log[s])
        BY <1>1, <2>3, FetchIs, QueryIs DEF Lists, RowsInv, FetchOK
      <3> DEFINE L == q.fetch[2]
      <3>2. ASSUME messages'[s] = Land(q)
            PROVE  RowsOK(DataOf(messages[s]), s)' /\ FetchOK(messages[s], s)'
        <4>1. DataOf(messages'[s]) = L /\ \A n \in Sends : Optimistic(n) \notin Range(L)
          BY <3>1, <3>2, LogRows
        <4>2. Distinct(L) /\ Range(L) \subseteq Range(log'[s])
          BY <1>1, <3>1
        <4> HIDE DEF L
        <4>3. RowsOK(DataOf(messages[s]), s)'
          BY <4>1, <4>2, NewRows
        <4>4. FetchOK(messages[s], s)'
          BY <3>1, <3>2 DEF FetchOK
        <4> QED BY <4>3, <4>4
      <3> QED BY <1>1, <2>1, <2>3, <3>1, <3>2, OneList DEF CacheTyped
    <2> QED BY <1>2, <2>2, <2>3 DEF FetchMessages
  <1>3. CASE FetchPending(s)
    <2>1. messages' = messages
      BY <1>3 DEF FetchPending
    <2>2. pending' \in [Sessions -> Query(PillValue)]
      <3>1. /\ Answer(p, ServerPill(s)) \in Query(PillValue)
            /\ Back(p) => Land(p) \in Query(PillValue)
        BY <1>1, FetchIs
      <3> QED BY <1>3, <3>1 DEF FetchPending, CacheTyped
    <2> QED BY <2>1, <2>2, NoList DEF CacheTyped
  <1>4. CASE FetchFails(s)
    <2>1. /\ Fail(q) \in Lists /\ Fail(q).data = q.data /\ ~Back(Fail(q))
          /\ Fail(p) \in Query(PillValue)
      BY <1>1, FetchIs DEF Lists
    <2>2. CASE messages' = [messages EXCEPT ![s] = Fail(@)] /\ UNCHANGED pending
      <3>1. messages' \in [Sessions -> Lists] /\ RowsInv'
        BY <2>1, <2>2, OneListSame
      <3> QED BY <2>2, <3>1 DEF CacheTyped
    <2>3. CASE pending' = [pending EXCEPT ![s] = Fail(@)] /\ UNCHANGED messages
      BY <2>1, <2>3, NoList DEF CacheTyped
    <2> QED BY <1>4, <2>2, <2>3 DEF FetchFails
  <1> QED BY <1>2, <1>3, <1>4

LEMMA RowsInit == Init => CacheTyped /\ RowsInv
  <1> SUFFICES ASSUME Init PROVE CacheTyped /\ RowsInv
    OBVIOUS
  <1>1. CacheTyped /\ \A s \in Sessions : messages[s] = Absent
    BY AbsentIs DEF Init, CacheTyped, Lists
  <1>2. DataOf(Absent) = <<>> /\ ~Back(Absent)
    BY AbsentIs, QueryIs DEF DataOf
  <1>3. RowsInv
    BY <1>1, <1>2, RangeOfNone DEF RowsInv, RowsOK, FetchOK
  <1> QED BY <1>1, <1>3

(* The window flags the list of session s, which is fetched again if open. *)
LEMMA InvalidateRows ==
  ASSUME CacheTyped, RowsInv, Forward, NEW s \in Sessions, NEW b \in BOOLEAN, NEW v \in PillValue,
         messages' = [messages EXCEPT ![s] = Invalidate(@, b)],
         pending' = [pending EXCEPT ![s] = SetData(@, v)]
  PROVE  CacheTyped' /\ RowsInv'
  <1>1. messages[s] \in Lists /\ pending[s] \in Query(PillValue)
    BY DEF CacheTyped
  <1>2. /\ Invalidate(messages[s], b) \in Lists /\ Invalidate(messages[s], b).data = messages[s].data
        /\ Back(Invalidate(messages[s], b)) => Invalidate(messages[s], b).fetch = messages[s].fetch
        /\ SetData(pending[s], v) \in Query(PillValue)
    BY <1>1, InvalidateIs, SetDataIs DEF Lists
  <1>3. messages' \in [Sessions -> Lists] /\ RowsInv'
    BY <1>2, OneListSame
  <1> QED BY <1>2, <1>3 DEF CacheTyped

LEMMA RowsStep ==
  BurstInv /\ ServerInv /\ Forward /\ CacheTyped /\ RowsInv /\ [Next]_vars => CacheTyped' /\ RowsInv'
  <1> SUFFICES ASSUME BurstInv, ServerInv, Forward, CacheTyped, RowsInv, [Next]_vars
               PROVE  CacheTyped' /\ RowsInv'
    OBVIOUS
  <1>0. CASE UNCHANGED cache
    BY <1>0, NoList DEF cache, CacheTyped
  <1>1. ASSUME NEW c \in Callers, Ask(c) PROVE CacheTyped' /\ RowsInv'
    <2>1. CASE active = None
      BY <1>0, <1>1, <2>1 DEF Ask
    <2>2. CASE active # None
      <3> DEFINE file == c = Upload
      <3>1. /\ Continue(Sending(c), file, active) /\ file \in BOOLEAN /\ active \in Sessions /\ log' = log
            /\ Sending(c) \in Seq(Sends) /\ Distinct(Sending(c)) /\ Range(Sending(c)) \subseteq {c}
            /\ call[c].phase = "none"
        BY <1>1, <2>2, SendingIs DEF Ask, BurstInv, server
      <3> HIDE DEF file
      <3>2. \A d \in Range(Sending(c)) : call[d].phase \in {"none", "creating"}
        BY <3>1
      <3> QED BY <3>1, <3>2, ContinueRows
    <2> QED BY <2>1, <2>2
  <1>2. ASSUME NEW s \in Sessions, SessionCreated(s) PROVE CacheTyped' /\ RowsInv'
    <2>1. creating # <<>> /\ Continue(creating[2], creating[3], s) /\ log' = log
      BY <1>2 DEF SessionCreated
    <2>2. /\ creating[2] \in Seq(Sends) /\ Distinct(creating[2]) /\ creating[3] \in BOOLEAN
          /\ Range(creating[2]) \subseteq Waiting
      BY <2>1 DEF BurstInv, Creations, Waiting
    <2>3. \A c \in Range(creating[2]) : call[c].phase \in {"none", "creating"}
      <3>1. Range(creating[2]) \subseteq Callers
        BY <2>2, RangeIn DEF Callers
      <3> QED BY <2>2, <3>1 DEF BurstInv
    <2> QED BY <2>1, <2>2, <2>3, ContinueRows
  <1>3. ASSUME NEW n \in Sends, AnswerLands(n) PROVE CacheTyped' /\ RowsInv'
    <2>1. call[n].session \in Sessions
      BY <1>3 DEF AnswerLands, ServerInv, SessionsKnown, Underway, Callers
    <2>2. Pill(Task(n), "queued") \in PillValue
      BY PillsAre DEF InFlight
    <2> QED BY <1>3, <2>1, <2>2, InvalidateRows DEF AnswerLands
  <1>4. CASE Stop
    <2>1. active \in Sessions
      BY <1>4 DEF Stop, IsRunning, BurstInv
    <2>2. NoPill \in PillValue
      BY DEF NoPill, PillValue
    <2> QED BY <1>4, <2>1, <2>2, InvalidateRows DEF Stop
  <1>5. CASE \/ \E s \in Sessions : SelectSession(s)
             \/ NewChat
             \/ \E a \in Agents : SelectAgent(a)
    BY <1>5, ActivateRows DEF SelectSession, NewChat, SelectAgent
  <1>6. CASE \E s \in Sessions : FetchMessages(s) \/ FetchPending(s) \/ FetchFails(s)
    BY <1>6, FetchRows
  <1>7. CASE Deliver
    BY <1>7, DeliverRows
  <1>8. CASE \/ \E n \in Sends : PostFails(n) \/ ServerStores(n) \/ ServerAnnounces(n)
             \/ \E n \in Sends, s \in Sessions : OtherDeviceSends(n, s)
             \/ \E n \in Sends, m \in Moves : ServerMoves(n, m)
             \/ CreationFails \/ Drop \/ Reconnect \/ UNCHANGED vars
    <2>1. UNCHANGED cache
      BY <1>8 DEF PostFails, ServerStores, ServerAnnounces, OtherDeviceSends, ServerMoves, CreationFails,
                  Drop, Reconnect, vars
    <2> QED BY <1>0, <2>1
  <1> QED BY <1>1, <1>2, <1>3, <1>4, <1>5, <1>6, <1>7, <1>8 DEF Next

-----------------------------------------------------------------------------
(* What is to come for session s: the rest of a send, or an event that     *)
(* has its list fetched again.                                             *)
Owing == {"posted", "stored", "answering", "other"}
Announced(s) ==
  \/ \E n \in Sends : call[n].session = s /\ call[n].phase \in Owing
  \/ \E e \in Range(wire) : e[1] \in Telling /\ call[e[2]].session = s

(* A list that is not about to be fetched is the server's, unless what     *)
(* changed the log is still announced; so is an answer under way.          *)
Fresh(s) ==
  excuse[s] # "both" /\ ~messages[s].owed =>
    /\ HasData(messages[s]) /\ ~messages[s].stale /\ Idle(messages[s])
         => DataOf(messages[s]) = log[s] \/ Announced(s)
    /\ Back(messages[s]) => messages[s].fetch[2] = log[s] \/ Announced(s)
    /\ active = s /\ Idle(messages[s]) => HasData(messages[s]) /\ ~messages[s].stale

FreshInv == \A s \in Sessions : Fresh(s)

LEMMA AnnouncedKept ==
  ASSUME ServerInv, Keep, NEW t \in Sessions, Range(wire) \subseteq Range(wire'),
         \A n \in Sends : call[n].session = t /\ call[n].phase \in Owing => call'[n].phase \in Owing,
         Announced(t)
  PROVE  Announced(t)'
  <1>1. CASE \E n \in Sends : call[n].session = t /\ call[n].phase \in Owing
    <2>1. PICK n \in Sends : call[n].session = t /\ call[n].phase \in Owing
      BY <1>1
    <2>2. call'[n].session = t /\ call'[n].phase \in Owing
      BY <2>1 DEF Keep, Owing, Callers
    <2> QED BY <2>2 DEF Announced
  <1>2. CASE \E e \in Range(wire) : e[1] \in Telling /\ call[e[2]].session = t
    <2>1. PICK e \in Range(wire) : e[1] \in Telling /\ call[e[2]].session = t
      BY <1>2
    <2>2. e[2] \in Sends /\ Stored(e[2])
      BY <2>1, RangeIn DEF ServerInv, ServerTyped, WireOK
    <2>3. call'[e[2]].session = t /\ e \in Range(wire')
      BY <2>1, <2>2 DEF ServerInv, CallsKnown, Keep, Callers
    <2> QED BY <2>1, <2>3 DEF Announced
  <1> QED BY <1>1, <1>2 DEF Announced

LEMMA FreshFrame ==
  ASSUME NEW s \in Sessions, Fresh(s), messages'[s] = messages[s], active' = s => active = s,
         excuse'[s] # "both" =>
           excuse[s] # "both" /\ (Announced(s)' \/ (~Announced(s) /\ log'[s] = log[s]))
  PROVE  Fresh(s)'
  BY DEF Fresh

LEMMA FreshInvalidated ==
  ASSUME NEW s \in Sessions, NEW q \in Lists, NEW b \in BOOLEAN, messages'[s] = Invalidate(q, b),
         active' = s => b
  PROVE  Fresh(s)'
  <1> DEFINE r == Invalidate(q, b)
  <1>1. /\ HasData(r) <=> HasData(q)
        /\ Back(r) => r.owed
        /\ b => ~Idle(r)
        /\ Idle(r) /\ HasData(q) => r.stale
    BY InvalidateIs DEF Lists, HasData
  <1> HIDE DEF r
  <1>2. messages'[s] = r
    BY DEF r
  <1> QED BY <1>1, <1>2 DEF Fresh

LEMMA FreshMounted ==
  ASSUME CacheTyped, NEW s \in Sessions, Fresh(s), messages'[s] = Mount(messages[s]),
         log'[s] = log[s], excuse'[s] = excuse[s], Announced(s) => Announced(s)'
  PROVE  Fresh(s)'
  <1> DEFINE r == Mount(messages[s])
  <1>1. messages[s] \in Lists
    BY DEF CacheTyped
  <1>2. /\ r = messages[s] \/ Sent(r)
        /\ Idle(r) => r = messages[s] /\ HasData(messages[s]) /\ ~messages[s].stale
        /\ Back(r) => r = messages[s]
    BY <1>1, MountIs DEF Lists
  <1> HIDE DEF r
  <1>3. messages'[s] = r
    BY DEF r
  <1> QED BY <1>2, <1>3 DEF Fresh

LEMMA ActivateFresh ==
  ASSUME ServerInv, Keep, CacheTyped, FreshInv, NEW s \in Sessions \cup {None},
         Activate(s, messages, pending), UNCHANGED <<call, server, net, excuse>>
  PROVE  FreshInv'
  <1>1. UNCHANGED <<log, wire, excuse>> /\ active' = s
    BY DEF server, net, Activate
  <1>2. ASSUME NEW t \in Sessions PROVE Fresh(t)'
    <2>1. Fresh(t) /\ (Announced(t) => Announced(t)')
      BY <1>1, AnnouncedKept DEF FreshInv
    <2>2. CASE t = s
      <3>1. messages'[t] = Mount(messages[t])
        BY <2>2, ChatAssumption DEF Activate, CacheTyped
      <3> QED BY <1>1, <2>1, <3>1, FreshMounted
    <2>3. CASE t # s
      <3>1. messages'[t] = messages[t]
        BY <2>3 DEF Activate, CacheTyped
      <3> QED BY <1>1, <2>1, <2>3, <3>1, FreshFrame
    <2> QED BY <2>2, <2>3
  <1> QED BY <1>2 DEF FreshInv

LEMMA ContinueFresh ==
  ASSUME BurstInv, ServerInv, Keep, CacheTyped, RowsInv, FreshInv,
         NEW s \in Sessions, NEW sends \in Seq(Sends), NEW file \in BOOLEAN, Distinct(sends),
         Continue(sends, file, s), UNCHANGED <<log, net, excuse>>,
         \A c \in Range(sends) \cup Files(file) : call[c].phase \in {"none", "creating"},
         active = s \/ Unmade(s)
  PROVE  FreshInv'
  <1> DEFINE q == messages[s]
             D == DataOf(q)
             L == D \o [k \in DOMAIN sends |-> Optimistic(sends[k])]
             d == SetData(q, L)
  <1>1. /\ L \in Rows /\ d \in Lists
        /\ messages' = [messages EXCEPT ![s] = Mount(d)]
    BY SeedIs
  <1>2. active' = s /\ UNCHANGED <<log, wire, excuse>>
    BY ContinueCalls DEF net
  <1>3. ASSUME NEW t \in Sessions, Announced(t) PROVE Announced(t)'
    <2>1. ASSUME NEW n \in Sends, call[n].phase \in Owing PROVE call'[n].phase \in Owing
      <3>1. n \in Callers /\ n \notin Range(sends) \cup Files(file)
        BY <2>1 DEF Owing, Callers
      <3>2. call'[n] = call[n]
        BY <3>1, ContinueCalls
      <3> QED BY <2>1, <3>2
    <2> QED BY <1>2, <1>3, <2>1, AnnouncedKept
  <1>4. ASSUME NEW t \in Sessions, t # s PROVE Fresh(t)'
    <2>1. Fresh(t) /\ messages'[t] = messages[t]
      BY <1>1, <1>4 DEF FreshInv, CacheTyped
    <2> QED BY <1>2, <1>3, <1>4, <2>1, FreshFrame
  <1>5. q \in Lists /\ D \in Rows
    BY DataOfIs DEF CacheTyped, Rows
  <1>9. sends = <<>> => L = D
    BY <1>5 DEF Rows
  <1> HIDE DEF L
  <1>6. /\ HasData(d) /\ DataOf(d) = L /\ ~d.stale /\ d.fetch = q.fetch /\ (d.owed <=> q.owed \/ Back(q))
    BY <1>1, <1>5, SetDataIs DEF Lists
  <1>7. messages'[s] = Mount(d) /\ (Idle(Mount(d)) \/ Back(Mount(d)) => Mount(d) = d)
    BY <1>1, MountIs DEF Lists, CacheTyped
  <1>8. sends # <<>> => Announced(s)'
    <2> SUFFICES ASSUME sends # <<>> PROVE Announced(s)'
      OBVIOUS
    <2>1. sends[1] \in Range(sends) /\ sends[1] \in Sends
      BY DEF Range
    <2>2. call'[sends[1]].phase = "posted" /\ call'[sends[1]].session = s
      BY <2>1, ContinueCalls
    <2> QED BY <2>1, <2>2 DEF Announced, Owing
  <1>10. ASSUME Idle(q), ~q.owed, excuse[s] # "both", sends = <<>>
         PROVE  D = log[s] \/ Announced(s)
    <2>1. CASE active = s
      BY <1>10, <2>1 DEF FreshInv, Fresh
    <2>2. CASE Unmade(s)
      <3>1. RowsOK(D, s) /\ Range(log[s]) = {} /\ log[s] = <<>>
        BY <2>2, RangeOfNone DEF RowsInv, Unmade
      <3>2. Range(D) = {}
        BY <2>2, <3>1 DEF RowsOK, Unmade, Callers
      <3> HIDE DEF D
      <3>3. D = <<>>
        BY <1>5, <3>2 DEF Rows, Range
      <3> QED BY <3>1, <3>3
    <2> QED BY <2>1, <2>2
  <1> HIDE DEF d, D, q
  <1>11. Fresh(s)'
    <2>1. ASSUME messages'[s] = d, ~d.owed, excuse'[s] # "both"
          PROVE  /\ Idle(d) => DataOf(d) = log'[s] \/ Announced(s)'
                 /\ Back(d) => d.fetch[2] = log'[s] \/ Announced(s)'
      BY <1>2, <1>3, <1>6, <1>8, <1>9, <1>10, <2>1 DEF Idle, Back
    <2>2. ASSUME ~messages'[s].owed, excuse'[s] # "both"
          PROVE  /\ Idle(messages'[s]) => DataOf(messages'[s]) = log'[s] \/ Announced(s)'
                 /\ Back(messages'[s]) => messages'[s].fetch[2] = log'[s] \/ Announced(s)'
      BY <1>7, <2>1, <2>2
    <2>3. Idle(messages'[s]) => HasData(messages'[s]) /\ ~messages'[s].stale
      BY <1>6, <1>7
    <2> QED BY <2>2, <2>3 DEF Fresh
  <1> QED BY <1>4, <1>11 DEF FreshInv

(* The list with the reply appended.                                       *)
LEMMA WithReplyIs ==
  ASSUME NEW q \in Lists, NEW n \in Sends
  PROVE  WithReply(n, q) \in Lists
  <1> DEFINE old == q.data[1]
             L == IF Reply(n) \in Range(old) THEN old ELSE Append(old, Reply(n))
  <1>1. CASE HasData(q)
    <2>1. old \in Rows
      BY <1>1, QueryIs DEF Lists
    <2>2. L \in Rows
      <3>1. Reply(n) \in MessageId
        BY RowsDiffer
      <3> HIDE DEF old
      <3> QED BY <2>1, <3>1 DEF Rows
    <2>3. WithReply(n, q) = SetData(q, L)
      BY <1>1 DEF WithReply
    <2> HIDE DEF L
    <2> QED BY <2>2, <2>3, SetDataIs DEF Lists
  <1>2. CASE ~HasData(q)
    BY <1>2, UnpatchedIs DEF Lists, WithReply
  <1> QED BY <1>1, <1>2

(* The steps of the server.                                                *)
LEMMA StoreFresh ==
  ASSUME ServerInv, Keep, FreshInv, NEW n \in Sends, NEW s \in Sessions, Store(n, s),
         messages' = messages, active' = active,
         call'[n].session = s, call'[n].phase \in {"stored", "other"},
         call[n].phase \notin {"none", "creating"} => call[n].session = s,
         \A m \in Sends : m # n => call'[m] = call[m]
  PROVE  FreshInv'
  <1>1. /\ log' = [log EXCEPT ![s] = Append(@, User(n))] /\ Lost(s)
        /\ Range(wire) \subseteq Range(wire')
    BY EmitIs DEF Store, Kinds
  <1>2. Announced(s)'
    BY DEF Announced, Owing
  <1>3. \A t \in Sessions : excuse'[t] # "both" => excuse[t] # "both"
    BY <1>1, LostIs
  <1>4. ASSUME NEW t \in Sessions PROVE Fresh(t)'
    <2>1. CASE t = s
      BY <1>2, <1>3, <2>1, FreshFrame DEF FreshInv
    <2>2. CASE t # s
      <3>1. log'[t] = log[t]
        BY <1>1, <2>2 DEF ServerInv, ServerTyped
      <3>2. Announced(t) => Announced(t)'
        <4>1. \A m \in Sends : call[m].phase \in Owing => call'[m].phase \in Owing
          BY DEF Owing
        <4> QED BY <1>1, <4>1, AnnouncedKept
      <3> QED BY <1>3, <3>1, <3>2, FreshFrame DEF FreshInv
    <2> QED BY <2>1, <2>2
  <1> QED BY <1>4 DEF FreshInv

LEMMA AnnounceFresh ==
  ASSUME BurstInv, ServerInv, Keep, FreshInv, NEW n \in Sends, ServerAnnounces(n)
  PROVE  FreshInv'
  <1>0. PICK s \in Sessions : s = call[n].session
    BY DEF ServerAnnounces, ServerInv, SessionsKnown, Underway, Callers
  <1>1. /\ Emit(<<"chat:message", n>>) /\ Lost(s) /\ call[n].phase \in {"stored", "other"}
        /\ messages' = messages /\ active' = active /\ log' = log /\ conn' = conn
        /\ \A m \in Callers : m # n => call'[m] = call[m]
    BY <1>0 DEF ServerAnnounces, server, cache
  <1>2. call'[n].session = s
    BY <1>0, <1>1 DEF Keep, Callers
  <1>3. /\ Range(wire) \subseteq Range(wire')
        /\ conn # "down" => <<"chat:message", n>> \in Range(wire')
    BY <1>1, EmitIs DEF Kinds
  <1>4. /\ \A t \in Sessions : excuse'[t] # "both" => excuse[t] # "both"
        /\ conn = "down" => excuse'[s] = "both"
    BY <1>1, <1>2, LostIs
  <1>5. conn # "down" => Announced(s)'
    BY <1>2, <1>3 DEF Announced, Telling
  <1>6. ASSUME NEW t \in Sessions PROVE Fresh(t)'
    <2>1. CASE t = s
      BY <1>1, <1>4, <1>5, <2>1, FreshFrame DEF FreshInv
    <2>2. CASE t # s
      <3>1. Announced(t) => Announced(t)'
        <4>1. \A m \in Sends : call[m].session = t /\ call[m].phase \in Owing => call'[m].phase \in Owing
          BY <1>0, <1>1, <2>2 DEF Callers
        <4> QED BY <1>3, <4>1, AnnouncedKept
      <3> QED BY <1>1, <1>4, <3>1, FreshFrame DEF FreshInv
    <2> QED BY <2>1, <2>2
  <1> QED BY <1>6 DEF FreshInv

LEMMA MovesFresh ==
  ASSUME BurstInv, ServerInv, Keep, FreshInv, NEW n \in Sends, NEW m \in Moves, ServerMoves(n, m)
  PROVE  FreshInv'
  <1>1. /\ m[1] \in InFlight /\ m[3] \in Kinds
        /\ m[2] \in {"completed", "failed"} => m[3] \in Telling
    BY DEF Moves, InFlight, Kinds, Telling
  <1>2. /\ task[n].status = m[1]
        /\ log' = IF m[2] \in {"completed", "failed"}
                  THEN [log EXCEPT ![task[n].session] = Append(@, Reply(n))] ELSE log
        /\ Emit(<<m[3], n>>) /\ Lost(task[n].session)
        /\ call' = call /\ active' = active /\ messages' = messages /\ conn' = conn
    BY DEF ServerMoves, client, cache
  <1>3. PICK s \in Sessions : task[n].session = s /\ call[n].session = s
    BY <1>1, <1>2 DEF ServerInv, CallsKnown, Stored, InFlight
  <1>4. /\ Range(wire) \subseteq Range(wire')
        /\ conn # "down" => <<m[3], n>> \in Range(wire')
    BY <1>1, <1>2, EmitIs
  <1>5. /\ \A t \in Sessions : excuse'[t] # "both" => excuse[t] # "both"
        /\ conn = "down" => excuse'[s] = "both"
    BY <1>2, <1>3, LostIs
  <1>6. ASSUME NEW t \in Sessions PROVE Fresh(t)'
    <2>1. Announced(t) => Announced(t)'
      BY <1>2, <1>4, AnnouncedKept
    <2>2. CASE t = s /\ m[2] \in {"completed", "failed"}
      <3>1. conn # "down" => Announced(s)'
        <4> DEFINE e == <<m[3], n>>
        <4>1. e[1] \in Telling /\ call'[e[2]].session = s
          BY <1>1, <1>2, <1>3, <2>2
        <4> QED BY <1>4, <4>1 DEF Announced
      <3> QED BY <1>2, <1>5, <2>2, <3>1, FreshFrame DEF FreshInv
    <2>3. CASE ~(t = s /\ m[2] \in {"completed", "failed"})
      <3>1. log'[t] = log[t]
        BY <1>2, <1>3, <2>3 DEF ServerInv, ServerTyped
      <3> QED BY <1>2, <1>5, <2>1, <3>1, FreshFrame DEF FreshInv
    <2> QED BY <2>2, <2>3
  <1> QED BY <1>6 DEF FreshInv

(* The events that arrive and those that are lost.                         *)
LEMMA DeliverFresh ==
  ASSUME ServerInv, CacheTyped, FreshInv, Deliver
  PROVE  FreshInv'
  <1>1. PICK k \in Kinds, n \in Sends, s \in Sessions :
          /\ s = call[n].session /\ Handle(k, n, s)
          /\ Range(wire) = Range(wire') \cup {<<k, n>>}
    BY Delivered
  <1>2. /\ call' = call /\ active' = active /\ log' = log /\ excuse' = excuse
    BY <1>1, HandleMessages DEF Deliver, client, server
  <1>3. ASSUME NEW t \in Sessions, t # s \/ k \notin Telling, Announced(t) PROVE Announced(t)'
    <2>1. CASE \E m \in Sends : call[m].session = t /\ call[m].phase \in Owing
      BY <1>2, <2>1 DEF Announced
    <2>2. CASE \E e \in Range(wire) : e[1] \in Telling /\ call[e[2]].session = t
      <3>1. PICK e \in Range(wire) : e[1] \in Telling /\ call[e[2]].session = t
        BY <2>2
      <3>2. e # <<k, n>>
        BY <1>1, <1>3, <3>1
      <3> QED BY <1>1, <1>2, <3>1, <3>2 DEF Announced
    <2> QED BY <1>3, <2>1, <2>2 DEF Announced
  <1>4. CASE k \notin Telling
    <2>1. messages' = messages
      BY <1>1, <1>4, HandleMessages
    <2> QED BY <1>2, <1>3, <1>4, <2>1, FreshFrame DEF FreshInv
  <1>5. CASE k \in Telling
    <2> DEFINE b == active = s
    <2>1. PICK q \in Lists : messages' = [messages EXCEPT ![s] = Invalidate(q, b)]
      <3>1. CASE k \in {"chat:message", "task:failed"}
        BY <1>1, <3>1, HandleMessages DEF CacheTyped
      <3>2. CASE k = "chat:done"
        <4>1. messages' = [messages EXCEPT ![s] = Invalidate(WithReply(n, messages[s]), b)]
          BY <1>1, <3>2, HandleMessages
        <4>2. WithReply(n, messages[s]) \in Lists
          BY WithReplyIs DEF CacheTyped
        <4> QED BY <4>1, <4>2
      <3> QED BY <1>5, <3>1, <3>2 DEF Telling
    <2>2. /\ b \in BOOLEAN /\ messages'[s] = Invalidate(q, b) /\ (active' = s => b)
          /\ \A t \in Sessions : t # s => messages'[t] = messages[t]
      BY <1>2, <2>1 DEF CacheTyped
    <2> HIDE DEF b
    <2>3. Fresh(s)'
      BY <2>2, FreshInvalidated
    <2>4. ASSUME NEW t \in Sessions, t # s PROVE Fresh(t)'
      BY <1>2, <1>3, <2>2, <2>4, FreshFrame DEF FreshInv
    <2> QED BY <2>3, <2>4 DEF FreshInv
  <1> QED BY <1>4, <1>5

LEMMA DropFresh ==
  ASSUME ServerInv, FreshInv, Drop \/ Reconnect
  PROVE  FreshInv'
  <1>1. call' = call /\ active' = active /\ log' = log /\ messages' = messages
    BY DEF Drop, Reconnect, client, cache, server
  <1>2. ASSUME NEW t \in Sessions, excuse'[t] # "both"
        PROVE  excuse[t] # "both" /\ (Announced(t) => Announced(t)')
    <2>1. CASE Drop
      <3>1. /\ excuse'[t] = excuse[t] /\ \A i \in DOMAIN wire : call[wire[i][2]].session # t
        BY <1>2, <2>1 DEF Drop
      <3>2. \A e \in Range(wire) : call[e[2]].session # t
        BY <3>1 DEF Range
      <3> QED BY <1>1, <1>2, <3>1, <3>2 DEF Announced
    <2>2. CASE Reconnect
      BY <1>1, <1>2, <2>2 DEF Reconnect, Announced
    <2> QED BY <2>1, <2>2
  <1> QED BY <1>1, <1>2, FreshFrame DEF FreshInv

(* The list of s is flagged; what is announced of the others stays so.     *)
LEMMA InvalidateFresh ==
  ASSUME ServerInv, Keep, CacheTyped, FreshInv, NEW s \in Sessions, NEW b \in BOOLEAN,
         messages' = [messages EXCEPT ![s] = Invalidate(@, b)], active' = active, active' = s => b,
         UNCHANGED <<log, wire>>,
         \A t \in Sessions : excuse'[t] # "both" => excuse[t] # "both",
         \A n \in Sends : call[n].session # s /\ call[n].phase \in Owing => call'[n].phase \in Owing
  PROVE  FreshInv'
  <1>1. /\ messages[s] \in Lists /\ messages'[s] = Invalidate(messages[s], b)
        /\ \A t \in Sessions : t # s => messages'[t] = messages[t]
    BY DEF CacheTyped
  <1>2. Fresh(s)'
    BY <1>1, FreshInvalidated
  <1>3. ASSUME NEW t \in Sessions, t # s PROVE Fresh(t)'
    <2>1. Announced(t) => Announced(t)'
      BY <1>3, AnnouncedKept
    <2> QED BY <1>1, <1>3, <2>1, FreshFrame DEF FreshInv
  <1> QED BY <1>2, <1>3 DEF FreshInv

LEMMA AnswerLandsFresh ==
  ASSUME BurstInv, ServerInv, Keep, CacheTyped, FreshInv, NEW n \in Sends, AnswerLands(n)
  PROVE  FreshInv'
  <1> DEFINE b == active = call[n].session
  <1>1. call[n].phase = "answering" /\ call[n].session \in Sessions
    BY DEF AnswerLands, ServerInv, SessionsKnown, Underway, Callers
  <1>2. /\ messages' = [messages EXCEPT ![call[n].session] = Invalidate(@, b)]
        /\ active' = active /\ UNCHANGED <<log, wire>>
        /\ call' = [call EXCEPT ![n].phase = "done"]
        /\ excuse' = excuse \/ Excuse(call[n].session, "pill")
    BY DEF AnswerLands, server, net
  <1>3. \A t \in Sessions : excuse'[t] # "both" => excuse[t] # "both"
    BY <1>2 DEF Excuse, ServerInv, ServerTyped
  <1>4. \A m \in Sends : m # n => call'[m] = call[m]
    BY <1>2 DEF BurstInv, Calls, Callers
  <1>5. b \in BOOLEAN /\ (active' = call[n].session => b)
    BY <1>2
  <1> HIDE DEF b
  <1> QED BY <1>1, <1>2, <1>3, <1>4, <1>5, InvalidateFresh

LEMMA FetchFresh ==
  ASSUME ServerInv, Keep, CacheTyped, FreshInv, NEW s \in Sessions,
         FetchMessages(s) \/ FetchPending(s) \/ FetchFails(s)
  PROVE  FreshInv'
  <1>1. /\ call' = call /\ active' = active /\ UNCHANGED <<log, wire>>
    BY DEF FetchMessages, FetchPending, FetchFails, client, server, net
  <1>2. \A t \in Sessions : Announced(t) => Announced(t)'
    BY <1>1, AnnouncedKept
  <1>3. ASSUME NEW t \in Sessions, messages'[t] = messages[t], excuse'[t] # "both" => excuse[t] # "both"
        PROVE  Fresh(t)'
    BY <1>1, <1>2, <1>3, FreshFrame DEF FreshInv
  <1>4. messages[s] \in Lists /\ log[s] \in Rows
    BY DEF CacheTyped, ServerInv, ServerTyped, Rows
  <1>5. CASE FetchMessages(s)
    <2>1. excuse' = excuse /\ \A t \in Sessions : t # s => messages'[t] = messages[t]
      BY <1>5 DEF FetchMessages, CacheTyped
    <2>2. CASE messages' = [messages EXCEPT ![s] = Answer(@, log[s])]
      <3>1. /\ messages'[s].fetch[2] = log[s] /\ ~Idle(messages'[s])
        <4>1. messages'[s] = Answer(messages[s], log[s])
          BY <2>2 DEF CacheTyped
        <4>2. /\ Answer(messages[s], log[s]).fetch[2] = log[s] /\ ~Idle(Answer(messages[s], log[s]))
          <5>1. ~Idle(Answer(messages[s], log[s]))
            BY <1>4, FetchIs DEF Lists
          <5>2. Answer(messages[s], log[s]).fetch[2] = log[s]
            BY <1>4 DEF Lists, Query, Answer
          <5> QED BY <5>1, <5>2
        <4> QED BY <4>1, <4>2
      <3>2. Fresh(s)'
        BY <1>1, <3>1 DEF Fresh
      <3> QED BY <1>3, <2>1, <3>2 DEF FreshInv
    <2>3. CASE Back(messages[s]) /\ messages' = [messages EXCEPT ![s] = Land(@)]
      <3>1. /\ HasData(messages'[s]) /\ DataOf(messages'[s]) = messages[s].fetch[2]
            /\ ~messages'[s].stale /\ ~Back(messages'[s]) /\ messages'[s].owed = messages[s].owed
        BY <1>4, <2>3, FetchIs DEF Lists, CacheTyped
      <3>2. Fresh(s)'
        BY <1>1, <1>2, <2>1, <2>3, <3>1 DEF Fresh, FreshInv
      <3> QED BY <1>3, <2>1, <3>2 DEF FreshInv
    <2> QED BY <1>5, <2>2, <2>3 DEF FetchMessages
  <1>6. CASE FetchPending(s)
    BY <1>3, <1>6 DEF FetchPending, FreshInv
  <1>7. CASE FetchFails(s)
    <2>1. /\ excuse'[s] = "both" /\ \A t \in Sessions : excuse'[t] # "both" => excuse[t] # "both"
          /\ \A t \in Sessions : t # s => messages'[t] = messages[t]
      BY <1>7 DEF FetchFails, Excuse, ServerInv, ServerTyped, CacheTyped
    <2>2. Fresh(s)'
      BY <2>1 DEF Fresh
    <2> QED BY <1>3, <2>1, <2>2 DEF FreshInv
  <1> QED BY <1>5, <1>6, <1>7

LEMMA FreshInit == Init => FreshInv
  <1> SUFFICES ASSUME Init, NEW s \in Sessions PROVE Fresh(s)
    BY DEF FreshInv
  <1>1. messages[s] = Absent /\ active = None /\ s # None
    BY ChatAssumption DEF Init
  <1>2. ~HasData(Absent) /\ ~Back(Absent)
    BY AbsentIs, QueryIs
  <1> QED BY <1>1, <1>2 DEF Fresh

LEMMA FreshStep ==
  BurstInv /\ ServerInv /\ Keep /\ CacheTyped /\ RowsInv /\ FreshInv /\ [Next]_vars => FreshInv'
  <1> SUFFICES ASSUME BurstInv, ServerInv, Keep, CacheTyped, RowsInv, FreshInv, [Next]_vars
               PROVE  FreshInv'
    OBVIOUS
  <1>0. ASSUME UNCHANGED <<messages, active, log, wire>>,
               \A t \in Sessions : excuse'[t] # "both" => excuse[t] # "both",
               \A t \in Sessions : excuse'[t] # "both" =>
                 \A n \in Sends : call[n].session = t /\ call[n].phase \in Owing => call'[n].phase \in Owing
        PROVE  FreshInv'
    <2>1. ASSUME NEW t \in Sessions, excuse'[t] # "both" PROVE Announced(t) => Announced(t)'
      BY <1>0, <2>1, AnnouncedKept
    <2> QED BY <1>0, <2>1, FreshFrame DEF FreshInv
  <1>1. ASSUME NEW c \in Callers, Ask(c) PROVE FreshInv'
    <2>0. call[c].phase = "none" /\ UNCHANGED <<server, net, excuse>>
      BY <1>1 DEF Ask
    <2>1. CASE active = None
      <3>1. UNCHANGED <<messages, active, log, wire, excuse>> /\ call' = [call EXCEPT ![c].phase = "creating"]
        BY <1>1, <2>0, <2>1 DEF Ask, cache, server, net
      <3>2. \A n \in Sends : call[n].phase \in Owing => call'[n].phase \in Owing
        BY <2>0, <3>1 DEF BurstInv, Calls, Callers, Owing
      <3> QED BY <1>0, <3>1, <3>2
    <2>2. CASE active # None
      <3> DEFINE file == c = Upload
      <3>1. /\ Continue(Sending(c), file, active) /\ file \in BOOLEAN /\ active \in Sessions
            /\ Sending(c) \in Seq(Sends) /\ Distinct(Sending(c))
            /\ Range(Sending(c)) \cup Files(file) = {c}
        BY <1>1, <2>2, SendingIs DEF Ask, BurstInv
      <3> HIDE DEF file
      <3>2. \A d \in Range(Sending(c)) \cup Files(file) : call[d].phase \in {"none", "creating"}
        BY <2>0, <3>1
      <3>3. UNCHANGED <<log, net, excuse>>
        BY <2>0 DEF server
      <3> QED BY <3>1, <3>2, <3>3, ContinueFresh
    <2> QED BY <2>1, <2>2
  <1>2. ASSUME NEW s \in Sessions, SessionCreated(s) PROVE FreshInv'
    <2>1. /\ creating # <<>> /\ Continue(creating[2], creating[3], s) /\ owner[s] = None
          /\ UNCHANGED <<log, net, excuse>>
      BY <1>2 DEF SessionCreated
    <2>2. /\ creating[2] \in Seq(Sends) /\ Distinct(creating[2]) /\ creating[3] \in BOOLEAN
          /\ Waiting = Range(creating[2]) \cup Files(creating[3])
      BY <2>1 DEF BurstInv, Creations, Waiting
    <2>3. \A c \in Waiting : call[c].phase \in {"none", "creating"}
      <3>1. Waiting \subseteq Callers
        BY <2>2, RangeIn DEF Callers, Files
      <3> QED BY <3>1 DEF BurstInv
    <2>4. Unmade(s)
      BY <2>1 DEF ServerInv
    <2> QED BY <2>1, <2>2, <2>3, <2>4, ContinueFresh
  <1>3. CASE CreationFails
    <2>1. /\ UNCHANGED <<messages, active, log, wire, excuse>>
          /\ \A c \in Callers : call[c].phase # "creating" => call'[c] = call[c]
      BY <1>3 DEF CreationFails, cache, server, net
    <2> QED BY <1>0, <2>1 DEF Owing, Callers
  <1>4. ASSUME NEW n \in Sends, PostFails(n) PROVE FreshInv'
    <2>1. PICK s \in Sessions : s = call[n].session
      BY <1>4 DEF PostFails, ServerInv, SessionsKnown, Underway, Callers
    <2>2. /\ UNCHANGED <<messages, active, log, wire>> /\ Excuse(s, "both")
          /\ call' = [call EXCEPT ![n].phase = "failed"]
      BY <1>4, <2>1 DEF PostFails, cache, server, net
    <2>3. /\ excuse'[s] = "both" /\ \A t \in Sessions : excuse'[t] # "both" => excuse[t] # "both"
          /\ \A m \in Sends : m # n => call'[m] = call[m]
      BY <2>2 DEF Excuse, ServerInv, ServerTyped, BurstInv, Calls, Callers
    <2> QED BY <1>0, <2>1, <2>2, <2>3
  <1>5. CASE Stop
    <2>1. /\ active \in Sessions /\ messages' = [messages EXCEPT ![active] = Invalidate(@, TRUE)]
          /\ UNCHANGED <<active, log, wire, excuse, call>>
      BY <1>5 DEF Stop, IsRunning, BurstInv, client, server, net
    <2> QED BY <2>1, InvalidateFresh
  <1>6. ASSUME NEW n \in Sends, ServerStores(n) PROVE FreshInv'
    <2>1. PICK s \in Sessions : s = call[n].session
      BY <1>6 DEF ServerStores, ServerInv, SessionsKnown, Underway, Callers
    <2>2. /\ Store(n, s) /\ messages' = messages /\ active' = active
          /\ call' = [call EXCEPT ![n].phase = "stored"]
      BY <1>6, <2>1 DEF ServerStores, cache
    <2>3. /\ call'[n].session = s /\ call'[n].phase = "stored"
          /\ \A m \in Sends : m # n => call'[m] = call[m]
      BY <2>1, <2>2 DEF BurstInv, Calls, Callers
    <2> QED BY <2>1, <2>2, <2>3, StoreFresh
  <1>7. ASSUME NEW n \in Sends, NEW s \in Sessions, OtherDeviceSends(n, s) PROVE FreshInv'
    <2>1. /\ Store(n, s) /\ messages' = messages /\ active' = active /\ call[n].phase = "none"
          /\ call' = [call EXCEPT ![n] = [phase |-> "other", session |-> s]]
      BY <1>7 DEF OtherDeviceSends, cache
    <2>2. /\ call'[n].session = s /\ call'[n].phase = "other"
          /\ \A m \in Sends : m # n => call'[m] = call[m]
      BY <2>1 DEF BurstInv, Calls, Callers
    <2> QED BY <2>1, <2>2, StoreFresh
  <1>8. CASE \/ \E s \in Sessions : SelectSession(s)
             \/ NewChat
             \/ \E a \in Agents : SelectAgent(a)
    BY <1>8, ActivateFresh DEF SelectSession, NewChat, SelectAgent
  <1>9. CASE UNCHANGED vars
    BY <1>0, <1>9 DEF vars, client, cache, server, net
  <1>10. CASE \/ \E n \in Sends : AnswerLands(n) \/ ServerAnnounces(n)
              \/ \E n \in Sends, m \in Moves : ServerMoves(n, m)
    BY <1>10, AnswerLandsFresh, AnnounceFresh, MovesFresh
  <1>11. CASE Deliver \/ Drop \/ Reconnect
    BY <1>11, DeliverFresh, DropFresh
  <1>12. CASE \E s \in Sessions : FetchMessages(s) \/ FetchPending(s) \/ FetchFails(s)
    BY <1>12, FetchFresh
  <1> QED BY <1>1, <1>2, <1>3, <1>4, <1>5, <1>6, <1>7, <1>8, <1>9, <1>10, <1>11, <1>12 DEF Next

-----------------------------------------------------------------------------
(* The pill.  Session s may show a task in flight or one whose end is on   *)
(* the socket, and the stand-in of a send that has no answer yet.          *)
Ending == {"task:cancelled", "chat:done", "task:failed"}
Alive(n) == task[n].status \in InFlight
Named(s) ==
  {n \in Sends : /\ call[n].session = s /\ Stored(n)
                 /\ Alive(n) \/ \E k \in Ending : <<k, n>> \in Range(wire)}
Expected(s) == {n \in Sends : call[n].session = s /\ call[n].phase \in {"posted", "stored", "answering"}}

Good(p, N, W) == p = NoPill \/ (\E n \in N : p[1] = Task(n)) \/ (\E n \in W : p[1] = Optimistic(n))

PillOK(s) ==
  excuse[s] = "none" /\ ~pending[s].owed =>
    /\ HasData(pending[s]) /\ Idle(pending[s]) => Good(DataOf(pending[s]), Named(s), Expected(s))
    /\ Back(pending[s]) => Good(pending[s].fetch[2], Named(s), {})

(* The start of a task is on the socket only while the task is in flight   *)
(* or before its end.                                                      *)
EndsAfter(i, n) == \E j \in DOMAIN wire : j > i /\ \E k \in Ending : wire[j] = <<k, n>>
WirePills ==
  \A i \in DOMAIN wire, n \in Sends : wire[i] = <<"task:queued", n>> => Alive(n) \/ EndsAfter(i, n)

PillInv == WirePills /\ \A s \in Sessions : PillOK(s)

LEMMA PillNames ==
  ASSUME NEW n \in Sends, NEW st
  PROVE  /\ Pill(Task(n), st)[1] = Task(n) /\ Pill(Optimistic(n), st)[1] = Optimistic(n)
         /\ \A m \in Sends : /\ Task(n) # Optimistic(m)
                             /\ Task(n) = Task(m) => n = m
                             /\ Optimistic(n) = Optimistic(m) => n = m
  BY DEF Pill, Task, Optimistic

LEMMA GoodGrows ==
  ASSUME NEW p, NEW N, NEW W, NEW N2, NEW W2, N \subseteq N2, W \subseteq W2, Good(p, N, W)
  PROVE  Good(p, N2, W2)
  BY DEF Good

LEMMA InvalidateIdle ==
  ASSUME NEW V, NEW q \in Query(V), NEW b \in BOOLEAN, Idle(Invalidate(q, b))
  PROVE  Idle(q) /\ (Invalidate(q, b).owed <=> q.owed)
  <1> DEFINE r == Invalidate(q, b)
  <1>0. ~Back(q) \/ ~Idle(q)
    BY QueryIs
  <1>1. CASE b /\ (HasData(q) \/ Idle(q))
    BY <1>1, InvalidateIs
  <1>2. CASE ~(b /\ (HasData(q) \/ Idle(q))) /\ ~b /\ q = Absent
    <2>1. r = q
      BY <1>2 DEF Invalidate
    <2> QED BY <2>1
  <1>3. CASE ~(b /\ (HasData(q) \/ Idle(q))) /\ ~(~b /\ q = Absent)
    <2>1. r = [q EXCEPT !.stale = TRUE, !.owed = q.owed \/ Back(q)]
      BY <1>3 DEF Invalidate
    <2>2. r.fetch = q.fetch /\ (r.owed <=> q.owed \/ Back(q))
      BY <2>1 DEF Query, Back
    <2>3. Idle(q)
      BY <2>2 DEF Idle
    <2> QED BY <1>0, <2>2, <2>3
  <1> QED BY <1>1, <1>2, <1>3

-----------------------------------------------------------------------------
(* The socket in order.                                                    *)
LEMMA EmitPills ==
  ASSUME ServerInv, WirePills, NEW k \in Kinds, NEW n \in Sends, Emit(<<k, n>>),
         k = "task:queued" => Alive(n)',
         \A m \in Sends : Alive(m) => Alive(m)' \/ (m = n /\ k \in Ending)
  PROVE  WirePills'
  <1>1. wire \in Seq(Kinds \X Sends) /\ (conn = "down" => wire = <<>>)
    BY DEF ServerInv, ServerTyped, WireOK
  <1>2. CASE conn = "down"
    <2>1. wire' = <<>>
      BY <1>1, <1>2 DEF Emit
    <2> QED BY <2>1 DEF WirePills
  <1>3. CASE conn # "down"
    <2> DEFINE e == <<k, n>>
               L == Len(wire) + 1
    <2>1. wire' = Append(wire, e) /\ e \in Kinds \X Sends
      BY <1>3 DEF Emit
    <2> HIDE DEF e
    <2>2. /\ DOMAIN wire' = 1..L /\ DOMAIN wire = 1..(L - 1) /\ L \in Nat /\ L > 0
          /\ \A i \in DOMAIN wire : wire'[i] = wire[i]
          /\ wire'[L] = e
      BY <1>1, <2>1
    <2> HIDE DEF L
    <2>3. ASSUME NEW i \in DOMAIN wire', NEW m \in Sends, wire'[i] = <<"task:queued", m>>
          PROVE Alive(m)' \/ EndsAfter(i, m)'
      <3>1. CASE i = L
        <4>1. k = "task:queued" /\ m = n
          BY <2>2, <2>3, <3>1 DEF e
        <4> QED BY <4>1
      <3>2. CASE i # L
        <4>1. i \in DOMAIN wire /\ wire[i] = <<"task:queued", m>> /\ L > i
          BY <2>2, <2>3, <3>2
        <4>2. CASE Alive(m)
          <5>1. CASE m = n /\ k \in Ending
            <6>1. wire'[L] = <<k, m>> /\ L \in DOMAIN wire'
              BY <2>2, <5>1 DEF e
            <6> QED BY <4>1, <5>1, <6>1 DEF EndsAfter
          <5> QED BY <4>2, <5>1
        <4>3. CASE EndsAfter(i, m)
          <5>1. PICK j \in DOMAIN wire : j > i /\ \E l \in Ending : wire[j] = <<l, m>>
            BY <4>3 DEF EndsAfter
          <5>2. j \in DOMAIN wire' /\ wire'[j] = wire[j]
            BY <2>2
          <5> QED BY <5>1, <5>2 DEF EndsAfter
        <4> QED BY <4>1, <4>2, <4>3 DEF WirePills
      <3> QED BY <3>1, <3>2
    <2> QED BY <2>3 DEF WirePills
  <1> QED BY <1>2, <1>3

LEMMA TailPills ==
  ASSUME ServerInv, WirePills, wire # <<>>, wire' = Tail(wire), task' = task
  PROVE  /\ WirePills'
         /\ \A n \in Sends : wire[1] = <<"task:queued", n>> =>
              Alive(n) \/ \E k \in Ending : <<k, n>> \in Range(wire')
  <1>1. wire \in Seq(Kinds \X Sends)
    BY DEF ServerInv, ServerTyped
  <1> DEFINE L == Len(wire)
  <1>2. /\ DOMAIN wire = 1..L /\ L \in Nat /\ L > 0
        /\ DOMAIN wire' = 1..(L - 1)
        /\ \A i \in DOMAIN wire' : wire'[i] = wire[i + 1]
    BY <1>1
  <1> HIDE DEF L
  <1>3. \A n \in Sends : Alive(n)' <=> Alive(n)
    BY DEF Alive
  <1>4. ASSUME NEW i \in Nat, NEW n \in Sends, EndsAfter(i + 1, n)
        PROVE  \E j \in DOMAIN wire' : j > i /\ \E k \in Ending : wire'[j] = <<k, n>>
    <2>1. PICK j \in DOMAIN wire : j > i + 1 /\ \E k \in Ending : wire[j] = <<k, n>>
      BY <1>4 DEF EndsAfter
    <2>2. PICK l \in DOMAIN wire' : l + 1 = j /\ l > i
      <3>1. j - 1 \in DOMAIN wire' /\ (j - 1) + 1 = j /\ j - 1 > i
        BY <1>2, <2>1
      <3> QED BY <3>1
    <2>3. wire'[l] = wire[j]
      BY <1>2, <2>2
    <2> QED BY <2>1, <2>2, <2>3
  <1>5. ASSUME NEW i \in DOMAIN wire', NEW n \in Sends, wire'[i] = <<"task:queued", n>>
        PROVE  Alive(n)' \/ EndsAfter(i, n)'
    <2>1. i \in Nat /\ i + 1 \in DOMAIN wire /\ wire[i + 1] = <<"task:queued", n>>
      BY <1>2, <1>5
    <2>2. Alive(n) \/ EndsAfter(i + 1, n)
      BY <2>1 DEF WirePills
    <2>3. CASE EndsAfter(i + 1, n)
      <3>1. \E j \in DOMAIN wire' : j > i /\ \E k \in Ending : wire'[j] = <<k, n>>
        BY <1>4, <2>1, <2>3
      <3> QED BY <3>1 DEF EndsAfter
    <2> QED BY <1>3, <2>2, <2>3
  <1>6. ASSUME NEW n \in Sends, wire[1] = <<"task:queued", n>>
        PROVE  Alive(n) \/ \E k \in Ending : <<k, n>> \in Range(wire')
    <2>1. 1 \in DOMAIN wire
      BY <1>2
    <2>2. Alive(n) \/ EndsAfter(0 + 1, n)
      BY <1>6, <2>1 DEF WirePills
    <2>3. CASE EndsAfter(0 + 1, n)
      <3>1. PICK j \in DOMAIN wire' : \E k \in Ending : wire'[j] = <<k, n>>
        BY <1>4, <2>3
      <3> QED BY <3>1 DEF Range
    <2> QED BY <2>2, <2>3
  <1> QED BY <1>5, <1>6 DEF WirePills

LEMMA WiresSame ==
  ASSUME WirePills, wire' = wire, task' = task
  PROVE  WirePills'
  BY DEF WirePills, Alive, EndsAfter

LEMMA WiresStep == ServerInv /\ WirePills /\ [Next]_vars => WirePills'
  <1> SUFFICES ASSUME ServerInv, WirePills, [Next]_vars PROVE WirePills'
    OBVIOUS
  <1>1. ASSUME NEW n \in Sends, NEW s, Store(n, s) PROVE WirePills'
    <2>1. /\ task' = [task EXCEPT ![n] = [status |-> "queued", session |-> s]]
          /\ Emit(<<"task:queued", n>>)
      BY <1>1 DEF Store
    <2>2. Alive(n)' /\ \A m \in Sends : Alive(m) => Alive(m)'
      BY <2>1 DEF ServerInv, ServerTyped, Alive, InFlight
    <2> QED BY <2>1, <2>2, EmitPills DEF Kinds
  <1>2. ASSUME NEW n \in Sends, ServerAnnounces(n) PROVE WirePills'
    <2>1. Emit(<<"chat:message", n>>) /\ \A m \in Sends : Alive(m) => Alive(m)'
      BY <1>2 DEF ServerAnnounces, server, Alive
    <2> QED BY <2>1, EmitPills DEF Kinds
  <1>3. ASSUME NEW n \in Sends, NEW m \in Moves, ServerMoves(n, m) PROVE WirePills'
    <2>1. Emit(<<m[3], n>>) /\ task' = [task EXCEPT ![n].status = m[2]]
      BY <1>3 DEF ServerMoves
    <2>2. m[3] \in Kinds /\ m[3] # "task:queued" /\ (m[2] \in InFlight \/ m[3] \in Ending)
      BY DEF Moves, Kinds, InFlight, Ending
    <2>3. \A l \in Sends : Alive(l) => Alive(l)' \/ (l = n /\ m[3] \in Ending)
      BY <2>1, <2>2 DEF ServerInv, ServerTyped, Alive
    <2> QED BY <2>1, <2>2, <2>3, EmitPills
  <1>4. CASE Deliver
    <2>1. wire # <<>> /\ wire' = Tail(wire) /\ task' = task
      BY <1>4 DEF Deliver, server
    <2> QED BY <2>1, TailPills
  <1>5. CASE Drop
    <2>1. wire' = <<>>
      BY <1>5 DEF Drop
    <2> QED BY <2>1 DEF WirePills
  <1>6. CASE \/ \E c \in Callers : Ask(c)
             \/ \E s \in Sessions : \/ SessionCreated(s) \/ SelectSession(s)
                                     \/ FetchMessages(s) \/ FetchPending(s) \/ FetchFails(s)
             \/ CreationFails \/ Stop \/ NewChat \/ Reconnect \/ UNCHANGED vars
             \/ \E a \in Agents : SelectAgent(a)
             \/ \E n \in Sends : AnswerLands(n) \/ PostFails(n)
    <2>1. wire' = wire /\ task' = task
      BY <1>6 DEF Ask, SessionCreated, SelectSession, FetchMessages, FetchPending, FetchFails,
                  CreationFails, Stop, NewChat, Reconnect, SelectAgent, AnswerLands, PostFails,
                  vars, server, net
    <2> QED BY <2>1, WiresSame
  <1> QED BY <1>1, <1>2, <1>3, <1>4, <1>5, <1>6 DEF Next, ServerStores, OtherDeviceSends

-----------------------------------------------------------------------------
(* A pill may be shown as long as its task is named or its answer awaited. *)
LEMMA NamedGrow ==
  ASSUME ServerInv, Keep, NEW t \in Sessions, \A n \in Sends : Stored(n) => Stored(n)',
         \A n \in Sends : call[n].session = t /\ Alive(n) =>
           Alive(n)' \/ \E k \in Ending : <<k, n>> \in Range(wire'),
         \A n \in Sends, k \in Ending : call[n].session = t /\ <<k, n>> \in Range(wire) =>
           <<k, n>> \in Range(wire')
  PROVE  Named(t) \subseteq Named(t)'
  <1> SUFFICES ASSUME NEW n \in Named(t) PROVE n \in Named(t)'
    OBVIOUS
  <1>1. n \in Sends /\ Stored(n) /\ call[n].session = t
    BY DEF Named
  <1>2. call'[n].session = t
    BY <1>1 DEF ServerInv, CallsKnown, Keep, Callers
  <1> QED BY <1>1, <1>2 DEF Named

LEMMA ExpectedGrow ==
  ASSUME Keep, NEW t \in Sessions,
         \A n \in Sends : call[n].session = t /\ call[n].phase \in {"posted", "stored", "answering"} =>
           call'[n].phase \in {"posted", "stored", "answering"}
  PROVE  Expected(t) \subseteq Expected(t)'
  BY DEF Expected, Keep, Callers

LEMMA PillFrame ==
  ASSUME NEW s \in Sessions, PillOK(s), pending'[s] = pending[s],
         excuse'[s] = "none" => /\ excuse[s] = "none"
                                /\ Named(s) \subseteq Named(s)' /\ Expected(s) \subseteq Expected(s)'
  PROVE  PillOK(s)'
  BY GoodGrows DEF PillOK

LEMMA PillWritten ==
  ASSUME NEW s \in Sessions, NEW q \in Query(PillValue), NEW v \in PillValue,
         pending'[s] = SetData(q, v),
         Idle(q) /\ ~q.owed /\ excuse'[s] = "none" => Good(v, Named(s)', Expected(s)')
  PROVE  PillOK(s)'
  <1> DEFINE r == SetData(q, v)
  <1>1. DataOf(r) = v /\ r.fetch = q.fetch /\ (r.owed <=> q.owed \/ Back(q))
    BY SetDataIs
  <1> HIDE DEF r
  <1>2. pending'[s] = r
    BY DEF r
  <1> QED BY <1>1, <1>2 DEF PillOK, Idle, Back

LEMMA PillInvalidated ==
  ASSUME NEW s \in Sessions, NEW q \in Query(PillValue), NEW b \in BOOLEAN,
         pending'[s] = Invalidate(q, b),
         HasData(q) /\ Idle(q) /\ ~q.owed /\ excuse'[s] = "none" => Good(DataOf(q), Named(s)', Expected(s)')
  PROVE  PillOK(s)'
  <1> DEFINE r == Invalidate(q, b)
  <1>1. /\ r.data = q.data /\ (Back(r) => r.owed)
        /\ Idle(r) => Idle(q) /\ (r.owed <=> q.owed)
    BY InvalidateIs, InvalidateIdle
  <1> HIDE DEF r
  <1>2. pending'[s] = r
    BY DEF r
  <1> QED BY <1>1, <1>2 DEF PillOK, DataOf, HasData

LEMMA PillMounted ==
  ASSUME NEW s \in Sessions, NEW q \in Query(PillValue), pending'[s] = Mount(q),
         pending'[s] = q => PillOK(s)'
  PROVE  PillOK(s)'
  <1>1. pending'[s] = q \/ (Sent(pending'[s]) /\ ~Idle(pending'[s]) /\ ~Back(pending'[s]))
    BY MountIs, QueryIs
  <1> QED BY <1>1 DEF PillOK

(* The pills of the other sessions, and the session that is written.       *)
LEMMA OnePill ==
  ASSUME CacheTyped, PillInv, NEW s \in Sessions, NEW r, pending' = [pending EXCEPT ![s] = r],
         \A t \in Sessions : t # s /\ excuse'[t] = "none" =>
           excuse[t] = "none" /\ Named(t) \subseteq Named(t)' /\ Expected(t) \subseteq Expected(t)',
         pending'[s] = r => PillOK(s)'
  PROVE  \A t \in Sessions : PillOK(t)'
  <1>1. pending'[s] = r /\ \A t \in Sessions : t # s => pending'[t] = pending[t]
    BY DEF CacheTyped
  <1> SUFFICES ASSUME NEW t \in Sessions, t # s PROVE PillOK(t)'
    BY <1>1
  <1> QED BY <1>1, PillFrame DEF PillInv

LEMMA ServerSamePills ==
  ASSUME ServerInv, Keep, task' = task, wire' = wire, NEW t \in Sessions
  PROVE  Named(t) \subseteq Named(t)'
  <1>1. \A n \in Sends : (Stored(n) => Stored(n)') /\ (Alive(n) => Alive(n)')
    BY DEF Stored, Alive
  <1> QED BY <1>1, NamedGrow

LEMMA ActivatePills ==
  ASSUME ServerInv, Keep, CacheTyped, PillInv, NEW s \in Sessions \cup {None},
         Activate(s, messages, pending), UNCHANGED <<call, server, net, excuse>>
  PROVE  \A t \in Sessions : PillOK(t)'
  <1>1. UNCHANGED <<task, wire, excuse>>
    BY DEF server, net
  <1>2. \A t \in Sessions : Named(t) \subseteq Named(t)' /\ Expected(t) \subseteq Expected(t)'
    BY <1>1, ServerSamePills, ExpectedGrow
  <1>3. ASSUME NEW t \in Sessions, pending'[t] = pending[t] PROVE PillOK(t)'
    BY <1>1, <1>2, <1>3, PillFrame DEF PillInv
  <1>4. CASE s = None
    BY <1>3, <1>4 DEF Activate
  <1>5. CASE s # None
    <2>1. s \in Sessions /\ pending' = [pending EXCEPT ![s] = Mount(@)] /\ pending[s] \in Query(PillValue)
      BY <1>5 DEF Activate, CacheTyped
    <2>2. pending'[s] = Mount(pending[s]) => PillOK(s)'
      BY <1>3, <2>1, PillMounted
    <2> QED BY <1>1, <1>2, <2>1, <2>2, OnePill
  <1> QED BY <1>4, <1>5

LEMMA ContinuePills ==
  ASSUME BurstInv, ServerInv, Keep, CacheTyped, PillInv,
         NEW s \in Sessions, NEW sends \in Seq(Sends), NEW file \in BOOLEAN,
         Continue(sends, file, s), task' = task, UNCHANGED <<net, excuse>>,
         \A c \in Range(sends) \cup Files(file) : call[c].phase \in {"none", "creating"}
  PROVE  \A t \in Sessions : PillOK(t)'
  <1> DEFINE q == pending[s]
             d == SeedPending(q, sends)
  <1>1. pending' = [pending EXCEPT ![s] = Mount(d)] /\ q \in Query(PillValue)
    <2>1. s # None
      BY ChatAssumption
    <2> QED BY <2>1 DEF Continue, Activate, CacheTyped
  <1>2. UNCHANGED <<task, wire, excuse>>
    BY DEF net
  <1>3. ASSUME NEW t \in Sessions PROVE Named(t) \subseteq Named(t)' /\ Expected(t) \subseteq Expected(t)'
    <2>1. ASSUME NEW n \in Sends, call[n].phase \in {"posted", "stored", "answering"}
          PROVE  call'[n].phase \in {"posted", "stored", "answering"}
      <3>1. n \in Callers /\ n \notin Range(sends) \cup Files(file)
        BY <2>1 DEF Callers
      <3>2. call'[n] = call[n]
        BY <3>1, ContinueCalls
      <3> QED BY <2>1, <3>2
    <2> QED BY <1>2, <2>1, ServerSamePills, ExpectedGrow
  <1>4. CASE sends = <<>>
    <2>1. d = q
      BY <1>4 DEF SeedPending
    <2>2. pending'[s] = q => PillOK(s)'
      BY <1>2, <1>3, PillFrame DEF PillInv
    <2> HIDE DEF q, d
    <2>3. pending'[s] = Mount(d) => PillOK(s)'
      BY <1>1, <2>1, <2>2, PillMounted
    <2> QED BY <1>1, <1>2, <1>3, <2>3, OnePill
  <1>5. CASE sends # <<>>
    <2>1. PICK n \in Sends : n = Last(sends) /\ n \in Range(sends)
      <3>1. Len(sends) \in DOMAIN sends /\ sends[Len(sends)] \in Sends
        BY <1>5
      <3> QED BY <3>1 DEF Last, Range
    <2>2. call'[n].phase = "posted" /\ call'[n].session = s
      BY <2>1, ContinueCalls
    <2>3. Good(Pill(Optimistic(n), "queued"), Named(s)', Expected(s)')
      BY <2>2, PillNames DEF Good, Expected
    <2>4. d = SetData(q, Pill(Optimistic(n), "queued")) /\ d \in Query(PillValue)
      BY <1>1, <1>5, <2>1, PillsAre, SetDataIs DEF SeedPending
    <2>5. pending'[s] = d => PillOK(s)'
      BY <1>1, <2>3, <2>4, PillsAre, PillWritten
    <2> HIDE DEF q, d
    <2>6. pending'[s] = Mount(d) => PillOK(s)'
      BY <2>4, <2>5, PillMounted
    <2> QED BY <1>1, <1>2, <1>3, <2>6, OnePill
  <1> QED BY <1>4, <1>5

LEMMA AnswerPills ==
  ASSUME BurstInv, ServerInv, Keep, CacheTyped, PillInv, NEW n \in Sends, AnswerLands(n)
  PROVE  \A t \in Sessions : PillOK(t)'
  <1>1. PICK s \in Sessions : s = call[n].session
    BY DEF AnswerLands, ServerInv, SessionsKnown, Underway, Callers
  <1> DEFINE v == Pill(Task(n), "queued")
  <1>2. /\ call[n].phase = "answering" /\ call' = [call EXCEPT ![n].phase = "done"]
        /\ pending' = [pending EXCEPT ![s] = SetData(@, v)]
        /\ IF Alive(n) THEN excuse' = excuse ELSE Excuse(s, "pill")
        /\ task' = task /\ wire' = wire
    BY <1>1 DEF AnswerLands, server, net, Alive
  <1>3. v \in PillValue /\ v[1] = Task(n)
    BY PillsAre, PillNames DEF InFlight
  <1> HIDE DEF v
  <1>4. ASSUME NEW t \in Sessions, t # s, excuse'[t] = "none"
        PROVE  excuse[t] = "none" /\ Named(t) \subseteq Named(t)' /\ Expected(t) \subseteq Expected(t)'
    <2>1. excuse[t] = "none"
      BY <1>2, <1>4 DEF Excuse, ServerInv, ServerTyped
    <2>2. \A m \in Sends : call[m].session = t => call'[m] = call[m]
      BY <1>1, <1>2, <1>4 DEF BurstInv, Calls, Callers
    <2> QED BY <1>2, <2>1, <2>2, ServerSamePills, ExpectedGrow
  <1>5. excuse'[s] = "none" => Good(v, Named(s)', Expected(s)')
    <2> SUFFICES ASSUME excuse'[s] = "none" PROVE Good(v, Named(s)', Expected(s)')
      OBVIOUS
    <2>1. Alive(n)
      BY <1>2 DEF Excuse, ServerInv, ServerTyped
    <2>2. n \in Named(s)
      BY <1>1, <1>2, <2>1 DEF Named, ServerInv, CallsKnown
    <2>3. n \in Named(s)'
      BY <1>2, <2>2, ServerSamePills
    <2> QED BY <1>3, <2>3 DEF Good
  <1>6. pending'[s] = SetData(pending[s], v) => PillOK(s)'
    BY <1>3, <1>5, PillWritten DEF CacheTyped
  <1> QED BY <1>2, <1>4, <1>6, OnePill

LEMMA FetchPills ==
  ASSUME ServerInv, Keep, CacheTyped, PillInv, NEW s \in Sessions,
         FetchMessages(s) \/ FetchPending(s) \/ FetchFails(s)
  PROVE  \A t \in Sessions : PillOK(t)'
  <1>1. call' = call /\ task' = task /\ wire' = wire
    BY DEF FetchMessages, FetchPending, FetchFails, client, server, net
  <1>2. \A t \in Sessions : Named(t) \subseteq Named(t)' /\ Expected(t) \subseteq Expected(t)'
    BY <1>1, ServerSamePills, ExpectedGrow
  <1>3. CASE FetchMessages(s)
    BY <1>2, <1>3, PillFrame DEF FetchMessages, PillInv
  <1>4. CASE FetchPending(s)
    <2> DEFINE q == pending[s]
               v == ServerPill(s)
    <2>1. q \in Query(PillValue) /\ v \in PillValue /\ excuse' = excuse
      BY <1>4, ServerPillIs DEF CacheTyped, FetchPending
    <2>2. PillOK(s)
      BY DEF PillInv
    <2>3. Good(v, Named(s)', {})
      <3>1. CASE v = NoPill
        BY <3>1 DEF Good
      <3>2. CASE \E n \in InFlightOf(s) : v = Pill(Task(n), task[n].status)
        <4>1. PICK n \in InFlightOf(s) : v = Pill(Task(n), task[n].status)
          BY <3>2
        <4>2. n \in Sends /\ v[1] = Task(n)
          BY <4>1, PillNames DEF InFlightOf
        <4>3. n \in Named(s)
          BY <4>1, <4>2 DEF InFlightOf, Named, Alive, Stored, InFlight, ServerInv, CallsKnown
        <4> QED BY <1>2, <4>2, <4>3 DEF Good
      <3> QED BY <3>1, <3>2, ServerPillIs
    <2> HIDE DEF q, v
    <2>4. CASE pending' = [pending EXCEPT ![s] = Answer(q, v)]
      <3>1. Answer(q, v).fetch[2] = v /\ ~Idle(Answer(q, v))
        <4>1. ~Idle(Answer(q, v))
          BY <2>1, FetchIs
        <4>2. Answer(q, v).fetch[2] = v
          BY <2>1 DEF Query, Answer
        <4> QED BY <4>1, <4>2
      <3>2. pending'[s] = Answer(q, v) => PillOK(s)'
        BY <2>3, <3>1 DEF PillOK
      <3> QED BY <1>2, <2>1, <2>4, <3>2, OnePill
    <2>5. CASE Back(q) /\ pending' = [pending EXCEPT ![s] = Land(q)]
      <3>1. DataOf(Land(q)) = q.fetch[2] /\ ~Back(Land(q)) /\ (Land(q).owed <=> q.owed)
        BY <2>1, <2>5, FetchIs
      <3>2. excuse[s] = "none" /\ ~q.owed => Good(q.fetch[2], Named(s)', Expected(s)')
        BY <1>2, <2>2, <2>5, GoodGrows DEF PillOK, q
      <3>3. pending'[s] = Land(q) => PillOK(s)'
        BY <2>1, <3>1, <3>2 DEF PillOK
      <3> QED BY <1>2, <2>1, <2>5, <3>3, OnePill
    <2> QED BY <1>4, <2>4, <2>5 DEF FetchPending, q, v
  <1>5. CASE FetchFails(s)
    <2>1. /\ excuse'[s] # "none" /\ \A t \in Sessions : excuse'[t] = "none" => excuse[t] = "none"
          /\ \A t \in Sessions : t # s => pending'[t] = pending[t]
      BY <1>5 DEF FetchFails, Excuse, ServerInv, ServerTyped, CacheTyped
    <2>2. PillOK(s)'
      BY <2>1 DEF PillOK
    <2> QED BY <1>2, <2>1, <2>2, PillFrame DEF PillInv
  <1> QED BY <1>3, <1>4, <1>5

(* No pill is written: it stays explained where nothing is lost.           *)
LEMMA PillsSame ==
  ASSUME ServerInv, Keep, PillInv, pending' = pending,
         \A n \in Sends : Stored(n) => Stored(n)',
         \A t \in Sessions : excuse'[t] = "none" =>
           /\ excuse[t] = "none"
           /\ \A n \in Sends : call[n].session = t =>
                /\ Alive(n) => Alive(n)' \/ \E k \in Ending : <<k, n>> \in Range(wire')
                /\ \A k \in Ending : <<k, n>> \in Range(wire) => <<k, n>> \in Range(wire')
                /\ call[n].phase \in {"posted", "stored", "answering"} =>
                     call'[n].phase \in {"posted", "stored", "answering"}
  PROVE  \A t \in Sessions : PillOK(t)'
  <1> SUFFICES ASSUME NEW t \in Sessions PROVE PillOK(t)'
    OBVIOUS
  <1>1. excuse'[t] = "none" =>
          excuse[t] = "none" /\ Named(t) \subseteq Named(t)' /\ Expected(t) \subseteq Expected(t)'
    BY NamedGrow, ExpectedGrow
  <1> QED BY <1>1, PillFrame DEF PillInv

LEMMA MovesPills ==
  ASSUME ServerInv, Keep, PillInv, NEW n \in Sends, NEW m \in Moves, ServerMoves(n, m)
  PROVE  \A t \in Sessions : PillOK(t)'
  <1>1. m[1] \in InFlight /\ m[3] \in Kinds /\ m[2] # "none" /\ (m[2] \in InFlight \/ m[3] \in Ending)
    BY DEF Moves, Kinds, InFlight, Ending
  <1>2. /\ task[n].status = m[1] /\ task' = [task EXCEPT ![n].status = m[2]]
        /\ Emit(<<m[3], n>>) /\ Lost(task[n].session)
        /\ call' = call /\ pending' = pending /\ conn' = conn
    BY DEF ServerMoves, client, cache
  <1>3. PICK s \in Sessions : task[n].session = s /\ call[n].session = s
    BY <1>1, <1>2 DEF ServerInv, CallsKnown, Stored, InFlight
  <1>4. /\ Range(wire) \subseteq Range(wire')
        /\ conn # "down" => <<m[3], n>> \in Range(wire')
    BY <1>1, <1>2, EmitIs
  <1>5. /\ \A t \in Sessions : t # s => excuse'[t] = excuse[t]
        /\ conn = "down" => excuse'[s] = "both"
        /\ conn # "down" => excuse' = excuse
    BY <1>2, <1>3, LostIs
  <1>6. \A l \in Sends : /\ Stored(l) => Stored(l)'
                         /\ Alive(l) => Alive(l)' \/ (l = n /\ m[3] \in Ending)
    BY <1>1, <1>2 DEF Alive, Stored, ServerInv, ServerTyped
  <1>7. ASSUME NEW t \in Sessions, excuse'[t] = "none", NEW l \in Sends, call[l].session = t, Alive(l)
        PROVE  Alive(l)' \/ \E k \in Ending : <<k, l>> \in Range(wire')
    BY <1>3, <1>4, <1>5, <1>6, <1>7
  <1>8. \A t \in Sessions : excuse'[t] = "none" => excuse[t] = "none"
    BY <1>5
  <1> QED BY <1>2, <1>4, <1>6, <1>7, <1>8, PillsSame

LEMMA ServerPills ==
  ASSUME BurstInv, ServerInv, Keep, PillInv, NEW n \in Sends,
         ServerStores(n) \/ ServerAnnounces(n) \/ \E s \in Sessions : OtherDeviceSends(n, s)
  PROVE  \A t \in Sessions : PillOK(t)'
  <1>1. PICK s \in Sessions, k \in {"task:queued", "chat:message"} :
          /\ Emit(<<k, n>>) /\ Lost(s) /\ pending' = pending /\ conn' = conn
          /\ task' = task \/ task' = [task EXCEPT ![n] = [status |-> "queued", session |-> s]]
          /\ Stored(n) => task' = task
    <2>1. CASE ServerStores(n)
      <3>1. call[n].session \in Sessions /\ ~Stored(n)
        BY <2>1 DEF ServerStores, ServerInv, SessionsKnown, CallsKnown, Underway, Callers
      <3> QED BY <2>1, <3>1 DEF ServerStores, Store, cache, Stored
    <2>2. CASE ServerAnnounces(n)
      <3>1. call[n].session \in Sessions
        BY <2>2 DEF ServerAnnounces, ServerInv, SessionsKnown, Underway, Callers
      <3> QED BY <2>2, <3>1 DEF ServerAnnounces, server, cache
    <2>3. CASE \E s \in Sessions : OtherDeviceSends(n, s)
      <3>1. ~Stored(n)
        BY <2>3 DEF OtherDeviceSends, ServerInv, CallsKnown
      <3> QED BY <2>3, <3>1 DEF OtherDeviceSends, Store, cache
    <2> QED BY <2>1, <2>2, <2>3
  <1>2. Range(wire) \subseteq Range(wire') /\ \A t \in Sessions : excuse'[t] = "none" => excuse[t] = "none"
    <2>1. k \in Kinds
      BY DEF Kinds
    <2>2. Range(wire) \subseteq Range(wire')
      BY <1>1, <2>1, EmitIs
    <2>3. /\ \A t \in Sessions : t # s => excuse'[t] = excuse[t]
          /\ conn = "down" => excuse'[s] = "both"
          /\ conn # "down" => excuse' = excuse
      BY <1>1, LostIs
    <2> QED BY <2>2, <2>3
  <1>3. \A l \in Sends : (Stored(l) => Stored(l)') /\ (Alive(l) => Alive(l)')
    BY <1>1 DEF Alive, Stored, InFlight, ServerInv, ServerTyped
  <1>4. \A l \in Sends : call[l].phase \in {"posted", "stored", "answering"} =>
                           call'[l].phase \in {"posted", "stored", "answering"}
    BY DEF ServerStores, ServerAnnounces, OtherDeviceSends, BurstInv, Calls, Callers
  <1> QED BY <1>1, <1>2, <1>3, <1>4, PillsSame

LEMMA SocketPills ==
  ASSUME ServerInv, Keep, PillInv, Drop \/ Reconnect
  PROVE  \A t \in Sessions : PillOK(t)'
  <1>1. call' = call /\ task' = task /\ pending' = pending
    BY DEF Drop, Reconnect, client, cache, server
  <1>2. \A n \in Sends : (Stored(n) => Stored(n)') /\ (Alive(n) => Alive(n)')
    BY <1>1 DEF Stored, Alive
  <1>3. CASE Drop
    <2>1. ASSUME NEW t \in Sessions, excuse'[t] = "none"
          PROVE  /\ excuse[t] = "none"
                 /\ \A n \in Sends, k \in Ending : call[n].session = t => <<k, n>> \notin Range(wire)
      <3>1. excuse[t] = "none" /\ \A i \in DOMAIN wire : call[wire[i][2]].session # t
        BY <1>3, <2>1 DEF Drop
      <3>2. \A e \in Range(wire) : call[e[2]].session # t
        BY <3>1 DEF Range
      <3> QED BY <3>1, <3>2
    <2> QED BY <1>1, <1>2, <2>1, PillsSame
  <1>4. CASE Reconnect
    <2>1. wire' = wire /\ excuse' = excuse
      BY <1>4 DEF Reconnect
    <2> QED BY <1>1, <1>2, <2>1, PillsSame
  <1> QED BY <1>3, <1>4

LEMMA DeliverPills ==
  ASSUME ServerInv, Keep, CacheTyped, PillInv, Deliver
  PROVE  \A t \in Sessions : PillOK(t)'
  <1>1. PICK k \in Kinds, n \in Sends, s \in Sessions :
          /\ wire[1] = <<k, n>> /\ s = call[n].session /\ Stored(n) /\ Handle(k, n, s)
          /\ Range(wire) = Range(wire') \cup {<<k, n>>}
    <2>1. wire \in Seq(Kinds \X Sends) /\ wire # <<>> /\ wire' = Tail(wire)
      BY DEF ServerInv, ServerTyped, Deliver
    <2> DEFINE e == wire[1]
    <2>2. e \in Kinds \X Sends /\ Range(wire) = Range(wire') \cup {e}
      BY <2>1, RangeOfTail
    <2>3. Handle(e[1], e[2], call[e[2]].session)
      BY DEF Deliver
    <2>4. Stored(e[2])
      BY <2>2 DEF ServerInv, WireOK
    <2> HIDE DEF e
    <2>5. e[1] \in Kinds /\ e[2] \in Sends /\ e = <<e[1], e[2]>>
      BY <2>2
    <2>6. call[e[2]].session \in Sessions
      BY <2>4, <2>5 DEF ServerInv, CallsKnown
    <2> QED BY <2>2, <2>3, <2>4, <2>5, <2>6 DEF e
  <1>2. /\ call' = call /\ task' = task /\ excuse' = excuse /\ active' = active
        /\ wire # <<>> /\ wire' = Tail(wire)
    BY <1>1, HandleMessages DEF Deliver, client, server
  <1>3. \A l \in Sends : (Stored(l) => Stored(l)') /\ (Alive(l) => Alive(l)')
    BY <1>2 DEF Stored, Alive
  <1>4. ASSUME NEW t \in Sessions, t # s \/ k \notin Ending
        PROVE  Named(t) \subseteq Named(t)' /\ Expected(t) \subseteq Expected(t)'
    <2>1. \A l \in Sends, j \in Ending : call[l].session = t /\ <<j, l>> \in Range(wire) =>
            <<j, l>> \in Range(wire')
      BY <1>1, <1>4
    <2> QED BY <1>2, <1>3, <2>1, NamedGrow, ExpectedGrow
  <1> DEFINE q == pending[s]
             b == active = s
  <1>5. q \in Query(PillValue) /\ b \in BOOLEAN /\ NoPill \in PillValue /\ PillOK(s)
    BY PillsAre DEF CacheTyped, PillInv
  <1>6. SetData(q, NoPill) \in Query(PillValue) /\ DataOf(SetData(q, NoPill)) = NoPill
    BY <1>5, SetDataIs
  <1>7. \A N, W : Good(NoPill, N, W)
    BY DEF Good
  <1> HIDE DEF q, b
  <1>8. k \notin Ending /\ excuse[s] = "none" /\ ~q.owed /\ HasData(q) /\ Idle(q)
          => Good(DataOf(q), Named(s)', Expected(s)')
    BY <1>4, <1>5, GoodGrows DEF PillOK, q
  <1> SUFFICES \E r : /\ pending' = [pending EXCEPT ![s] = r]
                      /\ pending'[s] = r => PillOK(s)'
    BY <1>2, <1>4, OnePill
  <1>9. CASE k = "task:queued"
    <2> DEFINE v == Pill(Task(n), "queued")
    <2>1. pending' = [pending EXCEPT ![s] = SetData(q, v)]
      BY <1>1, <1>9 DEF Handle, q
    <2>2. v \in PillValue /\ v[1] = Task(n)
      BY PillsAre, PillNames DEF InFlight
    <2>3. Alive(n) \/ \E j \in Ending : <<j, n>> \in Range(wire')
      BY <1>1, <1>2, <1>9, TailPills DEF PillInv
    <2>4. n \in Named(s)'
      BY <1>1, <1>2, <1>3, <2>3 DEF Named
    <2> HIDE DEF v
    <2>5. Good(v, Named(s)', Expected(s)')
      BY <2>2, <2>4 DEF Good
    <2>6. pending'[s] = SetData(q, v) => PillOK(s)'
      BY <1>5, <2>2, <2>5, PillWritten
    <2> QED BY <2>1, <2>6
  <1>10. CASE k = "task:cancelled"
    <2>1. pending' = [pending EXCEPT ![s] = SetData(q, NoPill)]
      BY <1>1, <1>10 DEF Handle, q
    <2>2. pending'[s] = SetData(q, NoPill) => PillOK(s)'
      BY <1>5, <1>7, PillWritten
    <2> QED BY <2>1, <2>2
  <1>11. CASE k \in {"chat:done", "task:failed"}
    <2> DEFINE d == SetData(q, NoPill)
    <2>1. pending' = [pending EXCEPT ![s] = Invalidate(d, b)]
      BY <1>1, <1>11 DEF Handle, ChatDone, Ended, q, b
    <2>2. d \in Query(PillValue) /\ Good(DataOf(d), Named(s)', Expected(s)')
      BY <1>6, <1>7
    <2> HIDE DEF d
    <2>3. pending'[s] = Invalidate(d, b) => PillOK(s)'
      BY <1>5, <2>2, PillInvalidated
    <2> QED BY <2>1, <2>3
  <1>12. CASE k = "chat:message"
    <2>1. pending' = [pending EXCEPT ![s] = Invalidate(q, b)]
      BY <1>1, <1>12 DEF Handle, q, b
    <2>2. pending'[s] = Invalidate(q, b) => PillOK(s)'
      BY <1>2, <1>5, <1>8, <1>12, PillInvalidated DEF Ending
    <2> QED BY <2>1, <2>2
  <1>13. ASSUME NEW st \in InFlight, k \notin Ending,
                pending' = [pending EXCEPT ![s] = Patch(q, LAMBDA p : Progress(n, st, p))]
         PROVE  \E r : /\ pending' = [pending EXCEPT ![s] = r]
                       /\ pending'[s] = r => PillOK(s)'
    <2>1. CASE HasData(q)
      <3> DEFINE p == DataOf(q)
                 v == Progress(n, st, p)
      <3>1. p \in PillValue /\ v \in PillValue
        BY <1>5, <2>1, QueryIs, PillsAre DEF DataOf
      <3>2. pending' = [pending EXCEPT ![s] = SetData(q, v)]
        BY <1>13, <2>1 DEF Patch, DataOf
      <3>3. ASSUME NEW N, NEW W, Good(p, N, W) PROVE Good(v, N, W)
        <4>1. v = p \/ v[1] = p[1]
          BY PillNames DEF Progress
        <4>2. p = NoPill => v = p
          BY DEF Progress
        <4> QED BY <3>3, <4>1, <4>2 DEF Good
      <3> HIDE DEF p, v
      <3>4. Idle(q) /\ ~q.owed /\ excuse'[s] = "none" => Good(v, Named(s)', Expected(s)')
        BY <1>2, <1>8, <1>13, <2>1, <3>3 DEF p
      <3>5. pending'[s] = SetData(q, v) => PillOK(s)'
        BY <1>5, <3>1, <3>4, PillWritten
      <3> QED BY <3>2, <3>5
    <2>2. CASE ~HasData(q)
      <3> DEFINE r == [q EXCEPT !.owed = q.owed \/ Back(q)]
      <3>1. pending' = [pending EXCEPT ![s] = r]
        BY <1>13, <2>2 DEF Patch
      <3>2. r.data = q.data /\ r.fetch = q.fetch /\ (r.owed <=> q.owed \/ Back(q))
        BY <1>5, UnpatchedIs
      <3> HIDE DEF r
      <3>3. pending'[s] = r => PillOK(s)'
        BY <2>2, <3>2 DEF PillOK, HasData, Back
      <3> QED BY <3>1, <3>3
    <2> QED BY <2>1, <2>2
  <1>14. CASE k \in {"task:dispatch", "task:running", "task:waiting_local_directory"}
    <2>1. \/ pending' = [pending EXCEPT ![s] = Patch(q, LAMBDA p : Progress(n, "running", p))]
          \/ pending' = [pending EXCEPT ![s] = Patch(q, LAMBDA p : Progress(n, "waiting_local_directory", p))]
      <3>1. CASE k \in {"task:dispatch", "task:running"}
        BY <1>1, <3>1 DEF Handle, q
      <3>2. CASE k = "task:waiting_local_directory"
        BY <1>1, <3>2 DEF Handle, q
      <3> QED BY <1>14, <3>1, <3>2
    <2> QED BY <1>13, <1>14, <2>1 DEF InFlight, Ending
  <1> QED BY <1>9, <1>10, <1>11, <1>12, <1>14 DEF Kinds

LEMMA PillInit == Init => PillInv
  <1> SUFFICES ASSUME Init PROVE PillInv
    OBVIOUS
  <1>1. WirePills
    BY DEF Init, WirePills
  <1>2. ~HasData(Absent) /\ ~Back(Absent)
    BY AbsentIs, QueryIs
  <1>3. \A s \in Sessions : PillOK(s)
    BY <1>2 DEF Init, PillOK
  <1> QED BY <1>1, <1>3 DEF PillInv

LEMMA PillStep ==
  BurstInv /\ ServerInv /\ Keep /\ CacheTyped /\ PillInv /\ [Next]_vars => PillInv'
  <1> SUFFICES ASSUME BurstInv, ServerInv, Keep, CacheTyped, PillInv, [Next]_vars
               PROVE  \A t \in Sessions : PillOK(t)'
    BY WiresStep DEF PillInv
  <1>0. ASSUME UNCHANGED <<pending, task, wire>>,
               \A t \in Sessions : excuse'[t] = "none" =>
                 /\ excuse[t] = "none"
                 /\ \A n \in Sends : call[n].session = t /\ call[n].phase \in {"posted", "stored", "answering"}
                                     => call'[n].phase \in {"posted", "stored", "answering"}
        PROVE  \A t \in Sessions : PillOK(t)'
    <2>1. \A n \in Sends : (Stored(n) => Stored(n)') /\ (Alive(n) => Alive(n)')
      BY <1>0 DEF Stored, Alive
    <2> QED BY <1>0, <2>1, PillsSame
  <1>1. ASSUME NEW c \in Callers, Ask(c) PROVE \A t \in Sessions : PillOK(t)'
    <2>0. call[c].phase = "none" /\ UNCHANGED <<server, net, excuse>>
      BY <1>1 DEF Ask
    <2>1. CASE active = None
      <3>1. UNCHANGED <<pending, task, wire, excuse>> /\ call' = [call EXCEPT ![c].phase = "creating"]
        BY <1>1, <2>0, <2>1 DEF Ask, cache, server, net
      <3>2. \A n \in Sends : call[n].phase \in {"posted", "stored", "answering"} => call'[n] = call[n]
        BY <2>0, <3>1 DEF BurstInv, Calls, Callers
      <3> QED BY <1>0, <3>1, <3>2
    <2>2. CASE active # None
      <3> DEFINE file == c = Upload
      <3>1. /\ Continue(Sending(c), file, active) /\ file \in BOOLEAN /\ active \in Sessions
            /\ Sending(c) \in Seq(Sends)
            /\ Range(Sending(c)) \cup Files(file) = {c}
        BY <1>1, <2>2, SendingIs DEF Ask, BurstInv
      <3> HIDE DEF file
      <3>2. \A d \in Range(Sending(c)) \cup Files(file) : call[d].phase \in {"none", "creating"}
        BY <2>0, <3>1
      <3>3. task' = task /\ UNCHANGED <<net, excuse>>
        BY <2>0 DEF server
      <3> QED BY <3>1, <3>2, <3>3, ContinuePills
    <2> QED BY <2>1, <2>2
  <1>2. ASSUME NEW s \in Sessions, SessionCreated(s) PROVE \A t \in Sessions : PillOK(t)'
    <2>1. /\ creating # <<>> /\ Continue(creating[2], creating[3], s)
          /\ task' = task /\ UNCHANGED <<net, excuse>>
      BY <1>2 DEF SessionCreated
    <2>2. /\ creating[2] \in Seq(Sends) /\ creating[3] \in BOOLEAN
          /\ Waiting = Range(creating[2]) \cup Files(creating[3])
      BY <2>1 DEF BurstInv, Creations, Waiting
    <2>3. \A c \in Waiting : call[c].phase \in {"none", "creating"}
      <3>1. Waiting \subseteq Callers
        BY <2>2, RangeIn DEF Callers, Files
      <3> QED BY <3>1 DEF BurstInv
    <2> QED BY <2>1, <2>2, <2>3, ContinuePills
  <1>3. CASE CreationFails
    <2>1. /\ UNCHANGED <<pending, task, wire, excuse>>
          /\ \A c \in Callers : call[c].phase # "creating" => call'[c] = call[c]
      BY <1>3 DEF CreationFails, cache, server, net
    <2> QED BY <1>0, <2>1 DEF Callers
  <1>4. ASSUME NEW n \in Sends, PostFails(n) PROVE \A t \in Sessions : PillOK(t)'
    <2>1. PICK s \in Sessions : s = call[n].session
      BY <1>4 DEF PostFails, ServerInv, SessionsKnown, Underway, Callers
    <2>2. /\ UNCHANGED <<pending, task, wire>> /\ Excuse(s, "both")
          /\ call' = [call EXCEPT ![n].phase = "failed"]
      BY <1>4, <2>1 DEF PostFails, cache, server, net
    <2>3. /\ excuse'[s] = "both" /\ \A t \in Sessions : excuse'[t] = "none" => excuse[t] = "none"
          /\ \A m \in Sends : m # n => call'[m] = call[m]
      BY <2>2 DEF Excuse, ServerInv, ServerTyped, BurstInv, Calls, Callers
    <2> QED BY <1>0, <2>1, <2>2, <2>3
  <1>5. CASE Stop
    <2>1. /\ active \in Sessions /\ pending' = [pending EXCEPT ![active] = SetData(@, NoPill)]
          /\ UNCHANGED <<call, task, wire, excuse>>
      BY <1>5 DEF Stop, IsRunning, BurstInv, client, server, net
    <2>2. \A t \in Sessions : Named(t) \subseteq Named(t)' /\ Expected(t) \subseteq Expected(t)'
      BY <2>1, ServerSamePills, ExpectedGrow
    <2>3. pending[active] \in Query(PillValue) /\ NoPill \in PillValue
      <3>1. pending[active] \in Query(PillValue)
        BY <2>1 DEF CacheTyped
      <3>2. NoPill \in PillValue
        BY DEF PillValue
      <3> QED BY <3>1, <3>2
    <2>4. pending'[active] = SetData(pending[active], NoPill)
      BY <2>1 DEF CacheTyped
    <2>5. PICK s \in Sessions : s = active
      BY <2>1
    <2>6. PillOK(s)'
      BY <2>3, <2>4, <2>5, PillWritten DEF Good
    <2> QED BY <2>1, <2>2, <2>5, <2>6, OnePill
  <1>6. CASE \/ \E s \in Sessions : SelectSession(s)
             \/ NewChat
             \/ \E a \in Agents : SelectAgent(a)
    BY <1>6, ActivatePills DEF SelectSession, NewChat, SelectAgent
  <1>7. CASE UNCHANGED vars
    BY <1>0, <1>7 DEF vars, client, cache, server, net
  <1>8. CASE \/ \E n \in Sends : AnswerLands(n) \/ ServerStores(n) \/ ServerAnnounces(n)
             \/ \E n \in Sends, s \in Sessions : OtherDeviceSends(n, s)
             \/ \E n \in Sends, m \in Moves : ServerMoves(n, m)
    BY <1>8, AnswerPills, ServerPills, MovesPills
  <1>9. CASE Deliver \/ Drop \/ Reconnect
    BY <1>9, DeliverPills, SocketPills
  <1>10. CASE \E s \in Sessions : FetchMessages(s) \/ FetchPending(s) \/ FetchFails(s)
    BY <1>10, FetchPills
  <1> QED BY <1>1, <1>2, <1>3, <1>4, <1>5, <1>6, <1>7, <1>8, <1>9, <1>10 DEF Next

-----------------------------------------------------------------------------
(* The invariant of the window, and the theorems that rest on it.          *)
ChatInv == BurstInv /\ ServerInv /\ CacheTyped /\ RowsInv /\ FreshInv /\ PillInv

LEMMA ChatInvHolds == Spec => []ChatInv
  <1>1. Init => ChatInv
    BY BurstInvInit, ServerInit, RowsInit, FreshInit, PillInit DEF ChatInv
  <1>2. ChatInv /\ [Next]_vars => ChatInv'
    BY BurstStep, ServerStep, ForwardStep, RowsStep, FreshStep, PillStep DEF ChatInv
  <1> QED BY <1>1, <1>2, PTL DEF Spec

(* Whatever the order of events, answers, switches and faults, the agent,  *)
(* the session and the two caches of the window keep their types.          *)
THEOREM TypeCorrect == Spec => []TypeOK
  <1>1. ASSUME BurstInv, CacheTyped PROVE TypeOK
    <2>1. ASSUME NEW s \in Sessions PROVE IsQuery(pending[s], LAMBDA v : v \in PillValue)
      <3> DEFINE q == pending[s]
      <3>1. q \in Query(PillValue)
        BY <1>1 DEF CacheTyped
      <3>2. /\ DOMAIN q = {"data", "stale", "fetch", "owed"} /\ {q.stale, q.owed} \subseteq BOOLEAN
            /\ q.data = <<>> \/ (Len(q.data) = 1 /\ q.data[1] \in PillValue)
        BY <3>1 DEF Query
      <3>3. Idle(q) \/ Sent(q) \/ (Back(q) /\ q.fetch[1] = "back" /\ q.fetch[2] \in PillValue)
        <4>1. q.fetch \in {<<>>, <<"sent">>} \cup {<<"back", v>> : v \in PillValue}
          BY <3>1 DEF Query
        <4> QED BY <4>1 DEF Idle, Sent, Back
      <3> HIDE DEF q
      <3>4. IsQuery(q, LAMBDA v : v \in PillValue)
        BY <3>2, <3>3 DEF IsQuery
      <3> QED BY <3>4 DEF q
    <2>2. \A s \in Sessions : Range(Shown(s)) \subseteq MessageId
      BY <1>1, DataOfIs, RangeIn DEF Shown
    <2> QED BY <1>1, <2>1, <2>2 DEF TypeOK, BurstInv, Calls
  <1>2. ChatInv => TypeOK
    BY <1>1 DEF ChatInv
  <1> QED BY <1>2, ChatInvHolds, PTL

(* No session ever lists a message twice or beside its optimistic stand-in *)
(* (applyChatDoneToCache appends the reply only if no fetch brought it).   *)
THEOREM EachShownOnce == Spec => []ShownOnce
  <1>1. ChatInv => ShownOnce
    BY DEF ChatInv, RowsInv, RowsOK, Distinct, ShownOnce, Shown
  <1> QED BY <1>1, ChatInvHolds, PTL

(* Once the open session is quiet, its list is the server's, row for row,  *)
(* unless a POST failed, events were lost with the socket, or an           *)
(* invalidation met a first fetch that the server had answered.            *)
THEOREM ShowsTheServers == Spec => []MessagesConverge
  <1>1. ASSUME ChatInv, NEW s \in Sessions, Quiet(s), Settled(messages[s]), ~messages[s].owed,
               excuse[s] # "both"
        PROVE  Shown(s) = log[s]
    <2>1. Range(wire) = {}
      BY <1>1, RangeOfNone DEF Quiet
    <2>2. ~Announced(s)
      BY <1>1, <2>1 DEF Quiet, Announced, Owing
    <2> QED BY <1>1, <2>2 DEF ChatInv, FreshInv, Fresh, Settled, Shown
  <1>2. ChatInv => MessagesConverge
    BY <1>1 DEF MessagesConverge
  <1> QED BY <1>2, ChatInvHolds, PTL

(* Once the open session is quiet, its pill names a task in flight or is   *)
(* gone, unless a POST failed or was answered after its task had ended, or *)
(* as above: no pill is left for a task that is over.                      *)
THEOREM PillNamesATask == Spec => []PillExplained
  <1>1. ASSUME ChatInv, NEW s \in Sessions, Quiet(s), Settled(pending[s]), ~pending[s].owed,
               excuse[s] = "none"
        PROVE  PillOf(s) = NoPill \/ \E n \in InFlightOf(s) : PillOf(s)[1] = Task(n)
    <2>1. Good(DataOf(pending[s]), Named(s), Expected(s)) /\ DataOf(pending[s]) = PillOf(s)
      BY <1>1 DEF ChatInv, PillInv, PillOK, Settled, DataOf, PillOf
    <2>2. Expected(s) = {}
      BY <1>1 DEF Quiet, Expected
    <2>3. Range(wire) = {}
      BY <1>1, RangeOfNone DEF Quiet
    <2>4. \A n \in Named(s) : n \in InFlightOf(s)
      BY <1>1, <2>3 DEF Named, Alive, InFlightOf, ChatInv, ServerInv, CallsKnown
    <2> QED BY <2>1, <2>2, <2>4 DEF Good
  <1>2. ChatInv => PillExplained
    BY <1>1 DEF PillExplained
  <1> QED BY <1>2, ChatInvHolds, PTL
=============================================================================
