------------------------ MODULE IssueTimelineProofs ------------------------
(***************************************************************************)
(* What the comment timeline keeps, for every set of comments, of threads  *)
(* of any depth and of operations: TypeCorrect and TimelineConverges.      *)
(*                                                                         *)
(* The second rests on the invariant IInv, in three parts: what the server *)
(* has and the events on the wire tell one story (WireInv, NotBorn,        *)
(* BornOnce); the answer under way, and the list of a timeline that is     *)
(* neither written nor fetched, need only those events to be what the      *)
(* server has (DataGood, in Told); and each step appends an event, takes   *)
(* one off, or puts a list in the place of another.                        *)
(***************************************************************************)
EXTENDS IssueTimeline, TLAPS

-----------------------------------------------------------------------------
(* The query.                                                              *)
Query(V) == [data : {<<>>} \cup {<<v>> : v \in V}, stale : BOOLEAN,
             fetch : {<<>>, <<"sent">>} \cup {<<"back", v>> : v \in V}, owed : BOOLEAN]

LEMMA QueryIs ==
  ASSUME NEW V, NEW q \in Query(V)
  PROVE  /\ q.data = <<>> \/ (q.data = <<q.data[1]>> /\ q.data[1] \in V)
         /\ HasData(q) <=> q.data # <<>>
         /\ Idle(q) \/ Sent(q) \/ (Back(q) /\ q.fetch = <<"back", q.fetch[2]>> /\ q.fetch[2] \in V)
         /\ Back(q) => ~Idle(q) /\ ~Sent(q)
         /\ Sent(q) => ~Idle(q)
         /\ q.stale \in BOOLEAN /\ q.owed \in BOOLEAN
         /\ DOMAIN q = {"data", "stale", "fetch", "owed"}
  <1>1. q.data \in {<<>>} \cup {<<v>> : v \in V} /\ q.fetch \in {<<>>, <<"sent">>} \cup {<<"back", v>> : v \in V}
    BY DEF Query
  <1>2. /\ q.data = <<>> \/ (q.data = <<q.data[1]>> /\ q.data[1] \in V)
        /\ HasData(q) <=> q.data # <<>>
    BY <1>1 DEF HasData
  <1>3. q.stale \in BOOLEAN /\ q.owed \in BOOLEAN /\ DOMAIN q = {"data", "stale", "fetch", "owed"}
    BY DEF Query
  <1>4. CASE q.fetch = <<>>
    BY <1>2, <1>3, <1>4 DEF Idle, Sent, Back
  <1>5. CASE q.fetch = <<"sent">>
    BY <1>2, <1>3, <1>5 DEF Idle, Sent, Back
  <1>6. CASE \E v \in V : q.fetch = <<"back", v>>
    BY <1>2, <1>3, <1>6 DEF Idle, Sent, Back
  <1> QED BY <1>1, <1>4, <1>5, <1>6

(* The fetch goes on, and a write that meets its answer is remembered.     *)
Meets(r, q) ==
  /\ r.fetch = q.fetch /\ (Idle(r) <=> Idle(q)) /\ (Sent(r) <=> Sent(q)) /\ (Back(r) <=> Back(q))
  /\ q.owed => r.owed
  /\ Back(r) => r.owed

LEMMA SetDataIs ==
  ASSUME NEW V, NEW q \in Query(V), NEW v \in V
  PROVE  LET r == SetData(q, v)
         IN  /\ r \in Query(V) /\ HasData(r) /\ r.data[1] = v /\ ~r.stale /\ Meets(r, q)
  <1> DEFINE r == SetData(q, v)
  <1>1. /\ r \in Query(V) /\ r.data = <<v>> /\ r.stale = FALSE /\ r.fetch = q.fetch /\ (r.owed <=> q.owed \/ Back(q))
    BY DEF SetData, Query, Back
  <1> HIDE DEF r
  <1> QED BY <1>1 DEF HasData, Meets, Idle, Sent, Back, r

(* An updater that finds no list.                                          *)
LEMMA NothingPatched ==
  ASSUME NEW V, NEW q \in Query(V)
  PROVE  LET r == [q EXCEPT !.owed = @ \/ Back(q)]
         IN  r \in Query(V) /\ r.data = q.data /\ r.stale = q.stale /\ Meets(r, q)
  <1> DEFINE r == [q EXCEPT !.owed = @ \/ Back(q)]
  <1>1. r \in Query(V) /\ r.data = q.data /\ r.stale = q.stale /\ r.fetch = q.fetch /\ (r.owed <=> q.owed \/ Back(q))
    BY DEF Query, Back
  <1> HIDE DEF r
  <1> QED BY <1>1 DEF Meets, Idle, Sent, Back, r

LEMMA FlagIs ==
  ASSUME NEW V, NEW q \in Query(V)
  PROVE  LET r == Flag(q)
         IN  /\ r \in Query(V) /\ r.data = q.data /\ (HasData(r) <=> HasData(q)) /\ Meets(r, q)
             /\ HasData(q) => r.stale
  <1> DEFINE r == [q EXCEPT !.stale = TRUE, !.owed = @ \/ Back(q)]
  <1>1. r \in Query(V) /\ r.data = q.data /\ r.stale = TRUE /\ r.fetch = q.fetch /\ (r.owed <=> q.owed \/ Back(q))
    BY DEF Query, Back
  <1> HIDE DEF r
  <1>2. CASE q # Absent
    <2>1. Flag(q) = r
      BY <1>2 DEF Flag, r
    <2> QED BY <1>1, <2>1 DEF Meets, Idle, Sent, Back, HasData
  <1>3. CASE q = Absent
    <2>1. q.data = <<>> /\ q.fetch = <<>>
      BY <1>3 DEF Absent
    <2>2. Flag(q) = q /\ ~HasData(q) /\ Idle(q) /\ ~Back(q)
      BY <1>3, <2>1, QueryIs DEF Flag, HasData, Idle
    <2> QED BY <2>2 DEF Meets
  <1> QED BY <1>2, <1>3

(* invalidateQueries, of the timeline on the screen and of a closed one.   *)
LEMMA InvalidateIs ==
  ASSUME NEW V, NEW q \in Query(V)
  PROVE  /\ LET r == Invalidate(q, TRUE)
            IN  r \in Query(V) /\ r.data = q.data /\ ~Idle(r) /\ (Back(r) => r.owed) /\ (HasData(r) <=> HasData(q))
         /\ HasData(q) =>
              LET r == Invalidate(q, FALSE)
              IN  r \in Query(V) /\ r.data = q.data /\ HasData(r) /\ r.stale /\ Meets(r, q)
  <1>1. LET r == Invalidate(q, TRUE)
        IN  r \in Query(V) /\ r.data = q.data /\ ~Idle(r) /\ (Back(r) => r.owed) /\ (HasData(r) <=> HasData(q))
    <2> DEFINE r == Invalidate(q, TRUE)
    <2>1. CASE HasData(q) \/ Idle(q)
      <3>1. r = [q EXCEPT !.stale = TRUE, !.fetch = <<"sent">>, !.owed = FALSE]
        BY <2>1 DEF Invalidate, Refetch, Query
      <3>2. r \in Query(V) /\ r.data = q.data /\ Sent(r)
        BY <3>1 DEF Query, Sent
      <3> HIDE DEF r
      <3> QED BY <3>2, QueryIs DEF HasData, r
    <2>2. CASE ~(HasData(q) \/ Idle(q))
      <3>1. r = [q EXCEPT !.stale = TRUE, !.owed = q.owed \/ Back(q)]
        BY <2>2 DEF Invalidate
      <3>2. r \in Query(V) /\ r.data = q.data /\ r.fetch = q.fetch /\ (r.owed <=> q.owed \/ Back(q))
        BY <3>1 DEF Query, Back
      <3> HIDE DEF r
      <3> QED BY <2>2, <3>2 DEF Idle, Back, HasData, r
    <2> QED BY <2>1, <2>2
  <1>2. ASSUME HasData(q)
        PROVE  LET r == Invalidate(q, FALSE)
               IN  r \in Query(V) /\ r.data = q.data /\ HasData(r) /\ r.stale /\ Meets(r, q)
    <2> DEFINE r == [q EXCEPT !.stale = TRUE, !.owed = @ \/ Back(q)]
    <2>1. r \in Query(V) /\ r.data = q.data /\ r.stale = TRUE /\ r.fetch = q.fetch /\ (r.owed <=> q.owed \/ Back(q))
      BY DEF Query, Back
    <2>2. q # Absent
      BY <1>2 DEF Absent, HasData
    <2>3. Invalidate(q, FALSE) = r
      BY <1>2, <2>2 DEF Invalidate
    <2> HIDE DEF r
    <2> QED BY <1>2, <2>1, <2>3 DEF Meets, Idle, Sent, Back, HasData
  <1> QED BY <1>1, <1>2

LEMMA MountIs ==
  ASSUME NEW V, NEW q \in Query(V)
  PROVE  LET r == Mount(q)
         IN  /\ r \in Query(V) /\ r.data = q.data /\ (HasData(r) <=> HasData(q))
             /\ Sent(r) \/ (r = q /\ (Idle(q) => HasData(q) /\ ~q.stale))
  <1>1. CASE Idle(q) /\ (q.stale \/ ~HasData(q))
    <2> DEFINE r == Mount(q)
    <2>1. r = [q EXCEPT !.fetch = <<"sent">>, !.owed = FALSE]
      BY <1>1 DEF Mount, Refetch
    <2>2. r \in Query(V) /\ r.data = q.data /\ Sent(r)
      BY <2>1 DEF Query, Sent
    <2> HIDE DEF r
    <2> QED BY <2>2 DEF HasData, r
  <1>2. CASE ~(Idle(q) /\ (q.stale \/ ~HasData(q)))
    BY <1>2, QueryIs DEF Mount
  <1> QED BY <1>1, <1>2

LEMMA CancelIs ==
  ASSUME NEW V, NEW q \in Query(V)
  PROVE  Cancel(q) \in Query(V) /\ Cancel(q).data = q.data /\ Idle(Cancel(q)) /\ (HasData(Cancel(q)) <=> HasData(q))
  BY DEF Cancel, Query, Idle, HasData

LEMMA FetchIs ==
  ASSUME NEW V, NEW q \in Query(V), NEW v \in V
  PROVE  /\ Answer(q, v) \in Query(V) /\ Answer(q, v).data = q.data /\ ~Idle(Answer(q, v))
         /\ Answer(q, v).fetch[2] = v /\ Answer(q, v).owed = q.owed
         /\ Fail(q) \in Query(V) /\ Fail(q).data = q.data /\ ~Back(Fail(q))
  <1>1. /\ Answer(q, v) \in Query(V) /\ Answer(q, v).data = q.data
        /\ Answer(q, v).fetch[2] = v /\ Answer(q, v).owed = q.owed /\ ~Idle(Answer(q, v))
    BY DEF Answer, Query, Idle
  <1>2. Fail(q) \in Query(V) /\ Fail(q).data = q.data /\ Idle(Fail(q))
    BY DEF Fail, Query, Idle
  <1> QED BY <1>1, <1>2, QueryIs

LEMMA LandIs ==
  ASSUME NEW V, NEW q \in Query(V), Back(q)
  PROVE  LET r == Land(q)
         IN  r \in Query(V) /\ HasData(r) /\ r.data[1] = q.fetch[2] /\ r.owed = q.owed /\ ~Back(r) /\ Idle(r)
  <1> DEFINE r == Land(q)
  <1>1. q.fetch[2] \in V
    BY QueryIs
  <1>2. r \in Query(V) /\ r.data = <<q.fetch[2]>> /\ r.owed = q.owed /\ Idle(r)
    BY <1>1 DEF Land, Query, Idle
  <1> HIDE DEF r
  <1> QED BY <1>2, QueryIs DEF HasData, r


-----------------------------------------------------------------------------
(* Lists of comments.                                                      *)
LEMMA TimelinesAre ==
  ASSUME NEW f
  PROVE  f \in Timelines <=> /\ f = [c \in DOMAIN f |-> f[c]] /\ DOMAIN f \subseteq Comments
                             /\ \A c \in DOMAIN f : f[c] \in Entry
  <1>1. ASSUME f \in Timelines
        PROVE  f = [c \in DOMAIN f |-> f[c]] /\ DOMAIN f \subseteq Comments /\ \A c \in DOMAIN f : f[c] \in Entry
    <2>1. PICK S \in SUBSET Comments : f \in [S -> Entry]
      BY <1>1 DEF Timelines
    <2> QED BY <2>1
  <1>2. ASSUME f = [c \in DOMAIN f |-> f[c]], DOMAIN f \subseteq Comments, \A c \in DOMAIN f : f[c] \in Entry
        PROVE  f \in Timelines
    <2>1. f \in [DOMAIN f -> Entry] /\ DOMAIN f \in SUBSET Comments
      BY <1>2
    <2> QED BY <2>1 DEF Timelines
  <1> QED BY <1>1, <1>2

LEMMA EntryIs ==
  ASSUME NEW e \in Entry
  PROVE  /\ New \in Entry /\ New.text = "first" /\ New.resolved = FALSE /\ New.liked = FALSE
         /\ [e EXCEPT !.text = "edited"] \in Entry /\ [e EXCEPT !.text = "edited"].liked = e.liked
         /\ [e EXCEPT !.resolved = TRUE] \in Entry /\ [e EXCEPT !.resolved = TRUE].liked = e.liked
         /\ \A b \in BOOLEAN : LET r == [e EXCEPT !.liked = b]
                               IN  r \in Entry /\ r.liked = b /\ r.text = e.text /\ r.resolved = e.resolved
         /\ LET r == [e EXCEPT !.liked = ~@]
            IN  r \in Entry /\ r.text = e.text /\ r.resolved = e.resolved
  <1>1. New \in Entry /\ New.text = "first" /\ New.resolved = FALSE /\ New.liked = FALSE
    BY DEF Entry, New
  <1>2. [e EXCEPT !.text = "edited"] \in Entry /\ [e EXCEPT !.text = "edited"].liked = e.liked
    BY DEF Entry
  <1>3. [e EXCEPT !.resolved = TRUE] \in Entry /\ [e EXCEPT !.resolved = TRUE].liked = e.liked
    BY DEF Entry
  <1>4. ASSUME NEW b \in BOOLEAN
        PROVE  LET r == [e EXCEPT !.liked = b]
               IN  r \in Entry /\ r.liked = b /\ r.text = e.text /\ r.resolved = e.resolved
    BY DEF Entry
  <1>5. LET r == [e EXCEPT !.liked = ~@]
        IN  r \in Entry /\ r.text = e.text /\ r.resolved = e.resolved
    BY DEF Entry
  <1> QED BY <1>1, <1>2, <1>3, <1>4, <1>5

LEMMA EntriesEqual ==
  ASSUME NEW e \in Entry, NEW s \in Entry, e.text = s.text, e.resolved = s.resolved, e.liked = s.liked
  PROVE  e = s
  BY DEF Entry

LEMMA WithIs ==
  ASSUME NEW f \in Timelines, NEW c \in Comments, NEW e \in Entry
  PROVE  LET r == With(f, c, e)
         IN  /\ r \in Timelines /\ DOMAIN r = DOMAIN f \cup {c} /\ r[c] = e
             /\ \A d \in DOMAIN f : d # c => r[d] = f[d]
  <1> DEFINE r == With(f, c, e)
  <1>1. DOMAIN f \subseteq Comments /\ \A d \in DOMAIN f : f[d] \in Entry
    BY TimelinesAre
  <1>2. DOMAIN r = DOMAIN f \cup {c} /\ \A d \in DOMAIN r : r[d] = IF d = c THEN e ELSE f[d]
    BY DEF With
  <1>3. r = [d \in DOMAIN r |-> r[d]]
    BY DEF With
  <1> HIDE DEF r
  <1>4. DOMAIN r \subseteq Comments /\ \A d \in DOMAIN r : r[d] \in Entry
    BY <1>1, <1>2
  <1>5. r \in Timelines
    BY <1>3, <1>4, TimelinesAre
  <1> QED BY <1>2, <1>5 DEF r

LEMMA WithoutIs ==
  ASSUME NEW f \in Timelines, NEW S \in SUBSET Comments
  PROVE  LET r == Without(f, S)
         IN  r \in Timelines /\ DOMAIN r = DOMAIN f \ S /\ \A d \in DOMAIN r : r[d] = f[d]
  <1> DEFINE r == Without(f, S)
  <1>1. DOMAIN f \subseteq Comments /\ \A d \in DOMAIN f : f[d] \in Entry
    BY TimelinesAre
  <1>2. DOMAIN r = DOMAIN f \ S /\ \A d \in DOMAIN r : r[d] = f[d]
    BY DEF Without
  <1>3. r = [d \in DOMAIN r |-> r[d]]
    BY DEF Without
  <1> HIDE DEF r
  <1>4. DOMAIN r \subseteq Comments /\ \A d \in DOMAIN r : r[d] \in Entry
    BY <1>1, <1>2
  <1>5. r \in Timelines
    BY <1>3, <1>4, TimelinesAre
  <1> QED BY <1>2, <1>5 DEF r

(* Change, with the new value of the entry in place of the update.         *)
Put(f, c, e) == IF c \in DOMAIN f THEN [f EXCEPT ![c] = e] ELSE f

LEMMA PutIs ==
  ASSUME NEW f \in Timelines, NEW c, NEW e, c \in DOMAIN f => e \in Entry
  PROVE  LET r == Put(f, c, e)
         IN  /\ r \in Timelines /\ DOMAIN r = DOMAIN f
             /\ c \in DOMAIN f => r[c] = e
             /\ \A d \in DOMAIN f : d # c => r[d] = f[d]
  <1> DEFINE r == Put(f, c, e)
  <1>1. f = [d \in DOMAIN f |-> f[d]] /\ DOMAIN f \subseteq Comments /\ \A d \in DOMAIN f : f[d] \in Entry
    BY TimelinesAre
  <1>2. /\ DOMAIN r = DOMAIN f /\ (c \in DOMAIN f => r[c] = e)
        /\ \A d \in DOMAIN f : d # c => r[d] = f[d]
        /\ r = [d \in DOMAIN f |-> r[d]]
    <2>1. CASE c \in DOMAIN f
      BY <1>1, <2>1 DEF Put
    <2>2. CASE c \notin DOMAIN f
      BY <1>1, <2>2 DEF Put
    <2> QED BY <2>1, <2>2
  <1> HIDE DEF r
  <1>3. DOMAIN r \subseteq Comments /\ \A d \in DOMAIN r : r[d] \in Entry
    BY <1>1, <1>2
  <1>4. r = [d \in DOMAIN r |-> r[d]]
    BY <1>2
  <1>5. r \in Timelines
    BY <1>3, <1>4, TimelinesAre
  <1> QED BY <1>2, <1>5 DEF r

Acts == {"create", "edit", "resolve", "react", "delete"}

(* What the operations make of a list.                                     *)
LEMMA ApplyIs ==
  ASSUME NEW kind \in Acts, NEW c \in Comments, NEW f \in Timelines
  PROVE  LET r == Apply(kind, c, f)
         IN  /\ r \in Timelines
             /\ kind = "create" => DOMAIN r = DOMAIN f \cup {c} /\ r[c] = New
             /\ kind = "delete" => DOMAIN r = DOMAIN f \ Cascade(f, c)
             /\ kind # "create" /\ kind # "delete" => DOMAIN r = DOMAIN f
             /\ kind = "react" /\ c \in DOMAIN f => r[c].text = f[c].text /\ r[c].resolved = f[c].resolved
             /\ \A d \in DOMAIN r : d \in DOMAIN f /\ (d # c \/ kind = "delete") => r[d] = f[d]
  <1> DEFINE r == Apply(kind, c, f)
  <1>0. New \in Entry
    BY DEF New, Entry
  <1>1. CASE kind = "create"
    <2>1. r = With(f, c, New)
      BY <1>1 DEF Apply
    <2> HIDE DEF r
    <2> QED BY <1>0, <1>1, <2>1, WithIs DEF r
  <1>2. CASE kind = "delete"
    <2>1. r = Without(f, Cascade(f, c))
      BY <1>2 DEF Apply
    <2> HIDE DEF r
    <2> DEFINE S == Cascade(f, c)
    <2>3. r = Without(f, S)
      BY <2>1
    <2>5. DOMAIN f \subseteq Comments
      BY TimelinesAre
    <2>6. S \in SUBSET Comments
      BY <2>5 DEF Cascade
    <2> HIDE DEF S
    <2>4. r \in Timelines /\ DOMAIN r = DOMAIN f \ S /\ \A d \in DOMAIN r : r[d] = f[d]
      BY <2>3, <2>6, WithoutIs
    <2>2. r \in Timelines /\ DOMAIN r = DOMAIN f \ Cascade(f, c) /\ \A d \in DOMAIN r : r[d] = f[d]
      BY <2>4 DEF S
    <2> QED BY <1>2, <2>2 DEF r
  <1>3. CASE kind = "edit"
    <2> DEFINE e == [f[c] EXCEPT !.text = "edited"]
    <2>1. r = Put(f, c, e)
      BY <1>3 DEF Apply, Change, Put
    <2>2. c \in DOMAIN f => e \in Entry
      BY TimelinesAre, EntryIs
    <2> HIDE DEF r, e
    <2> QED BY <1>3, <2>1, <2>2, PutIs DEF r
  <1>4. CASE kind = "resolve"
    <2> DEFINE e == [f[c] EXCEPT !.resolved = TRUE]
    <2>1. r = Put(f, c, e)
      BY <1>4 DEF Apply, Change, Put
    <2>2. c \in DOMAIN f => e \in Entry
      BY TimelinesAre, EntryIs
    <2> HIDE DEF r, e
    <2> QED BY <1>4, <2>1, <2>2, PutIs DEF r
  <1>5. CASE kind = "react"
    <2> DEFINE e == [f[c] EXCEPT !.liked = ~@]
    <2>1. r = Put(f, c, e)
      BY <1>5 DEF Apply, Change, Put
    <2>2. c \in DOMAIN f => f[c] \in Entry
      BY TimelinesAre
    <2>3. c \in DOMAIN f => e \in Entry /\ e.text = f[c].text /\ e.resolved = f[c].resolved
      BY <2>2, EntryIs
    <2> HIDE DEF r, e
    <2> QED BY <1>5, <2>1, <2>3, PutIs DEF r
  <1> QED BY <1>1, <1>2, <1>3, <1>4, <1>5 DEF Acts

-----------------------------------------------------------------------------
(* The comment a and the replies to it, by way of comments in K.           *)
Least(K, a) == {c \in Comments : \A S \in SUBSET Comments :
                  a \in S /\ (\A x \in K : Parent[x] \in S => x \in S) => c \in S}
Under(a) == Least(Comments, a)

LEMMA LeastIs ==
  ASSUME NEW K \in SUBSET Comments, NEW a \in Comments
  PROVE  /\ Least(K, a) \in SUBSET Comments /\ a \in Least(K, a)
         /\ \A x \in K : Parent[x] \in Least(K, a) => x \in Least(K, a)
  BY DEF Least

LEMMA LeastHolds ==
  ASSUME NEW K \in SUBSET Comments, NEW a \in Comments, NEW S \in SUBSET Comments,
         a \in S, \A x \in K : Parent[x] \in S => x \in S
  PROVE  Least(K, a) \subseteq S
  BY DEF Least

LEMMA LeastGrows ==
  ASSUME NEW K \in SUBSET Comments, NEW a \in Comments, NEW L \in SUBSET Comments, K \subseteq L
  PROVE  Least(K, a) \subseteq Least(L, a)
  <1>1. /\ Least(L, a) \in SUBSET Comments /\ a \in Least(L, a)
        /\ \A x \in L : Parent[x] \in Least(L, a) => x \in Least(L, a)
    BY LeastIs
  <1> QED BY <1>1, LeastHolds

LEMMA LeastSteps ==
  ASSUME NEW K \in SUBSET Comments, NEW a \in Comments, NEW c \in Least(K, a), c # a
  PROVE  c \in K /\ Parent[c] \in Least(K, a)
  <1>1. /\ Least(K, a) \in SUBSET Comments /\ a \in Least(K, a)
        /\ \A x \in K : Parent[x] \in Least(K, a) => x \in Least(K, a)
    BY LeastIs
  <1>2. SUFFICES ASSUME ~(c \in K /\ Parent[c] \in Least(K, a))
                 PROVE  FALSE
    OBVIOUS
  <1> DEFINE S == Least(K, a) \ {c}
  <1>3. S \in SUBSET Comments /\ a \in S
    BY <1>1
  <1>4. \A x \in K : Parent[x] \in S => x \in S
    BY <1>1, <1>2
  <1> HIDE DEF S
  <1>5. Least(K, a) \subseteq S
    BY <1>3, <1>4, LeastHolds
  <1> QED BY <1>5 DEF S

LEMMA LeastAllIn ==
  ASSUME NEW K \in SUBSET Comments, NEW a \in Comments
  PROVE  Least(K, a) \subseteq K \cup {a}
  BY LeastSteps

(* What is under a comment under a is under a.                             *)
LEMMA UnderIs ==
  ASSUME NEW a \in Comments
  PROVE  /\ Under(a) \in SUBSET Comments /\ a \in Under(a)
         /\ \A x \in Comments : Parent[x] \in Under(a) => x \in Under(a)
         /\ \A x \in Under(a) : x # a => Parent[x] \in Under(a)
         /\ \A b \in Under(a) : Under(b) \subseteq Under(a)
  <1>1. /\ Under(a) \in SUBSET Comments /\ a \in Under(a)
        /\ \A x \in Comments : Parent[x] \in Under(a) => x \in Under(a)
    BY LeastIs DEF Under
  <1>2. \A x \in Under(a) : x # a => Parent[x] \in Under(a)
    BY LeastSteps DEF Under
  <1>3. ASSUME NEW b \in Under(a)
        PROVE  Under(b) \subseteq Under(a)
    <2>1. b \in Comments
      BY <1>1
    <2> QED BY <1>1, <2>1, LeastHolds DEF Under
  <1> QED BY <1>1, <1>2, <1>3

(* The sweep takes what is in the list of the comment and of the replies   *)
(* to it that are reached by way of comments in the list.                  *)
LEMMA CascadeIs ==
  ASSUME NEW f \in Timelines, NEW a \in Comments
  PROVE  Cascade(f, a) = DOMAIN f \cap Least(DOMAIN f, a)
  <1> DEFINE K == DOMAIN f
             swept == {S \in SUBSET (K \cup {a}) : a \in S /\ \A d \in K : Parent[d] \in S => d \in S}
  <1>1. K \in SUBSET Comments
    BY TimelinesAre
  <1>2. Cascade(f, a) = {d \in K : \A S \in swept : d \in S}
    BY DEF Cascade
  <1> HIDE DEF K
  <1>3. ASSUME NEW d \in K, \A S \in swept : d \in S
        PROVE  d \in Least(K, a)
    <2>1. /\ Least(K, a) \in SUBSET Comments /\ a \in Least(K, a)
          /\ \A x \in K : Parent[x] \in Least(K, a) => x \in Least(K, a)
      BY <1>1, LeastIs
    <2>2. Least(K, a) \subseteq K \cup {a}
      BY <1>1, LeastAllIn
    <2>3. Least(K, a) \in swept
      BY <2>1, <2>2
    <2> QED BY <1>3, <2>3
  <1>4. ASSUME NEW d \in K \cap Least(K, a), NEW S \in swept
        PROVE  d \in S
    <2>1. S \in SUBSET Comments
      BY <1>1
    <2>2. Least(K, a) \subseteq S
      BY <1>1, <2>1, LeastHolds
    <2> QED BY <2>2
  <1> HIDE DEF swept
  <1>5. {d \in K : \A S \in swept : d \in S} = K \cap Least(K, a)
    BY <1>3, <1>4
  <1> QED BY <1>2, <1>5 DEF K

Threaded(f) == \A c \in DOMAIN f : Parent[c] \in DOMAIN f \cup {None}

(* In a list that has every comment replied to, the sweep takes all.       *)
LEMMA SweepsAll ==
  ASSUME NEW f \in Timelines, NEW a \in Comments, Threaded(f)
  PROVE  Under(a) \cap DOMAIN f \subseteq Cascade(f, a)
  <1> DEFINE K == DOMAIN f
             S == {c \in Comments : c \in K => c \in Least(K, a)}
  <1>1. K \in SUBSET Comments
    BY TimelinesAre
  <1>2. Cascade(f, a) = K \cap Least(K, a)
    BY CascadeIs
  <1>3. \A c \in K : Parent[c] \in K \cup {None}
    BY DEF Threaded
  <1> HIDE DEF K
  <1>4. a \in S /\ \A x \in Comments : Parent[x] \in S => x \in S
    <2>1. a \in Least(K, a) /\ \A x \in K : Parent[x] \in Least(K, a) => x \in Least(K, a)
      BY <1>1, LeastIs
    <2> QED BY <2>1, <1>3, TimelineAssumption DEF TimelineAssumption
  <1>5. S \in SUBSET Comments
    OBVIOUS
  <1> HIDE DEF S
  <1>6. Under(a) \subseteq S
    BY <1>4, <1>5, LeastHolds DEF Under
  <1> QED BY <1>2, <1>6 DEF S, K

-----------------------------------------------------------------------------
(* Events.                                                                 *)
Event == [kind : Acts, comment : Comments, entry : Entry]

Shown(m, d) ==
  CASE m.kind = "create" -> IF m.comment \in DOMAIN d THEN d ELSE With(d, m.comment, m.entry)
    [] m.kind \in {"edit", "resolve"} -> Put(d, m.comment, m.entry)
    [] m.kind = "react" -> Put(d, m.comment, [d[m.comment] EXCEPT !.liked = m.entry.liked])
    [] m.kind = "delete" -> Without(d, Cascade(d, m.comment))

LEMMA EventIs ==
  ASSUME NEW m \in Event
  PROVE  m.kind \in Acts /\ m.comment \in Comments /\ m.entry \in Entry /\ m.entry.liked \in BOOLEAN
  BY DEF Event, Entry

LEMMA ShownIs ==
  ASSUME NEW m \in Event, NEW d \in Timelines
  PROVE  LET r == Shown(m, d)
             c == m.comment
         IN  /\ r \in Timelines
             /\ m.kind = "create" => DOMAIN r = DOMAIN d \cup {c} /\ (c \notin DOMAIN d => r[c] = m.entry)
             /\ m.kind = "delete" => DOMAIN r = DOMAIN d \ Cascade(d, c)
             /\ m.kind \notin {"create", "delete"} => DOMAIN r = DOMAIN d
             /\ m.kind \in {"edit", "resolve"} /\ c \in DOMAIN d => r[c] = m.entry
             /\ m.kind = "react" /\ c \in DOMAIN d =>
                  r[c].text = d[c].text /\ r[c].resolved = d[c].resolved /\ r[c].liked = m.entry.liked
             /\ \A x \in DOMAIN r : x \in DOMAIN d /\ (x # c \/ m.kind \in {"create", "delete"}) => r[x] = d[x]
  <1> DEFINE r == Shown(m, d)
             c == m.comment
  <1>0. m.kind \in Acts /\ c \in Comments /\ m.entry \in Entry /\ m.entry.liked \in BOOLEAN
    BY EventIs
  <1>1. CASE m.kind = "create" /\ c \in DOMAIN d
    <2>1. r = d
      BY <1>1 DEF Shown
    <2> HIDE DEF r
    <2> QED BY <1>1, <2>1 DEF r
  <1>2. CASE m.kind = "create" /\ c \notin DOMAIN d
    <2>1. r = With(d, c, m.entry)
      BY <1>2 DEF Shown
    <2> HIDE DEF r, c
    <2>2. /\ r \in Timelines /\ DOMAIN r = DOMAIN d \cup {c} /\ r[c] = m.entry
          /\ \A x \in DOMAIN d : x # c => r[x] = d[x]
      BY <1>0, <2>1, WithIs
    <2> QED BY <1>2, <2>2 DEF r, c
  <1>3. CASE m.kind = "delete"
    <2> DEFINE S == Cascade(d, c)
    <2>1. r = Without(d, S)
      BY <1>3 DEF Shown
    <2>2. DOMAIN d \subseteq Comments
      BY TimelinesAre
    <2>3. S \in SUBSET Comments
      BY <2>2 DEF Cascade
    <2> HIDE DEF r, c, S
    <2>4. r \in Timelines /\ DOMAIN r = DOMAIN d \ S /\ \A x \in DOMAIN r : r[x] = d[x]
      BY <2>1, <2>3, WithoutIs
    <2> QED BY <1>3, <2>4 DEF r, c, S
  <1>4. CASE m.kind \in {"edit", "resolve"}
    <2>1. r = Put(d, c, m.entry)
      BY <1>4 DEF Shown
    <2> HIDE DEF r, c
    <2>2. /\ r \in Timelines /\ DOMAIN r = DOMAIN d /\ (c \in DOMAIN d => r[c] = m.entry)
          /\ \A x \in DOMAIN d : x # c => r[x] = d[x]
      BY <1>0, <2>1, PutIs
    <2> QED BY <1>4, <2>2 DEF r, c
  <1>5. CASE m.kind = "react"
    <2> DEFINE e == [d[c] EXCEPT !.liked = m.entry.liked]
    <2>1. r = Put(d, c, e)
      BY <1>5 DEF Shown
    <2>2. c \in DOMAIN d => d[c] \in Entry
      BY TimelinesAre
    <2>3. c \in DOMAIN d =>
            e \in Entry /\ e.text = d[c].text /\ e.resolved = d[c].resolved /\ e.liked = m.entry.liked
      BY <1>0, <2>2 DEF Entry
    <2> HIDE DEF r, c, e
    <2>4. /\ r \in Timelines /\ DOMAIN r = DOMAIN d /\ (c \in DOMAIN d => r[c] = e)
          /\ \A x \in DOMAIN d : x # c => r[x] = d[x]
      BY <2>1, <2>3, PutIs
    <2> QED BY <1>5, <2>3, <2>4 DEF r, c
  <1> QED BY <1>0, <1>1, <1>2, <1>3, <1>4, <1>5 DEF Acts

LEMMA GranularIs ==
  ASSUME NEW q \in Query(Timelines), NEW m \in Event
  PROVE  LET r == Granular(q, m)
         IN  /\ r \in Query(Timelines) /\ Meets(r, q)
             /\ HasData(q) => HasData(r) /\ r.data[1] = Shown(m, q.data[1])
  <1> DEFINE r == Granular(q, m)
             d == q.data[1]
             none == [q EXCEPT !.owed = @ \/ Back(q)]
  <1>0. m.kind \in Acts /\ m.comment \in Comments /\ m.entry \in Entry
    BY EventIs
  <1>1. CASE HasData(q)
    <2>1. d \in Timelines
      BY <1>1, QueryIs
    <2>2. r = SetData(q, Shown(m, d))
      <3>1. CASE m.kind = "create"
        BY <1>1, <3>1 DEF Granular, AddEntry, Patch, Shown
      <3>2. CASE m.kind \in {"edit", "resolve"}
        BY <1>1, <3>2 DEF Granular, Patch, Shown, Change, Put
      <3>3. CASE m.kind = "react"
        BY <1>1, <3>3 DEF Granular, Patch, Shown, Change, Put
      <3>4. CASE m.kind = "delete"
        BY <1>1, <3>4 DEF Granular, Patch, Shown
      <3> QED BY <1>0, <3>1, <3>2, <3>3, <3>4 DEF Acts
    <2>3. Shown(m, d) \in Timelines
      BY <2>1, ShownIs
    <2> HIDE DEF r, d
    <2>4. r \in Query(Timelines) /\ HasData(r) /\ r.data[1] = Shown(m, d) /\ Meets(r, q)
      BY <2>2, <2>3, SetDataIs
    <2> QED BY <2>4 DEF r, d
  <1>2. CASE ~HasData(q) /\ m.kind = "create"
    <2> DEFINE v == [x \in {m.comment} |-> m.entry]
    <2>1. r = SetData(q, v)
      BY <1>2 DEF Granular, AddEntry
    <2>2. v \in Timelines
      BY <1>0, TimelinesAre
    <2> HIDE DEF r, v
    <2>3. r \in Query(Timelines) /\ Meets(r, q)
      BY <2>1, <2>2, SetDataIs
    <2> QED BY <1>2, <2>3 DEF r
  <1>3. CASE ~HasData(q) /\ m.kind # "create"
    <2>1. r = none
      BY <1>0, <1>3 DEF Granular, Patch, Acts
    <2>2. none \in Query(Timelines) /\ Meets(none, q)
      BY NothingPatched
    <2> HIDE DEF r, none
    <2> QED BY <1>3, <2>1, <2>2 DEF r
  <1> QED BY <1>1, <1>2, <1>3

(* What an open timeline is after an event: the handlers in either order.  *)
LEMMA HandledIs ==
  ASSUME NEW q \in Query(Timelines), NEW m \in Event, NEW r, r \in {Flag(Granular(q, m)), Granular(Flag(q), m)}
  PROVE  /\ r \in Query(Timelines) /\ Meets(r, q)
         /\ HasData(q) => HasData(r) /\ r.data[1] = Shown(m, q.data[1])
  <1>1. CASE r = Flag(Granular(q, m))
    <2> DEFINE g == Granular(q, m)
    <2>1. g \in Query(Timelines) /\ Meets(g, q) /\ (HasData(q) => HasData(g) /\ g.data[1] = Shown(m, q.data[1]))
      BY GranularIs
    <2> HIDE DEF g
    <2>2. r = Flag(g)
      BY <1>1 DEF g
    <2>3. r \in Query(Timelines) /\ r.data = g.data /\ (HasData(r) <=> HasData(g)) /\ Meets(r, g)
      BY <2>1, <2>2, FlagIs
    <2> QED BY <2>1, <2>3 DEF Meets
  <1>2. CASE r = Granular(Flag(q), m)
    <2> DEFINE g == Flag(q)
    <2>1. g \in Query(Timelines) /\ g.data = q.data /\ (HasData(g) <=> HasData(q)) /\ Meets(g, q)
      BY FlagIs
    <2> HIDE DEF g
    <2>2. r = Granular(g, m)
      BY <1>2 DEF g
    <2>3. r \in Query(Timelines) /\ Meets(r, g) /\ (HasData(g) => HasData(r) /\ r.data[1] = Shown(m, g.data[1]))
      BY <2>1, <2>2, GranularIs
    <2> QED BY <2>1, <2>3 DEF Meets
  <1> QED BY <1>1, <1>2

-----------------------------------------------------------------------------
(* Types.                                                                  *)
Mutation == [kind : Acts, comment : Comments, phase : {"sent", "committed", "refused", "settled"},
             prev : {<<>>} \cup {<<v>> : v \in Timelines}]

OpsTyped == op = [k \in Ops |-> op[k]] /\ \A k \in Ops : op[k] = NoOp \/ op[k] \in Mutation

Typing ==
  /\ timeline \in Query(Timelines) /\ stored \in Timelines /\ wire \in Seq(Event)
  /\ open \in BOOLEAN /\ order \in {"granular", "global"} /\ conn \in {"up", "down", "again"} /\ gap \in BOOLEAN
  /\ OpsTyped

LEMMA MutationIs ==
  ASSUME NEW o, o = NoOp \/ o \in Mutation
  PROVE  /\ o.kind = "none" <=> o = NoOp
         /\ o.phase = "none" <=> o = NoOp
         /\ o # NoOp => /\ o.kind \in Acts /\ o.comment \in Comments
                        /\ o.phase \in {"sent", "committed", "refused", "settled"}
         /\ o.prev = <<>> \/ (o.prev = <<o.prev[1]>> /\ o.prev[1] \in Timelines)
  <1>1. CASE o = NoOp
    BY <1>1 DEF NoOp
  <1>2. CASE o \in Mutation
    BY <1>2 DEF Mutation, NoOp, Acts
  <1> QED BY <1>1, <1>2

(* An operation takes its next value.                                      *)
LEMMA OpsPut ==
  ASSUME NEW f, f = [k \in Ops |-> f[k]], \A k \in Ops : f[k] = NoOp \/ f[k] \in Mutation,
         NEW k \in Ops, NEW o \in Mutation
  PROVE  LET g == [f EXCEPT ![k] = o]
         IN  /\ g = [j \in Ops |-> g[j]] /\ \A j \in Ops : g[j] = NoOp \/ g[j] \in Mutation
             /\ g[k] = o /\ \A j \in Ops : j # k => g[j] = f[j]
  OBVIOUS

LEMMA OpMoves ==
  ASSUME Typing, NEW k \in Ops, NEW o \in Mutation, op' = [op EXCEPT ![k] = o]
  PROVE  OpsTyped' /\ op'[k] = o /\ \A j \in Ops : j # k => op'[j] = op[j]
  <1>1. op = [j \in Ops |-> op[j]] /\ \A j \in Ops : op[j] = NoOp \/ op[j] \in Mutation
    BY DEF Typing, OpsTyped
  <1>2. /\ op' = [j \in Ops |-> op'[j]] /\ \A j \in Ops : op'[j] = NoOp \/ op'[j] \in Mutation
        /\ op'[k] = o /\ \A j \in Ops : j # k => op'[j] = op[j]
    BY <1>1, OpsPut
  <1> QED BY <1>2 DEF OpsTyped

(* An operation goes to another phase, forgetting what was kept or not.    *)
LEMMA PhaseMoves ==
  ASSUME Typing, NEW k \in Ops, op[k] # NoOp, NEW p \in {"sent", "committed", "refused", "settled"},
         op' = [op EXCEPT ![k].phase = p] \/ op' = [op EXCEPT ![k].phase = p, ![k].prev = <<>>]
  PROVE  /\ OpsTyped' /\ op'[k].kind = op[k].kind /\ op'[k].comment = op[k].comment /\ op'[k].phase = p
         /\ \A j \in Ops : j # k => op'[j] = op[j]
  <1>1. op = [j \in Ops |-> op[j]] /\ op[k] \in Mutation
    BY DEF Typing, OpsTyped
  <1> DEFINE a == [op[k] EXCEPT !.phase = p]
             b == [op[k] EXCEPT !.phase = p, !.prev = <<>>]
  <1>2. /\ a \in Mutation /\ a.kind = op[k].kind /\ a.comment = op[k].comment /\ a.phase = p
        /\ b \in Mutation /\ b.kind = op[k].kind /\ b.comment = op[k].comment /\ b.phase = p
    BY <1>1 DEF Mutation
  <1>3. op' = [op EXCEPT ![k] = a] \/ op' = [op EXCEPT ![k] = b]
    BY <1>1
  <1> HIDE DEF a, b
  <1>4. CASE op' = [op EXCEPT ![k] = a]
    BY <1>2, <1>4, OpMoves
  <1>5. CASE op' = [op EXCEPT ![k] = b]
    BY <1>2, <1>5, OpMoves
  <1> QED BY <1>3, <1>4, <1>5

News(kind, c, f) == [kind |-> kind, comment |-> c, entry |-> IF c \in DOMAIN f THEN f[c] ELSE New]

LEMMA NewsIs ==
  ASSUME NEW kind \in Acts, NEW c \in Comments, NEW f \in Timelines
  PROVE  /\ News(kind, c, f) \in Event /\ News(kind, c, f).kind = kind /\ News(kind, c, f).comment = c
         /\ c \in DOMAIN f => News(kind, c, f).entry = f[c]
         /\ c \notin DOMAIN f => News(kind, c, f).entry = New
  <1>1. c \in DOMAIN f => f[c] \in Entry
    BY TimelinesAre
  <1>2. New \in Entry
    BY DEF New, Entry
  <1>3. (IF c \in DOMAIN f THEN f[c] ELSE New) \in Entry
    BY <1>1, <1>2
  <1> QED BY <1>3 DEF News, Event

(* The server does something and says so, unless the socket is down.       *)
LEMMA ServerActs ==
  ASSUME Typing, NEW kind \in Acts, NEW c \in Comments,
         stored' = Apply(kind, c, stored), Emit(kind, c, stored')
  PROVE  /\ stored' \in Timelines /\ wire' \in Seq(Event) /\ gap' \in BOOLEAN
         /\ gap' = (gap \/ conn = "down")
         /\ conn = "down" => wire' = wire
         /\ conn # "down" => wire' = Append(wire, News(kind, c, stored'))
  <1>1. stored' \in Timelines
    BY ApplyIs DEF Typing
  <1>2. /\ gap' = (gap \/ conn = "down")
        /\ conn = "down" => wire' = wire
        /\ conn # "down" => wire' = Append(wire, News(kind, c, stored'))
    BY DEF Emit, News
  <1>3. News(kind, c, stored') \in Event
    BY <1>1, NewsIs
  <1>4. wire' \in Seq(Event)
    BY <1>2, <1>3 DEF Typing
  <1> QED BY <1>1, <1>2, <1>4 DEF Typing

ShownWhen(k) == IF op[k].phase = "refused" /\ op[k].prev # <<>> THEN SetData(timeline, op[k].prev[1]) ELSE timeline

(* The list that onSettled invalidates, after a rollback or not.           *)
LEMMA RolledBack ==
  ASSUME Typing, NEW k \in Ops
  PROVE  ShownWhen(k) \in Query(Timelines) /\ (HasData(timeline) => HasData(ShownWhen(k)))
  <1>0. timeline \in Query(Timelines) /\ (op[k] = NoOp \/ op[k] \in Mutation)
    BY DEF Typing, OpsTyped
  <1>1. CASE op[k].phase = "refused" /\ op[k].prev # <<>>
    <2>1. op[k].prev[1] \in Timelines
      BY <1>0, <1>1, MutationIs
    <2>2. ShownWhen(k) = SetData(timeline, op[k].prev[1])
      BY <1>1 DEF ShownWhen
    <2> DEFINE v == op[k].prev[1]
    <2> HIDE DEF v
    <2>3. v \in Timelines /\ ShownWhen(k) = SetData(timeline, v)
      BY <2>1, <2>2 DEF v
    <2> QED BY <1>0, <2>3, SetDataIs
  <1>2. CASE ~(op[k].phase = "refused" /\ op[k].prev # <<>>)
    BY <1>0, <1>2 DEF ShownWhen
  <1> QED BY <1>1, <1>2

(* The answer to a create, added to the list that there is or is not.      *)
LEMMA AddEntryIs ==
  ASSUME NEW q \in Query(Timelines), NEW c \in Comments, NEW e \in Entry
  PROVE  LET r == AddEntry(q, c, e)
             d == q.data[1]
         IN  /\ r \in Query(Timelines) /\ HasData(r) /\ Meets(r, q) /\ ~r.stale
             /\ HasData(q) => r.data[1] = IF c \in DOMAIN d THEN d ELSE With(d, c, e)
  <1> DEFINE r == AddEntry(q, c, e)
             d == q.data[1]
  <1>1. CASE HasData(q)
    <2> DEFINE v == IF c \in DOMAIN d THEN d ELSE With(d, c, e)
    <2>1. d \in Timelines
      BY <1>1, QueryIs
    <2>2. v \in Timelines
      BY <2>1, WithIs
    <2>3. r = SetData(q, v)
      BY <1>1 DEF AddEntry, Patch
    <2> HIDE DEF r, v
    <2>4. r \in Query(Timelines) /\ HasData(r) /\ r.data[1] = v /\ ~r.stale /\ Meets(r, q)
      BY <2>2, <2>3, SetDataIs
    <2> QED BY <2>4 DEF r, v
  <1>2. CASE ~HasData(q)
    <2> DEFINE v == [x \in {c} |-> e]
    <2>1. r = SetData(q, v)
      BY <1>2 DEF AddEntry
    <2>2. v \in Timelines
      BY TimelinesAre
    <2> HIDE DEF r, v
    <2>3. r \in Query(Timelines) /\ HasData(r) /\ ~r.stale /\ Meets(r, q)
      BY <2>1, <2>2, SetDataIs
    <2> QED BY <1>2, <2>3 DEF r
  <1> QED BY <1>1, <1>2

(* onMutate: the fetch is cancelled and the list written.                  *)
LEMMA WrittenIs ==
  ASSUME NEW q \in Query(Timelines), NEW kind \in Acts, NEW c \in Comments, HasData(q)
  PROVE  LET r == Patch(Cancel(q), LAMBDA f : Apply(kind, c, f))
         IN  r \in Query(Timelines) /\ HasData(r) /\ Idle(r)
  <1> DEFINE g == Cancel(q)
             v == Apply(kind, c, g.data[1])
             r == Patch(g, LAMBDA f : Apply(kind, c, f))
  <1>1. g \in Query(Timelines) /\ g.data = q.data /\ Idle(g) /\ HasData(g)
    BY CancelIs
  <1>2. g.data[1] \in Timelines
    BY <1>1, QueryIs
  <1>3. v \in Timelines
    BY <1>2, ApplyIs
  <1>4. r = SetData(g, v)
    BY <1>1 DEF Patch
  <1> HIDE DEF g, v, r
  <1>5. r \in Query(Timelines) /\ HasData(r) /\ Meets(r, g)
    BY <1>1, <1>3, <1>4, SetDataIs
  <1> QED BY <1>1, <1>5 DEF Meets, r, g

LEMMA InvalidatedTyped ==
  ASSUME NEW q \in Query(Timelines), NEW observed \in BOOLEAN
  PROVE  Invalidate(q, observed) \in Query(Timelines)
  <1> DEFINE flagged == [q EXCEPT !.stale = TRUE, !.owed = @ \/ Back(q)]
  <1>1. flagged \in Query(Timelines)
    BY DEF Query, Back
  <1>2. Invalidate(q, TRUE) \in Query(Timelines)
    BY InvalidateIs
  <1>3. Invalidate(q, FALSE) \in {q, flagged}
    BY DEF Invalidate
  <1> QED BY <1>1, <1>2, <1>3

LEMMA TypingStart == Init => Typing
  <1> SUFFICES ASSUME Init PROVE Typing
    OBVIOUS
  <1>1. Initial \subseteq Comments
    BY TimelineAssumption DEF TimelineAssumption
  <1>2. stored \in Timelines
    <2>1. New \in Entry
      BY DEF New, Entry
    <2> QED BY <1>1, <2>1, TimelinesAre DEF Init
  <1>3. timeline \in Query(Timelines)
    BY DEF Init, Absent, Query
  <1>4. OpsTyped
    BY DEF Init, OpsTyped
  <1>5. wire \in Seq(Event)
    BY DEF Init
  <1> QED BY <1>2, <1>3, <1>4, <1>5 DEF Init, Typing

LEMMA TypingStep ==
  ASSUME Typing, [Next]_vars
  PROVE  Typing'
  <1> DEFINE T == Query(Timelines)
  <1>0. /\ timeline \in T /\ stored \in Timelines /\ wire \in Seq(Event)
        /\ open \in BOOLEAN /\ order \in {"granular", "global"} /\ conn \in {"up", "down", "again"} /\ gap \in BOOLEAN
        /\ OpsTyped
    BY DEF Typing
  <1>k. Kinds \subseteq Acts
    BY TimelineAssumption DEF TimelineAssumption, Acts
  <1>o. op' = op => OpsTyped'
    BY <1>0 DEF OpsTyped
  <1>1. CASE Open
    <2>1. Mount(timeline) \in T
      BY <1>0, MountIs
    <2> QED BY <1>0, <1>1, <1>o, <2>1 DEF Open, Typing
  <1>2. CASE Close
    BY <1>0, <1>2, <1>o DEF Close, Typing
  <1>3. CASE Deliver
    <2> DEFINE m == wire[1]
    <2>1. m \in Event /\ wire' \in Seq(Event)
      BY <1>0, <1>3 DEF Deliver
    <2> HIDE DEF m
    <2>2. Flag(timeline) \in T
      BY <1>0, FlagIs
    <2>3. timeline' \in {Flag(timeline), Flag(Granular(timeline, m)), Granular(Flag(timeline), m)}
      BY <1>3 DEF Deliver, m
    <2>4. Flag(Granular(timeline, m)) \in T /\ Granular(Flag(timeline), m) \in T
      BY <1>0, <2>1, HandledIs
    <2> QED BY <1>0, <1>3, <1>o, <2>1, <2>2, <2>3, <2>4 DEF Deliver, Typing
  <1>4. CASE Drop
    BY <1>0, <1>4, <1>o DEF Drop, Typing
  <1>5. CASE Reconnect
    <2>1. Invalidate(timeline, TRUE) \in T
      BY <1>0, InvalidateIs
    <2> QED BY <1>0, <1>5, <1>o, <2>1 DEF Reconnect, Typing
  <1>6. CASE Fetch
    <2>1. Answer(timeline, stored) \in T /\ Fail(timeline) \in T
      BY <1>0, FetchIs
    <2>2. Back(timeline) => Land(timeline) \in T
      BY <1>0, LandIs
    <2>3. timeline' \in T /\ gap' \in BOOLEAN
      BY <1>0, <1>6, <2>1, <2>2 DEF Fetch, Orphans
    <2> QED BY <1>0, <1>6, <1>o, <2>3 DEF Fetch, Typing
  <1>7. CASE \E k \in Ops : Settle(k)
    <2> PICK k \in Ops : Settle(k)
      BY <1>7
    <2>1. op[k] # NoOp
      BY DEF Settle, NoOp
    <2>2. OpsTyped'
      BY <2>1, PhaseMoves DEF Settle
    <2>3. gap' \in BOOLEAN
      BY <1>0 DEF Settle, Hides
    <2>4. timeline' \in T
      <3>1. op[k].comment \in Comments /\ New \in Entry
        BY <1>0, <2>1, MutationIs DEF OpsTyped, New, Entry
      <3>2. AddEntry(timeline, op[k].comment, New) \in T
        BY <1>0, <3>1, AddEntryIs
      <3> DEFINE q == ShownWhen(k)
      <3>3. timeline' \in {timeline, AddEntry(timeline, op[k].comment, New), Invalidate(q, open)}
        BY DEF Settle, ShownWhen
      <3>4. q \in T /\ (HasData(timeline) => HasData(q))
        BY RolledBack
      <3> HIDE DEF q
      <3>5. Invalidate(q, open) \in T
        BY <1>0, <3>4, InvalidatedTyped
      <3> QED BY <1>0, <3>2, <3>3, <3>5
    <2> QED BY <1>0, <2>2, <2>3, <2>4 DEF Settle, Typing
  <1>8. CASE \E k \in Ops : Commit(k)
    <2> PICK k \in Ops : Commit(k)
      BY <1>8
    <2>1. op[k] # NoOp
      BY DEF Commit, NoOp
    <2>2. OpsTyped'
      BY <2>1, PhaseMoves DEF Commit
    <2>3. op[k].kind \in Acts /\ op[k].comment \in Comments
      BY <1>0, <2>1, MutationIs DEF OpsTyped
    <2>4. stored' \in Timelines /\ wire' \in Seq(Event) /\ gap' \in BOOLEAN
      BY <2>3, ServerActs DEF Commit
    <2> QED BY <1>0, <2>2, <2>4 DEF Commit, Typing
  <1>9. CASE \E k \in Ops : Refuse(k)
    <2> PICK k \in Ops : Refuse(k)
      BY <1>9
    <2>1. op[k] # NoOp
      BY DEF Refuse, NoOp
    <2>2. OpsTyped'
      BY <2>1, PhaseMoves DEF Refuse
    <2> QED BY <1>0, <2>2 DEF Refuse, Typing
  <1>10. CASE \E k \in Ops, kind \in Kinds, c \in Comments : Mutate(k, kind, c)
    <2> PICK k \in Ops, kind \in Kinds, c \in Comments : Mutate(k, kind, c)
      BY <1>10
    <2> DEFINE o == [kind |-> kind, comment |-> c, phase |-> "sent",
                     prev |-> IF kind \in Optimistic THEN timeline.data ELSE <<>>]
    <2>1. timeline.data = <<>> \/ (timeline.data = <<timeline.data[1]>> /\ timeline.data[1] \in Timelines)
      BY <1>0, QueryIs
    <2>2. kind \in Acts /\ HasData(timeline)
      BY <1>k DEF Mutate
    <2>3. o \in Mutation
      BY <2>1, <2>2 DEF Mutation
    <2>4. op' = [op EXCEPT ![k] = o]
      BY DEF Mutate
    <2> HIDE DEF o
    <2>5. OpsTyped'
      BY <2>3, <2>4, OpMoves
    <2>6. timeline' \in T
      BY <1>0, <2>2, WrittenIs DEF Mutate
    <2> QED BY <1>0, <2>5, <2>6 DEF Mutate, Typing
  <1>11. CASE \E k \in Ops, kind \in Kinds, c \in Comments : OtherActs(k, kind, c)
    <2> PICK k \in Ops, kind \in Kinds, c \in Comments : OtherActs(k, kind, c)
      BY <1>11
    <2> DEFINE o == [kind |-> kind, comment |-> c, phase |-> "settled", prev |-> <<>>]
    <2>1. kind \in Acts
      BY <1>k
    <2>2. o \in Mutation
      BY <2>1 DEF Mutation
    <2>3. op' = [op EXCEPT ![k] = o]
      BY DEF OtherActs
    <2> HIDE DEF o
    <2>4. OpsTyped'
      BY <2>2, <2>3, OpMoves
    <2>5. stored' \in Timelines /\ wire' \in Seq(Event) /\ gap' \in BOOLEAN
      BY <2>1, ServerActs DEF OtherActs
    <2> QED BY <1>0, <2>4, <2>5 DEF OtherActs, Typing
  <1>12. CASE UNCHANGED vars
    BY <1>0, <1>12, <1>o DEF vars, Typing
  <1> QED BY <1>1, <1>2, <1>3, <1>4, <1>5, <1>6, <1>7, <1>8, <1>9, <1>10, <1>11, <1>12 DEF Next

LEMMA TypingGives == Typing => TypeOK
  <1> SUFFICES ASSUME Typing PROVE TypeOK
    OBVIOUS
  <1> DEFINE q == timeline
  <1>1. q \in Query(Timelines)
    BY DEF Typing
  <1>2. /\ DOMAIN q = {"data", "stale", "fetch", "owed"} /\ q.stale \in BOOLEAN /\ q.owed \in BOOLEAN
        /\ q.data = <<>> \/ (q.data = <<q.data[1]>> /\ q.data[1] \in Timelines)
        /\ Idle(q) \/ Sent(q) \/ (Back(q) /\ q.fetch = <<"back", q.fetch[2]>> /\ q.fetch[2] \in Timelines)
    BY <1>1, QueryIs
  <1> HIDE DEF q
  <1>3. q.data = <<>> \/ (Len(q.data) = 1 /\ q.data[1] \in Timelines)
    BY <1>2
  <1>4. Idle(q) \/ Sent(q) \/ (Back(q) /\ q.fetch[1] = "back" /\ q.fetch[2] \in Timelines)
    BY <1>2
  <1>5. IsQuery(q, LAMBDA f : f \in Timelines)
    BY <1>2, <1>3, <1>4 DEF IsQuery
  <1>6. ASSUME NEW k \in Ops
        PROVE  op[k].prev = <<>> \/ (Len(op[k].prev) = 1 /\ op[k].prev[1] \in Timelines)
    <2> DEFINE p == op[k].prev
    <2>1. op[k] = NoOp \/ op[k] \in Mutation
      BY DEF Typing, OpsTyped
    <2>2. p = <<>> \/ (p = <<p[1]>> /\ p[1] \in Timelines)
      BY <2>1, MutationIs
    <2> HIDE DEF p
    <2>3. p = <<>> \/ (Len(p) = 1 /\ p[1] \in Timelines)
      BY <2>2
    <2> QED BY <2>3 DEF p
  <1> QED BY <1>5, <1>6 DEF TypeOK, Typing, q

(* The timeline stays a query of well-formed lists of comments, and so do  *)
(* the server's list and every list kept for a rollback, through the       *)
(* optimistic writes of use-issue-timeline.ts, its event handlers and the  *)
(* refetches.                                                              *)
THEOREM TypeCorrect == Spec => []TypeOK
  <1>1. Typing /\ [Next]_vars => Typing'
    BY TypingStep
  <1> QED BY <1>1, TypingStart, TypingGives, PTL DEF Spec

-----------------------------------------------------------------------------
(* What the events on the wire and the list of the server say of each      *)
(* other.                                                                  *)
Creates(m) == m.kind = "create"
Deletes(m) == m.kind = "delete"
Whole(m, c) == m.kind \in {"edit", "resolve"} /\ m.comment = c
Likes(m, c) == m.kind \in {"edit", "resolve", "react"} /\ m.comment = c

(* The entry e differs from s only in what an event after the n-th brings. *)
AgreesAfter(w, n, c, e, s) ==
  /\ (\A m \in DOMAIN w : m > n => ~Whole(w[m], c)) => e.text = s.text /\ e.resolved = s.resolved
  /\ (\A m \in DOMAIN w : m > n => ~Likes(w[m], c)) => e.liked = s.liked

Gone(w, st) == \A n \in DOMAIN w : Deletes(w[n]) => DOMAIN st \cap Under(w[n].comment) = {}
CreatedFirst(w) == \A m, n \in DOMAIN w : Creates(w[m]) /\ n # m /\ w[n].comment = w[m].comment => m < n
DeletedLast(w) == \A m, n \in DOMAIN w : m < n /\ Deletes(w[m]) => w[n].comment \notin Under(w[m].comment)
DeletionComes(w, st) ==
  \A m \in DOMAIN w : Creates(w[m]) /\ w[m].comment \notin DOMAIN st =>
     \E n \in DOMAIN w : m < n /\ Deletes(w[n]) /\ w[m].comment \in Under(w[n].comment)
NewsTrue(w, st) ==
  \A n \in DOMAIN w : ~Deletes(w[n]) /\ w[n].comment \in DOMAIN st =>
     AgreesAfter(w, n, w[n].comment, w[n].entry, st[w[n].comment])

WireGood(w, st) == Gone(w, st) /\ CreatedFirst(w) /\ DeletedLast(w) /\ DeletionComes(w, st) /\ NewsTrue(w, st)

LEMMA AppendIs ==
  ASSUME NEW w \in Seq(Event), NEW m \in Event
  PROVE  LET v == Append(w, m)
             z == Len(w) + 1
         IN  /\ v \in Seq(Event) /\ z \in DOMAIN v /\ v[z] = m /\ z \in Nat
             /\ \A n \in DOMAIN w : n \in DOMAIN v /\ n < z /\ v[n] = w[n] /\ n \in Nat
             /\ \A n \in DOMAIN v : n \in DOMAIN w \/ n = z
  OBVIOUS

LEMMA TailIs ==
  ASSUME NEW w \in Seq(Event), w # <<>>
  PROVE  LET v == Tail(w)
         IN  /\ v \in Seq(Event) /\ 1 \in DOMAIN w /\ w[1] \in Event
             /\ \A n \in DOMAIN v : n + 1 \in DOMAIN w /\ n + 1 > 1 /\ v[n] = w[n + 1] /\ n \in Nat
             /\ \A n \in DOMAIN w : n \in Nat /\ n >= 1 /\ (n > 1 => n - 1 \in DOMAIN v /\ v[n - 1] = w[n])
  OBVIOUS

(* The server does something to the list st, which is possible.            *)
May(kind, c, w, st) ==
  IF kind = "create"
  THEN c \notin DOMAIN st /\ Parent[c] \in DOMAIN st \cup {None} /\ \A n \in DOMAIN w : w[n].comment # c
  ELSE c \in DOMAIN st

LEMMA ServerIs ==
  ASSUME NEW st \in Timelines, Threaded(st), NEW kind \in Acts, NEW c \in Comments,
         NEW w \in Seq(Event), May(kind, c, w, st),
         NEW s, s = Apply(kind, c, st), NEW e, e = News(kind, c, s)
  PROVE  /\ s \in Timelines /\ Threaded(s)
         /\ e \in Event /\ e.kind = kind /\ e.comment = c /\ (c \in DOMAIN s => e.entry = s[c])
         /\ kind = "delete" => DOMAIN s \cap Under(c) = {}
         /\ kind # "delete" => c \in DOMAIN s
         /\ \A x \in DOMAIN s : x \notin DOMAIN st => x = c /\ kind = "create"
         /\ \A x \in DOMAIN st : x \notin DOMAIN s => kind = "delete" /\ x \in Cascade(st, c) /\ x \in Under(c)
         /\ \A x \in DOMAIN st \cap DOMAIN s :
              /\ ~Whole(e, x) => s[x].text = st[x].text /\ s[x].resolved = st[x].resolved
              /\ ~Likes(e, x) => s[x].liked = st[x].liked
  <1> DEFINE r == Apply(kind, c, st)
  <1>a. r \in Timelines
    BY ApplyIs, Zenon
  <1>b. kind = "create" => DOMAIN r = DOMAIN st \cup {c} /\ r[c] = New
    BY DEF Apply, With
  <1>d. kind = "delete" => DOMAIN r = DOMAIN st \ Cascade(st, c)
    BY DEF Apply, Without
  <1>e. kind # "create" /\ kind # "delete" => DOMAIN r = DOMAIN st
    BY DEF Apply, Change, Acts
  <1>f. kind = "react" /\ c \in DOMAIN st => r[c].text = st[c].text /\ r[c].resolved = st[c].resolved
    BY ApplyIs, ZenonT(30)
  <1>g. \A d \in DOMAIN r : d \in DOMAIN st /\ (d # c \/ kind = "delete") => r[d] = st[d]
    BY ApplyIs, Zenon
  <1>h. s = r
    OBVIOUS
  <1> HIDE DEF r
  <1>1. /\ s \in Timelines
        /\ kind = "create" => DOMAIN s = DOMAIN st \cup {c} /\ s[c] = New
        /\ kind = "delete" => DOMAIN s = DOMAIN st \ Cascade(st, c)
        /\ kind # "create" /\ kind # "delete" => DOMAIN s = DOMAIN st
        /\ kind = "react" /\ c \in DOMAIN st => s[c].text = st[c].text /\ s[c].resolved = st[c].resolved
        /\ \A d \in DOMAIN s : d \in DOMAIN st /\ (d # c \/ kind = "delete") => s[d] = st[d]
    BY <1>a, <1>b, <1>d, <1>e, <1>f, <1>g, <1>h
  <1>2. e \in Event /\ e.kind = kind /\ e.comment = c /\ (c \in DOMAIN s => e.entry = s[c])
    BY <1>1, NewsIs
  <1>3. /\ DOMAIN st \in SUBSET Comments
        /\ Cascade(st, c) = DOMAIN st \cap Least(DOMAIN st, c)
        /\ Under(c) \cap DOMAIN st \subseteq Cascade(st, c)
    BY TimelinesAre, CascadeIs, SweepsAll
  <1>4. Least(DOMAIN st, c) \subseteq Under(c)
    BY <1>3, LeastGrows DEF Under
  <1>5. /\ Under(c) \in SUBSET Comments /\ c \in Under(c)
        /\ \A x \in Comments : Parent[x] \in Under(c) => x \in Under(c)
    BY UnderIs
  <1>6. Threaded(s)
    <2>1. CASE kind = "delete"
      BY <1>1, <1>3, <1>4, <1>5, <2>1 DEF Threaded
    <2>2. CASE kind # "delete"
      BY <1>1, <2>2 DEF Threaded, May
    <2> QED BY <2>1, <2>2
  <1>7. /\ kind = "delete" => DOMAIN s \cap Under(c) = {}
        /\ kind # "delete" => c \in DOMAIN s
        /\ \A x \in DOMAIN s : x \notin DOMAIN st => x = c /\ kind = "create"
        /\ \A x \in DOMAIN st : x \notin DOMAIN s => kind = "delete" /\ x \in Cascade(st, c) /\ x \in Under(c)
    BY <1>1, <1>3, <1>4 DEF May
  <1>8. ASSUME NEW x \in DOMAIN st \cap DOMAIN s
        PROVE  /\ ~Whole(e, x) => s[x].text = st[x].text /\ s[x].resolved = st[x].resolved
               /\ ~Likes(e, x) => s[x].liked = st[x].liked
    <2>1. CASE x # c \/ kind = "delete"
      BY <1>1, <2>1
    <2>2. CASE x = c /\ kind # "delete"
      <3>1. kind # "create"
        BY <1>8, <2>2 DEF May
      <3> QED BY <1>1, <1>2, <1>8, <2>2, <3>1 DEF Whole, Likes, Acts
    <2> QED BY <2>1, <2>2
  <1> QED BY <1>1, <1>2, <1>6, <1>7, <1>8

(* Nothing is done under a comment once its deletion is on the wire.       *)
LEMMA ActsElsewhere ==
  ASSUME NEW st \in Timelines, NEW kind \in Acts, NEW c \in Comments, NEW w \in Seq(Event),
         May(kind, c, w, st), Gone(w, st), NEW n \in DOMAIN w, Deletes(w[n])
  PROVE  c \notin Under(w[n].comment)
  <1> DEFINE b == w[n].comment
  <1>1. b \in Comments
    BY EventIs
  <1>2. DOMAIN st \cap Under(b) = {}
    BY DEF Gone
  <1> HIDE DEF b
  <1>3. Under(b) \in SUBSET Comments /\ \A x \in Under(b) : x # b => Parent[x] \in Under(b)
    BY <1>1, UnderIs
  <1>4. CASE kind = "create"
    <2>1. c # b /\ Parent[c] \in DOMAIN st \cup {None}
      BY <1>4 DEF May, b
    <2> QED BY <1>2, <1>3, <2>1, TimelineAssumption DEF TimelineAssumption, b
  <1>5. CASE kind # "create"
    BY <1>2, <1>5 DEF May, b
  <1> QED BY <1>4, <1>5

(* What differed only in what events bring still does, the new one among   *)
(* them.                                                                   *)
LEMMA AgreesOn ==
  ASSUME NEW w \in Seq(Event), NEW m \in Event, NEW n \in Nat, NEW x, NEW e, NEW a, NEW b,
         AgreesAfter(w, n, x, e, a), n <= Len(w),
         ~Whole(m, x) => b.text = a.text /\ b.resolved = a.resolved,
         ~Likes(m, x) => b.liked = a.liked
  PROVE  AgreesAfter(Append(w, m), n, x, e, b)
  <1> DEFINE v == Append(w, m)
             z == Len(w) + 1
  <1>1. /\ z \in DOMAIN v /\ v[z] = m /\ z > n
        /\ \A j \in DOMAIN w : j \in DOMAIN v /\ v[j] = w[j]
    BY AppendIs
  <1> HIDE DEF v, z
  <1>2. ASSUME \A j \in DOMAIN v : j > n => ~Whole(v[j], x)
        PROVE  e.text = b.text /\ e.resolved = b.resolved
    <2>1. ~Whole(m, x) /\ \A j \in DOMAIN w : j > n => ~Whole(w[j], x)
      BY <1>1, <1>2
    <2> QED BY <2>1 DEF AgreesAfter
  <1>3. ASSUME \A j \in DOMAIN v : j > n => ~Likes(v[j], x)
        PROVE  e.liked = b.liked
    <2>1. ~Likes(m, x) /\ \A j \in DOMAIN w : j > n => ~Likes(w[j], x)
      BY <1>1, <1>3
    <2> QED BY <2>1 DEF AgreesAfter
  <1> QED BY <1>2, <1>3 DEF AgreesAfter, v

LEMMA WireGoodOn ==
  ASSUME NEW st \in Timelines, Threaded(st), NEW kind \in Acts, NEW c \in Comments,
         NEW w \in Seq(Event), May(kind, c, w, st), WireGood(w, st),
         NEW s, s = Apply(kind, c, st), NEW e, e = News(kind, c, s)
  PROVE  WireGood(Append(w, e), s)
  <1> DEFINE v == Append(w, e)
             z == Len(w) + 1
  <1>s. /\ s \in Timelines
        /\ e \in Event /\ e.kind = kind /\ e.comment = c /\ (c \in DOMAIN s => e.entry = s[c])
        /\ kind = "delete" => DOMAIN s \cap Under(c) = {}
        /\ kind # "delete" => c \in DOMAIN s
        /\ \A x \in DOMAIN s : x \notin DOMAIN st => x = c /\ kind = "create"
        /\ \A x \in DOMAIN st : x \notin DOMAIN s => kind = "delete" /\ x \in Cascade(st, c) /\ x \in Under(c)
    BY ServerIs
  <1>t. \A x \in DOMAIN st \cap DOMAIN s :
          /\ ~Whole(e, x) => s[x].text = st[x].text /\ s[x].resolved = st[x].resolved
          /\ ~Likes(e, x) => s[x].liked = st[x].liked
    BY ServerIs
  <1>v. /\ z \in DOMAIN v /\ v[z] = e /\ z \in Nat
        /\ \A n \in DOMAIN w : n \in DOMAIN v /\ n < z /\ v[n] = w[n] /\ n \in Nat
        /\ \A n \in DOMAIN v : n \in DOMAIN w \/ n = z
    BY <1>s, AppendIs
  <1>g. Gone(w, st) /\ CreatedFirst(w) /\ DeletedLast(w) /\ DeletionComes(w, st) /\ NewsTrue(w, st)
    BY DEF WireGood
  <1>e. \A n \in DOMAIN w : Deletes(w[n]) => c \notin Under(w[n].comment)
    BY <1>g, ActsElsewhere
  <1>m. /\ kind = "create" => c \notin DOMAIN st /\ \A n \in DOMAIN w : w[n].comment # c
        /\ kind # "create" => c \in DOMAIN st
    BY DEF May
  <1> HIDE DEF v, z
  <1>1. Gone(v, s)
    BY <1>s, <1>v, <1>g, <1>e DEF Gone, Deletes
  <1>2. CreatedFirst(v)
    BY <1>s, <1>v, <1>g, <1>m DEF CreatedFirst, Creates
  <1>3. DeletedLast(v)
    <2> SUFFICES ASSUME NEW j \in DOMAIN v, NEW n \in DOMAIN v, j < n, Deletes(v[j])
                 PROVE  v[n].comment \notin Under(v[j].comment)
      BY DEF DeletedLast
    <2>1. j \in DOMAIN w
      BY <1>v
    <2> QED BY <1>s, <1>v, <1>g, <1>e, <2>1 DEF DeletedLast
  <1>4. DeletionComes(v, s)
    <2> SUFFICES ASSUME NEW j \in DOMAIN v, Creates(v[j]), v[j].comment \notin DOMAIN s
                 PROVE  \E n \in DOMAIN v : j < n /\ Deletes(v[n]) /\ v[j].comment \in Under(v[n].comment)
      BY DEF DeletionComes
    <2>1. j \in DOMAIN w /\ j < z /\ v[j] = w[j]
      BY <1>s, <1>v DEF Creates
    <2>2. CASE w[j].comment \in DOMAIN st
      BY <1>s, <1>v, <2>1, <2>2 DEF Deletes
    <2>3. CASE w[j].comment \notin DOMAIN st
      BY <1>v, <1>g, <2>1, <2>3 DEF DeletionComes
    <2> QED BY <2>2, <2>3
  <1>5. NewsTrue(v, s)
    <2> SUFFICES ASSUME NEW n \in DOMAIN v, ~Deletes(v[n]), v[n].comment \in DOMAIN s
                 PROVE  AgreesAfter(v, n, v[n].comment, v[n].entry, s[v[n].comment])
      BY DEF NewsTrue
    <2> DEFINE x == v[n].comment
    <2>1. CASE n = z
      BY <1>s, <1>v, <2>1 DEF AgreesAfter
    <2>2. CASE n \in DOMAIN w
      <3>1. v[n] = w[n] /\ n \in Nat /\ n <= Len(w) /\ x = w[n].comment
        BY <1>v, <2>2 DEF z
      <3>2. x \in DOMAIN st
        BY <1>s, <1>m, <2>2, <3>1
      <3>3. AgreesAfter(w, n, x, w[n].entry, st[x])
        BY <1>g, <2>2, <3>1, <3>2 DEF NewsTrue
      <3>4. /\ ~Whole(e, x) => s[x].text = st[x].text /\ s[x].resolved = st[x].resolved
            /\ ~Likes(e, x) => s[x].liked = st[x].liked
        BY <1>t, <3>2
      <3>5. n \in Nat /\ n <= Len(w) /\ e \in Event
        BY <1>s, <3>1
      <3> HIDE DEF x
      <3>6. AgreesAfter(v, n, x, w[n].entry, s[x])
        BY <3>3, <3>4, <3>5, AgreesOn DEF v
      <3> QED BY <3>1, <3>6 DEF x
    <2> QED BY <1>v, <2>1, <2>2
  <1> QED BY <1>1, <1>2, <1>3, <1>4, <1>5 DEF WireGood, v

-----------------------------------------------------------------------------
(* A list that the events on the wire make what the server has.            *)
Coming(w) == {w[n].comment : n \in {m \in DOMAIN w : Creates(w[m])}}

(* By way of the comments K, which are or will be there, the sweep of the  *)
(* n-th event reaches c, and c does not come back.                         *)
SweptBy(d, w, c, n, K) ==
  /\ n \in DOMAIN w /\ Deletes(w[n]) /\ c \in Least(K, w[n].comment)
  /\ \A x \in K : Parent[x] \in K \cup {w[n].comment}
  /\ \A x \in K : x \in DOMAIN d \/ \E m \in DOMAIN w : m < n /\ Creates(w[m]) /\ w[m].comment = x
  /\ \A x \in K : \A m \in DOMAIN w : m < n /\ Deletes(w[m]) => w[m].comment # x
  /\ \A m \in DOMAIN w : m > n /\ Creates(w[m]) => w[m].comment # c
Doomed(d, w, c) == \E n \in DOMAIN w, K \in SUBSET Comments : SweptBy(d, w, c, n, K)

DataGood(d, w, st) ==
  /\ DOMAIN st \subseteq DOMAIN d \cup Coming(w)
  /\ \A c \in (DOMAIN d \cup Coming(w)) \ DOMAIN st : Doomed(d, w, c)
  /\ \A c \in DOMAIN st \cap DOMAIN d : AgreesAfter(w, 0, c, d[c], st[c])

LEMMA ComingIs ==
  ASSUME NEW w, NEW c
  PROVE  c \in Coming(w) <=> \E n \in DOMAIN w : Creates(w[n]) /\ w[n].comment = c
  BY DEF Coming

LEMMA DoomedOn ==
  ASSUME NEW d, NEW w \in Seq(Event), NEW e \in Event, NEW c, Doomed(d, w, c), Creates(e) => e.comment # c
  PROVE  Doomed(d, Append(w, e), c)
  <1> DEFINE v == Append(w, e)
             z == Len(w) + 1
  <1>1. PICK n \in DOMAIN w, K \in SUBSET Comments : SweptBy(d, w, c, n, K)
    BY DEF Doomed
  <1>2. /\ z \in DOMAIN v /\ v[z] = e /\ z \in Nat
        /\ \A j \in DOMAIN w : j \in DOMAIN v /\ j < z /\ v[j] = w[j] /\ j \in Nat
        /\ \A j \in DOMAIN v : j \in DOMAIN w \/ j = z
    BY AppendIs
  <1> HIDE DEF v, z
  <1>3. SweptBy(d, v, c, n, K)
    <2>1. /\ n \in DOMAIN v /\ Deletes(v[n]) /\ c \in Least(K, v[n].comment)
          /\ \A x \in K : Parent[x] \in K \cup {v[n].comment}
      BY <1>1, <1>2 DEF SweptBy
    <2>2. \A x \in K : x \in DOMAIN d \/ \E m \in DOMAIN v : m < n /\ Creates(v[m]) /\ v[m].comment = x
      BY <1>1, <1>2 DEF SweptBy
    <2>3. \A x \in K : \A m \in DOMAIN v : m < n /\ Deletes(v[m]) => v[m].comment # x
      BY <1>1, <1>2 DEF SweptBy
    <2>4. \A m \in DOMAIN v : m > n /\ Creates(v[m]) => v[m].comment # c
      BY <1>1, <1>2 DEF SweptBy
    <2> QED BY <2>1, <2>2, <2>3, <2>4 DEF SweptBy
  <1>4. n \in DOMAIN v
    BY <1>2
  <1> QED BY <1>3, <1>4 DEF Doomed, v

(* What the server now deletes is in the list or on its way to it, and the *)
(* sweep of the deletion will reach it.                                    *)
LEMMA DeletedIsDoomed ==
  ASSUME NEW st \in Timelines, Threaded(st), NEW c \in Comments, NEW w \in Seq(Event), Gone(w, st),
         NEW e \in Event, Deletes(e), e.comment = c,
         NEW d, DOMAIN st \subseteq DOMAIN d \cup Coming(w),
         NEW x \in Cascade(st, c)
  PROVE  Doomed(d, Append(w, e), x)
  <1> DEFINE v == Append(w, e)
             z == Len(w) + 1
             D == DOMAIN st
             K == Cascade(st, c) \ {c}
  <1>1. /\ z \in DOMAIN v /\ v[z] = e /\ z \in Nat
        /\ \A j \in DOMAIN w : j \in DOMAIN v /\ j < z /\ v[j] = w[j] /\ j \in Nat
        /\ \A j \in DOMAIN v : j \in DOMAIN w \/ j = z
    BY AppendIs
  <1>2. D \in SUBSET Comments /\ Cascade(st, c) = D \cap Least(D, c)
    BY TimelinesAre, CascadeIs
  <1>3. \A y \in D : Parent[y] \in D \cup {None}
    BY DEF Threaded
  <1>4. \A y \in D : \A m \in DOMAIN w : Deletes(w[m]) => w[m].comment # y
    <2> SUFFICES ASSUME NEW y \in D, NEW m \in DOMAIN w, Deletes(w[m]), w[m].comment = y
                 PROVE  FALSE
      OBVIOUS
    <2>1. y \in Under(y)
      BY <1>2, UnderIs
    <2> QED BY <2>1 DEF Gone
  <1> HIDE DEF D
  <1>5. K \in SUBSET Comments
    BY <1>2
  <1>6. /\ Least(D, c) \in SUBSET Comments /\ c \in Least(D, c)
        /\ \A y \in D : Parent[y] \in Least(D, c) => y \in Least(D, c)
    BY <1>2, LeastIs
  <1>7. \A y \in K : y \in D /\ Parent[y] \in K \cup {c}
    <2> SUFFICES ASSUME NEW y \in K PROVE y \in D /\ Parent[y] \in K \cup {c}
      OBVIOUS
    <2>1. y \in D /\ y \in Least(D, c) /\ y # c
      BY <1>2
    <2>2. Parent[y] \in Least(D, c)
      BY <1>2, <2>1, LeastSteps
    <2> QED BY <1>2, <1>3, <1>6, <2>1, <2>2, TimelineAssumption DEF TimelineAssumption
  <1>8. x \in Least(K, c)
    <2> DEFINE S == Least(K, c)
    <2>1. S \in SUBSET Comments /\ c \in S /\ \A y \in K : Parent[y] \in S => y \in S
      BY <1>5, LeastIs
    <2>2. S \subseteq K \cup {c}
      BY <1>5, LeastAllIn
    <2> HIDE DEF S
    <2>3. \A y \in D : Parent[y] \in S => y \in S
      BY <1>2, <1>6, <2>1, <2>2
    <2>4. Least(D, c) \subseteq S
      BY <1>2, <2>1, <2>3, LeastHolds
    <2> QED BY <1>2, <2>4 DEF S
  <1>9. SweptBy(d, v, x, z, K)
    <2> HIDE DEF v, z, K
    <2>1. z \in DOMAIN v /\ Deletes(v[z]) /\ x \in Least(K, v[z].comment)
      BY <1>1, <1>8
    <2>2. \A y \in K : Parent[y] \in K \cup {v[z].comment}
      BY <1>1, <1>7
    <2>3. \A y \in K : y \in DOMAIN d \/ \E m \in DOMAIN v : m < z /\ Creates(v[m]) /\ v[m].comment = y
      BY <1>1, <1>7, ComingIs DEF D
    <2>4. \A y \in K : \A m \in DOMAIN v : m < z /\ Deletes(v[m]) => v[m].comment # y
      <3> SUFFICES ASSUME NEW y \in K, NEW m \in DOMAIN v, m < z, Deletes(v[m]) PROVE v[m].comment # y
        OBVIOUS
      <3>1. m \in DOMAIN w /\ v[m] = w[m]
        BY <1>1
      <3>2. y \in D
        BY <1>7
      <3> QED BY <1>4, <3>1, <3>2
    <2>5. \A m \in DOMAIN v : m > z /\ Creates(v[m]) => v[m].comment # x
      BY <1>1
    <2> QED BY <2>1, <2>2, <2>3, <2>4, <2>5 DEF SweptBy
  <1> HIDE DEF v, z, K
  <1>10. z \in DOMAIN v
    BY <1>1
  <1> QED BY <1>5, <1>9, <1>10 DEF Doomed, v

LEMMA DoomedIsUnder ==
  ASSUME NEW d, NEW w \in Seq(Event), NEW c, Doomed(d, w, c)
  PROVE  \E n \in DOMAIN w : Deletes(w[n]) /\ c \in Under(w[n].comment)
  <1>1. PICK n \in DOMAIN w, K \in SUBSET Comments : SweptBy(d, w, c, n, K)
    BY DEF Doomed
  <1> DEFINE b == w[n].comment
  <1>2. b \in Comments
    BY EventIs
  <1>3. c \in Least(K, b) /\ Deletes(w[n])
    BY <1>1 DEF SweptBy
  <1> HIDE DEF b
  <1>4. Least(K, b) \subseteq Under(b)
    BY <1>2, LeastGrows DEF Under
  <1> QED BY <1>3, <1>4 DEF b

LEMMA DataGoodOn ==
  ASSUME NEW st \in Timelines, Threaded(st), NEW kind \in Acts, NEW c \in Comments,
         NEW w \in Seq(Event), May(kind, c, w, st), WireGood(w, st),
         NEW s, s = Apply(kind, c, st), NEW e, e = News(kind, c, s),
         NEW d \in Timelines, DataGood(d, w, st)
  PROVE  DataGood(d, Append(w, e), s)
  <1> DEFINE v == Append(w, e)
             z == Len(w) + 1
  <1>s. /\ s \in Timelines /\ e \in Event /\ e.kind = kind /\ e.comment = c
        /\ kind # "delete" => c \in DOMAIN s
        /\ \A x \in DOMAIN s : x \notin DOMAIN st => x = c /\ kind = "create"
        /\ \A x \in DOMAIN st : x \notin DOMAIN s => kind = "delete" /\ x \in Cascade(st, c) /\ x \in Under(c)
    BY ServerIs
  <1>t. \A x \in DOMAIN st \cap DOMAIN s :
          /\ ~Whole(e, x) => s[x].text = st[x].text /\ s[x].resolved = st[x].resolved
          /\ ~Likes(e, x) => s[x].liked = st[x].liked
    BY ServerIs
  <1>v. /\ z \in DOMAIN v /\ v[z] = e /\ z \in Nat
        /\ \A n \in DOMAIN w : n \in DOMAIN v /\ n < z /\ v[n] = w[n] /\ n \in Nat
        /\ \A n \in DOMAIN v : n \in DOMAIN w \/ n = z
    BY <1>s, AppendIs
  <1>g. Gone(w, st)
    BY DEF WireGood
  <1>e. \A n \in DOMAIN w : Deletes(w[n]) => c \notin Under(w[n].comment)
    BY <1>g, ActsElsewhere
  <1>m. kind = "create" => c \notin DOMAIN st
    BY DEF May
  <1>d. /\ DOMAIN st \subseteq DOMAIN d \cup Coming(w)
        /\ \A x \in (DOMAIN d \cup Coming(w)) \ DOMAIN st : Doomed(d, w, x)
        /\ \A x \in DOMAIN st \cap DOMAIN d : AgreesAfter(w, 0, x, d[x], st[x])
    BY DEF DataGood
  <1> HIDE DEF v, z
  <1>c. /\ Coming(w) \subseteq Coming(v)
        /\ kind = "create" => c \in Coming(v)
        /\ \A x \in Coming(v) : x \in Coming(w) \/ (x = c /\ kind = "create")
    BY <1>s, <1>v DEF Coming, Creates
  <1>n. ~Doomed(d, w, c)
    BY <1>e, DoomedIsUnder
  <1>1. DOMAIN s \subseteq DOMAIN d \cup Coming(v)
    BY <1>s, <1>d, <1>c
  <1>2. ASSUME NEW x \in (DOMAIN d \cup Coming(v)) \ DOMAIN s
        PROVE  Doomed(d, v, x)
    <2>1. x \in DOMAIN d \cup Coming(w)
      BY <1>s, <1>c
    <2>2. CASE x \in DOMAIN st
      <3>1. kind = "delete" /\ x \in Cascade(st, c)
        BY <1>s, <2>2
      <3>2. Deletes(e)
        BY <1>s, <3>1 DEF Deletes
      <3> QED BY <1>s, <1>g, <1>d, <3>1, <3>2, DeletedIsDoomed DEF v
    <2>3. CASE x \notin DOMAIN st
      <3>1. Doomed(d, w, x)
        BY <1>d, <2>1, <2>3
      <3>2. x # c
        BY <1>n, <3>1
      <3> QED BY <1>s, <3>1, <3>2, DoomedOn DEF v
    <2> QED BY <2>2, <2>3
  <1>3. ASSUME NEW x \in DOMAIN s \cap DOMAIN d
        PROVE  AgreesAfter(v, 0, x, d[x], s[x])
    <2>1. x \in DOMAIN st
      <3> SUFFICES ASSUME x \notin DOMAIN st PROVE FALSE
        OBVIOUS
      <3>1. x = c /\ Doomed(d, w, x)
        BY <1>s, <1>d
      <3> QED BY <1>n, <3>1
    <2>2. AgreesAfter(w, 0, x, d[x], st[x])
      BY <1>d, <2>1
    <2>3. /\ ~Whole(e, x) => s[x].text = st[x].text /\ s[x].resolved = st[x].resolved
          /\ ~Likes(e, x) => s[x].liked = st[x].liked
      BY <1>t, <2>1
    <2>4. 0 \in Nat /\ 0 <= Len(w)
      OBVIOUS
    <2> QED BY <1>s, <2>2, <2>3, <2>4, AgreesOn DEF v
  <1> QED BY <1>1, <1>2, <1>3 DEF DataGood, v

-----------------------------------------------------------------------------
(* The next event comes off the wire.                                      *)
LEMMA AgreesShift ==
  ASSUME NEW w \in Seq(Event), w # <<>>, NEW n \in Nat, NEW x, NEW e, NEW s, AgreesAfter(w, n + 1, x, e, s)
  PROVE  AgreesAfter(Tail(w), n, x, e, s)
  <1> DEFINE v == Tail(w)
  <1>1. \A j \in DOMAIN w : j \in Nat /\ j >= 1 /\ (j > 1 => j - 1 \in DOMAIN v /\ v[j - 1] = w[j])
    BY TailIs
  <1> HIDE DEF v
  <1>3. ASSUME \A j \in DOMAIN v : j > n => ~Whole(v[j], x)
        PROVE  e.text = s.text /\ e.resolved = s.resolved
    <2> SUFFICES \A j \in DOMAIN w : j > n + 1 => ~Whole(w[j], x)
      BY DEF AgreesAfter
    <2> SUFFICES ASSUME NEW j \in DOMAIN w, j > n + 1 PROVE ~Whole(w[j], x)
      OBVIOUS
    <2>1. j - 1 \in DOMAIN v /\ v[j - 1] = w[j] /\ j - 1 > n
      BY <1>1
    <2> QED BY <1>3, <2>1
  <1>4. ASSUME \A j \in DOMAIN v : j > n => ~Likes(v[j], x)
        PROVE  e.liked = s.liked
    <2> SUFFICES \A j \in DOMAIN w : j > n + 1 => ~Likes(w[j], x)
      BY DEF AgreesAfter
    <2> SUFFICES ASSUME NEW j \in DOMAIN w, j > n + 1 PROVE ~Likes(w[j], x)
      OBVIOUS
    <2>1. j - 1 \in DOMAIN v /\ v[j - 1] = w[j] /\ j - 1 > n
      BY <1>1
    <2> QED BY <1>4, <2>1
  <1> QED BY <1>3, <1>4 DEF AgreesAfter, v

(* An entry f that keeps what the next event does not bring, and has of it *)
(* what it brings.                                                         *)
LEMMA AgreesNext ==
  ASSUME NEW w \in Seq(Event), w # <<>>, NEW x, NEW e, NEW s, NEW f, AgreesAfter(w, 0, x, e, s),
         NEW n, AgreesAfter(w, 1, x, n, s) \/ (~Whole(w[1], x) /\ ~Likes(w[1], x)),
         Whole(w[1], x) => f.text = n.text /\ f.resolved = n.resolved,
         ~Whole(w[1], x) => f.text = e.text /\ f.resolved = e.resolved,
         Likes(w[1], x) => f.liked = n.liked,
         ~Likes(w[1], x) => f.liked = e.liked
  PROVE  AgreesAfter(Tail(w), 0, x, f, s)
  <1> DEFINE v == Tail(w)
  <1>1. \A j \in DOMAIN w : j \in Nat /\ j >= 1 /\ (j > 1 => j - 1 \in DOMAIN v /\ v[j - 1] = w[j])
    BY TailIs
  <1>2. ASSUME AgreesAfter(w, 1, x, n, s)
        PROVE  AgreesAfter(v, 0, x, n, s)
    BY <1>2, AgreesShift
  <1> HIDE DEF v
  <1>3. ASSUME \A j \in DOMAIN v : j > 0 => ~Whole(v[j], x)
        PROVE  f.text = s.text /\ f.resolved = s.resolved
    <2>1. CASE Whole(w[1], x)
      BY <1>2, <1>3, <2>1 DEF AgreesAfter
    <2>2. CASE ~Whole(w[1], x)
      <3> SUFFICES \A j \in DOMAIN w : j > 0 => ~Whole(w[j], x)
        BY <2>2 DEF AgreesAfter
      <3> SUFFICES ASSUME NEW j \in DOMAIN w, j > 1 PROVE ~Whole(w[j], x)
        BY <1>1, <2>2
      <3>1. j - 1 \in DOMAIN v /\ v[j - 1] = w[j] /\ j - 1 > 0
        BY <1>1
      <3> QED BY <1>3, <3>1
    <2> QED BY <2>1, <2>2
  <1>4. ASSUME \A j \in DOMAIN v : j > 0 => ~Likes(v[j], x)
        PROVE  f.liked = s.liked
    <2>1. CASE Likes(w[1], x)
      BY <1>2, <1>4, <2>1 DEF AgreesAfter
    <2>2. CASE ~Likes(w[1], x)
      <3> SUFFICES \A j \in DOMAIN w : j > 0 => ~Likes(w[j], x)
        BY <2>2 DEF AgreesAfter
      <3> SUFFICES ASSUME NEW j \in DOMAIN w, j > 1 PROVE ~Likes(w[j], x)
        BY <1>1, <2>2
      <3>1. j - 1 \in DOMAIN v /\ v[j - 1] = w[j] /\ j - 1 > 0
        BY <1>1
      <3> QED BY <1>4, <3>1
    <2> QED BY <2>1, <2>2
  <1> QED BY <1>3, <1>4 DEF AgreesAfter, v

LEMMA WireGoodNext ==
  ASSUME NEW w \in Seq(Event), w # <<>>, NEW st, WireGood(w, st)
  PROVE  WireGood(Tail(w), st)
  <1> DEFINE v == Tail(w)
  <1>1. /\ \A n \in DOMAIN v : n + 1 \in DOMAIN w /\ n + 1 > 1 /\ v[n] = w[n + 1] /\ n \in Nat
        /\ \A n \in DOMAIN w : n \in Nat /\ n >= 1 /\ (n > 1 => n - 1 \in DOMAIN v /\ v[n - 1] = w[n])
    BY TailIs
  <1>g. Gone(w, st) /\ CreatedFirst(w) /\ DeletedLast(w) /\ DeletionComes(w, st) /\ NewsTrue(w, st)
    BY DEF WireGood
  <1> HIDE DEF v
  <1>2. Gone(v, st)
    BY <1>1, <1>g DEF Gone
  <1>3. CreatedFirst(v)
    <2> SUFFICES ASSUME NEW m \in DOMAIN v, NEW n \in DOMAIN v, Creates(v[m]), n # m, v[n].comment = v[m].comment
                 PROVE  m < n
      BY DEF CreatedFirst
    <2>1. m + 1 \in DOMAIN w /\ n + 1 \in DOMAIN w /\ v[m] = w[m + 1] /\ v[n] = w[n + 1] /\ m \in Nat /\ n \in Nat
      BY <1>1
    <2>2. m + 1 < n + 1
      BY <1>g, <2>1 DEF CreatedFirst
    <2> QED BY <2>1, <2>2
  <1>4. DeletedLast(v)
    <2> SUFFICES ASSUME NEW m \in DOMAIN v, NEW n \in DOMAIN v, m < n, Deletes(v[m])
                 PROVE  v[n].comment \notin Under(v[m].comment)
      BY DEF DeletedLast
    <2>1. m + 1 \in DOMAIN w /\ n + 1 \in DOMAIN w /\ v[m] = w[m + 1] /\ v[n] = w[n + 1] /\ m \in Nat /\ n \in Nat
      BY <1>1
    <2>2. m + 1 < n + 1
      BY <2>1
    <2> QED BY <1>g, <2>1, <2>2 DEF DeletedLast
  <1>5. DeletionComes(v, st)
    <2> SUFFICES ASSUME NEW m \in DOMAIN v, Creates(v[m]), v[m].comment \notin DOMAIN st
                 PROVE  \E n \in DOMAIN v : m < n /\ Deletes(v[n]) /\ v[m].comment \in Under(v[n].comment)
      BY DEF DeletionComes
    <2>1. m + 1 \in DOMAIN w /\ v[m] = w[m + 1] /\ m \in Nat
      BY <1>1
    <2>2. PICK n \in DOMAIN w : m + 1 < n /\ Deletes(w[n]) /\ v[m].comment \in Under(w[n].comment)
      BY <1>g, <2>1 DEF DeletionComes
    <2>3. n \in Nat /\ n - 1 \in DOMAIN v /\ v[n - 1] = w[n] /\ m < n - 1
      BY <1>1, <2>1, <2>2
    <2> QED BY <2>2, <2>3
  <1>6. NewsTrue(v, st)
    <2> SUFFICES ASSUME NEW n \in DOMAIN v, ~Deletes(v[n]), v[n].comment \in DOMAIN st
                 PROVE  AgreesAfter(v, n, v[n].comment, v[n].entry, st[v[n].comment])
      BY DEF NewsTrue
    <2>1. n + 1 \in DOMAIN w /\ v[n] = w[n + 1] /\ n \in Nat
      BY <1>1
    <2>2. AgreesAfter(w, n + 1, v[n].comment, v[n].entry, st[v[n].comment])
      BY <1>g, <2>1 DEF NewsTrue
    <2> QED BY <2>1, <2>2, AgreesShift DEF v
  <1> QED BY <1>2, <1>3, <1>4, <1>5, <1>6 DEF WireGood, v

(* A doomed comment that the next event leaves there, or to come, is still *)
(* doomed.                                                                 *)
LEMMA DoomedNext ==
  ASSUME NEW w \in Seq(Event), w # <<>>, DeletedLast(w), NEW d \in Timelines, NEW f, f = Shown(w[1], d),
         NEW x, Doomed(d, w, x), x \in DOMAIN f \cup Coming(Tail(w))
  PROVE  Doomed(f, Tail(w), x)
  <1> DEFINE v == Tail(w)
             b == w[1].comment
             D == DOMAIN d
  <1>1. /\ 1 \in DOMAIN w /\ w[1] \in Event
        /\ \A n \in DOMAIN v : n + 1 \in DOMAIN w /\ n + 1 > 1 /\ v[n] = w[n + 1] /\ n \in Nat
        /\ \A n \in DOMAIN w : n \in Nat /\ n >= 1 /\ (n > 1 => n - 1 \in DOMAIN v /\ v[n - 1] = w[n])
    BY TailIs
  <1>2. PICK n \in DOMAIN w, K \in SUBSET Comments : SweptBy(d, w, x, n, K)
    BY DEF Doomed
  <1> DEFINE a == w[n].comment
  <1>3. a \in Comments /\ b \in Comments
    BY <1>1, EventIs
  <1>4. /\ Creates(w[1]) => DOMAIN f = DOMAIN d \cup {b}
        /\ Deletes(w[1]) => DOMAIN f = DOMAIN d \ Cascade(d, b)
        /\ ~Creates(w[1]) /\ ~Deletes(w[1]) => DOMAIN f = DOMAIN d
    BY <1>1, ShownIs DEF Creates, Deletes
  <1>5. D \in SUBSET Comments /\ Cascade(d, b) = D \cap Least(D, b)
    BY <1>3, TimelinesAre, CascadeIs
  <1>s. /\ Deletes(w[n]) /\ x \in Least(K, a)
        /\ \A y \in K : Parent[y] \in K \cup {a}
        /\ \A y \in K : y \in D \/ \E m \in DOMAIN w : m < n /\ Creates(w[m]) /\ w[m].comment = y
        /\ \A y \in K : \A m \in DOMAIN w : m < n /\ Deletes(w[m]) => w[m].comment # y
        /\ \A m \in DOMAIN w : m > n /\ Creates(w[m]) => w[m].comment # x
    BY <1>2 DEF SweptBy
  <1>6. CASE n = 1
    <2>1. \A y \in K : y \in D
      BY <1>1, <1>6, <1>s
    <2>2. Least(K, b) \subseteq Least(D, b)
      BY <1>3, <1>5, <2>1, LeastGrows
    <2>3. x \in Least(D, b) /\ Deletes(w[1]) /\ ~Creates(w[1])
      BY <1>6, <1>s, <2>2 DEF Deletes, Creates
    <2>4. x \notin DOMAIN f
      BY <1>4, <1>5, <2>3 DEF D
    <2>5. x \in Coming(v)
      BY <2>4
    <2>6. PICK j \in DOMAIN v : Creates(v[j]) /\ v[j].comment = x
      BY <2>5, ComingIs
    <2>7. j + 1 \in DOMAIN w /\ j + 1 > n /\ Creates(w[j + 1]) /\ w[j + 1].comment = x
      BY <1>1, <1>6, <2>6
    <2> QED BY <1>s, <2>7
  <1>7. CASE n # 1
    <2>0. n > 1 /\ n \in Nat
      BY <1>1, <1>7
    <2>1. n - 1 \in DOMAIN v /\ v[n - 1] = w[n]
      BY <1>1, <2>0
    <2>2. \A y \in K : y \in D => y \in DOMAIN f
      <3>1. CASE ~Deletes(w[1])
        BY <1>4, <3>1 DEF D
      <3>2. CASE Deletes(w[1])
        <4> DEFINE S == Under(b) \ K
        <4>1. /\ Under(b) \in SUBSET Comments /\ b \in Under(b)
              /\ \A y \in Comments : Parent[y] \in Under(b) => y \in Under(b)
          BY <1>3, UnderIs
        <4>2. b \notin K
          BY <1>1, <1>s, <2>0, <3>2
        <4>3. a \notin Under(b)
          BY <1>1, <2>0, <3>2 DEF DeletedLast
        <4>4. S \in SUBSET Comments /\ b \in S /\ \A y \in D : Parent[y] \in S => y \in S
          BY <1>5, <1>s, <4>1, <4>2, <4>3
        <4> HIDE DEF S, D
        <4>5. Least(D, b) \subseteq S
          BY <1>3, <1>5, <4>4, LeastHolds
        <4> QED BY <1>4, <1>5, <3>2, <4>5 DEF S, D
      <3> QED BY <3>1, <3>2
    <2>3. SweptBy(f, v, x, n - 1, K)
      <3>1. n - 1 \in DOMAIN v /\ Deletes(v[n - 1]) /\ x \in Least(K, v[n - 1].comment)
        BY <1>s, <2>1
      <3>2. \A y \in K : Parent[y] \in K \cup {v[n - 1].comment}
        BY <1>s, <2>1
      <3>3. ASSUME NEW y \in K
            PROVE  y \in DOMAIN f \/ \E m \in DOMAIN v : m < n - 1 /\ Creates(v[m]) /\ v[m].comment = y
        <4>1. CASE y \in D
          BY <2>2, <4>1
        <4>2. CASE y \notin D
          <5>1. PICK m \in DOMAIN w : m < n /\ Creates(w[m]) /\ w[m].comment = y
            BY <1>s, <4>2
          <5>2. CASE m = 1
            BY <1>4, <5>1, <5>2
          <5>3. CASE m # 1
            <6>1. m \in Nat /\ m - 1 \in DOMAIN v /\ v[m - 1] = w[m]
              BY <1>1, <5>3
            <6>2. m - 1 < n - 1
              BY <2>0, <5>1, <6>1
            <6> QED BY <5>1, <6>1, <6>2
          <5> QED BY <5>2, <5>3
        <4> QED BY <4>1, <4>2
      <3>4. ASSUME NEW y \in K, NEW m \in DOMAIN v, m < n - 1, Deletes(v[m])
            PROVE  v[m].comment # y
        <4>1. m + 1 \in DOMAIN w /\ v[m] = w[m + 1] /\ m + 1 < n
          BY <1>1, <2>0, <3>4
        <4> QED BY <1>s, <3>4, <4>1
      <3>5. ASSUME NEW m \in DOMAIN v, m > n - 1, Creates(v[m])
            PROVE  v[m].comment # x
        <4>1. m + 1 \in DOMAIN w /\ v[m] = w[m + 1] /\ m + 1 > n
          BY <1>1, <2>0, <3>5
        <4> QED BY <1>s, <3>5, <4>1
      <3> QED BY <3>1, <3>2, <3>3, <3>4, <3>5 DEF SweptBy
    <2> QED BY <2>1, <2>3 DEF Doomed
  <1> QED BY <1>6, <1>7

LEMMA DataGoodNext ==
  ASSUME NEW w \in Seq(Event), w # <<>>, NEW st \in Timelines, WireGood(w, st),
         NEW d \in Timelines, DataGood(d, w, st), NEW f, f = Shown(w[1], d)
  PROVE  f \in Timelines /\ DataGood(f, Tail(w), st)
  <1> DEFINE v == Tail(w)
             m == w[1]
             b == m.comment
  <1>1. /\ 1 \in DOMAIN w /\ m \in Event
        /\ \A n \in DOMAIN v : n + 1 \in DOMAIN w /\ n + 1 > 1 /\ v[n] = w[n + 1] /\ n \in Nat
        /\ \A n \in DOMAIN w : n \in Nat /\ n >= 1 /\ (n > 1 => n - 1 \in DOMAIN v /\ v[n - 1] = w[n])
    BY TailIs
  <1>2. b \in Comments /\ m.kind \in Acts
    BY <1>1, EventIs
  <1>g. Gone(w, st) /\ DeletedLast(w) /\ NewsTrue(w, st)
    BY DEF WireGood
  <1>d. /\ DOMAIN st \subseteq DOMAIN d \cup Coming(w)
        /\ \A x \in (DOMAIN d \cup Coming(w)) \ DOMAIN st : Doomed(d, w, x)
        /\ \A x \in DOMAIN st \cap DOMAIN d : AgreesAfter(w, 0, x, d[x], st[x])
    BY DEF DataGood
  <1> HIDE DEF v
  <1>3. /\ f \in Timelines
        /\ m.kind = "create" => DOMAIN f = DOMAIN d \cup {b} /\ (b \notin DOMAIN d => f[b] = m.entry)
        /\ m.kind = "delete" => DOMAIN f = DOMAIN d \ Cascade(d, b)
        /\ m.kind \notin {"create", "delete"} => DOMAIN f = DOMAIN d
        /\ m.kind \in {"edit", "resolve"} /\ b \in DOMAIN d => f[b] = m.entry
        /\ m.kind = "react" /\ b \in DOMAIN d =>
             f[b].text = d[b].text /\ f[b].resolved = d[b].resolved /\ f[b].liked = m.entry.liked
        /\ \A x \in DOMAIN f : x \in DOMAIN d /\ (x # b \/ m.kind \in {"create", "delete"}) => f[x] = d[x]
    BY <1>1, ShownIs
  <1>4. /\ Coming(v) \subseteq Coming(w)
        /\ m.kind = "create" => b \in Coming(w)
        /\ \A x \in Coming(w) : x \in Coming(v) \/ (x = b /\ m.kind = "create")
    <2>1. ASSUME NEW x \in Coming(v) PROVE x \in Coming(w)
      <3>1. PICK n \in DOMAIN v : Creates(v[n]) /\ v[n].comment = x
        BY ComingIs
      <3>2. n + 1 \in DOMAIN w /\ v[n] = w[n + 1]
        BY <1>1
      <3> QED BY <3>1, <3>2, ComingIs
    <2>2. m.kind = "create" => b \in Coming(w)
      BY <1>1, ComingIs DEF Creates
    <2>3. ASSUME NEW x \in Coming(w), ~(x = b /\ m.kind = "create") PROVE x \in Coming(v)
      <3>1. PICK n \in DOMAIN w : Creates(w[n]) /\ w[n].comment = x
        BY ComingIs
      <3>2. n # 1
        BY <2>3, <3>1 DEF Creates
      <3>3. n - 1 \in DOMAIN v /\ v[n - 1] = w[n]
        BY <1>1, <3>2
      <3> QED BY <3>1, <3>3, ComingIs
    <2> QED BY <2>1, <2>2, <2>3
  <1>5. ASSUME NEW x \in DOMAIN st
        PROVE  x \in DOMAIN f \cup Coming(v)
    <2>1. x \in DOMAIN d \cup Coming(w)
      BY <1>d
    <2>2. CASE m.kind = "delete"
      <3>1. DOMAIN d \in SUBSET Comments /\ Cascade(d, b) = DOMAIN d \cap Least(DOMAIN d, b)
        BY <1>2, TimelinesAre, CascadeIs
      <3>2. Least(DOMAIN d, b) \subseteq Under(b)
        BY <1>2, <3>1, LeastGrows DEF Under
      <3>3. x \notin Under(b)
        BY <1>1, <1>g, <2>2 DEF Gone, Deletes
      <3> QED BY <1>3, <1>4, <2>1, <2>2, <3>1, <3>2, <3>3
    <2>3. CASE m.kind # "delete"
      BY <1>3, <1>4, <2>1, <2>3
    <2> QED BY <2>2, <2>3
  <1>6. ASSUME NEW x \in (DOMAIN f \cup Coming(v)) \ DOMAIN st
        PROVE  Doomed(f, v, x)
    <2>1. x \in DOMAIN d \cup Coming(w)
      BY <1>3, <1>4
    <2>2. Doomed(d, w, x)
      BY <1>d, <2>1
    <2> QED BY <1>g, <2>2, DoomedNext DEF v
  <1>7. ASSUME NEW x \in DOMAIN st \cap DOMAIN f
        PROVE  AgreesAfter(v, 0, x, f[x], st[x])
    <2>n. m.kind # "delete" /\ x = b => AgreesAfter(w, 1, x, m.entry, st[x])
      BY <1>1, <1>g DEF NewsTrue, Deletes
    <2>1. CASE x \notin DOMAIN d
      <3>1. m.kind = "create" /\ x = b /\ f[x] = m.entry
        BY <1>3, <1>7, <2>1
      <3>2. AgreesAfter(w, 0 + 1, x, f[x], st[x])
        BY <2>n, <3>1
      <3>3. 0 \in Nat
        OBVIOUS
      <3> QED BY <3>2, <3>3, AgreesShift DEF v
    <2>2. CASE x \in DOMAIN d
      <3> DEFINE e == d[x]
                 g == f[x]
                 s == st[x]
                 n == m.entry
      <3>1. AgreesAfter(w, 0, x, e, s)
        BY <1>d, <2>2
      <3>2. AgreesAfter(w, 1, x, n, s) \/ (~Whole(m, x) /\ ~Likes(m, x))
        BY <2>n DEF Whole, Likes
      <3>3. /\ Whole(m, x) => g.text = n.text /\ g.resolved = n.resolved
            /\ ~Whole(m, x) => g.text = e.text /\ g.resolved = e.resolved
            /\ Likes(m, x) => g.liked = n.liked
            /\ ~Likes(m, x) => g.liked = e.liked
        BY <1>2, <1>3, <1>7, <2>2 DEF Whole, Likes, Acts
      <3> HIDE DEF e, g, s, n
      <3>4. AgreesAfter(v, 0, x, g, s)
        BY <3>1, <3>2, <3>3, AgreesNext DEF v
      <3> QED BY <3>4 DEF g, s
    <2> QED BY <2>1, <2>2
  <1>8. DOMAIN st \subseteq DOMAIN f \cup Coming(v)
    BY <1>5
  <1> QED BY <1>3, <1>6, <1>7, <1>8 DEF DataGood, v

-----------------------------------------------------------------------------
(* The answers to a fetch and to a create.                                 *)
OrphansOn(w, st) == \E n \in DOMAIN w :
  LET c == w[n].comment
  IN  /\ w[n].kind = "create" /\ c \notin DOMAIN st
      /\ Parent[c] # None /\ Parent[Parent[c]] # None

LEMMA AnswerGood ==
  ASSUME NEW w \in Seq(Event), NEW st \in Timelines, WireGood(w, st), ~OrphansOn(w, st)
  PROVE  DataGood(st, w, st)
  <1>g. CreatedFirst(w) /\ DeletionComes(w, st)
    BY DEF WireGood
  <1>n. \A j \in DOMAIN w : j \in Nat
    OBVIOUS
  <1>1. ASSUME NEW x \in (DOMAIN st \cup Coming(w)) \ DOMAIN st
        PROVE  Doomed(st, w, x)
    <2>1. PICK m \in DOMAIN w : Creates(w[m]) /\ w[m].comment = x
      BY ComingIs
    <2>2. PICK n \in DOMAIN w : m < n /\ Deletes(w[n]) /\ x \in Under(w[n].comment)
      BY <1>g, <2>1 DEF DeletionComes
    <2>c. \A j \in DOMAIN w : Creates(w[j]) /\ w[j].comment = x => j = m
      <3> SUFFICES ASSUME NEW j \in DOMAIN w, Creates(w[j]), w[j].comment = x, j # m PROVE FALSE
        OBVIOUS
      <3>1. m < j /\ j < m
        BY <1>g, <2>1 DEF CreatedFirst
      <3> QED BY <1>n, <3>1
    <2>x. x \in Comments
      BY <2>1, EventIs
    <2>3. CASE \E j \in DOMAIN w : Deletes(w[j]) /\ w[j].comment = x
      <3>1. PICK j \in DOMAIN w : Deletes(w[j]) /\ w[j].comment = x
        BY <2>3
      <3>2. j # m
        BY <2>1, <3>1 DEF Creates, Deletes
      <3>3. m < j
        BY <1>g, <2>1, <3>1, <3>2 DEF CreatedFirst
      <3>4. x \in Least({}, x)
        BY <2>x, LeastIs
      <3>5. ~\E k \in DOMAIN w : k > j /\ Creates(w[k]) /\ w[k].comment = x
        BY <1>n, <2>c, <3>3
      <3>6. SweptBy(st, w, x, j, {})
        BY <3>1, <3>4, <3>5 DEF SweptBy
      <3> QED BY <3>6 DEF Doomed
    <2>4. CASE ~\E j \in DOMAIN w : Deletes(w[j]) /\ w[j].comment = x
      <3> DEFINE a == w[n].comment
      <3>1. a \in Comments /\ x # a /\ x \in Under(a)
        BY <2>2, <2>4, EventIs
      <3>2. Parent[x] = None \/ Parent[Parent[x]] = None
        BY <2>1 DEF OrphansOn, Creates
      <3> HIDE DEF a
      <3>3. Under(a) \in SUBSET Comments /\ \A y \in Under(a) : y # a => Parent[y] \in Under(a)
        BY <3>1, UnderIs
      <3>4. Parent[x] \in Under(a) /\ None \notin Under(a)
        BY <3>1, <3>3, TimelineAssumption DEF TimelineAssumption
      <3>5. Parent[x] = a
        BY <3>2, <3>3, <3>4
      <3>6. a \in Least({x}, a) /\ \A y \in {x} : Parent[y] \in Least({x}, a) => y \in Least({x}, a)
        BY <2>x, <3>1, LeastIs
      <3>7. x \in Least({x}, a)
        BY <3>5, <3>6
      <3>8. ~\E k \in DOMAIN w : k > n /\ Creates(w[k]) /\ w[k].comment = x
        BY <1>n, <2>2, <2>c
      <3>9. SweptBy(st, w, x, n, {x})
        BY <2>1, <2>2, <2>4, <3>5, <3>7, <3>8 DEF SweptBy, a
      <3> QED BY <2>x, <3>9 DEF Doomed
    <2> QED BY <2>3, <2>4
  <1>2. \A x \in DOMAIN st \cap DOMAIN st : AgreesAfter(w, 0, x, st[x], st[x])
    BY DEF AgreesAfter
  <1> QED BY <1>1, <1>2 DEF DataGood

LEMMA AddedGood ==
  ASSUME NEW w \in Seq(Event), NEW st \in Timelines, WireGood(w, st), NEW d \in Timelines, DataGood(d, w, st),
         \A n \in DOMAIN w : Creates(w[n]) => w[n].entry = New,
         NEW c \in DOMAIN st, NEW f, f = IF c \in DOMAIN d THEN d ELSE With(d, c, New)
  PROVE  DataGood(f, w, st)
  <1>1. CASE c \in DOMAIN d
    BY <1>1
  <1>2. CASE c \notin DOMAIN d
    <2>2. f = With(d, c, New)
      BY <1>2
    <2>3. DOMAIN f = DOMAIN d \cup {c} /\ f[c] = New /\ \A x \in DOMAIN d : x # c => f[x] = d[x]
      BY <2>2 DEF With
    <2>4. /\ DOMAIN st \subseteq DOMAIN d \cup Coming(w)
          /\ \A x \in (DOMAIN d \cup Coming(w)) \ DOMAIN st : Doomed(d, w, x)
          /\ \A x \in DOMAIN st \cap DOMAIN d : AgreesAfter(w, 0, x, d[x], st[x])
      BY DEF DataGood
    <2>5. ASSUME NEW x \in (DOMAIN f \cup Coming(w)) \ DOMAIN st
          PROVE  Doomed(f, w, x)
      <3>1. Doomed(d, w, x)
        BY <2>3, <2>4
      <3>2. PICK n \in DOMAIN w, K \in SUBSET Comments : SweptBy(d, w, x, n, K)
        BY <3>1 DEF Doomed
      <3>3. SweptBy(f, w, x, n, K)
        BY <2>3, <3>2 DEF SweptBy
      <3> QED BY <3>3 DEF Doomed
    <2>6. ASSUME NEW x \in DOMAIN st \cap DOMAIN f
          PROVE  AgreesAfter(w, 0, x, f[x], st[x])
      <3>1. CASE x # c
        BY <2>3, <2>4, <2>6, <3>1
      <3>2. CASE x = c
        <4>1. PICK n \in DOMAIN w : Creates(w[n]) /\ w[n].comment = c
          BY <1>2, <2>4, ComingIs
        <4>2. AgreesAfter(w, n, c, New, st[c])
          BY <4>1 DEF WireGood, NewsTrue, Creates, Deletes
        <4>3. \A j \in DOMAIN w : j > n => j > 0
          OBVIOUS
        <4>4. AgreesAfter(w, 0, c, New, st[c])
          BY <4>2, <4>3 DEF AgreesAfter
        <4> QED BY <2>3, <3>2, <4>4
      <3> QED BY <3>1, <3>2
    <2>7. DOMAIN st \subseteq DOMAIN f \cup Coming(w)
      BY <2>3, <2>4
    <2> QED BY <2>5, <2>6, <2>7 DEF DataGood
  <1> QED BY <1>1, <1>2

(* With no event left, the list is what the server has.                    *)
LEMMA NothingComing ==
  ASSUME NEW w \in Seq(Event), w = <<>>, NEW st \in Timelines, NEW d \in Timelines, DataGood(d, w, st)
  PROVE  d = st
  <1>1. DOMAIN w = {}
    OBVIOUS
  <1>2. Coming(w) = {} /\ \A x : ~Doomed(d, w, x)
    BY <1>1 DEF Coming, Doomed
  <1>3. DOMAIN d = DOMAIN st
    BY <1>2 DEF DataGood
  <1>4. /\ d = [x \in DOMAIN d |-> d[x]] /\ \A x \in DOMAIN d : d[x] \in Entry
        /\ st = [x \in DOMAIN st |-> st[x]] /\ \A x \in DOMAIN st : st[x] \in Entry
    BY TimelinesAre
  <1>5. \A x \in DOMAIN d : d[x] = st[x]
    <2> SUFFICES ASSUME NEW x \in DOMAIN d PROVE d[x] = st[x]
      OBVIOUS
    <2>1. AgreesAfter(w, 0, x, d[x], st[x])
      BY <1>3 DEF DataGood
    <2>2. d[x].text = st[x].text /\ d[x].resolved = st[x].resolved /\ d[x].liked = st[x].liked
      BY <1>1, <2>1 DEF AgreesAfter
    <2> QED BY <1>3, <1>4, <2>2, EntriesEqual
  <1> QED BY <1>3, <1>4, <1>5

-----------------------------------------------------------------------------
(* The inductive invariant.                                                *)

(* What the server emits is one story, of comments that have their parents *)
(* until they are deleted.                                                 *)
WireInv ==
  /\ Threaded(stored) /\ (conn = "down" => wire = <<>>) /\ WireGood(wire, stored)
  /\ \A n \in DOMAIN wire : Creates(wire[n]) => wire[n].entry = New

(* A comment is created once, and nothing is said of it before.            *)
Waiting(c) == c \notin Initial /\ \A k \in Ops : op[k].kind = "create" /\ op[k].comment = c => op[k].phase = "sent"
NotBorn == \A c \in Comments : Waiting(c) => c \notin DOMAIN stored /\ \A n \in DOMAIN wire : wire[n].comment # c
BornOnce ==
  /\ \A j, k \in Ops : op[j].kind = "create" /\ op[k].kind = "create" /\ op[j].comment = op[k].comment => j = k
  /\ \A k \in Ops : op[k].kind = "create" => op[k].comment \notin Initial

(* No optimistic write is still to be settled.                             *)
Mine(o) == o.phase \in {"sent", "committed", "refused"}
Clean == \A k \in Ops : Mine(op[k]) => op[k].kind \notin Optimistic

Reading == \A k \in Ops : Mine(op[k]) => HasData(timeline)
Loading == Idle(timeline) /\ ~HasData(timeline) /\ open => gap

(* The answer under way and the list on the screen need only the events    *)
(* that are on the wire.                                                   *)
Trusted ==
  ~timeline.owed /\ ~gap =>
    /\ Back(timeline) => DataGood(timeline.fetch[2], wire, stored)
    /\ Idle(timeline) /\ HasData(timeline) /\ Clean /\ (open \/ ~timeline.stale) =>
         DataGood(timeline.data[1], wire, stored)

Told == Reading /\ Loading /\ Trusted

IInv == Typing /\ WireInv /\ NotBorn /\ BornOnce /\ Told

LEMMA IInvStart == Init => IInv
  <1> SUFFICES ASSUME Init PROVE IInv
    OBVIOUS
  <1>1. Typing
    BY TypingStart
  <1>2. wire = <<>> /\ DOMAIN wire = {} /\ DOMAIN stored = Initial /\ timeline = Absent /\ conn = "up"
    BY DEF Init
  <1>3. WireGood(wire, stored)
    BY <1>2 DEF WireGood, Gone, CreatedFirst, DeletedLast, DeletionComes, NewsTrue
  <1>4. Threaded(stored)
    BY <1>2, TimelineAssumption DEF Threaded, TimelineAssumption
  <1>5. \A k \in Ops : op[k].kind = "none" /\ op[k].phase = "none"
    BY DEF Init, NoOp
  <1>6. NotBorn /\ BornOnce
    BY <1>2, <1>5 DEF NotBorn, BornOnce, Waiting
  <1>7. Reading
    BY <1>5 DEF Reading, Mine
  <1>8. ~HasData(timeline) /\ ~Back(timeline) /\ ~open
    BY <1>2 DEF Absent, HasData, Back, Init
  <1> QED BY <1>1, <1>2, <1>3, <1>4, <1>6, <1>7, <1>8 DEF IInv, WireInv, Told, Loading, Trusted

LEMMA WireSame ==
  ASSUME IInv, stored' = stored, wire' = wire, conn' = conn
  PROVE  WireInv'
  BY DEF IInv, WireInv

(* The operations that could still create are those that could before.     *)
LEMMA BirthSame ==
  ASSUME IInv, stored' = stored, wire' = wire, \A c \in Comments : Waiting(c)' => Waiting(c)
  PROVE  NotBorn'
  BY DEF IInv, NotBorn

LEMMA OpsSame ==
  ASSUME IInv, op' = op
  PROVE  /\ BornOnce' /\ (Clean' <=> Clean) /\ (\A c \in Comments : Waiting(c)' => Waiting(c))
         /\ (HasData(timeline) => HasData(timeline')) => Reading'
  BY DEF IInv, BornOnce, Clean, Waiting, Told, Reading

LEMMA OpenKeeps ==
  ASSUME IInv, Open
  PROVE  WireInv' /\ NotBorn' /\ BornOnce' /\ Told'
  <1> DEFINE q == timeline
             r == Mount(q)
  <1>0. q \in Query(Timelines) /\ timeline' = r /\ op' = op /\ stored' = stored /\ wire' = wire /\ conn' = conn /\ gap' = gap
    BY DEF IInv, Typing, Open
  <1>1. WireInv' /\ NotBorn' /\ BornOnce'
    BY <1>0, WireSame, BirthSame, OpsSame
  <1>2. /\ r \in Query(Timelines) /\ r.data = q.data /\ (HasData(r) <=> HasData(q))
        /\ Sent(r) \/ (r = q /\ (Idle(q) => HasData(q) /\ ~q.stale))
    BY <1>0, MountIs
  <1> HIDE DEF r
  <1>3. (Sent(r) => ~Idle(r) /\ ~Back(r)) /\ (Back(r) => ~Idle(r))
    BY <1>2, QueryIs
  <1>4. Reading'
    BY <1>0, <1>2, OpsSame
  <1>5. Loading'
    BY <1>0, <1>2, <1>3 DEF Loading
  <1>6. Trusted'
    <2>1. CASE Sent(r)
      BY <1>0, <1>3, <2>1 DEF Trusted
    <2>2. CASE r = q /\ (Idle(q) => HasData(q) /\ ~q.stale)
      <3>1. Trusted /\ (Clean' <=> Clean)
        BY <1>0, OpsSame DEF IInv, Told
      <3> QED BY <1>0, <2>2, <3>1 DEF Trusted
    <2> QED BY <1>2, <2>1, <2>2
  <1> QED BY <1>1, <1>4, <1>5, <1>6 DEF Told

LEMMA CloseKeeps ==
  ASSUME IInv, Close
  PROVE  WireInv' /\ NotBorn' /\ BornOnce' /\ Told'
  <1>0. /\ timeline' = timeline /\ op' = op /\ stored' = stored /\ wire' = wire /\ conn' = conn /\ gap' = gap
        /\ open' = FALSE /\ open
    BY DEF Close
  <1>1. WireInv' /\ NotBorn' /\ BornOnce' /\ Reading' /\ (Clean' <=> Clean)
    BY <1>0, WireSame, BirthSame, OpsSame
  <1>2. Loading'
    BY <1>0 DEF Loading
  <1>3. Trusted
    BY DEF IInv, Told
  <1>4. Trusted'
    BY <1>0, <1>1, <1>3 DEF Trusted
  <1> QED BY <1>1, <1>2, <1>4 DEF Told

LEMMA DeliverKeeps ==
  ASSUME IInv, Deliver
  PROVE  WireInv' /\ NotBorn' /\ BornOnce' /\ Told'
  <1> DEFINE q == timeline
             r == timeline'
             m == wire[1]
  <1>0. /\ q \in Query(Timelines) /\ stored \in Timelines /\ wire \in Seq(Event) /\ wire # <<>> /\ wire' = Tail(wire)
        /\ conn # "down" /\ op' = op /\ stored' = stored /\ conn' = conn /\ gap' = gap /\ open' = open
        /\ WireInv /\ Told /\ NotBorn
    BY DEF IInv, Typing, Deliver
  <1>w. /\ 1 \in DOMAIN wire /\ m \in Event
        /\ \A n \in DOMAIN wire' : n + 1 \in DOMAIN wire /\ wire'[n] = wire[n + 1]
    BY <1>0, TailIs
  <1>1. WireInv'
    <2>1. WireGood(wire', stored)
      BY <1>0, WireGoodNext DEF WireInv
    <2>2. \A n \in DOMAIN wire' : Creates(wire'[n]) => wire'[n].entry = New
      BY <1>0, <1>w DEF WireInv
    <2> QED BY <1>0, <2>1, <2>2 DEF WireInv
  <1>2. BornOnce' /\ (Clean' <=> Clean) /\ \A c \in Comments : Waiting(c)' => Waiting(c)
    BY <1>0, OpsSame
  <1>3. NotBorn'
    BY <1>0, <1>w, <1>2 DEF NotBorn
  <1>4. CASE ~open
    <2>1. r = Flag(q)
      BY <1>4 DEF Deliver
    <2> HIDE DEF r
    <2>2. r \in Query(Timelines) /\ (HasData(r) <=> HasData(q)) /\ Meets(r, q) /\ (HasData(q) => r.stale)
      BY <1>0, <2>1, FlagIs
    <2> USE DEF r
    <2>3. Reading'
      BY <1>0, <2>2, OpsSame
    <2>4. Loading' /\ Trusted'
      BY <1>0, <1>4, <2>2 DEF Loading, Trusted, Meets
    <2> QED BY <1>1, <1>2, <1>3, <2>3, <2>4 DEF Told
  <1>5. CASE open
    <2>1. r \in {Flag(Granular(q, m)), Granular(Flag(q), m)}
      BY <1>5 DEF Deliver
    <2> HIDE DEF r, m
    <2>2. r \in Query(Timelines) /\ Meets(r, q) /\ (HasData(q) => HasData(r) /\ r.data[1] = Shown(m, q.data[1]))
      BY <1>0, <1>w, <2>1, HandledIs
    <2> USE DEF r
    <2>3. Reading'
      BY <1>0, <2>2, OpsSame
    <2>4. Loading'
      BY <1>0, <2>2 DEF Loading, Told, Meets
    <2>5. Trusted'
      <3> SUFFICES ASSUME ~r.owed, ~gap, Idle(r), HasData(r), Clean
                   PROVE  DataGood(r.data[1], wire', stored)
        BY <1>0, <1>2, <2>2 DEF Trusted, Meets
      <3>1. ~q.owed /\ Idle(q)
        BY <2>2 DEF Meets
      <3>2. HasData(q)
        BY <1>0, <1>5, <3>1 DEF Told, Loading
      <3> DEFINE d == q.data[1]
                 f == r.data[1]
      <3>3. d \in Timelines /\ DataGood(d, wire, stored)
        BY <1>0, <1>5, <3>1, <3>2, QueryIs DEF Told, Trusted
      <3>4. f = Shown(wire[1], d) /\ WireGood(wire, stored)
        BY <1>0, <2>2, <3>2 DEF m, WireInv
      <3> HIDE DEF d, f
      <3>5. DataGood(f, Tail(wire), stored)
        BY <1>0, <3>3, <3>4, DataGoodNext
      <3> QED BY <1>0, <3>5 DEF f
    <2> QED BY <1>1, <1>2, <1>3, <2>3, <2>4, <2>5 DEF Told
  <1> QED BY <1>0, <1>4, <1>5

LEMMA SocketKeeps ==
  ASSUME IInv, Drop \/ Reconnect
  PROVE  WireInv' /\ NotBorn' /\ BornOnce' /\ Told'
  <1> DEFINE q == timeline
  <1>0. /\ q \in Query(Timelines) /\ op' = op /\ stored' = stored /\ open' = open
        /\ WireInv /\ Told /\ NotBorn
    BY DEF IInv, Typing, Drop, Reconnect
  <1>2. BornOnce' /\ (Clean' <=> Clean) /\ \A c \in Comments : Waiting(c)' => Waiting(c)
    BY <1>0, OpsSame
  <1>3. CASE Drop
    <2>1. wire' = <<>> /\ DOMAIN wire' = {} /\ gap' = (gap \/ wire # <<>>) /\ timeline' = timeline
      BY <1>3 DEF Drop
    <2>2. WireInv'
      <3>1. WireGood(wire', stored)
        BY <2>1 DEF WireGood, Gone, CreatedFirst, DeletedLast, DeletionComes, NewsTrue
      <3> QED BY <1>0, <2>1, <3>1 DEF WireInv
    <2>3. NotBorn'
      BY <1>0, <1>2, <2>1 DEF NotBorn
    <2>4. Reading' /\ Loading'
      BY <1>0, <2>1, OpsSame DEF Told, Loading
    <2>5. Trusted'
      <3>1. CASE wire = <<>>
        BY <1>0, <1>2, <2>1, <3>1 DEF Trusted, Told
      <3>2. CASE wire # <<>>
        BY <2>1, <3>2 DEF Trusted
      <3> QED BY <3>1, <3>2
    <2> QED BY <1>2, <2>2, <2>3, <2>4, <2>5 DEF Told
  <1>4. CASE Reconnect
    <2>1. /\ conn = "down" /\ conn' = "again" /\ wire' = wire /\ gap' = (gap /\ ~open)
          /\ timeline' = IF open THEN Invalidate(q, TRUE) ELSE q
      BY <1>4 DEF Reconnect
    <2>2. WireInv'
      BY <1>0, <2>1 DEF WireInv
    <2>3. NotBorn'
      BY <1>0, <1>2, <2>1, BirthSame
    <2>4. CASE open
      <3> DEFINE r == Invalidate(q, TRUE)
      <3>1. ~Idle(r) /\ (Back(r) => r.owed) /\ (HasData(r) <=> HasData(q))
        BY <1>0, InvalidateIs
      <3>2. timeline' = r
        BY <2>1, <2>4
      <3> HIDE DEF r
      <3>3. Reading'
        BY <1>0, <3>1, <3>2, OpsSame
      <3>4. Loading' /\ Trusted'
        BY <3>1, <3>2 DEF Loading, Trusted
      <3> QED BY <1>2, <2>2, <2>3, <3>3, <3>4 DEF Told
    <2>5. CASE ~open
      <3>1. timeline' = timeline
        BY <2>1, <2>5
      <3>2. Reading' /\ Loading'
        BY <1>0, <2>1, <2>5, <3>1, OpsSame DEF Loading
      <3>3. (gap' <=> gap) /\ Trusted
        BY <1>0, <2>1, <2>5 DEF Told, IInv, Typing
      <3>4. Trusted'
        BY <1>0, <1>2, <2>1, <2>5, <3>1, <3>3 DEF Trusted
      <3> QED BY <1>2, <2>2, <2>3, <3>2, <3>4 DEF Told
    <2> QED BY <2>4, <2>5
  <1> QED BY <1>3, <1>4

LEMMA FetchKeeps ==
  ASSUME IInv, Fetch
  PROVE  WireInv' /\ NotBorn' /\ BornOnce' /\ Told'
  <1> DEFINE q == timeline
             r == timeline'
  <1>0. /\ q \in Query(Timelines) /\ stored \in Timelines /\ wire \in Seq(Event)
        /\ op' = op /\ stored' = stored /\ open' = open /\ wire' = wire /\ conn' = conn
        /\ WireGood(wire, stored) /\ Trusted
    BY DEF IInv, Typing, Fetch, WireInv, Told
  <1>1. WireInv' /\ NotBorn' /\ BornOnce' /\ (Clean' <=> Clean)
    BY <1>0, WireSame, BirthSame, OpsSame
  <1>2. CASE Sent(q) /\ r = Answer(q, stored) /\ gap' = Orphans
    <2> DEFINE a == Answer(q, stored)
    <2>a. a.data = q.data
      BY <1>0, FetchIs
    <2>b. ~Idle(a)
      BY <1>0, FetchIs
    <2>c. a.fetch[2] = stored
      BY <1>0 DEF Answer, Query
    <2>0. a.data = q.data /\ ~Idle(a) /\ a.fetch[2] = stored
      BY <2>a, <2>b, <2>c
    <2> HIDE DEF a
    <2>1. r.data = q.data /\ ~Idle(r) /\ r.fetch[2] = stored
      BY <1>2, <2>0 DEF a
    <2> HIDE DEF r
    <2>2. HasData(r) <=> HasData(q)
      BY <2>1 DEF HasData
    <2> USE DEF r
    <2>3. Reading' /\ Loading'
      BY <1>0, <2>1, <2>2, OpsSame DEF Loading
    <2>4. ~gap' => DataGood(stored, wire, stored)
      <3>1. Orphans <=> OrphansOn(wire, stored)
        BY DEF Orphans, OrphansOn
      <3>2. ~OrphansOn(wire, stored) => DataGood(stored, wire, stored)
        BY <1>0, AnswerGood
      <3> QED BY <1>2, <3>1, <3>2
    <2>5. Trusted'
      BY <1>0, <2>1, <2>4 DEF Trusted
    <2> QED BY <1>1, <2>3, <2>5 DEF Told
  <1>3. CASE Back(q) /\ r = Land(q) /\ gap' = gap
    <2>0. r = Land(q)
      BY <1>3
    <2> HIDE DEF r
    <2>1. HasData(r) /\ r.data[1] = q.fetch[2] /\ r.owed = q.owed /\ ~Back(r) /\ Idle(r)
      BY <1>0, <1>3, <2>0, LandIs
    <2> USE DEF r
    <2>2. Reading' /\ Loading'
      BY <1>0, <2>1, OpsSame DEF Loading
    <2>3. Trusted'
      BY <1>0, <1>3, <2>1 DEF Trusted
    <2> QED BY <1>1, <2>2, <2>3 DEF Told
  <1>4. CASE r = Fail(q) /\ gap' = TRUE
    <2>1. r.data = q.data
      BY <1>0, <1>4, FetchIs
    <2>2. HasData(r) <=> HasData(q)
      BY <2>1 DEF HasData
    <2>3. Reading' /\ Loading' /\ Trusted'
      BY <1>0, <1>4, <2>2, OpsSame DEF Loading, Trusted
    <2> QED BY <1>1, <2>3 DEF Told
  <1> QED BY <1>2, <1>3, <1>4 DEF Fetch

(* A mutation goes on to another phase.                                    *)
LEMMA PhaseKeeps ==
  ASSUME IInv, NEW k \in Ops, op[k] # NoOp, NEW p \in {"committed", "refused", "settled"},
         op' = [op EXCEPT ![k].phase = p] \/ op' = [op EXCEPT ![k].phase = p, ![k].prev = <<>>]
  PROVE  /\ BornOnce' /\ \A c \in Comments : Waiting(c)' => Waiting(c) /\ ~(op[k].kind = "create" /\ op[k].comment = c)
         /\ op'[k].kind = op[k].kind /\ op'[k].phase = p /\ \A j \in Ops : j # k => op'[j] = op[j]
  <1>1. /\ op'[k].kind = op[k].kind /\ op'[k].comment = op[k].comment /\ op'[k].phase = p
        /\ \A j \in Ops : j # k => op'[j] = op[j]
    BY PhaseMoves DEF IInv
  <1>2. \A j \in Ops : op'[j].kind = op[j].kind /\ op'[j].comment = op[j].comment
    BY <1>1
  <1>3. BornOnce'
    BY <1>2 DEF IInv, BornOnce
  <1>4. ASSUME NEW c \in Comments, Waiting(c)'
        PROVE  Waiting(c) /\ ~(op[k].kind = "create" /\ op[k].comment = c)
    BY <1>1, <1>2, <1>4 DEF Waiting
  <1> QED BY <1>1, <1>3, <1>4

LEMMA SettleKeeps ==
  ASSUME IInv, NEW k \in Ops, Settle(k)
  PROVE  WireInv' /\ NotBorn' /\ BornOnce' /\ Told'
  <1> DEFINE q == timeline
             r == timeline'
             c == op[k].comment
  <1>0. /\ q \in Query(Timelines) /\ stored \in Timelines /\ wire \in Seq(Event)
        /\ stored' = stored /\ open' = open /\ wire' = wire /\ conn' = conn /\ open \in BOOLEAN
        /\ op[k].phase \in {"committed", "refused"} /\ gap' = (gap \/ Hides(k)) /\ gap \in BOOLEAN
        /\ WireInv /\ Told
    BY DEF IInv, Typing, Settle
  <1>1. op[k] # NoOp
    BY <1>0 DEF NoOp
  <1>2. /\ BornOnce' /\ \A x \in Comments : Waiting(x)' => Waiting(x)
        /\ op'[k].phase = "settled" /\ \A j \in Ops : j # k => op'[j] = op[j]
    BY <1>1, PhaseKeeps DEF Settle
  <1>3. WireInv' /\ NotBorn'
    BY <1>0, <1>2, WireSame, BirthSame
  <1>4. HasData(q)
    BY <1>0 DEF Told, Reading, Mine
  <1>5. HasData(r) => Reading' /\ Loading'
    BY DEF Reading, Loading
  <1>6. op[k].kind = "create" /\ Clean' => Clean
    BY <1>2 DEF Clean, Mine, Optimistic
  <1>7. CASE op[k].kind = "create" /\ op[k].phase = "committed"
    <2>1. c \in Comments /\ New \in Entry
      <3>1. op[k] = NoOp \/ op[k] \in Mutation
        BY DEF IInv, Typing, OpsTyped
      <3> QED BY <1>1, <3>1, MutationIs DEF New, Entry
    <2>2. r = AddEntry(q, c, New)
      BY <1>7 DEF Settle
    <2> DEFINE d == q.data[1]
               e == New
               f == IF c \in DOMAIN d THEN d ELSE With(d, c, e)
    <2>3. d \in Timelines
      BY <1>0, <1>4, QueryIs
    <2> HIDE DEF r, c, d, e
    <2>4. r = AddEntry(q, c, e) /\ e \in Entry
      BY <2>1, <2>2 DEF e
    <2>5. HasData(r) /\ Meets(r, q) /\ r.data[1] = f
      BY <1>0, <1>4, <2>1, <2>4, AddEntryIs DEF d
    <2> HIDE DEF f
    <2>6. ASSUME ~r.owed, ~gap', Idle(r), Clean'
          PROVE  DataGood(f, wire, stored)
      <3>1. ~q.owed /\ Idle(q) /\ ~gap /\ ~Hides(k) /\ Clean
        BY <1>0, <1>6, <1>7, <2>5, <2>6 DEF Meets
      <3>2. (open \/ ~q.stale) /\ c \in DOMAIN stored
        BY <1>7, <3>1 DEF Hides, c
      <3>3. DataGood(d, wire, stored)
        BY <1>0, <1>4, <3>1, <3>2 DEF Told, Trusted, d
      <3>4. WireGood(wire, stored) /\ \A n \in DOMAIN wire : Creates(wire[n]) => wire[n].entry = New
        BY <1>0 DEF WireInv
      <3>5. f = IF c \in DOMAIN d THEN d ELSE With(d, c, New)
        BY DEF f, e
      <3> QED BY <1>0, <2>3, <3>2, <3>3, <3>4, <3>5, AddedGood
    <2>7. Trusted'
      BY <1>0, <2>5, <2>6 DEF Trusted, Meets, r
    <2> QED BY <1>2, <1>3, <1>5, <2>5, <2>7 DEF Told, r
  <1>8. CASE op[k].kind = "create" /\ op[k].phase = "refused"
    <2>1. timeline' = timeline
      BY <1>8 DEF Settle
    <2>2. ~gap' => ~gap
      BY <1>0
    <2>3. Trusted /\ (HasData(timeline') => Reading' /\ Loading')
      BY <1>0, <1>5 DEF Told
    <2> HIDE DEF r
    <2>4. Trusted'
      BY <1>0, <1>6, <1>8, <2>1, <2>2, <2>3 DEF Trusted
    <2> QED BY <1>2, <1>3, <1>4, <2>1, <2>3, <2>4 DEF Told
  <1>9. CASE op[k].kind # "create"
    <2> DEFINE g == ShownWhen(k)
    <2>1. g \in Query(Timelines) /\ HasData(g)
      BY <1>4, RolledBack DEF IInv
    <2>2. r = Invalidate(g, open)
      BY <1>9 DEF Settle, ShownWhen
    <2> HIDE DEF g, r
    <2>3. CASE open
      <3>1. r = Invalidate(g, TRUE)
        BY <2>2, <2>3
      <3>2. ~Idle(r) /\ (Back(r) => r.owed) /\ HasData(r)
        BY <2>1, <3>1, InvalidateIs
      <3>3. Trusted'
        BY <3>2 DEF Trusted, r
      <3> QED BY <1>2, <1>3, <1>5, <3>2, <3>3 DEF Told, r
    <2>4. CASE ~open
      <3>1. r = Invalidate(g, FALSE)
        BY <1>0, <2>2, <2>4
      <3>2. HasData(r) /\ r.stale /\ Meets(r, g)
        BY <2>1, <3>1, InvalidateIs
      <3>3. Trusted'
        BY <1>0, <2>4, <3>2 DEF Trusted, Meets, r
      <3> QED BY <1>2, <1>3, <1>5, <3>2, <3>3 DEF Told, r
    <2> QED BY <2>3, <2>4
  <1> QED BY <1>0, <1>7, <1>8, <1>9

(* The server does what is possible, and neither the list nor what is      *)
(* known of it gets worse.                                                 *)
LEMMA ServerKeeps ==
  ASSUME IInv, NEW kind \in Acts, NEW c \in Comments, May(kind, c, wire, stored),
         stored' = Apply(kind, c, stored), Emit(kind, c, stored'),
         timeline' = timeline, open' = open, conn' = conn,
         Clean' => Clean, \A k \in Ops : Mine(op'[k]) => Mine(op[k]),
         \A x \in Comments : Waiting(x)' => Waiting(x) /\ ~(kind = "create" /\ c = x)
  PROVE  WireInv' /\ NotBorn' /\ Told'
  <1> DEFINE s == stored'
             e == News(kind, c, s)
  <1>0. /\ timeline \in Query(Timelines) /\ stored \in Timelines /\ wire \in Seq(Event)
        /\ Threaded(stored) /\ WireGood(wire, stored) /\ WireInv /\ Told /\ NotBorn /\ Typing
    BY DEF IInv, Typing, WireInv
  <1>1. /\ gap' = (gap \/ conn = "down")
        /\ conn = "down" => wire' = wire
        /\ conn # "down" => wire' = Append(wire, e)
    BY <1>0, ServerActs
  <1>2. s = Apply(kind, c, stored) /\ e = News(kind, c, s)
    OBVIOUS
  <1> HIDE DEF s, e
  <1>3. Threaded(s) /\ e \in Event /\ e.kind = kind /\ e.comment = c
    BY <1>0, <1>2, ServerIs
  <1>4. \A x \in DOMAIN s : x \notin DOMAIN stored => x = c /\ kind = "create"
    BY <1>0, <1>2, ServerIs
  <1>5. kind = "create" => e.entry = New
    BY <1>2 DEF Apply, With, News
  <1>6. Reading'
    BY <1>0 DEF Told, Reading
  <1>7. Loading'
    BY <1>0, <1>1 DEF Told, Loading
  <1>8. CASE conn = "down"
    <2>w. wire' = <<>>
      BY <1>0, <1>1, <1>8 DEF WireInv
    <2>g. gap'
      BY <1>1, <1>8
    <2>1. wire' = <<>> /\ DOMAIN wire' = {} /\ gap'
      BY <2>w, <2>g
    <2>2. WireGood(wire', s)
      BY <2>1 DEF WireGood, Gone, CreatedFirst, DeletedLast, DeletionComes, NewsTrue
    <2>3. WireInv'
      BY <1>3, <2>1, <2>2 DEF WireInv, s
    <2>4. NotBorn'
      BY <1>0, <1>4, <2>1 DEF NotBorn, s
    <2>5. Trusted'
      BY <2>1 DEF Trusted
    <2> QED BY <1>6, <1>7, <2>3, <2>4, <2>5 DEF Told
  <1>9. CASE conn # "down"
    <2>0. wire' = Append(wire, e) /\ (gap' <=> gap)
      BY <1>0, <1>1, <1>9 DEF Typing
    <2> DEFINE v == Append(wire, e)
               z == Len(wire) + 1
    <2>1. /\ z \in DOMAIN v /\ v[z] = e
          /\ \A n \in DOMAIN wire : n \in DOMAIN v /\ v[n] = wire[n]
          /\ \A n \in DOMAIN v : n \in DOMAIN wire \/ n = z
      BY <1>0, <1>3, AppendIs
    <2>2. WireGood(v, s)
      BY <1>0, <1>2, WireGoodOn
    <2>d. ASSUME NEW d \in Timelines, DataGood(d, wire, stored)
          PROVE  DataGood(d, v, s)
      BY <1>0, <1>2, <2>d, DataGoodOn
    <2> HIDE DEF v, z
    <2>3. \A n \in DOMAIN v : Creates(v[n]) => v[n].entry = New
      BY <1>0, <1>3, <1>5, <2>1 DEF WireInv, Creates
    <2>4. WireInv'
      BY <1>3, <1>9, <2>0, <2>2, <2>3 DEF WireInv, s, v
    <2>5. NotBorn'
      <3> SUFFICES ASSUME NEW x \in Comments, Waiting(x)'
                   PROVE  x \notin DOMAIN s /\ \A n \in DOMAIN v : v[n].comment # x
        BY <2>0 DEF NotBorn, s, v
      <3>1. Waiting(x) /\ ~(kind = "create" /\ c = x)
        OBVIOUS
      <3>2. x \notin DOMAIN stored /\ \A n \in DOMAIN wire : wire[n].comment # x
        BY <1>0, <3>1 DEF NotBorn
      <3>3. x # c
        BY <3>1, <3>2 DEF May
      <3> QED BY <1>3, <1>4, <2>1, <3>2, <3>3
    <2>6. Trusted'
      <3> SUFFICES ASSUME ~timeline.owed, ~gap
                   PROVE  /\ Back(timeline) => DataGood(timeline.fetch[2], v, s)
                          /\ Idle(timeline) /\ HasData(timeline) /\ Clean' /\ (open \/ ~timeline.stale) =>
                               DataGood(timeline.data[1], v, s)
        BY <2>0 DEF Trusted, s, v
      <3>1. /\ Back(timeline) => timeline.fetch[2] \in Timelines
            /\ HasData(timeline) => timeline.data[1] \in Timelines
        BY <1>0, QueryIs
      <3>2. Trusted
        BY <1>0 DEF Told
      <3>3. ASSUME Back(timeline)
            PROVE  DataGood(timeline.fetch[2], v, s)
        BY <2>d, <3>1, <3>2, <3>3 DEF Trusted
      <3>4. ASSUME Idle(timeline), HasData(timeline), Clean', open \/ ~timeline.stale
            PROVE  DataGood(timeline.data[1], v, s)
        BY <2>d, <3>1, <3>2, <3>4 DEF Trusted
      <3> QED BY <3>3, <3>4
    <2> QED BY <1>6, <1>7, <2>4, <2>5, <2>6 DEF Told
  <1> QED BY <1>8, <1>9

LEMMA CommitKeeps ==
  ASSUME IInv, NEW k \in Ops, Commit(k)
  PROVE  WireInv' /\ NotBorn' /\ BornOnce' /\ Told'
  <1> DEFINE kind == op[k].kind
             c == op[k].comment
  <1>1. op[k] # NoOp /\ op[k].phase = "sent"
    BY DEF Commit, NoOp
  <1>2. kind \in Acts /\ c \in Comments
    BY <1>1, MutationIs DEF IInv, Typing, OpsTyped
  <1>3. /\ BornOnce' /\ \A x \in Comments : Waiting(x)' => Waiting(x) /\ ~(kind = "create" /\ c = x)
        /\ op'[k].kind = op[k].kind /\ op'[k].phase \in {"committed", "refused"}
        /\ \A j \in Ops : j # k => op'[j] = op[j]
    <2>1. CASE op' = [op EXCEPT ![k].phase = "committed"]
      BY <1>1, <2>1, PhaseKeeps
    <2>2. CASE op' = [op EXCEPT ![k].phase = "refused"]
      BY <1>1, <2>2, PhaseKeeps
    <2> QED BY <2>1, <2>2 DEF Commit
  <1>4. (\A j \in Ops : Mine(op'[j]) => Mine(op[j])) /\ (Clean' => Clean)
    BY <1>1, <1>3 DEF Clean, Mine
  <1>5. May(kind, c, wire, stored)
    <2>1. CASE kind = "create"
      <3>1. Waiting(c)
        BY <1>1, <2>1 DEF IInv, BornOnce, Waiting
      <3>2. c \notin DOMAIN stored /\ \A n \in DOMAIN wire : wire[n].comment # c
        BY <1>2, <3>1 DEF IInv, NotBorn
      <3> QED BY <2>1, <3>2 DEF Commit, Possible, May
    <2>2. CASE kind # "create"
      BY <2>2 DEF Commit, Possible, May
    <2> QED BY <2>1, <2>2
  <1>6. /\ stored' = Apply(kind, c, stored) /\ Emit(kind, c, stored')
        /\ timeline' = timeline /\ open' = open /\ conn' = conn
    BY DEF Commit
  <1> HIDE DEF kind, c
  <1>7. WireInv' /\ NotBorn' /\ Told'
    BY <1>2, <1>3, <1>4, <1>5, <1>6, ServerKeeps
  <1> QED BY <1>3, <1>7

LEMMA RefuseKeeps ==
  ASSUME IInv, NEW k \in Ops, Refuse(k)
  PROVE  WireInv' /\ NotBorn' /\ BornOnce' /\ Told'
  <1>0. /\ timeline' = timeline /\ open' = open /\ conn' = conn /\ stored' = stored /\ wire' = wire /\ gap' = gap
        /\ op[k] # NoOp /\ op[k].phase = "sent" /\ Told
    BY DEF Refuse, NoOp, IInv
  <1>1. /\ BornOnce' /\ \A x \in Comments : Waiting(x)' => Waiting(x)
        /\ op'[k].kind = op[k].kind /\ op'[k].phase = "refused" /\ \A j \in Ops : j # k => op'[j] = op[j]
    BY <1>0, PhaseKeeps DEF Refuse
  <1>2. WireInv' /\ NotBorn'
    BY <1>0, <1>1, WireSame, BirthSame
  <1>3. (\A j \in Ops : Mine(op'[j]) => Mine(op[j])) /\ (Clean' => Clean)
    BY <1>0, <1>1 DEF Clean, Mine
  <1>4. Reading' /\ Loading'
    BY <1>0, <1>3 DEF Told, Reading, Loading
  <1>5. Trusted'
    BY <1>0, <1>3 DEF Told, Trusted
  <1> QED BY <1>1, <1>2, <1>4, <1>5 DEF Told

(* An operation begins: of this user, or at once of another.               *)
LEMMA BeginKeeps ==
  ASSUME IInv, NEW k \in Ops, op[k] = NoOp, NEW o \in Mutation, op' = [op EXCEPT ![k] = o],
         o.kind = "create" => Fresh(o.comment)
  PROVE  /\ BornOnce' /\ \A c \in Comments : Waiting(c)' => Waiting(c)
         /\ op'[k] = o /\ \A j \in Ops : j # k => op'[j] = op[j]
  <1>1. op'[k] = o /\ \A j \in Ops : j # k => op'[j] = op[j]
    BY OpMoves DEF IInv
  <1>2. op[k].kind # "create" /\ o.comment \in Comments
    BY DEF NoOp, Mutation
  <1>3. BornOnce'
    BY <1>1, <1>2 DEF IInv, BornOnce, Fresh
  <1>4. ASSUME NEW c \in Comments, Waiting(c)'
        PROVE  Waiting(c)
    BY <1>1, <1>2, <1>4 DEF Waiting
  <1> QED BY <1>1, <1>3, <1>4

LEMMA MutateKeeps ==
  ASSUME IInv, NEW k \in Ops, NEW kind \in Acts, NEW c \in Comments, Mutate(k, kind, c)
  PROVE  WireInv' /\ NotBorn' /\ BornOnce' /\ Told'
  <1> DEFINE o == [kind |-> kind, comment |-> c, phase |-> "sent",
                   prev |-> IF kind \in Optimistic THEN timeline.data ELSE <<>>]
             r == Patch(Cancel(timeline), LAMBDA f : Apply(kind, c, f))
  <1>0. /\ open' = open /\ conn' = conn /\ stored' = stored /\ wire' = wire /\ gap' = gap
        /\ op[k] = NoOp /\ HasData(timeline) /\ timeline \in Query(Timelines) /\ Told
    BY DEF Mutate, IInv, Typing
  <1>1. timeline.data = <<>> \/ (timeline.data = <<timeline.data[1]>> /\ timeline.data[1] \in Timelines)
    BY <1>0, QueryIs
  <1>2. /\ o \in Mutation /\ o.kind = kind /\ o.comment = c /\ o.phase = "sent" /\ op' = [op EXCEPT ![k] = o]
        /\ kind = "create" => Fresh(c)
    BY <1>1 DEF Mutation, Mutate
  <1>3. IF kind \in Optimistic THEN timeline' = r ELSE timeline' = timeline
    BY DEF Mutate
  <1>4. r \in Query(Timelines) /\ HasData(r) /\ Idle(r)
    BY <1>0, WrittenIs
  <1> HIDE DEF o, r
  <1>5. /\ BornOnce' /\ \A x \in Comments : Waiting(x)' => Waiting(x)
        /\ op'[k] = o /\ \A j \in Ops : j # k => op'[j] = op[j]
    BY <1>0, <1>2, BeginKeeps
  <1>6. WireInv' /\ NotBorn'
    BY <1>0, <1>5, WireSame, BirthSame
  <1>7. HasData(timeline')
    BY <1>0, <1>3, <1>4
  <1>8. Reading' /\ Loading'
    BY <1>7 DEF Reading, Loading
  <1>9. CASE kind \in Optimistic
    <2>1. ~Clean'
      BY <1>2, <1>5, <1>9 DEF Clean, Mine
    <2>2. ~Back(r)
      BY <1>4, QueryIs
    <2>3. Trusted'
      BY <1>3, <1>9, <2>1, <2>2 DEF Trusted
    <2> QED BY <1>5, <1>6, <1>8, <2>3 DEF Told
  <1>10. CASE kind \notin Optimistic
    <2>1. op[k].phase = "none"
      BY <1>0 DEF NoOp
    <2>2. Clean' => Clean
      BY <1>5, <2>1 DEF Clean, Mine
    <2>3. Trusted'
      BY <1>0, <1>3, <1>10, <2>2 DEF Told, Trusted
    <2> QED BY <1>5, <1>6, <1>8, <2>3 DEF Told
  <1> QED BY <1>9, <1>10

LEMMA OtherActsKeeps ==
  ASSUME IInv, NEW k \in Ops, NEW kind \in Acts, NEW c \in Comments, OtherActs(k, kind, c)
  PROVE  WireInv' /\ NotBorn' /\ BornOnce' /\ Told'
  <1> DEFINE o == [kind |-> kind, comment |-> c, phase |-> "settled", prev |-> <<>>]
  <1>0. /\ timeline' = timeline /\ open' = open /\ conn' = conn /\ stored' = Apply(kind, c, stored)
        /\ Emit(kind, c, stored') /\ op[k] = NoOp /\ (kind = "create" => Fresh(c)) /\ Possible(kind, c)
    BY DEF OtherActs
  <1>1. /\ o \in Mutation /\ o.kind = kind /\ o.comment = c /\ o.phase = "settled" /\ op' = [op EXCEPT ![k] = o]
    BY DEF Mutation, OtherActs
  <1> HIDE DEF o
  <1>2. /\ BornOnce' /\ \A x \in Comments : Waiting(x)' => Waiting(x)
        /\ op'[k] = o /\ \A j \in Ops : j # k => op'[j] = op[j]
    BY <1>0, <1>1, BeginKeeps
  <1>3. op[k].phase = "none"
    BY <1>0 DEF NoOp
  <1>4. (\A j \in Ops : Mine(op'[j]) => Mine(op[j])) /\ (Clean' => Clean)
    BY <1>1, <1>2, <1>3 DEF Clean, Mine
  <1>5. \A x \in Comments : Waiting(x)' => Waiting(x) /\ ~(kind = "create" /\ c = x)
    BY <1>1, <1>2 DEF Waiting
  <1>6. May(kind, c, wire, stored)
    <2>1. CASE kind = "create"
      <3>1. Waiting(c)
        BY <1>0, <2>1 DEF Fresh, Waiting
      <3>2. c \notin DOMAIN stored /\ \A n \in DOMAIN wire : wire[n].comment # c
        BY <3>1 DEF IInv, NotBorn
      <3> QED BY <1>0, <2>1, <3>2 DEF Possible, May
    <2>2. CASE kind # "create"
      BY <1>0, <2>2 DEF Possible, May
    <2> QED BY <2>1, <2>2
  <1>7. WireInv' /\ NotBorn' /\ Told'
    BY <1>0, <1>4, <1>5, <1>6, ServerKeeps
  <1> QED BY <1>2, <1>7

LEMMA IInvStep ==
  ASSUME IInv, [Next]_vars
  PROVE  IInv'
  <1>0. Typing' /\ Kinds \subseteq Acts
    BY TypingStep, TimelineAssumption DEF IInv, TimelineAssumption, Acts
  <1>1. CASE Open
    BY <1>0, <1>1, OpenKeeps DEF IInv
  <1>2. CASE Close
    BY <1>0, <1>2, CloseKeeps DEF IInv
  <1>3. CASE Deliver
    BY <1>0, <1>3, DeliverKeeps DEF IInv
  <1>4. CASE Drop \/ Reconnect
    BY <1>0, <1>4, SocketKeeps DEF IInv
  <1>5. CASE Fetch
    BY <1>0, <1>5, FetchKeeps DEF IInv
  <1>6. CASE \E k \in Ops : Settle(k)
    BY <1>0, <1>6, SettleKeeps DEF IInv
  <1>7. CASE \E k \in Ops : Commit(k)
    BY <1>0, <1>7, CommitKeeps DEF IInv
  <1>8. CASE \E k \in Ops : Refuse(k)
    BY <1>0, <1>8, RefuseKeeps DEF IInv
  <1>9. CASE \E k \in Ops, kind \in Kinds, c \in Comments : Mutate(k, kind, c)
    BY <1>0, <1>9, MutateKeeps DEF IInv
  <1>10. CASE \E k \in Ops, kind \in Kinds, c \in Comments : OtherActs(k, kind, c)
    BY <1>0, <1>10, OtherActsKeeps DEF IInv
  <1>11. CASE UNCHANGED vars
    <2>1. /\ timeline' = timeline /\ open' = open /\ op' = op /\ stored' = stored /\ wire' = wire
          /\ conn' = conn /\ gap' = gap
      BY <1>11 DEF vars
    <2>2. WireInv' /\ NotBorn' /\ BornOnce' /\ (Clean' <=> Clean) /\ Reading'
      BY <2>1, WireSame, BirthSame, OpsSame
    <2>3. Loading' /\ Trusted'
      BY <2>1, <2>2 DEF IInv, Told, Loading, Trusted
    <2> QED BY <1>0, <2>2, <2>3 DEF IInv, Told
  <1> QED BY <1>1, <1>2, <1>3, <1>4, <1>5, <1>6, <1>7, <1>8, <1>9, <1>10, <1>11 DEF Next

LEMMA IInvGives == IInv => Converges
  <1> SUFFICES ASSUME IInv, Quiet, ~timeline.owed, ~gap
               PROVE  ShowsServer
    BY DEF Converges
  <1> DEFINE d == timeline.data[1]
  <1>1. /\ timeline \in Query(Timelines) /\ stored \in Timelines /\ wire \in Seq(Event) /\ wire = <<>>
        /\ open /\ HasData(timeline) /\ Idle(timeline)
    BY DEF IInv, Typing, Quiet
  <1>2. Clean
    BY DEF Quiet, Clean, Mine
  <1>3. d \in Timelines
    BY <1>1, QueryIs
  <1>4. DataGood(d, wire, stored)
    BY <1>1, <1>2 DEF IInv, Told, Trusted
  <1> HIDE DEF d
  <1>5. d = stored
    BY <1>1, <1>3, <1>4, NothingComing
  <1> QED BY <1>5 DEF ShowsServer, d

(* Once nothing is under way, the open timeline of use-issue-timeline.ts   *)
(* shows what the server has, but for the answers that overtook an event   *)
(* and the gaps that the model records: whatever the two users did, in     *)
(* whatever order events, answers, rollbacks and a reconnect came.         *)
THEOREM TimelineConverges == Spec => []Converges
  <1>1. IInv /\ [Next]_vars => IInv'
    BY IInvStep
  <1> QED BY <1>1, IInvStart, IInvGives, PTL DEF Spec
=============================================================================
