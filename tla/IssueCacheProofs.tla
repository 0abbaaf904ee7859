-------------------------- MODULE IssueCacheProofs --------------------------
(***************************************************************************)
(* The page of an issue and the board of the workspace in the web and      *)
(* desktop clients, for any number of issues, columns and operations, of   *)
(* this user and of others, and any faults: once nothing is under way they *)
(* show what the server has, whatever was done optimistically, rolled      *)
(* back, announced, missed or fetched.                                     *)
(*                                                                         *)
(* First what the operations of the cache make of the query, then what a   *)
(* commit puts on the socket and what a delivery takes off it; IssueInv is *)
(* the inductive invariant of the page.  The second half is about the      *)
(* board: its types, the numbers that issues have, the events of new       *)
(* issues, and BoardInv, which adds what every column lacks.               *)
(***************************************************************************)
EXTENDS IssueCache, FunctionTheorems, FiniteSetTheorems, WellFoundedInduction, TLAPS

-----------------------------------------------------------------------------
(* One query.                                                              *)
Query(V) == [data : {<<>>} \cup {<<v>> : v \in V}, stale : BOOLEAN,
             fetch : {<<>>, <<"sent">>} \cup {<<"back", v>> : v \in V}, owed : BOOLEAN]

LEMMA QueryIs ==
  ASSUME NEW V, NEW q \in Query(V)
  PROVE  /\ q.data = <<>> \/ (q.data = <<q.data[1]>> /\ q.data[1] \in V)
         /\ HasData(q) <=> q.data # <<>>
         /\ HasData(q) => q.data[1] \in V
         /\ Idle(q) \/ Sent(q) \/ Back(q)
         /\ Back(q) => q.fetch[2] \in V /\ ~Idle(q) /\ ~Sent(q)
         /\ Sent(q) => ~Idle(q)
  <1>1. q.data \in {<<>>} \cup {<<v>> : v \in V} /\ q.fetch \in {<<>>, <<"sent">>} \cup {<<"back", v>> : v \in V}
    BY DEF Query
  <1>2. /\ q.data = <<>> \/ (q.data = <<q.data[1]>> /\ q.data[1] \in V)
        /\ HasData(q) <=> q.data # <<>>
        /\ HasData(q) => q.data[1] \in V
    BY <1>1 DEF HasData
  <1>3. CASE q.fetch \in {<<>>, <<"sent">>}
    <2>1. CASE q.fetch = <<>>
      BY <1>2, <2>1 DEF Idle, Sent, Back
    <2>2. CASE q.fetch = <<"sent">>
      BY <1>2, <2>2 DEF Idle, Sent, Back
    <2> QED BY <1>3, <2>1, <2>2
  <1>4. CASE \E v \in V : q.fetch = <<"back", v>>
    BY <1>2, <1>4 DEF Idle, Sent, Back
  <1> QED BY <1>1, <1>3, <1>4

(* Nothing is shown and no answer is on its way.                           *)
Blank(q) == q.data = <<>> /\ ~Back(q)

(* A fetch is under way, and an answer to it is known to be in doubt.      *)
Busy(q) == ~Idle(q) /\ (Back(q) => q.owed)

LEMMA AbsentIs ==
  ASSUME NEW V
  PROVE  Absent \in Query(V) /\ Blank(Absent) /\ Idle(Absent) /\ ~Absent.owed
  BY DEF Absent, Query, Blank, Back, Idle

(* setQueryData.                                                           *)
LEMMA SetDataIs ==
  ASSUME NEW V, NEW q \in Query(V), NEW v \in V
  PROVE  LET r == SetData(q, v)
         IN  /\ r \in Query(V) /\ HasData(r) /\ r.data[1] = v /\ ~r.stale
             /\ (Idle(r) <=> Idle(q)) /\ (Back(r) => r.owed)
  BY DEF SetData, Query, HasData, Back, Idle

(* setQueryData with an updater: nothing is written where nothing is.      *)
Patched(q, v) == Patch(q, LAMBDA old : v)

LEMMA PatchIs ==
  ASSUME NEW V, NEW q \in Query(V), NEW v \in V
  PROVE  LET r == Patched(q, v)
         IN  /\ r \in Query(V) /\ (r.data = <<>> <=> q.data = <<>>) /\ (Back(r) <=> Back(q))
             /\ HasData(r) => r.data[1] = v /\ ~r.stale
             /\ Back(r) => r.owed
             /\ q = Absent => r = Absent
  <1>1. CASE HasData(q)
    BY <1>1, SetDataIs, AbsentIs DEF Patched, Patch, Blank, HasData, SetData, Back, Query
  <1>2. CASE ~HasData(q)
    <2> DEFINE r == [q EXCEPT !.owed = @ \/ Back(q)]
    <2>1. Patched(q, v) = r
      BY <1>2 DEF Patched, Patch
    <2>2. r \in Query(V) /\ r.data = q.data /\ r.fetch = q.fetch /\ (r.owed <=> q.owed \/ Back(q))
      BY DEF Query, Back
    <2>3. ASSUME q = Absent PROVE r = Absent
      <3>1. r = [Absent EXCEPT !.owed = FALSE]
        BY <2>3, AbsentIs DEF Blank, Absent
      <3>2. Absent = [data |-> <<>>, stale |-> FALSE, fetch |-> <<>>, owed |-> FALSE]
        BY DEF Absent
      <3> HIDE DEF r
      <3>3. r \in [data : {<<>>}, stale : {FALSE}, fetch : {<<>>}, owed : {FALSE}]
        BY <3>1, <3>2
      <3>4. r.data = <<>> /\ r.stale = FALSE /\ r.fetch = <<>> /\ r.owed = FALSE
        BY <3>3
      <3>5. r = [data |-> r.data, stale |-> r.stale, fetch |-> r.fetch, owed |-> r.owed]
        BY <3>3
      <3> QED BY <3>2, <3>4, <3>5
    <2> QED BY <1>2, <2>1, <2>2, <2>3 DEF HasData, Back
  <1> QED BY <1>1, <1>2

(* invalidateQueries of an observed query; of one that is not there.       *)
LEMMA InvalidateIs ==
  ASSUME NEW V, NEW q \in Query(V)
  PROVE  /\ Invalidate(q, TRUE) \in Query(V) /\ Busy(Invalidate(q, TRUE))
         /\ Blank(q) => Blank(Invalidate(q, TRUE))
         /\ Invalidate(Absent, FALSE) = Absent
  <1> DEFINE r == Invalidate(q, TRUE)
  <1>1. Invalidate(Absent, FALSE) = Absent
    BY DEF Invalidate
  <1>2. CASE HasData(q) \/ Idle(q)
    <2>1. r = [q EXCEPT !.stale = TRUE, !.fetch = <<"sent">>, !.owed = FALSE]
      BY <1>2 DEF Invalidate, Refetch, Query
    <2>2. r \in Query(V) /\ r.data = q.data /\ Sent(r)
      BY <2>1 DEF Query, Sent
    <2> HIDE DEF r
    <2>3. ~Idle(r) /\ ~Back(r)
      BY <2>2, QueryIs
    <2> QED BY <1>1, <2>2, <2>3 DEF r, Busy, Blank
  <1>3. CASE ~(HasData(q) \/ Idle(q))
    <2>1. r = [q EXCEPT !.stale = TRUE, !.owed = q.owed \/ Back(q)]
      BY <1>3 DEF Invalidate
    <2>2. r \in Query(V) /\ r.data = q.data /\ r.fetch = q.fetch /\ (r.owed <=> q.owed \/ Back(q))
      BY <2>1 DEF Query, Back
    <2> HIDE DEF r
    <2> QED BY <1>1, <1>3, <2>2 DEF Idle, Back, r, Busy, Blank
  <1> QED BY <1>2, <1>3

LEMMA MountIs ==
  ASSUME NEW V
  PROVE  Mount(Absent) \in Query(V) /\ Blank(Mount(Absent))
  <1>1. Mount(Absent) = [Absent EXCEPT !.fetch = <<"sent">>, !.owed = FALSE]
    BY AbsentIs DEF Mount, Refetch, HasData, Blank
  <1> DEFINE r == Mount(Absent)
  <1>2. r \in Query(V) /\ r.data = <<>> /\ Sent(r)
    BY <1>1 DEF Absent, Query, Sent
  <1> HIDE DEF r
  <1>3. ~Back(r)
    BY <1>2, QueryIs
  <1> QED BY <1>2, <1>3 DEF Blank, r

LEMMA FetchIs ==
  ASSUME NEW V, NEW q \in Query(V), NEW v \in V
  PROVE  /\ Answer(q, v) \in Query(V) /\ Answer(q, v).data = q.data
         /\ Back(Answer(q, v)) /\ Answer(q, v).fetch[2] = v /\ ~Idle(Answer(q, v))
         /\ Answer(q, v).owed = q.owed
         /\ Fail(q) \in Query(V) /\ Fail(q).data = q.data /\ ~Back(Fail(q))
         /\ Back(q) => /\ Land(q) \in Query(V) /\ Land(q).data[1] = q.fetch[2] /\ ~Land(q).stale
                       /\ Land(q).owed = q.owed /\ Idle(Land(q)) /\ ~Back(Land(q))
  <1>1. /\ Answer(q, v) \in Query(V) /\ Answer(q, v).data = q.data
        /\ Back(Answer(q, v)) /\ Answer(q, v).fetch[2] = v /\ ~Idle(Answer(q, v))
        /\ Answer(q, v).owed = q.owed
    BY DEF Answer, Query, Back, Idle
  <1>2. Fail(q) \in Query(V) /\ Fail(q).data = q.data /\ ~Back(Fail(q))
    <2>1. Fail(q) \in Query(V) /\ Fail(q).data = q.data /\ Idle(Fail(q))
      BY DEF Fail, Query, Idle
    <2> QED BY <2>1, QueryIs
  <1>3. ASSUME Back(q)
        PROVE  /\ Land(q) \in Query(V) /\ Land(q).data[1] = q.fetch[2] /\ ~Land(q).stale
               /\ Land(q).owed = q.owed /\ Idle(Land(q)) /\ ~Back(Land(q))
    <2>1. q.fetch[2] \in V
      BY <1>3, QueryIs
    <2>2. /\ Land(q) \in Query(V) /\ Land(q).data[1] = q.fetch[2] /\ ~Land(q).stale
          /\ Land(q).owed = q.owed /\ Idle(Land(q))
      BY <2>1 DEF Land, Query, Idle
    <2> QED BY <2>2, QueryIs
  <1> QED BY <1>1, <1>2, <1>3

-----------------------------------------------------------------------------
(* The socket.                                                             *)
Event ==
  [kind : {"created", "updated"}, status : Statuses, issue : Issues]
    \cup [kind : {"deleted"}, status : {""}, issue : Issues]

(* An event that writes the page of the issue; one of them is on the wire; *)
(* the last one of them says v.                                            *)
News(m) == m.kind = "updated" /\ m.issue = Viewed
Announced(w) == \E n \in DOMAIN w : News(w[n])
LastSays(w, v) ==
  \A n \in DOMAIN w :
    News(w[n]) /\ (\A m \in DOMAIN w : m > n => ~News(w[m])) => w[n].status = v

(* A transaction that concerns several issues announces each of them.      *)
Place(S, i) == Cardinality({j \in S : j < i})

LEMMA CountIs ==
  ASSUME NEW n \in Nat
  PROVE  IsFiniteSet(1..n) /\ Cardinality(1..n) = n
  <1>1. 1 \in Int /\ n \in Int
    OBVIOUS
  <1>2. IsFiniteSet(1..n) /\ Cardinality(1..n) = IF 1 > n THEN 0 ELSE n - 1 + 1
    BY <1>1, FS_Interval
  <1> QED BY <1>2

LEMMA PlaceIs ==
  ASSUME NEW S \in SUBSET Nat, IsFiniteSet(S)
  PROVE  /\ Cardinality(S) \in Nat
         /\ \A i, j \in S : Place(S, i) = Place(S, j) => i = j
         /\ \A i \in S : Place(S, i) + 1 \in 1..Cardinality(S)
         /\ \A n \in 1..Cardinality(S) : \E i \in S : Place(S, i) = n - 1
  <1> DEFINE U(i) == {j \in S : j < i}
             c == Cardinality(S)
  <1>1. \A i : IsFiniteSet(U(i)) /\ Cardinality(U(i)) \in Nat /\ Cardinality(U(i)) <= c /\ c \in Nat
    BY FS_Subset, FS_CardinalityType
  <1>2. \A i \in S : Place(S, i) + 1 \in 1..c
    <2> SUFFICES ASSUME NEW i \in S PROVE Cardinality(U(i)) + 1 \in 1..c
      BY DEF Place
    <2>1. i \notin U(i) /\ U(i) \subseteq S
      OBVIOUS
    <2>2. Cardinality(U(i)) # c
      BY <2>1, FS_Subset
    <2> QED BY <1>1, <2>2
  <1>3. ASSUME NEW i \in S, NEW j \in S, i < j PROVE Place(S, i) < Place(S, j)
    <2>0. i \in Nat /\ j \in Nat /\ \A x \in S : x \in Nat
      OBVIOUS
    <2>1. U(i) \subseteq U(j) /\ i \in U(j) /\ i \notin U(i)
      <3>1. \A x \in S : x < i => x < j
        BY <1>3, <2>0
      <3>2. U(i) \subseteq U(j)
        BY <3>1
      <3>3. i < j /\ ~(i < i)
        BY <1>3, <2>0
      <3> QED BY <3>2, <3>3
    <2>2. Cardinality(U(i)) <= Cardinality(U(j)) /\ Cardinality(U(i)) # Cardinality(U(j))
      BY <1>1, <2>1, FS_Subset
    <2> QED BY <1>1, <2>2 DEF Place
  <1>4. ASSUME NEW i \in S, NEW j \in S, Place(S, i) = Place(S, j) PROVE i = j
    <2>1. i \in Nat /\ j \in Nat /\ Place(S, i) \in Nat
      BY <1>1 DEF Place
    <2>2. ~(i < j) /\ ~(j < i)
      BY <1>3, <1>4, <2>1
    <2> QED BY <2>1, <2>2
  <1>5. \A n \in 1..c : \E i \in S : Place(S, i) = n - 1
    <2> DEFINE r == [i \in S |-> Place(S, i) + 1]
    <2>1. r \in [S -> 1..c]
      BY <1>2
    <2>2. \A i, j \in S : r[i] = r[j] => i = j
      <3> SUFFICES ASSUME NEW i \in S, NEW j \in S, r[i] = r[j] PROVE i = j
        OBVIOUS
      <3>1. Place(S, i) \in Nat /\ Place(S, j) \in Nat
        BY <1>1 DEF Place
      <3> QED BY <1>4, <3>1
    <2>3. r \in Injection(S, 1..c)
      BY <2>1, <2>2 DEF Injection, IsInjective
    <2>4. IsFiniteSet(1..c) /\ Cardinality(1..c) = c
      BY <1>1, CountIs
    <2>5. r \in Surjection(S, 1..c)
      BY <2>3, <2>4, FS_Injection
    <2>6. ASSUME NEW n \in 1..c PROVE \E i \in S : Place(S, i) = n - 1
      <3>1. PICK i \in S : r[i] = n
        BY <2>5, <2>6 DEF Surjection
      <3>2. Place(S, i) \in Nat /\ Place(S, i) + 1 = n
        BY <1>1, <3>1 DEF Place
      <3> QED BY <3>2
    <2> QED BY <2>6
  <1> QED BY <1>1, <1>2, <1>4, <1>5

LEMMA EventsAre ==
  ASSUME NEW kind, NEW s, NEW S \in SUBSET Issues,
         \A i \in S : [kind |-> kind, status |-> s, issue |-> i] \in Event
  PROVE  LET e == Events(kind, S, s)
         IN  /\ e \in Seq(Event)
             /\ \A n \in DOMAIN e : e[n].kind = kind /\ e[n].status = s /\ e[n].issue \in S
             /\ \A i \in S : \E n \in DOMAIN e : e[n].issue = i
  <1> DEFINE c == Cardinality(S)
             g(n) == CHOOSE i \in S : Cardinality({j \in S : j < i}) = n - 1
             e == [n \in 1..c |-> [kind |-> kind, status |-> s, issue |-> g(n)]]
  <1>1. S \in SUBSET Nat /\ IsFiniteSet(S)
    BY IssueAssumption, FS_Subset
  <1>2. c \in Nat /\ \A n \in 1..c : g(n) \in S /\ Place(S, g(n)) = n - 1
    <2>1. c \in Nat
      BY <1>1, PlaceIs
    <2>2. ASSUME NEW n \in 1..c PROVE g(n) \in S /\ Place(S, g(n)) = n - 1
      <3>1. \E i \in S : Place(S, i) = n - 1
        BY <1>1, <2>2, PlaceIs
      <3>2. \E i \in S : Cardinality({j \in S : j < i}) = n - 1
        BY <3>1 DEF Place
      <3>3. g(n) \in S /\ Cardinality({j \in S : j < g(n)}) = n - 1
        BY <3>2
      <3> QED BY <3>3 DEF Place
    <2> QED BY <2>1, <2>2
  <1> HIDE DEF g
  <1>3. \A i \in S : \E n \in 1..c : g(n) = i
    <2> SUFFICES ASSUME NEW i \in S PROVE \E n \in 1..c : g(n) = i
      OBVIOUS
    <2>1. Place(S, i) + 1 \in 1..c /\ Place(S, i) \in Nat
      BY <1>1, PlaceIs, FS_Subset, FS_CardinalityType DEF Place
    <2> DEFINE n == Place(S, i) + 1
    <2>2. n \in 1..c /\ n - 1 = Place(S, i)
      BY <2>1
    <2> HIDE DEF n
    <2>3. g(n) \in S /\ Place(S, g(n)) = Place(S, i)
      BY <1>2, <2>2
    <2>4. g(n) = i
      <3> DEFINE j == g(n)
      <3>1. j \in S /\ Place(S, j) = Place(S, i)
        BY <2>3
      <3> HIDE DEF j
      <3>2. j = i
        BY <1>1, <3>1, PlaceIs
      <3> QED BY <3>2 DEF j
    <2> QED BY <2>2, <2>4
  <1>4. Events(kind, S, s) = e
    BY DEF Events, g
  <1>5. e \in Seq(Event) /\ DOMAIN e = 1..c
    <2>1. \A n \in 1..c : [kind |-> kind, status |-> s, issue |-> g(n)] \in Event
      BY <1>2
    <2> QED BY <1>2, <2>1
  <1>6. \A n \in DOMAIN e : e[n].kind = kind /\ e[n].status = s /\ e[n].issue = g(n)
    BY <1>5
  <1>7. \A n \in DOMAIN e : e[n].kind = kind /\ e[n].status = s /\ e[n].issue \in S
    BY <1>2, <1>5, <1>6
  <1>8. \A i \in S : \E n \in DOMAIN e : e[n].issue = i
    BY <1>3, <1>5, <1>6
  <1> HIDE DEF e
  <1> QED BY <1>4, <1>5, <1>7, <1>8

LEMMA ConcatAt ==
  ASSUME NEW T, NEW q \in Seq(T), NEW r \in Seq(T)
  PROVE  /\ DOMAIN (q \o r) = 1..(Len(q) + Len(r)) /\ DOMAIN q = 1..Len(q) /\ DOMAIN r = 1..Len(r)
         /\ Len(q) \in Nat /\ Len(r) \in Nat
         /\ \A k \in 1..(Len(q) + Len(r)) : (q \o r)[k] = IF k <= Len(q) THEN q[k] ELSE r[k - Len(q)]
  OBVIOUS

(* What an addition to the wire means for the last of the news.            *)
LEMMA MoreNews ==
  ASSUME NEW T, NEW w \in Seq(T), NEW e \in Seq(T), NEW v
  PROVE  /\ Announced(w \o e) <=> Announced(w) \/ Announced(e)
         /\ LastSays(w, v) /\ ~Announced(e) => LastSays(w \o e, v)
         /\ Announced(e) /\ (\A n \in DOMAIN e : News(e[n]) => e[n].status = v) => LastSays(w \o e, v)
  <1> DEFINE x == w \o e
             L == Len(w)
             M == Len(e)
  <1>1. /\ DOMAIN x = 1..(L + M) /\ DOMAIN w = 1..L /\ DOMAIN e = 1..M /\ L \in Nat /\ M \in Nat
        /\ \A k \in 1..(L + M) : x[k] = IF k <= L THEN w[k] ELSE e[k - L]
    BY ConcatAt
  <1> HIDE DEF x, L, M
  <1>2. \A k \in 1..L : k \in 1..(L + M) /\ x[k] = w[k]
    BY <1>1
  <1>3. \A k \in 1..M : k + L \in 1..(L + M) /\ k + L > L /\ x[k + L] = e[k]
    <2> SUFFICES ASSUME NEW k \in 1..M PROVE k + L \in 1..(L + M) /\ k + L > L /\ x[k + L] = e[k]
      OBVIOUS
    <2>1. k + L \in 1..(L + M) /\ ~(k + L <= L) /\ (k + L) - L = k /\ k + L > L
      BY <1>1
    <2>2. x[k + L] = e[(k + L) - L]
      BY <1>1, <2>1
    <2> QED BY <2>1, <2>2
  <1>4. \A k \in 1..(L + M) : k \in 1..L \/ (k - L \in 1..M /\ x[k] = e[k - L])
    BY <1>1
  <1>5. Announced(x) <=> Announced(w) \/ Announced(e)
    <2>1. Announced(x) => Announced(w) \/ Announced(e)
      BY <1>1, <1>2, <1>4 DEF Announced
    <2>2. Announced(w) => Announced(x)
      BY <1>1, <1>2 DEF Announced
    <2>3. Announced(e) => Announced(x)
      BY <1>1, <1>3 DEF Announced
    <2> QED BY <2>1, <2>2, <2>3
  <1>6. ASSUME LastSays(w, v), ~Announced(e) PROVE LastSays(x, v)
    <2> SUFFICES ASSUME NEW n \in DOMAIN x, News(x[n]), \A m \in DOMAIN x : m > n => ~News(x[m])
                 PROVE  x[n].status = v
      BY DEF LastSays
    <2>1. n \in 1..L /\ x[n] = w[n]
      BY <1>1, <1>2, <1>4, <1>6 DEF Announced
    <2>2. \A m \in DOMAIN w : m > n => ~News(w[m])
      BY <1>1, <1>2
    <2> QED BY <1>1, <1>6, <2>1, <2>2 DEF LastSays
  <1>7. ASSUME Announced(e), \A n \in DOMAIN e : News(e[n]) => e[n].status = v PROVE LastSays(x, v)
    <2> SUFFICES ASSUME NEW n \in DOMAIN x, News(x[n]), \A m \in DOMAIN x : m > n => ~News(x[m])
                 PROVE  x[n].status = v
      BY DEF LastSays
    <2>1. PICK k \in 1..M : News(e[k])
      BY <1>1, <1>7 DEF Announced
    <2>2. k + L \in 1..(L + M) /\ News(x[k + L]) /\ k + L > L /\ k + L \in Nat /\ n \in Nat
      BY <1>1, <1>3, <2>1
    <2>3. ~(k + L > n)
      BY <1>1, <2>2
    <2>4. n > L
      BY <1>1, <2>2, <2>3
    <2>5. n \notin 1..L /\ n - L \in 1..M /\ x[n] = e[n - L]
      BY <1>1, <1>4, <2>4
    <2> QED BY <1>1, <1>7, <2>5
  <1> QED BY <1>5, <1>6, <1>7 DEF x

(* What a delivery leaves of the news.                                     *)
LEMMA LessNews ==
  ASSUME NEW T, NEW w \in Seq(T), w # <<>>, NEW v
  PROVE  /\ Tail(w) \in Seq(T) /\ w[1] \in T
         /\ Announced(w) <=> News(w[1]) \/ Announced(Tail(w))
         /\ LastSays(w, v) => LastSays(Tail(w), v)
         /\ LastSays(w, v) /\ News(w[1]) => Announced(Tail(w)) \/ w[1].status = v
  <1> DEFINE x == Tail(w)
             L == Len(w)
  <1>1. /\ x \in Seq(T) /\ w[1] \in T /\ L \in Nat /\ L # 0 /\ DOMAIN w = 1..L /\ DOMAIN x = 1..(L - 1)
        /\ \A k \in 1..(L - 1) : x[k] = w[k + 1]
    OBVIOUS
  <1> HIDE DEF x, L
  <1>2. \A k \in 1..L : k = 1 \/ (k - 1 \in 1..(L - 1) /\ x[k - 1] = w[k])
    <2> SUFFICES ASSUME NEW k \in 1..L, k # 1 PROVE k - 1 \in 1..(L - 1) /\ x[k - 1] = w[k]
      OBVIOUS
    <2>1. k - 1 \in 1..(L - 1) /\ (k - 1) + 1 = k
      BY <1>1
    <2> QED BY <1>1, <2>1
  <1>3. \A k \in 1..(L - 1) : k + 1 \in 1..L /\ x[k] = w[k + 1]
    BY <1>1
  <1>4. Announced(w) <=> News(w[1]) \/ Announced(x)
    <2>1. 1 \in 1..L
      BY <1>1
    <2> QED BY <1>1, <1>2, <1>3, <2>1 DEF Announced
  <1>5. ASSUME LastSays(w, v) PROVE LastSays(x, v)
    <2> SUFFICES ASSUME NEW n \in DOMAIN x, News(x[n]), \A m \in DOMAIN x : m > n => ~News(x[m])
                 PROVE  x[n].status = v
      BY DEF LastSays
    <2>1. n + 1 \in 1..L /\ x[n] = w[n + 1] /\ n \in Nat /\ n > 0
      BY <1>1, <1>3
    <2>2. ASSUME NEW m \in 1..L, m > n + 1 PROVE ~News(w[m])
      <3>1. m - 1 \in 1..(L - 1) /\ x[m - 1] = w[m] /\ m - 1 > n
        BY <1>1, <1>2, <2>1, <2>2
      <3> QED BY <1>1, <3>1
    <2> QED BY <1>1, <1>5, <2>1, <2>2 DEF LastSays
  <1>6. ASSUME LastSays(w, v), News(w[1]), ~Announced(x) PROVE w[1].status = v
    <2>1. \A m \in 1..L : m > 1 => ~News(w[m])
      BY <1>1, <1>2, <1>6 DEF Announced
    <2>2. 1 \in 1..L
      BY <1>1
    <2> QED BY <1>1, <1>6, <2>1, <2>2 DEF LastSays
  <1> QED BY <1>1, <1>4, <1>5, <1>6 DEF x

-----------------------------------------------------------------------------
(* The inductive invariant.  An operation keeps a snapshot of the page, or *)
(* none; one that creates the issue has its number for good.               *)
IsOp(o) ==
  /\ o = [kind |-> o.kind, issues |-> o.issues, status |-> o.status, phase |-> o.phase, keep |-> o.keep]
  /\ o.issues \subseteq Issues
  /\ o.kind = "none" <=> o.phase \in {"none", "settled"}
  /\ o.phase \in {"none", "sent", "committed", "refused", "settled"}
  /\ o.kind \in {"none", "create", "update", "batch", "delete", "more"}
  /\ o.kind \in {"create", "update", "batch"} => o.status \in Statuses
  /\ o.kind \in {"update", "delete"} =>
       o.keep[2] = <<>> \/ (o.keep[2] = <<o.keep[2][1]>> /\ o.keep[2][1] \in Statuses)

OpsTyped == op = [k \in Ops |-> op[k]] /\ \A k \in Ops : IsOp(op[k])

StoreTyped == stored \in [DOMAIN stored -> Statuses] /\ DOMAIN stored \subseteq Issues

WireTyped == wire \in Seq(Event) /\ (conn = "down" => wire = <<>>)

Typed ==
  /\ detail \in Query(Statuses) /\ open \in BOOLEAN /\ putBack \in BOOLEAN
  /\ OpsTyped /\ StoreTyped /\ WireTyped

Keeping(o) == o.kind \in {"update", "delete"} /\ Viewed \in o.issues
CreatesViewed(o) == Viewed \in o.issues /\ o.kind \in {"create", "none"}
Updating == \E k \in Ops : op[k].kind = "update" /\ Viewed \in op[k].issues
NothingKept == \A k \in Ops : Keeping(op[k]) => op[k].keep[2] = <<>>

(* The server has had the issue.                                           *)
Born == Viewed \in Initial \/ \E k \in Ops : CreatesViewed(op[k]) /\ op[k].phase # "sent"

(* It is created once, and never again after it was deleted.               *)
BornOnce ==
  /\ \A j, k \in Ops : CreatesViewed(op[j]) /\ CreatesViewed(op[k]) => j = k
  /\ Viewed \in Initial => \A k \in Ops : ~CreatesViewed(op[k])

Closed == ~open => detail = Absent /\ NothingKept

Unborn == ~Born => Viewed \notin DOMAIN stored /\ Blank(detail) /\ ~Announced(wire) /\ NothingKept

(* The last news on the socket is the server's.                            *)
NewsTrue == Viewed \in DOMAIN stored => LastSays(wire, stored[Viewed])

(* What differs from the server is about to be told: by an event, after a  *)
(* reconnect, or when this user's own update ends.                         *)
Told(v) == v = stored[Viewed] \/ Announced(wire) \/ conn = "down" \/ Updating

DetailTold ==
  Viewed \in DOMAIN stored /\ ~putBack /\ ~detail.owed =>
    /\ Idle(detail) /\ HasData(detail) => Told(detail.data[1]) /\ ~detail.stale
    /\ Back(detail) => Told(detail.fetch[2])

IssueInv == Typed /\ BornOnce /\ Closed /\ Unborn /\ NewsTrue /\ DetailTold

LEMMA IssueInit == Init => IssueInv
  <1> SUFFICES ASSUME Init PROVE IssueInv
    OBVIOUS
  <1>1. Columns[1] \in Statuses
    BY IssueAssumption DEF Statuses, Paged, Range
  <1>2. Typed
    <2>1. OpsTyped
      BY DEF Init, OpsTyped, IsOp, NoOp
    <2>2. StoreTyped
      BY <1>1, IssueAssumption DEF Init, StoreTyped
    <2>3. WireTyped
      BY DEF Init, WireTyped
    <2> QED BY <2>1, <2>2, <2>3, AbsentIs DEF Init, Typed
  <1>3. \A k \in Ops : ~CreatesViewed(op[k]) /\ ~Keeping(op[k])
    BY DEF Init, NoOp, CreatesViewed, Keeping
  <1>4. BornOnce /\ NothingKept
    BY <1>3 DEF BornOnce, NothingKept
  <1>5. ~Announced(wire) /\ Blank(detail) /\ detail = Absent /\ \A v : LastSays(wire, v)
    BY AbsentIs DEF Init, Announced, LastSays
  <1>6. Unborn
    <2>1. ~Born => Viewed \notin DOMAIN stored
      BY DEF Born, Init
    <2> QED BY <1>4, <1>5, <2>1 DEF Unborn
  <1>7. DetailTold
    BY <1>5 DEF DetailTold, Blank, HasData
  <1> QED BY <1>2, <1>4, <1>5, <1>6, <1>7 DEF IssueInv, Closed, NewsTrue

-----------------------------------------------------------------------------
(* One operation moves.                                                    *)
Unheld == Viewed \notin Initial /\ \A j \in Ops : Viewed \notin op[j].issues

LEMMA OpMoves ==
  ASSUME OpsTyped, BornOnce, NEW k \in Ops, NEW r, IsOp(r), op' = [op EXCEPT ![k] = r],
         CreatesViewed(r) => CreatesViewed(op[k]) \/ Unheld
  PROVE  /\ OpsTyped' /\ BornOnce'
         /\ op'[k] = r /\ \A j \in Ops : j # k => op'[j] = op[j]
  <1>1. op'[k] = r /\ \A j \in Ops : j # k => op'[j] = op[j]
    BY DEF OpsTyped
  <1>2. OpsTyped'
    <2>1. op' = [j \in Ops |-> op'[j]]
      BY DEF OpsTyped
    <2>2. \A j \in Ops : IsOp(op'[j])
      BY <1>1 DEF OpsTyped
    <2>3. OpsTyped' <=> op' = [j \in Ops |-> op'[j]] /\ \A j \in Ops : IsOp(op'[j])
      BY DEF OpsTyped, IsOp
    <2> QED BY <2>1, <2>2, <2>3
  <1>3. \A j \in Ops : CreatesViewed(op'[j]) => CreatesViewed(op[j]) \/ (j = k /\ Unheld)
    BY <1>1
  <1>4. Unheld => Viewed \notin Initial /\ \A j \in Ops : ~CreatesViewed(op[j])
    BY DEF Unheld, CreatesViewed
  <1>5. BornOnce'
    <2>1. \A i, j \in Ops : CreatesViewed(op'[i]) /\ CreatesViewed(op'[j]) => i = j
      BY <1>3, <1>4 DEF BornOnce
    <2>2. Viewed \in Initial => \A j \in Ops : ~CreatesViewed(op'[j])
      BY <1>3, <1>4 DEF BornOnce
    <2> QED BY <2>1, <2>2 DEF BornOnce, CreatesViewed
  <1> QED BY <1>1, <1>2, <1>5

(* A move does not lose a birth, an update, or what is kept.               *)
Continues(k) ==
  /\ CreatesViewed(op[k]) /\ op[k].phase # "sent" => CreatesViewed(op'[k]) /\ op'[k].phase # "sent"
  /\ op[k].kind = "update" /\ Viewed \in op[k].issues =>
       op'[k].kind = "update" /\ Viewed \in op'[k].issues
  /\ Keeping(op'[k]) => (Keeping(op[k]) /\ op'[k].keep = op[k].keep) \/ op'[k].keep[2] = <<>>

LEMMA MovesOn ==
  ASSUME NEW k \in Ops, \A j \in Ops : j # k => op'[j] = op[j]
  PROVE  /\ (CreatesViewed(op[k]) /\ op[k].phase # "sent" => CreatesViewed(op'[k]) /\ op'[k].phase # "sent")
              => (Born => Born')
         /\ (op[k].kind = "update" /\ Viewed \in op[k].issues =>
               op'[k].kind = "update" /\ Viewed \in op'[k].issues) => (Updating => Updating')
         /\ (Keeping(op'[k]) => (Keeping(op[k]) /\ op'[k].keep = op[k].keep) \/ op'[k].keep[2] = <<>>)
              => (NothingKept => NothingKept')
  <1>1. ASSUME CreatesViewed(op[k]) /\ op[k].phase # "sent" => CreatesViewed(op'[k]) /\ op'[k].phase # "sent", Born
        PROVE  Born'
    <2>1. CASE Viewed \in Initial
      BY <2>1 DEF Born
    <2>2. CASE \E j \in Ops : CreatesViewed(op[j]) /\ op[j].phase # "sent"
      <3>1. \E j \in Ops : CreatesViewed(op'[j]) /\ op'[j].phase # "sent"
        BY <1>1, <2>2
      <3> QED BY <3>1 DEF Born, CreatesViewed
    <2> QED BY <1>1, <2>1, <2>2 DEF Born
  <1>2. ASSUME op[k].kind = "update" /\ Viewed \in op[k].issues =>
                 op'[k].kind = "update" /\ Viewed \in op'[k].issues, Updating
        PROVE  Updating'
    BY <1>2 DEF Updating
  <1>3. ASSUME Keeping(op'[k]) => (Keeping(op[k]) /\ op'[k].keep = op[k].keep) \/ op'[k].keep[2] = <<>>, NothingKept
        PROVE  NothingKept'
    <2>1. \A j \in Ops : Keeping(op'[j]) => op'[j].keep[2] = <<>>
      BY <1>3 DEF NothingKept
    <2> QED BY <2>1 DEF NothingKept, Keeping
  <1> QED BY <1>1, <1>2, <1>3

(* Only an operation moves.                                                *)
LEMMA OpOnly ==
  ASSUME IssueInv, OpsTyped', BornOnce', Born => Born', Updating => Updating',
         detail.data = <<>> /\ NothingKept => NothingKept',
         UNCHANGED <<detail, open, stored, wire, conn>>, putBack' \in BOOLEAN, putBack => putBack'
  PROVE  IssueInv'
  <1>1. Typed'
    BY DEF IssueInv, Typed, StoreTyped, WireTyped
  <1>2. Closed'
    BY AbsentIs DEF IssueInv, Closed, Blank
  <1>3. Unborn'
    BY DEF IssueInv, Unborn, Blank
  <1>4. NewsTrue'
    BY DEF IssueInv, NewsTrue
  <1>5. DetailTold'
    BY DEF IssueInv, DetailTold, Told
  <1> QED BY <1>1, <1>2, <1>3, <1>4, <1>5 DEF IssueInv

(* The page is rewritten, the server and the socket stay: what must hold   *)
(* of it.                                                                  *)
LEMMA DetailOnly ==
  ASSUME IssueInv, OpsTyped', BornOnce', Born => Born',
         detail.data = <<>> /\ NothingKept => NothingKept',
         UNCHANGED <<open, stored, wire, conn>>, putBack' \in BOOLEAN,
         detail' \in Query(Statuses),
         ~open /\ detail = Absent /\ NothingKept => detail' = Absent,
         ~Born /\ Blank(detail) /\ NothingKept => Blank(detail'),
         DetailTold'
  PROVE  IssueInv'
  <1>1. Typed'
    BY DEF IssueInv, Typed, StoreTyped, WireTyped
  <1>2. Closed'
    BY AbsentIs DEF IssueInv, Closed, Blank
  <1>3. Unborn'
    <2>1. Unborn' <=> (~Born' => Viewed \notin DOMAIN stored' /\ Blank(detail') /\ ~Announced(wire)' /\ NothingKept')
      BY DEF Unborn, Blank, Back
    <2>2. Announced(wire)' <=> Announced(wire)
      BY DEF Announced
    <2> QED BY <2>1, <2>2 DEF IssueInv, Unborn, Blank
  <1>4. NewsTrue'
    BY DEF IssueInv, NewsTrue
  <1> QED BY <1>1, <1>2, <1>3, <1>4 DEF IssueInv

(* Pages about which nothing can be wrong.                                 *)
LEMMA NothingShown ==
  ASSUME detail' \in Query(Statuses), Blank(detail') \/ Busy(detail') PROVE DetailTold'
  <1>1. Blank(detail') => ~HasData(detail') /\ ~Back(detail')
    BY DEF Blank, HasData
  <1>2. Busy(detail') => ~Idle(detail') /\ (Back(detail') => detail'.owed)
    BY DEF Busy
  <1>3. HasData(detail') <=> HasData(detail)'
    BY DEF HasData
  <1>4. (Back(detail') <=> Back(detail)') /\ (Idle(detail') <=> Idle(detail)')
    BY DEF Back, Idle
  <1> QED BY <1>1, <1>2, <1>3, <1>4 DEF DetailTold

LEMMA RemovedIs ==
  ASSUME open \in BOOLEAN
  PROVE  /\ Removed(Viewed) \in Query(Statuses) /\ Blank(Removed(Viewed))
         /\ ~open => Removed(Viewed) = Absent
         /\ \A i : i # Viewed => Removed(i) = detail
  BY AbsentIs, MountIs DEF Removed

-----------------------------------------------------------------------------
(* The user begins an operation.                                           *)
LEMMA NoOpIs ==
  NoOp.kind = "none" /\ NoOp.issues = {} /\ ~CreatesViewed(NoOp) /\ ~Keeping(NoOp)
  BY DEF NoOp, CreatesViewed, Keeping

LEMMA CreateInv ==
  ASSUME IssueInv, NEW k \in Ops, NEW i \in Issues, NEW s \in Paged, Create(k, i, s)
  PROVE  IssueInv'
  <1> DEFINE r == [kind |-> "create", issues |-> {i}, status |-> s, phase |-> "sent", keep |-> <<>>]
  <1>1. op' = [op EXCEPT ![k] = r] /\ op[k] = NoOp /\ Fresh(i) /\ UNCHANGED <<detail, open, stored, wire, conn, putBack>>
    BY DEF Create, Begin
  <1>2. IsOp(r)
    BY DEF IsOp, Statuses
  <1>3. i = Viewed => Unheld
    BY <1>1 DEF Fresh, Unused, Unheld
  <1>4. CreatesViewed(r) => Unheld
    BY <1>3 DEF CreatesViewed
  <1>5. ~Keeping(r)
    BY DEF Keeping
  <1>6. ~CreatesViewed(op[k]) /\ op[k].kind # "update"
    BY <1>1, NoOpIs
  <1> HIDE DEF r
  <1>7. OpsTyped' /\ BornOnce' /\ op'[k] = r /\ \A j \in Ops : j # k => op'[j] = op[j]
    BY <1>1, <1>2, <1>4, OpMoves DEF IssueInv, Typed
  <1>8. (Born => Born') /\ (Updating => Updating') /\ (NothingKept => NothingKept')
    BY <1>5, <1>6, <1>7, MovesOn
  <1> QED BY <1>1, <1>7, <1>8, OpOnly DEF IssueInv, Typed

(* Whatever else begins has no birth to tell.                              *)
LEMMA BeginIs ==
  ASSUME IssueInv, NEW k \in Ops, op[k] = NoOp, NEW kind \in {"update", "batch", "delete", "more"},
         NEW S \in SUBSET Issues, NEW s, NEW keep, Begin(k, kind, S, s, keep),
         kind \in {"update", "batch"} => s \in Statuses,
         kind \in {"update", "delete"} => keep[2] = <<>> \/ (keep[2] = <<keep[2][1]>> /\ keep[2][1] \in Statuses)
  PROVE  /\ OpsTyped' /\ BornOnce' /\ (Born => Born') /\ (Updating => Updating')
         /\ kind = "update" /\ Viewed \in S => Updating'
         /\ (kind \in {"update", "delete"} /\ Viewed \in S => keep[2] = <<>>) => (NothingKept => NothingKept')
  <1> DEFINE r == [kind |-> kind, issues |-> S, status |-> s, phase |-> "sent", keep |-> keep]
  <1>1. op' = [op EXCEPT ![k] = r]
    BY DEF Begin
  <1>2. IsOp(r)
    BY DEF IsOp
  <1>3. ~CreatesViewed(r) /\ ~CreatesViewed(op[k]) /\ op[k].kind # "update"
    BY NoOpIs DEF CreatesViewed
  <1>4. Keeping(r) <=> kind \in {"update", "delete"} /\ Viewed \in S
    BY DEF Keeping
  <1>5. r.kind = kind /\ r.issues = S /\ r.keep = keep
    OBVIOUS
  <1> HIDE DEF r
  <1>6. OpsTyped' /\ BornOnce' /\ op'[k] = r /\ \A j \in Ops : j # k => op'[j] = op[j]
    BY <1>1, <1>2, <1>3, OpMoves DEF IssueInv, Typed
  <1>7. (Born => Born') /\ (Updating => Updating')
    BY <1>3, <1>6, MovesOn
  <1>8. kind = "update" /\ Viewed \in S => Updating'
    BY <1>5, <1>6 DEF Updating
  <1>9. (kind \in {"update", "delete"} /\ Viewed \in S => keep[2] = <<>>) => (NothingKept => NothingKept')
    BY <1>4, <1>5, <1>6, MovesOn
  <1> QED BY <1>6, <1>7, <1>8, <1>9

(* What update and delete keep of the page.                                *)
LEMMA KeepIs ==
  ASSUME IssueInv, NEW i, NEW x
  PROVE  LET keep == <<x, IF i = Viewed THEN detail.data ELSE <<>> >>
         IN  /\ keep[2] = <<>> \/ (keep[2] = <<keep[2][1]>> /\ keep[2][1] \in Statuses)
             /\ i # Viewed \/ detail.data = <<>> => keep[2] = <<>>
  <1>1. detail.data = <<>> \/ (detail.data = <<detail.data[1]>> /\ detail.data[1] \in Statuses)
    BY QueryIs DEF IssueInv, Typed
  <1> QED BY <1>1

LEMMA UpdateInv ==
  ASSUME IssueInv, NEW k \in Ops, NEW s \in Statuses, NEW i \in Issues, Update(k, i, s)
  PROVE  IssueInv'
  <1> DEFINE keep == <<list.data, IF i = Viewed THEN detail.data ELSE <<>> >>
             S == {i}
  <1>1. /\ Begin(k, "update", S, s, keep) /\ op[k] = NoOp /\ UNCHANGED <<open, stored, wire, conn, putBack>>
        /\ detail' = IF i = Viewed THEN Patched(detail, s) ELSE detail
    BY DEF Update, Patched
  <1>2. /\ keep[2] = <<>> \/ (keep[2] = <<keep[2][1]>> /\ keep[2][1] \in Statuses)
        /\ i # Viewed \/ detail.data = <<>> => keep[2] = <<>>
    BY KeepIs
  <1>3. S \in SUBSET Issues /\ (Viewed \in S <=> i = Viewed)
    OBVIOUS
  <1> HIDE DEF keep, S
  <1>4. /\ OpsTyped' /\ BornOnce' /\ (Born => Born') /\ (Updating => Updating')
        /\ i = Viewed => Updating'
        /\ (Viewed \in S => keep[2] = <<>>) => (NothingKept => NothingKept')
    BY <1>1, <1>2, <1>3, BeginIs
  <1>5. detail.data = <<>> /\ NothingKept => NothingKept'
    BY <1>2, <1>4
  <1>6. CASE i # Viewed
    <2>1. detail' = detail /\ putBack' = putBack /\ putBack \in BOOLEAN
      BY <1>1, <1>6 DEF IssueInv, Typed
    <2> QED BY <1>1, <1>4, <1>5, <2>1, OpOnly
  <1>7. CASE i = Viewed
    <2> DEFINE q == Patched(detail, s)
    <2>1. detail \in Query(Statuses) /\ detail' = q /\ putBack' = putBack /\ putBack \in BOOLEAN
      BY <1>1, <1>7 DEF IssueInv, Typed
    <2>2. /\ q \in Query(Statuses) /\ (q.data = <<>> <=> detail.data = <<>>) /\ (Back(q) <=> Back(detail))
          /\ HasData(q) => q.data[1] = s /\ ~q.stale
          /\ Back(q) => q.owed
          /\ detail = Absent => q = Absent
      BY <2>1, PatchIs
    <2> HIDE DEF q
    <2>3. ~Born /\ Blank(detail) => Blank(detail')
      BY <2>1, <2>2 DEF Blank
    <2>4. DetailTold'
      BY <1>4, <1>7, <2>1, <2>2 DEF DetailTold, Told, HasData, Back
    <2> QED BY <1>1, <1>4, <1>5, <2>1, <2>2, <2>3, <2>4, DetailOnly
  <1> QED BY <1>6, <1>7

LEMMA DeleteInv ==
  ASSUME IssueInv, NEW k \in Ops, NEW i \in Issues, Delete(k, i)
  PROVE  IssueInv'
  <1> DEFINE keep == <<list.data, IF i = Viewed THEN detail.data ELSE <<>> >>
             S == {i}
  <1>1. /\ Begin(k, "delete", S, "", keep) /\ op[k] = NoOp /\ UNCHANGED <<open, stored, wire, conn, putBack>>
        /\ detail' = Removed(i)
    BY DEF Delete
  <1>2. /\ keep[2] = <<>> \/ (keep[2] = <<keep[2][1]>> /\ keep[2][1] \in Statuses)
        /\ i # Viewed \/ detail.data = <<>> => keep[2] = <<>>
    BY KeepIs
  <1>3. S \in SUBSET Issues /\ (Viewed \in S <=> i = Viewed)
    OBVIOUS
  <1> HIDE DEF keep, S
  <1>4. /\ OpsTyped' /\ BornOnce' /\ (Born => Born') /\ (Updating => Updating')
        /\ (Viewed \in S => keep[2] = <<>>) => (NothingKept => NothingKept')
    BY <1>1, <1>2, <1>3, BeginIs
  <1>5. detail.data = <<>> /\ NothingKept => NothingKept'
    BY <1>2, <1>4
  <1>6. putBack' = putBack /\ putBack \in BOOLEAN /\ open \in BOOLEAN
    BY <1>1 DEF IssueInv, Typed
  <1>7. CASE i # Viewed
    <2>1. detail' = detail
      BY <1>1, <1>6, <1>7, RemovedIs
    <2>2. UNCHANGED <<detail, open, stored, wire, conn>>
      BY <1>1, <2>1
    <2>3. putBack' \in BOOLEAN /\ (putBack => putBack')
      BY <1>6
    <2> QED BY <1>4, <1>5, <2>2, <2>3, OpOnly
  <1>8. CASE i = Viewed
    <2>1. detail' \in Query(Statuses) /\ Blank(detail') /\ (~open => detail' = Absent)
      BY <1>1, <1>6, <1>8, RemovedIs
    <2> QED BY <1>1, <1>4, <1>5, <1>6, <2>1, NothingShown, DetailOnly
  <1> QED BY <1>7, <1>8

LEMMA BatchInv ==
  ASSUME IssueInv, NEW k \in Ops, NEW s \in Statuses, NEW i \in Issues, NEW j \in Issues, Batch(k, i, j, s)
  PROVE  IssueInv'
  <1> DEFINE keep == <<list.data, <<>> >>
             S == {i, j}
  <1>1. Begin(k, "batch", S, s, keep) /\ op[k] = NoOp /\ UNCHANGED <<detail, open, stored, wire, conn, putBack>>
    BY DEF Batch
  <1>2. S \in SUBSET Issues
    OBVIOUS
  <1> HIDE DEF keep, S
  <1>3. OpsTyped' /\ BornOnce' /\ (Born => Born') /\ (Updating => Updating') /\ (NothingKept => NothingKept')
    BY <1>1, <1>2, BeginIs
  <1> QED BY <1>1, <1>3, OpOnly DEF IssueInv, Typed

LEMMA LoadMoreInv ==
  ASSUME IssueInv, NEW k \in Ops, NEW s \in Paged, LoadMore(k, s)
  PROVE  IssueInv'
  <1> DEFINE keep == <<Cardinality(getBucket(list.data[1], s).issues)>>
             S == {}
  <1>1. Begin(k, "more", S, s, keep) /\ op[k] = NoOp /\ UNCHANGED <<detail, open, stored, wire, conn, putBack>>
    BY DEF LoadMore
  <1>2. S \in SUBSET Issues
    OBVIOUS
  <1> HIDE DEF keep, S
  <1>3. OpsTyped' /\ BornOnce' /\ (Born => Born') /\ (Updating => Updating') /\ (NothingKept => NothingKept')
    BY <1>1, <1>2, BeginIs
  <1> QED BY <1>1, <1>3, OpOnly DEF IssueInv, Typed

-----------------------------------------------------------------------------
(* It is refused, answered, or over.                                       *)
LEMMA OverIs ==
  ASSUME NEW o, IsOp(o), o.kind # "none"
  PROVE  LET r == Over(o.kind, o.issues)
         IN  /\ IsOp(r) /\ r.kind = "none" /\ r.phase = "settled" /\ ~Keeping(r)
             /\ CreatesViewed(r) <=> CreatesViewed(o)
             /\ r.issues = IF o.kind = "create" THEN o.issues ELSE {}
  <1>1. Over(o.kind, o.issues) = [kind |-> "none", issues |-> IF o.kind = "create" THEN o.issues ELSE {},
                                  status |-> "", phase |-> "settled", keep |-> <<>>]
    <2> DEFINE S == IF o.kind = "create" THEN o.issues ELSE {}
    <2>1. Over(o.kind, o.issues) = [NoOp EXCEPT !.phase = "settled", !.issues = S]
      BY DEF Over
    <2> HIDE DEF S
    <2>2. [NoOp EXCEPT !.phase = "settled", !.issues = S] =
            [kind |-> "none", issues |-> S, status |-> "", phase |-> "settled", keep |-> <<>>]
      <3> DEFINE n == NoOp
      <3>0. n = [kind |-> n.kind, issues |-> n.issues, status |-> n.status, phase |-> n.phase, keep |-> n.keep]
        BY DEF NoOp
      <3>1. n.kind = "none" /\ n.status = "" /\ n.keep = <<>>
        BY DEF NoOp
      <3> HIDE DEF n
      <3> DEFINE m == [n EXCEPT !.phase = "settled"]
      <3>2. m = [kind |-> n.kind, issues |-> n.issues, status |-> n.status, phase |-> "settled", keep |-> n.keep]
        BY <3>0
      <3>3. [n EXCEPT !.phase = "settled", !.issues = S] = [m EXCEPT !.issues = S]
        OBVIOUS
      <3> HIDE DEF m
      <3>4. [m EXCEPT !.issues = S] =
              [kind |-> n.kind, issues |-> S, status |-> n.status, phase |-> "settled", keep |-> n.keep]
        BY <3>2
      <3> QED BY <3>1, <3>3, <3>4 DEF n
    <2> QED BY <2>1, <2>2 DEF S
  <1> DEFINE S == IF o.kind = "create" THEN o.issues ELSE {}
             r == [kind |-> "none", issues |-> S, status |-> "", phase |-> "settled", keep |-> <<>>]
  <1>2. S \subseteq Issues
    BY DEF IsOp
  <1>3. Viewed \in S <=> Viewed \in o.issues /\ o.kind = "create"
    OBVIOUS
  <1> HIDE DEF S
  <1>4. IsOp(r) /\ r.kind = "none" /\ r.phase = "settled" /\ r.issues = S
    BY <1>2 DEF IsOp
  <1> HIDE DEF r
  <1>5. ~Keeping(r) /\ (CreatesViewed(r) <=> CreatesViewed(o))
    BY <1>3, <1>4 DEF Keeping, CreatesViewed
  <1>6. Over(o.kind, o.issues) = r
    BY <1>1 DEF r, S
  <1> QED BY <1>4, <1>5, <1>6 DEF S

LEMMA PhaseIs ==
  ASSUME NEW o, IsOp(o), o.kind # "none", NEW p \in {"committed", "refused"}
  PROVE  LET r == [o EXCEPT !.phase = p]
         IN  /\ IsOp(r) /\ r.kind = o.kind /\ r.issues = o.issues /\ r.keep = o.keep /\ r.phase = p
             /\ (CreatesViewed(r) <=> CreatesViewed(o)) /\ (Keeping(r) <=> Keeping(o))
  <1>1. [o EXCEPT !.phase = p] =
          [kind |-> o.kind, issues |-> o.issues, status |-> o.status, phase |-> p, keep |-> o.keep]
    BY DEF IsOp
  <1> QED BY <1>1 DEF IsOp, Keeping, CreatesViewed

(* An operation that was sent has its outcome.                             *)
LEMMA OutcomeIs ==
  ASSUME IssueInv, NEW k \in Ops, op[k].phase = "sent", NEW p \in {"committed", "refused"},
         op' = [op EXCEPT ![k].phase = p]
  PROVE  /\ OpsTyped' /\ BornOnce' /\ (Born => Born') /\ (Updating => Updating') /\ (NothingKept => NothingKept')
         /\ CreatesViewed(op[k]) => ~Born /\ Born'
  <1>1. IsOp(op[k]) /\ op[k].kind # "none"
    BY DEF IssueInv, Typed, OpsTyped, IsOp
  <1> DEFINE r == [op[k] EXCEPT !.phase = p]
  <1>2. /\ IsOp(r) /\ r.kind = op[k].kind /\ r.issues = op[k].issues /\ r.keep = op[k].keep /\ r.phase = p
        /\ (CreatesViewed(r) <=> CreatesViewed(op[k])) /\ (Keeping(r) <=> Keeping(op[k]))
    BY <1>1, PhaseIs
  <1>3. op' = [op EXCEPT ![k] = r]
    OBVIOUS
  <1> HIDE DEF r
  <1>4. OpsTyped' /\ BornOnce' /\ op'[k] = r /\ \A j \in Ops : j # k => op'[j] = op[j]
    BY <1>2, <1>3, OpMoves DEF IssueInv, Typed
  <1>5. (Born => Born') /\ (Updating => Updating') /\ (NothingKept => NothingKept')
    BY <1>2, <1>4, MovesOn
  <1>6. ASSUME CreatesViewed(op[k]) PROVE ~Born /\ Born'
    <2>1. ~Born
      BY <1>6 DEF IssueInv, BornOnce, Born
    <2>2. CreatesViewed(op'[k]) /\ op'[k].phase # "sent"
      BY <1>2, <1>4, <1>6
    <2>3. Born'
      BY <2>2 DEF Born, CreatesViewed
    <2> QED BY <2>1, <2>3
  <1> QED BY <1>4, <1>5, <1>6

(* An operation is over.                                                   *)
LEMMA EndIs ==
  ASSUME IssueInv, NEW k \in Ops, op[k].kind # "none",
         op[k].kind = "create" => op[k].phase # "sent",
         op' = [op EXCEPT ![k] = Over(op[k].kind, op[k].issues)]
  PROVE  /\ OpsTyped' /\ BornOnce' /\ (Born => Born') /\ (NothingKept => NothingKept')
         /\ ~(op[k].kind = "update" /\ Viewed \in op[k].issues) => (Updating => Updating')
  <1> DEFINE r == Over(op[k].kind, op[k].issues)
  <1>1. IsOp(op[k])
    BY DEF IssueInv, Typed, OpsTyped
  <1>2. /\ IsOp(r) /\ r.kind = "none" /\ r.phase = "settled" /\ ~Keeping(r)
        /\ CreatesViewed(r) <=> CreatesViewed(op[k])
    BY <1>1, OverIs
  <1>3. op' = [op EXCEPT ![k] = r]
    OBVIOUS
  <1> HIDE DEF r
  <1>4. OpsTyped' /\ BornOnce' /\ op'[k] = r /\ \A j \in Ops : j # k => op'[j] = op[j]
    BY <1>2, <1>3, OpMoves DEF IssueInv, Typed
  <1>5. (Born => Born') /\ (NothingKept => NothingKept')
    BY <1>2, <1>4, MovesOn
  <1>6. ~(op[k].kind = "update" /\ Viewed \in op[k].issues) => (Updating => Updating')
    BY <1>4, MovesOn
  <1> QED BY <1>4, <1>5, <1>6

LEMMA RefuseInv ==
  ASSUME IssueInv, NEW k \in Ops, Refuse(k)
  PROVE  IssueInv'
  <1>1. op[k].phase = "sent" /\ UNCHANGED <<detail, open, stored, wire, conn, putBack>>
    BY DEF Refuse
  <1>2. op[k].kind # "none"
    BY <1>1 DEF IssueInv, Typed, OpsTyped, IsOp
  <1>3. CASE op[k].kind = "more"
    <2>1. op' = [op EXCEPT ![k] = Over(op[k].kind, op[k].issues)]
      BY <1>3 DEF Refuse, Over
    <2>2. OpsTyped' /\ BornOnce' /\ (Born => Born') /\ (Updating => Updating') /\ (NothingKept => NothingKept')
      BY <1>2, <1>3, <2>1, EndIs
    <2> QED BY <1>1, <2>2, OpOnly DEF IssueInv, Typed
  <1>4. CASE op[k].kind # "more"
    <2>1. op' = [op EXCEPT ![k].phase = "refused"]
      BY <1>4 DEF Refuse
    <2>2. OpsTyped' /\ BornOnce' /\ (Born => Born') /\ (Updating => Updating') /\ (NothingKept => NothingKept')
      BY <1>1, <2>1, OutcomeIs
    <2> QED BY <1>1, <2>2, OpOnly DEF IssueInv, Typed
  <1> QED BY <1>3, <1>4

LEMMA AnswerMoreInv ==
  ASSUME IssueInv, NEW k \in Ops, AnswerMore(k)
  PROVE  IssueInv'
  <1> DEFINE r == [op[k] EXCEPT !.phase = "committed",
                                !.keep = <<op[k].keep[1], Page(op[k].status, op[k].keep[1])>>]
  <1>1. op[k].kind = "more" /\ op' = [op EXCEPT ![k] = r] /\ UNCHANGED <<detail, open, stored, wire, conn, putBack>>
    BY DEF AnswerMore
  <1>2. IsOp(op[k])
    BY DEF IssueInv, Typed, OpsTyped
  <1>3. IsOp(r) /\ r.kind = "more"
    <2> DEFINE x == <<op[k].keep[1], Page(op[k].status, op[k].keep[1])>>
               o == op[k]
    <2>1. r = [o EXCEPT !.phase = "committed", !.keep = x] /\ IsOp(o) /\ o.kind = "more"
      BY <1>1, <1>2
    <2> HIDE DEF x, o, r
    <2>2. r = [kind |-> o.kind, issues |-> o.issues, status |-> o.status, phase |-> "committed", keep |-> x]
      BY <2>1 DEF IsOp
    <2> QED BY <2>1, <2>2 DEF IsOp
  <1>4. ~Keeping(r) /\ ~CreatesViewed(r) /\ ~CreatesViewed(op[k])
    BY <1>1, <1>3 DEF Keeping, CreatesViewed
  <1> HIDE DEF r
  <1>5. OpsTyped' /\ BornOnce' /\ op'[k] = r /\ \A j \in Ops : j # k => op'[j] = op[j]
    BY <1>1, <1>3, <1>4, OpMoves DEF IssueInv, Typed
  <1>6. (Born => Born') /\ (Updating => Updating') /\ (NothingKept => NothingKept')
    BY <1>1, <1>4, <1>5, MovesOn
  <1> QED BY <1>1, <1>5, <1>6, OpOnly DEF IssueInv, Typed

LEMMA MoreLandsInv ==
  ASSUME IssueInv, NEW k \in Ops, MoreLands(k)
  PROVE  IssueInv'
  <1>1. /\ op[k].kind = "more" /\ op' = [op EXCEPT ![k] = Over(op[k].kind, op[k].issues)]
        /\ UNCHANGED <<detail, open, stored, wire, conn>> /\ putBack' \in BOOLEAN /\ (putBack => putBack')
    BY DEF MoreLands, IssueInv, Typed
  <1>2. OpsTyped' /\ BornOnce' /\ (Born => Born') /\ (Updating => Updating') /\ (NothingKept => NothingKept')
    BY <1>1, EndIs
  <1> QED BY <1>1, <1>2, OpOnly

(* onSuccess, onError and onSettled.                                       *)
LEMMA RestoreIs ==
  ASSUME NEW V, NEW q \in Query(V), NEW was, was = <<>> \/ (was = <<was[1]>> /\ was[1] \in V)
  PROVE  /\ Restore(q, was) \in Query(V)
         /\ was = <<>> => Restore(q, was) = q
         /\ was # <<>> => Restore(q, was) = SetData(q, was[1])
  <1>1. CASE was = <<>>
    BY <1>1 DEF Restore
  <1>2. CASE was # <<>>
    BY <1>2, SetDataIs DEF Restore
  <1> QED BY <1>1, <1>2

LEMMA SettleInv ==
  ASSUME IssueInv, NEW k \in Ops, Settle(k)
  PROVE  IssueInv'
  <1> DEFINE o == op[k]
             was == o.keep[2]
             back == Restore(detail, was)
  <1>0. IsOp(o) /\ detail \in Query(Statuses) /\ open \in BOOLEAN /\ putBack \in BOOLEAN
    BY DEF IssueInv, Typed, OpsTyped
  <1>1. /\ o.phase \in {"committed", "refused"} /\ o.kind \notin {"none", "more"}
        /\ op' = [op EXCEPT ![k] = Over(op[k].kind, op[k].issues)]
        /\ UNCHANGED <<open, stored, wire, conn>> /\ putBack' \in BOOLEAN /\ (putBack => putBack')
        /\ putBack' = (putBack \/ PutsBack(k))
    BY <1>0 DEF Settle, IsOp
  <1>2. /\ OpsTyped' /\ BornOnce' /\ (Born => Born') /\ (NothingKept => NothingKept')
        /\ ~(o.kind = "update" /\ Viewed \in o.issues) => (Updating => Updating')
    BY <1>1, EndIs
  <1>3. o.kind \in {"update", "delete"} => was = <<>> \/ (was = <<was[1]>> /\ was[1] \in Statuses)
    BY <1>0 DEF IsOp
  <1>4. NothingKept /\ o.kind \in {"update", "delete"} /\ Viewed \in o.issues => was = <<>>
    BY DEF NothingKept, Keeping
  <1>5. CASE \/ Viewed \notin o.issues
             \/ o.kind \notin {"update", "delete"}
             \/ o.kind = "delete" /\ o.phase = "refused" /\ was = <<>>
    <2>1. detail' = detail
      <3>1. was = <<>> => back = detail
        BY <1>0, RestoreIs
      <3> QED BY <1>1, <1>5, <3>1 DEF Settle
    <2>2. ~(o.kind = "update" /\ Viewed \in o.issues)
      BY <1>5
    <2>3. UNCHANGED <<detail, open, stored, wire, conn>>
      BY <1>1, <2>1
    <2> QED BY <1>1, <1>2, <2>2, <2>3, OpOnly
  <1>6. CASE Viewed \in o.issues /\ o.kind = "update"
    <2> DEFINE b == IF o.phase = "refused" THEN back ELSE detail
    <2>1. detail' = Invalidate(b, open)
      BY <1>6 DEF Settle
    <2>2. back \in Query(Statuses) /\ (was = <<>> => back = detail)
      BY <1>0, <1>3, <1>6, RestoreIs
    <2>3. b \in Query(Statuses) /\ (was = <<>> => b = detail)
      BY <1>0, <2>2
    <2> HIDE DEF b, back, was
    <2>4. CASE open
      <3>1. detail' \in Query(Statuses) /\ Busy(detail') /\ (Blank(b) => Blank(detail'))
        BY <2>1, <2>3, <2>4, InvalidateIs
      <3>2. DetailTold'
        BY <3>1, NothingShown
      <3>3. ~Born /\ Blank(detail) /\ NothingKept => Blank(detail')
        BY <1>4, <1>6, <2>3, <3>1
      <3> QED BY <1>1, <1>2, <2>4, <3>1, <3>2, <3>3, DetailOnly
    <2>5. CASE ~open
      <3>1. b = Absent
        BY <1>4, <1>6, <2>3, <2>5 DEF IssueInv, Closed
      <3>2. detail' = Absent
        BY <1>0, <2>1, <2>5, <3>1, AbsentIs, InvalidateIs
      <3>3. detail' \in Query(Statuses) /\ Blank(detail')
        BY <3>2, AbsentIs
      <3>4. DetailTold'
        BY <3>3, NothingShown
      <3> QED BY <1>1, <1>2, <3>2, <3>3, <3>4, DetailOnly
    <2> QED BY <2>4, <2>5
  <1>7. CASE Viewed \in o.issues /\ o.kind = "delete" /\ o.phase = "committed"
    <2>1. detail' = Removed(Viewed)
      BY <1>7 DEF Settle
    <2>2. detail' \in Query(Statuses) /\ Blank(detail') /\ (~open => detail' = Absent)
      BY <1>0, <2>1, RemovedIs
    <2>3. DetailTold'
      BY <2>2, NothingShown
    <2> QED BY <1>1, <1>2, <2>2, <2>3, DetailOnly
  <1>8. CASE Viewed \in o.issues /\ o.kind = "delete" /\ o.phase = "refused" /\ was # <<>>
    <2> DEFINE q == SetData(detail, was[1])
    <2>1. detail' = back
      BY <1>8 DEF Settle
    <2>2. was = <<was[1]>> /\ was[1] \in Statuses /\ ~NothingKept
      BY <1>3, <1>4, <1>8, SMTT(30)
    <2>3. back = q
      BY <1>0, <1>8, <2>2, RestoreIs
    <2>4. /\ q \in Query(Statuses) /\ HasData(q) /\ q.data[1] = was[1] /\ ~q.stale
          /\ (Back(q) => q.owed)
      BY <1>0, <2>2, SetDataIs
    <2>5. ~putBack' /\ Viewed \in DOMAIN stored => was[1] = stored[Viewed]
      BY <1>1, <1>8 DEF PutsBack
    <2> HIDE DEF q, was, back
    <2>6. DetailTold'
      BY <1>1, <2>1, <2>3, <2>4, <2>5 DEF DetailTold, Told, HasData, Back
    <2> QED BY <1>1, <1>2, <2>1, <2>2, <2>3, <2>4, <2>6, DetailOnly
  <1> QED BY <1>1, <1>5, <1>6, <1>7, <1>8

-----------------------------------------------------------------------------
(* The server commits, for this user or for others.                        *)
LEMMA DoInv ==
  ASSUME IssueInv, NEW kind \in {"create", "update", "batch", "delete"}, NEW S \in SUBSET Issues, NEW s,
         kind # "delete" => s \in Statuses,
         Do(kind, S, s), OpsTyped', BornOnce', Born => Born', Updating => Updating',
         NothingKept => NothingKept',
         kind = "create" /\ Viewed \in S => ~Born /\ Born',
         UNCHANGED <<detail, open, conn, putBack>>
  PROVE  IssueInv'
  <1> DEFINE there == S \cap DOMAIN stored
  <1>0. /\ wire \in Seq(Event) /\ (conn = "down" => wire = <<>>)
        /\ stored \in [DOMAIN stored -> Statuses] /\ DOMAIN stored \subseteq Issues
        /\ there \in SUBSET Issues
    BY DEF IssueInv, Typed, WireTyped, StoreTyped
  <1>1. StoreTyped'
    <2>1. CASE kind = "create"
      <3>1. stored' = [i \in DOMAIN stored \cup S |-> IF i \in S THEN s ELSE stored[i]]
        BY <2>1 DEF Do
      <3>2. DOMAIN stored' = DOMAIN stored \cup S
        BY <3>1
      <3>3. stored' \in [DOMAIN stored \cup S -> Statuses]
        BY <1>0, <2>1, <3>1
      <3> QED BY <1>0, <3>2, <3>3 DEF StoreTyped
    <2>2. CASE kind \in {"update", "batch"}
      <3>1. stored' = [i \in DOMAIN stored |-> IF i \in S THEN s ELSE stored[i]]
        BY <2>2 DEF Do
      <3>2. DOMAIN stored' = DOMAIN stored
        BY <3>1
      <3>3. stored' \in [DOMAIN stored -> Statuses]
        BY <1>0, <2>2, <3>1
      <3> QED BY <1>0, <3>2, <3>3 DEF StoreTyped
    <2>3. CASE kind = "delete"
      <3>1. stored' = [i \in DOMAIN stored \ S |-> stored[i]]
        BY <2>3 DEF Do
      <3>2. DOMAIN stored' = DOMAIN stored \ S
        BY <3>1
      <3>3. stored' \in [DOMAIN stored \ S -> Statuses]
        BY <1>0, <3>1
      <3> QED BY <1>0, <3>2, <3>3 DEF StoreTyped
    <2> QED BY <2>1, <2>2, <2>3
  <1>2. /\ wire' \in Seq(Event) /\ (conn = "down" => wire' = wire)
        /\ ~(kind \in {"update", "batch"} /\ Viewed \in there) =>
             /\ Announced(wire') <=> Announced(wire)
             /\ \A v : LastSays(wire, v) => LastSays(wire', v)
        /\ kind \in {"update", "batch"} /\ Viewed \in there /\ conn # "down" =>
             Announced(wire') /\ LastSays(wire', s)
    <2> DEFINE type == IF kind = "create" THEN "created" ELSE IF kind = "delete" THEN "deleted" ELSE "updated"
               whom == IF kind = "create" THEN S ELSE there
               status == IF kind = "delete" THEN "" ELSE s
    <2> DEFINE e == Events(type, whom, status)
    <2>1. wire' = IF conn = "down" THEN wire ELSE wire \o e
      BY DEF Do, Notify
    <2>2. whom \in SUBSET Issues /\ \A i \in whom : [kind |-> type, status |-> status, issue |-> i] \in Event
      BY <1>0 DEF Event
    <2>3. /\ type = "updated" <=> kind \in {"update", "batch"}
          /\ type = "updated" => whom = there /\ status = s
      OBVIOUS
    <2> HIDE DEF type, whom, status
    <2>4. /\ e \in Seq(Event)
          /\ \A n \in DOMAIN e : e[n].kind = type /\ e[n].status = status /\ e[n].issue \in whom
          /\ \A i \in whom : \E n \in DOMAIN e : e[n].issue = i
      BY <2>2, EventsAre
    <2> HIDE DEF e
    <2>5. CASE conn = "down"
      BY <1>0, <2>1, <2>5
    <2>6. CASE conn # "down"
      <3>1. wire' = wire \o e /\ wire' \in Seq(Event)
        BY <1>0, <2>1, <2>4, <2>6
      <3>2. ASSUME ~(kind \in {"update", "batch"} /\ Viewed \in there) PROVE ~Announced(e)
        BY <2>3, <2>4, <3>2 DEF Announced, News
      <3>3. ASSUME kind \in {"update", "batch"}, Viewed \in there
            PROVE  Announced(e) /\ \A n \in DOMAIN e : News(e[n]) => e[n].status = s
        BY <2>3, <2>4, <3>3 DEF Announced, News
      <3>4. ASSUME NEW v
            PROVE  /\ Announced(wire') <=> Announced(wire) \/ Announced(e)
                   /\ LastSays(wire, v) /\ ~Announced(e) => LastSays(wire', v)
                   /\ Announced(e) /\ (\A n \in DOMAIN e : News(e[n]) => e[n].status = v) => LastSays(wire', v)
        BY <1>0, <2>4, <3>1, MoreNews
      <3> QED BY <2>6, <3>1, <3>2, <3>3, <3>4
    <2> QED BY <2>5, <2>6
  <1> HIDE DEF there
  <1>3. WireTyped'
    BY <1>0, <1>2 DEF WireTyped
  <1>4. Typed'
    BY <1>1, <1>3 DEF IssueInv, Typed
  <1>5. Closed'
    BY DEF IssueInv, Closed
  <1>6. (Announced(wire)' <=> Announced(wire')) /\ \A v : LastSays(wire', v) <=> LastSays(wire, v)'
    BY DEF Announced, LastSays
  <1>7. CASE kind = "create" /\ Viewed \in S
    <2>1. Viewed \in DOMAIN stored' /\ stored'[Viewed] = s
      BY <1>7 DEF Do
    <2>2. ~Announced(wire) /\ Blank(detail)
      BY <1>7 DEF IssueInv, Unborn
    <2>3. ~Announced(wire')
      BY <1>2, <1>7, <2>2
    <2>4. Unborn'
      BY <1>7 DEF Unborn
    <2>5. NewsTrue'
      BY <2>3 DEF NewsTrue, LastSays, Announced
    <2>6. DetailTold'
      BY <2>2 DEF DetailTold, Blank, HasData, Back
    <2> QED BY <1>4, <1>5, <2>4, <2>5, <2>6 DEF IssueInv
  <1>8. CASE kind \in {"update", "batch"} /\ Viewed \in there
    <2>1. Viewed \in DOMAIN stored /\ Viewed \in S
      BY <1>8 DEF there
    <2>2. Viewed \in DOMAIN stored' /\ stored'[Viewed] = s
      BY <1>8, <2>1 DEF Do
    <2>3. Unborn'
      BY <2>1 DEF IssueInv, Unborn
    <2>4. conn = "down" \/ Announced(wire')
      BY <1>2, <1>8
    <2>5. LastSays(wire', s)
      <3>1. conn = "down" => wire' = <<>>
        BY <1>0, <1>2
      <3> QED BY <1>2, <1>8, <3>1 DEF LastSays
    <2>6. NewsTrue'
      BY <2>2, <2>5 DEF NewsTrue, LastSays
    <2>7. DetailTold'
      BY <2>1, <2>4 DEF IssueInv, DetailTold, Told, Announced
    <2> QED BY <1>4, <1>5, <2>3, <2>6, <2>7 DEF IssueInv
  <1>9. CASE kind = "delete" /\ Viewed \in S
    <2>1. Viewed \notin DOMAIN stored'
      BY <1>9 DEF Do
    <2>2. Unborn'
      BY <1>2, <1>6, <1>9, <2>1 DEF IssueInv, Unborn
    <2> QED BY <1>4, <1>5, <2>1, <2>2 DEF IssueInv, NewsTrue, DetailTold
  <1>10. CASE Viewed \notin S \/ (kind \in {"update", "batch"} /\ Viewed \notin there)
    <2>1. /\ Viewed \in DOMAIN stored' <=> Viewed \in DOMAIN stored
          /\ Viewed \in DOMAIN stored => stored'[Viewed] = stored[Viewed]
      <3>1. CASE kind = "create"
        BY <1>10, <3>1 DEF Do
      <3>2. CASE kind \in {"update", "batch"}
        BY <1>10, <3>2 DEF Do, there
      <3>3. CASE kind = "delete"
        BY <1>10, <3>3 DEF Do
      <3> QED BY <3>1, <3>2, <3>3
    <2>2. Viewed \notin there \/ kind \notin {"update", "batch"}
      BY <1>10 DEF there
    <2>3. (Announced(wire') <=> Announced(wire)) /\ \A v : LastSays(wire, v) => LastSays(wire', v)
      BY <1>2, <2>2
    <2>4. Unborn'
      BY <1>6, <2>1, <2>3 DEF IssueInv, Unborn
    <2>5. NewsTrue'
      <3>1. Viewed \in DOMAIN stored => LastSays(wire', stored[Viewed])
        BY <2>3 DEF IssueInv, NewsTrue
      <3> QED BY <2>1, <3>1 DEF NewsTrue, LastSays
    <2>6. DetailTold'
      BY <1>6, <2>1, <2>3 DEF IssueInv, DetailTold, Told
    <2> QED BY <1>4, <1>5, <2>4, <2>5, <2>6 DEF IssueInv
  <1> QED BY <1>7, <1>8, <1>9, <1>10

LEMMA CommitInv ==
  ASSUME IssueInv, NEW k \in Ops, Commit(k)
  PROVE  IssueInv'
  <1>0. IsOp(op[k])
    BY DEF IssueInv, Typed, OpsTyped
  <1>1. /\ op[k].phase = "sent" /\ op[k].kind \notin {"more", "none"}
        /\ Do(op[k].kind, op[k].issues, op[k].status) /\ UNCHANGED <<detail, open, conn, putBack>>
    BY <1>0 DEF Commit, IsOp
  <1>2. PICK p \in {"committed", "refused"} : op' = [op EXCEPT ![k].phase = p]
    BY DEF Commit
  <1>3. /\ OpsTyped' /\ BornOnce' /\ (Born => Born') /\ (Updating => Updating') /\ (NothingKept => NothingKept')
        /\ CreatesViewed(op[k]) => ~Born /\ Born'
    BY <1>1, <1>2, OutcomeIs
  <1> DEFINE kind == op[k].kind
             S == op[k].issues
             s == op[k].status
  <1>4. /\ kind \in {"create", "update", "batch", "delete"} /\ S \in SUBSET Issues
        /\ kind # "delete" => s \in Statuses
    BY <1>0, <1>1 DEF IsOp
  <1>5. kind = "create" /\ Viewed \in S => ~Born /\ Born'
    BY <1>3 DEF CreatesViewed
  <1>6. Do(kind, S, s)
    BY <1>1
  <1> HIDE DEF kind, S, s
  <1> QED BY <1>1, <1>3, <1>4, <1>5, <1>6, DoInv

LEMMA OtherActsInv ==
  ASSUME IssueInv, NEW k \in Ops, NEW kind \in Kinds, NEW s \in Statuses, NEW i \in Issues,
         OtherActs(k, kind, {i}, s)
  PROVE  IssueInv'
  <1> DEFINE r == Over(kind, {i})
             S == {i}
  <1>1. /\ kind \in {"create", "update", "delete"} /\ op[k] = NoOp /\ op' = [op EXCEPT ![k] = r]
        /\ Do(kind, S, s) /\ UNCHANGED <<detail, open, conn, putBack>>
        /\ kind = "create" => Fresh(i)
    BY IssueAssumption DEF OtherActs
  <1>2. /\ IsOp(r) /\ r.kind = "none" /\ r.phase = "settled" /\ ~Keeping(r)
        /\ CreatesViewed(r) <=> kind = "create" /\ i = Viewed
    <2> DEFINE o == [kind |-> kind, issues |-> {i}, status |-> s, phase |-> "committed", keep |-> <<0, <<>> >>]
    <2>1. IsOp(o) /\ o.kind = kind /\ o.issues = {i} /\ o.kind # "none"
      BY <1>1 DEF IsOp
    <2>2. CreatesViewed(o) <=> kind = "create" /\ i = Viewed
      BY <1>1 DEF CreatesViewed
    <2> HIDE DEF o
    <2>3. LET x == Over(o.kind, o.issues)
          IN  /\ IsOp(x) /\ x.kind = "none" /\ x.phase = "settled" /\ ~Keeping(x)
              /\ CreatesViewed(x) <=> CreatesViewed(o)
      BY <2>1, OverIs
    <2> QED BY <2>1, <2>2, <2>3
  <1> HIDE DEF r
  <1>3. kind = "create" /\ i = Viewed => Unheld
    BY <1>1 DEF Fresh, Unused, Unheld
  <1>4. ~CreatesViewed(op[k]) /\ op[k].kind # "update"
    BY <1>1, NoOpIs
  <1>5. OpsTyped' /\ BornOnce' /\ op'[k] = r /\ \A j \in Ops : j # k => op'[j] = op[j]
    BY <1>1, <1>2, <1>3, OpMoves DEF IssueInv, Typed
  <1>6. (Born => Born') /\ (Updating => Updating') /\ (NothingKept => NothingKept')
    BY <1>2, <1>4, <1>5, MovesOn
  <1>7. ASSUME kind = "create", Viewed \in S PROVE ~Born /\ Born'
    <2>1. i = Viewed
      BY <1>7
    <2>2. ~Born
      BY <1>3, <1>7, <2>1 DEF Unheld, Born, CreatesViewed
    <2>3. CreatesViewed(op'[k]) /\ op'[k].phase # "sent"
      BY <1>2, <1>5, <1>7, <2>1
    <2>4. Born'
      BY <2>3 DEF Born, CreatesViewed
    <2> QED BY <2>2, <2>4
  <1>8. S \in SUBSET Issues
    OBVIOUS
  <1> HIDE DEF S
  <1> QED BY <1>1, <1>5, <1>6, <1>7, <1>8, DoInv

-----------------------------------------------------------------------------
(* The socket.                                                             *)
LEMMA DeliverInv ==
  ASSUME IssueInv, Deliver
  PROVE  IssueInv'
  <1> DEFINE m == wire[1]
  <1>0. /\ wire \in Seq(Event) /\ wire # <<>> /\ conn # "down" /\ wire' = Tail(wire)
        /\ UNCHANGED <<open, op, stored, conn, putBack>>
        /\ detail \in Query(Statuses) /\ open \in BOOLEAN
    BY DEF Deliver, IssueInv, Typed, WireTyped
  <1>1. m \in Event /\ m.kind \in {"created", "updated", "deleted"} /\ (m.kind = "updated" => m.status \in Statuses)
    <2>1. m \in Event
      BY <1>0
    <2> QED BY <2>1 DEF Event
  <1>2. /\ m.kind = "created" => detail' = detail
        /\ m.kind = "updated" => detail' = IF m.issue = Viewed THEN Patched(detail, m.status) ELSE detail
        /\ m.kind = "deleted" => detail' = Removed(m.issue)
    BY DEF Deliver, Patched
  <1>3. ASSUME NEW v
        PROVE  /\ wire' \in Seq(Event)
               /\ Announced(wire) <=> News(m) \/ Announced(wire')
               /\ LastSays(wire, v) => LastSays(wire', v)
               /\ LastSays(wire, v) /\ News(m) => Announced(wire') \/ m.status = v
    BY <1>0, LessNews
  <1>4. (Announced(wire)' <=> Announced(wire')) /\ \A v : LastSays(wire', v) <=> LastSays(wire, v)'
    BY DEF Announced, LastSays
  <1> HIDE DEF m
  <1>5. OpsTyped' /\ BornOnce' /\ (Born' <=> Born) /\ (NothingKept' <=> NothingKept) /\ (Updating' <=> Updating)
    BY <1>0 DEF IssueInv, Typed, OpsTyped, BornOnce, Born, NothingKept, Updating
  <1>6. StoreTyped' /\ WireTyped'
    BY <1>0, <1>3 DEF IssueInv, Typed, StoreTyped, WireTyped
  <1>7. NewsTrue'
    <2>1. Viewed \in DOMAIN stored => LastSays(wire', stored[Viewed])
      BY <1>3 DEF IssueInv, NewsTrue
    <2> QED BY <1>0, <2>1 DEF NewsTrue, LastSays
  <1>8. ASSUME detail' \in Query(Statuses), detail = Absent => detail' = Absent \/ open,
               Blank(detail) => Blank(detail'), DetailTold'
        PROVE  IssueInv'
    <2>1. Typed'
      BY <1>0, <1>5, <1>6, <1>8 DEF IssueInv, Typed
    <2>2. Closed'
      BY <1>0, <1>5, <1>8 DEF IssueInv, Closed
    <2>3. Unborn'
      <3>1. ~Born => Viewed \notin DOMAIN stored /\ Blank(detail') /\ ~Announced(wire') /\ NothingKept
        BY <1>3, <1>8 DEF IssueInv, Unborn
      <3>2. Blank(detail') <=> Blank(detail)'
        BY DEF Blank, Back
      <3> QED BY <1>0, <1>4, <1>5, <3>1, <3>2 DEF Unborn
    <2> QED BY <1>5, <1>7, <2>1, <2>2, <2>3, <1>8 DEF IssueInv
  <1>9. CASE m.kind = "deleted" /\ m.issue = Viewed
    <2>1. detail' \in Query(Statuses) /\ Blank(detail') /\ (~open => detail' = Absent)
      BY <1>0, <1>2, <1>9, RemovedIs
    <2> QED BY <1>0, <1>8, <2>1, NothingShown
  <1>10. CASE m.kind = "updated" /\ m.issue = Viewed
    <2> DEFINE q == Patched(detail, m.status)
    <2>1. detail' = q /\ m.status \in Statuses /\ News(m)
      BY <1>1, <1>2, <1>10 DEF News
    <2>2. /\ q \in Query(Statuses) /\ (q.data = <<>> <=> detail.data = <<>>) /\ (Back(q) <=> Back(detail))
          /\ HasData(q) => q.data[1] = m.status /\ ~q.stale
          /\ Back(q) => q.owed
          /\ detail = Absent => q = Absent
      BY <1>0, <2>1, PatchIs
    <2>3. Viewed \in DOMAIN stored => Announced(wire') \/ m.status = stored[Viewed]
      BY <1>3, <2>1 DEF IssueInv, NewsTrue
    <2> HIDE DEF q
    <2>4. Blank(detail) => Blank(detail')
      BY <2>1, <2>2 DEF Blank
    <2>5. DetailTold'
      BY <1>0, <1>4, <2>1, <2>2, <2>3 DEF DetailTold, Told, HasData, Back
    <2> QED BY <1>8, <2>1, <2>2, <2>4, <2>5
  <1>11. CASE m.issue # Viewed \/ m.kind = "created"
    <2>1. detail' = detail /\ ~News(m)
      BY <1>1, <1>0, <1>2, <1>11, RemovedIs DEF News
    <2>2. Announced(wire') <=> Announced(wire)
      BY <1>3, <2>1
    <2>3. DetailTold'
      BY <1>0, <1>4, <1>5, <2>1, <2>2 DEF IssueInv, DetailTold, Told
    <2> QED BY <1>0, <1>8, <2>1, <2>3
  <1> QED BY <1>1, <1>9, <1>10, <1>11

LEMMA DropInv ==
  ASSUME IssueInv, Drop
  PROVE  IssueInv'
  <1>1. conn' = "down" /\ wire' = <<>> /\ UNCHANGED <<detail, open, op, stored, putBack>>
    BY DEF Drop
  <1>2. OpsTyped' /\ BornOnce' /\ (Born' <=> Born) /\ (NothingKept' <=> NothingKept)
    BY <1>1 DEF IssueInv, Typed, OpsTyped, BornOnce, Born, NothingKept
  <1>3. Typed'
    BY <1>1, <1>2 DEF IssueInv, Typed, StoreTyped, WireTyped
  <1>4. Closed'
    BY <1>1, <1>2 DEF IssueInv, Closed
  <1>5. Unborn'
    BY <1>1, <1>2 DEF IssueInv, Unborn, Announced
  <1>6. NewsTrue'
    BY <1>1 DEF NewsTrue, LastSays
  <1>7. DetailTold'
    BY <1>1 DEF IssueInv, DetailTold, Told
  <1> QED BY <1>2, <1>3, <1>4, <1>5, <1>6, <1>7 DEF IssueInv

LEMMA ReconnectInv ==
  ASSUME IssueInv, Reconnect
  PROVE  IssueInv'
  <1>1. /\ conn = "down" /\ conn' = "again" /\ detail' = Invalidate(detail, open)
        /\ UNCHANGED <<open, op, stored, wire, putBack>>
        /\ detail \in Query(Statuses) /\ open \in BOOLEAN
    BY DEF Reconnect, IssueInv, Typed
  <1>2. OpsTyped' /\ BornOnce' /\ (Born' <=> Born) /\ (NothingKept' <=> NothingKept)
    BY <1>1 DEF IssueInv, Typed, OpsTyped, BornOnce, Born, NothingKept
  <1>3. /\ detail' \in Query(Statuses) /\ (Blank(detail) => Blank(detail'))
        /\ Blank(detail') \/ Busy(detail')
        /\ ~open => detail' = Absent
    <2>1. CASE open
      BY <1>1, <2>1, InvalidateIs
    <2>2. CASE ~open
      <3>1. detail = Absent
        BY <2>2 DEF IssueInv, Closed
      <3>2. detail' = Absent
        BY <1>1, <2>2, <3>1, AbsentIs, InvalidateIs
      <3> QED BY <2>2, <3>2, AbsentIs
    <2> QED BY <2>1, <2>2
  <1>4. Typed'
    BY <1>1, <1>2, <1>3 DEF IssueInv, Typed, StoreTyped, WireTyped
  <1>5. Closed'
    BY <1>1, <1>2, <1>3 DEF IssueInv, Closed
  <1>6. Unborn'
    <2>1. Blank(detail') <=> Blank(detail)'
      BY DEF Blank, Back
    <2> QED BY <1>1, <1>2, <1>3, <2>1 DEF IssueInv, Unborn
  <1>7. NewsTrue'
    BY <1>1 DEF IssueInv, NewsTrue
  <1>8. DetailTold'
    BY <1>3, NothingShown
  <1> QED BY <1>2, <1>4, <1>5, <1>6, <1>7, <1>8 DEF IssueInv

-----------------------------------------------------------------------------
(* The page.                                                               *)
LEMMA OpenInv ==
  ASSUME IssueInv, Open
  PROVE  IssueInv'
  <1>1. ~open /\ open' = TRUE /\ detail' = Mount(detail) /\ UNCHANGED <<op, stored, wire, conn, putBack>>
    BY DEF Open
  <1>2. detail' \in Query(Statuses) /\ Blank(detail')
    BY <1>1, MountIs DEF IssueInv, Closed
  <1>3. OpsTyped' /\ BornOnce' /\ (Born' <=> Born) /\ (NothingKept' <=> NothingKept)
    BY <1>1 DEF IssueInv, Typed, OpsTyped, BornOnce, Born, NothingKept
  <1>4. Typed'
    BY <1>1, <1>2, <1>3 DEF IssueInv, Typed, StoreTyped, WireTyped
  <1>5. Unborn'
    <2>1. Blank(detail') <=> Blank(detail)'
      BY DEF Blank, Back
    <2> QED BY <1>1, <1>2, <1>3, <2>1 DEF IssueInv, Unborn
  <1>6. NewsTrue'
    BY <1>1 DEF IssueInv, NewsTrue
  <1>7. DetailTold'
    BY <1>2, NothingShown
  <1> QED BY <1>1, <1>3, <1>4, <1>5, <1>6, <1>7 DEF IssueInv, Closed

LEMMA FetchDetailInv ==
  ASSUME IssueInv, FetchDetail
  PROVE  IssueInv'
  <1>0. /\ ~Idle(detail) /\ UNCHANGED <<open, op, stored, wire, conn, putBack>>
        /\ detail \in Query(Statuses) /\ putBack \in BOOLEAN /\ stored \in [DOMAIN stored -> Statuses]
    BY DEF FetchDetail, IssueInv, Typed, StoreTyped
  <1>1. open
    BY <1>0, AbsentIs DEF IssueInv, Closed
  <1>2. OpsTyped' /\ BornOnce' /\ (Born' <=> Born) /\ (NothingKept' <=> NothingKept) /\ (Updating' <=> Updating)
    BY <1>0 DEF IssueInv, Typed, OpsTyped, BornOnce, Born, NothingKept, Updating
  <1>3. CASE Sent(detail) /\ Viewed \in DOMAIN stored
    <2> DEFINE v == stored[Viewed]
               q == Answer(detail, v)
    <2>0. v \in Statuses /\ ~Back(detail)
      BY <1>0, <1>3, QueryIs
    <2>1. detail' = q
      BY <1>3, <2>0 DEF FetchDetail
    <2> HIDE DEF v
    <2>2. q \in Query(Statuses) /\ q.data = detail.data /\ Back(q) /\ q.fetch[2] = v /\ ~Idle(q)
      BY <1>0, <2>0, FetchIs
    <2> HIDE DEF q
    <2>3. DetailTold'
      BY <1>0, <2>1, <2>2 DEF DetailTold, Told, Idle, v
    <2>4. Born
      BY <1>3 DEF IssueInv, Unborn
    <2> QED BY <1>0, <1>1, <1>2, <2>1, <2>2, <2>3, <2>4, DetailOnly
  <1>4. CASE Sent(detail) /\ Viewed \notin DOMAIN stored
    <2> DEFINE q == Fail(detail)
    <2>1. detail' = q
      <3>1. ~Back(detail)
        BY <1>0, <1>4, QueryIs
      <3> QED BY <1>4, <3>1 DEF FetchDetail
    <2>2. q \in Query(Statuses) /\ q.data = detail.data /\ ~Back(q)
      <3>1. Columns[1] \in Statuses
        BY IssueAssumption DEF Statuses, Paged, Range
      <3> QED BY <1>0, <3>1, FetchIs
    <2> HIDE DEF q
    <2>3. DetailTold'
      BY <1>0, <1>4 DEF DetailTold
    <2>4. Blank(detail) => Blank(detail')
      BY <2>1, <2>2 DEF Blank
    <2> QED BY <1>0, <1>1, <1>2, <2>1, <2>2, <2>3, <2>4, DetailOnly
  <1>5. CASE Back(detail)
    <2> DEFINE q == Land(detail)
    <2>1. ~Sent(detail)
      BY <1>0, <1>5, QueryIs
    <2>2. detail' = q
      BY <1>5, <2>1 DEF FetchDetail
    <2>3. /\ q \in Query(Statuses) /\ q.data[1] = detail.fetch[2] /\ ~q.stale
          /\ q.owed = detail.owed /\ Idle(q) /\ ~Back(q)
      <3>1. Columns[1] \in Statuses
        BY IssueAssumption DEF Statuses, Paged, Range
      <3> QED BY <1>0, <1>5, <3>1, FetchIs
    <2> HIDE DEF q
    <2>4. Viewed \in DOMAIN stored /\ ~putBack /\ ~detail.owed => Told(detail.fetch[2])
      BY <1>5 DEF IssueInv, DetailTold
    <2>5. DetailTold'
      BY <1>0, <1>2, <2>2, <2>3, <2>4 DEF DetailTold, Told, Back
    <2>6. Born
      BY <1>5 DEF IssueInv, Unborn, Blank
    <2> QED BY <1>0, <1>1, <1>2, <2>2, <2>3, <2>5, <2>6, DetailOnly
  <1> QED BY <1>0, <1>3, <1>4, <1>5, QueryIs

-----------------------------------------------------------------------------
LEMMA IssueStep == IssueInv /\ [Next]_vars => IssueInv'
  <1> SUFFICES ASSUME IssueInv, [Next]_vars PROVE IssueInv'
    OBVIOUS
  <1>1. CASE Deliver \/ Drop \/ Reconnect \/ Open \/ FetchDetail
    BY <1>1, DeliverInv, DropInv, ReconnectInv, OpenInv, FetchDetailInv
  <1>2. CASE ListLands \/ (\E s \in Paged : ReadColumn(s)) \/ UNCHANGED vars
    <2>1. UNCHANGED <<detail, open, op, stored, wire, conn, putBack>>
      BY <1>2 DEF ListLands, ReadColumn, vars
    <2>2. OpsTyped' /\ BornOnce' /\ (Born' <=> Born) /\ (NothingKept' <=> NothingKept) /\ (Updating' <=> Updating)
      BY <2>1 DEF IssueInv, Typed, OpsTyped, BornOnce, Born, NothingKept, Updating
    <2> QED BY <2>1, <2>2, OpOnly DEF IssueInv, Typed
  <1>3. CASE \E k \in Ops : Settle(k) \/ MoreLands(k) \/ Commit(k) \/ Refuse(k) \/ AnswerMore(k)
    BY <1>3, SettleInv, MoreLandsInv, CommitInv, RefuseInv, AnswerMoreInv
  <1>4. CASE \E k \in Ops, i \in Issues : Delete(k, i)
    BY <1>4, DeleteInv
  <1>5. CASE \E k \in Ops, s \in Paged : LoadMore(k, s) \/ \E i \in Issues : Create(k, i, s)
    BY <1>5, LoadMoreInv, CreateInv
  <1>6. CASE \E k \in Ops, s \in Statuses, i \in Issues : Update(k, i, s) \/ \E j \in Issues : Batch(k, i, j, s)
    BY <1>6, UpdateInv, BatchInv
  <1>7. CASE \E k \in Ops, kind \in Kinds, s \in Statuses, i \in Issues : OtherActs(k, kind, {i}, s)
    BY <1>7, OtherActsInv
  <1> QED BY <1>1, <1>2, <1>3, <1>4, <1>5, <1>6, <1>7 DEF Next

(* The invariant: what the page shows, or what is about to land on it, is  *)
(* the server's status, unless an event, the end of a disconnection or of  *)
(* this user's own update is still to correct it.                          *)
THEOREM IssueInvariant == Spec => []IssueInv
  <1>1. Init => IssueInv
    BY IssueInit
  <1>2. IssueInv /\ [Next]_vars => IssueInv'
    BY IssueStep
  <1> QED BY <1>1, <1>2, PTL DEF Spec

(* DetailConverges of every run: the page of the issue shows its status    *)
(* once nothing is under way (ws-updaters.ts, mutations.ts,                *)
(* delete-cache.ts), for any number of issues, operations and columns.     *)
THEOREM PageConverges == Spec => []DetailConverges
  <1>1. IssueInv => DetailConverges
    <2> SUFFICES ASSUME IssueInv, Quiet, open, HasData(detail), ~detail.owed, ~putBack, Viewed \in DOMAIN stored
                 PROVE  detail.data[1] = stored[Viewed]
      BY DEF DetailConverges
    <2>1. ~Announced(wire) /\ conn # "down" /\ Idle(detail)
      BY DEF Quiet, Announced
    <2>2. ~Updating
      BY DEF Quiet, IssueInv, Typed, OpsTyped, IsOp, Updating
    <2> QED BY <2>1, <2>2 DEF IssueInv, DetailTold, Told
  <1> QED BY <1>1, IssueInvariant, PTL

-----------------------------------------------------------------------------
(* The board.  A column is a bucket, a board some of the columns.          *)
Boards == UNION {[S -> Bucket] : S \in SUBSET Statuses}

LEMMA BoardIs ==
  /\ \A b \in Boards : b = [s \in DOMAIN b |-> b[s]] /\ IsBoard(b)
  /\ \A b : b = [s \in DOMAIN b |-> b[s]] /\ IsBoard(b) => b \in Boards
  <1>1. ASSUME NEW b \in Boards PROVE b = [s \in DOMAIN b |-> b[s]] /\ IsBoard(b)
    <2>1. PICK S \in SUBSET Statuses : b \in [S -> Bucket]
      BY DEF Boards
    <2> QED BY <2>1 DEF IsBoard
  <1>2. ASSUME NEW b, b = [s \in DOMAIN b |-> b[s]], IsBoard(b) PROVE b \in Boards
    <2> DEFINE S == DOMAIN b
    <2>1. S \in SUBSET Statuses /\ b \in [S -> Bucket]
      BY <1>2 DEF IsBoard
    <2> HIDE DEF S
    <2> QED BY <2>1 DEF Boards
  <1> QED BY <1>1, <1>2

LEMMA NothingRead == <<>> \in Boards /\ DOMAIN <<>> = {}
  <1> DEFINE b == <<>>
  <1>1. DOMAIN b = {} /\ b = [s \in DOMAIN b |-> b[s]] /\ IsBoard(b)
    BY DEF IsBoard
  <1> QED BY <1>1, BoardIs

LEMMA GetBucketIs ==
  ASSUME NEW b \in Boards, NEW s
  PROVE  getBucket(b, s) \in Bucket
  BY BoardIs DEF IsBoard, getBucket, EmptyBucket, Bucket

LEMMA SetBucketIs ==
  ASSUME NEW b \in Boards, NEW s \in Statuses, NEW u \in Bucket
  PROVE  setBucket(b, s, u) \in Boards
  <1> DEFINE r == setBucket(b, s, u)
  <1>1. r = [t \in DOMAIN b \cup {s} |-> IF t = s THEN u ELSE b[t]]
    BY DEF setBucket
  <1>2. /\ DOMAIN r = DOMAIN b \cup {s} /\ r[s] = u
        /\ \A t \in DOMAIN b : t # s => r[t] = b[t]
        /\ r = [t \in DOMAIN r |-> r[t]]
    BY <1>1
  <1> HIDE DEF r
  <1>3. IsBoard(r)
    BY <1>2, BoardIs DEF IsBoard
  <1>4. r \in Boards
    BY <1>2, <1>3, BoardIs
  <1> QED BY <1>4 DEF r

LEMMA GetSetIs ==
  ASSUME NEW b, NEW s, NEW u, NEW t
  PROVE  getBucket(setBucket(b, s, u), t) = IF t = s THEN u ELSE getBucket(b, t)
  BY DEF getBucket, setBucket

LEMMA PutTakeIs ==
  ASSUME NEW u \in Bucket, NEW i \in Issues
  PROVE  Put(u, i) \in Bucket /\ Take(u, i) \in Bucket
  BY DEF Bucket, Put, Take

LEMMA FoundIs ==
  ASSUME NEW b \in Boards, NEW i, Places(b, i) # {}
  PROVE  findIssueLocation(b, i) \in Statuses
  <1> DEFINE P == Places(b, i)
  <1>1. P \in SUBSET Nat /\ P # {} /\ P \subseteq DOMAIN Columns
    BY IssueAssumption DEF Places
  <1> HIDE DEF P
  <1>2. \E n \in P : \A m \in P : n <= m
    <2>1. PICK n \in P : \A m \in P : ~ (<<m, n>> \in OpToRel(<, Nat))
      BY <1>1, NatLessThanWellFounded, WFMin
    <2>2. \A m \in P : ~ (m < n)
      BY <1>1, <2>1 DEF OpToRel
    <2> QED BY <1>1, <2>2
  <1>3. (CHOOSE n \in P : \A m \in P : n <= m) \in P
    BY <1>2
  <1>4. (CHOOSE n \in P : \A m \in P : n <= m) \in DOMAIN Columns
    BY <1>1, <1>3
  <1> QED BY <1>4 DEF findIssueLocation, P, Statuses, Paged, Range

LEMMA BoardOpsAre ==
  ASSUME NEW b \in Boards, NEW i \in Issues, NEW s \in Statuses
  PROVE  /\ addIssueToBuckets(b, i, s) \in Boards
         /\ removeIssueFromBuckets(b, i) \in Boards
         /\ patchIssueInBuckets(b, i, s) \in Boards
  <1>1. addIssueToBuckets(b, i, s) \in Boards
    <2>1. Put(getBucket(b, s), i) \in Bucket
      BY GetBucketIs, PutTakeIs
    <2> QED BY <2>1, SetBucketIs DEF addIssueToBuckets
  <1>2. ASSUME Places(b, i) # {}
        PROVE  setBucket(b, findIssueLocation(b, i), Take(getBucket(b, findIssueLocation(b, i)), i)) \in Boards
    <2> DEFINE t == findIssueLocation(b, i)
    <2>1. t \in Statuses
      BY <1>2, FoundIs
    <2> HIDE DEF t
    <2>2. Take(getBucket(b, t), i) \in Bucket
      BY GetBucketIs, PutTakeIs
    <2>3. setBucket(b, t, Take(getBucket(b, t), i)) \in Boards
      BY <2>1, <2>2, SetBucketIs
    <2> QED BY <2>3 DEF t
  <1>3. removeIssueFromBuckets(b, i) \in Boards
    BY <1>2 DEF removeIssueFromBuckets
  <1>4. patchIssueInBuckets(b, i, s) \in Boards
    <2> DEFINE left == setBucket(b, findIssueLocation(b, i), Take(getBucket(b, findIssueLocation(b, i)), i))
    <2>1. patchIssueInBuckets(b, i, s) \in {b, setBucket(left, s, Put(getBucket(left, s), i))}
      BY DEF patchIssueInBuckets
    <2>2. CASE Places(b, i) = {}
      BY <2>2 DEF patchIssueInBuckets
    <2>3. CASE Places(b, i) # {}
      <3>1. left \in Boards
        BY <1>2, <2>3
      <3> HIDE DEF left
      <3>2. Put(getBucket(left, s), i) \in Bucket
        BY <3>1, GetBucketIs, PutTakeIs
      <3>3. setBucket(left, s, Put(getBucket(left, s), i)) \in Boards
        BY <3>1, <3>2, SetBucketIs
      <3> QED BY <2>1, <3>3
    <2> QED BY <2>2, <2>3
  <1> QED BY <1>1, <1>3, <1>4

(* A patch of the list: what the updater makes of the board, if there is   *)
(* one.                                                                    *)
LEMMA PatchListIs ==
  ASSUME NEW q \in Query(Boards), NEW v, HasData(q) => v \in Boards
  PROVE  LET r == Patched(q, v)
         IN  /\ r \in Query(Boards) /\ (r.data = <<>> <=> q.data = <<>>) /\ (Back(r) <=> Back(q))
             /\ HasData(r) => r.data[1] = v
             /\ Back(r) => r.owed
  <1>1. CASE HasData(q)
    BY <1>1, PatchIs
  <1>2. CASE ~HasData(q)
    <2> DEFINE w == <<>>
    <2>1. w \in Boards
      BY NothingRead
    <2> HIDE DEF w
    <2>2. Patched(q, v) = Patched(q, w)
      BY <1>2 DEF Patched, Patch
    <2>3. LET r == Patched(q, w)
          IN  r \in Query(Boards) /\ (r.data = <<>> <=> q.data = <<>>) /\ (Back(r) <=> Back(q)) /\ (Back(r) => r.owed)
      BY <2>1, PatchIs
    <2> QED BY <1>2, <2>2, <2>3 DEF HasData
  <1> QED BY <1>1, <1>2

LEMMA CancelIs ==
  ASSUME NEW V, NEW q \in Query(V)
  PROVE  Cancel(q) \in Query(V) /\ Cancel(q).data = q.data /\ Idle(Cancel(q))
  BY DEF Cancel, Query, Idle

-----------------------------------------------------------------------------
(* What an operation keeps of the board, and the numbers that issues have. *)
KeepTyped(o) ==
  /\ o.kind \in {"update", "batch", "delete"} =>
       o.keep[1] = <<>> \/ (o.keep[1] = <<o.keep[1][1]>> /\ o.keep[1][1] \in Boards)
  /\ o.kind = "more" =>
       /\ o.status \in Paged /\ o.phase \in {"sent", "committed"} /\ o.keep[1] \in Nat
       /\ o.phase = "committed" => o.keep[2] \in Bucket
  /\ o.kind = "create" => \E i \in Issues : o.issues = {i}
  /\ o.kind = "delete" => o.issues # {}

BoardTyped == list \in Query(Boards) /\ \A k \in Ops : KeepTyped(op[k])

Holds(o, i) == i \in o.issues /\ o.kind \in {"create", "none"}
NumberedIn(ops, i) == i \in Initial \/ \E k \in Ops : Holds(ops[k], i) /\ ops[k].phase # "sent"
Numbered(i) == NumberedIn(op, i)
Free(i) == i \notin Initial /\ \A k \in Ops : i \notin op[k].issues

(* No number is given twice.                                               *)
NumberedOnce ==
  /\ \A i \in Issues, j, k \in Ops : Holds(op[j], i) /\ Holds(op[k], i) => j = k
  /\ \A i \in Initial, k \in Ops : ~Holds(op[k], i)

StillNumbered == \A i \in Issues : Numbered(i) => Numbered(i)'

LEMMA OpsGo ==
  ASSUME OpsTyped, \A j \in Ops : KeepTyped(op[j]), NumberedOnce, NEW k \in Ops, NEW r, KeepTyped(r),
         op' = [op EXCEPT ![k] = r],
         \A i \in Issues : Holds(r, i) => Holds(op[k], i) \/ Free(i),
         \A i \in Issues : Holds(op[k], i) /\ op[k].phase # "sent" => Holds(r, i) /\ r.phase # "sent"
  PROVE  /\ \A j \in Ops : KeepTyped(op'[j])
         /\ NumberedOnce' /\ StillNumbered
         /\ op'[k] = r /\ \A j \in Ops : j # k => op'[j] = op[j]
  <1>1. op'[k] = r /\ \A j \in Ops : j # k => op'[j] = op[j]
    BY DEF OpsTyped
  <1>2. \A j \in Ops : KeepTyped(op'[j])
    BY <1>1
  <1>3. \A i \in Issues, j \in Ops : Holds(op'[j], i) => Holds(op[j], i) \/ (j = k /\ Free(i))
    BY <1>1
  <1>4. \A i \in Issues : Free(i) => i \notin Initial /\ \A j \in Ops : ~Holds(op[j], i)
    BY DEF Free, Holds
  <1>5. NumberedOnce'
    <2>1. \A i \in Issues, j, m \in Ops : Holds(op'[j], i) /\ Holds(op'[m], i) => j = m
      BY <1>3, <1>4 DEF NumberedOnce
    <2>2. \A i \in Initial, j \in Ops : ~Holds(op'[j], i)
      BY <1>3, <1>4, IssueAssumption DEF NumberedOnce
    <2> QED BY <2>1, <2>2 DEF NumberedOnce, Holds
  <1>6. StillNumbered
    <2> SUFFICES ASSUME NEW i \in Issues, Numbered(i) PROVE Numbered(i)'
      BY DEF StillNumbered
    <2>1. CASE i \in Initial
      BY <2>1 DEF Numbered, NumberedIn
    <2>2. CASE \E j \in Ops : Holds(op[j], i) /\ op[j].phase # "sent"
      <3>1. \E j \in Ops : Holds(op'[j], i) /\ op'[j].phase # "sent"
        BY <1>1, <2>2
      <3> QED BY <3>1 DEF Numbered, NumberedIn, Holds
    <2> QED BY <2>1, <2>2 DEF Numbered, NumberedIn
  <1> QED BY <1>1, <1>2, <1>5, <1>6

(* An operation of the user's begins.                                      *)
LEMMA BeginTyped ==
  ASSUME IssueInv, BoardTyped, NumberedOnce, NEW k \in Ops, op[k] = NoOp,
         NEW kind \in {"create", "update", "batch", "delete", "more"},
         NEW S \in SUBSET Issues, NEW s, NEW keep, Begin(k, kind, S, s, keep),
         kind \in {"update", "batch", "delete"} => keep[1] = list.data,
         kind = "more" => s \in Paged /\ keep[1] \in Nat,
         kind = "delete" => S # {},
         kind = "create" => \E i \in Issues : S = {i} /\ Free(i)
  PROVE  /\ \A j \in Ops : KeepTyped(op'[j])
         /\ NumberedOnce' /\ StillNumbered
         /\ op'[k].kind = kind /\ \A j \in Ops : j # k => op'[j] = op[j]
  <1> DEFINE r == [kind |-> kind, issues |-> S, status |-> s, phase |-> "sent", keep |-> keep]
  <1>1. op' = [op EXCEPT ![k] = r] /\ OpsTyped
    BY DEF Begin, IssueInv, Typed
  <1>2. KeepTyped(r)
    <2>1. list.data = <<>> \/ (list.data = <<list.data[1]>> /\ list.data[1] \in Boards)
      BY QueryIs DEF BoardTyped
    <2> QED BY <2>1 DEF KeepTyped
  <1>3. \A i \in Issues : Holds(r, i) => Free(i)
    BY DEF Holds
  <1>4. \A i \in Issues : ~Holds(op[k], i)
    BY NoOpIs DEF Holds
  <1>5. r.kind = kind
    OBVIOUS
  <1> HIDE DEF r
  <1>6. /\ \A j \in Ops : KeepTyped(op'[j])
        /\ NumberedOnce' /\ StillNumbered
        /\ op'[k] = r /\ \A j \in Ops : j # k => op'[j] = op[j]
    BY <1>1, <1>2, <1>3, <1>4, OpsGo DEF BoardTyped
  <1> QED BY <1>5, <1>6

LEMMA FreshIsFree ==
  ASSUME NEW i \in Issues, Fresh(i) PROVE Free(i)
  BY DEF Fresh, Unused, Free

(* It is answered.                                                         *)
LEMMA OutcomeTyped ==
  ASSUME IssueInv, BoardTyped, NumberedOnce, NEW k \in Ops, op[k].phase = "sent",
         op[k].kind # "more", NEW p \in {"committed", "refused"}, op' = [op EXCEPT ![k].phase = p]
  PROVE  /\ \A j \in Ops : KeepTyped(op'[j])
         /\ NumberedOnce' /\ StillNumbered
         /\ op'[k].kind = op[k].kind /\ op[k].kind # "none" /\ \A j \in Ops : j # k => op'[j] = op[j]
         /\ op[k].kind = "create" => \A i \in op[k].issues : ~Numbered(i) /\ Numbered(i)'
  <1>1. IsOp(op[k]) /\ op[k].kind # "none" /\ OpsTyped
    BY DEF IssueInv, Typed, OpsTyped, IsOp
  <1> DEFINE r == [op[k] EXCEPT !.phase = p]
  <1>2. r.kind = op[k].kind /\ r.issues = op[k].issues /\ r.keep = op[k].keep /\ r.phase = p
    BY <1>1, PhaseIs
  <1>3. op' = [op EXCEPT ![k] = r]
    OBVIOUS
  <1> HIDE DEF r
  <1>4. KeepTyped(r)
    BY <1>2 DEF BoardTyped, KeepTyped
  <1>5. \A i : Holds(r, i) <=> Holds(op[k], i)
    BY <1>2 DEF Holds
  <1>6. /\ \A j \in Ops : KeepTyped(op'[j])
        /\ NumberedOnce' /\ StillNumbered
        /\ op'[k] = r /\ \A j \in Ops : j # k => op'[j] = op[j]
    BY <1>1, <1>3, <1>4, <1>5, OpsGo DEF BoardTyped
  <1>7. ASSUME op[k].kind = "create", NEW i \in op[k].issues PROVE ~Numbered(i) /\ Numbered(i)'
    <2>1. i \in Issues /\ Holds(op[k], i) /\ Holds(op'[k], i) /\ op'[k].phase # "sent"
      BY <1>1, <1>2, <1>6, <1>7 DEF Holds, IsOp
    <2>2. ~Numbered(i)
      BY <2>1 DEF Numbered, NumberedIn, NumberedOnce
    <2>3. \E j \in Ops : Holds(op'[j], i) /\ op'[j].phase # "sent"
      BY <2>1
    <2> QED BY <2>2, <2>3 DEF Numbered, NumberedIn, Holds
  <1> QED BY <1>1, <1>2, <1>6, <1>7

(* It is over.                                                             *)
LEMMA EndTyped ==
  ASSUME IssueInv, BoardTyped, NumberedOnce, NEW k \in Ops, op[k].kind # "none",
         op[k].kind = "create" => op[k].phase # "sent",
         op' = [op EXCEPT ![k] = Over(op[k].kind, op[k].issues)]
  PROVE  /\ \A j \in Ops : KeepTyped(op'[j])
         /\ NumberedOnce' /\ StillNumbered
         /\ op'[k].kind = "none" /\ \A j \in Ops : j # k => op'[j] = op[j]
  <1> DEFINE r == Over(op[k].kind, op[k].issues)
  <1>1. IsOp(op[k]) /\ OpsTyped
    BY DEF IssueInv, Typed, OpsTyped
  <1>2. r.kind = "none" /\ r.phase = "settled" /\ r.issues = IF op[k].kind = "create" THEN op[k].issues ELSE {}
    BY <1>1, OverIs
  <1>3. op' = [op EXCEPT ![k] = r]
    OBVIOUS
  <1> HIDE DEF r
  <1>4. KeepTyped(r)
    BY <1>2 DEF KeepTyped
  <1>5. \A i : Holds(r, i) <=> Holds(op[k], i)
    BY <1>2 DEF Holds
  <1>6. /\ \A j \in Ops : KeepTyped(op'[j])
        /\ NumberedOnce' /\ StillNumbered
        /\ op'[k] = r /\ \A j \in Ops : j # k => op'[j] = op[j]
    BY <1>1, <1>2, <1>3, <1>4, <1>5, OpsGo DEF BoardTyped
  <1> QED BY <1>2, <1>6

-----------------------------------------------------------------------------
(* What the steps make of the list, by type; and of the numbers.           *)
TypedOn == BoardTyped' /\ NumberedOnce' /\ StillNumbered

LEMMA TypedOnIs ==
  ASSUME list' \in Query(Boards), \A j \in Ops : KeepTyped(op'[j]), NumberedOnce', StillNumbered
  PROVE  TypedOn
  BY DEF TypedOn, BoardTyped, KeepTyped

LEMMA OpsStay ==
  ASSUME BoardTyped, NumberedOnce, op' = op
  PROVE  (\A j \in Ops : KeepTyped(op'[j])) /\ NumberedOnce' /\ StillNumbered
  BY DEF BoardTyped, NumberedOnce, StillNumbered, Numbered, NumberedIn, Holds

LEMMA CreateTyped ==
  ASSUME IssueInv, BoardTyped, NumberedOnce, NEW k \in Ops, NEW i \in Issues, NEW s \in Paged, Create(k, i, s)
  PROVE  TypedOn /\ op'[k].kind = "create"
  <1> DEFINE S == {i}
             keep == <<>>
  <1>1. Begin(k, "create", S, s, keep) /\ op[k] = NoOp /\ Fresh(i) /\ list' = list
    BY DEF Create
  <1>2. S \in SUBSET Issues /\ \E j \in Issues : S = {j} /\ Free(j)
    BY <1>1, FreshIsFree
  <1> HIDE DEF S, keep
  <1>3. /\ \A j \in Ops : KeepTyped(op'[j])
        /\ NumberedOnce' /\ StillNumbered /\ op'[k].kind = "create"
    BY <1>1, <1>2, BeginTyped
  <1> QED BY <1>1, <1>3, TypedOnIs DEF BoardTyped

LEMMA UpdateTyped ==
  ASSUME IssueInv, BoardTyped, NumberedOnce, NEW k \in Ops, NEW i \in Issues, NEW s \in Statuses, Update(k, i, s)
  PROVE  TypedOn /\ op'[k].kind = "update"
  <1> DEFINE keep == <<list.data, IF i = Viewed THEN detail.data ELSE <<>> >>
             S == {i}
             q == Cancel(list)
             v == patchIssueInBuckets(q.data[1], i, s)
  <1>1. Begin(k, "update", S, s, keep) /\ op[k] = NoOp /\ list' = Patched(q, v)
    BY DEF Update, Patched, Patch
  <1>2. S \in SUBSET Issues /\ keep[1] = list.data
    OBVIOUS
  <1> HIDE DEF S, keep
  <1>3. /\ \A j \in Ops : KeepTyped(op'[j])
        /\ NumberedOnce' /\ StillNumbered /\ op'[k].kind = "update"
    BY <1>1, <1>2, BeginTyped
  <1>4. q \in Query(Boards)
    BY CancelIs DEF BoardTyped
  <1>5. HasData(q) => v \in Boards
    BY <1>4, QueryIs, BoardOpsAre
  <1>6. list' \in Query(Boards)
    BY <1>1, <1>4, <1>5, PatchListIs
  <1> QED BY <1>3, <1>6, TypedOnIs

LEMMA BatchTyped ==
  ASSUME IssueInv, BoardTyped, NumberedOnce, NEW k \in Ops, NEW i \in Issues, NEW j \in Issues,
         NEW s \in Statuses, Batch(k, i, j, s)
  PROVE  TypedOn /\ op'[k].kind = "batch"
  <1> DEFINE keep == <<list.data, <<>> >>
             S == {i, j}
             q == Cancel(list)
             u == patchIssueInBuckets(q.data[1], i, s)
             v == patchIssueInBuckets(u, j, s)
  <1>1. Begin(k, "batch", S, s, keep) /\ op[k] = NoOp /\ list' = Patched(q, v)
    BY DEF Batch, Patched, Patch
  <1>2. S \in SUBSET Issues /\ keep[1] = list.data
    OBVIOUS
  <1> HIDE DEF S, keep
  <1>3. /\ \A m \in Ops : KeepTyped(op'[m])
        /\ NumberedOnce' /\ StillNumbered /\ op'[k].kind = "batch"
    BY <1>1, <1>2, BeginTyped
  <1>4. q \in Query(Boards)
    BY CancelIs DEF BoardTyped
  <1>5. HasData(q) => v \in Boards
    <2>1. HasData(q) => u \in Boards
      BY <1>4, QueryIs, BoardOpsAre
    <2> HIDE DEF u
    <2> QED BY <2>1, BoardOpsAre
  <1>6. list' \in Query(Boards)
    BY <1>1, <1>4, <1>5, PatchListIs
  <1> QED BY <1>3, <1>6, TypedOnIs

LEMMA DeleteTyped ==
  ASSUME IssueInv, BoardTyped, NumberedOnce, NEW k \in Ops, NEW i \in Issues, Delete(k, i)
  PROVE  TypedOn /\ op'[k].kind = "delete"
  <1> DEFINE keep == <<list.data, IF i = Viewed THEN detail.data ELSE <<>> >>
             S == {i}
             q == Cancel(list)
             v == removeIssueFromBuckets(q.data[1], i)
  <1>1. Begin(k, "delete", S, "", keep) /\ op[k] = NoOp /\ list' = Patched(q, v)
    BY DEF Delete, Patched, Patch
  <1>2. S \in SUBSET Issues /\ keep[1] = list.data /\ S # {}
    OBVIOUS
  <1> HIDE DEF S, keep
  <1>3. /\ \A j \in Ops : KeepTyped(op'[j])
        /\ NumberedOnce' /\ StillNumbered /\ op'[k].kind = "delete"
    BY <1>1, <1>2, BeginTyped
  <1>4. q \in Query(Boards)
    BY CancelIs DEF BoardTyped
  <1>5. HasData(q) => v \in Boards
    <2>1. Columns[1] \in Statuses
      BY IssueAssumption DEF Statuses, Paged, Range
    <2> QED BY <1>4, <2>1, QueryIs, BoardOpsAre
  <1>6. list' \in Query(Boards)
    BY <1>1, <1>4, <1>5, PatchListIs
  <1> QED BY <1>3, <1>6, TypedOnIs

LEMMA LoadMoreTyped ==
  ASSUME IssueInv, BoardTyped, NumberedOnce, NEW k \in Ops, NEW s \in Paged, LoadMore(k, s)
  PROVE  TypedOn /\ list' = list /\ op[k] = NoOp /\ op'[k].kind = "more" /\ \A j \in Ops : j # k => op'[j] = op[j]
  <1> DEFINE U == getBucket(list.data[1], s).issues
             n == Cardinality(U)
             keep == <<n>>
             S == {}
  <1>1. Begin(k, "more", S, s, keep) /\ op[k] = NoOp /\ list' = list /\ HasData(list)
    BY DEF LoadMore
  <1>2. n \in Nat
    <2>1. list.data[1] \in Boards
      BY <1>1, QueryIs DEF BoardTyped
    <2>2. getBucket(list.data[1], s) \in Bucket
      BY <2>1, GetBucketIs
    <2>3. U \subseteq Issues
      BY <2>2 DEF Bucket
    <2> HIDE DEF U
    <2> QED BY <2>3, IssueAssumption, FS_Subset, FS_CardinalityType
  <1>3. S \in SUBSET Issues /\ keep[1] = n
    OBVIOUS
  <1> HIDE DEF S, keep, n
  <1>4. /\ \A j \in Ops : KeepTyped(op'[j])
        /\ NumberedOnce' /\ StillNumbered /\ op'[k].kind = "more" /\ \A j \in Ops : j # k => op'[j] = op[j]
    BY <1>1, <1>2, <1>3, BeginTyped
  <1> QED BY <1>1, <1>4, TypedOnIs DEF BoardTyped

(* A page of a column.                                                     *)
LEMMA PageIs ==
  ASSUME IssueInv, NEW s, NEW n \in Nat
  PROVE  /\ Page(s, n) \in Bucket /\ Page(s, n).issues \subseteq Column(s)
         /\ Column(s) \subseteq Issues /\ IsFiniteSet(Column(s))
         /\ Page(s, n).total = Cardinality(Column(s)) /\ Cardinality(Column(s)) \in Nat
  <1>1. Column(s) \subseteq Issues
    BY DEF IssueInv, Typed, StoreTyped, Column
  <1>2. IsFiniteSet(Column(s)) /\ Cardinality(Column(s)) \in Nat
    BY <1>1, IssueAssumption, FS_Subset, FS_CardinalityType
  <1> QED BY <1>1, <1>2 DEF Page, Bucket

LEMMA AnswerMoreTyped ==
  ASSUME IssueInv, BoardTyped, NumberedOnce, NEW k \in Ops, AnswerMore(k)
  PROVE  TypedOn /\ list' = list /\ op'[k].kind = "more" /\ \A j \in Ops : j # k => op'[j] = op[j]
  <1> DEFINE x == <<op[k].keep[1], Page(op[k].status, op[k].keep[1])>>
             r == [op[k] EXCEPT !.phase = "committed", !.keep = x]
  <1>1. op[k].kind = "more" /\ op' = [op EXCEPT ![k] = r] /\ list' = list
    BY DEF AnswerMore
  <1>2. IsOp(op[k]) /\ KeepTyped(op[k]) /\ OpsTyped
    BY DEF IssueInv, Typed, OpsTyped, BoardTyped
  <1>3. x[1] = op[k].keep[1] /\ x[2] \in Bucket
    <2> DEFINE n == op[k].keep[1]
               s == op[k].status
    <2>1. n \in Nat
      BY <1>1, <1>2 DEF KeepTyped
    <2> HIDE DEF n, s
    <2>2. Page(s, n) \in Bucket
      BY <2>1, PageIs
    <2> QED BY <2>2 DEF n, s
  <1> HIDE DEF x
  <1>4. r.kind = "more" /\ r.issues = op[k].issues /\ r.status = op[k].status /\ r.phase = "committed" /\ r.keep = x
    <2> DEFINE o == op[k]
    <2>1. r = [o EXCEPT !.phase = "committed", !.keep = x] /\ IsOp(o) /\ o.kind = "more"
      BY <1>1, <1>2
    <2> HIDE DEF o, r
    <2>2. r = [kind |-> o.kind, issues |-> o.issues, status |-> o.status, phase |-> "committed", keep |-> x]
      BY <2>1 DEF IsOp
    <2> QED BY <2>1, <2>2 DEF o
  <1> HIDE DEF r
  <1>5. KeepTyped(r)
    BY <1>1, <1>2, <1>3, <1>4 DEF KeepTyped
  <1>6. \A i : ~Holds(r, i) /\ ~Holds(op[k], i)
    BY <1>1, <1>4 DEF Holds
  <1>7. /\ \A j \in Ops : KeepTyped(op'[j])
        /\ NumberedOnce' /\ StillNumbered
        /\ op'[k] = r /\ \A j \in Ops : j # k => op'[j] = op[j]
    BY <1>1, <1>2, <1>5, <1>6, OpsGo DEF BoardTyped
  <1> QED BY <1>1, <1>4, <1>7, TypedOnIs DEF BoardTyped

LEMMA RefuseTyped ==
  ASSUME IssueInv, BoardTyped, NumberedOnce, NEW k \in Ops, Refuse(k)
  PROVE  /\ TypedOn /\ list' = list /\ \A j \in Ops : j # k => op'[j] = op[j]
         /\ op'[k].kind = "none" => op[k].kind = "more"
         /\ op'[k].kind = op[k].kind \/ op'[k].kind = "none"
         /\ op[k].kind # "none"
  <1>1. op[k].phase = "sent" /\ list' = list
    BY DEF Refuse
  <1>2. op[k].kind # "none"
    BY <1>1 DEF IssueInv, Typed, OpsTyped, IsOp
  <1>3. CASE op[k].kind = "more"
    <2>1. op' = [op EXCEPT ![k] = Over(op[k].kind, op[k].issues)]
      BY <1>3 DEF Refuse, Over
    <2>2. /\ \A j \in Ops : KeepTyped(op'[j])
          /\ NumberedOnce' /\ StillNumbered
          /\ op'[k].kind = "none" /\ \A j \in Ops : j # k => op'[j] = op[j]
      BY <1>3, <2>1, EndTyped
    <2> QED BY <1>1, <1>3, <2>2, TypedOnIs DEF BoardTyped
  <1>4. CASE op[k].kind # "more"
    <2>1. op' = [op EXCEPT ![k].phase = "refused"]
      BY <1>4 DEF Refuse
    <2>2. /\ \A j \in Ops : KeepTyped(op'[j])
          /\ NumberedOnce' /\ StillNumbered
          /\ op'[k].kind = op[k].kind /\ \A j \in Ops : j # k => op'[j] = op[j]
      BY <1>1, <1>4, <2>1, OutcomeTyped
    <2> QED BY <1>1, <1>2, <1>4, <2>2, TypedOnIs DEF BoardTyped
  <1> QED BY <1>3, <1>4

LEMMA CommitTyped ==
  ASSUME IssueInv, BoardTyped, NumberedOnce, NEW k \in Ops, Commit(k)
  PROVE  /\ TypedOn /\ op'[k].kind \notin {"none", "more"}
         /\ op[k].kind = "create" => \A i \in op[k].issues : ~Numbered(i) /\ Numbered(i)'
  <1>1. op[k].phase = "sent" /\ op[k].kind # "more" /\ list' = list
    BY DEF Commit
  <1>2. PICK p \in {"committed", "refused"} : op' = [op EXCEPT ![k].phase = p]
    BY DEF Commit
  <1>3. /\ \A j \in Ops : KeepTyped(op'[j])
        /\ NumberedOnce' /\ StillNumbered
        /\ op'[k].kind = op[k].kind /\ op[k].kind # "none"
        /\ op[k].kind = "create" => \A i \in op[k].issues : ~Numbered(i) /\ Numbered(i)'
    BY <1>1, <1>2, OutcomeTyped
  <1> QED BY <1>1, <1>3, TypedOnIs DEF BoardTyped

LEMMA OtherActsTyped ==
  ASSUME IssueInv, BoardTyped, NumberedOnce, NEW k \in Ops, NEW kind \in Kinds, NEW s \in Statuses,
         NEW i \in Issues, OtherActs(k, kind, {i}, s)
  PROVE  /\ TypedOn /\ list' = list /\ kind \in {"create", "update", "delete"}
         /\ op[k].kind = "none" /\ op'[k].kind = "none" /\ \A j \in Ops : j # k => op'[j] = op[j]
         /\ kind = "create" => ~Numbered(i) /\ Numbered(i)'
  <1> DEFINE r == Over(kind, {i})
  <1>1. /\ kind \in {"create", "update", "delete"} /\ op[k] = NoOp /\ op' = [op EXCEPT ![k] = r]
        /\ list' = list /\ OpsTyped
        /\ kind = "create" => Fresh(i)
    BY IssueAssumption DEF OtherActs, IssueInv, Typed
  <1>2. r.kind = "none" /\ r.phase = "settled" /\ r.issues = IF kind = "create" THEN {i} ELSE {}
    <2> DEFINE o == [kind |-> kind, issues |-> {i}, status |-> s, phase |-> "committed", keep |-> <<0, <<>> >>]
    <2>1. IsOp(o) /\ o.kind = kind /\ o.issues = {i} /\ o.kind # "none"
      BY <1>1 DEF IsOp
    <2> HIDE DEF o
    <2> QED BY <2>1, OverIs
  <1> HIDE DEF r
  <1>3. KeepTyped(r)
    BY <1>2 DEF KeepTyped
  <1>4. \A j : Holds(r, j) <=> kind = "create" /\ j = i
    BY <1>2 DEF Holds
  <1>5. kind = "create" => Free(i)
    BY <1>1, FreshIsFree
  <1>6. \A j \in Issues : ~Holds(op[k], j) /\ (Holds(r, j) => Free(j))
    BY <1>1, <1>4, <1>5, NoOpIs DEF Holds
  <1>7. /\ \A j \in Ops : KeepTyped(op'[j])
        /\ NumberedOnce' /\ StillNumbered
        /\ op'[k] = r /\ \A j \in Ops : j # k => op'[j] = op[j]
    BY <1>1, <1>3, <1>6, OpsGo DEF BoardTyped
  <1>8. ASSUME kind = "create" PROVE ~Numbered(i) /\ Numbered(i)'
    <2>1. ~Numbered(i)
      BY <1>5, <1>8 DEF Free, Numbered, NumberedIn, Holds
    <2>2. \E j \in Ops : Holds(op'[j], i) /\ op'[j].phase # "sent"
      BY <1>2, <1>4, <1>7, <1>8
    <2> QED BY <2>1, <2>2 DEF Numbered, NumberedIn, Holds
  <1> QED BY <1>1, <1>2, <1>7, <1>8, NoOpIs, TypedOnIs DEF BoardTyped

LEMMA SettleTyped ==
  ASSUME IssueInv, BoardTyped, NumberedOnce, NEW k \in Ops, Settle(k)
  PROVE  TypedOn /\ Busy(list')
  <1> DEFINE o == op[k]
             i == CHOOSE j \in o.issues : TRUE
             b == list.data[1]
  <1>1. /\ o.phase \in {"committed", "refused"} /\ o.kind # "more"
        /\ op' = [op EXCEPT ![k] = Over(op[k].kind, op[k].issues)] /\ list' = Invalidate(Landed(k), TRUE)
    BY DEF Settle, Written
  <1>2. IsOp(o) /\ KeepTyped(o) /\ o.kind # "none" /\ list \in Query(Boards)
    BY <1>1 DEF IssueInv, Typed, OpsTyped, BoardTyped, IsOp
  <1>3. (\A j \in Ops : KeepTyped(op'[j])) /\ NumberedOnce' /\ StillNumbered
    BY <1>1, <1>2, EndTyped
  <1>4. o.kind \in {"create", "delete"} => i \in Issues
    BY <1>2 DEF KeepTyped, IsOp
  <1>5. Landed(k) \in Query(Boards)
    <2>1. CASE o.phase = "refused" /\ o.kind \in {"update", "batch", "delete"}
      <3> DEFINE was == o.keep[1]
      <3>1. Landed(k) = Restore(list, was)
        BY <2>1 DEF Landed
      <3>2. was = <<>> \/ (was = <<was[1]>> /\ was[1] \in Boards)
        BY <1>2, <2>1 DEF KeepTyped
      <3> HIDE DEF was
      <3> QED BY <1>2, <3>1, <3>2, RestoreIs
    <2>2. CASE o.phase = "committed" /\ o.kind = "create"
      <3> DEFINE v == addIssueToBuckets(b, i, o.status)
      <3>1. Landed(k) = Patched(list, v)
        BY <2>2 DEF Landed, Patched, Patch
      <3>2. o.status \in Statuses
        BY <1>2, <2>2 DEF IsOp
      <3>3. HasData(list) => v \in Boards
        <4> HIDE DEF i
        <4> QED BY <1>2, <1>4, <2>2, <3>2, QueryIs, BoardOpsAre
      <3> HIDE DEF v
      <3> QED BY <1>2, <3>1, <3>3, PatchListIs
    <2>3. CASE o.phase = "committed" /\ o.kind = "delete"
      <3> DEFINE v == removeIssueFromBuckets(b, i)
      <3>1. Landed(k) = Patched(list, v)
        BY <2>3 DEF Landed, Patched, Patch
      <3>2. Columns[1] \in Statuses
        BY IssueAssumption DEF Statuses, Paged, Range
      <3>3. HasData(list) => v \in Boards
        <4> HIDE DEF i
        <4> QED BY <1>2, <1>4, <2>3, <3>2, QueryIs, BoardOpsAre
      <3> HIDE DEF v
      <3> QED BY <1>2, <3>1, <3>3, PatchListIs
    <2>4. CASE /\ ~(o.phase = "refused" /\ o.kind \in {"update", "batch", "delete"})
               /\ ~(o.phase = "committed" /\ o.kind = "create")
               /\ ~(o.phase = "committed" /\ o.kind = "delete")
      BY <1>2, <2>4 DEF Landed
    <2> QED BY <2>1, <2>2, <2>3, <2>4
  <1>6. list' \in Query(Boards) /\ Busy(list')
    BY <1>1, <1>5, InvalidateIs
  <1> QED BY <1>3, <1>6, TypedOnIs

LEMMA MoreLandsTyped ==
  ASSUME IssueInv, BoardTyped, NumberedOnce, NEW k \in Ops, MoreLands(k)
  PROVE  /\ TypedOn /\ op[k].kind = "more" /\ op'[k].kind = "none" /\ \A j \in Ops : j # k => op'[j] = op[j]
         /\ op[k].status \in Paged /\ op[k].keep[1] \in Nat /\ op[k].keep[2] \in Bucket
         /\ LET s == op[k].status
                page == op[k].keep[2]
                u == Extended(getBucket(list.data[1], s), page)
            IN  /\ HasData(list) => u \in Bucket
                /\ list' = Patched(list, setBucket(list.data[1], s, u))
                /\ HasData(list) => setBucket(list.data[1], s, u) \in Boards
  <1> DEFINE s == op[k].status
             page == op[k].keep[2]
             u == Extended(getBucket(list.data[1], s), page)
             v == setBucket(list.data[1], s, u)
  <1>1. /\ op[k].kind = "more" /\ op[k].phase = "committed" /\ list' = Patched(list, v)
        /\ op' = [op EXCEPT ![k] = Over(op[k].kind, op[k].issues)]
    BY DEF MoreLands, Patched, Patch
  <1>2. s \in Paged /\ s \in Statuses /\ op[k].keep[1] \in Nat /\ page \in Bucket /\ list \in Query(Boards)
    BY <1>1 DEF BoardTyped, KeepTyped, Statuses
  <1>3. /\ \A j \in Ops : KeepTyped(op'[j])
        /\ NumberedOnce' /\ StillNumbered
        /\ op'[k].kind = "none" /\ \A j \in Ops : j # k => op'[j] = op[j]
    BY <1>1, EndTyped
  <1> HIDE DEF s, page
  <1>4. HasData(list) => u \in Bucket
    <2>1. HasData(list) => getBucket(list.data[1], s) \in Bucket
      BY <1>2, QueryIs, GetBucketIs
    <2> QED BY <1>2, <2>1 DEF Extended, Bucket
  <1>5. HasData(list) => v \in Boards
    <2> HIDE DEF u
    <2> QED BY <1>2, <1>4, QueryIs, SetBucketIs
  <1>6. list' \in Query(Boards)
    <2> HIDE DEF v
    <2> QED BY <1>1, <1>2, <1>5, PatchListIs
  <1>7. TypedOn
    BY <1>3, <1>6, TypedOnIs
  <1> QED BY <1>1, <1>2, <1>3, <1>4, <1>5, <1>7 DEF s, page

LEMMA DeliverTyped ==
  ASSUME IssueInv, BoardTyped, NumberedOnce, Deliver
  PROVE  /\ TypedOn /\ op' = op /\ wire[1] \in Event
         /\ wire[1].kind = "created" =>
              LET v == addIssueToBuckets(list.data[1], wire[1].issue, wire[1].status)
              IN  list' = Patched(list, v) /\ (HasData(list) => v \in Boards)
         /\ wire[1].kind # "created" => Busy(list')
  <1> DEFINE m == wire[1]
             b == list.data[1]
  <1>1. wire \in Seq(Event) /\ wire # <<>> /\ op' = op /\ list \in Query(Boards)
    BY DEF Deliver, IssueInv, Typed, WireTyped, BoardTyped
  <1>2. m \in Event
    BY <1>1
  <1>3. /\ m.issue \in Issues /\ m.kind \in {"created", "updated", "deleted"}
        /\ m.kind # "deleted" => m.status \in Statuses
    BY <1>2 DEF Event
  <1>4. Columns[1] \in Statuses
    BY IssueAssumption DEF Statuses, Paged, Range
  <1>5. HasData(list) => b \in Boards
    BY <1>1, QueryIs
  <1>6. CASE m.kind = "created"
    <2> DEFINE v == addIssueToBuckets(b, m.issue, m.status)
    <2>1. list' = Patched(list, v)
      BY <1>6 DEF Deliver, Patched, Patch
    <2>2. HasData(list) => v \in Boards
      <3> HIDE DEF m, b
      <3> QED BY <1>3, <1>5, <1>6, BoardOpsAre
    <2>3. list' \in Query(Boards)
      <3> HIDE DEF v
      <3> QED BY <1>1, <2>1, <2>2, PatchListIs
    <2>4. TypedOn
      BY <1>1, <2>3, OpsStay, TypedOnIs
    <2> QED BY <1>1, <1>2, <1>6, <2>1, <2>2, <2>4
  <1>7. CASE m.kind \in {"updated", "deleted"}
    <2> DEFINE v == IF m.kind = "updated" THEN patchIssueInBuckets(b, m.issue, m.status)
                    ELSE removeIssueFromBuckets(b, m.issue)
    <2>1. list' = Invalidate(Patched(list, v), TRUE)
      <3>1. CASE m.kind = "updated"
        BY <3>1 DEF Deliver, Patched, Patch
      <3>2. CASE m.kind = "deleted"
        BY <3>2 DEF Deliver, Patched, Patch
      <3> QED BY <1>7, <3>1, <3>2
    <2>2. HasData(list) => v \in Boards
      <3> HIDE DEF m, b
      <3> QED BY <1>3, <1>4, <1>5, <1>7, BoardOpsAre
    <2>3. Patched(list, v) \in Query(Boards)
      <3> HIDE DEF v
      <3> QED BY <1>1, <2>2, PatchListIs
    <2>4. list' \in Query(Boards) /\ Busy(list')
      BY <2>1, <2>3, InvalidateIs
    <2>5. TypedOn
      BY <1>1, <2>4, OpsStay, TypedOnIs
    <2> QED BY <1>1, <1>2, <1>7, <2>4, <2>5
  <1> QED BY <1>3, <1>6, <1>7

LEMMA ReadColumnTyped ==
  ASSUME IssueInv, BoardTyped, NumberedOnce, NEW s \in Paged, ReadColumn(s)
  PROVE  LET have == IF Sent(list) THEN <<>> ELSE list.fetch[2]
             v == setBucket(have, s, Page(s, 0))
         IN  /\ TypedOn /\ op' = op /\ ~Idle(list) /\ have \in Boards /\ s \notin DOMAIN have
             /\ list' = Answer(list, v) /\ v \in Boards /\ Page(s, 0) \in Bucket
             /\ ~Sent(list) => Back(list)
  <1> DEFINE have == IF Sent(list) THEN <<>> ELSE list.fetch[2]
             v == setBucket(have, s, Page(s, 0))
  <1>1. ~Idle(list) /\ s \notin DOMAIN have /\ list' = Answer(list, v) /\ op' = op /\ list \in Query(Boards)
    BY DEF ReadColumn, BoardTyped
  <1>2. ~Sent(list) => Back(list)
    BY <1>1, QueryIs
  <1>3. have \in Boards
    BY <1>1, <1>2, NothingRead, QueryIs
  <1> HIDE DEF have
  <1>4. Page(s, 0) \in Bucket /\ s \in Statuses
    BY PageIs DEF Statuses
  <1>5. v \in Boards
    <2> DEFINE p == Page(s, 0)
    <2>1. p \in Bucket
      BY <1>4
    <2> HIDE DEF p
    <2>2. setBucket(have, s, p) \in Boards
      BY <1>3, <1>4, <2>1, SetBucketIs
    <2> QED BY <2>2 DEF p
  <1> HIDE DEF v
  <1>6. list' \in Query(Boards)
    BY <1>1, <1>5, FetchIs
  <1>7. TypedOn
    BY <1>1, <1>6, OpsStay, TypedOnIs
  <1> QED BY <1>1, <1>2, <1>3, <1>4, <1>5, <1>7 DEF have, v

LEMMA RestTyped ==
  ASSUME IssueInv, BoardTyped, NumberedOnce,
         Drop \/ Reconnect \/ Open \/ FetchDetail \/ ListLands \/ UNCHANGED vars
  PROVE  TypedOn /\ op' = op
  <1>1. op' = op /\ list \in Query(Boards)
    BY DEF Drop, Reconnect, Open, FetchDetail, ListLands, vars, BoardTyped
  <1>2. list' \in Query(Boards)
    <2>1. CASE Reconnect
      BY <1>1, <2>1, InvalidateIs DEF Reconnect
    <2>2. CASE ListLands
      <3>1. Back(list) /\ list' = Land(list)
        BY <2>2 DEF ListLands
      <3>2. list.fetch[2] \in Boards
        BY <1>1, <3>1, QueryIs
      <3> QED BY <1>1, <3>1, <3>2, FetchIs
    <2>3. CASE Drop \/ Open \/ FetchDetail \/ UNCHANGED vars
      <3>1. list' = list
        BY <2>3 DEF Drop, Open, FetchDetail, vars
      <3> QED BY <1>1, <3>1
    <2> QED BY <2>1, <2>2, <2>3
  <1> QED BY <1>1, <1>2, OpsStay, TypedOnIs

(* Every step at once.                                                     *)
LEMMA TypedStep ==
  ASSUME IssueInv, BoardTyped, NumberedOnce, [Next]_vars
  PROVE  TypedOn
  <1>1. CASE Deliver
    BY <1>1, DeliverTyped
  <1>2. CASE Drop \/ Reconnect \/ Open \/ ListLands \/ FetchDetail \/ UNCHANGED vars
    BY <1>2, RestTyped
  <1>3. CASE \E s \in Paged : ReadColumn(s)
    BY <1>3, ReadColumnTyped
  <1>4. CASE \E k \in Ops : Settle(k) \/ MoreLands(k) \/ Commit(k) \/ Refuse(k) \/ AnswerMore(k)
    BY <1>4, SettleTyped, MoreLandsTyped, CommitTyped, RefuseTyped, AnswerMoreTyped
  <1>5. CASE \E k \in Ops, i \in Issues : Delete(k, i)
    BY <1>5, DeleteTyped
  <1>6. CASE \E k \in Ops, s \in Paged : LoadMore(k, s) \/ \E i \in Issues : Create(k, i, s)
    BY <1>6, LoadMoreTyped, CreateTyped
  <1>7. CASE \E k \in Ops, s \in Statuses, i \in Issues : Update(k, i, s) \/ \E j \in Issues : Batch(k, i, j, s)
    BY <1>7, UpdateTyped, BatchTyped
  <1>8. CASE \E k \in Ops, kind \in Kinds, s \in Statuses, i \in Issues : OtherActs(k, kind, {i}, s)
    BY <1>8, OtherActsTyped
  <1> QED BY <1>1, <1>2, <1>3, <1>4, <1>5, <1>6, <1>7, <1>8 DEF Next

LEMMA TypedInit == Init => BoardTyped /\ NumberedOnce
  <1> SUFFICES ASSUME Init PROVE BoardTyped /\ NumberedOnce
    OBVIOUS
  <1>1. list \in Query(Boards)
    <2>1. list = [data |-> <<>>, stale |-> FALSE, fetch |-> <<"sent">>, owed |-> FALSE]
      <3> DEFINE a == Absent
      <3>1. a = [data |-> <<>>, stale |-> FALSE, fetch |-> <<>>, owed |-> FALSE] /\ list = Refetch(a)
        BY DEF Absent, Init
      <3> HIDE DEF a
      <3> QED BY <3>1 DEF Refetch
    <2> QED BY <2>1 DEF Query
  <1>2. \A k \in Ops : op[k] = NoOp
    BY DEF Init
  <1>3. KeepTyped(NoOp) /\ \A i : ~Holds(NoOp, i)
    BY NoOpIs DEF KeepTyped, Holds
  <1> QED BY <1>1, <1>2, <1>3 DEF BoardTyped, NumberedOnce

(* The types of the two queries, read off their sets.                      *)
LEMMA QueryTyped ==
  ASSUME NEW V, NEW q \in Query(V)
  PROVE  /\ DOMAIN q = {"data", "stale", "fetch", "owed"} /\ {q.stale, q.owed} \subseteq BOOLEAN
         /\ q.data = <<>> \/ (Len(q.data) = 1 /\ q.data[1] \in V)
         /\ Idle(q) \/ Sent(q) \/ (Back(q) /\ q.fetch[1] = "back" /\ q.fetch[2] \in V)
  <1>1. DOMAIN q = {"data", "stale", "fetch", "owed"} /\ {q.stale, q.owed} \subseteq BOOLEAN
    BY DEF Query
  <1>2. q.data \in {<<>>} \cup {<<v>> : v \in V} /\ q.fetch \in {<<>>, <<"sent">>} \cup {<<"back", v>> : v \in V}
    BY DEF Query
  <1>3. q.data = <<>> \/ (Len(q.data) = 1 /\ q.data[1] \in V)
    <2>1. CASE \E v \in V : q.data = <<v>>
      BY <2>1
    <2> QED BY <1>2, <2>1
  <1>4. Idle(q) \/ Sent(q) \/ (Back(q) /\ q.fetch[1] = "back" /\ q.fetch[2] \in V)
    <2>1. CASE \E v \in V : q.fetch = <<"back", v>>
      BY <2>1 DEF Back
    <2> QED BY <1>2, <2>1 DEF Idle, Sent
  <1> QED BY <1>1, <1>3, <1>4

LEMMA TypesFollow ==
  ASSUME IssueInv, BoardTyped PROVE TypeOK
  <1>1. IsQuery(list, IsBoard)
    <2>1. list \in Query(Boards) /\ \A b \in Boards : IsBoard(b)
      BY BoardIs DEF BoardTyped
    <2> QED BY <2>1, QueryTyped DEF IsQuery
  <1>2. IsQuery(detail, LAMBDA s : s \in Statuses)
    <2>1. detail \in Query(Statuses)
      BY DEF IssueInv, Typed
    <2> QED BY <2>1, QueryTyped DEF IsQuery
  <1>3. stored \in UNION {[S -> Statuses] : S \in SUBSET Issues}
    BY DEF IssueInv, Typed, StoreTyped
  <1> QED BY <1>1, <1>2, <1>3 DEF TypeOK

(* TypeOK of the run: the board stays a board of buckets with totals that  *)
(* no step brings below 0 (cache-helpers.ts, findIssueLocation and the     *)
(* patches built on it), for any number of issues, columns and operations. *)
THEOREM TypeCorrect == Spec => []TypeOK
  <1> DEFINE Inv == IssueInv /\ BoardTyped /\ NumberedOnce
  <1>1. Init => Inv
    BY IssueInit, TypedInit
  <1>2. Inv /\ [Next]_vars => Inv'
    BY IssueStep, TypedStep DEF TypedOn
  <1>3. Inv => TypeOK
    BY TypesFollow
  <1> QED BY <1>1, <1>2, <1>3, PTL DEF Spec

-----------------------------------------------------------------------------
(* The created events on the socket, and what the server has of them.      *)
Creates(m) == m.kind = "created"
OnlyCreates(w) == \A n \in DOMAIN w : Creates(w[n])
Overtaken(w, n) == \E m \in DOMAIN w : m > n /\ ~Creates(w[m]) /\ w[m].issue = w[n].issue
HasIt(m, st) == m.issue \in DOMAIN st /\ st[m.issue] = m.status

CreatedTrue(w, st) == \A n \in DOMAIN w : Creates(w[n]) => Overtaken(w, n) \/ HasIt(w[n], st)
CreatedOnce(w) ==
  \A m, n \in DOMAIN w : Creates(w[m]) /\ Creates(w[n]) /\ w[m].issue = w[n].issue => m = n

(* The issues of a column whose event is still to come.                    *)
Pending(w, s) == {i \in Issues : \E n \in DOMAIN w : Creates(w[n]) /\ w[n].issue = i /\ w[n].status = s}

AllNumbered ==
  /\ \A i \in DOMAIN stored : Numbered(i)
  /\ \A n \in DOMAIN wire : Numbered(wire[n].issue)

WireInv == AllNumbered /\ CreatedOnce(wire) /\ CreatedTrue(wire, stored)

LEMMA SplitAt ==
  ASSUME NEW T, NEW w \in Seq(T), NEW e \in Seq(T)
  PROVE  /\ Len(w) \in Nat
         /\ \A n \in DOMAIN w : n \in DOMAIN (w \o e) /\ (w \o e)[n] = w[n] /\ n \in Nat /\ n <= Len(w)
         /\ \A n \in DOMAIN e : n + Len(w) \in DOMAIN (w \o e) /\ (w \o e)[n + Len(w)] = e[n]
                                /\ n + Len(w) > Len(w) /\ n + Len(w) \in Nat
         /\ \A n \in DOMAIN (w \o e) :
              n \in DOMAIN w \/ (n - Len(w) \in DOMAIN e /\ n = (n - Len(w)) + Len(w) /\ n > Len(w))
  <1> DEFINE x == w \o e
             L == Len(w)
             M == Len(e)
  <1>1. /\ DOMAIN x = 1..(L + M) /\ DOMAIN w = 1..L /\ DOMAIN e = 1..M /\ L \in Nat /\ M \in Nat
        /\ \A k \in 1..(L + M) : x[k] = IF k <= L THEN w[k] ELSE e[k - L]
    BY ConcatAt
  <1> HIDE DEF x, L, M
  <1>2. \A n \in 1..L : n \in 1..(L + M) /\ x[n] = w[n] /\ n \in Nat /\ n <= L
    BY <1>1
  <1>3. \A n \in 1..M : n + L \in 1..(L + M) /\ x[n + L] = e[n] /\ n + L > L /\ n + L \in Nat
    <2> SUFFICES ASSUME NEW n \in 1..M PROVE n + L \in 1..(L + M) /\ x[n + L] = e[n] /\ n + L > L /\ n + L \in Nat
      OBVIOUS
    <2>1. n + L \in 1..(L + M) /\ ~(n + L <= L) /\ (n + L) - L = n /\ n + L > L /\ n + L \in Nat
      BY <1>1
    <2>2. x[n + L] = e[(n + L) - L]
      BY <1>1, <2>1
    <2> QED BY <2>1, <2>2
  <1>4. \A n \in 1..(L + M) : n \in 1..L \/ (n - L \in 1..M /\ n = (n - L) + L /\ n > L)
    BY <1>1
  <1>5. /\ \A n \in DOMAIN w : n \in DOMAIN x /\ x[n] = w[n] /\ n \in Nat /\ n <= L
        /\ \A n \in DOMAIN e : n + L \in DOMAIN x /\ x[n + L] = e[n] /\ n + L > L /\ n + L \in Nat
    BY <1>1, <1>2, <1>3
  <1>6. \A n \in DOMAIN x : n \in DOMAIN w \/ (n - L \in DOMAIN e /\ n = (n - L) + L /\ n > L)
    BY <1>1, <1>4
  <1>7. L \in Nat
    BY <1>1
  <1> QED BY <1>5, <1>6, <1>7 DEF x, L

LEMMA MoreCreated ==
  ASSUME NEW w \in Seq(Event), NEW e \in Seq(Event), NEW st, NEW st2,
         CreatedTrue(w, st), CreatedOnce(w), CreatedOnce(e),
         \A n \in DOMAIN w : HasIt(w[n], st) =>
            HasIt(w[n], st2) \/ \E m \in DOMAIN e : ~Creates(e[m]) /\ e[m].issue = w[n].issue,
         \A m \in DOMAIN e : Creates(e[m]) => HasIt(e[m], st2) /\ \A n \in DOMAIN w : w[n].issue # e[m].issue
  PROVE  /\ CreatedTrue(w \o e, st2) /\ CreatedOnce(w \o e)
         /\ OnlyCreates(w \o e) <=> OnlyCreates(w) /\ OnlyCreates(e)
         /\ \A s : Pending(w \o e, s) = Pending(w, s) \cup Pending(e, s)
  <1> DEFINE x == w \o e
             L == Len(w)
  <1>1. /\ L \in Nat
        /\ \A n \in DOMAIN w : n \in DOMAIN x /\ x[n] = w[n] /\ n \in Nat /\ n <= L
        /\ \A n \in DOMAIN e : n + L \in DOMAIN x /\ x[n + L] = e[n] /\ n + L > L /\ n + L \in Nat
        /\ \A n \in DOMAIN x : n \in DOMAIN w \/ (n - L \in DOMAIN e /\ n = (n - L) + L /\ n > L)
    BY SplitAt
  <1> HIDE DEF x, L
  <1>2. \A n \in DOMAIN x : n \in DOMAIN w \/ \E m \in DOMAIN e : n = m + L /\ x[n] = e[m]
    BY <1>1
  <1>3. CreatedTrue(x, st2)
    <2> SUFFICES ASSUME NEW n \in DOMAIN x, Creates(x[n]) PROVE Overtaken(x, n) \/ HasIt(x[n], st2)
      BY DEF CreatedTrue
    <2>1. CASE n \in DOMAIN w
      <3>1. x[n] = w[n] /\ (Overtaken(w, n) \/ HasIt(w[n], st))
        BY <1>1, <2>1 DEF CreatedTrue
      <3>2. Overtaken(w, n) => Overtaken(x, n)
        BY <1>1, <3>1 DEF Overtaken
      <3>3. ASSUME NEW m \in DOMAIN e, ~Creates(e[m]), e[m].issue = w[n].issue PROVE Overtaken(x, n)
        <4>1. m + L \in DOMAIN x /\ x[m + L] = e[m] /\ m + L > L /\ n <= L /\ n \in Nat /\ L \in Nat /\ m + L \in Nat
          BY <1>1, <2>1, <3>3
        <4>2. m + L > n
          BY <4>1
        <4> QED BY <3>1, <3>3, <4>1, <4>2 DEF Overtaken
      <3> QED BY <2>1, <3>1, <3>2, <3>3
    <2>2. CASE n \notin DOMAIN w
      BY <1>2, <2>2
    <2> QED BY <2>1, <2>2
  <1>4. CreatedOnce(x)
    <2> SUFFICES ASSUME NEW m \in DOMAIN x, NEW n \in DOMAIN x, Creates(x[m]), Creates(x[n]), x[m].issue = x[n].issue
                 PROVE  m = n
      BY DEF CreatedOnce
    <2>1. CASE m \in DOMAIN w /\ n \in DOMAIN w
      BY <1>1, <2>1 DEF CreatedOnce
    <2>2. CASE m \notin DOMAIN w /\ n \notin DOMAIN w
      BY <1>2, <2>2 DEF CreatedOnce
    <2>3. CASE m \in DOMAIN w /\ n \notin DOMAIN w
      BY <1>1, <1>2, <2>3
    <2>4. CASE m \notin DOMAIN w /\ n \in DOMAIN w
      BY <1>1, <1>2, <2>4
    <2> QED BY <2>1, <2>2, <2>3, <2>4
  <1>5. OnlyCreates(x) <=> OnlyCreates(w) /\ OnlyCreates(e)
    <2>1. OnlyCreates(x) => OnlyCreates(w)
      BY <1>1 DEF OnlyCreates
    <2>2. OnlyCreates(x) => OnlyCreates(e)
      BY <1>1 DEF OnlyCreates
    <2>3. OnlyCreates(w) /\ OnlyCreates(e) => OnlyCreates(x)
      BY <1>1, <1>2 DEF OnlyCreates
    <2> QED BY <2>1, <2>2, <2>3
  <1>6. ASSUME NEW s PROVE Pending(x, s) = Pending(w, s) \cup Pending(e, s)
    <2>1. Pending(x, s) \subseteq Pending(w, s) \cup Pending(e, s)
      BY <1>1, <1>2 DEF Pending
    <2>2. Pending(w, s) \subseteq Pending(x, s)
      BY <1>1 DEF Pending
    <2>3. Pending(e, s) \subseteq Pending(x, s)
      BY <1>1 DEF Pending
    <2> QED BY <2>1, <2>2, <2>3
  <1> QED BY <1>3, <1>4, <1>5, <1>6 DEF x

LEMMA LessCreated ==
  ASSUME NEW T, NEW w \in Seq(T), w # <<>>, NEW st, CreatedTrue(w, st), CreatedOnce(w)
  PROVE  /\ CreatedTrue(Tail(w), st) /\ CreatedOnce(Tail(w)) /\ Tail(w) \in Seq(T)
         /\ \A n \in DOMAIN Tail(w) : \E m \in DOMAIN w : Tail(w)[n] = w[m]
         /\ OnlyCreates(w) <=> Creates(w[1]) /\ OnlyCreates(Tail(w))
         /\ OnlyCreates(w) => HasIt(w[1], st)
         /\ Creates(w[1]) => \A s : Pending(Tail(w), s) = Pending(w, s) \ (IF w[1].status = s THEN {w[1].issue} ELSE {})
         /\ Creates(w[1]) /\ w[1].issue \in Issues => w[1].issue \in Pending(w, w[1].status)
  <1> DEFINE x == Tail(w)
             L == Len(w)
  <1>1. /\ x \in Seq(T) /\ L \in Nat /\ L # 0 /\ DOMAIN w = 1..L /\ DOMAIN x = 1..(L - 1)
        /\ \A k \in 1..(L - 1) : x[k] = w[k + 1]
    OBVIOUS
  <1> HIDE DEF x, L
  <1>2. \A k \in 1..L : k = 1 \/ (k - 1 \in 1..(L - 1) /\ x[k - 1] = w[k] /\ k = (k - 1) + 1)
    <2> SUFFICES ASSUME NEW k \in 1..L, k # 1 PROVE k - 1 \in 1..(L - 1) /\ x[k - 1] = w[k] /\ k = (k - 1) + 1
      OBVIOUS
    <2>1. k - 1 \in 1..(L - 1) /\ (k - 1) + 1 = k
      BY <1>1
    <2> QED BY <1>1, <2>1
  <1>3. \A k \in 1..(L - 1) : k + 1 \in 1..L /\ x[k] = w[k + 1] /\ k + 1 > 1 /\ k \in Nat
    BY <1>1
  <1>4. 1 \in 1..L
    BY <1>1
  <1>5. CreatedTrue(x, st)
    <2> SUFFICES ASSUME NEW n \in 1..(L - 1), Creates(x[n]) PROVE Overtaken(x, n) \/ HasIt(x[n], st)
      BY <1>1 DEF CreatedTrue
    <2>1. n + 1 \in DOMAIN w /\ x[n] = w[n + 1] /\ (Overtaken(w, n + 1) \/ HasIt(w[n + 1], st))
      BY <1>1, <1>3 DEF CreatedTrue
    <2>2. ASSUME Overtaken(w, n + 1) PROVE Overtaken(x, n)
      <3>1. PICK m \in 1..L : m > n + 1 /\ ~Creates(w[m]) /\ w[m].issue = w[n + 1].issue
        BY <1>1, <2>2 DEF Overtaken
      <3>2. m # 1 /\ m - 1 > n
        BY <1>3, <3>1
      <3>3. m - 1 \in 1..(L - 1) /\ x[m - 1] = w[m]
        BY <1>2, <3>2
      <3> QED BY <1>1, <2>1, <3>1, <3>2, <3>3 DEF Overtaken
    <2> QED BY <2>1, <2>2
  <1>6. CreatedOnce(x)
    <2> SUFFICES ASSUME NEW m \in 1..(L - 1), NEW n \in 1..(L - 1), Creates(x[m]), Creates(x[n]), x[m].issue = x[n].issue
                 PROVE  m = n
      BY <1>1 DEF CreatedOnce
    <2>1. m + 1 = n + 1
      BY <1>1, <1>3 DEF CreatedOnce
    <2> QED BY <2>1
  <1>7. \A n \in DOMAIN x : \E m \in DOMAIN w : x[n] = w[m]
    BY <1>1, <1>3
  <1>8. OnlyCreates(w) <=> Creates(w[1]) /\ OnlyCreates(x)
    <2>1. OnlyCreates(w) => Creates(w[1]) /\ OnlyCreates(x)
      BY <1>1, <1>4, <1>7 DEF OnlyCreates
    <2>2. Creates(w[1]) /\ OnlyCreates(x) => OnlyCreates(w)
      BY <1>1, <1>2 DEF OnlyCreates
    <2> QED BY <2>1, <2>2
  <1>9. OnlyCreates(w) => HasIt(w[1], st)
    BY <1>1, <1>4 DEF OnlyCreates, CreatedTrue, Overtaken
  <1>10. ASSUME Creates(w[1]), NEW s
         PROVE  Pending(x, s) = Pending(w, s) \ (IF w[1].status = s THEN {w[1].issue} ELSE {})
    <2>1. ASSUME NEW i \in Pending(x, s)
          PROVE  i \in Pending(w, s) /\ i # w[1].issue
      <3>1. PICK n \in 1..(L - 1) : Creates(x[n]) /\ x[n].issue = i /\ x[n].status = s
        BY <1>1, <2>1 DEF Pending
      <3>2. n + 1 \in 1..L /\ x[n] = w[n + 1] /\ n + 1 # 1
        BY <1>3
      <3>3. i # w[1].issue
        BY <1>1, <1>4, <1>10, <3>1, <3>2 DEF CreatedOnce
      <3> QED BY <1>1, <2>1, <3>1, <3>2, <3>3 DEF Pending
    <2>2. ASSUME NEW i \in Pending(w, s), ~(w[1].status = s /\ w[1].issue = i)
          PROVE  i \in Pending(x, s)
      <3>1. PICK n \in 1..L : Creates(w[n]) /\ w[n].issue = i /\ w[n].status = s
        BY <1>1, <2>2 DEF Pending
      <3>2. n # 1
        BY <2>2, <3>1
      <3>3. n - 1 \in 1..(L - 1) /\ x[n - 1] = w[n]
        BY <1>2, <3>2
      <3> QED BY <1>1, <2>2, <3>1, <3>3 DEF Pending
    <2> QED BY <2>1, <2>2
  <1>11. Creates(w[1]) /\ w[1].issue \in Issues => w[1].issue \in Pending(w, w[1].status)
    BY <1>1, <1>4 DEF Pending
  <1> QED BY <1>1, <1>5, <1>6, <1>7, <1>8, <1>9, <1>10, <1>11 DEF x

(* A commit: the last created event is the server's, and whatever changes  *)
(* an issue is announced behind it.                                        *)
LEMMA OneCreated ==
  ASSUME NEW i \in Issues, NEW s \in Statuses
  PROVE  LET e == Events("created", {i}, s)
         IN  CreatedOnce(e) /\ \A t : Pending(e, t) = IF t = s THEN {i} ELSE {}
  <1> DEFINE e == Events("created", {i}, s)
  <1>1. /\ \A n \in DOMAIN e : e[n].kind = "created" /\ e[n].status = s /\ e[n].issue \in {i}
        /\ \A j \in {i} : \E n \in DOMAIN e : e[n].issue = j
    <2> DEFINE S == {i}
               kind == "created"
    <2>1. S \in SUBSET Issues /\ \A j \in S : [kind |-> kind, status |-> s, issue |-> j] \in Event
      BY DEF Event
    <2> HIDE DEF S, kind
    <2>2. LET x == Events(kind, S, s)
          IN  /\ \A n \in DOMAIN x : x[n].kind = kind /\ x[n].status = s /\ x[n].issue \in S
              /\ \A j \in S : \E n \in DOMAIN x : x[n].issue = j
      BY <2>1, EventsAre
    <2> QED BY <2>2 DEF S, kind
  <1>2. DOMAIN e = 1..1
    <2>1. Cardinality({i}) = 1
      BY FS_Singleton
    <2> QED BY <2>1 DEF Events
  <1> HIDE DEF e
  <1>3. CreatedOnce(e)
    BY <1>2 DEF CreatedOnce
  <1>4. \A t : Pending(e, t) = IF t = s THEN {i} ELSE {}
    BY <1>1 DEF Pending, Creates
  <1> QED BY <1>3, <1>4 DEF e

LEMMA DoStore ==
  ASSUME IssueInv, WireInv, StillNumbered, NEW kind \in {"create", "update", "batch", "delete"},
         NEW S \in SUBSET Issues, NEW s, kind # "delete" => s \in Statuses,
         kind = "create" => \E i \in Issues : S = {i} /\ ~Numbered(i) /\ Numbered(i)',
         Do(kind, S, s), conn' = conn
  PROVE  /\ WireInv'
         /\ conn # "down" /\ OnlyCreates(wire') =>
              OnlyCreates(wire) /\ (kind # "create" => S \cap DOMAIN stored = {})
         /\ conn # "down" /\ kind = "create" =>
              \A t : Pending(wire', t) = Pending(wire, t) \cup IF t = s THEN S ELSE {}
         /\ kind = "create" => S \cap DOMAIN stored = {}
  <1> DEFINE there == S \cap DOMAIN stored
             type == IF kind = "create" THEN "created" ELSE IF kind = "delete" THEN "deleted" ELSE "updated"
             whom == IF kind = "create" THEN S ELSE there
             status == IF kind = "delete" THEN "" ELSE s
             e == Events(type, whom, status)
  <1>1. /\ wire \in Seq(Event) /\ (conn = "down" => wire = <<>>) /\ DOMAIN stored \subseteq Issues
        /\ CreatedOnce(wire) /\ CreatedTrue(wire, stored)
        /\ \A i \in DOMAIN stored : NumberedIn(op, i)
        /\ \A n \in DOMAIN wire : NumberedIn(op, wire[n].issue)
    BY DEF IssueInv, Typed, WireTyped, StoreTyped, WireInv, AllNumbered, Numbered
  <1>2. wire' = IF conn = "down" THEN wire ELSE wire \o e
    BY DEF Do, Notify
  <1>3. kind = "create" => \A i \in S : ~NumberedIn(op, i) /\ NumberedIn(op', i)
    BY DEF Numbered
  <1>4. kind = "create" => there = {}
    BY <1>1, <1>3
  <1>5. /\ e \in Seq(Event)
        /\ \A n \in DOMAIN e : e[n].kind = type /\ e[n].status = status /\ e[n].issue \in whom
        /\ \A i \in whom : \E n \in DOMAIN e : e[n].issue = i
    <2>1. whom \in SUBSET Issues /\ \A i \in whom : [kind |-> type, status |-> status, issue |-> i] \in Event
      BY <1>1 DEF Event
    <2> HIDE DEF type, whom, status
    <2> QED BY <2>1, EventsAre
  <1>6. /\ kind = "create" => type = "created" /\ whom = S /\ status = s
        /\ kind # "create" => type # "created" /\ whom = there
    OBVIOUS
  <1>7. kind = "create" => CreatedOnce(e) /\ \A t : Pending(e, t) = IF t = s THEN S ELSE {}
    <2> SUFFICES ASSUME kind = "create" PROVE CreatedOnce(e) /\ \A t : Pending(e, t) = IF t = s THEN S ELSE {}
      OBVIOUS
    <2>1. PICK i \in Issues : S = {i}
      OBVIOUS
    <2>2. e = Events("created", {i}, s)
      BY <2>1
    <2> HIDE DEF e
    <2> QED BY <2>1, <2>2, OneCreated
  <1> HIDE DEF type, whom, status, e
  <1>8. kind # "create" => CreatedOnce(e) /\ \A n \in DOMAIN e : ~Creates(e[n])
    BY <1>5, <1>6 DEF CreatedOnce, Creates
  <1>9. /\ kind = "create" => \A i \in DOMAIN stored : i \in DOMAIN stored' /\ stored'[i] = stored[i]
        /\ kind = "create" => \A i \in S : i \in DOMAIN stored' /\ stored'[i] = s
        /\ kind # "create" => \A i \in DOMAIN stored \ S : i \in DOMAIN stored' /\ stored'[i] = stored[i]
        /\ kind = "create" => DOMAIN stored' = DOMAIN stored \cup S
        /\ kind # "create" => DOMAIN stored' \subseteq DOMAIN stored
    <2>1. CASE kind = "create"
      <3>1. stored' = [i \in DOMAIN stored \cup S |-> IF i \in S THEN s ELSE stored[i]]
        BY <2>1 DEF Do
      <3> QED BY <1>4, <2>1, <3>1
    <2>2. CASE kind \in {"update", "batch"}
      <3>1. stored' = [i \in DOMAIN stored |-> IF i \in S THEN s ELSE stored[i]]
        BY <2>2 DEF Do
      <3> QED BY <2>2, <3>1
    <2>3. CASE kind = "delete"
      <3>1. stored' = [i \in DOMAIN stored \ S |-> stored[i]]
        BY <2>3 DEF Do
      <3> QED BY <2>3, <3>1
    <2> QED BY <2>1, <2>2, <2>3
  <1>10. \A i \in Issues : NumberedIn(op, i) => NumberedIn(op', i)
    BY DEF StillNumbered, Numbered
  <1>11. \A i \in DOMAIN stored' : NumberedIn(op', i)
    BY <1>1, <1>3, <1>9, <1>10
  <1>12. \A n \in DOMAIN wire : wire[n].issue \in Issues
    <2>1. \A n \in DOMAIN wire : wire[n] \in Event
      BY <1>1
    <2> QED BY <2>1 DEF Event
  <1>13. CASE conn = "down"
    <2>1. wire' = wire /\ wire = <<>>
      BY <1>1, <1>2, <1>13
    <2>2. AllNumbered'
      BY <1>11, <2>1 DEF AllNumbered, Numbered
    <2>3. CreatedOnce(wire') /\ CreatedTrue(wire', stored')
      BY <2>1 DEF CreatedOnce, CreatedTrue
    <2>4. WireInv'
      BY <2>2, <2>3 DEF WireInv, CreatedOnce, CreatedTrue, Overtaken
    <2> QED BY <1>4, <1>13, <2>4
  <1>14. CASE conn # "down"
    <2>1. wire' = wire \o e
      BY <1>2, <1>14
    <2>2. \A n \in DOMAIN wire : HasIt(wire[n], stored) =>
            HasIt(wire[n], stored') \/ \E m \in DOMAIN e : ~Creates(e[m]) /\ e[m].issue = wire[n].issue
      <3> SUFFICES ASSUME NEW n \in DOMAIN wire, HasIt(wire[n], stored)
                   PROVE  HasIt(wire[n], stored') \/ \E m \in DOMAIN e : ~Creates(e[m]) /\ e[m].issue = wire[n].issue
        OBVIOUS
      <3> DEFINE i == wire[n].issue
      <3>1. i \in DOMAIN stored /\ stored[i] = wire[n].status
        BY DEF HasIt
      <3>2. CASE kind = "create" \/ i \notin S
        <4>1. i \in DOMAIN stored' /\ stored'[i] = stored[i]
          BY <1>9, <3>1, <3>2
        <4> QED BY <3>1, <4>1 DEF HasIt
      <3>3. CASE kind # "create" /\ i \in S
        <4>1. i \in whom
          BY <1>6, <3>1, <3>3
        <4>2. \E m \in DOMAIN e : e[m].issue = i
          BY <1>5, <4>1
        <4> QED BY <1>8, <3>3, <4>2
      <3> QED BY <3>2, <3>3
    <2>3. \A m \in DOMAIN e : Creates(e[m]) => HasIt(e[m], stored') /\ \A n \in DOMAIN wire : wire[n].issue # e[m].issue
      <3> SUFFICES ASSUME NEW m \in DOMAIN e, Creates(e[m])
                   PROVE  HasIt(e[m], stored') /\ \A n \in DOMAIN wire : wire[n].issue # e[m].issue
        OBVIOUS
      <3>1. kind = "create"
        BY <1>8
      <3>2. e[m].issue \in S /\ e[m].status = s
        BY <1>5, <1>6, <3>1
      <3>3. HasIt(e[m], stored')
        BY <1>9, <3>1, <3>2 DEF HasIt
      <3>4. \A n \in DOMAIN wire : wire[n].issue # e[m].issue
        BY <1>1, <1>3, <3>1, <3>2
      <3> QED BY <3>3, <3>4
    <2>4. /\ CreatedTrue(wire', stored') /\ CreatedOnce(wire')
          /\ OnlyCreates(wire') <=> OnlyCreates(wire) /\ OnlyCreates(e)
          /\ \A t : Pending(wire', t) = Pending(wire, t) \cup Pending(e, t)
      <3> DEFINE st2 == stored'
      <3>1. CreatedOnce(e)
        BY <1>7, <1>8
      <3>2. \A n \in DOMAIN wire : HasIt(wire[n], stored) =>
              HasIt(wire[n], st2) \/ \E m \in DOMAIN e : ~Creates(e[m]) /\ e[m].issue = wire[n].issue
        BY <2>2
      <3>3. \A m \in DOMAIN e : Creates(e[m]) => HasIt(e[m], st2) /\ \A n \in DOMAIN wire : wire[n].issue # e[m].issue
        BY <2>3
      <3>4. wire \in Seq(Event) /\ e \in Seq(Event) /\ CreatedTrue(wire, stored) /\ CreatedOnce(wire)
        BY <1>1, <1>5
      <3> HIDE DEF st2
      <3>5. LET x == wire \o e
            IN  /\ CreatedTrue(x, st2) /\ CreatedOnce(x)
                /\ OnlyCreates(x) <=> OnlyCreates(wire) /\ OnlyCreates(e)
                /\ \A t : Pending(x, t) = Pending(wire, t) \cup Pending(e, t)
        BY <3>1, <3>2, <3>3, <3>4, MoreCreated
      <3> QED BY <2>1, <3>5 DEF st2
    <2>5. \A n \in DOMAIN wire' : NumberedIn(op', wire'[n].issue)
      <3>1. \A n \in DOMAIN e : NumberedIn(op', e[n].issue)
        <4> SUFFICES ASSUME NEW n \in DOMAIN e PROVE NumberedIn(op', e[n].issue)
          OBVIOUS
        <4>1. e[n].issue \in whom
          BY <1>5
        <4>2. CASE kind = "create"
          BY <1>3, <1>6, <4>1, <4>2
        <4>3. CASE kind # "create"
          BY <1>1, <1>6, <1>10, <4>1, <4>3
        <4> QED BY <4>2, <4>3
      <3>2. \A n \in DOMAIN wire : NumberedIn(op', wire[n].issue)
        BY <1>1, <1>10, <1>12
      <3> DEFINE x == wire \o e
      <3>3. \A n \in DOMAIN x : (\E m \in DOMAIN wire : x[n] = wire[m]) \/ \E m \in DOMAIN e : x[n] = e[m]
        <4>1. \A n \in DOMAIN x : n \in DOMAIN wire \/ (n - Len(wire) \in DOMAIN e /\ n = (n - Len(wire)) + Len(wire))
          BY <1>1, <1>5, SplitAt
        <4>2. \A n \in DOMAIN wire : x[n] = wire[n]
          BY <1>1, <1>5, SplitAt
        <4>3. \A n \in DOMAIN e : x[n + Len(wire)] = e[n]
          BY <1>1, <1>5, SplitAt
        <4> HIDE DEF x
        <4> QED BY <4>1, <4>2, <4>3
      <3> HIDE DEF x
      <3>4. wire' = x
        BY <2>1 DEF x
      <3> QED BY <3>1, <3>2, <3>3, <3>4
    <2>6. AllNumbered'
      BY <1>11, <2>5 DEF AllNumbered, Numbered
    <2>7. WireInv'
      <3>1. CreatedOnce(wire)' /\ CreatedTrue(wire, stored)'
        BY <2>4 DEF CreatedOnce, CreatedTrue, Overtaken
      <3> QED BY <2>6, <3>1 DEF WireInv
    <2>8. kind # "create" /\ OnlyCreates(e) => there = {}
      <3>1. ASSUME kind # "create", NEW i \in there PROVE ~OnlyCreates(e)
        <4>1. \E n \in DOMAIN e : e[n].issue = i
          BY <1>5, <1>6, <3>1
        <4> QED BY <1>8, <3>1, <4>1 DEF OnlyCreates
      <3> QED BY <3>1
    <2> QED BY <1>4, <1>7, <2>4, <2>7, <2>8
  <1> QED BY <1>13, <1>14

(* What is on the socket, through every step.                              *)
LEMMA WireOn ==
  ASSUME IssueInv, WireInv, StillNumbered, stored' = stored, wire' = wire \/ wire' = <<>>
  PROVE  WireInv'
  <1>1. AllNumbered'
    <2>1. \A i \in DOMAIN stored : i \in Issues
      BY DEF IssueInv, Typed, StoreTyped
    <2>2. \A n \in DOMAIN wire : wire[n].issue \in Issues
      <3>1. \A n \in DOMAIN wire : wire[n] \in Event
        BY DEF IssueInv, Typed, WireTyped
      <3> QED BY <3>1 DEF Event
    <2>3. \A i \in Issues : NumberedIn(op, i) => NumberedIn(op', i)
      BY DEF StillNumbered, Numbered
    <2>4. \A i \in DOMAIN stored' : NumberedIn(op', i)
      BY <2>1, <2>3 DEF WireInv, AllNumbered, Numbered
    <2>5. \A n \in DOMAIN wire' : NumberedIn(op', wire'[n].issue)
      BY <2>2, <2>3 DEF WireInv, AllNumbered, Numbered
    <2> QED BY <2>4, <2>5 DEF AllNumbered, Numbered
  <1>2. CreatedOnce(wire)' /\ CreatedTrue(wire, stored)'
    BY DEF WireInv, CreatedOnce, CreatedTrue, Overtaken
  <1> QED BY <1>1, <1>2 DEF WireInv

LEMMA DeliverWire ==
  ASSUME IssueInv, WireInv, StillNumbered, Deliver
  PROVE  /\ WireInv'
         /\ OnlyCreates(wire') /\ Creates(wire[1]) => OnlyCreates(wire) /\ HasIt(wire[1], stored)
         /\ Creates(wire[1]) =>
              \A s : Pending(wire', s) = Pending(wire, s) \ (IF wire[1].status = s THEN {wire[1].issue} ELSE {})
         /\ Creates(wire[1]) => wire[1].issue \in Pending(wire, wire[1].status)
  <1>1. wire \in Seq(Event) /\ wire # <<>> /\ wire' = Tail(wire) /\ stored' = stored /\ op' = op
    BY DEF Deliver, IssueInv, Typed, WireTyped
  <1>2. wire[1].issue \in Issues
    <2>1. wire[1] \in Event
      BY <1>1
    <2> QED BY <2>1 DEF Event
  <1>3. CreatedTrue(wire, stored) /\ CreatedOnce(wire)
    BY DEF WireInv
  <1> DEFINE x == Tail(wire)
  <1>4. /\ CreatedTrue(x, stored) /\ CreatedOnce(x)
        /\ \A n \in DOMAIN x : \E m \in DOMAIN wire : x[n] = wire[m]
        /\ OnlyCreates(wire) <=> Creates(wire[1]) /\ OnlyCreates(x)
        /\ OnlyCreates(wire) => HasIt(wire[1], stored)
        /\ Creates(wire[1]) => \A s : Pending(x, s) = Pending(wire, s) \ (IF wire[1].status = s THEN {wire[1].issue} ELSE {})
        /\ Creates(wire[1]) /\ wire[1].issue \in Issues => wire[1].issue \in Pending(wire, wire[1].status)
    BY <1>1, <1>3, LessCreated
  <1> HIDE DEF x
  <1>5. wire' = x
    BY <1>1 DEF x
  <1>6. AllNumbered'
    <2>1. \A n \in DOMAIN wire' : NumberedIn(op', wire'[n].issue)
      BY <1>1, <1>4, <1>5 DEF WireInv, AllNumbered, Numbered
    <2>2. \A i \in DOMAIN stored' : NumberedIn(op', i)
      BY <1>1 DEF WireInv, AllNumbered, Numbered
    <2> QED BY <2>1, <2>2 DEF AllNumbered, Numbered
  <1>7. CreatedOnce(wire)' /\ CreatedTrue(wire, stored)'
    BY <1>1, <1>4, <1>5 DEF CreatedOnce, CreatedTrue, Overtaken
  <1>8. WireInv'
    BY <1>6, <1>7 DEF WireInv
  <1> QED BY <1>2, <1>4, <1>5, <1>8

LEMMA CommitWire ==
  ASSUME IssueInv, BoardTyped, NumberedOnce, WireInv, NEW k \in Ops, Commit(k)
  PROVE  WireInv'
  <1>1. /\ StillNumbered
        /\ op[k].kind = "create" => \A i \in op[k].issues : ~Numbered(i) /\ Numbered(i)'
    BY CommitTyped DEF TypedOn
  <1>2. IsOp(op[k]) /\ KeepTyped(op[k])
    BY DEF IssueInv, Typed, OpsTyped, BoardTyped
  <1>3. op[k].phase = "sent" /\ op[k].kind # "more" /\ conn' = conn /\ Do(op[k].kind, op[k].issues, op[k].status)
    BY DEF Commit
  <1> DEFINE kind == op[k].kind
             S == op[k].issues
             s == op[k].status
  <1>4. /\ kind \in {"create", "update", "batch", "delete"} /\ S \in SUBSET Issues
        /\ kind # "delete" => s \in Statuses
    BY <1>2, <1>3 DEF IsOp
  <1>5. kind = "create" => \E i \in Issues : S = {i} /\ ~Numbered(i) /\ Numbered(i)'
    BY <1>1, <1>2 DEF KeepTyped
  <1>6. Do(kind, S, s)
    BY <1>3
  <1> HIDE DEF kind, S, s
  <1> QED BY <1>1, <1>3, <1>4, <1>5, <1>6, DoStore

LEMMA OtherActsWire ==
  ASSUME IssueInv, BoardTyped, NumberedOnce, WireInv, NEW k \in Ops, NEW kind \in Kinds, NEW s \in Statuses,
         NEW i \in Issues, OtherActs(k, kind, {i}, s)
  PROVE  /\ WireInv'
         /\ conn # "down" /\ OnlyCreates(wire') =>
              /\ OnlyCreates(wire) /\ kind = "create" /\ i \notin DOMAIN stored
              /\ \A t : Pending(wire', t) = Pending(wire, t) \cup IF t = s THEN {i} ELSE {}
              /\ \A t : i \notin Pending(wire, t)
  <1> DEFINE S == {i}
  <1>1. /\ StillNumbered /\ kind \in {"create", "update", "delete"}
        /\ kind = "create" => ~Numbered(i) /\ Numbered(i)'
    BY OtherActsTyped DEF TypedOn
  <1>2. Do(kind, S, s) /\ conn' = conn /\ (kind # "create" => i \in DOMAIN stored)
    BY <1>1 DEF OtherActs
  <1>3. S \in SUBSET Issues /\ (kind = "create" => \E j \in Issues : S = {j} /\ ~Numbered(j) /\ Numbered(j)')
    BY <1>1
  <1>4. i \in S /\ S \subseteq {i}
    OBVIOUS
  <1> HIDE DEF S
  <1>5. /\ WireInv'
        /\ conn # "down" /\ OnlyCreates(wire') =>
             OnlyCreates(wire) /\ (kind # "create" => S \cap DOMAIN stored = {})
        /\ conn # "down" /\ kind = "create" =>
             \A t : Pending(wire', t) = Pending(wire, t) \cup IF t = s THEN S ELSE {}
        /\ kind = "create" => S \cap DOMAIN stored = {}
    BY <1>1, <1>2, <1>3, DoStore
  <1>6. conn # "down" /\ OnlyCreates(wire') => kind = "create"
    BY <1>2, <1>4, <1>5
  <1>7. kind = "create" => \A t : i \notin Pending(wire, t)
    BY <1>1 DEF WireInv, AllNumbered, Pending
  <1>8. S = {i}
    BY <1>4
  <1> QED BY <1>4, <1>5, <1>6, <1>7, <1>8

LEMMA WireStep ==
  ASSUME IssueInv, BoardTyped, NumberedOnce, WireInv, [Next]_vars
  PROVE  WireInv'
  <1>1. StillNumbered
    BY TypedStep DEF TypedOn
  <1>2. CASE Deliver
    BY <1>1, <1>2, DeliverWire
  <1>3. CASE \E k \in Ops : Commit(k)
    BY <1>3, CommitWire
  <1>4. CASE \E k \in Ops, kind \in Kinds, s \in Statuses, i \in Issues : OtherActs(k, kind, {i}, s)
    BY <1>4, OtherActsWire
  <1>5. CASE Drop \/ Reconnect \/ Open \/ ListLands \/ FetchDetail \/ UNCHANGED vars
    <2>1. stored' = stored /\ (wire' = wire \/ wire' = <<>>)
      BY <1>5 DEF Drop, Reconnect, Open, ListLands, FetchDetail, vars
    <2> QED BY <1>1, <2>1, WireOn
  <1>6. CASE \E s \in Paged : ReadColumn(s)
    <2>1. stored' = stored /\ wire' = wire
      BY <1>6 DEF ReadColumn
    <2> QED BY <1>1, <2>1, WireOn
  <1>7. CASE \E k \in Ops : Settle(k) \/ MoreLands(k) \/ Refuse(k) \/ AnswerMore(k)
    <2>1. stored' = stored /\ wire' = wire
      BY <1>7 DEF Settle, MoreLands, Refuse, AnswerMore
    <2> QED BY <1>1, <2>1, WireOn
  <1>8. CASE \/ \E k \in Ops, i \in Issues : Delete(k, i)
             \/ \E k \in Ops, s \in Paged : LoadMore(k, s) \/ \E i \in Issues : Create(k, i, s)
             \/ \E k \in Ops, s \in Statuses, i \in Issues : Update(k, i, s) \/ \E j \in Issues : Batch(k, i, j, s)
    <2>1. stored' = stored /\ wire' = wire
      BY <1>8 DEF Delete, LoadMore, Create, Update, Batch
    <2> QED BY <1>1, <2>1, WireOn
  <1> QED BY <1>2, <1>3, <1>4, <1>5, <1>6, <1>7, <1>8 DEF Next

LEMMA WireInit == Init => WireInv
  <1> SUFFICES ASSUME Init PROVE WireInv
    OBVIOUS
  <1>1. DOMAIN stored = Initial /\ wire = <<>>
    BY DEF Init
  <1> QED BY <1>1 DEF WireInv, AllNumbered, Numbered, NumberedIn, CreatedOnce, CreatedTrue

-----------------------------------------------------------------------------
(* What a column shows is the server's, but for the issues whose event is  *)
(* still to come; its total lacks exactly those of them it does not show.  *)
Right(u, column, first, pending) ==
  /\ u.issues \subseteq column /\ first \subseteq u.issues \cup pending
  /\ u.total + Cardinality(pending \ u.issues) = Cardinality(column)

RightAt(b, s) == Right(getBucket(b, s), Column(s), Page(s, 0).issues, Pending(wire, s))

(* No event but of new issues is on its way, no write of this user.        *)
Calm == \A k \in Ops : op[k].kind \in {"none", "more"}
Clean == conn # "down" /\ OnlyCreates(wire) /\ Calm

ListTold ==
  Clean /\ ~list.owed /\ ~gap =>
    /\ Idle(list) /\ HasData(list) => \A s \in Paged : RightAt(list.data[1], s)
    /\ Back(list) => DOMAIN list.fetch[2] \subseteq Paged /\ \A s \in DOMAIN list.fetch[2] : RightAt(list.fetch[2], s)

(* The three ways in which a right column stays right.                     *)
LEMMA RightPut ==
  ASSUME NEW u \in Bucket, NEW column \in SUBSET Issues, NEW first \in SUBSET column, NEW pending \in SUBSET Issues,
         NEW i \in pending, i \in column, Right(u, column, first, pending)
  PROVE  Right(IF i \in u.issues THEN u ELSE Put(u, i), column, first, pending \ {i})
  <1>1. CASE i \in u.issues
    <2>1. (pending \ {i}) \ u.issues = pending \ u.issues
      BY <1>1
    <2> QED BY <1>1, <2>1 DEF Right
  <1>2. CASE i \notin u.issues
    <2> DEFINE rest == pending \ u.issues
               left == (pending \ {i}) \ Put(u, i).issues
    <2>1. Put(u, i).issues = u.issues \cup {i} /\ Put(u, i).total = u.total + 1 /\ u.total \in Nat
      BY DEF Put, Bucket
    <2>2. left = rest \ {i} /\ i \in rest
      BY <1>2, <2>1
    <2>3. IsFiniteSet(rest) /\ Cardinality(rest) \in Nat
      <3>1. rest \subseteq Issues
        OBVIOUS
      <3> HIDE DEF rest
      <3> QED BY <3>1, IssueAssumption, FS_Subset, FS_CardinalityType
    <2> HIDE DEF rest, left
    <2>4. Cardinality(left) = Cardinality(rest) - 1
      BY <2>2, <2>3, FS_RemoveElement
    <2>5. u.total + Cardinality(rest) = Cardinality(column)
      BY DEF Right, rest
    <2>6. (u.total + 1) + Cardinality(left) = Cardinality(column)
      BY <2>1, <2>3, <2>4, <2>5
    <2>7. Put(u, i).issues \subseteq column /\ first \subseteq Put(u, i).issues \cup (pending \ {i})
      BY <2>1 DEF Right
    <2> QED BY <1>2, <2>1, <2>6, <2>7 DEF Right, left
  <1> QED BY <1>1, <1>2

LEMMA RightMore ==
  ASSUME NEW u \in Bucket, NEW column \in SUBSET Issues, NEW first \in SUBSET column, NEW pending \in SUBSET Issues,
         NEW i \in Issues, i \notin column, i \notin pending, Right(u, column, first, pending),
         NEW first2, first2 \subseteq first \cup {i}
  PROVE  Right(u, column \cup {i}, first2, pending \cup {i})
  <1> DEFINE rest == pending \ u.issues
             left == (pending \cup {i}) \ u.issues
  <1>1. u.issues \subseteq column /\ u.total \in Nat /\ first \subseteq u.issues \cup pending
    BY DEF Right, Bucket
  <1>2. left = rest \cup {i} /\ i \notin rest
    BY <1>1
  <1>3. IsFiniteSet(rest) /\ Cardinality(rest) \in Nat /\ IsFiniteSet(column) /\ Cardinality(column) \in Nat
    <2>1. rest \subseteq Issues
      OBVIOUS
    <2> HIDE DEF rest
    <2> QED BY <2>1, IssueAssumption, FS_Subset, FS_CardinalityType
  <1>4. u.total + Cardinality(rest) = Cardinality(column)
    BY DEF Right
  <1> HIDE DEF rest, left
  <1>5. Cardinality(left) = Cardinality(rest) + 1 /\ Cardinality(column \cup {i}) = Cardinality(column) + 1
    BY <1>2, <1>3, FS_AddElement
  <1>6. u.total + Cardinality(left) = Cardinality(column \cup {i})
    BY <1>1, <1>3, <1>4, <1>5
  <1> QED BY <1>1, <1>6 DEF Right, left

LEMMA RightPage ==
  ASSUME NEW column \in SUBSET Issues, NEW first, NEW u, u.issues \subseteq column, first \subseteq u.issues,
         NEW pending, pending \subseteq u.issues, u.total = Cardinality(column)
  PROVE  Right(u, column, first, pending)
  <1>1. pending \ u.issues = {}
    OBVIOUS
  <1>2. Cardinality({}) = 0 /\ Cardinality(column) \in Nat
    BY IssueAssumption, FS_EmptySet, FS_Subset, FS_CardinalityType
  <1>3. u.total + Cardinality(pending \ u.issues) = Cardinality(column)
    BY <1>1, <1>2
  <1> QED BY <1>3 DEF Right

-----------------------------------------------------------------------------
(* Every step tells the list.                                              *)
RightThen(b, s) == Right(getBucket(b, s), Column(s)', Page(s, 0)'.issues, Pending(wire', s))

LEMMA ToldThen ==
  ASSUME Clean' /\ ~list'.owed /\ ~gap' =>
           /\ Idle(list') /\ HasData(list') => \A s \in Paged : RightThen(list'.data[1], s)
           /\ Back(list') => DOMAIN list'.fetch[2] \subseteq Paged /\ \A s \in DOMAIN list'.fetch[2] : RightThen(list'.fetch[2], s)
  PROVE  ListTold'
  <1>1. /\ Idle(list)' <=> Idle(list')
        /\ HasData(list)' <=> HasData(list')
        /\ Back(list)' <=> Back(list')
    BY DEF Idle, HasData, Back
  <1>2. \A s : RightAt(list.data[1], s)' <=> RightThen(list'.data[1], s)
    BY DEF RightAt, RightThen, Right, getBucket, Pending, Creates
  <1>3. \A s : RightAt(list.fetch[2], s)' <=> RightThen(list'.fetch[2], s)
    BY DEF RightAt, RightThen, Right, getBucket, Pending, Creates
  <1> QED BY <1>1, <1>2, <1>3 DEF ListTold

LEMMA CleanIs == Clean' => conn' # "down" /\ OnlyCreates(wire') /\ \A k \in Ops : op'[k].kind \in {"none", "more"}
  BY DEF Clean, Calm, OnlyCreates, Creates

LEMMA ColumnsStay ==
  ASSUME stored' = stored
  PROVE  \A s : Column(s)' = Column(s) /\ Page(s, 0)' = Page(s, 0)
  BY DEF Page, Rank, Column

LEMMA BusyTold ==
  ASSUME Busy(list') PROVE ListTold'
  BY ToldThen DEF Busy

LEMMA WriteTold ==
  ASSUME NEW k \in Ops, op'[k].kind \notin {"none", "more"} PROVE ListTold'
  BY CleanIs, ToldThen

LEMMA StillTold ==
  ASSUME ListTold, Clean' => Clean, UNCHANGED <<list, stored, wire, gap>>
  PROVE  ListTold'
  <1>1. \A b, s : RightThen(b, s) <=> RightAt(b, s)
    BY ColumnsStay DEF RightAt, RightThen
  <1> QED BY <1>1, ToldThen DEF ListTold

(* The user's operations.                                                  *)
LEMMA SameOpsClean ==
  ASSUME NEW k \in Ops, \A j \in Ops : j # k => op'[j] = op[j], op[k].kind \in {"none", "more"},
         conn' = conn, OnlyCreates(wire') => OnlyCreates(wire)
  PROVE  Clean' => Clean
  BY CleanIs DEF Clean, Calm

LEMMA RefuseTold ==
  ASSUME IssueInv, BoardTyped, NumberedOnce, ListTold, NEW k \in Ops, Refuse(k)
  PROVE  ListTold'
  <1>1. /\ list' = list /\ \A j \in Ops : j # k => op'[j] = op[j]
        /\ op'[k].kind = "none" => op[k].kind = "more"
        /\ op'[k].kind = op[k].kind \/ op'[k].kind = "none"
        /\ op[k].kind # "none"
    BY RefuseTyped
  <1>2. UNCHANGED <<list, stored, wire, conn, gap>>
    BY DEF Refuse
  <1>3. CASE op[k].kind = "more"
    BY <1>1, <1>2, <1>3, SameOpsClean, StillTold
  <1>4. CASE op[k].kind # "more"
    BY <1>1, <1>4, WriteTold
  <1> QED BY <1>3, <1>4

LEMMA AskTold ==
  ASSUME IssueInv, BoardTyped, NumberedOnce, ListTold, NEW k \in Ops,
         AnswerMore(k) \/ \E s \in Paged : LoadMore(k, s)
  PROVE  ListTold'
  <1>1. op[k].kind \in {"none", "more"} /\ \A j \in Ops : j # k => op'[j] = op[j]
    <2>1. CASE AnswerMore(k)
      BY <2>1, AnswerMoreTyped DEF AnswerMore
    <2>2. CASE \E s \in Paged : LoadMore(k, s)
      BY <2>2, LoadMoreTyped, NoOpIs
    <2> QED BY <2>1, <2>2
  <1>2. UNCHANGED <<list, stored, wire, conn, gap>>
    BY DEF AnswerMore, LoadMore
  <1> QED BY <1>1, <1>2, SameOpsClean, StillTold

LEMMA OtherActsTold ==
  ASSUME IssueInv, BoardTyped, NumberedOnce, WireInv, ListTold, NEW k \in Ops, NEW kind \in Kinds, NEW s \in Statuses,
         NEW i \in Issues, OtherActs(k, kind, {i}, s)
  PROVE  ListTold'
  <1> SUFFICES ASSUME Clean', ~list'.owed, ~gap'
               PROVE  /\ Idle(list') /\ HasData(list') => \A t \in Paged : RightThen(list'.data[1], t)
                      /\ Back(list') => DOMAIN list'.fetch[2] \subseteq Paged /\ \A t \in DOMAIN list'.fetch[2] : RightThen(list'.fetch[2], t)
    BY ToldThen
  <1>1. /\ list' = list /\ op[k].kind = "none" /\ \A j \in Ops : j # k => op'[j] = op[j]
    BY OtherActsTyped
  <1>2. conn' = conn /\ gap' = gap
    BY DEF OtherActs
  <1>3. /\ OnlyCreates(wire) /\ kind = "create" /\ i \notin DOMAIN stored
        /\ \A t : Pending(wire', t) = Pending(wire, t) \cup IF t = s THEN {i} ELSE {}
        /\ \A t : i \notin Pending(wire, t)
    BY <1>2, CleanIs, OtherActsWire
  <1>4. Clean
    BY <1>1, <1>2, <1>3, SameOpsClean
  <1>5. stored' = [j \in DOMAIN stored \cup {i} |-> IF j \in {i} THEN s ELSE stored[j]]
    BY <1>3 DEF OtherActs, Do
  <1>6. /\ \A t : t # s => Column(t)' = Column(t)
        /\ Column(s)' = Column(s) \cup {i} /\ i \notin Column(s)
    BY <1>3, <1>5 DEF Column
  <1>7. \A t : t # s => Page(t, 0)' = Page(t, 0)
    BY <1>6 DEF Page, Rank
  <1>8. Page(s, 0)'.issues \subseteq Page(s, 0).issues \cup {i}
    <2> DEFINE C == Column(s)
               D == Column(s)'
               A(j) == {x \in C : x > j}
               B(j) == {x \in D : x > j}
    <2>1. /\ Page(s, 0)'.issues = {j \in D : Cardinality(B(j)) \in 0..(0 + PageSize - 1)}
          /\ Page(s, 0).issues = {j \in C : Cardinality(A(j)) \in 0..(0 + PageSize - 1)}
      BY DEF Page, Rank
    <2>2. C \subseteq Issues /\ D = C \cup {i} /\ D \subseteq Issues
      BY <1>6, PageIs
    <2> HIDE DEF C, D
    <2>3. \A j : /\ Cardinality(A(j)) \in Nat /\ Cardinality(B(j)) \in Nat
                 /\ Cardinality(A(j)) <= Cardinality(B(j))
      <3> SUFFICES ASSUME NEW j
                   PROVE  /\ Cardinality(A(j)) \in Nat /\ Cardinality(B(j)) \in Nat
                          /\ Cardinality(A(j)) <= Cardinality(B(j))
        OBVIOUS
      <3>1. A(j) \subseteq B(j) /\ B(j) \subseteq Issues
        BY <2>2
      <3> HIDE DEF A, B
      <3> QED BY <3>1, IssueAssumption, FS_Subset, FS_CardinalityType
    <2> HIDE DEF A, B
    <2>4. PageSize \in Nat
      BY IssueAssumption
    <2>5. \A j \in C : Cardinality(B(j)) \in 0..(0 + PageSize - 1) => Cardinality(A(j)) \in 0..(0 + PageSize - 1)
      BY <2>3, <2>4
    <2> QED BY <2>1, <2>2, <2>5
  <1>9. ASSUME NEW b \in Boards, NEW t, RightAt(b, t) PROVE RightThen(b, t)
    <2>1. CASE t # s
      BY <1>3, <1>6, <1>7, <1>9, <2>1 DEF RightAt, RightThen
    <2>2. CASE t = s
      <3> DEFINE u == getBucket(b, s)
                 column == Column(s)
                 first == Page(s, 0).issues
                 pending == Pending(wire, s)
                 first2 == Page(s, 0)'.issues
      <3>1. /\ u \in Bucket /\ column \in SUBSET Issues /\ first \in SUBSET column /\ pending \in SUBSET Issues
            /\ i \notin column /\ i \notin pending /\ first2 \subseteq first \cup {i}
        BY <1>3, <1>6, <1>8, GetBucketIs, PageIs DEF Pending
      <3>2. Right(u, column, first, pending)
        BY <1>9, <2>2 DEF RightAt
      <3> HIDE DEF u, column, first, pending, first2
      <3>3. Right(u, column \cup {i}, first2, pending \cup {i})
        BY <3>1, <3>2, RightMore
      <3> QED BY <1>3, <1>6, <2>2, <3>3 DEF RightThen, u, column, first, pending, first2
    <2> QED BY <2>1, <2>2
  <1>10. list \in Query(Boards)
    BY DEF BoardTyped
  <1>11. ASSUME Idle(list), HasData(list), NEW t \in Paged PROVE RightThen(list.data[1], t)
    BY <1>1, <1>2, <1>4, <1>9, <1>10, <1>11, QueryIs DEF ListTold
  <1>12. ASSUME Back(list)
         PROVE  DOMAIN list.fetch[2] \subseteq Paged /\ \A t \in DOMAIN list.fetch[2] : RightThen(list.fetch[2], t)
    BY <1>1, <1>2, <1>4, <1>9, <1>10, <1>12, QueryIs DEF ListTold
  <1> QED BY <1>1, <1>11, <1>12

(* A page that load-more appends, the columns of a refetch, its landing.   *)
LEMMA PatchedKeeps ==
  ASSUME NEW V, NEW q \in Query(V), NEW v
  PROVE  /\ Idle(Patched(q, v)) <=> Idle(q)
         /\ HasData(Patched(q, v)) => HasData(q)
         /\ ~Patched(q, v).owed => ~q.owed
  <1>1. CASE HasData(q)
    <2>1. Patched(q, v) = [q EXCEPT !.data = <<v>>, !.stale = FALSE, !.owed = @ \/ Back(q)]
      BY <1>1 DEF Patched, Patch, SetData
    <2> QED BY <1>1, <2>1 DEF Query, Idle, HasData
  <1>2. CASE ~HasData(q)
    <2>1. Patched(q, v) = [q EXCEPT !.owed = @ \/ Back(q)]
      BY <1>2 DEF Patched, Patch
    <2> QED BY <1>2, <2>1 DEF Query, Idle, HasData
  <1> QED BY <1>1, <1>2

LEMMA MoreLandsTold ==
  ASSUME IssueInv, BoardTyped, NumberedOnce, WireInv, ListTold, NEW k \in Ops, MoreLands(k)
  PROVE  ListTold'
  <1> DEFINE s == op[k].status
             n == op[k].keep[1]
             page == op[k].keep[2]
             b == list.data[1]
             u == Extended(getBucket(b, s), page)
             v == setBucket(b, s, u)
  <1> SUFFICES ASSUME Clean', ~list'.owed, ~gap'
               PROVE  /\ Idle(list') /\ HasData(list') => \A t \in Paged : RightThen(list'.data[1], t)
                      /\ ~Back(list')
    BY ToldThen
  <1>1. /\ op[k].kind = "more" /\ \A j \in Ops : j # k => op'[j] = op[j]
        /\ s \in Paged /\ n \in Nat /\ page \in Bucket
        /\ HasData(list) => u \in Bucket
        /\ list' = Patched(list, v)
        /\ HasData(list) => v \in Boards
    BY MoreLandsTyped
  <1>2. /\ stored' = stored /\ wire' = wire /\ conn' = conn /\ ~gap /\ page = Page(s, n)
        /\ ~ \E m \in DOMAIN wire : wire[m].kind = "created"
    BY DEF MoreLands
  <1>3. list \in Query(Boards) /\ (HasData(list) => b \in Boards) /\ s \in Statuses
    BY <1>1, QueryIs DEF BoardTyped, Statuses
  <1>4. Clean
    BY <1>1, <1>2, SameOpsClean
  <1>5. \A t : Pending(wire, t) = {}
    BY <1>2 DEF Pending, Creates
  <1>6. page.issues \subseteq Column(s) /\ page.total = Cardinality(Column(s)) /\ Column(s) \subseteq Issues
    BY <1>1, <1>2, PageIs
  <1> DEFINE r == Patched(list, v)
  <1>7. /\ Idle(r) <=> Idle(list)
        /\ HasData(r) => HasData(list)
        /\ ~r.owed => ~list.owed
        /\ HasData(r) => r.data[1] = v
        /\ Back(r) => r.owed
    <2> HIDE DEF v
    <2> QED BY <1>1, <1>3, PatchedKeeps, PatchListIs
  <1>8. list' = r
    BY <1>1
  <1> HIDE DEF r
  <1>9. ASSUME Idle(list'), HasData(list'), NEW t \in Paged PROVE RightThen(list'.data[1], t)
    <2>1. Idle(list) /\ HasData(list) /\ ~list.owed /\ list'.data[1] = v
      BY <1>7, <1>8, <1>9
    <2>2. \A x \in Paged : RightAt(b, x)
      BY <1>2, <1>4, <2>1 DEF ListTold
    <2>3. u \in Bucket /\ b \in Boards
      BY <1>1, <1>3, <2>1
    <2> DEFINE w == getBucket(v, t)
    <2>4. w = IF t = s THEN u ELSE getBucket(b, t)
      <3> HIDE DEF u, b
      <3> QED BY GetSetIs
    <2>5. Right(w, Column(t), Page(t, 0).issues, Pending(wire, t))
      <3>1. CASE t # s
        BY <2>2, <2>4, <3>1 DEF RightAt
      <3>2. CASE t = s
        <4>1. Right(getBucket(b, s), Column(s), Page(s, 0).issues, Pending(wire, s))
          BY <1>1, <2>2 DEF RightAt
        <4>2. u.issues = getBucket(b, s).issues \cup page.issues /\ u.total = page.total
          BY DEF Extended
        <4>3. u.issues \subseteq Column(s) /\ Page(s, 0).issues \subseteq u.issues
          BY <1>5, <1>6, <4>1, <4>2 DEF Right
        <4> DEFINE column == Column(s)
                   first == Page(s, 0).issues
        <4>4. /\ column \in SUBSET Issues /\ u.issues \subseteq column /\ first \subseteq u.issues
              /\ u.total = Cardinality(column)
          BY <1>6, <4>2, <4>3
        <4> HIDE DEF column, first, u
        <4>5. Right(u, column, first, {})
          BY <4>4, RightPage
        <4> QED BY <1>5, <2>4, <3>2, <4>5 DEF column, first
      <3> QED BY <3>1, <3>2
    <2> HIDE DEF w
    <2>6. Right(w, Column(t)', Page(t, 0)'.issues, Pending(wire', t))
      BY <1>2, <2>5, ColumnsStay
    <2> QED BY <2>1, <2>6 DEF RightThen, w
  <1>10. ~Back(list')
    BY <1>7, <1>8
  <1> QED BY <1>9, <1>10

LEMMA ReadColumnTold ==
  ASSUME IssueInv, BoardTyped, NumberedOnce, WireInv, ListTold, NEW s \in Paged, ReadColumn(s)
  PROVE  ListTold'
  <1> DEFINE have == IF Sent(list) THEN <<>> ELSE list.fetch[2]
             p == Page(s, 0)
             v == setBucket(have, s, p)
  <1> SUFFICES ASSUME Clean', ~list'.owed, ~gap'
               PROVE  /\ ~Idle(list')
                      /\ Back(list') => DOMAIN list'.fetch[2] \subseteq Paged /\ \A t \in DOMAIN list'.fetch[2] : RightThen(list'.fetch[2], t)
    BY ToldThen
  <1>1. /\ op' = op /\ have \in Boards /\ s \notin DOMAIN have
        /\ list' = Answer(list, v) /\ v \in Boards /\ p \in Bucket
        /\ ~Sent(list) => Back(list)
    BY ReadColumnTyped
  <1>2. /\ stored' = stored /\ wire' = wire /\ conn' = conn /\ ~gap
        /\ ~ \E n \in DOMAIN wire : wire[n].kind = "created" /\ wire[n].issue \in Column(s) \ p.issues
    BY DEF ReadColumn
  <1>3. list \in Query(Boards) /\ s \in Statuses
    BY DEF BoardTyped, Statuses
  <1>4. Clean
    BY <1>1, <1>2, CleanIs DEF Clean, Calm
  <1>5. ~Idle(list') /\ list'.fetch[2] = v /\ list'.owed = list.owed
    <2> HIDE DEF v
    <2>1. list' = [list EXCEPT !.fetch = <<"back", v>>]
      BY <1>1 DEF Answer
    <2> QED BY <1>3, <2>1 DEF Query, Idle
  <1>6. DOMAIN have \subseteq Paged /\ \A t \in DOMAIN have : RightAt(have, t)
    <2>1. CASE Sent(list)
      BY <2>1, NothingRead
    <2>2. CASE ~Sent(list)
      BY <1>1, <1>2, <1>4, <1>5, <2>2 DEF ListTold
    <2> QED BY <2>1, <2>2
  <1>7. Right(p, Column(s), p.issues, Pending(wire, s))
    <2>1. p.issues \subseteq Column(s) /\ p.total = Cardinality(Column(s)) /\ Column(s) \subseteq Issues
      BY PageIs
    <2>2. Pending(wire, s) \subseteq p.issues
      <3> SUFFICES ASSUME NEW n \in DOMAIN wire, Creates(wire[n]), wire[n].status = s PROVE wire[n].issue \in p.issues
        BY DEF Pending
      <3>1. ~Overtaken(wire, n)
        BY <1>4 DEF Clean, OnlyCreates, Overtaken
      <3>2. HasIt(wire[n], stored)
        BY <3>1 DEF WireInv, CreatedTrue
      <3>3. wire[n].issue \in Column(s)
        BY <3>2 DEF HasIt, Column
      <3> QED BY <1>2, <3>3 DEF Creates
    <2> DEFINE column == Column(s)
               pending == Pending(wire, s)
    <2>3. column \in SUBSET Issues /\ p.issues \subseteq column /\ p.total = Cardinality(column) /\ pending \subseteq p.issues
      BY <2>1, <2>2
    <2> HIDE DEF column, pending, p
    <2>4. Right(p, column, p.issues, pending)
      BY <2>3, RightPage
    <2> QED BY <2>4 DEF column, pending
  <1>8. /\ DOMAIN v = DOMAIN have \cup {s}
        /\ \A t : getBucket(v, t) = IF t = s THEN p ELSE getBucket(have, t)
    <2> HIDE DEF p, have
    <2>1. DOMAIN setBucket(have, s, p) = DOMAIN have \cup {s}
      BY DEF setBucket
    <2> QED BY <2>1, GetSetIs
  <1>9. \A t \in DOMAIN v : RightAt(v, t)
    <2> SUFFICES ASSUME NEW t \in DOMAIN v PROVE RightAt(v, t)
      OBVIOUS
    <2> HIDE DEF v, have
    <2>1. CASE t = s
      <3>1. getBucket(v, t) = p
        BY <1>8, <2>1
      <3> QED BY <1>7, <2>1, <3>1 DEF RightAt
    <2>2. CASE t # s
      <3>1. getBucket(v, t) = getBucket(have, t) /\ RightAt(have, t)
        BY <1>6, <1>8, <2>2
      <3> QED BY <3>1 DEF RightAt
    <2> QED BY <2>1, <2>2
  <1>10. DOMAIN v \subseteq Paged
    BY <1>6, <1>8
  <1> HIDE DEF v
  <1>11. \A t : RightAt(v, t) <=> RightThen(v, t)
    BY <1>2, ColumnsStay DEF RightAt, RightThen
  <1> QED BY <1>5, <1>9, <1>10, <1>11

LEMMA ListLandsTold ==
  ASSUME BoardTyped, ListTold, ListLands
  PROVE  ListTold'
  <1> SUFFICES ASSUME Clean', ~list'.owed, ~gap'
               PROVE  /\ Idle(list') /\ HasData(list') => \A t \in Paged : RightThen(list'.data[1], t)
                      /\ ~Back(list')
    BY ToldThen
  <1>1. /\ Back(list) /\ DOMAIN list.fetch[2] = Paged /\ list' = Land(list)
        /\ UNCHANGED <<op, stored, wire, conn, gap>>
    BY DEF ListLands
  <1>2. list \in Query(Boards)
    BY DEF BoardTyped
  <1>3. list.fetch[2] \in Boards
    BY <1>1, <1>2, QueryIs
  <1>4. list'.data[1] = list.fetch[2] /\ list'.owed = list.owed /\ ~Back(list')
    BY <1>1, <1>2, <1>3, FetchIs
  <1>5. Clean
    BY <1>1, CleanIs DEF Clean, Calm
  <1>6. \A t \in Paged : RightAt(list.fetch[2], t)
    BY <1>1, <1>4, <1>5 DEF ListTold
  <1>7. \A b, t : RightAt(b, t) <=> RightThen(b, t)
    BY <1>1, ColumnsStay DEF RightAt, RightThen
  <1> QED BY <1>4, <1>6, <1>7

LEMMA DeliverTold ==
  ASSUME IssueInv, BoardTyped, NumberedOnce, WireInv, ListTold, Deliver
  PROVE  ListTold'
  <1>1. CASE wire[1].kind # "created"
    BY <1>1, DeliverTyped, BusyTold
  <1>2. CASE wire[1].kind = "created"
    <2> DEFINE i == wire[1].issue
               st == wire[1].status
               b == list.data[1]
               v == addIssueToBuckets(b, i, st)
               r == Patched(list, v)
    <2> SUFFICES ASSUME Clean', ~list'.owed, ~gap'
                 PROVE  /\ Idle(list') /\ HasData(list') => \A t \in Paged : RightThen(list'.data[1], t)
                        /\ ~Back(list')
      BY ToldThen
    <2>1. op' = op /\ wire[1] \in Event /\ list' = r /\ (HasData(list) => v \in Boards) /\ StillNumbered
      BY <1>2, DeliverTyped DEF TypedOn
    <2>2. stored' = stored /\ conn' = conn /\ gap' = gap
      BY DEF Deliver
    <2>3. list \in Query(Boards) /\ (HasData(list) => b \in Boards)
      BY QueryIs DEF BoardTyped
    <2>4. i \in Issues /\ st \in Statuses
      BY <1>2, <2>1 DEF Event
    <2>5. /\ OnlyCreates(wire) /\ HasIt(wire[1], stored)
          /\ \A s : Pending(wire', s) = Pending(wire, s) \ (IF st = s THEN {i} ELSE {})
          /\ i \in Pending(wire, st)
      BY <1>2, <2>1, CleanIs, DeliverWire DEF Creates
    <2>6. Clean
      BY <2>1, <2>2, <2>5, CleanIs DEF Clean, Calm
    <2>7. i \in Column(st)
      BY <2>5 DEF HasIt, Column
    <2>8. /\ Idle(r) <=> Idle(list)
          /\ HasData(r) => HasData(list)
          /\ ~r.owed => ~list.owed
          /\ HasData(r) => r.data[1] = v
          /\ Back(r) => r.owed
      <3> HIDE DEF v
      <3> QED BY <2>1, <2>3, PatchedKeeps, PatchListIs
    <2> HIDE DEF r
    <2>9. ASSUME Idle(list'), HasData(list'), NEW t \in Paged PROVE RightThen(list'.data[1], t)
      <3>1. Idle(list) /\ HasData(list) /\ ~list.owed /\ list'.data[1] = v /\ b \in Boards
        BY <2>1, <2>3, <2>8, <2>9
      <3>2. RightAt(b, t)
        BY <2>2, <2>6, <2>9, <3>1 DEF ListTold
      <3> DEFINE old == getBucket(b, t)
                 new == getBucket(v, t)
                 column == Column(t)
                 first == Page(t, 0).issues
                 pending == Pending(wire, t)
      <3>3. old \in Bucket /\ column \in SUBSET Issues /\ first \in SUBSET column /\ pending \in SUBSET Issues
        BY <3>1, GetBucketIs, PageIs DEF Pending
      <3>4. Right(old, column, first, pending)
        BY <3>2 DEF RightAt
      <3>5. new = IF t = st /\ i \notin old.issues THEN Put(old, i) ELSE old
        <4> HIDE DEF i, st, b
        <4>1. CASE i \in getBucket(b, st).issues
          BY <4>1 DEF addIssueToBuckets
        <4>2. CASE i \notin getBucket(b, st).issues
          <5> DEFINE w == Put(getBucket(b, st), i)
          <5>1. v = setBucket(b, st, w)
            BY <4>2 DEF addIssueToBuckets
          <5> HIDE DEF w
          <5>2. getBucket(setBucket(b, st, w), t) = IF t = st THEN w ELSE getBucket(b, t)
            BY GetSetIs
          <5>3. new = IF t = st THEN w ELSE old
            BY <5>1, <5>2
          <5> QED BY <4>2, <5>3 DEF w
        <4> QED BY <4>1, <4>2
      <3>6. Pending(wire', t) = IF t = st THEN pending \ {i} ELSE pending
        BY <2>5
      <3>7. t = st => i \in pending /\ i \in column
        BY <2>5, <2>7
      <3>8. Column(t)' = column /\ Page(t, 0)'.issues = first
        BY <2>2, ColumnsStay
      <3> HIDE DEF old, new, column, first, pending
      <3>9. Right(new, column, first, Pending(wire', t))
        <4>1. CASE t # st
          BY <3>4, <3>5, <3>6, <4>1
        <4>2. CASE t = st
          <5>1. Right(IF i \in old.issues THEN old ELSE Put(old, i), column, first, pending \ {i})
            <6> HIDE DEF i
            <6> QED BY <3>3, <3>4, <3>7, <4>2, RightPut
          <5>2. new = IF i \in old.issues THEN old ELSE Put(old, i)
            BY <3>5, <4>2
          <5> QED BY <3>6, <4>2, <5>1, <5>2
        <4> QED BY <4>1, <4>2
      <3>10. Right(new, Column(t)', Page(t, 0)'.issues, Pending(wire', t))
        BY <3>8, <3>9
      <3> QED BY <3>1, <3>10 DEF RightThen, new
    <2>10. ~Back(list')
      BY <2>1, <2>8
    <2> QED BY <2>9, <2>10
  <1> QED BY <1>1, <1>2

LEMMA ListStep ==
  ASSUME IssueInv, BoardTyped, NumberedOnce, WireInv, ListTold, [Next]_vars
  PROVE  ListTold'
  <1>1. CASE Deliver
    BY <1>1, DeliverTold
  <1>2. CASE ListLands
    BY <1>2, ListLandsTold
  <1>3. CASE Reconnect
    <2>1. Busy(list')
      BY <1>3, InvalidateIs DEF Reconnect, BoardTyped
    <2> QED BY <2>1, BusyTold
  <1>4. CASE Drop
    <2>1. conn' = "down"
      BY <1>4 DEF Drop
    <2> QED BY <2>1, CleanIs, ToldThen
  <1>5. CASE Open \/ FetchDetail \/ UNCHANGED vars
    <2>1. UNCHANGED <<list, op, stored, wire, conn, gap>>
      BY <1>5 DEF Open, FetchDetail, vars
    <2>2. Clean' => Clean
      BY <2>1, CleanIs DEF Clean, Calm
    <2> QED BY <2>1, <2>2, StillTold
  <1>6. CASE \E s \in Paged : ReadColumn(s)
    BY <1>6, ReadColumnTold
  <1>7. CASE \E k \in Ops : Settle(k) \/ MoreLands(k) \/ Commit(k) \/ Refuse(k) \/ AnswerMore(k)
    BY <1>7, SettleTyped, BusyTold, MoreLandsTold, CommitTyped, WriteTold, RefuseTold, AskTold
  <1>8. CASE \E k \in Ops, i \in Issues : Delete(k, i)
    BY <1>8, DeleteTyped, WriteTold
  <1>9. CASE \E k \in Ops, s \in Paged : LoadMore(k, s) \/ \E i \in Issues : Create(k, i, s)
    BY <1>9, AskTold, CreateTyped, WriteTold
  <1>10. CASE \E k \in Ops, s \in Statuses, i \in Issues : Update(k, i, s) \/ \E j \in Issues : Batch(k, i, j, s)
    BY <1>10, UpdateTyped, BatchTyped, WriteTold
  <1>11. CASE \E k \in Ops, kind \in Kinds, s \in Statuses, i \in Issues : OtherActs(k, kind, {i}, s)
    BY <1>11, OtherActsTold
  <1> QED BY <1>1, <1>2, <1>3, <1>4, <1>5, <1>6, <1>7, <1>8, <1>9, <1>10, <1>11 DEF Next

(* The invariant of the board: as long as no write of this user is under   *)
(* way and only new issues are still to be announced, what the list shows  *)
(* and what a refetch has read of it so far is the server's, but for those *)
(* issues.                                                                 *)
BoardInv == IssueInv /\ BoardTyped /\ NumberedOnce /\ WireInv /\ ListTold

THEOREM BoardInvariant == Spec => []BoardInv
  <1>1. Init => BoardInv
    <2> SUFFICES ASSUME Init PROVE BoardInv
      OBVIOUS
    <2>1. list = Refetch(Absent)
      BY DEF Init
    <2>2. Sent(list)
      BY <2>1 DEF Refetch, Absent, Sent
    <2>3. IssueInv /\ BoardTyped /\ NumberedOnce /\ WireInv
      BY IssueInit, TypedInit, WireInit
    <2>4. ~Idle(list) /\ ~Back(list)
      BY <2>2, <2>3, QueryIs DEF BoardTyped
    <2> QED BY <2>3, <2>4 DEF BoardInv, ListTold
  <1>2. BoardInv /\ [Next]_vars => BoardInv'
    BY IssueStep, TypedStep, WireStep, ListStep DEF BoardInv, TypedOn
  <1> QED BY <1>1, <1>2, PTL DEF Spec

(* BoardConverges of the run: once nothing is under way every column shows *)
(* only issues that are in it, the first page of them at least, and their  *)
(* number (cache-helpers.ts, ws-updaters.ts, mutations.ts, queries.ts),    *)
(* for any number of issues, columns and operations and any page size.     *)
THEOREM ColumnsConverge == Spec => []BoardConverges
  <1>1. BoardInv => BoardConverges
    <2> SUFFICES ASSUME BoardInv, Quiet, HasData(list), ~list.owed, ~gap, NEW s \in Paged
                 PROVE  LET bucket == getBucket(list.data[1], s)
                        IN  /\ Page(s, 0).issues \subseteq bucket.issues /\ bucket.issues \subseteq Column(s)
                            /\ bucket.total = Cardinality(Column(s))
      BY DEF BoardConverges
    <2>1. Idle(list) /\ Clean
      <3>1. Calm
        BY DEF Quiet, Calm, BoardInv, IssueInv, Typed, OpsTyped, IsOp
      <3> QED BY <3>1 DEF Quiet, Clean, OnlyCreates
    <2>2. RightAt(list.data[1], s)
      BY <2>1 DEF BoardInv, ListTold
    <2>3. Pending(wire, s) = {}
      BY DEF Quiet, Pending
    <2> DEFINE bucket == getBucket(list.data[1], s)
    <2>4. bucket \in Bucket
      BY QueryIs, GetBucketIs DEF BoardInv, BoardTyped
    <2>5. Cardinality({}) = 0 /\ {} \ bucket.issues = {}
      BY FS_EmptySet
    <2> HIDE DEF bucket
    <2>6. Right(bucket, Column(s), Page(s, 0).issues, {})
      BY <2>2, <2>3 DEF RightAt, bucket
    <2>7. bucket.total = Cardinality(Column(s))
      BY <2>4, <2>5, <2>6 DEF Right, Bucket
    <2> QED BY <2>6, <2>7 DEF Right, bucket
  <1> QED BY <1>1, BoardInvariant, PTL
=============================================================================
