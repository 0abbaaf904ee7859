-------------------------- MODULE DesktopTabsProofs -------------------------
(***************************************************************************)
(* The tabs of the desktop client, for any number of workspaces, pages and *)
(* tabs, whether hidden tabs navigate or not: the store stays sound, with  *)
(* pinned tabs first, a restart keeps it, and a push shows what was pushed.*)
(*                                                                         *)
(* First what the operations make of a sequence of tabs, then of a group,  *)
(* of a store, and what a start makes of a store it finds; TabsInv is the  *)
(* inductive invariant, and every property follows from it.                *)
(***************************************************************************)
EXTENDS DesktopTabs, FunctionTheorems, FiniteSetTheorems, WellFoundedInduction, TLAPS

-----------------------------------------------------------------------------
(* Least elements, and the two ends of a drag.                             *)
LEMMA LeastIs ==
  ASSUME NEW S \in SUBSET Nat, S # {}
  PROVE  Min(S) \in S /\ \A n \in S : Min(S) <= n
  <1>1. \E x \in S : \A y \in S : x <= y
    <2>1. PICK x \in S : \A y \in S : ~ (<<y, x>> \in OpToRel(<, Nat))
      BY NatLessThanWellFounded, WFMin
    <2>2. \A y \in S : ~ (y < x)
      BY <2>1 DEF OpToRel
    <2> QED BY <2>2
  <1> QED BY <1>1 DEF Min

LEMMA LesserIs ==
  ASSUME NEW a \in Nat, NEW b \in Nat
  PROVE  Min({a, b}) = (IF a <= b THEN a ELSE b) /\ Max({a, b}) = (IF a <= b THEN b ELSE a)
  <1>1. Min({a, b}) = IF a <= b THEN a ELSE b
    <2>1. \E x \in {a, b} : \A y \in {a, b} : x <= y
      OBVIOUS
    <2>2. Min({a, b}) \in {a, b} /\ \A y \in {a, b} : Min({a, b}) <= y
      BY <2>1 DEF Min
    <2> QED BY <2>2
  <1>2. Max({a, b}) = IF a <= b THEN b ELSE a
    <2>1. \E x \in {a, b} : \A y \in {a, b} : x >= y
      OBVIOUS
    <2>2. Max({a, b}) \in {a, b} /\ \A y \in {a, b} : Max({a, b}) >= y
      BY <2>1 DEF Max
    <2> QED BY <2>2
  <1> QED BY <1>1, <1>2

-----------------------------------------------------------------------------
(* Sequences, position by position.                                        *)
LEMMA AppendIs ==
  ASSUME NEW T, NEW q \in Seq(T), NEW x \in T
  PROVE  /\ Append(q, x) \in Seq(T) /\ DOMAIN Append(q, x) = 1..(Len(q) + 1)
         /\ \A k \in 1..Len(q) : Append(q, x)[k] = q[k]
         /\ Append(q, x)[Len(q) + 1] = x
  OBVIOUS

LEMMA ConcatAt ==
  ASSUME NEW T, NEW q \in Seq(T), NEW r \in Seq(T)
  PROVE  \A k \in 1..(Len(q) + Len(r)) : (q \o r)[k] = IF k <= Len(q) THEN q[k] ELSE r[k - Len(q)]
  OBVIOUS

LEMMA RemoveAtIs ==
  ASSUME NEW T, NEW q \in Seq(T), NEW n \in DOMAIN q
  PROVE  /\ RemoveAt(q, n) \in Seq(T) /\ Len(RemoveAt(q, n)) = Len(q) - 1
         /\ DOMAIN RemoveAt(q, n) = 1..(Len(q) - 1)
         /\ \A k \in 1..(Len(q) - 1) : RemoveAt(q, n)[k] = IF k < n THEN q[k] ELSE q[k + 1]
  <1> DEFINE a == SubSeq(q, 1, n - 1)
             b == SubSeq(q, n + 1, Len(q))
  <1>1. n \in 1..Len(q) /\ Len(q) \in Nat
    OBVIOUS
  <1>2. /\ a \in Seq(T) /\ Len(a) = n - 1 /\ \A k \in 1..(n - 1) : a[k] = q[k]
    BY <1>1
  <1>3. /\ b \in Seq(T) /\ Len(b) = Len(q) - n /\ \A k \in 1..(Len(q) - n) : b[k] = q[k + n]
    BY <1>1
  <1>4. RemoveAt(q, n) = a \o b
    BY DEF RemoveAt
  <1> HIDE DEF a, b
  <1>5. a \o b \in Seq(T) /\ Len(a \o b) = Len(q) - 1
    BY <1>1, <1>2, <1>3
  <1>6. ASSUME NEW k \in 1..(Len(q) - 1) PROVE (a \o b)[k] = IF k < n THEN q[k] ELSE q[k + 1]
    <2>1. CASE k < n
      BY <1>1, <1>2, <1>3, <2>1
    <2>2. CASE ~(k < n)
      <3>1. k - (n - 1) \in 1..(Len(q) - n)
        BY <1>1, <2>2
      <3>2. (a \o b)[k] = b[k - (n - 1)]
        <4>1. k \in 1..((n - 1) + (Len(q) - n)) /\ ~(k <= n - 1)
          BY <1>1, <2>2
        <4>2. Len(a) = n - 1 /\ Len(b) = Len(q) - n /\ a \in Seq(T) /\ b \in Seq(T)
          BY <1>2, <1>3
        <4> QED BY <4>1, <4>2, ConcatAt
      <3>3. b[k - (n - 1)] = q[(k - (n - 1)) + n] /\ (k - (n - 1)) + n = k + 1
        BY <1>1, <1>3, <3>1
      <3> QED BY <2>2, <3>2, <3>3
    <2> QED BY <2>1, <2>2
  <1> QED BY <1>1, <1>4, <1>5, <1>6

LEMMA InsertAtIs ==
  ASSUME NEW T, NEW q \in Seq(T), NEW x \in T, NEW n \in 1..(Len(q) + 1)
  PROVE  /\ InsertAt(q, n, x) \in Seq(T) /\ Len(InsertAt(q, n, x)) = Len(q) + 1
         /\ DOMAIN InsertAt(q, n, x) = 1..(Len(q) + 1)
         /\ \A k \in 1..(Len(q) + 1) :
              InsertAt(q, n, x)[k] = IF k < n THEN q[k] ELSE IF k = n THEN x ELSE q[k - 1]
  <1> DEFINE a == SubSeq(q, 1, n - 1)
             b == SubSeq(q, n, Len(q))
             c == Append(a, x)
  <1>1. n \in Nat /\ n > 0 /\ n <= Len(q) + 1 /\ Len(q) \in Nat
    OBVIOUS
  <1>2. a \in Seq(T) /\ Len(a) = n - 1 /\ \A k \in 1..(n - 1) : a[k] = q[k]
    BY <1>1
  <1>3. b \in Seq(T) /\ Len(b) = Len(q) + 1 - n /\ \A k \in 1..(Len(q) + 1 - n) : b[k] = q[k + n - 1]
    BY <1>1
  <1>4. InsertAt(q, n, x) = (a \o <<x>>) \o b
    BY DEF InsertAt
  <1> HIDE DEF a, b
  <1>5. a \o <<x>> = c /\ c \in Seq(T) /\ Len(c) = n /\ c[n] = x /\ \A k \in 1..(n - 1) : c[k] = q[k]
    BY <1>1, <1>2
  <1> HIDE DEF c
  <1>6. c \o b \in Seq(T) /\ Len(c \o b) = Len(q) + 1
    <2>1. c \in Seq(T) /\ b \in Seq(T) /\ Len(c) + Len(b) = Len(q) + 1
      BY <1>1, <1>3, <1>5
    <2> QED BY <2>1
  <1>9. DOMAIN (c \o b) = 1..(Len(q) + 1)
    BY <1>6
  <1>7. ASSUME NEW k \in 1..(Len(q) + 1)
        PROVE  (c \o b)[k] = IF k < n THEN q[k] ELSE IF k = n THEN x ELSE q[k - 1]
    <2>1. CASE k <= n
      <3>1. (c \o b)[k] = c[k] /\ k \in 1..n
        BY <1>1, <1>3, <1>5, <2>1
      <3> QED BY <1>1, <1>5, <2>1, <3>1
    <2>2. CASE ~(k <= n)
      <3>1. (c \o b)[k] = b[k - n] /\ k - n \in 1..(Len(q) + 1 - n)
        BY <1>1, <1>3, <1>5, <2>2
      <3> QED BY <1>1, <1>3, <2>2, <3>1
    <2> QED BY <2>1, <2>2
  <1>8. InsertAt(q, n, x) = c \o b
    BY <1>4, <1>5
  <1> QED BY <1>6, <1>7, <1>8, <1>9

-----------------------------------------------------------------------------
(* The positions in S are counted without a gap: the tabs that Filter      *)
(* keeps are those at S, each once, in order.                              *)
LEMMA CountIs ==
  ASSUME NEW n \in Nat
  PROVE  IsFiniteSet(1..n) /\ Cardinality(1..n) = n
  <1>1. 1 \in Int /\ n \in Int
    OBVIOUS
  <1>2. IsFiniteSet(1..n) /\ Cardinality(1..n) = IF 1 > n THEN 0 ELSE n - 1 + 1
    BY <1>1, FS_Interval
  <1> QED BY <1>2

LEMMA RankIs ==
  ASSUME NEW S \in SUBSET Nat, IsFiniteSet(S)
  PROVE  /\ Cardinality(S) \in Nat
         /\ \A n \in S : Rank(S, n) \in 1..Cardinality(S)
         /\ \A m, n \in S : m < n => Rank(S, m) < Rank(S, n)
         /\ \A k \in 1..Cardinality(S) : \E n \in S : Rank(S, n) = k
  <1> DEFINE U(n) == {m \in S : m <= n}
             c == Cardinality(S)
  <1>1. \A n : IsFiniteSet(U(n)) /\ Cardinality(U(n)) \in Nat /\ Cardinality(U(n)) <= c /\ c \in Nat
    BY FS_Subset, FS_CardinalityType
  <1>2. \A n \in S : Rank(S, n) \in 1..c
    <2> SUFFICES ASSUME NEW n \in S PROVE Cardinality(U(n)) \in 1..c
      BY DEF Rank
    <2>1. n \in U(n)
      OBVIOUS
    <2>2. Cardinality(U(n)) # 0
      BY <1>1, <2>1, FS_EmptySet
    <2> QED BY <1>1, <2>2
  <1>3. ASSUME NEW m \in S, NEW n \in S, m < n PROVE Rank(S, m) < Rank(S, n)
    <2>0. m \in Nat /\ n \in Nat /\ \A x \in S : x \in Nat
      OBVIOUS
    <2>1. U(m) \subseteq U(n) /\ n \in U(n) /\ n \notin U(m)
      <3>1. \A x \in S : x <= m => x <= n
        BY <1>3, <2>0
      <3>2. U(m) \subseteq U(n)
        BY <3>1
      <3>3. n <= n /\ ~(n <= m)
        BY <1>3, <2>0
      <3> QED BY <3>2, <3>3
    <2>2. Cardinality(U(m)) <= Cardinality(U(n)) /\ Cardinality(U(m)) # Cardinality(U(n))
      BY <1>1, <2>1, FS_Subset
    <2> QED BY <1>1, <2>2 DEF Rank
  <1>4. \A k \in 1..c : \E n \in S : Rank(S, n) = k
    <2> DEFINE r == [n \in S |-> Rank(S, n)]
    <2>1. r \in [S -> 1..c]
      BY <1>2
    <2>2. \A m, n \in S : r[m] = r[n] => m = n
      <3> SUFFICES ASSUME NEW m \in S, NEW n \in S, r[m] = r[n] PROVE m = n
        OBVIOUS
      <3>1. m \in Nat /\ n \in Nat /\ Rank(S, m) \in Nat /\ Rank(S, m) = Rank(S, n)
        BY <1>1, <1>2
      <3>2. ~(m < n) /\ ~(n < m)
        BY <1>1, <1>2, <1>3, <3>1
      <3> QED BY <3>1, <3>2
    <2>3. r \in Injection(S, 1..c)
      BY <2>1, <2>2 DEF Injection, IsInjective
    <2>4. IsFiniteSet(1..c) /\ Cardinality(1..c) = c
      BY <1>1, CountIs
    <2>5. r \in Surjection(S, 1..c)
      BY <2>3, <2>4, FS_Injection
    <2> QED BY <2>5 DEF Surjection
  <1> QED BY <1>1, <1>2, <1>3, <1>4

LEMMA FilterIs ==
  ASSUME NEW T, NEW q \in Seq(T), NEW S \in SUBSET DOMAIN q
  PROVE  LET c == Cardinality(S)
             r == Filter(q, S)
         IN  /\ c \in Nat /\ r \in Seq(T) /\ Len(r) = c /\ DOMAIN r = 1..c
             /\ \E f \in [1..c -> S] :
                  /\ \A k \in 1..c : r[k] = q[f[k]]
                  /\ \A j, k \in 1..c : j < k => f[j] < f[k]
                  /\ \A n \in S : \E k \in 1..c : f[k] = n
  <1> DEFINE c == Cardinality(S)
             r == Filter(q, S)
             f == [k \in 1..c |-> CHOOSE n \in S : Rank(S, n) = k]
  <1>0. DOMAIN q = 1..Len(q) /\ Len(q) \in Nat
    OBVIOUS
  <1>1. S \in SUBSET Nat /\ IsFiniteSet(S)
    <2>1. IsFiniteSet(DOMAIN q)
      BY <1>0, CountIs
    <2> QED BY <1>0, <2>1, FS_Subset
  <1>2. c \in Nat /\ \A k \in 1..c : f[k] \in S /\ Rank(S, f[k]) = k
    BY <1>1, RankIs
  <1>3. r = [k \in 1..c |-> q[f[k]]]
    BY DEF Filter
  <1> HIDE DEF f, c, r
  <1>4. f \in [1..c -> S]
    BY <1>2 DEF f
  <1>5. r \in [1..c -> T]
    BY <1>0, <1>2, <1>3
  <1>6. r \in Seq(T) /\ Len(r) = c /\ DOMAIN r = 1..c
    BY <1>2, <1>5
  <1>7. ASSUME NEW j \in 1..c, NEW k \in 1..c, j < k PROVE f[j] < f[k]
    <2>1. f[j] \in Nat /\ f[k] \in Nat
      BY <1>1, <1>2
    <2>2. ~(f[k] < f[j]) /\ f[k] # f[j]
      BY <1>1, <1>2, <1>7, RankIs
    <2> QED BY <2>1, <2>2
  <1>8. ASSUME NEW n \in S PROVE \E k \in 1..c : f[k] = n
    <2>1. Rank(S, n) \in 1..c
      BY <1>1, RankIs DEF c
    <2>2. f[Rank(S, n)] \in S /\ Rank(S, f[Rank(S, n)]) = Rank(S, n)
      BY <1>2, <2>1
    <2>3. ~(f[Rank(S, n)] < n) /\ ~(n < f[Rank(S, n)])
      BY <1>1, <2>1, <2>2, RankIs
    <2>4. f[Rank(S, n)] = n
      BY <1>1, <2>2, <2>3
    <2> QED BY <2>1, <2>4
  <1> QED BY <1>2, <1>3, <1>4, <1>6, <1>7, <1>8 DEF c, r

-----------------------------------------------------------------------------
(* The tabs of one group.  An id beyond the bound is None.                 *)
AnyId == Ids \cup {None}
AnyPath == Paths \cup {Root}
TabRow == [id : AnyId, path : AnyPath, pinned : BOOLEAN]

Unique(tabs) == \A n, m \in DOMAIN tabs : tabs[n].id = tabs[m].id => n = m
PinSorted(tabs) == \A n, m \in DOMAIN tabs : n < m /\ tabs[m].pinned => tabs[n].pinned

Listed(tabs) == tabs \in Seq(TabRow) /\ Unique(tabs)
TabsOK(tabs) == Listed(tabs) /\ PinSorted(tabs)

LEMMA MakeTabIs ==
  ASSUME NEW i \in AnyId, NEW p \in AnyPath
  PROVE  /\ MakeTab(i, p) \in TabRow
         /\ MakeTab(i, p).id = i /\ MakeTab(i, p).path = p /\ ~MakeTab(i, p).pinned
  BY DEF MakeTab, TabRow

LEMMA BoundaryIs ==
  ASSUME NEW tabs, TabsOK(tabs)
  PROVE  /\ PinnedBoundary(tabs) \in 0..Len(tabs)
         /\ \A n \in DOMAIN tabs : tabs[n].pinned <=> n <= PinnedBoundary(tabs)
  <1> DEFINE U == {n \in DOMAIN tabs : ~tabs[n].pinned}
  <1>1. DOMAIN tabs = 1..Len(tabs) /\ Len(tabs) \in Nat
    BY DEF TabsOK, Listed
  <1>2. CASE U = {}
    <2>1. PinnedBoundary(tabs) = Len(tabs)
      BY <1>2 DEF PinnedBoundary
    <2>2. \A n \in DOMAIN tabs : tabs[n].pinned
      BY <1>2
    <2> QED BY <1>1, <2>1, <2>2
  <1>3. CASE U # {}
    <2>1. U \in SUBSET Nat
      BY <1>1
    <2>2. PinnedBoundary(tabs) = Min(U) - 1
      BY <1>3 DEF PinnedBoundary
    <2>3. Min(U) \in U /\ \A n \in U : Min(U) <= n
      BY <1>3, <2>1, LeastIs
    <2> DEFINE b == Min(U)
    <2> HIDE DEF b
    <2>4. b \in DOMAIN tabs /\ ~tabs[b].pinned
      BY <2>3 DEF b
    <2>5. ASSUME NEW n \in DOMAIN tabs PROVE tabs[n].pinned <=> n <= b - 1
      <3>1. ~tabs[n].pinned => b <= n
        BY <2>3 DEF b
      <3>2. b < n => ~tabs[n].pinned
        BY <2>4 DEF TabsOK, PinSorted
      <3>3. b = n => ~tabs[n].pinned
        BY <2>4
      <3> QED BY <1>1, <2>4, <3>1, <3>2, <3>3
    <2> QED BY <1>1, <2>2, <2>4, <2>5 DEF b
  <1> QED BY <1>2, <1>3

LEMMA OneTab ==
  ASSUME NEW i \in AnyId, NEW p \in AnyPath
  PROVE  LET r == <<MakeTab(i, p)>>
         IN  TabsOK(r) /\ TabIds(r) = {i} /\ Len(r) = 1 /\ r[1] = MakeTab(i, p)
  <1> DEFINE x == MakeTab(i, p)
             r == <<x>>
  <1>1. x \in TabRow /\ x.id = i
    BY MakeTabIs
  <1> HIDE DEF x
  <1>2. r \in Seq(TabRow) /\ DOMAIN r = {1} /\ r[1] = x /\ Len(r) = 1
    BY <1>1
  <1> HIDE DEF r
  <1>3. TabsOK(r) /\ TabIds(r) = {i}
    BY <1>1, <1>2 DEF TabsOK, Listed, Unique, PinSorted, TabIds
  <1> QED BY <1>2, <1>3 DEF r, x

LEMMA NewTab ==
  ASSUME NEW tabs, TabsOK(tabs), NEW i \in AnyId \ TabIds(tabs), NEW p \in AnyPath
  PROVE  LET r == Append(tabs, MakeTab(i, p))
         IN  /\ TabsOK(r) /\ TabIds(r) = TabIds(tabs) \cup {i}
             /\ Len(r) = Len(tabs) + 1 /\ r[Len(tabs) + 1] = MakeTab(i, p)
             /\ \A n \in DOMAIN tabs : n \in DOMAIN r /\ r[n] = tabs[n]
  <1> DEFINE x == MakeTab(i, p)
             r == Append(tabs, x)
             L == Len(tabs)
  <1>1. x \in TabRow /\ x.id = i /\ ~x.pinned
    BY MakeTabIs
  <1> HIDE DEF x
  <1>2. tabs \in Seq(TabRow) /\ Unique(tabs) /\ PinSorted(tabs)
    BY DEF TabsOK, Listed
  <1>3. /\ r \in Seq(TabRow) /\ DOMAIN r = 1..(L + 1) /\ L \in Nat /\ DOMAIN tabs = 1..L
        /\ \A k \in 1..L : r[k] = tabs[k]
        /\ r[L + 1] = x /\ Len(r) = L + 1
    BY <1>1, <1>2, AppendIs
  <1> HIDE DEF r, L
  <1>4. \A k \in 1..L : tabs[k].id # i
    BY <1>3 DEF TabIds
  <1>5. Unique(r)
    <2> SUFFICES ASSUME NEW n \in DOMAIN r, NEW m \in DOMAIN r, r[n].id = r[m].id PROVE n = m
      BY DEF Unique
    <2>1. CASE n \in 1..L /\ m \in 1..L
      BY <1>2, <1>3, <2>1 DEF Unique
    <2>2. CASE n \notin 1..L \/ m \notin 1..L
      BY <1>1, <1>3, <1>4, <2>2
    <2> QED BY <2>1, <2>2
  <1>6. PinSorted(r)
    <2> SUFFICES ASSUME NEW n \in DOMAIN r, NEW m \in DOMAIN r, n < m, r[m].pinned PROVE r[n].pinned
      BY DEF PinSorted
    <2>1. n \in 1..L /\ m \in 1..L
      BY <1>1, <1>3
    <2> QED BY <1>2, <1>3, <2>1 DEF PinSorted
  <1>7. TabIds(r) = TabIds(tabs) \cup {i}
    BY <1>1, <1>3 DEF TabIds
  <1> QED BY <1>3, <1>5, <1>6, <1>7 DEF TabsOK, Listed, r, x, L

LEMMA TabGone ==
  ASSUME NEW tabs, TabsOK(tabs), NEW n \in DOMAIN tabs
  PROVE  LET r == RemoveAt(tabs, n)
         IN  TabsOK(r) /\ TabIds(r) = TabIds(tabs) \ {tabs[n].id} /\ Len(r) = Len(tabs) - 1
  <1> DEFINE r == RemoveAt(tabs, n)
             L == Len(tabs)
  <1>1. tabs \in Seq(TabRow) /\ Unique(tabs) /\ PinSorted(tabs)
    BY DEF TabsOK, Listed
  <1>2. /\ r \in Seq(TabRow) /\ DOMAIN r = 1..(L - 1) /\ Len(r) = L - 1
        /\ \A k \in 1..(L - 1) : r[k] = IF k < n THEN tabs[k] ELSE tabs[k + 1]
        /\ DOMAIN tabs = 1..L /\ L \in Nat /\ n \in 1..L
    BY <1>1, RemoveAtIs
  <1> HIDE DEF r, L
  <1> DEFINE at(k) == IF k < n THEN k ELSE k + 1
  <1>3. \A k \in DOMAIN r : at(k) \in DOMAIN tabs /\ at(k) # n /\ r[k] = tabs[at(k)]
    BY <1>2
  <1>4. \A j, k \in DOMAIN r : (at(j) = at(k) => j = k) /\ (j < k => at(j) < at(k))
    BY <1>2
  <1>5. \A m \in DOMAIN tabs : m # n => \E k \in DOMAIN r : at(k) = m
    <2> SUFFICES ASSUME NEW m \in DOMAIN tabs, m # n PROVE \E k \in DOMAIN r : at(k) = m
      OBVIOUS
    <2>1. CASE m < n
      <3>1. m \in DOMAIN r /\ at(m) = m
        BY <1>2, <2>1
      <3> QED BY <3>1
    <2>2. CASE ~(m < n)
      <3>1. m - 1 \in DOMAIN r /\ at(m - 1) = m
        BY <1>2, <2>2
      <3> QED BY <3>1
    <2> QED BY <2>1, <2>2
  <1> HIDE DEF at
  <1>6. Unique(r)
    BY <1>1, <1>3, <1>4 DEF Unique
  <1>7. PinSorted(r)
    <2> SUFFICES ASSUME NEW j \in DOMAIN r, NEW k \in DOMAIN r, j < k, r[k].pinned PROVE r[j].pinned
      BY DEF PinSorted
    <2>1. /\ at(j) \in DOMAIN tabs /\ at(k) \in DOMAIN tabs /\ at(j) < at(k)
          /\ r[k] = tabs[at(k)] /\ r[j] = tabs[at(j)]
      BY <1>3, <1>4
    <2> QED BY <1>1, <2>1 DEF PinSorted
  <1>8. TabIds(r) = TabIds(tabs) \ {tabs[n].id}
    <2>1. ASSUME NEW x \in TabIds(r) PROVE x \in TabIds(tabs) /\ x # tabs[n].id
      <3>1. PICK k \in DOMAIN r : x = r[k].id
        BY <2>1 DEF TabIds
      <3> QED BY <1>1, <1>3, <3>1 DEF TabIds, Unique
    <2>2. ASSUME NEW x \in TabIds(tabs), x # tabs[n].id PROVE x \in TabIds(r)
      <3>1. PICK m \in DOMAIN tabs : x = tabs[m].id /\ m # n
        BY <2>2 DEF TabIds
      <3>2. PICK k \in DOMAIN r : at(k) = m
        BY <1>5, <3>1
      <3> QED BY <1>3, <3>1, <3>2 DEF TabIds
    <2> QED BY <2>1, <2>2
  <1> QED BY <1>2, <1>6, <1>7, <1>8 DEF TabsOK, Listed, r, L

(* A tab put between the pinned and the others, or among its like.         *)
LEMMA TabPut ==
  ASSUME NEW tabs, TabsOK(tabs), NEW t \in TabRow, t.id \notin TabIds(tabs),
         NEW n \in 1..(Len(tabs) + 1),
         t.pinned => n <= PinnedBoundary(tabs) + 1, ~t.pinned => n > PinnedBoundary(tabs)
  PROVE  LET r == InsertAt(tabs, n, t)
         IN  TabsOK(r) /\ TabIds(r) = TabIds(tabs) \cup {t.id} /\ Len(r) = Len(tabs) + 1
  <1> DEFINE r == InsertAt(tabs, n, t)
             L == Len(tabs)
             b == PinnedBoundary(tabs)
  <1>1. tabs \in Seq(TabRow) /\ Unique(tabs)
    BY DEF TabsOK, Listed
  <1>2. /\ r \in Seq(TabRow) /\ DOMAIN r = 1..(L + 1) /\ Len(r) = L + 1
        /\ \A k \in 1..(L + 1) : r[k] = IF k < n THEN tabs[k] ELSE IF k = n THEN t ELSE tabs[k - 1]
        /\ DOMAIN tabs = 1..L /\ L \in Nat /\ n \in 1..(L + 1)
    <2>1. DOMAIN tabs = 1..L /\ L \in Nat /\ n \in 1..(L + 1)
      BY <1>1
    <2>2. /\ r \in Seq(TabRow) /\ DOMAIN r = 1..(L + 1) /\ Len(r) = L + 1
          /\ \A k \in 1..(L + 1) : r[k] = IF k < n THEN tabs[k] ELSE IF k = n THEN t ELSE tabs[k - 1]
      <3>1. /\ r \in Seq(TabRow) /\ DOMAIN r = 1..(L + 1) /\ Len(r) = L + 1
        BY <1>1, InsertAtIs
      <3>2. \A k \in 1..(L + 1) : r[k] = IF k < n THEN tabs[k] ELSE IF k = n THEN t ELSE tabs[k - 1]
        BY <1>1, InsertAtIs
      <3> QED BY <3>1, <3>2
    <2> QED BY <2>1, <2>2
  <1>3. b \in 0..L /\ \A k \in DOMAIN tabs : tabs[k].pinned <=> k <= b
    BY BoundaryIs
  <1>4. (t.pinned => n <= b + 1) /\ (~t.pinned => n > b)
    OBVIOUS
  <1> HIDE DEF r, L, b
  <1> DEFINE at(k) == IF k < n THEN k ELSE k - 1
  <1>5. \A k \in DOMAIN r : k # n => at(k) \in DOMAIN tabs /\ r[k] = tabs[at(k)]
    BY <1>2
  <1>6. \A j, k \in DOMAIN r : j # n /\ k # n => (at(j) = at(k) => j = k)
    BY <1>2
  <1>7. n \in DOMAIN r /\ r[n] = t
    BY <1>2
  <1>8. \A m \in DOMAIN tabs : \E k \in DOMAIN r : k # n /\ at(k) = m
    <2> SUFFICES ASSUME NEW m \in DOMAIN tabs PROVE \E k \in DOMAIN r : k # n /\ at(k) = m
      OBVIOUS
    <2>1. CASE m < n
      <3>1. m \in DOMAIN r /\ at(m) = m /\ m # n
        BY <1>2, <2>1
      <3> QED BY <3>1
    <2>2. CASE ~(m < n)
      <3>1. m + 1 \in DOMAIN r /\ at(m + 1) = m /\ m + 1 # n
        BY <1>2, <2>2
      <3> QED BY <3>1
    <2> QED BY <2>1, <2>2
  <1>9. PinSorted(r)
    <2> DEFINE c == IF t.pinned THEN b + 1 ELSE b
    <2>1. ASSUME NEW k \in DOMAIN r PROVE r[k].pinned <=> k <= c
      <3>1. CASE k = n
        BY <1>2, <1>3, <1>4, <1>7, <3>1
      <3>2. CASE k # n
        <4>1. r[k].pinned <=> at(k) <= b
          BY <1>3, <1>5, <3>2
        <4>2. at(k) <= b <=> k <= c
          <5>1. k \in Nat /\ n \in Nat /\ b \in Nat
            BY <1>2, <1>3
          <5>2. CASE t.pinned
            BY <1>4, <3>2, <5>1, <5>2
          <5>3. CASE ~t.pinned
            BY <1>4, <3>2, <5>1, <5>3
          <5> QED BY <5>2, <5>3
        <4> QED BY <4>1, <4>2
      <3> QED BY <3>1, <3>2
    <2>2. c \in Nat /\ DOMAIN r \subseteq Nat
      BY <1>2, <1>3
    <2> HIDE DEF c
    <2> QED BY <2>1, <2>2 DEF PinSorted
  <1> HIDE DEF at
  <1>10. \A k \in DOMAIN tabs : tabs[k].id # t.id
    BY DEF TabIds
  <1>11. Unique(r)
    <2> SUFFICES ASSUME NEW j \in DOMAIN r, NEW k \in DOMAIN r, r[j].id = r[k].id PROVE j = k
      BY DEF Unique
    <2>1. CASE j = n \/ k = n
      BY <1>5, <1>7, <1>10, <2>1
    <2>2. CASE j # n /\ k # n
      BY <1>1, <1>5, <1>6, <2>2 DEF Unique
    <2> QED BY <2>1, <2>2
  <1>12. TabIds(r) = TabIds(tabs) \cup {t.id}
    <2>1. ASSUME NEW x \in TabIds(r) PROVE x \in TabIds(tabs) \cup {t.id}
      BY <1>5, <1>7, <2>1 DEF TabIds
    <2>2. ASSUME NEW x \in TabIds(tabs) \cup {t.id} PROVE x \in TabIds(r)
      <3>1. CASE x = t.id
        BY <1>7, <3>1 DEF TabIds
      <3>2. CASE x \in TabIds(tabs)
        <4>1. PICK m \in DOMAIN tabs : x = tabs[m].id
          BY <3>2 DEF TabIds
        <4>2. PICK k \in DOMAIN r : k # n /\ at(k) = m
          BY <1>8
        <4> QED BY <1>5, <4>1, <4>2 DEF TabIds
      <3> QED BY <2>2, <3>1, <3>2
    <2> QED BY <2>1, <2>2
  <1> QED BY <1>2, <1>9, <1>11, <1>12 DEF TabsOK, Listed, r, L

-----------------------------------------------------------------------------
(* What is left of a group, and pinned tabs first.                         *)
LEMMA FilterTabs ==
  ASSUME NEW tabs, Listed(tabs), NEW S \in SUBSET DOMAIN tabs
  PROVE  LET r == Filter(tabs, S)
         IN  /\ Listed(r) /\ TabIds(r) = {tabs[n].id : n \in S}
             /\ Len(r) = 0 <=> S = {}
             /\ \A k \in DOMAIN r : \E n \in S : r[k] = tabs[n]
             /\ PinSorted(tabs) => PinSorted(r)
  <1> DEFINE c == Cardinality(S)
             r == Filter(tabs, S)
  <1>1. tabs \in Seq(TabRow) /\ Unique(tabs)
    BY DEF Listed
  <1>2. /\ c \in Nat /\ r \in Seq(TabRow) /\ Len(r) = c /\ DOMAIN r = 1..c
        /\ \E f \in [1..c -> S] :
             /\ \A k \in 1..c : r[k] = tabs[f[k]]
             /\ \A j, k \in 1..c : j < k => f[j] < f[k]
             /\ \A n \in S : \E k \in 1..c : f[k] = n
    <2>1. c \in Nat /\ r \in Seq(TabRow) /\ Len(r) = c /\ DOMAIN r = 1..c
      BY <1>1, FilterIs
    <2>2. \E f \in [1..c -> S] :
             /\ \A k \in 1..c : r[k] = tabs[f[k]]
             /\ \A j, k \in 1..c : j < k => f[j] < f[k]
             /\ \A n \in S : \E k \in 1..c : f[k] = n
      BY <1>1, FilterIs, SMTT(30)
    <2> QED BY <2>1, <2>2
  <1> HIDE DEF c, r
  <1>3. PICK f \in [1..c -> S] :
          /\ \A k \in 1..c : r[k] = tabs[f[k]]
          /\ \A j, k \in 1..c : j < k => f[j] < f[k]
          /\ \A n \in S : \E k \in 1..c : f[k] = n
    BY <1>2
  <1>4. \A n \in S : n \in DOMAIN tabs /\ n \in Nat
    BY <1>1
  <1>5. Unique(r)
    <2> SUFFICES ASSUME NEW j \in 1..c, NEW k \in 1..c, r[j].id = r[k].id PROVE j = k
      BY <1>2 DEF Unique
    <2>1. f[j] \in S /\ f[k] \in S /\ f[j] \in Nat /\ f[k] \in Nat
      BY <1>3, <1>4
    <2>2. f[j] = f[k]
      BY <1>1, <1>3, <1>4, <2>1 DEF Unique
    <2>3. ~(j < k) /\ ~(k < j)
      BY <1>3, <2>1, <2>2
    <2> QED BY <1>2, <2>3
  <1>6. TabIds(r) = {tabs[n].id : n \in S}
    <2>1. ASSUME NEW x \in TabIds(r) PROVE x \in {tabs[n].id : n \in S}
      <3>1. PICK k \in 1..c : x = r[k].id
        BY <1>2, <2>1 DEF TabIds
      <3>2. f[k] \in S /\ r[k] = tabs[f[k]]
        BY <1>3
      <3> QED BY <3>1, <3>2
    <2>2. ASSUME NEW n \in S PROVE tabs[n].id \in TabIds(r)
      <3>1. PICK k \in 1..c : f[k] = n
        BY <1>3
      <3>2. r[k].id = tabs[n].id
        BY <1>3, <3>1
      <3> QED BY <1>2, <3>2 DEF TabIds
    <2> QED BY <2>1, <2>2
  <1>7. Len(r) = 0 <=> S = {}
    <2>1. S # {} => 1..c # {}
      BY <1>3
    <2>2. 1..c # {} => S # {}
      BY <1>3
    <2>3. 1..c # {} <=> c # 0
      <3>1. c # 0 => 1 \in 1..c
        BY <1>2
      <3>2. c = 0 => 1..c = {}
        OBVIOUS
      <3> QED BY <3>1, <3>2
    <2>4. c # 0 <=> S # {}
      BY <2>1, <2>2, <2>3
    <2> QED BY <1>2, <2>4
  <1>8. PinSorted(tabs) => PinSorted(r)
    <2> SUFFICES ASSUME PinSorted(tabs), NEW j \in 1..c, NEW k \in 1..c, j < k, r[k].pinned
                 PROVE  r[j].pinned
      BY <1>2 DEF PinSorted
    <2>1. f[j] \in DOMAIN tabs /\ f[k] \in DOMAIN tabs /\ f[j] < f[k]
      BY <1>3, <1>4
    <2> QED BY <1>3, <2>1 DEF PinSorted
  <1>9. \A k \in DOMAIN r : \E n \in S : r[k] = tabs[n]
    BY <1>2, <1>3
  <1> QED BY <1>2, <1>5, <1>6, <1>7, <1>8, <1>9 DEF Listed, r

LEMMA JoinedIs ==
  ASSUME NEW T, NEW a \in Seq(T), NEW b \in Seq(T)
  PROVE  /\ a \o b \in Seq(T) /\ Len(a \o b) = Len(a) + Len(b)
         /\ DOMAIN (a \o b) = 1..(Len(a) + Len(b))
         /\ \A k \in 1..(Len(a) + Len(b)) : (a \o b)[k] = IF k <= Len(a) THEN a[k] ELSE b[k - Len(a)]
  <1>1. a \o b \in Seq(T) /\ Len(a \o b) = Len(a) + Len(b)
    OBVIOUS
  <1>2. DOMAIN (a \o b) = 1..(Len(a) + Len(b))
    BY <1>1
  <1> QED BY <1>1, <1>2

LEMMA PinnedFirstIs ==
  ASSUME NEW tabs, Listed(tabs)
  PROVE  /\ TabsOK(PinnedFirst(tabs)) /\ TabIds(PinnedFirst(tabs)) = TabIds(tabs)
         /\ PinnedFirst(tabs) = <<>> <=> DOMAIN tabs = {}
  <1> DEFINE P == {n \in DOMAIN tabs : tabs[n].pinned}
             R == DOMAIN tabs \ P
             a == Filter(tabs, P)
             b == Filter(tabs, R)
             r == a \o b
  <1>1. PinnedFirst(tabs) = r
    BY DEF PinnedFirst
  <1>2. tabs \in Seq(TabRow) /\ Unique(tabs) /\ P \in SUBSET DOMAIN tabs /\ R \in SUBSET DOMAIN tabs
    BY DEF Listed
  <1>3. /\ Listed(a) /\ TabIds(a) = {tabs[n].id : n \in P} /\ (Len(a) = 0 <=> P = {})
        /\ \A k \in DOMAIN a : \E n \in P : a[k] = tabs[n]
    BY <1>2, FilterTabs
  <1>4. /\ Listed(b) /\ TabIds(b) = {tabs[n].id : n \in R} /\ (Len(b) = 0 <=> R = {})
        /\ \A k \in DOMAIN b : \E n \in R : b[k] = tabs[n]
    <2>1. ASSUME NEW Q \in SUBSET DOMAIN tabs
          PROVE  LET d == Filter(tabs, Q)
                 IN  /\ Listed(d) /\ TabIds(d) = {tabs[n].id : n \in Q} /\ (Len(d) = 0 <=> Q = {})
                     /\ \A k \in DOMAIN d : \E n \in Q : d[k] = tabs[n]
      BY FilterTabs
    <2> QED BY <1>2, <2>1, Zenon
  <1>5. \A n \in P, m \in R : tabs[n].pinned /\ ~tabs[m].pinned /\ tabs[n].id # tabs[m].id
    BY <1>2 DEF Unique
  <1>6. P \cup R = DOMAIN tabs
    OBVIOUS
  <1> HIDE DEF P, R, a, b
  <1> DEFINE A == Len(a)
             B == Len(b)
  <1>7. /\ a \in Seq(TabRow) /\ b \in Seq(TabRow) /\ A \in Nat /\ B \in Nat
        /\ DOMAIN a = 1..A /\ DOMAIN b = 1..B /\ Unique(a) /\ Unique(b)
    BY <1>3, <1>4 DEF Listed
  <1>8. /\ r \in Seq(TabRow) /\ Len(r) = A + B /\ DOMAIN r = 1..(A + B)
        /\ \A k \in 1..(A + B) : r[k] = IF k <= A THEN a[k] ELSE b[k - A]
    BY <1>7, JoinedIs
  <1> HIDE DEF r, A, B
  <1>9. \A k \in 1..(A + B) : \/ k \in 1..A /\ r[k] = a[k]
                              \/ k - A \in 1..B /\ k > A /\ r[k] = b[k - A]
    BY <1>7, <1>8
  <1>10. \A k \in 1..(A + B) : r[k].pinned <=> k <= A
    <2> SUFFICES ASSUME NEW k \in 1..(A + B) PROVE r[k].pinned <=> k <= A
      OBVIOUS
    <2>1. CASE k \in 1..A /\ r[k] = a[k]
      <3>1. PICK n \in P : a[k] = tabs[n]
        BY <1>3, <1>7, <2>1
      <3>2. tabs[n].pinned
        BY <3>1 DEF P
      <3> QED BY <1>7, <2>1, <3>1, <3>2
    <2>2. CASE k - A \in 1..B /\ k > A /\ r[k] = b[k - A]
      <3>1. ~r[k].pinned
        <4>1. k - A \in DOMAIN b
          BY <1>7, <2>2
        <4>2. PICK n \in R : b[k - A] = tabs[n]
          BY <1>4, <4>1
        <4>3. ~tabs[n].pinned
          BY <4>2 DEF R, P
        <4> QED BY <2>2, <4>2, <4>3
      <3> QED BY <1>7, <2>2, <3>1
    <2> QED BY <1>9, <2>1, <2>2
  <1>11. PinSorted(r)
    <2> SUFFICES ASSUME NEW j \in DOMAIN r, NEW k \in DOMAIN r, j < k, r[k].pinned PROVE r[j].pinned
      BY DEF PinSorted
    <2>1. k <= A
      BY <1>8, <1>10
    <2>2. j <= A
      BY <1>7, <1>8, <2>1
    <2> QED BY <1>8, <1>10, <2>2
  <1>12. \A x \in TabIds(a), y \in TabIds(b) : x # y
    BY <1>3, <1>4, <1>5
  <1>13. Unique(r)
    <2> SUFFICES ASSUME NEW j \in 1..(A + B), NEW k \in 1..(A + B), r[j].id = r[k].id PROVE j = k
      BY <1>8 DEF Unique
    <2>1. CASE j \in 1..A /\ k \in 1..A /\ r[j] = a[j] /\ r[k] = a[k]
      BY <1>7, <2>1 DEF Unique
    <2>2. CASE j - A \in 1..B /\ k - A \in 1..B /\ r[j] = b[j - A] /\ r[k] = b[k - A]
      <3>1. j - A = k - A
        BY <1>7, <2>2 DEF Unique
      <3> QED BY <1>7, <3>1
    <2>3. CASE j \in 1..A /\ k - A \in 1..B /\ r[j] = a[j] /\ r[k] = b[k - A]
      BY <1>7, <1>12, <2>3 DEF TabIds
    <2>4. CASE j - A \in 1..B /\ k \in 1..A /\ r[j] = b[j - A] /\ r[k] = a[k]
      BY <1>7, <1>12, <2>4 DEF TabIds
    <2> QED BY <1>9, <2>1, <2>2, <2>3, <2>4
  <1>14. TabIds(r) = TabIds(a) \cup TabIds(b)
    <2>1. ASSUME NEW x \in TabIds(r) PROVE x \in TabIds(a) \cup TabIds(b)
      BY <1>7, <1>8, <1>9, <2>1 DEF TabIds
    <2>2. ASSUME NEW k \in 1..A PROVE a[k].id \in TabIds(r)
      <3>1. k \in 1..(A + B) /\ r[k] = a[k]
        BY <1>7, <1>8
      <3> QED BY <1>8, <3>1 DEF TabIds
    <2>3. ASSUME NEW k \in 1..B PROVE b[k].id \in TabIds(r)
      <3>1. k + A \in 1..(A + B) /\ ~(k + A <= A) /\ (k + A) - A = k
        BY <1>7
      <3>2. r[k + A] = b[(k + A) - A]
        BY <1>8, <3>1
      <3> QED BY <1>8, <3>1, <3>2 DEF TabIds
    <2> QED BY <1>7, <2>1, <2>2, <2>3 DEF TabIds
  <1>15. TabIds(r) = TabIds(tabs)
    BY <1>3, <1>4, <1>6, <1>14 DEF TabIds
  <1>16. r = <<>> <=> DOMAIN tabs = {}
    <2>1. r = <<>> <=> A + B = 0
      BY <1>8
    <2>2. A + B = 0 <=> A = 0 /\ B = 0
      BY <1>7
    <2> QED BY <1>3, <1>4, <1>6, <2>1, <2>2 DEF A, B
  <1> QED BY <1>1, <1>8, <1>11, <1>13, <1>15, <1>16 DEF TabsOK, Listed

LEMMA PinnedFirstStays ==
  ASSUME NEW tabs, TabsOK(tabs)
  PROVE  PinnedFirst(tabs) = tabs
  <1> DEFINE L == Len(tabs)
             e == PinnedBoundary(tabs)
             P == 1..e
             R == (e + 1)..L
  <1>1. tabs \in Seq(TabRow) /\ DOMAIN tabs = 1..L /\ L \in Nat
    BY DEF TabsOK, Listed
  <1>2. e \in 0..L /\ \A n \in DOMAIN tabs : tabs[n].pinned <=> n <= e
    BY BoundaryIs
  <1> HIDE DEF L, e
  <1>3. {n \in DOMAIN tabs : tabs[n].pinned} = P /\ DOMAIN tabs \ P = R
    BY <1>1, <1>2
  <1>4. PinnedFirst(tabs) = Filter(tabs, P) \o Filter(tabs, R)
    BY <1>3 DEF PinnedFirst
  <1>5. \A n \in P : Rank(P, n) = n
    <2> SUFFICES ASSUME NEW n \in P PROVE Cardinality({m \in P : m <= n}) = n
      BY DEF Rank
    <2>1. {m \in P : m <= n} = 1..n /\ n \in Nat
      BY <1>2
    <2> QED BY <2>1, CountIs
  <1>6. Filter(tabs, P) = [k \in 1..e |-> tabs[k]]
    <2>1. e \in Nat
      BY <1>2
    <2>2. Cardinality(P) = e
      BY <2>1, CountIs
    <2>3. \A k \in 1..e : (CHOOSE n \in P : Rank(P, n) = k) = k
      BY <1>5
    <2> DEFINE g(k) == CHOOSE n \in P : Rank(P, n) = k
    <2>4. Filter(tabs, P) = [k \in 1..Cardinality(P) |-> tabs[g(k)]]
      BY DEF Filter
    <2>5. \A k \in 1..e : g(k) = k
      BY <2>3
    <2> HIDE DEF g, P
    <2> QED BY <2>2, <2>4, <2>5
  <1>7. \A n \in R : Rank(R, n) = n - e
    <2> SUFFICES ASSUME NEW n \in R PROVE Cardinality({m \in R : m <= n}) = n - e
      BY DEF Rank
    <2>1. {m \in R : m <= n} = (e + 1)..n /\ n \in Int /\ e + 1 \in Int
      BY <1>1, <1>2
    <2>2. Cardinality((e + 1)..n) = IF e + 1 > n THEN 0 ELSE n - (e + 1) + 1
      BY <2>1, FS_Interval
    <2>3. ~(e + 1 > n) /\ n - (e + 1) + 1 = n - e
      BY <1>1, <1>2
    <2> QED BY <2>1, <2>2, <2>3
  <1>8. Cardinality(R) = L - e
    <2>1. e + 1 \in Int /\ L \in Int
      BY <1>1, <1>2
    <2>2. Cardinality(R) = IF e + 1 > L THEN 0 ELSE L - (e + 1) + 1
      BY <2>1, FS_Interval
    <2> QED BY <1>1, <1>2, <2>2
  <1>9. Filter(tabs, R) = [k \in 1..(L - e) |-> tabs[k + e]]
    <2>1. \A k \in 1..(L - e) : (CHOOSE n \in R : Rank(R, n) = k) = k + e
      <3> SUFFICES ASSUME NEW k \in 1..(L - e) PROVE (CHOOSE n \in R : Rank(R, n) = k) = k + e
        OBVIOUS
      <3>1. k + e \in R
        BY <1>1, <1>2
      <3>2. Rank(R, k + e) = k
        <4>1. Rank(R, k + e) = (k + e) - e
          BY <1>7, <3>1
        <4> QED BY <1>2, <4>1
      <3>3. \A n \in R : Rank(R, n) = k => n = k + e
        <4> SUFFICES ASSUME NEW n \in R, Rank(R, n) = k PROVE n = k + e
          OBVIOUS
        <4>1. n - e = k /\ n \in Int /\ e \in Int
          BY <1>1, <1>2, <1>7
        <4> QED BY <4>1
      <3> QED BY <3>1, <3>2, <3>3
    <2> DEFINE g(k) == CHOOSE n \in R : Rank(R, n) = k
    <2>2. Filter(tabs, R) = [k \in 1..Cardinality(R) |-> tabs[g(k)]]
      BY DEF Filter
    <2>3. \A k \in 1..(L - e) : g(k) = k + e
      BY <2>1
    <2> HIDE DEF g, R
    <2> QED BY <1>8, <2>2, <2>3
  <1> DEFINE a == Filter(tabs, P)
             b == Filter(tabs, R)
  <1>10. a \in Seq(TabRow) /\ Len(a) = e /\ \A k \in 1..e : a[k] = tabs[k]
    BY <1>1, <1>2, <1>6
  <1>11. b \in Seq(TabRow) /\ Len(b) = L - e /\ \A k \in 1..(L - e) : b[k] = tabs[k + e]
    BY <1>1, <1>2, <1>9
  <1> HIDE DEF a, b
  <1> DEFINE r == a \o b
  <1>12. /\ r \in Seq(TabRow) /\ Len(r) = Len(a) + Len(b)
         /\ \A k \in 1..(Len(a) + Len(b)) : r[k] = IF k <= Len(a) THEN a[k] ELSE b[k - Len(a)]
    <2>1. a \in Seq(TabRow) /\ b \in Seq(TabRow)
      BY <1>10, <1>11
    <2>2. r \in Seq(TabRow) /\ Len(r) = Len(a) + Len(b)
      BY <2>1, JoinedIs
    <2>3. \A k \in 1..(Len(a) + Len(b)) : r[k] = IF k <= Len(a) THEN a[k] ELSE b[k - Len(a)]
      BY <2>1, JoinedIs
    <2> QED BY <2>2, <2>3
  <1>13. Len(a) + Len(b) = L
    BY <1>1, <1>2, <1>10, <1>11
  <1> HIDE DEF r
  <1>14. \A k \in 1..L : r[k] = tabs[k]
    <2> SUFFICES ASSUME NEW k \in 1..L PROVE r[k] = tabs[k]
      OBVIOUS
    <2>1. CASE k <= e
      BY <1>2, <1>10, <1>12, <1>13, <2>1
    <2>2. CASE ~(k <= e)
      <3>1. k - e \in 1..(L - e) /\ (k - e) + e = k
        BY <1>1, <1>2, <2>2
      <3>2. r[k] = b[k - e]
        BY <1>10, <1>12, <1>13, <2>2
      <3> QED BY <1>11, <3>1, <3>2
    <2> QED BY <2>1, <2>2
  <1>15. r = tabs
    <2>1. Len(r) = L /\ Len(tabs) = L
      BY <1>12, <1>13 DEF L
    <2> QED BY <1>1, <1>12, <1>14, <2>1
  <1> QED BY <1>4, <1>15 DEF r, a, b

LEMMA CountIds ==
  ASSUME NEW tabs, Listed(tabs)
  PROVE  Cardinality(TabIds(tabs)) = Len(tabs)
  <1> DEFINE L == Len(tabs)
             f == [n \in 1..L |-> tabs[n].id]
  <1>1. DOMAIN tabs = 1..L /\ L \in Nat
    BY DEF Listed
  <1> HIDE DEF L
  <1>2. f \in Surjection(1..L, TabIds(tabs)) /\ f \in Injection(1..L, TabIds(tabs))
    BY <1>1 DEF Surjection, Injection, IsInjective, TabIds, Listed, Unique
  <1>3. f \in Bijection(1..L, TabIds(tabs))
    BY <1>2 DEF Bijection
  <1>4. IsFiniteSet(1..L) /\ Cardinality(1..L) = L
    BY <1>1, CountIs
  <1> HIDE DEF f
  <1>5. Cardinality(TabIds(tabs)) = L
    <2> DEFINE I == 1..L
               J == TabIds(tabs)
    <2>1. IsFiniteSet(I) /\ Cardinality(I) = L /\ f \in Bijection(I, J)
      BY <1>3, <1>4
    <2> HIDE DEF I, J
    <2>2. Cardinality(J) = Cardinality(I)
      BY <2>1, FS_Bijection DEF ExistsBijection
    <2> QED BY <2>1, <2>2 DEF J
  <1> QED BY <1>5 DEF L

-----------------------------------------------------------------------------
(* A store: groups that point at a tab of their own, pinned tabs first, no *)
(* tab in two groups, and the active workspace one of them.                *)
GroupOK(g) ==
  /\ g = [tabs |-> g.tabs, activeTabId |-> g.activeTabId]
  /\ TabsOK(g.tabs) /\ g.activeTabId \in TabIds(g.tabs)

Apart(G) ==
  \A s, t \in DOMAIN G : s # t => TabIds(G[s].tabs) \cap TabIds(G[t].tabs) = {}

GroupsOK(G) ==
  /\ G = [s \in DOMAIN G |-> G[s]] /\ DOMAIN G \subseteq Slugs
  /\ \A s \in DOMAIN G : GroupOK(G[s])
  /\ Apart(G)

StoreOK(st) ==
  /\ st = [active |-> st.active, byWorkspace |-> st.byWorkspace]
  /\ GroupsOK(Groups(st))
  /\ st.active = None \/ st.active \in DOMAIN Groups(st)

(* The store but for one of its groups.                                    *)
SameBut(st, new, s) ==
  \A t \in DOMAIN Groups(st) : t # s => Groups(new)[t] = Groups(st)[t]

LEMMA SetGroupIs ==
  ASSUME NEW st, StoreOK(st), NEW s \in Slugs, NEW g, GroupOK(g),
         \A t \in DOMAIN Groups(st) : t # s => TabIds(g.tabs) \cap TabIds(Groups(st)[t].tabs) = {}
  PROVE  LET new == SetGroup(st, s, g)
         IN  /\ StoreOK(new) /\ new.active = st.active
             /\ DOMAIN Groups(new) = DOMAIN Groups(st) \cup {s}
             /\ Groups(new)[s] = g /\ SameBut(st, new, s)
  <1> DEFINE D == DOMAIN Groups(st) \cup {s}
             G == [t \in D |-> IF t = s THEN g ELSE Groups(st)[t]]
             new == SetGroup(st, s, g)
  <1>1. st = [active |-> st.active, byWorkspace |-> st.byWorkspace]
    BY DEF StoreOK, GroupsOK
  <1>2. new = [active |-> st.active, byWorkspace |-> G]
    BY <1>1 DEF SetGroup, Groups
  <1>3. new.active = st.active /\ Groups(new) = G
    BY <1>2 DEF Groups
  <1>4. DOMAIN G = D /\ G[s] = g /\ \A t \in DOMAIN Groups(st) : t # s => G[t] = Groups(st)[t]
    OBVIOUS
  <1>5. G = [t \in DOMAIN G |-> G[t]]
    OBVIOUS
  <1>6. \A t \in D : t # s => t \in DOMAIN Groups(st)
    OBVIOUS
  <1> HIDE DEF G, new
  <1>7. \A t \in D : GroupOK(G[t])
    BY <1>4, <1>6 DEF StoreOK, GroupsOK
  <1>8. Apart(G)
    <2> SUFFICES ASSUME NEW t \in D, NEW u \in D, t # u
                 PROVE  TabIds(G[t].tabs) \cap TabIds(G[u].tabs) = {}
      BY <1>4 DEF Apart
    <2>1. CASE t = s
      BY <1>4, <1>6, <2>1
    <2>2. CASE u = s
      BY <1>4, <1>6, <2>2
    <2>3. CASE t # s /\ u # s
      BY <1>4, <1>6, <2>3 DEF StoreOK, GroupsOK, Apart
    <2> QED BY <2>1, <2>2, <2>3
  <1>9. D \subseteq Slugs /\ (st.active = None \/ st.active \in D)
    BY DEF StoreOK, GroupsOK
  <1>10. new = [active |-> new.active, byWorkspace |-> new.byWorkspace]
    BY <1>2
  <1>11. StoreOK(new)
    BY <1>3, <1>4, <1>5, <1>7, <1>8, <1>9, <1>10 DEF StoreOK, GroupsOK
  <1> QED BY <1>3, <1>4, <1>11 DEF SameBut, new

LEMMA SetTabsIs ==
  ASSUME NEW st, StoreOK(st), NEW s \in DOMAIN Groups(st), NEW tabs, TabsOK(tabs),
         Groups(st)[s].activeTabId \in TabIds(tabs),
         \A t \in DOMAIN Groups(st) : t # s => TabIds(tabs) \cap TabIds(Groups(st)[t].tabs) = {}
  PROVE  LET new == SetTabs(st, s, tabs)
         IN  /\ StoreOK(new) /\ new.active = st.active
             /\ DOMAIN Groups(new) = DOMAIN Groups(st)
             /\ Groups(new)[s].tabs = tabs
             /\ Groups(new)[s].activeTabId = Groups(st)[s].activeTabId
             /\ SameBut(st, new, s)
  <1> DEFINE g == [tabs |-> tabs, activeTabId |-> Groups(st)[s].activeTabId]
             new == SetTabs(st, s, tabs)
             set == SetGroup(st, s, g)
  <1>1. GroupOK(g) /\ s \in Slugs /\ g.tabs = tabs
    BY DEF GroupOK, StoreOK, GroupsOK
  <1>2. new = set
    <2> DEFINE G == Groups(st)
    <2>1. /\ st = [active |-> st.active, byWorkspace |-> G]
          /\ G = [t \in DOMAIN G |-> G[t]]
          /\ G[s] = [tabs |-> G[s].tabs, activeTabId |-> G[s].activeTabId]
      BY DEF StoreOK, GroupsOK, GroupOK, Groups
    <2>2. [G[s] EXCEPT !.tabs = tabs] = g
      BY <2>1
    <2>3. [G EXCEPT ![s] = g] = [t \in DOMAIN G \cup {s} |-> IF t = s THEN g ELSE G[t]]
      BY <2>1
    <2>4. new = [st EXCEPT !.byWorkspace = [G EXCEPT ![s] = [G[s] EXCEPT !.tabs = tabs]]]
      BY DEF SetTabs, Groups
    <2>5. set = [st EXCEPT !.byWorkspace = [t \in DOMAIN G \cup {s} |-> IF t = s THEN g ELSE G[t]]]
      BY DEF SetGroup, Groups
    <2> HIDE DEF G, g, new, set
    <2> QED BY <2>2, <2>3, <2>4, <2>5
  <1>3. \A t \in DOMAIN Groups(st) : t # s => TabIds(g.tabs) \cap TabIds(Groups(st)[t].tabs) = {}
    BY <1>1
  <1> HIDE DEF g, new, set
  <1>4. /\ StoreOK(set) /\ set.active = st.active
        /\ DOMAIN Groups(set) = DOMAIN Groups(st) \cup {s}
        /\ Groups(set)[s] = g /\ SameBut(st, set, s)
    BY <1>1, <1>3, SetGroupIs DEF set
  <1>5. Groups(set)[s].tabs = tabs /\ Groups(set)[s].activeTabId = Groups(st)[s].activeTabId
    BY <1>1, <1>4 DEF g
  <1>6. DOMAIN Groups(set) = DOMAIN Groups(st)
    BY <1>4
  <1>7. /\ StoreOK(new) /\ new.active = st.active
        /\ DOMAIN Groups(new) = DOMAIN Groups(st)
        /\ Groups(new)[s].tabs = tabs
        /\ Groups(new)[s].activeTabId = Groups(st)[s].activeTabId
        /\ SameBut(st, new, s)
    BY <1>2, <1>4, <1>5, <1>6
  <1> QED BY <1>7 DEF new

LEMMA OwnerIs ==
  ASSUME NEW st, StoreOK(st), NEW s \in DOMAIN Groups(st), NEW i \in TabIds(Groups(st)[s].tabs)
  PROVE  Owner(st, i) = s
  <1>1. \A t \in DOMAIN Groups(st) : i \in TabIds(Groups(st)[t].tabs) => t = s
    BY DEF StoreOK, GroupsOK, Apart
  <1> QED BY <1>1 DEF Owner

LEMMA UsedIs ==
  ASSUME NEW st, NEW i
  PROVE  i \in Used(st) <=> \E s \in DOMAIN Groups(st) : i \in TabIds(Groups(st)[s].tabs)
  BY DEF Used

LEMMA OwnerOwns ==
  ASSUME NEW st, StoreOK(st), NEW i \in Used(st)
  PROVE  Owner(st, i) \in DOMAIN Groups(st) /\ i \in TabIds(Groups(st)[Owner(st, i)].tabs)
  BY UsedIs, OwnerIs

LEMMA TabIs ==
  ASSUME NEW st, StoreOK(st), NEW s \in DOMAIN Groups(st), NEW n \in DOMAIN Groups(st)[s].tabs
  PROVE  Tab(st, Groups(st)[s].tabs[n].id) = Groups(st)[s].tabs[n]
  <1> DEFINE tabs(t) == Groups(st)[t].tabs
  <1>1. \A t \in AllTabs(st) : \E u \in DOMAIN Groups(st) : \E m \in DOMAIN tabs(u) : t = tabs(u)[m]
    BY DEF AllTabs, Range
  <1>2. tabs(s)[n] \in AllTabs(st)
    BY DEF AllTabs, Range
  <1>3. \A u \in DOMAIN Groups(st) : \A m \in DOMAIN tabs(u) :
          tabs(u)[m].id = tabs(s)[n].id => tabs(u)[m] = tabs(s)[n]
    <2> SUFFICES ASSUME NEW u \in DOMAIN Groups(st), NEW m \in DOMAIN tabs(u), tabs(u)[m].id = tabs(s)[n].id
                 PROVE  tabs(u)[m] = tabs(s)[n]
      OBVIOUS
    <2>1. tabs(u)[m].id \in TabIds(tabs(u)) /\ tabs(s)[n].id \in TabIds(tabs(s))
      BY DEF TabIds
    <2>2. u = s
      BY <2>1 DEF StoreOK, GroupsOK, Apart
    <2>3. Unique(tabs(s))
      BY DEF StoreOK, GroupsOK, GroupOK, TabsOK, Listed
    <2> QED BY <2>2, <2>3 DEF Unique
  <1> HIDE DEF tabs
  <1>4. \A t \in AllTabs(st) : t.id = tabs(s)[n].id <=> t = tabs(s)[n]
    BY <1>1, <1>3
  <1>5. Tab(st, tabs(s)[n].id) = tabs(s)[n]
    BY <1>2, <1>4 DEF Tab
  <1> QED BY <1>5 DEF tabs

LEMMA TabOf ==
  ASSUME NEW st, StoreOK(st), NEW i \in Used(st)
  PROVE  /\ Tab(st, i) \in TabRow /\ Tab(st, i).id = i
         /\ \E s \in DOMAIN Groups(st) : \E n \in DOMAIN Groups(st)[s].tabs : Tab(st, i) = Groups(st)[s].tabs[n]
  <1>1. PICK s \in DOMAIN Groups(st) : i \in TabIds(Groups(st)[s].tabs)
    BY UsedIs
  <1>2. PICK n \in DOMAIN Groups(st)[s].tabs : i = Groups(st)[s].tabs[n].id
    BY <1>1 DEF TabIds
  <1>3. Tab(st, i) = Groups(st)[s].tabs[n]
    BY <1>2, TabIs
  <1>4. Groups(st)[s].tabs \in Seq(TabRow)
    BY DEF StoreOK, GroupsOK, GroupOK, TabsOK, Listed
  <1>5. Groups(st)[s].tabs[n] \in TabRow
    BY <1>4
  <1> QED BY <1>2, <1>3, <1>5

LEMMA SetActiveIs ==
  ASSUME NEW st, StoreOK(st), NEW i \in Used(st)
  PROVE  LET s == Owner(st, i)
             new == SetActive(st, i)
         IN  /\ StoreOK(new) /\ new.active = s /\ HasVisible(new) /\ Visible(new) = i
             /\ DOMAIN Groups(new) = DOMAIN Groups(st)
             /\ \A t \in DOMAIN Groups(st) : Groups(new)[t].tabs = Groups(st)[t].tabs
  <1> DEFINE s == Owner(st, i)
             new == SetActive(st, i)
             G == Groups(st)
             g == [tabs |-> G[s].tabs, activeTabId |-> i]
             set == SetGroup(st, s, g)
  <1>1. s \in DOMAIN G /\ i \in TabIds(G[s].tabs)
    BY OwnerOwns
  <1>2. GroupOK(g) /\ s \in Slugs /\ g.tabs = G[s].tabs /\ g.activeTabId = i
    BY <1>1 DEF GroupOK, StoreOK, GroupsOK
  <1>3. new = [set EXCEPT !.active = s]
    <2>1. /\ st = [active |-> st.active, byWorkspace |-> G]
          /\ G = [t \in DOMAIN G |-> G[t]]
          /\ G[s] = [tabs |-> G[s].tabs, activeTabId |-> G[s].activeTabId]
      BY <1>1 DEF StoreOK, GroupsOK, GroupOK, Groups
    <2>2. [G[s] EXCEPT !.activeTabId = i] = g
      BY <2>1
    <2>3. [G EXCEPT ![s] = g] = [t \in DOMAIN G \cup {s} |-> IF t = s THEN g ELSE G[t]]
      BY <1>1, <2>1
    <2>4. new = [st EXCEPT !.active = s, !.byWorkspace[s].activeTabId = i]
      BY DEF SetActive
    <2>5. set = [st EXCEPT !.byWorkspace = [t \in DOMAIN G \cup {s} |-> IF t = s THEN g ELSE G[t]]]
      BY DEF SetGroup, Groups
    <2>6. new = [active |-> s, byWorkspace |-> [G EXCEPT ![s] = [G[s] EXCEPT !.activeTabId = i]]]
      BY <2>1, <2>4 DEF Groups
    <2>7. set = [active |-> st.active, byWorkspace |-> [t \in DOMAIN G \cup {s} |-> IF t = s THEN g ELSE G[t]]]
      BY <2>1, <2>5
    <2> HIDE DEF G, g, new, set, s
    <2> QED BY <2>2, <2>3, <2>6, <2>7
  <1>4. \A t \in DOMAIN G : t # s => TabIds(g.tabs) \cap TabIds(G[t].tabs) = {}
    BY <1>1, <1>2 DEF StoreOK, GroupsOK, Apart
  <1> HIDE DEF g, new, set, s, G
  <1>5. /\ StoreOK(set) /\ DOMAIN Groups(set) = DOMAIN G \cup {s}
        /\ Groups(set)[s] = g /\ SameBut(st, set, s)
    BY <1>2, <1>4, SetGroupIs DEF set, G
  <1>6. set = [active |-> set.active, byWorkspace |-> set.byWorkspace]
    BY <1>5 DEF StoreOK, GroupsOK
  <1>7. new = [active |-> s, byWorkspace |-> set.byWorkspace]
    BY <1>3, <1>6
  <1>8. new.active = s /\ Groups(new) = Groups(set)
    BY <1>7 DEF Groups
  <1>9. StoreOK(new)
    <2>1. new = [active |-> new.active, byWorkspace |-> new.byWorkspace]
      BY <1>7
    <2>2. s \in DOMAIN Groups(new)
      BY <1>1, <1>5, <1>8
    <2> QED BY <1>5, <1>8, <2>1, <2>2 DEF StoreOK, GroupsOK
  <1>10. HasVisible(new) /\ Visible(new) = i
    BY <1>2, <1>5, <1>8, TabsAssumption DEF HasVisible, Visible
  <1>11. DOMAIN Groups(new) = DOMAIN G
    BY <1>1, <1>5, <1>8
  <1>12. \A t \in DOMAIN G : Groups(new)[t].tabs = G[t].tabs
    BY <1>2, <1>5, <1>8 DEF SameBut, G
  <1> QED BY <1>8, <1>9, <1>10, <1>11, <1>12 DEF new, s, G

-----------------------------------------------------------------------------
(* The inductive invariant.                                                *)
TabsInv ==
  /\ StoreOK(store) /\ Fits(store)
  /\ routers \in [Used(store) -> AnyPath]

LEMMA NewIdIs ==
  ASSUME Fits(store)
  PROVE  NewId \in AnyId /\ NewId \notin Used(store)
  <1>1. CASE Ids \subseteq Used(store)
    BY <1>1, TabsAssumption DEF NewId, AnyId, Fits
  <1>2. CASE ~(Ids \subseteq Used(store))
    BY <1>2 DEF NewId, AnyId
  <1> QED BY <1>1, <1>2

LEMMA SyncedTabs ==
  ASSUME NEW tabs, TabsOK(tabs), NEW v, NEW p \in AnyPath
  PROVE  LET r == [n \in DOMAIN tabs |-> IF tabs[n].id # v THEN tabs[n]
                                         ELSE [tabs[n] EXCEPT !.path = p]]
         IN  TabsOK(r) /\ TabIds(r) = TabIds(tabs)
  <1> DEFINE r == [n \in DOMAIN tabs |-> IF tabs[n].id # v THEN tabs[n]
                                         ELSE [tabs[n] EXCEPT !.path = p]]
             L == Len(tabs)
  <1>1. tabs \in Seq(TabRow) /\ DOMAIN tabs = 1..L /\ L \in Nat
    BY DEF TabsOK, Listed
  <1> HIDE DEF L
  <1>2. DOMAIN r = 1..L
    BY <1>1
  <1>3. ASSUME NEW n \in 1..L
        PROVE  r[n] \in TabRow /\ r[n].id = tabs[n].id /\ (r[n].pinned <=> tabs[n].pinned)
    <2>1. tabs[n] \in TabRow
      BY <1>1
    <2>2. r[n] = IF tabs[n].id # v THEN tabs[n] ELSE [tabs[n] EXCEPT !.path = p]
      BY <1>1
    <2> QED BY <2>1, <2>2 DEF TabRow
  <1>4. r \in [1..L -> TabRow]
    <2>1. r = [n \in 1..L |-> r[n]]
      BY <1>1
    <2> HIDE DEF r
    <2> QED BY <1>3, <2>1
  <1> HIDE DEF r
  <1>5. r \in Seq(TabRow)
    BY <1>1, <1>4
  <1>6. Unique(r) /\ PinSorted(r)
    BY <1>1, <1>2, <1>3 DEF Unique, PinSorted, TabsOK, Listed
  <1>7. TabIds(r) = TabIds(tabs)
    BY <1>1, <1>2, <1>3 DEF TabIds
  <1> QED BY <1>5, <1>6, <1>7 DEF TabsOK, Listed, r

LEMMA VisibleIs ==
  ASSUME NEW st, StoreOK(st), HasVisible(st)
  PROVE  /\ st.active \in DOMAIN Groups(st)
         /\ Visible(st) \in TabIds(Groups(st)[st.active].tabs)
         /\ Visible(st) \in Used(st)
  <1>1. st.active \in DOMAIN Groups(st)
    BY DEF HasVisible, StoreOK
  <1>2. Visible(st) \in TabIds(Groups(st)[st.active].tabs)
    BY <1>1 DEF Visible, StoreOK, GroupsOK, GroupOK
  <1> QED BY <1>1, <1>2, UsedIs

LEMMA SameUsed ==
  ASSUME NEW st, NEW new, DOMAIN Groups(new) = DOMAIN Groups(st),
         \A s \in DOMAIN Groups(st) : TabIds(Groups(new)[s].tabs) = TabIds(Groups(st)[s].tabs)
  PROVE  Used(new) = Used(st)
  <1>1. \A i : i \in Used(new) <=> i \in Used(st)
    BY UsedIs
  <1> QED BY <1>1

LEMMA SyncIs ==
  ASSUME NEW st, StoreOK(st), NEW r, HasVisible(st) => r[Visible(st)] \in AnyPath
  PROVE  LET new == Sync(st, r)
         IN  /\ StoreOK(new) /\ new.active = st.active /\ Used(new) = Used(st)
             /\ HasVisible(st) => Visible(new) = Visible(st)
  <1>1. CASE ~HasVisible(st)
    BY <1>1 DEF Sync
  <1>2. CASE HasVisible(st)
    <2> DEFINE s == st.active
               tabs == Groups(st)[s].tabs
               p == r[Visible(st)]
               synced == [n \in DOMAIN tabs |-> IF tabs[n].id # Visible(st) THEN tabs[n]
                                                ELSE [tabs[n] EXCEPT !.path = p]]
               new == SetTabs(st, s, synced)
    <2>1. Sync(st, r) = new
      BY <1>2 DEF Sync
    <2>2. s \in DOMAIN Groups(st) /\ TabsOK(tabs) /\ Groups(st)[s].activeTabId \in TabIds(tabs)
      BY <1>2, VisibleIs DEF StoreOK, GroupsOK, GroupOK
    <2>3. TabsOK(synced) /\ TabIds(synced) = TabIds(tabs)
      <3>1. TabsOK(tabs) /\ p \in AnyPath
        BY <1>2, <2>2
      <3> HIDE DEF tabs, p
      <3> QED BY <3>1, SyncedTabs, SMTT(30)
    <2>4. \A t \in DOMAIN Groups(st) : t # s => TabIds(synced) \cap TabIds(Groups(st)[t].tabs) = {}
      BY <2>2, <2>3 DEF StoreOK, GroupsOK, Apart
    <2> HIDE DEF synced, new
    <2>5. /\ StoreOK(new) /\ new.active = st.active
          /\ DOMAIN Groups(new) = DOMAIN Groups(st)
          /\ Groups(new)[s].tabs = synced
          /\ Groups(new)[s].activeTabId = Groups(st)[s].activeTabId
          /\ SameBut(st, new, s)
      BY <2>2, <2>3, <2>4, SetTabsIs DEF new
    <2>6. \A t \in DOMAIN Groups(st) : TabIds(Groups(new)[t].tabs) = TabIds(Groups(st)[t].tabs)
      BY <2>3, <2>5 DEF SameBut
    <2>7. Used(new) = Used(st)
      BY <2>5, <2>6, SameUsed
    <2>8. Visible(new) = Visible(st)
      BY <2>5 DEF Visible
    <2> QED BY <2>1, <2>5, <2>7, <2>8
  <1> QED BY <1>1, <1>2

LEMMA AfterIs ==
  ASSUME NEW st, StoreOK(st), NEW r, \A i \in DOMAIN r : r[i] \in AnyPath
  PROVE  LET after == After(st, r)
         IN  /\ StoreOK(after.store) /\ after.store.active = st.active
             /\ Used(after.store) = Used(st)
             /\ HasVisible(st) => Visible(after.store) = Visible(st)
             /\ after.routers \in [Used(st) -> AnyPath]
             /\ \A i \in Used(st) :
                  after.routers[i] = IF i \in DOMAIN r THEN r[i] ELSE Tab(st, i).path
  <1> DEFINE now == RoutersOf(st, r)
             after == After(st, r)
  <1>1. after.store = Sync(st, now) /\ after.routers = now
    BY DEF After
  <1>2. \A i \in Used(st) : Tab(st, i).path \in AnyPath
    BY TabOf DEF TabRow
  <1>3. now = [i \in Used(st) |-> IF i \in DOMAIN r THEN r[i] ELSE Tab(st, i).path]
    BY DEF RoutersOf
  <1>4. now \in [Used(st) -> AnyPath]
    BY <1>2, <1>3
  <1>5. \A i \in Used(st) : now[i] = IF i \in DOMAIN r THEN r[i] ELSE Tab(st, i).path
    BY <1>3
  <1> HIDE DEF now, after
  <1>6. HasVisible(st) => now[Visible(st)] \in AnyPath
    BY <1>4, VisibleIs
  <1>7. /\ StoreOK(after.store) /\ after.store.active = st.active
        /\ Used(after.store) = Used(st)
        /\ HasVisible(st) => Visible(after.store) = Visible(st)
    BY <1>1, <1>6, SyncIs
  <1> QED BY <1>1, <1>4, <1>5, <1>7 DEF after

LEMMA BecomeKeeps ==
  ASSUME NEW st, StoreOK(st), NEW r, \A i \in DOMAIN r : r[i] \in AnyPath, Become(st, r)
  PROVE  TabsInv'
  <1> DEFINE after == After(st, r)
  <1>1. Fits(st) /\ store' = after.store /\ routers' = after.routers
    BY DEF Become
  <1>2. /\ StoreOK(after.store) /\ Used(after.store) = Used(st)
        /\ after.routers \in [Used(st) -> AnyPath]
    BY AfterIs
  <1> HIDE DEF after
  <1>3. Fits(after.store)
    BY <1>1, <1>2 DEF Fits
  <1>4. StoreOK(store') /\ Fits(store') /\ routers' \in [Used(store') -> AnyPath]
    BY <1>1, <1>2, <1>3
  <1> QED BY <1>4 DEF TabsInv

-----------------------------------------------------------------------------
(* A tab more, and another tab in front.                                   *)
LEMMA Activated ==
  ASSUME NEW st, StoreOK(st), NEW i \in Used(st)
  PROVE  LET new == SetActive(st, i)
         IN  /\ StoreOK(new) /\ Used(new) = Used(st)
             /\ HasVisible(new) /\ Visible(new) = i /\ Tab(new, i) = Tab(st, i)
  <1> DEFINE new == SetActive(st, i)
  <1>1. /\ StoreOK(new) /\ HasVisible(new) /\ Visible(new) = i
        /\ DOMAIN Groups(new) = DOMAIN Groups(st)
        /\ \A t \in DOMAIN Groups(st) : Groups(new)[t].tabs = Groups(st)[t].tabs
    BY SetActiveIs
  <1> HIDE DEF new
  <1>2. Used(new) = Used(st)
    BY <1>1, SameUsed
  <1>3. Tab(new, i) = Tab(st, i)
    <2>1. PICK s \in DOMAIN Groups(st) : \E n \in DOMAIN Groups(st)[s].tabs : Tab(st, i) = Groups(st)[s].tabs[n]
      BY TabOf
    <2>2. PICK n \in DOMAIN Groups(st)[s].tabs : Tab(st, i) = Groups(st)[s].tabs[n]
      BY <2>1
    <2>3. Groups(new)[s].tabs = Groups(st)[s].tabs /\ s \in DOMAIN Groups(new)
      BY <1>1
    <2>4. n \in DOMAIN Groups(new)[s].tabs
      BY <2>3
    <2>5. Tab(new, Groups(new)[s].tabs[n].id) = Groups(new)[s].tabs[n]
      BY <1>1, <2>3, <2>4, TabIs
    <2>6. Groups(st)[s].tabs[n].id = i
      BY <2>2, TabOf
    <2> QED BY <2>2, <2>3, <2>5, <2>6
  <1> QED BY <1>1, <1>2, <1>3 DEF new

LEMMA Added ==
  ASSUME TabsInv, NEW s \in DOMAIN Groups(store), NEW p \in AnyPath
  PROVE  LET new == SetTabs(store, s, Append(Groups(store)[s].tabs, MakeTab(NewId, p)))
         IN  /\ StoreOK(new) /\ new.active = store.active
             /\ Used(store) \subseteq Used(new) /\ NewId \in Used(new)
             /\ Tab(new, NewId).path = p
  <1> DEFINE tabs == Groups(store)[s].tabs
             x == MakeTab(NewId, p)
             more == Append(tabs, x)
             new == SetTabs(store, s, more)
  <1>1. StoreOK(store) /\ NewId \in AnyId /\ NewId \notin Used(store)
    BY NewIdIs DEF TabsInv
  <1>2. TabsOK(tabs) /\ Groups(store)[s].activeTabId \in TabIds(tabs) /\ TabIds(tabs) \subseteq Used(store)
    BY <1>1, UsedIs DEF StoreOK, GroupsOK, GroupOK
  <1>3. /\ TabsOK(more) /\ TabIds(more) = TabIds(tabs) \cup {NewId}
        /\ Len(more) = Len(tabs) + 1 /\ more[Len(tabs) + 1] = x
    BY <1>1, <1>2, NewTab
  <1>4. x.id = NewId /\ x.path = p
    BY <1>1, MakeTabIs
  <1>5. ASSUME NEW t \in DOMAIN Groups(store), t # s
        PROVE  TabIds(more) \cap TabIds(Groups(store)[t].tabs) = {}
    <2>1. NewId \notin TabIds(Groups(store)[t].tabs)
      BY <1>1, UsedIs
    <2> QED BY <1>1, <1>3, <1>5, <2>1 DEF StoreOK, GroupsOK, Apart
  <1> HIDE DEF x, more, new
  <1>6. /\ StoreOK(new) /\ new.active = store.active
        /\ DOMAIN Groups(new) = DOMAIN Groups(store)
        /\ Groups(new)[s].tabs = more /\ SameBut(store, new, s)
    BY <1>1, <1>2, <1>3, <1>5, SetTabsIs DEF new
  <1>7. ASSUME NEW i \in Used(store) PROVE i \in Used(new)
    <2>1. PICK t \in DOMAIN Groups(store) : i \in TabIds(Groups(store)[t].tabs)
      BY UsedIs
    <2>2. i \in TabIds(Groups(new)[t].tabs)
      BY <1>3, <1>6, <2>1 DEF SameBut
    <2> QED BY <1>6, <2>2, UsedIs
  <1>8. NewId \in Used(new)
    BY <1>3, <1>6, UsedIs
  <1>9. Tab(new, NewId).path = p
    <2>1. Len(tabs) + 1 \in DOMAIN more
      BY <1>2, <1>3 DEF TabsOK, Listed
    <2>2. s \in DOMAIN Groups(new) /\ Len(tabs) + 1 \in DOMAIN Groups(new)[s].tabs
      BY <1>6, <2>1
    <2>3. Tab(new, Groups(new)[s].tabs[Len(tabs) + 1].id) = Groups(new)[s].tabs[Len(tabs) + 1]
      BY <1>6, <2>2, TabIs
    <2> QED BY <1>3, <1>4, <1>6, <2>3
  <1> QED BY <1>6, <1>7, <1>8, <1>9 DEF new, more, x

(* What opening a path leaves: nothing closed, and in front a new tab at   *)
(* that path or one that was stored with it.                               *)
Opened(new, p) ==
  /\ StoreOK(new) /\ Used(store) \subseteq Used(new)
  /\ HasVisible(new) /\ Visible(new) \in Used(new)
  /\ Tab(new, Visible(new)).path = p
  /\ Visible(new) \in Used(store) => Tab(store, Visible(new)).path = p

LEMMA FoundOpens ==
  ASSUME TabsInv, NEW s \in DOMAIN Groups(store), NEW p, Match(Groups(store)[s].tabs, p) # {}
  PROVE  Opened(SetActive(store, Groups(store)[s].tabs[Min(Match(Groups(store)[s].tabs, p))].id), p)
  <1> DEFINE tabs == Groups(store)[s].tabs
             n == Min(Match(tabs, p))
             i == tabs[n].id
             new == SetActive(store, i)
  <1>1. StoreOK(store)
    BY DEF TabsInv
  <1>2. Match(tabs, p) \in SUBSET DOMAIN tabs /\ DOMAIN tabs \subseteq Nat
    BY <1>1 DEF Match, StoreOK, GroupsOK, GroupOK, TabsOK, Listed
  <1>3. n \in Match(tabs, p)
    BY <1>2, LeastIs
  <1>4. n \in DOMAIN tabs /\ tabs[n].path = p
    BY <1>3 DEF Match
  <1> HIDE DEF n
  <1>5. i \in Used(store)
    BY <1>4, UsedIs DEF TabIds
  <1>6. Tab(store, i).path = p
    BY <1>1, <1>4, TabIs
  <1> HIDE DEF i
  <1>7. /\ StoreOK(new) /\ Used(new) = Used(store)
        /\ HasVisible(new) /\ Visible(new) = i /\ Tab(new, i) = Tab(store, i)
    BY <1>1, <1>5, Activated
  <1>8. Opened(new, p)
    BY <1>5, <1>6, <1>7 DEF Opened
  <1> QED BY <1>8 DEF i, n

LEMMA AddedOpens ==
  ASSUME TabsInv, NEW s \in DOMAIN Groups(store), NEW p \in AnyPath
  PROVE  Opened(SetActive(SetTabs(store, s, Append(Groups(store)[s].tabs, MakeTab(NewId, p))), NewId), p)
  <1> DEFINE added == SetTabs(store, s, Append(Groups(store)[s].tabs, MakeTab(NewId, p)))
             new == SetActive(added, NewId)
  <1>1. /\ StoreOK(added) /\ Used(store) \subseteq Used(added) /\ NewId \in Used(added)
        /\ Tab(added, NewId).path = p
    BY Added
  <1> HIDE DEF added
  <1>2. /\ StoreOK(new) /\ Used(new) = Used(added)
        /\ HasVisible(new) /\ Visible(new) = NewId /\ Tab(new, NewId) = Tab(added, NewId)
    BY <1>1, Activated
  <1>3. NewId \notin Used(store)
    BY NewIdIs DEF TabsInv
  <1>4. Opened(new, p)
    BY <1>1, <1>2, <1>3 DEF Opened
  <1> QED BY <1>4 DEF added

(* A workspace's only tab, a new one.                                      *)
LEMMA FreshGroup ==
  ASSUME TabsInv, NEW s \in Slugs, NEW p \in AnyPath
  PROVE  LET g == [tabs |-> <<MakeTab(NewId, p)>>, activeTabId |-> NewId]
             new == SetGroup(store, s, g)
         IN  /\ GroupOK(g) /\ StoreOK(new)
             /\ new.active = store.active /\ DOMAIN Groups(new) = DOMAIN Groups(store) \cup {s}
             /\ Groups(new)[s].activeTabId = NewId /\ NewId \in Used(new) /\ Tab(new, NewId).path = p
             /\ SameBut(store, new, s)
  <1> DEFINE tabs == <<MakeTab(NewId, p)>>
             g == [tabs |-> tabs, activeTabId |-> NewId]
             new == SetGroup(store, s, g)
  <1>1. StoreOK(store) /\ NewId \in AnyId /\ NewId \notin Used(store)
    BY NewIdIs DEF TabsInv
  <1>2. TabsOK(tabs) /\ TabIds(tabs) = {NewId} /\ Len(tabs) = 1 /\ tabs[1] = MakeTab(NewId, p)
    BY <1>1, OneTab
  <1>3. MakeTab(NewId, p).id = NewId /\ MakeTab(NewId, p).path = p
    BY <1>1, MakeTabIs
  <1>4. 1 \in DOMAIN tabs
    OBVIOUS
  <1> HIDE DEF tabs
  <1>5. GroupOK(g) /\ g.tabs = tabs /\ g.activeTabId = NewId
    BY <1>2 DEF GroupOK
  <1>6. \A t \in DOMAIN Groups(store) : t # s => TabIds(g.tabs) \cap TabIds(Groups(store)[t].tabs) = {}
    BY <1>1, <1>2, <1>5, UsedIs
  <1> HIDE DEF g, new
  <1>7. /\ StoreOK(new) /\ new.active = store.active
        /\ DOMAIN Groups(new) = DOMAIN Groups(store) \cup {s}
        /\ Groups(new)[s] = g /\ SameBut(store, new, s)
    BY <1>1, <1>5, <1>6, SetGroupIs DEF new
  <1>8. s \in DOMAIN Groups(new) /\ 1 \in DOMAIN Groups(new)[s].tabs /\ NewId \in TabIds(Groups(new)[s].tabs)
    BY <1>2, <1>4, <1>5, <1>7
  <1>9. NewId \in Used(new)
    BY <1>8, UsedIs
  <1>10. Tab(new, Groups(new)[s].tabs[1].id) = Groups(new)[s].tabs[1]
    BY <1>7, <1>8, TabIs
  <1>11. Tab(new, NewId).path = p
    BY <1>2, <1>3, <1>5, <1>7, <1>10
  <1>12. Groups(new)[s].activeTabId = NewId
    BY <1>5, <1>7
  <1> QED BY <1>5, <1>7, <1>9, <1>11, <1>12 DEF g, new, tabs

-----------------------------------------------------------------------------
(* The operations of the store keep a store sound.                         *)
LEMMA PathsAre ==
  /\ \A s \in Slugs : DefaultPath(s) \in AnyPath
  /\ \A p \in Paths : p \in AnyPath /\ p.slug \in Slugs /\ p.slug # None
  BY TabsAssumption DEF DefaultPath, AnyPath

LEMMA SwitchIs ==
  ASSUME TabsInv, NEW s \in Slugs, NEW p \in AnyPath
  PROVE  Opened(SwitchWorkspace(s, p), p)
  <1>1. CASE s \notin DOMAIN Groups(store)
    <2> DEFINE g == [tabs |-> <<MakeTab(NewId, p)>>, activeTabId |-> NewId]
               set == SetGroup(store, s, g)
               new == [set EXCEPT !.active = s]
    <2>1. SwitchWorkspace(s, p) = new
      BY <1>1 DEF SwitchWorkspace
    <2>2. /\ StoreOK(set)
          /\ DOMAIN Groups(set) = DOMAIN Groups(store) \cup {s}
          /\ Groups(set)[s].activeTabId = NewId /\ NewId \in Used(set) /\ Tab(set, NewId).path = p
          /\ SameBut(store, set, s)
      BY FreshGroup
    <2> HIDE DEF g, set
    <2>3. new = [active |-> s, byWorkspace |-> set.byWorkspace]
      BY <2>2 DEF StoreOK
    <2>4. new.active = s /\ Groups(new) = Groups(set)
      BY <2>3 DEF Groups
    <2> HIDE DEF new
    <2>5. StoreOK(new)
      <3>1. new = [active |-> new.active, byWorkspace |-> new.byWorkspace]
        BY <2>3, <2>4 DEF Groups
      <3>2. s \in DOMAIN Groups(new)
        BY <2>2, <2>4
      <3> QED BY <2>2, <2>4, <3>1, <3>2 DEF StoreOK
    <2>6. Used(new) = Used(set) /\ Tab(new, NewId) = Tab(set, NewId)
      BY <2>4 DEF Used, Tab, AllTabs
    <2>7. HasVisible(new) /\ Visible(new) = NewId
      BY <2>2, <2>4, TabsAssumption DEF HasVisible, Visible
    <2>8. ASSUME NEW i \in Used(store) PROVE i \in Used(set)
      <3>1. PICK t \in DOMAIN Groups(store) : i \in TabIds(Groups(store)[t].tabs)
        BY UsedIs
      <3>2. t # s /\ t \in DOMAIN Groups(set) /\ Groups(set)[t] = Groups(store)[t]
        BY <1>1, <2>2 DEF SameBut
      <3> QED BY <3>1, <3>2, UsedIs
    <2>9. NewId \notin Used(store)
      BY NewIdIs DEF TabsInv
    <2>10. Opened(new, p)
      BY <2>2, <2>5, <2>6, <2>7, <2>8, <2>9 DEF Opened
    <2> QED BY <2>1, <2>10
  <1>2. CASE s \in DOMAIN Groups(store) /\ Match(Groups(store)[s].tabs, p) # {}
    <2>1. SwitchWorkspace(s, p) = SetActive(store, Groups(store)[s].tabs[Min(Match(Groups(store)[s].tabs, p))].id)
      BY <1>2 DEF SwitchWorkspace
    <2> QED BY <1>2, <2>1, FoundOpens
  <1>3. CASE s \in DOMAIN Groups(store) /\ Match(Groups(store)[s].tabs, p) = {}
    <2>1. SwitchWorkspace(s, p)
            = SetActive(SetTabs(store, s, Append(Groups(store)[s].tabs, MakeTab(NewId, p))), NewId)
      BY <1>3 DEF SwitchWorkspace
    <2> QED BY <1>3, <2>1, AddedOpens
  <1> QED BY <1>1, <1>2, <1>3

LEMMA OpenTabIs ==
  ASSUME TabsInv, HasVisible(store), NEW p \in AnyPath
  PROVE  /\ Opened(OpenTab(p, TRUE), p)
         /\ \A activate \in BOOLEAN : StoreOK(OpenTab(p, activate))
  <1> DEFINE s == store.active
             tabs == Groups(store)[s].tabs
             added == SetTabs(store, s, Append(tabs, MakeTab(NewId, p)))
  <1>1. s \in DOMAIN Groups(store)
    BY VisibleIs DEF TabsInv
  <1>2. CASE Match(tabs, p) # {}
    <2>1. \A activate \in BOOLEAN : OpenTab(p, activate) = SetActive(store, tabs[Min(Match(tabs, p))].id)
      BY <1>2 DEF OpenTab
    <2>2. Opened(SetActive(store, tabs[Min(Match(tabs, p))].id), p)
      BY <1>1, <1>2, FoundOpens
    <2> QED BY <2>1, <2>2 DEF Opened
  <1>3. CASE Match(tabs, p) = {}
    <2>1. \A activate \in BOOLEAN : OpenTab(p, activate) = IF activate THEN SetActive(added, NewId) ELSE added
      BY <1>3 DEF OpenTab
    <2>2. Opened(SetActive(added, NewId), p)
      BY <1>1, AddedOpens
    <2>3. StoreOK(added)
      BY <1>1, Added
    <2> HIDE DEF added
    <2> QED BY <2>1, <2>2, <2>3 DEF Opened
  <1> QED BY <1>2, <1>3

LEMMA IndexIs ==
  ASSUME NEW tabs, NEW i \in TabIds(tabs)
  PROVE  IndexOf(tabs, i) \in DOMAIN tabs /\ tabs[IndexOf(tabs, i)].id = i
  <1>1. \E n \in DOMAIN tabs : tabs[n].id = i
    BY DEF TabIds
  <1> QED BY <1>1 DEF IndexOf

LEMMA OwnGroup ==
  ASSUME NEW st, StoreOK(st), NEW s \in DOMAIN Groups(st)
  PROVE  /\ s \in Slugs /\ TabsOK(Groups(st)[s].tabs)
         /\ Groups(st)[s].activeTabId \in TabIds(Groups(st)[s].tabs)
         /\ \A t \in DOMAIN Groups(st) : t # s =>
              TabIds(Groups(st)[s].tabs) \cap TabIds(Groups(st)[t].tabs) = {}
  BY DEF StoreOK, GroupsOK, GroupOK, Apart

LEMMA CloseIs ==
  ASSUME TabsInv, NEW i \in Used(store)
  PROVE  StoreOK(CloseTab(i))
  <1> DEFINE s == Owner(store, i)
             group == Groups(store)[s]
             tabs == group.tabs
             n == IndexOf(tabs, i)
             rest == RemoveAt(tabs, n)
  <1>1. StoreOK(store)
    BY DEF TabsInv
  <1>2. s \in DOMAIN Groups(store) /\ i \in TabIds(tabs)
    BY <1>1, OwnerOwns
  <1> HIDE DEF s
  <1>3. /\ s \in Slugs /\ TabsOK(tabs) /\ group.activeTabId \in TabIds(tabs)
        /\ \A t \in DOMAIN Groups(store) : t # s => TabIds(tabs) \cap TabIds(Groups(store)[t].tabs) = {}
    BY <1>1, <1>2, OwnGroup
  <1>4. n \in DOMAIN tabs /\ tabs[n].id = i
    BY <1>2, IndexIs
  <1>5. CASE Len(tabs) = 1
    <2>1. CloseTab(i) = SetGroup(store, s, [tabs |-> <<MakeTab(NewId, DefaultPath(s))>>, activeTabId |-> NewId])
      BY <1>5 DEF CloseTab, s
    <2> QED BY <1>3, <2>1, FreshGroup, PathsAre
  <1>6. CASE Len(tabs) # 1
    <2> DEFINE a == IF group.activeTabId # i THEN group.activeTabId ELSE rest[Min({n, Len(rest)})].id
               g == [tabs |-> rest, activeTabId |-> a]
    <2>1. CloseTab(i) = SetGroup(store, s, g)
      BY <1>6 DEF CloseTab, s
    <2>2. TabsOK(rest) /\ TabIds(rest) = TabIds(tabs) \ {i} /\ Len(rest) = Len(tabs) - 1
      BY <1>3, <1>4, TabGone
    <2>3. n \in 1..Len(tabs) /\ Len(tabs) \in Nat /\ DOMAIN rest = 1..Len(rest) /\ Len(rest) \in Nat
      BY <1>3, <1>4, <2>2 DEF TabsOK, Listed
    <2> HIDE DEF rest, n
    <2>4. Min({n, Len(rest)}) \in DOMAIN rest
      <3>1. Min({n, Len(rest)}) = IF n <= Len(rest) THEN n ELSE Len(rest)
        BY <2>3, LesserIs
      <3>2. (IF n <= Len(rest) THEN n ELSE Len(rest)) \in 1..Len(rest)
        <4> DEFINE m == Len(rest)
                   l == Len(tabs)
        <4>1. l \in Nat /\ l # 1 /\ n \in 1..l /\ m = l - 1
          BY <1>6, <2>2, <2>3
        <4> HIDE DEF m, l
        <4>2. (IF n <= m THEN n ELSE m) \in 1..m
          BY <4>1
        <4> QED BY <4>2 DEF m
      <3> QED BY <2>3, <3>1, <3>2
    <2>5. rest[Min({n, Len(rest)})].id \in TabIds(rest)
      BY <2>4 DEF TabIds
    <2>6. a \in TabIds(rest)
      BY <1>3, <2>2, <2>5
    <2> HIDE DEF a
    <2>7. GroupOK(g) /\ g.tabs = rest
      BY <2>2, <2>6 DEF GroupOK
    <2>8. \A t \in DOMAIN Groups(store) : t # s => TabIds(g.tabs) \cap TabIds(Groups(store)[t].tabs) = {}
      BY <1>3, <2>2, <2>7
    <2> HIDE DEF g
    <2>9. StoreOK(SetGroup(store, s, g))
      BY <1>1, <1>3, <2>7, <2>8, SetGroupIs
    <2> QED BY <2>1, <2>9
  <1> QED BY <1>5, <1>6

LEMMA PinIs ==
  ASSUME TabsInv, NEW i \in Used(store)
  PROVE  StoreOK(TogglePin(i))
  <1> DEFINE s == Owner(store, i)
             tabs == Groups(store)[s].tabs
             n == IndexOf(tabs, i)
             rest == RemoveAt(tabs, n)
             x == [tabs[n] EXCEPT !.pinned = ~@]
             e == PinnedBoundary(rest)
             put == InsertAt(rest, e + 1, x)
  <1>1. StoreOK(store)
    BY DEF TabsInv
  <1>2. s \in DOMAIN Groups(store) /\ i \in TabIds(tabs)
    BY <1>1, OwnerOwns
  <1> HIDE DEF s
  <1>3. /\ TabsOK(tabs) /\ Groups(store)[s].activeTabId \in TabIds(tabs)
        /\ \A t \in DOMAIN Groups(store) : t # s => TabIds(tabs) \cap TabIds(Groups(store)[t].tabs) = {}
    BY <1>1, <1>2, OwnGroup
  <1>4. n \in DOMAIN tabs /\ tabs[n].id = i /\ tabs[n] \in TabRow
    <2>1. n \in DOMAIN tabs /\ tabs[n].id = i
      BY <1>2, IndexIs
    <2>2. tabs \in Seq(TabRow)
      BY <1>3 DEF TabsOK, Listed
    <2> QED BY <2>1, <2>2
  <1>5. TabsOK(rest) /\ TabIds(rest) = TabIds(tabs) \ {i} /\ Len(rest) \in Nat
    BY <1>3, <1>4, TabGone DEF TabsOK, Listed
  <1>6. x \in TabRow /\ x.id = i
    BY <1>4 DEF TabRow
  <1> HIDE DEF n, rest, x
  <1>7. e \in 0..Len(rest)
    BY <1>5, BoundaryIs
  <1>8. /\ e + 1 \in 1..(Len(rest) + 1)
        /\ x.pinned => e + 1 <= PinnedBoundary(rest) + 1
        /\ ~x.pinned => e + 1 > PinnedBoundary(rest)
    BY <1>5, <1>7
  <1>9. TabsOK(put) /\ TabIds(put) = TabIds(rest) \cup {x.id}
    <2>1. x.id \notin TabIds(rest)
      BY <1>5, <1>6
    <2> HIDE DEF e
    <2> QED BY <1>5, <1>6, <1>8, <2>1, TabPut
  <1>10. TabIds(put) = TabIds(tabs)
    BY <1>2, <1>5, <1>6, <1>9
  <1>11. TogglePin(i) = SetTabs(store, s, put)
    BY DEF TogglePin, s, n, rest, x
  <1> HIDE DEF put, tabs
  <1> QED BY <1>1, <1>2, <1>3, <1>9, <1>10, <1>11, SetTabsIs DEF tabs

LEMMA BoundaryGone ==
  ASSUME NEW tabs, TabsOK(tabs), NEW n \in DOMAIN tabs
  PROVE  LET b == PinnedBoundary(tabs)
             c == PinnedBoundary(RemoveAt(tabs, n))
         IN  /\ b \in Nat /\ c \in Nat
             /\ tabs[n].pinned => b <= c + 1
             /\ ~tabs[n].pinned => c <= b
  <1> DEFINE r == RemoveAt(tabs, n)
             L == Len(tabs)
             b == PinnedBoundary(tabs)
             c == PinnedBoundary(r)
  <1>1. tabs \in Seq(TabRow) /\ L \in Nat /\ DOMAIN tabs = 1..L
    BY DEF TabsOK, Listed
  <1>2. b \in 0..L /\ \A k \in DOMAIN tabs : tabs[k].pinned <=> k <= b
    BY BoundaryIs
  <1>3. TabsOK(r) /\ Len(r) = L - 1 /\ DOMAIN r = 1..(L - 1)
    BY <1>1, TabGone, RemoveAtIs
  <1>4. \A k \in 1..(L - 1) : r[k] = IF k < n THEN tabs[k] ELSE tabs[k + 1]
    BY <1>1, RemoveAtIs
  <1>5. c \in 0..(L - 1) /\ \A k \in DOMAIN r : r[k].pinned <=> k <= c
    BY <1>3, BoundaryIs
  <1> HIDE DEF r, L, b, c
  <1>6. ASSUME tabs[n].pinned PROVE b <= c + 1
    <2> SUFFICES ASSUME ~(b <= c + 1) PROVE FALSE
      OBVIOUS
    <2>1. c + 1 \in 1..(L - 1) /\ c + 1 \in DOMAIN tabs /\ (c + 1) + 1 \in DOMAIN tabs
      BY <1>1, <1>2, <1>5
    <2>2. c + 1 <= b /\ (c + 1) + 1 <= b /\ ~(c + 1 <= c)
      BY <1>2, <1>5
    <2>3. r[c + 1].pinned
      BY <1>2, <1>4, <2>1, <2>2
    <2> QED BY <1>3, <1>5, <2>1, <2>2, <2>3
  <1>7. ASSUME ~tabs[n].pinned PROVE c <= b
    <2> SUFFICES ASSUME ~(c <= b) PROVE FALSE
      OBVIOUS
    <2>1. c \in 1..(L - 1) /\ c \in DOMAIN tabs /\ c + 1 \in DOMAIN tabs
      BY <1>1, <1>2, <1>5
    <2>2. ~(c <= b) /\ ~(c + 1 <= b) /\ c <= c
      BY <1>2, <1>5
    <2>3. ~r[c].pinned
      BY <1>2, <1>4, <2>1, <2>2
    <2> QED BY <1>3, <1>5, <2>1, <2>2, <2>3
  <1>8. b \in Nat /\ c \in Nat
    BY <1>1, <1>2, <1>5
  <1> QED BY <1>6, <1>7, <1>8 DEF b, c, r

LEMMA MoveIs ==
  ASSUME TabsInv, HasVisible(store),
         NEW from \in DOMAIN Groups(store)[store.active].tabs,
         NEW to \in DOMAIN Groups(store)[store.active].tabs
  PROVE  StoreOK(MoveTab(from, to))
  <1> DEFINE s == store.active
             tabs == Groups(store)[s].tabs
             L == Len(tabs)
             rest == RemoveAt(tabs, from)
             x == tabs[from]
             b == PinnedBoundary(tabs)
             c == PinnedBoundary(rest)
             target == Clamp(tabs, from, to)
             put == InsertAt(rest, target, x)
  <1>1. StoreOK(store) /\ s \in DOMAIN Groups(store)
    BY VisibleIs DEF TabsInv
  <1>2. /\ TabsOK(tabs) /\ Groups(store)[s].activeTabId \in TabIds(tabs)
        /\ \A t \in DOMAIN Groups(store) : t # s => TabIds(tabs) \cap TabIds(Groups(store)[t].tabs) = {}
    BY <1>1, OwnGroup
  <1> HIDE DEF s
  <1>3. tabs \in Seq(TabRow) /\ L \in Nat /\ DOMAIN tabs = 1..L /\ from \in 1..L /\ to \in 1..L
    BY <1>2 DEF TabsOK, Listed, s
  <1>4. x \in TabRow /\ x.id \in TabIds(tabs)
    BY <1>3 DEF TabIds
  <1>5. b \in 0..L /\ (x.pinned <=> from <= b)
    BY <1>2, <1>3, BoundaryIs
  <1>6. TabsOK(rest) /\ TabIds(rest) = TabIds(tabs) \ {x.id} /\ Len(rest) = L - 1
    BY <1>2, <1>3, TabGone
  <1>7. c \in Nat /\ (x.pinned => b <= c + 1) /\ (~x.pinned => c <= b)
    BY <1>2, <1>3, BoundaryGone
  <1>8. target = IF x.pinned THEN Min({to, b}) ELSE Max({to, b + 1})
    BY DEF Clamp
  <1> HIDE DEF tabs, L, rest, x, b, c, target
  <1>9. /\ Min({to, b}) = (IF to <= b THEN to ELSE b)
        /\ Max({to, b + 1}) = (IF to <= b + 1 THEN b + 1 ELSE to)
    <2>1. to \in Nat /\ b \in Nat /\ b + 1 \in Nat
      BY <1>3, <1>5
    <2> QED BY <2>1, LesserIs
  <1>10. /\ target \in 1..(Len(rest) + 1)
         /\ x.pinned => target <= c + 1
         /\ ~x.pinned => target > c
    <2>1. CASE x.pinned
      <3>1. target = IF to <= b THEN to ELSE b
        BY <1>8, <1>9, <2>1
      <3> QED BY <1>3, <1>5, <1>6, <1>7, <2>1, <3>1
    <2>2. CASE ~x.pinned
      <3>1. target = IF to <= b + 1 THEN b + 1 ELSE to
        BY <1>8, <1>9, <2>2
      <3>2. b + 1 <= from
        BY <1>3, <1>5, <2>2
      <3> QED BY <1>3, <1>5, <1>6, <1>7, <2>2, <3>1, <3>2
    <2> QED BY <2>1, <2>2
  <1>11. TabsOK(put) /\ TabIds(put) = TabIds(rest) \cup {x.id}
    <2>1. x.id \notin TabIds(rest)
      BY <1>6
    <2> QED BY <1>4, <1>6, <1>10, <2>1, TabPut DEF c
  <1>12. TabIds(put) = TabIds(tabs)
    BY <1>4, <1>6, <1>11
  <1>13. MoveTab(from, to) = SetTabs(store, s, put)
    BY DEF MoveTab, s, tabs, rest, x, target
  <1> HIDE DEF put
  <1> QED BY <1>1, <1>2, <1>11, <1>12, <1>13, SetTabsIs DEF tabs

-----------------------------------------------------------------------------
(* Stores that come from elsewhere: a validation, a start, version 1.      *)
LEMMA StoresOK ==
  ASSUME NEW G, GroupsOK(G), NEW A \in SUBSET DOMAIN G, NEW st \in StoresAt(A, G)
  PROVE  StoreOK(st) /\ Groups(st) = G
  <1>1. PICK a \in IF A = {} THEN {None} ELSE A : st = [active |-> a, byWorkspace |-> G]
    BY DEF StoresAt
  <1>2. a = None \/ a \in DOMAIN G
    BY <1>1
  <1> QED BY <1>1, <1>2 DEF StoreOK, Groups

LEMMA ValidatedIs ==
  ASSUME TabsInv, NEW valid \in SUBSET Slugs, NEW st \in Validated(valid)
  PROVE  StoreOK(st)
  <1> DEFINE G == Groups(store)
             left == [s \in DOMAIN G \cap valid |-> G[s]]
  <1>1. StoreOK(store)
    BY DEF TabsInv
  <1>2. GroupsOK(left) /\ DOMAIN left = DOMAIN G \cap valid
    BY <1>1 DEF StoreOK, GroupsOK, Apart
  <1>3. CASE store.active \in valid
    <2>1. store.active \in DOMAIN left
      BY <1>1, <1>2, <1>3, TabsAssumption DEF StoreOK
    <2>2. st \in StoresAt({store.active}, left)
      BY <1>3 DEF Validated
    <2> HIDE DEF left
    <2> QED BY <1>2, <2>1, <2>2, StoresOK
  <1>4. CASE store.active \notin valid /\ (DOMAIN left # {} \/ valid = {})
    <2>1. st \in StoresAt(DOMAIN left, left)
      BY <1>4 DEF Validated
    <2> HIDE DEF left
    <2> QED BY <1>2, <2>1, StoresOK
  <1>5. CASE store.active \notin valid /\ ~(DOMAIN left # {} \/ valid = {})
    <2>1. PICK s \in valid : st \in StoresAt({s}, Seeded(s))
      BY <1>5 DEF Validated
    <2> DEFINE g == [tabs |-> <<MakeTab(NewId, DefaultPath(s))>>, activeTabId |-> NewId]
    <2>2. GroupOK(g)
      BY FreshGroup, PathsAre
    <2>3. Seeded(s) = [t \in {s} |-> g]
      BY DEF Seeded
    <2> HIDE DEF g
    <2>4. GroupsOK(Seeded(s)) /\ DOMAIN Seeded(s) = {s}
      BY <2>2, <2>3 DEF GroupsOK, Apart
    <2> QED BY <2>1, <2>4, StoresOK
  <1> QED BY <1>3, <1>4, <1>5

LEMMA PointingIs ==
  ASSUME NEW tabs, Listed(tabs), Len(tabs) # 0, NEW i
  PROVE  /\ Pointing(tabs, i) \in TabIds(tabs)
         /\ i \in TabIds(tabs) => Pointing(tabs, i) = i
  <1>1. 1 \in DOMAIN tabs
    BY DEF Listed
  <1>2. tabs[1].id \in TabIds(tabs)
    BY <1>1 DEF TabIds
  <1> QED BY <1>2 DEF Pointing

LEMMA KeptIs ==
  ASSUME NEW tabs, Listed(tabs), NEW s
  PROVE  /\ Listed(Kept(tabs, s)) /\ TabIds(Kept(tabs, s)) \subseteq TabIds(tabs)
         /\ TabIds(Kept(tabs, s)) = {tabs[n].id : n \in {m \in DOMAIN tabs : tabs[m].path.slug = s}}
         /\ Len(Kept(tabs, s)) = 0 <=> \A n \in DOMAIN tabs : tabs[n].path.slug # s
         /\ PinSorted(tabs) => PinSorted(Kept(tabs, s))
  <1> DEFINE S == {n \in DOMAIN tabs : tabs[n].path.slug = s}
             r == Filter(tabs, S)
  <1>1. S \in SUBSET DOMAIN tabs /\ r = Kept(tabs, s)
    BY DEF Kept
  <1>2. S = {} <=> \A n \in DOMAIN tabs : tabs[n].path.slug # s
    OBVIOUS
  <1>3. {tabs[n].id : n \in S} \subseteq TabIds(tabs)
    BY <1>1 DEF TabIds
  <1> HIDE DEF S
  <1>4. /\ Listed(r) /\ TabIds(r) = {tabs[n].id : n \in S}
        /\ Len(r) = 0 <=> S = {}
        /\ PinSorted(tabs) => PinSorted(r)
    BY <1>1, FilterTabs
  <1> HIDE DEF r
  <1>5. TabIds(Kept(tabs, s)) = {tabs[n].id : n \in {m \in DOMAIN tabs : tabs[m].path.slug = s}}
    BY <1>1, <1>4 DEF S
  <1> QED BY <1>1, <1>2, <1>3, <1>4, <1>5

(* What a start may find: the groups of a sound store, or those made of    *)
(* version 1, which need not have pinned tabs first.                       *)
Loose(st) ==
  /\ DOMAIN Groups(st) \subseteq Slugs
  /\ \A s \in DOMAIN Groups(st) : Listed(Groups(st)[s].tabs)
  /\ Apart(Groups(st))

Restored(st, s) == PinnedFirst(Kept(Groups(st)[s].tabs, s))

LEMMA RestoredIs ==
  ASSUME NEW old, Loose(old), NEW s \in DOMAIN Groups(old)
  PROVE  /\ TabsOK(Restored(old, s)) /\ TabIds(Restored(old, s)) \subseteq TabIds(Groups(old)[s].tabs)
         /\ Restored(old, s) # <<>> <=> Len(Restored(old, s)) # 0
  <1> DEFINE tabs == Groups(old)[s].tabs
             kept == Kept(tabs, s)
             r == Restored(old, s)
  <1>1. Listed(tabs)
    BY DEF Loose
  <1>2. Listed(kept) /\ TabIds(kept) \subseteq TabIds(tabs)
    BY <1>1, KeptIs
  <1>3. r = PinnedFirst(kept)
    BY DEF Restored
  <1> HIDE DEF kept, r
  <1>4. TabsOK(r) /\ TabIds(r) = TabIds(kept)
    BY <1>2, <1>3, PinnedFirstIs
  <1>5. r \in Seq(TabRow)
    BY <1>4 DEF TabsOK, Listed
  <1>6. r # <<>> <=> Len(r) # 0
    BY <1>5
  <1> QED BY <1>2, <1>4, <1>6 DEF r

LEMMA MergedIs ==
  ASSUME NEW old, Loose(old), NEW st \in Merged(old)
  PROVE  /\ StoreOK(st) /\ Used(st) \subseteq Used(old)
         /\ \A s \in DOMAIN Groups(old) : Restored(old, s) # <<>> =>
              /\ s \in DOMAIN Groups(st) /\ Groups(st)[s].tabs = Restored(old, s)
              /\ Groups(st)[s].activeTabId = Pointing(Restored(old, s), Groups(old)[s].activeTabId)
  <1> DEFINE D == {s \in DOMAIN Groups(old) : Restored(old, s) # <<>>}
             G == [s \in D |-> [tabs |-> Restored(old, s),
                                activeTabId |-> Pointing(Restored(old, s), Groups(old)[s].activeTabId)]]
             A == IF old.active \in DOMAIN G THEN {old.active} ELSE DOMAIN G
  <1>1. st \in StoresAt(A, G)
    BY DEF Merged, Restored
  <1>2. DOMAIN G = D /\ D \subseteq DOMAIN Groups(old) /\ G = [s \in DOMAIN G |-> G[s]]
    OBVIOUS
  <1>3. \A s \in D : /\ G[s] = [tabs |-> G[s].tabs, activeTabId |-> G[s].activeTabId]
                     /\ G[s].tabs = Restored(old, s)
                     /\ G[s].activeTabId = Pointing(Restored(old, s), Groups(old)[s].activeTabId)
    OBVIOUS
  <1>4. \A s \in D : s \in DOMAIN Groups(old) /\ Restored(old, s) # <<>>
    OBVIOUS
  <1>5. \A s \in DOMAIN Groups(old) : Restored(old, s) # <<>> => s \in D
    OBVIOUS
  <1>6. A \in SUBSET DOMAIN G
    OBVIOUS
  <1> HIDE DEF G, A, D
  <1>7. ASSUME NEW s \in D
        PROVE  GroupOK(G[s]) /\ TabIds(G[s].tabs) \subseteq TabIds(Groups(old)[s].tabs)
    <2> DEFINE r == Restored(old, s)
    <2>1. TabsOK(r) /\ TabIds(r) \subseteq TabIds(Groups(old)[s].tabs) /\ Len(r) # 0
      BY <1>4, RestoredIs
    <2> HIDE DEF r
    <2>2. Pointing(r, Groups(old)[s].activeTabId) \in TabIds(r)
      BY <2>1, PointingIs DEF TabsOK
    <2>3. G[s].tabs = r /\ G[s].activeTabId \in TabIds(r)
      BY <1>3, <2>2 DEF r
    <2> QED BY <1>3, <2>1, <2>3 DEF GroupOK
  <1>8. Apart(G)
    <2> SUFFICES ASSUME NEW s \in D, NEW t \in D, s # t
                 PROVE  TabIds(G[s].tabs) \cap TabIds(G[t].tabs) = {}
      BY <1>2 DEF Apart
    <2>1. TabIds(Groups(old)[s].tabs) \cap TabIds(Groups(old)[t].tabs) = {}
      BY <1>2 DEF Loose, Apart
    <2> QED BY <1>7, <2>1
  <1>9. GroupsOK(G)
    BY <1>2, <1>7, <1>8 DEF GroupsOK, Loose
  <1>10. StoreOK(st) /\ Groups(st) = G
    BY <1>1, <1>6, <1>9, StoresOK
  <1>11. ASSUME NEW i \in Used(st) PROVE i \in Used(old)
    <2>1. PICK s \in D : i \in TabIds(G[s].tabs)
      BY <1>2, <1>10, UsedIs
    <2> QED BY <1>2, <1>7, <2>1, UsedIs
  <1>12. \A s \in DOMAIN Groups(old) : Restored(old, s) # <<>> =>
           /\ s \in DOMAIN Groups(st) /\ Groups(st)[s].tabs = Restored(old, s)
           /\ Groups(st)[s].activeTabId = Pointing(Restored(old, s), Groups(old)[s].activeTabId)
    BY <1>2, <1>3, <1>5, <1>10
  <1> QED BY <1>10, <1>11, <1>12

LEMMA StoreIsLoose ==
  ASSUME NEW st, StoreOK(st)
  PROVE  Loose(st)
  BY DEF StoreOK, GroupsOK, GroupOK, TabsOK, Loose

LEMMA MigratedIs ==
  ASSUME NEW flat, Listed(flat), NEW i, NEW old \in Migrated(flat, i)
  PROVE  Loose(old) /\ Used(old) \subseteq TabIds(flat)
  <1> DEFINE D == {flat[n].path.slug : n \in DOMAIN flat} \ {None}
             G == [s \in D |-> [tabs |-> Kept(flat, s), activeTabId |-> Pointing(Kept(flat, s), i)]]
             owners == {s \in DOMAIN G : i \in TabIds(G[s].tabs)}
  <1>1. old \in StoresAt(IF owners # {} THEN owners ELSE DOMAIN G, G)
    BY DEF Migrated
  <1>2. DOMAIN G = D /\ \A s \in D : G[s].tabs = Kept(flat, s)
    OBVIOUS
  <1>3. D \subseteq Slugs
    <2> SUFFICES ASSUME NEW n \in DOMAIN flat PROVE flat[n].path.slug \in Slugs \cup {None}
      OBVIOUS
    <2>1. flat[n] \in TabRow
      BY DEF Listed
    <2>2. flat[n].path \in Paths \/ flat[n].path = Root
      BY <2>1 DEF TabRow, AnyPath
    <2> QED BY <2>2, TabsAssumption DEF Root
  <1> HIDE DEF G, D, owners
  <1>4. Groups(old) = G
    BY <1>1 DEF StoresAt, Groups
  <1>5. \A s \in D : /\ Listed(Kept(flat, s)) /\ TabIds(Kept(flat, s)) \subseteq TabIds(flat)
                     /\ TabIds(Kept(flat, s)) = {flat[n].id : n \in {m \in DOMAIN flat : flat[m].path.slug = s}}
    BY KeptIs
  <1>6. Apart(G)
    <2> SUFFICES ASSUME NEW s \in D, NEW t \in D, s # t, NEW x \in TabIds(G[s].tabs), x \in TabIds(G[t].tabs)
                 PROVE  FALSE
      BY <1>2 DEF Apart
    <2>1. x \in TabIds(Kept(flat, s)) /\ x \in TabIds(Kept(flat, t))
      BY <1>2
    <2>2. PICK n \in DOMAIN flat : flat[n].path.slug = s /\ x = flat[n].id
      BY <1>5, <2>1
    <2>3. PICK m \in DOMAIN flat : flat[m].path.slug = t /\ x = flat[m].id
      BY <1>5, <2>1
    <2> QED BY <2>2, <2>3 DEF Listed, Unique
  <1>7. Loose(old)
    BY <1>2, <1>3, <1>4, <1>5, <1>6 DEF Loose
  <1>8. ASSUME NEW x \in Used(old) PROVE x \in TabIds(flat)
    <2>1. PICK s \in D : x \in TabIds(G[s].tabs)
      BY <1>2, <1>4, UsedIs
    <2> QED BY <1>2, <1>5, <2>1
  <1> QED BY <1>7, <1>8

LEMMA TwoTabs ==
  ASSUME NEW i \in Ids, NEW j \in Ids, i # j, NEW p \in AnyPath, NEW q \in AnyPath
  PROVE  Listed(<<MakeTab(i, p), MakeTab(j, q)>>) /\ TabIds(<<MakeTab(i, p), MakeTab(j, q)>>) = {i, j}
  <1> DEFINE x == MakeTab(i, p)
             y == MakeTab(j, q)
             r == <<x, y>>
  <1>1. x \in TabRow /\ y \in TabRow /\ x.id = i /\ y.id = j
    BY MakeTabIs DEF AnyId
  <1> HIDE DEF x, y
  <1>2. r \in Seq(TabRow) /\ DOMAIN r = {1, 2} /\ r[1] = x /\ r[2] = y
    BY <1>1
  <1> HIDE DEF r
  <1>3. Listed(r) /\ TabIds(r) = {i, j}
    BY <1>1, <1>2 DEF Listed, Unique, TabIds
  <1> QED BY <1>3 DEF r, x, y

-----------------------------------------------------------------------------
(* The invariant is inductive.                                             *)
LEMMA RoutersArePaths ==
  ASSUME TabsInv
  PROVE  /\ DOMAIN routers = Used(store) /\ \A i \in DOMAIN routers : routers[i] \in AnyPath
         /\ \A i \in Used(store), p \in AnyPath : \A k \in DOMAIN Moved(i, p) : Moved(i, p)[k] \in AnyPath
  BY DEF TabsInv, Moved

LEMMA InitTabs ==
  ASSUME Init
  PROVE  TabsInv
  <1>1. PICK p \in Paths \cup {Root}, q \in Paths \cup {Root}, i \in Ids, j \in Ids, k \in Ids \cup {None} :
          i # j /\ \E old \in Migrated(<<MakeTab(i, p), MakeTab(j, q)>>, k) : store \in Merged(old)
    BY DEF Init
  <1> DEFINE flat == <<MakeTab(i, p), MakeTab(j, q)>>
  <1>2. Listed(flat) /\ TabIds(flat) = {i, j}
    BY <1>1, TwoTabs DEF AnyPath
  <1>3. PICK old \in Migrated(flat, k) : store \in Merged(old)
    BY <1>1
  <1> HIDE DEF flat
  <1>4. Loose(old) /\ Used(old) \subseteq TabIds(flat)
    BY <1>2, MigratedIs
  <1>5. StoreOK(store) /\ Used(store) \subseteq Used(old)
    BY <1>3, <1>4, MergedIs
  <1>6. Fits(store)
    BY <1>2, <1>4, <1>5 DEF Fits
  <1>7. \A n \in Used(store) : Tab(store, n).path \in AnyPath
    BY <1>5, TabOf DEF TabRow
  <1>8. routers = [n \in Used(store) |-> Tab(store, n).path]
    BY DEF Init
  <1>9. routers \in [Used(store) -> AnyPath]
    BY <1>7, <1>8
  <1> QED BY <1>5, <1>6, <1>9 DEF TabsInv

LEMMA MoveKeeps ==
  ASSUME TabsInv, NEW i \in Used(store), NEW p \in AnyPath, Move(i, p)
  PROVE  TabsInv'
  BY RoutersArePaths, BecomeKeeps DEF Move, TabsInv

LEMMA OtherWorkspaceKeeps ==
  ASSUME TabsInv, NEW p \in Paths, ToOtherWorkspace(p)
  PROVE  TabsInv'
  <1>1. StoreOK(SwitchWorkspace(p.slug, p))
    BY SwitchIs, PathsAre DEF Opened
  <1> QED BY <1>1, RoutersArePaths, BecomeKeeps DEF ToOtherWorkspace

LEMMA PushedIs ==
  ASSUME TabsInv, NEW p \in Paths, HasVisible(store) \/ p.slug # store.active
  PROVE  /\ StoreOK(Pushed(p)) /\ Used(store) \subseteq Used(Pushed(p))
         /\ ~Moves(p) => Opened(Pushed(p), p)
         /\ Moves(p) => Pushed(p) = store
  <1>1. StoreOK(store) /\ p \in AnyPath /\ p.slug \in Slugs
    BY PathsAre DEF TabsInv
  <1>2. CASE p.slug # store.active
    <2>1. Pushed(p) = SwitchWorkspace(p.slug, p) /\ ~Moves(p)
      BY <1>2 DEF Pushed, Moves
    <2> QED BY <1>1, <2>1, SwitchIs DEF Opened
  <1>3. CASE p.slug = store.active /\ Parked(p)
    <2>1. Pushed(p) = OpenTab(p, TRUE) /\ ~Moves(p)
      BY <1>3 DEF Pushed, Moves
    <2> QED BY <1>1, <1>3, <2>1, OpenTabIs DEF Opened
  <1>4. CASE p.slug = store.active /\ ~Parked(p)
    <2>1. Pushed(p) = store /\ Moves(p)
      BY <1>4 DEF Pushed, Moves
    <2> QED BY <1>1, <2>1
  <1> QED BY <1>2, <1>3, <1>4

LEMMA SomeVisible ==
  ASSUME NEW p \in Paths, p.slug = store.active
  PROVE  HasVisible(store)
  BY PathsAre DEF HasVisible

LEMMA StepTabs ==
  ASSUME TabsInv, [Next]_vars
  PROVE  TabsInv'
  <1>0. StoreOK(store) /\ DOMAIN routers = Used(store) /\ \A i \in DOMAIN routers : routers[i] \in AnyPath
    BY RoutersArePaths DEF TabsInv
  <1>1. ASSUME NEW i \in Ids, ToOverlay(i) PROVE TabsInv'
    BY <1>1, MoveKeeps DEF ToOverlay, Live, AnyPath
  <1>2. ASSUME NEW i \in Ids, Back(i) PROVE TabsInv'
    BY <1>2, MoveKeeps DEF Back, Live, AnyPath
  <1>3. ASSUME NEW i \in Ids, Close(i) PROVE TabsInv'
    BY <1>0, <1>3, CloseIs, BecomeKeeps DEF Close
  <1>4. ASSUME NEW i \in Ids, Activate(i) PROVE TabsInv'
    <2>1. StoreOK(SetActive(store, i))
      BY <1>0, <1>4, Activated DEF Activate
    <2> QED BY <1>0, <1>4, <2>1, BecomeKeeps DEF Activate
  <1>5. ASSUME NEW i \in Ids, Pin(i) PROVE TabsInv'
    BY <1>0, <1>5, PinIs, BecomeKeeps DEF Pin
  <1>6. ASSUME NEW i \in Ids, NEW p \in Paths, Push(i, p) PROVE TabsInv'
    <2>1. StoreOK(Pushed(p))
      BY PushedIs, SomeVisible
    <2>2. i \in Used(store) /\ p \in AnyPath
      BY <1>6, PathsAre DEF Push, Live
    <2>3. \A k \in DOMAIN PushedRouters(i, p) : PushedRouters(i, p)[k] \in AnyPath
      BY <2>2, RoutersArePaths DEF PushedRouters
    <2> QED BY <1>6, <2>1, <2>3, BecomeKeeps DEF Push
  <1>7. ASSUME NEW i \in Ids, NEW p \in Paths, Replace(i, p) PROVE TabsInv'
    BY <1>7, MoveKeeps, OtherWorkspaceKeeps, PathsAre DEF Replace, Live
  <1>8. ASSUME NEW p \in Paths, NEW now \in BOOLEAN, OpenInNewTab(p, now) PROVE TabsInv'
    <2>1. CASE ToOtherWorkspace(p)
      BY <2>1, OtherWorkspaceKeeps
    <2>2. CASE Become(OpenTab(p, now), routers)
      <3>1. StoreOK(OpenTab(p, now))
        BY <1>8, OpenTabIs, PathsAre DEF OpenInNewTab
      <3> QED BY <1>0, <2>2, <3>1, BecomeKeeps
    <2> QED BY <1>8, <2>1, <2>2 DEF OpenInNewTab
  <1>9. ASSUME NEW p \in Paths, FollowLink(p) PROVE TabsInv'
    <2>1. StoreOK(OpenTab(p, TRUE))
      BY <1>9, OpenTabIs, PathsAre DEF FollowLink
    <2> QED BY <1>0, <1>9, <2>1, BecomeKeeps DEF FollowLink
  <1>10. ASSUME AddTab PROVE TabsInv'
    <2> DEFINE new == SetActive(SetTabs(store, store.active,
                        Append(Groups(store)[store.active].tabs,
                               MakeTab(NewId, DefaultPath(store.active)))), NewId)
    <2>1. store.active \in DOMAIN Groups(store)
      BY <1>0, <1>10, VisibleIs DEF AddTab
    <2>2. DefaultPath(store.active) \in AnyPath
      BY <1>0, <2>1, OwnGroup, PathsAre
    <2>3. StoreOK(new)
      BY <2>1, <2>2, AddedOpens DEF Opened
    <2>4. Become(new, routers)
      BY <1>10 DEF AddTab
    <2> HIDE DEF new
    <2> QED BY <1>0, <2>3, <2>4, BecomeKeeps
  <1>11. ASSUME ReloadActiveTab PROVE TabsInv'
    <2>1. HasVisible(store) /\ Visible(store) \in Used(store)
      BY <1>0, <1>11, VisibleIs DEF ReloadActiveTab
    <2>2. Tab(store, Visible(store)).path \in AnyPath
      BY <1>0, <2>1, TabOf DEF TabRow
    <2> QED BY <1>11, <2>1, <2>2, MoveKeeps DEF ReloadActiveTab
  <1>12. ASSUME Reset PROVE TabsInv'
    <2> DEFINE none == [active |-> None, byWorkspace |-> <<>>]
               r == <<>>
    <2>1. StoreOK(none)
      <3>1. none.active = None /\ Groups(none) = <<>> /\ DOMAIN <<>> = {}
        BY DEF Groups
      <3>2. <<>> = [s \in {} |-> <<>>[s]]
        OBVIOUS
      <3>3. GroupsOK(Groups(none))
        BY <3>1, <3>2 DEF GroupsOK, Apart
      <3> QED BY <3>1, <3>3 DEF StoreOK
    <2>2. \A i \in DOMAIN r : r[i] \in AnyPath
      OBVIOUS
    <2>3. Become(none, r)
      BY <1>12 DEF Reset
    <2> HIDE DEF none, r
    <2> QED BY <2>1, <2>2, <2>3, BecomeKeeps
  <1>13. ASSUME Restart PROVE TabsInv'
    <2> DEFINE r == <<>>
    <2>1. PICK st \in Merged(store) : Become(st, r)
      BY <1>13 DEF Restart
    <2>2. StoreOK(st)
      BY <1>0, MergedIs, StoreIsLoose
    <2>3. \A i \in DOMAIN r : r[i] \in AnyPath
      OBVIOUS
    <2> HIDE DEF r
    <2> QED BY <2>1, <2>2, <2>3, BecomeKeeps
  <1>14. ASSUME NEW from \in 1..Cardinality(Ids), NEW to \in 1..Cardinality(Ids), Drag(from, to)
         PROVE  TabsInv'
    <2>1. StoreOK(MoveTab(from, to))
      BY <1>14, MoveIs DEF Drag
    <2> QED BY <1>0, <1>14, <2>1, BecomeKeeps DEF Drag
  <1>15. ASSUME NEW valid \in SUBSET Slugs, ValidateWorkspaceSlugs(valid) PROVE TabsInv'
    <2>1. PICK st \in Validated(valid) : Become(st, routers)
      BY <1>15 DEF ValidateWorkspaceSlugs
    <2> QED BY <1>0, <2>1, ValidatedIs, BecomeKeeps
  <1>16. CASE UNCHANGED vars
    BY <1>16 DEF vars, TabsInv, StoreOK, Fits, Used, Groups
  <1> QED BY <1>1, <1>2, <1>3, <1>4, <1>5, <1>6, <1>7, <1>8, <1>9, <1>10, <1>11, <1>12, <1>13,
             <1>14, <1>15, <1>16 DEF Next

LEMMA TabsInvAlways == Spec => []TabsInv
  BY InitTabs, StepTabs, PTL DEF Spec

-----------------------------------------------------------------------------
(* Every tab is a tab, of a workspace there is, with a router of its own   *)
(* and no router without a tab (tab-store.ts, use-tab-router-sync.ts).     *)
THEOREM TypeCorrect == Spec => []TypeOK
  <1>1. TabsInv => TypeOK
    <2> SUFFICES ASSUME TabsInv PROVE TypeOK
      OBVIOUS
    <2>1. StoreOK(store) /\ Used(store) \subseteq Ids /\ DOMAIN routers = Used(store)
      BY DEF TabsInv, Fits
    <2>2. DOMAIN Groups(store) \subseteq Slugs /\ store.active \in Slugs \cup {None}
      BY <2>1 DEF StoreOK, GroupsOK
    <2>3. ASSUME NEW t \in AllTabs(store) PROVE t \in [id : Ids, path : Paths \cup {Root}, pinned : BOOLEAN]
      <3>1. PICK s \in DOMAIN Groups(store) : t \in Range(Groups(store)[s].tabs)
        BY DEF AllTabs
      <3>2. PICK n \in DOMAIN Groups(store)[s].tabs : t = Groups(store)[s].tabs[n]
        BY <3>1 DEF Range
      <3>3. Groups(store)[s].tabs \in Seq(TabRow)
        BY <2>1, OwnGroup DEF TabsOK, Listed
      <3>4. t \in TabRow
        BY <3>2, <3>3
      <3>5. t.id \in Ids
        BY <2>1, <3>2, UsedIs DEF TabIds
      <3> QED BY <3>4, <3>5 DEF TabRow, AnyPath
    <2> QED BY <2>1, <2>2, <2>3 DEF TypeOK
  <1> QED BY <1>1, TabsInvAlways, PTL

(* Whatever is opened, closed, pinned, dragged, validated or restarted,    *)
(* every group has a tab and points at one of its own, the active          *)
(* workspace has a group and no tab is in two places (tab-store.ts).       *)
THEOREM GroupsStaySound == Spec => []GroupsSound
  <1>1. TabsInv => GroupsSound
    <2> SUFFICES ASSUME TabsInv PROVE GroupsSound
      OBVIOUS
    <2>1. StoreOK(store)
      BY DEF TabsInv
    <2>2. HasVisible(store) => store.active \in DOMAIN Groups(store)
      BY <2>1, VisibleIs
    <2>3. ASSUME NEW s \in DOMAIN Groups(store)
          PROVE  Cardinality(TabIds(Groups(store)[s].tabs)) = Len(Groups(store)[s].tabs)
      BY <2>1, OwnGroup, CountIds DEF TabsOK
    <2> QED BY <2>1, <2>2, <2>3, OwnGroup DEF GroupsSound
  <1> QED BY <1>1, TabsInvAlways, PTL

(* No drag, pin, close or start puts a tab that is not pinned before one   *)
(* that is (tab-store.ts:28).                                              *)
THEOREM PinnedStayFirst == Spec => []PinnedFirstAlways
  <1>1. TabsInv => PinnedFirstAlways
    BY OwnGroup, PinnedFirstStays DEF TabsInv, PinnedFirstAlways
  <1> QED BY <1>1, TabsInvAlways, PTL

(* A start on the persisted store brings every tab back that is in its own *)
(* workspace, and the one in front (tab-store.ts, merge).                  *)
THEOREM RestartKeepsTabs == Spec => []RestartKeeps
  <1>1. TabsInv => RestartKeeps
    <2> SUFFICES ASSUME TabsInv, NEW st \in Merged(store), NEW s \in DOMAIN Groups(store),
                        Kept(Groups(store)[s].tabs, s) # <<>>
                 PROVE  LET own == Kept(Groups(store)[s].tabs, s)
                        IN  /\ s \in DOMAIN Groups(st) /\ Groups(st)[s].tabs = own
                            /\ Groups(store)[s].activeTabId \in TabIds(own) =>
                                 Groups(st)[s].activeTabId = Groups(store)[s].activeTabId
      BY DEF RestartKeeps
    <2> DEFINE own == Kept(Groups(store)[s].tabs, s)
               i == Groups(store)[s].activeTabId
    <2>1. StoreOK(store)
      BY DEF TabsInv
    <2>2. TabsOK(own)
      BY <2>1, OwnGroup, KeptIs DEF TabsOK
    <2>3. Restored(store, s) = own /\ own # <<>>
      BY <2>2, PinnedFirstStays DEF Restored
    <2>4. /\ s \in DOMAIN Groups(st) /\ Groups(st)[s].tabs = own
          /\ Groups(st)[s].activeTabId = Pointing(own, i)
      <3> HIDE DEF own
      <3> QED BY <2>1, <2>3, MergedIs, StoreIsLoose
    <2>5. i \in TabIds(own) => Pointing(own, i) = i
      BY DEF Pointing
    <2> QED BY <2>4, <2>5
  <1> QED BY <1>1, TabsInvAlways, PTL

(* A push from the visible tab ends with what was pushed in front, in that *)
(* tab, in a tab found by its stored path or in a new one, and a pinned    *)
(* tab's router stays where it is (navigation.tsx, tab-store.ts).          *)
THEOREM PushesArrive == Spec => []PushArrives
  <1>1. TabsInv => PushArrives
    <2> SUFFICES ASSUME TabsInv, HasVisible(store), NEW p \in Paths,
                        routers[Visible(store)] # p, Fits(Pushed(p))
                 PROVE  LET from == Visible(store)
                            after == After(Pushed(p), PushedRouters(from, p))
                        IN  /\ ~Drifted => after.routers[Visible(after.store)] = p
                            /\ Tab(store, from).pinned => after.routers[from] = routers[from]
      BY DEF PushArrives
    <2> DEFINE from == Visible(store)
               new == Pushed(p)
               r == PushedRouters(from, p)
               after == After(new, r)
    <2>1. StoreOK(store) /\ from \in Used(store) /\ DOMAIN routers = Used(store) /\ p \in AnyPath
      BY VisibleIs, PathsAre DEF TabsInv
    <2>2. /\ StoreOK(new) /\ Used(store) \subseteq Used(new)
          /\ ~Moves(p) => Opened(new, p)
          /\ Moves(p) => new = store
      BY PushedIs
    <2>3. /\ r = IF Moves(p) THEN Moved(from, p) ELSE routers
          /\ DOMAIN r = Used(store) /\ \A i \in DOMAIN r : r[i] \in AnyPath
      BY <2>1, RoutersArePaths DEF PushedRouters, Moved
    <2>4. HasVisible(new)
      BY <2>2 DEF Opened
    <2> HIDE DEF from, new, r, after
    <2>5. /\ Visible(after.store) = Visible(new)
          /\ \A i \in Used(new) : after.routers[i] = IF i \in DOMAIN r THEN r[i] ELSE Tab(new, i).path
      BY <2>2, <2>3, <2>4, AfterIs DEF after
    <2>6. CASE Moves(p)
      <3>1. new = store /\ r = Moved(from, p) /\ r[from] = p
        BY <2>1, <2>2, <2>3, <2>6 DEF Moved
      <3>2. after.routers[Visible(after.store)] = p
        BY <2>1, <2>3, <2>5, <3>1 DEF from
      <3>3. ~Tab(store, from).pinned
        BY <2>6 DEF Moves, Parked, from
      <3> QED BY <3>2, <3>3 DEF from, new, r, after
    <2>7. CASE ~Moves(p)
      <3> DEFINE v == Visible(new)
      <3>1. r = routers /\ Opened(new, p)
        BY <2>2, <2>3, <2>7
      <3>2. after.routers[from] = routers[from]
        BY <2>1, <2>2, <2>5, <3>1
      <3>3. v \in Used(new) /\ Tab(new, v).path = p /\ (v \in Used(store) => Tab(store, v).path = p)
        BY <3>1 DEF Opened
      <3>4. ASSUME ~Drifted, v \in Used(store) PROVE routers[v] = p
        <4>1. Tab(store, v) \in AllTabs(store) /\ Tab(store, v).id = v
          BY <2>1, <3>4, TabOf DEF AllTabs, Range
        <4> QED BY <3>3, <3>4, <4>1 DEF Drifted
      <3>5. ~Drifted => after.routers[Visible(after.store)] = p
        BY <2>1, <2>5, <3>1, <3>3, <3>4
      <3> QED BY <3>2, <3>5 DEF from, new, r, after
    <2> QED BY <2>6, <2>7
  <1> QED BY <1>1, TabsInvAlways, PTL
=============================================================================
