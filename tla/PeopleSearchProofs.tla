-------------------------- MODULE PeopleSearchProofs --------------------------
(***************************************************************************)
(* What a search for people keeps, for every base, request and limit of    *)
(* candidates, and any number of changes that fall between its statements. *)
(*                                                                         *)
(* Whatever is committed while a page is made, nobody is returned who did  *)
(* not meet the required conditions meanwhile (SearchInv). Without changes *)
(* the pages are parts of one listing (PagesInv), because a channel that   *)
(* is not cut ranks everybody there is and a listing does not depend on    *)
(* the page, and each condition that is said to be met has a row behind it *)
(* (ExplainInv), because the list of conditions and the list of evidence   *)
(* specifications agree place by place (Paired).                           *)
(*                                                                         *)
(* InOrder is a list by rank: the lemmas on Precedes show that each member *)
(* has a rank of its own. Scores are shown to be integers, since a list is *)
(* in order only if its keys can be compared.                              *)
(*                                                                         *)
(* The last part is about the score: the shares in it are fractions        *)
(* (RatiosInv), so that there is room for the projects' part (ScoreGrows). *)
(***************************************************************************)
EXTENDS PeopleSearch, FiniteSetTheorems, WellFoundedInduction, TLAPS

-----------------------------------------------------------------------------
(* Recursion over numbers. *)

LEMMA Least ==
  ASSUME NEW S \in SUBSET Nat, S # {}
  PROVE  \E m \in S : \A n \in S : m <= n
<1>1. PICK m \in S : \A n \in S : ~ (<<n, m>> \in OpToRel(<, Nat))
  BY WFMin, NatLessThanWellFounded
<1>2. \A n \in S : ~ (n < m)
  BY <1>1 DEF OpToRel
<1> QED BY <1>2

LEMMA UpTo ==
  ASSUME NEW n \in Nat, NEW S, 0 \in S, \A i \in 1..n : i - 1 \in S => i \in S
  PROVE  0..n \subseteq S
<1> DEFINE Out == {i \in 0..n : i \notin S}
<1> SUFFICES ASSUME Out # {} PROVE FALSE
  OBVIOUS
<1>1. PICK m \in Out : \A k \in Out : m <= k
  <2>1. Out \in SUBSET Nat
    OBVIOUS
  <2> HIDE DEF Out
  <2> QED BY <2>1, Least
<1>2. m \in 1..n /\ m - 1 \in 0..n /\ ~(m <= m - 1)
  BY <1>1
<1>3. m - 1 \in S
  BY <1>1, <1>2
<1> QED BY <1>1, <1>2, <1>3

\* f is a function on the first n numbers.
Numbered(f, n) == f = [i \in 1..n |-> f[i]]

LEMMA NumberedSeq ==
  ASSUME NEW S, NEW n \in Nat, NEW f, Numbered(f, n), \A i \in 1..n : f[i] \in S
  PROVE  f \in Seq(S) /\ Len(f) = n /\ DOMAIN f = 1..n
<1>1. f \in [1..n -> S]
  BY DEF Numbered
<1> QED BY <1>1

\* A step g of a recursion from a, n times.
Recursion(f, g, a, n) == f = [i \in 0..n |-> IF i = 0 THEN a ELSE g[i][f[i - 1]]]

LEMMA RecursionExists ==
  ASSUME NEW n \in Nat, NEW a, NEW g
  PROVE  \E f : Recursion(f, g, a, n)
<1> DEFINE S == {m \in Nat : \E f : Recursion(f, g, a, m)}
<1>1. 0 \in S
  <2>1. Recursion([i \in 0..0 |-> a], g, a, 0)
    BY DEF Recursion
  <2> QED BY <2>1
<1>2. ASSUME NEW m \in 1..n, m - 1 \in S PROVE m \in S
  <2>1. PICK f : Recursion(f, g, a, m - 1)
    BY <1>2
  <2> DEFINE h == [i \in 0..m |-> IF i = m THEN g[m][f[m - 1]] ELSE f[i]]
  <2>2. m \in Nat /\ m # 0
    OBVIOUS
  <2>3. \A i \in 0..m : h[i] = IF i = 0 THEN a ELSE g[i][h[i - 1]]
    <3> SUFFICES ASSUME NEW i \in 0..m PROVE h[i] = IF i = 0 THEN a ELSE g[i][h[i - 1]]
      OBVIOUS
    <3>1. i \in Nat /\ (i # 0 => i - 1 \in 0..m) /\ (i # 0 => i - 1 # m) /\ (i # m => i \in 0..(m - 1))
      BY <2>2
    <3>2. i # 0 => h[i - 1] = f[i - 1]
      BY <3>1
    <3>3. CASE i = m
      BY <2>2, <3>2, <3>3
    <3>4. CASE i # m
      <4>1. h[i] = f[i] /\ f[i] = IF i = 0 THEN a ELSE g[i][f[i - 1]]
        BY <2>1, <3>1, <3>4 DEF Recursion
      <4> QED BY <3>2, <4>1
    <3> QED BY <3>3, <3>4
  <2>4. h = [i \in 0..m |-> h[i]]
    OBVIOUS
  <2> HIDE DEF h
  <2>5. Recursion(h, g, a, m)
    BY <2>3, <2>4 DEF Recursion
  <2> QED BY <2>2, <2>5
<1> HIDE DEF S
<1>3. 0..n \subseteq S
  BY <1>1, <1>2, UpTo
<1>4. n \in S
  BY <1>3
<1> QED BY <1>4 DEF S

\* FlattenSeq joins its lists one after the other.
LEMMA FlattenSteps ==
  ASSUME NEW ss, Len(ss) \in Nat, Len(ss) # 0
  PROVE  \E f : /\ FlattenSeq(ss) = f[Len(ss)]
                /\ \A i \in 1..Len(ss) : f[i] = IF i = 1 THEN ss[i] ELSE f[i - 1] \o ss[i]
<1> DEFINE n == Len(ss)
           Flattens(f) == f = [i \in 1..n |-> IF i = 1 THEN ss[i] ELSE f[i - 1] \o ss[i]]
           flatten == CHOOSE f : Flattens(f)
           S == {m \in Nat : \E f : \A i \in 1..m : f[i] = IF i = 1 THEN ss[i] ELSE f[i - 1] \o ss[i]}
<1>1. FlattenSeq(ss) = IF n = 0 THEN ss ELSE flatten[n]
  BY Zenon DEF FlattenSeq
<1>2. 0 \in S
  OBVIOUS
<1>3. ASSUME NEW m \in 1..n, m - 1 \in S PROVE m \in S
  <2>1. PICK f : \A i \in 1..(m - 1) : f[i] = IF i = 1 THEN ss[i] ELSE f[i - 1] \o ss[i]
    BY <1>3
  <2> DEFINE h == [i \in 1..m |-> IF i # m THEN f[i] ELSE IF m = 1 THEN ss[m] ELSE f[m - 1] \o ss[m]]
  <2>2. m \in Nat
    OBVIOUS
  <2>3. ASSUME NEW i \in 1..m PROVE h[i] = IF i = 1 THEN ss[i] ELSE h[i - 1] \o ss[i]
    <3>1. i \in Nat /\ (i # 1 => i - 1 \in 1..m) /\ (i # 1 => i - 1 # m) /\ (i # m => i \in 1..(m - 1))
      BY <2>2
    <3>2. i # 1 => h[i - 1] = f[i - 1]
      BY <3>1
    <3>3. CASE i = m
      BY <3>2, <3>3
    <3>4. CASE i # m
      <4>1. h[i] = f[i] /\ f[i] = IF i = 1 THEN ss[i] ELSE f[i - 1] \o ss[i]
        BY <2>1, <3>1, <3>4
      <4> QED BY <3>2, <4>1
    <3> QED BY <3>3, <3>4
  <2> HIDE DEF h
  <2> QED BY <2>2, <2>3
<1>4. n \in S
  <2> HIDE DEF S, n
  <2>1. n \in Nat
    BY DEF n
  <2>2. 0..n \subseteq S
    BY <1>2, <1>3, <2>1, UpTo
  <2> QED BY <2>1, <2>2
<1>5. PICK f : \A i \in 1..n : f[i] = IF i = 1 THEN ss[i] ELSE f[i - 1] \o ss[i]
  BY <1>4
<1> DEFINE h == [i \in 1..n |-> f[i]]
<1>6. \A i \in 1..n : h[i] = IF i = 1 THEN ss[i] ELSE h[i - 1] \o ss[i]
  <2> SUFFICES ASSUME NEW i \in 1..n PROVE h[i] = IF i = 1 THEN ss[i] ELSE h[i - 1] \o ss[i]
    OBVIOUS
  <2>1. i # 1 => i - 1 \in 1..n
    OBVIOUS
  <2> QED BY <1>5, <2>1
<1>7. h = [i \in 1..n |-> h[i]]
  OBVIOUS
<1> HIDE DEF h
<1>8. Flattens(h)
  BY <1>6, <1>7
<1>9. Flattens(flatten)
  BY <1>8
<1> HIDE DEF flatten
<1> QED BY <1>1, <1>9

LEMMA Joined ==
  ASSUME NEW S, NEW s \in Seq(S), NEW t \in Seq(S)
  PROVE  s \o t \in Seq(S) /\ Range(s \o t) = Range(s) \cup Range(t)
<1>1. /\ s \o t \in Seq(S)
      /\ Len(s) \in Nat /\ Len(t) \in Nat /\ DOMAIN s = 1..Len(s) /\ DOMAIN t = 1..Len(t)
      /\ DOMAIN (s \o t) = 1..(Len(s) + Len(t))
      /\ \A i \in 1..Len(s) : (s \o t)[i] = s[i]
      /\ \A i \in 1..Len(t) : (s \o t)[Len(s) + i] = t[i]
  OBVIOUS
<1>2. ASSUME NEW i \in DOMAIN (s \o t) PROVE (s \o t)[i] \in Range(s) \cup Range(t)
  <2>1. CASE i \in 1..Len(s)
    BY <1>1, <2>1 DEF Range
  <2>2. CASE i \notin 1..Len(s)
    <3>1. i - Len(s) \in 1..Len(t) /\ Len(s) + (i - Len(s)) = i
      BY <1>1, <2>2
    <3> QED BY <1>1, <3>1 DEF Range
  <2> QED BY <2>1, <2>2
<1>3. ASSUME NEW i \in DOMAIN s PROVE s[i] \in Range(s \o t)
  <2>1. i \in DOMAIN (s \o t) /\ (s \o t)[i] = s[i]
    BY <1>1
  <2> QED BY <2>1 DEF Range
<1>4. ASSUME NEW i \in DOMAIN t PROVE t[i] \in Range(s \o t)
  <2>1. Len(s) + i \in DOMAIN (s \o t) /\ (s \o t)[Len(s) + i] = t[i]
    BY <1>1
  <2> QED BY <2>1 DEF Range
<1> QED BY <1>1, <1>2, <1>3, <1>4 DEF Range

\* What is in the flattened list is what is in the lists.
LEMMA FlattenHolds ==
  ASSUME NEW S, NEW n \in Nat, NEW ss, Numbered(ss, n), \A i \in 1..n : ss[i] \in Seq(S)
  PROVE  /\ FlattenSeq(ss) \in Seq(S)
         /\ Range(FlattenSeq(ss)) = UNION {Range(ss[i]) : i \in 1..n}
<1>1. Len(ss) = n /\ ss \in Seq(Seq(S))
  BY NumberedSeq
<1>2. CASE n = 0
  <2>1. ss = <<>>
    BY <1>1, <1>2
  <2>2. FlattenSeq(ss) = <<>>
    BY <1>1, <1>2, <2>1, Zenon DEF FlattenSeq
  <2>3. Range(<<>>) = {}
    BY DEF Range
  <2> QED BY <1>2, <2>2, <2>3
<1>3. CASE n # 0
  <2>1. PICK f : /\ FlattenSeq(ss) = f[n]
                 /\ \A i \in 1..n : f[i] = IF i = 1 THEN ss[i] ELSE f[i - 1] \o ss[i]
    BY <1>1, <1>3, FlattenSteps
  <2> DEFINE Held(m) == f[m] \in Seq(S) /\ Range(f[m]) = UNION {Range(ss[i]) : i \in 1..m}
             T == {m \in Nat : m = 0 \/ Held(m)}
  <2>2. 0 \in T
    OBVIOUS
  <2>3. ASSUME NEW m \in 1..n, m - 1 \in T PROVE m \in T
    <3>1. CASE m = 1
      <4>1. f[m] = ss[1] /\ 1..1 = {1} /\ ss[1] \in Seq(S)
        BY <2>1, <3>1
      <4>2. Held(m)
        BY <3>1, <4>1
      <4> QED BY <3>1, <4>2
    <3>2. CASE m # 1
      <4>1. /\ f[m] = f[m - 1] \o ss[m] /\ f[m - 1] \in Seq(S) /\ ss[m] \in Seq(S)
            /\ Range(f[m - 1]) = UNION {Range(ss[i]) : i \in 1..(m - 1)}
        <5>1. m \in 1..n /\ Held(m - 1)
          BY <2>3, <3>2
        <5>2. f[m] = f[m - 1] \o ss[m] /\ ss[m] \in Seq(S)
          BY <2>1, <3>2
        <5> QED BY <5>1, <5>2
      <4>2. f[m] \in Seq(S) /\ Range(f[m]) = Range(f[m - 1]) \cup Range(ss[m])
        BY <4>1, Joined
      <4>3. 1..m = (1..(m - 1)) \cup {m}
        OBVIOUS
      <4>4. Held(m)
        BY <4>1, <4>2, <4>3
      <4> QED BY <4>4
    <3> QED BY <3>1, <3>2
  <2> HIDE DEF T
  <2>4. n \in T
    <3>1. 0..n \subseteq T
      BY <2>2, <2>3, UpTo
    <3> QED BY <3>1
  <2> QED BY <1>3, <2>1, <2>4 DEF T
<1> QED BY <1>2, <1>3

-----------------------------------------------------------------------------
(* Orders. *)

\* A list of n integers.
IsKey(a, n) == a \in Seq(Int) /\ Len(a) = n

\* The keys differ at i and agree before.
DifferFirst(a, b, i) == a[i] # b[i] /\ \A k \in 1..(i - 1) : a[k] = b[k]

LEMMA FirstDifference ==
  ASSUME NEW n \in Nat, NEW a, NEW b, NEW j \in 1..n, a[j] # b[j]
  PROVE  \E i \in 1..n : DifferFirst(a, b, i)
<1> DEFINE D == {i \in 1..n : a[i] # b[i]}
<1>1. D \in SUBSET Nat /\ D # {}
  OBVIOUS
<1>2. PICK i \in D : \A k \in D : i <= k
  <2> HIDE DEF D
  <2> QED BY <1>1, Least
<1>3. ASSUME NEW k \in 1..(i - 1) PROVE a[k] = b[k]
  BY <1>2
<1> QED BY <1>2, <1>3 DEF DifferFirst

LEMMA PrecedesTotal ==
  ASSUME NEW n \in Nat, NEW a, NEW b, IsKey(a, n), IsKey(b, n), a # b
  PROVE  Precedes(a, b) \/ Precedes(b, a)
<1>1. PICK j \in 1..n : a[j] # b[j]
  BY DEF IsKey
<1>2. PICK i \in 1..n : DifferFirst(a, b, i)
  BY <1>1, FirstDifference
<1>3. a[i] < b[i] \/ b[i] < a[i]
  BY <1>2 DEF IsKey, DifferFirst
<1> QED BY <1>2, <1>3 DEF IsKey, Precedes, DifferFirst

LEMMA PrecedesStrict ==
  ASSUME NEW n \in Nat, NEW a, IsKey(a, n)
  PROVE  ~Precedes(a, a)
<1>1. ASSUME NEW i \in 1..n PROVE ~(a[i] < a[i])
  BY DEF IsKey
<1> QED BY <1>1 DEF IsKey, Precedes

LEMMA PrecedesTransitive ==
  ASSUME NEW n \in Nat, NEW a, NEW b, NEW c, IsKey(a, n), IsKey(b, n), IsKey(c, n),
         Precedes(a, b), Precedes(b, c)
  PROVE  Precedes(a, c)
<1>1. PICK i \in 1..n : a[i] < b[i] /\ \A k \in 1..(i - 1) : a[k] = b[k]
  BY DEF IsKey, Precedes
<1>2. PICK j \in 1..n : b[j] < c[j] /\ \A k \in 1..(j - 1) : b[k] = c[k]
  BY DEF IsKey, Precedes
<1>3. \A k \in 1..n : a[k] \in Int /\ b[k] \in Int /\ c[k] \in Int
  BY DEF IsKey
<1>4. CASE i <= j
  <2>1. a[i] < c[i]
    <3>1. CASE i = j
      BY <1>1, <1>2, <1>3, <3>1
    <3>2. CASE i < j
      <4>1. b[i] = c[i]
        BY <1>2, <3>2
      <4> QED BY <1>1, <4>1
    <3> QED BY <1>4, <3>1, <3>2
  <2>2. \A k \in 1..(i - 1) : a[k] = c[k]
    BY <1>1, <1>2, <1>4
  <2> QED BY <2>1, <2>2 DEF IsKey, Precedes
<1>5. CASE j < i
  <2>1. a[j] = b[j]
    BY <1>1, <1>5
  <2>2. a[j] < c[j]
    BY <1>2, <2>1
  <2>3. \A k \in 1..(j - 1) : a[k] = c[k]
    BY <1>1, <1>2, <1>5
  <2> QED BY <2>2, <2>3 DEF IsKey, Precedes
<1> QED BY <1>4, <1>5

\* The members of S have keys of one length, each its own.
Keyed(S, key, n) ==
  /\ \A x \in S : IsKey(key[x], n)
  /\ \A x, y \in S : key[x] = key[y] => x = y

Before(S, key, x) == {y \in S : Precedes(key[y], key[x])}

\* In a finite set with keys everyone has a rank of his own.
LEMMA RanksDiffer ==
  ASSUME NEW S, IsFiniteSet(S), NEW key, NEW n \in Nat, Keyed(S, key, n)
  PROVE  /\ \A x \in S : Cardinality(Before(S, key, x)) \in 0..(Cardinality(S) - 1)
         /\ \A x, y \in S : Cardinality(Before(S, key, x)) = Cardinality(Before(S, key, y)) => x = y
<1> DEFINE before(x) == Before(S, key, x)
<1>1. Cardinality(S) \in Nat
  BY FS_CardinalityType
<1>2. ASSUME NEW x \in S
      PROVE  /\ IsFiniteSet(before(x)) /\ Cardinality(before(x)) \in Nat
             /\ x \notin before(x) /\ Cardinality(before(x)) < Cardinality(S)
  <2>1. before(x) \in SUBSET S
    BY DEF Before
  <2>2. x \notin before(x)
    BY PrecedesStrict DEF Keyed, Before
  <2> HIDE DEF before
  <2>3. IsFiniteSet(before(x)) /\ Cardinality(before(x)) <= Cardinality(S)
        /\ (Cardinality(S) = Cardinality(before(x)) => S = before(x))
    BY <2>1, FS_Subset
  <2>4. Cardinality(before(x)) \in Nat
    BY <2>3, FS_CardinalityType
  <2> QED BY <1>1, <2>2, <2>3, <2>4
<1>3. ASSUME NEW x \in S, NEW y \in S, Precedes(key[x], key[y])
      PROVE  Cardinality(before(x)) < Cardinality(before(y))
  <2>1. x \in before(y)
    BY <1>3 DEF Before
  <2>2. ASSUME NEW z \in before(x) PROVE z \in before(y)
    <3>1. z \in S /\ Precedes(key[z], key[x])
      BY <2>2 DEF Before
    <3>2. Precedes(key[z], key[y])
      BY <1>3, <3>1, PrecedesTransitive DEF Keyed
    <3> QED BY <3>1, <3>2 DEF Before
  <2> HIDE DEF before
  <2>3. before(x) \in SUBSET before(y) /\ before(x) # before(y)
    BY <1>2, <2>1, <2>2
  <2>4. Cardinality(before(x)) <= Cardinality(before(y))
        /\ (Cardinality(before(y)) = Cardinality(before(x)) => before(y) = before(x))
    BY <1>2, <2>3, FS_Subset
  <2> QED BY <1>2, <2>3, <2>4
<1> HIDE DEF before
<1>4. ASSUME NEW x \in S, NEW y \in S, x # y PROVE Cardinality(before(x)) # Cardinality(before(y))
  <2>1. Precedes(key[x], key[y]) \/ Precedes(key[y], key[x])
    BY <1>4, PrecedesTotal DEF Keyed
  <2> QED BY <1>2, <1>3, <2>1
<1>5. \A x \in S : Cardinality(before(x)) \in 0..(Cardinality(S) - 1)
  BY <1>1, <1>2
<1> QED BY <1>4, <1>5 DEF before

\* There is a member for each rank.
LEMMA RankExists ==
  ASSUME NEW S, IsFiniteSet(S), NEW key, NEW n \in Nat, Keyed(S, key, n),
         NEW i \in 1..Cardinality(S)
  PROVE  \E x \in S : Cardinality({y \in S : Precedes(key[y], key[x])}) = i - 1
<1> DEFINE rank == [x \in S |-> Cardinality(Before(S, key, x))]
           T == 0..(Cardinality(S) - 1)
<1>1. Cardinality(S) \in Nat
  BY FS_CardinalityType
<1>2. rank \in Injection(S, T)
  <2>1. rank \in [S -> T]
    BY RanksDiffer
  <2>2. \A x, y \in S : rank[x] = rank[y] => x = y
    BY RanksDiffer
  <2> HIDE DEF rank
  <2> QED BY <2>1, <2>2 DEF Injection, IsInjective
<1>3. IsFiniteSet(T) /\ Cardinality(T) = Cardinality(S)
  <2> DEFINE c == Cardinality(S)
  <2>1. c \in Nat /\ 0 \in Int /\ c - 1 \in Int
    BY <1>1
  <2> HIDE DEF c
  <2>2. IsFiniteSet(0..(c - 1)) /\ Cardinality(0..(c - 1)) = IF 0 > c - 1 THEN 0 ELSE (c - 1) - 0 + 1
    BY <2>1, FS_Interval
  <2>3. Cardinality(0..(c - 1)) = c
    BY <2>1, <2>2
  <2> QED BY <2>2, <2>3 DEF c
<1> HIDE DEF T
<1>4. rank \in Surjection(S, T)
  <2> HIDE DEF rank
  <2> QED BY <1>2, <1>3, FS_Injection
<1>5. \A t \in T : \E x \in S : rank[x] = t
  <2> HIDE DEF rank
  <2> QED BY <1>4 DEF Surjection
<1>6. i - 1 \in T
  BY <1>1 DEF T
<1> QED BY <1>5, <1>6 DEF Before

\* A list in order holds members of the set.
LEMMA InOrderHolds ==
  ASSUME NEW S, IsFiniteSet(S), NEW key, NEW n \in Nat, Keyed(S, key, n)
  PROVE  InOrder(S, key) \in Seq(S) /\ Len(InOrder(S, key)) = Cardinality(S)
<1> DEFINE f == InOrder(S, key)
<1>1. Cardinality(S) \in Nat
  BY FS_CardinalityType
<1>2. ASSUME NEW i \in 1..Cardinality(S) PROVE f[i] \in S
  BY <1>2, RankExists DEF InOrder
<1>3. Numbered(f, Cardinality(S))
  <2> DEFINE g(i) == CHOOSE x \in S : Cardinality({y \in S : Precedes(key[y], key[x])}) = i - 1
  <2>1. f = [i \in 1..Cardinality(S) |-> g(i)]
    BY DEF InOrder
  <2> HIDE DEF f, g
  <2> QED BY <2>1 DEF Numbered
<1> HIDE DEF f
<1>4. f \in Seq(S) /\ Len(f) = Cardinality(S)
  BY <1>1, <1>2, <1>3, NumberedSeq
<1> QED BY <1>4 DEF f

\* Each member is in the list, at one place.
LEMMA InOrderLists ==
  ASSUME NEW S, IsFiniteSet(S), NEW key, NEW n \in Nat, Keyed(S, key, n)
  PROVE  /\ \A i, j \in 1..Cardinality(S) : InOrder(S, key)[i] = InOrder(S, key)[j] => i = j
         /\ \A x \in S : \E i \in 1..Cardinality(S) : InOrder(S, key)[i] = x
<1> DEFINE f == InOrder(S, key)
<1>1. Cardinality(S) \in Nat
  BY FS_CardinalityType
<1>2. ASSUME NEW i \in 1..Cardinality(S) PROVE f[i] \in S /\ Cardinality(Before(S, key, f[i])) = i - 1
  <2>1. f[i] = CHOOSE x \in S : Cardinality({y \in S : Precedes(key[y], key[x])}) = i - 1
    BY DEF InOrder
  <2>2. \E x \in S : Cardinality({y \in S : Precedes(key[y], key[x])}) = i - 1
    BY RankExists
  <2> HIDE DEF f
  <2>3. f[i] \in S /\ Cardinality({y \in S : Precedes(key[y], key[f[i]])}) = i - 1
    BY <2>1, <2>2
  <2> QED BY <2>3 DEF Before
<1> HIDE DEF f
<1>3. ASSUME NEW i \in 1..Cardinality(S), NEW j \in 1..Cardinality(S), f[i] = f[j] PROVE i = j
  <2>1. i - 1 = j - 1
    BY <1>2, <1>3
  <2> QED BY <1>1, <2>1
<1>4. ASSUME NEW x \in S PROVE \E i \in 1..Cardinality(S) : f[i] = x
  <2> DEFINE c == Cardinality(Before(S, key, x))
  <2>1. c \in 0..(Cardinality(S) - 1)
    BY RanksDiffer
  <2> HIDE DEF c
  <2>2. c + 1 \in 1..Cardinality(S)
    BY <1>1, <2>1
  <2>3. f[c + 1] \in S /\ Cardinality(Before(S, key, f[c + 1])) = c
    <3> DEFINE i == c + 1
    <3>1. i \in 1..Cardinality(S) /\ i - 1 = c
      BY <1>1, <2>1
    <3> HIDE DEF i
    <3>2. f[i] \in S /\ Cardinality(Before(S, key, f[i])) = i - 1
      BY <1>2, <3>1
    <3> QED BY <3>1, <3>2 DEF i
  <2>4. f[c + 1] = x
    BY <2>3, RanksDiffer DEF c
  <2> QED BY <2>2, <2>4
<1> QED BY <1>3, <1>4 DEF f

\* There is a smallest member.
LEMMA SmallestExists ==
  ASSUME NEW S, IsFiniteSet(S), S # {}, NEW key, NEW n \in Nat, Keyed(S, key, n)
  PROVE  \E x \in S : \A y \in S \ {x} : Precedes(key[x], key[y])
<1>1. Cardinality(S) \in Nat /\ Cardinality(S) # 0
  BY FS_CardinalityType, FS_EmptySet
<1>2. PICK x \in S : Cardinality({y \in S : Precedes(key[y], key[x])}) = 1 - 1
  <2>1. 1 \in 1..Cardinality(S)
    BY <1>1
  <2> QED BY <2>1, RankExists
<1> DEFINE B == {y \in S : Precedes(key[y], key[x])}
<1>3. IsFiniteSet(B)
  <2>1. B \in SUBSET S
    OBVIOUS
  <2> HIDE DEF B
  <2> QED BY <2>1, FS_Subset
<1>4. B = {}
  <2>1. Cardinality(B) = 0
    BY <1>2
  <2> HIDE DEF B
  <2> QED BY <1>3, <2>1, FS_EmptySet
<1>5. ASSUME NEW y \in S \ {x} PROVE Precedes(key[x], key[y])
  <2>1. ~Precedes(key[y], key[x])
    BY <1>4
  <2>2. key[x] # key[y]
    BY DEF Keyed
  <2> QED BY <2>1, <2>2, PrecedesTotal DEF Keyed
<1> QED BY <1>5

-----------------------------------------------------------------------------
(* Sums and means. *)

Sums(f, s) == f = [n \in 0..Len(s) |-> IF n = 0 THEN 0 ELSE f[n - 1] + s[n]]

LEMMA SumsExist ==
  ASSUME NEW s \in Seq(Int)
  PROVE  \E f : Sums(f, s)
<1> DEFINE n == Len(s)
           g == [i \in 1..n |-> [x \in Int |-> x + s[i]]]
<1>1. n \in Nat /\ \A i \in 1..n : s[i] \in Int
  OBVIOUS
<1>2. ASSUME NEW i \in 1..n, NEW x \in Int PROVE g[i][x] = x + s[i]
  OBVIOUS
<1> HIDE DEF g
<1>3. PICK f : Recursion(f, g, 0, n)
  BY <1>1, RecursionExists
<1>4. \A i \in 0..n : f[i] = IF i = 0 THEN 0 ELSE g[i][f[i - 1]]
  BY <1>3 DEF Recursion
<1> DEFINE S == {i \in 0..n : f[i] \in Int}
<1>5. 0..n \subseteq S
  <2>1. 0 \in S
    BY <1>1, <1>4
  <2>2. ASSUME NEW i \in 1..n, i - 1 \in S PROVE i \in S
    <3>1. i \in 0..n /\ i # 0 /\ f[i - 1] \in Int
      BY <2>2
    <3>2. f[i] = f[i - 1] + s[i]
      BY <1>2, <1>4, <3>1
    <3> QED BY <1>1, <3>1, <3>2
  <2> HIDE DEF S
  <2> QED BY <1>1, <2>1, <2>2, UpTo
<1>6. ASSUME NEW i \in 0..n PROVE f[i] = IF i = 0 THEN 0 ELSE f[i - 1] + s[i]
  <2>1. CASE i = 0
    BY <1>4, <2>1
  <2>2. CASE i # 0
    <3>1. i \in 1..n /\ i - 1 \in 0..n
      BY <1>1, <2>2
    <3>2. f[i - 1] \in Int
      BY <1>5, <3>1
    <3> QED BY <1>2, <1>4, <2>2, <3>1, <3>2
  <2> QED BY <2>1, <2>2
<1>7. f = [i \in 0..n |-> f[i]]
  BY <1>3 DEF Recursion
<1>8. Sums(f, s)
  BY <1>6, <1>7 DEF Sums
<1> QED BY <1>8

LEMMA TotalIs ==
  ASSUME NEW s \in Seq(Int)
  PROVE  \E f : /\ Total(s) = f[Len(s)]
                /\ \A i \in 0..Len(s) : f[i] = IF i = 0 THEN 0 ELSE f[i - 1] + s[i]
<1> DEFINE sum == CHOOSE f : Sums(f, s)
<1>1. Total(s) = sum[Len(s)]
  BY Zenon DEF Total, Sums
<1>2. Sums(sum, s)
  BY SumsExist
<1> HIDE DEF sum
<1>3. \A i \in 0..Len(s) : sum[i] = IF i = 0 THEN 0 ELSE sum[i - 1] + s[i]
  BY <1>2 DEF Sums
<1> QED BY <1>1, <1>3

LEMMA TotalInt ==
  ASSUME NEW s \in Seq(Int)
  PROVE  /\ Total(s) \in Int
         /\ (\A i \in DOMAIN s : s[i] > 0) /\ s # <<>> => Total(s) > 0
<1> DEFINE n == Len(s)
           positive == \A i \in DOMAIN s : s[i] > 0
<1>1. n \in Nat /\ DOMAIN s = 1..n /\ (\A i \in 1..n : s[i] \in Int) /\ (s # <<>> => n # 0)
  OBVIOUS
<1>2. PICK f : /\ Total(s) = f[n]
               /\ \A i \in 0..n : f[i] = IF i = 0 THEN 0 ELSE f[i - 1] + s[i]
  BY TotalIs
<1> DEFINE S == {i \in 0..n : f[i] \in Int /\ (positive /\ i # 0 => f[i] > 0)}
<1>3. 0..n \subseteq S
  <2>1. 0 \in S
    BY <1>1, <1>2
  <2>2. ASSUME NEW i \in 1..n, i - 1 \in S PROVE i \in S
    <3>1. i \in 0..n /\ i # 0 /\ i - 1 \in 0..n /\ f[i - 1] \in Int /\ (positive /\ i - 1 # 0 => f[i - 1] > 0)
      BY <2>2
    <3>2. f[i] = f[i - 1] + s[i] /\ s[i] \in Int
      BY <1>1, <1>2, <3>1
    <3>3. i - 1 = 0 => f[i - 1] = 0
      BY <1>2, <3>1
    <3>4. positive => s[i] > 0
      BY <1>1
    <3> HIDE DEF positive
    <3>5. f[i] \in Int /\ (positive => f[i] > 0)
      BY <3>1, <3>2, <3>3, <3>4
    <3> QED BY <3>1, <3>5
  <2> HIDE DEF S
  <2> QED BY <1>1, <2>1, <2>2, UpTo
<1>4. n \in S
  BY <1>1, <1>3
<1> QED BY <1>1, <1>2, <1>4

LEMMA Quotient ==
  ASSUME NEW a \in Int, NEW b \in Int, b > 0
  PROVE  a \div b \in Int
OBVIOUS

LEMMA MeanInt ==
  ASSUME NEW s \in Seq(Int)
  PROVE  Mean(s) \in Int
<1>1. CASE s = <<>>
  BY <1>1 DEF Mean
<1>2. CASE s # <<>>
  <2>1. Len(s) \in Int /\ Len(s) > 0
    BY <1>2
  <2>2. Total(s) \in Int
    BY TotalInt
  <2> QED BY <1>2, <2>1, <2>2, Quotient DEF Mean
<1> QED BY <1>1, <1>2

\* Parts have a positive weight and an integer value.
Part == (Nat \ {0}) \X Int

LEMMA WeightedMeanInt ==
  ASSUME NEW parts \in Seq(Part)
  PROVE  WeightedMean(parts) \in Int
<1> DEFINE n == Len(parts)
           products == [i \in DOMAIN parts |-> parts[i][1] * parts[i][2]]
           weights == [i \in DOMAIN parts |-> parts[i][1]]
<1>1. n \in Nat /\ DOMAIN parts = 1..n /\ (parts # <<>> => n # 0)
  OBVIOUS
<1>2. ASSUME NEW i \in 1..n
      PROVE  parts[i][1] \in Int /\ parts[i][1] > 0 /\ parts[i][1] * parts[i][2] \in Int
  <2>1. parts[i] \in Part
    OBVIOUS
  <2>2. parts[i][1] \in Nat \ {0} /\ parts[i][2] \in Int
    BY <2>1 DEF Part
  <2> QED BY <2>2
<1>3. products \in Seq(Int)
  <2>1. products = [i \in 1..n |-> products[i]] /\ \A i \in 1..n : products[i] \in Int
    BY <1>1, <1>2
  <2> HIDE DEF products
  <2> QED BY <1>1, <2>1, NumberedSeq DEF Numbered
<1>4. weights \in Seq(Int) /\ Len(weights) = n /\ \A i \in DOMAIN weights : weights[i] > 0
  <2>1. weights = [i \in 1..n |-> weights[i]] /\ \A i \in 1..n : weights[i] \in Int /\ weights[i] > 0
    BY <1>1, <1>2
  <2> HIDE DEF weights
  <2>2. weights \in Seq(Int) /\ Len(weights) = n /\ DOMAIN weights = 1..n
    BY <1>1, <2>1, NumberedSeq DEF Numbered
  <2> QED BY <2>1, <2>2
<1>5. WeightedMean(parts) = IF parts = <<>> THEN 0 ELSE Total(products) \div Total(weights)
  BY DEF WeightedMean
<1> HIDE DEF products, weights
<1>6. Total(products) \in Int
  BY <1>3, TotalInt
<1>7. parts # <<>> => weights # <<>>
  BY <1>1, <1>4
<1>8. Total(weights) \in Int /\ (parts # <<>> => Total(weights) > 0)
  BY <1>4, <1>7, TotalInt
<1> QED BY <1>5, <1>6, <1>8, Quotient

LEMMA WhenHolds ==
  ASSUME NEW S, NEW c, NEW x, c => x \in S
  PROVE  When(c, x) \in Seq(S)
BY DEF When

LEMMA JoinedSeq ==
  ASSUME NEW S, NEW s \in Seq(S), NEW t \in Seq(S)
  PROVE  s \o t \in Seq(S)
OBVIOUS

LEMMA MaxInt ==
  ASSUME NEW S \in SUBSET Int, IsFiniteSet(S), S # {}
  PROVE  Max(S) \in S
<1> DEFINE key == [x \in S |-> <<-x>>]
<1>1. Keyed(S, key, 1)
  BY DEF Keyed, IsKey
<1>2. PICK x \in S : \A y \in S \ {x} : Precedes(key[x], key[y])
  BY <1>1, SmallestExists
<1>3. ASSUME NEW y \in S PROVE x >= y
  <2>1. CASE y = x
    BY <2>1
  <2>2. CASE y # x
    <3>1. Precedes(<<-x>>, <<-y>>)
      BY <1>2, <2>2
    <3>2. -x < -y
      BY <3>1 DEF Precedes
    <3> QED BY <3>2
  <2> QED BY <2>1, <2>2
<1> QED BY <1>3 DEF Max

-----------------------------------------------------------------------------
(* Scores are integers. *)

LEMMA Units == One \in Nat \ {0} /\ Percent \in Int
<1>1. One \in Int /\ One > 0
  BY DEF One
<1>2. One \div 100 \in Int
  BY <1>1, Quotient
<1> QED BY <1>1, <1>2 DEF Percent

LEMMA ImageFinite ==
  ASSUME NEW S, IsFiniteSet(S), NEW f
  PROVE  IsFiniteSet({f[x] : x \in S})
<1> DEFINE g == [x \in S |-> f[x]]
           T == {f[x] : x \in S}
<1>1. g \in [S -> T] /\ \A t \in T : \E x \in S : g[x] = t
  OBVIOUS
<1> HIDE DEF g, T
<1>2. g \in Surjection(S, T)
  BY <1>1 DEF Surjection
<1>3. IsFiniteSet(T)
  BY <1>2, FS_Surjection
<1> QED BY <1>3 DEF T

LEMMA IntegerList ==
  ASSUME NEW n \in Nat, NEW f, Numbered(f, n), \A i \in 1..n : f[i] \in Int
  PROVE  Mean(f) \in Int /\ Total(f) \in Int
<1>1. f \in Seq(Int)
  BY NumberedSeq
<1> QED BY <1>1, MeanInt, TotalInt

LEMMA ValueMetInt ==
  ASSUME NEW project, NEW f, NEW v
  PROVE  ValueMet(project, f, v) \in Int
<1>1. One \in Int /\ 70 * Percent \in Int
  BY Units
<1> HIDE DEF One
<1>2. CASE f = "jobs"
  BY <1>1, <1>2 DEF ValueMet
<1>3. CASE f = "expertise" /\ v \in project.inferred
  BY <1>1, <1>3 DEF ValueMet
<1>4. CASE f # "jobs" /\ ~(f = "expertise" /\ v \in project.inferred)
  BY <1>1, <1>4 DEF ValueMet
<1> QED BY <1>2, <1>3, <1>4

LEMMA FieldRatioInt ==
  ASSUME NEW project, NEW f, NEW S, NEW values \in Seq(S)
  PROVE  FieldRatio(project, f, values) \in Int
<1> DEFINE met == [n \in DOMAIN values |-> ValueMet(project, f, values[n])]
<1>1. Len(values) \in Nat /\ DOMAIN values = 1..Len(values)
  OBVIOUS
<1>2. met = [n \in 1..Len(values) |-> met[n]] /\ \A n \in 1..Len(values) : met[n] \in Int
  BY <1>1, ValueMetInt
<1> HIDE DEF met
<1>3. Mean(met) \in Int
  BY <1>1, <1>2, IntegerList DEF Numbered
<1> QED BY <1>3 DEF FieldRatio, met

LEMMA FieldsAre ==
  /\ DOMAIN CodeFields = 1..5
  /\ \A n \in 1..5 : CodeFields[n] \in Range(CodeFields)
  /\ Range(CodeFields) \subseteq Fields
  /\ "project_keywords" \in Fields
  /\ IsFiniteSet(Range(CodeFields))
<1>1. DOMAIN CodeFields = 1..5
  BY DEF CodeFields
<1>2. \A n \in 1..5 : CodeFields[n] \in Range(CodeFields)
  BY <1>1 DEF Range
<1>3. Range(CodeFields) \subseteq Fields
  BY DEF Fields
<1>4. "project_keywords" \in Fields
  <2>1. 3 \in DOMAIN TextFields /\ TextFields[3] = "project_keywords"
    BY DEF TextFields
  <2> QED BY <2>1 DEF Fields, Range
<1>5. IsFiniteSet(Range(CodeFields))
  <2>1. IsFiniteSet(1..5)
    <3>1. 1 \in Int /\ 5 \in Int
      OBVIOUS
    <3> QED BY <3>1, FS_Interval
  <2>2. IsFiniteSet({CodeFields[n] : n \in 1..5})
    BY <2>1, ImageFinite
  <2> QED BY <1>1, <2>2 DEF Range
<1> QED BY <1>1, <1>2, <1>3, <1>4, <1>5

LEMMA StructuredScoreInt ==
  ASSUME NEW project, NEW r \in Request
  PROVE  StructuredScore(project, r) \in Int
<1> DEFINE required(f) == When(r.required[f] # <<>>, FieldRatio(project, f, r.required[f]))
           preferred(f) == When(r.preferred[f] # <<>>, FieldRatio(project, f, r.preferred[f]) \div 2)
           parts == [n \in DOMAIN CodeFields |-> required(CodeFields[n]) \o preferred(CodeFields[n])]
<1>1. ASSUME NEW f \in Fields PROVE required(f) \in Seq(Int)
  <2>1. r.required[f] \in Seq(Values)
    BY DEF Request
  <2>2. FieldRatio(project, f, r.required[f]) \in Int
    BY <2>1, FieldRatioInt
  <2> QED BY <2>2, WhenHolds
<1>2. ASSUME NEW f \in Range(CodeFields) PROVE preferred(f) \in Seq(Int)
  <2>1. r.preferred[f] \in Seq(Values)
    BY DEF Request
  <2>2. FieldRatio(project, f, r.preferred[f]) \in Int
    BY <2>1, FieldRatioInt
  <2>3. FieldRatio(project, f, r.preferred[f]) \div 2 \in Int
    BY <2>2, Quotient
  <2> QED BY <2>3, WhenHolds
<1> HIDE DEF required, preferred
<1>3. parts = [n \in 1..5 |-> parts[n]] /\ \A n \in 1..5 : parts[n] \in Seq(Int)
  <2>1. parts = [n \in 1..5 |-> parts[n]]
    BY FieldsAre
  <2>2. ASSUME NEW n \in 1..5 PROVE parts[n] \in Seq(Int)
    <3>1. CodeFields[n] \in Range(CodeFields) /\ CodeFields[n] \in Fields
      BY FieldsAre
    <3>2. required(CodeFields[n]) \in Seq(Int) /\ preferred(CodeFields[n]) \in Seq(Int)
      BY <1>1, <1>2, <3>1
    <3>3. parts[n] = required(CodeFields[n]) \o preferred(CodeFields[n])
      BY FieldsAre
    <3> QED BY <3>2, <3>3, JoinedSeq
  <2> QED BY <2>1, <2>2
<1> HIDE DEF parts
<1>4. FlattenSeq(parts) \in Seq(Int)
  <2>1. 5 \in Nat
    OBVIOUS
  <2> QED BY <1>3, <2>1, FlattenHolds DEF Numbered
<1>5. required("project_keywords") \in Seq(Int)
  BY <1>1, FieldsAre
<1>6. Mean(FlattenSeq(parts) \o required("project_keywords")) \in Int
  BY <1>4, <1>5, JoinedSeq, MeanInt
<1> QED BY <1>6 DEF StructuredScore, parts, required, preferred

LEMMA BestInt ==
  ASSUME NEW b, NEW scores, IsFiniteSet(DOMAIN scores), \A i \in DOMAIN scores : scores[i] \in Int, NEW j
  PROVE  BestOfProject(b, scores, j) \in Int
<1> DEFINE its == {i \in DOMAIN scores : b.items[i].type = "PROJECT" /\ b.items[i].object = j}
<1>1. its \in SUBSET DOMAIN scores
  OBVIOUS
<1>2. BestOfProject(b, scores, j) = IF its = {} THEN 0 ELSE Max({scores[i] : i \in its})
  BY DEF BestOfProject
<1> HIDE DEF its
<1>3. IsFiniteSet(its)
  BY <1>1, FS_Subset
<1>4. IsFiniteSet({scores[i] : i \in its}) /\ {scores[i] : i \in its} \in SUBSET Int
  BY <1>1, <1>3, ImageFinite
<1>5. its # {} => Max({scores[i] : i \in its}) \in Int
  <2> SUFFICES ASSUME its # {} PROVE Max({scores[i] : i \in its}) \in Int
    OBVIOUS
  <2> DEFINE T == {scores[i] : i \in its}
  <2>1. T # {} /\ IsFiniteSet(T) /\ T \in SUBSET Int
    BY <1>4
  <2> HIDE DEF T
  <2>2. Max(T) \in T
    BY <2>1, MaxInt
  <2>3. Max(T) \in Int
    BY <2>1, <2>2
  <2> QED BY <2>3 DEF T
<1> QED BY <1>2, <1>5

LEMMA KeysFinite ==
  ASSUME NEW b \in Base
  PROVE  /\ IsFiniteSet(DOMAIN KeywordKeys(b)) /\ DOMAIN KeywordKeys(b) \subseteq DOMAIN b.items
         /\ IsFiniteSet(DOMAIN VectorKeys(b)) /\ DOMAIN VectorKeys(b) \subseteq DOMAIN b.items
         /\ DOMAIN b.items \subseteq Int
         /\ \A i \in DOMAIN b.items : /\ b.items[i].text \in Int /\ b.items[i].near \in Int
                                      /\ Weight(b.items[i]) \in Int
<1>1. b.items \in Seq(Item)
  BY DEF Base
<1>2. Len(b.items) \in Nat /\ DOMAIN b.items = 1..Len(b.items) /\ \A i \in DOMAIN b.items : b.items[i] \in Item
  BY <1>1
<1>3. IsFiniteSet(DOMAIN b.items)
  <2>1. 1 \in Int /\ Len(b.items) \in Int
    BY <1>2
  <2> QED BY <1>2, <2>1, FS_Interval
<1>4. DOMAIN KeywordKeys(b) \in SUBSET DOMAIN b.items
  BY DEF KeywordKeys
<1>5. DOMAIN VectorKeys(b) \in SUBSET DOMAIN b.items
  BY DEF VectorKeys
<1>6. ASSUME NEW i \in DOMAIN b.items
      PROVE  b.items[i].text \in Int /\ b.items[i].near \in Int /\ Weight(b.items[i]) \in Int
  <2>1. b.items[i].text \in Int /\ b.items[i].near \in Int
    BY <1>2 DEF Item
  <2>2. Weight(b.items[i]) \in Int
    BY DEF Weight
  <2> QED BY <2>1, <2>2
<1>7. IsFiniteSet(DOMAIN KeywordKeys(b)) /\ IsFiniteSet(DOMAIN VectorKeys(b))
  BY <1>3, <1>4, <1>5, FS_Subset
<1> QED BY <1>2, <1>4, <1>5, <1>6, <1>7

LEMMA PartHolds ==
  ASSUME NEW c, NEW w \in Nat \ {0}, NEW v, c => v \in Int
  PROVE  When(c, <<w, v>>) \in Seq(Part)
<1>1. c => <<w, v>> \in Part
  BY DEF Part
<1> QED BY <1>1, WhenHolds

LEMMA ProjectScoreInt ==
  ASSUME NEW b \in Base, NEW r \in Request, NEW j
  PROVE  ProjectScore(b, r, j) \in Int
<1> DEFINE text == [i \in DOMAIN KeywordKeys(b) |-> b.items[i].text * Percent]
           near == [i \in DOMAIN VectorKeys(b) |-> (b.items[i].near * Weight(b.items[i]) * Percent) \div 100]
           structured == StructuredScore(b.projects[j], r)
<1>1. structured \in Int
  BY StructuredScoreInt
<1>2. BestOfProject(b, text, j) \in Int
  <2>1. DOMAIN text = DOMAIN KeywordKeys(b)
    OBVIOUS
  <2>2. ASSUME NEW i \in DOMAIN text PROVE text[i] \in Int
    <3>1. b.items[i].text \in Int /\ Percent \in Int
      BY KeysFinite, Units
    <3> QED BY <3>1
  <2> HIDE DEF text
  <2> QED BY <2>1, <2>2, KeysFinite, BestInt
<1>3. BestOfProject(b, near, j) \in Int
  <2>1. DOMAIN near = DOMAIN VectorKeys(b)
    OBVIOUS
  <2>2. ASSUME NEW i \in DOMAIN near PROVE near[i] \in Int
    <3>1. b.items[i].near \in Int /\ Weight(b.items[i]) \in Int /\ Percent \in Int
      BY KeysFinite, Units
    <3>2. b.items[i].near * Weight(b.items[i]) * Percent \in Int
      BY <3>1
    <3>3. near[i] = (b.items[i].near * Weight(b.items[i]) * Percent) \div 100
      OBVIOUS
    <3> QED BY <3>2, <3>3, Quotient
  <2> HIDE DEF near
  <2> QED BY <2>1, <2>2, KeysFinite, BestInt
<1> DEFINE s == When(Structured(r), <<60, structured>>)
           k == When(r.keyword, <<20, BestOfProject(b, text, j)>>)
           v == When(r.semantic, <<20, BestOfProject(b, near, j)>>)
<1>4. ProjectScore(b, r, j) = WeightedMean(s \o k \o v)
  BY DEF ProjectScore
<1> HIDE DEF text, near, structured
<1>5. 60 \in Nat \ {0} /\ 20 \in Nat \ {0}
  OBVIOUS
<1>6. s \in Seq(Part) /\ k \in Seq(Part) /\ v \in Seq(Part)
  BY <1>1, <1>2, <1>3, <1>5, PartHolds
<1> HIDE DEF s, k, v
<1>7. s \o k \o v \in Seq(Part)
  BY <1>6, JoinedSeq
<1> QED BY <1>4, <1>7, WeightedMeanInt

LEMMA ProjectsAre ==
  ASSUME NEW b \in Base
  PROVE  /\ Len(b.projects) \in Nat /\ DOMAIN b.projects = 1..Len(b.projects)
         /\ \A j \in DOMAIN b.projects : b.projects[j] \in Project
         /\ \A p : IsFiniteSet(LiveProjects(b, p)) /\ LiveProjects(b, p) \subseteq DOMAIN b.projects
<1>1. b.projects \in Seq(Project)
  BY DEF Base
<1>2. /\ Len(b.projects) \in Nat /\ DOMAIN b.projects = 1..Len(b.projects)
      /\ \A j \in DOMAIN b.projects : b.projects[j] \in Project
  BY <1>1
<1>3. IsFiniteSet(DOMAIN b.projects)
  <2>1. 1 \in Int /\ Len(b.projects) \in Int
    BY <1>2
  <2> QED BY <1>2, <2>1, FS_Interval
<1>4. ASSUME NEW p PROVE LiveProjects(b, p) \in SUBSET DOMAIN b.projects
  BY DEF LiveProjects
<1>5. ASSUME NEW p PROVE IsFiniteSet(LiveProjects(b, p))
  BY <1>3, <1>4, FS_Subset
<1> QED BY <1>2, <1>4, <1>5

LEMMA LatestIs ==
  ASSUME NEW project \in Project
  PROVE  Latest(project) \in Int \cup {None}
<1>1. project.end \in Int \cup {None} /\ project.start \in Int \cup {None}
  BY DEF Project, Nullable
<1> QED BY <1>1 DEF Latest

LEMMA DurationInt ==
  ASSUME NEW project \in Project
  PROVE  Duration(project) \in Int
<1>1. /\ project.end \in Int \cup {None} /\ project.start \in Int \cup {None}
      /\ project.months \in Int \cup {None}
  BY DEF Project, Nullable
<1>2. Today \in Int
  BY RankingAssumption
<1>3. CASE project.months # None
  BY <1>1, <1>3 DEF Duration
<1>4. CASE project.months = None /\ project.start = None
  BY <1>4 DEF Duration
<1>5. CASE project.months = None /\ project.start # None
  <2> DEFINE d == (IF project.end # None THEN project.end ELSE Today) - project.start
  <2>1. d \in Int
    BY <1>1, <1>2, <1>5
  <2>2. Duration(project) = AtLeast(0, d)
    BY <1>5 DEF Duration
  <2> HIDE DEF d
  <2> QED BY <2>1, <2>2 DEF AtLeast
<1> QED BY <1>3, <1>4, <1>5

LEMMA RecencyInt ==
  ASSUME NEW latest \in Int \cup {None}
  PROVE  Recency(latest) \in Int
<1>1. One \in Int /\ 60 * Percent \in Int /\ 85 * Percent \in Int /\ 70 * Percent \in Int /\ 55 * Percent \in Int
  <2>1. One \in Int /\ Percent \in Int
    BY Units
  <2> QED BY <2>1
<1> HIDE DEF One, Percent
<1>2. CASE latest = None
  BY <1>1, <1>2 DEF Recency
<1>3. CASE latest # None
  <2> DEFINE age == Today - latest
  <2>1. age \in Int
    BY <1>3, RankingAssumption
  <2>2. Recency(latest) = CASE age =< 24 -> One
                            [] age > 24 /\ age =< 60 -> 85 * Percent
                            [] age > 60 /\ age =< 120 -> 70 * Percent
                            [] OTHER -> 55 * Percent
    BY <1>3 DEF Recency
  <2> HIDE DEF age
  <2>3. CASE age =< 24
    BY <1>1, <2>1, <2>2, <2>3
  <2>4. CASE age > 24 /\ age =< 60
    BY <1>1, <2>1, <2>2, <2>4
  <2>5. CASE age > 60 /\ age =< 120
    BY <1>1, <2>1, <2>2, <2>5
  <2>6. CASE age > 120
    BY <1>1, <2>1, <2>2, <2>6
  <2> QED BY <2>1, <2>3, <2>4, <2>5, <2>6
<1> QED BY <1>2, <1>3

LEMMA ProjectRelevanceInt ==
  ASSUME NEW best \in Int, NEW count \in Int, NEW months \in Int
  PROVE  ProjectRelevance(best, count, months) \in Int
<1> DEFINE c == (Atmost(count, 3) * One) \div 3
           m == (Atmost(months, 36) * One) \div 36
<1>1. Atmost(count, 3) * One \in Int /\ Atmost(months, 36) * One \in Int
  <2>1. One \in Int
    BY Units
  <2>2. Atmost(count, 3) \in Int /\ Atmost(months, 36) \in Int
    BY DEF Atmost
  <2> QED BY <2>1, <2>2
<1>2. c \in Int /\ m \in Int
  BY <1>1, Quotient
<1>3. ProjectRelevance(best, count, months) = WeightedMean(<<<<70, best>>, <<20, c>>, <<10, m>>>>)
  BY DEF ProjectRelevance
<1> HIDE DEF c, m
<1>4. <<70, best>> \in Part /\ <<20, c>> \in Part /\ <<10, m>> \in Part
  BY <1>2 DEF Part
<1>5. <<<<70, best>>, <<20, c>>, <<10, m>>>> \in Seq(Part)
  BY <1>4
<1> QED BY <1>3, <1>5, WeightedMeanInt

\* The date of the latest of some projects.
LEMMA LatestOfSome ==
  ASSUME NEW b \in Base, NEW J \in SUBSET DOMAIN b.projects, IsFiniteSet(J)
  PROVE  LET dates == {Latest(b.projects[j]) : j \in J} \ {None}
         IN  (IF dates = {} THEN None ELSE Max(dates)) \in Int \cup {None}
<1> DEFINE latest == [j \in DOMAIN b.projects |-> Latest(b.projects[j])]
           all == {latest[j] : j \in J}
           dates == {Latest(b.projects[j]) : j \in J} \ {None}
<1>1. \A j \in J : latest[j] \in Int \cup {None}
  BY ProjectsAre, LatestIs
<1>2. dates = all \ {None}
  OBVIOUS
<1> HIDE DEF latest, dates
<1>3. IsFiniteSet(all)
  BY ImageFinite
<1>4. dates \in SUBSET all /\ dates \in SUBSET Int
  BY <1>1, <1>2
<1> HIDE DEF all
<1>5. IsFiniteSet(dates)
  BY <1>3, <1>4, FS_Subset
<1>6. dates # {} => Max(dates) \in dates
  BY <1>4, <1>5, MaxInt
<1>7. (IF dates = {} THEN None ELSE Max(dates)) \in Int \cup {None}
  BY <1>4, <1>6
<1> QED BY <1>7 DEF dates

LEMMA SummaryOfInt ==
  ASSUME NEW b \in Base, NEW score, NEW J \in SUBSET DOMAIN b.projects, IsFiniteSet(J),
         \A j \in J : score[j] \in Int
  PROVE  SummaryOf(b, score, J).relevance \in Int /\ SummaryOf(b, score, J).recency \in Int
<1> DEFINE months == [j \in DOMAIN b.projects |-> IF j \in J THEN Duration(b.projects[j]) ELSE 0]
           scores == {score[j] : j \in J}
           dates == {Latest(b.projects[j]) : j \in J} \ {None}
<1>1. Total(months) \in Int
  <2>1. \A j \in 1..Len(b.projects) : months[j] \in Int
    BY ProjectsAre, DurationInt
  <2>2. months = [j \in 1..Len(b.projects) |-> months[j]]
    BY ProjectsAre
  <2> HIDE DEF months
  <2> QED BY <2>1, <2>2, ProjectsAre, IntegerList DEF Numbered
<1>2. Cardinality(J) \in Int
  BY FS_CardinalityType
<1>3. J # {} => Max(scores) \in Int
  <2>1. scores \in SUBSET Int /\ IsFiniteSet(scores) /\ (J # {} => scores # {})
    BY ImageFinite
  <2> HIDE DEF scores
  <2> QED BY <2>1, MaxInt
<1>4. Recency(IF dates = {} THEN None ELSE Max(dates)) \in Int
  <2>1. (IF dates = {} THEN None ELSE Max(dates)) \in Int \cup {None}
    BY LatestOfSome
  <2> HIDE DEF dates
  <2> QED BY <2>1, RecencyInt
<1>5. J # {} => ProjectRelevance(Max(scores), Cardinality(J), Total(months)) \in Int
  BY <1>1, <1>2, <1>3, ProjectRelevanceInt
<1>6. SummaryOf(b, score, J).relevance =
        IF J = {} THEN 0 ELSE ProjectRelevance(Max(scores), Cardinality(J), Total(months))
  BY DEF SummaryOf
<1>7. SummaryOf(b, score, J).recency = Recency(IF dates = {} THEN None ELSE Max(dates))
  BY DEF SummaryOf
<1> HIDE DEF months, scores, dates
<1> QED BY <1>4, <1>5, <1>6, <1>7

LEMMA SummaryInt ==
  ASSUME NEW b \in Base, NEW r \in Request, NEW p
  PROVE  Summary(b, r, p).relevance \in Int /\ Summary(b, r, p).recency \in Int
<1>1. CASE ~ProjectsCount(r)
  BY <1>1 DEF Summary, NoSummary
<1>2. CASE ProjectsCount(r)
  <2> DEFINE score == [j \in LiveProjects(b, p) |-> ProjectScore(b, r, j)]
             J == {j \in DOMAIN score : score[j] > 0}
  <2>1. Summary(b, r, p) = SummaryOf(b, score, J)
    BY <1>2 DEF Summary, Summarised
  <2>2. J \in SUBSET LiveProjects(b, p) /\ \A j \in J : score[j] \in Int
    BY ProjectScoreInt
  <2> HIDE DEF score, J
  <2>3. IsFiniteSet(J) /\ J \in SUBSET DOMAIN b.projects
    BY <2>2, ProjectsAre, FS_Subset
  <2> QED BY <2>1, <2>2, <2>3, SummaryOfInt
<1> QED BY <1>1, <1>2

LEMMA FinalScoreInt ==
  ASSUME NEW r, NEW ranks \in Seq(Nat), NEW ratio \in Int, NEW summary,
         summary.relevance \in Int, summary.recency \in Int
  PROVE  FinalScore(r, ranks, ratio, summary) \in Int
<1> DEFINE found == [n \in DOMAIN ranks |-> Rrf(ranks[n])]
           a == When(RequiredPresent(r), <<20, One>>)
           c == When(ranks # <<>>, <<45, Mean(found)>>)
           d == When(PreferredFields(r) # {}, <<10, ratio>>)
           e == When(ProjectsCount(r), <<20, summary.relevance>>)
           f == When(ProjectsCount(r) /\ summary.related, <<5, summary.recency>>)
           relevance == WeightedMean(a \o c \o d \o e \o f)
<1>1. Mean(found) \in Int
  <2>1. Len(ranks) \in Nat /\ DOMAIN ranks = 1..Len(ranks) /\ \A n \in 1..Len(ranks) : ranks[n] \in Nat
    OBVIOUS
  <2>2. ASSUME NEW n \in 1..Len(ranks) PROVE found[n] \in Int
    <3>1. 61 * One \in Int /\ 60 + ranks[n] \in Int /\ 60 + ranks[n] > 0
      BY <2>1, Units
    <3>2. Rrf(ranks[n]) \in Int
      BY <3>1, Quotient DEF Rrf
    <3> QED BY <2>1, <3>2
  <2>3. found = [n \in 1..Len(ranks) |-> found[n]]
    BY <2>1
  <2> HIDE DEF found
  <2> QED BY <2>1, <2>2, <2>3, IntegerList DEF Numbered
<1>2. FinalScore(r, ranks, ratio, summary) = (relevance * 100 + One \div 2) \div One
  BY DEF FinalScore
<1> HIDE DEF found
<1>3. /\ 20 \in Nat \ {0} /\ 45 \in Nat \ {0} /\ 10 \in Nat \ {0} /\ 5 \in Nat \ {0}
      /\ One \in Int /\ One > 0
  BY Units
<1> HIDE DEF One
<1>4. a \in Seq(Part) /\ c \in Seq(Part) /\ d \in Seq(Part) /\ e \in Seq(Part) /\ f \in Seq(Part)
  BY <1>1, <1>3, PartHolds
<1> HIDE DEF a, c, d, e, f
<1>5. a \o c \o d \o e \o f \in Seq(Part)
  BY <1>4, JoinedSeq
<1>6. relevance \in Int
  BY <1>5, WeightedMeanInt
<1> HIDE DEF relevance
<1>7. One \div 2 \in Int
  BY <1>3, Quotient
<1>8. relevance * 100 + One \div 2 \in Int
  BY <1>6, <1>7
<1> QED BY <1>2, <1>3, <1>8, Quotient

-----------------------------------------------------------------------------
(* Lists of people. *)

\* What a row is ordered by.
IsRow(row) ==
  /\ DOMAIN row = {"person", "name", "updated", "months", "score", "ratio", "recent"}
  /\ row.person \in Int /\ row.name \in Int /\ row.updated \in Int
  /\ row.months \in Int \cup {None} /\ row.recent \in Int \cup {None}

IsScored(row) == IsRow(row) /\ row.score \in Int /\ row.ratio \in Int

KeyLength(sort) == IF sort \in {"RELEVANCE", "CAREER_DESC", "RECENT_PROJECT_DESC"} THEN 4
                   ELSE IF sort = "UPDATED_DESC" THEN 3 ELSE 2

LEMMA JoinedAt ==
  ASSUME NEW S, NEW s \in Seq(S), NEW t \in Seq(S), NEW i \in 1..Len(t)
  PROVE  Len(s \o t) = Len(s) + Len(t) /\ (s \o t)[Len(s) + i] = t[i]
OBVIOUS

LEMMA JoinedKey ==
  ASSUME NEW s, IsKey(s, 2), NEW x \in Int, NEW y \in Int
  PROVE  IsKey(s \o <<x, y>>, 4) /\ (s \o <<x, y>>)[4] = y
<1> DEFINE t == <<x, y>>
<1>1. t \in Seq(Int) /\ 2 \in 1..Len(t)
  OBVIOUS
<1>2. Len(t) = 2 /\ t[2] = y
  OBVIOUS
<1> HIDE DEF t
<1>3. s \in Seq(Int)
  BY DEF IsKey
<1>4. s \o t \in Seq(Int)
  BY <1>1, <1>3, JoinedSeq
<1>5. Len(s \o t) = Len(s) + Len(t) /\ (s \o t)[Len(s) + 2] = t[2]
  BY <1>1, <1>3, JoinedAt
<1>6. Len(s \o t) = 4 /\ (s \o t)[4] = y
  BY <1>2, <1>5 DEF IsKey
<1> QED BY <1>4, <1>6 DEF t, IsKey

\* The last part of a key is the person.
LEMMA SortKeyIs ==
  ASSUME NEW sort \in Sorts, NEW row, IsScored(row)
  PROVE  /\ IsKey(SortKey(sort, row), KeyLength(sort))
         /\ SortKey(sort, row)[KeyLength(sort)] = row.person
<1> DEFINE score == -row.score
           latest == IF row.recent = None THEN <<1, 0>> ELSE <<0, -row.recent>>
           months == IF row.months = None THEN <<1, 0>> ELSE <<0, -row.months>>
<1>1. score \in Int /\ -row.ratio \in Int /\ -row.updated \in Int /\ row.person \in Int /\ row.name \in Int
  BY DEF IsScored, IsRow
<1>2. IsKey(latest, 2)
  BY DEF IsScored, IsRow, IsKey
<1>3. IsKey(months, 2)
  BY DEF IsScored, IsRow, IsKey
<1>4. SortKey(sort, row) = CASE sort = "RELEVANCE" -> <<score, -row.ratio, -row.updated, row.person>>
                             [] sort = "CAREER_DESC" -> months \o <<score, row.person>>
                             [] sort = "UPDATED_DESC" -> <<-row.updated, score, row.person>>
                             [] sort = "NAME_ASC" -> <<row.name, row.person>>
                             [] sort = "RECENT_PROJECT_DESC" -> latest \o <<score, row.person>>
  BY DEF SortKey
<1> HIDE DEF score, latest, months
<1> DEFINE u == -row.updated
           q == -row.ratio
<1>5. CASE sort = "RELEVANCE"
  <2>1. SortKey(sort, row) = <<score, q, u, row.person>> /\ KeyLength(sort) = 4
    BY <1>4, <1>5 DEF KeyLength
  <2>2. q \in Int /\ u \in Int
    BY <1>1
  <2> HIDE DEF q, u
  <2> QED BY <1>1, <2>1, <2>2 DEF IsKey
<1>6. CASE sort = "CAREER_DESC"
  <2>1. SortKey(sort, row) = months \o <<score, row.person>> /\ KeyLength(sort) = 4
    BY <1>4, <1>6 DEF KeyLength
  <2>2. IsKey(months \o <<score, row.person>>, 4) /\ (months \o <<score, row.person>>)[4] = row.person
    BY <1>1, <1>3, JoinedKey
  <2> QED BY <2>1, <2>2
<1>7. CASE sort = "UPDATED_DESC"
  <2>1. SortKey(sort, row) = <<u, score, row.person>> /\ KeyLength(sort) = 3
    BY <1>4, <1>7 DEF KeyLength
  <2>2. u \in Int
    BY <1>1
  <2> HIDE DEF u
  <2> QED BY <1>1, <2>1, <2>2 DEF IsKey
<1>8. CASE sort = "NAME_ASC"
  <2>1. SortKey(sort, row) = <<row.name, row.person>> /\ KeyLength(sort) = 2
    BY <1>4, <1>8 DEF KeyLength
  <2> QED BY <1>1, <2>1 DEF IsKey
<1>9. CASE sort = "RECENT_PROJECT_DESC"
  <2>1. SortKey(sort, row) = latest \o <<score, row.person>> /\ KeyLength(sort) = 4
    BY <1>4, <1>9 DEF KeyLength
  <2>2. IsKey(latest \o <<score, row.person>>, 4) /\ (latest \o <<score, row.person>>)[4] = row.person
    BY <1>1, <1>2, JoinedKey
  <2> QED BY <2>1, <2>2
<1> QED BY <1>5, <1>6, <1>7, <1>8, <1>9 DEF Sorts

LEMMA SubSeqHolds ==
  ASSUME NEW S, NEW s \in Seq(S), NEW a \in Nat \ {0}, NEW c \in Int, c <= Len(s)
  PROVE  SubSeq(s, a, c) \in Seq(S)
OBVIOUS

LEMMA PageHolds ==
  ASSUME NEW S, NEW s \in Seq(S), NEW r \in Request
  PROVE  PageOf(s, r) \in Seq(S)
<1> DEFINE a == (r.page - 1) * r.size + 1
           c == Atmost(r.page * r.size, Len(s))
<1>1. r.page \in Nat \ {0} /\ r.size \in Nat \ {0} /\ Len(s) \in Nat
  BY DEF Request
<1>2. (r.page - 1) * r.size \in Nat /\ r.page * r.size \in Nat
  <2>1. r.page - 1 \in Nat /\ r.page \in Nat /\ r.size \in Nat
    BY <1>1
  <2> DEFINE k == r.page - 1
             n == r.page
             m == r.size
  <2>2. k \in Nat /\ n \in Nat /\ m \in Nat
    BY <2>1
  <2> HIDE DEF k, n, m
  <2>3. k * m \in Nat /\ n * m \in Nat
    BY <2>2
  <2> QED BY <2>3 DEF k, n, m
<1>3. a \in Nat \ {0}
  BY <1>2
<1>4. c \in Int /\ c <= Len(s)
  BY <1>1, <1>2 DEF Atmost
<1>5. PageOf(s, r) = SubSeq(s, a, c)
  BY DEF PageOf
<1> HIDE DEF a, c
<1> QED BY <1>3, <1>4, <1>5, SubSeqHolds

\* The items of these people.
Of(b, keys, people) == {i \in DOMAIN keys : b.items[i].person \in people}

\* The ranking of a channel: items of the people it is given, and one of
\* everybody who has any.
LEMMA RankedHolds ==
  ASSUME NEW b, NEW keys, IsFiniteSet(DOMAIN keys), NEW n \in Nat, Keyed(DOMAIN keys, keys, n),
         NEW people, IsFiniteSet(people)
  PROVE  /\ Ranked(b, keys, people) \in Seq(Of(b, keys, people))
         /\ HitPeople(b, Ranked(b, keys, people)) = Having(b, keys, people)
<1> DEFINE mine(p) == {i \in DOMAIN keys : b.items[i].person = p}
           best(p) == CHOOSE i \in mine(p) : \A o \in mine(p) \ {i} : Precedes(keys[i], keys[o])
           found == {p \in people : mine(p) # {}}
           S == {best(p) : p \in found}
           f == [p \in found |-> best(p)]
           ranked == InOrder(S, keys)
           W == {i \in DOMAIN keys : b.items[i].person \in people}
<1>1. ASSUME NEW p \in found PROVE best(p) \in mine(p)
  <2>1. mine(p) \in SUBSET DOMAIN keys /\ mine(p) # {}
    OBVIOUS
  <2> DEFINE M == mine(p)
  <2>2. best(p) = CHOOSE i \in M : \A o \in M \ {i} : Precedes(keys[i], keys[o])
    OBVIOUS
  <2>3. M \in SUBSET DOMAIN keys /\ M # {}
    BY <2>1
  <2> HIDE DEF M, best, mine
  <2>4. IsFiniteSet(M)
    BY <2>3, FS_Subset
  <2>5. Keyed(M, keys, n)
    BY <2>3 DEF Keyed
  <2>6. \E i \in M : \A o \in M \ {i} : Precedes(keys[i], keys[o])
    BY <2>3, <2>4, <2>5, SmallestExists
  <2>7. best(p) \in M
    BY <2>2, <2>6
  <2> QED BY <2>7 DEF M
<1>2. S \subseteq W
  <2>1. ASSUME NEW p \in found PROVE best(p) \in W
    <3>1. best(p) \in mine(p) /\ p \in people
      BY <1>1
    <3> HIDE DEF best
    <3> QED BY <3>1
  <2> HIDE DEF best, W, found
  <2> QED BY <2>1
<1>3. IsFiniteSet(S)
  <2>1. IsFiniteSet(found)
    <3>1. found \in SUBSET people
      OBVIOUS
    <3> HIDE DEF found
    <3> QED BY <3>1, FS_Subset
  <2>2. S = {f[p] : p \in found}
    OBVIOUS
  <2> HIDE DEF f, found, S
  <2> QED BY <2>1, <2>2, ImageFinite
<1>4. Ranked(b, keys, people) = ranked
  BY DEF Ranked
<1>5. W \subseteq DOMAIN keys
  OBVIOUS
<1>6. \A p \in found : b.items[best(p)].person = p
  <2>1. ASSUME NEW p \in found PROVE b.items[best(p)].person = p
    <3>1. best(p) \in mine(p)
      BY <1>1
    <3> HIDE DEF best
    <3> QED BY <3>1
  <2> HIDE DEF best, found
  <2> QED BY <2>1
<1>7. {b.items[i].person : i \in S} = found
  <2> HIDE DEF best, found
  <2> QED BY <1>6
<1>8. found = Having(b, keys, people)
  BY DEF Having
<1> HIDE DEF S, W
<1>9. Keyed(S, keys, n)
  BY <1>2, <1>5 DEF Keyed
<1>10. ranked \in Seq(S) /\ Len(ranked) = Cardinality(S)
  BY <1>3, <1>9, InOrderHolds
<1>11. \A x \in S : \E i \in 1..Cardinality(S) : ranked[i] = x
  BY <1>3, <1>9, InOrderLists
<1> HIDE DEF ranked, found
<1>12. ranked \in Seq(W)
  BY <1>2, <1>10
<1>13. Range(ranked) = S
  BY <1>10, <1>11 DEF Range
<1>14. HitPeople(b, ranked) = {b.items[i].person : i \in S}
  BY <1>13 DEF HitPeople
<1> QED BY <1>4, <1>7, <1>8, <1>12, <1>14 DEF W, Of

\* A channel finds items of the people it is given; if it does not say that its
\* candidates were cut, all that were ranked.
LEMMA ChannelHolds ==
  ASSUME NEW b, NEW keys, IsFiniteSet(DOMAIN keys), NEW n \in Nat, Keyed(DOMAIN keys, keys, n),
         NEW people, IsFiniteSet(people), NEW limit \in Nat
  PROVE  /\ Channel(b, keys, people, limit).hits \in Seq(Of(b, keys, people))
         /\ Channel(b, keys, people, limit).cut
            \/ Channel(b, keys, people, limit).hits = Ranked(b, keys, people)
<1> DEFINE ranked == Ranked(b, keys, people)
           W == Of(b, keys, people)
<1>1. ranked \in Seq(W)
  BY RankedHolds
<1>2. /\ Channel(b, keys, people, limit).hits = SubSeq(ranked, 1, Atmost(limit, Len(ranked)))
      /\ Channel(b, keys, people, limit).cut = Truncated(ranked, limit)
  BY DEF Channel
<1> HIDE DEF ranked, W
<1>3. 1 \in Nat \ {0} /\ Atmost(limit, Len(ranked)) \in Int /\ Atmost(limit, Len(ranked)) <= Len(ranked)
  <2>1. Len(ranked) \in Nat
    BY <1>1
  <2> QED BY <2>1 DEF Atmost
<1>4. SubSeq(ranked, 1, Atmost(limit, Len(ranked))) \in Seq(W)
  BY <1>1, <1>3, SubSeqHolds
<1>5. ASSUME ~Truncated(ranked, limit) PROVE SubSeq(ranked, 1, Atmost(limit, Len(ranked))) = ranked
  <2>1. Len(ranked) \in Nat
    BY <1>1
  <2>2. Len(ranked) <= limit
    <3>1. CASE Len(ranked) > limit
      <4>1. Atmost(limit + 1, Len(ranked)) = limit + 1 /\ limit + 1 <= Len(ranked)
        BY <2>1, <3>1 DEF Atmost
      <4>2. Len(SubSeq(ranked, 1, limit + 1)) = limit + 1
        BY <1>1, <4>1
      <4>3. limit + 1 > limit
        OBVIOUS
      <4> QED BY <1>5, <4>1, <4>2, <4>3 DEF Truncated
    <3> QED BY <2>1, <3>1
  <2>3. Atmost(limit, Len(ranked)) = Len(ranked)
    BY <2>1, <2>2 DEF Atmost
  <2>4. SubSeq(ranked, 1, Len(ranked)) = ranked
    BY <1>1
  <2> QED BY <2>3, <2>4
<1> QED BY <1>2, <1>4, <1>5 DEF ranked, W

-----------------------------------------------------------------------------
(* The list of a search. *)

\* L shows each of P once and nobody else.
Lists(L, P) ==
  /\ L \in Seq(Range(L)) /\ Len(L) = Cardinality(P)
  /\ \A i \in 1..Len(L) : L[i].person \in P
  /\ \A i, j \in 1..Len(L) : L[i].person = L[j].person => i = j
  /\ \A p \in P : \E i \in 1..Len(L) : L[i].person = p

LEMMA PeopleCounted ==
  ASSUME NEW rows, IsFiniteSet(rows), \A a, b \in rows : a.person = b.person => a = b
  PROVE  Cardinality({row.person : row \in rows}) = Cardinality(rows)
<1> DEFINE f == [row \in rows |-> row.person]
           P == {row.person : row \in rows}
<1>1. f \in [rows -> P] /\ (\A p \in P : \E row \in rows : f[row] = p)
      /\ \A a, b \in rows : f[a] = f[b] => a = b
  OBVIOUS
<1> HIDE DEF f, P
<1>2. f \in Surjection(rows, P) /\ f \in Injection(rows, P)
  BY <1>1 DEF Surjection, Injection, IsInjective
<1>3. Cardinality(P) = Cardinality(rows)
  BY <1>2, FS_Surjection
<1> QED BY <1>3 DEF P

LEMMA SortedLists ==
  ASSUME NEW sort \in Sorts, NEW rows, IsFiniteSet(rows), \A row \in rows : IsScored(row),
         \A a, b \in rows : a.person = b.person => a = b
  PROVE  Lists(Sorted(rows, sort), {row.person : row \in rows})
<1> DEFINE key == [row \in rows |-> SortKey(sort, row)]
           L == InOrder(rows, key)
           P == {row.person : row \in rows}
<1>1. \A x \in rows : IsKey(key[x], KeyLength(sort)) /\ key[x][KeyLength(sort)] = x.person
  BY SortKeyIs
<1>2. Sorted(rows, sort) = L
  BY DEF Sorted
<1> HIDE DEF key
<1>3. Keyed(rows, key, KeyLength(sort))
  BY <1>1 DEF Keyed
<1>4. KeyLength(sort) \in Nat
  BY DEF KeyLength
<1>5. L \in Seq(rows) /\ Len(L) = Cardinality(rows)
  BY <1>3, <1>4, InOrderHolds
<1>6. /\ \A i, j \in 1..Cardinality(rows) : L[i] = L[j] => i = j
      /\ \A x \in rows : \E i \in 1..Cardinality(rows) : L[i] = x
  BY <1>3, <1>4, InOrderLists
<1> HIDE DEF L
<1>7. Cardinality(P) = Cardinality(rows)
  BY PeopleCounted
<1>8. \A i \in 1..Len(L) : L[i] \in rows
  BY <1>5
<1>9. L \in Seq(Range(L))
  <2>1. Len(L) \in Nat /\ DOMAIN L = 1..Len(L) /\ L = [i \in 1..Len(L) |-> L[i]]
    BY <1>5
  <2>2. \A i \in 1..Len(L) : L[i] \in Range(L)
    BY <2>1 DEF Range
  <2> QED BY <2>1, <2>2, NumberedSeq DEF Numbered
<1>10. /\ \A i \in 1..Len(L) : L[i].person \in P
       /\ \A p \in P : \E i \in 1..Len(L) : L[i].person = p
  BY <1>5, <1>6, <1>8
<1>11. \A i, j \in 1..Len(L) : L[i].person = L[j].person => i = j
  BY <1>5, <1>6, <1>8
<1> HIDE DEF P
<1>12. Lists(L, P)
  BY <1>5, <1>7, <1>9, <1>10, <1>11 DEF Lists
<1> QED BY <1>2, <1>12 DEF P

LEMMA RanksNat ==
  ASSUME NEW b, NEW p, NEW S, NEW hits \in Seq(S)
  PROVE  RanksIn(b, hits, p) \in Seq(Nat)
<1> DEFINE at == {n \in DOMAIN hits : b.items[hits[n]].person = p}
<1>1. at \subseteq Nat
  OBVIOUS
<1>2. RanksIn(b, hits, p) = When(at # {}, CHOOSE n \in at : TRUE)
  BY DEF RanksIn
<1> HIDE DEF at
<1>3. at # {} => (CHOOSE n \in at : TRUE) \in Nat
  BY <1>1
<1> QED BY <1>2, <1>3, WhenHolds

\* A row with its score, and the list that the last statements make of what
\* the channels, the rows and the shares of preferred conditions are.
Scored(b, r, keyword, vector, ratio, row) ==
  [row EXCEPT !.score = FinalScore(r, RanksIn(b, keyword, row.person) \o RanksIn(b, vector, row.person),
                                   ratio[row.person], Summary(b, r, row.person)),
              !.ratio = ratio[row.person]]

Listed(b, r, keyword, vector, rows, ratio) ==
  Sorted({Scored(b, r, keyword, vector, ratio, row) : row \in rows}, r.sort)

LEMMA ScoredHolds ==
  ASSUME NEW b \in Base, NEW r \in Request, NEW S, NEW keyword \in Seq(S), NEW vector \in Seq(S),
         NEW ratio, NEW row, IsRow(row), ratio[row.person] \in Int
  PROVE  /\ IsScored(Scored(b, r, keyword, vector, ratio, row))
         /\ Scored(b, r, keyword, vector, ratio, row).person = row.person
<1> DEFINE p == row.person
           q == ratio[p]
           ranks == RanksIn(b, keyword, p) \o RanksIn(b, vector, p)
           s == FinalScore(r, ranks, q, Summary(b, r, p))
           new == Scored(b, r, keyword, vector, ratio, row)
<1>1. ranks \in Seq(Nat)
  <2>1. RanksIn(b, keyword, p) \in Seq(Nat) /\ RanksIn(b, vector, p) \in Seq(Nat)
    BY RanksNat
  <2> QED BY <2>1, JoinedSeq
<1>2. Summary(b, r, p).relevance \in Int /\ Summary(b, r, p).recency \in Int
  BY SummaryInt
<1>3. new = [row EXCEPT !.score = s, !.ratio = q]
  BY DEF Scored
<1> HIDE DEF ranks
<1>4. s \in Int /\ q \in Int
  BY <1>1, <1>2, FinalScoreInt
<1> HIDE DEF s, q, p, new
<1>5. IsScored(new) /\ new.person = row.person
  BY <1>3, <1>4 DEF IsScored, IsRow
<1> QED BY <1>5 DEF new

\* Rows that can be ranked: one for each person, whose share is known.
Rankable(rows, ratio) ==
  /\ IsFiniteSet(rows)
  /\ \A row \in rows : IsRow(row) /\ row.person \in DOMAIN ratio /\ ratio[row.person] \in Int
  /\ \A x, y \in rows : x.person = y.person => x = y

\* The list shows everybody who was read, once.
LEMMA ListedHolds ==
  ASSUME NEW b \in Base, NEW r \in Request, NEW S, NEW keyword \in Seq(S), NEW vector \in Seq(S),
         NEW rows, NEW ratio, Rankable(rows, ratio)
  PROVE  Lists(Listed(b, r, keyword, vector, rows, ratio), {row.person : row \in rows})
<1> DEFINE f == [row \in rows |-> Scored(b, r, keyword, vector, ratio, row)]
           scored == {Scored(b, r, keyword, vector, ratio, row) : row \in rows}
<1>1. r.sort \in Sorts
  BY DEF Request
<1>2. scored = {f[row] : row \in rows}
  OBVIOUS
<1>3. \A row \in rows : IsScored(f[row]) /\ f[row].person = row.person
  BY ScoredHolds DEF Rankable
<1>4. Listed(b, r, keyword, vector, rows, ratio) = Sorted(scored, r.sort)
  BY DEF Listed
<1> HIDE DEF f, scored
<1>5. IsFiniteSet(scored)
  BY <1>2, ImageFinite DEF Rankable
<1>6. \A x \in scored : IsScored(x)
  BY <1>2, <1>3
<1>7. \A x, y \in scored : x.person = y.person => x = y
  BY <1>2, <1>3 DEF Rankable
<1>8. {x.person : x \in scored} = {row.person : row \in rows}
  BY <1>2, <1>3
<1> QED BY <1>1, <1>4, <1>5, <1>6, <1>7, <1>8, SortedLists

-----------------------------------------------------------------------------
(* Pages. *)

LEMMA Multiples ==
  ASSUME NEW k \in Nat, NEW a \in Nat, NEW b \in Nat, a < b
  PROVE  a * k \in Nat /\ (b - 1) * k \in Nat /\ a * k <= (b - 1) * k /\ b * k = (b - 1) * k + k
<1> DEFINE d == b - 1 - a
<1>1. d \in Nat /\ b - 1 = a + d /\ b - 1 \in Nat
  OBVIOUS
<1> HIDE DEF d
<1>2. a * k \in Nat /\ d * k \in Nat /\ (b - 1) * k \in Nat
  BY <1>1
<1>3. (a + d) * k = a * k + d * k
  BY <1>1
<1>4. b * k = (b - 1) * k + k
  BY <1>1
<1> QED BY <1>1, <1>2, <1>3, <1>4

\* A place in the list is on one of the pages that reach that far.
LEMMA PageFound ==
  ASSUME NEW k \in Nat \ {0}, NEW m \in Nat, NEW x \in Nat \ {0}, x <= m * k
  PROVE  \E n \in 1..m : (n - 1) * k < x /\ x <= n * k
<1> DEFINE S == {n \in Nat : x <= n * k}
<1>1. S \in SUBSET Nat /\ m \in S
  OBVIOUS
<1>2. \A n \in Nat : n \in S <=> x <= n * k
  OBVIOUS
<1> HIDE DEF S
<1>3. PICK n \in S : \A j \in S : n <= j
  BY <1>1, Least
<1>4. n \in Nat /\ n <= m /\ x <= n * k
  BY <1>1, <1>2, <1>3
<1>5. n # 0
  BY <1>4
<1>6. n - 1 \in Nat /\ n - 1 \notin S
  BY <1>1, <1>3, <1>4, <1>5
<1>7. (n - 1) * k \in Nat
  BY <1>6
<1>8. (n - 1) * k < x
  BY <1>2, <1>6, <1>7
<1>9. n \in 1..m
  BY <1>4, <1>5
<1> QED BY <1>4, <1>8, <1>9

\* It is on one page only.
LEMMA PageUnique ==
  ASSUME NEW k \in Nat \ {0}, NEW n \in Nat \ {0}, NEW m \in Nat \ {0}, NEW i \in 1..k, NEW j \in 1..k,
         (n - 1) * k + i = (m - 1) * k + j
  PROVE  n = m /\ i = j
<1>1. (n - 1) * k \in Nat /\ (m - 1) * k \in Nat
  <2>1. n - 1 \in Nat /\ m - 1 \in Nat
    OBVIOUS
  <2> DEFINE a == n - 1
             b == m - 1
  <2> HIDE DEF a, b
  <2>2. a * k \in Nat /\ b * k \in Nat
    BY <2>1 DEF a, b
  <2> QED BY <2>2 DEF a, b
<1>2. ASSUME NEW a \in Nat \ {0}, NEW b \in Nat \ {0}, a < b, NEW u \in 1..k, NEW v \in 1..k,
             (a - 1) * k \in Nat, (b - 1) * k \in Nat
      PROVE  (a - 1) * k + u # (b - 1) * k + v
  <2>1. a * k <= (b - 1) * k
    BY <1>2, Multiples
  <2>2. a - 1 \in Nat /\ a - 1 < a /\ a \in Nat /\ k \in Nat
    OBVIOUS
  <2>3. a * k = (a - 1) * k + k
    BY <2>2, Multiples
  <2> DEFINE p == (a - 1) * k
             q == (b - 1) * k
             t == a * k
  <2>4. p \in Nat /\ q \in Nat /\ t <= q /\ t = p + k
    BY <1>2, <2>1, <2>3
  <2> HIDE DEF p, q, t
  <2>5. p + u # q + v
    BY <2>4
  <2> QED BY <2>5 DEF p, q
<1>3. ~(n < m) /\ ~(m < n)
  BY <1>1, <1>2
<1>4. n = m
  BY <1>3
<1> DEFINE p == (n - 1) * k
           q == (m - 1) * k
<1>5. p = q /\ p \in Nat /\ p + i = q + j
  BY <1>1, <1>4
<1> HIDE DEF p, q
<1>6. i = j
  BY <1>5
<1> QED BY <1>4, <1>6

PageAt(L, n, k) == SubSeq(L, (n - 1) * k + 1, Atmost(n * k, Len(L)))

LEMMA PageAtIs ==
  ASSUME NEW S, NEW L \in Seq(S), NEW k \in Nat \ {0}, NEW n \in Nat \ {0}
  PROVE  /\ \A i : i \in DOMAIN PageAt(L, n, k) <=> i \in 1..k /\ (n - 1) * k + i \in 1..Len(L)
         /\ \A i \in DOMAIN PageAt(L, n, k) : PageAt(L, n, k)[i] = L[(n - 1) * k + i]
<1> DEFINE p == (n - 1) * k
           t == n * k
<1>1. n - 1 \in Nat /\ n - 1 < n /\ n \in Nat /\ k \in Nat
  OBVIOUS
<1>2. p \in Nat /\ t = p + k
  BY <1>1, Multiples
<1>3. Len(L) \in Nat
  OBVIOUS
<1> HIDE DEF p, t
<1> DEFINE c == Atmost(t, Len(L))
<1>4. c \in Nat /\ c <= Len(L) /\ c <= p + k /\ (c = Len(L) \/ c = p + k)
  BY <1>2, <1>3 DEF Atmost
<1> HIDE DEF c
<1>5. PageAt(L, n, k) = SubSeq(L, p + 1, c)
  BY DEF PageAt, p, t, c
<1>6. \A i : i \in DOMAIN SubSeq(L, p + 1, c) <=> i \in 1..k /\ p + i \in 1..Len(L)
  <2>1. DOMAIN SubSeq(L, p + 1, c) = 1..(c - p)
    BY <1>2, <1>3, <1>4
  <2>2. \A i : i \in 1..(c - p) <=> i \in 1..k /\ p + i \in 1..Len(L)
    BY <1>2, <1>3, <1>4
  <2> QED BY <2>1, <2>2
<1>7. \A i \in DOMAIN SubSeq(L, p + 1, c) : SubSeq(L, p + 1, c)[i] = L[p + i]
  BY <1>2, <1>3, <1>4, <1>6
<1> QED BY <1>5, <1>6, <1>7 DEF p

\* The places on the first m of these pages, and who is shown at each.
Places(pg, m) == UNION {{n} \X DOMAIN pg[n].results : n \in 1..m}
ShownAt(pg, at) == pg[at[1]].results[at[2]].person

\* The pages of a list show everybody on it once, if there are enough of them.
LEMMA PagesTile ==
  ASSUME NEW P, NEW L, Lists(L, P), NEW k \in Nat \ {0}, NEW m \in Nat, NEW pg,
         \A n \in 1..m : pg[n].results = PageAt(L, n, k)
  PROVE  /\ \A a, b \in Places(pg, m) : ShownAt(pg, a) = ShownAt(pg, b) => a = b
         /\ m * k >= Len(L) => {ShownAt(pg, at) : at \in Places(pg, m)} = P
<1>1. L \in Seq(Range(L)) /\ Len(L) \in Nat
  BY DEF Lists
<1> DEFINE x(at) == (at[1] - 1) * k + at[2]
<1>2. ASSUME NEW n \in 1..m
      PROVE  /\ n \in Nat \ {0}
             /\ \A i : i \in DOMAIN pg[n].results <=> i \in 1..k /\ (n - 1) * k + i \in 1..Len(L)
             /\ \A i \in DOMAIN pg[n].results : pg[n].results[i] = L[(n - 1) * k + i]
  <2>1. n \in Nat \ {0} /\ pg[n].results = PageAt(L, n, k)
    OBVIOUS
  <2>2. /\ \A i : i \in DOMAIN PageAt(L, n, k) <=> i \in 1..k /\ (n - 1) * k + i \in 1..Len(L)
        /\ \A i \in DOMAIN PageAt(L, n, k) : PageAt(L, n, k)[i] = L[(n - 1) * k + i]
    BY <1>1, <2>1, PageAtIs
  <2> QED BY <2>1, <2>2
<1>3. \A at : at \in Places(pg, m) <=>
                \E n \in 1..m : \E i \in DOMAIN pg[n].results : at = <<n, i>>
  BY DEF Places
<1>4. ASSUME NEW at \in Places(pg, m)
      PROVE  /\ at = <<at[1], at[2]>> /\ at[1] \in 1..m /\ at[1] \in Nat \ {0} /\ at[2] \in 1..k
             /\ x(at) \in 1..Len(L) /\ ShownAt(pg, at) = L[x(at)].person
  <2>1. PICK n \in 1..m : \E i \in DOMAIN pg[n].results : at = <<n, i>>
    BY <1>3
  <2>2. PICK i \in DOMAIN pg[n].results : at = <<n, i>>
    BY <2>1
  <2>3. at[1] = n /\ at[2] = i
    BY <2>2
  <2>4. i \in 1..k /\ (n - 1) * k + i \in 1..Len(L) /\ pg[n].results[i] = L[(n - 1) * k + i] /\ n \in Nat \ {0}
    BY <1>2
  <2> QED BY <2>2, <2>3, <2>4 DEF ShownAt
<1>5. ASSUME NEW a \in Places(pg, m), NEW b \in Places(pg, m), ShownAt(pg, a) = ShownAt(pg, b)
      PROVE  a = b
  <2>1. x(a) = x(b)
    <3>1. x(a) \in 1..Len(L) /\ x(b) \in 1..Len(L) /\ L[x(a)].person = L[x(b)].person
      BY <1>4, <1>5
    <3> HIDE DEF x
    <3> QED BY <3>1 DEF Lists
  <2>2. /\ a[1] \in Nat \ {0} /\ b[1] \in Nat \ {0} /\ a[2] \in 1..k /\ b[2] \in 1..k
        /\ a = <<a[1], a[2]>> /\ b = <<b[1], b[2]>>
    BY <1>4
  <2>3. a[1] = b[1] /\ a[2] = b[2]
    BY <2>1, <2>2, PageUnique
  <2> QED BY <2>2, <2>3
<1>6. ASSUME NEW at \in Places(pg, m) PROVE ShownAt(pg, at) \in P
  <2>1. x(at) \in 1..Len(L) /\ ShownAt(pg, at) = L[x(at)].person
    BY <1>4
  <2> HIDE DEF x
  <2> QED BY <2>1 DEF Lists
<1>7. ASSUME m * k >= Len(L), NEW p \in P PROVE \E at \in Places(pg, m) : ShownAt(pg, at) = p
  <2>1. PICK y \in 1..Len(L) : L[y].person = p
    BY DEF Lists
  <2>2. y \in Nat \ {0} /\ y <= Len(L) /\ m * k \in Nat
    BY <1>1
  <2>3. y <= m * k
    BY <1>1, <1>7, <2>2
  <2>4. PICK n \in 1..m : (n - 1) * k < y /\ y <= n * k
    BY <2>2, <2>3, PageFound
  <2> DEFINE q == (n - 1) * k
             t == n * k
             i == y - q
             at == <<n, i>>
  <2>5. n \in Nat /\ n # 0 /\ n - 1 \in Nat /\ n - 1 < n /\ k \in Nat
    OBVIOUS
  <2>6. q \in Nat /\ t = q + k
    BY <2>5, Multiples
  <2>7. q < y /\ y <= t
    BY <2>4
  <2> HIDE DEF q, t
  <2>8. i \in 1..k /\ q + i = y
    BY <2>2, <2>6, <2>7
  <2> HIDE DEF i
  <2>9. i \in DOMAIN pg[n].results
    BY <1>2, <2>8 DEF q
  <2>10. at \in Places(pg, m) /\ at[1] = n /\ at[2] = i
    BY <1>3, <2>9
  <2> HIDE DEF at
  <2>11. ShownAt(pg, at) = L[y].person
    BY <1>4, <2>8, <2>10 DEF q
  <2> QED BY <2>1, <2>10, <2>11
<1> QED BY <1>5, <1>6, <1>7

-----------------------------------------------------------------------------
(* What a search finds does not depend on the page. *)

\* Two requests that ask for the same, perhaps for different pages.
SameAsked(q, r) ==
  /\ q.required = r.required /\ q.preferred = r.preferred /\ q.min = r.min /\ q.max = r.max
  /\ q.mode = r.mode /\ q.keyword = r.keyword /\ q.semantic = r.semantic
  /\ q.sort = r.sort /\ q.size = r.size

LEMMA SameEligible ==
  ASSUME NEW q, NEW r, SameAsked(q, r), NEW b
  PROVE  Eligible(b, q) = Eligible(b, r)
<1>1. \A p, f : FieldMet(b, p, q, f) <=> FieldMet(b, p, r, f)
  BY DEF FieldMet, SameAsked
<1>2. \A person : CareerMet(person, q) <=> CareerMet(person, r)
  BY DEF CareerMet, SameAsked
<1> QED BY <1>1, <1>2 DEF Eligible

LEMMA SamePreferred ==
  ASSUME NEW q, NEW r, SameAsked(q, r), NEW b, NEW p
  PROVE  PreferredFields(q) = PreferredFields(r) /\ PreferredMet(b, p, q) = PreferredMet(b, p, r)
<1>1. q.preferred = r.preferred
  BY DEF SameAsked
<1>2. PreferredFields(q) = PreferredFields(r)
  BY <1>1 DEF PreferredFields
<1>3. PreferredMet(b, p, q) = PreferredMet(b, p, r)
  BY <1>1, <1>2 DEF PreferredMet
<1> QED BY <1>2, <1>3

LEMMA SameStructured ==
  ASSUME NEW q, NEW r, SameAsked(q, r), NEW project
  PROVE  /\ Structured(q) <=> Structured(r)
         /\ ProjectsCount(q) <=> ProjectsCount(r)
         /\ StructuredScore(project, q) = StructuredScore(project, r)
<1>1. q.required = r.required /\ q.preferred = r.preferred /\ q.keyword = r.keyword /\ q.semantic = r.semantic
  BY DEF SameAsked
<1>2. Structured(q) <=> Structured(r)
  BY <1>1 DEF Structured
<1>3. ProjectsCount(q) <=> ProjectsCount(r)
  BY <1>1, <1>2 DEF ProjectsCount
<1> DEFINE required(s, f) == When(s.required[f] # <<>>, FieldRatio(project, f, s.required[f]))
           preferred(s, f) == When(s.preferred[f] # <<>>, FieldRatio(project, f, s.preferred[f]) \div 2)
           parts(s) == [n \in DOMAIN CodeFields |-> required(s, CodeFields[n]) \o preferred(s, CodeFields[n])]
<1>4. \A f : required(q, f) = required(r, f) /\ preferred(q, f) = preferred(r, f)
  BY <1>1
<1>5. \A s : StructuredScore(project, s) = Mean(FlattenSeq(parts(s)) \o required(s, "project_keywords"))
  BY Zenon DEF StructuredScore
<1> HIDE DEF required, preferred
<1>6. parts(q) = parts(r)
  BY <1>4
<1> HIDE DEF parts
<1>7. StructuredScore(project, q) = StructuredScore(project, r)
  BY <1>4, <1>5, <1>6
<1> QED BY <1>2, <1>3, <1>7

LEMMA SameSummary ==
  ASSUME NEW q, NEW r, SameAsked(q, r), NEW b, NEW p
  PROVE  Summary(b, q, p) = Summary(b, r, p)
<1>1. ASSUME NEW j PROVE ProjectScore(b, q, j) = ProjectScore(b, r, j)
  <2>1. (Structured(q) <=> Structured(r)) /\ StructuredScore(b.projects[j], q) = StructuredScore(b.projects[j], r)
    BY SameStructured
  <2>2. q.keyword = r.keyword /\ q.semantic = r.semantic
    BY DEF SameAsked
  <2> DEFINE kw == BestOfProject(b, [i \in DOMAIN KeywordKeys(b) |-> b.items[i].text * Percent], j)
             vec == BestOfProject(b, [i \in DOMAIN VectorKeys(b) |->
                                        (b.items[i].near * Weight(b.items[i]) * Percent) \div 100], j)
             first(s) == When(Structured(s), <<60, StructuredScore(b.projects[j], s)>>)
  <2>3. \A s : ProjectScore(b, s, j) =
                 WeightedMean(first(s) \o When(s.keyword, <<20, kw>>) \o When(s.semantic, <<20, vec>>))
    BY DEF ProjectScore
  <2>4. first(q) = first(r)
    BY <2>1 DEF When
  <2> HIDE DEF kw, vec, first
  <2> QED BY <2>2, <2>3, <2>4
<1>2. ProjectsCount(q) <=> ProjectsCount(r)
  BY SameStructured
<1> DEFINE scores(s) == [j \in LiveProjects(b, p) |-> ProjectScore(b, s, j)]
<1>3. scores(q) = scores(r)
  BY <1>1
<1>4. \A s : Summary(b, s, p) = IF ProjectsCount(s) THEN Summarised(b, scores(s)) ELSE NoSummary
  BY DEF Summary
<1> HIDE DEF scores
<1> QED BY <1>2, <1>3, <1>4

LEMMA SameListed ==
  ASSUME NEW q, NEW r, SameAsked(q, r), NEW b, NEW keyword, NEW vector, NEW rows, NEW ratio
  PROVE  Listed(b, q, keyword, vector, rows, ratio) = Listed(b, r, keyword, vector, rows, ratio)
<1> DEFINE scored(s, row) == Scored(b, s, keyword, vector, ratio, row)
           set(s) == {scored(s, row) : row \in rows}
<1>1. ASSUME NEW ranks, NEW share, NEW p
      PROVE  FinalScore(q, ranks, share, Summary(b, q, p)) = FinalScore(r, ranks, share, Summary(b, r, p))
  <2> DEFINE summary == Summary(b, r, p)
             first(s) == When(RequiredPresent(s), <<20, One>>)
             found == When(ranks # <<>>, <<45, Mean([n \in DOMAIN ranks |-> Rrf(ranks[n])])>>)
             third(s) == When(PreferredFields(s) # {}, <<10, share>>)
             fourth(s) == When(ProjectsCount(s), <<20, summary.relevance>>)
             fifth(s) == When(ProjectsCount(s) /\ summary.related, <<5, summary.recency>>)
  <2>1. Summary(b, q, p) = summary
    BY SameSummary
  <2>2. \A s : FinalScore(s, ranks, share, summary) =
                 (WeightedMean(first(s) \o found \o third(s) \o fourth(s) \o fifth(s)) * 100 + One \div 2) \div One
    BY DEF FinalScore
  <2>3. RequiredPresent(q) <=> RequiredPresent(r)
    BY DEF RequiredPresent, SameAsked
  <2>4. PreferredFields(q) = PreferredFields(r) /\ (ProjectsCount(q) <=> ProjectsCount(r))
    BY SamePreferred, SameStructured
  <2> HIDE DEF summary, found
  <2>5. first(q) = first(r) /\ third(q) = third(r)
    BY <2>3, <2>4 DEF When
  <2>6. fourth(q) = fourth(r) /\ fifth(q) = fifth(r)
    BY <2>4 DEF When
  <2> HIDE DEF first, third, fourth, fifth
  <2>7. FinalScore(q, ranks, share, summary) = FinalScore(r, ranks, share, summary)
    BY <2>2, <2>5, <2>6
  <2> QED BY <2>1, <2>7 DEF summary
<1>2. \A row : scored(q, row) = scored(r, row)
  BY <1>1 DEF Scored
<1>3. \A s : Listed(b, s, keyword, vector, rows, ratio) = Sorted(set(s), s.sort)
  BY DEF Listed
<1>4. q.sort = r.sort
  BY DEF SameAsked
<1> HIDE DEF scored
<1>5. set(q) = set(r)
  BY <1>2
<1> HIDE DEF set
<1> QED BY <1>3, <1>4, <1>5

-----------------------------------------------------------------------------
(* The invariant. *)

\* What a channel has found are items of people who met the conditions.
HitsMet(hits) == hits \in Seq(DOMAIN base.items) /\ \A n \in DOMAIN hits : base.items[hits[n]].person \in everMet

Hits == HitsMet(read.keyword) /\ HitsMet(read.vector)

Met == Eligible(base, request) \subseteq everMet

\* The rows are those of such people, one for each.
Rows ==
  /\ IsFiniteSet(read.people)
  /\ \A row \in read.people : IsRow(row) /\ row.person \in everMet
  /\ \A a, b \in read.people : a.person = b.person => a = b

Ratios ==
  step = "projects" =>
    \A row \in read.people : row.person \in DOMAIN read.ratio /\ read.ratio[row.person] \in Int

Results == \A n \in DOMAIN read.results : read.results[n].person \in everMet

\* A page starts with nothing.
Fresh == step \in {"check", "done"} => read = Nothing

SearchInv == Fresh /\ TypeOK /\ Met /\ Hits /\ Rows /\ Ratios /\ Results /\ FiltersAreHard

LEMMA EligibleFinite ==
  ASSUME NEW b \in Base, NEW r
  PROVE  Eligible(b, r) \subseteq DOMAIN b.people /\ IsFiniteSet(Eligible(b, r))
<1>1. Eligible(b, r) \in SUBSET DOMAIN b.people
  BY DEF Eligible
<1>2. b.people \in Seq(Person)
  BY DEF Base
<1>3. 1 \in Int /\ Len(b.people) \in Int /\ DOMAIN b.people = 1..Len(b.people)
  BY <1>2
<1>4. IsFiniteSet(DOMAIN b.people)
  BY <1>3, FS_Interval
<1> QED BY <1>1, <1>4, FS_Subset

LEMMA LimitNat ==
  ASSUME NEW r \in Request
  PROVE  CandidateLimit(r) \in Nat
<1>1. r.page \in Nat /\ r.size \in Nat /\ PageDepth \in Nat /\ MinCandidates \in Nat /\ MaxCandidates \in Nat
  BY RankingAssumption DEF Request
<1> DEFINE n == r.page * r.size * PageDepth
<1>2. n \in Nat
  BY <1>1
<1>3. CandidateLimit(r) = Atmost(MaxCandidates, AtLeast(MinCandidates, n))
  BY DEF CandidateLimit
<1> HIDE DEF n
<1> QED BY <1>1, <1>2, <1>3 DEF Atmost, AtLeast

LEMMA KeywordKeyed ==
  ASSUME NEW b \in Base
  PROVE  Keyed(DOMAIN KeywordKeys(b), KeywordKeys(b), 3)
<1>1. ASSUME NEW i \in DOMAIN KeywordKeys(b)
      PROVE  IsKey(KeywordKeys(b)[i], 3) /\ KeywordKeys(b)[i][3] = i
  <2> DEFINE x == -b.items[i].text
             y == -Weight(b.items[i])
  <2>1. KeywordKeys(b)[i] = <<x, y, i>>
    BY DEF KeywordKeys
  <2>2. x \in Int /\ y \in Int /\ i \in Int
    BY KeysFinite
  <2> HIDE DEF x, y
  <2> QED BY <2>1, <2>2 DEF IsKey
<1> QED BY <1>1 DEF Keyed

LEMMA VectorKeyed ==
  ASSUME NEW b \in Base
  PROVE  Keyed(DOMAIN VectorKeys(b), VectorKeys(b), 2)
<1>1. ASSUME NEW i \in DOMAIN VectorKeys(b)
      PROVE  IsKey(VectorKeys(b)[i], 2) /\ VectorKeys(b)[i][2] = i
  <2> DEFINE x == -(b.items[i].near * Weight(b.items[i]))
  <2>1. VectorKeys(b)[i] = <<x, i>>
    BY DEF VectorKeys
  <2>2. b.items[i].near \in Int /\ Weight(b.items[i]) \in Int /\ i \in Int
    BY KeysFinite
  <2>3. x \in Int
    BY <2>2
  <2> HIDE DEF x
  <2> QED BY <2>1, <2>2, <2>3 DEF IsKey
<1> QED BY <1>1 DEF Keyed

\* Both channels look for those who meet the conditions.
LEMMA ChannelsMeet ==
  ASSUME TypeOK, Met
  PROVE  HitsMet(KeywordHits(base, request).hits) /\ HitsMet(VectorHits(base, request).hits)
<1>1. base \in Base /\ request \in Request
  BY DEF TypeOK
<1>2. IsFiniteSet(Eligible(base, request)) /\ CandidateLimit(request) \in Nat
  BY <1>1, EligibleFinite, LimitNat
<1>3. ASSUME NEW keys, IsFiniteSet(DOMAIN keys), DOMAIN keys \subseteq DOMAIN base.items,
             NEW n \in Nat, Keyed(DOMAIN keys, keys, n)
      PROVE  HitsMet(Channel(base, keys, Eligible(base, request), CandidateLimit(request)).hits)
  <2> DEFINE hits == Channel(base, keys, Eligible(base, request), CandidateLimit(request)).hits
             W == Of(base, keys, Eligible(base, request))
  <2>1. hits \in Seq(W)
    BY <1>2, <1>3, ChannelHolds
  <2>2. W \subseteq DOMAIN base.items /\ \A i \in W : base.items[i].person \in everMet
    BY <1>3 DEF Met, Of
  <2> HIDE DEF hits, W
  <2>3. hits \in Seq(DOMAIN base.items) /\ \A i \in DOMAIN hits : hits[i] \in W
    BY <2>1, <2>2
  <2>4. HitsMet(hits)
    BY <2>2, <2>3 DEF HitsMet
  <2> QED BY <2>4 DEF hits
<1>4. 3 \in Nat /\ 2 \in Nat
  OBVIOUS
<1>5. HitsMet(KeywordHits(base, request).hits)
  BY <1>1, <1>3, <1>4, KeysFinite, KeywordKeyed DEF KeywordHits
<1>6. HitsMet(VectorHits(base, request).hits)
  BY <1>1, <1>3, <1>4, KeysFinite, VectorKeyed DEF VectorHits
<1> QED BY <1>5, <1>6

LEMMA HitPeopleMet ==
  ASSUME NEW hits, HitsMet(hits)
  PROVE  HitPeople(base, hits) \subseteq everMet
BY DEF HitsMet, HitPeople, Range

\* The row of a person.
LEMMA RowIs ==
  ASSUME NEW b \in Base, NEW p \in DOMAIN b.people
  PROVE  IsRow(Row(b, p)) /\ Row(b, p).person = p
<1>1. b.people \in Seq(Person)
  BY DEF Base
<1>2. b.people[p] \in Person /\ p \in Int
  BY <1>1
<1> DEFINE dates == {Latest(b.projects[j]) : j \in LiveProjects(b, p)} \ {None}
           recent == IF dates = {} THEN None ELSE Max(dates)
           months == CareerMonths(b.people[p])
<1>3. recent \in Int \cup {None}
  <2>1. IsFiniteSet(LiveProjects(b, p)) /\ LiveProjects(b, p) \in SUBSET DOMAIN b.projects
    BY ProjectsAre
  <2> QED BY <2>1, LatestOfSome
<1>4. months \in Int \cup {None}
  BY <1>2 DEF CareerMonths, Person, Nullable
<1>5. b.people[p].name \in Int /\ b.people[p].updated \in Int
  BY <1>2 DEF Person
<1>6. Row(b, p) = [person |-> p, name |-> b.people[p].name, updated |-> b.people[p].updated,
                   months |-> months, score |-> 0, ratio |-> 0, recent |-> recent]
  BY DEF Row
<1> HIDE DEF months, recent
<1> QED BY <1>2, <1>3, <1>4, <1>5, <1>6 DEF IsRow

LEMMA RowsOf ==
  ASSUME NEW b \in Base, NEW P, IsFiniteSet(P), P \subseteq DOMAIN b.people
  PROVE  LET rows == {Row(b, p) : p \in P}
         IN  /\ IsFiniteSet(rows)
             /\ \A row \in rows : IsRow(row) /\ row.person \in P
             /\ \A x, y \in rows : x.person = y.person => x = y
             /\ {row.person : row \in rows} = P
<1> DEFINE f == [p \in P |-> Row(b, p)]
           rows == {Row(b, p) : p \in P}
<1>1. \A p \in P : IsRow(Row(b, p)) /\ Row(b, p).person = p
  BY RowIs
<1>2. rows = {f[p] : p \in P}
  OBVIOUS
<1>3. IsFiniteSet(rows)
  <2> HIDE DEF f, rows
  <2> QED BY <1>2, ImageFinite
<1>4. \A row \in rows : IsRow(row) /\ row.person \in P
  BY <1>1
<1>5. \A x, y \in rows : x.person = y.person => x = y
  BY <1>1
<1>6. {row.person : row \in rows} = P
  BY <1>1
<1> QED BY <1>3, <1>4, <1>5, <1>6

-----------------------------------------------------------------------------
(* What a search without changes and without cuts reads and shows. *)

KeywordAll(b, r) == IF r.keyword THEN Ranked(b, KeywordKeys(b), Eligible(b, r)) ELSE <<>>
VectorAll(b, r) == IF r.semantic THEN Ranked(b, VectorKeys(b), Eligible(b, r)) ELSE <<>>
RowsAll(b, r) == {Row(b, p) : p \in Findable(b, r)}
Share(b, r, p) ==
  IF PreferredFields(r) = {} THEN 0
  ELSE (Cardinality(PreferredMet(b, p, r)) * One) \div Cardinality(PreferredFields(r))
Shares(b, r, rows) == [p \in {row.person : row \in rows} |-> Share(b, r, p)]
Listing(b, r) ==
  Listed(b, r, KeywordAll(b, r), VectorAll(b, r), RowsAll(b, r), Shares(b, r, RowsAll(b, r)))

LEMMA PreferredRatioInt ==
  ASSUME NEW b, NEW p, NEW r
  PROVE  (IF PreferredFields(r) = {} THEN 0
          ELSE (Cardinality(PreferredMet(b, p, r)) * One) \div Cardinality(PreferredFields(r))) \in Int
<1>1. PreferredFields(r) \in SUBSET Range(CodeFields)
  BY DEF PreferredFields
<1>2. IsFiniteSet(PreferredFields(r))
  BY <1>1, FieldsAre, FS_Subset
<1>3. PreferredMet(b, p, r) \in SUBSET PreferredFields(r)
  BY DEF PreferredMet
<1>4. IsFiniteSet(PreferredMet(b, p, r))
  BY <1>2, <1>3, FS_Subset
<1> DEFINE n == Cardinality(PreferredFields(r))
           m == Cardinality(PreferredMet(b, p, r))
<1>5. m \in Int /\ n \in Nat
  BY <1>2, <1>4, FS_CardinalityType
<1>6. PreferredFields(r) # {} => n # 0
  BY <1>2, FS_EmptySet
<1> HIDE DEF n, m
<1>7. m * One \in Int
  BY <1>5, Units
<1>8. PreferredFields(r) # {} => (m * One) \div n \in Int
  BY <1>5, <1>6, <1>7, Quotient
<1> QED BY <1>8 DEF n, m

LEMMA FindableFinite ==
  ASSUME NEW b \in Base, NEW r
  PROVE  Findable(b, r) \subseteq Eligible(b, r) /\ Findable(b, r) \subseteq DOMAIN b.people
         /\ IsFiniteSet(Findable(b, r))
<1>1. Findable(b, r) \in SUBSET Eligible(b, r)
  BY DEF Findable, Having
<1>2. Eligible(b, r) \subseteq DOMAIN b.people /\ IsFiniteSet(Eligible(b, r))
  BY EligibleFinite
<1>3. IsFiniteSet(Findable(b, r))
  BY <1>1, <1>2, FS_Subset
<1> QED BY <1>1, <1>2, <1>3

\* Each channel ranks those who meet the conditions and have an item in it.
LEMMA ChannelsFind ==
  ASSUME NEW b \in Base, NEW r
  PROVE  /\ Ranked(b, KeywordKeys(b), Eligible(b, r)) \in Seq(DOMAIN b.items)
         /\ Ranked(b, VectorKeys(b), Eligible(b, r)) \in Seq(DOMAIN b.items)
         /\ HitPeople(b, Ranked(b, KeywordKeys(b), Eligible(b, r))) = Having(b, KeywordKeys(b), Eligible(b, r))
         /\ HitPeople(b, Ranked(b, VectorKeys(b), Eligible(b, r))) = Having(b, VectorKeys(b), Eligible(b, r))
<1>1. IsFiniteSet(Eligible(b, r))
  BY EligibleFinite
<1>2. ASSUME NEW keys, IsFiniteSet(DOMAIN keys), DOMAIN keys \subseteq DOMAIN b.items,
             NEW n \in Nat, Keyed(DOMAIN keys, keys, n)
      PROVE  /\ Ranked(b, keys, Eligible(b, r)) \in Seq(DOMAIN b.items)
             /\ HitPeople(b, Ranked(b, keys, Eligible(b, r))) = Having(b, keys, Eligible(b, r))
  <2> DEFINE W == Of(b, keys, Eligible(b, r))
             ranked == Ranked(b, keys, Eligible(b, r))
  <2>1. ranked \in Seq(W) /\ HitPeople(b, ranked) = Having(b, keys, Eligible(b, r))
    BY <1>1, <1>2, RankedHolds
  <2>2. W \subseteq DOMAIN b.items
    BY <1>2 DEF Of
  <2> HIDE DEF W, ranked
  <2>3. ranked \in Seq(DOMAIN b.items)
    BY <2>1, <2>2
  <2> QED BY <2>1, <2>3 DEF ranked
<1>3. 3 \in Nat /\ 2 \in Nat
  OBVIOUS
<1>4. /\ Ranked(b, KeywordKeys(b), Eligible(b, r)) \in Seq(DOMAIN b.items)
      /\ HitPeople(b, Ranked(b, KeywordKeys(b), Eligible(b, r))) = Having(b, KeywordKeys(b), Eligible(b, r))
  BY <1>2, <1>3, KeysFinite, KeywordKeyed
<1>5. /\ Ranked(b, VectorKeys(b), Eligible(b, r)) \in Seq(DOMAIN b.items)
      /\ HitPeople(b, Ranked(b, VectorKeys(b), Eligible(b, r))) = Having(b, VectorKeys(b), Eligible(b, r))
  BY <1>2, <1>3, KeysFinite, VectorKeyed
<1> QED BY <1>4, <1>5

LEMMA AllFound ==
  ASSUME NEW b \in Base, NEW r, HasRetrieval(r)
  PROVE  HitPeople(b, KeywordAll(b, r)) \cup HitPeople(b, VectorAll(b, r)) = Findable(b, r)
<1>1. HitPeople(b, <<>>) = {}
  BY DEF HitPeople, Range
<1>2. HitPeople(b, KeywordAll(b, r)) = IF r.keyword THEN Having(b, KeywordKeys(b), Eligible(b, r)) ELSE {}
  BY <1>1, ChannelsFind DEF KeywordAll
<1>3. HitPeople(b, VectorAll(b, r)) = IF r.semantic THEN Having(b, VectorKeys(b), Eligible(b, r)) ELSE {}
  BY <1>1, ChannelsFind DEF VectorAll
<1> QED BY <1>2, <1>3 DEF Findable

LEMMA ListingHolds ==
  ASSUME NEW b \in Base, NEW r \in Request
  PROVE  Lists(Listing(b, r), Findable(b, r))
<1> DEFINE P == Findable(b, r)
           rows == {Row(b, p) : p \in P}
           ratio == Shares(b, r, rows)
<1>1. KeywordAll(b, r) \in Seq(DOMAIN b.items) /\ VectorAll(b, r) \in Seq(DOMAIN b.items)
  <2>1. <<>> \in Seq(DOMAIN b.items)
    OBVIOUS
  <2> QED BY <2>1, ChannelsFind DEF KeywordAll, VectorAll
<1>2. P \subseteq DOMAIN b.people /\ IsFiniteSet(P)
  BY FindableFinite
<1> HIDE DEF P
<1>3. /\ IsFiniteSet(rows)
      /\ \A row \in rows : IsRow(row) /\ row.person \in P
      /\ \A x, y \in rows : x.person = y.person => x = y
      /\ {row.person : row \in rows} = P
  BY <1>2, RowsOf
<1>4. RowsAll(b, r) = rows
  BY DEF RowsAll, P
<1> HIDE DEF rows
<1>5. \A row \in rows : row.person \in DOMAIN ratio /\ ratio[row.person] \in Int
  <2>1. \A p : Share(b, r, p) \in Int
    BY PreferredRatioInt DEF Share
  <2> QED BY <2>1 DEF Shares
<1> HIDE DEF ratio
<1>6. Rankable(rows, ratio)
  BY <1>3, <1>5 DEF Rankable
<1>7. Lists(Listed(b, r, KeywordAll(b, r), VectorAll(b, r), rows, ratio), {row.person : row \in rows})
  BY <1>1, <1>6, ListedHolds
<1> QED BY <1>3, <1>4, <1>7 DEF Listing, P, ratio

LEMMA SameListing ==
  ASSUME NEW q, NEW r, SameAsked(q, r), NEW b
  PROVE  Listing(b, q) = Listing(b, r)
<1>1. Eligible(b, q) = Eligible(b, r)
  BY SameEligible
<1>2. q.keyword = r.keyword /\ q.semantic = r.semantic /\ (HasRetrieval(q) <=> HasRetrieval(r))
  BY DEF SameAsked, HasRetrieval
<1>3. KeywordAll(b, q) = KeywordAll(b, r) /\ VectorAll(b, q) = VectorAll(b, r)
  BY <1>1, <1>2 DEF KeywordAll, VectorAll
<1>4. Findable(b, q) = Findable(b, r)
  BY <1>1, <1>2 DEF Findable
<1>5. RowsAll(b, q) = RowsAll(b, r)
  BY <1>4 DEF RowsAll
<1>6. \A p : Share(b, q, p) = Share(b, r, p)
  BY SamePreferred DEF Share
<1>7. \A rows : Shares(b, q, rows) = Shares(b, r, rows)
  BY <1>6 DEF Shares
<1> QED BY <1>3, <1>5, <1>7, SameListed DEF Listing

-----------------------------------------------------------------------------
(* Each statement keeps the invariant. *)

\* A statement that only reads leaves what has been met alone.
LEMMA PageKeeps ==
  ASSUME TypeOK, Met, Page, DOMAIN read' = DOMAIN read,
         step' \in {"list", "keyword", "embed", "vector", "load", "preferred", "projects",
                    "match", "explain", "refused", "failed"}
  PROVE  /\ Fresh' /\ TypeOK' /\ Met' /\ FiltersAreHard'
         /\ everMet' = everMet /\ base' = base
         /\ \A hits : HitsMet(hits) => HitsMet(hits)'
<1>1. base' = base /\ request' = request /\ pages' = pages /\ edits' = edits /\ everMet' = everMet
  BY DEF Page
<1>2. TypeOK'
  BY <1>1 DEF TypeOK, People, Nothing
<1>3. Met'
  BY <1>1 DEF Met
<1>4. FiltersAreHard' /\ Fresh'
  BY DEF FiltersAreHard, Answered, Fresh
<1>5. ASSUME NEW hits, HitsMet(hits) PROVE HitsMet(hits)'
  BY <1>1, <1>5 DEF HitsMet
<1> QED BY <1>1, <1>2, <1>3, <1>4, <1>5

LEMMA CheckCodesKeeps ==
  ASSUME SearchInv, CheckCodes
  PROVE  SearchInv'
<1>1. read' = read /\ Page /\ step' \in {"refused", "keyword", "embed", "list"}
  BY DEF CheckCodes
<1>2. /\ Fresh' /\ TypeOK' /\ Met' /\ FiltersAreHard' /\ everMet' = everMet /\ base' = base
      /\ \A hits : HitsMet(hits) => HitsMet(hits)'
  BY <1>1, PageKeeps DEF SearchInv
<1>3. Hits'
  BY <1>1, <1>2 DEF SearchInv, Hits, HitsMet
<1>4. Rows' /\ Results' /\ Ratios'
  BY <1>1, <1>2 DEF SearchInv, Rows, Results, Ratios
<1> QED BY <1>2, <1>3, <1>4 DEF SearchInv

LEMMA EmbedKeeps ==
  ASSUME SearchInv, Embed
  PROVE  SearchInv'
<1>1. read' = read /\ Page /\ step' \in {"vector", "failed"}
  BY DEF Embed
<1>2. /\ Fresh' /\ TypeOK' /\ Met' /\ FiltersAreHard' /\ everMet' = everMet /\ base' = base
      /\ \A hits : HitsMet(hits) => HitsMet(hits)'
  BY <1>1, PageKeeps DEF SearchInv
<1>3. Hits'
  BY <1>1, <1>2 DEF SearchInv, Hits, HitsMet
<1>4. Rows' /\ Results' /\ Ratios'
  BY <1>1, <1>2 DEF SearchInv, Rows, Results, Ratios
<1> QED BY <1>2, <1>3, <1>4 DEF SearchInv

\* A field of read is written, the others stay.
LEMMA ReadWrites ==
  ASSUME TypeOK, NEW x
  PROVE  /\ LET r == [read EXCEPT !.people = x]
            IN  /\ r.people = x /\ DOMAIN r = DOMAIN read /\ r.ratio = read.ratio
                /\ r.keyword = read.keyword /\ r.vector = read.vector /\ r.results = read.results
         /\ LET r == [read EXCEPT !.ratio = x]
            IN  /\ r.ratio = x /\ DOMAIN r = DOMAIN read /\ r.people = read.people
                /\ r.keyword = read.keyword /\ r.vector = read.vector /\ r.results = read.results
         /\ LET r == [read EXCEPT !.matches = x]
            IN  /\ DOMAIN r = DOMAIN read /\ r.people = read.people
                /\ r.keyword = read.keyword /\ r.vector = read.vector /\ r.results = read.results
<1>1. {"people", "ratio", "matches", "keyword", "vector", "results"} \subseteq DOMAIN read
  BY DEF TypeOK, Nothing
<1> QED BY <1>1

LEMMA ListEligibleKeeps ==
  ASSUME SearchInv, ListEligible
  PROVE  SearchInv'
<1> DEFINE rows == {Row(base, p) : p \in Eligible(base, request)}
<1>1. read' = [read EXCEPT !.people = rows] /\ Page /\ step' = "preferred"
  BY DEF ListEligible
<1>2. TypeOK /\ Met /\ base \in Base
  BY DEF SearchInv, TypeOK
<1>3. /\ IsFiniteSet(rows)
      /\ \A row \in rows : IsRow(row) /\ row.person \in everMet
      /\ \A a, b \in rows : a.person = b.person => a = b
  <2> DEFINE P == Eligible(base, request)
  <2>1. IsFiniteSet(P) /\ P \subseteq everMet /\ P \subseteq DOMAIN base.people
    BY <1>2, EligibleFinite DEF Met
  <2> HIDE DEF P
  <2>2. /\ IsFiniteSet({Row(base, p) : p \in P})
        /\ \A row \in {Row(base, p) : p \in P} : IsRow(row) /\ row.person \in P
        /\ \A x, y \in {Row(base, p) : p \in P} : x.person = y.person => x = y
    BY <1>2, <2>1, RowsOf
  <2> QED BY <2>1, <2>2 DEF P
<1> HIDE DEF rows
<1>4. /\ read'.people = rows /\ DOMAIN read' = DOMAIN read
      /\ read'.keyword = read.keyword /\ read'.vector = read.vector /\ read'.results = read.results
  BY <1>1, <1>2, ReadWrites
<1>5. /\ Fresh' /\ TypeOK' /\ Met' /\ FiltersAreHard' /\ everMet' = everMet /\ base' = base
      /\ \A hits : HitsMet(hits) => HitsMet(hits)'
  BY <1>1, <1>2, <1>4, PageKeeps
<1>6. Hits'
  BY <1>4, <1>5 DEF SearchInv, Hits, HitsMet
<1>7. Rows'
  BY <1>3, <1>4, <1>5 DEF Rows
<1>8. Results' /\ Ratios'
  BY <1>1, <1>4, <1>5 DEF SearchInv, Results, Ratios
<1> QED BY <1>5, <1>6, <1>7, <1>8 DEF SearchInv

LEMMA LoadPeopleKeeps ==
  ASSUME SearchInv, LoadPeople
  PROVE  SearchInv'
<1> DEFINE found == HitPeople(base, read.keyword) \cup HitPeople(base, read.vector)
           P == {p \in found : base.people[p].active}
           rows == {Row(base, p) : p \in P}
<1>1. read' = [read EXCEPT !.people = rows] /\ Page /\ step' = "preferred"
  BY DEF LoadPeople
<1>2. TypeOK /\ Met /\ Hits /\ base \in Base
  BY DEF SearchInv, TypeOK
<1>3. IsFiniteSet(P) /\ P \subseteq everMet
  <2>1. P \subseteq everMet
    BY <1>2, HitPeopleMet DEF Hits
  <2>2. IsFiniteSet(DOMAIN base.people)
    <3>1. base.people \in Seq(Person)
      BY <1>2 DEF Base
    <3>2. 1 \in Int /\ Len(base.people) \in Int /\ DOMAIN base.people = 1..Len(base.people)
      BY <3>1
    <3> QED BY <3>2, FS_Interval
  <2>3. P \in SUBSET DOMAIN base.people
    BY <1>2, <2>1 DEF TypeOK, People
  <2> HIDE DEF P
  <2> QED BY <2>1, <2>2, <2>3, FS_Subset
<1>4. /\ IsFiniteSet(rows)
      /\ \A row \in rows : IsRow(row) /\ row.person \in everMet
      /\ \A a, b \in rows : a.person = b.person => a = b
  <2>1. P \subseteq DOMAIN base.people
    BY <1>2, <1>3 DEF TypeOK, People
  <2> HIDE DEF P
  <2>2. /\ IsFiniteSet({Row(base, p) : p \in P})
        /\ \A row \in {Row(base, p) : p \in P} : IsRow(row) /\ row.person \in P
        /\ \A x, y \in {Row(base, p) : p \in P} : x.person = y.person => x = y
    BY <1>2, <1>3, <2>1, RowsOf
  <2> QED BY <1>3, <2>2
<1> HIDE DEF rows
<1>5. /\ read'.people = rows /\ DOMAIN read' = DOMAIN read
      /\ read'.keyword = read.keyword /\ read'.vector = read.vector /\ read'.results = read.results
  BY <1>1, <1>2, ReadWrites
<1>6. /\ Fresh' /\ TypeOK' /\ Met' /\ FiltersAreHard' /\ everMet' = everMet /\ base' = base
      /\ \A hits : HitsMet(hits) => HitsMet(hits)'
  BY <1>1, <1>2, <1>5, PageKeeps
<1>7. Hits'
  BY <1>5, <1>6 DEF SearchInv, Hits, HitsMet
<1>8. Rows'
  BY <1>4, <1>5, <1>6 DEF Rows
<1>9. Results' /\ Ratios'
  BY <1>1, <1>5, <1>6 DEF SearchInv, Results, Ratios
<1> QED BY <1>6, <1>7, <1>8, <1>9 DEF SearchInv

LEMMA ReadKeywordKeeps ==
  ASSUME SearchInv, ReadKeyword
  PROVE  SearchInv'
<1> DEFINE channel == KeywordHits(base, request)
<1>1. /\ read' = [read EXCEPT !.keyword = channel.hits, !.cut = channel.cut]
      /\ Page /\ step' \in {"embed", "load"}
  BY DEF ReadKeyword
<1>2. TypeOK /\ Met
  BY DEF SearchInv
<1>3. HitsMet(channel.hits)
  BY <1>2, ChannelsMeet
<1> HIDE DEF channel
<1>4. /\ read'.people = read.people /\ DOMAIN read' = DOMAIN read
      /\ read'.keyword = channel.hits /\ read'.vector = read.vector /\ read'.results = read.results
  BY <1>1, <1>2 DEF TypeOK, Nothing
<1>5. /\ Fresh' /\ TypeOK' /\ Met' /\ FiltersAreHard' /\ everMet' = everMet /\ base' = base
      /\ \A hits : HitsMet(hits) => HitsMet(hits)'
  BY <1>1, <1>2, <1>4, PageKeeps
<1>6. Hits'
  BY <1>3, <1>4, <1>5 DEF SearchInv, Hits, HitsMet
<1>7. Rows' /\ Results' /\ Ratios'
  BY <1>1, <1>4, <1>5 DEF SearchInv, Rows, Results, Ratios
<1> QED BY <1>5, <1>6, <1>7 DEF SearchInv

LEMMA ReadVectorKeeps ==
  ASSUME SearchInv, ReadVector
  PROVE  SearchInv'
<1> DEFINE channel == VectorHits(base, request)
<1>1. /\ read' = [read EXCEPT !.vector = channel.hits, !.cut = @ \/ channel.cut]
      /\ Page /\ step' = "load"
  BY DEF ReadVector
<1>2. TypeOK /\ Met
  BY DEF SearchInv
<1>3. HitsMet(channel.hits)
  BY <1>2, ChannelsMeet
<1> HIDE DEF channel
<1>4. /\ read'.people = read.people /\ DOMAIN read' = DOMAIN read
      /\ read'.vector = channel.hits /\ read'.keyword = read.keyword /\ read'.results = read.results
  BY <1>1, <1>2 DEF TypeOK, Nothing
<1>5. /\ Fresh' /\ TypeOK' /\ Met' /\ FiltersAreHard' /\ everMet' = everMet /\ base' = base
      /\ \A hits : HitsMet(hits) => HitsMet(hits)'
  BY <1>1, <1>2, <1>4, PageKeeps
<1>6. Hits'
  BY <1>3, <1>4, <1>5 DEF SearchInv, Hits, HitsMet
<1>7. Rows' /\ Results' /\ Ratios'
  BY <1>1, <1>4, <1>5 DEF SearchInv, Rows, Results, Ratios
<1> QED BY <1>5, <1>6, <1>7 DEF SearchInv

LEMMA ReadPreferredKeeps ==
  ASSUME SearchInv, ReadPreferred
  PROVE  SearchInv'
<1> DEFINE share(p) == IF PreferredFields(request) = {} THEN 0
                       ELSE (Cardinality(PreferredMet(base, p, request)) * One)
                            \div Cardinality(PreferredFields(request))
           ratio == [p \in {row.person : row \in read.people} |-> share(p)]
<1>1. read' = [read EXCEPT !.ratio = ratio] /\ Page /\ step' = "projects"
  BY DEF ReadPreferred
<1>2. TypeOK /\ Met
  BY DEF SearchInv
<1>3. \A p : share(p) \in Int
  BY PreferredRatioInt
<1> HIDE DEF share
<1>4. \A row \in read.people : row.person \in DOMAIN ratio /\ ratio[row.person] \in Int
  BY <1>3
<1> HIDE DEF ratio
<1>5. /\ read'.people = read.people /\ DOMAIN read' = DOMAIN read /\ read'.ratio = ratio
      /\ read'.keyword = read.keyword /\ read'.vector = read.vector /\ read'.results = read.results
  BY <1>1, <1>2, ReadWrites
<1>6. /\ Fresh' /\ TypeOK' /\ Met' /\ FiltersAreHard' /\ everMet' = everMet /\ base' = base
      /\ \A hits : HitsMet(hits) => HitsMet(hits)'
  BY <1>1, <1>2, <1>5, PageKeeps
<1>7. Hits'
  BY <1>5, <1>6 DEF SearchInv, Hits, HitsMet
<1>8. Rows' /\ Results'
  BY <1>5, <1>6 DEF SearchInv, Rows, Results
<1>9. Ratios'
  BY <1>4, <1>5 DEF Ratios
<1> QED BY <1>6, <1>7, <1>8, <1>9 DEF SearchInv

\* The list is made of what has been read.
LEMMA RankPeopleLists ==
  ASSUME SearchInv, RankPeople
  PROVE  LET L == Listed(base, request, read.keyword, read.vector, read.people, read.ratio)
         IN  /\ Lists(L, {row.person : row \in read.people})
             /\ read'.results = PageOf(L, request) /\ read'.total = Len(L)
<1> DEFINE summary == [p \in DOMAIN read.ratio |-> Summary(base, request, p)]
           ranks(p) == RanksIn(base, read.keyword, p) \o RanksIn(base, read.vector, p)
           scored == {[row EXCEPT !.score = FinalScore(request, ranks(row.person), read.ratio[row.person],
                                                       summary[row.person]),
                                  !.ratio = read.ratio[row.person]] : row \in read.people}
           ordered == Sorted(scored, request.sort)
           L == Listed(base, request, read.keyword, read.vector, read.people, read.ratio)
<1>1. read'.results = PageOf(ordered, request) /\ read'.total = Len(ordered)
  <2>1. read' = [read EXCEPT !.total = Len(ordered),
                             !.results = PageOf(ordered, request),
                             !.top = [p \in DOMAIN read.ratio |-> summary[p].top]]
    BY DEF RankPeople
  <2> HIDE DEF ordered, summary
  <2>2. "results" \in DOMAIN read /\ "total" \in DOMAIN read
    BY DEF SearchInv, TypeOK, Nothing
  <2> QED BY <2>1, <2>2
<1>2. Rankable(read.people, read.ratio)
  BY DEF SearchInv, Rows, Ratios, RankPeople, Rankable
<1>3. ordered = L
  <2>1. ASSUME NEW row \in read.people
        PROVE  [row EXCEPT !.score = FinalScore(request, ranks(row.person), read.ratio[row.person],
                                                summary[row.person]),
                           !.ratio = read.ratio[row.person]]
               = Scored(base, request, read.keyword, read.vector, read.ratio, row)
    <3>1. summary[row.person] = Summary(base, request, row.person)
      BY <1>2 DEF Rankable
    <3> HIDE DEF summary
    <3> QED BY <3>1 DEF Scored
  <2>2. scored = {Scored(base, request, read.keyword, read.vector, read.ratio, row) : row \in read.people}
    BY <2>1
  <2> HIDE DEF scored
  <2> QED BY <2>2 DEF Listed
<1>4. Lists(L, {row.person : row \in read.people})
  <2>1. base \in Base /\ request \in Request
    BY DEF SearchInv, TypeOK
  <2>2. read.keyword \in Seq(DOMAIN base.items) /\ read.vector \in Seq(DOMAIN base.items)
    BY DEF SearchInv, Hits, HitsMet
  <2> QED BY <1>2, <2>1, <2>2, ListedHolds
<1> HIDE DEF ordered, L
<1> QED BY <1>1, <1>3, <1>4 DEF L

\* What is shown are rows that were read.
LEMMA RankPeopleShows ==
  ASSUME SearchInv, RankPeople
  PROVE  \A n \in DOMAIN read'.results : read'.results[n].person \in everMet
<1> DEFINE L == Listed(base, request, read.keyword, read.vector, read.people, read.ratio)
           S == {x \in Range(L) : x.person \in everMet}
           results == read'.results
<1>1. Lists(L, {row.person : row \in read.people}) /\ results = PageOf(L, request)
  BY RankPeopleLists
<1>2. \A row \in read.people : row.person \in everMet
  BY DEF SearchInv, Rows
<1> HIDE DEF L, results
<1>3. L \in Seq(S)
  <2>1. L \in Seq(Range(L)) /\ \A i \in 1..Len(L) : L[i].person \in everMet
    BY <1>1, <1>2 DEF Lists
  <2>2. Len(L) \in Nat /\ DOMAIN L = 1..Len(L) /\ L = [i \in 1..Len(L) |-> L[i]]
    BY <2>1
  <2>3. \A i \in 1..Len(L) : L[i] \in S
    BY <2>1, <2>2
  <2> HIDE DEF S
  <2> QED BY <2>2, <2>3, NumberedSeq DEF Numbered
<1>4. \A x \in S : x.person \in everMet
  OBVIOUS
<1> HIDE DEF S
<1>5. request \in Request
  BY DEF SearchInv, TypeOK
<1>6. results \in Seq(S)
  BY <1>1, <1>3, <1>5, PageHolds
<1>7. \A n \in DOMAIN results : results[n] \in S
  BY <1>6
<1> QED BY <1>4, <1>7 DEF results

LEMMA RankPeopleKeeps ==
  ASSUME SearchInv, RankPeople
  PROVE  SearchInv'
<1>1. /\ Page /\ step' = "match"
      /\ \E x, y, z : read' = [read EXCEPT !.total = x, !.results = y, !.top = z]
  BY DEF RankPeople
<1>2. TypeOK /\ Met
  BY DEF SearchInv
<1>3. /\ read'.people = read.people /\ DOMAIN read' = DOMAIN read
      /\ read'.keyword = read.keyword /\ read'.vector = read.vector
  BY <1>1, <1>2 DEF TypeOK, Nothing
<1>4. /\ Fresh' /\ TypeOK' /\ Met' /\ FiltersAreHard' /\ everMet' = everMet /\ base' = base
      /\ \A hits : HitsMet(hits) => HitsMet(hits)'
  BY <1>1, <1>2, <1>3, PageKeeps
<1>5. Hits'
  BY <1>3, <1>4 DEF SearchInv, Hits, HitsMet
<1>6. Rows' /\ Ratios'
  BY <1>1, <1>3, <1>4 DEF SearchInv, Rows, Ratios
<1>7. Results'
  BY <1>4, RankPeopleShows DEF Results
<1> QED BY <1>4, <1>5, <1>6, <1>7 DEF SearchInv

LEMMA ReadMatchesKeeps ==
  ASSUME SearchInv, ReadMatches
  PROVE  SearchInv'
<1>1. Page /\ step' = "explain" /\ \E x : read' = [read EXCEPT !.matches = x]
  BY DEF ReadMatches
<1>2. TypeOK /\ Met
  BY DEF SearchInv
<1>3. /\ read'.people = read.people /\ DOMAIN read' = DOMAIN read
      /\ read'.keyword = read.keyword /\ read'.vector = read.vector /\ read'.results = read.results
  BY <1>1, <1>2, ReadWrites
<1>4. /\ Fresh' /\ TypeOK' /\ Met' /\ FiltersAreHard' /\ everMet' = everMet /\ base' = base
      /\ \A hits : HitsMet(hits) => HitsMet(hits)'
  BY <1>1, <1>2, <1>3, PageKeeps
<1>5. Hits'
  BY <1>3, <1>4 DEF SearchInv, Hits, HitsMet
<1>6. Rows' /\ Results' /\ Ratios'
  BY <1>1, <1>3, <1>4 DEF SearchInv, Rows, Results, Ratios
<1> QED BY <1>4, <1>5, <1>6 DEF SearchInv

\* Before the first statement of a page nothing has been read.
LEMMA NothingRead ==
  ASSUME read = Nothing, step # "projects"
  PROVE  Hits /\ Rows /\ Ratios /\ Results
<1>1. read.keyword = <<>> /\ read.vector = <<>> /\ read.people = {} /\ read.results = <<>>
  BY DEF Nothing
<1>2. HitsMet(<<>>)
  BY DEF HitsMet
<1>3. Hits
  BY <1>1, <1>2 DEF Hits
<1>4. IsFiniteSet({})
  BY FS_EmptySet
<1>5. Rows
  BY <1>1, <1>4 DEF Rows
<1> QED BY <1>1, <1>3, <1>5 DEF Ratios, Results

LEMMA AppendHolds ==
  ASSUME NEW s, s \in Seq(Range(s)), NEW x
  PROVE  /\ Append(s, x) \in Seq(Range(Append(s, x)))
         /\ Last(Append(s, x)) = x
<1> DEFINE t == Append(s, x)
<1>1. Len(s) \in Nat /\ t \in Seq(Range(s) \cup {x}) /\ Len(t) = Len(s) + 1 /\ t[Len(s) + 1] = x
  OBVIOUS
<1>2. Last(t) = x
  BY <1>1 DEF Last
<1> HIDE DEF t
<1>3. t \in Seq(Range(t))
  <2>1. DOMAIN t = 1..Len(t) /\ Len(t) \in Nat /\ t = [n \in 1..Len(t) |-> t[n]]
    BY <1>1
  <2>2. \A n \in 1..Len(t) : t[n] \in Range(t)
    BY <2>1 DEF Range
  <2> QED BY <2>1, <2>2, NumberedSeq DEF Numbered
<1> QED BY <1>2, <1>3 DEF t

LEMMA RespondKeeps ==
  ASSUME SearchInv, Respond
  PROVE  SearchInv'
<1>1. PICK page : pages' = Append(pages, page) /\ page.results = read.results
  <2> DEFINE page == [results |-> read.results,
                      explained |-> [n \in DOMAIN read.results |->
                            LET p == read.results[n].person
                            IN  Explain(base, p, request, read.matches[n], read.top[p],
                                        read.keyword \o read.vector)],
                      total |-> read.total,
                      cut |-> read.cut,
                      suggestions |-> IF read.total = 0 THEN Relaxations(request) ELSE <<>>]
  <2>1. pages' = Append(pages, page)
    BY DEF Respond
  <2>2. page.results = read.results
    OBVIOUS
  <2> HIDE DEF page
  <2> QED BY <2>1, <2>2
<1>2. /\ step' = "done" /\ read' = Nothing
      /\ base' = base /\ request' = request /\ edits' = edits /\ everMet' = everMet
  BY DEF Respond
<1>3. pages' \in Seq(Range(pages')) /\ Last(pages') = page
  <2>1. pages \in Seq(Range(pages))
    BY DEF SearchInv, TypeOK
  <2> QED BY <1>1, <2>1, AppendHolds
<1>4. TypeOK' /\ Fresh'
  BY <1>2, <1>3 DEF SearchInv, TypeOK, People, Fresh
<1>5. Met'
  BY <1>2 DEF SearchInv, Met
<1>6. Hits' /\ Rows' /\ Ratios' /\ Results'
  <2>1. read'.keyword = <<>> /\ read'.vector = <<>> /\ read'.people = {} /\ read'.results = <<>>
    BY <1>2 DEF Nothing
  <2>2. HitsMet(<<>>)'
    BY DEF HitsMet
  <2>3. Hits'
    BY <2>1, <2>2 DEF Hits, HitsMet
  <2>4. Rows'
    BY <2>1, FS_EmptySet DEF Rows
  <2> QED BY <1>2, <2>1, <2>3, <2>4 DEF Ratios, Results
<1>7. FiltersAreHard'
  <2>1. \A n \in DOMAIN page.results : page.results[n].person \in everMet'
    BY <1>1, <1>2 DEF SearchInv, Results
  <2> QED BY <1>3, <2>1 DEF FiltersAreHard, Answer
<1> QED BY <1>4, <1>5, <1>6, <1>7 DEF SearchInv

\* The conditions do not depend on the page.
LEMMA NextPageKeeps ==
  ASSUME SearchInv, NextPage
  PROVE  SearchInv'
<1>1. /\ step' = "check" /\ request' = [request EXCEPT !.page = @ + 1]
      /\ everMet' = Eligible(base, request)
      /\ base' = base /\ read' = read /\ pages' = pages /\ edits' = edits
  BY DEF NextPage
<1>2. base \in Base /\ request \in Request /\ read = Nothing
  BY DEF SearchInv, TypeOK, Fresh, NextPage
<1>3. /\ request' \in Request
      /\ request'.required = request.required /\ request'.mode = request.mode
      /\ request'.min = request.min /\ request'.max = request.max
  <2> DEFINE n == request.page + 1
  <2>1. n \in Nat \ {0}
    <3>1. request.page \in Nat \ {0}
      BY <1>2 DEF Request
    <3> QED BY <3>1
  <2>2. request' = [request EXCEPT !.page = n]
    BY <1>1
  <2> HIDE DEF n
  <2> QED BY <1>2, <2>1, <2>2 DEF Request
<1>4. Eligible(base', request') = Eligible(base, request)
  <2>1. \A p, f : FieldMet(base', p, request', f) <=> FieldMet(base, p, request, f)
    BY <1>1, <1>3 DEF FieldMet
  <2>2. \A person : CareerMet(person, request') <=> CareerMet(person, request)
    BY <1>3 DEF CareerMet
  <2> QED BY <1>1, <2>1, <2>2 DEF Eligible
<1>5. Met'
  BY <1>1, <1>4 DEF Met
<1>6. TypeOK'
  <2>1. Eligible(base, request) \subseteq DOMAIN base.people
    BY <1>2, EligibleFinite
  <2> QED BY <1>1, <1>3, <2>1 DEF SearchInv, TypeOK, People
<1>7. Hits' /\ Rows' /\ Ratios' /\ Results'
  <2>1. read'.keyword = <<>> /\ read'.vector = <<>> /\ read'.people = {} /\ read'.results = <<>>
    BY <1>1, <1>2 DEF Nothing
  <2>2. HitsMet(<<>>)'
    BY DEF HitsMet
  <2>3. Hits'
    BY <2>1, <2>2 DEF Hits, HitsMet
  <2>4. Rows'
    BY <2>1, FS_EmptySet DEF Rows
  <2> QED BY <1>1, <2>1, <2>3, <2>4 DEF Ratios, Results
<1>8. FiltersAreHard' /\ Fresh'
  BY <1>1, <1>2 DEF FiltersAreHard, Answered, Fresh
<1> QED BY <1>5, <1>6, <1>7, <1>8 DEF SearchInv

\* A change leaves people and items who they are.
Kept(b, c) ==
  /\ c \in Base
  /\ DOMAIN c.people = DOMAIN b.people /\ DOMAIN c.items = DOMAIN b.items
  /\ \A i \in DOMAIN b.items : c.items[i].person = b.items[i].person

LEMMA EditKeeps ==
  ASSUME SearchInv, NEW new, Kept(base, new), Edit(new)
  PROVE  SearchInv'
<1>1. /\ base' = new /\ edits' = edits + 1 /\ edits < MaxEdits
      /\ everMet' = everMet \cup Eligible(new, request)
      /\ request' = request /\ step' = step /\ read' = read /\ pages' = pages
  BY DEF Edit
<1>2. Eligible(new, request) \subseteq DOMAIN base.people
  BY EligibleFinite DEF Kept
<1>3. TypeOK'
  <2>1. edits' \in 0..MaxEdits
    BY <1>1, SearchAssumption DEF SearchInv, TypeOK
  <2> QED BY <1>1, <1>2, <2>1 DEF SearchInv, TypeOK, People, Kept
<1>4. Met' /\ Fresh'
  BY <1>1 DEF SearchInv, Met, Fresh
<1>5. Hits'
  BY <1>1 DEF SearchInv, Hits, HitsMet, Kept
<1>6. Rows' /\ Ratios' /\ Results'
  BY <1>1 DEF SearchInv, Rows, Ratios, Results
<1>7. FiltersAreHard'
  BY <1>1 DEF SearchInv, FiltersAreHard, Answered, Answer
<1> QED BY <1>3, <1>4, <1>5, <1>6, <1>7 DEF SearchInv

LEMMA MapChanged ==
  ASSUME NEW S, NEW s \in Seq(S), NEW t, t = [i \in DOMAIN s |-> t[i]], \A i \in DOMAIN s : t[i] \in S
  PROVE  t \in Seq(S) /\ DOMAIN t = DOMAIN s
<1>1. Len(s) \in Nat /\ DOMAIN s = 1..Len(s)
  OBVIOUS
<1>2. Numbered(t, Len(s)) /\ \A i \in 1..Len(s) : t[i] \in S
  BY <1>1 DEF Numbered
<1> QED BY <1>1, <1>2, NumberedSeq

LEMMA ListChanged ==
  ASSUME NEW S, NEW s \in Seq(S), NEW x \in S, NEW i
  PROVE  [s EXCEPT ![i] = x] \in Seq(S) /\ DOMAIN [s EXCEPT ![i] = x] = DOMAIN s
<1> DEFINE t == [s EXCEPT ![i] = x]
<1>1. t = [k \in DOMAIN s |-> t[k]] /\ \A k \in DOMAIN s : t[k] \in S
  OBVIOUS
<1> HIDE DEF t
<1>2. t \in Seq(S) /\ DOMAIN t = DOMAIN s
  BY <1>1, MapChanged
<1> QED BY <1>2 DEF t

\* A person changes.
LEMMA PersonKept ==
  ASSUME base \in Base, NEW p \in DOMAIN base.people, NEW q \in Person
  PROVE  Kept(base, [base EXCEPT !.people = [base.people EXCEPT ![p] = q]])
<1> DEFINE people == [base.people EXCEPT ![p] = q]
<1>1. base.people \in Seq(Person)
  BY DEF Base
<1>2. people \in Seq(Person) /\ DOMAIN people = DOMAIN base.people
  BY <1>1, ListChanged
<1> HIDE DEF people
<1>3. Kept(base, [base EXCEPT !.people = people])
  BY <1>2 DEF Base, Kept
<1> QED BY <1>3 DEF people

LEMMA EditsKeep ==
  ASSUME SearchInv, PersonDeleted \/ ProfileEdited \/ ProjectDeleted \/ DocumentDeleted \/ Reindexed
  PROVE  SearchInv'
<1>1. base \in Base
  BY DEF SearchInv, TypeOK
<1>2. /\ base.people \in Seq(Person) /\ base.projects \in Seq(Project)
      /\ base.items \in Seq(Item) /\ base.links \in Seq(Link)
  BY <1>1 DEF Base
<1>3. ASSUME PersonDeleted PROVE SearchInv'
  <2>1. PICK p \in People : Edit([base EXCEPT !.people[p].active = FALSE])
    BY <1>3 DEF PersonDeleted
  <2> DEFINE q == [base.people[p] EXCEPT !.active = FALSE]
             new == [base EXCEPT !.people = [base.people EXCEPT ![p] = q]]
  <2>2. base.people[p] \in Person
    BY <1>2, <2>1 DEF People
  <2>3. q \in Person
    BY <2>2 DEF Person
  <2>4. Edit(new)
    BY <2>1
  <2> HIDE DEF q
  <2>5. Kept(base, new)
    BY <1>1, <2>1, <2>3, PersonKept DEF People
  <2> HIDE DEF new
  <2> QED BY <2>4, <2>5, EditKeeps
<1>4. ASSUME ProfileEdited PROVE SearchInv'
  <2>1. PICK p \in People, f \in {"skills", "grade"} : Edit([base EXCEPT !.people[p].own[f] = {}])
    BY <1>4 DEF ProfileEdited
  <2> DEFINE own == [base.people[p].own EXCEPT ![f] = {}]
             q == [base.people[p] EXCEPT !.own = own]
             new == [base EXCEPT !.people = [base.people EXCEPT ![p] = q]]
  <2>2. base.people[p] \in Person
    BY <1>2, <2>1 DEF People
  <2>3. base.people[p].own \in [OnProfile -> SUBSET Values]
    BY <2>2 DEF Person
  <2>4. own \in [OnProfile -> SUBSET Values]
    BY <2>3
  <2>5. Edit(new)
    BY <2>1
  <2> HIDE DEF own
  <2>6. q \in Person
    BY <2>2, <2>4 DEF Person
  <2> HIDE DEF q
  <2>7. Kept(base, new)
    BY <1>1, <2>1, <2>6, PersonKept DEF People
  <2> HIDE DEF new
  <2> QED BY <2>5, <2>7, EditKeeps
<1>5. ASSUME ProjectDeleted PROVE SearchInv'
  <2>1. PICK j \in DOMAIN base.projects : Edit([base EXCEPT !.projects[j].live = FALSE])
    BY <1>5 DEF ProjectDeleted
  <2> DEFINE q == [base.projects[j] EXCEPT !.live = FALSE]
             projects == [base.projects EXCEPT ![j] = q]
             new == [base EXCEPT !.projects = projects]
  <2>2. base.projects[j] \in Project
    BY <1>2, <2>1
  <2>3. q \in Project
    BY <2>2 DEF Project
  <2>4. Edit(new)
    BY <2>1
  <2> HIDE DEF q
  <2>5. projects \in Seq(Project)
    BY <1>2, <2>3, ListChanged
  <2> HIDE DEF projects
  <2>6. Kept(base, new)
    BY <1>1, <2>5 DEF Base, Kept
  <2> HIDE DEF new
  <2> QED BY <2>4, <2>6, EditKeeps
<1>6. ASSUME DocumentDeleted PROVE SearchInv'
  <2>1. PICK p \in People :
          Edit([base EXCEPT
                  !.links = [l \in DOMAIN @ |-> IF @[l].person = p THEN [@[l] EXCEPT !.live = FALSE] ELSE @[l]],
                  !.items = [i \in DOMAIN @ |-> IF @[i].person = p /\ @[i].type = "DOCUMENT_CHUNK"
                                                THEN [@[i] EXCEPT !.readable = FALSE, !.active = FALSE] ELSE @[i]]])
    BY <1>6 DEF DocumentDeleted
  <2> DEFINE links == [l \in DOMAIN base.links |->
                         IF base.links[l].person = p THEN [base.links[l] EXCEPT !.live = FALSE] ELSE base.links[l]]
             items == [i \in DOMAIN base.items |->
                         IF base.items[i].person = p /\ base.items[i].type = "DOCUMENT_CHUNK"
                         THEN [base.items[i] EXCEPT !.readable = FALSE, !.active = FALSE] ELSE base.items[i]]
             new == [base EXCEPT !.links = links, !.items = items]
  <2>2. Edit(new)
    BY <2>1 DEF Base
  <2>3. links \in Seq(Link)
    <3>1. ASSUME NEW l \in DOMAIN base.links PROVE links[l] \in Link
      <4>1. base.links[l] \in Link
        BY <1>2
      <4>2. [base.links[l] EXCEPT !.live = FALSE] \in Link
        BY <4>1 DEF Link
      <4> QED BY <4>1, <4>2
    <3>2. links = [l \in DOMAIN base.links |-> links[l]]
      OBVIOUS
    <3> HIDE DEF links
    <3> QED BY <1>2, <3>1, <3>2, MapChanged
  <2>4. items \in Seq(Item) /\ DOMAIN items = DOMAIN base.items
        /\ \A i \in DOMAIN base.items : items[i].person = base.items[i].person
    <3>1. ASSUME NEW i \in DOMAIN base.items PROVE items[i] \in Item /\ items[i].person = base.items[i].person
      <4> DEFINE item == base.items[i]
                 gone == [item EXCEPT !.readable = FALSE, !.active = FALSE]
      <4>1. item \in Item
        BY <1>2
      <4>2. gone \in Item /\ gone.person = item.person
        BY <4>1 DEF Item
      <4>3. items[i] = item \/ items[i] = gone
        OBVIOUS
      <4> HIDE DEF gone, item, items
      <4> QED BY <4>1, <4>2, <4>3 DEF item
    <3>2. items = [i \in DOMAIN base.items |-> items[i]]
      OBVIOUS
    <3> HIDE DEF items
    <3> QED BY <1>2, <3>1, <3>2, MapChanged
  <2> HIDE DEF links, items
  <2>5. Kept(base, new)
    BY <1>1, <2>3, <2>4 DEF Base, Kept
  <2> HIDE DEF new
  <2> QED BY <2>2, <2>5, EditKeeps
<1>7. ASSUME Reindexed PROVE SearchInv'
  <2>1. PICK i \in DOMAIN base.items : Edit([base EXCEPT !.items[i].text = 0, !.items[i].vector = FALSE])
    BY <1>7 DEF Reindexed
  <2> DEFINE q == [base.items[i] EXCEPT !.text = 0, !.vector = FALSE]
             items == [base.items EXCEPT ![i] = q]
             new == [base EXCEPT !.items = items]
  <2>2. base.items[i] \in Item
    BY <1>2, <2>1
  <2>3. q \in Item /\ q.person = base.items[i].person
    <3> DEFINE item == base.items[i]
               blank == [item EXCEPT !.text = 0]
    <3>1. item \in Item /\ q = [blank EXCEPT !.vector = FALSE]
      BY <2>2 DEF Item
    <3> HIDE DEF item, q
    <3>2. blank \in Item /\ blank.person = item.person
      BY <3>1 DEF Item
    <3> HIDE DEF blank
    <3>3. q \in Item /\ q.person = blank.person
      BY <3>1, <3>2 DEF Item
    <3> QED BY <3>2, <3>3 DEF item
  <2>4. Edit(new)
    BY <2>1, <1>1, <1>2, <2>2 DEF Base, Item
  <2> HIDE DEF q
  <2>5. items \in Seq(Item) /\ DOMAIN items = DOMAIN base.items
    BY <1>2, <2>3, ListChanged
  <2>6. \A k \in DOMAIN base.items : items[k].person = base.items[k].person
    BY <2>3
  <2> HIDE DEF items
  <2>7. Kept(base, new)
    BY <1>1, <2>5, <2>6 DEF Base, Kept
  <2> HIDE DEF new
  <2> QED BY <2>4, <2>7, EditKeeps
<1> QED BY <1>3, <1>4, <1>5, <1>6, <1>7

-----------------------------------------------------------------------------
(* The pages of a search without changes. *)

\* Which statements a search has depends on what is asked.
Course ==
  /\ step \in {"list", "keyword"} => read = Nothing
  /\ step = "list" => ~HasRetrieval(request)
  /\ step = "keyword" => request.keyword
  /\ step \in {"embed", "vector"} => request.semantic
  /\ step = "load" => HasRetrieval(request)

\* As long as nothing changes and no channel is cut, each statement reads all
\* there is.
ReadsAll ==
  edits = 0 /\ ~read.cut =>
    /\ step \in {"embed", "vector"} => read.keyword = KeywordAll(base, request)
    /\ step \in {"load", "preferred", "projects"} =>
         read.keyword = KeywordAll(base, request) /\ read.vector = VectorAll(base, request)
    /\ step \in {"preferred", "projects"} => read.people = RowsAll(base, request)
    /\ step = "projects" => read.ratio = Shares(base, request, RowsAll(base, request))
    /\ step \in {"match", "explain"} =>
         /\ read.total = Len(Listing(base, request))
         /\ read.results = PageOf(Listing(base, request), request)

\* There is a response for each page before this one, and each without a cut
\* shows its part of the one listing.
PagesCounted == Len(pages) = IF step = "done" THEN request.page ELSE request.page - 1
Shows(page, n) ==
  page.cut \/ /\ page.total = Len(Listing(base, request))
              /\ page.results = PageAt(Listing(base, request), n, request.size)
PagesShow == edits = 0 => \A n \in DOMAIN pages : Shows(pages[n], n)

PagesInv == SearchInv /\ Course /\ ReadsAll /\ PagesCounted /\ PagesShow

\* A statement leaves the pages alone.
LEMMA PagesStay ==
  ASSUME PagesInv, Page, step # "done", step' # "done"
  PROVE  PagesCounted' /\ PagesShow'
<1>1. base' = base /\ request' = request /\ pages' = pages /\ edits' = edits
  BY DEF Page
<1>2. PagesCounted'
  BY <1>1 DEF PagesInv, PagesCounted
<1>3. PagesShow'
  BY <1>1 DEF PagesInv, PagesShow, Shows
<1> QED BY <1>2, <1>3

LEMMA CheckCodesReads ==
  ASSUME PagesInv, CheckCodes
  PROVE  Course' /\ ReadsAll'
<1>1. /\ read' = read /\ read = Nothing /\ base' = base /\ request' = request /\ edits' = edits
      /\ step' = IF ~CodesKnown(request) THEN "refused"
                 ELSE IF request.keyword THEN "keyword" ELSE IF request.semantic THEN "embed" ELSE "list"
  BY DEF CheckCodes, Page, PagesInv, SearchInv, Fresh
<1>2. read.keyword = <<>>
  BY <1>1 DEF Nothing
<1>3. /\ step' \in {"refused", "keyword", "embed", "list"}
      /\ step' = "keyword" => request.keyword
      /\ step' = "embed" => ~request.keyword /\ request.semantic
      /\ step' = "list" => ~request.keyword /\ ~request.semantic
  BY <1>1
<1>4. step' = "embed" => KeywordAll(base, request) = <<>>
  BY <1>3 DEF KeywordAll
<1>5. step' = "list" => ~HasRetrieval(request)
  BY <1>3 DEF HasRetrieval
<1>6. Course'
  BY <1>1, <1>3, <1>5 DEF Course
<1>7. ReadsAll'
  BY <1>1, <1>2, <1>3, <1>4 DEF ReadsAll
<1> QED BY <1>6, <1>7

LEMMA EmbedReads ==
  ASSUME PagesInv, Embed
  PROVE  Course' /\ ReadsAll'
<1>1. /\ read' = read /\ base' = base /\ request' = request /\ edits' = edits
      /\ step = "embed" /\ step' \in {"vector", "failed"}
  BY DEF Embed, Page
<1>2. Course'
  BY <1>1 DEF PagesInv, Course
<1>3. ReadsAll'
  BY <1>1 DEF PagesInv, ReadsAll
<1> QED BY <1>2, <1>3

LEMMA ListEligibleReads ==
  ASSUME PagesInv, ListEligible
  PROVE  Course' /\ ReadsAll'
<1> DEFINE rows == {Row(base, p) : p \in Eligible(base, request)}
<1>1. /\ read' = [read EXCEPT !.people = rows] /\ step = "list" /\ step' = "preferred"
      /\ base' = base /\ request' = request /\ edits' = edits
  BY DEF ListEligible, Page
<1>2. ~HasRetrieval(request) /\ read = Nothing
  BY <1>1 DEF PagesInv, Course
<1> HIDE DEF rows
<1>3. read'.people = rows /\ read'.keyword = <<>> /\ read'.vector = <<>>
  BY <1>1, <1>2 DEF Nothing
<1>4. KeywordAll(base, request) = <<>> /\ VectorAll(base, request) = <<>>
  <2>1. ~request.keyword /\ ~request.semantic
    BY <1>2 DEF HasRetrieval
  <2> QED BY <2>1 DEF KeywordAll, VectorAll
<1>5. RowsAll(base, request) = rows
  <2>1. Findable(base, request) = Eligible(base, request)
    BY <1>2 DEF Findable
  <2> QED BY <2>1 DEF RowsAll, rows
<1>6. ReadsAll'
  BY <1>1, <1>3, <1>4, <1>5 DEF ReadsAll
<1>7. Course'
  BY <1>1 DEF Course
<1> QED BY <1>6, <1>7

\* A channel that is not cut has found all there is.
LEMMA ChannelsAll ==
  ASSUME TypeOK
  PROVE  /\ KeywordHits(base, request).cut
            \/ KeywordHits(base, request).hits = Ranked(base, KeywordKeys(base), Eligible(base, request))
         /\ VectorHits(base, request).cut
            \/ VectorHits(base, request).hits = Ranked(base, VectorKeys(base), Eligible(base, request))
<1>1. base \in Base /\ request \in Request
  BY DEF TypeOK
<1>2. IsFiniteSet(Eligible(base, request)) /\ CandidateLimit(request) \in Nat
  BY <1>1, EligibleFinite, LimitNat
<1>3. 3 \in Nat /\ 2 \in Nat
  OBVIOUS
<1>4. KeywordHits(base, request).cut
      \/ KeywordHits(base, request).hits = Ranked(base, KeywordKeys(base), Eligible(base, request))
  BY <1>1, <1>2, <1>3, ChannelHolds, KeysFinite, KeywordKeyed DEF KeywordHits
<1>5. VectorHits(base, request).cut
      \/ VectorHits(base, request).hits = Ranked(base, VectorKeys(base), Eligible(base, request))
  BY <1>1, <1>2, <1>3, ChannelHolds, KeysFinite, VectorKeyed DEF VectorHits
<1> QED BY <1>4, <1>5

LEMMA ReadKeywordReads ==
  ASSUME PagesInv, ReadKeyword
  PROVE  Course' /\ ReadsAll'
<1> DEFINE channel == KeywordHits(base, request)
           hits == channel.hits
           cut == channel.cut
<1>1. /\ read' = [read EXCEPT !.keyword = hits, !.cut = cut]
      /\ step = "keyword" /\ step' = IF request.semantic THEN "embed" ELSE "load"
      /\ base' = base /\ request' = request /\ edits' = edits
  BY DEF ReadKeyword, Page
<1>2. cut \/ hits = Ranked(base, KeywordKeys(base), Eligible(base, request))
  BY ChannelsAll DEF PagesInv, SearchInv
<1> HIDE DEF hits, cut
<1>3. read = Nothing /\ request.keyword
  BY <1>1 DEF PagesInv, Course
<1>4. read'.keyword = hits /\ read'.cut = cut /\ read'.vector = <<>>
  BY <1>1, <1>3 DEF Nothing
<1>5. ~read'.cut => read'.keyword = KeywordAll(base, request)
  BY <1>2, <1>3, <1>4 DEF KeywordAll
<1>6. CASE request.semantic
  <2>1. step' = "embed"
    BY <1>1, <1>6
  <2> QED BY <1>1, <1>5, <1>6, <2>1 DEF Course, ReadsAll
<1>7. CASE ~request.semantic
  <2>1. step' = "load"
    BY <1>1, <1>7
  <2>2. VectorAll(base, request) = <<>>
    BY <1>7 DEF VectorAll
  <2>3. HasRetrieval(request)
    BY <1>3 DEF HasRetrieval
  <2>4. Course'
    BY <1>1, <2>1, <2>3 DEF Course
  <2>5. ReadsAll'
    BY <1>1, <1>4, <1>5, <2>1, <2>2 DEF ReadsAll
  <2> QED BY <2>4, <2>5
<1> QED BY <1>6, <1>7

LEMMA ReadVectorReads ==
  ASSUME PagesInv, ReadVector
  PROVE  Course' /\ ReadsAll'
<1> DEFINE channel == VectorHits(base, request)
           hits == channel.hits
           cut == channel.cut
<1>1. /\ read' = [read EXCEPT !.vector = hits, !.cut = @ \/ cut]
      /\ step = "vector" /\ step' = "load"
      /\ base' = base /\ request' = request /\ edits' = edits
  BY DEF ReadVector, Page
<1>2. cut \/ hits = Ranked(base, VectorKeys(base), Eligible(base, request))
  BY ChannelsAll DEF PagesInv, SearchInv
<1> HIDE DEF hits, cut
<1>3. request.semantic
  BY <1>1 DEF PagesInv, Course
<1>4. read'.vector = hits /\ (read'.cut <=> read.cut \/ cut) /\ read'.keyword = read.keyword
  <2>1. {"vector", "cut", "keyword"} \subseteq DOMAIN read
    BY DEF PagesInv, SearchInv, TypeOK, Nothing
  <2> QED BY <1>1, <2>1
<1>5. ~read'.cut => read'.vector = VectorAll(base, request)
  BY <1>2, <1>3, <1>4 DEF VectorAll
<1>6. edits = 0 /\ ~read'.cut => read'.keyword = KeywordAll(base, request)
  BY <1>1, <1>4 DEF PagesInv, ReadsAll
<1>7. Course'
  BY <1>1, <1>3 DEF Course, HasRetrieval
<1>8. ReadsAll'
  BY <1>1, <1>5, <1>6 DEF ReadsAll
<1> QED BY <1>7, <1>8

LEMMA LoadPeopleReads ==
  ASSUME PagesInv, LoadPeople
  PROVE  Course' /\ ReadsAll'
<1> DEFINE found == HitPeople(base, read.keyword) \cup HitPeople(base, read.vector)
           rows == {Row(base, p) : p \in {p \in found : base.people[p].active}}
<1>1. /\ read' = [read EXCEPT !.people = rows] /\ step = "load" /\ step' = "preferred"
      /\ base' = base /\ request' = request /\ edits' = edits
  BY DEF LoadPeople, Page
<1>2. HasRetrieval(request)
  BY <1>1 DEF PagesInv, Course
<1>3. TypeOK /\ base \in Base
  BY DEF PagesInv, SearchInv, TypeOK
<1> HIDE DEF rows
<1>4. /\ read'.people = rows /\ read'.cut = read.cut
      /\ read'.keyword = read.keyword /\ read'.vector = read.vector
  <2>1. {"people", "vector", "cut", "keyword"} \subseteq DOMAIN read
    BY <1>3 DEF TypeOK, Nothing
  <2> QED BY <1>1, <2>1
<1>5. ASSUME edits = 0, ~read.cut
      PROVE  read.keyword = KeywordAll(base, request) /\ read.vector = VectorAll(base, request)
  BY <1>1, <1>5 DEF PagesInv, ReadsAll
<1>6. ASSUME edits = 0, ~read.cut
      PROVE  rows = RowsAll(base, request)
  <2>1. found = Findable(base, request)
    BY <1>2, <1>3, <1>5, <1>6, AllFound
  <2>2. \A p \in Findable(base, request) : base.people[p].active
    <3>1. Findable(base, request) \subseteq Eligible(base, request)
      BY <1>3, FindableFinite
    <3> QED BY <3>1 DEF Eligible
  <2> HIDE DEF found
  <2>3. {p \in found : base.people[p].active} = Findable(base, request)
    BY <2>1, <2>2
  <2> QED BY <2>3 DEF rows, RowsAll
<1>7. Course'
  BY <1>1 DEF Course
<1>8. ReadsAll'
  BY <1>1, <1>4, <1>5, <1>6 DEF ReadsAll
<1> QED BY <1>7, <1>8

LEMMA ReadPreferredReads ==
  ASSUME PagesInv, ReadPreferred
  PROVE  Course' /\ ReadsAll'
<1> DEFINE ratio == Shares(base, request, read.people)
<1>1. /\ read' = [read EXCEPT !.ratio = ratio] /\ step = "preferred" /\ step' = "projects"
      /\ base' = base /\ request' = request /\ edits' = edits
  BY DEF ReadPreferred, Page, Shares, Share
<1> HIDE DEF ratio
<1>2. /\ read'.ratio = ratio /\ read'.cut = read.cut /\ read'.people = read.people
      /\ read'.keyword = read.keyword /\ read'.vector = read.vector
  <2>1. {"people", "vector", "cut", "keyword", "ratio"} \subseteq DOMAIN read
    BY DEF PagesInv, SearchInv, TypeOK, Nothing
  <2> QED BY <1>1, <2>1
<1>3. ASSUME edits = 0, ~read.cut
      PROVE  /\ read.keyword = KeywordAll(base, request) /\ read.vector = VectorAll(base, request)
             /\ read.people = RowsAll(base, request)
  BY <1>1, <1>3 DEF PagesInv, ReadsAll
<1>4. Course'
  BY <1>1 DEF Course
<1>5. ReadsAll'
  BY <1>1, <1>2, <1>3 DEF ReadsAll, ratio
<1> QED BY <1>4, <1>5

LEMMA RankPeopleReads ==
  ASSUME PagesInv, RankPeople
  PROVE  Course' /\ ReadsAll'
<1> DEFINE L == Listed(base, request, read.keyword, read.vector, read.people, read.ratio)
<1>1. /\ step = "projects" /\ step' = "match"
      /\ base' = base /\ request' = request /\ edits' = edits
  BY DEF RankPeople, Page
<1>2. read'.results = PageOf(L, request) /\ read'.total = Len(L)
  BY RankPeopleLists DEF PagesInv
<1>3. read'.cut = read.cut
  <2>1. \E x, y, z : read' = [read EXCEPT !.total = x, !.results = y, !.top = z]
    BY DEF RankPeople
  <2>2. "cut" \in DOMAIN read
    BY DEF PagesInv, SearchInv, TypeOK, Nothing
  <2> QED BY <2>1, <2>2
<1>4. ASSUME edits = 0, ~read.cut
      PROVE  L = Listing(base, request)
  BY <1>1, <1>4 DEF PagesInv, ReadsAll, Listing
<1> HIDE DEF L
<1>5. Course'
  BY <1>1 DEF Course
<1>6. ReadsAll'
  BY <1>1, <1>2, <1>3, <1>4 DEF ReadsAll
<1> QED BY <1>5, <1>6

LEMMA ReadMatchesReads ==
  ASSUME PagesInv, ReadMatches
  PROVE  Course' /\ ReadsAll'
<1>1. /\ step = "match" /\ step' = "explain"
      /\ base' = base /\ request' = request /\ edits' = edits
      /\ \E x : read' = [read EXCEPT !.matches = x]
  BY DEF ReadMatches, Page
<1>2. read'.cut = read.cut /\ read'.total = read.total /\ read'.results = read.results
  <2>1. {"cut", "total", "results"} \subseteq DOMAIN read
    BY DEF PagesInv, SearchInv, TypeOK, Nothing
  <2> QED BY <1>1, <2>1
<1>3. Course'
  BY <1>1 DEF Course
<1>4. ReadsAll'
  BY <1>1, <1>2 DEF PagesInv, ReadsAll
<1> QED BY <1>3, <1>4

LEMMA RespondPages ==
  ASSUME PagesInv, Respond
  PROVE  Course' /\ ReadsAll' /\ PagesCounted' /\ PagesShow'
<1> DEFINE page == [results |-> read.results,
                    explained |-> [n \in DOMAIN read.results |->
                            LET p == read.results[n].person
                            IN  Explain(base, p, request, read.matches[n], read.top[p],
                                        read.keyword \o read.vector)],
                    total |-> read.total,
                    cut |-> read.cut,
                    suggestions |-> IF read.total = 0 THEN Relaxations(request) ELSE <<>>]
           L == Listing(base, request)
<1>1. pages' = Append(pages, page)
  BY DEF Respond
<1>2. page.results = read.results /\ page.total = read.total /\ page.cut = read.cut
  OBVIOUS
<1> HIDE DEF page
<1>3. /\ step = "explain" /\ step' = "done"
      /\ base' = base /\ request' = request /\ edits' = edits
  BY DEF Respond
<1>4. /\ pages \in Seq(Range(pages)) /\ Len(pages) = request.page - 1 /\ request.page \in Nat \ {0}
  BY <1>3 DEF PagesInv, PagesCounted, SearchInv, TypeOK, Request
<1>5. /\ Len(pages') = request.page /\ DOMAIN pages' = 1..request.page
      /\ pages'[request.page] = page
      /\ \A n \in 1..(request.page - 1) : pages'[n] = pages[n] /\ n \in DOMAIN pages
  BY <1>1, <1>4
<1>6. Course' /\ ReadsAll' /\ PagesCounted'
  BY <1>3, <1>5 DEF Course, ReadsAll, PagesCounted
<1>7. ASSUME edits = 0 PROVE Shows(page, request.page)
  <2>1. CASE read.cut
    BY <1>2, <2>1 DEF Shows
  <2>2. CASE ~read.cut
    <3>1. read.total = Len(L) /\ read.results = PageOf(L, request)
      BY <1>3, <1>7, <2>2 DEF PagesInv, ReadsAll
    <3>2. PageOf(L, request) = PageAt(L, request.page, request.size)
      BY DEF PageOf, PageAt
    <3> QED BY <1>2, <3>1, <3>2 DEF Shows
  <2> QED BY <2>1, <2>2
<1>8. \A x, n : Shows(x, n)' <=> Shows(x, n)
  BY <1>3 DEF Shows
<1>9. ASSUME edits = 0, NEW n \in 1..request.page PROVE Shows(pages'[n], n)
  <2>1. CASE n = request.page
    BY <1>5, <1>7, <1>9, <2>1
  <2>2. CASE n # request.page
    <3>1. n \in 1..(request.page - 1)
      BY <1>4, <2>2
    <3>2. pages'[n] = pages[n] /\ n \in DOMAIN pages
      BY <1>5, <3>1
    <3> QED BY <1>9, <3>2 DEF PagesInv, PagesShow
  <2> QED BY <2>1, <2>2
<1>10. PagesShow'
  BY <1>3, <1>5, <1>8, <1>9 DEF PagesShow, Shows
<1> QED BY <1>6, <1>10

LEMMA NextPagePages ==
  ASSUME PagesInv, NextPage
  PROVE  Course' /\ ReadsAll' /\ PagesCounted' /\ PagesShow'
<1>1. /\ step = "done" /\ step' = "check" /\ request' = [request EXCEPT !.page = @ + 1]
      /\ base' = base /\ pages' = pages /\ edits' = edits
  BY DEF NextPage
<1>2. request \in Request
  BY DEF PagesInv, SearchInv, TypeOK
<1>3. SameAsked(request', request) /\ request'.page = request.page + 1 /\ request.page \in Nat
  BY <1>1, <1>2 DEF Request, SameAsked
<1>4. Course' /\ ReadsAll'
  BY <1>1 DEF Course, ReadsAll
<1>5. PagesCounted'
  <2>1. Len(pages) = request.page
    BY <1>1 DEF PagesInv, PagesCounted
  <2>2. request'.page - 1 = request.page
    BY <1>3
  <2> QED BY <1>1, <2>1, <2>2 DEF PagesCounted
<1>6. Listing(base', request') = Listing(base, request) /\ request'.size = request.size
  BY <1>1, <1>3, SameListing DEF SameAsked
<1>7. PagesShow'
  BY <1>1, <1>6 DEF PagesInv, PagesShow, Shows
<1> QED BY <1>4, <1>5, <1>7

\* After a change nothing is said about the listing.
LEMMA EditPages ==
  ASSUME PagesInv, NEW new, Edit(new)
  PROVE  Course' /\ ReadsAll' /\ PagesCounted' /\ PagesShow'
<1>1. /\ edits' = edits + 1 /\ request' = request /\ step' = step /\ read' = read /\ pages' = pages
  BY DEF Edit
<1>2. edits' # 0
  <2>1. edits \in Nat
    BY SearchAssumption DEF PagesInv, SearchInv, TypeOK
  <2> QED BY <1>1, <2>1
<1>3. Course'
  BY <1>1 DEF PagesInv, Course
<1>4. PagesCounted'
  BY <1>1 DEF PagesInv, PagesCounted
<1> QED BY <1>2, <1>3, <1>4 DEF ReadsAll, PagesShow

LEMMA EditsAre ==
  ASSUME PersonDeleted \/ ProfileEdited \/ ProjectDeleted \/ DocumentDeleted \/ Reindexed
  PROVE  \E new : Edit(new)
<1>1. CASE PersonDeleted
  BY <1>1 DEF PersonDeleted
<1>2. CASE ProfileEdited
  BY <1>2 DEF ProfileEdited
<1>3. CASE ProjectDeleted
  BY <1>3 DEF ProjectDeleted
<1>4. CASE DocumentDeleted
  BY <1>4 DEF DocumentDeleted
<1>5. CASE Reindexed
  BY <1>5 DEF Reindexed
<1> QED BY <1>1, <1>2, <1>3, <1>4, <1>5

\* The pages so far show the listing.
LEMMA PagesDoTile ==
  ASSUME PagesInv
  PROVE  PagesTileTheResult
<1> DEFINE L == Listing(base, request)
           P == Findable(base, request)
           k == request.size
           m == request.page
<1> SUFFICES ASSUME Answered, edits = 0, \A n \in DOMAIN pages : ~pages[n].cut
             PROVE  LET places == UNION {{n} \X DOMAIN pages[n].results : n \in DOMAIN pages}
                        shown(at) == pages[at[1]].results[at[2]].person
                    IN  /\ \A a, b \in places : shown(a) = shown(b) => a = b
                        /\ \A n \in DOMAIN pages : pages[n].total = Cardinality(P)
                        /\ m * k >= Answer.total => {shown(at) : at \in places} = P
  BY DEF PagesTileTheResult
<1>1. base \in Base /\ request \in Request /\ pages \in Seq(Range(pages))
  BY DEF PagesInv, SearchInv, TypeOK
<1>2. k \in Nat \ {0} /\ m \in Nat /\ m # 0
  BY <1>1 DEF Request
<1>3. Len(pages) = m /\ DOMAIN pages = 1..m
  BY <1>1 DEF PagesInv, PagesCounted, Answered
<1>4. Lists(L, P)
  BY <1>1, ListingHolds
<1>5. Len(L) = Cardinality(P)
  BY <1>4 DEF Lists
<1>6. /\ \A n \in 1..m : pages[n].total = Len(L)
      /\ \A n \in 1..m : pages[n].results = PageAt(L, n, k)
  BY <1>3 DEF PagesInv, PagesShow, Shows
<1> HIDE DEF L, P, k, m
<1>7. /\ \A a, b \in Places(pages, m) : ShownAt(pages, a) = ShownAt(pages, b) => a = b
      /\ m * k >= Len(L) => {ShownAt(pages, at) : at \in Places(pages, m)} = P
  BY <1>2, <1>4, <1>6, PagesTile
<1>8. Answer.total = Len(L)
  <2>1. Answer = pages[m] /\ m \in 1..m
    BY <1>2, <1>3 DEF Answer, Last
  <2> QED BY <1>6, <2>1
<1>9. Places(pages, m) = UNION {{n} \X DOMAIN pages[n].results : n \in DOMAIN pages}
  BY <1>3 DEF Places
<1>10. \A n \in DOMAIN pages : pages[n].total = Cardinality(P)
  BY <1>3, <1>5, <1>6
<1> QED BY <1>7, <1>8, <1>9, <1>10 DEF ShownAt

-----------------------------------------------------------------------------
(* Conditions and the specifications of their evidence. *)

\* What is said about a condition agrees with the evidence sought for it.
Justified(b, p, item, spec) ==
  Agree(b, p, item, IF item.status = "MATCH" THEN Targets(b, p, spec) ELSE {})

\* Two lists belong together, place by place.
Paired(b, p, items, specs) ==
  /\ items \in Seq(Range(items)) /\ specs \in Seq(Range(specs)) /\ Len(specs) = Len(items)
  /\ \A n \in 1..Len(items) : Justified(b, p, items[n], specs[n])

\* With the evidence that is sought, as enrich does.
Told(b, p, items, specs) ==
  \A m \in DOMAIN items :
     Agree(b, p, items[m], IF m \in DOMAIN specs /\ items[m].status = "MATCH" THEN Targets(b, p, specs[m]) ELSE {})

LEMMA PairedTold ==
  ASSUME NEW b, NEW p, NEW items, NEW specs, Paired(b, p, items, specs)
  PROVE  Told(b, p, items, specs)
<1>1. DOMAIN items = 1..Len(items) /\ DOMAIN specs = 1..Len(items)
  BY DEF Paired
<1>2. \A m \in DOMAIN items : m \in DOMAIN specs /\ Justified(b, p, items[m], specs[m])
  BY <1>1 DEF Paired
<1> QED BY <1>2 DEF Told, Justified

LEMMA PairedEmpty == \A b, p : Paired(b, p, <<>>, <<>>)
<1>1. <<>> \in Seq(Range(<<>>)) /\ Len(<<>>) = 0
  OBVIOUS
<1> QED BY <1>1 DEF Paired

LEMMA PairedOne ==
  ASSUME NEW b, NEW p, NEW item, NEW spec, NEW condition, condition => Justified(b, p, item, spec)
  PROVE  Paired(b, p, When(condition, item), When(condition, spec))
<1>1. CASE ~condition
  BY <1>1, PairedEmpty DEF When
<1>2. CASE condition
  <2>1. /\ <<item>> \in Seq(Range(<<item>>)) /\ <<spec>> \in Seq(Range(<<spec>>))
        /\ Len(<<spec>>) = 1 /\ Len(<<item>>) = 1 /\ <<item>>[1] = item /\ <<spec>>[1] = spec
    BY DEF Range
  <2>2. \A n \in 1..1 : Justified(b, p, <<item>>[n], <<spec>>[n])
    BY <1>2, <2>1
  <2>3. Paired(b, p, <<item>>, <<spec>>)
    BY <2>1, <2>2 DEF Paired
  <2> QED BY <1>2, <2>3 DEF When
<1> QED BY <1>1, <1>2

LEMMA PairedJoin ==
  ASSUME NEW b, NEW p, NEW a, NEW s, NEW c, NEW t, Paired(b, p, a, s), Paired(b, p, c, t)
  PROVE  Paired(b, p, a \o c, s \o t)
<1> DEFINE I == Range(a) \cup Range(c)
           K == Range(s) \cup Range(t)
<1>1. a \in Seq(I) /\ c \in Seq(I) /\ s \in Seq(K) /\ t \in Seq(K)
  BY DEF Paired
<1>2. Len(s) = Len(a) /\ Len(t) = Len(c) /\ Len(a) \in Nat /\ Len(c) \in Nat
  BY <1>1 DEF Paired
<1> HIDE DEF I, K
<1>3. /\ a \o c \in Seq(I) /\ s \o t \in Seq(K) /\ Range(a \o c) = I /\ Range(s \o t) = K
  BY <1>1, Joined DEF I, K
<1>4. /\ Len(a \o c) = Len(a) + Len(c) /\ Len(s \o t) = Len(a) + Len(c)
      /\ \A n \in 1..(Len(a) + Len(c)) : (a \o c)[n] = IF n <= Len(a) THEN a[n] ELSE c[n - Len(a)]
      /\ \A n \in 1..(Len(a) + Len(c)) : (s \o t)[n] = IF n <= Len(a) THEN s[n] ELSE t[n - Len(a)]
  BY <1>1, <1>2
<1>5. ASSUME NEW n \in 1..(Len(a) + Len(c)) PROVE Justified(b, p, (a \o c)[n], (s \o t)[n])
  <2>1. CASE n <= Len(a)
    <3>1. n \in 1..Len(a) /\ (a \o c)[n] = a[n] /\ (s \o t)[n] = s[n]
      BY <1>2, <1>4, <2>1
    <3> QED BY <3>1 DEF Paired
  <2>2. CASE ~(n <= Len(a))
    <3>1. n - Len(a) \in 1..Len(c) /\ (a \o c)[n] = c[n - Len(a)] /\ (s \o t)[n] = t[n - Len(a)]
      BY <1>2, <1>4, <2>2
    <3> QED BY <3>1 DEF Paired
  <2> QED BY <2>1, <2>2
<1> QED BY <1>3, <1>4, <1>5 DEF Paired

\* Lists that are made for the same codes.
LEMMA PairedMaps ==
  ASSUME NEW b, NEW p, NEW n \in Nat, NEW a, NEW s, Numbered(a, n), Numbered(s, n),
         \A i \in 1..n : Justified(b, p, a[i], s[i])
  PROVE  Paired(b, p, a, s)
<1>1. DOMAIN a = 1..n /\ DOMAIN s = 1..n
  BY DEF Numbered
<1>2. (\A i \in 1..n : a[i] \in Range(a)) /\ (\A i \in 1..n : s[i] \in Range(s))
  BY <1>1 DEF Range
<1>3. a \in Seq(Range(a)) /\ Len(a) = n
  BY <1>2, NumberedSeq
<1>4. s \in Seq(Range(s)) /\ Len(s) = n
  BY <1>2, NumberedSeq
<1> QED BY <1>3, <1>4 DEF Paired

LEMMA PairedFlat ==
  ASSUME NEW b, NEW p, NEW n \in Nat, n # 0, NEW ii, NEW ss, Numbered(ii, n), Numbered(ss, n),
         \A i \in 1..n : Paired(b, p, ii[i], ss[i])
  PROVE  Paired(b, p, FlattenSeq(ii), FlattenSeq(ss))
<1>1. Len(ii) = n /\ Len(ss) = n
  <2>1. (\A i \in 1..n : ii[i] \in Range(ii)) /\ (\A i \in 1..n : ss[i] \in Range(ss))
    BY DEF Numbered, Range
  <2> QED BY <2>1, NumberedSeq
<1>2. /\ \E f : FlattenSeq(ii) = f[Len(ii)]
                 /\ \A i \in 1..Len(ii) : f[i] = IF i = 1 THEN ii[i] ELSE f[i - 1] \o ii[i]
      /\ \E f : FlattenSeq(ss) = f[Len(ss)]
                 /\ \A i \in 1..Len(ss) : f[i] = IF i = 1 THEN ss[i] ELSE f[i - 1] \o ss[i]
  <2>1. Len(ii) \in Nat /\ Len(ii) # 0 /\ Len(ss) \in Nat /\ Len(ss) # 0
    BY <1>1
  <2> QED BY <2>1, FlattenSteps
<1>3. PICK f : FlattenSeq(ii) = f[n] /\ \A i \in 1..n : f[i] = IF i = 1 THEN ii[i] ELSE f[i - 1] \o ii[i]
  BY <1>1, <1>2
<1>4. PICK g : FlattenSeq(ss) = g[n] /\ \A i \in 1..n : g[i] = IF i = 1 THEN ss[i] ELSE g[i - 1] \o ss[i]
  BY <1>1, <1>2
<1> DEFINE S == {m \in Nat : m = 0 \/ Paired(b, p, f[m], g[m])}
<1>5. 0 \in S
  OBVIOUS
<1>6. ASSUME NEW m \in 1..n, m - 1 \in S PROVE m \in S
  <2>1. Paired(b, p, ii[m], ss[m]) /\ m \in Nat
    OBVIOUS
  <2>2. CASE m = 1
    <3>1. f[m] = ii[m] /\ g[m] = ss[m]
      BY <1>3, <1>4, <2>2
    <3>2. Paired(b, p, f[m], g[m])
      BY <2>1, <3>1
    <3> QED BY <2>1, <3>2
  <2>3. CASE m # 1
    <3>1. f[m] = f[m - 1] \o ii[m] /\ g[m] = g[m - 1] \o ss[m]
      BY <1>3, <1>4, <2>3
    <3>2. Paired(b, p, f[m - 1], g[m - 1])
      BY <1>6, <2>1, <2>3
    <3>3. Paired(b, p, f[m], g[m])
      BY <2>1, <3>1, <3>2, PairedJoin
    <3> QED BY <2>1, <3>3
  <2> QED BY <2>2, <2>3
<1>7. n \in S
  <2> HIDE DEF S
  <2>1. 0..n \subseteq S
    BY <1>5, <1>6, UpTo
  <2> QED BY <2>1
<1> QED BY <1>3, <1>4, <1>7

-----------------------------------------------------------------------------
(* The catalogue: a known code is among those below it. *)

LEMMA BelowItself ==
  ASSUME NEW root \in DOMAIN Parent
  PROVE  root \in Below(root) /\ JobGroup(root) = Below(root)
<1> DEFINE known == DOMAIN Parent
           n == Cardinality(known)
           Grows(f, m) == f = [i \in 0..m |-> IF i = 0 THEN {root} \cap known
                                              ELSE f[i - 1] \cup {c \in known : Parent[c] \in f[i - 1]}]
           within == CHOOSE f : Grows(f, n)
           S == {m \in Nat : \E f : Grows(f, m)}
<1>1. Below(root) = within[n]
  BY Zenon DEF Below
<1>2. n \in Nat
  BY CatalogueAssumption, FS_CardinalityType
<1>3. 0 \in S
  <2>1. Grows([i \in 0..0 |-> {root} \cap known], 0)
    OBVIOUS
  <2> QED BY <2>1
<1>4. ASSUME NEW m \in 1..n, m - 1 \in S PROVE m \in S
  <2>1. PICK f : Grows(f, m - 1)
    BY <1>4
  <2> DEFINE next == f[m - 1] \cup {c \in known : Parent[c] \in f[m - 1]}
             h == [i \in 0..m |-> IF i = m THEN next ELSE f[i]]
  <2>2. m \in Nat /\ m # 0
    OBVIOUS
  <2>3. \A i \in 0..m : h[i] = IF i = 0 THEN {root} \cap known
                               ELSE h[i - 1] \cup {c \in known : Parent[c] \in h[i - 1]}
    <3> SUFFICES ASSUME NEW i \in 0..m
                 PROVE  h[i] = IF i = 0 THEN {root} \cap known
                               ELSE h[i - 1] \cup {c \in known : Parent[c] \in h[i - 1]}
      OBVIOUS
    <3>1. i \in Nat /\ (i # 0 => i - 1 \in 0..m) /\ (i # 0 => i - 1 # m) /\ (i # m => i \in 0..(m - 1))
      BY <2>2
    <3>2. i # 0 => h[i - 1] = f[i - 1]
      BY <3>1
    <3>3. CASE i = m
      <4>1. h[i] = next
        BY <3>3
      <4> HIDE DEF h
      <4> QED BY <2>2, <3>2, <3>3, <4>1
    <3>4. CASE i # m
      <4>1. h[i] = f[i]
        BY <3>1, <3>4
      <4>2. f[i] = IF i = 0 THEN {root} \cap known
                   ELSE f[i - 1] \cup {c \in known : Parent[c] \in f[i - 1]}
        BY <2>1, <3>1, <3>4
      <4> HIDE DEF h
      <4> QED BY <3>2, <4>1, <4>2
    <3> QED BY <3>3, <3>4
  <2>4. h = [i \in 0..m |-> h[i]]
    OBVIOUS
  <2> HIDE DEF h
  <2>5. Grows(h, m)
    BY <2>3, <2>4
  <2> QED BY <2>2, <2>5
<1>5. Grows(within, n)
  <2>1. n \in S
    <3> HIDE DEF S, n
    <3>1. 0..n \subseteq S
      BY <1>2, <1>3, <1>4, UpTo
    <3> QED BY <1>2, <3>1
  <2>2. \E f : Grows(f, n)
    BY <2>1
  <2> HIDE DEF Grows
  <2> QED BY <2>2
<1>6. \A i \in 0..n : within[i] = IF i = 0 THEN {root} \cap known
                                 ELSE within[i - 1] \cup {c \in known : Parent[c] \in within[i - 1]}
  <2> HIDE DEF within
  <2> QED BY <1>5
<1> DEFINE T == {m \in Nat : m \in 0..n => root \in within[m]}
<1> HIDE DEF within, n
<1>7. 0 \in T
  BY <1>2, <1>6
<1>8. ASSUME NEW m \in 1..n, m - 1 \in T PROVE m \in T
  <2>1. m \in Nat /\ m \in 0..n /\ m # 0 /\ m - 1 \in 0..n
    BY <1>2
  <2>2. root \in within[m - 1]
    BY <1>8, <2>1
  <2>3. within[m] = within[m - 1] \cup {c \in known : Parent[c] \in within[m - 1]}
    BY <1>6, <2>1
  <2> QED BY <2>1, <2>2, <2>3
<1>9. n \in T
  <2> HIDE DEF T
  <2>1. 0..n \subseteq T
    BY <1>2, <1>7, <1>8, UpTo
  <2> QED BY <1>2, <2>1
<1>10. root \in Below(root)
  BY <1>1, <1>2, <1>9
<1> QED BY <1>10 DEF JobGroup

LEMMA GroupsAre ==
  ASSUME NEW f, NEW values, f = "jobs" => values \subseteq DOMAIN Parent
  PROVE  Group(f, values) = Wanted(f, values)
<1>1. CASE f = "jobs"
  <2>1. \A c \in values : JobGroup(c) = Below(c)
    BY <1>1, BelowItself
  <2>2. UNION {JobGroup(c) : c \in values} = UNION {Below(c) : c \in values}
    BY <2>1
  <2> QED BY <1>1, <2>2 DEF Group, Wanted
<1>2. CASE f # "jobs"
  BY <1>2 DEF Group, Wanted
<1> QED BY <1>1, <1>2

-----------------------------------------------------------------------------
(* Rows behind a condition. *)

Whole(rows) == {OnProject(t.row, "", "") : t \in rows}

LEMMA FieldsListed ==
  /\ Range(CodeFields) = {"jobs", "skills", "expertise", "business_domains", "customer_types"}
  /\ Fields = {"jobs", "skills", "expertise", "business_domains", "customer_types",
               "affiliations", "certifications", "project_keywords", "grade"}
<1>1. Range(CodeFields) = {"jobs", "skills", "expertise", "business_domains", "customer_types"}
  <2>1. /\ DOMAIN CodeFields = {1, 2, 3, 4, 5} /\ CodeFields[1] = "jobs" /\ CodeFields[2] = "skills"
        /\ CodeFields[3] = "expertise" /\ CodeFields[4] = "business_domains" /\ CodeFields[5] = "customer_types"
    BY DEF CodeFields
  <2> QED BY <2>1 DEF Range
<1>2. Range(TextFields) = {"affiliations", "certifications", "project_keywords"}
  <2>1. /\ DOMAIN TextFields = {1, 2, 3} /\ TextFields[1] = "affiliations"
        /\ TextFields[2] = "certifications" /\ TextFields[3] = "project_keywords"
    BY DEF TextFields
  <2> QED BY <2>1 DEF Range
<1> QED BY <1>1, <1>2 DEF Fields

LEMMA TextsListed == Range(TextFields) = {"affiliations", "certifications", "project_keywords"}
<1>1. /\ DOMAIN TextFields = {1, 2, 3} /\ TextFields[1] = "affiliations"
      /\ TextFields[2] = "certifications" /\ TextFields[3] = "project_keywords"
  BY DEF TextFields
<1> QED BY <1>1 DEF Range

LEMMA TargetsCase ==
  ASSUME NEW b, NEW p, NEW s
  PROVE  Targets(b, p, s) =
           CASE s.field \in {"grade", "affiliations"} -> {OnRow(p, s.field, "")}
             [] s.field = "career" -> CareerTargets(b.people[p], p)
             [] s.field = "project_keywords" ->
                  RowsMeeting(Substring, b, p, s.field, s.codes)
                  \cup Whole(RowsMeeting(Substring, b, p, s.field, s.codes))
             [] OTHER -> RowsMeeting(Substring, b, p, s.field, s.codes)
BY Zenon DEF Targets, Whole

LEMMA TargetsAre ==
  ASSUME NEW b, NEW p, NEW f \in Fields, NEW codes
  PROVE  Targets(b, p, Spec1(f, codes)) =
           IF f \in {"grade", "affiliations"} THEN {OnRow(p, f, "")}
           ELSE IF f = "project_keywords"
           THEN RowsMeeting(Substring, b, p, f, codes) \cup Whole(RowsMeeting(Substring, b, p, f, codes))
           ELSE RowsMeeting(Substring, b, p, f, codes)
<1>1. f # "career"
  BY FieldsListed
<1> DEFINE s == Spec1(f, codes)
           R == RowsMeeting(Substring, b, p, f, codes)
<1>2. s.field = f /\ s.codes = codes
  BY DEF Spec1
<1> HIDE DEF s
<1>3. Targets(b, p, s) =
        CASE f \in {"grade", "affiliations"} -> {OnRow(p, f, "")}
          [] f = "career" -> CareerTargets(b.people[p], p)
          [] f = "project_keywords" -> R \cup Whole(R)
          [] OTHER -> R
  BY <1>2, TargetsCase
<1> HIDE DEF R
<1>4. CASE f \in {"grade", "affiliations"}
  <2>1. f # "project_keywords" /\ f # "career"
    BY <1>4
  <2> QED BY <1>3, <1>4, <2>1 DEF s, R
<1>5. CASE f = "project_keywords"
  BY <1>3, <1>5 DEF s, R
<1>6. CASE f \notin {"grade", "affiliations", "project_keywords"}
  BY <1>1, <1>3, <1>6 DEF s, R
<1> QED BY <1>4, <1>5, <1>6

\* The two ways in which a row is found: on the profile or in a project.
LEMMA RowsAre ==
  ASSUME NEW test, NEW b, NEW p, NEW f, NEW asked, NEW t
  PROVE  t \in RowsMeeting(test, b, p, f, asked) <=>
           \/ /\ f \in OnProfile
              /\ \E v \in b.people[p].own[f] : Meets(test, f, v, asked) /\ t = OnRow(p, f, v)
           \/ /\ f \in OnProjects
              /\ \E j \in LiveProjects(b, p) : \E v \in b.projects[j].has[f] :
                    Meets(test, f, v, asked) /\ t = OnProject(j, f, v)
<1> DEFINE meeting(held) == {v \in held : Meets(test, f, v, asked)}
           A == {OnRow(p, f, v) : v \in meeting(b.people[p].own[f])}
           B(j) == {OnProject(j, f, v) : v \in meeting(b.projects[j].has[f])}
           F == UNION {B(j) : j \in LiveProjects(b, p)}
<1>1. RowsMeeting(test, b, p, f, asked) =
        (IF f \in OnProfile THEN A ELSE {}) \cup (IF f \in OnProjects THEN F ELSE {})
  BY Zenon DEF RowsMeeting
<1>2. t \in A <=> \E v \in b.people[p].own[f] : Meets(test, f, v, asked) /\ t = OnRow(p, f, v)
  BY Zenon
<1>3. t \in F <=> \E j \in LiveProjects(b, p) : \E v \in b.projects[j].has[f] :
                     Meets(test, f, v, asked) /\ t = OnProject(j, f, v)
  <2>1. \A j : t \in B(j) <=> \E v \in b.projects[j].has[f] : Meets(test, f, v, asked) /\ t = OnProject(j, f, v)
    BY Zenon
  <2>2. t \in F <=> \E j \in LiveProjects(b, p) : t \in B(j)
    OBVIOUS
  <2> HIDE DEF B, F
  <2> QED BY <2>1, <2>2
<1> HIDE DEF A, F
<1> QED BY <1>1, <1>2, <1>3

\* A person has what the database finds a row of.
LEMMA HasRows ==
  ASSUME NEW b, NEW p, NEW f, NEW asked
  PROVE  Has(b, p, f, asked) <=> RowsMeeting(Ilike, b, p, f, asked) # {}
<1> DEFINE R == RowsMeeting(Ilike, b, p, f, asked)
<1>1. \A t : t \in R <=>
        \/ /\ f \in OnProfile
           /\ \E v \in b.people[p].own[f] : Meets(Ilike, f, v, asked) /\ t = OnRow(p, f, v)
        \/ /\ f \in OnProjects
           /\ \E j \in LiveProjects(b, p) : \E v \in b.projects[j].has[f] :
                 Meets(Ilike, f, v, asked) /\ t = OnProject(j, f, v)
  BY RowsAre
<1> HIDE DEF R
<1>2. Has(b, p, f, asked) => R # {}
  BY <1>1, Zenon DEF Has
<1>3. R # {} => Has(b, p, f, asked)
  <2> SUFFICES ASSUME NEW t \in R PROVE Has(b, p, f, asked)
    OBVIOUS
  <2> QED BY <1>1, Zenon DEF Has
<1> QED BY <1>2, <1>3 DEF R

LEMMA RowsShape ==
  ASSUME NEW test, NEW b, NEW p, NEW f, NEW asked, NEW t \in RowsMeeting(test, b, p, f, asked)
  PROVE  /\ t.field = f /\ Meets(test, f, t.value, asked)
         /\ f \notin OnProjects => t.row = p
         /\ f \notin OnProfile => t.table = "project"
<1>1. CASE f \in OnProfile /\ \E v \in b.people[p].own[f] : Meets(test, f, v, asked) /\ t = OnRow(p, f, v)
  <2>1. PICK v : Meets(test, f, v, asked) /\ t = OnRow(p, f, v)
    BY <1>1
  <2>2. t.field = f /\ t.value = v /\ t.row = p
    BY <2>1 DEF OnRow
  <2> QED BY <1>1, <2>1, <2>2
<1>2. CASE f \in OnProjects /\ \E j \in LiveProjects(b, p) : \E v \in b.projects[j].has[f] :
                                  Meets(test, f, v, asked) /\ t = OnProject(j, f, v)
  <2>1. PICK j, v : Meets(test, f, v, asked) /\ t = OnProject(j, f, v)
    BY <1>2
  <2>2. t.field = f /\ t.value = v /\ t.table = "project"
    BY <2>1 DEF OnProject
  <2> QED BY <1>2, <2>1, <2>2
<1> QED BY <1>1, <1>2, RowsAre

\* A row the database finds is found by the other comparison if the value meets
\* the condition there as well.
LEMMA RowsBoth ==
  ASSUME NEW b, NEW p, NEW f, NEW asked, NEW t \in RowsMeeting(Ilike, b, p, f, asked),
         Meets(Substring, f, t.value, asked)
  PROVE  t \in RowsMeeting(Substring, b, p, f, asked)
<1>1. \A v : OnRow(p, f, v).value = v
  BY DEF OnRow
<1>2. \A j, v : OnProject(j, f, v).value = v
  BY DEF OnProject
<1>3. CASE f \in OnProfile /\ \E v \in b.people[p].own[f] : Meets(Ilike, f, v, asked) /\ t = OnRow(p, f, v)
  <2>1. PICK v \in b.people[p].own[f] : t = OnRow(p, f, v)
    BY <1>3
  <2>2. Meets(Substring, f, v, asked)
    BY <1>1, <2>1
  <2> QED BY <1>3, <2>1, <2>2, RowsAre
<1>4. CASE f \in OnProjects /\ \E j \in LiveProjects(b, p) : \E v \in b.projects[j].has[f] :
                                  Meets(Ilike, f, v, asked) /\ t = OnProject(j, f, v)
  <2>1. PICK j \in LiveProjects(b, p) : \E v \in b.projects[j].has[f] : t = OnProject(j, f, v)
    BY <1>4
  <2>2. PICK v \in b.projects[j].has[f] : t = OnProject(j, f, v)
    BY <2>1
  <2>3. Meets(Substring, f, v, asked)
    BY <1>2, <2>2
  <2> QED BY <1>4, <2>2, <2>3, RowsAre
<1> QED BY <1>3, <1>4, RowsAre

About(item, f, values) == item.field = f /\ item.values = values

\* What a field is asked for, and the rows that are sought for it.
LEMMA RowsJustified ==
  ASSUME NEW b, NEW p, NEW f \in Fields, NEW values, NEW item, About(item, f, values)
  PROVE  \A t \in Targets(b, p, Spec1(f, Wanted(f, values))) :
            Justifies(t, item, Targets(b, p, Spec1(f, Wanted(f, values))))
<1> DEFINE codes == Wanted(f, values)
           T == Targets(b, p, Spec1(f, codes))
           R == RowsMeeting(Substring, b, p, f, codes)
<1>1. T = IF f \in {"grade", "affiliations"} THEN {OnRow(p, f, "")}
          ELSE IF f = "project_keywords" THEN R \cup Whole(R) ELSE R
  BY TargetsAre
<1>2. \A t \in R : t.field = f /\ Meets(Substring, f, t.value, codes)
  BY RowsShape
<1>3. f = "project_keywords" => \A t \in R : t.table = "project"
  <2>1. "project_keywords" \notin OnProfile
    BY DEF OnProfile
  <2> QED BY <2>1, RowsShape
<1>4. item.field = f /\ Wanted(item.field, item.values) = codes
  BY DEF About
<1> HIDE DEF codes, T, R
<1>5. \A t \in R : Justifies(t, item, T)
  BY <1>2, <1>4 DEF Justifies
<1>6. ASSUME f \in {"grade", "affiliations"}, NEW t \in T PROVE Justifies(t, item, T)
  <2>1. t = OnRow(p, f, "")
    BY <1>1, <1>6
  <2>2. t.field = f
    BY <2>1 DEF OnRow
  <2> QED BY <1>4, <1>6, <2>2 DEF Justifies
<1>7. ASSUME f = "project_keywords", NEW t \in Whole(R) PROVE Justifies(t, item, T)
  <2>1. PICK u \in R : t = OnProject(u.row, "", "")
    BY <1>7 DEF Whole
  <2>2. t.field = "" /\ t.row = u.row /\ t.table = "project"
    BY <2>1 DEF OnProject
  <2>3. u \in T
    BY <1>1, <1>7, <2>1
  <2> QED BY <1>2, <1>3, <1>4, <1>7, <2>2, <2>3 DEF Justifies
<1>8. \A t \in T : Justifies(t, item, T)
  BY <1>1, <1>5, <1>6, <1>7
<1> QED BY <1>8 DEF T, codes

\* A row that the database finds is sought, unless it is found by wildcards only.
LEMMA RowsSought ==
  ASSUME NEW b, NEW p, NEW f \in Fields, NEW values, NEW item, About(item, f, values),
         NEW t \in RowsMeeting(Ilike, b, p, f, Wanted(f, values))
  PROVE  Place(t) \in Targets(b, p, Spec1(f, Wanted(f, values))) \/ PatternOnly(t, item)
<1> DEFINE codes == Wanted(f, values)
           T == Targets(b, p, Spec1(f, codes))
           R == RowsMeeting(Substring, b, p, f, codes)
<1>1. T = IF f \in {"grade", "affiliations"} THEN {OnRow(p, f, "")}
          ELSE IF f = "project_keywords" THEN R \cup Whole(R) ELSE R
  BY TargetsAre
<1>2. t.field = f /\ Meets(Ilike, f, t.value, codes) /\ (f \notin OnProjects => t.row = p)
  BY RowsShape
<1>3. Meets(Substring, f, t.value, codes) => t \in R
  BY RowsBoth
<1>4. f \in {"certifications", "project_keywords"} => codes = values
  BY DEF Wanted
<1>5. item.field = f /\ item.values = values
  BY DEF About
<1> HIDE DEF codes, T, R
<1>6. CASE f \in {"grade", "affiliations"}
  <2>1. t.row = p
    BY <1>2, <1>6 DEF OnProjects
  <2>2. Place(t) = OnRow(p, f, "")
    BY <1>2, <1>6, <2>1 DEF Place
  <2> QED BY <1>1, <1>6, <2>2 DEF T, codes
<1>7. CASE f \in {"certifications", "project_keywords"}
  <2>1. Place(t) = t
    BY <1>2, <1>7 DEF Place
  <2>2. ~Meets(Substring, f, t.value, codes) => PatternOnly(t, item)
    BY <1>4, <1>5, <1>7 DEF PatternOnly
  <2>3. Meets(Substring, f, t.value, codes) => Place(t) \in T
    BY <1>1, <1>3, <1>7, <2>1
  <2> QED BY <2>2, <2>3 DEF T, codes
<1>8. CASE f \notin {"grade", "affiliations", "certifications", "project_keywords"}
  <2>1. f \notin Range(TextFields)
    BY <1>8, TextsListed
  <2>2. Meets(Substring, f, t.value, codes)
    BY <1>2, <2>1 DEF Meets
  <2>3. Place(t) = t
    BY <1>2, <1>8 DEF Place
  <2>4. T = R
    BY <1>1, <1>8
  <2>5. Place(t) \in T
    BY <1>3, <2>2, <2>3, <2>4
  <2> QED BY <2>5 DEF T, codes
<1> QED BY <1>6, <1>7, <1>8

LEMMA SetJustified ==
  ASSUME NEW b, NEW p, NEW f \in Fields, NEW values, f = "jobs" => values \subseteq DOMAIN Parent,
         NEW item, About(item, f, values),
         (item.status = "MATCH") <=> Has(b, p, f, Wanted(f, values))
  PROVE  Justified(b, p, item, Spec1(f, Group(f, values)))
<1> DEFINE codes == Wanted(f, values)
           T == Targets(b, p, Spec1(f, codes))
           met == RowsMeeting(Ilike, b, p, f, codes)
<1>1. Group(f, values) = codes
  BY GroupsAre
<1>2. (item.status = "MATCH") <=> (met # {})
  BY HasRows
<1>3. \A t \in T : Justifies(t, item, T)
  BY RowsJustified
<1>4. \A t \in met : Place(t) \in T \/ PatternOnly(t, item)
  BY RowsSought
<1>5. item.field # "career"
  BY FieldsListed DEF About
<1>6. RowsMeeting(Ilike, b, p, item.field, Wanted(item.field, item.values)) = met
  BY DEF About
<1> HIDE DEF codes, T, met
<1>7. CASE item.status = "MATCH"
  <2>1. Agree(b, p, item, T)
    BY <1>2, <1>3, <1>4, <1>5, <1>6, <1>7 DEF Agree
  <2> QED BY <1>1, <1>7, <2>1 DEF Justified, T
<1>8. CASE item.status # "MATCH"
  <2>1. Agree(b, p, item, {})
    BY <1>2, <1>5, <1>6, <1>8 DEF Agree
  <2> QED BY <1>8, <2>1 DEF Justified
<1> QED BY <1>7, <1>8

\* What a person meets who was found.
LEMMA EligibleMeets ==
  ASSUME NEW b, NEW r, NEW p \in Eligible(b, r), NEW f \in Fields
  PROVE  FieldMet(b, p, r, f) /\ CareerMet(b.people[p], r)
BY DEF Eligible

LEMMA KnownJobs ==
  ASSUME NEW r, CodesKnown(r)
  PROVE  Range(r.required["jobs"]) \subseteq DOMAIN Parent /\ Range(r.preferred["jobs"]) \subseteq DOMAIN Parent
<1>1. "jobs" \in Range(CodeFields)
  BY FieldsListed
<1>2. Range(r.required["jobs"]) \cup Range(r.preferred["jobs"]) \subseteq
        (IF "jobs" = "jobs" THEN DOMAIN Parent ELSE Codes["jobs"])
  BY <1>1, Zenon DEF CodesKnown
<1> QED BY <1>2

LEMMA RequiredPaired ==
  ASSUME NEW b, NEW r \in Request, CodesKnown(r), NEW p \in Eligible(b, r), NEW f \in Fields,
         ~(f = "skills" /\ r.mode = "ALL")
  PROVE  Paired(b, p, Required(r, f), OneSpec(r, f))
<1> DEFINE asked == Range(r.required[f])
           item == Match("REQUIRED", f, asked, TRUE)
           condition == r.required[f] # <<>>
<1>1. condition => asked # {}
  <2>1. r.required[f] \in Seq(Values)
    BY DEF Request
  <2>2. condition => 1 \in DOMAIN r.required[f]
    BY <2>1
  <2> QED BY <2>2 DEF Range
<1>2. asked = {} \/ Has(b, p, f, Wanted(f, asked))
  BY EligibleMeets DEF FieldMet
<1>3. f = "jobs" => asked \subseteq DOMAIN Parent
  BY KnownJobs
<1>4. About(item, f, asked) /\ item.status = "MATCH"
  BY DEF Match, About
<1> HIDE DEF asked, item
<1>5. condition => Justified(b, p, item, Spec1(f, Group(f, asked)))
  BY <1>1, <1>2, <1>3, <1>4, SetJustified
<1> HIDE DEF condition
<1>6. Paired(b, p, When(condition, item), When(condition, Spec1(f, Group(f, asked))))
  BY <1>5, PairedOne
<1> QED BY <1>6 DEF Required, OneSpec, condition, item, asked

LEMMA SkillsPaired ==
  ASSUME NEW b, NEW r \in Request, CodesKnown(r), NEW p \in Eligible(b, r)
  PROVE  Paired(b, p, SkillItems(r), SkillSpecs(r))
<1>1. "skills" \in Fields /\ "skills" # "jobs"
  BY FieldsListed
<1>2. CASE r.mode # "ALL"
  <2>1. Paired(b, p, Required(r, "skills"), OneSpec(r, "skills"))
    BY <1>1, <1>2, RequiredPaired
  <2> QED BY <1>2, <2>1 DEF SkillItems, SkillSpecs
<1>3. CASE r.mode = "ALL"
  <2> DEFINE asked == r.required["skills"]
             n == Len(asked)
             items == [i \in 1..n |-> Match("REQUIRED", "skills", {asked[i]}, TRUE)]
             specs == [i \in 1..n |-> Spec1("skills", Group("skills", {asked[i]}))]
  <2>1. asked \in Seq(Values)
    BY <1>1 DEF Request
  <2>2. n \in Nat /\ DOMAIN asked = 1..n
    BY <2>1
  <2>3. SkillItems(r) = items /\ SkillSpecs(r) = specs
    BY <1>3, <2>2 DEF SkillItems, SkillSpecs, EachSpec
  <2>4. ASSUME NEW i \in 1..n PROVE Justified(b, p, items[i], specs[i])
    <3> DEFINE item == Match("REQUIRED", "skills", {asked[i]}, TRUE)
    <3>1. Has(b, p, "skills", {asked[i]})
      <4>1. FieldMet(b, p, r, "skills")
        BY <1>1, EligibleMeets
      <4>2. asked[i] \in Range(asked)
        BY <2>2 DEF Range
      <4> QED BY <1>3, <4>1, <4>2 DEF FieldMet
    <3>2. Wanted("skills", {asked[i]}) = {asked[i]}
      BY <1>1 DEF Wanted
    <3>3. About(item, "skills", {asked[i]}) /\ item.status = "MATCH"
      BY DEF Match, About
    <3> HIDE DEF item
    <3>4. Justified(b, p, item, Spec1("skills", Group("skills", {asked[i]})))
      BY <1>1, <3>1, <3>2, <3>3, SetJustified
    <3> QED BY <3>4 DEF item
  <2>5. Numbered(items, n) /\ Numbered(specs, n)
    BY DEF Numbered
  <2> HIDE DEF items, specs, n
  <2>6. Paired(b, p, items, specs)
    BY <2>2, <2>4, <2>5, PairedMaps
  <2> QED BY <2>3, <2>6
<1> QED BY <1>2, <1>3

LEMMA CareerPaired ==
  ASSUME NEW b, NEW r \in Request, NEW p \in Eligible(b, r)
  PROVE  Paired(b, p, When(r.min # None \/ r.max # None, Match("REQUIRED", "career", {}, TRUE)),
                      When(r.min # None \/ r.max # None, Spec1("career", {})))
<1> DEFINE item == Match("REQUIRED", "career", {}, TRUE)
           spec == Spec1("career", {})
           T == Targets(b, p, spec)
           condition == r.min # None \/ r.max # None
<1>1. T = CareerTargets(b.people[p], p)
  <2>1. spec.field = "career" /\ "career" \notin OnProjects
    BY DEF Spec1, OnProjects
  <2> HIDE DEF spec
  <2> QED BY <2>1, TargetsCase
<1>2. item.field = "career" /\ item.status = "MATCH"
  BY DEF Match
<1>3. condition => CareerMonths(b.people[p]) # None
  <2>1. CareerMet(b.people[p], r)
    BY DEF Eligible
  <2> QED BY <2>1 DEF CareerMet
<1>4. CareerMonths(b.people[p]) # None => CareerTargets(b.people[p], p) # {}
  BY DEF CareerMonths, CareerTargets
<1>5. \A t \in CareerTargets(b.people[p], p) : t.field \in {"career_confirmed_months", "career_calculated_months"}
  <2>1. \A g : OnRow(p, g, "").field = g
    BY DEF OnRow
  <2>2. \A t \in CareerTargets(b.people[p], p) :
           t = OnRow(p, "career_confirmed_months", "") \/ t = OnRow(p, "career_calculated_months", "")
    BY DEF CareerTargets
  <2> QED BY <2>1, <2>2
<1> HIDE DEF item, spec, T, condition
<1>6. condition => Justified(b, p, item, spec)
  <2>1. \A t \in T : Justifies(t, item, T)
    BY <1>1, <1>2, <1>5 DEF Justifies
  <2>2. condition => Agree(b, p, item, T)
    BY <1>1, <1>2, <1>3, <1>4, <2>1 DEF Agree
  <2> QED BY <1>2, <2>2 DEF Justified, T
<1>7. Paired(b, p, When(condition, item), When(condition, spec))
  BY <1>6, PairedOne
<1> QED BY <1>7 DEF condition, item, spec

LEMMA PreferredPaired ==
  ASSUME NEW b, NEW p, NEW r \in Request, CodesKnown(r), NEW f \in Range(CodeFields)
  PROVE  Paired(b, p, PreferredItems(b, p, r, f), EachSpec(f, r.preferred[f]))
<1> DEFINE asked == r.preferred[f]
           n == Len(asked)
           met(i) == Has(b, p, f, IF f = "jobs" THEN JobGroup(asked[i]) ELSE {asked[i]})
           items == [i \in 1..n |-> Match("PREFERRED", f, {asked[i]}, met(i))]
           specs == [i \in 1..n |-> Spec1(f, Group(f, {asked[i]}))]
<1>1. asked \in Seq(Values) /\ f \in Fields
  BY FieldsListed DEF Request
<1>2. n \in Nat /\ DOMAIN asked = 1..n
  BY <1>1
<1>3. PreferredItems(b, p, r, f) = items /\ EachSpec(f, r.preferred[f]) = specs
  BY <1>2, Zenon DEF PreferredItems, EachSpec
<1>4. ASSUME NEW i \in 1..n PROVE Justified(b, p, items[i], specs[i])
  <2> DEFINE c == asked[i]
             item == Match("PREFERRED", f, {c}, met(i))
  <2>1. c \in Range(asked)
    BY <1>2 DEF Range
  <2>2. f = "jobs" => {c} \subseteq DOMAIN Parent
    BY <2>1, KnownJobs
  <2>3. met(i) <=> Has(b, p, f, Wanted(f, {c}))
    <3>1. CASE f = "jobs"
      <4>1. JobGroup(c) = Below(c)
        BY <2>2, <3>1, BelowItself
      <4>2. Wanted(f, {c}) = Below(c)
        BY <3>1 DEF Wanted
      <4> QED BY <3>1, <4>1, <4>2
    <3>2. CASE f # "jobs"
      BY <3>2 DEF Wanted
    <3> QED BY <3>1, <3>2
  <2>4. About(item, f, {c}) /\ ((item.status = "MATCH") <=> met(i))
    BY DEF Match, About
  <2>5. items[i] = item /\ specs[i] = Spec1(f, Group(f, {c}))
    OBVIOUS
  <2> HIDE DEF item, met, c, items, specs
  <2>6. Justified(b, p, item, Spec1(f, Group(f, {c})))
    BY <1>1, <2>2, <2>3, <2>4, SetJustified
  <2> QED BY <2>5, <2>6
<1>5. Numbered(items, n) /\ Numbered(specs, n)
  BY DEF Numbered
<1> HIDE DEF items, specs, n
<1>6. Paired(b, p, items, specs)
  BY <1>2, <1>4, <1>5, PairedMaps
<1> QED BY <1>3, <1>6

\* The two lists that different functions build belong together.
LEMMA ListsPaired ==
  ASSUME NEW b, NEW r \in Request, CodesKnown(r), NEW p \in Eligible(b, r)
  PROVE  Paired(b, p, Scaffold(b, p, r), EvidenceSpecs(r))
<1> DEFINE Q(f) == Required(r, f)
           O(f) == OneSpec(r, f)
           cq == When(r.min # None \/ r.max # None, Match("REQUIRED", "career", {}, TRUE))
           co == When(r.min # None \/ r.max # None, Spec1("career", {}))
           pq == [n \in DOMAIN CodeFields |-> PreferredItems(b, p, r, CodeFields[n])]
           po == [n \in DOMAIN CodeFields |-> EachSpec(CodeFields[n], r.preferred[CodeFields[n]])]
<1>1. \A f \in Fields \ {"skills"} : Paired(b, p, Q(f), O(f))
  BY RequiredPaired
<1>2. Paired(b, p, SkillItems(r), SkillSpecs(r))
  BY SkillsPaired
<1>3. Paired(b, p, cq, co)
  BY CareerPaired
<1>4. Paired(b, p, FlattenSeq(pq), FlattenSeq(po))
  <2>1. DOMAIN CodeFields = 1..5 /\ \A n \in 1..5 : CodeFields[n] \in Range(CodeFields)
    BY FieldsAre
  <2>2. Numbered(pq, 5) /\ Numbered(po, 5)
    BY <2>1 DEF Numbered
  <2>3. \A n \in 1..5 : Paired(b, p, pq[n], po[n])
    BY <2>1, PreferredPaired
  <2> HIDE DEF pq, po
  <2> QED BY <2>2, <2>3, PairedFlat
<1>5. /\ Paired(b, p, Q("jobs"), O("jobs")) /\ Paired(b, p, Q("expertise"), O("expertise"))
      /\ Paired(b, p, Q("business_domains"), O("business_domains"))
      /\ Paired(b, p, Q("customer_types"), O("customer_types"))
      /\ Paired(b, p, Q("grade"), O("grade")) /\ Paired(b, p, Q("affiliations"), O("affiliations"))
      /\ Paired(b, p, Q("certifications"), O("certifications"))
      /\ Paired(b, p, Q("project_keywords"), O("project_keywords"))
  <2> HIDE DEF Q, O
  <2> QED BY <1>1, FieldsListed
<1> DEFINE q1 == Q("jobs") \o SkillItems(r)
           o1 == O("jobs") \o SkillSpecs(r)
           q2 == q1 \o Q("expertise")
           o2 == o1 \o O("expertise")
           q3 == q2 \o Q("business_domains")
           o3 == o2 \o O("business_domains")
           q4 == q3 \o Q("customer_types")
           o4 == o3 \o O("customer_types")
           q5 == q4 \o Q("grade")
           o5 == o4 \o O("grade")
           q6 == q5 \o cq
           o6 == o5 \o co
           q7 == q6 \o Q("affiliations")
           o7 == o6 \o O("affiliations")
           q8 == q7 \o Q("certifications")
           o8 == o7 \o O("certifications")
           q9 == q8 \o Q("project_keywords")
           o9 == o8 \o O("project_keywords")
<1>6. Scaffold(b, p, r) = q9 \o FlattenSeq(pq) /\ EvidenceSpecs(r) = o9 \o FlattenSeq(po)
  BY Zenon DEF Scaffold, EvidenceSpecs
<1> HIDE DEF Q, O, cq, co, pq, po
<1>7. Paired(b, p, q4, o4)
  <2>1. Paired(b, p, q1, o1)
    BY <1>2, <1>5, PairedJoin
  <2> HIDE DEF q1, o1
  <2>2. Paired(b, p, q2, o2)
    BY <1>5, <2>1, PairedJoin
  <2> HIDE DEF q2, o2
  <2>3. Paired(b, p, q3, o3)
    BY <1>5, <2>2, PairedJoin
  <2> HIDE DEF q3, o3
  <2> QED BY <1>5, <2>3, PairedJoin
<1> HIDE DEF q4, o4
<1>8. Paired(b, p, q9, o9)
  <2>1. Paired(b, p, q5, o5)
    BY <1>5, <1>7, PairedJoin
  <2> HIDE DEF q5, o5
  <2>2. Paired(b, p, q6, o6)
    BY <1>3, <2>1, PairedJoin
  <2> HIDE DEF q6, o6
  <2>3. Paired(b, p, q7, o7)
    BY <1>5, <2>2, PairedJoin
  <2> HIDE DEF q7, o7
  <2>4. Paired(b, p, q8, o8)
    BY <1>5, <2>3, PairedJoin
  <2> HIDE DEF q8, o8
  <2> QED BY <1>5, <2>4, PairedJoin
<1> HIDE DEF q9, o9
<1> QED BY <1>4, <1>6, <1>8, PairedJoin

-----------------------------------------------------------------------------
(* Explanations. *)

LEMMA ExplainIs ==
  ASSUME NEW b, NEW p, NEW r, NEW items, NEW top, NEW hits
  PROVE  /\ Explain(b, p, r, items, top, hits).matches = items
         /\ Explain(b, p, r, items, top, hits).targets =
              [n \in DOMAIN items |->
                 IF n \in DOMAIN EvidenceSpecs(r) /\ items[n].status = "MATCH"
                 THEN Targets(b, p, EvidenceSpecs(r)[n]) ELSE {}]
<1> DEFINE specs == EvidenceSpecs(r)
           tops == IF top = <<>> THEN RecentProjects(b, p) ELSE top
<1>1. Explain(b, p, r, items, top, hits) = ExplainWith(b, p, specs, items, tops, hits)
  BY DEF Explain
<1> HIDE DEF specs, tops
<1>2. /\ ExplainWith(b, p, specs, items, tops, hits).matches = items
      /\ ExplainWith(b, p, specs, items, tops, hits).targets =
           [n \in DOMAIN items |->
              IF n \in DOMAIN specs /\ items[n].status = "MATCH" THEN Targets(b, p, specs[n]) ELSE {}]
  BY DEF ExplainWith
<1> QED BY <1>1, <1>2 DEF specs

\* What is told of a person agrees with the database.
SoundAt(b, p, explained) ==
  \A m \in DOMAIN explained.matches : Agree(b, p, explained.matches[m], explained.targets[m])

LEMMA ExplainSound ==
  ASSUME NEW b, NEW r \in Request, CodesKnown(r), NEW p \in Eligible(b, r), NEW top, NEW hits
  PROVE  SoundAt(b, p, Explain(b, p, r, Scaffold(b, p, r), top, hits))
<1> DEFINE items == Scaffold(b, p, r)
           specs == EvidenceSpecs(r)
           e == Explain(b, p, r, items, top, hits)
<1>1. Told(b, p, items, specs)
  BY ListsPaired, PairedTold
<1>2. /\ e.matches = items
      /\ e.targets = [n \in DOMAIN items |->
                        IF n \in DOMAIN specs /\ items[n].status = "MATCH" THEN Targets(b, p, specs[n]) ELSE {}]
  BY ExplainIs
<1> HIDE DEF items, specs, e
<1>3. SoundAt(b, p, e)
  BY <1>1, <1>2 DEF Told, SoundAt
<1> QED BY <1>3 DEF e, items

\* Codes are checked first.
Checked == step \notin {"check", "refused"} => CodesKnown(request)

\* Without changes, only those who are eligible now ever were.
Steady == edits = 0 => everMet = Eligible(base, request)

\* Without changes, the conditions are the same when evidence is sought for them.
Matched ==
  edits = 0 /\ step = "explain" =>
    read.matches = [n \in DOMAIN read.results |-> Scaffold(base, read.results[n].person, request)]

ExplainInv == SearchInv /\ Checked /\ Steady /\ Matched /\ MatchesAreJustified

LEMMA ExplainStays ==
  ASSUME ExplainInv, Page, step \notin {"check", "refused", "done"}, step' \notin {"explain", "done"}
  PROVE  Checked' /\ Steady' /\ Matched' /\ MatchesAreJustified'
<1>1. base' = base /\ request' = request /\ edits' = edits /\ everMet' = everMet
  BY DEF Page
<1>2. Checked'
  BY <1>1 DEF ExplainInv, Checked
<1>3. Steady'
  BY <1>1 DEF ExplainInv, Steady
<1>4. Matched'
  BY DEF Matched
<1>5. MatchesAreJustified'
  BY DEF MatchesAreJustified, Answered
<1> QED BY <1>2, <1>3, <1>4, <1>5

LEMMA CheckCodesExplains ==
  ASSUME ExplainInv, CheckCodes
  PROVE  Checked' /\ Steady' /\ Matched' /\ MatchesAreJustified'
<1>1. base' = base /\ request' = request /\ edits' = edits /\ everMet' = everMet
  BY DEF CheckCodes, Page
<1>2. step' \notin {"explain", "done", "check"} /\ (step' # "refused" => CodesKnown(request))
  BY DEF CheckCodes
<1>3. Checked'
  BY <1>1, <1>2 DEF Checked
<1>4. Steady'
  BY <1>1 DEF ExplainInv, Steady
<1>5. Matched' /\ MatchesAreJustified'
  BY <1>2 DEF Matched, MatchesAreJustified, Answered
<1> QED BY <1>3, <1>4, <1>5

LEMMA ReadMatchesExplains ==
  ASSUME ExplainInv, ReadMatches
  PROVE  Checked' /\ Steady' /\ Matched' /\ MatchesAreJustified'
<1> DEFINE x == [n \in DOMAIN read.results |-> Scaffold(base, read.results[n].person, request)]
<1>1. /\ step = "match" /\ step' = "explain"
      /\ base' = base /\ request' = request /\ edits' = edits /\ everMet' = everMet
      /\ read' = [read EXCEPT !.matches = x]
  BY DEF ReadMatches, Page
<1> HIDE DEF x
<1>2. read'.matches = x /\ read'.results = read.results
  <2>1. {"matches", "results"} \subseteq DOMAIN read
    BY DEF ExplainInv, SearchInv, TypeOK, Nothing
  <2> QED BY <1>1, <2>1
<1>3. Matched'
  BY <1>1, <1>2 DEF Matched, x
<1>4. Checked' /\ Steady'
  BY <1>1 DEF ExplainInv, Checked, Steady
<1>5. MatchesAreJustified'
  BY <1>1 DEF MatchesAreJustified, Answered
<1> QED BY <1>3, <1>4, <1>5

LEMMA RespondExplains ==
  ASSUME ExplainInv, Respond
  PROVE  Checked' /\ Steady' /\ Matched' /\ MatchesAreJustified'
<1> DEFINE told(n) == LET p == read.results[n].person
                      IN  Explain(base, p, request, read.matches[n], read.top[p], read.keyword \o read.vector)
           page == [results |-> read.results,
                    explained |-> [n \in DOMAIN read.results |-> told(n)],
                    total |-> read.total,
                    cut |-> read.cut,
                    suggestions |-> IF read.total = 0 THEN Relaxations(request) ELSE <<>>]
<1>1. pages' = Append(pages, page)
  BY DEF Respond
<1>2. page.results = read.results /\ \A n \in DOMAIN read.results : page.explained[n] = told(n)
  OBVIOUS
<1> HIDE DEF page
<1>3. /\ step = "explain" /\ step' = "done"
      /\ base' = base /\ request' = request /\ edits' = edits /\ everMet' = everMet
  BY DEF Respond
<1>4. Last(pages') = page
  <2>1. pages \in Seq(Range(pages))
    BY DEF ExplainInv, SearchInv, TypeOK
  <2> QED BY <1>1, <2>1, AppendHolds
<1>5. ASSUME edits = 0, NEW n \in DOMAIN read.results
      PROVE  SoundAt(base, read.results[n].person, told(n))
  <2> DEFINE p == read.results[n].person
  <2>1. CodesKnown(request) /\ request \in Request
    BY <1>3 DEF ExplainInv, Checked, SearchInv, TypeOK
  <2>2. p \in Eligible(base, request)
    BY <1>5 DEF ExplainInv, Steady, SearchInv, Results
  <2>3. read.matches[n] = Scaffold(base, p, request)
    BY <1>3, <1>5 DEF ExplainInv, Matched
  <2>4. told(n) = Explain(base, p, request, Scaffold(base, p, request), read.top[p], read.keyword \o read.vector)
    BY <2>3
  <2> HIDE DEF told, p
  <2>5. SoundAt(base, p, Explain(base, p, request, Scaffold(base, p, request), read.top[p], read.keyword \o read.vector))
    BY <2>1, <2>2, ExplainSound
  <2> QED BY <2>4, <2>5 DEF p
<1> HIDE DEF told
<1>6. edits = 0 => \A n \in DOMAIN page.results : SoundAt(base, page.results[n].person, page.explained[n])
  BY <1>2, <1>5
<1>7. Answer' = page
  BY <1>4 DEF Answer
<1>8. MatchesAreJustified'
  <2>1. Answered' /\ edits' = 0 =>
          \A n \in DOMAIN Answer'.results : SoundAt(base', Answer'.results[n].person, Answer'.explained[n])
    BY <1>3, <1>6, <1>7
  <2> QED BY <2>1 DEF MatchesAreJustified, SoundAt
<1>9. Checked' /\ Steady' /\ Matched'
  BY <1>3 DEF ExplainInv, Checked, Steady, Matched
<1> QED BY <1>8, <1>9

LEMMA NextPageExplains ==
  ASSUME ExplainInv, NextPage
  PROVE  Checked' /\ Steady' /\ Matched' /\ MatchesAreJustified'
<1>1. /\ step' = "check" /\ base' = base /\ everMet' = Eligible(base, request)
      /\ request' = [request EXCEPT !.page = @ + 1]
  BY DEF NextPage
<1>2. Eligible(base', request') = Eligible(base, request)
  <2>1. request \in Request
    BY DEF ExplainInv, SearchInv, TypeOK
  <2>2. SameAsked(request', request)
    BY <1>1, <2>1 DEF Request, SameAsked
  <2> QED BY <1>1, <2>2, SameEligible
<1>3. Steady'
  BY <1>1, <1>2 DEF Steady
<1>4. Checked' /\ Matched' /\ MatchesAreJustified'
  BY <1>1 DEF Checked, Matched, MatchesAreJustified, Answered
<1> QED BY <1>3, <1>4

\* After a change, rows may be missing that there were when the conditions were looked at.
LEMMA EditExplains ==
  ASSUME ExplainInv, NEW new, Edit(new)
  PROVE  Checked' /\ Steady' /\ Matched' /\ MatchesAreJustified'
<1>1. /\ edits' = edits + 1 /\ request' = request /\ step' = step
  BY DEF Edit
<1>2. edits' # 0
  <2>1. edits \in Nat
    BY SearchAssumption DEF ExplainInv, SearchInv, TypeOK
  <2> QED BY <1>1, <2>1
<1>3. Checked'
  BY <1>1 DEF ExplainInv, Checked
<1> QED BY <1>2, <1>3 DEF Steady, Matched, MatchesAreJustified

-----------------------------------------------------------------------------
(* The theorems. *)

LEMMA InitHolds ==
  ASSUME Init
  PROVE  SearchInv
<1>1. /\ base \in Base /\ request \in Request
      /\ step = "check" /\ read = Nothing /\ pages = <<>> /\ edits = 0
      /\ everMet = Eligible(base, request)
  BY SearchAssumption DEF Init
<1>2. TypeOK
  <2>1. Eligible(base, request) \subseteq DOMAIN base.people
    BY <1>1, EligibleFinite
  <2>2. edits \in 0..MaxEdits
    BY <1>1, SearchAssumption
  <2>3. pages \in Seq(Range(pages))
    BY <1>1
  <2> QED BY <1>1, <2>1, <2>2, <2>3 DEF TypeOK, People
<1>3. Hits /\ Rows /\ Ratios /\ Results
  BY <1>1, NothingRead
<1>4. FiltersAreHard /\ Met /\ Fresh
  BY <1>1 DEF FiltersAreHard, Answered, Met, Fresh
<1> QED BY <1>2, <1>3, <1>4 DEF SearchInv

\* Every statement of a search and every change that others commit keep the
\* invariant (search_people in modules/search/query_service.py).
THEOREM SearchInvariant == Spec => []SearchInv
<1>1. Init => SearchInv
  BY InitHolds
<1>2. SearchInv /\ [Next]_vars => SearchInv'
  <2> SUFFICES ASSUME SearchInv, [Next]_vars PROVE SearchInv'
    OBVIOUS
  <2>1. CASE CheckCodes
    BY <2>1, CheckCodesKeeps
  <2>2. CASE ListEligible
    BY <2>2, ListEligibleKeeps
  <2>3. CASE ReadKeyword
    BY <2>3, ReadKeywordKeeps
  <2>4. CASE Embed
    BY <2>4, EmbedKeeps
  <2>5. CASE ReadVector
    BY <2>5, ReadVectorKeeps
  <2>6. CASE LoadPeople
    BY <2>6, LoadPeopleKeeps
  <2>7. CASE ReadPreferred
    BY <2>7, ReadPreferredKeeps
  <2>8. CASE RankPeople
    BY <2>8, RankPeopleKeeps
  <2>9. CASE ReadMatches
    BY <2>9, ReadMatchesKeeps
  <2>10. CASE Respond
    BY <2>10, RespondKeeps
  <2>11. CASE NextPage
    BY <2>11, NextPageKeeps
  <2>12. CASE PersonDeleted \/ ProfileEdited \/ ProjectDeleted \/ DocumentDeleted \/ Reindexed
    BY <2>12, EditsKeep
  <2>13. CASE UNCHANGED vars
    <3>1. /\ base' = base /\ request' = request /\ step' = step /\ read' = read
          /\ pages' = pages /\ edits' = edits /\ everMet' = everMet
      BY <2>13 DEF vars
    <3>2. TypeOK' /\ Met' /\ Fresh' /\ FiltersAreHard'
      BY <3>1 DEF SearchInv, TypeOK, People, Met, Fresh, FiltersAreHard, Answered, Answer
    <3>3. Hits'
      BY <3>1 DEF SearchInv, Hits, HitsMet
    <3>4. Rows' /\ Ratios' /\ Results'
      BY <3>1 DEF SearchInv, Rows, Ratios, Results
    <3> QED BY <3>2, <3>3, <3>4 DEF SearchInv
  <2> QED BY <2>1, <2>2, <2>3, <2>4, <2>5, <2>6, <2>7, <2>8, <2>9, <2>10, <2>11, <2>12, <2>13 DEF Next
<1> QED BY <1>1, <1>2, PTL DEF Spec

\* For any base, any request and any changes: nobody is on a page who did not
\* meet every required condition at some time while the page was made, although
\* only the channels filter (load_eligible_persons_by_ids does not again).
THEOREM OnlyEligibleFound == Spec => []FiltersAreHard
<1>1. SearchInv => FiltersAreHard
  BY DEF SearchInv
<1> QED BY <1>1, SearchInvariant, PTL

\* The database, the request and what has been read keep their types.
THEOREM TypeCorrect == Spec => []TypeOK
<1>1. SearchInv => TypeOK
  BY DEF SearchInv
<1> QED BY <1>1, SearchInvariant, PTL

\* The pages of a search stay parts of one listing (search_people is asked for
\* each page anew, with a number of candidates that depends on the page).
THEOREM PagesInvariant == Spec => []PagesInv
<1>1. Init => PagesInv
  <2> SUFFICES ASSUME Init PROVE PagesInv
    OBVIOUS
  <2>1. step = "check" /\ pages = <<>> /\ request.page = 1
    BY SearchAssumption DEF Init
  <2>2. SearchInv
    BY InitHolds
  <2>3. PagesCounted /\ PagesShow
    BY <2>1 DEF PagesCounted, PagesShow
  <2>4. Course /\ ReadsAll
    BY <2>1 DEF Course, ReadsAll
  <2> QED BY <2>2, <2>3, <2>4 DEF PagesInv
<1>2. PagesInv /\ SearchInv' /\ [Next]_vars => PagesInv'
  <2> SUFFICES ASSUME PagesInv, SearchInv', [Next]_vars
               PROVE  Course' /\ ReadsAll' /\ PagesCounted' /\ PagesShow'
    BY DEF PagesInv
  <2>1. CASE CheckCodes
    <3>1. Page /\ step # "done" /\ step' # "done"
      BY <2>1 DEF CheckCodes
    <3> QED BY <2>1, <3>1, PagesStay, CheckCodesReads
  <2>2. CASE ListEligible
    <3>1. Page /\ step # "done" /\ step' # "done"
      BY <2>2 DEF ListEligible
    <3> QED BY <2>2, <3>1, PagesStay, ListEligibleReads
  <2>3. CASE ReadKeyword
    <3>1. Page /\ step # "done" /\ step' # "done"
      BY <2>3 DEF ReadKeyword
    <3> QED BY <2>3, <3>1, PagesStay, ReadKeywordReads
  <2>4. CASE Embed
    <3>1. Page /\ step # "done" /\ step' # "done"
      BY <2>4 DEF Embed
    <3> QED BY <2>4, <3>1, PagesStay, EmbedReads
  <2>5. CASE ReadVector
    <3>1. Page /\ step # "done" /\ step' # "done"
      BY <2>5 DEF ReadVector
    <3> QED BY <2>5, <3>1, PagesStay, ReadVectorReads
  <2>6. CASE LoadPeople
    <3>1. Page /\ step # "done" /\ step' # "done"
      BY <2>6 DEF LoadPeople
    <3> QED BY <2>6, <3>1, PagesStay, LoadPeopleReads
  <2>7. CASE ReadPreferred
    <3>1. Page /\ step # "done" /\ step' # "done"
      BY <2>7 DEF ReadPreferred
    <3> QED BY <2>7, <3>1, PagesStay, ReadPreferredReads
  <2>8. CASE RankPeople
    <3>1. Page /\ step # "done" /\ step' # "done"
      BY <2>8 DEF RankPeople
    <3> QED BY <2>8, <3>1, PagesStay, RankPeopleReads
  <2>9. CASE ReadMatches
    <3>1. Page /\ step # "done" /\ step' # "done"
      BY <2>9 DEF ReadMatches
    <3> QED BY <2>9, <3>1, PagesStay, ReadMatchesReads
  <2>10. CASE Respond
    BY <2>10, RespondPages
  <2>11. CASE NextPage
    BY <2>11, NextPagePages
  <2>12. CASE PersonDeleted \/ ProfileEdited \/ ProjectDeleted \/ DocumentDeleted \/ Reindexed
    <3>1. PICK new : Edit(new)
      BY <2>12, EditsAre
    <3> QED BY <3>1, EditPages
  <2>13. CASE UNCHANGED vars
    <3>1. /\ base' = base /\ request' = request /\ step' = step /\ read' = read
          /\ pages' = pages /\ edits' = edits
      BY <2>13 DEF vars
    <3>2. Course' /\ ReadsAll'
      BY <3>1 DEF PagesInv, Course, ReadsAll
    <3>3. PagesCounted' /\ PagesShow'
      BY <3>1 DEF PagesInv, PagesCounted, PagesShow, Shows
    <3> QED BY <3>2, <3>3
  <2> QED BY <2>1, <2>2, <2>3, <2>4, <2>5, <2>6, <2>7, <2>8, <2>9, <2>10, <2>11, <2>12, <2>13 DEF Next
<1> QED BY <1>1, <1>2, SearchInvariant, PTL DEF Spec

\* For any base, any request and any limit of candidates: without changes, and
\* unless a page says that its candidates were cut, the pages show everybody who
\* can be found, each once, and agree on the number, although each page ranks
\* candidates anew and their number depends on the page (channel_candidate_limit).
THEOREM PagesShowEverybodyOnce == Spec => []PagesTileTheResult
<1>1. PagesInv => PagesTileTheResult
  BY PagesDoTile
<1> QED BY <1>1, PagesInvariant, PTL

\* What is said about a person without changes stays true until it is shown: the
\* codes were known, who is listed is eligible, the conditions are those that
\* evidence is sought for (_build_matches, build_match_evidence_specs).
THEOREM ExplainInvariant == Spec => []ExplainInv
<1>1. Init => ExplainInv
  <2> SUFFICES ASSUME Init PROVE ExplainInv
    OBVIOUS
  <2>1. step = "check" /\ everMet = Eligible(base, request)
    BY DEF Init
  <2>2. SearchInv
    BY InitHolds
  <2>3. Checked /\ Steady /\ Matched /\ MatchesAreJustified
    BY <2>1 DEF Checked, Steady, Matched, MatchesAreJustified, Answered
  <2> QED BY <2>2, <2>3 DEF ExplainInv
<1>2. ExplainInv /\ SearchInv' /\ [Next]_vars => ExplainInv'
  <2> SUFFICES ASSUME ExplainInv, SearchInv', [Next]_vars
               PROVE  Checked' /\ Steady' /\ Matched' /\ MatchesAreJustified'
    BY DEF ExplainInv
  <2>1. CASE CheckCodes
    BY <2>1, CheckCodesExplains
  <2>2. CASE ListEligible
    <3>1. Page /\ step \notin {"check", "refused", "done"} /\ step' \notin {"explain", "done"}
      BY <2>2 DEF ListEligible
    <3> QED BY <3>1, ExplainStays
  <2>3. CASE ReadKeyword
    <3>1. Page /\ step \notin {"check", "refused", "done"} /\ step' \notin {"explain", "done"}
      BY <2>3 DEF ReadKeyword
    <3> QED BY <3>1, ExplainStays
  <2>4. CASE Embed
    <3>1. Page /\ step \notin {"check", "refused", "done"} /\ step' \notin {"explain", "done"}
      BY <2>4 DEF Embed
    <3> QED BY <3>1, ExplainStays
  <2>5. CASE ReadVector
    <3>1. Page /\ step \notin {"check", "refused", "done"} /\ step' \notin {"explain", "done"}
      BY <2>5 DEF ReadVector
    <3> QED BY <3>1, ExplainStays
  <2>6. CASE LoadPeople
    <3>1. Page /\ step \notin {"check", "refused", "done"} /\ step' \notin {"explain", "done"}
      BY <2>6 DEF LoadPeople
    <3> QED BY <3>1, ExplainStays
  <2>7. CASE ReadPreferred
    <3>1. Page /\ step \notin {"check", "refused", "done"} /\ step' \notin {"explain", "done"}
      BY <2>7 DEF ReadPreferred
    <3> QED BY <3>1, ExplainStays
  <2>8. CASE RankPeople
    <3>1. Page /\ step \notin {"check", "refused", "done"} /\ step' \notin {"explain", "done"}
      BY <2>8 DEF RankPeople
    <3> QED BY <3>1, ExplainStays
  <2>9. CASE ReadMatches
    BY <2>9, ReadMatchesExplains
  <2>10. CASE Respond
    BY <2>10, RespondExplains
  <2>11. CASE NextPage
    BY <2>11, NextPageExplains
  <2>12. CASE PersonDeleted \/ ProfileEdited \/ ProjectDeleted \/ DocumentDeleted \/ Reindexed
    <3>1. PICK new : Edit(new)
      BY <2>12, EditsAre
    <3> QED BY <3>1, EditExplains
  <2>13. CASE UNCHANGED vars
    <3>1. /\ base' = base /\ request' = request /\ step' = step /\ read' = read
          /\ pages' = pages /\ edits' = edits /\ everMet' = everMet
      BY <2>13 DEF vars
    <3>2. Checked' /\ Steady' /\ Matched'
      BY <3>1 DEF ExplainInv, Checked, Steady, Matched
    <3>3. MatchesAreJustified'
      <4>1. Answer' = Answer /\ Answered' = Answered
        BY <3>1 DEF Answer, Answered
      <4>2. Answered /\ edits = 0 =>
              \A n \in DOMAIN Answer.results : SoundAt(base, Answer.results[n].person, Answer.explained[n])
        BY DEF ExplainInv, MatchesAreJustified, SoundAt
      <4>3. Answered' /\ edits' = 0 =>
              \A n \in DOMAIN Answer'.results : SoundAt(base', Answer'.results[n].person, Answer'.explained[n])
        BY <3>1, <4>1, <4>2
      <4> QED BY <4>3 DEF MatchesAreJustified, SoundAt
    <3> QED BY <3>2, <3>3
  <2> QED BY <2>1, <2>2, <2>3, <2>4, <2>5, <2>6, <2>7, <2>8, <2>9, <2>10, <2>11, <2>12, <2>13 DEF Next
<1> QED BY <1>1, <1>2, SearchInvariant, PTL DEF Spec

\* For any base, any request and any two ways of comparing texts: without
\* changes, a condition is said to be met exactly if the database finds a row of
\* the person that meets it; every such row, but for a certificate or a keyword
\* that only the database finds, is among those that evidence is sought for, and
\* none is that is about another condition. One function lists the conditions,
\* another what evidence is sought for, and they belong together by position only
\* (_build_matches, build_match_evidence_specs, _resolve_spec_targets).
THEOREM MatchesHaveRows == Spec => []MatchesAreJustified
<1>1. ExplainInv => MatchesAreJustified
  BY DEF ExplainInv
<1> QED BY <1>1, ExplainInvariant, PTL

-----------------------------------------------------------------------------
(* One more related project: sums, quotients and means with bounds. *)

LEMMA QuotientIs ==
  ASSUME NEW a \in Int, NEW d \in Int, d > 0
  PROVE  a \div d \in Int /\ (a \div d) * d <= a /\ a < (a \div d) * d + d
OBVIOUS

LEMMA ProductGrows ==
  ASSUME NEW p \in Int, NEW q \in Int, NEW d \in Int, d >= 0, p <= q
  PROVE  p * d \in Int /\ q * d \in Int /\ p * d <= q * d
OBVIOUS

\* What is at most a quotient, and what a quotient is at most.
LEMMA QuotientAtLeast ==
  ASSUME NEW a \in Int, NEW d \in Int, d > 0, NEW q \in Int, q * d <= a
  PROVE  q <= a \div d
<1> DEFINE z == a \div d
<1>1. z \in Int /\ a < z * d + d /\ z * d \in Int
  BY QuotientIs
<1> HIDE DEF z
<1>2. CASE q <= z
  BY <1>2 DEF z
<1>3. CASE z + 1 <= q
  <2>1. (z + 1) * d \in Int /\ (z + 1) * d <= q * d
    BY <1>1, <1>3, ProductGrows
  <2>2. (z + 1) * d = z * d + d
    BY <1>1
  <2>3. q * d \in Int
    OBVIOUS
  <2> QED BY <1>1, <2>1, <2>2, <2>3
<1> QED BY <1>1, <1>2, <1>3

LEMMA QuotientAtMost ==
  ASSUME NEW a \in Int, NEW d \in Int, d > 0, NEW q \in Int, a <= q * d
  PROVE  a \div d <= q
<1> DEFINE z == a \div d
<1>1. z \in Int /\ z * d <= a /\ z * d \in Int
  BY QuotientIs
<1> HIDE DEF z
<1>2. CASE z <= q
  BY <1>2 DEF z
<1>3. CASE q + 1 <= z
  <2>1. (q + 1) * d \in Int /\ (q + 1) * d <= z * d
    BY <1>1, <1>3, ProductGrows
  <2>2. (q + 1) * d = q * d + d
    OBVIOUS
  <2>3. q * d \in Int
    OBVIOUS
  <2> QED BY <1>1, <2>1, <2>2, <2>3
<1> QED BY <1>1, <1>2, <1>3

LEMMA QuotientGrows ==
  ASSUME NEW a \in Int, NEW c \in Int, NEW d \in Int, d > 0, a <= c
  PROVE  a \div d <= c \div d
<1> DEFINE z == a \div d
<1>1. z \in Int /\ z * d <= a /\ z * d \in Int
  BY QuotientIs
<1> HIDE DEF z
<1>2. z * d <= c
  BY <1>1
<1>3. z <= c \div d
  BY <1>1, <1>2, QuotientAtLeast
<1> QED BY <1>3 DEF z

\* One value more is added to the total.
LEMMA TotalAdds ==
  ASSUME NEW s \in Seq(Int), NEW x \in Int
  PROVE  Total(s \o <<x>>) = Total(s) + x
<1> DEFINE n == Len(s)
           t == s \o <<x>>
<1>1. n \in Nat /\ t \in Seq(Int) /\ Len(t) = n + 1 /\ t[n + 1] = x /\ \A i \in 1..n : t[i] = s[i]
  OBVIOUS
<1> HIDE DEF t
<1>2. PICK f : Total(s) = f[n] /\ \A i \in 0..n : f[i] = IF i = 0 THEN 0 ELSE f[i - 1] + s[i]
  BY TotalIs
<1>3. PICK g : Total(t) = g[n + 1] /\ \A i \in 0..(n + 1) : g[i] = IF i = 0 THEN 0 ELSE g[i - 1] + t[i]
  <2>1. \E g : /\ Total(t) = g[Len(t)]
               /\ \A i \in 0..Len(t) : g[i] = IF i = 0 THEN 0 ELSE g[i - 1] + t[i]
    BY <1>1, TotalIs
  <2> QED BY <1>1, <2>1
<1> DEFINE S == {i \in 0..n : g[i] = f[i]}
<1>4. 0..n \subseteq S
  <2>1. 0 \in S
    BY <1>1, <1>2, <1>3
  <2>2. ASSUME NEW i \in 1..n, i - 1 \in S PROVE i \in S
    <3>1. i \in 0..n /\ i \in 0..(n + 1) /\ i # 0 /\ g[i - 1] = f[i - 1]
      BY <1>1, <2>2
    <3>2. f[i] = f[i - 1] + s[i] /\ g[i] = g[i - 1] + t[i]
      BY <1>2, <1>3, <3>1
    <3> QED BY <1>1, <3>1, <3>2
  <2> HIDE DEF S
  <2> QED BY <1>1, <2>1, <2>2, UpTo
<1>5. g[n] = f[n]
  BY <1>1, <1>4
<1>6. g[n + 1] = g[n] + x
  <2>1. n + 1 \in 0..(n + 1) /\ n + 1 # 0 /\ n + 1 - 1 = n
    BY <1>1
  <2> QED BY <1>1, <1>3, <2>1
<1> QED BY <1>2, <1>3, <1>5, <1>6 DEF t

LEMMA TotalOfNone == Total(<<>>) = 0
<1>1. <<>> \in Seq(Int) /\ Len(<<>>) = 0 /\ 0 \in 0..0
  OBVIOUS
<1>2. \E f : Total(<<>>) = f[Len(<<>>)] /\ \A i \in 0..Len(<<>>) : f[i] = IF i = 0 THEN 0 ELSE f[i - 1] + <<>>[i]
  BY <1>1, TotalIs
<1>3. \E f : Total(<<>>) = f[0] /\ \A i \in 0..0 : f[i] = IF i = 0 THEN 0 ELSE f[i - 1] + <<>>[i]
  BY <1>1, <1>2
<1> QED BY <1>1, <1>3

\* Nowhere smaller, not smaller in total.
LEMMA TotalGrows ==
  ASSUME NEW s \in Seq(Int), NEW t \in Seq(Int), Len(s) = Len(t), \A i \in 1..Len(s) : s[i] <= t[i]
  PROVE  Total(s) <= Total(t)
<1> DEFINE n == Len(s)
<1>1. n \in Nat /\ \A i \in 1..n : s[i] \in Int /\ t[i] \in Int /\ s[i] <= t[i]
  OBVIOUS
<1>2. PICK f : Total(s) = f[n] /\ \A i \in 0..n : f[i] = IF i = 0 THEN 0 ELSE f[i - 1] + s[i]
  BY TotalIs
<1>3. PICK g : Total(t) = g[n] /\ \A i \in 0..n : g[i] = IF i = 0 THEN 0 ELSE g[i - 1] + t[i]
  <2>1. \E g : /\ Total(t) = g[Len(t)]
               /\ \A i \in 0..Len(t) : g[i] = IF i = 0 THEN 0 ELSE g[i - 1] + t[i]
    BY TotalIs
  <2> QED BY <2>1
<1> DEFINE S == {i \in 0..n : f[i] \in Int /\ g[i] \in Int /\ f[i] <= g[i]}
<1>4. 0..n \subseteq S
  <2>1. 0 \in S
    BY <1>1, <1>2, <1>3
  <2>2. ASSUME NEW i \in 1..n, i - 1 \in S PROVE i \in S
    <3>1. i \in 0..n /\ i # 0 /\ f[i - 1] \in Int /\ g[i - 1] \in Int /\ f[i - 1] <= g[i - 1]
      BY <1>1, <2>2
    <3>2. f[i] = f[i - 1] + s[i] /\ g[i] = g[i - 1] + t[i]
      BY <1>2, <1>3, <3>1
    <3>3. s[i] \in Int /\ t[i] \in Int /\ s[i] <= t[i]
      BY <1>1
    <3>4. f[i] \in Int /\ g[i] \in Int /\ f[i] <= g[i]
      BY <3>1, <3>2, <3>3
    <3> QED BY <3>1, <3>4
  <2> HIDE DEF S
  <2> QED BY <1>1, <2>1, <2>2, UpTo
<1>5. n \in S
  BY <1>1, <1>4
<1> QED BY <1>2, <1>3, <1>5

LEMMA TotalNat ==
  ASSUME NEW s \in Seq(Nat)
  PROVE  Total(s) \in Nat
<1>1. s \in Seq(Int)
  OBVIOUS
<1> DEFINE n == Len(s)
<1>2. n \in Nat /\ \A i \in 1..n : s[i] \in Nat
  OBVIOUS
<1>3. PICK f : Total(s) = f[n] /\ \A i \in 0..n : f[i] = IF i = 0 THEN 0 ELSE f[i - 1] + s[i]
  BY <1>1, TotalIs
<1> DEFINE S == {i \in 0..n : f[i] \in Nat}
<1>4. 0..n \subseteq S
  <2>1. 0 \in S
    BY <1>2, <1>3
  <2>2. ASSUME NEW i \in 1..n, i - 1 \in S PROVE i \in S
    <3>1. i \in 0..n /\ i # 0 /\ f[i - 1] \in Nat
      BY <1>2, <2>2
    <3>2. f[i] = f[i - 1] + s[i]
      BY <1>3, <3>1
    <3> QED BY <1>2, <3>1, <3>2
  <2> HIDE DEF S
  <2> QED BY <1>2, <2>1, <2>2, UpTo
<1>5. n \in S
  BY <1>2, <1>4
<1> QED BY <1>3, <1>5

\* The values of parts by weight, and their weights.
Products(parts) == [n \in DOMAIN parts |-> parts[n][1] * parts[n][2]]
Weights(parts) == [n \in DOMAIN parts |-> parts[n][1]]

LEMMA PartsAre ==
  ASSUME NEW parts \in Seq(Part)
  PROVE  /\ Products(parts) \in Seq(Int) /\ Weights(parts) \in Seq(Int)
         /\ Len(Products(parts)) = Len(parts) /\ Len(Weights(parts)) = Len(parts)
         /\ \A i \in 1..Len(parts) : /\ Products(parts)[i] = parts[i][1] * parts[i][2]
                                     /\ Weights(parts)[i] = parts[i][1]
<1> DEFINE n == Len(parts)
           products == Products(parts)
           weights == Weights(parts)
<1>1. n \in Nat /\ DOMAIN parts = 1..n
  OBVIOUS
<1>2. ASSUME NEW i \in 1..n
      PROVE  parts[i][1] \in Int /\ parts[i][1] * parts[i][2] \in Int
  <2>1. parts[i] \in Part
    OBVIOUS
  <2>2. parts[i][1] \in Nat \ {0} /\ parts[i][2] \in Int
    BY <2>1 DEF Part
  <2> QED BY <2>2
<1>3. /\ products = [i \in 1..n |-> products[i]] /\ weights = [i \in 1..n |-> weights[i]]
      /\ \A i \in 1..n : products[i] = parts[i][1] * parts[i][2] /\ weights[i] = parts[i][1]
  BY <1>1 DEF Products, Weights
<1>4. \A i \in 1..n : products[i] \in Int /\ weights[i] \in Int
  BY <1>2, <1>3
<1> HIDE DEF products, weights, n
<1>5. products \in Seq(Int) /\ Len(products) = n
  BY <1>1, <1>3, <1>4, NumberedSeq DEF Numbered
<1>6. weights \in Seq(Int) /\ Len(weights) = n
  BY <1>1, <1>3, <1>4, NumberedSeq DEF Numbered
<1> QED BY <1>3, <1>5, <1>6 DEF products, weights, n

\* The sum of the weights, and that of the values by weight.
Weighs(parts) == Total(Weights(parts))
Weighted(parts) == Total(Products(parts))

LEMMA PartAdds ==
  ASSUME NEW s \in Seq(Part), NEW w \in Nat \ {0}, NEW v \in Int
  PROVE  /\ s \o <<<<w, v>>>> \in Seq(Part)
         /\ Weighs(s \o <<<<w, v>>>>) = Weighs(s) + w
         /\ Weighted(s \o <<<<w, v>>>>) = Weighted(s) + w * v
<1> DEFINE p == <<w, v>>
           t == s \o <<p>>
           n == Len(s)
<1>1. p \in Part /\ p[1] = w /\ p[2] = v
  BY DEF Part
<1>2. w * v \in Int /\ w \in Int
  OBVIOUS
<1> HIDE DEF p
<1>3. n \in Nat /\ t \in Seq(Part) /\ Len(t) = n + 1 /\ t[n + 1] = p /\ \A i \in 1..n : t[i] = s[i]
  BY <1>1
<1>4. /\ Products(s) \in Seq(Int) /\ Weights(s) \in Seq(Int)
      /\ Len(Products(s)) = n /\ Len(Weights(s)) = n
      /\ \A i \in 1..n : Products(s)[i] = s[i][1] * s[i][2] /\ Weights(s)[i] = s[i][1]
  BY PartsAre
<1> HIDE DEF t
<1>5. /\ Products(t) \in Seq(Int) /\ Weights(t) \in Seq(Int)
      /\ Len(Products(t)) = n + 1 /\ Len(Weights(t)) = n + 1
      /\ \A i \in 1..(n + 1) : Products(t)[i] = t[i][1] * t[i][2] /\ Weights(t)[i] = t[i][1]
  BY <1>3, PartsAre
<1>6. ASSUME NEW a \in Seq(Int), NEW b \in Seq(Int), NEW x \in Int, Len(a) = n, Len(b) = n + 1, b[n + 1] = x,
             \A i \in 1..n : b[i] = a[i]
      PROVE  b = a \o <<x>>
  <2> DEFINE c == a \o <<x>>
  <2>1. c \in Seq(Int) /\ Len(c) = n + 1 /\ c[n + 1] = x /\ \A i \in 1..n : c[i] = a[i]
    BY <1>3, <1>6
  <2> HIDE DEF c
  <2>2. ASSUME NEW i \in 1..(n + 1) PROVE b[i] = c[i]
    <3>1. CASE i = n + 1
      BY <1>6, <2>1, <3>1
    <3>2. CASE i \in 1..n
      BY <1>6, <2>1, <3>2
    <3> QED BY <1>3, <3>1, <3>2
  <2>3. b = [i \in 1..(n + 1) |-> b[i]] /\ c = [i \in 1..(n + 1) |-> c[i]]
    BY <1>6, <2>1
  <2>4. b = c
    BY <2>2, <2>3
  <2> QED BY <2>4 DEF c
<1>7. n + 1 \in 1..(n + 1) /\ \A i \in 1..n : i \in 1..(n + 1)
  BY <1>3
<1>8. Weights(t) = Weights(s) \o <<w>>
  <2>1. Weights(t)[n + 1] = w
    <3>1. t[n + 1][1] = w
      BY <1>1, <1>3
    <3> QED BY <1>5, <1>7, <3>1
  <2>2. ASSUME NEW i \in 1..n PROVE Weights(t)[i] = Weights(s)[i]
    <3>1. t[i] = s[i] /\ Weights(t)[i] = t[i][1] /\ Weights(s)[i] = s[i][1]
      BY <1>3, <1>4, <1>5, <1>7
    <3> QED BY <3>1
  <2> QED BY <1>2, <1>4, <1>5, <1>6, <2>1, <2>2
<1>9. Products(t) = Products(s) \o <<w * v>>
  <2>1. Products(t)[n + 1] = w * v
    <3>1. t[n + 1][1] = w /\ t[n + 1][2] = v
      BY <1>1, <1>3
    <3>2. Products(t)[n + 1] = t[n + 1][1] * t[n + 1][2]
      BY <1>5, <1>7
    <3> QED BY <3>1, <3>2
  <2>2. ASSUME NEW i \in 1..n PROVE Products(t)[i] = Products(s)[i]
    <3>1. t[i] = s[i] /\ Products(t)[i] = t[i][1] * t[i][2] /\ Products(s)[i] = s[i][1] * s[i][2]
      BY <1>3, <1>4, <1>5, <1>7
    <3> QED BY <3>1
  <2> QED BY <1>2, <1>4, <1>5, <1>6, <2>1, <2>2
<1>10. Weighs(t) = Weighs(s) + w
  BY <1>2, <1>4, <1>8, TotalAdds DEF Weighs
<1>11. Weighted(t) = Weighted(s) + w * v
  BY <1>2, <1>4, <1>9, TotalAdds DEF Weighted
<1> QED BY <1>3, <1>10, <1>11 DEF t, p

LEMMA NoParts == <<>> \in Seq(Part) /\ Weighs(<<>>) = 0 /\ Weighted(<<>>) = 0
<1>1. Weights(<<>>) = <<>> /\ Products(<<>>) = <<>>
  BY DEF Weights, Products
<1> QED BY <1>1, TotalOfNone DEF Weighs, Weighted

LEMMA MeanOfParts ==
  ASSUME NEW parts \in Seq(Part), parts # <<>>
  PROVE  WeightedMean(parts) = Weighted(parts) \div Weighs(parts) /\ Weighted(parts) \in Int /\ Weighs(parts) \in Int
<1>1. WeightedMean(parts) = Weighted(parts) \div Weighs(parts)
  BY DEF WeightedMean, Weighted, Weighs, Products, Weights
<1>2. Weighted(parts) \in Int /\ Weighs(parts) \in Int
  BY PartsAre, TotalInt DEF Weighted, Weighs
<1> QED BY <1>1, <1>2

\* Parts whose weights do not exceed w and whose values are fractions of One.
Fractions(parts, w) ==
  /\ parts \in Seq(Part)
  /\ Weighs(parts) \in 0..w /\ Weighted(parts) \in Nat /\ Weighted(parts) <= Weighs(parts) * One

LEMMA FractionAdds ==
  ASSUME NEW s, NEW w \in Nat, Fractions(s, w), NEW c, NEW u \in Nat \ {0}, NEW v, c => v \in 0..One
  PROVE  Fractions(s \o When(c, <<u, v>>), w + u)
<1>1. One \in Nat
  BY Units
<1> HIDE DEF One
<1>2. s \in Seq(Part) /\ Weighs(s) \in 0..w /\ Weighted(s) \in Nat /\ Weighted(s) <= Weighs(s) * One
  BY DEF Fractions
<1>3. CASE c
  <2> DEFINE t == s \o <<<<u, v>>>>
  <2>1. v \in Int /\ v \in 0..One /\ When(c, <<u, v>>) = <<<<u, v>>>>
    BY <1>1, <1>3 DEF When
  <2>2. t \in Seq(Part) /\ Weighs(t) = Weighs(s) + u /\ Weighted(t) = Weighted(s) + u * v
    BY <1>2, <2>1, PartAdds
  <2>3. u * v \in Nat /\ u * v <= u * One
    BY <1>1, <2>1
  <2>4. (Weighs(s) + u) * One = Weighs(s) * One + u * One /\ Weighs(s) * One \in Int /\ u * One \in Int
    BY <1>1, <1>2
  <2> HIDE DEF t
  <2>5. Weighs(t) \in 0..(w + u)
    BY <1>2, <2>2
  <2>6. Weighted(t) \in Nat
    BY <1>2, <2>2, <2>3
  <2>7. Weighted(t) <= Weighs(t) * One
    BY <1>2, <2>2, <2>3, <2>4
  <2>8. Fractions(t, w + u)
    BY <2>2, <2>5, <2>6, <2>7 DEF Fractions
  <2> QED BY <2>1, <2>8 DEF t
<1>4. CASE ~c
  <2>1. s \o When(c, <<u, v>>) = s
    BY <1>2, <1>4 DEF When
  <2>2. Weighs(s) \in 0..(w + u)
    BY <1>2
  <2> QED BY <1>2, <2>1, <2>2 DEF Fractions
<1> QED BY <1>3, <1>4

LEMMA TotalOfThree ==
  ASSUME NEW s \in Seq(Int), Len(s) = 3
  PROVE  Total(s) = s[1] + s[2] + s[3]
<1>1. PICK f : Total(s) = f[3] /\ \A i \in 0..3 : f[i] = IF i = 0 THEN 0 ELSE f[i - 1] + s[i]
  <2>1. \E f : Total(s) = f[Len(s)] /\ \A i \in 0..Len(s) : f[i] = IF i = 0 THEN 0 ELSE f[i - 1] + s[i]
    BY TotalIs
  <2> QED BY <2>1
<1>2. f[0] = 0 /\ f[1] = f[0] + s[1] /\ f[2] = f[1] + s[2] /\ f[3] = f[2] + s[3]
  BY <1>1
<1>3. s[1] \in Int /\ s[2] \in Int /\ s[3] \in Int
  <2>1. \A i \in 1..3 : s[i] \in Int
    OBVIOUS
  <2> QED BY <2>1
<1> QED BY <1>1, <1>2, <1>3

\* How far projects are relevant: more and longer work counts more, and one
\* project of three counts for a third.
LEMMA ProjectRelevanceIs ==
  ASSUME NEW best \in Int, NEW count \in Nat, NEW months \in Nat
  PROVE  ProjectRelevance(best, count, months)
           = (70 * best + 20 * ((Atmost(count, 3) * One) \div 3) + 10 * ((Atmost(months, 36) * One) \div 36)) \div 100
<1> DEFINE c == (Atmost(count, 3) * One) \div 3
           m == (Atmost(months, 36) * One) \div 36
<1>1. c \in Int /\ m \in Int
  <2>1. One \in Int
    BY Units
  <2>2. Atmost(count, 3) \in Int /\ Atmost(months, 36) \in Int
    BY DEF Atmost
  <2>3. Atmost(count, 3) * One \in Int /\ Atmost(months, 36) * One \in Int
    BY <2>1, <2>2
  <2> QED BY <2>3, Quotient
<1>2. ProjectRelevance(best, count, months) = WeightedMean(<<<<70, best>>, <<20, c>>, <<10, m>>>>)
  BY DEF ProjectRelevance
<1> HIDE DEF c, m
<1> DEFINE u == <<<<70, best>>, <<20, c>>, <<10, m>>>>
<1>3. /\ u \in Seq(Part) /\ u # <<>> /\ Len(u) = 3
      /\ u[1][1] = 70 /\ u[1][2] = best /\ u[2][1] = 20 /\ u[2][2] = c /\ u[3][1] = 10 /\ u[3][2] = m
  <2>1. <<70, best>> \in Part /\ <<20, c>> \in Part /\ <<10, m>> \in Part
    BY <1>1 DEF Part
  <2> QED BY <2>1
<1> HIDE DEF u
<1>4. /\ Products(u) \in Seq(Int) /\ Weights(u) \in Seq(Int) /\ Len(Products(u)) = 3 /\ Len(Weights(u)) = 3
      /\ \A i \in 1..3 : Products(u)[i] = u[i][1] * u[i][2] /\ Weights(u)[i] = u[i][1]
  BY <1>3, PartsAre
<1>5. Weighs(u) = 100
  <2>1. Weights(u)[1] = 70 /\ Weights(u)[2] = 20 /\ Weights(u)[3] = 10
    BY <1>3, <1>4
  <2> QED BY <1>4, <2>1, TotalOfThree DEF Weighs
<1>6. Weighted(u) = 70 * best + 20 * c + 10 * m
  <2>1. Products(u)[1] = 70 * best /\ Products(u)[2] = 20 * c /\ Products(u)[3] = 10 * m
    BY <1>3, <1>4
  <2> QED BY <1>1, <1>4, <2>1, TotalOfThree DEF Weighted
<1>7. ProjectRelevance(best, count, months) = Weighted(u) \div Weighs(u)
  BY <1>2, <1>3, MeanOfParts DEF u
<1> QED BY <1>5, <1>6, <1>7 DEF c, m

\* One relevance is not below another, and if k < 3 it is well above.
Above(more, less, k) ==
  less \in Int /\ more \in Int /\ less <= more /\ (k < 3 => more >= less + 66665)

LEMMA RelevanceGrows ==
  ASSUME NEW a \in Int, NEW b \in Int, a <= b,
         NEW k \in Nat, NEW l \in Nat, l = k + 1, NEW m \in Nat, NEW n \in Nat, m <= n
  PROVE  Above(ProjectRelevance(b, l, n), ProjectRelevance(a, k, m), k)
<1> DEFINE less == ProjectRelevance(a, k, m)
           more == ProjectRelevance(b, l, n)
           x == (Atmost(k, 3) * One) \div 3
           y == (Atmost(l, 3) * One) \div 3
           u == (Atmost(m, 36) * One) \div 36
           v == (Atmost(n, 36) * One) \div 36
<1>1. less = (70 * a + 20 * x + 10 * u) \div 100
  BY ProjectRelevanceIs
<1>2. more = (70 * b + 20 * y + 10 * v) \div 100
  BY ProjectRelevanceIs
<1>3. x \in Int /\ y \in Int /\ x <= y /\ (k < 3 => y >= x + 333333)
  BY DEF Atmost, One
<1>4. u \in Int /\ v \in Int /\ u <= v
  BY DEF Atmost, One
<1> HIDE DEF less, more, x, y, u, v
<1>5. less \in Int /\ more \in Int /\ less <= more /\ (k < 3 => more >= less + 66665)
  BY <1>1, <1>2, <1>3, <1>4
<1> QED BY <1>5 DEF less, more, Above

LEMMA RelevanceOfOne ==
  ASSUME NEW b \in Int, b > 0, NEW n \in Nat
  PROVE  ProjectRelevance(b, 1, n) \in Int /\ ProjectRelevance(b, 1, n) >= 66666
<1> DEFINE more == ProjectRelevance(b, 1, n)
           y == (Atmost(1, 3) * One) \div 3
           v == (Atmost(n, 36) * One) \div 36
<1>1. more = (70 * b + 20 * y + 10 * v) \div 100
  BY ProjectRelevanceIs
<1>2. y = 333333
  BY DEF Atmost, One
<1>3. v \in Nat
  BY DEF Atmost, One
<1> HIDE DEF more, y, v
<1>4. more \in Int /\ more >= 66666
  BY <1>1, <1>2, <1>3
<1> QED BY <1>4 DEF more

\* Later work is worth more; work without dates as much as that of six years ago or more.
LEMMA RecencyIs ==
  /\ Recency(None) = 600000
  /\ \A a \in Int : Recency(a) \in {1000000, 850000, 700000, 550000}
  /\ \A a, b \in Int : a <= b => Recency(a) <= Recency(b)
<1>1. Percent = 10000 /\ One = 1000000
  BY DEF Percent, One
<1>2. Recency(None) = 600000
  BY <1>1 DEF Recency
<1>3. Today \in Int
  BY RankingAssumption
<1>4. ASSUME NEW a \in Int
      PROVE  Recency(a) = IF Today - a <= 24 THEN 1000000 ELSE IF Today - a <= 60 THEN 850000
                          ELSE IF Today - a <= 120 THEN 700000 ELSE 550000
  <2>1. a # None
    BY SearchAssumption
  <2> DEFINE age == Today - a
  <2>2. age \in Int
    BY <1>3
  <2>3. Recency(a) = CASE age =< 24 -> One
                       [] age > 24 /\ age =< 60 -> 85 * Percent
                       [] age > 60 /\ age =< 120 -> 70 * Percent
                       [] OTHER -> 55 * Percent
    BY <2>1 DEF Recency
  <2> HIDE DEF age
  <2>4. CASE age =< 24
    BY <1>1, <2>2, <2>3, <2>4 DEF age
  <2>5. CASE age > 24 /\ age =< 60
    BY <1>1, <2>2, <2>3, <2>5 DEF age
  <2>6. CASE age > 60 /\ age =< 120
    BY <1>1, <2>2, <2>3, <2>6 DEF age
  <2>7. CASE age > 120
    BY <1>1, <2>2, <2>3, <2>7 DEF age
  <2> QED BY <2>2, <2>4, <2>5, <2>6, <2>7
<1>5. ASSUME NEW a \in Int, NEW b \in Int, a <= b PROVE Recency(a) <= Recency(b)
  <2>1. Today - b <= Today - a /\ Today - a \in Int /\ Today - b \in Int
    BY <1>3, <1>5
  <2> QED BY <1>4, <2>1
<1>6. \A a \in Int : Recency(a) \in {1000000, 850000, 700000, 550000}
  BY <1>4
<1> QED BY <1>2, <1>5, <1>6

\* The latest of more is not earlier.
LEMMA MaxIs ==
  ASSUME NEW S \in SUBSET Int, IsFiniteSet(S), S # {}
  PROVE  Max(S) \in S /\ \A y \in S : y <= Max(S)
<1> DEFINE key == [x \in S |-> <<-x>>]
<1>1. Keyed(S, key, 1)
  BY DEF Keyed, IsKey
<1>2. PICK x \in S : \A y \in S \ {x} : Precedes(key[x], key[y])
  BY <1>1, SmallestExists
<1>3. ASSUME NEW y \in S PROVE x >= y
  <2>1. CASE y = x
    BY <2>1
  <2>2. CASE y # x
    <3>1. Precedes(<<-x>>, <<-y>>)
      BY <1>2, <2>2
    <3>2. -x < -y
      BY <3>1 DEF Precedes
    <3> QED BY <3>2
  <2> QED BY <2>1, <2>2
<1>4. \A y \in S : x >= y
  BY <1>3
<1>5. Max(S) = CHOOSE z \in S : \A y \in S : z >= y
  BY DEF Max
<1>6. Max(S) \in S /\ \A y \in S : Max(S) >= y
  BY <1>4, <1>5
<1>7. \A y \in S : y \in Int /\ Max(S) \in Int
  BY <1>6
<1> QED BY <1>6, <1>7

LEMMA MaxGrows ==
  ASSUME NEW S \in SUBSET Int, NEW T \in SUBSET Int, IsFiniteSet(T), S # {}, S \subseteq T
  PROVE  Max(S) \in Int /\ Max(T) \in Int /\ Max(S) <= Max(T)
<1>1. IsFiniteSet(S) /\ T # {}
  BY FS_Subset
<1>2. Max(S) \in S /\ Max(T) \in T /\ \A y \in T : y <= Max(T)
  BY <1>1, MaxIs
<1> QED BY <1>2

LEMMA DurationNat ==
  ASSUME NEW project \in Project
  PROVE  Duration(project) \in Nat
<1>1. /\ project.end \in Int \cup {None} /\ project.start \in Int \cup {None}
      /\ project.months \in Nat \cup {None}
  BY DEF Project, Nullable
<1>2. Today \in Int
  BY RankingAssumption
<1>3. CASE project.months # None
  BY <1>1, <1>3 DEF Duration
<1>4. CASE project.months = None /\ project.start = None
  BY <1>4 DEF Duration
<1>5. CASE project.months = None /\ project.start # None
  <2> DEFINE d == (IF project.end # None THEN project.end ELSE Today) - project.start
  <2>1. d \in Int
    BY <1>1, <1>2, <1>5
  <2>2. Duration(project) = AtLeast(0, d)
    BY <1>5 DEF Duration
  <2> HIDE DEF d
  <2> QED BY <2>1, <2>2 DEF AtLeast
<1> QED BY <1>3, <1>4, <1>5

\* What a summary is made of, for the projects J.
Best(score, J) == Max({score[j] : j \in J})
Months(b, J) == Total([j \in DOMAIN b.projects |-> IF j \in J THEN Duration(b.projects[j]) ELSE 0])
Dates(b, J) == {Latest(b.projects[j]) : j \in J} \ {None}
Newest(b, J) == IF Dates(b, J) = {} THEN None ELSE Max(Dates(b, J))

LEMMA SummaryIs ==
  ASSUME NEW b, NEW score, NEW J
  PROVE  /\ SummaryOf(b, score, J).relevance =
              IF J = {} THEN 0 ELSE ProjectRelevance(Best(score, J), Cardinality(J), Months(b, J))
         /\ SummaryOf(b, score, J).recency = Recency(Newest(b, J))
         /\ SummaryOf(b, score, J).related = (J # {})
BY DEF SummaryOf, Best, Months, Dates, Newest

LEMMA MonthsGrow ==
  ASSUME NEW b \in Base, NEW I, NEW J, I \subseteq J
  PROVE  Months(b, I) \in Nat /\ Months(b, J) \in Nat /\ Months(b, I) <= Months(b, J)
<1> DEFINE n == Len(b.projects)
           of(K) == [j \in DOMAIN b.projects |-> IF j \in K THEN Duration(b.projects[j]) ELSE 0]
           less == of(I)
           more == of(J)
<1>1. n \in Nat /\ DOMAIN b.projects = 1..n /\ \A j \in 1..n : Duration(b.projects[j]) \in Nat
  BY ProjectsAre, DurationNat
<1>2. \A j \in 1..n : less[j] \in Nat /\ more[j] \in Nat /\ less[j] <= more[j]
  BY <1>1
<1>3. less = [j \in 1..n |-> less[j]] /\ more = [j \in 1..n |-> more[j]]
  BY <1>1
<1>4. Months(b, I) = Total(less) /\ Months(b, J) = Total(more)
  BY DEF Months
<1> HIDE DEF less, more, n
<1>5. less \in Seq(Nat) /\ more \in Seq(Nat) /\ Len(less) = n /\ Len(more) = n
  BY <1>1, <1>2, <1>3, NumberedSeq DEF Numbered
<1>6. less \in Seq(Int) /\ more \in Seq(Int)
  BY <1>5
<1> QED BY <1>2, <1>4, <1>5, <1>6, TotalNat, TotalGrows

LEMMA DatesAre ==
  ASSUME NEW b \in Base, NEW J \in SUBSET DOMAIN b.projects, IsFiniteSet(J)
  PROVE  Dates(b, J) \in SUBSET Int /\ IsFiniteSet(Dates(b, J))
<1> DEFINE latest == [j \in DOMAIN b.projects |-> Latest(b.projects[j])]
           all == {latest[j] : j \in J}
<1>1. \A j \in J : latest[j] \in Int \cup {None}
  BY ProjectsAre, LatestIs
<1>2. Dates(b, J) = all \ {None}
  BY DEF Dates
<1> HIDE DEF latest
<1>3. IsFiniteSet(all)
  BY ImageFinite
<1>4. Dates(b, J) \in SUBSET all /\ Dates(b, J) \in SUBSET Int
  BY <1>1, <1>2
<1> HIDE DEF all
<1> QED BY <1>3, <1>4, FS_Subset

LEMMA SummarySame ==
  ASSUME NEW b, NEW c, NEW s, NEW t, NEW J, DOMAIN b.projects = DOMAIN c.projects,
         \A j \in J : s[j] = t[j] /\ b.projects[j] = c.projects[j]
  PROVE  /\ SummaryOf(b, s, J).relevance = SummaryOf(c, t, J).relevance
         /\ SummaryOf(b, s, J).recency = SummaryOf(c, t, J).recency
         /\ SummaryOf(b, s, J).related = SummaryOf(c, t, J).related
<1>1. {s[j] : j \in J} = {t[j] : j \in J}
  OBVIOUS
<1>2. Best(s, J) = Best(t, J)
  BY <1>1 DEF Best
<1>3. [j \in DOMAIN b.projects |-> IF j \in J THEN Duration(b.projects[j]) ELSE 0]
      = [j \in DOMAIN c.projects |-> IF j \in J THEN Duration(c.projects[j]) ELSE 0]
  OBVIOUS
<1>4. Months(b, J) = Months(c, J)
  BY <1>3 DEF Months
<1>5. {Latest(b.projects[j]) : j \in J} = {Latest(c.projects[j]) : j \in J}
  OBVIOUS
<1>6. Dates(b, J) = Dates(c, J)
  BY <1>5 DEF Dates
<1>7. Newest(b, J) = Newest(c, J)
  BY <1>6 DEF Newest
<1> QED BY <1>2, <1>4, <1>7, SummaryIs

\* What the projects J add to the summary of I.
Raised(b, score, I, J) ==
  LET less == SummaryOf(b, score, I)
      more == SummaryOf(b, score, J)
  IN  /\ more.related /\ more.relevance \in Int /\ more.recency \in Int
      /\ I = {} => /\ ~less.related /\ less.relevance = 0
                   /\ more.relevance >= 66666 /\ more.recency >= 550000
      /\ I # {} => /\ less.related /\ less.relevance \in Int /\ less.recency \in Int
                   /\ \/ 20 * less.relevance + 5 * less.recency <= 20 * more.relevance + 5 * more.recency
                      \/ Cardinality(I) >= 3 /\ Dates(b, I) = {}

LEMMA SummaryGrows ==
  ASSUME NEW b \in Base, NEW score, NEW J \in SUBSET DOMAIN b.projects, IsFiniteSet(J),
         \A o \in J : score[o] \in Int /\ score[o] > 0, NEW j \in J
  PROVE  Raised(b, score, J \ {j}, J)
<1> DEFINE I == J \ {j}
           less == SummaryOf(b, score, I)
           more == SummaryOf(b, score, J)
           k == Cardinality(I)
<1> SUFFICES Raised(b, score, I, J)
  OBVIOUS
<1>1. I \in SUBSET J /\ IsFiniteSet(I) /\ I \in SUBSET DOMAIN b.projects /\ J # {}
  BY FS_Subset
<1>2. k \in Nat /\ Cardinality(J) = k + 1 /\ (I = {} => k = 0)
  <2>1. Cardinality(I) = Cardinality(J) - 1 /\ Cardinality(J) \in Nat /\ Cardinality(I) \in Nat
    BY <1>1, FS_RemoveElement, FS_CardinalityType
  <2> QED BY <2>1, FS_EmptySet
<1>3. Months(b, I) \in Nat /\ Months(b, J) \in Nat /\ Months(b, I) <= Months(b, J)
  BY <1>1, MonthsGrow
<1> DEFINE all == {score[o] : o \in J}
           rest == {score[o] : o \in I}
<1>4. /\ all \in SUBSET Int /\ IsFiniteSet(all) /\ all # {} /\ rest \subseteq all
      /\ \A x \in all : x > 0
  BY ImageFinite
<1>5. Best(score, J) = Max(all) /\ Best(score, I) = Max(rest) /\ (I # {} => rest # {})
  BY DEF Best
<1> HIDE DEF I, all, rest, k
<1>6. Best(score, J) \in Int /\ Best(score, J) > 0
  <2>1. Max(all) \in all
    BY <1>4, MaxIs
  <2> QED BY <1>4, <1>5, <2>1
<1>7. I # {} => Best(score, I) \in Int /\ Best(score, I) <= Best(score, J)
  <2> SUFFICES ASSUME I # {} PROVE Best(score, I) \in Int /\ Best(score, I) <= Best(score, J)
    OBVIOUS
  <2>1. rest \in SUBSET Int /\ rest # {}
    BY <1>4, <1>5
  <2>2. Max(rest) \in Int /\ Max(rest) <= Max(all)
    BY <1>4, <2>1, MaxGrows
  <2> QED BY <1>5, <2>2
<1>8. /\ Dates(b, I) \in SUBSET Int /\ Dates(b, J) \in SUBSET Int
      /\ IsFiniteSet(Dates(b, I)) /\ IsFiniteSet(Dates(b, J)) /\ Dates(b, I) \subseteq Dates(b, J)
  <2>1. Dates(b, I) \subseteq Dates(b, J)
    BY <1>1 DEF Dates
  <2> QED BY <1>1, <2>1, DatesAre
<1>9. /\ more.relevance = ProjectRelevance(Best(score, J), k + 1, Months(b, J))
      /\ more.recency = Recency(Newest(b, J)) /\ more.related
  BY <1>1, <1>2, SummaryIs
<1>10. /\ I = {} => less.relevance = 0 /\ ~less.related
       /\ I # {} => /\ less.relevance = ProjectRelevance(Best(score, I), k, Months(b, I))
                    /\ less.recency = Recency(Newest(b, I)) /\ less.related
  <2>1. /\ less.relevance = IF I = {} THEN 0 ELSE ProjectRelevance(Best(score, I), Cardinality(I), Months(b, I))
        /\ less.recency = Recency(Newest(b, I)) /\ less.related = (I # {})
    BY SummaryIs
  <2> QED BY <2>1 DEF k
<1>11. \A K \in {I, J} : /\ Recency(Newest(b, K)) \in Int /\ Recency(Newest(b, K)) >= 550000
                         /\ Recency(Newest(b, K)) <= 1000000
  <2> SUFFICES ASSUME NEW K \in {I, J}
               PROVE  Recency(Newest(b, K)) \in {1000000, 850000, 700000, 600000, 550000}
    OBVIOUS
  <2>1. Newest(b, K) = None \/ Newest(b, K) \in Int
    <3>1. Dates(b, K) # {} => Max(Dates(b, K)) \in Dates(b, K)
      BY <1>8, MaxIs
    <3> QED BY <1>8, <3>1 DEF Newest
  <2> QED BY <2>1, RecencyIs
<1> HIDE DEF less, more
<1>12. CASE I = {}
  <2>1. k = 0
    BY <1>2, <1>12
  <2>2. more.relevance \in Int /\ more.relevance >= 66666
    BY <1>3, <1>6, <1>9, <2>1, RelevanceOfOne
  <2>3. more.recency \in Int /\ more.recency >= 550000
    BY <1>9, <1>11
  <2> QED BY <1>9, <1>10, <1>12, <2>2, <2>3 DEF Raised, less, more
<1>13. CASE I # {}
  <2>1. /\ less.relevance \in Int /\ more.relevance \in Int /\ less.relevance <= more.relevance
        /\ k < 3 => more.relevance >= less.relevance + 66665
    <3> DEFINE x == Best(score, I)
               y == Best(score, J)
               m == Months(b, I)
               n == Months(b, J)
               l == k + 1
    <3>1. x \in Int /\ y \in Int /\ x <= y /\ k \in Nat /\ l \in Nat /\ l = k + 1 /\ m \in Nat /\ n \in Nat /\ m <= n
      BY <1>2, <1>3, <1>6, <1>7, <1>13
    <3>2. less.relevance = ProjectRelevance(x, k, m) /\ more.relevance = ProjectRelevance(y, l, n)
      BY <1>9, <1>10, <1>13
    <3> HIDE DEF x, y, m, n, l
    <3>3. Above(ProjectRelevance(y, l, n), ProjectRelevance(x, k, m), k)
      BY <3>1, RelevanceGrows
    <3> QED BY <3>2, <3>3 DEF Above
  <2>2. less.recency \in Int /\ more.recency \in Int
    BY <1>9, <1>10, <1>11, <1>13
  <2>3. ASSUME Dates(b, I) # {} PROVE less.recency <= more.recency
    <3>1. /\ Newest(b, I) = Max(Dates(b, I)) /\ Newest(b, J) = Max(Dates(b, J))
          /\ Max(Dates(b, I)) \in Int /\ Max(Dates(b, J)) \in Int /\ Max(Dates(b, I)) <= Max(Dates(b, J))
      <4>1. Dates(b, J) # {}
        BY <1>8, <2>3
      <4>2. Max(Dates(b, I)) \in Int /\ Max(Dates(b, J)) \in Int /\ Max(Dates(b, I)) <= Max(Dates(b, J))
        BY <1>8, <2>3, MaxGrows
      <4> QED BY <2>3, <4>1, <4>2 DEF Newest
    <3> QED BY <1>9, <1>10, <1>13, <3>1, RecencyIs
  <2>4. ASSUME Dates(b, I) = {} PROVE less.recency <= more.recency + 50000
    <3>1. less.recency = 600000
      BY <1>10, <1>13, <2>4, RecencyIs DEF Newest
    <3>2. more.recency >= 550000
      BY <1>9, <1>11
    <3> QED BY <2>2, <3>1, <3>2
  <2>5. \/ 20 * less.relevance + 5 * less.recency <= 20 * more.relevance + 5 * more.recency
        \/ k >= 3 /\ Dates(b, I) = {}
    <3>1. CASE Dates(b, I) # {}
      BY <2>1, <2>2, <2>3, <3>1
    <3>2. CASE Dates(b, I) = {} /\ k < 3
      BY <2>1, <2>2, <2>4, <3>2
    <3> QED BY <1>2, <3>1, <3>2
  <2> QED BY <1>9, <1>10, <1>13, <2>1, <2>2, <2>5 DEF Raised, k, less, more
<1> QED BY <1>12, <1>13

LEMMA MeanOfFractions ==
  ASSUME NEW s \in Seq(0..One), s # <<>>
  PROVE  Mean(s) \in 0..One
<1>1. One \in Nat
  BY Units
<1> HIDE DEF One
<1> DEFINE n == Len(s)
<1>2. n \in Nat /\ n > 0 /\ s \in Seq(Int) /\ \A i \in 1..n : s[i] \in 0..One
  BY <1>1
<1>3. PICK f : Total(s) = f[n] /\ \A i \in 0..n : f[i] = IF i = 0 THEN 0 ELSE f[i - 1] + s[i]
  BY <1>2, TotalIs
<1> DEFINE S == {i \in 0..n : f[i] \in Nat /\ f[i] <= i * One}
<1>4. 0..n \subseteq S
  <2>1. 0 \in S
    BY <1>1, <1>2, <1>3
  <2>2. ASSUME NEW i \in 1..n, i - 1 \in S PROVE i \in S
    <3>1. i \in 0..n /\ i # 0 /\ f[i - 1] \in Nat /\ f[i - 1] <= (i - 1) * One
      BY <1>2, <2>2
    <3>2. f[i] = f[i - 1] + s[i] /\ s[i] \in Nat /\ s[i] <= One
      BY <1>1, <1>2, <1>3, <3>1
    <3>3. (i - 1) * One + One = i * One /\ (i - 1) * One \in Int
      BY <1>1, <1>2, <3>1
    <3>4. f[i] \in Nat /\ f[i] <= i * One
      BY <1>1, <3>1, <3>2, <3>3
    <3> QED BY <3>1, <3>4
  <2> HIDE DEF S
  <2> QED BY <1>2, <2>1, <2>2, UpTo
<1>5. Total(s) \in Nat /\ Total(s) <= n * One
  <2>1. n \in S
    BY <1>2, <1>4
  <2> QED BY <1>3, <2>1
<1>6. n * One = One * n /\ 0 * n = 0
  BY <1>1, <1>2
<1>7. Total(s) \div n <= One /\ 0 <= Total(s) \div n /\ Total(s) \div n \in Int
  <2> DEFINE t == Total(s)
  <2>1. t \in Int /\ t <= One * n /\ 0 * n <= t /\ n \in Int /\ n > 0 /\ One \in Int /\ 0 \in Int
    BY <1>1, <1>2, <1>5, <1>6
  <2> HIDE DEF t, n
  <2>2. t \div n <= One
    BY <2>1, QuotientAtMost
  <2>3. 0 <= t \div n
    BY <2>1, QuotientAtLeast
  <2>4. t \div n \in Int
    BY <2>1, Quotient
  <2> QED BY <2>2, <2>3, <2>4 DEF t
<1>8. Mean(s) = Total(s) \div n
  BY DEF Mean
<1> QED BY <1>1, <1>7, <1>8

LEMMA RrfFraction ==
  ASSUME NEW rank \in Nat \ {0}
  PROVE  Rrf(rank) \in 0..One
<1>1. 61 * One \in Int /\ 60 + rank \in Int /\ 60 + rank > 0 /\ One \in Nat /\ 0 <= 61 * One
  BY Units
<1>2. 61 * One <= One * (60 + rank) /\ 0 * (60 + rank) = 0
  BY DEF One
<1>3. Rrf(rank) = (61 * One) \div (60 + rank)
  BY DEF Rrf
<1> HIDE DEF One
<1>4. (61 * One) \div (60 + rank) <= One
  BY <1>1, <1>2, QuotientAtMost
<1>5. 0 <= (61 * One) \div (60 + rank)
  BY <1>1, <1>2, QuotientAtLeast
<1> QED BY <1>1, <1>3, <1>4, <1>5, Quotient

\* What a score is made of but for the projects.
Retrieval(r, ranks, ratio) ==
  When(RequiredPresent(r), <<20, One>>)
  \o When(ranks # <<>>, <<45, Mean([n \in DOMAIN ranks |-> Rrf(ranks[n])])>>)
  \o When(PreferredFields(r) # {}, <<10, ratio>>)

LEMMA RetrievalHolds ==
  ASSUME NEW r, NEW ranks \in Seq(Nat \ {0}), NEW ratio \in 0..One
  PROVE  Fractions(Retrieval(r, ranks, ratio), 75)
<1> DEFINE found == [n \in DOMAIN ranks |-> Rrf(ranks[n])]
           a == When(RequiredPresent(r), <<20, One>>)
           c == When(ranks # <<>>, <<45, Mean(found)>>)
           d == When(PreferredFields(r) # {}, <<10, ratio>>)
<1>1. One \in 0..One /\ One \in Nat /\ One \in Int
  BY Units
<1>2. ranks # <<>> => Mean(found) \in 0..One
  <2> SUFFICES ASSUME ranks # <<>> PROVE Mean(found) \in 0..One
    OBVIOUS
  <2>1. Len(ranks) \in Nat /\ Len(ranks) # 0 /\ DOMAIN ranks = 1..Len(ranks)
        /\ \A n \in 1..Len(ranks) : ranks[n] \in Nat \ {0}
    OBVIOUS
  <2>2. \A n \in 1..Len(ranks) : found[n] \in 0..One
    BY <2>1, RrfFraction
  <2>3. found = [n \in 1..Len(ranks) |-> found[n]]
    BY <2>1
  <2> HIDE DEF found
  <2>4. found \in Seq(0..One) /\ Len(found) = Len(ranks)
    BY <2>1, <2>2, <2>3, NumberedSeq DEF Numbered
  <2>5. found # <<>>
    BY <2>1, <2>4
  <2> QED BY <2>4, <2>5, MeanOfFractions
<1> HIDE DEF found, One
<1>3. Fractions(<<>>, 0)
  BY <1>1, NoParts DEF Fractions
<1>4. 20 \in Nat \ {0} /\ 45 \in Nat \ {0} /\ 10 \in Nat \ {0} /\ 0 \in Nat /\ 20 \in Nat /\ 65 \in Nat
  OBVIOUS
<1>5. Fractions(<<>> \o a, 0 + 20)
  BY <1>1, <1>3, <1>4, FractionAdds
<1>6. Fractions(a, 20)
  <2>1. a \in Seq(Part)
    BY <1>1, <1>4, PartHolds
  <2> HIDE DEF a
  <2>2. <<>> \o a = a
    BY <2>1
  <2> QED BY <1>4, <1>5, <2>2
<1> HIDE DEF a
<1>7. Fractions(a \o c, 65)
  <2>1. Fractions(a \o c, 20 + 45)
    BY <1>2, <1>4, <1>6, FractionAdds
  <2> QED BY <1>4, <2>1
<1> DEFINE e == a \o c
<1> HIDE DEF c, e
<1>8. Fractions(e \o d, 75)
  <2>1. Fractions(e, 65)
    BY <1>7 DEF e
  <2>2. Fractions(e \o d, 65 + 10)
    BY <1>4, <2>1, FractionAdds
  <2> QED BY <1>4, <2>2
<1> QED BY <1>8 DEF Retrieval, e, a, c, found

\* A score is shown out of a hundred.
Scale(relevance) == (relevance * 100 + One \div 2) \div One

LEMMA ScaleGrows ==
  ASSUME NEW a \in Int, NEW b \in Int, a <= b
  PROVE  Scale(a) <= Scale(b)
<1>1. One \in Int /\ One > 0 /\ One \div 2 \in Int
  BY Units, Quotient
<1> DEFINE h == One \div 2
<1>2. h \in Int
  BY <1>1
<1> HIDE DEF One, h
<1>3. a * 100 + h \in Int /\ b * 100 + h \in Int /\ a * 100 + h <= b * 100 + h
  BY <1>2
<1>4. (a * 100 + h) \div One <= (b * 100 + h) \div One
  BY <1>1, <1>3, QuotientGrows
<1> QED BY <1>4 DEF Scale, h

\* The score of somebody with projects.
LEMMA FinalScoreIs ==
  ASSUME NEW r, ProjectsCount(r), NEW ranks \in Seq(Nat \ {0}), NEW ratio \in 0..One,
         NEW summary, summary.relevance \in Int, summary.related => summary.recency \in Int
  PROVE  LET head == Retrieval(r, ranks, ratio)
         IN  FinalScore(r, ranks, ratio, summary) =
               Scale(IF summary.related
                     THEN (Weighted(head) + 20 * summary.relevance + 5 * summary.recency) \div (Weighs(head) + 25)
                     ELSE (Weighted(head) + 20 * summary.relevance) \div (Weighs(head) + 20))
<1> DEFINE head == Retrieval(r, ranks, ratio)
           x == summary.relevance
           y == summary.recency
           e == When(ProjectsCount(r), <<20, x>>)
           f == When(ProjectsCount(r) /\ summary.related, <<5, y>>)
           s == head \o <<<<20, x>>>>
           t == s \o <<<<5, y>>>>
<1>1. FinalScore(r, ranks, ratio, summary) = Scale(WeightedMean(head \o e \o f))
  BY DEF FinalScore, Scale, Retrieval
<1>2. head \in Seq(Part) /\ Weighs(head) \in Int /\ Weighted(head) \in Int /\ Weighs(head) >= 0
  <2>1. Fractions(head, 75)
    BY RetrievalHolds
  <2> HIDE DEF head
  <2> DEFINE n == Weighs(head)
             m == Weighted(head)
  <2>2. head \in Seq(Part) /\ n \in 0..75 /\ m \in Nat
    BY <2>1 DEF Fractions
  <2> HIDE DEF n, m
  <2>3. n \in Int /\ m \in Int /\ n >= 0
    BY <2>2
  <2> QED BY <2>2, <2>3 DEF n, m
<1>3. e = <<<<20, x>>>>
  BY DEF When
<1> HIDE DEF head, e
<1>4. 20 \in Nat \ {0} /\ 5 \in Nat \ {0} /\ x \in Int
  OBVIOUS
<1> HIDE DEF x
<1>5. s \in Seq(Part) /\ Weighs(s) = Weighs(head) + 20 /\ Weighted(s) = Weighted(head) + 20 * x
  BY <1>2, <1>4, PartAdds
<1>6. s # <<>>
  <2>1. Len(s) = Len(head) + 1 /\ Len(head) \in Nat
    BY <1>2
  <2> QED BY <2>1
<1>7. head \o e = s
  BY <1>3
<1> HIDE DEF s
<1>8. CASE summary.related
  <2>1. f = <<<<5, y>>>> /\ y \in Int
    BY <1>8 DEF When
  <2> HIDE DEF f, y
  <2>2. t \in Seq(Part) /\ Weighs(t) = Weighs(s) + 5 /\ Weighted(t) = Weighted(s) + 5 * y
    BY <1>4, <1>5, <2>1, PartAdds
  <2>3. t # <<>>
    <3>1. Len(t) = Len(s) + 1 /\ Len(s) \in Nat
      BY <1>5
    <3> QED BY <3>1
  <2>4. head \o e \o f = t
    BY <1>7, <2>1
  <2> HIDE DEF t
  <2>5. WeightedMean(t) = Weighted(t) \div Weighs(t)
    BY <2>2, <2>3, MeanOfParts
  <2>6. Weighs(t) = Weighs(head) + 25 /\ Weighted(t) = Weighted(head) + 20 * x + 5 * y
    BY <1>2, <1>4, <1>5, <2>1, <2>2
  <2> QED BY <1>1, <1>8, <2>4, <2>5, <2>6 DEF head, x, y
<1>9. CASE ~summary.related
  <2>1. f = <<>>
    BY <1>9 DEF When
  <2> HIDE DEF f
  <2>2. head \o e \o f = s
    <3>1. s \o <<>> = s
      BY <1>5
    <3> QED BY <1>7, <2>1, <3>1
  <2>3. WeightedMean(s) = Weighted(s) \div Weighs(s)
    BY <1>5, <1>6, MeanOfParts
  <2> QED BY <1>1, <1>5, <1>9, <2>2, <2>3 DEF head, x
<1> QED BY <1>8, <1>9

\* Weights of at most 75 leave room: work that is related raises the mean of
\* what was found otherwise, whose weights sum up to w and whose values to a.
LEMMA RoomForProjects ==
  ASSUME NEW w \in 0..75, NEW a \in Nat, a <= w * 1000000,
         NEW x \in Int, x >= 66666, NEW y \in Int, y >= 550000
  PROVE  a \div (w + 20) <= (a + 20 * x + 5 * y) \div (w + 25)
<1> DEFINE q == a \div (w + 20)
           c == 20 * x + 5 * y
<1>1. q \in Int /\ q * (w + 20) <= a /\ q * (w + 20) \in Int
  BY QuotientIs
<1>2. c \in Int /\ c >= 4083320
  OBVIOUS
<1> HIDE DEF q, c
<1>3. q <= 789474
  <2> SUFFICES ASSUME 789475 <= q PROVE FALSE
    BY <1>1
  <2>1. 789475 * (w + 20) <= q * (w + 20)
    BY <1>1, ProductGrows
  <2>2. 789475 * (w + 20) <= w * 1000000
    BY <1>1, <2>1
  <2> QED BY <2>2
<1>4. q * (w + 25) = q * (w + 20) + 5 * q /\ q * (w + 25) \in Int
  BY <1>1
<1>5. q * (w + 25) <= a + c
  BY <1>1, <1>2, <1>3, <1>4
<1>6. q <= (a + c) \div (w + 25)
  BY <1>1, <1>2, <1>5, QuotientAtLeast
<1>7. a + c = a + 20 * x + 5 * y
  BY DEF c
<1> QED BY <1>6, <1>7 DEF q

LEMMA OneIs == One = 1000000
  BY DEF One

\* The rest weighs at most 75, and is a fraction.
LEMMA RoomLeft ==
  ASSUME NEW s, Fractions(s, 75)
  PROVE  /\ Weighs(s) \in 0..75 /\ Weighted(s) \in Nat
         /\ Weighted(s) <= Weighs(s) * 1000000
<1> DEFINE w == Weighs(s)
           a == Weighted(s)
<1>1. w \in 0..75 /\ a \in Nat /\ a <= w * One
  BY DEF Fractions
<1> HIDE DEF w, a
<1>2. w \in 0..75 /\ a \in Nat /\ a <= w * 1000000
  BY <1>1, OneIs
<1> QED BY <1>2 DEF w, a

LEMMA ScoreWithWork ==
  ASSUME NEW r, ProjectsCount(r), NEW ranks \in Seq(Nat \ {0}), NEW ratio \in 0..One,
         NEW summary, summary.related, summary.relevance \in Int, summary.recency \in Int
  PROVE  LET head == Retrieval(r, ranks, ratio)
         IN  FinalScore(r, ranks, ratio, summary) =
               Scale((Weighted(head) + 20 * summary.relevance + 5 * summary.recency) \div (Weighs(head) + 25))
  BY FinalScoreIs

LEMMA ScoreWithoutWork ==
  ASSUME NEW r, ProjectsCount(r), NEW ranks \in Seq(Nat \ {0}), NEW ratio \in 0..One,
         NEW summary, ~summary.related, summary.relevance \in Int
  PROVE  LET head == Retrieval(r, ranks, ratio)
         IN  FinalScore(r, ranks, ratio, summary) =
               Scale((Weighted(head) + 20 * summary.relevance) \div (Weighs(head) + 20))
  BY FinalScoreIs

\* A project more never lowers the score, but for undated ones that an old one joins.
LEMMA ScoreGrows ==
  ASSUME NEW b \in Base, NEW score, NEW I, NEW J, Raised(b, score, I, J),
         ~(Cardinality(I) >= 3 /\ Dates(b, I) = {}),
         NEW r, ProjectsCount(r), NEW ranks \in Seq(Nat \ {0}), NEW ratio \in 0..One
  PROVE  FinalScore(r, ranks, ratio, SummaryOf(b, score, I)) <= FinalScore(r, ranks, ratio, SummaryOf(b, score, J))
<1> DEFINE less == SummaryOf(b, score, I)
           more == SummaryOf(b, score, J)
           head == Retrieval(r, ranks, ratio)
           w == Weighs(head)
           a == Weighted(head)
<1>1. w \in 0..75 /\ a \in Nat /\ a <= w * 1000000
  BY RetrievalHolds, RoomLeft
<1>2. /\ more.related /\ more.relevance \in Int /\ more.recency \in Int
      /\ I = {} => /\ ~less.related /\ less.relevance = 0
                   /\ more.relevance >= 66666 /\ more.recency >= 550000
      /\ I # {} => /\ less.related /\ less.relevance \in Int /\ less.recency \in Int
                   /\ 20 * less.relevance + 5 * less.recency <= 20 * more.relevance + 5 * more.recency
  BY DEF Raised
<1> HIDE DEF less, more
<1>3. FinalScore(r, ranks, ratio, more) = Scale((a + 20 * more.relevance + 5 * more.recency) \div (w + 25))
  <2>1. more.related /\ more.relevance \in Int /\ more.recency \in Int
    BY <1>2
  <2> QED BY <2>1, ScoreWithWork
<1> DEFINE x == less.relevance
           y == less.recency
           u == more.relevance
           v == more.recency
           q == (a + 20 * u + 5 * v) \div (w + 25)
<1>4. FinalScore(r, ranks, ratio, more) = Scale(q)
  BY <1>3
<1>5. u \in Int /\ v \in Int
  BY <1>2
<1>6. CASE I = {}
  <2> DEFINE p == (a + 20 * x) \div (w + 20)
  <2>1. x \in Int /\ x = 0 /\ u >= 66666 /\ v >= 550000 /\ ~less.related
    BY <1>2, <1>6
  <2>2. FinalScore(r, ranks, ratio, less) = Scale(p)
    BY <2>1, ScoreWithoutWork
  <2> HIDE DEF head, w, a, x, y, u, v
  <2>3. p = a \div (w + 20)
    BY <1>1, <2>1
  <2>4. a \div (w + 20) <= q
    BY <1>1, <1>5, <2>1, RoomForProjects
  <2>5. p \in Int /\ q \in Int /\ p <= q
    <3>1. a \in Int /\ w + 20 \in Int /\ w + 20 > 0 /\ a + 20 * u + 5 * v \in Int /\ w + 25 \in Int /\ w + 25 > 0
      BY <1>1, <1>5
    <3> QED BY <2>3, <2>4, <3>1, Quotient
  <2> HIDE DEF p, q
  <2> QED BY <1>4, <2>2, <2>5, ScaleGrows DEF less, more
<1>7. CASE I # {}
  <2> DEFINE p == (a + 20 * x + 5 * y) \div (w + 25)
  <2>1. x \in Int /\ y \in Int /\ less.related /\ 20 * x + 5 * y <= 20 * u + 5 * v
    BY <1>2, <1>7
  <2>2. FinalScore(r, ranks, ratio, less) = Scale(p)
    BY <2>1, ScoreWithWork
  <2> HIDE DEF head, w, a, x, y, u, v
  <2>3. p \in Int /\ q \in Int /\ p <= q
    <3> DEFINE m == a + 20 * x + 5 * y
               n == a + 20 * u + 5 * v
    <3>1. m \in Int /\ n \in Int /\ m <= n /\ w + 25 \in Int /\ w + 25 > 0
      BY <1>1, <1>5, <2>1
    <3> HIDE DEF m, n
    <3>2. m \div (w + 25) <= n \div (w + 25)
      BY <3>1, QuotientGrows
    <3>3. m \div (w + 25) \in Int /\ n \div (w + 25) \in Int
      BY <3>1, Quotient
    <3> QED BY <3>2, <3>3 DEF m, n
  <2> HIDE DEF p, q
  <2> QED BY <1>4, <2>2, <2>3, ScaleGrows DEF less, more
<1> QED BY <1>6, <1>7

\* A base without one of its projects.
Without(b, j) == [b EXCEPT !.projects[j].live = FALSE]

LEMMA WithoutIs ==
  ASSUME NEW b \in Base, NEW p, NEW j \in LiveProjects(b, p)
  PROVE  /\ DOMAIN Without(b, j).projects = DOMAIN b.projects /\ Without(b, j).items = b.items
         /\ \A o \in DOMAIN b.projects \ {j} : Without(b, j).projects[o] = b.projects[o]
         /\ LiveProjects(Without(b, j), p) = LiveProjects(b, p) \ {j}
<1> DEFINE c == Without(b, j)
           q == [b.projects[j] EXCEPT !.live = FALSE]
<1>1. j \in DOMAIN b.projects /\ b.projects[j] \in Project
  BY ProjectsAre DEF LiveProjects
<1>2. q.live = FALSE
  BY <1>1 DEF Project
<1>3. c = [b EXCEPT !.projects = [b.projects EXCEPT ![j] = q]]
  BY DEF Without
<1> HIDE DEF q, c
<1>4. c.projects = [b.projects EXCEPT ![j] = q] /\ c.items = b.items
  BY <1>3 DEF Base
<1>5. /\ DOMAIN c.projects = DOMAIN b.projects /\ c.projects[j] = q
      /\ \A o \in DOMAIN b.projects \ {j} : c.projects[o] = b.projects[o]
  BY <1>1, <1>4
<1>6. LiveProjects(c, p) = LiveProjects(b, p) \ {j}
  BY <1>2, <1>5 DEF LiveProjects
<1> QED BY <1>4, <1>5, <1>6 DEF c

LEMMA ScoreSame ==
  ASSUME NEW b, NEW c, NEW r, NEW o, b.items = c.items, b.projects[o] = c.projects[o]
  PROVE  ProjectScore(b, r, o) = ProjectScore(c, r, o)
<1>1. KeywordKeys(b) = KeywordKeys(c) /\ VectorKeys(b) = VectorKeys(c)
  BY DEF KeywordKeys, VectorKeys
<1>2. \A scores : BestOfProject(b, scores, o) = BestOfProject(c, scores, o)
  BY DEF BestOfProject
<1>3. [i \in DOMAIN KeywordKeys(b) |-> b.items[i].text * Percent]
      = [i \in DOMAIN KeywordKeys(c) |-> c.items[i].text * Percent]
  BY <1>1
<1>4. [i \in DOMAIN VectorKeys(b) |-> (b.items[i].near * Weight(b.items[i]) * Percent) \div 100]
      = [i \in DOMAIN VectorKeys(c) |-> (c.items[i].near * Weight(c.items[i]) * Percent) \div 100]
  BY <1>1
<1> QED BY <1>2, <1>3, <1>4 DEF ProjectScore

\* The projects of a person that are related to what is asked.
Related(b, r, p) == {o \in LiveProjects(b, p) : ProjectScore(b, r, o) > 0}
Scores(b, r, p) == [o \in LiveProjects(b, p) |-> ProjectScore(b, r, o)]

LEMMA SummaryAre ==
  ASSUME NEW b, NEW r, ProjectsCount(r), NEW p
  PROVE  Summary(b, r, p) = SummaryOf(b, Scores(b, r, p), Related(b, r, p))
<1>1. {o \in DOMAIN Scores(b, r, p) : Scores(b, r, p)[o] > 0} = Related(b, r, p)
  BY DEF Scores, Related
<1>2. Summary(b, r, p) = Summarised(b, Scores(b, r, p))
  BY DEF Summary, Scores
<1> QED BY <1>1, <1>2 DEF Summarised

\* For a person, a request and the places in the channels.
WorkNeverHurts(b, r, p, j, ranks, ratio) ==
  LET others == {o \in LiveProjects(Without(b, j), p) : ProjectScore(b, r, o) > 0}
  IN  \/ ProjectScore(b, r, j) = 0
      \/ FinalScore(r, ranks, ratio, Summary(b, r, p)) >= FinalScore(r, ranks, ratio, Summary(Without(b, j), r, p))
      \/ Cardinality(others) >= 3 /\ \A o \in others : Latest(b.projects[o]) = None

\* Only these three of a summary count for the score.
LEMMA FinalScoreSame ==
  ASSUME NEW r, NEW ranks, NEW ratio, NEW s, NEW t, s.relevance = t.relevance,
         s.recency = t.recency, s.related = t.related
  PROVE  FinalScore(r, ranks, ratio, s) = FinalScore(r, ranks, ratio, t)
BY DEF FinalScore

LEMMA SeqOfNat == \A s \in Seq(Nat \ {0}) : s \in Seq(Nat)
OBVIOUS

LEMMA MoreWork ==
  ASSUME NEW b \in Base, NEW r \in Request, NEW p, NEW j \in LiveProjects(b, p),
         NEW ranks \in Seq(Nat \ {0}), NEW ratio \in 0..One
  PROVE  WorkNeverHurts(b, r, p, j, ranks, ratio)
<1> DEFINE c == Without(b, j)
           J == Related(b, r, p)
           I == Related(c, r, p)
           more == FinalScore(r, ranks, ratio, Summary(b, r, p))
           less == FinalScore(r, ranks, ratio, Summary(c, r, p))
<1>1. /\ DOMAIN c.projects = DOMAIN b.projects /\ c.items = b.items
      /\ \A o \in DOMAIN b.projects \ {j} : c.projects[o] = b.projects[o]
      /\ LiveProjects(c, p) = LiveProjects(b, p) \ {j}
  BY WithoutIs
<1>2. LiveProjects(b, p) \subseteq DOMAIN b.projects /\ IsFiniteSet(LiveProjects(b, p))
  BY ProjectsAre
<1> HIDE DEF c
<1>3. \A o \in LiveProjects(c, p) : ProjectScore(c, r, o) = ProjectScore(b, r, o)
  BY <1>1, <1>2, ScoreSame
<1>4. I = J \ {j} /\ J \in SUBSET LiveProjects(b, p)
  BY <1>1, <1>3 DEF Related
<1>5. J \in SUBSET DOMAIN b.projects /\ IsFiniteSet(J)
  BY <1>2, <1>4, FS_Subset
<1>6. \A o \in LiveProjects(b, p) : ProjectScore(b, r, o) \in Int
  BY ProjectScoreInt
<1>7. more \in Int
  <2>1. ranks \in Seq(Nat) /\ ratio \in Int
    BY SeqOfNat, Units
  <2>2. Summary(b, r, p).relevance \in Int /\ Summary(b, r, p).recency \in Int
    BY SummaryInt
  <2> QED BY <2>1, <2>2, FinalScoreInt
<1> HIDE DEF more, less
<1>8. CASE ~ProjectsCount(r)
  <2>1. Summary(b, r, p) = Summary(c, r, p)
    BY <1>8 DEF Summary
  <2>2. more >= less
    BY <1>7, <2>1 DEF more, less
  <2> QED BY <2>2 DEF WorkNeverHurts, more, less, c
<1>9. CASE ProjectsCount(r)
  <2> DEFINE s == Scores(b, r, p)
             t == Scores(c, r, p)
  <2>1. \A o \in I : s[o] = t[o] /\ b.projects[o] = c.projects[o]
    BY <1>1, <1>2, <1>3 DEF Scores, Related
  <2>2. \A o \in J : s[o] \in Int /\ s[o] > 0
    BY <1>6 DEF Scores, Related
  <2>3. Summary(b, r, p) = SummaryOf(b, s, J) /\ Summary(c, r, p) = SummaryOf(c, t, I)
    BY <1>9, SummaryAre
  <2> HIDE DEF s, t, I, J
  <2>4. less = FinalScore(r, ranks, ratio, SummaryOf(b, s, I))
    <3>1. /\ SummaryOf(b, s, I).relevance = SummaryOf(c, t, I).relevance
          /\ SummaryOf(b, s, I).recency = SummaryOf(c, t, I).recency
          /\ SummaryOf(b, s, I).related = SummaryOf(c, t, I).related
      BY <1>1, <2>1, SummarySame
    <3>2. FinalScore(r, ranks, ratio, SummaryOf(b, s, I)) = FinalScore(r, ranks, ratio, SummaryOf(c, t, I))
      BY <3>1, FinalScoreSame
    <3> QED BY <2>3, <3>2 DEF less
  <2>5. more = FinalScore(r, ranks, ratio, SummaryOf(b, s, J))
    BY <2>3 DEF more
  <2>6. CASE j \notin J
    <3>1. I = J
      BY <1>4, <2>6
    <3>2. more >= less
      BY <1>7, <2>4, <2>5, <3>1
    <3> QED BY <3>2 DEF WorkNeverHurts, more, less, c
  <2>7. CASE j \in J /\ ~(Cardinality(I) >= 3 /\ Dates(b, I) = {})
    <3>1. Raised(b, s, J \ {j}, J)
      BY <1>5, <2>2, <2>7, SummaryGrows
    <3>2. Raised(b, s, I, J)
      BY <1>4, <3>1
    <3>3. FinalScore(r, ranks, ratio, SummaryOf(b, s, I)) <= FinalScore(r, ranks, ratio, SummaryOf(b, s, J))
      BY <1>9, <2>7, <3>2, ScoreGrows
    <3>4. more >= less
      BY <2>4, <2>5, <3>3
    <3> QED BY <3>4 DEF WorkNeverHurts, more, less, c
  <2>8. CASE Cardinality(I) >= 3 /\ Dates(b, I) = {}
    <3>1. I = {o \in LiveProjects(c, p) : ProjectScore(b, r, o) > 0}
      BY <1>3 DEF I, Related
    <3>2. \A o \in I : Latest(b.projects[o]) = None
      BY <2>8 DEF Dates
    <3> QED BY <2>8, <3>1, <3>2 DEF WorkNeverHurts, c
  <2> QED BY <2>6, <2>7, <2>8
<1> QED BY <1>8, <1>9

\* The share of the preferred conditions that are met is a fraction.
LEMMA ShareFraction ==
  ASSUME NEW b, NEW p, NEW r
  PROVE  (IF PreferredFields(r) = {} THEN 0
          ELSE (Cardinality(PreferredMet(b, p, r)) * One) \div Cardinality(PreferredFields(r))) \in 0..One
<1>1. PreferredFields(r) \in SUBSET Range(CodeFields)
  BY DEF PreferredFields
<1>2. IsFiniteSet(PreferredFields(r))
  BY <1>1, FieldsAre, FS_Subset
<1>3. PreferredMet(b, p, r) \in SUBSET PreferredFields(r)
  BY DEF PreferredMet
<1> DEFINE n == Cardinality(PreferredFields(r))
           m == Cardinality(PreferredMet(b, p, r))
<1>4. n \in Nat /\ m \in Nat /\ m <= n
  BY <1>2, <1>3, FS_Subset, FS_CardinalityType
<1>5. PreferredFields(r) # {} => n # 0
  BY <1>2, FS_EmptySet
<1>6. One \in Nat
  BY Units
<1> HIDE DEF n, m, One
<1>7. m * One \in Int /\ 0 <= m * One /\ m * One <= One * n /\ 0 * n = 0
  <2>1. m * One <= n * One /\ n * One = One * n
    BY <1>4, <1>6, ProductGrows
  <2>2. m * One \in Nat /\ 0 * n = 0
    BY <1>4, <1>6
  <2> QED BY <2>1, <2>2
<1>8. ASSUME n # 0 PROVE (m * One) \div n \in 0..One
  <2> DEFINE t == m * One
  <2>1. t \in Int /\ t <= One * n /\ 0 * n <= t /\ n \in Int /\ n > 0 /\ One \in Int /\ 0 \in Int
    BY <1>4, <1>6, <1>7, <1>8
  <2> HIDE DEF t
  <2>2. t \div n <= One
    BY <2>1, QuotientAtMost
  <2>3. 0 <= t \div n
    BY <2>1, QuotientAtLeast
  <2>4. t \div n \in Int
    BY <2>1, Quotient
  <2> QED BY <2>1, <2>2, <2>3, <2>4 DEF t
<1>9. 0 \in 0..One
  BY <1>6
<1> QED BY <1>5, <1>8, <1>9 DEF n, m

LEMMA RanksPositive ==
  ASSUME NEW b, NEW p, NEW S, NEW hits \in Seq(S)
  PROVE  RanksIn(b, hits, p) \in Seq(Nat \ {0})
<1> DEFINE at == {n \in DOMAIN hits : b.items[hits[n]].person = p}
<1>1. at \subseteq Nat \ {0}
  OBVIOUS
<1>2. RanksIn(b, hits, p) = When(at # {}, CHOOSE n \in at : TRUE)
  BY DEF RanksIn
<1> HIDE DEF at
<1>3. at # {} => (CHOOSE n \in at : TRUE) \in Nat \ {0}
  BY <1>1
<1> QED BY <1>2, <1>3, WhenHolds

\* The shares that are read, ranked and shown are fractions.
Fractional(results) == \A n \in DOMAIN results : results[n].ratio \in 0..One

RatiosBounded ==
  /\ step = "projects" => \A row \in read.people : read.ratio[row.person] \in 0..One
  /\ Fractional(read.results)
  /\ Answered => Fractional(Answer.results)

RatiosInv == SearchInv /\ RatiosBounded

LEMMA RatiosStay ==
  ASSUME RatiosInv, read'.results = read.results, step' \notin {"projects", "done"}
  PROVE  RatiosBounded'
BY DEF RatiosInv, RatiosBounded, Fractional, Answered

LEMMA ReadPreferredRatios ==
  ASSUME RatiosInv, ReadPreferred
  PROVE  RatiosBounded'
<1> DEFINE share(p) == IF PreferredFields(request) = {} THEN 0
                       ELSE (Cardinality(PreferredMet(base, p, request)) * One)
                            \div Cardinality(PreferredFields(request))
           ratio == [p \in {row.person : row \in read.people} |-> share(p)]
<1>1. read' = [read EXCEPT !.ratio = ratio] /\ Page /\ step' = "projects"
  BY DEF ReadPreferred
<1>2. TypeOK
  BY DEF RatiosInv, SearchInv
<1>3. \A p : share(p) \in 0..One
  BY ShareFraction
<1> HIDE DEF share
<1>4. \A row \in read.people : ratio[row.person] \in 0..One
  BY <1>3
<1> HIDE DEF ratio
<1>5. read'.people = read.people /\ read'.ratio = ratio /\ read'.results = read.results
  BY <1>1, <1>2, ReadWrites
<1> QED BY <1>1, <1>4, <1>5 DEF RatiosInv, RatiosBounded, Fractional, Answered

LEMMA ListedScored ==
  ASSUME NEW b \in Base, NEW r \in Request, NEW S, NEW keyword \in Seq(S), NEW vector \in Seq(S),
         NEW rows, NEW ratio, Rankable(rows, ratio)
  PROVE  Listed(b, r, keyword, vector, rows, ratio) \in
           Seq({Scored(b, r, keyword, vector, ratio, row) : row \in rows})
<1> DEFINE f == [row \in rows |-> Scored(b, r, keyword, vector, ratio, row)]
           scored == {Scored(b, r, keyword, vector, ratio, row) : row \in rows}
           key == [x \in scored |-> SortKey(r.sort, x)]
<1>1. r.sort \in Sorts
  BY DEF Request
<1>2. scored = {f[row] : row \in rows}
  OBVIOUS
<1>3. \A row \in rows : IsScored(f[row]) /\ f[row].person = row.person
  BY ScoredHolds DEF Rankable
<1>4. Listed(b, r, keyword, vector, rows, ratio) = InOrder(scored, key)
  BY DEF Listed, Sorted
<1> HIDE DEF f, scored
<1>5. IsFiniteSet(scored)
  BY <1>2, ImageFinite DEF Rankable
<1>6. \A x \in scored : IsScored(x)
  BY <1>2, <1>3
<1>7. \A x, y \in scored : x.person = y.person => x = y
  BY <1>2, <1>3 DEF Rankable
<1>8. \A x \in scored : IsKey(key[x], KeyLength(r.sort)) /\ key[x][KeyLength(r.sort)] = x.person
  BY <1>1, <1>6, SortKeyIs
<1> HIDE DEF key
<1>9. Keyed(scored, key, KeyLength(r.sort))
  BY <1>7, <1>8 DEF Keyed
<1>10. KeyLength(r.sort) \in Nat
  BY DEF KeyLength
<1>11. InOrder(scored, key) \in Seq(scored)
  BY <1>5, <1>9, <1>10, InOrderHolds
<1> QED BY <1>4, <1>11 DEF scored

LEMMA RankPeopleRatios ==
  ASSUME RatiosInv, RankPeople
  PROVE  RatiosBounded'
<1> DEFINE L == Listed(base, request, read.keyword, read.vector, read.people, read.ratio)
           scored == {Scored(base, request, read.keyword, read.vector, read.ratio, row) : row \in read.people}
           results == read'.results
<1>1. SearchInv /\ step = "projects" /\ step' = "match"
  BY DEF RatiosInv, RankPeople
<1>2. results = PageOf(L, request)
  BY <1>1, RankPeopleLists
<1>3. L \in Seq(scored)
  <2>1. base \in Base /\ request \in Request
    BY <1>1 DEF SearchInv, TypeOK
  <2>2. read.keyword \in Seq(DOMAIN base.items) /\ read.vector \in Seq(DOMAIN base.items)
    BY <1>1 DEF SearchInv, Hits, HitsMet
  <2>3. Rankable(read.people, read.ratio)
    BY <1>1 DEF SearchInv, Rows, Ratios, Rankable
  <2> QED BY <2>1, <2>2, <2>3, ListedScored
<1>4. ASSUME NEW x \in scored PROVE x.ratio \in 0..One
  <2>1. PICK row \in read.people : x = Scored(base, request, read.keyword, read.vector, read.ratio, row)
    OBVIOUS
  <2>2. IsRow(row) /\ read.ratio[row.person] \in 0..One
    BY <1>1 DEF RatiosInv, RatiosBounded, SearchInv, Rows
  <2>3. "ratio" \in DOMAIN row
    BY <2>2 DEF IsRow
  <2>4. \E s : x = [row EXCEPT !.score = s, !.ratio = read.ratio[row.person]]
    BY <2>1 DEF Scored
  <2>5. x.ratio = read.ratio[row.person]
    BY <2>3, <2>4
  <2> QED BY <2>2, <2>5
<1> HIDE DEF L, results, scored
<1>5. request \in Request
  BY <1>1 DEF SearchInv, TypeOK
<1>6. results \in Seq(scored)
  BY <1>2, <1>3, <1>5, PageHolds
<1>7. \A n \in DOMAIN results : results[n] \in scored
  BY <1>6
<1> QED BY <1>1, <1>4, <1>7 DEF RatiosBounded, Fractional, Answered, results

LEMMA RespondRatios ==
  ASSUME RatiosInv, Respond
  PROVE  RatiosBounded'
<1>1. PICK page : pages' = Append(pages, page) /\ page.results = read.results
  <2> DEFINE page == [results |-> read.results,
                      explained |-> [n \in DOMAIN read.results |->
                            LET p == read.results[n].person
                            IN  Explain(base, p, request, read.matches[n], read.top[p],
                                        read.keyword \o read.vector)],
                      total |-> read.total,
                      cut |-> read.cut,
                      suggestions |-> IF read.total = 0 THEN Relaxations(request) ELSE <<>>]
  <2>1. pages' = Append(pages, page)
    BY DEF Respond
  <2>2. page.results = read.results
    OBVIOUS
  <2> HIDE DEF page
  <2> QED BY <2>1, <2>2
<1>2. step' = "done" /\ read' = Nothing
  BY DEF Respond
<1>3. Last(pages') = page
  <2>1. pages \in Seq(Range(pages))
    BY DEF RatiosInv, SearchInv, TypeOK
  <2> QED BY <1>1, <2>1, AppendHolds
<1>4. Fractional(Answer.results)'
  BY <1>1, <1>3 DEF RatiosInv, RatiosBounded, Fractional, Answer
<1>5. read'.results = <<>>
  BY <1>2 DEF Nothing
<1> QED BY <1>2, <1>4, <1>5 DEF RatiosBounded, Fractional

LEMMA ChangeRatios ==
  ASSUME RatiosInv, read' = read, pages' = pages, step' = step
  PROVE  RatiosBounded'
BY DEF RatiosInv, RatiosBounded, Fractional, Answered, Answer

\* What holds of the shares is kept by all that happens in a search.
LEMMA RatiosAreKept ==
  ASSUME RatiosInv, [Next]_vars
  PROVE  RatiosBounded'
<1>1. TypeOK
  BY DEF RatiosInv, SearchInv
<1>2. CASE CheckCodes \/ Embed
  <2>1. read' = read /\ step' \notin {"projects", "done"}
    BY <1>2 DEF CheckCodes, Embed
  <2> QED BY <2>1, RatiosStay
<1>3. CASE ListEligible
  <2>1. \E x : read' = [read EXCEPT !.people = x] /\ step' = "preferred"
    BY <1>3 DEF ListEligible
  <2>2. read'.results = read.results
    BY <1>1, <2>1, ReadWrites
  <2> QED BY <2>1, <2>2, RatiosStay
<1>4. CASE LoadPeople
  <2>1. \E x : read' = [read EXCEPT !.people = x] /\ step' = "preferred"
    BY <1>4 DEF LoadPeople
  <2>2. read'.results = read.results
    BY <1>1, <2>1, ReadWrites
  <2> QED BY <2>1, <2>2, RatiosStay
<1>5. CASE ReadKeyword
  <2>1. (\E x, y : read' = [read EXCEPT !.keyword = x, !.cut = y]) /\ step' \in {"embed", "load"}
    BY <1>5 DEF ReadKeyword
  <2>2. read'.results = read.results
    BY <1>1, <2>1 DEF TypeOK, Nothing
  <2> QED BY <2>1, <2>2, RatiosStay
<1>6. CASE ReadVector
  <2>1. (\E x, y : read' = [read EXCEPT !.vector = x, !.cut = y]) /\ step' = "load"
    BY <1>6 DEF ReadVector
  <2>2. read'.results = read.results
    BY <1>1, <2>1 DEF TypeOK, Nothing
  <2> QED BY <2>1, <2>2, RatiosStay
<1>7. CASE ReadMatches
  <2>1. \E x : read' = [read EXCEPT !.matches = x] /\ step' = "explain"
    BY <1>7 DEF ReadMatches
  <2>2. read'.results = read.results
    BY <1>1, <2>1, ReadWrites
  <2> QED BY <2>1, <2>2, RatiosStay
<1>8. CASE NextPage
  <2>1. read' = read /\ step' = "check"
    BY <1>8 DEF NextPage
  <2> QED BY <2>1, RatiosStay
<1>9. CASE PersonDeleted \/ ProfileEdited \/ ProjectDeleted \/ DocumentDeleted \/ Reindexed
  <2>1. PICK new : Edit(new)
    BY <1>9, EditsAre
  <2>2. read' = read /\ pages' = pages /\ step' = step
    BY <2>1 DEF Edit
  <2> QED BY <2>2, ChangeRatios
<1>10. CASE UNCHANGED vars
  BY <1>10, ChangeRatios DEF vars
<1> QED BY <1>2, <1>3, <1>4, <1>5, <1>6, <1>7, <1>8, <1>9, <1>10,
           ReadPreferredRatios, RankPeopleRatios, RespondRatios DEF Next

LEMMA WorkHelps ==
  ASSUME RatiosInv
  PROVE  RelatedWorkNeverHurts
<1>1. base \in Base /\ request \in Request /\ TypeOK /\ Met
  BY DEF RatiosInv, SearchInv, TypeOK
<1>2. HitsMet(KeywordHits(base, request).hits) /\ HitsMet(VectorHits(base, request).hits)
  BY <1>1, ChannelsMeet
<1>3. ASSUME NEW p
      PROVE  RanksIn(base, KeywordHits(base, request).hits, p) \o RanksIn(base, VectorHits(base, request).hits, p)
               \in Seq(Nat \ {0})
  <2>1. /\ RanksIn(base, KeywordHits(base, request).hits, p) \in Seq(Nat \ {0})
        /\ RanksIn(base, VectorHits(base, request).hits, p) \in Seq(Nat \ {0})
    BY <1>2, RanksPositive DEF HitsMet
  <2> QED BY <2>1, JoinedSeq
<1>4. ASSUME Answered, NEW n \in DOMAIN Answer.results,
             NEW j \in LiveProjects(base, Answer.results[n].person)
      PROVE  WorkNeverHurts(base, request, Answer.results[n].person, j,
               RanksIn(base, KeywordHits(base, request).hits, Answer.results[n].person)
                 \o RanksIn(base, VectorHits(base, request).hits, Answer.results[n].person),
               Answer.results[n].ratio)
  <2>1. Answer.results[n].ratio \in 0..One
    BY <1>4 DEF RatiosInv, RatiosBounded, Fractional
  <2> QED BY <1>1, <1>3, <1>4, <2>1, MoreWork
<1> QED BY <1>4 DEF RelatedWorkNeverHurts, WorkNeverHurts, Without

\* For any base, any request and any changes: one more related project never
\* lowers the score of a person who is found, unless it is the only dated one
\* beside three or more without dates (summarize_persons in
\* modules/search/project_ranking.py, compute_final_relevance in
\* modules/search/ranking.py). A part that becomes active takes weight from the
\* others; there is room for it, since the others weigh at most 75.
THEOREM MoreWorkNeverHurts == Spec => []RelatedWorkNeverHurts
<1>1. Init => RatiosBounded
  <2> SUFFICES ASSUME Init PROVE RatiosBounded
    OBVIOUS
  <2>1. step = "check" /\ read.results = <<>>
    BY DEF Init, Nothing
  <2> QED BY <2>1 DEF RatiosBounded, Fractional, Answered
<1>2. SearchInv /\ RatiosBounded /\ [Next]_vars => RatiosBounded'
  BY RatiosAreKept DEF RatiosInv
<1>3. SearchInv /\ RatiosBounded => RelatedWorkNeverHurts
  BY WorkHelps DEF RatiosInv
<1> QED BY <1>1, <1>2, <1>3, SearchInvariant, PTL DEF Spec

=============================================================================
