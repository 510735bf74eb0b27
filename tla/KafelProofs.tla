---------------------------- MODULE KafelProofs ----------------------------
(***************************************************************************)
(* From the rules of a policy to the program, for every list of rules,     *)
(* every call, every width of a word and every reach of a jump.            *)
(*                                                                         *)
(* normalize_ranges returns ranges that follow each other without a gap    *)
(* from 0 on, of which each says of every number in it what the rules say  *)
(* of that number.  The code that is emitted for them, back to front,      *)
(* decides as they do: the comparisons on the words of an argument, the    *)
(* chain of the rules of a range, the tree over the ranges, the prelude.   *)
(*                                                                         *)
(* The loops and the machine are recursive functions.  That these exist,   *)
(* and what they yield, is shown from the least number at which it would   *)
(* fail.                                                                   *)
(***************************************************************************)
EXTENDS KafelRanges, KafelCompare, KafelReverse, TLAPS, FiniteSetTheorems,
        SequenceTheorems

-----------------------------------------------------------------------------
(* Numbers.                                                                *)

LEMMA LeastNat ==
    ASSUME NEW S \in SUBSET Nat, S # {}
    PROVE  \E m \in S : \A k \in S : m <= k
<1> DEFINE T == {0..m : m \in S}
           R == StrictSubsetOrdering(Nat)
<1>1. IsWellFoundedOn(R, FiniteSubsetsOf(Nat))
  BY FS_StrictSubsetOrderingWellFounded
<1>2. T \subseteq FiniteSubsetsOf(Nat) /\ T # {}
  <2>1. \A m \in S : IsFiniteSet(0..m) /\ 0..m \in SUBSET Nat
    BY FS_Interval
  <2>. QED  BY <2>1 DEF FiniteSubsetsOf
<1>3. PICK x \in T : \A y \in T : ~ (<<y, x>> \in R)
  <2> HIDE DEF T, R
  <2>. QED  BY <1>1, <1>2, WFMin
<1>4. PICK m \in S : x = 0..m
  OBVIOUS
<1>5. ASSUME NEW k \in S, k < m PROVE FALSE
  <2>1. 0..k \in SUBSET Nat /\ 0..m \in SUBSET Nat /\ 0..k \subseteq 0..m
    BY <1>5
  <2>2. m \in 0..m /\ m \notin 0..k
    BY <1>5
  <2>3. <<0..k, 0..m>> \in R
    BY <2>1, <2>2 DEF StrictSubsetOrdering
  <2>. QED  BY <1>3, <1>4, <2>3
<1>. QED  BY <1>5

\* What holds of 0, and of n + 1 if of n, holds up to any bound.
LEMMA UpTo ==
    ASSUME NEW N \in Nat, NEW P, 0 \in P, \A n \in 0..N : n < N /\ n \in P => n + 1 \in P
    PROVE  \A n \in 0..N : n \in P
<1> DEFINE S == {n \in 0..N : n \notin P}
<1> SUFFICES ASSUME S # {} PROVE FALSE
  OBVIOUS
<1>1. S \in SUBSET Nat
  OBVIOUS
<1> HIDE DEF S
<1>2. PICK m \in S : \A k \in S : m <= k
  BY <1>1, LeastNat
<1>3. m \in 0..N /\ m \notin P /\ m # 0
  BY <1>2 DEF S
<1>4. m - 1 \in 0..N /\ ~(m <= m - 1) /\ m - 1 < N /\ (m - 1) + 1 = m
  BY <1>3
<1>5. m - 1 \notin S
  BY <1>2, <1>4
<1>6. m - 1 \in P
  BY <1>4, <1>5 DEF S
<1> QED BY <1>3, <1>4, <1>6

\* A function that is defined step by step exists: T[<<n, x>>] is what step n makes
\* of the result x of the steps before it.
StepByStep(f, N, S, a, T) ==
    /\ f \in [0..N -> S] /\ f[0] = a
    /\ \A n \in 1..N : f[n] = T[<<n, f[n - 1]>>]

LEMMA StepsExist ==
    ASSUME NEW N \in Nat, NEW S, NEW a \in S, NEW T \in [(1..N) \X S -> S]
    PROVE  \E f : StepByStep(f, N, S, a, T)
<1> DEFINE Steps(f, k) == /\ f \in [0..k -> S] /\ f[0] = a
                          /\ \A n \in 1..k : f[n] = T[<<n, f[n - 1]>>]
           P == {k \in 0..N : \E f \in [0..k -> S] : Steps(f, k)}
<1>1. 0 \in P
  <2> DEFINE z == [n \in 0..0 |-> a]
  <2>1. z \in [0..0 -> S] /\ z[0] = a
    OBVIOUS
  <2> HIDE DEF z
  <2>2. 1..0 = {}
    OBVIOUS
  <2>3. Steps(z, 0)
    BY <2>1, <2>2
  <2> QED BY <2>1, <2>3
<1>2. ASSUME NEW k \in 0..N, k < N, k \in P PROVE k + 1 \in P
  <2>1. PICK f \in [0..k -> S] : Steps(f, k)
    BY <1>2
  <2> DEFINE g == [n \in 0..(k + 1) |-> IF n <= k THEN f[n] ELSE T[<<k + 1, f[k]>>]]
  <2>2. f[k] \in S /\ k + 1 \in 1..N /\ k \in Nat
    BY <1>2, <2>1
  <2>3. T[<<k + 1, f[k]>>] \in S
    BY <2>2
  <2>4. g \in [0..(k + 1) -> S]
    BY <2>2, <2>3
  <2>5. g[0] = a
    BY <2>1, <2>2
  <2>6. ASSUME NEW n \in 1..(k + 1) PROVE g[n] = T[<<n, g[n - 1]>>]
    <3>1. g[n - 1] = f[n - 1]
      BY <2>2
    <3>2. CASE n <= k
      <4>1. n \in 1..k /\ g[n] = f[n]
        BY <2>2, <3>2
      <4>2. f[n] = T[<<n, f[n - 1]>>]
        BY <2>1, <4>1
      <4> HIDE DEF g
      <4> QED BY <3>1, <4>1, <4>2
    <3>3. CASE ~(n <= k)
      <4>1. n = k + 1 /\ n - 1 = k /\ g[n] = T[<<k + 1, f[k]>>]
        BY <2>2, <3>3
      <4> HIDE DEF g
      <4> QED BY <3>1, <4>1
    <3> QED BY <3>2, <3>3
  <2> HIDE DEF g
  <2>7. Steps(g, k + 1)
    BY <2>4, <2>5, <2>6
  <2> QED BY <2>2, <2>4, <2>7
<1> HIDE DEF P
<1>3. N \in P
  BY <1>1, <1>2, UpTo
<1> QED BY <1>3 DEF P, StepByStep

\* How many elements of a finite set of numbers are smaller than x.
Rank(S, x) == Cardinality(Smaller(S, x))

LEMMA RankType ==
    ASSUME NEW S \in SUBSET Int, IsFiniteSet(S), NEW x \in S
    PROVE  IsFiniteSet(Smaller(S, x)) /\ Rank(S, x) \in 0..(Cardinality(S) - 1)
<1>1. Smaller(S, x) \in SUBSET S /\ x \notin Smaller(S, x)
  BY DEF Smaller
<1>2. IsFiniteSet(Smaller(S, x))
  BY <1>1, FS_Subset
<1>3. Rank(S, x) \in Nat /\ Cardinality(S) \in Nat
  BY <1>2, FS_CardinalityType DEF Rank
<1>4. Rank(S, x) <= Cardinality(S) /\ Rank(S, x) # Cardinality(S)
  BY <1>1, FS_Subset DEF Rank
<1>5. Rank(S, x) \in 0..(Cardinality(S) - 1)
  BY <1>3, <1>4
<1>. QED  BY <1>2, <1>5

LEMMA RankGrows ==
    ASSUME NEW S \in SUBSET Int, IsFiniteSet(S), NEW x \in S, NEW y \in S, x < y
    PROVE  Rank(S, x) < Rank(S, y)
<1>1. Smaller(S, x) \in SUBSET Smaller(S, y) /\ Smaller(S, x) # Smaller(S, y)
  <2>1. x \in Int /\ y \in Int
    OBVIOUS
  <2>2. \A z \in S : z < x => z < y
    <3> SUFFICES ASSUME NEW z \in Int, z < x PROVE z < y
      OBVIOUS
    <3>. QED  BY <2>1
  <2>3. x \in Smaller(S, y) /\ x \notin Smaller(S, x)
    BY <2>1 DEF Smaller
  <2>. QED  BY <2>2, <2>3 DEF Smaller
<1>2. IsFiniteSet(Smaller(S, y))
  BY RankType
<1>3. Rank(S, x) <= Rank(S, y) /\ Rank(S, x) # Rank(S, y)
  BY <1>1, <1>2, FS_Subset DEF Rank
<1>4. Rank(S, x) \in Nat /\ Rank(S, y) \in Nat
  <2>1. /\ Rank(S, x) \in 0..(Cardinality(S) - 1)
        /\ Rank(S, y) \in 0..(Cardinality(S) - 1)
    BY RankType
  <2>. QED  BY <2>1
<1>. QED  BY <1>3, <1>4

IsAscending(s) == \A i, j \in 1..Len(s) : i < j => s[i] < s[j]

\* The keys come in their order, and all of them.
LEMMA AscendingSorts ==
    ASSUME NEW S \in SUBSET Int, IsFiniteSet(S)
    PROVE  /\ Ascending(S) \in Seq(S)
           /\ IsAscending(Ascending(S))
           /\ S = {Ascending(S)[i] : i \in 1..Len(Ascending(S))}
<1> DEFINE n == Cardinality(S)
           s == Ascending(S)
           rank == [x \in S |-> Rank(S, x)]
<1>1. n \in Nat
  BY FS_CardinalityType
<1>2. rank \in [S -> 0..(n - 1)]
  BY RankType
<1>3. \A x, y \in S : Rank(S, x) = Rank(S, y) => x = y
  <2> SUFFICES ASSUME NEW x \in S, NEW y \in S, Rank(S, x) = Rank(S, y), x # y
               PROVE  FALSE
    OBVIOUS
  <2>1. Rank(S, x) \in Int
    BY RankType, <1>1
  <2>2. x < y \/ y < x
    OBVIOUS
  <2>. QED  BY <2>1, <2>2, RankGrows
<1>4. rank \in Injection(S, 0..(n - 1))
  BY <1>2, <1>3 DEF Injection, IsInjective
<1>5. rank \in Surjection(S, 0..(n - 1))
  <2>1. IsFiniteSet(0..(n - 1)) /\ Cardinality(0..(n - 1)) = n
    BY <1>1, FS_Interval
  <2> HIDE DEF rank
  <2>. QED  BY <1>4, <2>1, FS_Injection
<1>6. \A i \in 1..n : s[i] \in S /\ Rank(S, s[i]) = i - 1
  <2> SUFFICES ASSUME NEW i \in 1..n PROVE s[i] \in S /\ Rank(S, s[i]) = i - 1
    OBVIOUS
  <2>1. i - 1 \in 0..(n - 1)
    BY <1>1
  <2>2. \E x \in S : rank[x] = i - 1
    BY <1>5, <2>1 DEF Surjection
  <2>3. \E x \in S : Cardinality(Smaller(S, x)) = i - 1
    BY <2>2 DEF Rank
  <2>4. s[i] = CHOOSE x \in S : Cardinality(Smaller(S, x)) = i - 1
    BY DEF Ascending
  <2>. QED  BY <2>3, <2>4 DEF Rank
<1>7. s \in Seq(S) /\ Len(s) = n
  BY <1>1, <1>6 DEF Ascending
<1> HIDE DEF s
<1>8. ASSUME NEW i \in 1..n, NEW j \in 1..n, i < j PROVE s[i] < s[j]
  <2>1. s[i] \in S /\ s[j] \in S /\ Rank(S, s[i]) = i - 1 /\ Rank(S, s[j]) = j - 1
    BY <1>6
  <2>2. ~ (s[j] < s[i])
    <3> SUFFICES ASSUME s[j] < s[i] PROVE FALSE
      OBVIOUS
    <3>1. Rank(S, s[j]) < Rank(S, s[i])
      BY <2>1, RankGrows
    <3>. QED  BY <1>1, <1>8, <2>1, <3>1
  <2>3. s[i] # s[j]
    BY <1>1, <1>8, <2>1
  <2>4. s[i] \in Int /\ s[j] \in Int
    BY <2>1
  <2>. QED  BY <2>2, <2>3, <2>4
<1>9. ASSUME NEW x \in S PROVE \E i \in 1..n : x = s[i]
  <2>1. Rank(S, x) \in 0..(n - 1)
    BY RankType
  <2>2. PICK i \in 1..n : i - 1 = Rank(S, x)
    BY <1>1, <2>1
  <2>3. s[i] \in S /\ Rank(S, s[i]) = Rank(S, x)
    BY <1>6, <2>2
  <2>. QED  BY <1>3, <2>3
<1>10. IsAscending(s)
  BY <1>7, <1>8 DEF IsAscending
<1>11. S = {s[i] : i \in 1..Len(s)}
  BY <1>6, <1>7, <1>9
<1>. QED  BY <1>7, <1>10, <1>11 DEF s

-----------------------------------------------------------------------------
(* Lists of ranges.                                                        *)

\* Ranges whose actions are in A and whose mappings are in M.
RangeIn(A, M) ==
    {r \in [first : Nat, last : Nat, action : A, mappings : M] : r.first <= r.last}

Ascends(s)    == \A i, j \in DOMAIN s : i < j => s[i].last < s[j].first
Contiguous(s) == \A i \in DOMAIN s : i + 1 \in DOMAIN s => s[i].last + 1 = s[i + 1].first

\* Some range of s has the number nr.
Covers(s, nr) == \E i \in DOMAIN s : nr \in s[i].first .. s[i].last

\* Every range says of its numbers what want does.
Says(r, want) ==
    \A nr \in r.first .. r.last :
        r.action = want[nr].action /\ r.mappings = want[nr].mappings
AllSay(s, want) == \A i \in DOMAIN s : Says(s[i], want)

\* No two neighbours could be one range.
Compact(s) ==
    \A i \in DOMAIN s : i + 1 \in DOMAIN s =>
        ~(s[i].last + 1 = s[i + 1].first /\ SameUnconditionalAction(s[i], s[i + 1]))

\* push_range, in the two cases it distinguishes.
Merges(s, r) ==
    /\ s # <<>> /\ s[Len(s)].last + 1 = r.first
    /\ SameUnconditionalAction(s[Len(s)], r)

LEMMA ReplaceLast ==
    ASSUME NEW S, NEW s \in Seq(S), Len(s) > 0, NEW u \in S
    PROVE  LET t == [s EXCEPT ![Len(s)] = u]
           IN  /\ t \in Seq(S) /\ Len(t) = Len(s) /\ DOMAIN t = 1..Len(s) /\ t # <<>>
               /\ t[Len(s)] = u /\ \A i \in 1..(Len(s) - 1) : t[i] = s[i]
<1>1. PICK n \in Nat : n = Len(s) /\ n > 0 /\ DOMAIN s = 1..n /\ \A i \in 1..n : s[i] \in S
  OBVIOUS
<1> DEFINE t == [s EXCEPT ![n] = u]
<1>2. DOMAIN t = 1..n /\ t[n] = u /\ \A i \in 1..(n - 1) : t[i] = s[i]
  BY <1>1
<1>3. t = [i \in 1..n |-> t[i]] /\ \A i \in 1..n : t[i] \in S
  BY <1>1, <1>2
<1> HIDE DEF t
<1>4. t \in Seq(S) /\ Len(t) = n
  BY <1>1, <1>3
<1> QED BY <1>1, <1>2, <1>4 DEF t

LEMMA PushCases ==
    ASSUME NEW A, NEW M, NEW s \in Seq(RangeIn(A, M)), NEW r \in RangeIn(A, M)
    PROVE  LET t == PushRange(s, r)
               n == Len(s)
           IN  /\ n \in Nat /\ DOMAIN s = 1..n
               /\ Merges(s, r) =>
                      /\ n > 0 /\ DOMAIN t = 1..n /\ Len(t) = n
                      /\ \A i \in 1..(n - 1) : t[i] = s[i]
                      /\ t[n].first = s[n].first /\ t[n].last = r.last
                      /\ t[n].action = s[n].action /\ t[n].mappings = s[n].mappings
                      /\ t[n] \in RangeIn(A, M)
               /\ ~Merges(s, r) =>
                      /\ DOMAIN t = 1..(n + 1) /\ Len(t) = n + 1
                      /\ \A i \in 1..n : t[i] = s[i]
                      /\ t[n + 1] = r
               /\ t \in Seq(RangeIn(A, M)) /\ t # <<>>
<1> DEFINE t == PushRange(s, r)
           n == Len(s)
           u == [s[n] EXCEPT !.last = r.last]
           RS == RangeIn(A, M)
<1>1. n \in Nat /\ DOMAIN s = 1..n /\ (s # <<>> => n > 0) /\ \A i \in 1..n : s[i] \in RS
  OBVIOUS
<1>2. CASE Merges(s, r)
  <2>1. n > 0 /\ n \in 1..n /\ s[n] \in RS
    BY <1>1, <1>2 DEF Merges
  <2>2. t = [s EXCEPT ![n] = u]
    BY <1>2 DEF PushRange, Merges, Last
  <2>3. /\ u.first = s[n].first /\ u.last = r.last
        /\ u.action = s[n].action /\ u.mappings = s[n].mappings
        /\ u \in [first : Nat, last : Nat, action : A, mappings : M]
    BY <2>1 DEF RangeIn
  <2>4. s[n].first <= s[n].last /\ s[n].last + 1 = r.first /\ r.first <= r.last
        /\ s[n].first \in Nat /\ s[n].last \in Nat /\ r.first \in Nat /\ r.last \in Nat
    BY <1>2, <2>1 DEF Merges, RangeIn
  <2>5. u \in RS /\ s \in Seq(RS)
    <3>1. u.first <= u.last
      <4> HIDE DEF u, n
      <4> QED BY <2>3, <2>4
    <3> HIDE DEF u
    <3>2. u \in RS
      BY <2>3, <3>1 DEF RangeIn
    <3> QED BY <3>2
  <2> HIDE DEF u, RS, t
  <2>6. /\ t \in Seq(RS) /\ Len(t) = n /\ DOMAIN t = 1..n /\ t # <<>>
        /\ t[n] = u /\ \A i \in 1..(n - 1) : t[i] = s[i]
    BY <2>1, <2>2, <2>5, ReplaceLast
  <2> QED BY <1>1, <1>2, <2>1, <2>3, <2>5, <2>6 DEF t, RS
<1>3. CASE ~Merges(s, r)
  <2>1. t = Append(s, r)
    BY <1>3 DEF PushRange, Merges, Last
  <2> HIDE DEF t
  <2>2. r \in RS /\ s \in Seq(RS)
    OBVIOUS
  <2> HIDE DEF RS
  <2>3. t \in Seq(RS) /\ Len(t) = n + 1 /\ DOMAIN t = 1..(n + 1) /\ t[n + 1] = r
        /\ t # <<>> /\ \A i \in 1..n : t[i] = s[i]
    BY <1>1, <2>1, <2>2
  <2> QED BY <1>1, <1>3, <2>3 DEF t, RS
<1> QED BY <1>2, <1>3

LEMMA RangeNumbers ==
    ASSUME NEW A, NEW M, NEW r \in RangeIn(A, M)
    PROVE  r.first \in Nat /\ r.last \in Nat /\ r.first <= r.last
BY DEF RangeIn

LEMMA PushSays ==
    ASSUME NEW A, NEW M, NEW s \in Seq(RangeIn(A, M)), NEW r \in RangeIn(A, M),
           NEW want, AllSay(s, want), Says(r, want)
    PROVE  AllSay(PushRange(s, r), want)
<1> DEFINE t == PushRange(s, r)
           n == Len(s)
<1> HIDE DEF t
<1>0. n \in Nat /\ DOMAIN s = 1..n
  BY PushCases
<1>1. CASE Merges(s, r)
  <2>1. /\ n > 0 /\ DOMAIN t = 1..n /\ \A i \in 1..(n - 1) : t[i] = s[i]
        /\ t[n].first = s[n].first /\ t[n].last = r.last
        /\ t[n].action = s[n].action /\ t[n].mappings = s[n].mappings
    BY <1>1, PushCases DEF t
  <2>2. /\ s[n].last + 1 = r.first /\ s[n].action = r.action
        /\ s[n].mappings = r.mappings
    BY <1>1 DEF Merges, SameUnconditionalAction
  <2>3. Says(s[n], want)
    BY <1>0, <2>1 DEF AllSay
  <2>4. s[n] \in RangeIn(A, M)
    BY <1>0, <2>1
  <2>5. ASSUME NEW nr \in t[n].first .. t[n].last
        PROVE  t[n].action = want[nr].action /\ t[n].mappings = want[nr].mappings
    <3>1. nr \in s[n].first .. s[n].last \/ nr \in r.first .. r.last
      BY <2>1, <2>2, <2>4, RangeNumbers
    <3> QED BY <2>1, <2>2, <2>3, <3>1 DEF Says
  <2>6. Says(t[n], want)
    BY <2>5 DEF Says
  <2>7. ASSUME NEW i \in 1..n PROVE Says(t[i], want)
    <3>1. CASE i = n
      BY <2>6, <3>1
    <3>2. CASE i # n
      <4>1. i \in 1..(n - 1)
        <5>1. n \in Nat /\ i \in 1..n
          BY <1>0, <2>7
        <5> HIDE DEF n
        <5> QED BY <3>2, <5>1
      <4>2. t[i] = s[i] /\ i \in DOMAIN s
        BY <1>0, <2>1, <4>1
      <4> QED BY <4>2 DEF AllSay
    <3> QED BY <3>1, <3>2
  <2> QED BY <2>1, <2>7 DEF AllSay, t
<1>2. CASE ~Merges(s, r)
  <2>1. DOMAIN t = 1..(n + 1) /\ t[n + 1] = r /\ \A i \in 1..n : t[i] = s[i]
    BY <1>2, PushCases DEF t
  <2>2. ASSUME NEW i \in 1..(n + 1) PROVE Says(t[i], want)
    <3>1. CASE i = n + 1
      BY <2>1, <3>1
    <3>2. CASE i # n + 1
      <4>1. i \in 1..n
        BY <1>0, <3>2
      <4>2. t[i] = s[i] /\ i \in DOMAIN s
        BY <1>0, <2>1, <4>1
      <4> QED BY <4>2 DEF AllSay
    <3> QED BY <3>1, <3>2
  <2> QED BY <2>1, <2>2 DEF AllSay, t
<1> QED BY <1>1, <1>2

\* Both ends of a list after a push.
LEMMA PushEnds ==
    ASSUME NEW A, NEW M, NEW s \in Seq(RangeIn(A, M)), NEW r \in RangeIn(A, M)
    PROVE  LET t == PushRange(s, r)
           IN  /\ t \in Seq(RangeIn(A, M)) /\ t # <<>> /\ Len(t) \in Nat \ {0}
               /\ t[Len(t)].last = r.last
               /\ t[1].first = IF s = <<>> THEN r.first ELSE s[1].first
<1> DEFINE t == PushRange(s, r)
           n == Len(s)
<1> HIDE DEF t
<1>0. n \in Nat /\ t \in Seq(RangeIn(A, M)) /\ t # <<>> /\ (s = <<>> <=> n = 0)
  BY PushCases DEF t
<1>1. CASE Merges(s, r)
  <2>1. /\ n > 0 /\ Len(t) = n /\ \A i \in 1..(n - 1) : t[i] = s[i]
        /\ t[n].first = s[n].first /\ t[n].last = r.last
    BY <1>1, PushCases DEF t
  <2>2. t[1].first = s[1].first
    BY <1>0, <2>1
  <2> QED BY <1>0, <2>1, <2>2 DEF t
<1>2. CASE ~Merges(s, r)
  <2>1. Len(t) = n + 1 /\ t[n + 1] = r /\ \A i \in 1..n : t[i] = s[i]
    BY <1>2, PushCases DEF t
  <2>2. s # <<>> => t[1] = s[1]
    BY <1>0, <2>1
  <2>3. s = <<>> => t[1] = r
    BY <1>0, <2>1
  <2> QED BY <1>0, <2>1, <2>2, <2>3 DEF t
<1> QED BY <1>1, <1>2

\* What two neighbours of the pushed list are.
LEMMA PushNeighbours ==
    ASSUME NEW A, NEW M, NEW s \in Seq(RangeIn(A, M)), NEW r \in RangeIn(A, M),
           NEW i \in DOMAIN PushRange(s, r), i + 1 \in DOMAIN PushRange(s, r)
    PROVE  LET t == PushRange(s, r)
           IN  \/ /\ i \in DOMAIN s /\ i + 1 \in DOMAIN s
                  /\ t[i] = s[i] /\ t[i + 1].first = s[i + 1].first
                  /\ t[i + 1].action = s[i + 1].action
                  /\ t[i + 1].mappings = s[i + 1].mappings
               \/ /\ ~Merges(s, r) /\ s # <<>> /\ i = Len(s)
                  /\ t[i] = s[Len(s)] /\ t[i + 1] = r
<1> DEFINE t == PushRange(s, r)
           n == Len(s)
<1> HIDE DEF t
<1>0. n \in Nat /\ DOMAIN s = 1..n /\ (s = <<>> <=> n = 0) /\ i \in DOMAIN t /\ i + 1 \in DOMAIN t
  BY PushCases DEF t
<1>1. CASE Merges(s, r)
  <2>1. /\ n > 0 /\ DOMAIN t = 1..n /\ \A j \in 1..(n - 1) : t[j] = s[j]
        /\ t[n].first = s[n].first
        /\ t[n].action = s[n].action /\ t[n].mappings = s[n].mappings
    BY <1>1, PushCases DEF t
  <2>2. i \in 1..(n - 1) /\ (i + 1 = n \/ i + 1 \in 1..(n - 1))
    BY <1>0, <2>1
  <2>3. t[i] = s[i] /\ i \in DOMAIN s /\ i + 1 \in DOMAIN s
    BY <1>0, <2>1, <2>2
  <2> QED BY <2>1, <2>2, <2>3 DEF t
<1>2. CASE ~Merges(s, r)
  <2>1. DOMAIN t = 1..(n + 1) /\ t[n + 1] = r /\ \A j \in 1..n : t[j] = s[j]
    BY <1>2, PushCases DEF t
  <2>2. i \in 1..n /\ (i = n \/ i + 1 \in 1..n)
    BY <1>0, <2>1
  <2>3. CASE i = n
    BY <1>0, <1>2, <2>1, <2>2, <2>3 DEF t
  <2>4. CASE i + 1 \in 1..n
    BY <1>0, <2>1, <2>2, <2>4 DEF t
  <2> QED BY <2>2, <2>3, <2>4
<1> QED BY <1>1, <1>2

LEMMA PushCompact ==
    ASSUME NEW A, NEW M, NEW s \in Seq(RangeIn(A, M)), NEW r \in RangeIn(A, M),
           Compact(s)
    PROVE  Compact(PushRange(s, r))
<1> DEFINE t == PushRange(s, r)
<1> SUFFICES ASSUME NEW i \in DOMAIN t, i + 1 \in DOMAIN t,
                    t[i].last + 1 = t[i + 1].first, SameUnconditionalAction(t[i], t[i + 1])
             PROVE  FALSE
  BY DEF Compact
<1> HIDE DEF t
<1>1. CASE i \in DOMAIN s /\ i + 1 \in DOMAIN s
           /\ t[i] = s[i] /\ t[i + 1].first = s[i + 1].first
           /\ t[i + 1].action = s[i + 1].action
           /\ t[i + 1].mappings = s[i + 1].mappings
  BY <1>1 DEF Compact, SameUnconditionalAction
<1>2. CASE ~Merges(s, r) /\ s # <<>> /\ t[i] = s[Len(s)] /\ t[i + 1] = r
  BY <1>2 DEF Merges
<1> QED BY <1>1, <1>2, PushNeighbours DEF t

LEMMA PushContiguous ==
    ASSUME NEW A, NEW M, NEW s \in Seq(RangeIn(A, M)), NEW r \in RangeIn(A, M),
           Contiguous(s), s # <<>> => s[Len(s)].last + 1 = r.first
    PROVE  Contiguous(PushRange(s, r))
<1> DEFINE t == PushRange(s, r)
<1> SUFFICES ASSUME NEW i \in DOMAIN t, i + 1 \in DOMAIN t
             PROVE  t[i].last + 1 = t[i + 1].first
  BY DEF Contiguous
<1> HIDE DEF t
<1>1. CASE i \in DOMAIN s /\ i + 1 \in DOMAIN s
           /\ t[i] = s[i] /\ t[i + 1].first = s[i + 1].first
  BY <1>1 DEF Contiguous
<1>2. CASE s # <<>> /\ t[i] = s[Len(s)] /\ t[i + 1] = r
  BY <1>2
<1> QED BY <1>1, <1>2, PushNeighbours DEF t

LEMMA PushAscends ==
    ASSUME NEW A, NEW M, NEW s \in Seq(RangeIn(A, M)), NEW r \in RangeIn(A, M),
           Ascends(s), s # <<>> => s[Len(s)].last < r.first
    PROVE  Ascends(PushRange(s, r))
<1> DEFINE t == PushRange(s, r)
           n == Len(s)
<1> SUFFICES ASSUME NEW i \in DOMAIN t, NEW j \in DOMAIN t, i < j
             PROVE  t[i].last < t[j].first
  BY DEF Ascends
<1> HIDE DEF t
<1>0. n \in Nat /\ DOMAIN s = 1..n /\ (s = <<>> <=> n = 0) /\ \A k \in 1..n : s[k] \in RangeIn(A, M)
  BY PushCases
<1>1. CASE Merges(s, r)
  <2>1. /\ n > 0 /\ DOMAIN t = 1..n /\ \A k \in 1..(n - 1) : t[k] = s[k]
        /\ t[n].first = s[n].first
    BY <1>1, PushCases DEF t
  <2>2. t[i] = s[i] /\ t[j].first = s[j].first /\ i \in DOMAIN s /\ j \in DOMAIN s
    BY <1>0, <2>1
  <2> QED BY <2>2 DEF Ascends
<1>2. CASE ~Merges(s, r)
  <2>1. DOMAIN t = 1..(n + 1) /\ t[n + 1] = r /\ \A k \in 1..n : t[k] = s[k]
    BY <1>2, PushCases DEF t
  <2>2. i \in 1..n /\ t[i] = s[i] /\ n > 0
    BY <1>0, <2>1
  <2>3. CASE j \in 1..n
    <3>1. t[j] = s[j]
      BY <2>1, <2>3
    <3> QED BY <1>0, <2>2, <2>3, <3>1 DEF Ascends
  <2>4. CASE j = n + 1
    <3>1. s[i].last <= s[n].last
      <4>1. CASE i = n
        BY <1>0, <2>2, <4>1, RangeNumbers
      <4>2. CASE i # n
        <5>1. i < n /\ i \in DOMAIN s /\ n \in DOMAIN s
          BY <1>0, <2>2, <4>2
        <5>2. s[i].last < s[n].first
          BY <5>1 DEF Ascends
        <5>3. s[i] \in RangeIn(A, M) /\ s[n] \in RangeIn(A, M)
          BY <1>0, <5>1
        <5>4. /\ s[i].last \in Nat /\ s[n].first \in Nat /\ s[n].last \in Nat
              /\ s[n].first <= s[n].last
          BY <5>3, RangeNumbers
        <5> QED BY <5>2, <5>4
      <4> QED BY <4>1, <4>2
    <3>2. s[i].last \in Nat /\ s[n].last \in Nat /\ r.first \in Nat
      <4>1. s[i] \in RangeIn(A, M) /\ s[n] \in RangeIn(A, M)
        BY <1>0, <2>2
      <4> QED BY <4>1, RangeNumbers
    <3>3. s[n].last < r.first
      BY <1>0, <2>2
    <3> QED BY <2>1, <2>2, <2>4, <3>1, <3>2, <3>3
  <2> QED BY <1>0, <2>1, <2>3, <2>4
<1> QED BY <1>1, <1>2

LEMMA PushCovers ==
    ASSUME NEW A, NEW M, NEW s \in Seq(RangeIn(A, M)), NEW r \in RangeIn(A, M),
           NEW nr \in Nat, Covers(s, nr) \/ nr \in r.first .. r.last
    PROVE  Covers(PushRange(s, r), nr)
<1> DEFINE t == PushRange(s, r)
           n == Len(s)
<1> HIDE DEF t
<1>0. n \in Nat /\ DOMAIN s = 1..n /\ \A k \in 1..n : s[k] \in RangeIn(A, M)
  BY PushCases
<1>1. CASE Merges(s, r)
  <2>1. /\ n > 0 /\ DOMAIN t = 1..n /\ \A k \in 1..(n - 1) : t[k] = s[k]
        /\ t[n].first = s[n].first /\ t[n].last = r.last
    BY <1>1, PushCases DEF t
  <2>2. /\ s[n].last + 1 = r.first /\ s[n].first \in Nat /\ s[n].last \in Nat
        /\ s[n].first <= s[n].last /\ r.last \in Nat /\ r.first <= r.last
    <3>1. s[n] \in RangeIn(A, M) /\ s[n].last + 1 = r.first
      BY <1>0, <1>1, <2>1 DEF Merges
    <3> QED BY <3>1, RangeNumbers
  <2>3. n \in DOMAIN t
    BY <1>0, <2>1
  <2>4. CASE nr \in r.first .. r.last
    <3>1. nr \in t[n].first .. t[n].last
      BY <2>1, <2>2, <2>4
    <3> QED BY <2>3, <3>1 DEF Covers, t
  <2>5. ASSUME NEW k \in DOMAIN s, nr \in s[k].first .. s[k].last
        PROVE  Covers(t, nr)
    <3>1. CASE k = n
      <4>1. nr \in t[n].first .. t[n].last
        BY <2>1, <2>2, <2>5, <3>1
      <4> QED BY <2>3, <4>1 DEF Covers
    <3>2. CASE k # n
      <4>1. k \in 1..(n - 1) /\ k \in DOMAIN t
        BY <1>0, <2>1, <3>2
      <4>2. t[k] = s[k]
        BY <2>1, <4>1
      <4> QED BY <2>5, <4>1, <4>2 DEF Covers
    <3> QED BY <3>1, <3>2
  <2> QED BY <2>4, <2>5 DEF Covers, t
<1>2. CASE ~Merges(s, r)
  <2>1. DOMAIN t = 1..(n + 1) /\ t[n + 1] = r /\ \A k \in 1..n : t[k] = s[k]
    BY <1>2, PushCases DEF t
  <2>2. n + 1 \in DOMAIN t /\ \A k \in DOMAIN s : k \in DOMAIN t /\ t[k] = s[k]
    BY <1>0, <2>1
  <2> QED BY <2>1, <2>2 DEF Covers, t
<1> QED BY <1>1, <1>2

-----------------------------------------------------------------------------
(* The rules, number by number.                                            *)

\* What the rules say of each number: of one that no rule has, the default.
Said(rules, default) ==
    [nr \in Nat |->
        IF nr \in Numbers(rules)
        THEN [action   |-> ToRange(nr, rules, default).action,
              mappings |-> ToRange(nr, rules, default).mappings]
        ELSE [action |-> default, mappings |-> <<>>]]

SaidActions(rules, default)  == {default} \cup {ToRange(nr, rules, default).action : nr \in Nat}
SaidMappings(rules, default) == {<<>>} \cup {ToRange(nr, rules, default).mappings : nr \in Nat}
SaidRanges(rules, default) ==
    RangeIn(SaidActions(rules, default), SaidMappings(rules, default))

LEMMA ToRangeSays ==
    ASSUME NEW rules, NEW default, NEW nr \in Nat
    PROVE  LET r == ToRange(nr, rules, default)
           IN  /\ r \in SaidRanges(rules, default)
               /\ r.first = nr /\ r.last = nr
               /\ nr \in Numbers(rules) => Says(r, Said(rules, default))
<1> DEFINE r == ToRange(nr, rules, default)
<1>1. r.first = nr /\ r.last = nr
  BY DEF ToRange
<1>2. r = [first |-> nr, last |-> nr, action |-> r.action, mappings |-> r.mappings]
  BY Zenon DEF ToRange
<1>3. r.action \in SaidActions(rules, default) /\ r.mappings \in SaidMappings(rules, default)
  BY DEF SaidActions, SaidMappings
<1> HIDE DEF r
<1>4. r \in SaidRanges(rules, default)
  BY <1>1, <1>2, <1>3 DEF SaidRanges, RangeIn
<1>5. ASSUME nr \in Numbers(rules) PROVE Says(r, Said(rules, default))
  <2>1. ASSUME NEW k \in r.first .. r.last PROVE k = nr
    BY <1>1
  <2>2. Said(rules, default)[nr] = [action |-> r.action, mappings |-> r.mappings]
    BY <1>5 DEF Said, r
  <2> QED BY <2>1, <2>2 DEF Says
<1> QED BY <1>1, <1>4, <1>5 DEF r

LEMMA DefaultRangeIs ==
    ASSUME NEW rules, NEW default, NEW a \in Nat, NEW b \in Nat, a <= b
    PROVE  /\ DefaultRange(a, b, default) \in SaidRanges(rules, default)
           /\ DefaultRange(a, b, default).first = a
           /\ DefaultRange(a, b, default).last = b
<1>1. default \in SaidActions(rules, default) /\ <<>> \in SaidMappings(rules, default)
  BY DEF SaidActions, SaidMappings
<1> QED BY <1>1 DEF DefaultRange, SaidRanges, RangeIn

\* A range of the default action over numbers that no rule has.
LEMMA DefaultRangeSays ==
    ASSUME NEW rules, NEW default, NEW a \in Nat, NEW b \in Nat, a <= b,
           (a..b) \cap Numbers(rules) = {}
    PROVE  Says(DefaultRange(a, b, default), Said(rules, default))
<1> DEFINE r == DefaultRange(a, b, default)
<1>1. r.first = a /\ r.last = b /\ r.action = default /\ r.mappings = <<>>
  BY DEF DefaultRange
<1>2. ASSUME NEW nr \in a..b
      PROVE  Said(rules, default)[nr] = [action |-> default, mappings |-> <<>>]
  <2>1. nr \in Nat /\ nr \notin Numbers(rules)
    OBVIOUS
  <2> QED BY <2>1 DEF Said
<1> HIDE DEF r
<1>3. Says(r, Said(rules, default))
  BY <1>1, <1>2 DEF Says
<1> QED BY <1>3 DEF r

\* The numbers of a list of rules, and their order.
LEMMA KeysAre ==
    ASSUME NEW R, NEW rules \in Seq(R), \A r \in R : r.nr \in Nat
    PROVE  LET keys == Ascending(Numbers(rules))
           IN  /\ Numbers(rules) \in SUBSET Nat
               /\ keys \in Seq(Numbers(rules)) /\ IsAscending(keys)
               /\ Numbers(rules) = {keys[i] : i \in 1..Len(keys)}
               /\ rules # <<>> => Len(keys) > 0
<1> DEFINE S == Numbers(rules)
           d == 1..Len(rules)
           nrs == [i \in d |-> rules[i].nr]
<1>1. Len(rules) \in Nat /\ DOMAIN rules = d /\ \A i \in d : rules[i] \in R
  OBVIOUS
<1>2. S = {rules[i].nr : i \in d} /\ S \in SUBSET Nat
  BY <1>1 DEF Numbers
<1>3. nrs \in Surjection(d, S)
  BY <1>2 DEF Surjection
<1>4. IsFiniteSet(d)
  BY <1>1, FS_Interval
<1>5. IsFiniteSet(S)
  BY <1>3, <1>4, FS_Surjection
<1>6. S \in SUBSET Int
  BY <1>2
<1>7. rules # <<>> => S # {}
  <2>1. rules # <<>> => 1 \in d
    BY <1>1
  <2> QED BY <1>2, <2>1
<1> HIDE DEF S, d, nrs
<1>8. /\ Ascending(S) \in Seq(S) /\ IsAscending(Ascending(S))
      /\ S = {Ascending(S)[i] : i \in 1..Len(Ascending(S))}
  BY <1>5, <1>6, AscendingSorts
<1>9. S # {} => Len(Ascending(S)) > 0
  <2>1. Len(Ascending(S)) \in Nat
    BY <1>8
  <2>2. Len(Ascending(S)) = 0 => 1..Len(Ascending(S)) = {}
    OBVIOUS
  <2> QED BY <1>8, <2>1, <2>2
<1> QED BY <1>2, <1>7, <1>8, <1>9 DEF S

-----------------------------------------------------------------------------
(* merge_adjacent_unconditional.                                           *)

LEMMA GroupIs ==
    ASSUME NEW R, NEW rules \in Seq(R), \A r \in R : r.nr \in Nat, NEW default
    PROVE  LET g == GroupSyscalls(rules, default)
               keys == Ascending(Numbers(rules))
           IN  /\ g \in Seq(SaidRanges(rules, default))
               /\ Len(g) = Len(keys) /\ Len(g) \in Nat
               /\ \A i \in 1..Len(g) : g[i] = ToRange(keys[i], rules, default)
<1> DEFINE keys == Ascending(Numbers(rules))
           g == GroupSyscalls(rules, default)
           RS == SaidRanges(rules, default)
<1>1. Numbers(rules) \in SUBSET Nat /\ keys \in Seq(Numbers(rules))
  BY KeysAre
<1> HIDE DEF keys
<1>2. PICK n \in Nat : n = Len(keys) /\ DOMAIN keys = 1..n /\ \A i \in 1..n : keys[i] \in Nat
  BY <1>1
<1>3. g = [i \in 1..n |-> ToRange(keys[i], rules, default)]
  BY <1>2 DEF GroupSyscalls, keys
<1>4. \A i \in 1..n : ToRange(keys[i], rules, default) \in RS
  BY <1>2, ToRangeSays
<1> HIDE DEF g, RS
<1>5. g \in [1..n -> RS] /\ \A i \in 1..n : g[i] = ToRange(keys[i], rules, default)
  BY <1>3, <1>4
<1>6. g \in Seq(RS) /\ Len(g) = n
  BY <1>2, <1>5
<1> QED BY <1>2, <1>5, <1>6 DEF g, keys, RS

LEMMA MergedSteps ==
    ASSUME NEW A, NEW M, NEW ranges \in Seq(RangeIn(A, M))
    PROVE  LET f == Merged(ranges)
           IN  /\ f[0] = <<>>
               /\ \A n \in 1..Len(ranges) : f[n] = PushRange(f[n - 1], ranges[n])
<1> DEFINE N == Len(ranges)
           S == Seq(RangeIn(A, M))
           T == [p \in (1..N) \X S |-> PushRange(p[2], ranges[p[1]])]
<1>1. N \in Nat /\ DOMAIN ranges = 1..N /\ \A n \in 1..N : ranges[n] \in RangeIn(A, M)
  OBVIOUS
<1>2. ASSUME NEW n \in 1..N, NEW s \in S
      PROVE  PushRange(s, ranges[n]) \in S /\ T[<<n, s>>] = PushRange(s, ranges[n])
  <2>1. PushRange(s, ranges[n]) \in S
    BY <1>1, PushCases
  <2> QED BY <2>1
<1>3. \A p \in (1..N) \X S : p[1] \in 1..N /\ p[2] \in S /\ PushRange(p[2], ranges[p[1]]) \in S
  <2> TAKE p \in (1..N) \X S
  <2>1. p[1] \in 1..N /\ p[2] \in S
    OBVIOUS
  <2> QED BY <1>2, <2>1
<1>4. T \in [(1..N) \X S -> S]
  BY <1>3
<1> DEFINE a == <<>>
<1>5. a \in S
  OBVIOUS
<1> HIDE DEF S, T, N, a
<1>6. PICK f \in [0..N -> S] :
          f[0] = a /\ \A n \in 1..N : f[n] = T[<<n, f[n - 1]>>]
  <2>1. N \in Nat
    BY <1>1
  <2>2. PICK f : StepByStep(f, N, S, a, T)
    BY <1>4, <1>5, <2>1, StepsExist
  <2> QED BY <2>2 DEF StepByStep
<1>7. ASSUME NEW n \in 1..N PROVE f[n] = PushRange(f[n - 1], ranges[n])
  <2>1. n - 1 \in 0..N
    BY <1>1
  <2>2. f[n - 1] \in S
    BY <1>6, <2>1
  <2> QED BY <1>2, <1>6, <2>2
<1>8. ASSUME NEW n \in 0..N
      PROVE  f[n] = IF n = 0 THEN <<>> ELSE PushRange(f[n - 1], ranges[n])
  <2>1. n # 0 => n \in 1..N
    BY <1>1
  <2> QED BY <1>6, <1>7, <2>1 DEF a
<1>9. f = [n \in 0..N |-> IF n = 0 THEN <<>> ELSE PushRange(f[n - 1], ranges[n])]
  BY <1>6, <1>8 DEF a
<1>10. Merged(ranges)
         = [n \in 0..N |-> IF n = 0 THEN <<>> ELSE PushRange(Merged(ranges)[n - 1], ranges[n])]
  <2> HIDE DEF PushRange
  <2> QED BY <1>9 DEF Merged, N
<1> DEFINE m == Merged(ranges)
<1> HIDE DEF m
<1>11. m = [n \in 0..N |-> IF n = 0 THEN <<>> ELSE PushRange(m[n - 1], ranges[n])]
  BY <1>10 DEF m
<1>12. 0 \in 0..N /\ \A n \in 1..N : n \in 0..N /\ n # 0
  BY <1>1
<1> QED BY <1>11, <1>12 DEF m, N

\* What merging keeps: the ranges say what the rules say of their numbers, in
\* order, and no number is lost.
MergeInv(s, keys, n, want) ==
    /\ AllSay(s, want) /\ Ascends(s) /\ Compact(s)
    /\ s = <<>> <=> n = 0
    /\ n > 0 => s[Len(s)].last = keys[n]
    /\ \A i \in 1..n : Covers(s, keys[i])

LEMMA EmptyList ==
    ASSUME NEW A, NEW M, NEW want
    PROVE  /\ <<>> \in Seq(RangeIn(A, M))
           /\ AllSay(<<>>, want) /\ Ascends(<<>>) /\ Compact(<<>>) /\ Contiguous(<<>>)
BY DEF AllSay, Ascends, Compact, Contiguous

LEMMA MergeKeeps ==
    ASSUME NEW R, NEW rules \in Seq(R), \A r \in R : r.nr \in Nat, NEW default
    PROVE  LET g == GroupSyscalls(rules, default)
               keys == Ascending(Numbers(rules))
               m == MergeAdjacentUnconditional(g)
           IN  /\ m \in Seq(SaidRanges(rules, default))
               /\ MergeInv(m, keys, Len(keys), Said(rules, default))
<1> DEFINE g == GroupSyscalls(rules, default)
           keys == Ascending(Numbers(rules))
           want == Said(rules, default)
           A == SaidActions(rules, default)
           M == SaidMappings(rules, default)
           RS == RangeIn(A, M)
           f == Merged(g)
           N == Len(g)
<1>1. /\ Numbers(rules) \in SUBSET Nat /\ keys \in Seq(Numbers(rules)) /\ IsAscending(keys)
      /\ Numbers(rules) = {keys[i] : i \in 1..Len(keys)}
  BY KeysAre
<1>2. g \in Seq(RS) /\ Len(keys) = N /\ N \in Nat
      /\ \A i \in 1..N : g[i] = ToRange(keys[i], rules, default)
  BY GroupIs DEF SaidRanges
<1> HIDE DEF g, keys, want, A, M, f
<1>3. \A i \in 1..N : keys[i] \in Numbers(rules) /\ keys[i] \in Nat
  BY <1>1, <1>2
<1>4. f[0] = <<>> /\ \A n \in 1..N : f[n] = PushRange(f[n - 1], g[n])
  BY <1>2, MergedSteps DEF f
<1>5. ASSUME NEW n \in 1..N
      PROVE  /\ g[n] \in RS /\ g[n].first = keys[n] /\ g[n].last = keys[n]
             /\ Says(g[n], want)
  BY <1>2, <1>3, ToRangeSays DEF want, SaidRanges, A, M
<1> DEFINE P == {n \in 0..N : f[n] \in Seq(RS) /\ MergeInv(f[n], keys, n, want)}
<1>6. 0 \in P
  <2>1. 0 \in 0..N /\ 1..0 = {} /\ ~(0 > 0)
    BY <1>2
  <2> QED BY <1>4, <2>1, EmptyList DEF MergeInv
<1>7. ASSUME NEW n \in 0..N, n < N, n \in P PROVE n + 1 \in P
  <2> DEFINE s == f[n]
             r == g[n + 1]
             t == PushRange(s, r)
  <2>1. n + 1 \in 1..N /\ n + 1 \in 0..N /\ (n + 1) - 1 = n /\ n + 1 # 0 /\ n + 1 > 0
    BY <1>2, <1>7
  <2>2. f[n + 1] = t
    BY <1>4, <2>1
  <2>3. s \in Seq(RS) /\ MergeInv(s, keys, n, want)
    BY <1>7
  <2>4. r \in RS /\ r.first = keys[n + 1] /\ r.last = keys[n + 1] /\ Says(r, want)
    BY <1>5, <2>1
  <2> HIDE DEF s, r, t, P
  <2>5. t \in Seq(RS) /\ t # <<>> /\ t[Len(t)].last = keys[n + 1]
    BY <2>3, <2>4, PushEnds DEF t
  <2>6. s # <<>> => s[Len(s)].last < r.first
    <3> SUFFICES ASSUME n > 0 PROVE keys[n] < keys[n + 1]
      BY <2>3, <2>4 DEF MergeInv
    <3>1. n \in 1..N /\ n + 1 \in 1..N /\ n < n + 1
      BY <2>1
    <3> QED BY <1>1, <1>2, <3>1 DEF IsAscending
  <2>7. AllSay(t, want)
    BY <2>3, <2>4, PushSays DEF MergeInv, t
  <2>8. Ascends(t)
    BY <2>3, <2>4, <2>6, PushAscends DEF MergeInv, t
  <2>9. Compact(t)
    BY <2>3, <2>4, PushCompact DEF MergeInv, t
  <2>10. ASSUME NEW i \in 1..(n + 1) PROVE Covers(t, keys[i])
    <3>1. keys[i] \in Nat /\ keys[n + 1] \in Nat
      <4>1. i \in 1..N
        BY <2>1
      <4> QED BY <1>3, <2>1, <4>1
    <3>2. CASE i = n + 1
      <4>1. keys[i] \in r.first .. r.last
        BY <2>4, <3>1, <3>2
      <4> QED BY <2>3, <2>4, <3>1, <4>1, PushCovers DEF t
    <3>3. CASE i # n + 1
      <4>1. i \in 1..n
        BY <2>1, <3>3
      <4>2. Covers(s, keys[i])
        BY <2>3, <4>1 DEF MergeInv
      <4> QED BY <2>3, <2>4, <3>1, <4>2, PushCovers DEF t
    <3> QED BY <3>2, <3>3
  <2>11. MergeInv(t, keys, n + 1, want)
    BY <2>1, <2>5, <2>7, <2>8, <2>9, <2>10 DEF MergeInv
  <2> QED BY <2>1, <2>2, <2>5, <2>11 DEF P
<1> HIDE DEF P
<1>8. N \in P
  <2>1. N \in 0..N
    BY <1>2
  <2> QED BY <1>2, <1>6, <1>7, <2>1, UpTo
<1>9. f[N] \in Seq(RS) /\ MergeInv(f[N], keys, N, want)
  BY <1>8 DEF P
<1>10. f[N] = MergeAdjacentUnconditional(g)
  BY DEF MergeAdjacentUnconditional, f
<1> QED BY <1>2, <1>9, <1>10 DEF g, keys, want, A, M, SaidRanges

-----------------------------------------------------------------------------
(* fill_gaps.                                                              *)

\* What filling keeps: the ranges say of all numbers below `next` what the rules do.
Filled(s, next, want) ==
    /\ AllSay(s, want) /\ Contiguous(s) /\ Ascends(s) /\ Compact(s)
    /\ s = <<>> => next = 0
    /\ s # <<>> => s[1].first = 0 /\ s[Len(s)].last + 1 = next
    /\ \A nr \in Nat : nr < next => Covers(s, nr)

LEMMA PushFills ==
    ASSUME NEW A, NEW M, NEW s \in Seq(RangeIn(A, M)), NEW r \in RangeIn(A, M),
           NEW want, Filled(s, r.first, want), Says(r, want)
    PROVE  LET t == PushRange(s, r)
           IN  /\ t \in Seq(RangeIn(A, M)) /\ t # <<>>
               /\ Filled(t, r.last + 1, want)
<1> DEFINE t == PushRange(s, r)
<1>1. /\ t \in Seq(RangeIn(A, M)) /\ t # <<>> /\ t[Len(t)].last = r.last
      /\ t[1].first = IF s = <<>> THEN r.first ELSE s[1].first
  BY PushEnds
<1>2. r.first \in Nat /\ r.last \in Nat /\ r.first <= r.last
  BY RangeNumbers
<1>3. AllSay(t, want)
  BY PushSays DEF Filled
<1>4. Compact(t)
  BY PushCompact DEF Filled
<1>5. Contiguous(t)
  BY PushContiguous DEF Filled
<1>6. Ascends(t)
  <2>1. ASSUME s # <<>> PROVE s[Len(s)].last < r.first
    <3>1. Len(s) \in DOMAIN s
      BY <2>1
    <3>2. s[Len(s)] \in RangeIn(A, M)
      BY <3>1
    <3>3. s[Len(s)].last \in Nat /\ s[Len(s)].last + 1 = r.first
      BY <2>1, <3>2, RangeNumbers DEF Filled
    <3> QED BY <3>3
  <2> QED BY <2>1, PushAscends DEF Filled
<1>7. ASSUME NEW nr \in Nat, nr < r.last + 1 PROVE Covers(t, nr)
  <2>1. nr < r.first \/ nr \in r.first .. r.last
    BY <1>2, <1>7
  <2>2. Covers(s, nr) \/ nr \in r.first .. r.last
    BY <2>1 DEF Filled
  <2> QED BY <2>2, PushCovers
<1>8. t[1].first = 0
  BY <1>1 DEF Filled
<1> HIDE DEF t
<1>9. Filled(t, r.last + 1, want)
  BY <1>1, <1>3, <1>4, <1>5, <1>6, <1>7, <1>8 DEF Filled
<1> QED BY <1>1, <1>9 DEF t

LEMMA FillingSteps ==
    ASSUME NEW rules, NEW default, NEW merged \in Seq(SaidRanges(rules, default))
    PROVE  LET h == Filling(merged, default)
           IN  /\ h[0] = [next |-> 0, filled |-> <<>>]
               /\ \A n \in 1..Len(merged) : h[n] = FillGap(h[n - 1], merged[n], default)
<1> DEFINE N == Len(merged)
           RS == SaidRanges(rules, default)
           S == [next : Nat, filled : Seq(RS)]
           T == [p \in (1..N) \X S |-> FillGap(p[2], merged[p[1]], default)]
           a == [next |-> 0, filled |-> <<>>]
<1>1. N \in Nat /\ \A n \in 1..N : merged[n] \in RS
  OBVIOUS
<1>2. ASSUME NEW n \in 1..N, NEW acc \in S
      PROVE  FillGap(acc, merged[n], default) \in S
  <2> DEFINE r == merged[n]
             d == DefaultRange(acc.next, r.first - 1, default)
             s == IF acc.next < r.first THEN PushRange(acc.filled, d) ELSE acc.filled
  <2>1. r \in RS /\ acc.next \in Nat /\ acc.filled \in Seq(RS)
    BY <1>1
  <2>2. r.first \in Nat /\ r.last \in Nat
    BY <2>1, RangeNumbers DEF SaidRanges
  <2>3. ASSUME acc.next < r.first PROVE PushRange(acc.filled, d) \in Seq(RS)
    <3>1. r.first - 1 \in Nat /\ acc.next <= r.first - 1
      BY <2>1, <2>2, <2>3
    <3>2. d \in RS
      BY <2>1, <3>1, DefaultRangeIs
    <3> QED BY <2>1, <3>2, PushCases DEF SaidRanges
  <2>4. s \in Seq(RS)
    BY <2>1, <2>3
  <2>5. FillGap(acc, r, default) = [next |-> r.last + 1, filled |-> PushRange(s, r)]
    BY DEF FillGap
  <2> HIDE DEF s, r
  <2>6. PushRange(s, r) \in Seq(RS) /\ r.last + 1 \in Nat
    BY <2>1, <2>2, <2>4, PushCases DEF SaidRanges
  <2> HIDE DEF RS
  <2>7. FillGap(acc, r, default) \in S
    BY <2>5, <2>6
  <2> QED BY <2>7 DEF r
<1>3. a \in S
  OBVIOUS
<1> HIDE DEF S, RS, N, a
<1>4. \A p \in (1..N) \X S : p[1] \in 1..N /\ p[2] \in S
  OBVIOUS
<1>5. T \in [(1..N) \X S -> S]
  BY <1>2, <1>4
<1>6. ASSUME NEW n \in 1..N, NEW acc \in S
      PROVE  T[<<n, acc>>] = FillGap(acc, merged[n], default)
  OBVIOUS
<1> HIDE DEF T
<1>7. PICK f : StepByStep(f, N, S, a, T)
  <2>1. N \in Nat
    BY <1>1
  <2> QED BY <1>3, <1>5, <2>1, StepsExist
<1>8. f \in [0..N -> S] /\ f[0] = a /\ \A n \in 1..N : f[n] = T[<<n, f[n - 1]>>]
  BY <1>7 DEF StepByStep
<1>9. ASSUME NEW n \in 1..N PROVE f[n] = FillGap(f[n - 1], merged[n], default)
  <2>1. n - 1 \in 0..N
    BY <1>1
  <2>2. f[n - 1] \in S
    BY <1>8, <2>1
  <2> QED BY <1>6, <1>8, <2>2
<1>10. ASSUME NEW n \in 0..N
       PROVE  f[n] = IF n = 0 THEN [next |-> 0, filled |-> <<>>]
                     ELSE FillGap(f[n - 1], merged[n], default)
  <2>1. n # 0 => n \in 1..N
    BY <1>1
  <2> QED BY <1>8, <1>9, <2>1 DEF a
<1>11. f = [n \in 0..N |-> IF n = 0 THEN [next |-> 0, filled |-> <<>>]
                           ELSE FillGap(f[n - 1], merged[n], default)]
  BY <1>8, <1>10
<1> DEFINE h == Filling(merged, default)
<1>12. h = [n \in 0..N |-> IF n = 0 THEN [next |-> 0, filled |-> <<>>]
                           ELSE FillGap(h[n - 1], merged[n], default)]
  <2> HIDE DEF FillGap
  <2> QED BY <1>11 DEF Filling, N
<1> HIDE DEF h
<1>13. 0 \in 0..N /\ \A n \in 1..N : n \in 0..N /\ n # 0
  BY <1>1
<1> QED BY <1>12, <1>13 DEF h, N

\* A number below a range, and above the one before it, is in none.
LEMMA BetweenIsFree ==
    ASSUME NEW A, NEW M, NEW m \in Seq(RangeIn(A, M)), Ascends(m), NEW n \in Nat,
           NEW nr \in Nat,
           n + 1 \in DOMAIN m => nr < m[n + 1].first,
           n > 0 => n \in DOMAIN m /\ m[n].last < nr,
           n = 0 \/ n \in DOMAIN m, n + 1 \in DOMAIN m \/ n = Len(m)
    PROVE  ~Covers(m, nr)
<1> SUFFICES ASSUME NEW k \in DOMAIN m, nr \in m[k].first .. m[k].last
             PROVE  FALSE
  BY DEF Covers
<1>1. Len(m) \in Nat /\ DOMAIN m = 1..Len(m) /\ \A i \in DOMAIN m : m[i] \in RangeIn(A, M)
  OBVIOUS
<1>2. \A i \in DOMAIN m : m[i].first \in Nat /\ m[i].last \in Nat /\ m[i].first <= m[i].last
  BY <1>1, RangeNumbers
<1>3. m[k].first <= nr /\ nr <= m[k].last
  BY <1>2
<1> DEFINE L == Len(m)
<1>4. k \in Nat /\ k >= 1 /\ k <= L
  <2>1. L \in Nat /\ k \in 1..L
    BY <1>1
  <2> HIDE DEF L
  <2> QED BY <2>1
<1>5. CASE k <= n
  <2>1. n > 0 /\ n \in DOMAIN m /\ m[n].last < nr
    BY <1>4, <1>5
  <2>2. CASE k = n
    BY <1>2, <1>3, <2>1, <2>2
  <2>3. CASE k < n
    <3>1. m[k].last < m[n].first
      BY <2>1, <2>3 DEF Ascends
    <3> QED BY <1>2, <1>3, <2>1, <3>1
  <2> QED BY <1>4, <1>5, <2>2, <2>3
<1>6. CASE k = n + 1
  BY <1>2, <1>3, <1>6
<1>7. CASE n + 1 < k
  <2>1. n + 1 \in DOMAIN m
    <3>1. L \in Nat /\ DOMAIN m = 1..L
      BY <1>1
    <3> HIDE DEF L
    <3>2. n + 1 \in 1..L
      BY <1>4, <1>7, <3>1
    <3> QED BY <3>1, <3>2
  <2>2. m[n + 1].last < m[k].first /\ nr < m[n + 1].first
    BY <1>7, <2>1 DEF Ascends
  <2> QED BY <1>2, <1>3, <2>1, <2>2
<1> QED BY <1>4, <1>5, <1>6, <1>7

LEMMA FillKeeps ==
    ASSUME NEW rules, NEW default, NEW m \in Seq(SaidRanges(rules, default)),
           AllSay(m, Said(rules, default)), Ascends(m),
           \A nr \in Nat : nr \in Numbers(rules) => Covers(m, nr)
    PROVE  LET acc == Filling(m, default)[Len(m)]
           IN  /\ acc.filled \in Seq(SaidRanges(rules, default))
               /\ acc.next = IF m = <<>> THEN 0 ELSE m[Len(m)].last + 1
               /\ Filled(acc.filled, acc.next, Said(rules, default))
<1> DEFINE want == Said(rules, default)
           A == SaidActions(rules, default)
           M == SaidMappings(rules, default)
           RS == RangeIn(A, M)
           h == Filling(m, default)
           N == Len(m)
           Next(n) == IF n = 0 THEN 0 ELSE m[n].last + 1
           P == {n \in 0..N : /\ h[n].filled \in Seq(RS) /\ h[n].next = Next(n)
                              /\ Filled(h[n].filled, h[n].next, want)}
<1>1. /\ N \in Nat /\ DOMAIN m = 1..N /\ m \in Seq(RS)
      /\ \A n \in 1..N : m[n] \in RS
      /\ m = <<>> <=> N = 0
  BY DEF SaidRanges
<1>2. h[0] = [next |-> 0, filled |-> <<>>]
      /\ \A n \in 1..N : h[n] = FillGap(h[n - 1], m[n], default)
  BY FillingSteps
<1>3. \A n \in 1..N : m[n].first \in Nat /\ m[n].last \in Nat /\ m[n].first <= m[n].last
  BY <1>1, RangeNumbers
<1>4. 0 \in P
  <2>1. 0 \in 0..N /\ \A nr \in Nat : ~(nr < 0)
    BY <1>1
  <2>2. Filled(<<>>, 0, want)
    BY <2>1, EmptyList DEF Filled
  <2>3. <<>> \in Seq(RS)
    OBVIOUS
  <2> HIDE DEF h, want, RS
  <2>4. h[0].filled = <<>> /\ h[0].next = 0 /\ Next(0) = 0
    BY <1>2
  <2> HIDE DEF Next
  <2> QED BY <2>1, <2>2, <2>3, <2>4
<1> HIDE DEF h, want
<1>5. ASSUME NEW n \in 0..N, n < N, n \in P PROVE n + 1 \in P
  <2> DEFINE s == h[n].filled
             r == m[n + 1]
             d == DefaultRange(Next(n), r.first - 1, default)
             u == PushRange(s, d)
             t == PushRange(IF Next(n) < r.first THEN u ELSE s, r)
  <2>1. n + 1 \in 1..N /\ n + 1 \in 0..N /\ (n + 1) - 1 = n /\ n + 1 # 0 /\ n \in Nat
    BY <1>1, <1>5
  <2>2. s \in Seq(RS) /\ h[n].next = Next(n) /\ Filled(s, Next(n), want)
    BY <1>5
  <2>3. h[n + 1] = [next |-> r.last + 1, filled |-> t]
    <3>1. h[n + 1] = FillGap(h[n], r, default)
      BY <1>2, <2>1
    <3> QED BY <2>2, <3>1 DEF FillGap
  <2>4. r \in RS /\ r.first \in Nat /\ r.last \in Nat /\ Says(r, want)
    <3>1. r \in RS /\ r.first \in Nat /\ r.last \in Nat
      BY <1>1, <1>3, <2>1
    <3>2. Says(r, want)
      BY <1>1, <2>1 DEF AllSay, want
    <3> QED BY <3>1, <3>2
  <2>5. Next(n) \in Nat /\ Next(n) <= r.first /\ (n # 0 => n \in 1..N /\ Next(n) = m[n].last + 1)
    <3>1. CASE n = 0
      BY <2>4, <3>1
    <3>2. CASE n # 0
      <4>1. n \in 1..N /\ n < n + 1
        BY <1>5, <2>1, <3>2
      <4>2. m[n].last < r.first /\ m[n].last \in Nat
        BY <1>1, <1>3, <2>1, <4>1 DEF Ascends
      <4> QED BY <2>4, <3>2, <4>1, <4>2
    <3> QED BY <3>1, <3>2
  <2>6. ASSUME Next(n) < r.first
        PROVE  u \in Seq(RS) /\ Filled(u, r.first, want)
    <3>1. r.first - 1 \in Nat /\ Next(n) <= r.first - 1 /\ (r.first - 1) + 1 = r.first
      BY <2>4, <2>5, <2>6
    <3>2. ASSUME NEW nr \in Next(n) .. (r.first - 1) PROVE nr \notin Numbers(rules)
      <4>1. nr \in Nat /\ nr < m[n + 1].first /\ Next(n) <= nr
        BY <2>4, <2>5, <3>1
      <4>2. n > 0 => n \in DOMAIN m /\ m[n].last < nr
        BY <1>1, <1>3, <2>1, <2>5, <4>1
      <4>3. n + 1 \in DOMAIN m /\ (n = 0 \/ n \in DOMAIN m)
        BY <1>1, <2>1, <2>5
      <4> HIDE DEF RS, Next
      <4>4. ~Covers(m, nr)
        BY <2>1, <4>1, <4>2, <4>3, BetweenIsFree DEF SaidRanges
      <4> QED BY <4>1, <4>4
    <3>3. d \in RS /\ d.first = Next(n) /\ d.last = r.first - 1 /\ Says(d, want)
      <4> DEFINE a == Next(n)
                 e == r.first - 1
      <4>1. a \in Nat /\ e \in Nat /\ a <= e /\ (a..e) \cap Numbers(rules) = {}
        BY <2>5, <3>1, <3>2
      <4> HIDE DEF a, e
      <4>2. DefaultRange(a, e, default) \in SaidRanges(rules, default)
            /\ DefaultRange(a, e, default).first = a /\ DefaultRange(a, e, default).last = e
        BY <4>1, DefaultRangeIs
      <4>3. Says(DefaultRange(a, e, default), Said(rules, default))
        BY <4>1, DefaultRangeSays
      <4> QED BY <4>2, <4>3 DEF SaidRanges, want, a, e
    <3> HIDE DEF d, s, RS, Next
    <3>4. u \in Seq(RS) /\ Filled(u, d.last + 1, want)
      BY <2>2, <3>3, PushFills DEF RS
    <3> QED BY <3>1, <3>3, <3>4
  <2>7. t \in Seq(RS) /\ Filled(t, r.last + 1, want)
    <3> HIDE DEF u, s, r, RS, Next
    <3>1. CASE Next(n) < r.first
      BY <2>4, <2>6, <3>1, PushFills DEF RS
    <3>2. CASE ~(Next(n) < r.first)
      <4>1. Next(n) = r.first
        BY <2>4, <2>5, <3>2
      <4> QED BY <2>2, <2>4, <3>2, <4>1, PushFills DEF RS
    <3> QED BY <3>1, <3>2
  <2> HIDE DEF t, RS
  <2> QED BY <2>1, <2>3, <2>7
<1> HIDE DEF P
<1>6. N \in P
  <2>1. N \in Nat /\ N \in 0..N
    BY <1>1
  <2> QED BY <1>4, <1>5, <2>1, UpTo
<1> QED BY <1>1, <1>6 DEF P, h, want, SaidRanges

-----------------------------------------------------------------------------
(* normalize_ranges.                                                       *)

LEMMA NormalizeFills ==
    ASSUME NEW R, NEW rules \in Seq(R), \A r \in R : r.nr \in Nat, NEW default
    PROVE  LET ranges == NormalizeRanges(rules, default)
           IN  /\ ranges \in Seq(SaidRanges(rules, default))
               /\ \E next \in Nat :
                      /\ Filled(ranges, next, Said(rules, default))
                      /\ next > MaxSyscallNr
                      /\ (\A nr \in Numbers(rules) : nr <= MaxSyscallNr)
                             => next = MaxSyscallNr + 1
<1> DEFINE want == Said(rules, default)
           RS == SaidRanges(rules, default)
           top == MaxSyscallNr
           ranges == NormalizeRanges(rules, default)
           Fits == \A nr \in Numbers(rules) : nr <= top
<1>0. top \in Nat
  BY MaxSyscallNrIsNat
<1>1. CASE rules = <<>>
  <2> DEFINE d == DefaultRange(0, top, default)
  <2>1. Numbers(rules) = {}
    BY <1>1 DEF Numbers
  <2>2. d \in RS /\ d.first = 0 /\ d.last = top /\ Says(d, want)
    <3>1. 0 \in Nat /\ top \in Nat /\ 0 <= top /\ (0..top) \cap Numbers(rules) = {}
      BY <1>0, <2>1
    <3> HIDE DEF top, RS, want
    <3>2. d \in SaidRanges(rules, default) /\ d.first = 0 /\ d.last = top
      BY <3>1, DefaultRangeIs
    <3>3. Says(d, Said(rules, default))
      BY <3>1, DefaultRangeSays
    <3> QED BY <3>2, <3>3 DEF RS, want
  <2>3. ranges = <<d>>
    BY <1>1 DEF NormalizeRanges
  <2>4. <<d>> = PushRange(<<>>, d)
    BY DEF PushRange
  <2>5. <<>> \in Seq(RS) /\ Filled(<<>>, 0, want)
    <3>1. \A nr \in Nat : ~(nr < 0)
      OBVIOUS
    <3> QED BY <3>1, EmptyList DEF Filled, SaidRanges
  <2> HIDE DEF d, ranges, want, top
  <2>6. ranges \in Seq(RS) /\ Filled(ranges, top + 1, want)
    BY <2>2, <2>3, <2>4, <2>5, PushFills DEF SaidRanges
  <2>7. top + 1 \in Nat /\ top + 1 > top
    BY <1>0
  <2> QED BY <2>6, <2>7 DEF ranges, want, top
<1>2. CASE rules # <<>>
  <2> DEFINE keys == Ascending(Numbers(rules))
             m == MergeAdjacentUnconditional(GroupSyscalls(rules, default))
             acc == Filling(m, default)[Len(m)]
             d == DefaultRange(acc.next, top, default)
  <2>1. /\ Numbers(rules) \in SUBSET Nat /\ keys \in Seq(Numbers(rules))
        /\ Numbers(rules) = {keys[i] : i \in 1..Len(keys)} /\ Len(keys) > 0
    BY <1>2, KeysAre
  <2>2. m \in Seq(RS) /\ MergeInv(m, keys, Len(keys), want)
    BY MergeKeeps
  <2>3. ranges = IF acc.next <= top THEN PushRange(acc.filled, d) ELSE acc.filled
    BY <1>2 DEF NormalizeRanges, FillGaps
  <2> HIDE DEF keys, m, ranges, want, top
  <2>4. Len(keys) \in Nat /\ Len(keys) \in 1..Len(keys)
    BY <2>1
  <2>5. keys[Len(keys)] \in Numbers(rules)
    BY <2>1, <2>4
  <2>6. AllSay(m, want) /\ Ascends(m) /\ m # <<>> /\ m[Len(m)].last = keys[Len(keys)]
    BY <2>1, <2>2, <2>4 DEF MergeInv
  <2>7. ASSUME NEW nr \in Nat, nr \in Numbers(rules) PROVE Covers(m, nr)
    <3>1. PICK i \in 1..Len(keys) : nr = keys[i]
      BY <2>1, <2>7
    <3> QED BY <2>2, <3>1 DEF MergeInv
  <2>8. /\ acc.filled \in Seq(RS) /\ acc.next = m[Len(m)].last + 1
        /\ Filled(acc.filled, acc.next, want)
    BY <2>2, <2>6, <2>7, FillKeeps DEF want
  <2>9. acc.next \in Nat /\ acc.next = keys[Len(keys)] + 1
    <3>1. keys[Len(keys)] \in Nat
      BY <2>1, <2>5
    <3> HIDE DEF acc
    <3> QED BY <2>6, <2>8, <3>1
  <2>10. CASE acc.next <= top
    <3>1. ASSUME NEW nr \in acc.next .. top PROVE nr \notin Numbers(rules)
      <4> DEFINE n == Len(m)
      <4>1. m \in Seq(RangeIn(SaidActions(rules, default), SaidMappings(rules, default)))
        BY <2>2 DEF SaidRanges
      <4>2. n \in Nat /\ n > 0 /\ DOMAIN m = 1..n
        BY <2>2, <2>6
      <4>3. m[n] \in RS
        BY <2>2, <4>2
      <4>4. m[n].last \in Nat /\ m[n].last + 1 = acc.next
        BY <2>8, <4>3, RangeNumbers DEF SaidRanges
      <4>5. nr \in Nat /\ m[n].last < nr
        BY <1>0, <2>9, <4>4
      <4> HIDE DEF n
      <4>6. n \in DOMAIN m /\ n + 1 \notin DOMAIN m
        BY <4>2
      <4>7. ~Covers(m, nr)
        BY <2>6, <4>1, <4>2, <4>5, <4>6, BetweenIsFree DEF n
      <4> QED BY <2>7, <4>5, <4>7
    <3> HIDE DEF acc
    <3>2. d \in RS /\ d.first = acc.next /\ d.last = top /\ Says(d, want)
      <4> DEFINE a == acc.next
      <4>1. a \in Nat /\ top \in Nat /\ a <= top /\ (a..top) \cap Numbers(rules) = {}
        BY <1>0, <2>9, <2>10, <3>1
      <4> HIDE DEF a, top
      <4>2. DefaultRange(a, top, default) \in SaidRanges(rules, default)
        BY <4>1, DefaultRangeIs
      <4>3. DefaultRange(a, top, default).first = a /\ DefaultRange(a, top, default).last = top
        BY DEF DefaultRange
      <4>4. Says(DefaultRange(a, top, default), Said(rules, default))
        BY <4>1, DefaultRangeSays
      <4> QED BY <4>2, <4>3, <4>4 DEF want, a
    <3> HIDE DEF d
    <3>3. PushRange(acc.filled, d) \in Seq(RS) /\ Filled(PushRange(acc.filled, d), top + 1, want)
      BY <2>8, <3>2, PushFills DEF SaidRanges
    <3>4. ranges \in Seq(RS) /\ Filled(ranges, top + 1, want)
      BY <2>3, <2>10, <3>3
    <3>5. top + 1 \in Nat /\ top + 1 > top
      BY <1>0
    <3> QED BY <3>4, <3>5 DEF ranges, want, top
  <2>11. CASE ~(acc.next <= top)
    <3> HIDE DEF acc
    <3>1. acc.next > top
      BY <1>0, <2>9, <2>11
    <3>2. Fits => acc.next = top + 1
      <4>1. Fits => keys[Len(keys)] <= top
        BY <2>5
      <4>2. keys[Len(keys)] \in Nat
        BY <2>1, <2>5
      <4> QED BY <1>0, <2>9, <3>1, <4>1, <4>2
    <3>3. ranges \in Seq(RS) /\ Filled(ranges, acc.next, want)
      BY <2>3, <2>8, <2>11
    <3> QED BY <2>9, <3>1, <3>2, <3>3 DEF ranges, want, top
  <2> QED BY <2>10, <2>11
<1> QED BY <1>1, <1>2

\* What normalize_ranges promises in its doc comment, "a gap-free, sorted list of
\* ranges covering [0, MAX_SYSCALL_NR]", and what the code generator relies on: the
\* range in which a number falls has the action and the conditional rules of that
\* number, or the default action when no rule is about it.  No two neighbours could
\* have been one range.
THEOREM RangesAreRight ==
    ASSUME NEW R, NEW rules \in Seq(R), \A r \in R : r.nr \in Nat, NEW default
    PROVE  LET ranges == NormalizeRanges(rules, default)
               n      == Len(ranges)
           IN  /\ n \in Nat \ {0}
               /\ ranges[1].first = 0 /\ ranges[n].last >= MaxSyscallNr
               /\ (\A nr \in Numbers(rules) : nr <= MaxSyscallNr)
                      => ranges[n].last = MaxSyscallNr
               /\ Contiguous(ranges) /\ Ascends(ranges) /\ Compact(ranges)
               /\ \A nr \in 0..MaxSyscallNr : Covers(ranges, nr)
               /\ \A i \in DOMAIN ranges : \A nr \in ranges[i].first .. ranges[i].last :
                      /\ nr \in Numbers(rules) =>
                             /\ ranges[i].action   = ToRange(nr, rules, default).action
                             /\ ranges[i].mappings = ToRange(nr, rules, default).mappings
                      /\ nr \notin Numbers(rules) =>
                             ranges[i].action = default /\ ranges[i].mappings = <<>>
<1> DEFINE ranges == NormalizeRanges(rules, default)
           n == Len(ranges)
           want == Said(rules, default)
           RS == SaidRanges(rules, default)
<1>1. ranges \in Seq(RS)
  BY NormalizeFills
<1>2. PICK next \in Nat :
          /\ Filled(ranges, next, want) /\ next > MaxSyscallNr
          /\ (\A nr \in Numbers(rules) : nr <= MaxSyscallNr) => next = MaxSyscallNr + 1
  BY NormalizeFills
<1> HIDE DEF ranges, want
<1>3. MaxSyscallNr \in Nat
  BY MaxSyscallNrIsNat
<1>4. ranges # <<>>
  <2>1. next # 0
    BY <1>2, <1>3
  <2> QED BY <1>2, <2>1 DEF Filled
<1>5. n \in Nat \ {0} /\ DOMAIN ranges = 1..n /\ \A i \in 1..n : ranges[i] \in RS
  BY <1>1, <1>4
<1>6. ranges[1].first = 0 /\ ranges[n].last + 1 = next
  BY <1>2, <1>4 DEF Filled
<1>7. ranges[n].last \in Nat
  <2>1. ranges[n] \in RS
    BY <1>5
  <2> QED BY <2>1, RangeNumbers DEF SaidRanges
<1>8. /\ ranges[n].last >= MaxSyscallNr
      /\ (\A nr \in Numbers(rules) : nr <= MaxSyscallNr) => ranges[n].last = MaxSyscallNr
  BY <1>2, <1>3, <1>6, <1>7
<1>9. Contiguous(ranges) /\ Ascends(ranges) /\ Compact(ranges)
  BY <1>2 DEF Filled
<1>10. ASSUME NEW nr \in 0..MaxSyscallNr PROVE Covers(ranges, nr)
  <2>1. nr \in Nat /\ nr < next
    BY <1>2, <1>3
  <2> QED BY <1>2, <2>1 DEF Filled
<1>11. ASSUME NEW i \in DOMAIN ranges, NEW nr \in ranges[i].first .. ranges[i].last
       PROVE  /\ nr \in Numbers(rules) =>
                     /\ ranges[i].action   = ToRange(nr, rules, default).action
                     /\ ranges[i].mappings = ToRange(nr, rules, default).mappings
              /\ nr \notin Numbers(rules) =>
                     ranges[i].action = default /\ ranges[i].mappings = <<>>
  <2>1. ranges[i].action = want[nr].action /\ ranges[i].mappings = want[nr].mappings
    BY <1>2 DEF Filled, AllSay, Says
  <2>2. nr \in Nat
    <3>1. ranges[i] \in RS
      BY <1>5
    <3>2. ranges[i].first \in Nat /\ ranges[i].last \in Nat
      BY <3>1, RangeNumbers DEF SaidRanges
    <3> QED BY <3>2
  <2>3. want[nr] = IF nr \in Numbers(rules)
                   THEN [action   |-> ToRange(nr, rules, default).action,
                         mappings |-> ToRange(nr, rules, default).mappings]
                   ELSE [action |-> default, mappings |-> <<>>]
    BY <2>2 DEF want, Said
  <2> QED BY <2>1, <2>3
<1> HIDE DEF n, RS
<1> QED BY <1>5, <1>6, <1>8, <1>9, <1>10, <1>11 DEF ranges, n

-----------------------------------------------------------------------------
(* Sequences, of whatever elements.                                        *)

IsSeq(s) == s \in Seq({s[i] : i \in 1..Len(s)})

LEMMA SeqIs ==
    ASSUME NEW S, NEW s \in Seq(S)
    PROVE  IsSeq(s)
<1>1. Len(s) \in Nat /\ DOMAIN s = 1..Len(s) /\ s = [i \in 1..Len(s) |-> s[i]]
  OBVIOUS
<1>2. s \in [1..Len(s) -> {s[i] : i \in 1..Len(s)}]
  BY <1>1
<1> QED BY <1>1, <1>2 DEF IsSeq

LEMMA MadeSeq ==
    ASSUME NEW n \in Nat, NEW s, DOMAIN s = 1..n, s = [i \in 1..n |-> s[i]]
    PROVE  IsSeq(s) /\ Len(s) = n
<1>1. s \in [1..n -> {s[i] : i \in 1..n}]
  OBVIOUS
<1>2. s \in Seq({s[i] : i \in 1..n})
  BY <1>1
<1>3. Len(s) = n
  BY <1>2
<1> QED BY <1>2, <1>3 DEF IsSeq

LEMMA SeqHas ==
    ASSUME NEW s, IsSeq(s)
    PROVE  Len(s) \in Nat /\ DOMAIN s = 1..Len(s)
BY DEF IsSeq

LEMMA AppendIs ==
    ASSUME NEW s, IsSeq(s), NEW x
    PROVE  /\ IsSeq(Append(s, x))
           /\ Len(Append(s, x)) = Len(s) + 1
           /\ Append(s, x)[Len(s) + 1] = x
           /\ \A i \in 1..Len(s) : Append(s, x)[i] = s[i]
<1> DEFINE S == {s[i] : i \in 1..Len(s)} \cup {x}
<1>1. s \in Seq(S) /\ x \in S
  BY DEF IsSeq
<1> HIDE DEF S
<1>2. Append(s, x) \in Seq(S)
  BY <1>1
<1>3. IsSeq(Append(s, x))
  BY <1>2, SeqIs
<1> QED BY <1>1, <1>3

LEMMA ConcatIs ==
    ASSUME NEW s, IsSeq(s), NEW t, IsSeq(t)
    PROVE  /\ IsSeq(s \o t)
           /\ Len(s \o t) = Len(s) + Len(t)
           /\ \A i \in 1..Len(s) : (s \o t)[i] = s[i]
           /\ \A i \in 1..Len(t) : (s \o t)[Len(s) + i] = t[i]
<1> DEFINE S == {s[i] : i \in 1..Len(s)} \cup {t[i] : i \in 1..Len(t)}
<1>1. s \in Seq(S) /\ t \in Seq(S)
  BY DEF IsSeq
<1> HIDE DEF S
<1>2. s \o t \in Seq(S)
  BY <1>1
<1>3. IsSeq(s \o t)
  BY <1>2, SeqIs
<1>4. Len(s) \in Nat /\ Len(t) \in Nat
  BY <1>1
<1> QED BY <1>1, <1>3, <1>4

\* What is emitted later stands above what is there.
Extends(s, t) ==
    /\ Len(s) <= Len(t)
    /\ \A i \in 1..Len(s) : t[i] = s[i]

-----------------------------------------------------------------------------
(* The machine.                                                            *)

Step(buf, call, run, at) == [acc \in Nat |-> Outcome(buf[at], at, call, run, acc)]

IsRun(run, n, buf, call) == run = [at \in 1..n |-> Step(buf, call, run, at)]

\* An instruction only looks below itself.
LEMMA StepLooksBelow ==
    ASSUME NEW buf, NEW code, NEW call, NEW run, NEW other, NEW at \in Nat,
           buf[at] = code[at], \A i \in 1..(at - 1) : run[i] = other[i]
    PROVE  Step(buf, call, run, at) = Step(code, call, other, at)
<1>1. ASSUME NEW acc \in Nat
      PROVE  Outcome(buf[at], at, call, run, acc) = Outcome(code[at], at, call, other, acc)
  BY DEF Outcome
<1> QED BY <1>1 DEF Step

LEMMA RunsExist ==
    ASSUME NEW buf, IsSeq(buf), NEW call
    PROVE  IsRun(Runs(buf, call), Len(buf), buf, call)
<1> DEFINE P == {n \in 0..Len(buf) : \E run : IsRun(run, n, buf, call)}
<1>1. Len(buf) \in Nat
  BY SeqHas
<1>2. 0 \in P
  <2> DEFINE none == [at \in 1..0 |-> 0]
  <2>1. \A at : at \notin 1..0
    OBVIOUS
  <2>2. none = [at \in 1..0 |-> Step(buf, call, none, at)]
    BY <2>1
  <2> HIDE DEF none
  <2>3. IsRun(none, 0, buf, call)
    BY <2>2 DEF IsRun
  <2> QED BY <1>1, <2>3
<1>3. ASSUME NEW n \in 0..Len(buf), n < Len(buf), n \in P PROVE n + 1 \in P
  <2>1. PICK run : IsRun(run, n, buf, call)
    BY <1>3
  <2> DEFINE more == [at \in 1..(n + 1) |-> Step(buf, call, run, at)]
  <2>2. n \in Nat
    BY <1>1
  <2>3. ASSUME NEW i \in 1..n PROVE more[i] = run[i]
    BY <2>1, <2>2, <2>3 DEF IsRun
  <2>4. DOMAIN more = 1..(n + 1) /\ \A at \in 1..(n + 1) : more[at] = Step(buf, call, run, at)
    OBVIOUS
  <2>5. more = [at \in 1..(n + 1) |-> more[at]]
    OBVIOUS
  <2> HIDE DEF more
  <2>6. ASSUME NEW at \in 1..(n + 1) PROVE more[at] = Step(buf, call, more, at)
    <3>1. at \in Nat /\ \A i \in 1..(at - 1) : i \in 1..n
      BY <2>2
    <3>2. \A i \in 1..(at - 1) : run[i] = more[i]
      BY <2>3, <3>1
    <3>3. Step(buf, call, run, at) = Step(buf, call, more, at)
      BY <3>1, <3>2, StepLooksBelow
    <3> QED BY <2>4, <3>3
  <2>7. IsRun(more, n + 1, buf, call)
    BY <2>5, <2>6 DEF IsRun
  <2> QED BY <1>1, <1>3, <2>7
<1> HIDE DEF P
<1>4. Len(buf) \in P
  <2> DEFINE N == Len(buf)
  <2>1. \A n \in 0..N : n < N /\ n \in P => n + 1 \in P
    BY <1>3
  <2>2. N \in Nat
    BY <1>1
  <2> HIDE DEF N
  <2>3. \A n \in 0..N : n \in P
    BY <1>2, <2>1, <2>2, UpTo
  <2>4. N \in 0..N
    BY <2>2
  <2>5. N \in P
    BY <2>3, <2>4
  <2> QED BY <2>5 DEF N
<1>5. PICK run : IsRun(run, Len(buf), buf, call)
  BY <1>4 DEF P
<1>6. Runs(buf, call)
        = CHOOSE r : r = [at \in 1..Len(buf) |-> [acc \in Nat |-> Outcome(buf[at], at, call, r, acc)]]
  BY DEF Runs
<1> QED BY <1>5, <1>6 DEF IsRun, Step

LEMMA RunsAt ==
    ASSUME NEW buf, IsSeq(buf), NEW call, NEW at \in 1..Len(buf), NEW acc \in Nat
    PROVE  Runs(buf, call)[at][acc] = Outcome(buf[at], at, call, Runs(buf, call), acc)
<1>1. Runs(buf, call) = [i \in 1..Len(buf) |-> Step(buf, call, Runs(buf, call), i)]
  BY RunsExist DEF IsRun
<1>2. Runs(buf, call)[at] = Step(buf, call, Runs(buf, call), at)
  BY <1>1
<1> QED BY <1>2 DEF Step

\* Code does the same whatever is emitted after it.
LEMMA RunsStay ==
    ASSUME NEW buf, IsSeq(buf), NEW more, IsSeq(more), Extends(buf, more), NEW call
    PROVE  \A at \in 1..Len(buf) : Runs(more, call)[at] = Runs(buf, call)[at]
<1> DEFINE N == Len(buf)
           P == {n \in 0..N : \A at \in 1..n : Runs(more, call)[at] = Runs(buf, call)[at]}
<1>1. Len(buf) \in Nat /\ Len(more) \in Nat /\ Len(buf) <= Len(more)
  BY SeqHas DEF Extends
<1>2. 0 \in P
  BY <1>1
<1>3. \A n \in 0..N : n < N /\ n \in P => n + 1 \in P
  <2> SUFFICES ASSUME NEW n \in 0..N, n < N, n \in P PROVE n + 1 \in P
    OBVIOUS
  <2>1. n + 1 \in 1..Len(buf) /\ n + 1 \in 1..Len(more) /\ n + 1 \in Nat /\ n = (n + 1) - 1
    BY <1>1
  <2>2. \A i \in 1..((n + 1) - 1) : Runs(more, call)[i] = Runs(buf, call)[i]
    BY <2>1
  <2>3. more[n + 1] = buf[n + 1]
    BY <2>1 DEF Extends
  <2>4. Step(more, call, Runs(more, call), n + 1) = Step(buf, call, Runs(buf, call), n + 1)
    BY <2>1, <2>2, <2>3, StepLooksBelow
  <2>5. Runs(more, call) = [i \in 1..Len(more) |-> Step(more, call, Runs(more, call), i)]
    BY RunsExist DEF IsRun
  <2>6. Runs(buf, call) = [i \in 1..Len(buf) |-> Step(buf, call, Runs(buf, call), i)]
    BY RunsExist DEF IsRun
  <2>7. Runs(more, call)[n + 1] = Step(more, call, Runs(more, call), n + 1)
    BY <2>1, <2>5
  <2>8. Runs(buf, call)[n + 1] = Step(buf, call, Runs(buf, call), n + 1)
    BY <2>1, <2>6
  <2>9. Runs(more, call)[n + 1] = Runs(buf, call)[n + 1]
    BY <2>4, <2>7, <2>8
  <2>10. \A at \in 1..(n + 1) : at = n + 1 \/ at \in 1..n
    BY <2>1
  <2> QED BY <1>1, <2>1, <2>9, <2>10
<1>4. N \in Nat
  BY <1>1
<1> HIDE DEF P
<1>5. \A n \in 0..N : n \in P
  BY <1>2, <1>3, <1>4, UpTo
<1>6. N \in P
  BY <1>4, <1>5
<1> QED BY <1>6 DEF P

\* What an instruction that is added does.
LEMMA NextRuns ==
    ASSUME NEW buf, IsSeq(buf), NEW ins, NEW call, NEW acc \in Nat
    PROVE  Runs(Append(buf, ins), call)[Len(buf) + 1][acc]
             = Outcome(ins, Len(buf) + 1, call, Runs(buf, call), acc)
<1> DEFINE more == Append(buf, ins)
           n    == Len(buf) + 1
<1>1. /\ IsSeq(more) /\ Len(more) = n /\ more[n] = ins
      /\ \A i \in 1..Len(buf) : more[i] = buf[i]
  BY AppendIs
<1>2. Len(buf) \in Nat
  BY SeqHas
<1>3. Extends(buf, more)
  BY <1>1, <1>2 DEF Extends
<1>4. n \in 1..Len(more) /\ n \in Nat /\ n - 1 = Len(buf)
  BY <1>1, <1>2
<1> HIDE DEF more
<1>5. \A at \in 1..Len(buf) : Runs(more, call)[at] = Runs(buf, call)[at]
  BY <1>1, <1>3, RunsStay
<1>6. Runs(more, call)[n][acc] = Outcome(ins, n, call, Runs(more, call), acc)
  BY <1>1, <1>4, RunsAt
<1>7. Outcome(ins, n, call, Runs(more, call), acc) = Outcome(ins, n, call, Runs(buf, call), acc)
  BY <1>4, <1>5 DEF Outcome
<1> QED BY <1>6, <1>7 DEF more

-----------------------------------------------------------------------------
(* Targets.                                                                *)

\* The code generator remembers only returns that are there.
IsGenerator(g) ==
    /\ g = [buffer |-> g.buffer, cache |-> g.cache, overflow |-> g.overflow]
    /\ IsSeq(g.buffer)
    /\ g.overflow \in BOOLEAN
    /\ DOMAIN g.cache = Rets
    /\ \A r \in Rets : g.cache[r] # Nowhere
          => g.cache[r] \in 1..Here(g) /\ g.buffer[g.cache[r]] = Stmt("ret", r)

\* Nothing is taken back.
Grows(g, h) == Extends(g.buffer, h.buffer) /\ (g.overflow => h.overflow)

IsTarget(g, target) ==
    \/ \E r \in Rets : target = [to |-> "action", v |-> r]
    \/ \E loc \in 1..Here(g) : target = Location(loc)

\* What a call meets at a target.
Ends(g, target, call, acc) ==
    IF target.to = "action" THEN target.v ELSE Runs(g.buffer, call)[target.v][acc]

\* x is a place in a grown generator where a call meets what it met at the target.
Reaches(x, g, target) ==
    /\ IsGenerator(x.cg)
    /\ Grows(g, x.cg)
    /\ x.cg.overflow = g.overflow
    /\ x.at \in 1..Here(x.cg)
    /\ \A call : \A acc \in Nat : Runs(x.cg.buffer, call)[x.at][acc] = Ends(g, target, call, acc)

LEMMA GrowsOn ==
    ASSUME NEW g, NEW h, NEW i, IsGenerator(g), IsGenerator(h), IsGenerator(i),
           Grows(g, h), Grows(h, i)
    PROVE  Grows(g, i)
<1>1. Len(g.buffer) \in Nat /\ Len(h.buffer) \in Nat /\ Len(i.buffer) \in Nat
  BY SeqHas DEF IsGenerator
<1>2. \A k \in 1..Len(g.buffer) : k \in 1..Len(h.buffer)
  BY <1>1 DEF Grows, Extends
<1> QED BY <1>1, <1>2 DEF Grows, Extends

LEMMA EndsStay ==
    ASSUME NEW g, NEW h, IsGenerator(g), IsGenerator(h), Grows(g, h),
           NEW target, IsTarget(g, target)
    PROVE  /\ IsTarget(h, target)
           /\ \A call : \A acc : Ends(h, target, call, acc) = Ends(g, target, call, acc)
<1>1. Len(g.buffer) \in Nat /\ Len(h.buffer) \in Nat /\ Len(g.buffer) <= Len(h.buffer)
  BY SeqHas DEF IsGenerator, Grows, Extends
<1>2. CASE \E r \in Rets : target = [to |-> "action", v |-> r]
  BY <1>2 DEF IsTarget, Ends
<1>3. CASE \E loc \in 1..Here(g) : target = Location(loc)
  <2>1. PICK loc \in 1..Here(g) : target = Location(loc)
    BY <1>3
  <2>2. loc \in 1..Here(h) /\ target.to # "action" /\ target.v = loc
    BY <1>1, <2>1 DEF Here, Location
  <2>3. \A call : Runs(h.buffer, call)[loc] = Runs(g.buffer, call)[loc]
    BY <2>1, RunsStay DEF IsGenerator, Grows, Here
  <2> QED BY <2>1, <2>2, <2>3 DEF IsTarget, Ends
<1> QED BY <1>2, <1>3 DEF IsTarget

\* An instruction is added to the generator.
LEMMA EmitKeeps ==
    ASSUME NEW g, IsGenerator(g), NEW ins
    PROVE  /\ IsGenerator(Emit(g, ins))
           /\ Grows(g, Emit(g, ins))
           /\ Here(Emit(g, ins)) = Here(g) + 1
           /\ Emit(g, ins).buffer = Append(g.buffer, ins)
           /\ Emit(g, ins).cache = g.cache
           /\ Emit(g, ins).overflow = g.overflow
<1> DEFINE h == Emit(g, ins)
<1>1. /\ h.buffer = Append(g.buffer, ins) /\ h.cache = g.cache /\ h.overflow = g.overflow
      /\ h = [buffer |-> h.buffer, cache |-> h.cache, overflow |-> h.overflow]
  BY DEF IsGenerator, Emit
<1>2. /\ IsSeq(h.buffer) /\ Len(h.buffer) = Len(g.buffer) + 1
      /\ \A i \in 1..Len(g.buffer) : h.buffer[i] = g.buffer[i]
  BY <1>1, AppendIs DEF IsGenerator
<1>3. Len(g.buffer) \in Nat
  BY SeqHas DEF IsGenerator
<1> HIDE DEF h
<1>4. Grows(g, h)
  BY <1>1, <1>2, <1>3 DEF Grows, Extends
<1>5. \A r \in Rets : g.cache[r] # Nowhere
          => g.cache[r] \in 1..Here(h) /\ h.buffer[g.cache[r]] = Stmt("ret", r)
  BY <1>2, <1>3 DEF IsGenerator, Here
<1>6. IsGenerator(h)
  BY <1>1, <1>2, <1>5 DEF IsGenerator
<1> QED BY <1>1, <1>2, <1>4, <1>6 DEF h, Here

LEMMA RetEnds ==
    ASSUME NEW r, NEW at, NEW call, NEW run, NEW acc
    PROVE  Outcome(Stmt("ret", r), at, call, run, acc) = r
BY DEF Outcome, Stmt, Ins

\* An instruction that is added goes on at one that is there.
LEMMA AddedGoesTo ==
    ASSUME NEW buf, IsSeq(buf), NEW ins, ins.code # "ret", ins.code # "exit", NEW call,
           NEW acc \in Nat, NEW to \in 1..Len(buf), Len(buf) - Skipped(ins, acc) = to,
           Loaded(ins, call, acc) \in Nat
    PROVE  Runs(Append(buf, ins), call)[Len(buf) + 1][acc]
             = Runs(buf, call)[to][Loaded(ins, call, acc)]
<1> DEFINE at == Len(buf) + 1
           run == Runs(buf, call)
<1>1. Len(buf) \in Nat
  BY SeqHas
<1>2. Runs(Append(buf, ins), call)[at][acc] = Outcome(ins, at, call, run, acc)
  BY NextRuns
<1>3. at - 1 = Len(buf)
  BY <1>1
<1>4. at - 1 - Skipped(ins, acc) = to /\ to \in 1..(at - 1)
  BY <1>3
<1> HIDE DEF at, run
<1>5. Outcome(ins, at, call, run, acc) = run[to][Loaded(ins, call, acc)]
  BY <1>4 DEF Outcome
<1> QED BY <1>2, <1>5 DEF at, run

\* A return is found or emitted, never out of a jump's reach.
LEMMA ActionResolves ==
    ASSUME NEW g, IsGenerator(g), NEW r \in Rets,
           NEW target, target = [to |-> "action", v |-> r]
    PROVE  /\ Reaches(ResolveAction(g, r), g, target)
           /\ Here(ResolveAction(g, r).cg) <= Here(g) + 1
           /\ LocToJump(ResolveAction(g, r).cg, ResolveAction(g, r).at) <= MaxJump
<1>0. Here(g) \in Nat /\ MaxJump \in Nat
  BY SeqHas, JumpsReachSomewhere DEF IsGenerator, Here
<1>1. CASE g.cache[r] # Nowhere /\ LocToJump(g, g.cache[r]) <= MaxJump
  <2>1. ResolveAction(g, r).cg = g /\ ResolveAction(g, r).at = g.cache[r]
    BY <1>1 DEF ResolveAction, At
  <2>2. g.cache[r] \in 1..Here(g) /\ g.buffer[g.cache[r]] = Stmt("ret", r)
    BY <1>1 DEF IsGenerator
  <2>3. Grows(g, g)
    BY <1>0 DEF Grows, Extends, Here
  <2>4. ASSUME NEW call, NEW acc \in Nat
        PROVE  Runs(g.buffer, call)[g.cache[r]][acc] = r
    BY <2>2, RunsAt, RetEnds DEF IsGenerator, Here
  <2> QED BY <1>0, <1>1, <2>1, <2>2, <2>3, <2>4 DEF Reaches, Ends
<1>2. CASE ~(g.cache[r] # Nowhere /\ LocToJump(g, g.cache[r]) <= MaxJump)
  <2> DEFINE e == Emit(g, Stmt("ret", r))
             h == [e EXCEPT !.cache[r] = Here(g) + 1]
  <2>1. ResolveAction(g, r).cg = h /\ ResolveAction(g, r).at = Here(g) + 1
    BY <1>2 DEF ResolveAction, At
  <2>2. /\ IsGenerator(e) /\ Grows(g, e) /\ Here(e) = Here(g) + 1
        /\ e.buffer = Append(g.buffer, Stmt("ret", r))
        /\ e.cache = g.cache /\ e.overflow = g.overflow
    BY EmitKeeps
  <2> HIDE DEF e
  <2>3. e = [buffer |-> e.buffer, cache |-> e.cache, overflow |-> e.overflow]
    BY <2>2 DEF IsGenerator
  <2>4. /\ h = [buffer |-> e.buffer, cache |-> [e.cache EXCEPT ![r] = Here(g) + 1],
                overflow |-> e.overflow]
    BY <2>3
  <2>5. /\ h.buffer = e.buffer /\ h.overflow = e.overflow
        /\ h.cache = [e.cache EXCEPT ![r] = Here(g) + 1]
        /\ h = [buffer |-> h.buffer, cache |-> h.cache, overflow |-> h.overflow]
    BY <2>4
  <2> HIDE DEF h
  <2>6. e.buffer[Here(g) + 1] = Stmt("ret", r)
    BY <2>2, AppendIs DEF IsGenerator, Here
  <2>7. DOMAIN h.cache = Rets
    BY <2>2, <2>5 DEF IsGenerator
  <2>8. ASSUME NEW q \in Rets, h.cache[q] # Nowhere
        PROVE  h.cache[q] \in 1..Here(h) /\ h.buffer[h.cache[q]] = Stmt("ret", q)
    <3>1. CASE q = r
      <4>1. h.cache[q] = Here(g) + 1
        BY <2>2, <2>5, <3>1 DEF IsGenerator
      <4> QED BY <1>0, <2>2, <2>5, <2>6, <3>1, <4>1 DEF Here
    <3>2. CASE q # r
      <4>1. h.cache[q] = e.cache[q]
        BY <2>2, <2>5, <3>2 DEF IsGenerator
      <4> QED BY <2>2, <2>5, <2>8, <4>1 DEF IsGenerator, Here
    <3> QED BY <3>1, <3>2
  <2>9. IsGenerator(h)
    BY <2>2, <2>5, <2>7, <2>8 DEF IsGenerator
  <2>10. Grows(g, h) /\ Here(h) = Here(g) + 1 /\ h.overflow = g.overflow
    BY <2>2, <2>5 DEF Grows, Here
  <2>11. ASSUME NEW call, NEW acc \in Nat
         PROVE  Runs(h.buffer, call)[Here(g) + 1][acc] = r
    BY <2>2, <2>5, NextRuns, RetEnds DEF IsGenerator, Here
  <2>12. LocToJump(h, Here(g) + 1) = 0
    BY <1>0, <2>10 DEF LocToJump
  <2> QED BY <1>0, <2>1, <2>9, <2>10, <2>11, <2>12 DEF Reaches, Ends
<1> QED BY <1>1, <1>2

LEMMA TargetResolves ==
    ASSUME NEW g, IsGenerator(g), NEW target, IsTarget(g, target)
    PROVE  /\ Reaches(ResolveTarget(g, target), g, target)
           /\ Here(ResolveTarget(g, target).cg) <= Here(g) + 1
           /\ \/ ResolveTarget(g, target).cg = g
              \/ LocToJump(ResolveTarget(g, target).cg, ResolveTarget(g, target).at) <= MaxJump
<1>0. Here(g) \in Nat
  BY SeqHas DEF IsGenerator, Here
<1>1. CASE \E r \in Rets : target = [to |-> "action", v |-> r]
  <2>1. PICK r \in Rets : target = [to |-> "action", v |-> r]
    BY <1>1
  <2>2. ResolveTarget(g, target) = ResolveAction(g, r)
    BY <2>1 DEF ResolveTarget
  <2> QED BY <2>1, <2>2, ActionResolves
<1>2. CASE \E loc \in 1..Here(g) : target = Location(loc)
  <2>1. PICK loc \in 1..Here(g) : target = Location(loc)
    BY <1>2
  <2>2. ResolveTarget(g, target).cg = g /\ ResolveTarget(g, target).at = loc
    BY <2>1 DEF ResolveTarget, Location, At
  <2>3. Grows(g, g)
    BY <1>0 DEF Grows, Extends, Here
  <2>4. target.to # "action" /\ target.v = loc
    BY <2>1 DEF Location
  <2> QED BY <1>0, <2>1, <2>2, <2>3, <2>4 DEF Reaches, Ends
<1> QED BY <1>1, <1>2 DEF IsTarget

\* A trampoline leads where it should, and is within reach.
LEMMA TrampolineLeads ==
    ASSUME NEW g, IsGenerator(g), NEW loc \in 1..Here(g)
    PROVE  /\ Reaches(Trampoline(g, loc), g, Location(loc))
           /\ Here(Trampoline(g, loc).cg) <= Here(g) + 1
           /\ LocToJump(Trampoline(g, loc).cg, Trampoline(g, loc).at) <= MaxJump
           /\ LocToJump(g, loc) <= MaxJump
                => Trampoline(g, loc).cg = g /\ Trampoline(g, loc).at = loc
<1> DEFINE x == Trampoline(g, loc)
<1>0. Here(g) \in Nat /\ MaxJump \in Nat
  BY SeqHas, JumpsReachSomewhere DEF IsGenerator, Here
<1>1. \A call : \A acc : Ends(g, Location(loc), call, acc) = Runs(g.buffer, call)[loc][acc]
  BY DEF Ends, Location
<1>2. CASE LocToJump(g, loc) > MaxJump
  <2> DEFINE ins == Stmt("ja", LocToJump(g, loc))
             h   == Emit(g, ins)
  <2>1. x.cg = h /\ x.at = Here(g) + 1
    BY <1>2 DEF Trampoline, At
  <2>2. /\ IsGenerator(h) /\ Grows(g, h) /\ Here(h) = Here(g) + 1
        /\ h.buffer = Append(g.buffer, ins) /\ h.overflow = g.overflow
    BY EmitKeeps
  <2> HIDE DEF h
  <2>3. ASSUME NEW call, NEW acc \in Nat
        PROVE  Runs(h.buffer, call)[Here(g) + 1][acc] = Runs(g.buffer, call)[loc][acc]
    <3>1. ins.code = "ja" /\ ins.k = Here(g) - loc
      BY DEF Stmt, Ins, LocToJump
    <3> HIDE DEF ins
    <3>2. Skipped(ins, acc) = Here(g) - loc /\ Loaded(ins, call, acc) = acc
      BY <3>1 DEF Skipped, Loaded
    <3>3. Len(g.buffer) - Skipped(ins, acc) = loc /\ loc \in 1..Len(g.buffer)
      BY <1>0, <3>2 DEF Here
    <3> QED BY <2>2, <3>1, <3>2, <3>3, AddedGoesTo DEF IsGenerator, Here
  <2>4. LocToJump(h, Here(g) + 1) = 0
    BY <1>0, <2>2 DEF LocToJump
  <2>5. ~(LocToJump(g, loc) <= MaxJump)
    BY <1>0, <1>2 DEF LocToJump
  <2> HIDE DEF x
  <2> QED BY <1>0, <1>1, <2>1, <2>2, <2>3, <2>4, <2>5 DEF Reaches, x
<1>3. CASE ~(LocToJump(g, loc) > MaxJump)
  <2>1. x.cg = g /\ x.at = loc
    BY <1>3 DEF Trampoline, At
  <2>2. Grows(g, g)
    BY <1>0 DEF Grows, Extends, Here
  <2>3. LocToJump(g, loc) <= MaxJump
    BY <1>0, <1>3 DEF LocToJump
  <2> QED BY <1>0, <1>1, <2>1, <2>2, <2>3 DEF Reaches
<1> QED BY <1>2, <1>3

\* What is reached from a place is reached from what that place reaches.
LEMMA ReachesOn ==
    ASSUME NEW g, IsGenerator(g), NEW target, NEW x, Reaches(x, g, target),
           NEW y, Reaches(y, x.cg, Location(x.at))
    PROVE  Reaches(y, g, target)
<1>1. IsGenerator(x.cg) /\ IsGenerator(y.cg) /\ Grows(g, x.cg) /\ Grows(x.cg, y.cg)
  BY DEF Reaches
<1>2. Grows(g, y.cg)
  BY <1>1, GrowsOn
<1>3. \A call : \A acc : Ends(x.cg, Location(x.at), call, acc) = Runs(x.cg.buffer, call)[x.at][acc]
  BY DEF Ends, Location
<1> QED BY <1>1, <1>2, <1>3 DEF Reaches

LEMMA EnsureLeads ==
    ASSUME NEW g, IsGenerator(g), NEW target, IsTarget(g, target)
    PROVE  /\ Reaches(EnsureJumpableTarget(g, target), g, target)
           /\ Here(EnsureJumpableTarget(g, target).cg) <= Here(g) + 1
           /\ LocToJump(EnsureJumpableTarget(g, target).cg, EnsureJumpableTarget(g, target).at)
                <= MaxJump
<1> DEFINE r == ResolveTarget(g, target)
           x == Trampoline(r.cg, r.at)
<1>1. x = EnsureJumpableTarget(g, target)
  BY DEF EnsureJumpableTarget
<1>2. /\ Reaches(r, g, target) /\ Here(r.cg) <= Here(g) + 1
      /\ r.cg = g \/ LocToJump(r.cg, r.at) <= MaxJump
  BY TargetResolves
<1> HIDE DEF r
<1>3. IsGenerator(r.cg) /\ r.at \in 1..Here(r.cg)
  BY <1>2 DEF Reaches
<1>4. /\ Reaches(x, r.cg, Location(r.at)) /\ Here(x.cg) <= Here(r.cg) + 1
      /\ LocToJump(x.cg, x.at) <= MaxJump
      /\ LocToJump(r.cg, r.at) <= MaxJump => x.cg = r.cg /\ x.at = r.at
  BY <1>3, TrampolineLeads
<1> HIDE DEF x
<1>5. Reaches(x, g, target)
  BY <1>2, <1>4, ReachesOn
<1>6. Here(x.cg) <= Here(g) + 1
  BY <1>2, <1>4
<1> QED BY <1>1, <1>4, <1>5, <1>6

LEMMA Fits ==
    ASSUME NEW m \in Nat, NEW d \in 0..m
    PROVE  d % (m + 1) = d
OBVIOUS

\* A call leaves a conditional jump on the side that its accumulator decides.
LEMMA JumpRuns ==
    ASSUME NEW buf, IsSeq(buf), NEW ins, ins.code \in {"jeq", "jgt", "jge", "jset"},
           NEW call, NEW acc \in Nat, NEW to \in 1..Len(buf),
           Len(buf) - (IF Taken(ins, acc) THEN ins.jt ELSE ins.jf) = to
    PROVE  Runs(Append(buf, ins), call)[Len(buf) + 1][acc] = Runs(buf, call)[to][acc]
<1>1. Skipped(ins, acc) = IF Taken(ins, acc) THEN ins.jt ELSE ins.jf
  BY DEF Skipped
<1>2. Loaded(ins, call, acc) = acc /\ ins.code # "ret" /\ ins.code # "exit"
  BY DEF Loaded
<1> QED BY <1>1, <1>2, AddedGoesTo

\* What add_jump promises of a place x that it yields: who has the number k or a
\* higher one meets t there, the others f, unless a jump has overflowed.
Decided(x, g, k, t, f) ==
    /\ IsGenerator(x.cg)
    /\ Grows(g, x.cg)
    /\ x.at \in 1..Here(x.cg)
    /\ ~x.cg.overflow =>
          \A call : \A acc \in Nat :
              Runs(x.cg.buffer, call)[x.at][acc]
                = IF acc >= k THEN Ends(g, t, call, acc) ELSE Ends(g, f, call, acc)

LEMMA AddJumpDecides ==
    ASSUME NEW g, IsGenerator(g), NEW k \in Nat,
           NEW t, IsTarget(g, t), NEW f, IsTarget(g, f), t # f
    PROVE  /\ Decided(AddJump(g, k, t, f), g, k, t, f)
           /\ AddJump(g, k, t, f).at = Here(AddJump(g, k, t, f).cg)
           /\ AddJump(g, k, t, f).at > Here(g)
           /\ AddJump(g, k, t, f).cg.overflow /\ ~g.overflow
                => LET false == EnsureJumpableTarget(g, f)
                   IN /\ LocToJump(false.cg, false.at) = MaxJump
                      /\ EnsureJumpableTarget(false.cg, t).cg # false.cg
<1> DEFINE false == EnsureJumpableTarget(g, f)
           once  == EnsureJumpableTarget(false.cg, t)
           true  == EnsureJumpableTarget(once.cg, Location(once.at))
           jt    == LocToJump(true.cg, true.at)
           jf    == LocToJump(true.cg, false.at)
           wide  == jt > MaxJump \/ jf > MaxJump
           jump  == Ins("jge", k, jt % (MaxJump + 1), jf % (MaxJump + 1))
           e     == Emit(true.cg, jump)
           h     == [e EXCEPT !.overflow = @ \/ wide]
           x     == AddJump(g, k, t, f)
<1>1. x.cg = h /\ x.at = Here(true.cg) + 1
  BY DEF AddJump, At
<1>2. /\ Reaches(false, g, f) /\ Here(false.cg) <= Here(g) + 1
      /\ LocToJump(false.cg, false.at) <= MaxJump
  BY EnsureLeads
<1> HIDE DEF x, false
<1>3. IsGenerator(false.cg) /\ Grows(g, false.cg) /\ false.cg.overflow = g.overflow
  BY <1>2 DEF Reaches
<1>4. /\ IsTarget(false.cg, t)
      /\ \A call : \A acc : Ends(false.cg, t, call, acc) = Ends(g, t, call, acc)
  BY <1>3, EndsStay
<1>5. /\ Reaches(once, false.cg, t) /\ Here(once.cg) <= Here(false.cg) + 1
      /\ LocToJump(once.cg, once.at) <= MaxJump
  BY <1>3, <1>4, EnsureLeads
<1> HIDE DEF once
<1>6. IsGenerator(once.cg) /\ once.at \in 1..Here(once.cg)
  BY <1>5 DEF Reaches
<1>7. IsTarget(once.cg, Location(once.at))
  BY <1>6 DEF IsTarget
<1>8. true = Trampoline(once.cg, once.at)
  <2>1. ResolveTarget(once.cg, Location(once.at)) = At(once.cg, once.at)
    BY DEF ResolveTarget, Location
  <2>2. At(once.cg, once.at).cg = once.cg /\ At(once.cg, once.at).at = once.at
    BY DEF At
  <2> QED BY <2>1, <2>2 DEF EnsureJumpableTarget
<1>9. Reaches(true, once.cg, Location(once.at)) /\ true.cg = once.cg /\ true.at = once.at
  BY <1>5, <1>6, <1>8, TrampolineLeads
<1>10. Reaches(true, false.cg, t)
  BY <1>3, <1>5, <1>9, ReachesOn
<1> HIDE DEF true
<1>11. /\ IsGenerator(true.cg) /\ Grows(false.cg, true.cg) /\ true.cg.overflow = g.overflow
       /\ true.at \in 1..Here(true.cg)
       /\ \A call : \A acc \in Nat :
             Runs(true.cg.buffer, call)[true.at][acc] = Ends(false.cg, t, call, acc)
  BY <1>3, <1>10 DEF Reaches
<1>12. Grows(g, true.cg)
  BY <1>3, <1>11, GrowsOn
<1>13. /\ false.at \in 1..Here(false.cg)
       /\ \A call : \A acc \in Nat :
             Runs(false.cg.buffer, call)[false.at][acc] = Ends(g, f, call, acc)
  BY <1>2 DEF Reaches
<1>14. /\ Here(g) \in Nat /\ Here(false.cg) \in Nat /\ Here(true.cg) \in Nat
       /\ Here(g) <= Here(false.cg) /\ Here(false.cg) <= Here(true.cg)
       /\ MaxJump \in Nat
  BY <1>3, <1>11, SeqHas, JumpsReachSomewhere DEF IsGenerator, Grows, Extends, Here
<1>15. false.at \in 1..Here(true.cg)
  BY <1>13, <1>14
<1>16. \A call : Runs(true.cg.buffer, call)[false.at] = Runs(false.cg.buffer, call)[false.at]
  BY <1>3, <1>11, <1>13, RunsStay DEF IsGenerator, Grows, Here
<1>17. /\ jt \in Nat /\ jf \in Nat
       /\ jt = Here(true.cg) - true.at /\ jf = Here(true.cg) - false.at
  BY <1>11, <1>14, <1>15 DEF LocToJump
<1>18. jt <= MaxJump
  BY <1>5, <1>9
<1>19. /\ IsGenerator(e) /\ Grows(true.cg, e) /\ Here(e) = Here(true.cg) + 1
       /\ e.buffer = Append(true.cg.buffer, jump) /\ e.overflow = g.overflow
  BY <1>11, EmitKeeps
<1> HIDE DEF jt, jf, jump
<1>20. /\ h.buffer = e.buffer /\ h.cache = e.cache /\ h.overflow = (g.overflow \/ wide)
       /\ h = [buffer |-> h.buffer, cache |-> h.cache, overflow |-> h.overflow]
  <2> HIDE DEF e
  <2>1. e = [buffer |-> e.buffer, cache |-> e.cache, overflow |-> e.overflow]
    BY <1>19 DEF IsGenerator
  <2>2. h = [buffer |-> e.buffer, cache |-> e.cache, overflow |-> e.overflow \/ wide]
    BY <2>1
  <2> QED BY <1>19, <2>2
<1> HIDE DEF e
<1> HIDE DEF h
<1>21. h.overflow \in BOOLEAN /\ (h.overflow => g.overflow \/ wide) /\ (wide => h.overflow)
  <2> HIDE DEF wide
  <2>1. h.overflow = (g.overflow \/ wide)
    BY <1>20
  <2> QED BY <2>1, Zenon
<1>22. IsGenerator(h) /\ Here(h) = Here(true.cg) + 1
  BY <1>19, <1>20, <1>21 DEF IsGenerator, Here
<1>23. Grows(g, h)
  <2>1. Grows(g, e)
    BY <1>3, <1>11, <1>12, <1>19, GrowsOn
  <2> QED BY <1>20, <2>1 DEF Grows
<1>24. ASSUME ~h.overflow, NEW call, NEW acc \in Nat
       PROVE  Runs(h.buffer, call)[Here(true.cg) + 1][acc]
                = IF acc >= k THEN Ends(g, t, call, acc) ELSE Ends(g, f, call, acc)
  <2>1. jf <= MaxJump
    BY <1>14, <1>17, <1>21, <1>24
  <2>2. jt \in 0..MaxJump /\ jf \in 0..MaxJump
    BY <1>14, <1>17, <1>18, <2>1
  <2>3. jt % (MaxJump + 1) = jt /\ jf % (MaxJump + 1) = jf
    BY <1>14, <2>2, Fits
  <2>4. jump = Ins("jge", k, Len(true.cg.buffer) - true.at, Len(true.cg.buffer) - false.at)
    BY <1>17, <2>3 DEF jump, Here
  <2>5. Taken(jump, acc) <=> acc >= k
    BY <2>4 DEF Taken, Ins
  <2> DEFINE buf == true.cg.buffer
  <2>6. IsSeq(buf) /\ true.at \in 1..Len(buf) /\ false.at \in 1..Len(buf)
    BY <1>11, <1>15 DEF IsGenerator, Here
  <2>7. /\ jump.code \in {"jeq", "jgt", "jge", "jset"}
        /\ jump.jt = Len(buf) - true.at /\ jump.jf = Len(buf) - false.at
    BY <2>4 DEF Ins
  <2>8. h.buffer = Append(buf, jump) /\ Here(true.cg) = Len(buf)
    BY <1>19, <1>20 DEF Here
  <2> HIDE DEF buf
  <2> DEFINE to == IF acc >= k THEN true.at ELSE false.at
  <2>12. Len(buf) \in Nat /\ to \in 1..Len(buf)
    BY <2>6, SeqHas
  <2>13. Len(buf) - (IF Taken(jump, acc) THEN jump.jt ELSE jump.jf) = to
    BY <2>5, <2>6, <2>7, <2>12
  <2> HIDE DEF to
  <2>9. Runs(Append(buf, jump), call)[Len(buf) + 1][acc] = Runs(buf, call)[to][acc]
    BY <2>6, <2>7, <2>12, <2>13, JumpRuns
  <2>10. Runs(buf, call)[true.at][acc] = Ends(g, t, call, acc)
    BY <1>4, <1>11 DEF buf
  <2>11. Runs(buf, call)[false.at][acc] = Ends(g, f, call, acc)
    BY <1>13, <1>16 DEF buf
  <2> QED BY <2>8, <2>9, <2>10, <2>11 DEF to
<1>25. ASSUME h.overflow, ~g.overflow
       PROVE  LocToJump(false.cg, false.at) = MaxJump /\ once.cg # false.cg
  <2>1. jf > MaxJump
    BY <1>14, <1>17, <1>18, <1>21, <1>25
  <2>2. Here(true.cg) <= Here(false.cg) + 1
    BY <1>5, <1>9
  <2>3. LocToJump(false.cg, false.at) = Here(false.cg) - false.at
    BY DEF LocToJump
  <2>4. false.at \in Int
    BY <1>13
  <2>5. Here(false.cg) - false.at = MaxJump /\ Here(true.cg) = Here(false.cg) + 1
    BY <1>2, <1>14, <1>17, <2>1, <2>2, <2>3, <2>4
  <2>6. once.cg # false.cg
    BY <1>9, <1>14, <2>5
  <2> QED BY <2>3, <2>5, <2>6
<1>26. x.at \in 1..Here(x.cg) /\ x.at = Here(x.cg) /\ x.at > Here(g)
  BY <1>1, <1>14, <1>22
<1>27. Decided(x, g, k, t, f)
  BY <1>1, <1>22, <1>23, <1>24, <1>26 DEF Decided
<1> QED BY <1>1, <1>25, <1>26, <1>27 DEF x, false, once

-----------------------------------------------------------------------------
(* The tree.                                                               *)

LEMMA FirstOf ==
    ASSUME NEW s, IsSeq(s), NEW n \in 0..Len(s)
    PROVE  /\ IsSeq(SubSeq(s, 1, n))
           /\ Len(SubSeq(s, 1, n)) = n
           /\ \A i \in 1..n : SubSeq(s, 1, n)[i] = s[i]
<1> DEFINE S == {s[i] : i \in 1..Len(s)}
<1>1. Len(s) \in Nat /\ n \in Int /\ \A i \in 1..n : s[i] \in S
  BY SeqHas
<1> HIDE DEF S
<1>2. /\ SubSeq(s, 1, n) \in Seq(S)
      /\ Len(SubSeq(s, 1, n)) = IF 1 <= n THEN n - 1 + 1 ELSE 0
      /\ \A i \in 1..(n - 1 + 1) : SubSeq(s, 1, n)[i] = s[1 + i - 1]
  BY <1>1, SubSeqProperties
<1>3. IsSeq(SubSeq(s, 1, n))
  BY <1>2, SeqIs
<1>4. n - 1 + 1 = n /\ \A i \in 1..n : 1 + i - 1 = i
  BY <1>1
<1>5. Len(SubSeq(s, 1, n)) = n
  BY <1>1, <1>2
<1> QED BY <1>2, <1>3, <1>4, <1>5

\* Calls have numbers, and `says` is what is to become of each.
HaveNumbers(calls) == \A call \in calls : call.nr \in Nat

\* Subtrees of neighbouring stretches of numbers, the highest at the bottom.
IsEntry(e) == e = [level |-> e.level, nr |-> e.nr, target |-> e.target]

IsTree(t, g) ==
    /\ IsSeq(t)
    /\ \A i \in 1..Len(t) : IsEntry(t[i]) /\ t[i].nr \in Nat /\ IsTarget(g, t[i].target)
    /\ \A i, j \in 1..Len(t) : i < j => t[j].nr < t[i].nr
    /\ \A i, j \in 1..Len(t) : j = i + 1 => t[i].target # t[j].target

InStretch(t, i, nr) == t[i].nr <= nr /\ (i > 1 => nr < t[i - 1].nr)

TreeDecides(t, g, calls, says) ==
    ~g.overflow =>
        \A i \in 1..Len(t) : \A call \in calls :
            InStretch(t, i, call.nr)
                => Ends(g, t[i].target, call, call.nr) = says[call]

\* A tree of one is entered at the instruction that was emitted last.
Entered(t, g) ==
    /\ Len(t) = 0 => Here(g) = 0
    /\ Len(t) = 1 => \/ t[1].target = Location(Here(g))
                     \/ t[1].target.to = "action" /\ Here(g) = 0

TreeInv(t, g, calls, says) ==
    IsGenerator(g) /\ IsTree(t, g) /\ TreeDecides(t, g, calls, says) /\ Entered(t, g)

\* The code grows under a tree.
LEMMA TreeStays ==
    ASSUME NEW g, NEW h, IsGenerator(g), IsGenerator(h), Grows(g, h),
           NEW t, IsTree(t, g), NEW calls, NEW says, TreeDecides(t, g, calls, says)
    PROVE  IsTree(t, h) /\ TreeDecides(t, h, calls, says)
<1>1. ASSUME NEW i \in 1..Len(t)
      PROVE  /\ IsTarget(h, t[i].target)
             /\ \A call : \A acc : Ends(h, t[i].target, call, acc) = Ends(g, t[i].target, call, acc)
  <2>1. IsTarget(g, t[i].target)
    BY DEF IsTree
  <2> QED BY <2>1, EndsStay
<1>2. IsTree(t, h)
  BY <1>1 DEF IsTree
<1>3. TreeDecides(t, h, calls, says)
  BY <1>1 DEF TreeDecides, Grows
<1> QED BY <1>2, <1>3

\* A place that is new is no target yet.
LEMMA NewPlace ==
    ASSUME NEW g, NEW target, IsTarget(g, target), Here(g) \in Nat,
           NEW place \in Nat, place > Here(g)
    PROVE  target # Location(place)
<1>1. CASE \E r \in Rets : target = [to |-> "action", v |-> r]
  <2>1. target.to = "action" /\ Location(place).to = "location"
    BY <1>1 DEF Location
  <2> QED BY <2>1
<1>2. CASE \E loc \in 1..Here(g) : target = Location(loc)
  <2>1. PICK loc \in 1..Here(g) : target = Location(loc)
    BY <1>2
  <2>2. target.v = loc /\ Location(place).v = place /\ loc # place
    BY <2>1 DEF Location
  <2> QED BY <2>2
<1> QED BY <1>1, <1>2 DEF IsTarget

LEMMA JoinKeeps ==
    ASSUME NEW t, NEW g, NEW calls, HaveNumbers(calls), NEW says,
           IsGenerator(g), IsTree(t, g), TreeDecides(t, g, calls, says), Len(t) >= 2,
           NEW level, NEW j, j = JoinTop(t, g, level)
    PROVE  /\ IsGenerator(j.cg) /\ Grows(g, j.cg)
           /\ IsTree(j.tree, j.cg)
           /\ TreeDecides(j.tree, j.cg, calls, says)
           /\ Len(j.tree) = Len(t) - 1
           /\ j.tree[Len(t) - 1].nr = t[Len(t)].nr
           /\ j.tree[Len(t) - 1].target = Location(Here(j.cg))
           /\ Here(j.cg) > Here(g)
<1> DEFINE n      == Len(t)
           top    == t[n]
           second == t[n - 1]
           x      == AddJump(g, second.nr, second.target, top.target)
           entry  == [level |-> second.level + level, nr |-> top.nr,
                      target |-> Location(x.at)]
           rest   == SubSeq(t, 1, n - 2)
<1>1. IsSeq(t) /\ n \in Nat /\ n \in 1..n /\ n - 1 \in 1..n /\ n - 2 \in 0..n /\ n - 2 \in Nat
  BY SeqHas DEF IsTree
<1>2. /\ top.nr \in Nat /\ second.nr \in Nat /\ top.nr < second.nr
      /\ IsTarget(g, top.target) /\ IsTarget(g, second.target)
      /\ second.target # top.target
  BY <1>1 DEF IsTree
<1>3. j.cg = x.cg /\ j.tree = Append(rest, entry)
  <2>1. second.nr # 0
    BY <1>2
  <2> QED BY <2>1 DEF JoinTop, AddJumpGe, Last
<1>4. /\ Decided(x, g, second.nr, second.target, top.target)
      /\ x.at = Here(x.cg) /\ x.at > Here(g)
  BY <1>2, AddJumpDecides
<1>5. /\ IsSeq(rest) /\ Len(rest) = n - 2 /\ \A i \in 1..(n - 2) : rest[i] = t[i]
  BY <1>1, FirstOf
<1> HIDE DEF x, rest, entry
<1>6. IsGenerator(j.cg) /\ Grows(g, j.cg)
  BY <1>3, <1>4 DEF Decided
<1>7. /\ IsSeq(j.tree) /\ Len(j.tree) = n - 1 /\ j.tree[n - 1] = entry
      /\ \A i \in 1..(n - 2) : j.tree[i] = t[i]
  <2>1. (n - 2) + 1 = n - 1
    BY <1>1
  <2> HIDE DEF n
  <2> QED BY <1>3, <1>5, <2>1, AppendIs
<1>8. /\ entry.nr = top.nr /\ entry.target = Location(Here(j.cg))
      /\ entry.target.to = "location" /\ entry.target.v = Here(j.cg)
  BY <1>3, <1>4 DEF entry, Location
<1>9. IsTree(t, j.cg) /\ TreeDecides(t, j.cg, calls, says)
  BY <1>6, TreeStays
<1>10. \A i \in 1..(n - 1) : i = n - 1 \/ i \in 1..(n - 2)
  BY <1>1
<1>11. Here(g) \in Nat /\ Here(j.cg) \in Nat /\ Here(j.cg) > Here(g)
  BY <1>3, <1>4, <1>6, SeqHas DEF IsGenerator, Here
<1>12. IsTarget(j.cg, entry.target)
  BY <1>8, <1>11 DEF IsTarget
<1>13. \A i \in 1..(n - 2) : i \in 1..n /\ i < n
  BY <1>1
<1>14. IsTree(j.tree, j.cg)
  <2>1. ASSUME NEW i \in 1..(n - 1)
        PROVE  IsEntry(j.tree[i]) /\ j.tree[i].nr \in Nat /\ IsTarget(j.cg, j.tree[i].target)
    <3>1. IsEntry(entry)
      BY DEF IsEntry, entry
    <3> QED BY <1>2, <1>7, <1>8, <1>9, <1>10, <1>12, <1>13, <3>1 DEF IsTree
  <2>2. ASSUME NEW i \in 1..(n - 1), NEW k \in 1..(n - 1), i < k PROVE j.tree[k].nr < j.tree[i].nr
    <3>1. i \in 1..(n - 2) /\ i \in 1..n /\ j.tree[i] = t[i]
      BY <1>1, <1>7, <2>2
    <3>2. CASE k = n - 1
      BY <1>1, <1>7, <1>8, <1>9, <1>13, <3>1, <3>2 DEF IsTree
    <3>3. CASE k \in 1..(n - 2)
      BY <1>7, <1>9, <1>13, <2>2, <3>1, <3>3 DEF IsTree
    <3> QED BY <1>10, <3>2, <3>3
  <2>3. ASSUME NEW i \in 1..(n - 1), NEW k \in 1..(n - 1), k = i + 1
        PROVE  j.tree[i].target # j.tree[k].target
    <3>1. i \in 1..(n - 2) /\ i \in 1..n /\ j.tree[i] = t[i]
      BY <1>1, <1>7, <2>3
    <3>2. CASE k = n - 1
      <4>1. IsTarget(g, t[i].target)
        BY <3>1 DEF IsTree
      <4>2. t[i].target # Location(Here(j.cg))
        BY <1>11, <4>1, NewPlace
      <4> QED BY <1>7, <1>8, <3>1, <3>2, <4>2
    <3>3. CASE k \in 1..(n - 2)
      BY <1>7, <1>9, <1>13, <2>3, <3>1, <3>3 DEF IsTree
    <3> QED BY <1>10, <3>2, <3>3
  <2>4. IsSeq(j.tree) /\ Len(j.tree) = n - 1
    BY <1>7
  <2> HIDE DEF n
  <2>5. \A i \in 1..Len(j.tree) :
           IsEntry(j.tree[i]) /\ j.tree[i].nr \in Nat /\ IsTarget(j.cg, j.tree[i].target)
    BY <2>1, <2>4
  <2>6. \A i, k \in 1..Len(j.tree) : i < k => j.tree[k].nr < j.tree[i].nr
    BY <2>2, <2>4
  <2>7. \A i, k \in 1..Len(j.tree) : k = i + 1 => j.tree[i].target # j.tree[k].target
    BY <2>3, <2>4
  <2> QED BY <2>4, <2>5, <2>6, <2>7 DEF IsTree
<1>15. TreeDecides(j.tree, j.cg, calls, says)
  <2> SUFFICES ASSUME ~j.cg.overflow, NEW i \in 1..(n - 1), NEW call \in calls,
                      InStretch(j.tree, i, call.nr)
               PROVE  Ends(j.cg, j.tree[i].target, call, call.nr) = says[call]
    BY <1>7 DEF TreeDecides
  <2>1. call.nr \in Nat
    BY DEF HaveNumbers
  <2>2. CASE i \in 1..(n - 2)
    <3>1. i > 1 => i - 1 \in 1..(n - 2)
      BY <1>1, <2>2
    <3>2. InStretch(t, i, call.nr)
      BY <1>7, <2>2, <3>1 DEF InStretch
    <3> QED BY <1>7, <1>9, <1>13, <2>2, <3>2 DEF TreeDecides
  <2>3. CASE i = n - 1
    <3>1. top.nr <= call.nr /\ (n - 1 > 1 => call.nr < t[n - 2].nr)
      <4>1. n - 1 > 1 => n - 2 \in 1..(n - 2) /\ (n - 1) - 1 = n - 2
        BY <1>1
      <4> QED BY <1>7, <1>8, <2>3, <4>1 DEF InStretch
    <3>2. Ends(j.cg, j.tree[i].target, call, call.nr)
            = Runs(x.cg.buffer, call)[x.at][call.nr]
      BY <1>3, <1>4, <1>7, <1>8, <2>3 DEF Ends
    <3>3. Runs(x.cg.buffer, call)[x.at][call.nr]
            = IF call.nr >= second.nr THEN Ends(g, second.target, call, call.nr)
                                      ELSE Ends(g, top.target, call, call.nr)
      BY <1>3, <1>4, <2>1 DEF Decided
    <3>4. ~g.overflow
      BY <1>6 DEF Grows
    <3>5. CASE call.nr >= second.nr
      <4>1. InStretch(t, n - 1, call.nr)
        <5>1. (n - 1) - 1 = n - 2
          BY <1>1
        <5> QED BY <1>2, <2>1, <3>1, <3>5, <5>1 DEF InStretch
      <4>2. Ends(g, second.target, call, call.nr) = says[call]
        BY <1>1, <3>4, <4>1 DEF TreeDecides
      <4> QED BY <3>2, <3>3, <3>5, <4>2
    <3>6. CASE ~(call.nr >= second.nr)
      <4>1. InStretch(t, n, call.nr)
        BY <1>1, <1>2, <2>1, <3>1, <3>6 DEF InStretch
      <4>2. Ends(g, top.target, call, call.nr) = says[call]
        BY <1>1, <3>4, <4>1 DEF TreeDecides
      <4> QED BY <3>2, <3>3, <3>6, <4>2
    <3> QED BY <3>5, <3>6
  <2> QED BY <1>10, <2>2, <2>3
<1> QED BY <1>6, <1>7, <1>8, <1>11, <1>14, <1>15

LEMMA JoinsStep ==
    ASSUME NEW t, IsSeq(t), NEW g
    PROVE  /\ Joins(t, g)[0] = [tree |-> t, cg |-> g]
           /\ \A n \in 1..Len(t) : Joins(t, g)[n] = JoinIfLevel(Joins(t, g)[n - 1])
<1> DEFINE N == Len(t)
           First == [tree |-> t, cg |-> g]
           Made(f, k) == f = [n \in 0..k |-> IF n = 0 THEN First ELSE JoinIfLevel(f[n - 1])]
           P == {k \in 0..N : \E f : Made(f, k)}
<1>1. N \in Nat
  BY SeqHas
<1>2. 0 \in P
  <2> DEFINE f == [n \in 0..0 |-> First]
  <2>1. f = [n \in 0..0 |-> IF n = 0 THEN First ELSE JoinIfLevel(f[n - 1])]
    OBVIOUS
  <2> HIDE DEF First, f
  <2>2. Made(f, 0)
    BY <2>1
  <2> QED BY <1>1, <2>2
<1>3. \A k \in 0..N : k < N /\ k \in P => k + 1 \in P
  <2> SUFFICES ASSUME NEW k \in 0..N, k < N, k \in P PROVE k + 1 \in P
    OBVIOUS
  <2>1. PICK f : Made(f, k)
    OBVIOUS
  <2> DEFINE h == [n \in 0..(k + 1) |-> IF n <= k THEN f[n] ELSE JoinIfLevel(f[n - 1])]
  <2>2. k \in Nat /\ k + 1 \in 0..N
    BY <1>1
  <2> HIDE DEF First
  <2>3. ASSUME NEW n \in 0..(k + 1)
        PROVE  h[n] = IF n = 0 THEN First ELSE JoinIfLevel(h[n - 1])
    <3>1. n # 0 => n - 1 \in 0..(k + 1) /\ n - 1 <= k
      BY <2>2
    <3>2. n # 0 => h[n - 1] = f[n - 1]
      BY <3>1
    <3>3. CASE n <= k
      <4>1. n \in 0..k /\ h[n] = f[n]
        BY <2>2, <3>3
      <4>2. f[n] = IF n = 0 THEN First ELSE JoinIfLevel(f[n - 1])
        BY <2>1, <4>1
      <4> HIDE DEF h
      <4> QED BY <3>2, <4>1, <4>2
    <3>4. CASE ~(n <= k)
      <4>1. n # 0 /\ h[n] = JoinIfLevel(f[n - 1])
        BY <2>2, <3>4
      <4> HIDE DEF h
      <4> QED BY <3>2, <4>1
    <3> QED BY <3>3, <3>4
  <2>4. h = [n \in 0..(k + 1) |-> h[n]]
    OBVIOUS
  <2> HIDE DEF h
  <2>5. Made(h, k + 1)
    BY <2>3, <2>4
  <2> QED BY <2>2, <2>5
<1> HIDE DEF P
<1>4. \A k \in 0..N : k \in P
  <2> HIDE DEF N
  <2> QED BY <1>1, <1>2, <1>3, UpTo
<1>5. N \in P
  BY <1>1, <1>4
<1>6. PICK made : Made(made, N)
  BY <1>5 DEF P
<1>7. Joins(t, g)
        = CHOOSE f : f = [n \in 0..N |-> IF n = 0 THEN First ELSE JoinIfLevel(f[n - 1])]
  BY DEF Joins
<1>8. Made(Joins(t, g), N)
  BY <1>6, <1>7
<1> HIDE DEF First, N
<1>9. Joins(t, g)[0] = First
  BY <1>1, <1>8
<1>10. \A n \in 1..N : Joins(t, g)[n] = JoinIfLevel(Joins(t, g)[n - 1])
  <2>1. \A n \in 1..N : n \in 0..N /\ n # 0
    BY <1>1
  <2> QED BY <1>8, <2>1
<1> QED BY <1>9, <1>10 DEF First, N

\* What the joins keep of the tree t.
Joined(acc, t, g, calls, says) ==
    LET top == Len(acc.tree)
    IN /\ acc = [tree |-> acc.tree, cg |-> acc.cg]
       /\ IsGenerator(acc.cg) /\ Grows(g, acc.cg)
       /\ IsTree(acc.tree, acc.cg)
       /\ TreeDecides(acc.tree, acc.cg, calls, says)
       /\ top <= Len(t)
       /\ Len(t) >= 1 => top >= 1 /\ acc.tree[top].nr = t[Len(t)].nr
       /\ \/ acc.tree = t /\ acc.cg = g
          \/ /\ top >= 1 /\ Here(acc.cg) > Here(g)
             /\ acc.tree[top].target = Location(Here(acc.cg))

LEMMA JoinIfLevelKeeps ==
    ASSUME NEW t, IsSeq(t), NEW g, NEW calls, HaveNumbers(calls), NEW says, IsGenerator(g),
           NEW acc, Joined(acc, t, g, calls, says)
    PROVE  Joined(JoinIfLevel(acc), t, g, calls, says)
<1> DEFINE n == Len(acc.tree)
           j == JoinTop(acc.tree, acc.cg, 1)
<1>1. CASE n >= 2 /\ acc.tree[n - 1].level = acc.tree[n].level
  <2>1. JoinIfLevel(acc) = j
    BY <1>1 DEF JoinIfLevel
  <2>2. /\ IsGenerator(acc.cg) /\ Grows(g, acc.cg)
        /\ IsTree(acc.tree, acc.cg) /\ TreeDecides(acc.tree, acc.cg, calls, says)
    BY DEF Joined
  <2>3. /\ IsGenerator(j.cg) /\ Grows(acc.cg, j.cg)
        /\ IsTree(j.tree, j.cg) /\ TreeDecides(j.tree, j.cg, calls, says)
        /\ Len(j.tree) = n - 1
        /\ j.tree[n - 1].nr = acc.tree[n].nr
        /\ j.tree[n - 1].target = Location(Here(j.cg))
        /\ Here(j.cg) > Here(acc.cg)
    BY <1>1, <2>2, JoinKeeps
  <2>4. n \in Nat
    BY <2>2, SeqHas DEF IsTree
  <2>9. j = [tree |-> j.tree, cg |-> j.cg]
    BY DEF JoinTop
  <2> HIDE DEF j
  <2>10. n <= Len(t) /\ Len(t) \in Nat /\ n - 1 <= Len(t)
    BY <2>4, SeqHas DEF Joined
  <2>5. Grows(g, j.cg)
    BY <2>2, <2>3, GrowsOn
  <2>6. Here(g) \in Nat /\ Here(acc.cg) \in Nat /\ Here(j.cg) \in Nat /\ Here(g) <= Here(acc.cg)
    BY <2>2, <2>3, SeqHas DEF IsGenerator, Here, Grows, Extends
  <2>7. Here(j.cg) > Here(g) /\ n - 1 >= 1
    BY <1>1, <2>3, <2>4, <2>6
  <2>8. Len(t) >= 1 => j.tree[n - 1].nr = t[Len(t)].nr
    BY <2>3 DEF Joined
  <2> QED BY <2>1, <2>3, <2>5, <2>7, <2>8, <2>9, <2>10 DEF Joined
<1>2. CASE ~(n >= 2 /\ acc.tree[n - 1].level = acc.tree[n].level)
  <2>1. JoinIfLevel(acc) = acc
    BY <1>2 DEF JoinIfLevel
  <2> QED BY <2>1
<1> QED BY <1>1, <1>2

LEMMA JoinsKeep ==
    ASSUME NEW t, NEW g, NEW calls, HaveNumbers(calls), NEW says,
           IsGenerator(g), IsTree(t, g), TreeDecides(t, g, calls, says)
    PROVE  Joined(JoinEqualLevels(t, g), t, g, calls, says)
<1> DEFINE N == Len(t)
           P == {n \in 0..N : Joined(Joins(t, g)[n], t, g, calls, says)}
<1>1. N \in Nat /\ IsSeq(t)
  BY SeqHas DEF IsTree
<1>6. /\ Joins(t, g)[0] = [tree |-> t, cg |-> g]
      /\ \A n \in 1..Len(t) : Joins(t, g)[n] = JoinIfLevel(Joins(t, g)[n - 1])
  <2> HIDE DEF N, P
  <2>1. IsSeq(t)
    BY <1>1
  <2> QED BY <2>1, JoinsStep
<1>2. 0 \in P
  <2>1. /\ Joins(t, g)[0].tree = t /\ Joins(t, g)[0].cg = g
        /\ Joins(t, g)[0] = [tree |-> Joins(t, g)[0].tree, cg |-> Joins(t, g)[0].cg]
    BY <1>6
  <2>2. Grows(g, g)
    BY SeqHas DEF IsGenerator, Grows, Extends
  <2>3. Joined(Joins(t, g)[0], t, g, calls, says)
    BY <1>1, <2>1, <2>2 DEF Joined
  <2> QED BY <1>1, <2>3
<1>3. \A n \in 0..N : n < N /\ n \in P => n + 1 \in P
  <2> SUFFICES ASSUME NEW n \in 0..N, n < N, n \in P PROVE n + 1 \in P
    OBVIOUS
  <2>1. n + 1 \in 1..N /\ (n + 1) - 1 = n /\ n + 1 \in 0..N
    BY <1>1
  <2>2. Joins(t, g)[n + 1] = JoinIfLevel(Joins(t, g)[n])
    <3>1. Joins(t, g)[n + 1] = JoinIfLevel(Joins(t, g)[(n + 1) - 1])
      BY <1>6, <2>1
    <3> QED BY <2>1, <3>1
  <2>3. Joined(JoinIfLevel(Joins(t, g)[n]), t, g, calls, says)
    BY <1>1, JoinIfLevelKeeps
  <2> QED BY <2>1, <2>2, <2>3
<1> HIDE DEF P
<1>4. \A n \in 0..N : n \in P
  <2> HIDE DEF N
  <2> QED BY <1>1, <1>2, <1>3, UpTo
<1>5. N \in P
  BY <1>1, <1>4
<1> QED BY <1>5 DEF P, JoinEqualLevels

\* The numbers below the tree that the range begins: the target decides them, and what
\* leads there was emitted last.
IsNext(t, g, h, first, target, calls, says) ==
    /\ \/ h = g /\ target.to = "action"
       \/ Here(h) > Here(g) /\ target = Location(Here(h))
    /\ ~h.overflow =>
          \A call \in calls :
             first <= call.nr /\ (Len(t) >= 1 => call.nr < t[Len(t)].nr)
                => Ends(h, target, call, call.nr) = says[call]

\* A range on whose numbers a target is right is taken into the tree.
LEMMA PushKeeps ==
    ASSUME NEW t, NEW g, NEW calls, HaveNumbers(calls), NEW says, TreeInv(t, g, calls, says),
           NEW range, range.first \in Nat, Len(t) >= 1 => range.first < t[Len(t)].nr,
           NEW h, IsGenerator(h), Grows(g, h), NEW target, IsTarget(h, target),
           IsNext(t, g, h, range.first, target, calls, says),
           NEW p, p = PushSubtree(t, h, range, target)
    PROVE  /\ TreeInv(p.tree, p.cg, calls, says) /\ Grows(h, p.cg)
           /\ Len(p.tree) >= 1 /\ p.tree[Len(p.tree)].nr = range.first
<1> DEFINE n == Len(t)
<1>0. /\ \/ h = g /\ target.to = "action"
         \/ Here(h) > Here(g) /\ target = Location(Here(h))
      /\ ~h.overflow =>
            \A call \in calls :
               range.first <= call.nr /\ (n >= 1 => call.nr < t[n].nr)
                  => Ends(h, target, call, call.nr) = says[call]
  BY DEF IsNext
<1>1. /\ IsGenerator(g) /\ IsTree(t, g) /\ TreeDecides(t, g, calls, says)
      /\ Entered(t, g) /\ IsSeq(t) /\ n \in Nat
  BY SeqHas DEF TreeInv, IsTree
<1>2. Here(g) \in Nat /\ Here(h) \in Nat
  BY <1>1, SeqHas DEF IsGenerator, Here
<1>3. IsTree(t, h) /\ TreeDecides(t, h, calls, says)
  BY <1>1, TreeStays
<1>4. t # <<>> <=> n >= 1
  BY <1>1 DEF IsSeq
<1>7. n >= 1 => /\ range.first \in Nat /\ t[n].nr \in Nat /\ range.first < t[n].nr
  BY <1>1 DEF IsTree
<1>5. CASE n >= 1 /\ t[n].target = target
  <2> DEFINE entry == [t[n] EXCEPT !.nr = range.first]
             u     == [t EXCEPT ![n] = entry]
  <2>1. p.tree = u /\ p.cg = h
    BY <1>4, <1>5 DEF PushSubtree, Last
  <2>2. n \in 1..n
    BY <1>1, <1>5
  <2>3. /\ IsEntry(t[n]) /\ IsTarget(g, t[n].target)
    BY <1>1, <2>2 DEF IsTree
  <2>4. h = g
    <3>1. ~(Here(h) > Here(g) /\ target = Location(Here(h)))
      BY <1>2, <1>5, <2>3, NewPlace
    <3> QED BY <1>0, <3>1
  <2>5. /\ entry.nr = range.first /\ entry.target = target /\ entry.level = t[n].level
        /\ IsEntry(entry)
    BY <1>5, <2>3 DEF IsEntry
  <2> HIDE DEF entry
  <2>6. DOMAIN u = 1..n /\ u = [i \in 1..n |-> u[i]] /\ u[n] = entry
        /\ \A i \in 1..n : i # n => u[i] = t[i]
    BY <1>1, <2>2, SeqHas
  <2> HIDE DEF u
  <2>7. IsSeq(u) /\ Len(u) = n
    BY <1>1, <2>6, MadeSeq
  <2>8. IsTree(u, h)
    <3>1. ASSUME NEW i \in 1..n
          PROVE  IsEntry(u[i]) /\ u[i].nr \in Nat /\ IsTarget(h, u[i].target)
      BY <1>3, <2>5, <2>6 DEF IsTree
    <3>2. ASSUME NEW i \in 1..n, NEW k \in 1..n, i < k PROVE u[k].nr < u[i].nr
      <4>1. i # n /\ u[i] = t[i] /\ t[k].nr < t[i].nr /\ t[i].nr \in Nat
        BY <1>1, <2>6, <3>2 DEF IsTree
      <4>2. CASE k = n
        <5>1. u[k].nr = range.first /\ t[n].nr < t[i].nr
          BY <2>5, <2>6, <4>1, <4>2
        <5> QED BY <1>5, <1>7, <4>1, <5>1
      <4>3. CASE k # n
        BY <2>6, <4>1, <4>3
      <4> QED BY <4>2, <4>3
    <3>3. ASSUME NEW i \in 1..n, NEW k \in 1..n, k = i + 1 PROVE u[i].target # u[k].target
      <4>1. i # n /\ u[i] = t[i] /\ t[i].target # t[k].target
        BY <1>1, <2>6, <3>3 DEF IsTree
      <4>2. u[k].target = t[k].target
        BY <1>5, <2>5, <2>6
      <4> QED BY <4>1, <4>2
    <3> QED BY <2>7, <3>1, <3>2, <3>3 DEF IsTree
  <2>9. TreeDecides(u, h, calls, says)
    <3> SUFFICES ASSUME ~h.overflow, NEW i \in 1..n, NEW call \in calls, InStretch(u, i, call.nr)
                 PROVE  Ends(h, u[i].target, call, call.nr) = says[call]
      BY <2>7 DEF TreeDecides
    <3>1. call.nr \in Nat /\ (i > 1 => i - 1 \in 1..n /\ i - 1 # n)
      BY <1>1 DEF HaveNumbers
    <3>2. i > 1 => u[i - 1].nr = t[i - 1].nr
      BY <2>6, <3>1
    <3>3. CASE i # n
      <4>1. InStretch(t, i, call.nr)
        BY <2>6, <3>2, <3>3 DEF InStretch
      <4> QED BY <1>3, <2>6, <3>3, <4>1 DEF TreeDecides
    <3>4. CASE i = n
      <4>1. range.first <= call.nr /\ (n > 1 => call.nr < t[n - 1].nr) /\ t[n].nr \in Nat
        BY <1>1, <2>2, <2>5, <2>6, <3>2, <3>4 DEF InStretch, IsTree
      <4>2. u[i].target = target
        BY <2>5, <2>6, <3>4
      <4>3. CASE call.nr < t[n].nr
        BY <1>0, <3>1, <4>1, <4>2, <4>3
      <4>4. CASE ~(call.nr < t[n].nr)
        <5>1. InStretch(t, n, call.nr)
          BY <3>1, <4>1, <4>4 DEF InStretch
        <5> QED BY <1>3, <1>5, <2>2, <4>2, <5>1 DEF TreeDecides
      <4> QED BY <4>3, <4>4
    <3> QED BY <3>3, <3>4
  <2>10. Entered(u, h)
    <3>1. n = 1 => u[1].target = t[1].target
      BY <1>5, <2>5, <2>6
    <3> QED BY <1>1, <1>5, <2>4, <2>7, <3>1 DEF Entered
  <2>11. Grows(h, h)
    BY SeqHas DEF IsGenerator, Grows, Extends
  <2> QED BY <1>5, <2>1, <2>5, <2>6, <2>7, <2>8, <2>9, <2>10, <2>11 DEF TreeInv
<1>6. CASE ~(n >= 1 /\ t[n].target = target)
  <2> DEFINE acc   == JoinEqualLevels(t, h)
             m     == Len(acc.tree)
             entry == [level |-> 0, nr |-> range.first, target |-> target]
             u     == Append(acc.tree, entry)
  <2>1. Joined(acc, t, h, calls, says)
    BY <1>3, JoinsKeep
  <2>2. p = [acc EXCEPT !.tree = Append(@, entry)]
    BY <1>4, <1>6 DEF PushSubtree, Last
  <2> HIDE DEF acc
  <2>3. p.tree = u /\ p.cg = acc.cg
    BY <2>1, <2>2 DEF Joined
  <2>4. /\ IsGenerator(acc.cg) /\ Grows(h, acc.cg)
        /\ IsTree(acc.tree, acc.cg) /\ TreeDecides(acc.tree, acc.cg, calls, says)
        /\ IsSeq(acc.tree) /\ m \in Nat /\ m <= n
        /\ n >= 1 => m >= 1 /\ acc.tree[m].nr = t[n].nr
    BY <2>1, SeqHas DEF Joined, IsTree
  <2>5. \/ acc.tree = t /\ acc.cg = h
        \/ /\ m >= 1 /\ Here(acc.cg) > Here(h)
           /\ acc.tree[m].target = Location(Here(acc.cg))
    BY <2>1 DEF Joined
  <2>6. m >= 1 <=> n >= 1
    BY <1>1, <2>4
  <2>7. entry.nr = range.first /\ entry.target = target /\ IsEntry(entry)
    BY DEF IsEntry
  <2> HIDE DEF entry
  <2>8. /\ IsSeq(u) /\ Len(u) = m + 1 /\ u[m + 1] = entry
        /\ \A i \in 1..m : u[i] = acc.tree[i]
    BY <2>4, AppendIs
  <2> HIDE DEF u
  <2>9. \A i \in 1..(m + 1) : i = m + 1 \/ i \in 1..m
    BY <2>4
  <2>10. /\ IsTarget(acc.cg, target)
         /\ \A call : \A a : Ends(acc.cg, target, call, a) = Ends(h, target, call, a)
    BY <2>4, EndsStay
  <2>11. IsTree(u, acc.cg)
    <3>1. ASSUME NEW i \in 1..(m + 1)
          PROVE  IsEntry(u[i]) /\ u[i].nr \in Nat /\ IsTarget(acc.cg, u[i].target)
      BY <2>4, <2>7, <2>8, <2>9, <2>10 DEF IsTree
    <3>2. ASSUME NEW i \in 1..(m + 1), NEW k \in 1..(m + 1), i < k PROVE u[k].nr < u[i].nr
      <4>1. i \in 1..m /\ u[i] = acc.tree[i] /\ acc.tree[i].nr \in Nat
        BY <2>4, <2>8, <3>2 DEF IsTree
      <4>2. CASE k = m + 1
        <5>1. m \in 1..m /\ m >= 1 /\ n >= 1 /\ acc.tree[m].nr = t[n].nr
          BY <2>4, <2>6, <4>1
        <5>2. acc.tree[m].nr <= acc.tree[i].nr /\ acc.tree[m].nr \in Nat
          <6>1. CASE i = m
            BY <4>1, <6>1
          <6>2. CASE i < m
            BY <2>4, <4>1, <5>1, <6>2 DEF IsTree
          <6> QED BY <2>4, <4>1, <6>1, <6>2
        <5>3. u[k].nr = range.first
          BY <2>7, <2>8, <4>2
        <5> QED BY <1>7, <4>1, <5>1, <5>2, <5>3
      <4>3. CASE k \in 1..m
        BY <2>4, <2>8, <3>2, <4>1, <4>3 DEF IsTree
      <4> QED BY <2>9, <4>2, <4>3
    <3>3. ASSUME NEW i \in 1..(m + 1), NEW k \in 1..(m + 1), k = i + 1
          PROVE  u[i].target # u[k].target
      <4>1. i \in 1..m /\ u[i] = acc.tree[i]
        BY <2>4, <2>8, <3>3
      <4>2. CASE k = m + 1
        <5>1. i = m /\ n >= 1 /\ u[k].target = target
          BY <2>4, <2>6, <2>7, <2>8, <3>3, <4>1, <4>2
        <5>2. CASE acc.tree = t
          BY <1>6, <4>1, <5>1, <5>2
        <5>3. CASE /\ Here(acc.cg) > Here(h)
                   /\ acc.tree[m].target = Location(Here(acc.cg))
          <6>1. Here(acc.cg) \in Nat
            BY <2>4, SeqHas DEF IsGenerator, Here
          <6>2. target # Location(Here(acc.cg))
            BY <1>2, <5>3, <6>1, NewPlace
          <6> QED BY <4>1, <5>1, <5>3, <6>2
        <5> QED BY <2>5, <5>2, <5>3
      <4>3. CASE k \in 1..m
        BY <2>4, <2>8, <3>3, <4>1, <4>3 DEF IsTree
      <4> QED BY <2>9, <4>2, <4>3
    <3> QED BY <2>8, <3>1, <3>2, <3>3 DEF IsTree
  <2>12. TreeDecides(u, acc.cg, calls, says)
    <3> SUFFICES ASSUME ~acc.cg.overflow, NEW i \in 1..(m + 1), NEW call \in calls,
                        InStretch(u, i, call.nr)
                 PROVE  Ends(acc.cg, u[i].target, call, call.nr) = says[call]
      BY <2>8 DEF TreeDecides
    <3>1. i > 1 => i - 1 \in 1..m /\ u[i - 1] = acc.tree[i - 1]
      BY <2>4, <2>8
    <3>2. CASE i \in 1..m
      <4>1. InStretch(acc.tree, i, call.nr)
        BY <2>8, <3>1, <3>2 DEF InStretch
      <4> QED BY <2>4, <2>8, <3>2, <4>1 DEF TreeDecides
    <3>3. CASE i = m + 1
      <4>1. range.first <= call.nr /\ (n >= 1 => call.nr < t[n].nr)
        <5>1. n >= 1 => m >= 1 /\ i > 1 /\ i - 1 = m /\ acc.tree[m].nr = t[n].nr
          BY <2>4, <3>3
        <5>2. u[i].nr = range.first
          BY <2>7, <2>8, <3>3
        <5> QED BY <3>1, <5>1, <5>2 DEF InStretch
      <4>2. ~h.overflow
        BY <2>4 DEF Grows
      <4>3. Ends(h, target, call, call.nr) = says[call]
        BY <1>0, <4>1, <4>2
      <4> QED BY <2>7, <2>8, <2>10, <3>3, <4>3
    <3> QED BY <2>9, <3>2, <3>3
  <2>13. Entered(u, acc.cg)
    <3> SUFFICES ASSUME m = 0
                 PROVE  \/ u[1].target = Location(Here(acc.cg))
                        \/ u[1].target.to = "action" /\ Here(acc.cg) = 0
      BY <2>4, <2>8 DEF Entered
    <3>1. n = 0 /\ acc.cg = h /\ u[1].target = target
      BY <1>1, <2>4, <2>5, <2>6, <2>7, <2>8
    <3>2. Here(g) = 0
      BY <1>1, <3>1 DEF Entered
    <3> QED BY <1>0, <3>1, <3>2
  <2>14. u[m + 1].nr = range.first /\ m + 1 >= 1
    BY <2>4, <2>7, <2>8
  <2> QED BY <2>3, <2>4, <2>8, <2>11, <2>12, <2>13, <2>14 DEF TreeInv
<1> QED BY <1>5, <1>6

-----------------------------------------------------------------------------
(* The program.                                                            *)

\* Once all ranges are taken, two subtrees become one that is right.
THEOREM TreeJoins ==
    ASSUME NEW t, NEW g, NEW calls, HaveNumbers(calls), NEW says,
           TreeInv(t, g, calls, says), Len(t) >= 2, NEW j, j = JoinTop(t, g, 0)
    PROVE  /\ TreeInv(j.tree, j.cg, calls, says)
           /\ Len(j.tree) = Len(t) - 1
           /\ j.tree[Len(j.tree)].nr = t[Len(t)].nr
<1>1. IsGenerator(g) /\ IsTree(t, g) /\ TreeDecides(t, g, calls, says)
  BY DEF TreeInv
<1>2. /\ IsGenerator(j.cg) /\ IsTree(j.tree, j.cg) /\ TreeDecides(j.tree, j.cg, calls, says)
      /\ Len(j.tree) = Len(t) - 1
      /\ j.tree[Len(t) - 1].nr = t[Len(t)].nr
      /\ j.tree[Len(t) - 1].target = Location(Here(j.cg))
  BY <1>1, JoinKeeps
<1>3. Len(t) \in Nat
  BY <1>1, SeqHas DEF IsTree
<1>4. Entered(j.tree, j.cg)
  BY <1>2, <1>3 DEF Entered
<1> QED BY <1>2, <1>4 DEF TreeInv

\* Where an instruction leads.
LEMMA GoesOn ==
    ASSUME NEW ins, ins.code # "ret", ins.code # "exit", NEW at, NEW call, NEW run, NEW acc,
           at - 1 - Skipped(ins, acc) \in 1..(at - 1), Loaded(ins, call, acc) \in Nat
    PROVE  Outcome(ins, at, call, run, acc)
             = run[at - 1 - Skipped(ins, acc)][Loaded(ins, call, acc)]
BY DEF Outcome

\* What the test of the architecture that is put before the code leads to.
LEMMA PreludeRuns ==
    ASSUME NEW g, IsGenerator(g), Here(g) >= 1, NEW call, call.arch \in Nat,
           NEW buf, buf = EmitArchPrelude(g).buffer
    PROVE  /\ IsSeq(buf) /\ Len(buf) = Here(g) + 4
           /\ call.arch = AuditArch /\ call.nr \in Nat
                => Runs(buf, call)[Len(buf)][0] = Runs(g.buffer, call)[Here(g)][call.nr]
           /\ call.arch # AuditArch => Runs(buf, call)[Len(buf)][0] = Ret[KillProcess]
<1> DEFINE n    == Len(g.buffer)
           four == << Stmt("ldnr", 0), Stmt("ret", Ret[KillProcess]),
                      Ins("jeq", AuditArch, 1, 0), Stmt("ldarch", 0) >>
           run  == Runs(buf, call)
<1>1. IsSeq(g.buffer) /\ n \in Nat /\ n = Here(g) /\ n >= 1
  BY SeqHas DEF IsGenerator, Here
<1>2. IsSeq(four) /\ Len(four) = 4
  BY DEF IsSeq
<1>3. /\ four[1] = Stmt("ldnr", 0) /\ four[2] = Stmt("ret", Ret[KillProcess])
      /\ four[3] = Ins("jeq", AuditArch, 1, 0) /\ four[4] = Stmt("ldarch", 0)
  OBVIOUS
<1>4. buf = g.buffer \o four
  BY DEF EmitArchPrelude, IsGenerator
<1> HIDE DEF four
<1>5. /\ IsSeq(buf) /\ Len(buf) = n + 4
      /\ \A i \in 1..n : buf[i] = g.buffer[i]
      /\ \A i \in 1..4 : buf[n + i] = four[i]
  <2> DEFINE low == g.buffer
  <2>1. /\ IsSeq(low \o four) /\ Len(low \o four) = Len(low) + Len(four)
        /\ \A i \in 1..Len(low) : (low \o four)[i] = low[i]
        /\ \A i \in 1..Len(four) : (low \o four)[Len(low) + i] = four[i]
    <3> HIDE DEF low
    <3>1. IsSeq(low)
      BY <1>1 DEF low
    <3>2. IsSeq(four)
      BY <1>2
    <3> QED BY <3>1, <3>2, ConcatIs
  <2>2. low \o four = buf /\ Len(low) = n /\ Len(four) = 4 /\ low = g.buffer
    BY <1>2, <1>4
  <2> HIDE DEF low, n
  <2> QED BY <2>1, <2>2
<1>6. Extends(g.buffer, buf)
  BY <1>1, <1>5 DEF Extends
<1> HIDE DEF n
<1>7. /\ buf[n + 1] = Stmt("ldnr", 0) /\ buf[n + 2] = Stmt("ret", Ret[KillProcess])
      /\ buf[n + 3] = Ins("jeq", AuditArch, 1, 0) /\ buf[n + 4] = Stmt("ldarch", 0)
  BY <1>3, <1>5
<1>8. \A at \in (n + 1)..(n + 4) : at \in 1..Len(buf) /\ at \in Nat
  BY <1>1, <1>5
<1>9. \A at \in (n + 1)..(n + 4) : \A acc \in Nat :
          run[at][acc] = Outcome(buf[at], at, call, run, acc)
  BY <1>5, <1>8, RunsAt
<1>10. n \in 1..Len(g.buffer) /\ run[n] = Runs(g.buffer, call)[n]
  <2>1. n \in 1..Len(g.buffer)
    BY <1>1 DEF n
  <2> QED BY <1>1, <1>5, <1>6, <2>1, RunsStay
<1> HIDE DEF run
<1>11. run[n + 4][0] = run[n + 3][call.arch]
  <2> DEFINE ins == Stmt("ldarch", 0)
             at  == n + 4
  <2>1. run[at][0] = Outcome(ins, at, call, run, 0)
    BY <1>1, <1>7, <1>9
  <2>2. /\ Skipped(ins, 0) = 0 /\ Loaded(ins, call, 0) = call.arch
        /\ ins.code # "ret" /\ ins.code # "exit"
    BY DEF Skipped, Loaded, Stmt, Ins
  <2>3. at - 1 - 0 = n + 3 /\ n + 3 \in 1..(at - 1)
    BY <1>1
  <2> HIDE DEF ins, at
  <2>4. Outcome(ins, at, call, run, 0) = run[n + 3][call.arch]
    BY <2>2, <2>3, GoesOn
  <2> QED BY <2>1, <2>4 DEF at
<1>12. run[n + 2][call.arch] = Ret[KillProcess]
  BY <1>1, <1>7, <1>9, RetEnds
<1>13. run[n + 3][call.arch] = IF call.arch = AuditArch THEN run[n + 1][call.arch]
                                                       ELSE run[n + 2][call.arch]
  <2> DEFINE ins == Ins("jeq", AuditArch, 1, 0)
  <2>1. run[n + 3][call.arch] = Outcome(ins, n + 3, call, run, call.arch)
    BY <1>1, <1>7, <1>9
  <2>2. Taken(ins, call.arch) <=> call.arch = AuditArch
    BY DEF Taken, Ins
  <2> DEFINE to  == IF call.arch = AuditArch THEN n + 1 ELSE n + 2
             at  == n + 3
             acc == call.arch
             far == IF call.arch = AuditArch THEN 1 ELSE 0
  <2>3. /\ Skipped(ins, acc) = far /\ Loaded(ins, call, acc) = acc
        /\ ins.code # "ret" /\ ins.code # "exit"
    BY <2>2 DEF Skipped, Loaded, Ins
  <2>4. at - 1 - far = to /\ to \in 1..(at - 1) /\ acc \in Nat
    BY <1>1
  <2>5. run[at][acc] = Outcome(ins, at, call, run, acc)
    BY <2>1
  <2> HIDE DEF ins, to, at, acc, far
  <2>6. Outcome(ins, at, call, run, acc) = run[to][acc]
    BY <2>3, <2>4, GoesOn
  <2> QED BY <2>5, <2>6 DEF to, at, acc
<1>14. call.nr \in Nat => run[n + 1][call.arch] = run[n][call.nr]
  <2> SUFFICES ASSUME call.nr \in Nat PROVE run[n + 1][call.arch] = run[n][call.nr]
    OBVIOUS
  <2> DEFINE ins == Stmt("ldnr", 0)
             at  == n + 1
             acc == call.arch
  <2>1. run[at][acc] = Outcome(ins, at, call, run, acc)
    BY <1>1, <1>7, <1>9
  <2>2. /\ Skipped(ins, acc) = 0 /\ Loaded(ins, call, acc) = call.nr
        /\ ins.code # "ret" /\ ins.code # "exit"
    BY DEF Skipped, Loaded, Stmt, Ins
  <2>3. at - 1 - 0 = n /\ n \in 1..(at - 1)
    BY <1>1
  <2> HIDE DEF ins, at, acc
  <2>4. Outcome(ins, at, call, run, acc) = run[n][call.nr]
    BY <2>2, <2>3, GoesOn
  <2> QED BY <2>1, <2>4 DEF at, acc
<1> QED BY <1>1, <1>5, <1>10, <1>11, <1>12, <1>13, <1>14 DEF run

\* The program does to the calls of the audited architecture what `says` has for them, and
\* kills every other.
Enforces(program, calls, says) ==
    /\ \A call \in calls : call.arch = AuditArch
          => RunFrom(program, Len(program), 0, call) = says[call]
    /\ \A call : call.arch \in Nat \ {AuditArch}
          => RunFrom(program, Len(program), 0, call) = Ret[KillProcess]

\* When one subtree is left, which begins at 0, the program that generate makes of it
\* does to every call of the audited architecture what the policy says, from its entry
\* on; a call of another architecture is killed (reverse.rs: generate, arch prelude).
THEOREM ProgramDecides ==
    ASSUME NEW t, NEW g, NEW calls, HaveNumbers(calls), NEW says,
           TreeInv(t, g, calls, says), Len(t) = 1, t[1].nr = 0, ~g.overflow,
           NEW program,
           program = EmitArchPrelude(ResolveTarget(g, t[1].target).cg).buffer
    PROVE  Enforces(program, calls, says)
<1> DEFINE target == t[1].target
           x      == ResolveTarget(g, target)
<1>1. /\ IsGenerator(g) /\ IsTree(t, g) /\ TreeDecides(t, g, calls, says) /\ Entered(t, g)
      /\ IsTarget(g, target) /\ Here(g) \in Nat
  BY SeqHas DEF TreeInv, IsTree, IsGenerator, Here
<1> HIDE DEF target
<1>2. Reaches(x, g, target) /\ Here(x.cg) <= Here(g) + 1
  BY <1>1, TargetResolves
<1>3. x.at = Here(x.cg) /\ Here(x.cg) \in Nat /\ Here(x.cg) >= 1
  <2>1. x.at \in 1..Here(x.cg) /\ Here(x.cg) \in Nat
    BY <1>2, SeqHas DEF Reaches, IsGenerator, Here
  <2>2. CASE target = Location(Here(g))
    <3>1. x.cg = g /\ x.at = Here(g)
      BY <2>2 DEF ResolveTarget, Location, At
    <3> QED BY <2>1, <3>1
  <2>3. CASE target.to = "action" /\ Here(g) = 0
    BY <1>2, <2>1, <2>3
  <2> QED BY <1>1, <2>2, <2>3 DEF Entered, target
<1> DEFINE h == x.cg
<1>4. IsGenerator(h) /\ program = EmitArchPrelude(h).buffer
  BY <1>2 DEF Reaches, target
<1>5. ASSUME NEW call, call.arch \in Nat
      PROVE  RunFrom(program, Len(program), 0, call) = Runs(program, call)[Len(program)][0]
  <2> HIDE DEF h
  <2>1. Len(program) = Here(h) + 4 /\ Here(h) \in Nat
    BY <1>4, <1>5, PreludeRuns, <1>3 DEF h
  <2> QED BY <2>1 DEF RunFrom
<1>6. ASSUME NEW call \in calls, call.arch = AuditArch
      PROVE  Runs(program, call)[Len(program)][0] = says[call]
  <2>1. call.nr \in Nat /\ call.arch \in Nat
    BY <1>6 DEF HaveNumbers, AuditArch
  <2>2. Runs(program, call)[Len(program)][0] = Runs(h.buffer, call)[Here(h)][call.nr]
    <3> HIDE DEF x
    <3> QED BY <1>3, <1>4, <1>6, <2>1, PreludeRuns
  <2>3. Runs(h.buffer, call)[Here(h)][call.nr] = Ends(g, target, call, call.nr)
    BY <1>2, <1>3, <2>1 DEF Reaches
  <2>4. Ends(g, target, call, call.nr) = says[call]
    <3>1. InStretch(t, 1, call.nr)
      BY <2>1 DEF InStretch
    <3> QED BY <1>1, <3>1 DEF TreeDecides, target
  <2> QED BY <2>2, <2>3, <2>4
<1>7. ASSUME NEW call, call.arch \in Nat \ {AuditArch}
      PROVE  Runs(program, call)[Len(program)][0] = Ret[KillProcess]
  <2> HIDE DEF x
  <2> QED BY <1>3, <1>4, <1>7, PreludeRuns
<1>8. \A call \in calls : call.arch = AuditArch => call.arch \in Nat
  BY DEF AuditArch
<1> QED BY <1>5, <1>6, <1>7, <1>8 DEF Enforces

-----------------------------------------------------------------------------
(* The chain of the conditional rules of a range.                          *)

\* What a filter is lowered to: no return, and jumps that go down.
IsFilterCode(code) ==
    /\ IsSeq(code)
    /\ Len(code) >= 1
    /\ \A i \in 1..Len(code) :
          /\ code[i].code # "ret"
          /\ code[i].code = "ja" => code[i].k \in Int
          /\ code[i].jt \in Int /\ code[i].jf \in Int

\* Entered at its end, the code takes one of the exits, whatever is in the accumulator.
Takes(code, call, holds) ==
    \A acc \in Nat :
        Runs(code, call)[Len(code)][acc] = IF holds THEN TrueExit ELSE FalseExit

\* What a target does to a call does not depend on the accumulator.
Settled(g, target, call, r) == \A acc \in Nat : Ends(g, target, call, acc) = r

LEMMA SkipIsInt ==
    ASSUME NEW ins, ins.code = "ja" => ins.k \in Int, ins.jt \in Int, ins.jf \in Int, NEW acc
    PROVE  Skipped(ins, acc) \in Int
<1>1. CASE ins.code = "ja"
  BY <1>1 DEF Skipped
<1>2. CASE ins.code \in {"jeq", "jgt", "jge", "jset"}
  BY <1>2 DEF Skipped
<1>3. CASE ins.code \notin {"ja", "jeq", "jgt", "jge", "jset"}
  BY <1>3 DEF Skipped
<1> QED BY <1>1, <1>2, <1>3

LEMMA CopyKeeps ==
    ASSUME NEW g, IsGenerator(g), NEW code, IsSeq(code), NEW trueAt, NEW falseAt,
           NEW c, c = CopyCode(g, code, trueAt, falseAt)
    PROVE  /\ IsGenerator(c) /\ Grows(g, c) /\ c.overflow = g.overflow
           /\ Here(c) = Here(g) + Len(code)
           /\ \A i \in 1..Len(code) :
                 c.buffer[Here(g) + i]
                   = CopyInstruction(code[i], Here(g) + i - 1, trueAt, falseAt)
<1> DEFINE copy == [i \in 1..Len(code) |->
                       CopyInstruction(code[i], Here(g) + i - 1, trueAt, falseAt)]
           low  == g.buffer
<1>1. Len(code) \in Nat /\ IsSeq(low) /\ Len(low) \in Nat /\ Here(g) = Len(low)
  BY SeqHas DEF IsGenerator, Here
<1>2. /\ c.buffer = low \o copy /\ c.cache = g.cache /\ c.overflow = g.overflow
      /\ c = [buffer |-> c.buffer, cache |-> c.cache, overflow |-> c.overflow]
  BY DEF CopyCode, IsGenerator
<1>3. DOMAIN copy = 1..Len(code) /\ copy = [i \in 1..Len(code) |-> copy[i]]
  OBVIOUS
<1>4. \A i \in 1..Len(code) :
          copy[i] = CopyInstruction(code[i], Here(g) + i - 1, trueAt, falseAt)
  OBVIOUS
<1> HIDE DEF copy, low
<1>5. IsSeq(copy) /\ Len(copy) = Len(code)
  BY <1>1, <1>3, MadeSeq
<1>6. /\ IsSeq(low \o copy) /\ Len(low \o copy) = Len(low) + Len(copy)
      /\ \A i \in 1..Len(low) : (low \o copy)[i] = low[i]
      /\ \A i \in 1..Len(copy) : (low \o copy)[Len(low) + i] = copy[i]
  <2>1. IsSeq(low) /\ IsSeq(copy)
    BY <1>1, <1>5
  <2> QED BY <2>1, ConcatIs
<1>7. /\ IsSeq(c.buffer) /\ Len(c.buffer) = Len(low) + Len(code)
      /\ \A i \in 1..Len(low) : c.buffer[i] = low[i]
      /\ \A i \in 1..Len(code) : c.buffer[Len(low) + i] = copy[i]
  BY <1>2, <1>5, <1>6
<1>8. Grows(g, c)
  BY <1>1, <1>2, <1>7 DEF Grows, Extends, low
<1>9. ASSUME NEW r \in Rets, c.cache[r] # Nowhere
      PROVE  c.cache[r] \in 1..Here(c) /\ c.buffer[c.cache[r]] = Stmt("ret", r)
  <2>1. c.cache[r] \in 1..Len(low) /\ low[c.cache[r]] = Stmt("ret", r)
    BY <1>1, <1>2, <1>9 DEF IsGenerator, low
  <2> QED BY <1>1, <1>7, <2>1 DEF Here
<1>10. IsGenerator(c)
  BY <1>2, <1>7, <1>9 DEF IsGenerator
<1> QED BY <1>1, <1>2, <1>4, <1>7, <1>8, <1>10 DEF Here

\* Whatever is in the accumulator, the call yields r from there on.
Yields(buf, at, call, r) == \A acc \in Nat : Runs(buf, call)[at][acc] = r

Follows(code, g, c, call, yes, no) ==
    \A i \in 1..Len(code) : \A acc \in Nat :
        /\ Runs(code, call)[i][acc] = TrueExit
             => Runs(c.buffer, call)[Here(g) + i][acc] = yes
        /\ Runs(code, call)[i][acc] = FalseExit
             => Runs(c.buffer, call)[Here(g) + i][acc] = no

\* The copy of an expression's code leads where its exits were to lead.
LEMMA CopyLeads ==
    ASSUME NEW g, IsGenerator(g), NEW code, IsFilterCode(code),
           NEW trueAt \in 1..Here(g), NEW falseAt \in 1..Here(g),
           NEW call, NEW yes, NEW no,
           Yields(g.buffer, trueAt, call, yes), Yields(g.buffer, falseAt, call, no)
    PROVE  Follows(code, g, CopyCode(g, code, trueAt, falseAt), call, yes, no)
<1> DEFINE c     == CopyCode(g, code, trueAt, falseAt)
<1>0. c = CopyCode(g, code, trueAt, falseAt)
  OBVIOUS
<1> HIDE DEF c
<1> DEFINE local == Runs(code, call)
           main  == Runs(c.buffer, call)
           n     == Here(g)
           N     == Len(code)
           Leads(i) == \A acc \in Nat :
               /\ local[i][acc] = TrueExit  => main[n + i][acc] = yes
               /\ local[i][acc] = FalseExit => main[n + i][acc] = no
           P     == {m \in 0..N : \A i \in 1..m : Leads(i)}
<1>1. /\ IsSeq(code) /\ N \in Nat /\ IsSeq(g.buffer) /\ n \in Nat /\ n = Len(g.buffer)
  BY SeqHas DEF IsFilterCode, IsGenerator, Here
<1>2. /\ IsGenerator(c) /\ Grows(g, c) /\ Here(c) = n + N
      /\ \A i \in 1..N : c.buffer[n + i] = CopyInstruction(code[i], n + i - 1, trueAt, falseAt)
  <2> HIDE DEF n, N
  <2>1. /\ IsGenerator(c) /\ Grows(g, c) /\ Here(c) = Here(g) + Len(code)
        /\ \A i \in 1..Len(code) :
              c.buffer[Here(g) + i]
                = CopyInstruction(code[i], Here(g) + i - 1, trueAt, falseAt)
    BY <1>0, <1>1, CopyKeeps
  <2> QED BY <2>1 DEF n, N
<1>3. IsSeq(c.buffer) /\ Len(c.buffer) = n + N /\ Extends(g.buffer, c.buffer)
  BY <1>2 DEF IsGenerator, Here, Grows
<1>4. /\ \A acc \in Nat : main[trueAt][acc] = yes
      /\ \A acc \in Nat : main[falseAt][acc] = no
  <2>1. \A at \in 1..Len(g.buffer) : main[at] = Runs(g.buffer, call)[at]
    BY <1>1, <1>3, RunsStay
  <2> QED BY <1>1, <2>1 DEF Yields
<1>5. \A i \in 1..N : \A acc \in Nat :
          local[i][acc] = Outcome(code[i], i, call, local, acc)
  BY <1>1, RunsAt
<1>6. \A i \in 1..N : \A acc \in Nat :
          main[n + i][acc] = Outcome(c.buffer[n + i], n + i, call, main, acc)
  <2>1. \A i \in 1..N : n + i \in 1..Len(c.buffer)
    BY <1>1, <1>3
  <2> QED BY <1>3, <2>1, RunsAt
<1> HIDE DEF local, main, n, N
<1>7. ASSUME NEW i \in 1..N, \A j \in 1..(i - 1) : Leads(j) PROVE Leads(i)
  <2> SUFFICES ASSUME NEW acc \in Nat
               PROVE  /\ local[i][acc] = TrueExit  => main[n + i][acc] = yes
                      /\ local[i][acc] = FalseExit => main[n + i][acc] = no
    OBVIOUS
  <2> DEFINE ins  == code[i]
             at   == n + i
  <2>1. /\ ins.code # "ret"
        /\ ins.code = "ja" => ins.k \in Int
        /\ ins.jt \in Int /\ ins.jf \in Int
    BY DEF IsFilterCode, N
  <2>2. /\ local[i][acc] = Outcome(ins, i, call, local, acc)
        /\ main[at][acc] = Outcome(c.buffer[at], at, call, main, acc)
        /\ c.buffer[at] = CopyInstruction(ins, n + i - 1, trueAt, falseAt)
    BY <1>2, <1>5, <1>6
  <2>3. i \in Nat /\ i >= 1 /\ at \in Nat
    BY <1>1
  <2> HIDE DEF ins
  <2>4. CASE ins.code = "exit"
    <3> DEFINE loc  == IF ins.k = TrueExit THEN trueAt ELSE falseAt
               jump == Stmt("ja", n + i - 1 - loc)
    <3>1. local[i][acc] = ins.k
      BY <2>2, <2>4 DEF Outcome
    <3>3. loc \in 1..n /\ loc \in Int
      BY <1>1 DEF n
    <3>2. c.buffer[at] = jump
      <4>1. CopyInstruction(ins, n + i - 1, trueAt, falseAt) = PlaceholderJump(n + i - 1, loc)
        BY <2>4 DEF CopyInstruction
      <4>2. PlaceholderJump(n + i - 1, loc) = jump
        <5> HIDE DEF loc
        <5> QED BY <1>1, <2>3, <3>3 DEF PlaceholderJump
      <4> HIDE DEF loc, jump, at
      <4> QED BY <2>2, <4>1, <4>2
    <3>4. /\ Skipped(jump, acc) = n + i - 1 - loc /\ Loaded(jump, call, acc) = acc
          /\ jump.code # "ret" /\ jump.code # "exit"
      BY DEF Skipped, Loaded, Stmt, Ins
    <3> HIDE DEF jump, loc
    <3>5. at - 1 - Skipped(jump, acc) = loc /\ loc \in 1..(at - 1)
      BY <1>1, <2>3, <3>3, <3>4
    <3> HIDE DEF at
    <3>6. Outcome(jump, at, call, main, acc) = main[loc][acc]
      BY <3>4, <3>5, GoesOn
    <3>7. main[at][acc] = main[loc][acc]
      BY <2>2, <3>2, <3>6
    <3>8. FalseExit # TrueExit
      BY DEF FalseExit, TrueExit
    <3> QED BY <1>4, <3>1, <3>7, <3>8 DEF loc, at
  <2>5. CASE ins.code # "exit"
    <3> DEFINE skip  == Skipped(ins, acc)
               value == Loaded(ins, call, acc)
               to    == i - 1 - skip
    <3>1. skip \in Int
      BY <2>1, SkipIsInt
    <3>2. c.buffer[at] = ins
      BY <2>2, <2>5 DEF CopyInstruction
    <3>3. CASE to \in 1..(i - 1) /\ value \in Nat
      <4>1. local[i][acc] = local[to][value]
        <5>1. Outcome(ins, i, call, local, acc) = local[to][value]
          BY <2>1, <2>5, <3>3, GoesOn
        <5> QED BY <2>2, <5>1
      <4>2. at - 1 - skip = n + to /\ n + to \in 1..(at - 1)
        <5> HIDE DEF skip
        <5> QED BY <1>1, <2>3, <3>1, <3>3
      <4>3. main[at][acc] = main[n + to][value]
        <5> HIDE DEF to, at
        <5>1. Outcome(ins, at, call, main, acc) = main[n + to][value]
          BY <2>1, <2>5, <3>3, <4>2, GoesOn
        <5> QED BY <2>2, <3>2, <5>1
      <4> HIDE DEF to, value
      <4>4. Leads(to)
        BY <1>7, <3>3
      <4> QED BY <3>3, <4>1, <4>3, <4>4 DEF at
    <3>4. CASE ~(to \in 1..(i - 1) /\ value \in Nat)
      <4>1. local[i][acc] = Wild
        BY <2>1, <2>2, <2>5, <3>4 DEF Outcome
      <4>2. Wild # TrueExit /\ Wild # FalseExit
        BY DEF Wild, TrueExit, FalseExit
      <4> QED BY <4>1, <4>2
    <3> QED BY <3>3, <3>4
  <2> QED BY <2>4, <2>5
<1> HIDE DEF Leads
<1>8. 0 \in P
  BY <1>1
<1>9. \A m \in 0..N : m < N /\ m \in P => m + 1 \in P
  <2> SUFFICES ASSUME NEW m \in 0..N, m < N, m \in P PROVE m + 1 \in P
    OBVIOUS
  <2>1. m + 1 \in 1..N /\ m + 1 \in 0..N /\ (m + 1) - 1 = m
    BY <1>1
  <2>2. \A j \in 1..((m + 1) - 1) : Leads(j)
    BY <2>1
  <2>3. Leads(m + 1)
    BY <1>7, <2>1, <2>2
  <2>4. \A i \in 1..(m + 1) : i \in 1..m \/ i = m + 1
    BY <1>1
  <2> QED BY <2>1, <2>3, <2>4
<1> HIDE DEF P
<1>10. \A m \in 0..N : m \in P
  BY <1>1, <1>8, <1>9, UpTo
<1>11. N \in P
  BY <1>1, <1>10
<1>12. \A i \in 1..N : Leads(i)
  BY <1>11 DEF P
<1> QED BY <1>0, <1>12 DEF Follows, Leads, local, main, n, N

\* A rule that is emitted takes the calls that its filter holds for, and leaves the others
\* to what was emitted before.
LEMMA MappingDecides ==
    ASSUME NEW g, IsGenerator(g), NEW next, IsTarget(g, next), NEW action \in DOMAIN Ret,
           NEW code, IsFilterCode(code), NEW e, e = EmitMapping(action, code, [cg |-> g, next |-> next])
    PROVE  /\ IsGenerator(e.cg) /\ Grows(g, e.cg) /\ e.cg.overflow = g.overflow
           /\ Here(e.cg) > Here(g) /\ e.next = Location(Here(e.cg))
           /\ e = [cg |-> e.cg, next |-> e.next]
           /\ \A call, no :
                 Settled(g, next, call, no) =>
                    /\ Takes(code, call, TRUE) => Settled(e.cg, e.next, call, Ret[action])
                    /\ Takes(code, call, FALSE) => Settled(e.cg, e.next, call, no)
<1> DEFINE false  == EnsureJumpableTarget(g, next)
           target == ActionTarget(action)
           true   == EnsureJumpableTarget(false.cg, target)
           c      == CopyCode(true.cg, code, true.at, false.at)
           n      == Len(code)
<1>1. e.cg = c /\ e.next = Location(Here(c)) /\ e = [cg |-> e.cg, next |-> e.next]
  BY DEF EmitMapping
<1>2. Reaches(false, g, next)
  BY EnsureLeads
<1> HIDE DEF false
<1>3. IsGenerator(false.cg) /\ Grows(g, false.cg) /\ false.cg.overflow = g.overflow
  BY <1>2 DEF Reaches
<1>4. IsTarget(false.cg, target)
  BY DEF IsTarget, ActionTarget, Rets
<1>5. \A call, acc : Ends(false.cg, target, call, acc) = Ret[action]
  BY DEF Ends, ActionTarget
<1> HIDE DEF target
<1>6. Reaches(true, false.cg, target)
  BY <1>3, <1>4, EnsureLeads
<1> HIDE DEF true
<1>7. /\ IsGenerator(true.cg) /\ Grows(false.cg, true.cg) /\ true.cg.overflow = g.overflow
      /\ true.at \in 1..Here(true.cg)
  BY <1>3, <1>6 DEF Reaches
<1>8. Grows(g, true.cg)
  BY <1>3, <1>7, GrowsOn
<1>9. /\ Here(g) \in Nat /\ Here(false.cg) \in Nat /\ Here(true.cg) \in Nat
      /\ Here(g) <= Here(true.cg) /\ Here(false.cg) <= Here(true.cg)
  BY <1>3, <1>7, <1>8, SeqHas DEF IsGenerator, Here, Grows, Extends
<1>10. false.at \in 1..Here(false.cg) /\ false.at \in 1..Here(true.cg)
  BY <1>2, <1>9 DEF Reaches
<1>11. /\ IsSeq(code) /\ n \in Nat /\ n >= 1
  BY SeqHas DEF IsFilterCode
<1> HIDE DEF n
<1>12. /\ IsGenerator(c) /\ Grows(true.cg, c) /\ c.overflow = true.cg.overflow
       /\ Here(c) = Here(true.cg) + n
  <2> HIDE DEF c
  <2>1. c = CopyCode(true.cg, code, true.at, false.at)
    BY DEF c
  <2>2. Here(c) = Here(true.cg) + Len(code)
    BY <1>7, <1>11, <2>1, CopyKeeps
  <2>3. /\ IsGenerator(c) /\ Grows(true.cg, c) /\ c.overflow = true.cg.overflow
    BY <1>7, <1>11, <2>1, CopyKeeps
  <2> QED BY <2>2, <2>3 DEF n
<1>13. Grows(g, c)
  BY <1>7, <1>8, <1>12, GrowsOn
<1>14. ASSUME NEW call, NEW no, Settled(g, next, call, no), NEW holds \in BOOLEAN,
              Takes(code, call, holds)
       PROVE  Settled(c, Location(Here(c)), call, IF holds THEN Ret[action] ELSE no)
  <2>1. Yields(true.cg.buffer, true.at, call, Ret[action])
    BY <1>5, <1>6 DEF Reaches, Yields
  <2>2. Yields(true.cg.buffer, false.at, call, no)
    <3>1. \A acc \in Nat : Runs(false.cg.buffer, call)[false.at][acc] = no
      BY <1>2, <1>14 DEF Reaches, Settled
    <3>2. IsSeq(false.cg.buffer) /\ IsSeq(true.cg.buffer) /\ Extends(false.cg.buffer, true.cg.buffer)
      BY <1>3, <1>7 DEF IsGenerator, Grows
    <3>3. false.at \in 1..Len(false.cg.buffer)
      BY <1>10 DEF Here
    <3>4. Runs(true.cg.buffer, call)[false.at] = Runs(false.cg.buffer, call)[false.at]
      BY <3>2, <3>3, RunsStay
    <3> QED BY <3>1, <3>4 DEF Yields
  <2>3. n \in 1..Len(code) /\ n = Len(code)
    BY <1>11 DEF n
  <2>4. Follows(code, true.cg, c, call, Ret[action], no)
    BY <1>7, <1>10, <2>1, <2>2, CopyLeads
  <2> HIDE DEF c
  <2>5. \A acc \in Nat :
            Runs(c.buffer, call)[Here(c)][acc] = IF holds THEN Ret[action] ELSE no
    BY <1>12, <1>14, <2>3, <2>4 DEF Takes, Follows
  <2>6. Location(Here(c)).to # "action" /\ Location(Here(c)).v = Here(c)
    BY DEF Location
  <2> QED BY <2>5, <2>6 DEF Settled, Ends
<1> HIDE DEF c
<1>15. Here(c) > Here(g)
  BY <1>9, <1>11, <1>12
<1>16. ASSUME NEW call, NEW no, Settled(g, next, call, no)
       PROVE  /\ Takes(code, call, TRUE) => Settled(e.cg, e.next, call, Ret[action])
              /\ Takes(code, call, FALSE) => Settled(e.cg, e.next, call, no)
  <2>1. Takes(code, call, TRUE) => Settled(c, Location(Here(c)), call, Ret[action])
    BY <1>14, <1>16
  <2>2. Takes(code, call, FALSE) => Settled(c, Location(Here(c)), call, no)
    BY <1>14, <1>16
  <2> QED BY <1>1, <2>1, <2>2
<1> QED BY <1>1, <1>7, <1>12, <1>13, <1>15, <1>16

\* Turn n of emit_conditional_chain.
ChainTurn(range, codes, n, acc) ==
    EmitMapping(range.mappings[Len(range.mappings) - n + 1].action,
                codes[Len(range.mappings) - n + 1], acc)

LEMMA ChainStep ==
    ASSUME NEW g, NEW range, Len(range.mappings) \in Nat, NEW codes
    PROVE  /\ Chain(g, range, codes)[0] = [cg |-> g, next |-> ActionTarget(range.action)]
           /\ \A n \in 1..Len(range.mappings) :
                 Chain(g, range, codes)[n]
                   = ChainTurn(range, codes, n, Chain(g, range, codes)[n - 1])
<1> DEFINE N == Len(range.mappings)
           First == [cg |-> g, next |-> ActionTarget(range.action)]
           Emitted(n, acc) == ChainTurn(range, codes, n, acc)
           Made(f, k) == f = [n \in 0..k |-> IF n = 0 THEN First ELSE Emitted(n, f[n - 1])]
           P == {k \in 0..N : \E f : Made(f, k)}
<1>1. N \in Nat
  OBVIOUS
<1>2. 0 \in P
  <2> DEFINE f == [n \in 0..0 |-> First]
  <2> HIDE DEF First, Emitted
  <2>1. f = [n \in 0..0 |-> IF n = 0 THEN First ELSE Emitted(n, f[n - 1])]
    OBVIOUS
  <2> HIDE DEF f
  <2>2. Made(f, 0)
    BY <2>1
  <2> QED BY <1>1, <2>2
<1>3. \A k \in 0..N : k < N /\ k \in P => k + 1 \in P
  <2> SUFFICES ASSUME NEW k \in 0..N, k < N, k \in P PROVE k + 1 \in P
    OBVIOUS
  <2>1. PICK f : Made(f, k)
    OBVIOUS
  <2> DEFINE h == [n \in 0..(k + 1) |-> IF n <= k THEN f[n] ELSE Emitted(n, f[n - 1])]
  <2>2. k \in Nat /\ k + 1 \in 0..N
    BY <1>1
  <2> HIDE DEF First, Emitted
  <2>3. ASSUME NEW n \in 0..(k + 1)
        PROVE  h[n] = IF n = 0 THEN First ELSE Emitted(n, h[n - 1])
    <3>1. n # 0 => n - 1 \in 0..(k + 1) /\ n - 1 <= k
      BY <2>2
    <3>2. n # 0 => h[n - 1] = f[n - 1]
      BY <3>1
    <3>3. CASE n <= k
      <4>1. n \in 0..k /\ h[n] = f[n]
        BY <2>2, <3>3
      <4>2. f[n] = IF n = 0 THEN First ELSE Emitted(n, f[n - 1])
        BY <2>1, <4>1
      <4> HIDE DEF h
      <4> QED BY <3>2, <4>1, <4>2
    <3>4. CASE ~(n <= k)
      <4>1. n # 0 /\ h[n] = Emitted(n, f[n - 1])
        BY <2>2, <3>4
      <4> HIDE DEF h
      <4> QED BY <3>2, <4>1
    <3> QED BY <3>3, <3>4
  <2>4. h = [n \in 0..(k + 1) |-> h[n]]
    OBVIOUS
  <2> HIDE DEF h
  <2>5. Made(h, k + 1)
    BY <2>3, <2>4
  <2> QED BY <2>2, <2>5
<1> HIDE DEF P
<1>4. \A k \in 0..N : k \in P
  <2> HIDE DEF N
  <2> QED BY <1>1, <1>2, <1>3, UpTo
<1>5. N \in P
  BY <1>1, <1>4
<1>6. PICK f : Made(f, N)
  BY <1>5 DEF P
<1> DEFINE chain == Chain(g, range, codes)
<1>7. chain = CHOOSE h : h = [n \in 0..N |-> IF n = 0 THEN First ELSE Emitted(n, h[n - 1])]
  BY DEF Chain, ChainTurn
<1> HIDE DEF chain, Emitted, First
<1>8. Made(chain, N)
  BY <1>6, <1>7
<1> HIDE DEF N
<1>9. chain[0] = First
  BY <1>1, <1>8
<1>10. \A n \in 1..N : chain[n] = Emitted(n, chain[n - 1])
  <2>1. \A n \in 1..N : n \in 0..N /\ n # 0
    BY <1>1
  <2> QED BY <1>8, <2>1
<1> QED BY <1>9, <1>10 DEF First, Emitted, N, chain

\* A range as normalize_ranges makes it, and the code of its filters.
IsChain(range, codes) ==
    /\ IsSeq(range.mappings)
    /\ range.action \in DOMAIN Ret
    /\ \A i \in 1..Len(range.mappings) :
          range.mappings[i].action \in DOMAIN Ret /\ IsFilterCode(codes[i])

\* The code of each filter takes its exit as the filter holds of the call or not.
AllTake(range, codes, call, holds) ==
    \A i \in 1..Len(range.mappings) : Takes(codes[i], call, holds[i])

\* The first rule from number `from` on whose filter holds, or else the range's own action.
Rules(range, holds, from, r) ==
    \/ \E i \in from..Len(range.mappings) :
          /\ holds[i]
          /\ \A j \in from..(i - 1) : ~holds[j]
          /\ r = Ret[range.mappings[i].action]
    \/ /\ \A i \in from..Len(range.mappings) : ~holds[i]
       /\ r = Ret[range.action]

\* The part of the chain that is emitted when the rules from number `from` on are.
ChainIs(acc, g, range, codes, from) ==
    /\ acc = [cg |-> acc.cg, next |-> acc.next]
    /\ IsGenerator(acc.cg) /\ Grows(g, acc.cg) /\ acc.cg.overflow = g.overflow
    /\ IsTarget(acc.cg, acc.next)
    /\ \/ acc.cg = g /\ acc.next.to = "action"
       \/ Here(acc.cg) > Here(g) /\ acc.next = Location(Here(acc.cg))
    /\ \A call : \A holds \in [1..Len(range.mappings) -> BOOLEAN] : \A r :
          AllTake(range, codes, call, holds) /\ Rules(range, holds, from, r)
             => Settled(acc.cg, acc.next, call, r)

LEMMA ChainGrows ==
    ASSUME NEW g, IsGenerator(g), NEW range, NEW codes, IsChain(range, codes),
           NEW from \in 1..Len(range.mappings),
           NEW acc, ChainIs(acc, g, range, codes, from + 1)
    PROVE  ChainIs(EmitMapping(range.mappings[from].action, codes[from], acc),
                   g, range, codes, from)
<1> DEFINE size   == Len(range.mappings)
           action == range.mappings[from].action
           code   == codes[from]
           e      == EmitMapping(action, code, acc)
<1>1. /\ acc = [cg |-> acc.cg, next |-> acc.next]
      /\ IsGenerator(acc.cg) /\ Grows(g, acc.cg) /\ acc.cg.overflow = g.overflow
      /\ IsTarget(acc.cg, acc.next)
  BY DEF ChainIs
<1>2. size \in Nat /\ action \in DOMAIN Ret /\ IsFilterCode(code)
  BY SeqHas DEF IsChain
<1> HIDE DEF action, code, size
<1>3. /\ IsGenerator(e.cg) /\ Grows(acc.cg, e.cg) /\ e.cg.overflow = acc.cg.overflow
      /\ Here(e.cg) > Here(acc.cg) /\ e.next = Location(Here(e.cg))
      /\ e = [cg |-> e.cg, next |-> e.next]
      /\ \A call, no :
            Settled(acc.cg, acc.next, call, no) =>
               /\ Takes(code, call, TRUE) => Settled(e.cg, e.next, call, Ret[action])
               /\ Takes(code, call, FALSE) => Settled(e.cg, e.next, call, no)
  BY <1>1, <1>2, MappingDecides
<1> HIDE DEF e
<1>4. Grows(g, e.cg) /\ e.cg.overflow = g.overflow
  BY <1>1, <1>3, GrowsOn
<1>5. Here(e.cg) > Here(g) /\ Here(e.cg) \in 1..Here(e.cg)
  <2>1. Here(g) \in Nat /\ Here(acc.cg) \in Nat /\ Here(e.cg) \in Nat /\ Here(g) <= Here(acc.cg)
    BY <1>1, <1>3, SeqHas DEF IsGenerator, Here, Grows, Extends
  <2> QED BY <1>3, <2>1
<1>6. IsTarget(e.cg, e.next)
  BY <1>3, <1>5 DEF IsTarget
<1>7. ASSUME NEW call, NEW holds \in [1..size -> BOOLEAN], NEW r,
             AllTake(range, codes, call, holds), Rules(range, holds, from, r)
      PROVE  Settled(e.cg, e.next, call, r)
  <2>1. from \in 1..size /\ holds[from] \in BOOLEAN
    BY DEF size
  <2>2. Takes(code, call, holds[from])
    BY <1>7 DEF AllTake, code
  <2>3. ASSUME NEW q, Rules(range, holds, from + 1, q)
        PROVE  Settled(acc.cg, acc.next, call, q)
    BY <1>7, <2>3 DEF ChainIs, size
  <2>4. \E q : Rules(range, holds, from + 1, q)
    <3>1. CASE \A i \in (from + 1)..size : ~holds[i]
      BY <3>1 DEF Rules, size
    <3>2. CASE \E i \in (from + 1)..size : holds[i]
      <4> DEFINE S == {i \in (from + 1)..size : holds[i]}
      <4>1. S \in SUBSET Nat /\ S # {}
        BY <1>2, <2>1, <3>2
      <4> HIDE DEF S
      <4>2. PICK m \in S : \A k \in S : m <= k
        BY <4>1, LeastNat
      <4>3. m \in (from + 1)..size /\ holds[m]
        BY DEF S
      <4>4. ASSUME NEW j \in (from + 1)..(m - 1) PROVE ~holds[j]
        <5>1. j \in (from + 1)..size /\ ~(m <= j)
          BY <1>2, <2>1, <4>3
        <5> QED BY <4>2, <5>1 DEF S
      <4> QED BY <4>3, <4>4 DEF Rules, size
    <3> QED BY <3>1, <3>2
  <2>5. PICK q : Rules(range, holds, from + 1, q)
    BY <2>4
  <2>6. Settled(acc.cg, acc.next, call, q)
    BY <2>3, <2>5
  <2>7. CASE holds[from]
    <3>1. Settled(e.cg, e.next, call, Ret[action])
      <4>1. holds[from] = TRUE
        BY <2>1, <2>7
      <4> QED BY <1>3, <2>2, <2>6, <4>1
    <3>2. r = Ret[action]
      <4>1. ASSUME NEW i \in from..size, i # from, \A j \in from..(i - 1) : ~holds[j] PROVE FALSE
        <5>1. from \in from..(i - 1)
          BY <1>2, <2>1, <4>1
        <5> QED BY <2>7, <4>1, <5>1
      <4>2. from \in from..size
        BY <1>2, <2>1
      <4> QED BY <1>7, <2>7, <4>1, <4>2 DEF Rules, size, action
    <3> QED BY <3>1, <3>2
  <2>8. CASE ~holds[from]
    <3>1. \A no : Settled(acc.cg, acc.next, call, no) => Settled(e.cg, e.next, call, no)
      <4>1. holds[from] = FALSE
        BY <2>1, <2>8
      <4> QED BY <1>3, <2>2, <4>1
    <3>2. Rules(range, holds, from + 1, r)
      <4>1. \A i \in (from + 1)..size : i \in from..size /\ i # from
        BY <1>2, <2>1
      <4>2. \A i \in from..size : i = from \/ i \in (from + 1)..size
        BY <1>2, <2>1
      <4>3. ASSUME NEW i \in (from + 1)..size, NEW j \in (from + 1)..(i - 1)
            PROVE  j \in from..(i - 1)
        BY <1>2, <2>1
      <4>4. CASE \E i \in from..size : /\ holds[i] /\ \A j \in from..(i - 1) : ~holds[j]
                                       /\ r = Ret[range.mappings[i].action]
        <5>1. PICK i \in from..size : /\ holds[i] /\ \A j \in from..(i - 1) : ~holds[j]
                                      /\ r = Ret[range.mappings[i].action]
          BY <4>4
        <5>2. i \in (from + 1)..size
          BY <2>8, <4>2, <5>1
        <5>3. \A j \in (from + 1)..(i - 1) : ~holds[j]
          BY <4>3, <5>1, <5>2
        <5> QED BY <5>1, <5>2, <5>3 DEF Rules, size
      <4>5. CASE (\A i \in from..size : ~holds[i]) /\ r = Ret[range.action]
        BY <4>1, <4>5 DEF Rules, size
      <4> QED BY <1>7, <4>4, <4>5 DEF Rules, size
    <3> QED BY <2>3, <3>1, <3>2
  <2> QED BY <2>7, <2>8
<1>8. ChainIs(e, g, range, codes, from)
  BY <1>3, <1>4, <1>5, <1>6, <1>7 DEF ChainIs, size
<1> QED BY <1>8 DEF e, action, code

\* The chain of a range does to every call what its first rule that holds for the call
\* says, or else its unconditional action, whatever was emitted before.
THEOREM ChainDecides ==
    ASSUME NEW g, IsGenerator(g), NEW range, NEW codes, IsChain(range, codes)
    PROVE  ChainIs(EmitConditionalChain(g, range, codes), g, range, codes, 1)
<1> DEFINE N     == Len(range.mappings)
           chain == Chain(g, range, codes)
           P     == {n \in 0..N : ChainIs(chain[n], g, range, codes, N - n + 1)}
<1>1. N \in Nat
  BY SeqHas DEF IsChain
<1>2. /\ chain[0] = [cg |-> g, next |-> ActionTarget(range.action)]
      /\ \A n \in 1..N : chain[n] = ChainTurn(range, codes, n, chain[n - 1])
  BY <1>1, ChainStep
<1> HIDE DEF chain, N
<1>3. 0 \in P
  <2>1. /\ chain[0].cg = g /\ chain[0].next = [to |-> "action", v |-> Ret[range.action]]
        /\ chain[0] = [cg |-> chain[0].cg, next |-> chain[0].next]
    BY <1>2 DEF ActionTarget
  <2>2. Grows(g, g) /\ IsTarget(g, chain[0].next)
    <3>1. Grows(g, g)
      BY SeqHas DEF IsGenerator, Grows, Extends
    <3>2. Ret[range.action] \in Rets
      BY DEF Rets, IsChain
    <3> QED BY <2>1, <3>1, <3>2 DEF IsTarget
  <2>3. ASSUME NEW call, NEW holds, NEW r, Rules(range, holds, N + 1, r)
        PROVE  Settled(g, chain[0].next, call, r)
    <3>1. \A i \in (N + 1)..N : FALSE
      BY <1>1
    <3>2. r = Ret[range.action]
      BY <2>3, <3>1 DEF Rules, N
    <3> QED BY <2>1, <3>2 DEF Settled, Ends
  <2>4. ChainIs(chain[0], g, range, codes, N + 1)
    BY <2>1, <2>2, <2>3 DEF ChainIs
  <2>5. N - 0 + 1 = N + 1 /\ 0 \in 0..N
    BY <1>1
  <2> QED BY <2>4, <2>5
<1>4. \A n \in 0..N : n < N /\ n \in P => n + 1 \in P
  <2> SUFFICES ASSUME NEW n \in 0..N, n < N, n \in P PROVE n + 1 \in P
    OBVIOUS
  <2> DEFINE from == N - (n + 1) + 1
  <2>1. /\ n + 1 \in 1..N /\ (n + 1) - 1 = n /\ n + 1 \in 0..N
        /\ from \in 1..Len(range.mappings) /\ from + 1 = N - n + 1
    BY <1>1 DEF N
  <2>2. ChainIs(chain[n], g, range, codes, from + 1)
    BY <2>1
  <2>3. chain[n + 1] = EmitMapping(range.mappings[from].action, codes[from], chain[n])
    <3>1. chain[n + 1] = ChainTurn(range, codes, n + 1, chain[n])
      BY <1>2, <2>1
    <3> QED BY <3>1 DEF ChainTurn, N
  <2> HIDE DEF from
  <2>4. ChainIs(chain[n + 1], g, range, codes, from)
    BY <2>1, <2>2, <2>3, ChainGrows
  <2> QED BY <2>1, <2>4 DEF from
<1> HIDE DEF P
<1>5. \A n \in 0..N : n \in P
  BY <1>1, <1>3, <1>4, UpTo
<1>6. N \in P /\ N - N + 1 = 1
  BY <1>1, <1>5
<1>7. ChainIs(chain[N], g, range, codes, 1)
  BY <1>6 DEF P
<1> QED BY <1>7 DEF EmitConditionalChain, chain, N

\* The turn of generate_rules' loop that takes a range: the chain of the range is emitted
\* and pushed, and the tree then decides the range's numbers as its rules do, and all
\* numbers above as before.
THEOREM TurnKeepsTree ==
    ASSUME NEW t, NEW g, NEW calls, HaveNumbers(calls), NEW says, TreeInv(t, g, calls, says),
           NEW range, range.first \in Nat, Len(t) >= 1 => range.first < t[Len(t)].nr,
           NEW codes, IsChain(range, codes),
           \A call \in calls :
              range.first <= call.nr /\ (Len(t) >= 1 => call.nr < t[Len(t)].nr)
                 => \E holds \in [1..Len(range.mappings) -> BOOLEAN] :
                       AllTake(range, codes, call, holds) /\ Rules(range, holds, 1, says[call]),
           NEW action, action = GenerateAction(g, range, codes),
           NEW pushed, pushed = PushSubtree(t, action.cg, range, action.next)
    PROVE  /\ TreeInv(pushed.tree, pushed.cg, calls, says)
           /\ Len(pushed.tree) >= 1
           /\ pushed.tree[Len(pushed.tree)].nr = range.first
<1>1. IsGenerator(g)
  BY DEF TreeInv
<1>2. ChainIs(action, g, range, codes, 1)
  BY <1>1, ChainDecides DEF GenerateAction
<1> DEFINE h      == action.cg
           target == action.next
<1>3. /\ IsGenerator(h) /\ Grows(g, h) /\ IsTarget(h, target)
      /\ \/ h = g /\ target.to = "action"
         \/ Here(h) > Here(g) /\ target = Location(Here(h))
  BY <1>2 DEF ChainIs
<1>4. ASSUME NEW call \in calls, range.first <= call.nr, Len(t) >= 1 => call.nr < t[Len(t)].nr
      PROVE  Ends(h, target, call, call.nr) = says[call]
  <2>1. PICK holds \in [1..Len(range.mappings) -> BOOLEAN] :
            AllTake(range, codes, call, holds) /\ Rules(range, holds, 1, says[call])
    BY <1>4
  <2>2. Settled(h, target, call, says[call])
    BY <1>2, <2>1 DEF ChainIs
  <2> QED BY <2>2 DEF Settled, HaveNumbers
<1>6. IsNext(t, g, h, range.first, target, calls, says)
  BY <1>3, <1>4 DEF IsNext
<1> HIDE DEF h, target
<1>5. pushed = PushSubtree(t, h, range, target)
  BY DEF h, target
<1> QED BY <1>3, <1>5, <1>6, PushKeeps

-----------------------------------------------------------------------------
(* Comparisons.                                                            *)

\* What is emitted above buf ends with its entry.
Emits(r, buf) ==
    /\ IsSeq(r.buf)
    /\ Extends(buf, r.buf)
    /\ r.at = Len(r.buf)
    /\ Len(r.buf) > Len(buf)

Jumps == {"jeq", "jgt", "jge", "jset"}

LEMMA YieldsStay ==
    ASSUME NEW buf, IsSeq(buf), NEW more, IsSeq(more), Extends(buf, more),
           NEW at \in 1..Len(buf), NEW call, NEW x, Yields(buf, at, call, x)
    PROVE  Yields(more, at, call, x) /\ at \in 1..Len(more)
<1>1. Runs(more, call)[at] = Runs(buf, call)[at]
  BY RunsStay
<1>2. at \in 1..Len(more)
  BY SeqHas DEF Extends
<1> QED BY <1>1, <1>2 DEF Yields

\* The jump r that was added to buf goes on at t if its test is true, and at f if not.
JumpsTo(r, buf, code, k, t, f) ==
    \A call : \A acc \in Nat :
        /\ Taken(Stmt(code, k), acc)  => Runs(r.buf, call)[r.at][acc] = Runs(buf, call)[t][acc]
        /\ ~Taken(Stmt(code, k), acc) => Runs(r.buf, call)[r.at][acc] = Runs(buf, call)[f][acc]

LEMMA JumpYields ==
    ASSUME NEW buf, IsSeq(buf), NEW code \in Jumps, NEW k,
           NEW t \in 1..Len(buf), NEW f \in 1..Len(buf), NEW limit
    PROVE  /\ Emits(EmitJump(buf, code, k, t, f, limit), buf)
           /\ JumpsTo(EmitJump(buf, code, k, t, f, limit), buf, code, k, t, f)
<1> DEFINE n   == Len(buf)
           ins == Ins(code, k, n + 1 - t - 1, n + 1 - f - 1)
           r   == EmitJump(buf, code, k, t, f, limit)
<1>1. r.buf = Append(buf, ins) /\ r.at = n + 1
  BY DEF EmitJump, Res
<1>2. n \in Nat /\ t \in Int /\ f \in Int
  BY SeqHas
<1>3. /\ IsSeq(Append(buf, ins)) /\ Len(Append(buf, ins)) = n + 1
      /\ \A i \in 1..n : Append(buf, ins)[i] = buf[i]
  <2> HIDE DEF ins
  <2> QED BY AppendIs
<1> HIDE DEF r
<1>4. Emits(r, buf)
  <2> HIDE DEF ins
  <2> QED BY <1>1, <1>2, <1>3 DEF Emits, Extends
<1>5. /\ ins.code \in {"jeq", "jgt", "jge", "jset"}
      /\ n - ins.jt = t /\ n - ins.jf = f
  BY <1>2 DEF Ins, Jumps
<1>6. \A acc : Taken(ins, acc) <=> Taken(Stmt(code, k), acc)
  BY DEF Taken, Stmt, Ins, Jumps
<1> HIDE DEF ins
<1>7. ASSUME NEW call, NEW acc \in Nat
      PROVE  /\ Taken(Stmt(code, k), acc) => Runs(r.buf, call)[r.at][acc] = Runs(buf, call)[t][acc]
             /\ ~Taken(Stmt(code, k), acc) => Runs(r.buf, call)[r.at][acc] = Runs(buf, call)[f][acc]
  <2> DEFINE to == IF Taken(ins, acc) THEN t ELSE f
  <2>1. to \in 1..n /\ n - (IF Taken(ins, acc) THEN ins.jt ELSE ins.jf) = to
    BY <1>5
  <2> HIDE DEF to
  <2>2. Runs(Append(buf, ins), call)[n + 1][acc] = Runs(buf, call)[to][acc]
    BY <1>5, <2>1, JumpRuns
  <2> QED BY <1>1, <1>6, <2>2 DEF to
<1> QED BY <1>4, <1>7 DEF r, JumpsTo

\* The load l that was added to r goes on with the word of the argument.
LoadsInto(l, r, i, half) ==
    \A call : \A acc \in Nat :
        Loaded(Stmt(half, i), call, acc) \in Nat
          => Runs(l.buf, call)[l.at][acc]
               = Runs(r.buf, call)[r.at][Loaded(Stmt(half, i), call, acc)]

LEMMA LoadYields ==
    ASSUME NEW r, IsSeq(r.buf), r.at = Len(r.buf), r.at >= 1, NEW i,
           NEW half \in {"ldlo", "ldhi"}
    PROVE  /\ Emits(EmitArgLoad(r, i, half), r.buf)
           /\ LoadsInto(EmitArgLoad(r, i, half), r, i, half)
<1> DEFINE buf == r.buf
           n   == Len(buf)
           ins == Stmt(half, i)
           l   == EmitArgLoad(r, i, half)
<1>1. l.buf = Append(buf, ins) /\ l.at = n + 1
  BY DEF EmitArgLoad, Res
<1>2. n \in Nat /\ n >= 1
  BY SeqHas
<1>3. /\ IsSeq(Append(buf, ins)) /\ Len(Append(buf, ins)) = n + 1
      /\ \A j \in 1..n : Append(buf, ins)[j] = buf[j]
  <2> HIDE DEF ins
  <2> QED BY AppendIs
<1> HIDE DEF l
<1>4. Emits(l, buf)
  <2> HIDE DEF ins
  <2> QED BY <1>1, <1>2, <1>3 DEF Emits, Extends
<1>5. ASSUME NEW call, NEW acc \in Nat, Loaded(ins, call, acc) \in Nat
      PROVE  Runs(l.buf, call)[l.at][acc] = Runs(buf, call)[r.at][Loaded(ins, call, acc)]
  <2>1. /\ ins.code # "ret" /\ ins.code # "exit" /\ Skipped(ins, acc) = 0
    BY DEF Skipped, Stmt, Ins
  <2> HIDE DEF ins
  <2>2. n - Skipped(ins, acc) = n /\ n \in 1..n /\ r.at = n
    BY <1>2, <2>1
  <2>3. Runs(Append(buf, ins), call)[n + 1][acc] = Runs(buf, call)[n][Loaded(ins, call, acc)]
    BY <1>5, <2>1, <2>2, AddedGoesTo
  <2> QED BY <1>1, <2>2, <2>3
<1> QED BY <1>4, <1>5 DEF l, LoadsInto

\* The two words of an argument, and the order that they have together.
LEMMA Halves ==
    ASSUME NEW a \in Arguments
    PROVE  /\ Lo(a) \in 0..(Word - 1) /\ Hi(a) \in 0..(Word - 1)
           /\ a = Word * Hi(a) + Lo(a)
<1>1. a \in Nat /\ Word \in Nat /\ Word >= 2 /\ a <= Word * Word - 1
  BY WordHasBits, SMT DEF Arguments
<1>2. Lo(a) \in 0..(Word - 1) /\ Hi(a) \in Nat /\ a = Word * Hi(a) + Lo(a)
  BY <1>1, SMT DEF Lo, Hi
<1>3. Hi(a) <= Word - 1
  <2> SUFFICES ASSUME Hi(a) >= Word PROVE FALSE
    BY <1>1, <1>2
  <2>1. Word * Hi(a) >= Word * Word
    BY <1>1, <1>2
  <2> QED BY <1>1, <1>2, <2>1
<1> QED BY <1>1, <1>2, <1>3

LEMMA WordsOrder ==
    ASSUME NEW a \in Arguments, NEW v \in Arguments
    PROVE  /\ a = v <=> Hi(a) = Hi(v) /\ Lo(a) = Lo(v)
           /\ a > v <=> Hi(a) > Hi(v) \/ (Hi(a) = Hi(v) /\ Lo(a) > Lo(v))
           /\ a >= v <=> Hi(a) > Hi(v) \/ (Hi(a) = Hi(v) /\ Lo(a) >= Lo(v))
<1>1. /\ Lo(a) \in 0..(Word - 1) /\ Hi(a) \in 0..(Word - 1) /\ a = Word * Hi(a) + Lo(a)
      /\ Lo(v) \in 0..(Word - 1) /\ Hi(v) \in 0..(Word - 1) /\ v = Word * Hi(v) + Lo(v)
  BY Halves
<1>2. Word \in Nat /\ Word >= 2
  BY WordHasBits
<1>3. ASSUME NEW x \in Nat, NEW y \in Nat, x > y PROVE Word * x >= Word * y + Word
  <2>1. x >= y + 1
    BY <1>3
  <2>2. Word * x >= Word * (y + 1)
    BY <1>2, <2>1
  <2>3. Word * (y + 1) = Word * y + Word
    BY <1>2
  <2> QED BY <2>2, <2>3
<1> DEFINE p == Hi(a)
           q == Hi(v)
           c == Lo(a)
           d == Lo(v)
<1>4. /\ p \in Nat /\ q \in Nat /\ c \in 0..(Word - 1) /\ d \in 0..(Word - 1)
      /\ a = Word * p + c /\ v = Word * q + d
  BY <1>1, <1>2
<1> HIDE DEF p, q, c, d
<1> DEFINE pw == Word * p
           qw == Word * q
<1>5. pw \in Nat /\ qw \in Nat /\ a = pw + c /\ v = qw + d
  BY <1>2, <1>4
<1>6. /\ p > q => pw >= qw + Word
      /\ q > p => qw >= pw + Word
      /\ p = q => pw = qw
  BY <1>3, <1>4
<1> HIDE DEF pw, qw
<1>7. /\ a = v <=> p = q /\ c = d
      /\ a > v <=> p > q \/ (p = q /\ c > d)
      /\ a >= v <=> p > q \/ (p = q /\ c >= d)
  BY <1>2, <1>4, <1>5, <1>6
<1> QED BY <1>7 DEF p, q, c, d

CmpOps == {"==", "!=", "<", "<=", ">", ">="}

\* The jump that an operator becomes, whose sides may change places.
LEMMA OpcodeDecides ==
    ASSUME NEW op \in CmpOps, NEW a \in Int, NEW v \in Int
    PROVE  /\ Opcode(op) \in Jumps
           /\ Swaps(op) \in BOOLEAN
           /\ ~Swaps(op) => (EvaluateCmp(op, a, v) <=> Taken(Stmt(Opcode(op), v), a))
           /\ Swaps(op) => (EvaluateCmp(op, a, v) <=> ~Taken(Stmt(Opcode(op), v), a))
<1>1. CASE op = "=="
  BY <1>1 DEF Opcode, Swaps, EvaluateCmp, Taken, Stmt, Ins, Jumps
<1>2. CASE op = "!="
  BY <1>2 DEF Opcode, Swaps, EvaluateCmp, Taken, Stmt, Ins, Jumps
<1>3. CASE op = "<"
  BY <1>3 DEF Opcode, Swaps, EvaluateCmp, Taken, Stmt, Ins, Jumps
<1>4. CASE op = "<="
  BY <1>4 DEF Opcode, Swaps, EvaluateCmp, Taken, Stmt, Ins, Jumps
<1>5. CASE op = ">"
  BY <1>5 DEF Opcode, Swaps, EvaluateCmp, Taken, Stmt, Ins, Jumps
<1>6. CASE op = ">="
  BY <1>6 DEF Opcode, Swaps, EvaluateCmp, Taken, Stmt, Ins, Jumps
<1> QED BY <1>1, <1>2, <1>3, <1>4, <1>5, <1>6 DEF CmpOps

\* The code that r added to buf leads a call to yes or no, whatever is in the accumulator.
Sides(r, buf, call, holds, yes, no) ==
    /\ Emits(r, buf)
    /\ holds => Yields(r.buf, r.at, call, yes)
    /\ ~holds => Yields(r.buf, r.at, call, no)

LEMMA EmitsOn ==
    ASSUME NEW buf, IsSeq(buf), NEW r, Emits(r, buf), NEW s, Emits(s, r.buf)
    PROVE  Emits(s, buf)
<1>1. Len(buf) \in Nat /\ Len(r.buf) \in Nat /\ Len(s.buf) \in Nat
  BY SeqHas DEF Emits
<1>2. \A i \in 1..Len(buf) : i \in 1..Len(r.buf)
  BY <1>1 DEF Emits
<1> QED BY <1>1, <1>2 DEF Emits, Extends

\* A word of an argument is loaded and tested: generate_cmp32_const, and the last test of
\* the comparisons of two words.
LEMMA WordDecides ==
    ASSUME NEW buf, IsSeq(buf), NEW code \in Jumps, NEW k, NEW i, NEW half \in {"ldlo", "ldhi"},
           NEW t \in 1..Len(buf), NEW f \in 1..Len(buf), NEW limit, NEW call, NEW yes, NEW no,
           Yields(buf, t, call, yes), Yields(buf, f, call, no),
           NEW word \in Nat, \A acc : Loaded(Stmt(half, i), call, acc) = word,
           NEW r, r = EmitArgLoad(EmitJump(buf, code, k, t, f, limit), i, half)
    PROVE  Sides(r, buf, call, Taken(Stmt(code, k), word), yes, no)
<1> DEFINE j == EmitJump(buf, code, k, t, f, limit)
           taken == Taken(Stmt(code, k), word)
<1>1. Emits(j, buf) /\ JumpsTo(j, buf, code, k, t, f)
  BY JumpYields
<1>2. r = EmitArgLoad(j, i, half)
  OBVIOUS
<1> HIDE DEF j, taken
<1>3. IsSeq(j.buf) /\ j.at = Len(j.buf) /\ j.at >= 1
  BY <1>1, SeqHas DEF Emits
<1>4. Emits(r, j.buf) /\ LoadsInto(r, j, i, half)
  BY <1>2, <1>3, LoadYields
<1>8. \A acc \in Nat : Runs(r.buf, call)[r.at][acc] = Runs(j.buf, call)[j.at][word]
  BY <1>4 DEF LoadsInto
<1>9. /\ taken => Runs(j.buf, call)[j.at][word] = Runs(buf, call)[t][word]
      /\ ~taken => Runs(j.buf, call)[j.at][word] = Runs(buf, call)[f][word]
  BY <1>1 DEF JumpsTo, taken
<1>5. Emits(r, buf)
  BY <1>1, <1>4, EmitsOn
<1>6. taken => Yields(r.buf, r.at, call, yes)
  BY <1>8, <1>9 DEF Yields
<1>7. ~taken => Yields(r.buf, r.at, call, no)
  BY <1>8, <1>9 DEF Yields
<1> QED BY <1>5, <1>6, <1>7 DEF Sides, taken

LEMMA SidesSame ==
    ASSUME NEW r, NEW s, r.buf = s.buf, r.at = s.at, NEW buf, NEW call, NEW holds, NEW yes, NEW no,
           Sides(s, buf, call, holds, yes, no)
    PROVE  Sides(r, buf, call, holds, yes, no)
BY DEF Sides, Emits

\* The words that the loads give.
LEMMA ArgLoads ==
    ASSUME NEW i, NEW call, call.args[i] \in Arguments
    PROVE  /\ Lo(call.args[i]) \in Nat /\ Hi(call.args[i]) \in Nat
           /\ \A acc : Loaded(Stmt("ldlo", i), call, acc) = Lo(call.args[i])
           /\ \A acc : Loaded(Stmt("ldhi", i), call, acc) = Hi(call.args[i])
<1>1. Lo(call.args[i]) \in 0..(Word - 1) /\ Hi(call.args[i]) \in 0..(Word - 1)
  BY Halves
<1>2. Lo(call.args[i]) \in Nat /\ Hi(call.args[i]) \in Nat
  BY <1>1, WordHasBits
<1> QED BY <1>2 DEF Loaded, Stmt, Ins

LEMMA Cmp32Decides ==
    ASSUME NEW buf, IsSeq(buf), NEW code \in Jumps, NEW v, NEW i,
           NEW t \in 1..Len(buf), NEW f \in 1..Len(buf), NEW limit, NEW call, NEW yes, NEW no,
           Yields(buf, t, call, yes), Yields(buf, f, call, no), call.args[i] \in Arguments,
           NEW r, r = Cmp32(buf, code, i, v, t, f, limit)
    PROVE  Sides(r, buf, call, Taken(Stmt(code, v), Lo(call.args[i])), yes, no)
<1> DEFINE word == Lo(call.args[i])
           half == "ldlo"
<1>1. word \in Nat /\ half \in {"ldlo", "ldhi"} /\ \A acc : Loaded(Stmt(half, i), call, acc) = word
  BY ArgLoads
<1>2. r = EmitArgLoad(EmitJump(buf, code, v, t, f, limit), i, half)
  BY DEF Cmp32
<1> HIDE DEF word, half
<1>3. Sides(r, buf, call, Taken(Stmt(code, v), word), yes, no)
  BY <1>1, <1>2, WordDecides
<1> QED BY <1>3 DEF word

LEMMA Equality64Decides ==
    ASSUME NEW buf, IsSeq(buf), NEW v \in Arguments, NEW i,
           NEW t \in 1..Len(buf), NEW f \in 1..Len(buf), NEW limit, NEW call, NEW yes, NEW no,
           Yields(buf, t, call, yes), Yields(buf, f, call, no), call.args[i] \in Arguments,
           NEW r, r = Equality64(buf, i, v, t, f, limit)
    PROVE  Sides(r, buf, call, call.args[i] = v, yes, no)
<1> DEFINE a  == call.args[i]
           lo == Cmp32(buf, "jeq", i, Lo(v), t, f, limit)
           hi == ThenJump(lo, "jeq", Hi(v), lo.at, f, limit)
           j  == EmitJump(lo.buf, "jeq", Hi(v), lo.at, f, limit)
           s  == EmitArgLoad(j, i, "ldhi")
           x  == IF Lo(a) = Lo(v) THEN yes ELSE no
<1>1. r = EmitArgLoad(hi, i, "ldhi")
  BY DEF Equality64, Cmp32
<1>2. \A k, acc : Taken(Stmt("jeq", k), acc) <=> acc = k
  BY DEF Taken, Stmt, Ins
<1>3. "jeq" \in Jumps
  BY DEF Jumps
<1> HIDE DEF lo
<1>4. Sides(lo, buf, call, Taken(Stmt("jeq", Lo(v)), Lo(a)), yes, no)
  BY <1>3, Cmp32Decides DEF lo
<1>5. /\ IsSeq(lo.buf) /\ Extends(buf, lo.buf) /\ lo.at \in 1..Len(lo.buf) /\ Emits(lo, buf)
      /\ Yields(lo.buf, lo.at, call, x)
  <2>1. Emits(lo, buf) /\ Len(buf) \in Nat /\ Len(lo.buf) \in Nat
    BY <1>4, SeqHas DEF Sides, Emits
  <2>2. Yields(lo.buf, lo.at, call, x)
    BY <1>2, <1>4 DEF Sides
  <2> QED BY <2>1, <2>2 DEF Emits
<1>6. Yields(lo.buf, f, call, no) /\ f \in 1..Len(lo.buf)
  BY <1>5, YieldsStay
<1>7. r.buf = s.buf /\ r.at = s.at
  <2>1. hi.buf = j.buf
    BY DEF ThenJump, EmitJump, Res
  <2> QED BY <1>1, <2>1 DEF EmitArgLoad, Res
<1> DEFINE word == Hi(a)
           half == "ldhi"
<1>8. word \in Nat /\ half \in {"ldlo", "ldhi"} /\ \A acc : Loaded(Stmt(half, i), call, acc) = word
  BY ArgLoads
<1>9. s = EmitArgLoad(EmitJump(lo.buf, "jeq", Hi(v), lo.at, f, limit), i, half)
  OBVIOUS
<1> HIDE DEF word, half, s, x
<1>10. Sides(s, lo.buf, call, Taken(Stmt("jeq", Hi(v)), word), x, no)
  BY <1>3, <1>5, <1>6, <1>8, <1>9, WordDecides
<1>11. Sides(r, lo.buf, call, Taken(Stmt("jeq", Hi(v)), word), x, no)
  BY <1>7, <1>10, SidesSame
<1>12. Emits(r, buf)
  BY <1>5, <1>11, EmitsOn DEF Sides
<1>13. a = v <=> Hi(a) = Hi(v) /\ Lo(a) = Lo(v)
  BY WordsOrder
<1>14. /\ a = v => Yields(r.buf, r.at, call, yes)
       /\ a # v => Yields(r.buf, r.at, call, no)
  BY <1>2, <1>11, <1>13 DEF Sides, x, word
<1> QED BY <1>12, <1>14 DEF Sides

LEMMA Inequality64Decides ==
    ASSUME NEW buf, IsSeq(buf), NEW code \in {"jgt", "jge"}, NEW v \in Arguments, NEW i,
           NEW t \in 1..Len(buf), NEW f \in 1..Len(buf), NEW limit, NEW call, NEW yes, NEW no,
           Yields(buf, t, call, yes), Yields(buf, f, call, no), call.args[i] \in Arguments,
           NEW r, r = Inequality64(buf, code, i, v, t, f, limit)
    PROVE  Sides(r, buf, call, Taken(Stmt(code, v), call.args[i]), yes, no)
<1> DEFINE a  == call.args[i]
           lo == Cmp32(buf, code, i, Lo(v), t, f, limit)
           ge == ThenJump(lo, "jge", Hi(v), lo.at, f, limit)
           gt == ThenJump(ge, "jgt", Hi(v), t, ge.at, limit)
           j1 == EmitJump(lo.buf, "jge", Hi(v), lo.at, f, limit)
           j2 == EmitJump(j1.buf, "jgt", Hi(v), t, j1.at, limit)
           s  == EmitArgLoad(j2, i, "ldhi")
           low == Taken(Stmt(code, Lo(v)), Lo(a))
           x  == IF low THEN yes ELSE no
<1>1. r = EmitArgLoad(gt, i, "ldhi")
  BY DEF Inequality64, Cmp32
<1>2. /\ \A k, acc : Taken(Stmt("jgt", k), acc) <=> acc > k
      /\ \A k, acc : Taken(Stmt("jge", k), acc) <=> acc >= k
  BY DEF Taken, Stmt, Ins
<1>3. "jge" \in Jumps /\ "jgt" \in Jumps /\ code \in Jumps
  BY DEF Jumps
<1>4. Sides(lo, buf, call, low, yes, no)
  <2> HIDE DEF lo
  <2> QED BY <1>3, Cmp32Decides DEF lo
<1>5. r.buf = s.buf /\ r.at = s.at
  <2> HIDE DEF lo
  <2>1. ge.buf = j1.buf /\ ge.at = j1.at
    BY DEF ThenJump, EmitJump, Res
  <2> HIDE DEF ge, j1
  <2>2. gt.buf = j2.buf /\ gt.at = j2.at
    BY <2>1 DEF ThenJump, EmitJump, Res
  <2> HIDE DEF gt, j2
  <2> QED BY <1>1, <2>2 DEF EmitArgLoad, Res
<1> HIDE DEF lo, low
<1>6. /\ IsSeq(lo.buf) /\ Extends(buf, lo.buf) /\ lo.at \in 1..Len(lo.buf) /\ Emits(lo, buf)
      /\ Yields(lo.buf, lo.at, call, x)
  <2>1. Emits(lo, buf) /\ Len(buf) \in Nat /\ Len(lo.buf) \in Nat
    BY <1>4, SeqHas DEF Sides, Emits
  <2>2. Yields(lo.buf, lo.at, call, x)
    BY <1>4 DEF Sides
  <2> QED BY <2>1, <2>2 DEF Emits
<1> HIDE DEF x
<1>7. /\ Yields(lo.buf, f, call, no) /\ f \in 1..Len(lo.buf)
      /\ Yields(lo.buf, t, call, yes) /\ t \in 1..Len(lo.buf)
  BY <1>6, YieldsStay
<1>8. Emits(j1, lo.buf) /\ JumpsTo(j1, lo.buf, "jge", Hi(v), lo.at, f)
  BY <1>3, <1>6, <1>7, JumpYields
<1> HIDE DEF j1
<1>9. /\ IsSeq(j1.buf) /\ Extends(lo.buf, j1.buf) /\ j1.at \in 1..Len(j1.buf)
  <2>1. Len(j1.buf) \in Nat /\ Len(lo.buf) \in Nat
    BY <1>6, <1>8, SeqHas DEF Emits
  <2> QED BY <1>8, <2>1 DEF Emits
<1>10. Yields(j1.buf, t, call, yes) /\ t \in 1..Len(j1.buf)
  BY <1>6, <1>7, <1>9, YieldsStay
<1>11. Emits(j2, j1.buf) /\ JumpsTo(j2, j1.buf, "jgt", Hi(v), t, j1.at)
  BY <1>3, <1>9, <1>10, JumpYields
<1> HIDE DEF j2
<1>12. IsSeq(j2.buf) /\ j2.at = Len(j2.buf) /\ j2.at >= 1
  BY <1>11, <1>9, SeqHas DEF Emits
<1>13. Emits(s, j2.buf) /\ LoadsInto(s, j2, i, "ldhi")
  BY <1>12, LoadYields
<1> HIDE DEF s
<1>14. Emits(s, buf)
  <2>1. Emits(j1, buf)
    BY <1>6, <1>8, EmitsOn
  <2>2. Emits(j2, buf)
    BY <1>11, <2>1, EmitsOn
  <2> QED BY <1>13, <2>2, EmitsOn
<1>15. Hi(a) \in Nat /\ \A acc : Loaded(Stmt("ldhi", i), call, acc) = Hi(a)
  BY ArgLoads
<1>16. Hi(v) \in 0..(Word - 1) /\ Lo(v) \in 0..(Word - 1) /\ Lo(a) \in 0..(Word - 1)
  BY Halves
<1> DEFINE word == Hi(a)
           high == Hi(v)
<1>17. \A acc \in Nat : Runs(s.buf, call)[s.at][acc] = Runs(j2.buf, call)[j2.at][word]
  BY <1>13, <1>15 DEF LoadsInto
<1> HIDE DEF word, high
<1>18. word \in Nat /\ high \in Int
  BY <1>15, <1>16, WordHasBits DEF word, high
<1>19. Runs(j2.buf, call)[j2.at][word]
         = IF word > high THEN yes ELSE IF word >= high THEN x ELSE no
  <2>1. CASE word > high
    <3>1. Runs(j2.buf, call)[j2.at][word] = Runs(j1.buf, call)[t][word]
      BY <1>2, <1>11, <1>18, <2>1 DEF JumpsTo, high
    <3> QED BY <1>10, <1>18, <2>1, <3>1 DEF Yields
  <2>2. CASE ~(word > high) /\ word >= high
    <3>1. Runs(j2.buf, call)[j2.at][word] = Runs(j1.buf, call)[j1.at][word]
      BY <1>2, <1>11, <1>18, <2>2 DEF JumpsTo, high
    <3>2. Runs(j1.buf, call)[j1.at][word] = Runs(lo.buf, call)[lo.at][word]
      BY <1>2, <1>8, <1>18, <2>2 DEF JumpsTo, high
    <3> QED BY <1>6, <1>18, <2>2, <3>1, <3>2 DEF Yields
  <2>3. CASE ~(word > high) /\ ~(word >= high)
    <3>1. Runs(j2.buf, call)[j2.at][word] = Runs(j1.buf, call)[j1.at][word]
      BY <1>2, <1>11, <1>18, <2>3 DEF JumpsTo, high
    <3>2. Runs(j1.buf, call)[j1.at][word] = Runs(lo.buf, call)[f][word]
      BY <1>2, <1>8, <1>18, <2>3 DEF JumpsTo, high
    <3> QED BY <1>7, <1>18, <2>3, <3>1, <3>2 DEF Yields
  <2> QED BY <2>1, <2>2, <2>3
<1>20. Taken(Stmt(code, v), a) <=> word > high \/ (word = high /\ low)
  <2>1. /\ a > v <=> word > high \/ (word = high /\ Lo(a) > Lo(v))
        /\ a >= v <=> word > high \/ (word = high /\ Lo(a) >= Lo(v))
    BY WordsOrder DEF word, high
  <2>2. CASE code = "jgt"
    BY <1>2, <2>1, <2>2 DEF low
  <2>3. CASE code = "jge"
    BY <1>2, <2>1, <2>3 DEF low
  <2> QED BY <2>2, <2>3
<1>21. /\ Taken(Stmt(code, v), a) => Yields(s.buf, s.at, call, yes)
       /\ ~Taken(Stmt(code, v), a) => Yields(s.buf, s.at, call, no)
  BY <1>17, <1>18, <1>19, <1>20 DEF Yields, x
<1>22. Sides(s, buf, call, Taken(Stmt(code, v), a), yes, no)
  BY <1>14, <1>21 DEF Sides
<1> QED BY <1>5, <1>22, SidesSame

\* generate_comparison, an argument against a constant.
LEMMA ArgConstDecides ==
    ASSUME NEW buf, IsSeq(buf), NEW op \in CmpOps, NEW v \in Arguments, NEW i,
           NEW t \in 1..Len(buf), NEW f \in 1..Len(buf), NEW limit, NEW call, NEW yes, NEW no,
           Yields(buf, t, call, yes), Yields(buf, f, call, no), call.args[i] \in Arguments,
           NEW r, r = ArgConst(buf, i, op, v, t, f, limit)
    PROVE  Sides(r, buf, call, EvaluateCmp(op, Seen(call.args, i, v), v), yes, no)
<1> DEFINE a    == Seen(call.args, i, v)
           code == Opcode(op)
           et   == IF Swaps(op) THEN f ELSE t
           ef   == IF Swaps(op) THEN t ELSE f
           ey   == IF Swaps(op) THEN no ELSE yes
           en   == IF Swaps(op) THEN yes ELSE no
           test == Taken(Stmt(code, v), a)
<1>1. v \in Int /\ a \in Int
  BY Halves, WordHasBits DEF Arguments, Seen
<1>2. /\ code \in Jumps /\ Swaps(op) \in BOOLEAN
      /\ ~Swaps(op) => (EvaluateCmp(op, a, v) <=> test)
      /\ Swaps(op) => (EvaluateCmp(op, a, v) <=> ~test)
  <2> HIDE DEF a
  <2> QED BY <1>1, OpcodeDecides
<1>3. /\ et \in 1..Len(buf) /\ ef \in 1..Len(buf)
      /\ Yields(buf, et, call, ey) /\ Yields(buf, ef, call, en)
  OBVIOUS
<1>4. r = IF ~Needs64(v) THEN Cmp32(buf, code, i, v, et, ef, limit)
          ELSE IF code = "jeq" THEN Equality64(buf, i, v, et, ef, limit)
          ELSE Inequality64(buf, code, i, v, et, ef, limit)
  BY DEF ArgConst
<1> HIDE DEF a, code, et, ef, ey, en
<1>5. Sides(r, buf, call, test, ey, en)
  <2>1. CASE ~Needs64(v)
    <3>1. a = Lo(call.args[i])
      BY <2>1 DEF a, Seen
    <3>2. r = Cmp32(buf, code, i, v, et, ef, limit)
      BY <1>4, <2>1
    <3>3. Sides(r, buf, call, Taken(Stmt(code, v), Lo(call.args[i])), ey, en)
      BY <1>2, <1>3, <3>2, Cmp32Decides
    <3> QED BY <3>1, <3>3
  <2>2. CASE Needs64(v) /\ code = "jeq"
    <3>1. a = call.args[i]
      BY <2>2 DEF a, Seen
    <3>2. r = Equality64(buf, i, v, et, ef, limit)
      BY <1>4, <2>2
    <3>3. Sides(r, buf, call, call.args[i] = v, ey, en)
      BY <1>3, <3>2, Equality64Decides
    <3>4. test <=> call.args[i] = v
      BY <2>2, <3>1 DEF Taken, Stmt, Ins
    <3> HIDE DEF test
    <3> QED BY <3>3, <3>4 DEF Sides
  <2>3. CASE Needs64(v) /\ code # "jeq"
    <3>1. a = call.args[i]
      BY <2>3 DEF a, Seen
    <3>2. r = Inequality64(buf, code, i, v, et, ef, limit)
      BY <1>4, <2>3
    <3>3. code \in {"jgt", "jge"}
      BY <2>3 DEF code, Opcode, CmpOps
    <3>4. Sides(r, buf, call, Taken(Stmt(code, v), call.args[i]), ey, en)
      BY <1>3, <3>2, <3>3, Inequality64Decides
    <3> QED BY <3>1, <3>4
  <2> QED BY <2>1, <2>2, <2>3
<1> HIDE DEF test
<1> DEFINE holds == EvaluateCmp(op, a, v)
<1> HIDE DEF holds
<1>6. /\ ~Swaps(op) => (holds <=> test) /\ ey = yes /\ en = no
      /\ Swaps(op) => (holds <=> ~test) /\ ey = no /\ en = yes
  BY <1>2 DEF ey, en, holds
<1>7. Sides(r, buf, call, holds, yes, no)
  BY <1>5, <1>6 DEF Sides
<1> QED BY <1>7 DEF holds, a

\* What r added to buf leads a call to yes or no, from wherever it is entered.
Leads(r, buf, call, holds, yes, no) ==
    /\ IsSeq(r.buf) /\ Extends(buf, r.buf) /\ r.at \in 1..Len(r.buf)
    /\ holds => Yields(r.buf, r.at, call, yes)
    /\ ~holds => Yields(r.buf, r.at, call, no)

LEMMA SidesLead ==
    ASSUME NEW buf, IsSeq(buf), NEW r, NEW call, NEW holds, NEW yes, NEW no,
           Sides(r, buf, call, holds, yes, no)
    PROVE  Leads(r, buf, call, holds, yes, no)
<1>1. Len(r.buf) \in Nat /\ Len(buf) \in Nat
  BY SeqHas DEF Sides, Emits
<1> QED BY <1>1 DEF Sides, Emits, Leads

LEMMA ReversedHolds ==
    ASSUME NEW op \in CmpOps, NEW l \in Int, NEW r \in Int
    PROVE  Reversed(op) \in CmpOps /\ (EvaluateCmp(Reversed(op), r, l) <=> EvaluateCmp(op, l, r))
<1>1. CASE op \in {"==", "!="}
  BY <1>1 DEF Reversed, EvaluateCmp, CmpOps
<1>2. CASE op \in {"<", "<="}
  BY <1>2 DEF Reversed, EvaluateCmp, CmpOps
<1>3. CASE op \in {">", ">="}
  BY <1>3 DEF Reversed, EvaluateCmp, CmpOps
<1> QED BY <1>1, <1>2, <1>3 DEF CmpOps

\* A comparison is lowered to code that takes a call to the one side if it holds of the
\* call's arguments and to the other if not, for every argument and constant of two words
\* (generate_comparison).
THEOREM ComparisonDecides ==
    ASSUME NEW buf, IsSeq(buf), NEW t \in 1..Len(buf), NEW f \in 1..Len(buf), NEW limit,
           NEW call, NEW yes, NEW no, Yields(buf, t, call, yes), Yields(buf, f, call, no),
           NEW op \in CmpOps, NEW v \in Arguments, NEW w \in Arguments, NEW i,
           call.args[i] \in Arguments,
           NEW e \in {Compare(Arg(i), op, Const(v)), Compare(Const(v), op, Arg(i)),
                      Compare(Const(v), op, Const(w))},
           NEW r, r = Comparison(buf, e, t, f, limit)
    PROVE  Leads(r, buf, call, CompareHolds(e, call.args), yes, no)
<1> DEFINE a == Seen(call.args, i, v)
<1>1. v \in Int /\ w \in Int /\ a \in Int
  BY Halves, WordHasBits DEF Arguments, Seen
<1>2. CASE e = Compare(Arg(i), op, Const(v))
  <2>1. r = ArgConst(buf, i, op, v, t, f, limit)
    BY <1>2 DEF Comparison, Compare, Arg, Const
  <2>2. Sides(r, buf, call, EvaluateCmp(op, Seen(call.args, i, v), v), yes, no)
    BY <2>1, ArgConstDecides
  <2>3. CompareHolds(e, call.args) <=> EvaluateCmp(op, Seen(call.args, i, v), v)
    BY <1>2 DEF CompareHolds, Operand, Compare, Arg, Const
  <2>4. Leads(r, buf, call, EvaluateCmp(op, Seen(call.args, i, v), v), yes, no)
    BY <2>2, SidesLead
  <2> QED BY <2>3, <2>4 DEF Leads
<1>3. CASE e = Compare(Const(v), op, Arg(i))
  <2> DEFINE rev == Reversed(op)
  <2>1. r = ArgConst(buf, i, rev, v, t, f, limit)
    BY <1>3 DEF Comparison, Compare, Arg, Const
  <2>2. rev \in CmpOps /\ (EvaluateCmp(rev, a, v) <=> EvaluateCmp(op, v, a))
    <3> HIDE DEF a
    <3> QED BY <1>1, ReversedHolds
  <2> HIDE DEF rev
  <2>3. Sides(r, buf, call, EvaluateCmp(rev, Seen(call.args, i, v), v), yes, no)
    BY <2>1, <2>2, ArgConstDecides
  <2>4. CompareHolds(e, call.args) <=> EvaluateCmp(op, v, Seen(call.args, i, v))
    BY <1>3 DEF CompareHolds, Operand, Compare, Arg, Const
  <2>5. Leads(r, buf, call, EvaluateCmp(rev, Seen(call.args, i, v), v), yes, no)
    BY <2>3, SidesLead
  <2> QED BY <2>2, <2>4, <2>5 DEF Leads
<1>4. CASE e = Compare(Const(v), op, Const(w))
  <2> DEFINE holds == EvaluateCmp(op, v, w)
  <2>1. r.buf = buf /\ r.at = IF holds THEN t ELSE f
    BY <1>4 DEF Comparison, Compare, Const, Res
  <2>2. CompareHolds(e, call.args) <=> holds
    BY <1>4 DEF CompareHolds, Operand, Compare, Const
  <2>3. Extends(buf, buf)
    BY SeqHas DEF Extends
  <2> HIDE DEF holds
  <2> QED BY <2>1, <2>2, <2>3 DEF Leads
<1> QED BY <1>2, <1>3, <1>4

\* A masked comparison is lowered to code that takes a call to the one side if it holds of
\* the call's argument and to the other if not, for every argument of two words and mask and
\* value of one (generate_masked_compare).
THEOREM MaskedDecides ==
    ASSUME NEW buf, IsSeq(buf), NEW t \in 1..Len(buf), NEW f \in 1..Len(buf), NEW limit,
           NEW call, NEW yes, NEW no, Yields(buf, t, call, yes), Yields(buf, f, call, no),
           NEW op \in CmpOps, NEW m \in 0..(Word - 1), NEW v \in 0..(Word - 1), NEW i,
           call.args[i] \in Arguments,
           NEW e, e = MaskedCompare(i, m, op, v),
           NEW r, r = Masked(buf, e, t, f, limit)
    PROVE  Leads(r, buf, call, MaskedHolds(e, call.args), yes, no)
<1> DEFINE word == Lo(call.args[i])
           a    == BitAnd(call.args[i], m)
           code == Opcode(op)
           et   == IF Swaps(op) THEN f ELSE t
           ef   == IF Swaps(op) THEN t ELSE f
           ey   == IF Swaps(op) THEN no ELSE yes
           en   == IF Swaps(op) THEN yes ELSE no
           test == Taken(Stmt(code, v), a)
           half == "ldlo"
           holds == EvaluateCmp(op, a, v)
<1>1. /\ a \in Nat /\ a = BitAnd(word, m) /\ v \in Int
  BY MasksPickLowBits, WordHasBits
<1>2. word \in Nat /\ half \in {"ldlo", "ldhi"} /\ \A acc : Loaded(Stmt(half, i), call, acc) = word
  BY ArgLoads
<1>3. /\ code \in Jumps /\ Swaps(op) \in BOOLEAN
      /\ ~Swaps(op) => (holds <=> test)
      /\ Swaps(op) => (holds <=> ~test)
  <2>1. a \in Int
    BY <1>1
  <2> HIDE DEF a
  <2> QED BY <1>1, <2>1, OpcodeDecides
<1>4. /\ et \in 1..Len(buf) /\ ef \in 1..Len(buf)
      /\ Yields(buf, et, call, ey) /\ Yields(buf, ef, call, en)
  OBVIOUS
<1>5. MaskedHolds(e, call.args) <=> holds
  BY DEF MaskedHolds, MaskedCompare
<1> DEFINE zero == EmitArgLoad(EmitJump(buf, "jset", m, ef, et, limit), i, half)
           j    == EmitJump(buf, code, v, et, ef, limit)
           and  == Stmt("and", m)
           some == EmitArgLoad([j EXCEPT !.buf = Append(@, and)], i, half)
<1>6. r = IF v = 0 /\ code = "jeq" THEN zero ELSE some
  <2>1. ~Needs64(m) /\ ~Needs64(v)
    BY WordHasBits DEF Needs64
  <2> QED BY <2>1 DEF Masked, MaskedCompare
<1> HIDE DEF word, half, code, et, ef, ey, en
<1>7. CASE v = 0 /\ code = "jeq"
  <2>1. r = EmitArgLoad(EmitJump(buf, "jset", m, ef, et, limit), i, half)
    BY <1>6, <1>7
  <2>2. "jset" \in Jumps
    BY DEF Jumps
  <2>3. Sides(r, buf, call, Taken(Stmt("jset", m), word), en, ey)
    BY <1>2, <1>4, <2>1, <2>2, WordDecides
  <2>4. Taken(Stmt("jset", m), word) <=> ~test
    BY <1>1, <1>7 DEF Taken, Stmt, Ins
  <2> HIDE DEF test, zero, some
  <2>5. Sides(r, buf, call, test, ey, en)
    BY <2>3, <2>4 DEF Sides
  <2> HIDE DEF holds
  <2>6. Sides(r, buf, call, holds, yes, no)
    BY <1>3, <2>5 DEF Sides, ey, en
  <2>7. Leads(r, buf, call, holds, yes, no)
    BY <2>6, SidesLead
  <2> QED BY <1>5, <2>7 DEF Leads
<1>8. CASE ~(v = 0 /\ code = "jeq")
  <2> DEFINE n    == Len(j.buf)
             mask == [buf |-> Append(j.buf, and), at |-> n + 1, ok |-> j.ok]
             s    == EmitArgLoad(mask, i, half)
  <2>1. r = some
    BY <1>6, <1>8
  <2>2. Emits(j, buf) /\ JumpsTo(j, buf, code, v, et, ef)
    <3> HIDE DEF test, zero, some
    <3> QED BY <1>3, <1>4, JumpYields
  <2>3. r.buf = s.buf /\ r.at = s.at
    <3>1. j = Res(j.buf, j.at, j.ok)
      BY DEF EmitJump, Res
    <3> HIDE DEF j, and
    <3>2. /\ [j EXCEPT !.buf = Append(@, and)].buf = Append(j.buf, and)
          /\ mask.buf = Append(j.buf, and)
      BY <3>1 DEF Res
    <3> HIDE DEF mask
    <3> QED BY <2>1, <3>2 DEF EmitArgLoad, Res
  <2>4. and.code = "and" /\ and.k = m /\ and.code # "ret" /\ and.code # "exit"
    BY DEF Stmt, Ins
  <2>5. \A c : Skipped(and, word) = 0 /\ Loaded(and, c, word) = a
    BY <1>1, <2>4 DEF Skipped, Loaded
  <2> HIDE DEF j, and, zero, some, test, a
  <2>6. IsSeq(j.buf) /\ j.at = n /\ n \in Nat /\ n \in 1..n
    BY <2>2, SeqHas DEF Emits
  <2>7. /\ mask.buf = Append(j.buf, and) /\ mask.at = n + 1
        /\ IsSeq(mask.buf) /\ Len(mask.buf) = n + 1
        /\ \A k \in 1..n : mask.buf[k] = j.buf[k]
    BY <2>6, AppendIs
  <2>8. Runs(mask.buf, call)[mask.at][word] = Runs(j.buf, call)[j.at][a]
    <3>1. /\ n - Skipped(and, word) = n /\ Loaded(and, call, word) \in Nat
          /\ Loaded(and, call, word) = a
      BY <1>1, <2>5, <2>6
    <3>2. Runs(Append(j.buf, and), call)[n + 1][word]
            = Runs(j.buf, call)[n][Loaded(and, call, word)]
      BY <1>2, <2>4, <2>6, <3>1, AddedGoesTo, SMTT(30)
    <3> QED BY <2>6, <2>7, <3>1, <3>2
  <2> HIDE DEF mask
  <2>9. Emits(mask, buf)
    <3>1. Emits(mask, j.buf)
      BY <2>6, <2>7 DEF Emits, Extends
    <3> QED BY <2>2, <3>1, EmitsOn
  <2>10. mask.at = Len(mask.buf) /\ mask.at >= 1
    BY <2>6, <2>7
  <2>11. Emits(s, mask.buf) /\ LoadsInto(s, mask, i, half)
    BY <1>2, <2>7, <2>10, LoadYields
  <2> HIDE DEF s
  <2>12. Emits(s, buf)
    BY <2>9, <2>11, EmitsOn
  <2>13. \A acc \in Nat : Runs(s.buf, call)[s.at][acc] = Runs(j.buf, call)[j.at][a]
    BY <1>2, <2>8, <2>11 DEF LoadsInto
  <2>14. /\ test => Runs(j.buf, call)[j.at][a] = ey
         /\ ~test => Runs(j.buf, call)[j.at][a] = en
    BY <1>1, <1>4, <2>2 DEF JumpsTo, Yields, test
  <2>15. Sides(s, buf, call, test, ey, en)
    BY <2>12, <2>13, <2>14 DEF Sides, Yields
  <2>16. Sides(r, buf, call, test, ey, en)
    BY <2>3, <2>15, SidesSame
  <2> HIDE DEF holds
  <2>17. Sides(r, buf, call, holds, yes, no)
    BY <1>3, <2>16 DEF Sides, ey, en
  <2>18. Leads(r, buf, call, holds, yes, no)
    BY <2>17, SidesLead
  <2> QED BY <1>5, <2>18 DEF Leads
<1> QED BY <1>7, <1>8

-----------------------------------------------------------------------------
(* The whole of generate.                                                  *)

\* The states of the loop over the ranges, from the last range down: turn[n] is the tree
\* and the generator after n ranges, as TakeRange makes them.
AreTurns(turn, ranges, codes) ==
    LET size == Len(ranges)
    IN /\ turn[0].tree = <<>> /\ turn[0].cg = EmptyCodegen
       /\ \A n \in 1..size :
             LET k      == size - n + 1
                 action == GenerateAction(turn[n - 1].cg, ranges[k], codes[k])
             IN turn[n] = PushSubtree(turn[n - 1].tree, action.cg, ranges[k], action.next)

\* The states of the loop that joins the rest, from a tree on, as JoinRest makes them.
AreJoins(join, first) ==
    /\ join[0] = first
    /\ \A n \in 1..(Len(first.tree) - 1) :
          join[n] = JoinTop(join[n - 1].tree, join[n - 1].cg, 0)

\* Ranges that follow each other from 0 on; what is above the last belongs to it.
AreRanges(ranges) ==
    /\ IsSeq(ranges)
    /\ Len(ranges) >= 1
    /\ ranges[1].first = 0
    /\ \A k \in 1..Len(ranges) : ranges[k].first \in Nat
    /\ \A k \in 1..Len(ranges) : k > 1 => ranges[k - 1].first < ranges[k].first

IsIn(nr, ranges, k) ==
    ranges[k].first <= nr /\ (k < Len(ranges) => nr < ranges[k + 1].first)

\* What the ranges say of the calls, given the code of the filters.
RangesSay(ranges, codes, calls, says) ==
    \A k \in 1..Len(ranges) : \A call \in calls :
        IsIn(call.nr, ranges, k)
          => \E holds \in [1..Len(ranges[k].mappings) -> BOOLEAN] :
                /\ AllTake(ranges[k], codes[k], call, holds)
                /\ Rules(ranges[k], holds, 1, says[call])

LEMMA OneMore ==
    ASSUME NEW n \in Nat, NEW m \in 0..n, m < n
    PROVE  m + 1 \in 1..n /\ m + 1 \in 0..n /\ (m + 1) - 1 = m /\ m + 1 # 0
OBVIOUS

LEMMA RangesCount ==
    ASSUME NEW ranges, AreRanges(ranges)
    PROVE  /\ Len(ranges) \in Nat /\ Len(ranges) >= 1
           /\ Len(ranges) \in 1..Len(ranges) /\ Len(ranges) - Len(ranges) + 1 = 1
BY SeqHas DEF AreRanges

LEMMA NothingYet ==
    ASSUME NEW calls, NEW says
    PROVE  TreeInv(<<>>, EmptyCodegen, calls, says)
<1> DEFINE g == EmptyCodegen
<1>1. /\ g.buffer = <<>> /\ g.overflow = FALSE /\ g.cache = [r \in Rets |-> Nowhere]
      /\ g = [buffer |-> g.buffer, cache |-> g.cache, overflow |-> g.overflow]
  BY DEF EmptyCodegen
<1>2. IsSeq(<<>>) /\ Len(<<>>) = 0
  BY DEF IsSeq
<1> HIDE DEF g
<1>3. IsGenerator(g) /\ Here(g) = 0
  BY <1>1, <1>2 DEF IsGenerator, Here
<1>4. IsTree(<<>>, g) /\ TreeDecides(<<>>, g, calls, says) /\ Entered(<<>>, g)
  BY <1>2, <1>3 DEF IsTree, TreeDecides, Entered
<1> QED BY <1>3, <1>4 DEF TreeInv, g

\* After every turn the tree decides the numbers of the ranges that were taken.
THEOREM TurnsBuildTree ==
    ASSUME NEW ranges, AreRanges(ranges), NEW codes,
           \A k \in 1..Len(ranges) : IsChain(ranges[k], codes[k]),
           NEW calls, HaveNumbers(calls), NEW says, RangesSay(ranges, codes, calls, says),
           NEW turn, AreTurns(turn, ranges, codes), NEW n \in 1..Len(ranges)
    PROVE  LET tree == turn[n].tree
           IN /\ TreeInv(tree, turn[n].cg, calls, says)
              /\ Len(tree) >= 1
              /\ tree[Len(tree)].nr = ranges[Len(ranges) - n + 1].first
<1> DEFINE N == Len(ranges)
           Top(m) == LET tree == turn[m].tree
                     IN IF m = 0 THEN Len(tree) = 0
                        ELSE Len(tree) >= 1 /\ tree[Len(tree)].nr = ranges[N - m + 1].first
           P == {m \in 0..N : TreeInv(turn[m].tree, turn[m].cg, calls, says) /\ Top(m)}
<1>1. N \in Nat /\ N >= 1
  BY RangesCount
<1>2. 0 \in P
  <2>1. turn[0].tree = <<>> /\ turn[0].cg = EmptyCodegen /\ Len(<<>>) = 0
    BY DEF AreTurns
  <2>2. TreeInv(turn[0].tree, turn[0].cg, calls, says)
    BY <2>1, NothingYet
  <2> QED BY <1>1, <2>1, <2>2
<1>3. \A m \in 0..N : m < N /\ m \in P => m + 1 \in P
  <2> SUFFICES ASSUME NEW m \in 0..N, m < N, m \in P PROVE m + 1 \in P
    OBVIOUS
  <2> DEFINE k      == N - (m + 1) + 1
             t      == turn[m].tree
             g      == turn[m].cg
             range  == ranges[k]
             code   == codes[k]
             action == GenerateAction(g, range, code)
             pushed == turn[m + 1]
  <2>1. m + 1 \in 1..N /\ m + 1 \in 0..N /\ (m + 1) - 1 = m /\ m + 1 # 0
    <3> HIDE DEF N, P
    <3> QED BY <1>1, OneMore
  <2>2. k \in 1..N /\ k = N - m
    BY <1>1
  <2>3. TreeInv(t, g, calls, says) /\ Top(m)
    OBVIOUS
  <2>4. pushed = PushSubtree(t, action.cg, range, action.next)
    BY <2>1 DEF AreTurns
  <2>5. range.first \in Nat /\ IsChain(range, code)
    BY <2>2 DEF AreRanges
  <2>6. m # 0 => k + 1 \in 1..N /\ k + 1 = N - m + 1 /\ range.first < ranges[k + 1].first
    <3> SUFFICES ASSUME m # 0 PROVE k + 1 \in 1..N /\ k + 1 = N - m + 1
                                    /\ range.first < ranges[k + 1].first
      OBVIOUS
    <3>1. k + 1 \in 1..N /\ k + 1 = N - m + 1 /\ k + 1 > 1 /\ (k + 1) - 1 = k
      BY <1>1, <2>2
    <3>2. ranges[(k + 1) - 1].first < ranges[k + 1].first
      BY <3>1 DEF AreRanges
    <3> QED BY <3>1, <3>2
  <2>7. m = 0 => Len(t) = 0
    BY <2>3
  <2>8. m # 0 => Len(t) >= 1 /\ t[Len(t)].nr = ranges[k + 1].first
    BY <2>3, <2>6
  <2> HIDE DEF t, g, Top
  <2>9. Len(t) >= 1 => range.first < t[Len(t)].nr
    BY <2>6, <2>7, <2>8
  <2>10. ASSUME NEW call \in calls, range.first <= call.nr, Len(t) >= 1 => call.nr < t[Len(t)].nr
         PROVE  IsIn(call.nr, ranges, k)
    <3>1. k < N => m # 0
      BY <1>1, <2>2
    <3> QED BY <2>8, <2>10, <3>1 DEF IsIn
  <2>11. ASSUME NEW call \in calls, range.first <= call.nr, Len(t) >= 1 => call.nr < t[Len(t)].nr
         PROVE  \E holds \in [1..Len(range.mappings) -> BOOLEAN] :
                   AllTake(range, code, call, holds) /\ Rules(range, holds, 1, says[call])
    BY <2>2, <2>10, <2>11 DEF RangesSay
  <2> HIDE DEF k, range, code, action, pushed
  <2>12. action = GenerateAction(g, range, code)
    BY DEF action
  <2>13. /\ TreeInv(pushed.tree, pushed.cg, calls, says)
         /\ Len(pushed.tree) >= 1
         /\ pushed.tree[Len(pushed.tree)].nr = range.first
    BY <2>3, <2>4, <2>5, <2>9, <2>11, <2>12, TurnKeepsTree, SMTT(30)
  <2>14. Top(m + 1)
    BY <2>1, <2>13 DEF Top, pushed, range, k
  <2> QED BY <2>1, <2>13, <2>14 DEF pushed
<1> HIDE DEF P
<1>4. \A m \in 0..N : m \in P
  <2> HIDE DEF N
  <2> QED BY <1>1, <1>2, <1>3, UpTo
<1>5. n \in P /\ n # 0
  BY <1>1, <1>4
<1> QED BY <1>5 DEF P

\* The subtree at the top of the tree starts at 0; it is the only one.
ReachesZero(made, calls, says) ==
    /\ TreeInv(made.tree, made.cg, calls, says)
    /\ Len(made.tree) >= 1
    /\ made.tree[Len(made.tree)].nr = 0
OneLeft(made, calls, says) == ReachesZero(made, calls, says) /\ Len(made.tree) = 1

\* What is left of the tree is joined from the top, down to the subtree at 0.
LEMMA JoinsLeaveOne ==
    ASSUME NEW calls, HaveNumbers(calls), NEW says, NEW first,
           ReachesZero(first, calls, says), NEW join, AreJoins(join, first)
    PROVE  OneLeft(join[Len(first.tree) - 1], calls, says)
<1> DEFINE N     == Len(first.tree)
           M     == N - 1
           Joint(n) == LET tree == join[n].tree
                       IN /\ TreeInv(tree, join[n].cg, calls, says)
                          /\ Len(tree) = N - n
                          /\ tree[Len(tree)].nr = 0
           P     == {n \in 0..M : Joint(n)}
<1>2. TreeInv(first.tree, first.cg, calls, says) /\ N >= 1 /\ first.tree[N].nr = 0
  BY DEF ReachesZero
<1>3. N \in Nat /\ M \in Nat
  <2>1. IsSeq(first.tree)
    BY <1>2 DEF TreeInv, IsTree
  <2>2. Len(first.tree) \in Nat
    BY <2>1, SeqHas
  <2> QED BY <1>2, <2>2
<1>4. join[0] = first /\ \A n \in 1..M : join[n] = JoinTop(join[n - 1].tree, join[n - 1].cg, 0)
  BY DEF AreJoins
<1>5. 0 \in P
  <2>1. 0 \in 0..M
    BY <1>3
  <2>2. N - 0 = N
    BY <1>3
  <2>3. Joint(0)
    BY <1>2, <1>4, <2>2
  <2> HIDE DEF Joint, M
  <2> QED BY <2>1, <2>3
<1>6. \A n \in 0..M : n < M /\ n \in P => n + 1 \in P
  <2> SUFFICES ASSUME NEW n \in 0..M, n < M, n \in P PROVE n + 1 \in P
    OBVIOUS
  <2> DEFINE t == join[n].tree
             g == join[n].cg
             j == join[n + 1]
  <2>1. n + 1 \in 1..M /\ n + 1 \in 0..M /\ (n + 1) - 1 = n /\ N - n >= 2 /\ N - n - 1 = N - (n + 1)
    <3> HIDE DEF P
    <3> QED BY <1>3, OneMore
  <2>2. TreeInv(t, g, calls, says) /\ Len(t) = N - n /\ t[Len(t)].nr = 0
    OBVIOUS
  <2>3. j = JoinTop(t, g, 0)
    <3>1. join[n + 1] = JoinTop(join[(n + 1) - 1].tree, join[(n + 1) - 1].cg, 0)
      BY <1>4, <2>1
    <3> QED BY <2>1, <3>1
  <2> HIDE DEF t, g, j
  <2>4. /\ TreeInv(j.tree, j.cg, calls, says) /\ Len(j.tree) = Len(t) - 1
        /\ j.tree[Len(j.tree)].nr = t[Len(t)].nr
    <3>1. Len(t) >= 2
      BY <2>1, <2>2
    <3> HIDE DEF N, M
    <3> QED BY <2>2, <2>3, <3>1, TreeJoins
  <2>5. Joint(n + 1)
    BY <2>1, <2>2, <2>4 DEF j
  <2> QED BY <2>1, <2>5
<1> HIDE DEF P
<1>7. \A n \in 0..M : n \in P
  <2>1. M \in Nat
    BY <1>3
  <2> HIDE DEF M, N
  <2> QED BY <1>5, <1>6, <2>1, UpTo
<1>8. Joint(M)
  <2>1. M \in P
    <3>1. M \in Nat
      BY <1>3
    <3> HIDE DEF M
    <3>2. M \in 0..M
      BY <3>1
    <3> QED BY <1>7, <3>2
  <2> HIDE DEF M, Joint
  <2> QED BY <2>1 DEF P
<1> QED BY <1>3, <1>8 DEF OneLeft, ReachesZero

\* The ranges, the loops and the prelude together: for every list of ranges, and every way
\* that the calls may fall into them, the program that generate puts out does to a call
\* of the audited architecture what the range of its number says, unless a jump was too
\* far for its field; a call of another architecture is killed.
THEOREM GenerateDecides ==
    ASSUME NEW ranges, AreRanges(ranges), NEW codes,
           \A k \in 1..Len(ranges) : IsChain(ranges[k], codes[k]),
           NEW calls, HaveNumbers(calls), NEW says, RangesSay(ranges, codes, calls, says),
           NEW turn, AreTurns(turn, ranges, codes),
           NEW join, AreJoins(join, turn[Len(ranges)]),
           NEW last, last = join[Len(turn[Len(ranges)].tree) - 1], ~last.cg.overflow,
           NEW program,
           program = EmitArchPrelude(ResolveTarget(last.cg, last.tree[1].target).cg).buffer
    PROVE  Enforces(program, calls, says)
<1> DEFINE first == turn[Len(ranges)]
<1>1. Len(ranges) \in 1..Len(ranges) /\ Len(ranges) - Len(ranges) + 1 = 1
  BY RangesCount
<1>2. ReachesZero(first, calls, says)
  <2> DEFINE n == Len(ranges)
  <2>1. n \in 1..Len(ranges) /\ Len(ranges) - n + 1 = 1
    BY <1>1
  <2> HIDE DEF n
  <2>2. /\ TreeInv(turn[n].tree, turn[n].cg, calls, says)
        /\ Len(turn[n].tree) >= 1
        /\ turn[n].tree[Len(turn[n].tree)].nr = ranges[Len(ranges) - n + 1].first
    BY <2>1, TurnsBuildTree
  <2>3. ranges[Len(ranges) - n + 1].first = 0
    BY <2>1 DEF AreRanges
  <2> QED BY <2>2, <2>3 DEF n, ReachesZero
<1>3. AreJoins(join, first) /\ last = join[Len(first.tree) - 1]
  OBVIOUS
<1> HIDE DEF first
<1>4. OneLeft(last, calls, says)
  BY <1>2, <1>3, JoinsLeaveOne
<1> DEFINE t == last.tree
           g == last.cg
<1>11. TreeInv(t, g, calls, says) /\ Len(t) = 1 /\ t[1].nr = 0 /\ ~g.overflow
  BY <1>4 DEF OneLeft, ReachesZero
<1>12. program = EmitArchPrelude(ResolveTarget(g, t[1].target).cg).buffer
  OBVIOUS
<1> HIDE DEF t, g
<1> QED BY <1>11, <1>12, ProgramDecides

-----------------------------------------------------------------------------
(* From rules to the program.                                              *)

\* What comes of the filters that a number's rules have: their code.
CodesOf(said, code) ==
    [i \in 1..Len(said.mappings) |-> code[said.mappings[i].filter]]

\* The code of every filter of the number nr takes the exit that `truth` has for the filter.
AreTrue(said, code, call, truth) ==
    \A i \in 1..Len(said.mappings) :
        LET filter == said.mappings[i].filter
        IN truth[filter] \in BOOLEAN /\ Takes(code[filter], call, truth[filter])

LEMMA NumbersAreNat == 0..MaxSyscallNr \subseteq Nat
BY MaxSyscallNrIsNat

LEMMA FirstOfRange ==
    ASSUME NEW ranges, AreRanges(ranges), NEW k \in 1..Len(ranges),
           ranges[k].first <= ranges[k].last, ranges[k].last \in Nat
    PROVE  ranges[k].first \in Nat /\ ranges[k].first \in ranges[k].first .. ranges[k].last
BY DEF AreRanges

\* The normalized ranges are such as generate takes, and the range of a number has what
\* the rules say of the number.
LEMMA RangesFit ==
    ASSUME NEW R, NEW rules \in Seq(R), \A r \in R : r.nr \in Nat, NEW default,
           NEW ranges, ranges = NormalizeRanges(rules, default)
    PROVE  /\ AreRanges(ranges)
           /\ \A k \in 1..Len(ranges) :
                 /\ ranges[k].first <= ranges[k].last
                 /\ ranges[k].last \in Nat
                 /\ Says(ranges[k], Said(rules, default))
           /\ \A k \in 1..Len(ranges) : \A nr \in 0..MaxSyscallNr :
                 IsIn(nr, ranges, k) => nr \in ranges[k].first .. ranges[k].last
<1> DEFINE n    == Len(ranges)
           RS   == SaidRanges(rules, default)
           want == Said(rules, default)
<1>1. ranges \in Seq(RS)
  BY NormalizeFills
<1>2. PICK next \in Nat : Filled(ranges, next, want) /\ next > MaxSyscallNr
  BY NormalizeFills
<1>3. MaxSyscallNr \in Nat
  BY MaxSyscallNrIsNat
<1> HIDE DEF RS, want
<1>4. IsSeq(ranges) /\ n \in Nat /\ DOMAIN ranges = 1..n /\ \A k \in 1..n : ranges[k] \in RS
  BY <1>1, SeqIs
<1>5. ranges # <<>>
  <2>1. next # 0
    BY <1>2, <1>3
  <2> QED BY <1>2, <2>1 DEF Filled
<1>6. n >= 1
  BY <1>1, <1>4, <1>5
<1>7. \A k \in 1..n : /\ ranges[k].first \in Nat /\ ranges[k].last \in Nat
                      /\ ranges[k].first <= ranges[k].last
  BY <1>4, RangeNumbers DEF RS, SaidRanges
<1>8. \A k \in 1..n : k > 1 => ranges[k - 1].last < ranges[k].first
  <2> SUFFICES ASSUME NEW k \in 1..n, k > 1 PROVE ranges[k - 1].last < ranges[k].first
    OBVIOUS
  <2>1. k - 1 \in 1..n /\ k - 1 < k
    BY <1>4
  <2> QED BY <1>2, <1>4, <2>1 DEF Filled, Ascends
<1>9. AreRanges(ranges)
  <2>1. \A k \in 1..n : k > 1 => ranges[k - 1].first < ranges[k].first
    <3> SUFFICES ASSUME NEW k \in 1..n, k > 1 PROVE ranges[k - 1].first < ranges[k].first
      OBVIOUS
    <3>1. k - 1 \in 1..n
      BY <1>4
    <3> QED BY <1>7, <1>8, <3>1
  <2>2. ranges[1].first = 0
    BY <1>2, <1>5 DEF Filled
  <2> QED BY <1>4, <1>6, <1>7, <2>1, <2>2 DEF AreRanges
<1>10. \A k \in 1..n : Says(ranges[k], want)
  BY <1>2, <1>4 DEF Filled, AllSay
<1>11. ASSUME NEW k \in 1..n, NEW nr \in 0..MaxSyscallNr, IsIn(nr, ranges, k)
       PROVE  nr \in ranges[k].first .. ranges[k].last
  <2>1. CASE k < n
    <3>1. k + 1 \in 1..n
      BY <1>4, <2>1
    <3>2. ranges[k].last + 1 = ranges[k + 1].first
      BY <1>2, <1>4, <3>1 DEF Filled, Contiguous
    <3> QED BY <1>3, <1>7, <1>11, <2>1, <3>2 DEF IsIn
  <2>2. CASE k = n
    <3>1. ranges[n].last + 1 = next
      BY <1>2, <1>5 DEF Filled
    <3> QED BY <1>2, <1>3, <1>7, <1>11, <2>2, <3>1 DEF IsIn
  <2>3. k < n \/ k = n
    <3>1. n \in Nat
      BY <1>4
    <3> HIDE DEF n
    <3> QED BY <3>1
  <2> QED BY <2>1, <2>2, <2>3
<1>12. \A k \in 1..Len(ranges) :
          /\ ranges[k].first <= ranges[k].last
          /\ ranges[k].last \in Nat
          /\ Says(ranges[k], Said(rules, default))
  BY <1>7, <1>10 DEF want
<1>13. \A k \in 1..Len(ranges) : \A nr \in 0..MaxSyscallNr :
          IsIn(nr, ranges, k) => nr \in ranges[k].first .. ranges[k].last
  BY <1>11
<1> QED BY <1>9, <1>12, <1>13

\* From the rules of a policy to the program: for every list of rules and every call of the
\* audited architecture that has a number the ranges cover, the program does what the first
\* conditional rule of the number says whose filter holds of the call, or else the first
\* unconditional one, or else the default, and it kills a call of another architecture;
\* provided that the code of each filter is right by itself, and no jump was too far.
THEOREM RulesAreEnforced ==
    ASSUME NEW R, NEW rules \in Seq(R), \A r \in R : r.nr \in Nat, NEW default,
           NEW code,
           \A nr \in Nat : LET said == Said(rules, default)[nr]
                           IN IsChain(said, CodesOf(said, code)),
           NEW calls, \A call \in calls : call.nr \in 0..MaxSyscallNr,
           NEW truth,
           \A call \in calls : AreTrue(Said(rules, default)[call.nr], code, call, truth[call]),
           NEW says,
           \A call \in calls :
              LET said == Said(rules, default)[call.nr]
              IN Rules(said, CodesOf(said, truth[call]), 1, says[call]),
           NEW ranges, ranges = NormalizeRanges(rules, default),
           NEW codes, \A k \in 1..Len(ranges) : codes[k] = CodesOf(ranges[k], code),
           NEW turn, AreTurns(turn, ranges, codes),
           NEW join, AreJoins(join, turn[Len(ranges)]),
           NEW last, last = join[Len(turn[Len(ranges)].tree) - 1], ~last.cg.overflow,
           NEW program,
           program = EmitArchPrelude(ResolveTarget(last.cg, last.tree[1].target).cg).buffer
    PROVE  Enforces(program, calls, says)
<1> DEFINE want == Said(rules, default)
<1>1. /\ AreRanges(ranges)
      /\ \A k \in 1..Len(ranges) :
            /\ ranges[k].first <= ranges[k].last /\ ranges[k].last \in Nat
            /\ Says(ranges[k], want)
      /\ \A k \in 1..Len(ranges) : \A nr \in 0..MaxSyscallNr :
            IsIn(nr, ranges, k) => nr \in ranges[k].first .. ranges[k].last
  BY RangesFit
<1> HIDE DEF want
<1>2. ASSUME NEW k \in 1..Len(ranges) PROVE IsChain(ranges[k], codes[k])
  <2> DEFINE range == ranges[k]
             nr    == range.first
             said  == want[nr]
  <2>1. nr \in Nat /\ nr \in range.first .. range.last
    BY <1>1, FirstOfRange
  <2>2. range.action = said.action /\ range.mappings = said.mappings
    BY <1>1, <2>1 DEF Says
  <2>3. IsChain(said, CodesOf(said, code))
    BY <2>1 DEF want
  <2>4. codes[k] = CodesOf(range, code)
    OBVIOUS
  <2> HIDE DEF range, nr, said
  <2>5. IsChain(range, CodesOf(range, code))
    BY <2>2, <2>3 DEF IsChain, CodesOf
  <2> QED BY <2>4, <2>5 DEF range
<1>3. ASSUME NEW k \in 1..Len(ranges), NEW call \in calls, IsIn(call.nr, ranges, k)
      PROVE  \E holds \in [1..Len(ranges[k].mappings) -> BOOLEAN] :
                AllTake(ranges[k], codes[k], call, holds) /\ Rules(ranges[k], holds, 1, says[call])
  <2> DEFINE range == ranges[k]
             said  == want[call.nr]
             holds == CodesOf(said, truth[call])
  <2>1. range.action = said.action /\ range.mappings = said.mappings
    BY <1>1, <1>3 DEF Says
  <2>2. AreTrue(said, code, call, truth[call])
    BY DEF want
  <2>3. Rules(said, holds, 1, says[call])
    BY DEF want
  <2>4. codes[k] = CodesOf(range, code)
    OBVIOUS
  <2> HIDE DEF range, said
  <2>5. holds \in [1..Len(range.mappings) -> BOOLEAN]
    BY <2>1, <2>2 DEF CodesOf, AreTrue
  <2>6. AllTake(range, CodesOf(range, code), call, holds)
    BY <2>1, <2>2 DEF AllTake, CodesOf, AreTrue
  <2> HIDE DEF holds
  <2>7. Rules(range, holds, 1, says[call])
    BY <2>1, <2>3 DEF Rules
  <2> QED BY <2>4, <2>5, <2>6, <2>7 DEF range
<1>4. RangesSay(ranges, codes, calls, says)
  BY <1>3 DEF RangesSay
<1>5. HaveNumbers(calls)
  <2>1. \A call \in calls : call.nr \in Nat
    BY NumbersAreNat
  <2> QED BY <2>1 DEF HaveNumbers
<1> QED BY <1>1, <1>2, <1>4, <1>5, GenerateDecides

=============================================================================
