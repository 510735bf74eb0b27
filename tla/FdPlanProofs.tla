---------------------------- MODULE FdPlanProofs ----------------------------
(***************************************************************************)
(* Proofs about FdPlan, for descriptor tables and lists of any size.       *)
(*                                                                         *)
(* The scan of next_keep_fd is a minimum, and a plan's keep list a sorted  *)
(* set; both need the fact that a set of numbers has a least element, of   *)
(* which the first part is a proof.  With it FdInv, which says what is     *)
(* closed and what is still open below the cursor, is inductive.           *)
(***************************************************************************)
EXTENDS FdPlan, FiniteSetTheorems, TLAPS

-----------------------------------------------------------------------------
(* Least elements.                                                          *)

\* Of the intervals 0..m over a set of numbers one is inside all the others,
\* since the subset order is well-founded on finite sets.
LEMMA LeastNat ==
    ASSUME NEW S \in SUBSET Nat, S # {}
    PROVE  \E m \in S : \A k \in S : m <= k
<1> DEFINE T == {0..m : m \in S}
           R == StrictSubsetOrdering(Nat)
<1>1. IsWellFoundedOn(R, FiniteSubsetsOf(Nat))
  BY FS_StrictSubsetOrderingWellFounded
<1>2. T \subseteq FiniteSubsetsOf(Nat) /\ T # {}
  <2>1. \A m \in S : IsFiniteSet(0..m) /\ 0..m \in SUBSET Nat
    BY FS_Interval
  <2>. QED  BY <2>1 DEF FiniteSubsetsOf
<1>3. PICK x \in T : \A y \in T : ~ (<<y, x>> \in R)
  <2> HIDE DEF T, R
  <2>. QED  BY <1>1, <1>2, WFMin
<1>4. PICK m \in S : x = 0..m
  OBVIOUS
<1>5. ASSUME NEW k \in S, k < m PROVE FALSE
  <2>1. 0..k \in SUBSET Nat /\ 0..m \in SUBSET Nat /\ 0..k \subseteq 0..m
    BY <1>5
  <2>2. m \in 0..m /\ m \notin 0..k
    BY <1>5
  <2>3. <<0..k, 0..m>> \in R
    BY <2>1, <2>2 DEF StrictSubsetOrdering
  <2>. QED  BY <1>3, <1>4, <2>3
<1>. QED  BY <1>5

LEMMA MinIsLeast ==
    ASSUME NEW S \in SUBSET Nat, S # {}
    PROVE  Min(S) \in S /\ \A k \in S : Min(S) <= k
BY LeastNat DEF Min

\* How many elements of a finite set of numbers are smaller than x.
Rank(S, x) == Cardinality(Below(S, x))

LEMMA RankType ==
    ASSUME NEW S \in SUBSET Int, IsFiniteSet(S), NEW x \in S
    PROVE  IsFiniteSet(Below(S, x)) /\ Rank(S, x) \in 0..(Cardinality(S) - 1)
<1>1. Below(S, x) \in SUBSET S /\ x \notin Below(S, x)
  BY DEF Below
<1>2. IsFiniteSet(Below(S, x))
  BY <1>1, FS_Subset
<1>3. Rank(S, x) \in Nat /\ Cardinality(S) \in Nat
  BY <1>2, FS_CardinalityType DEF Rank
<1>4. Rank(S, x) <= Cardinality(S) /\ Rank(S, x) # Cardinality(S)
  BY <1>1, FS_Subset DEF Rank
<1>5. Rank(S, x) \in 0..(Cardinality(S) - 1)
  BY <1>3, <1>4
<1>. QED  BY <1>2, <1>5

LEMMA RankGrows ==
    ASSUME NEW S \in SUBSET Int, IsFiniteSet(S), NEW x \in S, NEW y \in S, x < y
    PROVE  Rank(S, x) < Rank(S, y)
<1>1. Below(S, x) \in SUBSET Below(S, y) /\ Below(S, x) # Below(S, y)
  <2>1. x \in Int /\ y \in Int
    OBVIOUS
  <2>2. \A z \in S : z < x => z < y
    <3> SUFFICES ASSUME NEW z \in Int, z < x PROVE z < y
      OBVIOUS
    <3>. QED  BY <2>1
  <2>3. x \in Below(S, y) /\ x \notin Below(S, x)
    BY <2>1 DEF Below
  <2>. QED  BY <2>2, <2>3 DEF Below
<1>2. IsFiniteSet(Below(S, y))
  BY RankType
<1>3. Rank(S, x) <= Rank(S, y) /\ Rank(S, x) # Rank(S, y)
  BY <1>1, <1>2, FS_Subset DEF Rank
<1>4. Rank(S, x) \in Nat /\ Rank(S, y) \in Nat
  <2>1. /\ Rank(S, x) \in 0..(Cardinality(S) - 1)
        /\ Rank(S, y) \in 0..(Cardinality(S) - 1)
    BY RankType
  <2>. QED  BY <2>1
<1>. QED  BY <1>3, <1>4

IsAscending(s) == \A i, j \in 1..Len(s) : i < j => s[i] < s[j]

\* The list of FileDescriptors::prepare is sorted, and holds what the set holds.
LEMMA AscendingSorts ==
    ASSUME NEW S \in SUBSET Int, IsFiniteSet(S)
    PROVE  /\ Ascending(S) \in Seq(S)
           /\ IsAscending(Ascending(S))
           /\ S = {Ascending(S)[i] : i \in 1..Len(Ascending(S))}
<1> DEFINE n == Cardinality(S)
           s == Ascending(S)
           rank == [x \in S |-> Rank(S, x)]
<1>1. n \in Nat
  BY FS_CardinalityType
<1>2. rank \in [S -> 0..(n - 1)]
  BY RankType
<1>3. \A x, y \in S : Rank(S, x) = Rank(S, y) => x = y
  <2> SUFFICES ASSUME NEW x \in S, NEW y \in S, Rank(S, x) = Rank(S, y), x # y
               PROVE  FALSE
    OBVIOUS
  <2>1. Rank(S, x) \in Int
    BY RankType, <1>1
  <2>2. x < y \/ y < x
    OBVIOUS
  <2>. QED  BY <2>1, <2>2, RankGrows
<1>4. rank \in Injection(S, 0..(n - 1))
  BY <1>2, <1>3 DEF Injection, IsInjective
<1>5. rank \in Surjection(S, 0..(n - 1))
  <2>1. IsFiniteSet(0..(n - 1)) /\ Cardinality(0..(n - 1)) = n
    BY <1>1, FS_Interval
  <2> HIDE DEF rank
  <2>. QED  BY <1>4, <2>1, FS_Injection
<1>6. \A i \in 1..n : s[i] \in S /\ Rank(S, s[i]) = i - 1
  <2> SUFFICES ASSUME NEW i \in 1..n PROVE s[i] \in S /\ Rank(S, s[i]) = i - 1
    OBVIOUS
  <2>1. i - 1 \in 0..(n - 1)
    BY <1>1
  <2>2. \E x \in S : rank[x] = i - 1
    BY <1>5, <2>1 DEF Surjection
  <2>3. \E x \in S : Cardinality(Below(S, x)) = i - 1
    BY <2>2 DEF Rank
  <2>4. s[i] = CHOOSE x \in S : Cardinality(Below(S, x)) = i - 1
    BY DEF Ascending
  <2>. QED  BY <2>3, <2>4 DEF Rank
<1>7. s \in Seq(S) /\ Len(s) = n
  BY <1>1, <1>6 DEF Ascending
<1> HIDE DEF s
<1>8. ASSUME NEW i \in 1..n, NEW j \in 1..n, i < j PROVE s[i] < s[j]
  <2>1. s[i] \in S /\ s[j] \in S /\ Rank(S, s[i]) = i - 1 /\ Rank(S, s[j]) = j - 1
    BY <1>6
  <2>2. ~ (s[j] < s[i])
    <3> SUFFICES ASSUME s[j] < s[i] PROVE FALSE
      OBVIOUS
    <3>1. Rank(S, s[j]) < Rank(S, s[i])
      BY <2>1, RankGrows
    <3>. QED  BY <1>1, <1>8, <2>1, <3>1
  <2>3. s[i] # s[j]
    BY <1>1, <1>8, <2>1
  <2>4. s[i] \in Int /\ s[j] \in Int
    BY <2>1
  <2>. QED  BY <2>2, <2>3, <2>4
<1>9. ASSUME NEW x \in S PROVE \E i \in 1..n : x = s[i]
  <2>1. Rank(S, x) \in 0..(n - 1)
    BY RankType
  <2>2. PICK i \in 1..n : i - 1 = Rank(S, x)
    BY <1>1, <2>1
  <2>3. s[i] \in S /\ Rank(S, s[i]) = Rank(S, x)
    BY <1>6, <2>2
  <2>. QED  BY <1>3, <2>3
<1>10. IsAscending(s)
  BY <1>7, <1>8 DEF IsAscending
<1>11. S = {s[i] : i \in 1..Len(s)}
  BY <1>6, <1>7, <1>9
<1>. QED  BY <1>7, <1>10, <1>11 DEF s

-----------------------------------------------------------------------------
(* Where the scan of next_keep_fd stops.                                    *)

LEMMA CastType ==
    ASSUME NEW f \in CInt
    PROVE  /\ AsU32(f) \in 0..U32Max
           /\ f >= 0 => AsU32(f) = f
           /\ f < 0 => AsU32(f) > MaxFd
BY WidthAssumption DEF CInt, U32Max, AsU32

LEMMA FirstKeptType ==
    ASSUME keep \in Seq(CInt), NEW c \in 0..U32Max
    PROVE  /\ FirstKept(c) \in c..U32Max
           /\ FirstKept(c) = U32Max \/ FirstKept(c) \in Kept \/ FirstKept(c) > MaxFd
           /\ IsAscending(keep) /\ NoneNegative =>
                  \A i \in 1..Len(keep) : keep[i] >= c => FirstKept(c) <= keep[i]
<1> DEFINE hits == {i \in 1..Len(keep) : AsU32(keep[i]) >= c}
<1>0. U32Max \in Nat /\ Len(keep) \in Nat /\ \A i \in 1..Len(keep) : keep[i] \in CInt
  BY WidthAssumption DEF U32Max
<1>1. CASE hits = {}
  <2>1. FirstKept(c) = U32Max
    BY <1>1 DEF FirstKept
  <2>2. ASSUME NoneNegative, NEW i \in 1..Len(keep), keep[i] >= c PROVE FALSE
    <3>1. AsU32(keep[i]) = keep[i]
      BY <1>0, <2>2, CastType DEF NoneNegative
    <3>. QED  BY <1>1, <2>2, <3>1
  <2>. QED  BY <1>0, <2>1, <2>2
<1>2. CASE hits # {}
  <2>1. hits \in SUBSET Nat
    BY <1>0
  <2>2. \E m \in hits : \A k \in hits : m <= k
    <3> HIDE DEF hits
    <3>. QED  BY <1>2, <2>1, LeastNat
  <2>3. PICK m \in hits : /\ \A k \in hits : m <= k
                          /\ FirstKept(c) = AsU32(keep[m])
    BY <1>2, <2>2 DEF FirstKept
  <2>4. m \in 1..Len(keep) /\ keep[m] \in CInt /\ AsU32(keep[m]) >= c
    BY <1>0
  <2>5. AsU32(keep[m]) \in c..U32Max
    BY <1>0, <2>4, CastType
  <2>6. keep[m] \in Int
    BY <2>4, WidthAssumption DEF CInt
  <2>7. AsU32(keep[m]) \in Kept \/ AsU32(keep[m]) > MaxFd
    <3>1. CASE keep[m] < 0
      BY <2>4, <3>1, CastType
    <3>2. CASE keep[m] >= 0
      BY <2>4, <3>2, CastType DEF Kept
    <3>. QED  BY <2>6, <3>1, <3>2
  <2>8. ASSUME IsAscending(keep), NoneNegative, NEW i \in 1..Len(keep), keep[i] >= c
        PROVE  AsU32(keep[m]) <= keep[i]
    <3>1. AsU32(keep[i]) = keep[i] /\ AsU32(keep[m]) = keep[m]
      BY <1>0, <2>4, <2>8, CastType DEF NoneNegative
    <3>2. i \in hits
      BY <2>8, <3>1
    <3>3. m = i \/ m < i
      BY <2>3, <2>4, <3>2
    <3>4. keep[i] \in Int
      BY <1>0, WidthAssumption DEF CInt
    <3>5. m = i \/ keep[m] < keep[i]
      BY <2>4, <2>8, <3>3 DEF IsAscending
    <3>. QED  BY <2>6, <3>1, <3>4, <3>5
  <2>. QED  BY <2>3, <2>5, <2>7, <2>8
<1>. QED  BY <1>1, <1>2

LEMMA NextKeepType ==
    ASSUME keep \in Seq(CInt), extra \in ExtraKeeps, NEW c \in 3..U32Max
    PROVE  /\ NextKeep(c) \in c..U32Max
           /\ NextKeep(c) = U32Max \/ NextKeep(c) \in Kept \/ NextKeep(c) > MaxFd
           /\ IsAscending(keep) /\ NoneNegative =>
                  \A f \in Kept : f >= c => NextKeep(c) <= f
<1> DEFINE more == {f \in extra : f >= 3 /\ f >= c}
           S == {FirstKept(c)} \cup more
<1>0. U32Max \in Nat /\ MaxFd \in Nat /\ MaxFd < U32Max /\ c \in Nat /\ c \in 0..U32Max
  BY WidthAssumption DEF U32Max
<1>1. /\ FirstKept(c) \in c..U32Max
      /\ FirstKept(c) = U32Max \/ FirstKept(c) \in Kept \/ FirstKept(c) > MaxFd
  BY <1>0, FirstKeptType
<1>2. \A f \in more : f \in c..MaxFd /\ f \in Kept
  BY <1>0, WidthAssumption DEF Kept
<1>3. S \in SUBSET Nat /\ S # {} /\ \A k \in S : k \in c..U32Max
  BY <1>0, <1>1, <1>2
<1>4. Min(S) \in S /\ \A k \in S : Min(S) <= k
  <2> HIDE DEF S
  <2>. QED  BY <1>3, MinIsLeast
<1>5. NextKeep(c) = Min(S)
  BY DEF NextKeep
<1>6. ASSUME IsAscending(keep), NoneNegative, NEW f \in Kept, f >= c
      PROVE  \E k \in S : k <= f
  <2>1. CASE f \in extra
    <3>1. f \in Int /\ f >= 3
      BY <1>0, <1>6, <2>1, WidthAssumption
    <3>. QED  BY <1>6, <2>1, <3>1
  <2>2. CASE f \in {keep[i] : i \in 1..Len(keep)}
    <3>1. PICK i \in 1..Len(keep) : f = keep[i]
      BY <2>2
    <3>2. FirstKept(c) <= f
      BY <1>0, <1>6, <3>1, FirstKeptType
    <3>. QED  BY <3>2
  <2>3. CASE f \in {0, 1, 2}
    BY <1>6, <2>3, <1>0
  <2>. QED  BY <1>6, <2>1, <2>2, <2>3 DEF Kept
<1>7. ASSUME IsAscending(keep), NoneNegative, NEW f \in Kept, f >= c
      PROVE  Min(S) <= f
  <2>1. PICK k \in S : k <= f
    BY <1>6, <1>7
  <2>2. f \in Int
    BY <1>7, WidthAssumption DEF Kept, CInt
  <2>3. Min(S) <= k /\ Min(S) \in Int /\ k \in Int
    BY <1>3, <1>4
  <2>. QED  BY <2>1, <2>2, <2>3
<1>. QED  BY <1>1, <1>2, <1>3, <1>4, <1>5, <1>7

-----------------------------------------------------------------------------
(* The invariant.                                                           *)

\* What the loop of close_other_fds has done up to the cursor.
ClosedSoFar ==
    /\ phase = "apply" => cursor = 3
    /\ phase \in {"close", "done"} => pos = Len(actions)
    /\ phase \in {"apply", "close"} => \A f \in DOMAIN fds : f < cursor => f \in Kept
    /\ phase = "done" => DOMAIN fds \subseteq Kept

FdInv ==
    /\ TypeOK
    /\ DOMAIN open0 \subseteq 0..MaxFd
    /\ actions \in Seq(FdAction) /\ keep \in Seq(CInt) /\ extra \in ExtraKeeps
    /\ ClosedSoFar

LEMMA ElementOf ==
    ASSUME NEW S, NEW s \in Seq(S), NEW i \in 1..Len(s) PROVE s[i] \in S
OBVIOUS

\* An element of a list of actions.
LEMMA ActionType ==
    ASSUME NEW as \in Seq(FdAction), NEW i \in 1..Len(as)
    PROVE  /\ as[i].src \in CInt /\ as[i].dst \in CInt
           /\ as[i].op \in {"dup2", "close"}
           /\ as[i].op = "close" => as[i].dst = as[i].src
<1>1. as[i] \in FdAction
  BY ElementOf
<1>. QED  BY <1>1 DEF FdAction

\* FileDescriptors::prepare hands over a list that close_other_fds may rely on.
LEMMA PlanKeepSorted ==
    ASSUME NEW as \in Seq(FdAction)
    PROVE  PlanKeep(as) \in Seq(CInt) /\ IsAscending(PlanKeep(as))
<1> DEFINE S == {0, 1, 2} \cup Destinations(as)
<1>1. \A i \in 1..Len(as) : as[i].dst \in CInt
  BY ActionType
<1>2. S \in SUBSET CInt
  <2>1. 0 \in CInt /\ 1 \in CInt /\ 2 \in CInt
    BY WidthAssumption DEF CInt
  <2>. QED  BY <1>1, <2>1 DEF Destinations
<1>3. CInt \in SUBSET Int /\ IsFiniteSet(CInt)
  BY FS_Interval, WidthAssumption DEF CInt
<1>4. S \in SUBSET Int /\ IsFiniteSet(S)
  BY <1>2, <1>3, FS_Subset
<1>5. Ascending(S) \in Seq(S) /\ IsAscending(Ascending(S))
  <2> HIDE DEF S
  <2>. QED  BY <1>4, AscendingSorts
<1>6. Ascending(S) \in Seq(CInt)
  <2> HIDE DEF S
  <2>. QED  BY <1>2, <1>5
<1>. QED  BY <1>5, <1>6 DEF PlanKeep

LEMMA FdInitInv == Init => FdInv
<1> SUFFICES ASSUME Init PROVE FdInv
  OBVIOUS
<1>1. DOMAIN open0 \subseteq 0..MaxFd /\ \A f \in DOMAIN open0 : open0[f] = f
  BY WidthAssumption DEF Init
<1>2. actions \in Seq(FdAction) /\ keep \in Seq(CInt)
  BY ListAssumption, PlanKeepSorted DEF Init
<1>3. cursor \in 3..U32Max /\ pos \in 0..Len(actions)
  BY <1>2, WidthAssumption DEF Init, U32Max
<1>4. TypeOK
  BY <1>1, <1>3 DEF Init, TypeOK
<1>5. ClosedSoFar
  BY <1>1, <1>3 DEF Init, ClosedSoFar, Kept
<1>. QED  BY <1>1, <1>2, <1>4, <1>5 DEF Init, FdInv

\* An action that is carried out.
LEMMA DupType ==
    ASSUME TypeOK, NEW s \in DOMAIN fds, NEW d \in 0..MaxFd
    PROVE  /\ DOMAIN DupOnto(s, d) = DOMAIN fds \cup {d}
           /\ DOMAIN DupOnto(s, d) \subseteq 0..MaxFd
           /\ \A f \in DOMAIN DupOnto(s, d) : DupOnto(s, d)[f] \in DOMAIN open0
           /\ DupOnto(s, d)[d] = fds[s]
           /\ \A f \in DOMAIN fds : f # d => DupOnto(s, d)[f] = fds[f]
BY DEF TypeOK, DupOnto

LEMMA WithoutType ==
    ASSUME TypeOK, NEW S
    PROVE  /\ DOMAIN WithoutFds(S) = DOMAIN fds \ S
           /\ \A f \in DOMAIN fds \ S : WithoutFds(S)[f] = fds[f]
           /\ DOMAIN WithoutFds(S) \subseteq 0..MaxFd
           /\ \A f \in DOMAIN WithoutFds(S) : WithoutFds(S)[f] \in DOMAIN open0
BY DEF TypeOK, WithoutFds

\* The step of apply_actions, by what it does to the table.
LEMMA ApplyCases ==
    ASSUME FdInv, Apply
    PROVE  LET a == actions[pos + 1]
           IN /\ pos + 1 \in 1..Len(actions)
              /\ UNCHANGED <<open0, actions, keep, extra, cursor>>
              /\ \/ phase' = "failed" /\ UNCHANGED <<fds, pos>>
                 \/ /\ phase' = "apply" /\ pos' = pos + 1
                    /\ \/ ~Maps(pos + 1) /\ UNCHANGED fds
                       \/ /\ Maps(pos + 1) /\ a.src \in DOMAIN fds /\ a.dst \in 0..MaxFd
                          /\ fds' = DupOnto(a.src, a.dst)
                       \/ ~Maps(pos + 1) /\ fds' = WithoutFds({a.dst})
<1>1. pos \in Nat /\ Len(actions) \in Nat /\ pos + 1 \in 1..Len(actions)
  BY DEF FdInv, TypeOK, Apply
<1>2. /\ actions[pos + 1].op = "close" => actions[pos + 1].dst = actions[pos + 1].src
  BY <1>1, ActionType DEF FdInv
<1>. QED  BY <1>1, <1>2 DEF Apply, plan, Maps

LEMMA ApplyInv == FdInv /\ Apply => FdInv'
<1> SUFFICES ASSUME FdInv, Apply PROVE FdInv'
  OBVIOUS
<1> DEFINE a == actions[pos + 1]
<1>1. /\ pos + 1 \in 1..Len(actions)
      /\ UNCHANGED <<open0, actions, keep, extra, cursor>>
      /\ \/ phase' = "failed" /\ UNCHANGED <<fds, pos>>
         \/ phase' = "apply" /\ pos' = pos + 1
  BY ApplyCases
<1>2. /\ DOMAIN fds' \subseteq 0..MaxFd
      /\ \A f \in DOMAIN fds' : fds'[f] \in DOMAIN open0
  <2>1. \/ UNCHANGED fds
        \/ a.src \in DOMAIN fds /\ a.dst \in 0..MaxFd /\ fds' = DupOnto(a.src, a.dst)
        \/ fds' = WithoutFds({a.dst})
    BY ApplyCases
  <2>2. TypeOK
    BY DEF FdInv
  <2>3. CASE UNCHANGED fds
    BY <1>1, <2>2, <2>3 DEF TypeOK
  <2>4. CASE a.src \in DOMAIN fds /\ a.dst \in 0..MaxFd /\ fds' = DupOnto(a.src, a.dst)
    <3> HIDE DEF a
    <3>. QED  BY <2>2, <2>4, DupType
  <2>5. CASE fds' = WithoutFds({a.dst})
    <3> HIDE DEF a
    <3>. QED  BY <2>2, <2>5, WithoutType
  <2>. QED  BY <2>1, <2>3, <2>4, <2>5
<1>3. cursor = 3
  BY DEF FdInv, ClosedSoFar, Apply
<1>4. TypeOK'
  BY <1>1, <1>2 DEF FdInv, TypeOK
<1>5. ClosedSoFar'
  BY <1>1, <1>2, <1>3, WidthAssumption DEF ClosedSoFar, Kept
<1>. QED  BY <1>1, <1>4, <1>5 DEF FdInv

\* The turn of the loop of close_other_fds.
LEMMA CloseInv == FdInv /\ CloseStep => FdInv'
<1> SUFFICES ASSUME FdInv, CloseStep PROVE FdInv'
  OBVIOUS
<1> DEFINE next == NextKeep(cursor)
<1>1. /\ cursor \in 3..U32Max /\ U32Max \in Nat /\ MaxFd \in Nat /\ MaxFd < U32Max
      /\ DOMAIN fds \subseteq 0..MaxFd /\ TypeOK
  BY WidthAssumption DEF FdInv, TypeOK, U32Max
<1>2. /\ next \in cursor..U32Max
      /\ next = U32Max \/ next \in Kept \/ next > MaxFd
  BY <1>1, NextKeepType DEF FdInv
<1>3. Kept' = Kept /\ UNCHANGED <<open0, actions, keep, extra, pos>> /\ phase = "close"
  BY DEF CloseStep, plan, Kept
<1> HIDE DEF next
<1>4. CASE next = U32Max
  <2>1. fds' = WithoutFds(cursor..U32Max) /\ phase' = "done" /\ cursor' = cursor
    BY <1>4 DEF CloseStep, next
  <2>2. DOMAIN fds' = DOMAIN fds \ (cursor..U32Max) /\ TypeOK'
    BY <1>1, <1>3, <2>1, WithoutType DEF TypeOK
  <2>3. \A f \in DOMAIN fds' : f \in Kept
    BY <1>1, <1>3, <2>2 DEF FdInv, ClosedSoFar
  <2>. QED  BY <1>3, <2>1, <2>2, <2>3 DEF FdInv, ClosedSoFar
<1>5. CASE next # U32Max
  <2>1. fds' = WithoutFds(cursor..(next - 1)) /\ phase' = "close" /\ cursor' = next + 1
    BY <1>3, <1>5 DEF CloseStep, next
  <2>2. cursor' \in 3..U32Max
    BY <1>1, <1>2, <1>5, <2>1
  <2>3. DOMAIN fds' = DOMAIN fds \ (cursor..(next - 1)) /\ TypeOK'
    BY <1>1, <1>3, <2>1, <2>2, WithoutType DEF TypeOK
  <2>4. ASSUME NEW f \in DOMAIN fds', f < next + 1 PROVE f \in Kept
    <3>1. f \in DOMAIN fds /\ f \in 0..MaxFd /\ f \notin cursor..(next - 1)
      BY <1>1, <2>3
    <3>2. CASE f < cursor
      BY <1>3, <3>1, <3>2 DEF FdInv, ClosedSoFar
    <3>3. CASE f >= cursor
      BY <1>1, <1>2, <1>5, <2>4, <3>1, <3>3
    <3>. QED  BY <1>1, <3>1, <3>2, <3>3
  <2>. QED  BY <1>3, <2>1, <2>3, <2>4 DEF FdInv, ClosedSoFar
<1>. QED  BY <1>4, <1>5

LEMMA FdNextInv == FdInv /\ [Next]_vars => FdInv'
<1> SUFFICES ASSUME FdInv, [Next]_vars PROVE FdInv'
  OBVIOUS
<1>1. CASE StartClosing
  BY <1>1 DEF FdInv, TypeOK, ClosedSoFar, Kept, StartClosing, plan
<1>2. CASE CloseRangeFails
  BY <1>2 DEF FdInv, TypeOK, ClosedSoFar, CloseRangeFails, plan
<1>3. CASE UNCHANGED vars
  BY <1>3 DEF FdInv, TypeOK, ClosedSoFar, Kept, vars, plan
<1>. QED  BY <1>1, <1>2, <1>3, ApplyInv, CloseInv DEF Next

LEMMA FdInvariance == Spec => []FdInv
BY FdInitInv, FdNextInv, PTL DEF Spec

\* Type correctness, for tables and lists of any size.
THEOREM FdTypeCorrect == Spec => []TypeOK
<1>1. FdInv => TypeOK  BY DEF FdInv
<1>. QED  BY <1>1, FdInvariance, PTL

\* When close_other_fds returns Ok, nothing is open but stdio, what the keep
\* list names and the control descriptors: for every keep list, sorted or not,
\* with whatever numbers in it (comment of close_other_fds).
THEOREM NothingElse == Spec => []NothingElseOpen
<1>1. FdInv => NothingElseOpen  BY DEF FdInv, ClosedSoFar, NothingElseOpen
<1>. QED  BY <1>1, FdInvariance, PTL

-----------------------------------------------------------------------------
(* What stays open.  For this the keep list has to be sorted, as those of   *)
(* FileDescriptors::prepare are.                                            *)

\* Until close_other_fds begins every open descriptor survives, from then on
\* those to be kept.
Survives(f) == phase = "apply" \/ (NoneNegative /\ f \in Kept)

Unmoved(f) == f \in DOMAIN fds /\ f \in DOMAIN open0 /\ fds[f] = open0[f]

MappedTo(i) ==
    actions[i].dst \in DOMAIN fds /\ fds[actions[i].dst] = open0[actions[i].src]

OpenInv ==
    /\ IsAscending(keep)
    /\ phase = "apply" => \A f \in DOMAIN fds : Untouched(f) => Unmoved(f)
    /\ phase # "failed" =>
         /\ \A f \in DOMAIN open0 : Untouched(f) /\ Survives(f) => Unmoved(f)
         /\ \A i \in 1..pos : /\ Maps(i) /\ SourceIntact(i) /\ LastOnto(i)
                              /\ Survives(actions[i].dst)
                              => MappedTo(i)

LEMMA OpenInit ==
    ASSUME \A d \in Direct : IsAscending(d[2]) PROVE Init => OpenInv
<1> SUFFICES ASSUME Init PROVE OpenInv
  OBVIOUS
<1>1. IsAscending(keep)
  BY ListAssumption, PlanKeepSorted DEF Init
<1>2. pos = 0 /\ fds = open0
  BY DEF Init
<1>. QED  BY <1>1, <1>2 DEF OpenInv, Unmoved

LEMMA OpenApply == FdInv /\ OpenInv /\ Apply => OpenInv'
<1> SUFFICES ASSUME FdInv, OpenInv, Apply, phase' # "failed" PROVE OpenInv'
  BY ApplyCases DEF OpenInv, Apply
<1> DEFINE a == actions[pos + 1]
<1>1. /\ pos \in Nat /\ pos + 1 \in 1..Len(actions) /\ phase = "apply"
      /\ UNCHANGED <<open0, actions, keep, extra, cursor>>
      /\ phase' = "apply" /\ pos' = pos + 1
  BY ApplyCases DEF FdInv, TypeOK, Apply
<1>2. \A f : Untouched(f)' => Untouched(f) /\ f # a.dst
  BY <1>1 DEF Untouched
<1>3. /\ \A f \in DOMAIN fds : f # a.dst => f \in DOMAIN fds' /\ fds'[f] = fds[f]
      /\ \A f \in DOMAIN fds' : f # a.dst => f \in DOMAIN fds
  <2>1. TypeOK
    BY DEF FdInv
  <2>2. CASE UNCHANGED fds
    BY <2>2
  <2>3. CASE a.src \in DOMAIN fds /\ a.dst \in 0..MaxFd /\ fds' = DupOnto(a.src, a.dst)
    <3>1. PICK s \in DOMAIN fds, d \in 0..MaxFd : d = a.dst /\ fds' = DupOnto(s, d)
      BY <2>3
    <3>2. /\ DOMAIN fds' = DOMAIN fds \cup {d}
          /\ \A f \in DOMAIN fds : f # d => fds'[f] = fds[f]
      BY <2>1, <3>1, DupType
    <3> HIDE DEF a
    <3>. QED  BY <3>1, <3>2
  <2>4. CASE fds' = WithoutFds({a.dst})
    <3> HIDE DEF a
    <3>. QED  BY <2>1, <2>4, WithoutType
  <2>5. \/ UNCHANGED fds
        \/ a.src \in DOMAIN fds /\ a.dst \in 0..MaxFd /\ fds' = DupOnto(a.src, a.dst)
        \/ fds' = WithoutFds({a.dst})
    BY <1>1, ApplyCases
  <2>. QED  BY <2>2, <2>3, <2>4, <2>5
<1>5. \A f \in DOMAIN fds' : Untouched(f)' => Unmoved(f)'
  BY <1>1, <1>2, <1>3 DEF OpenInv, Unmoved
<1>6. \A f \in DOMAIN open0 : Untouched(f)' => Unmoved(f)'
  BY <1>1, <1>2, <1>3 DEF OpenInv, Unmoved, Survives
<1>7. ASSUME NEW i \in 1..(pos + 1),
             Maps(i)', SourceIntact(i)', LastOnto(i)'
      PROVE  MappedTo(i)'
  <2>0. Maps(i) /\ SourceIntact(i)
    BY <1>1, <1>7 DEF Maps, SourceIntact
  <2>1. CASE i \in 1..pos
    <3>1. LastOnto(i) /\ actions[i].dst # a.dst
      BY <1>1, <1>7, <2>1 DEF LastOnto
    <3>2. MappedTo(i)
      BY <1>1, <2>0, <2>1, <3>1 DEF OpenInv, Survives
    <3>. QED  BY <1>1, <1>3, <3>1, <3>2 DEF MappedTo
  <2>2. CASE i = pos + 1
    <3>1. fds' = DupOnto(a.src, a.dst) /\ a.src \in DOMAIN fds /\ a.dst \in 0..MaxFd
      BY <2>0, <2>2, ApplyCases DEF Maps
    <3>2. Untouched(a.src)
      BY <1>1, <2>0, <2>2 DEF SourceIntact, Untouched
    <3>3. fds[a.src] = open0[a.src]
      BY <1>1, <3>1, <3>2 DEF OpenInv, Unmoved
    <3>4. a.dst \in DOMAIN fds' /\ fds'[a.dst] = fds[a.src]
      BY <3>1, DupType DEF FdInv
    <3>. QED  BY <1>1, <2>2, <3>3, <3>4 DEF MappedTo
  <2>. QED  BY <1>1, <2>1, <2>2
<1>8. IsAscending(keep')
  BY <1>1 DEF OpenInv
<1>. QED  BY <1>1, <1>5, <1>6, <1>7, <1>8 DEF OpenInv

\* No turn of the loop closes a descriptor that is to be kept.
LEMMA CloseKeeps ==
    ASSUME FdInv, IsAscending(keep), NoneNegative, CloseStep,
           NEW f \in DOMAIN fds, f \in Kept
    PROVE  f \in DOMAIN fds' /\ fds'[f] = fds[f]
<1> DEFINE next == NextKeep(cursor)
<1>1. /\ cursor \in 3..U32Max /\ U32Max \in Nat /\ MaxFd \in Nat /\ MaxFd < U32Max
      /\ f \in 0..MaxFd /\ TypeOK
  BY WidthAssumption DEF FdInv, TypeOK, U32Max
<1>2. next \in cursor..U32Max /\ (f >= cursor => next <= f)
  BY <1>1, NextKeepType DEF FdInv
<1>3. \/ next = U32Max /\ fds' = WithoutFds(cursor..U32Max)
      \/ next # U32Max /\ fds' = WithoutFds(cursor..(next - 1))
  BY DEF CloseStep
<1> HIDE DEF next
<1>4. CASE next = U32Max /\ fds' = WithoutFds(cursor..U32Max)
  <2>1. f \notin cursor..U32Max
    BY <1>1, <1>2, <1>4
  <2>. QED  BY <1>1, <1>4, <2>1, WithoutType
<1>5. CASE next # U32Max /\ fds' = WithoutFds(cursor..(next - 1))
  <2>1. f \notin cursor..(next - 1)
    BY <1>1, <1>2, <1>5
  <2>. QED  BY <1>1, <1>5, <2>1, WithoutType
<1>. QED  BY <1>3, <1>4, <1>5

LEMMA OpenClose == FdInv /\ OpenInv /\ CloseStep => OpenInv'
<1> SUFFICES ASSUME FdInv, OpenInv, CloseStep PROVE OpenInv'
  OBVIOUS
<1>1. /\ UNCHANGED <<open0, actions, keep, extra, pos>> /\ phase = "close"
      /\ phase' \in {"close", "done"}
  BY DEF CloseStep, plan
<1>2. /\ Kept' = Kept /\ NoneNegative' = NoneNegative
      /\ \A f : Untouched(f)' = Untouched(f)
      /\ \A i : /\ Maps(i)' = Maps(i) /\ SourceIntact(i)' = SourceIntact(i)
                /\ LastOnto(i)' = LastOnto(i)
  BY <1>1 DEF Kept, NoneNegative, Untouched, Maps, SourceIntact, LastOnto
<1>3. ASSUME NEW f \in DOMAIN fds, Survives(f)'
      PROVE  Survives(f) /\ f \in DOMAIN fds' /\ fds'[f] = fds[f]
  <2>1. NoneNegative /\ f \in Kept
    BY <1>1, <1>2, <1>3 DEF Survives
  <2>. QED  BY <2>1, <1>3, CloseKeeps DEF OpenInv, Survives
<1>4. \A f : Survives(f)' => Survives(f)
  BY <1>1, <1>2 DEF Survives
<1>5. \A f \in DOMAIN open0 : Untouched(f)' /\ Survives(f)' => Unmoved(f)'
  BY <1>1, <1>2, <1>3, <1>4 DEF OpenInv, Unmoved
<1>6. ASSUME NEW i \in 1..pos, Maps(i)', SourceIntact(i)', LastOnto(i)',
             Survives(actions[i].dst)'
      PROVE  MappedTo(i)'
  <2>1. MappedTo(i)
    BY <1>1, <1>2, <1>6 DEF OpenInv, Survives
  <2>2. Survives(actions[i].dst)'  BY <1>6
  <2>. QED  BY <1>1, <1>2, <1>3, <2>1, <2>2 DEF MappedTo, Survives
<1>7. IsAscending(keep')
  BY <1>1 DEF OpenInv
<1>. QED  BY <1>1, <1>5, <1>6, <1>7 DEF OpenInv

LEMMA OpenNext == FdInv /\ OpenInv /\ [Next]_vars => OpenInv'
<1> SUFFICES ASSUME FdInv, OpenInv, [Next]_vars PROVE OpenInv'
  OBVIOUS
<1> USE DEF Unmoved, MappedTo, Untouched, Maps, SourceIntact, LastOnto,
            Survives, NoneNegative, Kept
<1>1. CASE StartClosing
  BY <1>1 DEF OpenInv, StartClosing, plan
<1>2. CASE CloseRangeFails
  BY <1>2 DEF OpenInv, CloseRangeFails, plan
<1>3. CASE UNCHANGED vars
  BY <1>3 DEF OpenInv, vars, plan
<1>. QED  BY <1>1, <1>2, <1>3, OpenApply, OpenClose DEF Next

LEMMA OpenAlways ==
    ASSUME \A d \in Direct : IsAscending(d[2]) PROVE Spec => []OpenInv
BY OpenInit, OpenNext, FdInvariance, PTL DEF Spec

\* A descriptor that is to be kept and that no action touched is still open on
\* its file when the stage ends, if a direct user passes sorted keep lists;
\* those of the planner always are (close_other_fds, FileDescriptors::prepare).
THEOREM WhatIsKeptStays ==
    ASSUME \A d \in Direct : IsAscending(d[2])
    PROVE  Spec => []KeptStayOpen
<1>1. OpenInv => KeptStayOpen
  BY DEF OpenInv, KeptStayOpen, Unmoved, Survives
<1>. QED  BY <1>1, OpenAlways, PTL

\* Under the same condition every mapping has its effect, unless an action
\* before it changed its source or one behind it its destination.
THEOREM MappingsHold ==
    ASSUME \A d \in Direct : IsAscending(d[2])
    PROVE  Spec => []MappingsHonoured
<1>1. FdInv /\ OpenInv => MappingsHonoured
  BY DEF FdInv, ClosedSoFar, OpenInv, MappingsHonoured, MappedTo, Survives
<1>. QED  BY <1>1, FdInvariance, OpenAlways, PTL

=============================================================================
