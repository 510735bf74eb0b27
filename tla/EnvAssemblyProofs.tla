------------------------- MODULE EnvAssemblyProofs -------------------------
(***************************************************************************)
(* Proofs about EnvAssembly, for every configuration, every environ and    *)
(* every change that the host makes to it.                                 *)
(*                                                                         *)
(* CommandSees speaks of the end.  It follows from OutExact, which says    *)
(* what has been written when the child has looked at the first `cursor`   *)
(* entries and has bound all of `set` but `pending`.  NoSpaceForAReason    *)
(* follows from SpaceInv, which counts the slots and bytes used so far and *)
(* relates them to what prepare() had counted.                             *)
(***************************************************************************)
EXTENDS EnvAssembly, TLAPS, FiniteSetTheorems

Filling == {"walk", "bind", "done"}

\* The values of k among the entries the child has looked at.
Seen(k) == {environ[i].val : i \in {j \in 1..cursor : environ[j].key = k}}

OutExact ==
    \A k \in Keys \cup {NoKey} :
        Values(out, k) =
            IF k \in DOMAIN config.set
            THEN IF k \in pending THEN {} ELSE {config.set[k]}
            ELSE IF config.clear /\ k \notin Kept THEN {} ELSE Seen(k)

\* The inductive invariant.
Inv ==
    /\ TypeOK
    /\ phase \in {"prepare", "sized"} => cursor = 0 /\ out = <<>>
    /\ phase \in {"sized", "walk"} => slots > 0
    /\ phase = "walk" => pending = DOMAIN config.set
    /\ phase \in {"bind", "done"} => cursor = Len(environ)
    /\ phase = "done" => pending = {}
    /\ phase \in Filling => Len(out) < slots /\ OutExact

-----------------------------------------------------------------------------
(* Sequences of entries.                                                   *)

LEMMA EntryOf ==
    ASSUME NEW S, NEW s \in Seq(S), NEW i \in 1..Len(s)
    PROVE  s[i] \in S
OBVIOUS

LEMMA ValuesOfNothing == ASSUME NEW k PROVE Values(<<>>, k) = {}
BY DEF Values

\* Appending an entry adds its value to those of its key.
LEMMA ValuesAppend ==
    ASSUME NEW s \in Seq(Entry), NEW e \in Entry, NEW k
    PROVE  Values(Append(s, e), k) =
               Values(s, k) \cup (IF e.key = k THEN {e.val} ELSE {})
<1> DEFINE t == Append(s, e)
<1>1. Len(t) = Len(s) + 1 /\ Len(s) \in Nat
  OBVIOUS
<1>2. \A i \in 1..Len(s) : t[i] = s[i]
  OBVIOUS
<1>3. t[Len(s) + 1] = e
  OBVIOUS
<1>4. 1..Len(t) = 1..Len(s) \cup {Len(s) + 1}
  BY <1>1
<1> HIDE DEF t
<1>5. \A v : v \in Values(t, k)
               <=> v \in Values(s, k) \/ (e.key = k /\ v = e.val)
  BY <1>1, <1>2, <1>3, <1>4 DEF Values
<1>. QED  BY <1>5 DEF t

\* So does looking at one more entry of environ.
LEMMA SeenNext ==
    ASSUME cursor \in Nat, cursor' = cursor + 1, environ' = environ, NEW k
    PROVE  Seen(k)' = Seen(k) \cup (IF environ[cursor + 1].key = k
                                    THEN {environ[cursor + 1].val} ELSE {})
<1>1. 1..cursor' = 1..cursor \cup {cursor + 1}
  OBVIOUS
<1>2. \A v : v \in Seen(k)' <=> \/ v \in Seen(k)
                                \/ /\ environ[cursor + 1].key = k
                                   /\ v = environ[cursor + 1].val
  BY <1>1 DEF Seen
<1>. QED  BY <1>2

LEMMA CountsAreNat ==
    ASSUME EnvSets, NEW c \in Configs, NEW env \in Environs
    PROVE  Cardinality(DOMAIN c.set) \in Nat /\ VarsOs(env) \in Nat
<1>1. IsFiniteSet(DOMAIN c.set)
  BY FS_Subset DEF EnvSets
<1>2. Len(env) \in Nat
  BY DEF EnvSets
<1>3. IsFiniteSet(1..Len(env))
  BY <1>2, FS_Interval
<1>4. IsFiniteSet({i \in 1..Len(env) : env[i].key # NoKey})
  BY <1>3, FS_Subset
<1>. QED  BY <1>1, <1>4, FS_CardinalityType DEF VarsOs

-----------------------------------------------------------------------------
(* One step of the host or of the child.                                   *)

LEMMA InitInv == Init => Inv
<1> SUFFICES ASSUME Init PROVE Inv
  OBVIOUS
<1>1. 0 \in 0..Len(environ)
  BY EnvSets DEF EnvSets, Init
<1>2. out \in Seq(Entry)
  BY DEF Init
<1>3. TypeOK
  BY <1>1, <1>2 DEF Init, TypeOK
<1>. QED  BY <1>3 DEF Init, Inv, Filling

LEMMA SizeStorageInv == Inv /\ SizeStorage => Inv'
<1> SUFFICES ASSUME Inv, SizeStorage PROVE Inv'
  OBVIOUS
<1>1. Cardinality(DOMAIN config.set) \in Nat /\ VarsOs(environ) \in Nat
  BY EnvSets, CountsAreNat DEF Inv, TypeOK
<1>2. Len(config.keep) \in Nat
  BY EnvSets DEF EnvSets, Inv, TypeOK
<1>3. slots' \in Nat /\ slots' > 0
  BY <1>1, <1>2 DEF SizeStorage
<1>. QED  BY <1>3 DEF Inv, TypeOK, SizeStorage, Filling

LEMMA HostChangesInv == Inv /\ HostChanges => Inv'
<1> SUFFICES ASSUME Inv, HostChanges PROVE Inv'
  OBVIOUS
<1>1. environ' \in Environs /\ 0 \in 0..Len(environ')
  BY EnvSets DEF EnvSets, HostChanges
<1>. QED  BY <1>1 DEF Inv, TypeOK, HostChanges, Filling

LEMMA CloneChildInv == Inv /\ CloneChild => Inv'
<1> SUFFICES ASSUME Inv, CloneChild PROVE Inv'
  OBVIOUS
<1>1. OutExact'
  <2> SUFFICES ASSUME NEW k \in Keys \cup {NoKey}
               PROVE  /\ Values(out', k) = {}
                      /\ k \in DOMAIN config.set => k \in pending'
                      /\ Seen(k)' = {}
    BY DEF OutExact, CloneChild, Kept
  <2>. QED  BY ValuesOfNothing DEF Inv, CloneChild, Seen
<1>. QED  BY <1>1 DEF Inv, TypeOK, CloneChild, Filling

LEMMA WalkInv == Inv /\ Walk => Inv'
<1> SUFFICES ASSUME Inv, Walk PROVE Inv'
  OBVIOUS
<1> DEFINE e == environ[cursor + 1]
<1>1. /\ e \in Entry /\ e.key \notin BadKeys
      /\ cursor \in Nat /\ cursor' = cursor + 1 /\ cursor' \in 0..Len(environ)
      /\ config' = config /\ environ' = environ /\ pending' = pending
  <2>1. environ \in Seq([key : (Keys \ BadKeys) \cup {NoKey}, val : Vals])
    BY EnvSets DEF EnvSets, Inv, TypeOK
  <2>2. cursor \in Nat /\ cursor + 1 \in 1..Len(environ)
    BY <2>1 DEF Walk, Inv, TypeOK
  <2>3. e \in [key : (Keys \ BadKeys) \cup {NoKey}, val : Vals]
    BY <2>1, <2>2, EntryOf
  <2>4. e.key \notin BadKeys
    BY <2>3, EnvSets DEF EnvSets
  <2>. QED  BY <2>2, <2>3, <2>4 DEF Walk, Entry
<1>2. CASE ~ShouldInclude(e)
  <2>1. out' = out /\ phase' = "walk" /\ slots' = slots
    BY <1>2 DEF Walk
  <2>2. OutExact'
    <3>1. ASSUME NEW k \in Keys \cup {NoKey}, k \notin DOMAIN config.set,
                 config.clear => k \in Kept
          PROVE  Seen(k)' = Seen(k)
      <4>1. e.key # k
        BY <1>1, <1>2, <3>1 DEF ShouldInclude, Matches
      <4>. QED  BY <1>1, <4>1, SeenNext
    <3>2. OutExact /\ Kept' = Kept
      BY <1>1 DEF Inv, Walk, Filling, Kept
    <3>3. \A k : Values(out', k) = Values(out, k)
      BY <2>1 DEF Values
    <3>. QED  BY <1>1, <3>1, <3>2, <3>3 DEF OutExact
  <2>. QED  BY <1>1, <2>1, <2>2 DEF Inv, TypeOK, Walk, Filling
<1>3. CASE ShouldInclude(e)
  <2>1. CASE Len(out) + 1 >= slots
    BY <1>1, <1>3, <2>1 DEF Walk, Push, Inv, TypeOK, Filling
  <2>2. CASE ~(Len(out) + 1 >= slots)
    <3>1. /\ out' = Append(out, e) /\ phase' = "walk" /\ slots' = slots
          /\ out \in Seq(Entry) /\ slots \in Nat
      BY <1>3, <2>2 DEF Walk, Push, Inv, TypeOK
    <3>2. OutExact'
      <4> DEFINE more(k) == IF e.key = k THEN {e.val} ELSE {}
      <4>1. \A k : Values(out', k) = Values(out, k) \cup more(k)
        BY <1>1, <3>1, ValuesAppend DEF Values
      <4>2. \A k : Seen(k)' = Seen(k) \cup more(k)
        BY <1>1, SeenNext
      <4>3. OutExact /\ Kept' = Kept
        BY <1>1 DEF Inv, Walk, Filling, Kept
      <4>4. ASSUME NEW k \in Keys \cup {NoKey}
            PROVE  Values(out', k) =
                       IF k \in DOMAIN config.set
                       THEN IF k \in pending THEN {} ELSE {config.set[k]}
                       ELSE IF config.clear /\ k \notin Kept THEN {} ELSE Seen(k)'
        <5>1. Values(out', k) = Values(out, k) \cup more(k)
          BY <4>1
        <5>2. Seen(k)' = Seen(k) \cup more(k)
          BY <4>2
        <5>3. CASE e.key # k
          BY <4>3, <5>1, <5>2, <5>3 DEF OutExact
        <5>4. CASE e.key = k
          <6>1. k \notin DOMAIN config.set /\ (config.clear => k \in Kept)
            BY <1>1, <1>3, <5>4 DEF ShouldInclude, Matches
          <6>. QED  BY <4>3, <5>1, <5>2, <6>1 DEF OutExact
        <5>. QED  BY <5>3, <5>4
      <4>. QED  BY <1>1, <4>3, <4>4 DEF OutExact
    <3>. QED  BY <1>1, <2>2, <3>1, <3>2 DEF Inv, TypeOK, Walk, Filling
  <2>. QED  BY <2>1, <2>2
<1>. QED  BY <1>2, <1>3

LEMMA WalkEndsInv == Inv /\ WalkEnds => Inv'
BY DEF Inv, TypeOK, WalkEnds, Filling, OutExact, Seen, Kept

LEMMA BindInv == ASSUME NEW k \in Keys, Inv, Bind(k) PROVE Inv'
<1> DEFINE e == [key |-> k, val |-> config.set[k]]
<1>1. /\ k \in DOMAIN config.set /\ config.set[k] \in Vals /\ e \in Entry
      /\ Size[k] \in Nat
  BY EnvSets DEF Bind, Inv, TypeOK, Entry, EnvSets
<1>2. CASE phase' \in {"EINVAL", "ENOSPC"}
  BY <1>1, <1>2 DEF Inv, TypeOK, Bind, Push, Filling
<1>3. CASE phase' \notin {"EINVAL", "ENOSPC"}
  <2>1. /\ phase' = "bind" /\ out' = Append(out, e) /\ Len(out) + 1 < slots
        /\ bytes' = bytes + Size[k]
        /\ out \in Seq(Entry) /\ slots \in Nat
    BY <1>3 DEF Bind, Push, Inv, TypeOK
  <2>2. OutExact'
    <3>1. /\ OutExact /\ Kept' = Kept /\ config' = config
          /\ k \in pending /\ pending' = pending \ {k}
      BY DEF Inv, Bind, Filling, Kept
    <3>2. \A j : Seen(j)' = Seen(j)
      BY DEF Bind, Seen
    <3>3. ASSUME NEW j, j # k PROVE Values(out', j) = Values(out, j)
      <4>1. Values(out', j) = Values(out, j) \cup (IF e.key = j THEN {e.val} ELSE {})
        BY <1>1, <2>1, ValuesAppend
      <4>. QED  BY <3>3, <4>1
    <3>4. Values(out', k) = {config.set[k]}
      <4>1. Values(out, k) = {}
        BY <1>1, <3>1 DEF OutExact
      <4>. QED  BY <1>1, <2>1, <4>1, ValuesAppend
    <3>. QED  BY <1>1, <3>1, <3>2, <3>3, <3>4 DEF OutExact
  <2>3. out' \in Seq(Entry) /\ Len(out') = Len(out) + 1
    BY <1>1, <2>1
  <2>. QED  BY <1>1, <2>1, <2>2, <2>3 DEF Inv, TypeOK, Bind, Filling
<1>. QED  BY <1>2, <1>3

LEMMA FinishInv == Inv /\ Finish => Inv'
BY DEF Inv, TypeOK, Finish, Filling, OutExact, Seen, Kept

LEMMA NextInv == Inv /\ [Next]_vars => Inv'
<1> SUFFICES ASSUME Inv, [Next]_vars PROVE Inv'
  OBVIOUS
<1>1. CASE Next
  BY <1>1, SizeStorageInv, HostChangesInv, CloneChildInv, WalkInv, WalkEndsInv,
     BindInv, FinishInv DEF Next
<1>2. CASE UNCHANGED vars
  BY <1>2 DEF vars, Inv, TypeOK, Filling, OutExact, Seen, Kept
<1>. QED  BY <1>1, <1>2

LEMMA Invariance == Spec => []Inv
BY InitInv, NextInv, PTL DEF Spec

-----------------------------------------------------------------------------

\* Type correctness, for every configuration and every environ.
THEOREM EnvTypeCorrect == Spec => []TypeOK
<1>1. Inv => TypeOK  BY DEF Inv
<1>. QED  BY <1>1, Invariance, PTL

\* However the environ changed between prepare() and clone3, the child stays
\* within the slots it was given (push_env_ptr).
THEOREM SlotsHold == Spec => []NeverOverrun
<1>1. Inv => NeverOverrun  BY DEF Inv, NeverOverrun, Filling
<1>. QED  BY <1>1, Invariance, PTL

\* The command gets exactly the environment that [env] describes, for the
\* environ of the moment of the clone (env::prepare).
THEOREM EnvHonoured == Spec => []CommandSees
<1>1. Inv => CommandSees
  <2> SUFFICES ASSUME Inv, phase = "done", NEW k \in Keys \cup {NoKey}
               PROVE  Values(out, k) =
                          IF k \in DOMAIN config.set THEN {config.set[k]}
                          ELSE IF config.clear /\ k \notin Kept THEN {}
                          ELSE Values(environ, k)
    BY DEF CommandSees
  <2>1. Seen(k) = Values(environ, k)
    BY DEF Inv, Seen, Values
  <2>. QED  BY <2>1 DEF Inv, OutExact, Filling
<1>. QED  BY <1>1, Invariance, PTL

-----------------------------------------------------------------------------
(* What was sized is enough.                                               *)

\* Why the child may run out of slots for all that prepare() counted.
Excused ==
    \/ changed
    \/ ~config.clear /\ Values(environ, NoKey) # {}
    \/ config.clear /\ \E k \in Kept \ DOMAIN config.set : Twice(k)

\* The first n entries of environ that the child takes over.
Taken(n) == {i \in 1..n : ShouldInclude(environ[i])}

Bound == DOMAIN config.set \ pending

\* What is used up so far, against what prepare() counted.
SpaceInv ==
    /\ phase \in {"prepare", "sized", "walk"} => bytes = 0
    /\ phase # "prepare" =>
           /\ room = Cardinality(BytesOf(DOMAIN config.set))
           /\ ~changed => slots = 1 + Cardinality(DOMAIN config.set)
                    + IF config.clear THEN Len(config.keep) ELSE VarsOs(environ)
    /\ phase = "walk" => Len(out) = Cardinality(Taken(cursor))
    /\ phase = "bind" =>
           /\ Len(out) = Cardinality(Taken(Len(environ))) + Cardinality(Bound)
           /\ bytes = Cardinality(BytesOf(Bound))
    /\ NoSpaceForAReason

LEMMA ConfigTyped ==
    ASSUME TypeOK
    PROVE  /\ DOMAIN config.set \subseteq Keys /\ IsFiniteSet(DOMAIN config.set)
           /\ Cardinality(DOMAIN config.set) \in Nat
           /\ config.clear \in BOOLEAN /\ config.keep \in Seq(Keys)
           /\ Len(environ) \in Nat /\ VarsOs(environ) \in Nat
           /\ \A i \in 1..Len(environ) :
                  environ[i].key \in (Keys \ BadKeys) \cup {NoKey}
<1>1. config \in Configs /\ environ \in Environs
  BY DEF TypeOK
<1>2. /\ DOMAIN config.set \subseteq Keys /\ IsFiniteSet(Keys)
      /\ config.clear \in BOOLEAN /\ config.keep \in Seq(Keys)
      /\ environ \in Seq([key : (Keys \ BadKeys) \cup {NoKey}, val : Vals])
  BY <1>1, EnvSets DEF EnvSets
<1>3. IsFiniteSet(DOMAIN config.set)
  BY <1>2, FS_Subset
<1>4. \A i \in 1..Len(environ) :
          environ[i] \in [key : (Keys \ BadKeys) \cup {NoKey}, val : Vals]
  BY <1>2, EntryOf
<1>5. Cardinality(DOMAIN config.set) \in Nat /\ VarsOs(environ) \in Nat
  BY <1>1, EnvSets, CountsAreNat
<1>. QED  BY <1>2, <1>3, <1>4, <1>5

LEMMA BytesFinite ==
    ASSUME NEW S \in SUBSET Keys
    PROVE  IsFiniteSet(BytesOf(S)) /\ Cardinality(BytesOf(S)) \in Nat
<1> DEFINE of(k) == {k} \X (1..Size[k])
           parts == {of(k) : k \in S}
           f == [k \in S |-> of(k)]
<1>1. IsFiniteSet(S)
  BY EnvSets, FS_Subset DEF EnvSets
<1>2. f \in Surjection(S, parts)
  BY DEF Surjection
<1>3. IsFiniteSet(parts)
  BY <1>1, <1>2, FS_Surjection
<1>4. ASSUME NEW k \in S PROVE IsFiniteSet(of(k))
  <2>1. Size[k] \in Int
    BY EnvSets DEF EnvSets
  <2>2. IsFiniteSet(1..Size[k])
    BY <2>1, FS_Interval
  <2>3. IsFiniteSet({k})
    BY FS_Singleton
  <2>. QED  BY <2>2, <2>3, FS_Product
<1>5. \A T \in parts : IsFiniteSet(T)
  BY <1>4
<1>6. BytesOf(S) = UNION parts
  BY DEF BytesOf
<1> HIDE DEF parts
<1>7. IsFiniteSet(BytesOf(S))
  BY <1>3, <1>5, <1>6, FS_UNION
<1>. QED  BY <1>7, FS_CardinalityType

\* One more binding takes its own bytes.
LEMMA BytesOfOneMore ==
    ASSUME NEW S \in SUBSET Keys, NEW k \in Keys \ S
    PROVE  Cardinality(BytesOf(S \cup {k})) = Cardinality(BytesOf(S)) + Size[k]
<1> DEFINE more == {k} \X (1..Size[k])
<1>1. BytesOf(S \cup {k}) = BytesOf(S) \cup more
  BY DEF BytesOf
<1>2. BytesOf(S) \cap more = {}
  BY DEF BytesOf
<1>3. Size[k] \in Nat \ {0}
  BY EnvSets DEF EnvSets
<1>4. IsFiniteSet(1..Size[k]) /\ Cardinality(1..Size[k]) = Size[k]
  BY <1>3, FS_Interval
<1>5. IsFiniteSet({k}) /\ Cardinality({k}) = 1
  BY FS_Singleton
<1>6. IsFiniteSet(more) /\ Cardinality(more) = 1 * Size[k]
  <2> DEFINE B == 1..Size[k]
             A == {k}
  <2> HIDE DEF A, B
  <2>1. /\ IsFiniteSet(A) /\ IsFiniteSet(B) /\ more = A \X B
        /\ Cardinality(A) = 1 /\ Cardinality(B) = Size[k]
    BY <1>4, <1>5 DEF A, B
  <2> HIDE DEF more
  <2>2. IsFiniteSet(A \X B) /\ Cardinality(A \X B) = Cardinality(A) * Cardinality(B)
    BY <2>1, FS_Product
  <2>. QED  BY <2>1, <2>2
<1> HIDE DEF more
<1>7. Cardinality(BytesOf(S) \cup more) =
          Cardinality(BytesOf(S)) + Cardinality(more) - Cardinality(BytesOf(S) \cap more)
  <2>1. IsFiniteSet(BytesOf(S))
    BY BytesFinite
  <2>. QED  BY <1>6, <2>1, FS_Union
<1>8. Cardinality(BytesOf(S)) \in Nat /\ Cardinality(BytesOf(S) \cap more) = 0
  BY <1>2, BytesFinite, FS_EmptySet
<1>9. Cardinality(more) = Size[k]
  BY <1>3, <1>6
<1>10. Cardinality(BytesOf(S) \cup more) = Cardinality(BytesOf(S)) + Size[k]
  BY <1>3, <1>7, <1>8, <1>9
<1>. QED  BY <1>1, <1>10

LEMMA BytesGrow ==
    ASSUME NEW S \in SUBSET Keys, NEW T \in SUBSET S
    PROVE  Cardinality(BytesOf(T)) <= Cardinality(BytesOf(S))
<1>1. BytesOf(T) \subseteq BytesOf(S)
  BY DEF BytesOf
<1>. QED  BY <1>1, BytesFinite, FS_Subset

LEMMA TakenFinite ==
    ASSUME NEW n \in Nat
    PROVE  IsFiniteSet(Taken(n)) /\ Cardinality(Taken(n)) \in Nat
<1>1. IsFiniteSet(1..n)
  BY FS_Interval
<1>2. Taken(n) \in SUBSET (1..n)
  BY DEF Taken
<1>. QED  BY <1>1, <1>2, FS_Subset, FS_CardinalityType

LEMMA TakenNext ==
    ASSUME NEW n \in Nat
    PROVE  Cardinality(Taken(n + 1)) =
               Cardinality(Taken(n)) + IF ShouldInclude(environ[n + 1]) THEN 1 ELSE 0
<1>1. 1..(n + 1) = (1..n) \cup {n + 1} /\ n + 1 \notin 1..n
  OBVIOUS
<1>2. IsFiniteSet(Taken(n)) /\ Cardinality(Taken(n)) \in Nat /\ n + 1 \notin Taken(n)
  BY <1>1, TakenFinite DEF Taken
<1>3. CASE ShouldInclude(environ[n + 1])
  <2>1. Taken(n + 1) = Taken(n) \cup {n + 1}
    BY <1>1, <1>3 DEF Taken
  <2>. QED  BY <1>2, <1>3, <2>1, FS_AddElement
<1>4. CASE ~ShouldInclude(environ[n + 1])
  <2>1. Taken(n + 1) = Taken(n)
    BY <1>1, <1>4 DEF Taken
  <2>. QED  BY <1>2, <1>4, <2>1
<1>. QED  BY <1>3, <1>4

\* Kept keys are no more than their list is long.
LEMMA KeptCount ==
    ASSUME TypeOK
    PROVE  /\ IsFiniteSet(Kept) /\ Cardinality(Kept) \in Nat
           /\ Len(config.keep) \in Nat /\ Cardinality(Kept) <= Len(config.keep)
<1> DEFINE n == Len(config.keep)
           f == [i \in 1..n |-> config.keep[i]]
<1>1. n \in Nat
  BY ConfigTyped
<1>2. IsFiniteSet(1..n) /\ Cardinality(1..n) = n
  BY <1>1, FS_Interval
<1>3. f \in Surjection(1..n, Kept)
  BY DEF Surjection, Kept
<1>. QED  BY <1>1, <1>2, <1>3, FS_Surjection, FS_CardinalityType

LEMMA TwoElements ==
    ASSUME NEW S, IsFiniteSet(S), NEW i \in S, NEW j \in S, i # j
    PROVE  Cardinality(S) > 1
<1>1. IsFiniteSet(S \ {j}) /\ Cardinality(S \ {j}) = Cardinality(S) - 1
  BY FS_RemoveElement
<1>2. S \ {j} # {}
  OBVIOUS
<1>3. Cardinality(S \ {j}) # 0
  BY <1>1, <1>2, FS_EmptySet
<1>4. Cardinality(S \ {j}) \in Nat /\ Cardinality(S) \in Nat
  BY <1>1, FS_CardinalityType
<1>. QED  BY <1>1, <1>3, <1>4

\* A key that is not there twice is there at one place at most.
LEMMA NotTwice ==
    ASSUME TypeOK, NEW k, ~Twice(k),
           NEW i \in 1..Len(environ), NEW j \in 1..Len(environ),
           environ[i].key = k, environ[j].key = k
    PROVE  i = j
<1> DEFINE P == {m \in 1..Len(environ) : environ[m].key = k}
<1>1. IsFiniteSet(P)
  <2>1. IsFiniteSet(1..Len(environ))
    BY ConfigTyped, FS_Interval
  <2>2. P \in SUBSET (1..Len(environ))
    OBVIOUS
  <2>. QED  BY <2>1, <2>2, FS_Subset
<1>2. i \in P /\ j \in P
  OBVIOUS
<1>3. ~(Cardinality(P) > 1)
  BY DEF Twice
<1> HIDE DEF P
<1>. QED  BY <1>1, <1>2, <1>3, TwoElements

\* What is taken over has been counted.
LEMMA TakenFits ==
    ASSUME TypeOK, ~Excused
    PROVE  Cardinality(Taken(Len(environ))) <=
               IF config.clear THEN Len(config.keep) ELSE VarsOs(environ)
<1> DEFINE n == Len(environ)
<1>1. n \in Nat /\ IsFiniteSet(1..n) /\ IsFiniteSet(Taken(n)) /\ Taken(n) \subseteq 1..n
  <2>1. n \in Nat
    BY ConfigTyped
  <2>. QED  BY <2>1, FS_Interval, TakenFinite DEF Taken
<1>2. CASE ~config.clear
  <2> DEFINE counted == {i \in 1..n : environ[i].key # NoKey}
  <2>1. \A i \in 1..n : environ[i].key # NoKey
    BY <1>2 DEF Excused, Values
  <2>2. Taken(n) \in SUBSET counted /\ counted \in SUBSET (1..n)
    BY <1>1, <2>1
  <2>3. IsFiniteSet(counted)
    BY <1>1, <2>2, FS_Subset
  <2>4. Cardinality(Taken(n)) <= Cardinality(counted)
    BY <2>2, <2>3, FS_Subset
  <2>. QED  BY <1>2, <2>4 DEF VarsOs
<1>3. CASE config.clear
  <2> DEFINE f == [i \in Taken(n) |-> environ[i].key]
  <2>1. ASSUME NEW i \in Taken(n)
        PROVE  environ[i].key \in Kept \ DOMAIN config.set
    <3>1. ShouldInclude(environ[i])
      BY DEF Taken
    <3>. QED  BY <1>3, <3>1 DEF ShouldInclude, Matches
  <2>2. ASSUME NEW i \in Taken(n), NEW j \in Taken(n), f[i] = f[j]
        PROVE  i = j
    <3>1. ~Twice(environ[i].key)
      BY <1>3, <2>1 DEF Excused
    <3>. QED  BY <1>1, <2>2, <3>1, NotTwice
  <2>3. f \in [Taken(n) -> Kept]
    BY <2>1
  <2> HIDE DEF f
  <2>4. f \in Injection(Taken(n), Kept)
    BY <2>2, <2>3 DEF Injection, IsInjective
  <2>5. Cardinality(Taken(n)) <= Cardinality(Kept)
    BY <2>4, KeptCount, FS_Injection
  <2>6. Cardinality(Kept) <= Len(config.keep) /\ Cardinality(Kept) \in Nat
        /\ Len(config.keep) \in Nat
    BY <1>1, KeptCount
  <2>7. Cardinality(Taken(n)) \in Nat
    BY <1>1, TakenFinite
  <2>. QED  BY <1>3, <2>5, <2>6, <2>7
<1>. QED  BY <1>2, <1>3

LEMMA InitSpace == Init => SpaceInv
BY DEF Init, SpaceInv, NoSpaceForAReason

\* Where neither the configuration nor environ is touched nothing is recounted.
LEMMA SameCounts ==
    ASSUME UNCHANGED <<config, environ>>
    PROVE  /\ \A n : Taken(n)' = Taken(n)
           /\ VarsOs(environ)' = VarsOs(environ)
           /\ Excused' <=> \/ changed'
                           \/ ~config.clear /\ Values(environ, NoKey) # {}
                           \/ config.clear /\ \E k \in Kept \ DOMAIN config.set : Twice(k)
BY DEF Taken, ShouldInclude, Matches, Kept, VarsOs, Excused, Values, Twice

LEMMA HostSpace ==
    ASSUME Inv, SpaceInv, SizeStorage \/ HostChanges \/ CloneChild
    PROVE  SpaceInv'
<1>1. CASE SizeStorage
  <2>1. /\ phase = "prepare" /\ phase' = "sized" /\ bytes' = bytes /\ config' = config
        /\ room' = Cardinality(BytesOf(DOMAIN config.set)) /\ VarsOs(environ)' = VarsOs(environ)
        /\ slots' = 1 + Cardinality(DOMAIN config.set)
                      + IF config.clear THEN Len(config.keep) ELSE VarsOs(environ)
    BY <1>1, SameCounts DEF SizeStorage
  <2>. QED  BY <2>1 DEF SpaceInv, BytesOf, NoSpaceForAReason
<1>2. CASE HostChanges
  BY <1>2 DEF HostChanges, SpaceInv, BytesOf, NoSpaceForAReason
<1>3. CASE CloneChild
  <2>1. /\ phase = "sized" /\ phase' = "walk" /\ cursor' = 0 /\ out' = <<>>
        /\ VarsOs(environ)' = VarsOs(environ)
        /\ UNCHANGED <<config, environ, changed, slots, room, bytes>>
    BY <1>3, SameCounts DEF CloneChild, Inv
  <2>2. Cardinality(Taken(cursor)') = 0
    <3>1. Taken(cursor)' = {}
      BY <2>1 DEF Taken
    <3>. QED  BY <3>1, FS_EmptySet
  <2>. QED  BY <2>1, <2>2 DEF SpaceInv, BytesOf, NoSpaceForAReason
<1>. QED  BY <1>1, <1>2, <1>3

\* The entries taken so far leave a slot for every binding of `set`.
LEMMA SlotsLeft ==
    ASSUME TypeOK, SpaceInv, phase \in {"walk", "bind"}, ~Excused,
           NEW n \in Nat, n <= Len(environ)
    PROVE  Cardinality(Taken(n)) + Cardinality(DOMAIN config.set) < slots
<1>1. slots = 1 + Cardinality(DOMAIN config.set)
                + IF config.clear THEN Len(config.keep) ELSE VarsOs(environ)
  BY DEF SpaceInv, Excused
<1>2. Cardinality(Taken(Len(environ))) <=
          IF config.clear THEN Len(config.keep) ELSE VarsOs(environ)
  BY TakenFits
<1>3. /\ Len(environ) \in Nat /\ Cardinality(DOMAIN config.set) \in Nat
      /\ Len(config.keep) \in Nat /\ VarsOs(environ) \in Nat
  BY ConfigTyped, KeptCount
<1>4. /\ Cardinality(Taken(n)) \in Nat /\ Cardinality(Taken(Len(environ))) \in Nat
      /\ IsFiniteSet(Taken(Len(environ)))
  BY <1>3, TakenFinite
<1>5. Taken(n) \in SUBSET Taken(Len(environ))
  BY <1>3 DEF Taken
<1>6. Cardinality(Taken(n)) <= Cardinality(Taken(Len(environ)))
  BY <1>4, <1>5, FS_Subset
<1>. QED  BY <1>1, <1>2, <1>3, <1>4, <1>6

LEMMA WalkSpace == ASSUME Inv, SpaceInv, Walk PROVE SpaceInv'
<1> DEFINE e == environ[cursor + 1]
<1>1. /\ phase = "walk" /\ cursor' = cursor + 1 /\ cursor \in Nat
      /\ cursor + 1 <= Len(environ) /\ cursor + 1 \in Nat
      /\ UNCHANGED <<config, environ, changed, slots, room, pending, bytes>>
      /\ TypeOK /\ out \in Seq(Entry) /\ slots \in Nat
  BY ConfigTyped DEF Walk, Inv, TypeOK
<1>2. /\ \A n : Taken(n)' = Taken(n)
      /\ VarsOs(environ)' = VarsOs(environ)
  BY <1>1, SameCounts
<1>3. Taken(cursor)' = Taken(cursor + 1)
  BY <1>1 DEF Taken, ShouldInclude, Matches, Kept
<1>4. Cardinality(Taken(cursor + 1)) =
          Cardinality(Taken(cursor)) + IF ShouldInclude(e) THEN 1 ELSE 0
  BY <1>1, TakenNext
<1>5. Len(out) = Cardinality(Taken(cursor)) /\ Len(out) \in Nat
  BY <1>1 DEF SpaceInv
<1>6. CASE phase' = "ENOSPC"
  <2>1. ShouldInclude(e) /\ Len(out) + 1 >= slots
    BY <1>1, <1>6 DEF Walk, Push
  <2>2. Excused
    <3> SUFFICES ASSUME ~Excused PROVE FALSE
      OBVIOUS
    <3>1. Cardinality(Taken(cursor + 1)) + Cardinality(DOMAIN config.set) < slots
      BY <1>1, SlotsLeft
    <3>2. Cardinality(DOMAIN config.set) \in Nat
      BY <1>1, ConfigTyped
    <3>. QED  BY <1>1, <1>4, <1>5, <2>1, <3>1, <3>2
  <2>3. Excused'
    <3>1. Kept' = Kept /\ UNCHANGED <<config, environ, changed>>
      BY <1>1 DEF Kept
    <3>2. /\ Values(environ, NoKey)' = Values(environ, NoKey)
          /\ \A k : Twice(k)' = Twice(k)
      BY <3>1 DEF Values, Twice
    <3>. QED  BY <2>2, <3>1, <3>2 DEF Excused
  <2>4. NoSpaceForAReason'
    BY <2>3 DEF Excused, NoSpaceForAReason
  <2>. QED  BY <1>1, <1>2, <1>6, <2>4 DEF SpaceInv, BytesOf
<1>7. CASE phase' # "ENOSPC"
  <2>1. phase' = "walk" /\ Len(out') = Cardinality(Taken(cursor + 1))
    BY <1>1, <1>4, <1>5, <1>7 DEF Walk, Push
  <2>. QED  BY <1>1, <1>2, <1>3, <2>1 DEF SpaceInv, BytesOf, NoSpaceForAReason
<1>. QED  BY <1>6, <1>7

LEMMA WalkEndsSpace == ASSUME Inv, SpaceInv, WalkEnds PROVE SpaceInv'
<1>1. /\ phase = "walk" /\ phase' = "bind" /\ cursor = Len(environ)
      /\ UNCHANGED <<config, environ, changed, slots, room, pending, out, bytes>>
      /\ pending = DOMAIN config.set
  BY DEF WalkEnds, Inv
<1>2. /\ \A n : Taken(n)' = Taken(n)
      /\ VarsOs(environ)' = VarsOs(environ)
  BY <1>1, SameCounts
<1>3. Taken(Len(environ))' = Taken(cursor)
  BY <1>1 DEF Taken, ShouldInclude, Matches, Kept
<1>4. Bound' = {} /\ BytesOf({}) = {} /\ Cardinality({}) = 0
  BY <1>1, FS_EmptySet DEF Bound, BytesOf
<1>5. Len(out) = Cardinality(Taken(cursor)) /\ Cardinality(Taken(cursor)) \in Nat /\ bytes = 0
  <2>1. cursor \in Nat
    BY <1>1, ConfigTyped DEF Inv
  <2>. QED  BY <1>1, <2>1, TakenFinite DEF SpaceInv
<1>6. Len(out') = Cardinality(Taken(Len(environ))') + Cardinality(Bound')
      /\ bytes' = Cardinality(BytesOf(Bound)')
  <2>1. BytesOf(Bound)' = {}
    BY <1>4 DEF BytesOf
  <2>2. Cardinality(BytesOf(Bound)') = 0 /\ Cardinality(Bound') = 0
    BY <1>4, <2>1
  <2>. QED  BY <1>1, <1>3, <1>5, <2>2
<1>. QED  BY <1>1, <1>2, <1>6 DEF SpaceInv, BytesOf, NoSpaceForAReason

LEMMA BindSpace == ASSUME NEW k \in Keys, Inv, SpaceInv, Bind(k) PROVE SpaceInv'
<1>1. /\ phase = "bind" /\ k \in pending /\ pending' = pending \ {k}
      /\ pending \subseteq DOMAIN config.set
      /\ UNCHANGED <<config, environ, changed, slots, room, cursor>>
      /\ TypeOK /\ out \in Seq(Entry) /\ Len(out) \in Nat /\ slots \in Nat
  BY DEF Bind, Inv, TypeOK
<1>2. /\ \A n : Taken(n)' = Taken(n)
      /\ VarsOs(environ)' = VarsOs(environ)
  BY <1>1, SameCounts
<1>3. /\ Len(out) = Cardinality(Taken(Len(environ))) + Cardinality(Bound)
      /\ bytes = Cardinality(BytesOf(Bound))
      /\ room = Cardinality(BytesOf(DOMAIN config.set))
  BY <1>1 DEF SpaceInv
<1>4. /\ DOMAIN config.set \in SUBSET Keys /\ IsFiniteSet(DOMAIN config.set)
      /\ Cardinality(DOMAIN config.set) \in Nat /\ Len(environ) \in Nat
      /\ Cardinality(Taken(Len(environ))) \in Nat /\ Size[k] \in Nat
  <2>1. Len(environ) \in Nat
    BY <1>1, ConfigTyped
  <2>2. Size[k] \in Nat
    BY EnvSets DEF EnvSets
  <2>. QED  BY <1>1, <2>1, <2>2, ConfigTyped, TakenFinite
<1>5. /\ Bound \in SUBSET Keys /\ k \in Keys \ Bound /\ Bound' = Bound \cup {k}
      /\ (Bound \cup {k}) \in SUBSET DOMAIN config.set /\ Bound \in SUBSET DOMAIN config.set
  BY <1>1, <1>4 DEF Bound
<1>6. /\ Cardinality(BytesOf(Bound \cup {k})) = bytes + Size[k]
      /\ bytes + Size[k] <= room /\ bytes \in Nat /\ room \in Nat
  BY <1>3, <1>4, <1>5, BytesOfOneMore, BytesGrow, BytesFinite
<1>7. /\ Cardinality(Bound \cup {k}) = Cardinality(Bound) + 1
      /\ Cardinality(Bound) + 1 <= Cardinality(DOMAIN config.set)
      /\ Cardinality(Bound) \in Nat
  <2>1. IsFiniteSet(Bound)
    BY <1>4, <1>5, FS_Subset
  <2>2. Cardinality(Bound \cup {k}) = Cardinality(Bound) + 1
    BY <1>5, <2>1, FS_AddElement
  <2>3. Cardinality(Bound \cup {k}) <= Cardinality(DOMAIN config.set)
    BY <1>4, <1>5, FS_Subset
  <2>. QED  BY <2>1, <2>2, <2>3, FS_CardinalityType
<1>8. CASE phase' = "EINVAL"
  BY <1>1, <1>2, <1>8 DEF SpaceInv, BytesOf, NoSpaceForAReason
<1>9. CASE phase' = "ENOSPC"
  <2>1. Len(out) + 1 >= slots
    <3>1. ~(bytes + Size[k] > room)
      BY <1>4, <1>6
    <3>. QED  BY <1>9, <3>1 DEF Bind, Push
  <2>2. Excused
    <3> SUFFICES ASSUME ~Excused PROVE FALSE
      OBVIOUS
    <3>1. Len(environ) <= Len(environ)
      BY <1>4
    <3>2. Cardinality(Taken(Len(environ))) + Cardinality(DOMAIN config.set) < slots
      BY <1>1, <1>4, <3>1, SlotsLeft
    <3>. QED  BY <1>1, <1>3, <1>4, <1>7, <2>1, <3>2
  <2>3. NoSpaceForAReason'
    <3>1. Excused'
      BY <1>1, <2>2, SameCounts DEF Excused
    <3>. QED  BY <3>1 DEF Excused, NoSpaceForAReason
  <2>. QED  BY <1>1, <1>2, <1>9, <2>3 DEF SpaceInv, BytesOf
<1>10. CASE phase' \notin {"EINVAL", "ENOSPC"}
  <2>1. phase' = "bind" /\ bytes' = bytes + Size[k] /\ Len(out') = Len(out) + 1
    BY <1>1, <1>10 DEF Bind, Push
  <2>2. Len(out') = Cardinality(Taken(Len(environ))) + Cardinality(Bound \cup {k})
    BY <1>3, <1>4, <1>7, <2>1
  <2>3. /\ Cardinality(Taken(Len(environ))') = Cardinality(Taken(Len(environ)))
        /\ BytesOf(Bound)' = BytesOf(Bound \cup {k})
        /\ BytesOf(DOMAIN config.set)' = BytesOf(DOMAIN config.set)
    BY <1>1, <1>5 DEF BytesOf, Taken, ShouldInclude, Matches, Kept
  <2>4. Len(out') = Cardinality(Taken(Len(environ))') + Cardinality(Bound')
        /\ bytes' = Cardinality(BytesOf(Bound)')
    BY <1>5, <1>6, <2>1, <2>2, <2>3
  <2>. QED  BY <1>1, <1>2, <2>1, <2>3, <2>4 DEF SpaceInv, NoSpaceForAReason
<1>. QED  BY <1>8, <1>9, <1>10

\* The last slot is there for the null.
LEMMA FinishSpace == ASSUME Inv, SpaceInv, Finish PROVE SpaceInv'
<1>1. /\ phase = "bind" /\ phase' = "done"
      /\ UNCHANGED <<config, environ, changed, slots, room, bytes>>
  <2>1. out \in Seq(Entry) /\ slots \in Nat /\ Len(out) < slots
    BY DEF Finish, Inv, TypeOK, Filling
  <2>2. Len(out) \in Nat /\ ~(Len(out) >= slots)
    BY <2>1
  <2>. QED  BY <2>2 DEF Finish
<1>2. VarsOs(environ)' = VarsOs(environ)
  BY <1>1, SameCounts
<1>. QED  BY <1>1, <1>2 DEF SpaceInv, BytesOf, NoSpaceForAReason

LEMMA StutterSpace == ASSUME SpaceInv, UNCHANGED vars PROVE SpaceInv'
<1>1. UNCHANGED <<config, environ, changed, slots, room, cursor, pending, out, bytes, phase>>
  BY DEF vars
<1>2. VarsOs(environ)' = VarsOs(environ)
  BY <1>1, SameCounts
<1>3. /\ Taken(cursor)' = Taken(cursor) /\ Taken(Len(environ))' = Taken(Len(environ))
      /\ Bound' = Bound /\ BytesOf(Bound)' = BytesOf(Bound)
      /\ BytesOf(DOMAIN config.set)' = BytesOf(DOMAIN config.set)
  BY <1>1 DEF Taken, ShouldInclude, Matches, Kept, Bound, BytesOf
<1>4. NoSpaceForAReason'
  <2>1. Excused => Excused'
    BY <1>1, SameCounts DEF Excused
  <2>. QED  BY <1>1, <2>1 DEF SpaceInv, NoSpaceForAReason, Excused
<1>. QED  BY <1>1, <1>2, <1>3, <1>4 DEF SpaceInv

LEMMA NextSpace == Inv /\ SpaceInv /\ [Next]_vars => SpaceInv'
BY HostSpace, WalkSpace, WalkEndsSpace, BindSpace, FinishSpace, StutterSpace DEF Next

\* What Environment::prepare has counted is enough for what env::prepare writes:
\* the child runs out of slots only if the host changed environ in between, or
\* if environ has entries without '=' or a kept key twice; and the bytes are
\* always enough (<1>6 of BindSpace).
THEOREM SpaceIsEnough == Spec => []NoSpaceForAReason
<1>1. SpaceInv => NoSpaceForAReason
  BY DEF SpaceInv
<1>. QED  BY <1>1, InitSpace, NextSpace, Invariance, PTL DEF Spec
=============================================================================
