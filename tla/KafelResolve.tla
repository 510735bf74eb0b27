---------------------------- MODULE KafelResolve ----------------------------
(***************************************************************************)
(* How kafel validates a policy file (kafel/src/parser.rs,                 *)
(* validate_policy), gives its #defines their values and flattens it       *)
(* (kafel/src/resolve.rs, Resolver::new, flatten_policy and resolve).  A   *)
(* file is a sequence of policies, each a name with entries, and the       *)
(* top-level USE statement, if there is one: names and the default action. *)
(* An entry is a block of rules or a USE of another policy.                *)
(***************************************************************************)
EXTENDS Integers, Sequences, FiniteSets, SequencesExt, TLC

(***************************************************************************)
(* #define (Resolver::new and resolve_define_expr).  An expression is a    *)
(* sequence of numbers and names joined by `|`; a number is the set of its *)
(* bits.  `acc` has the table of values, the names in progress, the bits   *)
(* of the expression so far and whether all names were found.              *)
(***************************************************************************)
Bits(set)          == [is |-> "number", bits |-> set]
Ident(name)        == [is |-> "ident", name |-> name]
Define(name, expr) == [name |-> name, expr |-> expr]

\* raw_defines: of two definitions with one name it has the later one.
ExprOf(defines, name) ==
    defines[SelectLastInSeq(defines, LAMBDA d : d.name = name)].expr

IsKnown(defines, name) == \E i \in DOMAIN defines : defines[i].name = name

Store(acc, name) == [acc EXCEPT !.table = (name :> acc.value) @@ @]

RECURSIVE ResolveDefineExpr(_, _, _)

\* Variant: the bits so far leak into the definition that is looked up.
ResolveDefineLeaks(defines, acc, name) ==
    LET inner == ResolveDefineExpr(defines, [acc EXCEPT !.busy = @ \cup {name}],
                                   ExprOf(defines, name))
    IN [Store(inner, name) EXCEPT !.busy = @ \ {name}]

ResolveDefine(defines, acc, name) ==
    LET inner == ResolveDefineExpr(defines, [acc EXCEPT !.value = {}, !.busy = @ \cup {name}],
                                   ExprOf(defines, name))
    IN [Store(inner, name) EXCEPT !.value = @ \cup acc.value, !.busy = @ \ {name}]

ResolveAtom(defines, acc, atom) ==
    CASE ~acc.ok -> acc
      [] atom.is = "number" -> [acc EXCEPT !.value = @ \cup atom.bits]
      [] atom.is = "ident" /\ atom.name \in DOMAIN acc.table ->
            [acc EXCEPT !.value = @ \cup acc.table[atom.name]]
      [] atom.is = "ident" /\ atom.name \notin DOMAIN acc.table ->
            IF atom.name \in acc.busy \/ ~IsKnown(defines, atom.name)
            THEN [acc EXCEPT !.ok = FALSE]
            ELSE ResolveDefine(defines, acc, atom.name)

ResolveDefineExpr(defines, acc, expr) ==
    FoldLeft(LAMBDA a, atom : ResolveAtom(defines, a, atom), acc, expr)

\* The loop of Resolver::new takes the earlier of two definitions, unless the
\* name has a value already because a definition above it uses it.
DefineTable(defines) ==
    FoldLeft(LAMBDA acc, d :
                IF ~acc.ok \/ d.name \in DOMAIN acc.table THEN acc
                ELSE Store(ResolveDefineExpr(defines, [acc EXCEPT !.value = {}, !.busy = {}],
                                             d.expr),
                           d.name),
             [table |-> <<>>, busy |-> {}, value |-> {}, ok |-> TRUE], defines)

\* The same without a walk, over all definitions of a name.
DefinesOf(defines, name) == {d \in ToSet(defines) : d.name = name}

AtomsOf(defines, name) == UNION {ToSet(d.expr) : d \in DefinesOf(defines, name)}

NamesIn(atoms) == {a.name : a \in {x \in atoms : x.is = "ident"}}

Behind(defines, names) ==
    LET step[n \in 0..Len(defines)] ==
            IF n = 0 THEN names
            ELSE step[n - 1] \cup NamesIn(UNION {AtomsOf(defines, m) : m \in step[n - 1]})
    IN step[Len(defines)]

Uses(defines, name) == Behind(defines, NamesIn(AtomsOf(defines, name)))

IsRound(defines, name) == \E n \in Behind(defines, {name}) : n \in Uses(defines, n)

HasNoValue(defines, name) ==
    IsRound(defines, name) \/ \E n \in Behind(defines, {name}) : ~IsKnown(defines, n)

BitsIn(expr) == UNION {a.bits : a \in {x \in ToSet(expr) : x.is = "number"}}

BitsOf(defines, name) ==
    LET atoms == UNION {AtomsOf(defines, n) : n \in Behind(defines, {name})}
    IN UNION {a.bits : a \in {x \in atoms : x.is = "number"}}

IsDoubled(defines, name) == Cardinality({i \in DOMAIN defines : defines[i].name = name}) > 1

\* No name that is reached is defined more than once.
IsPlain(defines, name) == \A n \in Behind(defines, {name}) : ~IsDoubled(defines, n)

\* The first definition of a name counts, and if one above it leads to the name
\* the last: for a file in which no other name is defined twice.
First(defines, name) == SelectInSeq(defines, LAMBDA d : d.name = name)

UsedAbove(defines, name) ==
    \E i \in 1..(First(defines, name) - 1) : name \in Behind(defines, NamesIn(ToSet(defines[i].expr)))

ExprThatCounts(defines, name) ==
    IF UsedAbove(defines, name) THEN ExprOf(defines, name)
    ELSE defines[First(defines, name)].expr

(***************************************************************************)
(* Policies and USE.                                                       *)
(***************************************************************************)
\* arity: the most argument names that one of the rules declares.
BlockOf(rules, arity) == [is |-> "block", rules |-> rules, arity |-> arity]
Block(rules) == BlockOf(rules, 0)
Use(name)    == [is |-> "use", name |-> name]
Policy(name, entries) == [name |-> name, entries |-> entries]

UseStmt(names, default) == [names |-> names, default |-> default]
NoUse == UseStmt(<<>>, "none")

\* policy_index; of two policies with one name the later one is indexed.
IsDefined(policies, name) == \E i \in DOMAIN policies : policies[i].name = name

EntriesOf(policies, name) ==
    policies[SelectLastInSeq(policies, LAMBDA p : p.name = name)].entries

\* validate_policy: no rule has more arguments than a call, and every USE names
\* a policy, in policies that nothing reaches as well.
UsesOf(entries) == {e.name : e \in {x \in ToSet(entries) : x.is = "use"}}

MaxArgs == 6

IsTooWide(entries) == \E e \in ToSet(entries) : e.is = "block" /\ e.arity > MaxArgs

Validates(file) ==
    /\ ~\E p \in ToSet(file.policies) : IsTooWide(p.entries)
    /\ \A name \in ToSet(file.use.names)
                   \cup UNION {UsesOf(p.entries) : p \in ToSet(file.policies)} :
          IsDefined(file.policies, name)

(***************************************************************************)
(* flatten_policy.  `acc` has the rules so far, the names that are being   *)
(* visited and whether the walk still goes on.                             *)
(***************************************************************************)
\* Variant: a policy that was visited once counts as visited for ever.
StayVisiting(acc, name) == acc

Leave(acc, name) == [acc EXCEPT !.visiting = @ \ {name}]

RECURSIVE FlattenPolicy(_, _, _)

FlattenEntry(policies, acc, entry) ==
    CASE ~acc.ok             -> acc
      [] entry.is = "block"  -> [acc EXCEPT !.rules = @ \o entry.rules]
      [] OTHER               -> FlattenPolicy(policies, acc, entry.name)

FlattenPolicy(policies, acc, name) ==
    IF ~acc.ok \/ name \in acc.visiting \/ ~IsDefined(policies, name)
    THEN [acc EXCEPT !.ok = FALSE]
    ELSE Leave(FoldLeft(LAMBDA a, e : FlattenEntry(policies, a, e),
                        [acc EXCEPT !.visiting = @ \cup {name}],
                        EntriesOf(policies, name)),
               name)

\* resolve, which refuses a file without a USE statement.
FlattenFile(file) ==
    FoldLeft(LAMBDA acc, name : FlattenPolicy(file.policies, acc, name),
             [rules |-> <<>>, visiting |-> {}, ok |-> file.use # NoUse], file.use.names)

(***************************************************************************)
(* The same without a walk.  A file is circular if its USE reaches a       *)
(* policy that reaches itself.  One that is not stands for the rules one   *)
(* gets by writing out every USE in place, as deep as there are policies.  *)
(***************************************************************************)
UsedBy(file, name) ==
    IF IsDefined(file.policies, name) THEN UsesOf(EntriesOf(file.policies, name))
    ELSE {}

Reaches(file, from) ==
    LET step[n \in 0..Len(file.policies)] ==
            IF n = 0 THEN from
            ELSE step[n - 1] \cup UNION {UsedBy(file, p) : p \in step[n - 1]}
    IN step[Len(file.policies)]

IsCircular(file) ==
    \E p \in Reaches(file, ToSet(file.use.names)) : p \in Reaches(file, UsedBy(file, p))

RECURSIVE WrittenOut(_, _, _)
WrittenOut(file, name, depth) ==
    IF depth = 0 THEN <<>>
    ELSE FlattenSeq([i \in DOMAIN EntriesOf(file.policies, name) |->
             LET e == EntriesOf(file.policies, name)[i]
             IN IF e.is = "block" THEN e.rules
                ELSE WrittenOut(file, e.name, depth - 1)])

RulesOf(file) ==
    FlattenSeq([i \in DOMAIN file.use.names |->
                   WrittenOut(file, file.use.names[i], Len(file.policies))])

=============================================================================
