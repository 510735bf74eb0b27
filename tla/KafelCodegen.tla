---------------------------- MODULE KafelCodegen ----------------------------
(***************************************************************************)
(* From the text of a policy to a seccomp program: the files it includes,  *)
(* its rules flattened, those pnut adds (pnut/src/sandbox/seccomp.rs), the *)
(* ranges, and the decision tree that kafel emits back to front            *)
(* (kafel/src/codegen/reverse.rs).                                         *)
(*                                                                         *)
(* `program` runs from its last instruction to its first, as the buffer    *)
(* does before generate reverses it.                                       *)
(***************************************************************************)
EXTENDS KafelExpr, KafelReverse, KafelRanges, KafelInclude

CONSTANTS
    Inputs,           \* records of caller, main and prelude text, and disk
    MaxProgram,       \* u16::MAX, the instructions a program may have
    DebugAssertions,  \* is the build one that checks debug_assert!
    StartupCalls,     \* the numbers of execve, execveat and chdir
    Clone3,           \* the number of clone3
    NamespaceCalls,   \* the numbers of clone and unshare
    UnsafeNsFlags,    \* UNSAFE_NS_FLAGS, a mask of one word
    ArgTuples         \* the arguments a call may have

ASSUME MaskIsOneWord == UnsafeNsFlags \in 1..(Word - 1)

VARIABLES
    input,     \* what prepare_program is called with
    file,      \* the parsed file: defines, policies and the USE statement
    defines,   \* Resolver.defines
    rules,     \* policy.entries
    ranges,    \* the output of normalize_ranges
    todo,      \* how many of them generate_rules has not taken yet
    tree,      \* generate_rules' buf: partial subtrees, highest numbers first
    cg,        \* ReverseCodegen: buffer, cache, and whether a jump overflowed
    phase      \* how far the compilation is

vars == << input, file, defines, rules, ranges, todo, tree, cg, phase >>

Default == file.use.default

\* Filters are lowered with exits in the place of the targets.
Lowered(filter) == GenerateExpr(Exits, filter, TrueExit, FalseExit, MaxJump)

program == cg.buffer

-----------------------------------------------------------------------------
Init ==
    /\ input \in Inputs
    /\ file = [defines |-> <<>>, policies |-> <<>>, use |-> NoUse]
    /\ defines = <<>>
    /\ rules = <<>>
    /\ ranges = <<>>
    /\ todo = 0
    /\ tree = <<>>
    /\ cg = EmptyCodegen
    /\ phase = "source"

\* parse_policy puts the file together...
Include ==
    /\ phase = "source"
    /\ LET read == FileOf(input)
       IN IF read.error = "no"
          THEN /\ file' = [defines |-> read.defines, policies |-> read.policies,
                           use |-> read.use]
               /\ phase' = "parsed"
          ELSE /\ phase' = read.error
               /\ UNCHANGED file
    /\ UNCHANGED << input, defines, rules, ranges, todo, tree, cg >>

\* ...validates it and resolves it: first the #defines, then the policies, where
\* every filter is simplified.
Resolved(rule) ==
    IF IsConditional(rule) THEN [rule EXCEPT !.filter = Simplify(@)] ELSE rule

Resolve ==
    /\ phase = "parsed"
    /\ LET consts == DefineTable(file.defines)
           flat   == FlattenFile(file)
       IN IF Validates(file) /\ consts.ok /\ flat.ok
          THEN /\ defines' = consts.table
               /\ rules' = [i \in DOMAIN flat.rules |-> Resolved(flat.rules[i])]
               /\ phase' = "resolved"
          ELSE /\ phase' = "refused"
               /\ UNCHANGED << defines, rules >>
    /\ UNCHANGED << input, file, ranges, todo, tree, cg >>

Rule(nr, action, filter) == [nr |-> nr, action |-> action, filter |-> filter]

HasUnsafeFlag == MaskedCompare(1, UnsafeNsFlags, "!=", 0)

StartupRules ==
    [i \in DOMAIN StartupCalls |-> Rule(StartupCalls[i], "allow", NoFilter)]

\* Variant: clone and unshare are denied without looking at the flags.
UsernsDenyRulesPlain ==
    << Rule(Clone3, "enosys", NoFilter) >>
        \o [i \in DOMAIN NamespaceCalls |-> Rule(NamespaceCalls[i], "eperm", NoFilter)]

UsernsDenyRules ==
    << Rule(Clone3, "enosys", NoFilter) >>
        \o [i \in DOMAIN NamespaceCalls |->
                Rule(NamespaceCalls[i], "eperm", HasUnsafeFlag)]

HasPolicy(in)   == in.caller \in {"pnut", "pnut_nested"}
DeniesUserns(in) == in.caller \in {"pnut", "no_policy"}

\* compile_policy and inject_userns_deny.
AddPnutRules ==
    /\ phase = "resolved"
    /\ rules' = rules \o (IF HasPolicy(input) THEN StartupRules ELSE <<>>)
                      \o (IF DeniesUserns(input) THEN UsernsDenyRules ELSE <<>>)
    /\ phase' = "complete"
    /\ UNCHANGED << input, file, defines, ranges, todo, tree, cg >>

Normalize ==
    /\ phase = "complete"
    /\ ranges' = NormalizeRanges(rules, Default)
    /\ todo' = Len(ranges')
    /\ phase' = "ranges"
    /\ UNCHANGED << input, file, defines, rules, tree, cg >>

\* A debug build panics at the jump that does not fit its field.
After(g, next) == IF g.overflow /\ DebugAssertions THEN "panicked" ELSE next

\* A turn of the loop over the ranges, from the last one down.
TakeRange ==
    /\ phase = "ranges"
    /\ todo > 0
    /\ LET range   == ranges[todo]
           lowered == [i \in DOMAIN range.mappings |-> Lowered(range.mappings[i].filter)]
           codes   == [i \in DOMAIN lowered |-> lowered[i].buf]
           action  == GenerateAction(cg, range, codes)
           pushed  == PushSubtree(tree, action.cg, range, action.next)
       IN IF \A i \in DOMAIN lowered : lowered[i].ok
          THEN /\ tree' = pushed.tree
               /\ cg' = pushed.cg
               /\ todo' = todo - 1
               /\ phase' = After(pushed.cg, phase)
          ELSE /\ phase' = "refused"
               /\ UNCHANGED << tree, cg, todo >>
    /\ UNCHANGED << input, file, defines, rules, ranges >>

\* The ranges begin at 0, so the test before this loop never fails.
JoinRest ==
    /\ phase = "ranges"
    /\ todo = 0
    /\ Len(tree) >= 2
    /\ LET joined == JoinTop(tree, cg, 0)
       IN /\ tree' = joined.tree
          /\ cg' = joined.cg
          /\ phase' = After(joined.cg, phase)
    /\ UNCHANGED << input, file, defines, rules, ranges, todo >>

\* The rest of generate.
Finish ==
    /\ phase = "ranges"
    /\ todo = 0
    /\ Len(tree) = 1
    /\ cg' = EmitArchPrelude(ResolveTarget(cg, tree[1].target).cg)
    /\ phase' = IF Len(cg'.buffer) > MaxProgram THEN "refused" ELSE "compiled"
    /\ UNCHANGED << input, file, defines, rules, ranges, todo, tree >>

Next ==
    \/ Include
    \/ Resolve
    \/ AddPnutRules
    \/ Normalize
    \/ TakeRange
    \/ JoinRest
    \/ Finish

Spec == Init /\ [][Next]_vars

-----------------------------------------------------------------------------
(***************************************************************************)
(* What a policy says of a call.  The rules are taken as they were written *)
(* or added, before any of them was simplified.                            *)
(***************************************************************************)
Calls == [nr : 0..(MaxSyscallNr + 1), arch : {AuditArch}, args : ArgTuples]

Written ==
    RulesOf(file) \o (IF HasPolicy(input) THEN StartupRules ELSE <<>>)
                   \o (IF DeniesUserns(input) THEN UsernsDenyRules ELSE <<>>)

Verdict(written, call) ==
    LET mine    == SelectSeq(written, LAMBDA r : r.nr = call.nr)
        plain   == SelectSeq(mine, IsUnconditional)
        applies == SelectSeq(mine, LAMBDA r : IsConditional(r) /\ Holds(r.filter, call.args))
    IN Ret[Head(applies \o plain \o << [action |-> Default] >>).action]

Run(call) == RunFrom(program, Len(program), 0, call)

(***************************************************************************)
(* The state has the shape the code gives it; a generator has as many      *)
(* levels in its tree as the code allows, each above a lower one.          *)
(***************************************************************************)
TypeOK ==
    /\ phase \in {"source", "too_deep", "circular", "not_found", "parsed", "resolved",
                  "complete", "ranges", "compiled", "refused", "panicked"}
    /\ todo \in 0..Len(ranges)
    /\ \A r \in Rets : cg.cache[r] \in Nowhere..Len(program)
    /\ \A i \in DOMAIN tree : tree[i].target.to = "location"
                                => tree[i].target.v \in 1..Len(program)
    /\ \A i \in 1..(Len(tree) - 2) : tree[i].level > tree[i + 1].level

(***************************************************************************)
(* The program does to every call what the policy says: the first          *)
(* conditional rule that applies, or else the first unconditional one, or  *)
(* else the default; whatever else is in the policy, however far apart the *)
(* code ends up, and for every value of the arguments                      *)
(* (codegen/ranges.rs:27-42, reverse.rs:173-178).  A call of another       *)
(* architecture is killed.                                                 *)
(***************************************************************************)
Faithful ==
    phase = "compiled" =>
        /\ LET written == Written
           IN \A call \in Calls : Run(call) = Verdict(written, call)
        /\ \A call \in Calls : Run([call EXCEPT !.arch = AuditArch - 1])
                                  = Ret[KillProcess]

(***************************************************************************)
(* While the tree is built, every subtree already decides the numbers it   *)
(* stands for: from its own to below the one under it in the stack.        *)
(* Later code must not disturb it (reverse.rs:243-310).                    *)
(***************************************************************************)
Decides(target, call) ==
    IF target.to = "action" THEN target.v
    ELSE RunFrom(program, target.v, call.nr, call)

StandsFor(i, nr) == nr >= tree[i].nr /\ (i > 1 => nr < tree[i - 1].nr)

SubtreesDecide ==
    phase = "ranges" =>
        LET written == Written
        IN \A i \in DOMAIN tree : \A call \in Calls :
               StandsFor(i, call.nr)
                   => Decides(tree[i].target, call) = Verdict(written, call)

(***************************************************************************)
(* A file is refused for its policies exactly if it has no USE, one names  *)
(* no policy, the top-level one reaches a circle or a rule declares more   *)
(* arguments than a call has; a policy that is used twice, side by side or *)
(* in a diamond, is no circle (parser.rs:179-224, resolve.rs:686-730, 836).*)
(***************************************************************************)
UsesResolved ==
    /\ phase = "resolved" =>
         ~IsCircular(file) /\ \A p \in ToSet(file.policies) : ~IsTooWide(p.entries)
    /\ phase = "refused" /\ ranges = <<>>
          => \/ IsCircular(file) \/ ~Validates(file) \/ file.use = NoUse
             \/ \E d \in ToSet(file.defines) : HasNoValue(file.defines, d.name)

(***************************************************************************)
(* A file is refused for its #includes exactly if along names that differ  *)
(* one is not there, leads too deep, or has a name of those that lead to   *)
(* it; one that is included on two branches is taken twice.  What is       *)
(* accepted never goes round, under whatever names; it has every policy of *)
(* every file, those of the prelude behind any of the same name, and the   *)
(* USE of the text itself if that has one (parser.rs:76-168,               *)
(* codegen.rs:379-403).                                                    *)
(*                                                                         *)
(* codegen.rs:71-73 says that circles are looked for by canonical name.    *)
(* That is so where the names tell the files apart: there only a circle is *)
(* refused as one, and none is refused for its depth.  Elsewhere a name    *)
(* that leads to another file, or to none, passes for a circle, and a      *)
(* circle of links ends at the depth.                                      *)
(***************************************************************************)
IncludesResolved ==
    LET disk  == input.disk
        both  == {input.main, input.prelude}
        texts == TextsOf(disk, input.main)
    IN /\ phase = "not_found" => \E t \in both : MissesAFile(disk, t)
       /\ phase = "too_deep"  => \E t \in both : IsTooDeep(disk, t)
       /\ phase = "circular"  => \E t \in both : NamesOneAgain(disk, t)
       /\ (\A t \in both : NamesTellFiles(disk, t)) =>
            /\ phase = "circular" => \E t \in both : GoesRound(disk, t)
            /\ phase = "too_deep" =>
                 \E t \in both : \E c \in Chains(disk, t, MaxIncludeDepth) :
                     Len(c) = MaxIncludeDepth /\ IsInjective(Trail(disk, c))
       /\ phase = "parsed" =>
            /\ \A t \in both : /\ ~MissesAFile(disk, t) /\ ~IsTooDeep(disk, t)
                               /\ ~NamesOneAgain(disk, t) /\ ~GoesRound(disk, t)
            /\ ToSet(file.policies)
                 = PoliciesOf(texts) \cup PoliciesOf(TextsOf(disk, input.prelude))
            /\ \A p \in PoliciesOf(texts) :
                   \E q \in PoliciesOf(texts) :
                       q = Policy(p.name, EntriesOf(file.policies, p.name))
            /\ input.main.use # NoUse => file.use = input.main.use

(***************************************************************************)
(* A name stands for the bits of its definition and of the names in it,    *)
(* wherever the definitions stand; a file where it has no value is         *)
(* refused.  Of two definitions of one name the first counts, so that a    *)
(* text does not override its prelude (the test of that name,              *)
(* kafel/tests/includes.rs:151, takes either answer), unless a definition  *)
(* above both leads to the name: then the last one does.  Where more names *)
(* than one are defined twice, or one that is leads back to itself, a name *)
(* has no bit that none of its definitions gives it (resolve.rs:470-539).  *)
(***************************************************************************)
DefinesResolved ==
    phase = "resolved" =>
        LET all == file.defines
            names   == {d.name : d \in ToSet(all)}
            Alone(n) == \A m \in names \ {n} : ~IsDoubled(all, m)
        IN \A n \in names :
              /\ defines[n] \subseteq BitsOf(all, n)
              /\ IsPlain(all, n) => ~HasNoValue(all, n)
              /\ (IsDoubled(all, n) => Alone(n)) /\ ~IsRound(all, n) =>
                   LET expr == ExprThatCounts(all, n)
                   IN defines[n] = BitsIn(expr) \cup UNION {defines[m] : m \in NamesIn(ToSet(expr))}

(***************************************************************************)
(* From text to rules: what is refused is refused for a reason, and the    *)
(* file that is compiled is the one its texts make up (parse_policy).      *)
(***************************************************************************)
SourceResolved == UsesResolved /\ IncludesResolved /\ DefinesResolved

(***************************************************************************)
(* The rules pnut adds after the user's hold, except where the user's      *)
(* policy itself rules on the same call: execve and its like are allowed,  *)
(* clone3 is refused, and an unconditional rule for clone or unshare does  *)
(* not open the way to new namespaces (sandbox/seccomp.rs:79-134).         *)
(***************************************************************************)
PnutRulesHold ==
    phase = "compiled" =>
        LET user == ToSet(RulesOf(file))
            Free(call)  == ~\E r \in user : r.nr = call.nr
            Unfiltered(call) == ~\E r \in user : r.nr = call.nr /\ IsConditional(r)
        IN \A call \in Calls :
            /\ HasPolicy(input) /\ call.nr \in ToSet(StartupCalls) /\ Free(call)
                   => Run(call) = Ret["allow"]
            /\ DeniesUserns(input) /\ call.nr = Clone3 /\ Free(call)
                   => Run(call) = Ret["enosys"]
            /\ (/\ DeniesUserns(input)
                /\ call.nr \in ToSet(NamespaceCalls)
                /\ Holds(HasUnsafeFlag, call.args)
                /\ Unfiltered(call))
                   => Run(call) = Ret["eperm"]

=============================================================================
