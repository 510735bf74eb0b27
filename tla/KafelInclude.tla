---------------------------- MODULE KafelInclude ----------------------------
(***************************************************************************)
(* How kafel puts a policy file together: #include (kafel/src/parser.rs,   *)
(* parse_with_includes), the files it finds (kafel/src/resolver.rs) and    *)
(* the prelude (kafel/src/codegen.rs, parse_policy).                       *)
(*                                                                         *)
(* A path is a sequence of names, the last of them that of the file; an    *)
(* absolute one begins with Root.  A disk maps each path that leads to a   *)
(* file, through a link or not, to the canonical path of that file and its *)
(* text.                                                                   *)
(***************************************************************************)
EXTENDS KafelResolve

CONSTANTS
    MaxIncludeDepth,   \* options.max_include_depth
    Root               \* what an absolute path begins with

ASSUME DepthIsNatural == MaxIncludeDepth \in Nat

Text(defines, policies, includes, use) ==
    [defines |-> defines, policies |-> policies, includes |-> includes, use |-> use]

Base == <<Root>>

\* FilesystemResolver: relative to the directory of the file that includes;
\* for the top-level text, which has no path, to that of the policy.
PathOf(parent, filename) ==
    IF Head(filename) = Root THEN filename
    ELSE (IF parent = <<>> THEN Base ELSE Front(parent)) \o filename

(***************************************************************************)
(* parse_with_includes.  `acc` has the file so far and seen_includes.      *)
(***************************************************************************)
\* Variant: a name that was included once counts as seen for ever.
KeepSeen(seen, filename) == seen

Forget(seen, filename) == seen \ {filename}

RECURSIVE ParseWithIncludes(_, _, _, _, _)

\* The checks before an include is read, in their order.  The name is compared
\* as it is written, not as the file is called that it leads to.
RefusesInclude(disk, acc, filename, depth, parent) ==
    CASE depth >= MaxIncludeDepth                       -> "too_deep"
      [] depth < MaxIncludeDepth /\ filename \in acc.seen -> "circular"
      [] OTHER -> IF PathOf(parent, filename) \in DOMAIN disk THEN "no" ELSE "not_found"

TakeInclude(disk, acc, filename, depth, parent) ==
    LET found   == disk[PathOf(parent, filename)]
        refuses == RefusesInclude(disk, acc, filename, depth, parent)
    IN IF acc.error # "no" \/ refuses # "no"
       THEN [acc EXCEPT !.error = IF @ = "no" THEN refuses ELSE @]
       ELSE LET inner == ParseWithIncludes(disk, found.text, acc.seen \cup {filename},
                                           depth + 1, found.at)
            IN [error    |-> inner.error,
                defines  |-> acc.defines \o inner.defines,
                policies |-> acc.policies \o inner.policies,
                use      |-> IF acc.use = NoUse THEN inner.use ELSE acc.use,
                seen     |-> Forget(inner.seen, filename)]

ParseWithIncludes(disk, text, seen, depth, parent) ==
    FoldLeft(LAMBDA acc, filename : TakeInclude(disk, acc, filename, depth, parent),
             [error |-> "no", defines |-> text.defines, policies |-> text.policies,
              use |-> text.use, seen |-> seen],
             text.includes)

\* parse_policy, up to validate.
FileOf(source) ==
    LET main    == ParseWithIncludes(source.disk, source.main, {}, 0, <<>>)
        prelude == ParseWithIncludes(source.disk, source.prelude, {}, 0, <<>>)
    IN [error    |-> IF main.error = "no" THEN prelude.error ELSE main.error,
        defines  |-> prelude.defines \o main.defines,
        policies |-> prelude.policies \o main.policies,
        use      |-> IF main.use = NoUse THEN prelude.use ELSE main.use]

(***************************************************************************)
(* The same without a walk: the chains of file names that lead from a text *)
(* to an include, as far as there are files.                               *)
(***************************************************************************)
\* Where a chain has come to after each of its names.
Trail(disk, chain) ==
    FoldLeft(LAMBDA at, filename : Append(at, disk[PathOf(Last(at), filename)].at),
             << <<>> >>, chain)

EndOf(disk, chain) == Last(Trail(disk, chain))

TextAt(disk, text, chain) ==
    IF chain = <<>> THEN text ELSE disk[EndOf(disk, chain)].text

Included(disk, text, chain) == ToSet(TextAt(disk, text, chain).includes)

IsThere(disk, chain, filename) == PathOf(EndOf(disk, chain), filename) \in DOMAIN disk

\* The chains of up to n names along which every file is there.
Chains(disk, text, n) ==
    LET upTo[k \in 0..n] ==
            IF k = 0 THEN { <<>> }
            ELSE { <<>> } \cup
                 UNION {{Append(c, f) : f \in {g \in Included(disk, text, c) : IsThere(disk, c, g)}} :
                           c \in upTo[k - 1]}
    IN upTo[n]

\* Those on which no name comes twice.
Straight(disk, text) == {c \in Chains(disk, text, MaxIncludeDepth) : IsInjective(c)}

MissesAFile(disk, text) ==
    \E c \in Straight(disk, text) : \E f \in Included(disk, text, c) : ~IsThere(disk, c, f)

IsTooDeep(disk, text) ==
    \E c \in Straight(disk, text) : Len(c) = MaxIncludeDepth /\ Included(disk, text, c) # {}

NamesOneAgain(disk, text) ==
    \E c \in Straight(disk, text) : Included(disk, text, c) \cap ToSet(c) # {}

\* A file that includes itself, whatever the names that lead round.
GoesRound(disk, text) ==
    \E c \in Chains(disk, text, MaxIncludeDepth) : ~IsInjective(Trail(disk, c))

\* Wherever a name on a chain is written again it leads to the same file, and
\* every file on a chain comes under one name.
NamesTellFiles(disk, text) ==
    \A c \in Chains(disk, text, MaxIncludeDepth) :
        /\ \A i, j \in DOMAIN c :
               c[i] = c[j] <=> Trail(disk, c)[i + 1] = Trail(disk, c)[j + 1]
        /\ \A f \in Included(disk, text, c) \cap ToSet(c) : IsThere(disk, c, f)

TextsOf(disk, text) == {TextAt(disk, text, c) : c \in Chains(disk, text, MaxIncludeDepth)}

PoliciesOf(texts) == UNION {ToSet(t.policies) : t \in texts}

=============================================================================
