--------------------------- MODULE MCKafelCodegen ---------------------------
(***************************************************************************)
(* The policies KafelCodegen is checked with.  Each family brings out one  *)
(* hazard: expressions over two words, precedence between rules and those  *)
(* pnut adds, and the layout of code too long for a jump.                  *)
(***************************************************************************)
EXTENDS KafelCodegen

LOCAL INSTANCE Bitwise

MCBitAnd(a, b) == a & b

\* Two actions may have one encoding, as ERRNO(1) and ERRNO(65537) have.
MCRet == [a \in {"allow", "kill", "kill_process", "enosys", "eperm", "eperm_wide"} |->
             CASE a = "allow" -> 0 [] a = "kill" -> 1 [] a = "kill_process" -> 2
               [] a = "enosys" -> 3 [] OTHER -> 4]

MCStartup    == <<1>>
MCNamespaces == <<3>>
MCArgTuples  == {<<v>> : v \in 0..(Word * Word - 1)}

Ops    == {"==", "!=", "<", "<=", ">", ">="}
Plain  == {Compare(Arg(1), op, Const(v)) : op \in Ops, v \in {0, 2, 6, 8}}
Turned == {Compare(Const(v), op, Arg(1)) : op \in Ops, v \in {1, 9}}
Masks  == {MaskedCompare(1, m, op, v) : m \in {2, 3}, op \in Ops, v \in {0, 2}}
Folded == {Compare(Const(1), "<", Const(2)), BoolConst(TRUE),
           Negated(Compare(Const(1), "==", Const(2)))}
Leaves == {Compare(Arg(1), "==", Const(1)), Compare(Arg(1), ">", Const(6)),
           MaskedCompare(1, 2, "!=", 0), BoolConst(TRUE), BoolConst(FALSE)}
Trees  == {Both(a, b) : a, b \in Leaves} \cup {Either(a, b) : a, b \in Leaves}
          \cup {Negated(Both(Negated(a), b)) : a, b \in Leaves}

\* Filters that keep some code, or hold for every call, once simplified.
Compiling == {f \in Plain \cup Turned \cup Masks \cup Folded \cup Trees :
                 Simplify(f) # BoolConst(FALSE)}

Callers == {"kafel", "pnut", "pnut_nested"}

NoDisk  == <<>>
NoText  == Text(<<>>, <<>>, <<>>, NoUse)

Input(caller, default, policies) ==
    [caller |-> caller, main |-> Text(<<>>, policies, <<>>, UseStmt(<<"p">>, default)),
     prelude |-> NoText, disk |-> NoDisk]

Single(rs) == << Policy("p", << Block(rs) >>) >>

Filtered(filters) ==
    {Input("kafel", "kill", Single(<< Rule(3, "allow", f) >>)) : f \in filters}

FewFilters == {NoFilter, Compare(Arg(1), "==", Const(1)), MaskedCompare(1, 2, "!=", 0)}

\* Up to two rules on the numbers pnut has rules for, or one of its own.
Precedence ==
    {Input(c, d, Single(r)) :
        c \in Callers, d \in {"kill", "allow"},
        r \in UNION {[1..n -> {Rule(nr, a, f) : nr \in {1, 2, 3},
                                a \in {"allow", "eperm"}, f \in FewFilters}] :
                     n \in 0..2}}

NoPolicy == {Input("no_policy", "allow", Single(<<>>))}

\* Policies that use each other: in a diamond, in a circle, twice, missing.
ShortSeqs(S) == UNION {[1..n -> S] : n \in 0..2}

Own(action) == Block(<< Rule(1, action, NoFilter) >>)

Using ==
    {Input("kafel", "kill", << Policy("p", p), Policy("q", q), Policy("r", r) >>) :
        p \in ShortSeqs({Own("allow"), Use("q"), Use("r")}),
        q \in ShortSeqs({Own("eperm"), Use("p"), Use("r")}),
        r \in ShortSeqs({Own("enosys"), Use("missing")})}
    \cup
    {[Input("kafel", "kill", << Policy("p", <<Own("allow")>>), Policy("q", q),
                                Policy("q", <<Own("eperm")>>) >>)
        EXCEPT !.main.use = UseStmt(u, "kill")] :
        q \in ShortSeqs({Own("enosys"), Use("p")}), u \in ShortSeqs({"p", "q"}) \ {<<>>}}

\* A rule with as many arguments as a call has, or one more, where USE leads and
\* where it does not.
Wide ==
    {Input("kafel", "kill", << Policy("p", << BlockOf(<< Rule(1, "allow", NoFilter) >>, m) >>),
                               Policy("q", << BlockOf(<< Rule(1, "eperm", NoFilter) >>, n) >>) >>) :
        m, n \in {MaxArgs, MaxArgs + 1}}

\* Files that include each other: in a diamond, round under one name or two,
\* too deep, missing; with USE and policies of one name in several of them.
Path(dir, name) == <<Root>> \o dir \o <<name>>

DiskOf(a, b, c) ==
    LET File(at, text) == [at |-> at, text |-> text]
        top   == File(Path(<<>>, "a"), a)
        other == File(Path(<<>>, "b"), b)
        deep  == File(Path(<<"d">>, "a"), c)
    IN Path(<<>>, "a") :> top @@ Path(<<>>, "link") :> top
         @@ Path(<<>>, "b") :> other @@ Path(<<"d">>, "a") :> deep
         @@ Path(<<"d">>, "b") :> File(Path(<<"d">>, "b"), NoText)

Preludes ==
    LET q == <<Policy("q", <<Own("enosys")>>)>>
    IN {Text(<<>>, q, <<>>, UseStmt(<<"q">>, "kill")), Text(<<>>, q, << <<"a">> >>, NoUse)}

Including ==
    {[caller |-> "kafel", main |-> Text(<<>>, <<Policy("p", <<Own("allow")>>)>>, m, u),
      prelude |-> n,
      disk |-> DiskOf(Text(<<>>, <<Policy("q", <<Own("eperm")>>)>>, a, NoUse),
                      Text(<<>>, <<Policy("p", <<Use("q")>>)>>, b, UseStmt(<<"p">>, "allow")),
                      Text(<<>>, <<>>, c, NoUse))] :
        m \in ShortSeqs({ <<"a">>, <<"b">> }), n \in Preludes,
        u \in {NoUse, UseStmt(<<"p">>, "kill")},
        a \in { <<>>, << <<"b">> >>, << <<"d", "a">> >> },
        b \in { <<>>, << <<"link">> >>, << <<"d", "a">> >>, << <<"link">>, <<"a">> >> },
        c \in { <<>>, << <<"a">> >>, << <<"b">> >>, << <<Root, "b">> >>, << <<"missing">> >> }}

\* Definitions that use each other, up to two of one name, in the prelude and in
\* the text.
Defining ==
    LET Exprs(n) == { <<Bits({n})>>, <<Bits({n}), Ident("A")>>,
                      <<Ident("A"), Bits({n}), Ident("B")>>, <<Ident("B"), Ident("C")>> }
    IN {[Input("kafel", "kill", Single(<<>>))
           EXCEPT !.main.defines = <<Define(x, f), Define(y, g)>>,
                  !.prelude.defines = p] :
            x, y \in {"A", "B", "C"}, f \in Exprs(2), g \in Exprs(3),
            p \in {<<>>} \cup {<<Define(z, e)>> : z \in {"A", "B"}, e \in Exprs(1)}}

\* One rule for every number but the last: what ranges and tree look like.
Pinned == Rule(0, "allow", Compare(Arg(1), "==", Const(1)))

Alternatives == { {Rule(0, "eperm", NoFilter), Rule(0, "allow", NoFilter), Pinned},
                  {Rule(0, "eperm", NoFilter), Rule(0, "eperm_wide", NoFilter), Pinned} }

Layouts ==
    {Input("kafel", "kill", Single([i \in DOMAIN a |-> [a[i] EXCEPT !.nr = i - 1]])) :
        a \in UNION {[1..MaxSyscallNr -> S] : S \in Alternatives}}

MCInputs == Filtered(Compiling) \cup Precedence \cup NoPolicy \cup Using \cup Wide
            \cup Including \cup Defining \cup Layouts

\* A filter that folds to false, as `!(A == 1)` does where A is 1.
FoldsToFalse == Filtered({Negated(Compare(Const(1), "==", Const(1)))})

=============================================================================
