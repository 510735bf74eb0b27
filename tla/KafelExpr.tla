----------------------------- MODULE KafelExpr -----------------------------
(***************************************************************************)
(* Filter expressions of kafel: their simplification by the resolver       *)
(* (kafel/src/resolve.rs), their lowering (codegen/expr.rs), and what they *)
(* mean.                                                                   *)
(***************************************************************************)
EXTENDS KafelCompare

(***************************************************************************)
(* resolve_bool_expr with simplify_compare, _and, _or and _not.            *)
(***************************************************************************)
IsConst(e, v) == e.t = "bool" /\ e.v = v

SimplifyAnd(a, b) ==
    CASE IsConst(a, TRUE) -> b
      [] IsConst(b, TRUE) -> a
      [] IsConst(a, FALSE) \/ IsConst(b, FALSE) -> BoolConst(FALSE)
      [] OTHER -> Both(a, b)

SimplifyOr(a, b) ==
    CASE IsConst(a, FALSE) -> b
      [] IsConst(b, FALSE) -> a
      [] IsConst(a, TRUE) \/ IsConst(b, TRUE) -> BoolConst(TRUE)
      [] OTHER -> Either(a, b)

SimplifyNot(a) ==
    CASE a.t = "bool" -> BoolConst(~a.v)
      [] a.t = "not"  -> a.a
      [] OTHER        -> Negated(a)

SimplifyCompare(e) ==
    IF e.l.is = "const" /\ e.r.is = "const"
    THEN BoolConst(EvaluateCmp(e.op, e.l.v, e.r.v)) ELSE e

RECURSIVE Simplify(_)
Simplify(e) ==
    CASE e.t = "cmp" -> SimplifyCompare(e)
      [] e.t = "and" -> SimplifyAnd(Simplify(e.a), Simplify(e.b))
      [] e.t = "or"  -> SimplifyOr(Simplify(e.a), Simplify(e.b))
      [] e.t = "not" -> SimplifyNot(Simplify(e.a))
      [] OTHER       -> e

\* generate_expr
RECURSIVE GenerateExpr(_, _, _, _, _)
GenerateExpr(buf, e, t, f, limit) ==
    CASE e.t = "bool"   -> Res(buf, IF e.v THEN t ELSE f, TRUE)
      [] e.t = "cmp"    -> Comparison(buf, e, t, f, limit)
      [] e.t = "masked" -> Masked(buf, e, t, f, limit)
      [] e.t = "not"    -> GenerateExpr(buf, e.a, f, t, limit)
      [] e.t = "and"    -> LET r == GenerateExpr(buf, e.b, t, f, limit)
                               l == GenerateExpr(r.buf, e.a, r.at, f, limit)
                           IN [l EXCEPT !.ok = @ /\ r.ok]
      [] e.t = "or"     -> LET r == GenerateExpr(buf, e.b, t, f, limit)
                               l == GenerateExpr(r.buf, e.a, t, r.at, limit)
                           IN [l EXCEPT !.ok = @ /\ r.ok]

(***************************************************************************)
(* Whether a filter holds for the arguments of a call.                     *)
(***************************************************************************)
RECURSIVE Holds(_, _)
Holds(e, args) ==
    CASE e.t = "bool"   -> e.v
      [] e.t = "cmp"    -> CompareHolds(e, args)
      [] e.t = "masked" -> MaskedHolds(e, args)
      [] e.t = "not"    -> ~Holds(e.a, args)
      [] e.t = "and"    -> Holds(e.a, args) /\ Holds(e.b, args)
      [] e.t = "or"     -> Holds(e.a, args) \/ Holds(e.b, args)

=============================================================================
