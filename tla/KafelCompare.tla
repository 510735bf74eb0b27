---------------------------- MODULE KafelCompare ----------------------------
(***************************************************************************)
(* Comparisons of kafel's filter expressions: what they mean, and their    *)
(* lowering to BPF (kafel/src/codegen/expr.rs).                            *)
(***************************************************************************)
EXTENDS KafelMachine

Needs64(v) == v >= Word

(***************************************************************************)
(* Expressions.  Arg(i) and Const(v) are the two kinds of operand.         *)
(***************************************************************************)
Arg(i)   == [is |-> "arg", v |-> i]
Const(v) == [is |-> "const", v |-> v]

Compare(l, op, r)         == [t |-> "cmp", l |-> l, op |-> op, r |-> r]
MaskedCompare(i, m, op, v) == [t |-> "masked", i |-> i, mask |-> m, op |-> op, v |-> v]
Both(a, b) == [t |-> "and", a |-> a, b |-> b]
Either(a, b) == [t |-> "or", a |-> a, b |-> b]
Negated(a) == [t |-> "not", a |-> a]
BoolConst(v) == [t |-> "bool", v |-> v]

EvaluateCmp(op, l, r) ==
    CASE op = "==" -> l = r
      [] op = "!=" -> l # r
      [] op = "<"  -> l < r
      [] op = "<=" -> l <= r
      [] op = ">"  -> l > r
      [] op = ">=" -> l >= r

(***************************************************************************)
(* ExprBuf.  A result is the buffer, the entry location and whether all    *)
(* jumps could be encoded in the field of `limit`.                         *)
(***************************************************************************)
Res(buf, at, ok) == [buf |-> buf, at |-> at, ok |-> ok]

\* emit_jump and jump_offset
EmitJump(buf, code, k, t, f, limit) ==
    LET from  == Len(buf) + 1
        jt    == from - t - 1
        jf    == from - f - 1
    IN Res(Append(buf, Ins(code, k, jt, jf)), from,
           t < from /\ f < from /\ jt <= limit /\ jf <= limit)

EmitArgLoad(r, i, half) ==
    Res(Append(r.buf, Stmt(half, i)), Len(r.buf) + 1, r.ok)

\* A second jump after r, which must not have failed.
ThenJump(r, code, k, t, f, limit) ==
    LET j == EmitJump(r.buf, code, k, t, f, limit)
    IN [j EXCEPT !.ok = j.ok /\ r.ok]

\* The opcode of a comparison, and whether its branches change places.
Opcode(op) ==
    CASE op \in {"==", "!="} -> "jeq"
      [] op \in {">", "<="}  -> "jgt"
      [] op \in {">=", "<"}  -> "jge"

Swaps(op) == op \in {"!=", "<", "<="}

\* generate_cmp32_const
Cmp32(buf, code, i, v, t, f, limit) ==
    EmitArgLoad(EmitJump(buf, code, v, t, f, limit), i, "ldlo")

\* generate_equality_64
Equality64(buf, i, v, t, f, limit) ==
    LET lo == EmitArgLoad(EmitJump(buf, "jeq", Lo(v), t, f, limit), i, "ldlo")
        hi == ThenJump(lo, "jeq", Hi(v), lo.at, f, limit)
    IN EmitArgLoad(hi, i, "ldhi")

\* Variant: a high word that is greater does not decide.
Inequality64LowOnly(buf, code, i, v, t, f, limit) ==
    LET lo == EmitArgLoad(EmitJump(buf, code, Lo(v), t, f, limit), i, "ldlo")
        ge == ThenJump(lo, "jge", Hi(v), lo.at, f, limit)
    IN EmitArgLoad(ge, i, "ldhi")

\* generate_inequality_64
Inequality64(buf, code, i, v, t, f, limit) ==
    LET lo == EmitArgLoad(EmitJump(buf, code, Lo(v), t, f, limit), i, "ldlo")
        ge == ThenJump(lo, "jge", Hi(v), lo.at, f, limit)
        gt == ThenJump(ge, "jgt", Hi(v), t, ge.at, limit)
    IN EmitArgLoad(gt, i, "ldhi")

Reversed(op) ==
    CASE op = ">"  -> "<"  [] op = ">=" -> "<=" [] op = "<" -> ">"
      [] op = "<=" -> ">=" [] OTHER -> op

\* generate_comparison with an argument on the left and a constant on the right
ArgConst(buf, i, op, v, t, f, limit) ==
    LET et == IF Swaps(op) THEN f ELSE t
        ef == IF Swaps(op) THEN t ELSE f
    IN IF ~Needs64(v) THEN Cmp32(buf, Opcode(op), i, v, et, ef, limit)
       ELSE IF Opcode(op) = "jeq" THEN Equality64(buf, i, v, et, ef, limit)
       ELSE Inequality64(buf, Opcode(op), i, v, et, ef, limit)

Comparison(buf, e, t, f, limit) ==
    CASE e.l.is = "const" /\ e.r.is = "const" ->
             Res(buf, IF EvaluateCmp(e.op, e.l.v, e.r.v) THEN t ELSE f, TRUE)
      [] e.l.is = "arg" /\ e.r.is = "const" ->
             ArgConst(buf, e.l.v, e.op, e.r.v, t, f, limit)
      [] e.l.is = "const" /\ e.r.is = "arg" ->
             ArgConst(buf, e.r.v, Reversed(e.op), e.l.v, t, f, limit)
      [] OTHER -> Res(buf, f, TRUE)

\* generate_masked_compare
Masked(buf, e, t, f, limit) ==
    LET et == IF Swaps(e.op) THEN f ELSE t
        ef == IF Swaps(e.op) THEN t ELSE f
        j  == EmitJump(buf, Opcode(e.op), e.v, et, ef, limit)
    IN IF Needs64(e.mask) \/ Needs64(e.v) THEN Res(buf, f, TRUE)
       ELSE IF e.v = 0 /\ Opcode(e.op) = "jeq"
       THEN EmitArgLoad(EmitJump(buf, "jset", e.mask, ef, et, limit), e.i, "ldlo")
       ELSE EmitArgLoad([j EXCEPT !.buf = Append(@, Stmt("and", e.mask))], e.i, "ldlo")

(***************************************************************************)
(* What an expression means.  A constant of one word is compared with the  *)
(* low word of the argument, as the code does for the 32-bit arguments of  *)
(* most system calls; a constant of two words with the whole argument.     *)
(***************************************************************************)
Seen(args, i, v) == IF Needs64(v) THEN args[i] ELSE Lo(args[i])

Operand(o, other, args) ==
    IF o.is = "const" THEN o.v ELSE Seen(args, o.v, other.v)

CompareHolds(e, args) ==
    EvaluateCmp(e.op, Operand(e.l, e.r, args), Operand(e.r, e.l, args))

MaskedHolds(e, args) == EvaluateCmp(e.op, BitAnd(args[e.i], e.mask), e.v)

=============================================================================
