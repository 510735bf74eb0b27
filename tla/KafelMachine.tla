---------------------------- MODULE KafelMachine ----------------------------
(***************************************************************************)
(* The machine that runs a seccomp program (kafel/src/interp.rs).          *)
(*                                                                         *)
(* A word has Word values instead of 2^32, an argument two words.  Code is *)
(* emitted back to front, so a buffer ends with the instruction that runs  *)
(* first, and a jump goes to a smaller index.                              *)
(***************************************************************************)
EXTENDS Integers, Sequences

CONSTANTS
    Word,          \* how many values a machine word has
    BitAnd(_, _)   \* `&`

Lo(v) == v % Word
Hi(v) == v \div Word

Arguments == 0..(Word * Word - 1)

ASSUME WordHasBits == Word \in Nat /\ Word >= 2

\* A mask of one word picks bits of the low word only, as there is a power of two
\* of its values.
ASSUME MasksPickLowBits ==
    \A v \in Arguments, m \in 0..(Word - 1) :
        BitAnd(v, m) \in 0..(Word - 1) /\ BitAnd(v, m) = BitAnd(Lo(v), m)

Ins(code, k, jt, jf) == [code |-> code, k |-> k, jt |-> jt, jf |-> jf]
Stmt(code, k) == Ins(code, k, 0, 0)

Wild == -1    \* the result of leaving the program

(***************************************************************************)
(* What instruction i does when the accumulator is `acc`: whether a jump   *)
(* is taken, how many instructions are skipped, what the accumulator is    *)
(* then.  A call is a record of nr, arch and args.                         *)
(***************************************************************************)
Taken(i, acc) ==
    CASE i.code = "jeq"  -> acc = i.k
      [] i.code = "jgt"  -> acc > i.k
      [] i.code = "jge"  -> acc >= i.k
      [] i.code = "jset" -> BitAnd(acc, i.k) # 0

Skipped(i, acc) ==
    CASE i.code = "ja" -> i.k
      [] i.code \in {"jeq", "jgt", "jge", "jset"} -> IF Taken(i, acc) THEN i.jt ELSE i.jf
      [] OTHER -> 0

Loaded(i, call, acc) ==
    CASE i.code = "and"    -> BitAnd(acc, i.k)
      [] i.code = "ldnr"   -> call.nr
      [] i.code = "ldarch" -> call.arch
      [] i.code = "ldlo"   -> Lo(call.args[i.k])
      [] i.code = "ldhi"   -> Hi(call.args[i.k])
      [] OTHER -> acc

\* Where the instruction at `at` leads, given what those below it yield.  An exit
\* is the return that stands for one while an expression is lowered.
Outcome(i, at, call, run, acc) ==
    LET to    == at - 1 - Skipped(i, acc)
        value == Loaded(i, call, acc)
    IN IF i.code \in {"ret", "exit"} THEN i.k
       ELSE IF to \in 1..(at - 1) /\ value \in Nat THEN run[to][value]
       ELSE Wild

\* What the code yields from each of its instructions on.
Runs(buf, call) ==
    LET run[at \in 1..Len(buf)] ==
            [acc \in Nat |-> Outcome(buf[at], at, call, run, acc)]
    IN  run

RunFrom(buf, at, acc, call) ==
    IF at \in 1..Len(buf) THEN Runs(buf, call)[at][acc] ELSE Wild

=============================================================================
