---------------------------- MODULE KafelReverse ----------------------------
(***************************************************************************)
(* The code generator of kafel (kafel/src/codegen/reverse.rs): return      *)
(* instructions that are shared, jumps that may be too far, chains of      *)
(* conditional rules, and the decision tree over the system call numbers.  *)
(* All is emitted back to front.                                           *)
(***************************************************************************)
EXTENDS KafelMachine, SequencesExt

CONSTANTS
    Ret,      \* action_to_ret: what each action encodes to
    MaxJump   \* MAX_JUMP, the reach of a conditional jump

ASSUME JumpsReachSomewhere == MaxJump \in Nat /\ MaxJump >= 3

Rets == {Ret[a] : a \in DOMAIN Ret}

(***************************************************************************)
(* ReverseCodegen.  A target is a location of the buffer or a return       *)
(* value, for which resolve_action finds or emits a return instruction.    *)
(***************************************************************************)
Location(loc)    == [to |-> "location", v |-> loc]
ActionTarget(a)  == [to |-> "action", v |-> Ret[a]]
Nowhere          == 0

EmptyCodegen == [buffer |-> <<>>, cache |-> [r \in Rets |-> Nowhere],
                 overflow |-> FALSE]

Here(g)          == Len(g.buffer)
LocToJump(g, loc) == Here(g) - loc
Emit(g, ins)     == [g EXCEPT !.buffer = Append(@, ins)]

\* What a step that may emit yields: the code generator and a location.
At(g, loc) == [cg |-> g, at |-> loc]

ResolveAction(g, r) ==
    IF g.cache[r] # Nowhere /\ LocToJump(g, g.cache[r]) <= MaxJump
    THEN At(g, g.cache[r])
    ELSE At([Emit(g, Stmt("ret", r)) EXCEPT !.cache[r] = Here(g) + 1], Here(g) + 1)

ResolveTarget(g, target) ==
    IF target.to = "location" THEN At(g, target.v) ELSE ResolveAction(g, target.v)

\* Variant: the trampoline jumps one instruction too far.
TrampolineTooFar(g, loc) ==
    IF LocToJump(g, loc) > MaxJump
    THEN At(Emit(g, Stmt("ja", LocToJump(g, loc) + 1)), Here(g) + 1)
    ELSE At(g, loc)

Trampoline(g, loc) ==
    IF LocToJump(g, loc) > MaxJump
    THEN At(Emit(g, Stmt("ja", LocToJump(g, loc))), Here(g) + 1)
    ELSE At(g, loc)

EnsureJumpableTarget(g, target) ==
    LET r == ResolveTarget(g, target) IN Trampoline(r.cg, r.at)

\* add_jump: the two distances are cut to the width of their field.
AddJump(g, k, t, f) ==
    LET false  == EnsureJumpableTarget(g, f)
        once   == EnsureJumpableTarget(false.cg, t)
        true   == EnsureJumpableTarget(once.cg, Location(once.at))
        jt     == LocToJump(true.cg, true.at)
        jf     == LocToJump(true.cg, false.at)
        wide   == jt > MaxJump \/ jf > MaxJump
        jump   == Ins("jge", k, jt % (MaxJump + 1), jf % (MaxJump + 1))
    IN IF t = f THEN ResolveTarget(g, t)
       ELSE At([Emit(true.cg, jump) EXCEPT !.overflow = @ \/ wide], Here(true.cg) + 1)

AddJumpGe(g, than, t, f) ==
    IF than = 0 THEN ResolveTarget(g, t) ELSE AddJump(g, than, t, f)

(***************************************************************************)
(* emit_conditional_chain.  An expression is lowered into a buffer of its  *)
(* own whose first two instructions stand for the two exits; they become   *)
(* jumps when the buffer is copied.  Where the expression's code is        *)
(* entered is not looked at: the chain goes on at the instruction that     *)
(* was copied last.                                                        *)
(***************************************************************************)
FalseExit == 1
TrueExit  == 2
Exits     == << Stmt("exit", FalseExit), Stmt("exit", TrueExit) >>

\* emit_placeholder_jump, where `here` instructions are before it
PlaceholderJump(here, loc) == Stmt("ja", here - loc)

CopyInstruction(ins, here, trueAt, falseAt) ==
    IF ins.code # "exit" THEN ins
    ELSE PlaceholderJump(here, IF ins.k = TrueExit THEN trueAt ELSE falseAt)

CopyCode(g, code, trueAt, falseAt) ==
    [g EXCEPT !.buffer =
        @ \o [i \in 1..Len(code) |->
                  CopyInstruction(code[i], Here(g) + i - 1, trueAt, falseAt)]]

\* `acc` has the generator and the next target.
EmitMapping(action, code, acc) ==
    LET false == EnsureJumpableTarget(acc.cg, acc.next)
        true  == EnsureJumpableTarget(false.cg, ActionTarget(action))
        g     == CopyCode(true.cg, code, true.at, false.at)
    IN [cg |-> g, next |-> Location(Here(g))]

\* The chain when the last n mappings are emitted; codes[i] is the code of the
\* filter of mapping i.
Chain(g, range, codes) ==
    LET size == Len(range.mappings)
        chain[n \in 0..size] ==
            IF n = 0 THEN [cg |-> g, next |-> ActionTarget(range.action)]
            ELSE EmitMapping(range.mappings[size - n + 1].action,
                             codes[size - n + 1], chain[n - 1])
    IN chain

\* Variant: the last mapping is tried first.
EmitConditionalChainBackwards(g, range, codes) ==
    Chain(g, [range EXCEPT !.mappings = Reverse(@)], Reverse(codes))[Len(codes)]

EmitConditionalChain(g, range, codes) == Chain(g, range, codes)[Len(range.mappings)]

\* generate_action; a chain without mappings is the bare action.
GenerateAction(g, range, codes) == EmitConditionalChain(g, range, codes)

(***************************************************************************)
(* generate_rules.  The last entry of `tree` is buf's top.                 *)
(***************************************************************************)
\* Variant: the merged subtree keeps the number of its upper half.
JoinTopKeepsNr(t, g, level) ==
    LET top    == Last(t)
        second == t[Len(t) - 1]
        jump   == AddJumpGe(g, second.nr, second.target, top.target)
    IN [cg |-> jump.cg,
        tree |-> Append(SubSeq(t, 1, Len(t) - 2),
                        [level |-> second.level + level, nr |-> second.nr,
                         target |-> Location(jump.at)])]

JoinTop(t, g, level) ==
    LET top    == Last(t)
        second == t[Len(t) - 1]
        jump   == AddJumpGe(g, second.nr, second.target, top.target)
    IN [cg |-> jump.cg,
        tree |-> Append(SubSeq(t, 1, Len(t) - 2),
                        [level |-> second.level + level, nr |-> top.nr,
                         target |-> Location(jump.at)])]

JoinIfLevel(acc) ==
    LET Level(i) == acc.tree[i].level
        size     == Len(acc.tree)
    IN IF size >= 2 /\ Level(size - 1) = Level(size)
       THEN JoinTop(acc.tree, acc.cg, 1) ELSE acc

\* The loop ends within as many turns as there are subtrees.
Joins(t, g) ==
    LET joins[n \in 0..Len(t)] ==
            IF n = 0 THEN [tree |-> t, cg |-> g] ELSE JoinIfLevel(joins[n - 1])
    IN joins

JoinEqualLevels(t, g) == Joins(t, g)[Len(t)]

PushSubtree(t, g, range, target) ==
    IF t # <<>> /\ Last(t).target = target
    THEN [tree |-> [t EXCEPT ![Len(t)].nr = range.first], cg |-> g]
    ELSE LET joined == JoinEqualLevels(t, g)
         IN [joined EXCEPT !.tree =
                Append(@, [level |-> 0, nr |-> range.first, target |-> target])]

\* Emitted in reverse: load arch, jeq, kill, load nr.
AuditArch == 1
KillProcess == "kill_process"

EmitArchPrelude(g) ==
    [g EXCEPT !.buffer = @ \o << Stmt("ldnr", 0), Stmt("ret", Ret[KillProcess]),
                                 Ins("jeq", AuditArch, 1, 0), Stmt("ldarch", 0) >>]

=============================================================================
