------------------------------- MODULE FdPlan -------------------------------
(***************************************************************************)
(* The descriptor policy of the child: fd::apply_actions, then             *)
(* fd::close_other_fds (pnut-child/src/fd.rs), on the plan that            *)
(* FileDescriptors::prepare makes (pnut/src/sandbox/prepare.rs).           *)
(*                                                                         *)
(* A descriptor table maps the open descriptors to the files they denote;  *)
(* a file is named after the descriptor it was opened on.  The width of    *)
(* c_int is scaled down to CIntMax, and that of u32 with it.               *)
(***************************************************************************)
EXTENDS Integers, Sequences, FiniteSets, FiniteSetsExt

CONSTANTS
    MaxFd,        \* largest descriptor that may be open
    CIntMax,      \* the largest c_int, scaled down
    OpenSets,     \* which descriptors are open when the stage begins
    Mappings,     \* the lists of [fd] map entries considered, as actions
    Direct,       \* the FdSpecs of direct users of pnut-child: <<actions, keep>>
    ExtraKeeps    \* the status and completion descriptors, -1 for None

CInt   == (-CIntMax - 1)..CIntMax
U32Max == 2 * CIntMax + 1

Dup2(s, d) == [op |-> "dup2", src |-> s, dst |-> d]
Close(f)   == [op |-> "close", src |-> f, dst |-> f]

FdAction == {a \in [op : {"dup2", "close"}, src : CInt, dst : CInt] :
                 a.op = "close" => a.dst = a.src}

ASSUME WidthAssumption ==
    /\ MaxFd \in Nat /\ CIntMax \in Nat /\ MaxFd < CIntMax /\ 2 < CIntMax
    /\ \A S \in OpenSets : S \subseteq 0..MaxFd
    /\ \A E \in ExtraKeeps : E \subseteq {-1} \cup 0..MaxFd

ASSUME ListAssumption ==
    /\ \A as \in Mappings : as \in Seq(FdAction)
    /\ \A d \in Direct : d[1] \in Seq(FdAction) /\ d[2] \in Seq(CInt)

VARIABLES
    open0,    \* the table when the stage begins
    actions,  \* spec.fds.actions
    keep,     \* spec.fds.keep
    extra,    \* extra_keep, as a set
    fds,      \* the descriptor table now
    pos,      \* how many actions have been applied
    cursor,   \* close_other_fds's cursor
    phase     \* "apply", "close", "done" or "failed"

plan == <<open0, actions, keep, extra>>
vars == <<open0, actions, keep, extra, fds, pos, cursor, phase>>

\* `fd as u32`
AsU32(f) == IF f < 0 THEN f + U32Max + 1 ELSE f

TypeOK ==
    /\ DOMAIN fds \subseteq 0..MaxFd
    /\ \A f \in DOMAIN fds : fds[f] \in DOMAIN open0
    /\ pos \in 0..Len(actions)
    /\ cursor \in 3..U32Max
    /\ phase \in {"apply", "close", "done", "failed"}

\* Variant: the destinations are collected without the set.
PlanKeepInOrder(as) == <<0, 1, 2>> \o [i \in 1..Len(as) |-> as[i].dst]

\* A BTreeSet as it is iterated: the i-th element has i - 1 smaller ones.
Below(S, x)  == {y \in S : y < x}
Ascending(S) ==
    [i \in 1..Cardinality(S) |-> CHOOSE x \in S : Cardinality(Below(S, x)) = i - 1]

\* FileDescriptors::prepare keeps stdio and the destinations.
Destinations(as) == {as[i].dst : i \in 1..Len(as)}

PlanKeep(as) == Ascending({0, 1, 2} \cup Destinations(as))

Init ==
    /\ \E S \in OpenSets : open0 = [f \in S |-> f]
    /\ \/ actions \in Mappings /\ keep = PlanKeep(actions)
       \/ \E d \in Direct : actions = d[1] /\ keep = d[2]
    /\ extra \in ExtraKeeps
    /\ fds = open0
    /\ pos = 0
    /\ cursor = 3
    /\ phase = "apply"

-----------------------------------------------------------------------------
(* fd::apply_actions.                                                      *)

DupOnto(s, d) ==
    [f \in DOMAIN fds \cup {d} |-> IF f = d THEN fds[s] ELSE fds[f]]

WithoutFds(S) == [f \in DOMAIN fds \ S |-> fds[f]]

\* One FdAction: dup2 of a descriptor onto itself is skipped; EBADF and the
\* first error end the stage.
Apply ==
    /\ phase = "apply" /\ pos < Len(actions)
    /\ LET a == actions[pos + 1]
           bad == a.src \notin DOMAIN fds \/ a.dst \notin 0..MaxFd
       IN \/ /\ a.op = "dup2" /\ a.src = a.dst
             /\ pos' = pos + 1 /\ UNCHANGED <<fds, phase>>
          \/ /\ a.op = "dup2" /\ a.src # a.dst
             /\ IF bad THEN phase' = "failed" /\ UNCHANGED <<fds, pos>>
                ELSE fds' = DupOnto(a.src, a.dst) /\ pos' = pos + 1
                     /\ UNCHANGED phase
          \/ /\ a.op = "close"
             /\ IF bad THEN phase' = "failed" /\ UNCHANGED <<fds, pos>>
                ELSE fds' = WithoutFds({a.src}) /\ pos' = pos + 1
                     /\ UNCHANGED phase
    /\ UNCHANGED <<plan, cursor>>

StartClosing ==
    /\ phase = "apply" /\ pos = Len(actions)
    /\ phase' = "close"
    /\ UNCHANGED <<plan, fds, pos, cursor>>

-----------------------------------------------------------------------------
(* fd::close_other_fds.                                                    *)

\* The first element of keep that is not below the cursor: where the scan of
\* next_keep_fd breaks off.
FirstKept(c) ==
    LET hits == {i \in 1..Len(keep) : AsU32(keep[i]) >= c}
    IN IF hits = {} THEN U32Max
       ELSE AsU32(keep[CHOOSE i \in hits : \A j \in hits : i <= j])

\* Variant: extra_keep is not looked at.
NextKeepNoExtra(c) == FirstKept(c)

\* extra_keep is scanned to its end, entries below 3 are skipped.
NextKeep(c) == Min({FirstKept(c)} \cup {f \in extra : f >= 3 /\ f >= c})

\* Variants: the cursor stays on the kept descriptor, or passes over the next.
CloseStepTo(next) ==
    /\ phase = "close"
    /\ IF NextKeep(cursor) = U32Max
       THEN fds' = WithoutFds(cursor..U32Max) /\ phase' = "done"
       ELSE fds' = WithoutFds(cursor..(NextKeep(cursor) - 1)) /\ UNCHANGED phase
    /\ cursor' = IF phase' = "done" THEN cursor ELSE next
    /\ UNCHANGED <<plan, pos>>

CloseStepStays == CloseStepTo(NextKeep(cursor))
CloseStepSkips == CloseStepTo(NextKeep(cursor) + 2)

\* One turn of the loop: close_range up to the next kept descriptor.
CloseStep ==
    /\ phase = "close"
    /\ IF NextKeep(cursor) = U32Max
       THEN /\ fds' = WithoutFds(cursor..U32Max)
            /\ phase' = "done"
            /\ UNCHANGED cursor
       ELSE /\ fds' = WithoutFds(cursor..(NextKeep(cursor) - 1))
            /\ cursor' = NextKeep(cursor) + 1
            /\ UNCHANGED phase
    /\ UNCHANGED <<plan, pos>>

\* close_range(2) is refused (an old kernel, a filter): the stage ends with what
\* has been closed so far.
CloseRangeFails ==
    /\ phase = "close"
    /\ NextKeep(cursor) > cursor
    /\ phase' = "failed"
    /\ UNCHANGED <<plan, fds, pos, cursor>>

Next == Apply \/ StartClosing \/ CloseStep \/ CloseRangeFails

Spec == Init /\ [][Next]_vars /\ WF_vars(Next)

-----------------------------------------------------------------------------
(* What the stage promises.                                                *)

\* The descriptors that the plan keeps.
Kept == {0, 1, 2} \cup {keep[i] : i \in 1..Len(keep)} \cup extra

\* A descriptor that the actions so far left alone.
Untouched(f) == \A i \in 1..pos : actions[i].dst # f

\* No entry of the keep list is negative: as a u32 such a number is above every
\* descriptor, and the scan breaks off at it.
NoneNegative == \A i \in 1..Len(keep) : keep[i] >= 0

\* close_other_fds closes exactly the descriptors from 3 up that are not
\* kept: nothing else stays open, and nothing that is kept is closed (comment
\* of close_other_fds).
NothingElseOpen == phase = "done" => DOMAIN fds \subseteq Kept

\* Of the descriptors that the actions left alone, those kept are still open
\* on the same file.
KeptStayOpen ==
    phase = "done" /\ NoneNegative =>
        \A f \in Kept \cap DOMAIN open0 :
            Untouched(f) => f \in DOMAIN fds /\ fds[f] = open0[f]

\* Every mapping is honoured: its destination, if it is to be kept, denotes the
\* file its source denoted, provided no earlier action changed the source and
\* no later one the destination ([fd] map in pnut.toml.5).
SourceIntact(i) == \A j \in 1..(i - 1) : actions[j].dst # actions[i].src
LastOnto(i)     == \A j \in (i + 1)..pos : actions[j].dst # actions[i].dst
Maps(i)         == actions[i].op = "dup2" /\ actions[i].src # actions[i].dst

MappingsHonoured ==
    phase = "done" /\ NoneNegative =>
        \A i \in 1..Len(actions) :
            LET a == actions[i]
            IN Maps(i) /\ SourceIntact(i) /\ LastOnto(i) /\ a.dst \in Kept
               => a.dst \in DOMAIN fds /\ fds[a.dst] = open0[a.src]

\* The stage ends, whatever the lists hold.
Terminates == <>(phase \in {"done", "failed"})
=============================================================================
