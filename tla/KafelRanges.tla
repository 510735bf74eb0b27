---------------------------- MODULE KafelRanges ----------------------------
(***************************************************************************)
(* Range normalization of the kafel compiler                               *)
(* (kafel/src/codegen/ranges.rs): from the flat list of rules of a         *)
(* resolved policy to ranges of system call numbers that leave no gap.     *)
(*                                                                         *)
(* A rule is a record of nr, action and filter.  A filter is anything but  *)
(* NoFilter: this module never looks into one.                             *)
(***************************************************************************)
EXTENDS Integers, Sequences, SequencesExt

CONSTANTS
    MaxSyscallNr,    \* MAX_SYSCALL_NR, the highest number the ranges cover
    NoFilter         \* the filter of an unconditional rule

ASSUME MaxSyscallNrIsNat == MaxSyscallNr \in Nat

IsUnconditional(rule) == rule.filter = NoFilter
IsConditional(rule)   == rule.filter # NoFilter

(***************************************************************************)
(* A range has `mappings`, the rules to try in order, and `action`, what   *)
(* happens when none applies.  RangeAction::Unconditional is the range     *)
(* without mappings.                                                       *)
(***************************************************************************)
DefaultRange(first, last, default) ==
    [first |-> first, last |-> last, action |-> default, mappings |-> <<>>]

SameUnconditionalAction(a, b) ==
    a.mappings = <<>> /\ b.mappings = <<>> /\ a.action = b.action

PushRange(ranges, range) ==
    IF /\ ranges # <<>>
       /\ Last(ranges).last + 1 = range.first
       /\ SameUnconditionalAction(Last(ranges), range)
    THEN [ranges EXCEPT ![Len(ranges)].last = range.last]
    ELSE Append(ranges, range)

(***************************************************************************)
(* group_syscalls and to_range: the rules of one number.  The first        *)
(* unconditional rule counts, and only when no conditional one applies,    *)
(* wherever it stands in the policy.                                       *)
(***************************************************************************)
\* Variant: the last unconditional rule wins.
ToRangeLastWins(nr, rules, default) ==
    LET mine  == SelectSeq(rules, LAMBDA r : r.nr = nr)
        plain == SelectSeq(mine, IsUnconditional)
    IN [first    |-> nr, last |-> nr,
        action   |-> IF plain = <<>> THEN default ELSE Last(plain).action,
        mappings |-> SelectSeq(mine, IsConditional)]

ToRange(nr, rules, default) ==
    LET mine  == SelectSeq(rules, LAMBDA r : r.nr = nr)
        plain == SelectSeq(mine, IsUnconditional)
    IN [first    |-> nr, last |-> nr,
        action   |-> IF plain = <<>> THEN default ELSE Head(plain).action,
        mappings |-> SelectSeq(mine, IsConditional)]

\* The keys of a BTreeMap as it is iterated: the i-th has i - 1 smaller ones.
Numbers(rules) == {rules[i].nr : i \in DOMAIN rules}
Smaller(S, x)  == {y \in S : y < x}
Ascending(S) ==
    [i \in 1..Cardinality(S) |-> CHOOSE x \in S : Cardinality(Smaller(S, x)) = i - 1]

GroupSyscalls(rules, default) ==
    LET keys == Ascending(Numbers(rules))
    IN  [i \in DOMAIN keys |-> ToRange(keys[i], rules, default)]

\* What is merged after n ranges.
Merged(ranges) ==
    LET merged[n \in 0..Len(ranges)] ==
            IF n = 0 THEN <<>> ELSE PushRange(merged[n - 1], ranges[n])
    IN  merged

MergeAdjacentUnconditional(ranges) == Merged(ranges)[Len(ranges)]

(***************************************************************************)
(* fill_gaps: `filled` grows range by range, `next` is next_syscall.       *)
(***************************************************************************)
FillGap(acc, range, default) ==
    LET filled == IF acc.next < range.first
                  THEN PushRange(acc.filled, DefaultRange(acc.next, range.first - 1, default))
                  ELSE acc.filled
    IN [next |-> range.last + 1, filled |-> PushRange(filled, range)]

\* Both after n of the merged ranges.
Filling(merged, default) ==
    LET acc[n \in 0..Len(merged)] ==
            IF n = 0 THEN [next |-> 0, filled |-> <<>>]
            ELSE FillGap(acc[n - 1], merged[n], default)
    IN  acc

FillGaps(merged, default) ==
    LET acc == Filling(merged, default)[Len(merged)]
    IN IF acc.next <= MaxSyscallNr
       THEN PushRange(acc.filled, DefaultRange(acc.next, MaxSyscallNr, default))
       ELSE acc.filled

NormalizeRanges(rules, default) ==
    IF rules = <<>>
    THEN << DefaultRange(0, MaxSyscallNr, default) >>
    ELSE FillGaps(MergeAdjacentUnconditional(GroupSyscalls(rules, default)),
                  default)

=============================================================================
