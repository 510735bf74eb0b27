--------------------------- MODULE ConfinementPlan ---------------------------
(***************************************************************************)
(* What a configuration asks of the kernel: the validation of              *)
(* Sandbox::try_from (pnut/src/sandbox.rs), the plans that Prepare makes   *)
(* of the [landlock], [capabilities] and [rlimits] sections                *)
(* (pnut/src/sandbox/prepare.rs), and what the kernel does with them.      *)
(* Access rights, capabilities and namespaces are sets, not masks.         *)
(***************************************************************************)
EXTENDS Integers, Sequences

CONSTANTS
    CrateCaps,   \* caps::all(): the numbers of the capabilities pnut was built to know
    MIB,         \* the bytes of one MiB
    MaxU64       \* u64::MAX, which is also RLIM_INFINITY

ASSUME LimitsAssumption == MIB \in Nat /\ MaxU64 \in Nat
ASSUME CapsAssumption == CrateCaps \subseteq 0..63

-----------------------------------------------------------------------------
(* sandbox.rs: the validation of a configuration c.                        *)

\* Variant: a hostname is taken without a UTS namespace.
ValidButForHostname(c) ==
    /\ c.command /\ c.uidMap /\ c.gidMap
    /\ c.mounts => "mount" \in c.namespaces
    /\ c.mode = "execve" => "pid" \notin c.namespaces
    /\ ~c.srcMissing /\ ~c.dstTwice /\ c.policyCompiles

Valid(c) ==
    /\ c.command /\ c.uidMap /\ c.gidMap
    /\ c.hostname => "uts" \in c.namespaces
    /\ c.mounts => "mount" \in c.namespaces
    /\ c.mode = "execve" => "pid" \notin c.namespaces
    /\ ~c.srcMissing /\ ~c.dstTwice /\ c.policyCompiles

-----------------------------------------------------------------------------
(* [landlock]: c maps each of the eight lists to a set of paths or ports.   *)

\* AccessFs::from_all(ABI::V1), with "Make" for all that make and remove.
V1Rights == {"ReadFile", "ReadDir", "Execute", "WriteFile", "Make"}
FsRights == V1Rights \cup {"Refer", "Truncate", "IoctlDev"}

\* The rights a rule made of each list allows.
FsAccess == [
    allowed_read      |-> {"ReadFile", "ReadDir"},
    allowed_write     |-> V1Rights \ {"Execute"},
    allowed_execute   |-> {"Execute", "ReadFile", "ReadDir"},
    allowed_refer     |-> {"Refer"},
    allowed_truncate  |-> {"Truncate"},
    allowed_ioctl_dev |-> {"IoctlDev"}]

NetAccess == [allowed_bind |-> "BindTcp", allowed_connect |-> "ConnectTcp"]

FsLists  == DOMAIN FsAccess
NetLists == DOMAIN NetAccess

\* Variant: the tests in the order of the versions.
compute_landlock_abi_ascending(c) ==
    IF c.allowed_refer # {} THEN 2
    ELSE IF c.allowed_truncate # {} THEN 3
    ELSE IF c.allowed_bind # {} \/ c.allowed_connect # {} THEN 4
    ELSE IF c.allowed_ioctl_dev # {} THEN 5
    ELSE 1

compute_landlock_abi(c) ==
    IF c.allowed_ioctl_dev # {} THEN 5
    ELSE IF c.allowed_bind # {} \/ c.allowed_connect # {} THEN 4
    ELSE IF c.allowed_truncate # {} THEN 3
    ELSE IF c.allowed_refer # {} THEN 2
    ELSE 1

compute_handled_access_fs(abi) ==
    V1Rights \cup (IF abi >= 2 THEN {"Refer"} ELSE {})
             \cup (IF abi >= 3 THEN {"Truncate"} ELSE {})
             \cup (IF abi >= 5 THEN {"IoctlDev"} ELSE {})

\* Variant: both kinds of port are handled as soon as one is listed.
HandledNetOfAnyList(c) ==
    IF \E l \in NetLists : c[l] # {} THEN {NetAccess[l] : l \in NetLists} ELSE {}

HandledNet(c) == {NetAccess[l] : l \in {k \in NetLists : c[k] # {}}}

LandlockPlan(c) ==
    [min_abi   |-> compute_landlock_abi(c),
     fs        |-> compute_handled_access_fs(compute_landlock_abi(c)),
     net       |-> HandledNet(c),
     pathRules |-> UNION {{[path |-> p, access |-> FsAccess[l]] : p \in c[l]} : l \in FsLists},
     netRules  |-> UNION {{[port |-> p, access |-> NetAccess[l]] : p \in c[l]} : l \in NetLists}]

\* The kernel's side.  Rights that a file can have; a rule for a file may
\* hold no other, and a rule may hold no right that the ruleset does not handle.
FileRights == {"ReadFile", "Execute", "WriteFile", "Truncate", "IoctlDev"}

AcceptsRule(plan, rule, isFile) ==
    /\ rule.access \subseteq plan.fs
    /\ isFile => rule.access \subseteq FileRights

IsBeneath(p, q) == Len(q) <= Len(p) /\ SubSeq(p, 1, Len(q)) = q

\* What a process under the ruleset may do.  Refer is refused by every
\* ruleset that does not allow it, handled or not.
MayAccess(plan, right, p) ==
    right \in plan.fs \cup {"Refer"} =>
        \E rule \in plan.pathRules : right \in rule.access /\ IsBeneath(p, rule.path)

MayUsePort(plan, right, port) ==
    right \in plan.net => [port |-> port, access |-> right] \in plan.netRules

-----------------------------------------------------------------------------
(* [capabilities]                                                          *)

\* The bit of capability nr: of two words of 32 bits, the second is for nr > 31.
\* Variant: every bit goes to the first word.
BitInFirstWord(nr) == nr % 32

Bit(nr) == (IF nr > 31 THEN 32 ELSE 0) + (nr % 32)

CapsPlan(keep) ==
    [kept |-> {Bit(nr) : nr \in keep}, bounding_drop |-> CrateCaps \ keep]

\* CAP_SETPCAP
SetPCap == 8

\* The permitted set after execve of a file with capabilities fileCaps in
\* both of its sets; for root, every file has them all.
PermittedAfterExec(cred, fileCaps, noNewPrivs) ==
    LET gained == (fileCaps \cap cred.bounding) \cup (fileCaps \cap cred.inheritable)
    IN  IF noNewPrivs THEN gained \cap cred.permitted ELSE gained

-----------------------------------------------------------------------------
(* [rlimits]: a function from the configured resources to their values.     *)

InMegabytes == {"fsize_mb", "stack_mb", "as_mb", "core_mb"}

\* Variant: the product wraps around.
LimitOfWrapping(resource, v) ==
    IF resource \in InMegabytes THEN (v * MIB) % (MaxU64 + 1) ELSE v

\* saturating_mul
LimitOf(resource, v) ==
    IF resource \notin InMegabytes THEN v
    ELSE IF v * MIB > MaxU64 THEN MaxU64 ELSE v * MIB

=============================================================================
