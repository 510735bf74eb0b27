--------------------------- MODULE MCConfinement ---------------------------
(* Instances of Confinement for TLC: five families of configurations, each   *)
(* of which varies what the others hold fixed.                               *)
EXTENDS Confinement

NoLists == [l \in FsLists \cup NetLists |-> {}]

Plain == [mode |-> "once", command |-> TRUE, uidMap |-> TRUE, gidMap |-> TRUE,
          insideRoot |-> TRUE, insideIsOutside |-> FALSE,
          namespaces |-> Kinds \ {"time"}, hostname |-> FALSE, mounts |-> FALSE,
          srcMissing |-> FALSE, dstTwice |-> FALSE, policyCompiles |-> TRUE,
          sections |-> {}, landlock |-> NoLists, keep |-> {}, rlimits |-> <<>>,
          new_session |-> TRUE, no_new_privs |-> TRUE]

\* What is validated, in both modes.
NamespaceSets == {Kinds, Kinds \ {"pid"}, Kinds \ {"uts"}, Kinds \ {"pid", "mount", "net"},
                  Kinds \ {"user", "pid"}}
Validated ==
    {[Plain EXCEPT !.mode = m, !.namespaces = n, !.hostname = h, !.mounts = mt,
                   !.insideIsOutside = same, !.new_session = s] :
        m \in {"once", "execve"}, n \in NamespaceSets, h \in BOOLEAN, mt \in BOOLEAN,
        same \in BOOLEAN, s \in BOOLEAN} \cup
    {[Plain EXCEPT !.command = b[1], !.uidMap = b[2], !.gidMap = b[3], !.srcMissing = b[4],
                   !.dstTwice = b[5], !.policyCompiles = b[6]] :
        b \in [1..6 -> BOOLEAN]}

\* A directory with a file in it, and another directory.
A == <<"a">>
F == <<"a", "f">>
B == <<"b">>
FileList == {F}

Landlocks ==
    [allowed_read : {{}, {A}, {F}}, allowed_write : {{}, {B}}, allowed_execute : {{}, {A}},
     allowed_refer : {{}, {A}}, allowed_truncate : {{}, {A}, {F}},
     allowed_ioctl_dev : {{}, {B}}, allowed_bind : {{}, {1}}, allowed_connect : {{}, {2}}]
Landlocked == {[Plain EXCEPT !.sections = {"landlock"}, !.landlock = l] : l \in Landlocks}

\* CAP_SETGID, CAP_SETPCAP, CAP_PERFMON; 41 is not assigned yet.
SomeCaps == {6, 8, 38}
Capable ==
    {[Plain EXCEPT !.sections = s, !.keep = k, !.insideRoot = r, !.no_new_privs = n] :
        s \in {{}, {"capabilities"}}, k \in SUBSET SomeCaps, r \in BOOLEAN, n \in BOOLEAN}

\* With one "MiB" of 4 bytes and a largest number of 15.
Limited ==
    {[Plain EXCEPT !.rlimits = [nofile |-> v, as_mb |-> w]] : v \in {0, 3, 15}, w \in {0, 3, 4, 15}}

\* A limit on descriptors together with rules that need them.
FewDescriptors ==
    {[Plain EXCEPT !.sections = {"landlock"}, !.rlimits = [nofile |-> v],
                   !.landlock = [NoLists EXCEPT !.allowed_read = paths, !.allowed_bind = ports]] :
        v \in {0, 3, 4, 5, 9}, paths \in {{}, {A}}, ports \in {{}, {1}}}

MCConfigs == Validated \cup Landlocked \cup Capable \cup Limited \cup FewDescriptors

Kernel(abi, caps, hard, timeOnExec, free) ==
    [abi |-> abi, caps |-> caps, timeOnExec |-> timeOnExec, free |-> free,
     hard |-> [nofile |-> hard, as_mb |-> 15]]
MCKernels ==
    {Kernel(abi, SomeCaps, 15, FALSE, <<3, 4>>) : abi \in 0..5} \cup
    {Kernel(5, SomeCaps \ {38}, 8, TRUE, <<3, 8>>),
     Kernel(5, SomeCaps \cup {41}, 15, TRUE, <<4, 7>>)}
=============================================================================
