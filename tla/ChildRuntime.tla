---------------------------- MODULE ChildRuntime ----------------------------
(***************************************************************************)
(* The child runtime: pnut_child::run takes one ChildSpec through its      *)
(* setup stages in a fixed order, and ends in execve or in _exit after a   *)
(* failure report (pnut-child/src/runtime.rs, report.rs, completion.rs).   *)
(*                                                                         *)
(* A ChildSpec is the set of the optional parts it has.  A stage whose     *)
(* part is absent is skipped.  What the kernel refuses, and what the       *)
(* installed seccomp filter does with each of the calls that follow it, is *)
(* chosen by the environment within the constants: a filter sees the       *)
(* descriptor and the length, so it may tell one write() from another.     *)
(***************************************************************************)
EXTENDS Naturals, Sequences

CONSTANTS
    Specs,         \* the ChildSpecs considered, each a set of Parts
    MayFail,       \* the stages that the kernel may refuse
    Filters,       \* the filters, each a verdict for every call of Filtered
    MayKill        \* TRUE when the child may be killed from outside

(***************************************************************************)
(* The optional parts of a ChildSpec.  "keep_admin": the capability plan   *)
(* keeps CAP_SYS_ADMIN; "hit_status", "hit_sink": an fd action names the   *)
(* status descriptor or the sink's; "clash": the sink's number is negative *)
(* or one of the control descriptors', or those two are one; the others    *)
(* are fields of the struct.                                               *)
(***************************************************************************)
Parts == {"status", "completion", "pdeathsig", "sync", "mounts", "hostname",
          "loopback", "rlimits", "landlock", "env", "caps", "keep_admin",
          "new_session", "hit_status", "hit_sink", "clash", "close_fds",
          "disable_tsc", "no_new_privs", "mdwe", "seccomp", "cwd"}

\* The calls of the child that its own filter answers: the completion record,
\* the close of the sink after it, and the failure record.
Filtered == {"emit", "close", "report"}
Verdicts == {"allow", "errno", "kill"}
Unfiltered == [c \in Filtered |-> "allow"]

\* Variant of the order below: capabilities are dropped first of all.
OrderCapsFirst ==
    <<"ParentDeathSignal", "ParentCheck", "SyncWait", "Capabilities",
      "Dumpable", "Mount", "Hostname", "Network", "Rlimit", "Landlock", "Env",
      "Setsid", "FdActions", "FdClosure", "Tsc", "NoNewPrivs", "Mdwe",
      "Seccomp", "Cwd", "Completion", "Exec">>

\* The stages in the order in which run() executes them.
Order == <<"ParentDeathSignal", "ParentCheck", "SyncWait", "Dumpable", "Mount",
           "Hostname", "Network", "Rlimit", "Landlock", "Env", "Capabilities",
           "Setsid", "FdActions", "FdClosure", "Tsc", "NoNewPrivs", "Mdwe",
           "Seccomp", "Cwd", "Completion", "Exec">>

Stages == {Order[i] : i \in 1..Len(Order)}

ASSUME SpecsAssumption ==
    /\ Specs \subseteq SUBSET Parts
    /\ MayFail \subseteq Stages
    /\ Filters \subseteq [Filtered -> Verdicts] /\ Filters # {}
    /\ MayKill \in BOOLEAN

\* The part that a stage needs; Dumpable, FdActions and Exec always run.
Needs == [s \in Stages |->
    CASE s \in {"ParentDeathSignal", "ParentCheck"} -> "pdeathsig"
      [] s = "SyncWait"     -> "sync"
      [] s = "Mount"        -> "mounts"
      [] s = "Hostname"     -> "hostname"
      [] s = "Network"      -> "loopback"
      [] s = "Rlimit"       -> "rlimits"
      [] s = "Landlock"     -> "landlock"
      [] s = "Env"          -> "env"
      [] s = "Capabilities" -> "caps"
      [] s = "Setsid"       -> "new_session"
      [] s = "FdClosure"    -> "close_fds"
      [] s = "Tsc"          -> "disable_tsc"
      [] s = "NoNewPrivs"   -> "no_new_privs"
      [] s = "Mdwe"         -> "mdwe"
      [] s = "Seccomp"      -> "seccomp"
      [] s = "Cwd"          -> "cwd"
      [] s = "Completion"   -> "completion"
      [] OTHER              -> "always"]

Has(spec, s) == Needs[s] \in spec \cup {"always"}

\* The setup primitives of COMPLETE_STAGE_MASK, and the parts they need.
Required == {"Mount", "Rlimit", "Capabilities", "FdClosure", "NoNewPrivs",
             "Seccomp"}

VARIABLES
    spec,      \* the ChildSpec
    at,        \* index in Order of the stage to run next; 0 before preflight
    done,      \* the stages that ran and succeeded
    bits,      \* completed_stages
    filter,    \* what the installed filter does with each call of Filtered
    statusFd,  \* the status descriptor is still the status pipe
    evidence,  \* the completion record is in its pipe
    record,    \* the stage in the status pipe's ChildFailure, or "none"
    state      \* "setup", "failed" (_exit), "killed" or "command"

vars == <<spec, at, done, bits, filter, statusFd, evidence, record, state>>

TypeOK ==
    /\ spec \in Specs
    /\ at \in 0..Len(Order)
    /\ done \subseteq Stages
    /\ bits \subseteq Required
    /\ filter \in Filters \cup {Unfiltered}
    /\ statusFd \in BOOLEAN
    /\ evidence \in BOOLEAN
    /\ record \in Stages \cup {"none"}
    /\ state \in {"setup", "failed", "killed", "command"}

Init ==
    /\ spec \in Specs
    /\ at = 0
    /\ done = {}
    /\ bits = {}
    /\ filter = Unfiltered
    /\ statusFd = ("status" \in spec)
    /\ evidence = FALSE
    /\ record = "none"
    /\ state = "setup"

-----------------------------------------------------------------------------
(* Reports.                                                                *)

\* The status pipe takes the failure record as far as the filter goes.
WriteAllowed == filter["report"] = "allow"

\* Variant: the exit code is trusted to tell the story.
ReportExitOnly(s) ==
    /\ state' = "failed"
    /\ UNCHANGED record

\* Reporter::report_* then exit_immediately: the record goes to the status
\* descriptor; a filter that kills on this write ends the child there and then.
Report(s) ==
    /\ record' = IF WriteAllowed /\ statusFd THEN s ELSE record
    /\ state' = IF filter["report"] = "kill" THEN "killed" ELSE "failed"

-----------------------------------------------------------------------------
(* The preflight check of the completion sink.                             *)

\* Variant: the fd actions are not looked at.
CompletionIsValidNoFds ==
    "completion" \in spec =>
        {"status", "mounts", "rlimits", "caps", "close_fds", "no_new_privs",
         "seccomp"} \subseteq spec

CompletionIsValid ==
    "completion" \in spec =>
        /\ {"status", "mounts", "rlimits", "caps", "close_fds", "no_new_privs",
            "seccomp"} \subseteq spec
        /\ {"hit_status", "hit_sink", "clash"} \cap spec = {}

Preflight ==
    /\ state = "setup" /\ at = 0
    /\ IF CompletionIsValid
       THEN at' = 1 /\ UNCHANGED <<record, state>>
       ELSE Report("Completion") /\ UNCHANGED at
    /\ UNCHANGED <<spec, done, bits, filter, statusFd, evidence>>

-----------------------------------------------------------------------------
(* The stages.                                                             *)

Now(s) == state = "setup" /\ at > 0 /\ Order[at] = s

\* CAP_SYS_ADMIN over the user namespace: lost when capabilities are dropped.
Admin == "Capabilities" \notin done \/ "keep_admin" \in spec

\* What the kernel asks of a stage, whatever else may make it fail.
KernelAllows(s) ==
    CASE s \in {"Mount", "Hostname", "Network"} -> Admin
      [] s \in {"Landlock", "Seccomp"} -> Admin \/ "NoNewPrivs" \in done
      [] OTHER -> TRUE

Skip ==
    /\ state = "setup" /\ at > 0
    /\ ~Has(spec, Order[at])
    /\ at' = at + 1
    /\ UNCHANGED <<spec, done, bits, filter, statusFd, evidence, record, state>>

Succeed(s) ==
    /\ done' = done \cup {s}
    /\ bits' = IF s \in Required THEN bits \cup {s} ELSE bits
    /\ at' = at + 1

\* A stage without an effect of its own on the state kept here.
PlainStage(s) ==
    /\ Now(s) /\ Has(spec, s) /\ KernelAllows(s)
    /\ Succeed(s)
    /\ UNCHANGED <<spec, filter, statusFd, evidence, record, state>>

Plain == Stages \ {"FdActions", "Seccomp", "Completion", "Exec"}

\* fd::apply_actions: an action that names the status descriptor replaces or
\* closes it.
FdActions ==
    /\ Now("FdActions")
    /\ Succeed("FdActions")
    /\ statusFd' = (statusFd /\ "hit_status" \notin spec)
    /\ UNCHANGED <<spec, filter, evidence, record, state>>

\* install_seccomp: from here on every syscall of the child is filtered.
Seccomp ==
    /\ Now("Seccomp") /\ Has(spec, "Seccomp") /\ KernelAllows("Seccomp")
    /\ Succeed("Seccomp")
    /\ filter' \in Filters
    /\ UNCHANGED <<spec, statusFd, evidence, record, state>>

\* How a call of emit() may end: as the filter says, or refused by the kernel.
Ends(call) ==
    {filter[call]} \cup {v \in {"errno"} : filter[call] = "allow" /\ "Completion" \in MayFail}

\* completion::emit: the record, then close() of its descriptor.
Emit(wrote, closed) ==
    /\ evidence' = (wrote = "allow")
    /\ IF wrote = "allow" /\ closed = "allow"
       THEN Succeed("Completion") /\ UNCHANGED <<record, state>>
       ELSE /\ IF wrote = "kill" \/ (wrote = "allow" /\ closed = "kill")
               THEN state' = "killed" /\ UNCHANGED record
               ELSE Report("Completion")
            /\ UNCHANGED <<done, bits, at>>

\* completed_stages != COMPLETE_STAGE_MASK is a failure of its own.
Completion ==
    /\ Now("Completion") /\ Has(spec, "Completion")
    /\ IF bits = Required
       THEN \E wrote \in Ends("emit"), closed \in Ends("close") : Emit(wrote, closed)
       ELSE Report("Completion") /\ UNCHANGED <<evidence, done, bits, at>>
    /\ UNCHANGED <<spec, filter, statusFd>>

\* execve: the status descriptor closes and the command takes over.
Exec ==
    /\ Now("Exec")
    /\ done' = done \cup {"Exec"}
    /\ state' = "command"
    /\ UNCHANGED <<spec, at, bits, filter, statusFd, evidence, record>>

\* Variant: a refused rlimit is tolerated, and its bit is set.
FailOpen(s) ==
    /\ Now(s) /\ Has(spec, s)
    /\ s \in MayFail \/ ~KernelAllows(s)
    /\ IF s = "Rlimit"
       THEN /\ at' = at + 1
            /\ bits' = bits \cup {s}
            /\ UNCHANGED <<record, state>>
       ELSE Report(s) /\ UNCHANGED <<at, bits>>
    /\ UNCHANGED <<spec, done, filter, statusFd, evidence>>

\* Any stage may be refused by the kernel: report and exit.
Fail(s) ==
    /\ Now(s) /\ Has(spec, s)
    /\ s \in MayFail \/ ~KernelAllows(s)
    /\ Report(s)
    /\ UNCHANGED <<spec, at, done, bits, filter, statusFd, evidence>>

Killed ==
    /\ MayKill /\ state = "setup"
    /\ state' = "killed"
    /\ UNCHANGED <<spec, at, done, bits, filter, statusFd, evidence, record>>

Next ==
    \/ Preflight \/ Skip \/ FdActions \/ Seccomp \/ Completion \/ Exec \/ Killed
    \/ \E s \in Plain : PlainStage(s)
    \/ \E s \in Stages \ {"Completion"} : Fail(s)

Spec == Init /\ [][Next]_vars

-----------------------------------------------------------------------------
(* What the runtime promises.                                              *)

\* A partially configured sandbox is never inhabited (PRINCIPLES.md 6): when
\* the command runs, every stage its spec asks for has succeeded.
NeverPartlyInhabited ==
    state = "command" => \A s \in Stages : Has(spec, s) => s \in done

\* Completion evidence is true: each primitive of COMPLETE_STAGE_MASK was
\* asked for and succeeded, the filter included (completion.rs, runtime.rs).
EvidenceIsSound == evidence => Required \subseteq done

\* What the consumer of completion.rs accepts: the record, a status pipe that
\* is closed, and no ChildFailure in it.
Accepted == evidence /\ state # "setup" /\ record = "none"

\* What a consumer accepts is a confined command, or a confined child that a
\* signal took at the exec boundary.  One kind of failed child is accepted too,
\* against completion.rs:3-5, for which the clean close of the status pipe tells
\* that execve succeeded: a child that is as confined, failed after its
\* evidence, and whose own filter answers the failure record with an errno.
AcceptedIsConfined ==
    Accepted => /\ Required \subseteq done
                /\ state = "failed" => filter["report"] = "errno"

\* On failure the child writes a ChildFailure to its status descriptor
\* (ARCHITECTURE.md, child sequence, step 20).
FailureIsReported == "status" \in spec /\ state = "failed" => record # "none"

\* A child with a completion sink reports its failure unless the filter it has
\* just installed refuses this one write: the preflight check has made sure that
\* no fd action takes the status pipe (runtime.rs, completion_is_valid).
SinkFailureIsReported ==
    "completion" \in spec /\ WriteAllowed => FailureIsReported

\* No stage needs a privilege that an earlier stage gave up, for every spec
\* without contradictions: setup only fails when the kernel refuses something
\* of its own accord (the order of the stages in runtime.rs run).
Consistent ==
    /\ CompletionIsValid
    /\ "seccomp" \in spec => {"no_new_privs", "keep_admin"} \cap spec # {}
                             \/ "caps" \notin spec
NoPrivilegeMissing ==
    state = "setup" /\ at > 0 /\ Consistent /\ Has(spec, Order[at])
        => KernelAllows(Order[at])

=============================================================================
