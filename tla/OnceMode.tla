------------------------------ MODULE OnceMode ------------------------------
(***************************************************************************)
(* Once mode: `Sandbox::run` as it is executed by the threads of one host  *)
(* process (pnut/src/sandbox/parent.rs), together with the child that each *)
(* call clones (pnut-child/src/runtime.rs, its stages grouped).            *)
(*                                                                         *)
(* One element of Runs is one call: the host thread that made it and the   *)
(* child of that call.  The threads share the descriptor table of the      *)
(* host, so a child inherits the pipe ends of every other call that is in  *)
(* flight when it is cloned.  Blocking reads are guards: read() returns    *)
(* when there is data or when no process holds the write end.              *)
(*                                                                         *)
(* Signals are the subject of SignalSupervision; the single stages of the  *)
(* child are the subject of ChildRuntime.                                  *)
(***************************************************************************)
EXTENDS Naturals

CONSTANTS
    Runs,            \* the calls of Sandbox::run in flight in one host process
    CloseFds,        \* the runs whose descriptor policy has close_fds = true
    DieWithParent,   \* the runs with [process] die_with_parent = true
    PidNs,           \* the runs with [namespaces] pid = true
    SetupMayFail,    \* the runs for which the kernel may refuse a setup step
    MapsMayFail,     \* the runs for which it may refuse an ID map write
    ArmMayFail,      \* the runs for which an outer filter may refuse PR_SET_PDEATHSIG
    SuperviseMayFail,\* the runs for which signalfd() or poll() may fail
    MayInterrupt,    \* the runs whose blocking waitpid() a host handler may interrupt
    MayKill,         \* the runs whose child may be killed, its own filter included
    FdsHitStatus,    \* the runs with an [fd] mapping onto the number of their status pipe
    FilterRefuses,   \* the runs whose seccomp filter answers the status write with an errno
    HostMayDie,      \* TRUE when the host process may be killed
    HostIsInit,      \* TRUE when the host process is PID 1 of its namespace
    InitReaps        \* TRUE when orphans of the host are reparented to PID 1

ASSUME RunSets ==
    /\ CloseFds \subseteq Runs /\ DieWithParent \subseteq Runs
    /\ PidNs \subseteq Runs /\ SetupMayFail \subseteq Runs
    /\ MapsMayFail \subseteq Runs /\ SuperviseMayFail \subseteq Runs
    /\ MayInterrupt \subseteq Runs /\ MayKill \subseteq Runs
    /\ ArmMayFail \subseteq Runs /\ FdsHitStatus \subseteq Runs
    /\ FilterRefuses \subseteq Runs

ASSUME HostFlags ==
    HostMayDie \in BOOLEAN /\ HostIsInit \in BOOLEAN /\ InitReaps \in BOOLEAN

VARIABLES
    hostAlive,   \* the host process is running
    ppc,         \* where each thread is in run_once_mode / run_parent_setup
    result,      \* what each call returned
    hostFds,     \* pipe ends in the host's descriptor table
    maps,        \* ID map files written for each child: setgroups, uid_map, gid_map
    syncByte,    \* the sync pipe holds the parent's byte
    record,      \* the ChildFailure stage in the status pipe
    cpc,         \* where each child is in pnut_child::run
    armed,       \* PR_SET_PDEATHSIG(SIGKILL) is in force
    stage,       \* the stage at which the child failed
    childFds,    \* pipe ends in each child's descriptor table
    exit,        \* how each child ended
    inhabited    \* history: the runs whose execve succeeded

hostVars  == <<hostAlive, ppc, result, hostFds>>
childVars == <<cpc, armed, stage, childFds, exit, inhabited>>
vars == <<hostAlive, ppc, result, hostFds, maps, syncByte, record,
          cpc, armed, stage, childFds, exit, inhabited>>

-----------------------------------------------------------------------------
(* Pipe ends.                                                              *)

SyncR(r)   == <<r, "sync_r">>
SyncW(r)   == <<r, "sync_w">>
StatusR(r) == <<r, "status_r">>
StatusW(r) == <<r, "status_w">>

EndNames   == {"sync_r", "sync_w", "status_r", "status_w"}
PipeEnds   == Runs \X EndNames

\* The status pipe is created O_CLOEXEC, the sync pipe is not.
CloexecEnds == Runs \X {"status_r", "status_w"}

\* Some process holds the end e: a reader of it sees no EOF, a writer no EPIPE.
Open(e) == e \in hostFds \/ \E c \in Runs : e \in childFds[c]

-----------------------------------------------------------------------------
(* Control states, outcomes and failure stages.                            *)

ParentPcs == {"prepare", "sync_pipe", "status_pipe", "clone", "drop_sync_r",
              "drop_status_w", "maps", "maps_failed", "await_failed",
              "sync_write", "drop_sync_w", "supervise", "decode", "return",
              "done"}

ChildPcs == {"none", "fresh", "pdeathsig", "ppid", "sync_wait", "setup",
             "fds", "confine", "exec", "failing", "command", "zombie",
             "reaped"}

\* Control states of a child that has passed the sync wait and not yet failed.
Released == {"setup", "fds", "confine", "exec", "command"}

\* Control states of a child that the host may find in its process table.
Running == ChildPcs \ {"none", "zombie", "reaped"}
Gone    == {"zombie", "reaped"}

Stages == {"ParentDeathSignal", "ParentCheck", "SyncWait", "Setup", "Fd",
           "Confine", "Cwd", "Exec"}

\* The stages whose failure is met after the [fd] mappings, and after the
\* filter is installed.
AfterMappings == {"Fd", "Confine", "Cwd", "Exec"}
UnderFilter   == {"Cwd", "Exec"}

Failures == {"err_early", "err_clone", "err_idmap", "err_sync", "err_supervise"}
Results  == {"none", "ok", "child_setup"} \cup Failures

\* "exited": the command's own exit; "failed": _exit(126 or 127) of the setup.
Exits == {"none", "failed", "killed", "exited"}

TypeOK ==
    /\ hostAlive \in BOOLEAN
    /\ ppc \in [Runs -> ParentPcs]
    /\ result \in [Runs -> Results]
    /\ hostFds \subseteq PipeEnds
    /\ maps \in [Runs -> 0..3]
    /\ syncByte \in [Runs -> BOOLEAN]
    /\ record \in [Runs -> Stages \cup {"none"}]
    /\ cpc \in [Runs -> ChildPcs]
    /\ armed \in [Runs -> BOOLEAN]
    /\ stage \in [Runs -> Stages \cup {"none"}]
    /\ childFds \in [Runs -> SUBSET PipeEnds]
    /\ exit \in [Runs -> Exits]
    /\ inhabited \subseteq Runs

Init ==
    /\ hostAlive = TRUE
    /\ ppc = [r \in Runs |-> "prepare"]
    /\ result = [r \in Runs |-> "none"]
    /\ hostFds = {}
    /\ maps = [r \in Runs |-> 0]
    /\ syncByte = [r \in Runs |-> FALSE]
    /\ record = [r \in Runs |-> "none"]
    /\ cpc = [r \in Runs |-> "none"]
    /\ armed = [r \in Runs |-> FALSE]
    /\ stage = [r \in Runs |-> "none"]
    /\ childFds = [r \in Runs |-> {}]
    /\ exit = [r \in Runs |-> "none"]
    /\ inhabited = {}

-----------------------------------------------------------------------------
(* Steps of a thread and of a child.                                       *)

At(r, pc)    == hostAlive /\ ppc[r] = pc
GoTo(r, pc)  == ppc' = [ppc EXCEPT ![r] = pc]

\* An early `?`: the owned descriptors of this call are dropped with its frame.
ReturnEarly(r, why) ==
    /\ result' = [result EXCEPT ![r] = why]
    /\ hostFds' = hostFds \ ({r} \X EndNames)
    /\ GoTo(r, "done")

DropEnd(r, from, e, to) ==
    /\ At(r, from)
    /\ hostFds' = hostFds \ {e}
    /\ GoTo(r, to)
    /\ UNCHANGED <<hostAlive, result, maps, syncByte, record, childVars>>

ChildAt(r, pc)   == cpc[r] = pc
ChildGoTo(r, pc) == cpc' = [cpc EXCEPT ![r] = pc]

ChildFails(r, at) ==
    /\ stage' = [stage EXCEPT ![r] = at]
    /\ ChildGoTo(r, "failing")

Dies(r, how) ==
    /\ exit' = [exit EXCEPT ![r] = how]
    /\ childFds' = [childFds EXCEPT ![r] = {}]
    /\ ChildGoTo(r, "zombie")

-----------------------------------------------------------------------------
(* Defective variants of the actions below, each a slip that the code could *)
(* contain.  No specification uses them: they show that the properties      *)
(* notice.                                                                  *)

\* The sync read takes EOF for the byte.
SyncWaitTakesEof(r) ==
    /\ ChildAt(r, "sync_wait")
    /\ syncByte[r] \/ ~Open(SyncW(r))
    /\ syncByte' = [syncByte EXCEPT ![r] = FALSE]
    /\ childFds' = [childFds EXCEPT ![r] = @ \ {SyncR(r)}]
    /\ ChildGoTo(r, "setup")
    /\ UNCHANGED <<hostVars, maps, record, armed, stage, exit, inhabited>>

\* The status descriptor is not among those that close_other_fds keeps.
CloseOtherFdsAndStatus(r) ==
    /\ ChildAt(r, "fds")
    /\ childFds' = [childFds EXCEPT ![r] = {}]
    /\ ChildGoTo(r, "confine")
    /\ UNCHANGED <<hostVars, maps, syncByte, record, armed, stage, exit,
                   inhabited>>

\* The sync pipe is closed by a guard that also writes the byte.
DropSyncReleases(r) ==
    /\ At(r, "maps_failed")
    /\ syncByte' = [syncByte EXCEPT ![r] = TRUE]
    /\ hostFds' = hostFds \ {SyncW(r)}
    /\ GoTo(r, "await_failed")
    /\ UNCHANGED <<hostAlive, result, maps, record, childVars>>

\* The exit status is preferred to the record.
DecodeExitOnly(r) ==
    /\ At(r, "decode")
    /\ result' = [result EXCEPT ![r] = "ok"]
    /\ GoTo(r, "return")
    /\ UNCHANGED <<hostAlive, hostFds, maps, syncByte, record, childVars>>

\* The parent is not checked after the death signal is armed.
CheckNothing(r) ==
    /\ ChildAt(r, "ppid")
    /\ ChildGoTo(r, "sync_wait")
    /\ UNCHANGED <<hostVars, maps, syncByte, record, armed, stage, childFds,
                   exit, inhabited>>

\* The failed child is not waited for.
AwaitNothing(r) ==
    /\ At(r, "await_failed")
    /\ result' = [result EXCEPT ![r] = "err_idmap"]
    /\ GoTo(r, "return")
    /\ UNCHANGED <<hostAlive, hostFds, maps, syncByte, record, childVars>>

\* The child keeps its copy of the write end of its own sync pipe.
KeepSyncWrite(r) ==
    /\ ChildAt(r, "fresh")
    /\ childFds' = [childFds EXCEPT ![r] = @ \ {StatusR(r)}]
    /\ ChildGoTo(r, "pdeathsig")
    /\ UNCHANGED <<hostVars, maps, syncByte, record, armed, stage, exit,
                   inhabited>>

\* close_other_fds keeps everything it is given.
CloseNothing(r) ==
    /\ ChildAt(r, "fds")
    /\ ChildGoTo(r, "confine")
    /\ UNCHANGED <<hostVars, maps, syncByte, record, armed, stage, childFds,
                   exit, inhabited>>

-----------------------------------------------------------------------------
(* The host thread of a run.                                               *)

\* sandbox.prepare(&arena)?
Prepare(r) ==
    /\ At(r, "prepare")
    /\ \/ GoTo(r, "sync_pipe") /\ UNCHANGED <<result, hostFds>>
       \/ r \in SetupMayFail /\ ReturnEarly(r, "err_early")
    /\ UNCHANGED <<hostAlive, maps, syncByte, record, childVars>>

\* pipe_pair()?
CreateSyncPipe(r) ==
    /\ At(r, "sync_pipe")
    /\ \/ /\ hostFds' = hostFds \cup {SyncR(r), SyncW(r)}
          /\ GoTo(r, "status_pipe")
          /\ UNCHANGED result
       \/ r \in SetupMayFail /\ ReturnEarly(r, "err_early")
    /\ UNCHANGED <<hostAlive, maps, syncByte, record, childVars>>

\* pipe_pair_cloexec()?, then the signal mask is blocked.
CreateStatusPipe(r) ==
    /\ At(r, "status_pipe")
    /\ \/ /\ hostFds' = hostFds \cup {StatusR(r), StatusW(r)}
          /\ GoTo(r, "clone")
          /\ UNCHANGED result
       \/ r \in SetupMayFail /\ ReturnEarly(r, "err_early")
    /\ UNCHANGED <<hostAlive, maps, syncByte, record, childVars>>

\* do_clone3(flags)?: the child receives a copy of the whole descriptor table.
Clone(r) ==
    /\ At(r, "clone")
    /\ \/ /\ cpc' = [cpc EXCEPT ![r] = "fresh"]
          /\ childFds' = [childFds EXCEPT ![r] = hostFds]
          /\ GoTo(r, "drop_sync_r")
          /\ UNCHANGED <<result, hostFds>>
       \/ /\ r \in SetupMayFail
          /\ ReturnEarly(r, "err_clone")
          /\ UNCHANGED <<cpc, childFds>>
    /\ UNCHANGED <<hostAlive, maps, syncByte, record, armed, stage, exit,
                   inhabited>>

DropSyncRead(r)    == DropEnd(r, "drop_sync_r", SyncR(r), "drop_status_w")
DropStatusWrite(r) == DropEnd(r, "drop_status_w", StatusW(r), "maps")

\* One of the three writes of write_id_maps, in order; a write may be refused,
\* and may fail because the child is already dead.
WriteMap(r) ==
    /\ At(r, "maps")
    /\ \/ /\ maps' = [maps EXCEPT ![r] = @ + 1]
          /\ GoTo(r, IF maps[r] = 2 THEN "sync_write" ELSE "maps")
       \/ /\ r \in MapsMayFail \/ cpc[r] \in Gone
          /\ GoTo(r, "maps_failed")
          /\ UNCHANGED maps
    /\ UNCHANGED <<hostAlive, result, hostFds, syncByte, record, childVars>>

\* The error branch of write_id_maps: drop(sync_write_fd), waitpid, return Err(e).
DropSyncAfterFailure(r) ==
    DropEnd(r, "maps_failed", SyncW(r), "await_failed")

\* `let _ = waitpid(child_pid, None)`: blocks until the child is dead; the
\* result is ignored, so an interrupted wait leaves the child behind.
AwaitFailedChild(r) ==
    /\ At(r, "await_failed")
    /\ \/ cpc[r] = "zombie" /\ cpc' = [cpc EXCEPT ![r] = "reaped"]
       \/ r \in MayInterrupt /\ UNCHANGED cpc
    /\ result' = [result EXCEPT ![r] = "err_idmap"]
    /\ GoTo(r, "return")
    /\ UNCHANGED <<hostAlive, hostFds, maps, syncByte, record, armed, stage,
                   childFds, exit, inhabited>>

\* write(&sync_write_fd, &[0]): EPIPE when no process can read the pipe.
WriteSync(r) ==
    /\ At(r, "sync_write")
    /\ IF Open(SyncR(r))
       THEN /\ syncByte' = [syncByte EXCEPT ![r] = TRUE]
            /\ GoTo(r, "drop_sync_w")
            /\ UNCHANGED result
       ELSE /\ result' = [result EXCEPT ![r] = "err_sync"]
            /\ GoTo(r, "return")
            /\ UNCHANGED syncByte
    /\ UNCHANGED <<hostAlive, hostFds, maps, record, childVars>>

DropSyncWrite(r) == DropEnd(r, "drop_sync_w", SyncW(r), "supervise")

\* wait_for_child: the pidfd is readable once the child is dead, and
\* waitpid(WNOHANG) then takes its status.
ReapChild(r) ==
    /\ At(r, "supervise")
    /\ cpc[r] = "zombie"
    /\ cpc' = [cpc EXCEPT ![r] = "reaped"]
    /\ GoTo(r, "decode")
    /\ UNCHANGED <<hostAlive, result, hostFds, maps, syncByte, record, armed,
                   stage, childFds, exit, inhabited>>

\* signalfd() or poll() fails: `?` leaves the child as it is.
SuperviseFails(r) ==
    /\ At(r, "supervise")
    /\ r \in SuperviseMayFail
    /\ result' = [result EXCEPT ![r] = "err_supervise"]
    /\ GoTo(r, "return")
    /\ UNCHANGED <<hostAlive, hostFds, maps, syncByte, record, childVars>>

\* decode_child_failure: one blocking read; a record makes Err(ChildSetup),
\* EOF (or an interrupted read) makes Ok(exit_code).
Decode(r) ==
    /\ At(r, "decode")
    /\ \/ /\ record[r] # "none"
          /\ result' = [result EXCEPT ![r] = "child_setup"]
       \/ /\ record[r] = "none"
          /\ ~Open(StatusW(r)) \/ r \in MayInterrupt
          /\ result' = [result EXCEPT ![r] = "ok"]
    /\ GoTo(r, "return")
    /\ UNCHANGED <<hostAlive, hostFds, maps, syncByte, record, childVars>>

\* run_parent_setup returns: its owned descriptors are dropped, the mask is
\* unblocked and the caller has its result.
Return(r) ==
    /\ At(r, "return")
    /\ hostFds' = hostFds \ ({r} \X EndNames)
    /\ GoTo(r, "done")
    /\ UNCHANGED <<hostAlive, result, maps, syncByte, record, childVars>>

HostThread(r) ==
    \/ Prepare(r) \/ CreateSyncPipe(r) \/ CreateStatusPipe(r) \/ Clone(r)
    \/ DropSyncRead(r) \/ DropStatusWrite(r) \/ WriteMap(r)
    \/ DropSyncAfterFailure(r) \/ AwaitFailedChild(r) \/ WriteSync(r)
    \/ DropSyncWrite(r) \/ ReapChild(r) \/ Decode(r) \/ Return(r)

-----------------------------------------------------------------------------
(* The child of a run.                                                     *)

\* The child branch of run_once_mode closes the parent's ends of its own pipes.
CloseParentEnds(r) ==
    /\ ChildAt(r, "fresh")
    /\ childFds' = [childFds EXCEPT ![r] = @ \ {SyncW(r), StatusR(r)}]
    /\ ChildGoTo(r, "pdeathsig")
    /\ UNCHANGED <<hostVars, maps, syncByte, record, armed, stage, exit,
                   inhabited>>

\* prctl(PR_SET_PDEATHSIG, SIGKILL), only with die_with_parent.  The kernel
\* takes any valid signal: only a filter the host runs under can refuse it.
ArmParentDeath(r) ==
    /\ ChildAt(r, "pdeathsig")
    /\ \/ /\ armed' = [armed EXCEPT ![r] = r \in DieWithParent]
          /\ ChildGoTo(r, "ppid")
          /\ UNCHANGED stage
       \/ /\ r \in DieWithParent \cap ArmMayFail
          /\ ChildFails(r, "ParentDeathSignal")
          /\ UNCHANGED armed
    /\ UNCHANGED <<hostVars, maps, syncByte, record, childFds, exit,
                   inhabited>>

\* getppid() == 1: never so in a PID namespace, where the parent is outside
\* and getppid() is 0.
ParentIsInit(r) ==
    /\ r \notin PidNs
    /\ IF hostAlive THEN HostIsInit ELSE InitReaps

CheckParent(r) ==
    /\ ChildAt(r, "ppid")
    /\ IF r \in DieWithParent /\ ParentIsInit(r)
       THEN ChildFails(r, "ParentCheck")
       ELSE ChildGoTo(r, "sync_wait") /\ UNCHANGED stage
    /\ UNCHANGED <<hostVars, maps, syncByte, record, armed, childFds, exit,
                   inhabited>>

\* read_byte(sync_fd) and close: EOF without a byte is EPIPE.
SyncWait(r) ==
    /\ ChildAt(r, "sync_wait")
    /\ \/ /\ syncByte[r]
          /\ syncByte' = [syncByte EXCEPT ![r] = FALSE]
          /\ childFds' = [childFds EXCEPT ![r] = @ \ {SyncR(r)}]
          /\ ChildGoTo(r, "setup")
          /\ UNCHANGED stage
       \/ /\ ~syncByte[r] /\ ~Open(SyncW(r))
          /\ ChildFails(r, "SyncWait")
          /\ UNCHANGED <<syncByte, childFds>>
    /\ UNCHANGED <<hostVars, maps, record, armed, exit, inhabited>>

\* Dumpable, mounts, hostname, loopback, rlimits, Landlock, environment,
\* capabilities and setsid.
SetUp(r) ==
    /\ ChildAt(r, "setup")
    /\ \/ ChildGoTo(r, "fds") /\ UNCHANGED stage
       \/ r \in SetupMayFail /\ ChildFails(r, "Setup")
    /\ UNCHANGED <<hostVars, maps, syncByte, record, armed, childFds, exit,
                   inhabited>>

\* The pipe ends of the child once its [fd] mappings are made.
Mapped(r) ==
    IF r \in FdsHitStatus THEN childFds[r] \ {StatusW(r)} ELSE childFds[r]

\* apply_actions, whose dup2 closes what its destination was, then
\* close_other_fds, which keeps the number of this run's status descriptor
\* whatever is open there.  Either fails before or after the mappings.
CloseOtherFds(r) ==
    /\ ChildAt(r, "fds")
    /\ \/ /\ childFds' = [childFds EXCEPT ![r] =
                  IF r \in CloseFds THEN Mapped(r) \cap {StatusW(r)} ELSE Mapped(r)]
          /\ ChildGoTo(r, "confine")
          /\ UNCHANGED stage
       \/ /\ r \in SetupMayFail
          /\ \E left \in {childFds[r], Mapped(r)} :
                 childFds' = [childFds EXCEPT ![r] = left]
          /\ ChildFails(r, "Fd")
    /\ UNCHANGED <<hostVars, maps, syncByte, record, armed, exit, inhabited>>

\* TSC, no_new_privs, MDWE and seccomp, then the working directory, which is
\* entered under the filter.
Confine(r) ==
    /\ ChildAt(r, "confine")
    /\ \/ ChildGoTo(r, "exec") /\ UNCHANGED stage
       \/ r \in SetupMayFail /\ \E at \in {"Confine", "Cwd"} : ChildFails(r, at)
    /\ UNCHANGED <<hostVars, maps, syncByte, record, armed, childFds, exit,
                   inhabited>>

\* execve closes the CLOEXEC descriptors when it succeeds.
Execve(r) ==
    /\ ChildAt(r, "exec")
    /\ \/ /\ childFds' = [childFds EXCEPT ![r] = @ \ CloexecEnds]
          /\ inhabited' = inhabited \cup {r}
          /\ ChildGoTo(r, "command")
          /\ UNCHANGED stage
       \/ /\ r \in SetupMayFail
          /\ ChildFails(r, "Exec")
          /\ UNCHANGED <<childFds, inhabited>>
    /\ UNCHANGED <<hostVars, maps, syncByte, record, armed, exit>>

\* The filter is installed when the child fails, and answers its write.
WriteRefused(r) == r \in FilterRefuses /\ stage[r] \in UnderFilter

\* The reporter writes the record to its status descriptor and the child exits
\* whether or not that worked: the record is lost when nobody can read the
\* pipe, when the number no longer is the pipe, and when the filter refuses
\* the write.
ReportAndExit(r) ==
    /\ ChildAt(r, "failing")
    /\ record' = IF /\ StatusW(r) \in childFds[r] /\ Open(StatusR(r))
                    /\ ~WriteRefused(r)
                 THEN [record EXCEPT ![r] = stage[r]] ELSE record
    /\ Dies(r, "failed")
    /\ UNCHANGED <<hostVars, maps, syncByte, armed, stage, inhabited>>

ChildSetup(r) ==
    \/ CloseParentEnds(r) \/ ArmParentDeath(r) \/ CheckParent(r)
    \/ SyncWait(r) \/ SetUp(r) \/ CloseOtherFds(r) \/ Confine(r)
    \/ Execve(r) \/ ReportAndExit(r)

\* The command ends by itself.
CommandExits(r) ==
    /\ ChildAt(r, "command")
    /\ Dies(r, "exited")
    /\ UNCHANGED <<hostVars, maps, syncByte, record, armed, stage, inhabited>>

-----------------------------------------------------------------------------
(* The environment.                                                        *)

\* A signal kills the child: forwarded by the supervisor, sent to the process
\* group, or by the kernel.
ChildKilled(r) ==
    /\ r \in MayKill
    /\ cpc[r] \in Running
    /\ Dies(r, "killed")
    /\ UNCHANGED <<hostVars, maps, syncByte, record, armed, stage, inhabited>>

\* The host is killed: its descriptors close and the armed children with it.
HostDies ==
    /\ HostMayDie /\ hostAlive
    /\ hostAlive' = FALSE
    /\ hostFds' = {}
    /\ LET doomed == {c \in Runs : armed[c] /\ cpc[c] \in Running}
       IN /\ cpc' = [c \in Runs |-> IF c \in doomed THEN "zombie" ELSE cpc[c]]
          /\ exit' = [c \in Runs |-> IF c \in doomed THEN "killed" ELSE exit[c]]
          /\ childFds' = [c \in Runs |-> IF c \in doomed THEN {} ELSE childFds[c]]
    /\ UNCHANGED <<ppc, result, maps, syncByte, record, armed, stage, inhabited>>

Environment == HostDies \/ \E r \in Runs : ChildKilled(r)

Next ==
    \/ Environment
    \/ \E r \in Runs : HostThread(r) \/ SuperviseFails(r) \/ ChildSetup(r)
                       \/ CommandExits(r)

Spec == Init /\ [][Next]_vars

\* The scheduler runs every thread and every child that is not blocked; it
\* promises nothing about when a command ends or whether a signal arrives.
Fairness ==
    \A r \in Runs : WF_vars(HostThread(r)) /\ WF_vars(ChildSetup(r))

FairSpec == Spec /\ Fairness
-----------------------------------------------------------------------------
(* What once mode promises.                                                *)

\* A child gets past the sync wait only after all three ID map files of its
\* user namespace were written (parent.rs run_parent_setup, runtime.rs sync
\* read).
MapsBeforeSetup ==
    \A r \in Runs : cpc[r] \in Released \/ r \in inhabited => maps[r] = 3

\* The record of a failure is lost in two ways only: it came after an [fd]
\* mapping replaced the status pipe, or after the filter was installed and
\* refuses the write.
Muted(r) ==
    \/ r \in FdsHitStatus /\ stage[r] \in AfterMappings
    \/ WriteRefused(r)

\* A call that returns Ok did so because a command ran, or because a signal
\* took the child, or because the child failed where its record is lost: every
\* other setup failure is returned as an error (parent.rs
\* decode_child_failure, report.rs send_failure).  ROADMAP.md:28-30 promises
\* it of the last case too, which run() returns as Ok(126) or Ok(127).
NoSilentSetupFailure ==
    \A r \in Runs :
        result[r] = "ok" => r \in inhabited \/ exit[r] = "killed" \/ Muted(r)

\* Fail closed (PRINCIPLES.md 6): a call that returned an error never has its
\* command executed, neither before nor after it returned.
ErrorMeansNotInhabited ==
    \A r \in Runs : result[r] \in Failures \cup {"child_setup"} => r \notin inhabited

\* A failure that the child wrote to the status pipe reaches the caller
\* (ARCHITECTURE.md, Error Propagation); "SyncWait" only echoes the error the
\* parent itself returns.
ReportReachesCaller ==
    \A r \in Runs : At(r, "done") /\ record[r] \notin {"none", "SyncWait"}
                        => result[r] = "child_setup"

\* A call that returned left no child behind: it is dead and was reaped.
NothingLeftBehind ==
    \A r \in Runs : ppc[r] = "done" => cpc[r] \in {"none", "reaped"}

\* No command holds an end of a control pipe of the supervisor.
CommandHoldsNoPipe ==
    \A r \in Runs : cpc[r] = "command" => childFds[r] = {}

\* A command with die_with_parent does not outlive its host (pnut.toml.5,
\* die_with_parent).
NoOrphanCommand ==
    \A r \in DieWithParent : cpc[r] = "command" => hostAlive

\* Once mode keeps the contract of RunContract (Sandbox::run, parent.rs); only
\* the runs whose plan can take the record away are excused from its Ok.
ContractChild(r) ==
    CASE cpc[r] = "none" -> "none" [] cpc[r] \in Gone -> "gone"
      [] cpc[r] = "command" -> "command" [] OTHER -> "setup"
ContractOutcome(r) ==
    CASE result[r] = "none" -> "none" [] result[r] = "ok" -> "ok" [] OTHER -> "error"

RC == INSTANCE RunContract WITH
          Unheard <- FdsHitStatus \cup FilterRefuses,
          child   <- [r \in Runs |-> ContractChild(r)],
          ran     <- inhabited,
          killed  <- {r \in Runs : exit[r] = "killed"},
          outcome <- [r \in Runs |-> ContractOutcome(r)]

Contract == RC!Spec

\* Every call returns, unless its command is left running for ever.
EveryRunReturns ==
    \A r \in Runs : <>[](ppc[r] = "done" \/ cpc[r] = "command")

=============================================================================
