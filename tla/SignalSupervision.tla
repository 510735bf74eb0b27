-------------------------- MODULE SignalSupervision --------------------------
(***************************************************************************)
(* Signals in once mode: the mask that run_once_mode blocks around clone3  *)
(* and the signalfd + pidfd loop of wait_for_child                         *)
(* (pnut/src/sandbox/parent.rs), for one call in a host with one thread.   *)
(*                                                                         *)
(* Pending signals are a set: a standard signal that is already pending    *)
(* coalesces.  A signal the host does not block is taken by the host, by a *)
(* handler or the default action.                                          *)
(***************************************************************************)
EXTENDS Naturals, FiniteSets

CONSTANTS
    Forwarded,       \* FORWARDED_SIGNALS
    CHLD,            \* SIGCHLD
    ForwardSettings, \* the settings of [process] forward_signals considered
    CallerBlocked,   \* the supervised signals the caller had blocked already
    CloneMayFail,    \* clone3 may be refused
    SetupMayFail,    \* write_id_maps or the sync write may fail
    SignalfdMayFail, \* signalfd() may fail
    PollMayFail,     \* poll() may fail with another error than EINTR
    AutoReap,        \* SIGCHLD is ignored in the host, or another waiter reaps
    MaxRaises        \* bound: how many signals are sent to the host

ASSUME SignalSets ==
    /\ IsFiniteSet(Forwarded)
    /\ CHLD \notin Forwarded
    /\ CallerBlocked \subseteq Forwarded \cup {CHLD}
    /\ ForwardSettings \subseteq BOOLEAN /\ AutoReap \in BOOLEAN
    /\ CloneMayFail \in BOOLEAN /\ SetupMayFail \in BOOLEAN
    /\ SignalfdMayFail \in BOOLEAN /\ PollMayFail \in BOOLEAN
    /\ MaxRaises \in Nat

VARIABLES
    forward,   \* [process] forward_signals of this call
    pc,        \* where the thread is in run_once_mode and wait_for_child
    blocked,   \* the thread's signal mask, within the supervised signals
    pending,   \* signals pending at the host
    child,     \* "none", "running", "zombie" or "reaped"
    readable,  \* the pidfd's POLLIN in the last poll()
    raised,    \* history: signals sent to the host since the mask was blocked
    relayed,   \* history: signals acted upon since they were last sent
    hostTook,  \* history: signals the host itself took since the block
    raises     \* how many signals have been sent to the host

vars == <<forward, pc, blocked, pending, child, readable, raised, relayed, hostTook,
          raises>>

Supervised == Forwarded \cup {CHLD}      \* supervision_signal_mask()

Pcs == {"block", "clone", "setup", "await_failed", "signalfd", "poll",
        "reap", "drain", "unblock", "done"}

TypeOK ==
    /\ forward \in ForwardSettings
    /\ pc \in Pcs
    /\ blocked \subseteq Supervised
    /\ pending \subseteq Supervised
    /\ child \in {"none", "running", "zombie", "reaped"}
    /\ readable \in BOOLEAN
    /\ raised \subseteq Forwarded
    /\ relayed \subseteq Forwarded
    /\ hostTook \subseteq Supervised
    /\ raises \in 0..MaxRaises

Init ==
    /\ forward \in ForwardSettings
    /\ pc = "block"
    /\ blocked = CallerBlocked
    /\ pending = {}
    /\ child = "none"
    /\ readable = FALSE
    /\ raised = {}
    /\ relayed = {}
    /\ hostTook = {}
    /\ raises = 0

-----------------------------------------------------------------------------
(* Steps of the thread.                                                    *)

Step(from, to) == pc = from /\ pc' = to

\* The new mask takes effect: what it does not block is taken at once.
SetMask(m) ==
    /\ blocked' = m
    /\ pending' = pending \cap m
    /\ hostTook' = hostTook \cup (pending \ m)

\* The kernel sends SIGCHLD; when it is ignored the child is reaped at once.
ChildDies ==
    /\ child' = IF AutoReap THEN "reaped" ELSE "zombie"
    /\ pending' = IF AutoReap \/ CHLD \notin blocked
                  THEN pending ELSE pending \cup {CHLD}

-----------------------------------------------------------------------------
(* Defective variants, used only to show that the properties notice.       *)

\* The mask is blocked after the clone instead of before it.
BlockNothing ==
    /\ Step("block", "clone")
    /\ UNCHANGED <<forward, blocked, pending, child, readable, raised, relayed,
                   hostTook, raises>>

\* The loop reads the signals but acts on none.
DrainDiscards ==
    /\ pc = "drain"
    /\ pending' = {}
    /\ pc' = "poll"
    /\ UNCHANGED <<forward, blocked, child, readable, raised, relayed, hostTook, raises>>

\* The error path of the ID maps returns past the unblock.
AwaitAndReturn ==
    /\ Step("await_failed", "done")
    /\ child \in {"zombie", "reaped"}
    /\ child' = "reaped"
    /\ UNCHANGED <<forward, blocked, pending, readable, raised, relayed, hostTook, raises>>

\* A signal with forward_signals = false is forwarded all the same, and a
\* child may ignore it.
RelayAnySignal(s) ==
    /\ relayed' = relayed \cup {s}
    /\ \/ /\ child = "running"
          /\ child' = "zombie"
          /\ pending' = (pending \ {s}) \cup {CHLD}
       \/ UNCHANGED child /\ pending' = pending \ {s}

\* poll() watches the signalfd only.
PollSignalsOnly ==
    /\ Step("poll", "drain")
    /\ pending \cap Supervised # {}
    /\ readable' = FALSE
    /\ UNCHANGED <<forward, blocked, pending, child, raised, relayed, hostTook, raises>>

-----------------------------------------------------------------------------
(* run_once_mode.                                                          *)

\* mask.thread_block()
Block ==
    /\ Step("block", "clone")
    /\ SetMask(Supervised)
    /\ UNCHANGED <<forward, child, readable, raised, relayed, raises>>

\* do_clone3(flags)?: the error returns at once.
Clone ==
    /\ pc = "clone"
    /\ \/ pc' = "setup" /\ child' = "running"
       \/ CloneMayFail /\ pc' = "done" /\ UNCHANGED child
    /\ UNCHANGED <<forward, blocked, pending, readable, raised, relayed, hostTook, raises>>

\* write_id_maps and the sync byte: a refused map waits for the child, a
\* refused write returns.
Setup ==
    /\ pc = "setup"
    /\ \/ pc' = "signalfd"
       \/ SetupMayFail /\ pc' \in {"await_failed", "unblock"}
    /\ UNCHANGED <<forward, blocked, pending, child, readable, raised, relayed, hostTook,
                   raises>>

AwaitFailed ==
    /\ Step("await_failed", "unblock")
    /\ child \in {"zombie", "reaped"}
    /\ child' = "reaped"
    /\ UNCHANGED <<forward, blocked, pending, readable, raised, relayed, hostTook, raises>>

\* SignalFd::with_flags(&mask, ...)?
OpenSignalfd ==
    /\ pc = "signalfd"
    /\ \/ pc' = "poll"
       \/ SignalfdMayFail /\ pc' = "unblock"
    /\ UNCHANGED <<forward, blocked, pending, child, readable, raised, relayed, hostTook,
                   raises>>

\* poll(): returns when the child is dead or a supervised signal is pending,
\* and keeps what the pidfd reported; EINTR tries again.
Poll ==
    /\ pc = "poll"
    /\ child # "running" \/ pending # {}
    /\ readable' = (child # "running")
    /\ pc' = IF child # "running" THEN "reap" ELSE "drain"
    /\ UNCHANGED <<forward, blocked, pending, child, raised, relayed, hostTook, raises>>

\* Any other error of poll() ends the call, and the child is left as it is.
PollFails ==
    /\ PollMayFail /\ Step("poll", "unblock")
    /\ UNCHANGED <<forward, blocked, pending, child, readable, raised, relayed, hostTook,
                   raises>>

\* waitpid(WNOHANG): ECHILD goes back to poll().
Reap ==
    /\ pc = "reap" /\ readable
    /\ IF child = "zombie"
       THEN child' = "reaped" /\ pc' = "unblock"
       ELSE UNCHANGED child /\ pc' = "poll"
    /\ UNCHANGED <<forward, blocked, pending, readable, raised, relayed, hostTook, raises>>

\* What pidfd_send_signal does for one siginfo: the child may handle or ignore
\* a forwarded signal, or die of it; SIGKILL it cannot survive.  A dead child
\* is ESRCH, which is ignored.
Relay(s) ==
    /\ relayed' = relayed \cup {s}
    /\ LET rest == pending \ {s}
           dies == /\ child' = IF AutoReap THEN "reaped" ELSE "zombie"
                   /\ pending' = IF AutoReap THEN rest ELSE rest \cup {CHLD}
       IN IF child # "running" THEN UNCHANGED child /\ pending' = rest
          ELSE IF forward
               THEN dies \/ (UNCHANGED child /\ pending' = rest)
               ELSE dies

\* `while let Ok(Some(siginfo)) = sfd.read_signal()`
Drain ==
    /\ pc = "drain"
    /\ \/ /\ pending = {}
          /\ pc' = "poll"
          /\ UNCHANGED <<pending, child, relayed>>
       \/ /\ CHLD \in pending
          /\ pending' = pending \ {CHLD}
          /\ UNCHANGED <<pc, child, relayed>>
       \/ \E s \in pending \ {CHLD} : Relay(s) /\ UNCHANGED pc
    /\ UNCHANGED <<forward, blocked, readable, raised, hostTook, raises>>

\* mask.thread_unblock(): every supervised signal, whatever the caller had.
Unblock ==
    /\ Step("unblock", "done")
    /\ SetMask({})
    /\ UNCHANGED <<forward, child, readable, raised, relayed, raises>>

Thread == Block \/ Clone \/ Setup \/ AwaitFailed \/ OpenSignalfd \/ Poll
          \/ Reap \/ Drain \/ Unblock

-----------------------------------------------------------------------------
(* The environment.                                                        *)

\* Somebody sends s to the host.
Raise(s) ==
    /\ raises < MaxRaises
    /\ raises' = raises + 1
    /\ IF s \in blocked
       THEN pending' = pending \cup {s} /\ UNCHANGED hostTook
       ELSE /\ UNCHANGED pending
            /\ hostTook' = IF pc = "block" THEN hostTook ELSE hostTook \cup {s}
    /\ raised' = IF pc = "block" THEN raised ELSE raised \cup {s}
    /\ relayed' = relayed \ {s}
    /\ UNCHANGED <<forward, pc, blocked, child, readable>>

\* The child ends by itself.
ChildExits ==
    /\ child = "running"
    /\ ChildDies
    /\ UNCHANGED <<forward, pc, blocked, readable, raised, relayed, hostTook,
                   raises>>

Next == Thread \/ PollFails \/ ChildExits \/ \E s \in Forwarded : Raise(s)

Spec == Init /\ [][Next]_vars

\* The thread is scheduled, and poll() need not fail; a child whose sync pipe was dropped does exit.
FairSpec ==
    /\ Spec
    /\ WF_vars(Thread)
    /\ WF_vars(pc = "await_failed" /\ ChildExits)

-----------------------------------------------------------------------------
(* What the supervisor promises.                                           *)

\* No signal sent to the host once the mask is blocked disappears: it was
\* relayed, is still pending, or the host took it after the call (the block
\* before clone3 and the drain loop of wait_for_child).
NoSignalLost == raised \subseteq relayed \cup pending \cup hostTook

\* From the block until the call returns, no supervised signal is taken by the
\* host itself, so none bypasses the loop (run_once_mode, mask.thread_block).
HostUndisturbed == pc # "done" => hostTook = {}

\* Every way out of the supervision of a child goes through the unblock
\* (comment in run_once_mode: all parent exit paths must go through cleanup).
NothingLeftBlocked == pc = "done" /\ child # "none" => blocked = {}

\* With forward_signals = false a signal to the supervisor kills the child; if
\* poll() fails first, the call ends in an error and the host takes the signal.
SignalKillsChild ==
    \A s \in Forwarded :
        (~forward /\ s \in pending /\ pc = "poll")
            ~> (child # "running" \/ (pc = "done" /\ s \in hostTook))

\* Once the child is dead the call returns (wait_for_child's pidfd loop).
ExitIsNoticed == (child \in {"zombie", "reaped"}) ~> (pc = "done")

=============================================================================
