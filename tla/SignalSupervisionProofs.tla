----------------------- MODULE SignalSupervisionProofs -----------------------
(***************************************************************************)
(* What holds of SignalSupervision for any sets of signals, whatever the   *)
(* caller had blocked, and any number of signals sent.                     *)
(***************************************************************************)
EXTENDS SignalSupervision, TLAPS

\* The mask holds from the block to the unblock, and before the clone there is
\* no child and nothing has been counted.
MaskHolds ==
    /\ pc \notin {"block", "done"} => blocked = Supervised
    /\ pc = "block" => raised = {}
    /\ pc \in {"block", "clone"} => child = "none"

IInv == TypeOK /\ MaskHolds /\ NoSignalLost /\ HostUndisturbed /\ NothingLeftBlocked

LEMMA InitInv == Init => IInv
<1> SUFFICES ASSUME Init PROVE IInv
  OBVIOUS
<1>1. 0 \in 0..MaxRaises /\ CallerBlocked \subseteq Supervised
  BY SignalSets DEF Supervised
<1>2. TypeOK
  BY <1>1 DEF Init, TypeOK, Pcs
<1> QED BY <1>2 DEF Init, IInv, MaskHolds, NoSignalLost, HostUndisturbed, NothingLeftBlocked

LEMMA StepInv == IInv /\ [Next]_vars => IInv'
<1> SUFFICES ASSUME IInv, [Next]_vars PROVE IInv'
  OBVIOUS
<1> USE SignalSets DEF IInv, TypeOK, MaskHolds, NoSignalLost, HostUndisturbed,
                       NothingLeftBlocked, Supervised, Pcs
<1>1. CASE Block
  BY <1>1 DEF Block, Step, SetMask
<1>2. CASE Clone
  BY <1>2 DEF Clone
<1>3. CASE Setup
  BY <1>3 DEF Setup
<1>4. CASE AwaitFailed
  BY <1>4 DEF AwaitFailed, Step
<1>5. CASE OpenSignalfd
  BY <1>5 DEF OpenSignalfd
<1>6. CASE Poll
  BY <1>6 DEF Poll
<1>7. CASE Reap
  BY <1>7 DEF Reap
<1>8. CASE Drain
  <2>1. CASE pending = {} /\ pc' = "poll" /\ UNCHANGED <<pending, child, relayed>>
    BY <1>8, <2>1 DEF Drain
  <2>2. CASE CHLD \in pending /\ pending' = pending \ {CHLD} /\ UNCHANGED <<pc, child, relayed>>
    BY <1>8, <2>2 DEF Drain
  <2>3. ASSUME NEW s \in pending \ {CHLD}, Relay(s), UNCHANGED pc PROVE IInv'
    <3>1. s \in Forwarded /\ pc = "drain"
      BY <1>8 DEF Drain
    <3>2. /\ relayed' = relayed \cup {s}
          /\ pending' \in {pending \ {s}, (pending \ {s}) \cup {CHLD}}
          /\ child' \in {child, "zombie", "reaped"}
      BY <2>3 DEF Relay
    <3>3. UNCHANGED <<forward, blocked, readable, raised, hostTook, raises>>
      BY <1>8 DEF Drain
    <3> QED BY <2>3, <3>1, <3>2, <3>3
  <2> QED BY <1>8, <2>1, <2>2, <2>3 DEF Drain
<1>9. CASE Unblock
  BY <1>9 DEF Unblock, Step, SetMask
<1>10. CASE ChildExits
  BY <1>10 DEF ChildExits, ChildDies
<1>11. ASSUME NEW s \in Forwarded, Raise(s) PROVE IInv'
  BY <1>11 DEF Raise
<1>12. CASE PollFails
  BY <1>12 DEF PollFails, Step
<1>13. CASE UNCHANGED vars
  BY <1>13 DEF vars
<1> QED
  BY <1>1, <1>2, <1>3, <1>4, <1>5, <1>6, <1>7, <1>8, <1>9, <1>10, <1>11, <1>12,
     <1>13 DEF Next, Thread

THEOREM Invariance == Spec => []IInv
  BY InitInv, StepInv, PTL DEF Spec

-----------------------------------------------------------------------------
(* The theorems.                                                           *)

\* Types.
THEOREM SignalTypeCorrect == Spec => []TypeOK
<1>1. IInv => TypeOK
  BY DEF IInv
<1> QED BY <1>1, Invariance, PTL

\* However many signals are sent and whenever, none that is sent after the
\* block disappears: mask.thread_block, the drain loop, mask.thread_unblock.
THEOREM NoneLost == Spec => []NoSignalLost
<1>1. IInv => NoSignalLost
  BY DEF IInv
<1> QED BY <1>1, Invariance, PTL

\* No supervised signal is taken by the host before the call has returned.
THEOREM HostLeftAlone == Spec => []HostUndisturbed
<1>1. IInv => HostUndisturbed
  BY DEF IInv
<1> QED BY <1>1, Invariance, PTL

\* Every way out that had a child unblocks every supervised signal.
THEOREM EveryExitUnblocks == Spec => []NothingLeftBlocked
<1>1. IInv => NothingLeftBlocked
  BY DEF IInv
<1> QED BY <1>1, Invariance, PTL
=============================================================================
