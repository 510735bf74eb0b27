--------------------------- MODULE OnceModeProofs ---------------------------
(***************************************************************************)
(* Proofs about OnceMode, for every set of runs and every choice of what   *)
(* the kernel, the host and the outside may do.                            *)
(*                                                                         *)
(* The promises of OnceMode are not inductive: none of them says why a     *)
(* child that got past the sync wait finds its ID maps written, or why a   *)
(* failed child has left a record.  IInv does; it has one part per reason, *)
(* each about a single run.                                                *)
(***************************************************************************)
EXTENDS OnceMode, TLAPS

BeforeClone == {"prepare", "sync_pipe", "status_pipe", "clone"}
BeforeMaps  == BeforeClone \cup {"drop_sync_r", "drop_status_w"}
BeforeByte  == BeforeMaps \cup {"maps", "maps_failed", "await_failed", "sync_write"}
AfterMaps   == {"sync_write", "drop_sync_w", "supervise", "decode"}

\* The child holds its status descriptor from clone3 to execve or _exit.
InSetup  == {"fresh", "pdeathsig", "ppid", "sync_wait", "setup", "fds",
             "confine", "exec", "failing"}
\* Before the sync wait is over it also holds the read end of the sync pipe.
Unreleased == {"fresh", "pdeathsig", "ppid", "sync_wait"}

\* How many map files are written, by the place of the host thread.
MapLedger(r) ==
    /\ ppc[r] \in BeforeMaps => maps[r] = 0
    /\ ppc[r] \in {"maps", "maps_failed", "await_failed"} => maps[r] < 3
    /\ ppc[r] \in AfterMaps => maps[r] = 3
    /\ result[r] \in {"err_early", "err_clone", "err_idmap"} => maps[r] < 3

\* The byte is in the pipe, or was taken from it, only after the maps.
ByteAfterMaps(r) ==
    /\ syncByte[r] \/ cpc[r] \in Released \/ r \in inhabited => maps[r] = 3
    /\ ppc[r] \in BeforeByte =>
           ~syncByte[r] /\ cpc[r] \notin Released /\ r \notin inhabited

\* A result is there once the thread is about to return.
ResultAtEnd(r) ==
    /\ result[r] = "none" <=> ppc[r] \notin {"return", "done"}
    /\ ppc[r] \in BeforeClone => cpc[r] = "none"
    /\ ppc[r] \notin BeforeClone \cup {"return", "done"} => cpc[r] # "none"
    /\ ppc[r] = "decode" => cpc[r] = "reaped"

\* An [fd] mapping may have replaced the status descriptor of the child.
Replaced(r) ==
    /\ r \in FdsHitStatus
    /\ \/ cpc[r] \in {"confine", "exec"}
       \/ cpc[r] = "failing" /\ stage[r] \in AfterMappings

\* Which ends are held, and by whom.
EndsHeld(r) ==
    /\ cpc[r] \in InSetup /\ ~Replaced(r) => StatusW(r) \in childFds[r]
    /\ cpc[r] \in Unreleased => SyncR(r) \in childFds[r]
    /\ hostAlive =>
         /\ ppc[r] \in {"status_pipe", "clone", "drop_sync_r"} => SyncR(r) \in hostFds
         /\ ppc[r] \in {"clone", "drop_sync_r", "drop_status_w"} => StatusW(r) \in hostFds
         /\ ppc[r] \notin {"prepare", "sync_pipe", "status_pipe", "return", "done"}
                => StatusR(r) \in hostFds

\* A child that ended, and what it left behind.
EndOfChild(r) ==
    /\ cpc[r] = "failing" => stage[r] # "none"
    /\ r \in inhabited => cpc[r] \in {"command"} \cup Gone
    /\ cpc[r] = "command" => r \in inhabited
    /\ cpc[r] \in Gone => exit[r] # "none"
    /\ exit[r] # "none" => cpc[r] \in Gone
    /\ exit[r] = "exited" => r \in inhabited
    /\ record[r] # "none" => cpc[r] \in Gone /\ r \notin inhabited
    /\ exit[r] = "failed" /\ result[r] = "none" /\ hostAlive
           => record[r] # "none" \/ Muted(r)

\* What a result says about the child.
ResultMeans(r) ==
    /\ result[r] = "ok" =>
           cpc[r] \in Gone /\ (r \in inhabited \/ exit[r] = "killed" \/ Muted(r))
    /\ result[r] = "child_setup" => record[r] # "none"
    /\ result[r] = "err_sync" => cpc[r] \in {"failing"} \cup Gone /\ r \notin inhabited
    /\ result[r] = "err_supervise" => r \in SuperviseMayFail

\* The inductive invariant.
RunInv(r) ==
    /\ MapLedger(r) /\ ByteAfterMaps(r) /\ ResultAtEnd(r)
    /\ EndsHeld(r) /\ EndOfChild(r) /\ ResultMeans(r)

IInv == TypeOK /\ \A r \in Runs : RunInv(r)

-----------------------------------------------------------------------------
(* Type correctness of one step.  Only WriteMap needs more than TypeOK: at  *)
(* "maps" some file is still unwritten.                                     *)

LEMMA TypeOfHostStep ==
    ASSUME IInv, NEW r \in Runs, HostThread(r) \/ SuperviseFails(r)
    PROVE  TypeOK'
<1> USE DEF IInv, TypeOK, PipeEnds, EndNames, ParentPcs, ChildPcs, Results,
        Failures, Exits, Stages, SyncR, SyncW, StatusR, StatusW, At, GoTo,
        ReturnEarly, DropEnd, hostVars, childVars, ChildAt, ChildGoTo,
        ChildFails, Dies, Open, Mapped
<1>1. CASE Prepare(r)
  BY <1>1 DEF Prepare
<1>2. CASE CreateSyncPipe(r)
  BY <1>2 DEF CreateSyncPipe
<1>3. CASE CreateStatusPipe(r)
  BY <1>3 DEF CreateStatusPipe
<1>4. CASE Clone(r)
  BY <1>4 DEF Clone
<1>5. CASE DropSyncRead(r)
  BY <1>5 DEF DropSyncRead
<1>6. CASE DropStatusWrite(r)
  BY <1>6 DEF DropStatusWrite
<1>7. CASE WriteMap(r)
  BY <1>7 DEF WriteMap, RunInv, MapLedger
<1>8. CASE DropSyncAfterFailure(r)
  BY <1>8 DEF DropSyncAfterFailure
<1>9. CASE AwaitFailedChild(r)
  BY <1>9 DEF AwaitFailedChild
<1>10. CASE WriteSync(r)
  <2> HIDE DEF Open
  <2>1. syncByte' \in [Runs -> BOOLEAN]  BY <1>10 DEF WriteSync
  <2>2. result' \in [Runs -> Results] /\ ppc' \in [Runs -> ParentPcs]
    BY <1>10 DEF WriteSync
  <2>. QED  BY <1>10, <2>1, <2>2 DEF WriteSync
<1>11. CASE DropSyncWrite(r)
  BY <1>11 DEF DropSyncWrite
<1>12. CASE ReapChild(r)
  BY <1>12 DEF ReapChild
<1>13. CASE SuperviseFails(r)
  BY <1>13 DEF SuperviseFails
<1>14. CASE Decode(r)
  BY <1>14 DEF Decode
<1>15. CASE Return(r)
  BY <1>15 DEF Return
<1>. QED  BY <1>1, <1>2, <1>3, <1>4, <1>5, <1>6, <1>7, <1>8, <1>9, <1>10,
           <1>11, <1>12, <1>13, <1>14, <1>15 DEF HostThread

LEMMA TypeOfChildStep ==
    ASSUME IInv, NEW r \in Runs,
           ChildSetup(r) \/ CommandExits(r) \/ ChildKilled(r)
    PROVE  TypeOK'
<1> USE DEF IInv, TypeOK, PipeEnds, EndNames, ParentPcs, ChildPcs, Results,
        Failures, Exits, Stages, SyncR, SyncW, StatusR, StatusW, At, GoTo,
        ReturnEarly, DropEnd, hostVars, childVars, ChildAt, ChildGoTo,
        ChildFails, Dies, Open, Mapped
<1>1. CASE CloseParentEnds(r)
  BY <1>1 DEF CloseParentEnds
<1>2. CASE ArmParentDeath(r)
  <2>1. CASE ChildFails(r, "ParentDeathSignal") /\ UNCHANGED armed
    BY <1>2, <2>1 DEF ArmParentDeath
  <2>2. CASE /\ armed' = [armed EXCEPT ![r] = r \in DieWithParent]
             /\ ChildGoTo(r, "ppid")
             /\ UNCHANGED stage
    <3>1. armed' \in [Runs -> BOOLEAN]  BY <2>2
    <3>. QED  BY <1>2, <2>2, <3>1 DEF ArmParentDeath
  <2>. QED  BY <1>2, <2>1, <2>2 DEF ArmParentDeath
<1>3. CASE CheckParent(r)
  BY <1>3 DEF CheckParent
<1>4. CASE SyncWait(r)
  <2>1. CASE ChildFails(r, "SyncWait") /\ UNCHANGED <<syncByte, childFds>>
    BY <1>4, <2>1 DEF SyncWait
  <2>2. CASE /\ syncByte' = [syncByte EXCEPT ![r] = FALSE]
             /\ childFds' = [childFds EXCEPT ![r] = @ \ {SyncR(r)}]
             /\ ChildGoTo(r, "setup")
             /\ UNCHANGED stage
    <3>1. childFds' \in [Runs -> SUBSET PipeEnds]  BY <2>2
    <3>. QED  BY <1>4, <2>2, <3>1 DEF SyncWait
  <2>. QED  BY <1>4, <2>1, <2>2 DEF SyncWait
<1>5. CASE SetUp(r)
  BY <1>5 DEF SetUp
<1>6. CASE CloseOtherFds(r)
  BY <1>6 DEF CloseOtherFds
<1>7. CASE Confine(r)
  BY <1>7 DEF Confine
<1>8. CASE Execve(r)
  BY <1>8 DEF Execve
<1>9. CASE ReportAndExit(r)
  BY <1>9 DEF ReportAndExit
<1>10. CASE CommandExits(r)
  BY <1>10 DEF CommandExits
<1>11. CASE ChildKilled(r)
  BY <1>11 DEF ChildKilled
<1>. QED  BY <1>1, <1>2, <1>3, <1>4, <1>5, <1>6, <1>7, <1>8, <1>9, <1>10, <1>11
           DEF ChildSetup

LEMMA TypeOfHostDeath == ASSUME IInv, HostDies PROVE TypeOK'
BY DEF IInv, TypeOK, HostDies, ChildPcs, Exits, PipeEnds

-----------------------------------------------------------------------------
(* One step preserves what RunInv says of every run q: of the others        *)
(* because it leaves all alone that RunInv looks at, of the one that moves  *)
(* by the action.                                                           *)

OwnEnds(q) == {SyncR(q), SyncW(q), StatusR(q), StatusW(q)}

Untouched(q) ==
    /\ hostAlive' = hostAlive
    /\ ppc'[q] = ppc[q] /\ result'[q] = result[q] /\ maps'[q] = maps[q]
    /\ syncByte'[q] = syncByte[q] /\ record'[q] = record[q]
    /\ cpc'[q] = cpc[q] /\ stage'[q] = stage[q] /\ exit'[q] = exit[q]
    /\ childFds'[q] = childFds[q]
    /\ \A e \in OwnEnds(q) : e \in hostFds' <=> e \in hostFds
    /\ q \in inhabited' <=> q \in inhabited

LEMMA UntouchedKeeps ==
    ASSUME IInv, NEW q \in Runs, Untouched(q) PROVE RunInv(q)'
<1>1. MapLedger(q)'  BY DEF IInv, RunInv, MapLedger, Untouched
<1>2. ByteAfterMaps(q)'  BY DEF IInv, RunInv, ByteAfterMaps, Untouched
<1>3. ResultAtEnd(q)'  BY DEF IInv, RunInv, ResultAtEnd, Untouched
<1>4. EndsHeld(q)'
  BY DEF IInv, RunInv, EndsHeld, Untouched, OwnEnds, SyncR, SyncW, StatusR,
         StatusW, Replaced
<1>5. EndOfChild(q)'
  BY DEF IInv, RunInv, EndOfChild, Untouched, Muted, WriteRefused
<1>6. ResultMeans(q)'
  BY DEF IInv, RunInv, ResultMeans, Untouched, Muted, WriteRefused
<1>. QED  BY <1>1, <1>2, <1>3, <1>4, <1>5, <1>6 DEF RunInv

LEMMA HostLeavesOthers ==
    ASSUME IInv, NEW r \in Runs, HostThread(r) \/ SuperviseFails(r), NEW q \in Runs, q # r
    PROVE  Untouched(q)
<1> USE DEF IInv, TypeOK, Untouched, OwnEnds, At, GoTo, ReturnEarly, DropEnd,
        hostVars, childVars, SyncR, SyncW, StatusR, StatusW
<1>1. CASE Prepare(r)
  BY <1>1 DEF Prepare
<1>2. CASE CreateSyncPipe(r)
  BY <1>2 DEF CreateSyncPipe
<1>3. CASE CreateStatusPipe(r)
  BY <1>3 DEF CreateStatusPipe
<1>4. CASE Clone(r)
  BY <1>4 DEF Clone
<1>5. CASE DropSyncRead(r)
  BY <1>5 DEF DropSyncRead
<1>6. CASE DropStatusWrite(r)
  BY <1>6 DEF DropStatusWrite
<1>7. CASE WriteMap(r)
  BY <1>7 DEF WriteMap
<1>8. CASE DropSyncAfterFailure(r)
  BY <1>8 DEF DropSyncAfterFailure
<1>9. CASE AwaitFailedChild(r)
  BY <1>9 DEF AwaitFailedChild
<1>10. CASE WriteSync(r)
  BY <1>10 DEF WriteSync
<1>11. CASE DropSyncWrite(r)
  BY <1>11 DEF DropSyncWrite
<1>12. CASE ReapChild(r)
  BY <1>12 DEF ReapChild
<1>13. CASE SuperviseFails(r)
  BY <1>13 DEF SuperviseFails
<1>14. CASE Decode(r)
  BY <1>14 DEF Decode
<1>15. CASE Return(r)
  BY <1>15 DEF Return
<1>. QED  BY <1>1, <1>2, <1>3, <1>4, <1>5, <1>6, <1>7, <1>8, <1>9, <1>10,
           <1>11, <1>12, <1>13, <1>14, <1>15 DEF HostThread

LEMMA ChildLeavesOthers ==
    ASSUME IInv, NEW r \in Runs, ChildSetup(r) \/ CommandExits(r) \/ ChildKilled(r),
           NEW q \in Runs, q # r
    PROVE  Untouched(q)
<1> USE DEF IInv, TypeOK, Untouched, OwnEnds, hostVars, ChildAt, ChildGoTo,
        ChildFails, Dies
<1>1. CASE CloseParentEnds(r)
  BY <1>1 DEF CloseParentEnds
<1>2. CASE ArmParentDeath(r)
  BY <1>2 DEF ArmParentDeath
<1>3. CASE CheckParent(r)
  BY <1>3 DEF CheckParent
<1>4. CASE SyncWait(r)
  BY <1>4 DEF SyncWait
<1>5. CASE SetUp(r)
  BY <1>5 DEF SetUp
<1>6. CASE CloseOtherFds(r)
  BY <1>6 DEF CloseOtherFds
<1>7. CASE Confine(r)
  BY <1>7 DEF Confine
<1>8. CASE Execve(r)
  BY <1>8 DEF Execve
<1>9. CASE ReportAndExit(r)
  BY <1>9 DEF ReportAndExit
<1>10. CASE CommandExits(r)
  BY <1>10 DEF CommandExits
<1>11. CASE ChildKilled(r)
  BY <1>11 DEF ChildKilled
<1>. QED  BY <1>1, <1>2, <1>3, <1>4, <1>5, <1>6, <1>7, <1>8, <1>9, <1>10,
           <1>11 DEF ChildSetup

LEMMA OwnInvOfHostStep ==
    ASSUME IInv, NEW r \in Runs, HostThread(r) \/ SuperviseFails(r)
    PROVE  RunInv(r)'
<1> USE DEF IInv, RunInv, TypeOK, At, GoTo, ReturnEarly, DropEnd, hostVars,
        childVars, BeforeClone, BeforeMaps, BeforeByte, AfterMaps, InSetup,
        Unreleased, Released, Gone, Running, SyncR, SyncW, StatusR, StatusW,
        ChildAt, ChildGoTo, ChildFails, Dies, Open, CloexecEnds, Replaced,
        Muted, WriteRefused, AfterMappings, UnderFilter, Mapped
<1>1. CASE Prepare(r)
  <2> USE <1>1 DEF Prepare
  <2>1. MapLedger(r)'  BY DEF MapLedger
  <2>2. ByteAfterMaps(r)'  BY DEF ByteAfterMaps
  <2>3. ResultAtEnd(r)'  BY DEF ResultAtEnd
  <2>4. EndsHeld(r)'  BY DEF EndsHeld
  <2>5. EndOfChild(r)'  BY DEF EndOfChild
  <2>6. ResultMeans(r)'  BY DEF ResultMeans
  <2>. QED  BY <2>1, <2>2, <2>3, <2>4, <2>5, <2>6
<1>2. CASE CreateSyncPipe(r)
  <2> USE <1>2 DEF CreateSyncPipe
  <2>1. MapLedger(r)'  BY DEF MapLedger
  <2>2. ByteAfterMaps(r)'  BY DEF ByteAfterMaps
  <2>3. ResultAtEnd(r)'  BY DEF ResultAtEnd
  <2>4. EndsHeld(r)'  BY DEF EndsHeld
  <2>5. EndOfChild(r)'  BY DEF EndOfChild
  <2>6. ResultMeans(r)'  BY DEF ResultMeans
  <2>. QED  BY <2>1, <2>2, <2>3, <2>4, <2>5, <2>6
<1>3. CASE CreateStatusPipe(r)
  <2> USE <1>3 DEF CreateStatusPipe
  <2>1. MapLedger(r)'  BY DEF MapLedger
  <2>2. ByteAfterMaps(r)'  BY DEF ByteAfterMaps
  <2>3. ResultAtEnd(r)'  BY DEF ResultAtEnd
  <2>4. EndsHeld(r)'  BY DEF EndsHeld
  <2>5. EndOfChild(r)'  BY DEF EndOfChild
  <2>6. ResultMeans(r)'  BY DEF ResultMeans
  <2>. QED  BY <2>1, <2>2, <2>3, <2>4, <2>5, <2>6
<1>4. CASE Clone(r)
  <2> USE <1>4 DEF Clone
  <2>1. MapLedger(r)'  BY DEF MapLedger
  <2>2. ByteAfterMaps(r)'  BY DEF ByteAfterMaps
  <2>3. ResultAtEnd(r)'  BY DEF ResultAtEnd
  <2>4. EndsHeld(r)'  BY DEF EndsHeld
  <2>5. EndOfChild(r)'  BY DEF EndOfChild, ResultAtEnd
  <2>6. ResultMeans(r)'  BY DEF ResultMeans, ResultAtEnd
  <2>. QED  BY <2>1, <2>2, <2>3, <2>4, <2>5, <2>6
<1>5. CASE DropSyncRead(r)
  <2> USE <1>5 DEF DropSyncRead
  <2>1. MapLedger(r)'  BY DEF MapLedger
  <2>2. ByteAfterMaps(r)'  BY DEF ByteAfterMaps
  <2>3. ResultAtEnd(r)'  BY DEF ResultAtEnd
  <2>4. EndsHeld(r)'  BY DEF EndsHeld
  <2>5. EndOfChild(r)'  BY DEF EndOfChild
  <2>6. ResultMeans(r)'  BY DEF ResultMeans
  <2>. QED  BY <2>1, <2>2, <2>3, <2>4, <2>5, <2>6
<1>6. CASE DropStatusWrite(r)
  <2> USE <1>6 DEF DropStatusWrite
  <2>1. MapLedger(r)'  BY DEF MapLedger
  <2>2. ByteAfterMaps(r)'  BY DEF ByteAfterMaps
  <2>3. ResultAtEnd(r)'  BY DEF ResultAtEnd
  <2>4. EndsHeld(r)'  BY DEF EndsHeld
  <2>5. EndOfChild(r)'  BY DEF EndOfChild
  <2>6. ResultMeans(r)'  BY DEF ResultMeans
  <2>. QED  BY <2>1, <2>2, <2>3, <2>4, <2>5, <2>6
<1>7. CASE WriteMap(r)
  <2> USE <1>7 DEF WriteMap
  <2>1. MapLedger(r)'  BY DEF MapLedger, ResultAtEnd
  <2>2. ByteAfterMaps(r)'  BY DEF ByteAfterMaps
  <2>3. ResultAtEnd(r)'  BY DEF ResultAtEnd
  <2>4. EndsHeld(r)'  BY DEF EndsHeld
  <2>5. EndOfChild(r)'  BY DEF EndOfChild
  <2>6. ResultMeans(r)'  BY DEF ResultMeans
  <2>. QED  BY <2>1, <2>2, <2>3, <2>4, <2>5, <2>6
<1>8. CASE DropSyncAfterFailure(r)
  <2> USE <1>8 DEF DropSyncAfterFailure
  <2>1. MapLedger(r)'  BY DEF MapLedger
  <2>2. ByteAfterMaps(r)'  BY DEF ByteAfterMaps
  <2>3. ResultAtEnd(r)'  BY DEF ResultAtEnd
  <2>4. EndsHeld(r)'  BY DEF EndsHeld
  <2>5. EndOfChild(r)'  BY DEF EndOfChild
  <2>6. ResultMeans(r)'  BY DEF ResultMeans
  <2>. QED  BY <2>1, <2>2, <2>3, <2>4, <2>5, <2>6
<1>9. CASE AwaitFailedChild(r)
  <2> USE <1>9 DEF AwaitFailedChild
  <2>1. MapLedger(r)'  BY DEF MapLedger
  <2>2. ByteAfterMaps(r)'  BY DEF ByteAfterMaps
  <2>3. ResultAtEnd(r)'  BY DEF ResultAtEnd
  <2>4. EndsHeld(r)'  BY DEF EndsHeld
  <2>5. EndOfChild(r)'  BY DEF EndOfChild
  <2>6. ResultMeans(r)'  BY DEF ResultMeans
  <2>. QED  BY <2>1, <2>2, <2>3, <2>4, <2>5, <2>6
<1>10. CASE WriteSync(r)
  <2> USE <1>10 DEF WriteSync
  <2>1. MapLedger(r)'  BY DEF MapLedger
  <2>2. ByteAfterMaps(r)'  BY DEF ByteAfterMaps, MapLedger
  <2>3. ResultAtEnd(r)'  BY DEF ResultAtEnd
  <2>4. EndsHeld(r)'  BY DEF EndsHeld
  <2>5. EndOfChild(r)'  BY DEF EndOfChild
  <2>6. ResultMeans(r)'
    <3>1. cpc[r] \notin Released \cup {"none", "command"} /\ r \notin inhabited
      BY DEF ByteAfterMaps, EndOfChild, ResultAtEnd
    <3>2. CASE Open(SyncR(r))
      BY <3>2 DEF ResultMeans, ResultAtEnd
    <3>3. CASE ~Open(SyncR(r))
      <4>1. cpc[r] \notin Unreleased
        BY <3>3 DEF EndsHeld
      <4>2. cpc[r] \in {"failing"} \cup Gone
        BY <3>1, <4>1 DEF ChildPcs
      <4>3. UNCHANGED <<cpc, inhabited>> /\ result'[r] = "err_sync"
        BY <3>3
      <4>. QED  BY <3>1, <4>2, <4>3 DEF ResultMeans
    <3>. QED  BY <3>2, <3>3
  <2>. QED  BY <2>1, <2>2, <2>3, <2>4, <2>5, <2>6
<1>11. CASE DropSyncWrite(r)
  <2> USE <1>11 DEF DropSyncWrite
  <2>1. MapLedger(r)'  BY DEF MapLedger
  <2>2. ByteAfterMaps(r)'  BY DEF ByteAfterMaps
  <2>3. ResultAtEnd(r)'  BY DEF ResultAtEnd
  <2>4. EndsHeld(r)'  BY DEF EndsHeld
  <2>5. EndOfChild(r)'  BY DEF EndOfChild
  <2>6. ResultMeans(r)'  BY DEF ResultMeans
  <2>. QED  BY <2>1, <2>2, <2>3, <2>4, <2>5, <2>6
<1>12. CASE ReapChild(r)
  <2> USE <1>12 DEF ReapChild
  <2>1. MapLedger(r)'  BY DEF MapLedger
  <2>2. ByteAfterMaps(r)'  BY DEF ByteAfterMaps
  <2>3. ResultAtEnd(r)'  BY DEF ResultAtEnd
  <2>4. EndsHeld(r)'  BY DEF EndsHeld
  <2>5. EndOfChild(r)'  BY DEF EndOfChild
  <2>6. ResultMeans(r)'  BY DEF ResultMeans
  <2>. QED  BY <2>1, <2>2, <2>3, <2>4, <2>5, <2>6
<1>13. CASE SuperviseFails(r)
  <2> USE <1>13 DEF SuperviseFails
  <2>1. MapLedger(r)'  BY DEF MapLedger
  <2>2. ByteAfterMaps(r)'  BY DEF ByteAfterMaps
  <2>3. ResultAtEnd(r)'  BY DEF ResultAtEnd
  <2>4. EndsHeld(r)'  BY DEF EndsHeld
  <2>5. EndOfChild(r)'  BY DEF EndOfChild
  <2>6. ResultMeans(r)'  BY DEF ResultMeans
  <2>. QED  BY <2>1, <2>2, <2>3, <2>4, <2>5, <2>6
<1>14. CASE Decode(r)
  <2> USE <1>14 DEF Decode
  <2>1. MapLedger(r)'  BY DEF MapLedger
  <2>2. ByteAfterMaps(r)'  BY DEF ByteAfterMaps
  <2>3. ResultAtEnd(r)'  BY DEF ResultAtEnd
  <2>4. EndsHeld(r)'  BY DEF EndsHeld
  <2>5. EndOfChild(r)'  BY DEF EndOfChild
  <2>6. ResultMeans(r)'  BY DEF ResultMeans, ResultAtEnd, EndOfChild,
                                 EndsHeld, ChildPcs, Exits
  <2>. QED  BY <2>1, <2>2, <2>3, <2>4, <2>5, <2>6
<1>15. CASE Return(r)
  <2> USE <1>15 DEF Return
  <2>1. MapLedger(r)'  BY DEF MapLedger
  <2>2. ByteAfterMaps(r)'  BY DEF ByteAfterMaps
  <2>3. ResultAtEnd(r)'  BY DEF ResultAtEnd
  <2>4. EndsHeld(r)'  BY DEF EndsHeld
  <2>5. EndOfChild(r)'  BY DEF EndOfChild
  <2>6. ResultMeans(r)'  BY DEF ResultMeans
  <2>. QED  BY <2>1, <2>2, <2>3, <2>4, <2>5, <2>6
<1>. QED  BY <1>1, <1>2, <1>3, <1>4, <1>5, <1>6, <1>7, <1>8, <1>9, <1>10,
           <1>11, <1>12, <1>13, <1>14, <1>15 DEF HostThread

LEMMA OwnInvOfChildStep ==
    ASSUME IInv, NEW r \in Runs, ChildSetup(r) \/ CommandExits(r) \/ ChildKilled(r)
    PROVE  RunInv(r)'
<1> USE DEF IInv, RunInv, TypeOK, At, GoTo, ReturnEarly, DropEnd, hostVars,
        childVars, BeforeClone, BeforeMaps, BeforeByte, AfterMaps, InSetup,
        Unreleased, Released, Gone, Running, SyncR, SyncW, StatusR, StatusW,
        ChildAt, ChildGoTo, ChildFails, Dies, Open, CloexecEnds, Replaced,
        Muted, WriteRefused, AfterMappings, UnderFilter, Mapped
<1>1. CASE CloseParentEnds(r)
  <2> USE <1>1 DEF CloseParentEnds
  <2>1. MapLedger(r)'  BY DEF MapLedger
  <2>2. ByteAfterMaps(r)'  BY DEF ByteAfterMaps
  <2>3. ResultAtEnd(r)'  BY DEF ResultAtEnd
  <2>4. EndsHeld(r)'  BY DEF EndsHeld
  <2>5. EndOfChild(r)'  BY DEF EndOfChild
  <2>6. ResultMeans(r)'  BY DEF ResultMeans
  <2>. QED  BY <2>1, <2>2, <2>3, <2>4, <2>5, <2>6
<1>2. CASE ArmParentDeath(r)
  <2> USE <1>2 DEF ArmParentDeath
  <2>1. MapLedger(r)'  BY DEF MapLedger
  <2>2. ByteAfterMaps(r)'  BY DEF ByteAfterMaps
  <2>3. ResultAtEnd(r)'  BY DEF ResultAtEnd
  <2>4. EndsHeld(r)'  BY DEF EndsHeld
  <2>5. EndOfChild(r)'  BY DEF EndOfChild
  <2>6. ResultMeans(r)'  BY DEF ResultMeans
  <2>. QED  BY <2>1, <2>2, <2>3, <2>4, <2>5, <2>6
<1>3. CASE CheckParent(r)
  <2> USE <1>3 DEF CheckParent
  <2>1. MapLedger(r)'  BY DEF MapLedger
  <2>2. ByteAfterMaps(r)'  BY DEF ByteAfterMaps
  <2>3. ResultAtEnd(r)'  BY DEF ResultAtEnd
  <2>4. EndsHeld(r)'  BY DEF EndsHeld
  <2>5. EndOfChild(r)'  BY DEF EndOfChild
  <2>6. ResultMeans(r)'  BY DEF ResultMeans
  <2>. QED  BY <2>1, <2>2, <2>3, <2>4, <2>5, <2>6
<1>4. CASE SyncWait(r)
  <2> USE <1>4 DEF SyncWait
  <2>1. MapLedger(r)'  BY DEF MapLedger
  <2>2. ByteAfterMaps(r)'  BY DEF ByteAfterMaps
  <2>3. ResultAtEnd(r)'  BY DEF ResultAtEnd
  <2>4. EndsHeld(r)'  BY DEF EndsHeld
  <2>5. EndOfChild(r)'  BY DEF EndOfChild
  <2>6. ResultMeans(r)'  BY DEF ResultMeans
  <2>. QED  BY <2>1, <2>2, <2>3, <2>4, <2>5, <2>6
<1>5. CASE SetUp(r)
  <2> USE <1>5 DEF SetUp
  <2>1. MapLedger(r)'  BY DEF MapLedger
  <2>2. ByteAfterMaps(r)'  BY DEF ByteAfterMaps
  <2>3. ResultAtEnd(r)'  BY DEF ResultAtEnd
  <2>4. EndsHeld(r)'  BY DEF EndsHeld
  <2>5. EndOfChild(r)'  BY DEF EndOfChild
  <2>6. ResultMeans(r)'  BY DEF ResultMeans
  <2>. QED  BY <2>1, <2>2, <2>3, <2>4, <2>5, <2>6
<1>6. CASE CloseOtherFds(r)
  <2> USE <1>6 DEF CloseOtherFds
  <2>1. MapLedger(r)'  BY DEF MapLedger
  <2>2. ByteAfterMaps(r)'  BY DEF ByteAfterMaps
  <2>3. ResultAtEnd(r)'  BY DEF ResultAtEnd
  <2>4. EndsHeld(r)'
    <3>1. cpc'[r] \notin Unreleased /\ UNCHANGED <<hostAlive, ppc, hostFds>>
      OBVIOUS
    <3>2. r \notin FdsHitStatus => StatusW(r) \in childFds[r]
      BY DEF EndsHeld
    <3>3. r \in FdsHitStatus => Replaced(r)'
      <4>1. \/ cpc'[r] = "confine"
            \/ cpc'[r] = "failing" /\ stage'[r] = "Fd"
        OBVIOUS
      <4>2. "Fd" \in AfterMappings
        OBVIOUS
      <4>. QED  BY ONLY <4>1, <4>2 DEF Replaced
    <3>4. r \notin FdsHitStatus => StatusW(r) \in childFds'[r]
      BY <3>2
    <3>. QED  BY <3>1, <3>3, <3>4 DEF EndsHeld
  <2>5. EndOfChild(r)'  BY DEF EndOfChild
  <2>6. ResultMeans(r)'  BY DEF ResultMeans
  <2>. QED  BY <2>1, <2>2, <2>3, <2>4, <2>5, <2>6
<1>7. CASE Confine(r)
  <2> USE <1>7 DEF Confine
  <2>1. MapLedger(r)'  BY DEF MapLedger
  <2>2. ByteAfterMaps(r)'  BY DEF ByteAfterMaps
  <2>3. ResultAtEnd(r)'  BY DEF ResultAtEnd
  <2>4. EndsHeld(r)'  BY DEF EndsHeld
  <2>5. EndOfChild(r)'  BY DEF EndOfChild
  <2>6. ResultMeans(r)'  BY DEF ResultMeans
  <2>. QED  BY <2>1, <2>2, <2>3, <2>4, <2>5, <2>6
<1>8. CASE Execve(r)
  <2> USE <1>8 DEF Execve
  <2>1. MapLedger(r)'  BY DEF MapLedger
  <2>2. ByteAfterMaps(r)'  BY DEF ByteAfterMaps
  <2>3. ResultAtEnd(r)'  BY DEF ResultAtEnd
  <2>4. EndsHeld(r)'  BY DEF EndsHeld
  <2>5. EndOfChild(r)'  BY DEF EndOfChild
  <2>6. ResultMeans(r)'  BY DEF ResultMeans
  <2>. QED  BY <2>1, <2>2, <2>3, <2>4, <2>5, <2>6
<1>9. CASE ReportAndExit(r)
  <2> USE <1>9 DEF ReportAndExit
  <2>1. MapLedger(r)'  BY DEF MapLedger
  <2>2. ByteAfterMaps(r)'  BY DEF ByteAfterMaps
  <2>3. ResultAtEnd(r)'  BY DEF ResultAtEnd
  <2>4. EndsHeld(r)'  BY DEF EndsHeld
  <2>5. EndOfChild(r)'  BY DEF EndOfChild, EndsHeld, ResultAtEnd,
                                ParentPcs
  <2>6. ResultMeans(r)'  BY DEF ResultMeans, EndOfChild
  <2>. QED  BY <2>1, <2>2, <2>3, <2>4, <2>5, <2>6
<1>10. CASE CommandExits(r)
  <2> USE <1>10 DEF CommandExits
  <2>1. MapLedger(r)'  BY DEF MapLedger
  <2>2. ByteAfterMaps(r)'  BY DEF ByteAfterMaps
  <2>3. ResultAtEnd(r)'  BY DEF ResultAtEnd
  <2>4. EndsHeld(r)'  BY DEF EndsHeld
  <2>5. EndOfChild(r)'  BY DEF EndOfChild
  <2>6. ResultMeans(r)'  BY DEF ResultMeans, EndOfChild
  <2>. QED  BY <2>1, <2>2, <2>3, <2>4, <2>5, <2>6
<1>11. CASE ChildKilled(r)
  <2> USE <1>11 DEF ChildKilled
  <2>1. MapLedger(r)'  BY DEF MapLedger
  <2>2. ByteAfterMaps(r)'  BY DEF ByteAfterMaps
  <2>3. ResultAtEnd(r)'  BY DEF ResultAtEnd
  <2>4. EndsHeld(r)'  BY DEF EndsHeld
  <2>5. EndOfChild(r)'  BY DEF EndOfChild
  <2>6. ResultMeans(r)'  BY DEF ResultMeans
  <2>. QED  BY <2>1, <2>2, <2>3, <2>4, <2>5, <2>6
<1>. QED  BY <1>1, <1>2, <1>3, <1>4, <1>5, <1>6, <1>7, <1>8, <1>9, <1>10,
           <1>11 DEF ChildSetup

LEMMA RunInvOfHostStep ==
    ASSUME IInv, NEW r \in Runs, HostThread(r) \/ SuperviseFails(r),
           NEW q \in Runs
    PROVE  RunInv(q)'
<1>1. CASE q = r  BY <1>1, OwnInvOfHostStep
<1>2. CASE q # r  BY <1>2, HostLeavesOthers, UntouchedKeeps
<1>. QED  BY <1>1, <1>2

LEMMA RunInvOfChildStep ==
    ASSUME IInv, NEW r \in Runs, ChildSetup(r) \/ CommandExits(r) \/ ChildKilled(r),
           NEW q \in Runs
    PROVE  RunInv(q)'
<1>1. CASE q = r  BY <1>1, OwnInvOfChildStep
<1>2. CASE q # r  BY <1>2, ChildLeavesOthers, UntouchedKeeps
<1>. QED  BY <1>1, <1>2

LEMMA RunInvOfHostDeath ==
    ASSUME IInv, HostDies, NEW q \in Runs
    PROVE  RunInv(q)'
<1> USE DEF IInv, RunInv, TypeOK, HostDies, Gone, Running, ChildPcs
<1>1. /\ UNCHANGED <<ppc, result, maps, syncByte, record, stage, inhabited>>
      /\ hostAlive' = FALSE
      /\ \/ UNCHANGED <<cpc[q], exit[q], childFds[q]>>
         \/ cpc[q] \in Running /\ cpc'[q] = "zombie" /\ exit'[q] = "killed"
  OBVIOUS
<1>2. MapLedger(q)'  BY <1>1 DEF MapLedger
<1>3. ByteAfterMaps(q)'  BY <1>1 DEF ByteAfterMaps, Released
<1>4. ResultAtEnd(q)'  BY <1>1 DEF ResultAtEnd
<1>5. EndsHeld(q)'
  BY <1>1 DEF EndsHeld, InSetup, Unreleased, Replaced
<1>6. EndOfChild(q)'  BY <1>1 DEF EndOfChild
<1>7. ResultMeans(q)'  BY <1>1 DEF ResultMeans, Muted, WriteRefused, EndOfChild
<1>. QED  BY <1>2, <1>3, <1>4, <1>5, <1>6, <1>7

-----------------------------------------------------------------------------
(* The invariant holds throughout.                                          *)

LEMMA InitInv == Init => IInv
BY DEF Init, IInv, RunInv, TypeOK, MapLedger, ByteAfterMaps, ResultAtEnd,
       EndsHeld, EndOfChild, ResultMeans, BeforeMaps, BeforeClone, BeforeByte,
       AfterMaps, InSetup, Unreleased, Released, Gone, ParentPcs, ChildPcs,
       Results, Failures, Stages, Exits

LEMMA NextInv == IInv /\ [Next]_vars => IInv'
<1> SUFFICES ASSUME IInv, [Next]_vars PROVE IInv'
  OBVIOUS
<1>1. CASE HostDies
  BY <1>1, TypeOfHostDeath, RunInvOfHostDeath DEF IInv
<1>2. ASSUME NEW r \in Runs, HostThread(r) \/ SuperviseFails(r) PROVE IInv'
  BY <1>2, TypeOfHostStep, RunInvOfHostStep DEF IInv
<1>3. ASSUME NEW r \in Runs, ChildSetup(r) \/ CommandExits(r) \/ ChildKilled(r)
      PROVE  IInv'
  BY <1>3, TypeOfChildStep, RunInvOfChildStep DEF IInv
<1>4. CASE UNCHANGED vars
  BY <1>4 DEF vars, IInv, RunInv, TypeOK, MapLedger, ByteAfterMaps,
              ResultAtEnd, EndsHeld, EndOfChild, ResultMeans, Replaced, Muted,
              WriteRefused
<1>. QED  BY <1>1, <1>2, <1>3, <1>4 DEF Next, Environment

LEMMA Invariance == Spec => []IInv
BY InitInv, NextInv, PTL DEF Spec

-----------------------------------------------------------------------------
(* The promises that hold whatever the environment does.                    *)

\* Every variable of once mode keeps its type; in particular no more than the
\* three map files are written (write_id_maps).
THEOREM TypeCorrect == Spec => []TypeOK
<1>1. IInv => TypeOK  BY DEF IInv
<1>. QED  BY <1>1, Invariance, PTL

\* No child is past its sync wait, and no command runs, before the three ID
\* map files of its namespace are written (run_parent_setup, the sync read).
THEOREM MapsFirst == Spec => []MapsBeforeSetup
<1>1. IInv => MapsBeforeSetup
  BY DEF IInv, RunInv, ByteAfterMaps, MapsBeforeSetup
<1>. QED  BY <1>1, Invariance, PTL

\* Ok means that a command ran, that a signal took the child, or that the run's
\* own plan took the record away: an [fd] mapping onto the status pipe, with the
\* failure after it, or a filter that refuses the write, with the failure after
\* the filter.  Nothing else loses a record, under every interruption, kill and
\* failure (decode_child_failure, send_failure).
THEOREM NoSilentFailure == Spec => []NoSilentSetupFailure
<1>1. IInv => NoSilentSetupFailure
  BY DEF IInv, RunInv, ResultMeans, NoSilentSetupFailure
<1>. QED  BY <1>1, Invariance, PTL

\* A call that returned an error never has its command executed, where the
\* supervisor's own signalfd() and poll() do not fail (run_parent_setup).
THEOREM FailClosed ==
    ASSUME SuperviseMayFail = {}
    PROVE  Spec => []ErrorMeansNotInhabited
<1>1. IInv => ErrorMeansNotInhabited
  BY DEF IInv, RunInv, TypeOK, MapLedger, ByteAfterMaps, EndOfChild,
         ResultMeans, ErrorMeansNotInhabited, Failures
<1>. QED  BY <1>1, Invariance, PTL

-----------------------------------------------------------------------------
(* die_with_parent, where getppid() can tell that the parent is gone: the   *)
(* command is not in a PID namespace and orphans go to PID 1.               *)

\* Past the parent check a child is armed, and its host alive or itself gone.
ParentAlive ==
    \A r \in DieWithParent :
        /\ cpc[r] \notin {"none", "fresh", "pdeathsig", "failing"} \cup Gone => armed[r]
        /\ ~hostAlive => cpc[r] \in {"none", "fresh", "pdeathsig", "ppid",
                                     "failing"} \cup Gone

LEMMA ParentAliveStep ==
    ASSUME InitReaps, PidNs \cap DieWithParent = {},
           TypeOK, ParentAlive, [Next]_vars
    PROVE  ParentAlive'
<1> USE RunSets DEF TypeOK, ParentAlive, Gone, hostVars, childVars, At, GoTo,
        ReturnEarly, DropEnd, ChildAt, ChildGoTo, ChildFails, Dies
<1>1. CASE UNCHANGED vars
  BY <1>1 DEF vars
<1>2. CASE HostDies
  BY <1>2 DEF HostDies, Running, ChildPcs
<1>3. ASSUME NEW r \in Runs, HostThread(r) \/ SuperviseFails(r)
      PROVE  ParentAlive'
  <2>1. CASE Clone(r)
    BY <2>1 DEF Clone
  <2>2. CASE AwaitFailedChild(r) \/ ReapChild(r)
    BY <2>2 DEF AwaitFailedChild, ReapChild
  <2>3. CASE UNCHANGED childVars /\ UNCHANGED hostAlive
    BY <2>3
  <2>. QED
    BY <1>3, <2>1, <2>2, <2>3
    DEF HostThread, SuperviseFails, Prepare, CreateSyncPipe, CreateStatusPipe,
        DropSyncRead, DropStatusWrite, WriteMap, DropSyncAfterFailure,
        WriteSync, DropSyncWrite, Decode, Return
<1>4. ASSUME NEW r \in Runs, ChildSetup(r) \/ CommandExits(r) \/ ChildKilled(r)
      PROVE  ParentAlive'
  <2>1. CASE CloseParentEnds(r)
    BY <2>1 DEF CloseParentEnds
  <2>2. CASE CheckParent(r)
    BY <2>2 DEF CheckParent, ParentIsInit
  <2>3. CASE ArmParentDeath(r)
    <3>1. CASE ChildFails(r, "ParentDeathSignal") /\ UNCHANGED <<armed, hostAlive>>
      BY <3>1
    <3>2. CASE /\ armed' = [armed EXCEPT ![r] = r \in DieWithParent]
               /\ ChildGoTo(r, "ppid") /\ UNCHANGED hostAlive
      <4>1. r \in DieWithParent => armed'[r]
        BY <3>2, Zenon
      <4>2. \A q \in Runs \ {r} : armed'[q] = armed[q]
        BY <3>2
      <4>3. cpc' = [cpc EXCEPT ![r] = "ppid"] /\ UNCHANGED hostAlive
        BY <3>2
      <4>. QED  BY <2>3, <4>1, <4>2, <4>3 DEF ArmParentDeath
    <3>. QED  BY <2>3, <3>1, <3>2 DEF ArmParentDeath
  <2>4. CASE SyncWait(r) \/ SetUp(r) \/ CloseOtherFds(r) \/ Confine(r) \/ Execve(r)
    BY <2>4 DEF SyncWait, SetUp, CloseOtherFds, Confine, Execve
  <2>5. CASE ReportAndExit(r) \/ CommandExits(r) \/ ChildKilled(r)
    BY <2>5 DEF ReportAndExit, CommandExits, ChildKilled
  <2>. QED  BY <1>4, <2>1, <2>2, <2>3, <2>4, <2>5 DEF ChildSetup
<1>. QED  BY <1>1, <1>2, <1>3, <1>4 DEF Next, Environment

\* No command with die_with_parent outlives its host, whenever the host is
\* killed: the death signal and the check after it leave no gap
\* (runtime.rs, set_parent_death_signal and parent_died_before_setup).
THEOREM NoOrphan ==
    ASSUME InitReaps, PidNs \cap DieWithParent = {}
    PROVE  Spec => []NoOrphanCommand
<1>1. Init => ParentAlive
  BY RunSets DEF Init, ParentAlive, Gone
<1>2. TypeOK /\ ParentAlive /\ [Next]_vars => ParentAlive'
  BY ParentAliveStep
<1>3. ParentAlive => NoOrphanCommand
  BY DEF ParentAlive, NoOrphanCommand, Gone
<1>. QED  BY <1>1, <1>2, <1>3, TypeCorrect, PTL DEF Spec

-----------------------------------------------------------------------------
(* Pipes of the supervisor in a command, where every run closes the rest.   *)

\* What close_other_fds leaves and execve takes.
FdsClosed ==
    \A r \in CloseFds :
        /\ cpc[r] \in {"confine", "exec"} => childFds[r] \subseteq {StatusW(r)}
        /\ cpc[r] = "command" => childFds[r] = {}

LEMMA FdsClosedStep == TypeOK /\ FdsClosed /\ [Next]_vars => FdsClosed'
<1> SUFFICES ASSUME TypeOK, FdsClosed, [Next]_vars PROVE FdsClosed'
  OBVIOUS
<1> USE RunSets DEF TypeOK, FdsClosed, hostVars, childVars, At, GoTo,
        ReturnEarly, DropEnd, ChildAt, ChildGoTo, ChildFails, Dies
<1>1. CASE UNCHANGED vars
  BY <1>1 DEF vars
<1>2. CASE HostDies
  BY <1>2 DEF HostDies
<1>3. ASSUME NEW r \in Runs, HostThread(r) \/ SuperviseFails(r)
      PROVE  FdsClosed'
  <2>1. CASE Clone(r)
    BY <2>1 DEF Clone
  <2>2. CASE AwaitFailedChild(r) \/ ReapChild(r)
    BY <2>2 DEF AwaitFailedChild, ReapChild
  <2>3. CASE UNCHANGED childVars
    BY <2>3
  <2>. QED
    BY <1>3, <2>1, <2>2, <2>3
    DEF HostThread, SuperviseFails, Prepare, CreateSyncPipe, CreateStatusPipe,
        DropSyncRead, DropStatusWrite, WriteMap, DropSyncAfterFailure,
        WriteSync, DropSyncWrite, Decode, Return
<1>4. ASSUME NEW r \in Runs, ChildSetup(r) \/ CommandExits(r) \/ ChildKilled(r)
      PROVE  FdsClosed'
  <2>1. CASE CloseParentEnds(r) \/ ArmParentDeath(r) \/ CheckParent(r) \/ SyncWait(r)
    BY <2>1 DEF CloseParentEnds, ArmParentDeath, CheckParent, SyncWait
  <2>2. CASE SetUp(r) \/ CloseOtherFds(r) \/ Confine(r)
    BY <2>2 DEF SetUp, CloseOtherFds, Confine
  <2>3. CASE Execve(r)
    BY <2>3 DEF Execve, CloexecEnds, StatusW
  <2>4. CASE ReportAndExit(r) \/ CommandExits(r) \/ ChildKilled(r)
    BY <2>4 DEF ReportAndExit, CommandExits, ChildKilled
  <2>. QED  BY <1>4, <2>1, <2>2, <2>3, <2>4 DEF ChildSetup
<1>. QED  BY <1>1, <1>2, <1>3, <1>4 DEF Next, Environment

\* With close_fds in force for every run, no command holds an end of a control
\* pipe, its own or one of another run in flight (close_other_fds; the sync
\* pipe is inherited by every clone).
THEOREM NoPipeLeaks ==
    ASSUME CloseFds = Runs
    PROVE  Spec => []CommandHoldsNoPipe
<1>1. Init => FdsClosed
  BY RunSets DEF Init, FdsClosed
<1>2. FdsClosed => CommandHoldsNoPipe
  BY DEF FdsClosed, CommandHoldsNoPipe
<1>. QED  BY <1>1, <1>2, FdsClosedStep, TypeCorrect, PTL DEF Spec

-----------------------------------------------------------------------------
(* What a returned call leaves behind, and what it says of the report.  The *)
(* assumptions are about the surroundings of the call: no handler of the    *)
(* host interrupts its blocking calls, signalfd() and poll() work, nobody   *)
(* kills the child, and the host is not PID 1 of the child's namespace.     *)

Undisturbed ==
    /\ MayInterrupt = {} /\ SuperviseMayFail = {} /\ MayKill = {}
    /\ ArmMayFail = {}
    /\ HostIsInit => DieWithParent \subseteq PidNs

BeforeSync  == {"drop_sync_r", "drop_status_w", "maps", "maps_failed", "sync_write"}
EarlyStages == {"none", "ParentCheck", "SyncWait"}

\* Up to the byte the child waits, since the host holds the write end; so the
\* write of the byte never finds the pipe without a reader.
ChildWaits(r) ==
    hostAlive =>
      /\ ppc[r] \in {"status_pipe", "clone"} \cup BeforeSync => SyncW(r) \in hostFds
      /\ ppc[r] \in BeforeSync => cpc[r] \in Unreleased
      /\ stage[r] # "ParentCheck"

\* A result comes with a child that was never there or was reaped, and with
\* the record that this child left.
ResultTidy(r) ==
    /\ result[r] \notin {"err_sync", "err_supervise"}
    /\ result[r] \in {"err_early", "err_clone"} => cpc[r] = "none"
    /\ result[r] \in {"ok", "child_setup", "err_idmap"} => cpc[r] = "reaped"
    /\ result[r] = "ok" => record[r] = "none"
    /\ record[r] \in {"none", stage[r]}
    /\ maps[r] < 3 => stage[r] \in EarlyStages

TidyInv == \A r \in Runs : ChildWaits(r) /\ ResultTidy(r)

LEMMA TidyOfUntouched ==
    ASSUME TidyInv, NEW q \in Runs, Untouched(q)
    PROVE  (ChildWaits(q) /\ ResultTidy(q))'
<1>1. ChildWaits(q)'
  BY DEF TidyInv, ChildWaits, Untouched, OwnEnds
<1>2. ResultTidy(q)'
  BY DEF TidyInv, ResultTidy, Untouched
<1>. QED  BY <1>1, <1>2

LEMMA TidyOfHostStep ==
    ASSUME Undisturbed, IInv, TidyInv, NEW r \in Runs, HostThread(r)
    PROVE  (ChildWaits(r) /\ ResultTidy(r))'
<1> USE DEF IInv, RunInv, TypeOK, TidyInv, ChildWaits, ResultTidy, BeforeSync,
        Unreleased, ResultAtEnd, MapLedger, At, GoTo, ReturnEarly, DropEnd,
        childVars, SyncR, SyncW, StatusR, StatusW, BeforeClone, BeforeMaps
<1>1. CASE Prepare(r)
  BY <1>1 DEF Prepare
<1>2. CASE CreateSyncPipe(r)
  BY <1>2 DEF CreateSyncPipe
<1>3. CASE CreateStatusPipe(r)
  BY <1>3 DEF CreateStatusPipe
<1>4. CASE Clone(r)
  BY <1>4 DEF Clone
<1>5. CASE DropSyncRead(r)
  BY <1>5 DEF DropSyncRead
<1>6. CASE DropStatusWrite(r)
  BY <1>6 DEF DropStatusWrite
<1>7. CASE WriteMap(r)
  BY <1>7 DEF WriteMap
<1>8. CASE DropSyncAfterFailure(r)
  BY <1>8 DEF DropSyncAfterFailure
<1>9. CASE AwaitFailedChild(r)
  BY <1>9 DEF AwaitFailedChild, Undisturbed
<1>10. CASE WriteSync(r)
  <2>1. Open(SyncR(r))
    BY <1>10 DEF WriteSync, EndsHeld, Open
  <2>. QED  BY <1>10, <2>1 DEF WriteSync
<1>11. CASE DropSyncWrite(r)
  BY <1>11 DEF DropSyncWrite
<1>12. CASE ReapChild(r)
  BY <1>12 DEF ReapChild
<1>13. CASE Decode(r)
  BY <1>13 DEF Decode
<1>14. CASE Return(r)
  BY <1>14 DEF Return
<1>. QED  BY <1>1, <1>2, <1>3, <1>4, <1>5, <1>6, <1>7, <1>8, <1>9, <1>10,
           <1>11, <1>12, <1>13, <1>14 DEF HostThread

LEMMA TidyOfChildStep ==
    ASSUME Undisturbed, IInv, TidyInv, NEW r \in Runs,
           ChildSetup(r) \/ CommandExits(r)
    PROVE  (ChildWaits(r) /\ ResultTidy(r))'
<1> USE DEF IInv, RunInv, TypeOK, TidyInv, ChildWaits, ResultTidy, BeforeSync,
        EarlyStages, Unreleased, hostVars, ChildAt, ChildGoTo, ChildFails, Dies
<1>1. CASE CloseParentEnds(r)
  BY <1>1 DEF CloseParentEnds
<1>2. CASE ArmParentDeath(r)
  BY <1>2 DEF ArmParentDeath, Undisturbed
<1>3. CASE CheckParent(r)
  BY <1>3 DEF CheckParent, ParentIsInit, Undisturbed, EndOfChild, Gone
<1>4. CASE SyncWait(r)
  <2>1. hostAlive => ppc[r] \notin BeforeSync
    BY <1>4 DEF SyncWait, ByteAfterMaps, BeforeByte, BeforeMaps, Open
  <2>. QED  BY <1>4, <2>1 DEF SyncWait, EndOfChild, Gone
<1>5. CASE SetUp(r) \/ CloseOtherFds(r) \/ Confine(r) \/ Execve(r)
  <2>1. maps[r] = 3
    BY <1>5 DEF SetUp, CloseOtherFds, Confine, Execve, ByteAfterMaps, Released
  <2>2. record[r] = "none"
    BY <1>5 DEF SetUp, CloseOtherFds, Confine, Execve, EndOfChild, Gone
  <2>. QED
    BY <1>5, <2>1, <2>2 DEF SetUp, CloseOtherFds, Confine, Execve
<1>6. CASE ReportAndExit(r)
  BY <1>6 DEF ReportAndExit
<1>7. CASE CommandExits(r)
  BY <1>7 DEF CommandExits
<1>. QED  BY <1>1, <1>2, <1>3, <1>4, <1>5, <1>6, <1>7 DEF ChildSetup

LEMMA TidyOfHostDeath ==
    ASSUME IInv, TidyInv, HostDies
    PROVE  TidyInv'
<1> SUFFICES ASSUME NEW q \in Runs PROVE (ChildWaits(q) /\ ResultTidy(q))'
  BY DEF TidyInv
<1>1. ChildWaits(q)'
  BY DEF HostDies, ChildWaits
<1>2. cpc[q] \in {"none", "reaped"} => cpc'[q] = cpc[q]
  BY DEF HostDies, Running, IInv, TypeOK
<1>3. ResultTidy(q)'
  BY <1>2 DEF HostDies, TidyInv, ResultTidy
<1>. QED  BY <1>1, <1>3

LEMMA TidyStep ==
    ASSUME Undisturbed PROVE IInv /\ TidyInv /\ [Next]_vars => TidyInv'
<1> SUFFICES ASSUME IInv, TidyInv, [Next]_vars PROVE TidyInv'
  OBVIOUS
<1>1. CASE UNCHANGED vars
  BY <1>1 DEF vars, TidyInv, ChildWaits, ResultTidy
<1>2. CASE HostDies
  BY <1>2, TidyOfHostDeath
<1>3. ASSUME NEW r \in Runs, HostThread(r) PROVE TidyInv'
  BY <1>3, TidyOfHostStep, HostLeavesOthers, TidyOfUntouched DEF TidyInv
<1>4. ASSUME NEW r \in Runs, ChildSetup(r) \/ CommandExits(r) PROVE TidyInv'
  BY <1>4, TidyOfChildStep, ChildLeavesOthers, TidyOfUntouched DEF TidyInv
<1>5. ASSUME NEW r \in Runs, SuperviseFails(r) \/ ChildKilled(r) PROVE FALSE
  BY <1>5 DEF SuperviseFails, ChildKilled, Undisturbed
<1>. QED  BY <1>1, <1>2, <1>3, <1>4, <1>5 DEF Next, Environment

LEMMA TidyAlways == ASSUME Undisturbed PROVE Spec => []TidyInv
<1>1. Init => TidyInv
  <2> SUFFICES ASSUME Init, NEW r \in Runs PROVE ChildWaits(r) /\ ResultTidy(r)
    BY Zenon DEF TidyInv
  <2>1. ChildWaits(r)
    BY DEF Init, ChildWaits, BeforeSync
  <2>2. ResultTidy(r)
    BY DEF Init, ResultTidy, EarlyStages
  <2>. QED  BY <2>1, <2>2
<1>. QED  BY <1>1, TidyStep, Invariance, PTL DEF Spec

\* A call that nobody disturbs leaves no child behind, on any of its ways out
\* (run_parent_setup: waitpid after a refused map, wait_for_child).
THEOREM NobodyLeftBehind ==
    ASSUME Undisturbed
    PROVE  Spec => []NothingLeftBehind
<1>1. IInv /\ TidyInv => NothingLeftBehind
  <2> SUFFICES ASSUME IInv, TidyInv, NEW r \in Runs, ppc[r] = "done"
               PROVE  cpc[r] \in {"none", "reaped"}
    BY DEF NothingLeftBehind
  <2>1. result[r] \in Results \ {"none"}
    BY DEF IInv, RunInv, ResultAtEnd, TypeOK
  <2>. QED  BY <2>1 DEF TidyInv, ResultTidy, Results, Failures
<1>. QED  BY <1>1, TidyAlways, Invariance, PTL

\* What its child reports is what an undisturbed call returns
\* (decode_child_failure; the report of a child whose maps were refused only
\* echoes the caller's own error).
THEOREM ReportsArrive ==
    ASSUME Undisturbed
    PROVE  Spec => []ReportReachesCaller
<1>1. IInv /\ TidyInv => ReportReachesCaller
  <2> SUFFICES ASSUME IInv, TidyInv, NEW r \in Runs, At(r, "done"),
                      record[r] \notin {"none", "SyncWait"}
               PROVE  result[r] = "child_setup"
    BY DEF ReportReachesCaller
  <2>1. result[r] \in Results \ {"none"}
    BY DEF IInv, RunInv, ResultAtEnd, TypeOK, At
  <2>2. record[r] = stage[r] /\ stage[r] # "ParentCheck"
    BY DEF TidyInv, ResultTidy, ChildWaits, At
  <2>3. cpc[r] # "none"
    BY DEF IInv, RunInv, EndOfChild, Gone
  <2>4. result[r] # "err_idmap"
    BY <2>2 DEF IInv, RunInv, MapLedger, TidyInv, ResultTidy, EarlyStages
  <2>. QED  BY <2>1, <2>3, <2>4 DEF TidyInv, ResultTidy, Results, Failures
<1>. QED  BY <1>1, TidyAlways, Invariance, PTL

-----------------------------------------------------------------------------
(* Once mode implements RunContract.                                        *)

LEMMA ContractInit == Init => RC!Init
<1> SUFFICES ASSUME Init PROVE RC!Init
  OBVIOUS
<1>1. \A q \in Runs : ContractChild(q) = "none" /\ ContractOutcome(q) = "none"
  BY DEF Init, ContractChild, ContractOutcome, Gone
<1>2. {q \in Runs : exit[q] = "killed"} = {}
  BY DEF Init
<1>. QED  BY <1>1, <1>2 DEF Init, RC!Init

\* A step that leaves the contract's view of every run alone.
LEMMA ContractStutter ==
    ASSUME TypeOK,
           \A q \in Runs : /\ cpc'[q] = cpc[q] \/ {cpc[q], cpc'[q]} \subseteq Gone
                              \/ {cpc[q], cpc'[q]} \subseteq InSetup
                           /\ result'[q] = result[q] /\ exit'[q] = exit[q],
           inhabited' = inhabited
    PROVE  UNCHANGED RC!vars
BY DEF RC!vars, ContractChild, ContractOutcome, Gone, InSetup

\* A host thread that returns an error before its command ran.
LEMMA ContractError ==
    ASSUME IInv, NEW r \in Runs, result[r] = "none", r \notin inhabited,
           NEW why \in Failures \cup {"child_setup"},
           result' = [result EXCEPT ![r] = why],
           \A q \in Runs : cpc'[q] = cpc[q] \/ {cpc[q], cpc'[q]} \subseteq Gone,
           UNCHANGED <<exit, inhabited>>
    PROVE  RC!ReturnError(r)
<1>1. \A q \in Runs : ContractChild(q)' = ContractChild(q)
  BY DEF ContractChild, Gone
<1>2. \A q \in Runs : ContractOutcome(q)' = IF q = r THEN "error" ELSE ContractOutcome(q)
  BY DEF ContractOutcome, Failures, IInv, TypeOK
<1>3. ContractOutcome(r) = "none"
  BY DEF ContractOutcome
<1>. QED  BY <1>1, <1>2, <1>3 DEF RC!ReturnError

\* Children that end, by themselves or killed.
LEMMA ContractEnd ==
    ASSUME IInv, NEW dead \in SUBSET Runs, NEW how \in Exits \ {"none"},
           \A q \in dead : cpc[q] \in InSetup \cup {"command"},
           cpc' = [q \in Runs |-> IF q \in dead THEN "zombie" ELSE cpc[q]],
           exit' = [q \in Runs |-> IF q \in dead THEN how ELSE exit[q]],
           UNCHANGED <<result, inhabited>>
    PROVE  RC!End
<1> DEFINE k == IF how = "killed" THEN dead ELSE {}
<1>1. \A q \in dead : ContractChild(q) \in {"setup", "command"}
  BY DEF ContractChild, InSetup, Gone
<1>2. \A q \in Runs : ContractChild(q)' = IF q \in dead THEN "gone" ELSE ContractChild(q)
  BY DEF ContractChild, Gone
<1>3. \A q \in dead : exit[q] = "none"
  BY DEF IInv, RunInv, EndOfChild, InSetup, Gone
<1>4. {q \in Runs : exit'[q] = "killed"} = {q \in Runs : exit[q] = "killed"} \cup k
  BY <1>3
<1>5. \A q \in Runs : ContractOutcome(q)' = ContractOutcome(q)
  BY DEF ContractOutcome
<1>6. k \in SUBSET dead
  OBVIOUS
<1>7. dead \in SUBSET {q \in Runs : [c \in Runs |-> ContractChild(c)][q]
                                        \in {"setup", "command"}}
  BY <1>1
<1>8. [q \in Runs |-> ContractChild(q)]' =
          [q \in Runs |-> IF q \in dead THEN "gone"
                          ELSE [c \in Runs |-> ContractChild(c)][q]]
  BY <1>2
<1>9. UNCHANGED [q \in Runs |-> ContractOutcome(q)]
  BY <1>5
<1>. HIDE DEF k
<1>. QED  BY <1>4, <1>6, <1>7, <1>8, <1>9 DEF RC!End

\* Where the command is run, nothing was returned yet, and the other way round.
LEMMA NoResultInSetup ==
    ASSUME SuperviseMayFail = {}, IInv, NEW r \in Runs, cpc[r] = "exec"
    PROVE  result[r] = "none"
BY DEF IInv, RunInv, TypeOK, MapLedger, ByteAfterMaps, EndOfChild, ResultMeans,
       Released, Gone, Results, Failures

LEMMA ContractHostStep ==
    ASSUME IInv, NEW r \in Runs, HostThread(r)
    PROVE  RC!Next \/ UNCHANGED RC!vars
<1> USE DEF At, GoTo, hostVars, childVars
<1>1. ppc[r] \notin {"return", "done"} => result[r] = "none"
  BY DEF IInv, RunInv, ResultAtEnd
<1>2. ppc[r] \in BeforeByte => r \notin inhabited
  BY DEF IInv, RunInv, ByteAfterMaps
<1>3. CASE UNCHANGED <<cpc, result, exit, inhabited>>
  BY <1>3, ContractStutter DEF IInv
<1>4. CASE ReturnEarly(r, "err_early") /\ UNCHANGED childVars /\ ppc[r] \in BeforeClone
  BY <1>1, <1>2, <1>4, ContractError
     DEF ReturnEarly, Failures, RC!Next, BeforeByte, BeforeMaps, BeforeClone
<1>5. CASE Clone(r) /\ cpc'[r] # "fresh"
  BY <1>1, <1>2, <1>5, ContractError
     DEF Clone, ReturnEarly, Failures, RC!Next, BeforeByte, BeforeMaps,
         BeforeClone, IInv, TypeOK
<1>6. CASE Clone(r) /\ cpc'[r] = "fresh"
  <2>1. cpc[r] = "none" /\ result[r] = "none"
    BY <1>6, <1>1 DEF Clone, IInv, RunInv, ResultAtEnd, BeforeClone
  <2>2. cpc' = [cpc EXCEPT ![r] = "fresh"] /\ UNCHANGED <<result, exit, inhabited>>
    BY <1>6, <2>1 DEF Clone
  <2>3. \A q \in Runs : ContractChild(q)' = IF q = r THEN "setup" ELSE ContractChild(q)
    BY <2>2 DEF ContractChild, Gone, IInv, TypeOK
  <2>4. ContractChild(r) = "none" /\ ContractOutcome(r) = "none"
    BY <2>1 DEF ContractChild, ContractOutcome, Gone
  <2>5. \A q \in Runs : ContractOutcome(q)' = ContractOutcome(q)
    BY <2>2 DEF ContractOutcome
  <2>6. RC!Start(r)
    BY <2>2, <2>3, <2>4, <2>5 DEF RC!Start
  <2>. QED  BY <2>6 DEF RC!Next
<1>7. CASE AwaitFailedChild(r)
  BY <1>1, <1>2, <1>7, ContractError
     DEF AwaitFailedChild, Failures, RC!Next, BeforeByte, Gone, IInv, TypeOK
<1>8. CASE WriteSync(r) /\ result' = [result EXCEPT ![r] = "err_sync"]
  BY <1>1, <1>2, <1>8, ContractError
     DEF WriteSync, Failures, RC!Next, BeforeByte
<1>9. CASE ReapChild(r)
  BY <1>9, ContractStutter DEF ReapChild, Gone, IInv, TypeOK
<1>10. CASE Decode(r) /\ record[r] # "none"
  BY <1>1, <1>10, ContractError
     DEF Decode, RC!Next, IInv, RunInv, EndOfChild
<1>11. CASE Decode(r) /\ record[r] = "none"
  <2>1. cpc[r] = "reaped" /\ result[r] = "none" /\ hostAlive
    BY <1>1, <1>11 DEF Decode, IInv, RunInv, ResultAtEnd
  <2>2. r \in inhabited \cup {q \in Runs : exit[q] = "killed"}
                \cup (FdsHitStatus \cup FilterRefuses)
    BY <1>11, <2>1
    DEF IInv, RunInv, EndOfChild, TypeOK, Exits, Gone, Muted, WriteRefused
  <2>3. result' = [result EXCEPT ![r] = "ok"] /\ UNCHANGED childVars
    BY <1>11 DEF Decode
  <2>4. \A q \in Runs : ContractOutcome(q)' = IF q = r THEN "ok" ELSE ContractOutcome(q)
    BY <2>3 DEF ContractOutcome, IInv, TypeOK
  <2>5. \A q \in Runs : ContractChild(q)' = ContractChild(q)
    BY <2>3 DEF ContractChild, Gone
  <2>6. ContractChild(r) = "gone" /\ ContractOutcome(r) = "none"
    BY <2>1 DEF ContractChild, ContractOutcome, Gone
  <2>7. RC!ReturnOk(r)
    BY <2>2, <2>3, <2>4, <2>5, <2>6 DEF RC!ReturnOk
  <2>. QED  BY <2>7 DEF RC!Next
<1>. QED
  BY <1>3, <1>4, <1>5, <1>6, <1>7, <1>8, <1>9, <1>10, <1>11
  DEF HostThread, Prepare, CreateSyncPipe, CreateStatusPipe, DropSyncRead,
      DropStatusWrite, WriteMap, DropSyncAfterFailure, WriteSync,
      DropSyncWrite, Decode, Return, DropEnd, BeforeClone

LEMMA ContractChildStep ==
    ASSUME SuperviseMayFail = {}, IInv, NEW r \in Runs,
           ChildSetup(r) \/ CommandExits(r) \/ ChildKilled(r)
    PROVE  RC!Next \/ UNCHANGED RC!vars
<1> USE DEF ChildAt, ChildGoTo, hostVars
<1>1. CASE \/ CloseParentEnds(r) \/ ArmParentDeath(r) \/ CheckParent(r)
           \/ SyncWait(r) \/ SetUp(r) \/ CloseOtherFds(r) \/ Confine(r)
           \/ Execve(r) /\ cpc'[r] # "command"
  <2>1. cpc[r] \in InSetup
    BY <1>1 DEF CloseParentEnds, ArmParentDeath, CheckParent, SyncWait, SetUp,
                CloseOtherFds, Confine, Execve, InSetup
  <2>2. \E to \in InSetup : cpc' = [cpc EXCEPT ![r] = to]
    BY <1>1 DEF CloseParentEnds, ArmParentDeath, CheckParent, SyncWait, SetUp,
                CloseOtherFds, Confine, Execve, ChildFails, InSetup, IInv, TypeOK
  <2>3. UNCHANGED <<result, exit, inhabited>>
    BY <1>1 DEF CloseParentEnds, ArmParentDeath, CheckParent, SyncWait, SetUp,
                CloseOtherFds, Confine, Execve, IInv, TypeOK
  <2>4. UNCHANGED RC!vars
    BY <2>1, <2>2, <2>3, ContractStutter DEF IInv, TypeOK
  <2>. QED  BY <2>4
<1>2. CASE Execve(r) /\ cpc'[r] = "command"
  <2>1. cpc[r] = "exec" /\ result[r] = "none"
    BY <1>2, NoResultInSetup DEF Execve
  <2>2. /\ cpc' = [cpc EXCEPT ![r] = "command"]
        /\ inhabited' = inhabited \cup {r}
        /\ UNCHANGED <<result, exit>>
    BY <1>2 DEF Execve, ChildFails, IInv, TypeOK
  <2>3. \A q \in Runs : ContractChild(q)' = IF q = r THEN "command" ELSE ContractChild(q)
    BY <2>2 DEF ContractChild, Gone, IInv, TypeOK
  <2>4. ContractChild(r) = "setup" /\ ContractOutcome(r) = "none"
    BY <2>1 DEF ContractChild, ContractOutcome, Gone
  <2>5. \A q \in Runs : ContractOutcome(q)' = ContractOutcome(q)
    BY <2>2 DEF ContractOutcome
  <2>6. RC!Inhabit(r)
    BY <2>2, <2>3, <2>4, <2>5 DEF RC!Inhabit
  <2>. QED  BY <2>6 DEF RC!Next
<1>3. CASE ReportAndExit(r) \/ CommandExits(r) \/ ChildKilled(r)
  <2>1. PICK how \in Exits \ {"none"} : Dies(r, how)
    BY <1>3 DEF ReportAndExit, CommandExits, ChildKilled, Exits
  <2>2. cpc[r] \in InSetup \cup {"command"}
    BY <1>3 DEF ReportAndExit, CommandExits, ChildKilled, Running, ChildPcs, InSetup
  <2>3. UNCHANGED <<result, inhabited>>
    BY <1>3 DEF ReportAndExit, CommandExits, ChildKilled
  <2>4. /\ cpc' = [q \in Runs |-> IF q \in {r} THEN "zombie" ELSE cpc[q]]
        /\ exit' = [q \in Runs |-> IF q \in {r} THEN how ELSE exit[q]]
    BY <2>1 DEF Dies, IInv, TypeOK
  <2> DEFINE dead == {r}
  <2>5. dead \in SUBSET Runs /\ \A q \in dead : cpc[q] \in InSetup \cup {"command"}
    BY <2>2
  <2>6. /\ cpc' = [q \in Runs |-> IF q \in dead THEN "zombie" ELSE cpc[q]]
        /\ exit' = [q \in Runs |-> IF q \in dead THEN how ELSE exit[q]]
    BY <2>4
  <2>. HIDE DEF dead
  <2>7. RC!End
    BY <2>3, <2>5, <2>6, ContractEnd
  <2>. QED  BY <2>7 DEF RC!Next
<1>. QED  BY <1>1, <1>2, <1>3 DEF ChildSetup

LEMMA ContractHostDeath ==
    ASSUME IInv, HostDies
    PROVE  RC!Next \/ UNCHANGED RC!vars
<1> DEFINE doomed == {c \in Runs : armed[c] /\ cpc[c] \in Running}
<1>1. /\ cpc' = [q \in Runs |-> IF q \in doomed THEN "zombie" ELSE cpc[q]]
      /\ exit' = [q \in Runs |-> IF q \in doomed THEN "killed" ELSE exit[q]]
      /\ UNCHANGED <<result, inhabited>>
  BY DEF HostDies
<1>2. \A q \in doomed : cpc[q] \in InSetup \cup {"command"}
  BY DEF Running, ChildPcs, InSetup
<1>3. doomed \in SUBSET Runs
  OBVIOUS
<1>. HIDE DEF doomed
<1>4. RC!End
  BY <1>1, <1>2, <1>3, ContractEnd DEF Exits
<1>. QED  BY <1>4 DEF RC!Next

\* Seen through the control states of its children and its results, once mode
\* is RunContract: a call ends at most once, Ok only after a dead child whose
\* command ran, that was killed or whose plan can silence it, an error only when
\* the command never ran and never will (Sandbox::run).
THEOREM KeepsContract ==
    ASSUME SuperviseMayFail = {}
    PROVE  Spec => Contract
<1>1. IInv /\ [Next]_vars => [RC!Next]_(RC!vars)
  <2> SUFFICES ASSUME IInv, [Next]_vars PROVE RC!Next \/ UNCHANGED RC!vars
    OBVIOUS
  <2>1. CASE UNCHANGED vars
    <3>1. UNCHANGED <<cpc, result, exit, inhabited>>
      BY <2>1 DEF vars
    <3>. QED  BY <3>1, ContractStutter DEF IInv
  <2>2. ASSUME NEW r \in Runs, SuperviseFails(r) PROVE FALSE
    BY <2>2 DEF SuperviseFails
  <2>. QED
    BY <2>1, <2>2, ContractHostStep, ContractChildStep, ContractHostDeath
    DEF Next, Environment
<1>. QED  BY <1>1, ContractInit, Invariance, PTL DEF Spec, Contract, RC!Spec
=============================================================================
