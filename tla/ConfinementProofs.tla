------------------------- MODULE ConfinementProofs -------------------------
(***************************************************************************)
(* What holds of Confinement for every configuration, every kernel and     *)
(* any number of calls: each property that the runs check of it.           *)
(***************************************************************************)
EXTENDS Confinement, TLAPS

-----------------------------------------------------------------------------
(* The inductive invariant, by the pieces of state it is about.            *)

\* The stages of pnut_child::run, and where they end.
Inside == {"place", "limits", "landlock", "caps", "session", "nnp", "exec", "command"}

\* In execve mode the plan is made between the ID maps and the stages.
Mapped == pc \in Inside \/ (pc = "prepare" /\ c.mode # "once")
Entered == pc = "maps" \/ Mapped

\* Which namespaces can be entered before execve.
EnteredKinds == IF c.mode = "once" THEN c.namespaces ELSE c.namespaces \ {"pid", "time"}

CallerInv ==
    /\ c \in Configs /\ kernel \in Kernels
    /\ pc \notin {"build", "rejected"} => Valid(c)
    /\ pc \in {"build", "rejected", "built"} <=> calls = 0
    /\ pc = "clone" => c.mode = "once"
    /\ pc = "unshare" => c.mode # "once"
    /\ c.mode = "once" => callerNs = {}
    /\ callerNs \in {{}, c.namespaces \ {"pid", "time"}}
    /\ calls = 0 \/ (pc = "unshare" /\ calls = 1) => callerNs = {}
    /\ calls <= 1 /\ pc \notin {"returned", "rejected"} => result = "none"
    /\ calls <= 1 /\ result = "clone" => callerNs = {}

NamespacesInv ==
    /\ Entered => EnteredKinds \subseteq ns
    /\ pc = "command" /\ kernel.timeOnExec => c.namespaces \cap {"time"} \subseteq ns
    /\ pc \notin (Inside \cup {"exited"}) \ {"place"} => placed = {}
    /\ "mounts" \in placed => "mount" \in ns
    /\ "hostname" \in placed => "uts" \in ns
    /\ "loopback" \in placed => "net" \in ns

MapsInv ==
    /\ Mapped => maps = 3 /\ "user" \in c.namespaces
    /\ pc = "maps" => maps \in 0..2
    /\ pc \in {"clone", "unshare"} \/ (pc = "prepare" /\ c.mode = "once") => maps = 0

\* The capabilities before and after DropCaps, and of the command.
CredInv ==
    /\ Entered /\ "user" \in c.namespaces /\ pc \notin {"session", "nnp", "exec", "command"}
         => cred = FullCred(kernel)
    /\ pc \in {"session", "nnp", "exec"} /\ "capabilities" \in c.sections
         => cred = [permitted   |-> kernel.caps \cap c.keep,
                    inheritable |-> kernel.caps \cap c.keep,
                    bounding    |-> kernel.caps \ (CrateCaps \ c.keep)]
    /\ pc = "command" /\ "capabilities" \in c.sections
         => /\ cred.bounding = kernel.caps \ (CrateCaps \ c.keep)
            /\ kernel.caps \cap c.keep \subseteq cred.inheritable
            /\ c.insideRoot => kernel.caps \cap c.keep \subseteq cred.permitted
            /\ noNewPrivs \/ kernel.caps \subseteq CrateCaps => cred.permitted \subseteq c.keep
            /\ kernel.caps \subseteq CrateCaps => cred.inheritable \subseteq c.keep

LimitsInv ==
    /\ limits \in [DOMAIN kernel.hard -> 0..MaxU64]
    /\ pc \notin {"landlock", "caps", "session", "nnp", "exec", "command", "exited"}
         => limits = kernel.hard
    /\ pc \in {"landlock", "caps", "session", "nnp", "exec", "command"}
         => /\ \A r \in DOMAIN c.rlimits : limits[r] = LimitOf(r, c.rlimits[r])
            /\ \A r \in DOMAIN kernel.hard \ DOMAIN c.rlimits : limits[r] = kernel.hard[r]

DomainsInv ==
    pc \in {"caps", "session", "nnp", "exec", "command"} /\ "landlock" \in c.sections
        => domains = {LandlockPlan(c.landlock)}

IInv ==
    /\ CallerInv /\ NamespacesInv /\ MapsInv /\ CredInv /\ LimitsInv /\ DomainsInv
    /\ TypeOK /\ RefusedForAReason

-----------------------------------------------------------------------------
(* The plans.                                                              *)

\* The word and the bit in it give back the number of the capability.
LEMMA BitIsNumber == ASSUME NEW keep \in SUBSET (0..63) PROVE CapsPlan(keep).kept = keep
<1>1. ASSUME NEW nr \in 0..63 PROVE Bit(nr) = nr
  <2>1. CASE nr <= 31
    <3>1. nr % 32 = nr
      BY <2>1
    <3> QED BY <2>1, <3>1 DEF Bit
  <2>2. CASE nr > 31
    <3>1. nr % 32 = nr - 32
      BY <2>2
    <3> QED BY <2>2, <3>1 DEF Bit
  <2> QED BY <2>1, <2>2
<1>2. \A nr \in keep : Bit(nr) = nr
  BY <1>1
<1>3. {Bit(nr) : nr \in keep} = keep
  BY <1>2
<1> QED BY <1>3 DEF CapsPlan

\* A saturating product is the product or the largest number.
LEMMA LimitIsProduct ==
    ASSUME NEW r, NEW v \in 0..MaxU64
    PROVE  LET bytes == v * (IF r \in InMegabytes THEN MIB ELSE 1)
           IN  /\ LimitOf(r, v) = bytes \/ (LimitOf(r, v) = MaxU64 /\ bytes > MaxU64)
               /\ LimitOf(r, v) \in 0..MaxU64
<1>1. MIB \in Nat /\ MaxU64 \in Nat
  BY LimitsAssumption
<1>2. v * 1 = v /\ v * MIB \in Nat
  BY <1>1
<1>3. CASE r \in InMegabytes
  BY <1>1, <1>2, <1>3 DEF LimitOf
<1>4. CASE r \notin InMegabytes
  BY <1>1, <1>2, <1>4 DEF LimitOf
<1> QED BY <1>3, <1>4

\* Every rule holds only rights that the ruleset of its plan handles.
LEMMA RulesAreHandled ==
    ASSUME NEW lists, NEW l \in FsLists, lists[l] # {}
    PROVE  FsAccess[l] \subseteq compute_handled_access_fs(compute_landlock_abi(lists))
<1>1. FsLists = {"allowed_read", "allowed_write", "allowed_execute", "allowed_refer",
                 "allowed_truncate", "allowed_ioctl_dev"}
  BY DEF FsLists, FsAccess
<1>2. CASE l \in {"allowed_read", "allowed_write", "allowed_execute"}
  BY <1>2 DEF FsAccess, compute_handled_access_fs, V1Rights
<1>3. CASE l = "allowed_refer"
  BY <1>3 DEF FsAccess, compute_handled_access_fs, compute_landlock_abi
<1>4. CASE l = "allowed_truncate"
  BY <1>4 DEF FsAccess, compute_handled_access_fs, compute_landlock_abi
<1>5. CASE l = "allowed_ioctl_dev"
  BY <1>5 DEF FsAccess, compute_handled_access_fs, compute_landlock_abi
<1> QED BY <1>1, <1>2, <1>3, <1>4, <1>5

\* What the plan governs is what the lists require.
LEMMA PlanGoverns ==
    ASSUME NEW r \in FsRights
    PROVE  r \in LandlockPlan(c.landlock).fs \cup {"Refer"} <=> Governed(r)
<1> DEFINE lists == c.landlock
<1>1. LandlockPlan(lists).fs = compute_handled_access_fs(compute_landlock_abi(lists))
  BY DEF LandlockPlan
<1>2. CASE r \in V1Rights
  <2>1. RightAbi[r] = 1
    BY <1>2 DEF RightAbi, V1Rights, FsRights
  <2> QED BY <1>1, <1>2, <2>1 DEF Governed, compute_handled_access_fs
<1>3. CASE r = "Refer"
  BY <1>3 DEF Governed
<1>4. CASE r = "Truncate"
  <2>1. RightAbi[r] = 3
    BY <1>4 DEF RightAbi, FsRights
  <2>2. Governed(r) <=> \/ lists["allowed_truncate"] # {} \/ lists["allowed_bind"] # {}
                        \/ lists["allowed_connect"] # {} \/ lists["allowed_ioctl_dev"] # {}
    BY <1>4, <2>1 DEF Governed, ListAbi
  <2>3. "Truncate" \in LandlockPlan(lists).fs <=> compute_landlock_abi(lists) >= 3
    BY <1>1 DEF compute_handled_access_fs, compute_landlock_abi, V1Rights
  <2> QED BY <1>4, <2>2, <2>3 DEF compute_landlock_abi
<1>5. CASE r = "IoctlDev"
  <2>1. RightAbi[r] = 5
    BY <1>5 DEF RightAbi, FsRights
  <2>2. Governed(r) <=> lists["allowed_ioctl_dev"] # {}
    BY <1>5, <2>1 DEF Governed, ListAbi
  <2>3. "IoctlDev" \in LandlockPlan(lists).fs <=> compute_landlock_abi(lists) >= 5
    BY <1>1 DEF compute_handled_access_fs, compute_landlock_abi, V1Rights
  <2> QED BY <1>5, <2>2, <2>3 DEF compute_landlock_abi
<1> QED BY <1>2, <1>3, <1>4, <1>5 DEF FsRights

\* The rules of the plan are the lists.
LEMMA PlanLists ==
    ASSUME NEW r \in FsRights, NEW p
    PROVE  MayAccess(LandlockPlan(c.landlock), r, p) <=> (Governed(r) => Listed(r, p))
<1> DEFINE plan == LandlockPlan(c.landlock)
<1>1. plan.pathRules = UNION {{[path |-> q, access |-> FsAccess[l]] : q \in c.landlock[l]} :
                                 l \in FsLists}
  BY DEF LandlockPlan
<1>2. (\E rule \in plan.pathRules : r \in rule.access /\ IsBeneath(p, rule.path))
        <=> Listed(r, p)
  <2>1. ASSUME NEW rule \in plan.pathRules, r \in rule.access, IsBeneath(p, rule.path)
        PROVE  Listed(r, p)
    <3>1. PICK l \in FsLists : \E q \in c.landlock[l] :
              rule = [path |-> q, access |-> FsAccess[l]]
      BY <1>1, <2>1
    <3>2. PICK q \in c.landlock[l] : rule = [path |-> q, access |-> FsAccess[l]]
      BY <3>1
    <3>3. rule.path = q /\ rule.access = FsAccess[l]
      BY <3>2
    <3> QED BY <2>1, <3>3 DEF Listed
  <2>2. ASSUME Listed(r, p)
        PROVE  \E rule \in plan.pathRules : r \in rule.access /\ IsBeneath(p, rule.path)
    <3>1. PICK l \in FsLists : r \in FsAccess[l] /\ \E q \in c.landlock[l] : IsBeneath(p, q)
      BY <2>2 DEF Listed
    <3>2. PICK q \in c.landlock[l] : IsBeneath(p, q)
      BY <3>1
    <3> DEFINE rule == [path |-> q, access |-> FsAccess[l]]
    <3>3. rule \in plan.pathRules
      BY <1>1
    <3>4. rule.path = q /\ rule.access = FsAccess[l]
      OBVIOUS
    <3> HIDE DEF rule, plan
    <3> QED BY <3>2, <3>3, <3>4, <3>1
  <2> QED BY <2>1, <2>2
<1>3. r \in plan.fs \cup {"Refer"} <=> Governed(r)
  BY PlanGoverns
<1> HIDE DEF plan
<1>4. MayAccess(plan, r, p) <=> (Governed(r) => Listed(r, p))
  BY <1>2, <1>3 DEF MayAccess
<1> QED BY <1>4 DEF plan

LEMMA PlanPorts ==
    ASSUME NEW l \in NetLists, NEW port
    PROVE  MayUsePort(LandlockPlan(c.landlock), NetAccess[l], port)
             <=> (c.landlock[l] # {} => port \in c.landlock[l])
<1> DEFINE plan == LandlockPlan(c.landlock)
<1>1. NetLists = {"allowed_bind", "allowed_connect"}
      /\ NetAccess["allowed_bind"] = "BindTcp" /\ NetAccess["allowed_connect"] = "ConnectTcp"
  BY DEF NetLists, NetAccess
<1>2. \A k \in NetLists : NetAccess[k] = NetAccess[l] => k = l
  BY <1>1
<1>3. NetAccess[l] \in plan.net <=> c.landlock[l] # {}
  BY <1>2 DEF LandlockPlan, HandledNet
<1>4. plan.netRules = UNION {{[port |-> q, access |-> NetAccess[k]] : q \in c.landlock[k]} :
                                k \in NetLists}
  BY DEF LandlockPlan
<1>5. [port |-> port, access |-> NetAccess[l]] \in plan.netRules <=> port \in c.landlock[l]
  <2>1. ASSUME [port |-> port, access |-> NetAccess[l]] \in plan.netRules
        PROVE  port \in c.landlock[l]
    <3>1. PICK rules \in {{[port |-> q, access |-> NetAccess[k]] : q \in c.landlock[k]} :
                             k \in NetLists} : [port |-> port, access |-> NetAccess[l]] \in rules
      BY <1>4, <2>1
    <3>2. PICK k \in NetLists :
              [port |-> port, access |-> NetAccess[l]]
                \in {[port |-> q, access |-> NetAccess[k]] : q \in c.landlock[k]}
      BY <3>1
    <3>3. PICK q \in c.landlock[k] :
              [port |-> port, access |-> NetAccess[l]] = [port |-> q, access |-> NetAccess[k]]
      BY <3>2
    <3>4. port = q /\ NetAccess[l] = NetAccess[k]
      BY <3>3
    <3>5. k = l
      BY <1>2, <3>4
    <3> QED BY <3>4, <3>5
  <2>2. ASSUME port \in c.landlock[l]
        PROVE  [port |-> port, access |-> NetAccess[l]] \in plan.netRules
    BY <1>4, <2>2
  <2> QED BY <2>1, <2>2
<1> HIDE DEF plan
<1>6. MayUsePort(plan, NetAccess[l], port) <=> (c.landlock[l] # {} => port \in c.landlock[l])
  BY <1>3, <1>5 DEF MayUsePort
<1> QED BY <1>6 DEF plan

-----------------------------------------------------------------------------
(* Every step keeps every part.                                            *)

\* The caller.
LEMMA CallerStep == IInv /\ [Next]_vars => CallerInv'
<1> SUFFICES ASSUME IInv, Next \/ UNCHANGED vars PROVE CallerInv'
  BY DEF vars, run, process
<1> USE ConfigsAssumption DEF IInv, run, process, CallerInv, TypeOK
<1>1. CASE Build
  BY <1>1 DEF Build
<1>2. CASE Call
  BY <1>2 DEF Call
<1>3. CASE Prepare
  BY <1>3 DEF Prepare, Return
<1>4. CASE Clone
  BY <1>4 DEF Clone, Return, Enter
<1>5. CASE Unshare
  BY <1>5 DEF Unshare, Return, Enter
<1>6. CASE WriteMap
  BY <1>6 DEF WriteMap, Return
<1>7. CASE Place
  BY <1>7 DEF Place, Refuse
<1>8. CASE SetLimits
  BY <1>8 DEF SetLimits, Refuse
<1>9. CASE Landlock
  BY <1>9 DEF Landlock, Refuse
<1>10. CASE DropCaps
  BY <1>10 DEF DropCaps, Refuse
<1>11. CASE NewSession
  BY <1>11 DEF NewSession, Refuse
<1>12. CASE NoNewPrivs
  BY <1>12 DEF NoNewPrivs
<1>13. CASE Exec
  BY <1>13 DEF Exec, Refuse, ExecFile
<1>14. CASE CommandExecs
  BY <1>14 DEF CommandExecs, ExecFile
<1>15. CASE CommandRaises
  BY <1>15 DEF CommandRaises
<1>16. CASE UNCHANGED vars
  BY <1>16 DEF vars
<1> QED
  BY <1>1, <1>2, <1>3, <1>4, <1>5, <1>6, <1>7, <1>8, <1>9, <1>10,
     <1>11, <1>12, <1>13, <1>14, <1>15, <1>16 DEF Next

\* The namespaces, and what is set up in them.
LEMMA NamespacesStep == IInv /\ [Next]_vars => NamespacesInv'
<1> SUFFICES ASSUME IInv, Next \/ UNCHANGED vars PROVE NamespacesInv'
  BY DEF vars, run, process
<1> USE ConfigsAssumption DEF IInv, run, process, NamespacesInv, CallerInv,
        EnteredKinds, Mapped, Entered, Inside
<1>1. CASE Build
  BY <1>1 DEF Build
<1>2. CASE Call
  BY <1>2 DEF Call
<1>3. CASE Prepare
  BY <1>3 DEF Prepare, Return
<1>4. CASE Clone
  BY <1>4 DEF Clone, Return, Enter
<1>5. CASE Unshare
  BY <1>5 DEF Unshare, Return, Enter
<1>6. CASE WriteMap
  BY <1>6 DEF WriteMap, Return
<1>7. CASE Place
  BY <1>7 DEF Place, Refuse, Valid
<1>8. CASE SetLimits
  BY <1>8 DEF SetLimits, Refuse
<1>9. CASE Landlock
  BY <1>9 DEF Landlock, Refuse
<1>10. CASE DropCaps
  BY <1>10 DEF DropCaps, Refuse
<1>11. CASE NewSession
  BY <1>11 DEF NewSession, Refuse
<1>12. CASE NoNewPrivs
  BY <1>12 DEF NoNewPrivs
<1>13. CASE Exec
  BY <1>13 DEF Exec, Refuse, ExecFile
<1>14. CASE CommandExecs
  BY <1>14 DEF CommandExecs, ExecFile
<1>15. CASE CommandRaises
  BY <1>15 DEF CommandRaises
<1>16. CASE UNCHANGED vars
  BY <1>16 DEF vars
<1> QED
  BY <1>1, <1>2, <1>3, <1>4, <1>5, <1>6, <1>7, <1>8, <1>9, <1>10,
     <1>11, <1>12, <1>13, <1>14, <1>15, <1>16 DEF Next

\* The ID maps.
LEMMA MapsStep == IInv /\ [Next]_vars => MapsInv'
<1> SUFFICES ASSUME IInv, Next \/ UNCHANGED vars PROVE MapsInv'
  BY DEF vars, run, process
<1> USE DEF IInv, run, process, MapsInv, CallerInv, Mapped, Inside
<1>1. CASE Build
  BY <1>1 DEF Build
<1>2. CASE Call
  BY <1>2 DEF Call
<1>3. CASE Prepare
  BY <1>3 DEF Prepare, Return
<1>4. CASE Clone
  BY <1>4 DEF Clone, Return, Enter
<1>5. CASE Unshare
  BY <1>5 DEF Unshare, Return, Enter
<1>6. CASE WriteMap
  BY <1>6 DEF WriteMap, Return
<1>7. CASE Place
  BY <1>7 DEF Place, Refuse
<1>8. CASE SetLimits
  BY <1>8 DEF SetLimits, Refuse
<1>9. CASE Landlock
  BY <1>9 DEF Landlock, Refuse
<1>10. CASE DropCaps
  BY <1>10 DEF DropCaps, Refuse
<1>11. CASE NewSession
  BY <1>11 DEF NewSession, Refuse
<1>12. CASE NoNewPrivs
  BY <1>12 DEF NoNewPrivs
<1>13. CASE Exec
  BY <1>13 DEF Exec, Refuse, ExecFile
<1>14. CASE CommandExecs
  BY <1>14 DEF CommandExecs, ExecFile
<1>15. CASE CommandRaises
  BY <1>15 DEF CommandRaises
<1>16. CASE UNCHANGED vars
  BY <1>16 DEF vars
<1> QED
  BY <1>1, <1>2, <1>3, <1>4, <1>5, <1>6, <1>7, <1>8, <1>9, <1>10,
     <1>11, <1>12, <1>13, <1>14, <1>15, <1>16 DEF Next

\* What execve makes of the capabilities that are kept.
LEMMA ExecFileStep ==
    ASSUME TypeOK, CredInv, NEW fileCaps \in SUBSET kernel.caps,
           pc \in {"exec", "command"}, ExecFile(fileCaps)
    PROVE  CredInv'
<1> DEFINE counted == IF c.insideRoot THEN kernel.caps ELSE fileCaps
           gained  == (counted \cap cred.bounding) \cup (counted \cap cred.inheritable)
           after   == IF noNewPrivs THEN gained \cap cred.permitted ELSE gained
<1>1. cred' = [cred EXCEPT !.permitted = after] /\ pc' = "command"
      /\ UNCHANGED <<c, kernel, noNewPrivs>>
  BY DEF ExecFile, PermittedAfterExec
<1>2. CASE "capabilities" \notin c.sections
  BY <1>1, <1>2 DEF CredInv, Entered, Mapped, Inside
<1>3. CASE "capabilities" \in c.sections
  <2>1. /\ cred.bounding = kernel.caps \ (CrateCaps \ c.keep)
        /\ kernel.caps \cap c.keep \subseteq cred.inheritable
        /\ c.insideRoot => kernel.caps \cap c.keep \subseteq cred.permitted
        /\ noNewPrivs \/ kernel.caps \subseteq CrateCaps => cred.permitted \subseteq c.keep
        /\ kernel.caps \subseteq CrateCaps => cred.inheritable \subseteq c.keep
    BY <1>3 DEF CredInv
  <2>2. /\ cred'.permitted = after /\ cred'.inheritable = cred.inheritable
        /\ cred'.bounding = cred.bounding
    BY <1>1 DEF TypeOK
  <2> QED BY <1>1, <1>3, <2>1, <2>2 DEF CredInv, Entered, Mapped, Inside
<1> QED BY <1>2, <1>3

\* The capabilities.
LEMMA CredStep == IInv /\ [Next]_vars => CredInv'
<1> SUFFICES ASSUME IInv, Next \/ UNCHANGED vars PROVE CredInv'
  BY DEF vars, run, process
<1> USE BitIsNumber DEF IInv, run, process, CredInv, MapsInv, Mapped, Entered, Inside
<1>1. CASE Build
  BY <1>1 DEF Build
<1>2. CASE Call
  BY <1>2 DEF Call
<1>3. CASE Prepare
  BY <1>3 DEF Prepare, Return
<1>4. CASE Clone
  BY <1>4 DEF Clone, Return, Enter
<1>5. CASE Unshare
  BY <1>5 DEF Unshare, Return, Enter
<1>6. CASE WriteMap
  BY <1>6 DEF WriteMap, Return
<1>7. CASE Place
  BY <1>7 DEF Place, Refuse
<1>8. CASE SetLimits
  BY <1>8 DEF SetLimits, Refuse
<1>9. CASE Landlock
  BY <1>9 DEF Landlock, Refuse
<1>10. CASE DropCaps
  <2>1. c.keep \in SUBSET (0..63)
    BY ConfigsAssumption DEF IInv, CallerInv
  <2>2. CapsPlan(c.keep).kept = c.keep /\ CapsPlan(c.keep).bounding_drop = CrateCaps \ c.keep
    BY <2>1, BitIsNumber DEF CapsPlan
  <2>3. cred = FullCred(kernel)
    BY <1>10 DEF DropCaps, IInv, CredInv, MapsInv, Mapped, Entered, Inside
  <2>4. cred.permitted = kernel.caps /\ cred.bounding = kernel.caps
    BY <2>3 DEF FullCred
  <2>5. /\ pc' \in {"session", "exited"} /\ UNCHANGED <<c, kernel>>
        /\ pc' = "session" /\ "capabilities" \in c.sections
             => cred' = [permitted   |-> kernel.caps \cap c.keep,
                         inheritable |-> kernel.caps \cap c.keep,
                         bounding    |-> kernel.caps \ (CrateCaps \ c.keep)]
        /\ pc' = "exited" => UNCHANGED cred
    BY <1>10, <2>2, <2>4 DEF DropCaps, Refuse
  <2> QED BY <2>3, <2>5 DEF CredInv, Mapped, Entered, Inside
<1>11. CASE NewSession
  BY <1>11 DEF NewSession, Refuse
<1>12. CASE NoNewPrivs
  BY <1>12 DEF NoNewPrivs
<1>13. CASE Exec
  <2>1. CASE pc' = "exited"
    BY <1>13, <2>1 DEF Exec, ExecFile, Refuse
  <2>2. ASSUME NEW fileCaps \in SUBSET kernel.caps, pc \in {"exec", "command"}, ExecFile(fileCaps)
        PROVE  CredInv'
    BY <2>2, ExecFileStep DEF IInv
  <2> QED BY <1>13, <2>1, <2>2 DEF Exec, Refuse
<1>14. CASE CommandExecs
  <2>2. ASSUME NEW fileCaps \in SUBSET kernel.caps, pc \in {"exec", "command"}, ExecFile(fileCaps)
        PROVE  CredInv'
    BY <2>2, ExecFileStep DEF IInv
  <2> QED BY <1>14, <2>2 DEF CommandExecs
<1>15. CASE CommandRaises
  BY <1>15 DEF CommandRaises
<1>16. CASE UNCHANGED vars
  BY <1>16 DEF vars
<1> QED
  BY <1>1, <1>2, <1>3, <1>4, <1>5, <1>6, <1>7, <1>8, <1>9, <1>10,
     <1>11, <1>12, <1>13, <1>14, <1>15, <1>16 DEF Next

\* The limits.
LEMMA LimitsStep == IInv /\ [Next]_vars => LimitsInv'
<1> SUFFICES ASSUME IInv, Next \/ UNCHANGED vars PROVE LimitsInv'
  BY DEF vars, run, process
<1> USE DEF IInv, run, process, LimitsInv
<1>1. CASE Build
  BY <1>1 DEF Build
<1>2. CASE Call
  BY <1>2 DEF Call
<1>3. CASE Prepare
  BY <1>3 DEF Prepare, Return
<1>4. CASE Clone
  BY <1>4 DEF Clone, Return, Enter
<1>5. CASE Unshare
  BY <1>5 DEF Unshare, Return, Enter
<1>6. CASE WriteMap
  BY <1>6 DEF WriteMap, Return
<1>7. CASE Place
  BY <1>7 DEF Place, Refuse
<1>8. CASE SetLimits
  <2> DEFINE wanted == [r \in DOMAIN c.rlimits |-> LimitOf(r, c.rlimits[r])]
  <2>1. \A r \in DOMAIN wanted : wanted[r] \in 0..MaxU64 /\ r \in DOMAIN kernel.hard
    BY LimitIsProduct, ConfigsAssumption, KernelsAssumption DEF IInv, CallerInv
  <2>2. /\ pc' \in {"landlock", "exited"} /\ UNCHANGED <<c, kernel>>
        /\ pc' = "landlock"
             => limits' = [r \in DOMAIN limits |->
                              IF r \in DOMAIN wanted THEN wanted[r] ELSE limits[r]]
        /\ pc' = "exited" => limits' = limits
    BY <1>8 DEF SetLimits, Refuse
  <2>3. limits \in [DOMAIN kernel.hard -> 0..MaxU64]
    BY DEF IInv, LimitsInv
  <2> HIDE DEF wanted
  <2>4. limits' \in [DOMAIN kernel.hard -> 0..MaxU64]
    BY <2>1, <2>2, <2>3
  <2>5. pc' = "landlock" => /\ \A r \in DOMAIN wanted : limits'[r] = wanted[r]
                            /\ \A r \in DOMAIN kernel.hard \ DOMAIN wanted : limits'[r] = limits[r]
    BY <2>1, <2>2, <2>3
  <2>6. DOMAIN wanted = DOMAIN c.rlimits
        /\ \A r \in DOMAIN c.rlimits : wanted[r] = LimitOf(r, c.rlimits[r])
    BY DEF wanted
  <2>7. limits = kernel.hard
    BY <1>8 DEF SetLimits, IInv, LimitsInv
  <2> QED BY <2>2, <2>4, <2>5, <2>6, <2>7 DEF LimitsInv
<1>9. CASE Landlock
  BY <1>9 DEF Landlock, Refuse
<1>10. CASE DropCaps
  BY <1>10 DEF DropCaps, Refuse
<1>11. CASE NewSession
  BY <1>11 DEF NewSession, Refuse
<1>12. CASE NoNewPrivs
  BY <1>12 DEF NoNewPrivs
<1>13. CASE Exec
  BY <1>13 DEF Exec, Refuse, ExecFile
<1>14. CASE CommandExecs
  BY <1>14 DEF CommandExecs, ExecFile
<1>15. CASE CommandRaises
  BY <1>15 DEF CommandRaises
<1>16. CASE UNCHANGED vars
  BY <1>16 DEF vars
<1> QED
  BY <1>1, <1>2, <1>3, <1>4, <1>5, <1>6, <1>7, <1>8, <1>9, <1>10,
     <1>11, <1>12, <1>13, <1>14, <1>15, <1>16 DEF Next

\* The rulesets.
LEMMA DomainsStep == IInv /\ [Next]_vars => DomainsInv'
<1> SUFFICES ASSUME IInv, Next \/ UNCHANGED vars PROVE DomainsInv'
  BY DEF vars, run, process
<1> USE DEF IInv, run, process, DomainsInv
<1>1. CASE Build
  BY <1>1 DEF Build
<1>2. CASE Call
  BY <1>2 DEF Call
<1>3. CASE Prepare
  BY <1>3 DEF Prepare, Return
<1>4. CASE Clone
  BY <1>4 DEF Clone, Return, Enter
<1>5. CASE Unshare
  BY <1>5 DEF Unshare, Return, Enter
<1>6. CASE WriteMap
  BY <1>6 DEF WriteMap, Return
<1>7. CASE Place
  BY <1>7 DEF Place, Refuse
<1>8. CASE SetLimits
  BY <1>8 DEF SetLimits, Refuse
<1>9. CASE Landlock
  BY <1>9 DEF Landlock, Refuse
<1>10. CASE DropCaps
  BY <1>10 DEF DropCaps, Refuse
<1>11. CASE NewSession
  BY <1>11 DEF NewSession, Refuse
<1>12. CASE NoNewPrivs
  BY <1>12 DEF NoNewPrivs
<1>13. CASE Exec
  BY <1>13 DEF Exec, Refuse, ExecFile
<1>14. CASE CommandExecs
  BY <1>14 DEF CommandExecs, ExecFile
<1>15. CASE CommandRaises
  BY <1>15 DEF CommandRaises
<1>16. CASE UNCHANGED vars
  BY <1>16 DEF vars
<1> QED
  BY <1>1, <1>2, <1>3, <1>4, <1>5, <1>6, <1>7, <1>8, <1>9, <1>10,
     <1>11, <1>12, <1>13, <1>14, <1>15, <1>16 DEF Next

LEMMA FullCredType ==
    ASSUME CallerInv
    PROVE  FullCred(kernel) \in [permitted : SUBSET Nat, inheritable : SUBSET Nat,
                                 bounding : SUBSET Nat]
  BY KernelsAssumption DEF CallerInv, FullCred

LEMMA ExecFileType ==
    ASSUME TypeOK, CallerInv, NEW fileCaps \in SUBSET kernel.caps, ExecFile(fileCaps)
    PROVE  TypeOK'
<1>1. kernel.caps \subseteq Nat
  BY KernelsAssumption DEF CallerInv
<1>2. PermittedAfterExec(cred, IF c.insideRoot THEN kernel.caps ELSE fileCaps, noNewPrivs)
        \subseteq Nat
  BY <1>1 DEF PermittedAfterExec
<1>3. cred' \in [permitted : SUBSET Nat, inheritable : SUBSET Nat, bounding : SUBSET Nat]
  BY <1>2 DEF ExecFile, TypeOK
<1> QED BY <1>3 DEF ExecFile, TypeOK

\* Types.
LEMMA TypeStep == IInv /\ [Next]_vars => TypeOK'
<1> SUFFICES ASSUME IInv, Next \/ UNCHANGED vars PROVE TypeOK'
  BY DEF vars, run, process
<1> USE DEF IInv, run, process, TypeOK, CallerInv, MapsInv, LimitsInv, Mapped, Inside
<1>1. CASE Build
  BY <1>1 DEF Build
<1>2. CASE Call
  <2>1. calls' \in 0..MaxCalls
    BY <1>2, MaxCallsAssumption DEF Call, IInv, TypeOK
  <2> QED BY <1>2, <2>1 DEF Call, IInv, process, TypeOK
<1>3. CASE Prepare
  BY <1>3 DEF Prepare, Return
<1>4. CASE Clone
  <2>1. cred' \in {cred, FullCred(kernel)}
    BY <1>4 DEF Clone, Enter, Return
  <2> QED BY <1>4, <2>1, FullCredType DEF Clone, Return, IInv, TypeOK
<1>5. CASE Unshare
  <2>1. cred' \in {cred, FullCred(kernel)}
    BY <1>5 DEF Unshare, Enter, Return
  <2> QED BY <1>5, <2>1, FullCredType DEF Unshare, Return, IInv, TypeOK
<1>6. CASE WriteMap
  BY <1>6 DEF WriteMap, Return
<1>7. CASE Place
  BY <1>7 DEF Place, Refuse
<1>8. CASE SetLimits
  <2>1. limits' \in [DOMAIN kernel'.hard -> 0..MaxU64]
    BY LimitsStep DEF LimitsInv
  <2> QED BY <1>8, <2>1 DEF SetLimits, Refuse, IInv, run, TypeOK
<1>9. CASE Landlock
  BY <1>9 DEF Landlock, Refuse
<1>10. CASE DropCaps
  <2>1. c.keep \in SUBSET (0..63) /\ kernel.caps \subseteq Nat
    BY ConfigsAssumption, KernelsAssumption DEF IInv, CallerInv
  <2>2. CapsPlan(c.keep).kept = c.keep
    BY <2>1, BitIsNumber
  <2>3. cred' \in [permitted : SUBSET Nat, inheritable : SUBSET Nat, bounding : SUBSET Nat]
    BY <1>10, <2>1, <2>2 DEF DropCaps, Refuse, IInv, TypeOK
  <2> QED BY <1>10, <2>3 DEF DropCaps, Refuse, IInv, run, TypeOK
<1>11. CASE NewSession
  BY <1>11 DEF NewSession, Refuse
<1>12. CASE NoNewPrivs
  BY <1>12 DEF NoNewPrivs
<1>13. CASE Exec
  <2>1. ASSUME NEW fileCaps \in SUBSET kernel.caps, ExecFile(fileCaps) PROVE TypeOK'
    BY <2>1, ExecFileType DEF IInv
  <2> QED BY <1>13, <2>1 DEF Exec, Refuse, IInv, TypeOK, run
<1>14. CASE CommandExecs
  <2>1. ASSUME NEW fileCaps \in SUBSET kernel.caps, ExecFile(fileCaps) PROVE TypeOK'
    BY <2>1, ExecFileType DEF IInv
  <2> QED BY <1>14, <2>1 DEF CommandExecs, IInv, TypeOK, run
<1>15. CASE CommandRaises
  BY <1>15 DEF CommandRaises
<1>16. CASE UNCHANGED vars
  BY <1>16 DEF vars
<1> QED
  BY <1>1, <1>2, <1>3, <1>4, <1>5, <1>6, <1>7, <1>8, <1>9, <1>10,
     <1>11, <1>12, <1>13, <1>14, <1>15, <1>16 DEF Next

\* A version of Landlock that the plan asks for is that of a list.
LEMMA AbiOfAList ==
    ASSUME NEW lists, NEW abi \in Nat, abi < compute_landlock_abi(lists)
    PROVE  \E l \in DOMAIN ListAbi : (lists[l] # {} \/ ListAbi[l] = 1) /\ ListAbi[l] > abi
<1>1. /\ DOMAIN ListAbi = {"allowed_read", "allowed_write", "allowed_execute", "allowed_refer",
                           "allowed_truncate", "allowed_bind", "allowed_connect",
                           "allowed_ioctl_dev"}
      /\ ListAbi["allowed_read"] = 1 /\ ListAbi["allowed_refer"] = 2
      /\ ListAbi["allowed_truncate"] = 3 /\ ListAbi["allowed_bind"] = 4
      /\ ListAbi["allowed_connect"] = 4 /\ ListAbi["allowed_ioctl_dev"] = 5
  BY DEF ListAbi
<1> QED BY <1>1 DEF compute_landlock_abi

\* Landlock works under the limit that the configuration gives, or the caller's.
LEMMA NofileInForce ==
    ASSUME IInv, pc = "landlock" PROVE limits["nofile"] = Nofile /\ Nofile \in Int
<1>1. /\ c \in Configs /\ kernel \in Kernels
      /\ \A r \in DOMAIN c.rlimits : limits[r] = LimitOf(r, c.rlimits[r])
      /\ \A r \in DOMAIN kernel.hard \ DOMAIN c.rlimits : limits[r] = kernel.hard[r]
  BY DEF IInv, CallerInv, LimitsInv
<1>2. "nofile" \in DOMAIN kernel.hard /\ kernel.hard \in [DOMAIN kernel.hard -> 0..MaxU64]
  BY <1>1, KernelsAssumption
<1>3. LimitOf("nofile", c.rlimits["nofile"]) = c.rlimits["nofile"]
  BY DEF LimitOf, InMegabytes
<1>4. "nofile" \in DOMAIN c.rlimits => c.rlimits["nofile"] \in 0..MaxU64
  BY <1>1, ConfigsAssumption
<1> QED BY <1>1, <1>2, <1>3, <1>4, LimitsAssumption DEF Nofile

\* Refusals.
LEMMA RefusalStep == IInv /\ [Next]_vars => RefusedForAReason'
<1> SUFFICES ASSUME IInv, Next \/ UNCHANGED vars PROVE RefusedForAReason'
  BY DEF vars, run, process
<1> USE DEF IInv, run, process, RefusedForAReason, Nofile
<1>1. CASE Build
  BY <1>1 DEF Build
<1>2. CASE Call
  BY <1>2 DEF Call
<1>3. CASE Prepare
  BY <1>3 DEF Prepare, Return
<1>4. CASE Clone
  BY <1>4 DEF Clone, Return, Enter
<1>5. CASE Unshare
  BY <1>5 DEF Unshare, Return, Enter
<1>6. CASE WriteMap
  BY <1>6 DEF WriteMap, Return
<1>7. CASE Place
  BY <1>7 DEF Place, Refuse
<1>8. CASE SetLimits
  <2> HIDE DEF Nofile
  <2> DEFINE wanted == [r \in DOMAIN c.rlimits |-> LimitOf(r, c.rlimits[r])]
  <2>1. limits = kernel.hard
    BY <1>8 DEF SetLimits, IInv, LimitsInv
  <2>2. \A r \in DOMAIN wanted : wanted[r] \in 0..MaxU64 /\ r \in DOMAIN kernel.hard
    BY LimitIsProduct, ConfigsAssumption, KernelsAssumption DEF IInv, CallerInv
  <2>3. MaxU64 \in Nat /\ limits \in [DOMAIN kernel.hard -> 0..MaxU64]
    BY LimitsAssumption DEF IInv, LimitsInv
  <2>4. /\ UNCHANGED <<c, kernel>>
        /\ why' # why => why' = "limits" /\ ~\A r \in DOMAIN wanted : wanted[r] <= limits[r]
    BY <1>8 DEF SetLimits, Refuse
  <2>5. why' # why => \E r \in DOMAIN c.rlimits : LimitOf(r, c.rlimits[r]) > kernel.hard[r]
    BY <2>1, <2>2, <2>3, <2>4
  <2> QED BY <2>4, <2>5 DEF IInv, RefusedForAReason, Nofile
<1>9. CASE Landlock
  <2> HIDE DEF Nofile
  <2> DEFINE plan == LandlockPlan(c.landlock)
  <2>1. kernel.abi \in Nat
    BY KernelsAssumption DEF IInv, CallerInv
  <2>2. /\ UNCHANGED <<c, kernel>>
        /\ why' # why => \/ why' = "abi" /\ kernel.abi < plan.min_abi
                         \/ /\ why' = "rule"
                            /\ \E rule \in plan.pathRules :
                                  ~AcceptsRule(plan, rule, rule.path \in Files)
                         \/ why' = "descriptors" /\ ~EnoughDescriptors(plan)
                         \/ why' \in {"missing", "kernel"}
    BY <1>9 DEF Landlock, Refuse
  <2>3. kernel.abi < plan.min_abi
          => \E l \in DOMAIN ListAbi :
                (c.landlock[l] # {} \/ ListAbi[l] = 1) /\ ListAbi[l] > kernel.abi
    BY <2>1, AbiOfAList DEF LandlockPlan
  <2>4. ASSUME NEW rule \in plan.pathRules, ~AcceptsRule(plan, rule, rule.path \in Files)
        PROVE  \E l \in FsLists : ~(FsAccess[l] \subseteq FileRights)
                                 /\ c.landlock[l] \cap Files # {}
    <3>1. PICK l \in FsLists : \E q \in c.landlock[l] :
              rule = [path |-> q, access |-> FsAccess[l]]
      BY <2>4 DEF LandlockPlan
    <3>2. rule.path \in c.landlock[l] /\ rule.access = FsAccess[l]
      BY <3>1
    <3>3. rule.access \subseteq plan.fs
      BY <3>2, RulesAreHandled DEF LandlockPlan
    <3> HIDE DEF plan
    <3> QED BY <2>4, <3>2, <3>3 DEF AcceptsRule
  <2>5. limits["nofile"] = Nofile /\ Nofile \in Int
    BY <1>9, NofileInForce DEF Landlock
  <2>6. kernel.free[1] \in Int /\ kernel.free[2] \in Int /\ kernel.free[1] < kernel.free[2]
    BY KernelsAssumption DEF IInv, CallerInv
  <2>7. plan.pathRules # {} => \E l \in FsLists : c.landlock[l] # {}
    BY DEF LandlockPlan
  <2> HIDE DEF plan
  <2>8. ~EnoughDescriptors(plan)
          => /\ Nofile <= kernel.free[2]
             /\ Nofile > kernel.free[1] => \E l \in FsLists : c.landlock[l] # {}
    BY <2>5, <2>6, <2>7 DEF EnoughDescriptors
  <2>9. Nofile' = Nofile
    BY <2>2 DEF Nofile
  <2> QED BY <2>2, <2>3, <2>4, <2>8, <2>9 DEF IInv, RefusedForAReason
<1>10. CASE DropCaps
  <2>1. /\ UNCHANGED <<c, kernel>>
        /\ why' # why => why' = "caps" /\ ~(CrateCaps \subseteq kernel.caps)
    BY <1>10 DEF DropCaps, CapsPlan, Refuse
  <2> QED BY <2>1 DEF IInv, RefusedForAReason, Nofile
<1>11. CASE NewSession
  BY <1>11 DEF NewSession, Refuse
<1>12. CASE NoNewPrivs
  BY <1>12 DEF NoNewPrivs
<1>13. CASE Exec
  BY <1>13 DEF Exec, Refuse, ExecFile
<1>14. CASE CommandExecs
  BY <1>14 DEF CommandExecs, ExecFile
<1>15. CASE CommandRaises
  BY <1>15 DEF CommandRaises
<1>16. CASE UNCHANGED vars
  BY <1>16 DEF vars
<1> QED
  BY <1>1, <1>2, <1>3, <1>4, <1>5, <1>6, <1>7, <1>8, <1>9, <1>10,
     <1>11, <1>12, <1>13, <1>14, <1>15, <1>16 DEF Next

-----------------------------------------------------------------------------
LEMMA InitInv == Init => IInv
<1> SUFFICES ASSUME Init PROVE IInv
  OBVIOUS
<1>1. CallerInv /\ NamespacesInv /\ MapsInv /\ CredInv /\ DomainsInv /\ RefusedForAReason
  BY DEF Init, CallerInv, NamespacesInv, MapsInv, CredInv, DomainsInv, RefusedForAReason,
         Mapped, Entered, Inside
<1>2. kernel.hard \in [DOMAIN kernel.hard -> 0..MaxU64]
  BY KernelsAssumption DEF Init
<1>3. LimitsInv /\ TypeOK
  BY <1>2, MaxCallsAssumption DEF Init, LimitsInv, TypeOK, NoCred
<1> QED BY <1>1, <1>3 DEF IInv

THEOREM Invariance == Spec => []IInv
<1>1. IInv /\ [Next]_vars => IInv'
  BY CallerStep, NamespacesStep, MapsStep, CredStep, LimitsStep, DomainsStep, TypeStep,
     RefusalStep DEF IInv
<1> QED BY <1>1, InitInv, PTL DEF Spec

-----------------------------------------------------------------------------
(* The theorems.                                                           *)

\* Types.
THEOREM ConfinementTypeCorrect == Spec => []TypeOK
<1>1. IInv => TypeOK
  BY DEF IInv
<1> QED BY <1>1, Invariance, PTL

\* Whatever the configuration and the outcome of each call, nothing is set up
\* outside the namespaces of the sandbox, once mode never moves the caller,
\* and a caller that gets an error is where it was or in every namespace.
THEOREM HostStaysUntouched == Spec => []HostUntouched
<1>1. IInv => HostUntouched
  BY DEF IInv, HostUntouched, CallerInv, NamespacesInv
<1> QED BY <1>1, Invariance, PTL

\* For any sets of capabilities that the kernel and pnut know, and any files
\* that the command executes, it has none that [capabilities] does not keep.
THEOREM NoCapsBeyondKeep == Spec => []CapsWithinKeep
<1>1. IInv => CapsWithinKeep
  BY DEF IInv, CapsWithinKeep, CredInv
<1> QED BY <1>1, Invariance, PTL

\* And as root in the sandbox it keeps what is to be kept.
THEOREM KeptCapsRemain == Spec => []KeptCapsStay
<1>1. IInv => KeptCapsStay
  BY DEF IInv, KeptCapsStay, CredInv
<1> QED BY <1>1, Invariance, PTL

\* For any configuration, the command has its IDs mapped, its namespaces and
\* its limits.
THEOREM RunsAsConfigured == Spec => []AsConfigured
<1>1. IInv => AsConfigured
  <2> SUFFICES ASSUME IInv, pc = "command" PROVE AsConfigured
    BY DEF AsConfigured
  <2>1. maps = 3 /\ EnteredKinds \subseteq ns
        /\ (kernel.timeOnExec => c.namespaces \cap {"time"} \subseteq ns)
    BY DEF IInv, MapsInv, NamespacesInv, Mapped, Entered, Inside
  <2>2. c.mode \in {"once", "execve"} /\ (c.mode = "execve" => "pid" \notin c.namespaces)
    BY ConfigsAssumption DEF IInv, CallerInv, Valid
  <2>3. c.namespaces \ ns \subseteq
           (IF c.mode = "execve" /\ ~kernel.timeOnExec THEN {"time"} ELSE {})
    BY <2>1, <2>2 DEF EnteredKinds
  <2>4. \A r \in DOMAIN c.rlimits :
           c.rlimits[r] \in 0..MaxU64 /\ limits[r] = LimitOf(r, c.rlimits[r])
    BY ConfigsAssumption DEF IInv, CallerInv, LimitsInv
  <2> QED BY <2>1, <2>3, <2>4, LimitIsProduct DEF AsConfigured
<1> QED BY <1>1, Invariance, PTL

\* For any lists, the command has exactly the accesses that they give: the
\* version of Landlock that one list requires takes nothing from another.
THEOREM LandlockIsExact == Spec => []LandlockExact
<1>1. IInv => LandlockExact
  <2> SUFFICES ASSUME IInv, pc = "command", "landlock" \in c.sections PROVE LandlockExact
    BY DEF LandlockExact
  <2>1. domains = {LandlockPlan(c.landlock)}
    BY DEF IInv, DomainsInv
  <2> QED BY <2>1, PlanLists, PlanPorts DEF LandlockExact
<1> QED BY <1>1, Invariance, PTL

\* For any configuration and kernel, no stage refuses what its own plan made,
\* but Landlock when the plan's own nofile leaves it no descriptor.
THEOREM RefusalsHaveReasons == Spec => []RefusedForAReason
<1>1. IInv => RefusedForAReason
  BY DEF IInv
<1> QED BY <1>1, Invariance, PTL
=============================================================================
