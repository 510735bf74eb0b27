------------------------- MODULE ChildRuntimeProofs -------------------------
(***************************************************************************)
(* Proofs about ChildRuntime, for every set of specs, every refusal and    *)
(* every filter.                                                           *)
(*                                                                         *)
(* The reason of all of them is the order: what has been done is exactly   *)
(* what the spec asks for among the stages before `at` (DoneBefore), and   *)
(* the preflight check has tied a completion sink to an intact status      *)
(* descriptor before the first stage runs (SinkHasStatus).                 *)
(***************************************************************************)
EXTENDS ChildRuntime, TLAPS

DoneBefore ==
    \A i \in 1..Len(Order) :
        (i < at /\ Has(spec, Order[i])) <=> (Order[i] \in done \ {"Exec"})

SinkHasStatus ==
    /\ at = 0 => statusFd = ("status" \in spec)
    /\ at > 0 => CompletionIsValid
    /\ at > 0 /\ "completion" \in spec => statusFd

EvidenceAfterSeccomp ==
    /\ bits \subseteq done
    /\ evidence => Required \subseteq done /\ "completion" \in spec /\ at > 0

CommandAtEnd == state = "command" => at = 21 /\ "Exec" \in done

FailureRecorded ==
    /\ state = "failed" /\ "completion" \in spec /\ "status" \in spec /\ WriteAllowed
           => record # "none"
    /\ state = "failed" => filter["report"] # "kill"

\* The inductive invariant.
Inv ==
    /\ TypeOK
    /\ DoneBefore
    /\ SinkHasStatus
    /\ EvidenceAfterSeccomp
    /\ CommandAtEnd
    /\ FailureRecorded

-----------------------------------------------------------------------------
(* The order of the stages.                                                *)

\* Every stage has one place in run(), and there are 21.
LEMMA OrderFacts ==
    /\ Len(Order) = 21
    /\ \A i \in 1..21 : Order[i] \in Stages
    /\ \A i, j \in 1..21 : Order[i] = Order[j] => i = j
    /\ \A s \in Stages : \E i \in 1..21 : Order[i] = s
BY DEF Order, Stages

\* execve comes last, and needs no part of the spec.
LEMMA ExecLast ==
    /\ Order[21] = "Exec"
    /\ \A spc : Has(spc, "Exec")
<1>1. Order[21] = "Exec"
  BY DEF Order
<1>2. "Exec" \in Stages
  BY <1>1, OrderFacts
<1>3. Needs["Exec"] = "always"
  BY <1>2 DEF Needs
<1> QED
  BY <1>1, <1>3 DEF Has

\* The names that the invariants mention are stages.
LEMMA StageNames ==
    Required \subseteq Stages /\ "Seccomp" \in Required /\ "none" \notin Stages
<1>1. Required \subseteq Stages
  BY DEF Required, Stages, Order
<1>2. "Seccomp" \in Required
  BY DEF Required
<1>3. "none" \notin Stages
  BY DEF Stages, Order
<1> QED
  BY <1>1, <1>2, <1>3

\* A stage of its own name is at its place, has not run yet, and is not the last
\* one unless it is execve.
LEMMA NowFacts ==
    ASSUME TypeOK, DoneBefore, NEW s \in Stages, Now(s)
    PROVE  /\ at \in 1..21 /\ Order[at] = s
           /\ s \notin done \ {"Exec"}
           /\ s # "Exec" => at \in 1..20
           /\ s = "Exec" => at = 21
<1>1. at \in 1..21 /\ Order[at] = s
  BY OrderFacts DEF TypeOK, Now
<1>2. s \notin done \ {"Exec"}
  BY <1>1, OrderFacts DEF DoneBefore
<1>3. s = "Exec" => at = 21
  BY <1>1, OrderFacts, ExecLast
<1> QED
  BY <1>1, <1>2, <1>3, ExecLast

\* Going on to the next stage keeps the account of what has been done.
LEMMA Advance ==
    ASSUME TypeOK, DoneBefore, at \in 1..20, at' = at + 1, spec' = spec,
           \/ Has(spec, Order[at]) /\ done' = done \cup {Order[at]}
           \/ ~Has(spec, Order[at]) /\ done' = done
    PROVE  DoneBefore'
<1> SUFFICES ASSUME NEW i \in 1..21
             PROVE  (i < at + 1 /\ Has(spec, Order[i]))
                        <=> (Order[i] \in done' \ {"Exec"})
  BY OrderFacts DEF DoneBefore, Has
<1>1. (i < at /\ Has(spec, Order[i])) <=> (Order[i] \in done \ {"Exec"})
  BY OrderFacts DEF DoneBefore
<1>2. Order[at] # "Exec"
  BY OrderFacts, ExecLast
<1>3. CASE i = at
  BY <1>1, <1>2, <1>3
<1>4. CASE i # at
  <2>1. Order[i] # Order[at]
    BY <1>4, OrderFacts
  <2>2. Order[i] \in done' <=> Order[i] \in done
    BY <2>1
  <2>3. i < at + 1 <=> i < at
    BY <1>4
  <2> QED
    BY <1>1, <2>2, <2>3
<1> QED
  BY <1>3, <1>4

-----------------------------------------------------------------------------
(* The invariant is inductive.                                             *)

LEMMA InitInv == Init => Inv
<1> SUFFICES ASSUME Init PROVE Inv
  OBVIOUS
<1>1. TypeOK
  <2>1. statusFd \in BOOLEAN
    <3>1. ("status" \in spec) \in BOOLEAN
      OBVIOUS
    <3>2. statusFd = ("status" \in spec)
      BY DEF Init
    <3> QED
      BY <3>1, <3>2
  <2>2. at \in 0..Len(Order)
    BY OrderFacts DEF Init
  <2> QED
    BY <2>1, <2>2 DEF Init, TypeOK
<1>2. DoneBefore
  BY OrderFacts DEF Init, DoneBefore
<1>3. SinkHasStatus
  BY DEF Init, SinkHasStatus
<1>4. EvidenceAfterSeccomp
  BY DEF Init, EvidenceAfterSeccomp
<1> QED
  BY <1>1, <1>2, <1>3, <1>4 DEF Init, Inv, CommandAtEnd, FailureRecorded

\* A stage that succeeds and changes neither filter, evidence nor reports.
LEMMA QuietSuccess ==
    ASSUME Inv, NEW s \in Stages \ {"Exec"}, Now(s), Has(spec, s), Succeed(s),
           "completion" \in spec => statusFd' = statusFd,
           statusFd' \in BOOLEAN,
           UNCHANGED <<spec, filter, evidence, record, state>>
    PROVE  Inv'
<1> USE DEF Inv
<1>1. at \in 1..20 /\ Order[at] = s /\ at' = at + 1
  BY NowFacts DEF Succeed
<1>2. TypeOK'
  <2>1. at' \in 0..Len(Order)
    BY <1>1, OrderFacts
  <2>2. done' \subseteq Stages /\ bits' \subseteq Required
    BY DEF TypeOK, Succeed
  <2> QED
    BY <2>1, <2>2 DEF TypeOK
<1>3. DoneBefore'
  BY <1>1, Advance DEF Succeed
<1>4. SinkHasStatus'
  BY <1>1 DEF SinkHasStatus, CompletionIsValid
<1>5. EvidenceAfterSeccomp'
  BY <1>1 DEF EvidenceAfterSeccomp, Succeed, WriteAllowed
<1>6. CommandAtEnd' /\ FailureRecorded'
  BY DEF CommandAtEnd, FailureRecorded, Now, WriteAllowed
<1> QED
  BY <1>2, <1>3, <1>4, <1>5, <1>6

\* A report: the record is written if the filter lets it be, and the child ends.
LEMMA ReportKeeps ==
    ASSUME Inv, state = "setup", NEW s \in Stages, Report(s),
           evidence' => evidence \/ (/\ bits = Required
                                    /\ "completion" \in spec /\ at > 0),
           evidence' \in BOOLEAN,
           UNCHANGED <<spec, at, done, bits, filter, statusFd>>
    PROVE  Inv'
<1> USE DEF Inv
<1>1. TypeOK'
  BY DEF TypeOK, Report
<1>2. DoneBefore'
  BY DEF DoneBefore, Has
<1>3. SinkHasStatus'
  BY DEF SinkHasStatus, CompletionIsValid
<1>4. EvidenceAfterSeccomp'
  BY DEF EvidenceAfterSeccomp
<1>5. CommandAtEnd'
  BY DEF CommandAtEnd, Report
<1>6. FailureRecorded'
  <2>1. "completion" \in spec /\ "status" \in spec => statusFd
    BY DEF SinkHasStatus, TypeOK
  <2> QED
    BY <2>1, StageNames DEF FailureRecorded, Report, WriteAllowed
<1> QED
  BY <1>1, <1>2, <1>3, <1>4, <1>5, <1>6

LEMMA PreflightKeeps == Inv /\ Preflight => Inv'
<1> SUFFICES ASSUME Inv, Preflight PROVE Inv'
  OBVIOUS
<1>0. "Completion" \in Stages
  BY DEF Stages, Order
<1>1. CASE CompletionIsValid
  <2> USE DEF Inv
  <2>1. at = 0 /\ at' = 1 /\ state = "setup"
        /\ UNCHANGED <<spec, done, bits, filter, statusFd, evidence, record, state>>
    BY <1>1 DEF Preflight
  <2>2. TypeOK'
    BY <2>1, OrderFacts DEF TypeOK
  <2>3. DoneBefore'
    BY <2>1, OrderFacts DEF DoneBefore, Has
  <2>4. SinkHasStatus'
    BY <2>1, <1>1 DEF SinkHasStatus, CompletionIsValid
  <2>5. EvidenceAfterSeccomp' /\ CommandAtEnd' /\ FailureRecorded'
    BY <2>1 DEF EvidenceAfterSeccomp, CommandAtEnd, FailureRecorded, WriteAllowed
  <2> QED
    BY <2>2, <2>3, <2>4, <2>5
<1>2. CASE ~CompletionIsValid
  BY <1>0, <1>2, ReportKeeps DEF Preflight, Inv, TypeOK
<1> QED
  BY <1>1, <1>2

LEMMA SkipKeeps == Inv /\ Skip => Inv'
<1> SUFFICES ASSUME Inv, Skip PROVE Inv'
  OBVIOUS
<1> USE DEF Inv, Skip
<1>1. at \in 1..20
  BY OrderFacts, ExecLast DEF TypeOK
<1>2. TypeOK'
  BY <1>1, OrderFacts DEF TypeOK
<1>3. DoneBefore'
  BY <1>1, Advance
<1>4. SinkHasStatus'
  BY <1>1 DEF SinkHasStatus, CompletionIsValid
<1>5. EvidenceAfterSeccomp' /\ CommandAtEnd' /\ FailureRecorded'
  BY <1>1 DEF EvidenceAfterSeccomp, CommandAtEnd, FailureRecorded, WriteAllowed
<1> QED
  BY <1>2, <1>3, <1>4, <1>5

LEMMA PlainStageKeeps ==
    ASSUME NEW s \in Plain, Inv, PlainStage(s) PROVE Inv'
BY QuietSuccess DEF Plain, PlainStage, Inv, TypeOK

LEMMA FdActionsKeeps == Inv /\ FdActions => Inv'
<1> SUFFICES ASSUME Inv, FdActions PROVE Inv'
  OBVIOUS
<1>1. "FdActions" \in Stages \ {"Exec"}
  BY DEF Stages, Order
<1>2. Has(spec, "FdActions")
  BY <1>1 DEF Has, Needs
<1>3. "completion" \in spec => statusFd' = statusFd
  BY DEF FdActions, Now, Inv, SinkHasStatus, CompletionIsValid, TypeOK
<1>4. statusFd' \in BOOLEAN
  BY DEF FdActions
<1> QED
  BY <1>1, <1>2, <1>3, <1>4, QuietSuccess DEF FdActions

LEMMA SeccompKeeps == Inv /\ Seccomp => Inv'
<1> SUFFICES ASSUME Inv, Seccomp PROVE Inv'
  OBVIOUS
<1> USE DEF Inv
<1>0. "Seccomp" \in Stages \ {"Exec"} /\ "Seccomp" \in Required
  BY StageNames DEF Stages, Order
<1>1. at \in 1..20 /\ Order[at] = "Seccomp" /\ at' = at + 1
      /\ "Seccomp" \notin done
  BY <1>0, NowFacts DEF Seccomp, Succeed
<1>2. ~evidence
  BY <1>0, <1>1 DEF EvidenceAfterSeccomp
<1>3. TypeOK'
  BY <1>0, <1>1, OrderFacts DEF TypeOK, Seccomp, Succeed
<1>4. DoneBefore'
  BY <1>1, Advance DEF Seccomp, Succeed
<1>5. SinkHasStatus'
  BY <1>1 DEF SinkHasStatus, CompletionIsValid, Seccomp
<1>6. EvidenceAfterSeccomp'
  BY <1>2 DEF EvidenceAfterSeccomp, Seccomp, Succeed
<1>7. CommandAtEnd' /\ FailureRecorded'
  BY DEF CommandAtEnd, FailureRecorded, Now, Seccomp
<1> QED
  BY <1>3, <1>4, <1>5, <1>6, <1>7

LEMMA CompletionKeeps == Inv /\ Completion => Inv'
<1> SUFFICES ASSUME Inv, Completion PROVE Inv'
  OBVIOUS
<1>0. "Completion" \in Stages \ {"Exec"}
  BY DEF Stages, Order
<1>1. "completion" \in spec
  BY <1>0 DEF Completion, Has, Needs
<1>2. CASE /\ bits = Required /\ Succeed("Completion")
            /\ evidence' \in BOOLEAN /\ UNCHANGED <<record, state>>
  <2> USE DEF Inv
  <2>1. at \in 1..20 /\ Order[at] = "Completion" /\ at' = at + 1
    BY <1>0, <1>2, NowFacts DEF Completion, Succeed
  <2>2. TypeOK'
    BY <1>0, <1>2, <2>1, OrderFacts DEF TypeOK, Completion, Succeed
  <2>3. DoneBefore'
    BY <1>2, <2>1, Advance DEF Completion, Succeed
  <2>4. SinkHasStatus'
    BY <2>1 DEF SinkHasStatus, CompletionIsValid, Completion
  <2>5. EvidenceAfterSeccomp'
    BY <1>1, <1>2, <2>1 DEF EvidenceAfterSeccomp, Completion, Succeed
  <2>6. CommandAtEnd' /\ FailureRecorded'
    BY <1>2 DEF CommandAtEnd, FailureRecorded, Now, Completion, WriteAllowed
  <2> QED
    BY <2>2, <2>3, <2>4, <2>5, <2>6
<1>3. CASE /\ Report("Completion") /\ UNCHANGED <<done, bits, at>>
            /\ (bits = Required \/ evidence' = evidence)
            /\ evidence' \in BOOLEAN
  <2>1. /\ state = "setup" /\ at > 0 /\ UNCHANGED <<spec, filter, statusFd>>
        /\ "Completion" \in Stages
    BY <1>0 DEF Completion, Now
  <2> QED  BY <1>1, <1>3, <2>1, ReportKeeps
<1>4. CASE /\ state' = "killed" /\ UNCHANGED <<record, done, bits, at>>
            /\ bits = Required /\ evidence' \in BOOLEAN
  <2>1. /\ at > 0 /\ UNCHANGED <<spec, filter, statusFd>>
    BY DEF Completion, Now
  <2> QED
    BY <1>1, <1>4, <2>1
    DEF Inv, TypeOK, DoneBefore, Has, SinkHasStatus, CompletionIsValid,
        EvidenceAfterSeccomp, CommandAtEnd, FailureRecorded
<1>5. evidence' \in BOOLEAN
  <2>1. CASE bits = Required
    BY <2>1, Zenon DEF Completion, Emit
  <2>2. CASE bits # Required
    BY <2>2 DEF Completion, Inv, TypeOK
  <2> QED  BY <2>1, <2>2
<1> QED
  BY <1>2, <1>3, <1>4, <1>5 DEF Completion, Emit

LEMMA ExecKeeps == Inv /\ Exec => Inv'
<1> SUFFICES ASSUME Inv, Exec PROVE Inv'
  OBVIOUS
<1> USE DEF Inv, Exec
<1>0. "Exec" \in Stages
  BY DEF Stages, Order
<1>1. at = 21
  BY <1>0, NowFacts
<1>2. TypeOK'
  BY <1>0 DEF TypeOK
<1>3. DoneBefore'
  BY DEF DoneBefore, Has
<1>4. SinkHasStatus' /\ EvidenceAfterSeccomp'
  BY DEF SinkHasStatus, CompletionIsValid, EvidenceAfterSeccomp, WriteAllowed
<1>5. CommandAtEnd' /\ FailureRecorded'
  BY <1>1 DEF CommandAtEnd, FailureRecorded
<1> QED
  BY <1>2, <1>3, <1>4, <1>5

LEMMA FailKeeps == ASSUME NEW s \in Stages, Inv, Fail(s) PROVE Inv'
<1>1. /\ Report(s) /\ state = "setup" /\ evidence' = evidence
      /\ UNCHANGED <<spec, at, done, bits, filter, statusFd>>
  BY DEF Fail, Now
<1>2. evidence \in BOOLEAN
  BY DEF Inv, TypeOK
<1> QED
  BY <1>1, <1>2, ReportKeeps

LEMMA KilledKeeps == Inv /\ Killed => Inv'
BY DEF Inv, Killed, TypeOK, DoneBefore, Has, SinkHasStatus, CompletionIsValid,
       EvidenceAfterSeccomp, WriteAllowed, CommandAtEnd, FailureRecorded

LEMMA StepInv == Inv /\ [Next]_vars => Inv'
<1> SUFFICES ASSUME Inv, [Next]_vars PROVE Inv'
  OBVIOUS
<1>1. CASE Preflight
  BY <1>1, PreflightKeeps
<1>2. CASE Skip
  BY <1>2, SkipKeeps
<1>3. CASE FdActions
  BY <1>3, FdActionsKeeps
<1>4. CASE Seccomp
  BY <1>4, SeccompKeeps
<1>5. CASE Completion
  BY <1>5, CompletionKeeps
<1>6. CASE Exec
  BY <1>6, ExecKeeps
<1>7. CASE Killed
  BY <1>7, KilledKeeps
<1>8. CASE \E s \in Plain : PlainStage(s)
  BY <1>8, PlainStageKeeps
<1>9. CASE \E s \in Stages \ {"Completion"} : Fail(s)
  BY <1>9, FailKeeps
<1>10. CASE UNCHANGED vars
  BY <1>10 DEF vars, Inv, TypeOK, DoneBefore, Has, SinkHasStatus,
         CompletionIsValid, EvidenceAfterSeccomp, WriteAllowed, CommandAtEnd,
         FailureRecorded
<1> QED
  BY <1>1, <1>2, <1>3, <1>4, <1>5, <1>6, <1>7, <1>8, <1>9, <1>10 DEF Next

LEMMA Invariance == Spec => []Inv
BY InitInv, StepInv, PTL DEF Spec

-----------------------------------------------------------------------------
(* The promises.                                                           *)

\* Type correctness, for any specs, refusals and filter verdicts.
THEOREM RuntimeTypeCorrect == Spec => []TypeOK
BY Invariance, PTL DEF Inv

\* A partially configured sandbox is never inhabited: when the command runs,
\* every stage its spec asks for has succeeded (runtime.rs, run; PRINCIPLES.md).
THEOREM FullyInhabited == Spec => []NeverPartlyInhabited
<1>1. Inv => NeverPartlyInhabited
  <2> SUFFICES ASSUME Inv, state = "command", NEW s \in Stages, Has(spec, s)
               PROVE  s \in done
    BY DEF NeverPartlyInhabited
  <2>1. at = 21 /\ "Exec" \in done
    BY DEF Inv, CommandAtEnd
  <2>2. PICK i \in 1..21 : Order[i] = s
    BY OrderFacts
  <2>3. CASE i = 21
    BY <2>1, <2>2, <2>3, ExecLast
  <2>4. CASE i # 21
    BY <2>1, <2>2, <2>4, OrderFacts DEF Inv, DoneBefore
  <2> QED
    BY <2>3, <2>4
<1> QED
  BY <1>1, Invariance, PTL

\* The completion record is written only when all required primitives
\* succeeded, the filter included (runtime.rs, the completion gate).
THEOREM EvidenceTrue == Spec => []EvidenceIsSound
<1>1. Inv => EvidenceIsSound
  BY DEF Inv, EvidenceAfterSeccomp, EvidenceIsSound
<1> QED
  BY <1>1, Invariance, PTL

\* A consumer that follows the protocol of completion.rs accepts only confined
\* children, and among those that failed only one whose own filter refuses the
\* failure record.
THEOREM AcceptanceTrue == Spec => []AcceptedIsConfined
<1>1. Inv => AcceptedIsConfined
  <2> SUFFICES ASSUME Inv, Accepted
               PROVE  /\ Required \subseteq done
                      /\ state = "failed" => filter["report"] = "errno"
    BY DEF AcceptedIsConfined
  <2> USE DEF Inv
  <2>1. /\ Required \subseteq done /\ "completion" \in spec
        /\ at > 0 /\ state # "setup" /\ record = "none"
    BY DEF Accepted, EvidenceAfterSeccomp
  <2>2. "status" \in spec
    BY <2>1 DEF SinkHasStatus, CompletionIsValid
  <2>3. filter["report"] \in {"allow", "errno", "kill"}
    BY SpecsAssumption DEF TypeOK, Filtered, Verdicts, Unfiltered
  <2>4. state = "failed" => filter["report"] \notin {"allow", "kill"}
    BY <2>1, <2>2 DEF FailureRecorded, WriteAllowed
  <2> QED
    BY <2>1, <2>3, <2>4
<1> QED
  BY <1>1, Invariance, PTL

\* With a completion sink every failure is in the status pipe unless the filter
\* itself refuses the write (report.rs, Reporter; runtime.rs, completion_is_valid).
THEOREM SinkFailureReported == Spec => []SinkFailureIsReported
<1>1. Inv => SinkFailureIsReported
  BY DEF Inv, FailureRecorded, SinkFailureIsReported, FailureIsReported
<1> QED
  BY <1>1, Invariance, PTL

\* The places of the stages that need a privilege, and of those that give it up.
LEMMA PrivilegeOrder ==
    /\ \A i \in 1..21 :
           Order[i] \in {"Mount", "Hostname", "Network", "Landlock"} => i < 11
    /\ \A i \in 1..21 : Order[i] = "Seccomp" => i = 18
    /\ Order[11] = "Capabilities" /\ Order[16] = "NoNewPrivs"
<1>1. \A i \in 1..21 :
          Order[i] \in {"Mount", "Hostname", "Network", "Landlock"} => i < 11
  BY DEF Order
<1>2. \A i \in 1..21 : Order[i] = "Seccomp" => i = 18
  BY DEF Order
<1>3. Order[11] = "Capabilities"
  BY DEF Order
<1>4. Order[16] = "NoNewPrivs"
  BY DEF Order
<1> QED
  BY <1>1, <1>2, <1>3, <1>4

\* No stage runs after a privilege that it needs was given up (the order of
\* the stages in runtime.rs, run).
THEOREM PrivilegesLast == Spec => []NoPrivilegeMissing
<1>1. Inv => NoPrivilegeMissing
  <2> SUFFICES ASSUME Inv, state = "setup", at > 0, Consistent, Has(spec, Order[at])
               PROVE  KernelAllows(Order[at])
    BY DEF NoPrivilegeMissing
  <2>1. at \in 1..21
    BY OrderFacts DEF Inv, TypeOK
  <2>2. \A i \in 1..21 :
            (i < at /\ Has(spec, Order[i])) <=> (Order[i] \in done \ {"Exec"})
    BY OrderFacts DEF Inv, DoneBefore
  <2>3. Has(spec, "Capabilities") <=> "caps" \in spec
    <3>1. "Capabilities" \in Stages
      BY DEF Stages, Order
    <3>2. Needs["Capabilities"] = "caps"
      BY <3>1 DEF Needs
    <3> QED
      BY <3>2 DEF Has
  <2>4. "no_new_privs" \in spec => Has(spec, "NoNewPrivs")
    <3>1. "NoNewPrivs" \in Stages
      BY DEF Stages, Order
    <3>2. Needs["NoNewPrivs"] = "no_new_privs"
      BY <3>1 DEF Needs
    <3> QED
      BY <3>2 DEF Has
  <2>5. CASE Order[at] \in {"Mount", "Hostname", "Network", "Landlock"}
    <3>1. at < 11
      BY <2>1, <2>5, PrivilegeOrder
    <3>2. "Capabilities" \notin done
      BY <2>2, <3>1, <2>1, PrivilegeOrder
    <3> QED
      BY <2>5, <3>2 DEF KernelAllows, Admin
  <2>6. CASE Order[at] = "Seccomp"
    <3>1. at = 18
      BY <2>1, <2>6, PrivilegeOrder
    <3>2. "no_new_privs" \in spec => "NoNewPrivs" \in done
      BY <2>2, <2>4, <3>1, PrivilegeOrder
    <3>3. "caps" \notin spec => "Capabilities" \notin done
      BY <2>2, <2>3, <3>1, PrivilegeOrder
    <3>4. "seccomp" \in spec
      <4>1. "Seccomp" \in Stages
        BY DEF Stages, Order
      <4>2. Needs["Seccomp"] = "seccomp"
        BY <4>1 DEF Needs
      <4>3. "seccomp" # "always" /\ Needs["Seccomp"] \in spec \cup {"always"}
        BY <2>6 DEF Has
      <4> QED
        BY <4>2, <4>3
    <3> QED
      BY <2>6, <3>2, <3>3, <3>4 DEF KernelAllows, Admin, Consistent
  <2>7. CASE Order[at] \notin {"Mount", "Hostname", "Network", "Landlock", "Seccomp"}
    BY <2>7 DEF KernelAllows
  <2> QED
    BY <2>5, <2>6, <2>7
<1> QED
  BY <1>1, Invariance, PTL

=============================================================================
