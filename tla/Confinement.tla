---------------------------- MODULE Confinement ----------------------------
(***************************************************************************)
(* Sandbox::run from the builder to the running command, in both modes:    *)
(* what becomes of the caller's own process, and what the process that     *)
(* executes the command is left with.  In once mode (sandbox/parent.rs)    *)
(* the plan is made first and clone3 makes a process for the command; in   *)
(* execve mode (sandbox/standalone.rs) the caller unshares, writes its     *)
(* own ID maps, only then makes the plan, and becomes the command.         *)
(* OnceMode and ChildRuntime follow the pipes and the stages in detail;    *)
(* here the stages have the effects that the sections ask for.             *)
(***************************************************************************)
EXTENDS ConfinementPlan

CONSTANTS
    Configs,     \* the configurations considered
    Kernels,     \* the kernels considered
    Files,       \* the paths that lead to a regular file
    MaxCalls     \* bounds the calls of run() by one caller

ASSUME MaxCallsAssumption == MaxCalls \in Nat \ {0}
ASSUME ConfigsAssumption ==
    \A k \in Configs :
        /\ k.mode \in {"once", "execve"}
        /\ k.keep \subseteq 0..63
        /\ \A r \in DOMAIN k.rlimits : k.rlimits[r] \in 0..MaxU64
ASSUME KernelsAssumption ==
    \A k \in Kernels :
        /\ k.abi \in Nat /\ k.caps \subseteq Nat
        /\ k.hard \in [DOMAIN k.hard -> 0..MaxU64] /\ "nofile" \in DOMAIN k.hard
        /\ k.free \in [1..2 -> Nat] /\ k.free[1] < k.free[2]
        /\ \A f \in Configs : DOMAIN f.rlimits \subseteq DOMAIN k.hard

VARIABLES
    c,           \* the SandboxBuilder
    kernel,      \* [abi, caps, hard, timeOnExec, free]: the Landlock ABI, the capabilities,
                 \* the hard limits, whether execve enters the time namespace, and the
                 \* two lowest numbers free for a descriptor when the stages begin
    leader,      \* the caller leads a process group
    pc,          \* where run() is
    result,      \* what the caller got
    calls,       \* the calls of run() so far
    callerNs,    \* the kinds of namespace the caller was moved out of
    ids,         \* the caller's ID: that of the "host", "fresh" in a first user namespace
                 \* or "nested" in a second (neither is mapped), or mapped by "run"
    ns,          \* the kinds of namespace that the command's process has of its own
    maps,        \* the ID map files written in this call
    placed,      \* "mounts", "hostname", "loopback": set up for the command
    cred,        \* capabilities of the process: permitted, inheritable, bounding
    limits,      \* the hard limit of each resource
    domains,     \* the Landlock rulesets in force
    noNewPrivs,
    why          \* why the setup was refused

run == <<pc, result, calls, callerNs, ids>>
process == <<ns, maps, placed, cred, limits, domains, noNewPrivs, why>>
vars == <<c, kernel, leader, run, process>>

TypeOK ==
    /\ c \in Configs /\ kernel \in Kernels
    /\ pc \in {"build", "rejected", "built", "prepare", "clone", "unshare", "maps",
               "returned", "place", "limits", "landlock", "caps", "session", "nnp",
               "exec", "exited", "command"}
    /\ calls \in 0..MaxCalls /\ maps \in 0..3
    /\ cred \in [permitted : SUBSET Nat, inheritable : SUBSET Nat, bounding : SUBSET Nat]
    /\ limits \in [DOMAIN kernel.hard -> 0..MaxU64]

Kinds == {"user", "pid", "mount", "uts", "ipc", "net", "cgroup", "time"}

NoCred == [permitted |-> {}, inheritable |-> {}, bounding |-> {}]

Init ==
    /\ c \in Configs /\ kernel \in Kernels /\ leader \in BOOLEAN
    /\ pc = "build" /\ result = "none" /\ calls = 0
    /\ callerNs = {} /\ ids = "host"
    /\ ns = {} /\ maps = 0 /\ placed = {} /\ cred = NoCred
    /\ limits = kernel.hard /\ domains = {} /\ noNewPrivs = FALSE
    /\ why = "none"

\* run() returns to the caller; or the process of the command exits with 126.
Return(r) == pc' = "returned" /\ result' = r
Refuse(reason) == pc' = "exited" /\ why' = reason

-----------------------------------------------------------------------------
(* The caller.                                                             *)

Build ==
    /\ pc = "build"
    /\ IF Valid(c) THEN pc' = "built" /\ UNCHANGED result
                   ELSE pc' = "rejected" /\ result' = "build"
    /\ UNCHANGED <<c, kernel, leader, calls, callerNs, ids, process>>

\* A caller may try again after an error.
Call ==
    /\ pc \in {"built", "returned"} /\ calls < MaxCalls
    /\ calls' = calls + 1
    /\ pc' = IF c.mode = "once" THEN "prepare" ELSE "unshare"
    /\ maps' = 0 /\ ns' = callerNs
    /\ UNCHANGED <<c, kernel, leader, result, callerNs, ids, placed, cred, limits,
                   domains, noNewPrivs, why>>

\* Sandbox::prepare refuses a string with a NUL in it and a bind source that
\* went away after the build.
Prepare ==
    /\ pc = "prepare"
    /\ \/ pc' = (IF c.mode = "once" THEN "clone" ELSE "place") /\ UNCHANGED result
       \/ Return("build")
    /\ UNCHANGED <<c, kernel, leader, calls, callerNs, ids, process>>

\* A process in a new user namespace has every capability in it.
FullCred(k) == [permitted |-> k.caps, inheritable |-> {}, bounding |-> k.caps]

Enter(kinds) ==
    /\ ns' = ns \cup kinds
    /\ cred' = IF "user" \in kinds THEN FullCred(kernel) ELSE cred

\* Variant: the caller unshares what clone3 should have.
CloneOfCaller ==
    /\ pc = "clone"
    /\ Enter(c.namespaces) /\ callerNs' = callerNs \cup c.namespaces
    /\ pc' = "maps"
    /\ UNCHANGED <<c, kernel, leader, result, calls, ids, maps, placed, limits,
                   domains, noNewPrivs, why>>

\* clone3 with the flags of every namespace.
Clone ==
    /\ pc = "clone"
    /\ \/ Enter(c.namespaces) /\ pc' = "maps" /\ UNCHANGED result
       \/ Return("clone") /\ UNCHANGED <<ns, cred>>
    /\ UNCHANGED <<c, kernel, leader, calls, callerNs, ids, maps, placed, limits,
                   domains, noNewPrivs, why>>

\* unshare makes all of the namespaces or none.  That of PIDs is left out; that
\* of time is for children and, in some kernels, for what is executed.  A
\* caller whose ID is not mapped may not make a user namespace.
Unshare ==
    LET kinds == c.namespaces \ {"pid", "time"}
    IN  /\ pc = "unshare"
        /\ \/ /\ ids \in {"host", "run"}
              /\ Enter(kinds) /\ callerNs' = callerNs \cup kinds
              /\ ids' = IF "user" \notin kinds THEN ids
                        ELSE IF ids = "host" THEN "fresh" ELSE "nested"
              /\ pc' = "maps" /\ UNCHANGED result
           \/ Return("clone") /\ UNCHANGED <<callerNs, ids, ns, cred>>
        /\ UNCHANGED <<c, kernel, leader, calls, maps, placed, limits, domains,
                       noNewPrivs, why>>

\* write_id_maps: setgroups, uid_map, gid_map.  Only a new user namespace has
\* maps to be written; below one of an earlier call the outside ID has to be
\* mapped there.
WriteMap ==
    /\ pc = "maps"
    /\ \/ /\ "user" \in c.namespaces
          /\ ids = "nested" => c.insideIsOutside
          /\ maps' = maps + 1
          /\ ids' = IF c.mode = "execve" /\ maps' = 3 THEN "run" ELSE ids
          /\ pc' = IF maps' < 3 THEN "maps" ELSE IF c.mode = "once" THEN "place" ELSE "prepare"
          /\ UNCHANGED result
       \/ Return("id_map") /\ UNCHANGED <<maps, ids>>
    /\ UNCHANGED <<c, kernel, leader, calls, callerNs, ns, placed, cred, limits, domains,
                   noNewPrivs, why>>

-----------------------------------------------------------------------------
(* pnut_child::run, in the process of the command.                          *)

\* mount::setup, sethostname and bring_up_loopback, each if it is asked for.
Place ==
    /\ pc = "place"
    /\ \/ /\ pc' = "limits"
          /\ placed' = {w \in {"mounts", "hostname", "loopback"} :
                            \/ w = "mounts" /\ c.mounts
                            \/ w = "hostname" /\ c.hostname
                            \/ w = "loopback" /\ "net" \in c.namespaces}
          /\ UNCHANGED why
       \/ Refuse("place") /\ UNCHANGED placed
    /\ UNCHANGED <<c, kernel, leader, result, calls, callerNs, ids, ns, maps, cred,
                   limits, domains, noNewPrivs>>

\* rlimit::apply.  Nobody in a sandbox may raise a hard limit.
SetLimits ==
    LET wanted == [r \in DOMAIN c.rlimits |-> LimitOf(r, c.rlimits[r])]
    IN  /\ pc = "limits"
        /\ IF \A r \in DOMAIN wanted : wanted[r] <= limits[r]
           THEN /\ limits' = [r \in DOMAIN limits |->
                                 IF r \in DOMAIN wanted THEN wanted[r] ELSE limits[r]]
                /\ pc' = "landlock" /\ UNCHANGED why
           ELSE Refuse("limits") /\ UNCHANGED limits
        /\ UNCHANGED <<c, kernel, leader, result, calls, callerNs, ids, ns, maps,
                       placed, cred, domains, noNewPrivs>>

\* landlock::apply takes a number for the ruleset, and another one for each
\* path while its rule is added; by now the limit of the plan is in force.
EnoughDescriptors(plan) == kernel.free[IF plan.pathRules = {} THEN 1 ELSE 2] < limits["nofile"]

\* A listed path may be missing in the new root; and the kernel may have no
\* memory for a ruleset, or have as many in force for the caller as it takes.
Landlock ==
    LET plan == LandlockPlan(c.landlock)
        accepted == \A rule \in plan.pathRules : AcceptsRule(plan, rule, rule.path \in Files)
    IN  /\ pc = "landlock"
        /\ \/ "landlock" \notin c.sections /\ pc' = "caps" /\ UNCHANGED <<domains, why>>
           \/ /\ "landlock" \in c.sections /\ UNCHANGED domains
              /\ \/ kernel.abi < plan.min_abi /\ Refuse("abi")
                 \/ kernel.abi >= plan.min_abi /\ ~EnoughDescriptors(plan) /\ Refuse("descriptors")
                 \/ kernel.abi >= plan.min_abi /\ Refuse("kernel")
                 \/ /\ kernel.abi >= plan.min_abi /\ EnoughDescriptors(plan)
                    /\ \/ ~accepted /\ Refuse("rule")
                       \/ plan.pathRules # {} /\ Refuse("missing")
           \/ /\ "landlock" \in c.sections /\ kernel.abi >= plan.min_abi
              /\ EnoughDescriptors(plan) /\ accepted
              /\ domains' = {plan} /\ pc' = "caps" /\ UNCHANGED why
        /\ UNCHANGED <<c, kernel, leader, result, calls, callerNs, ids, ns, maps,
                       placed, cred, limits, noNewPrivs>>

\* Variant: the bounding set is left alone.
DropCapsKeepBounding ==
    /\ pc = "caps" /\ pc' = "session"
    /\ cred' = IF "capabilities" \notin c.sections THEN cred
               ELSE [cred EXCEPT !.permitted = @ \cap c.keep, !.inheritable = c.keep]
    /\ UNCHANGED <<c, kernel, leader, result, calls, callerNs, ids, ns, maps, placed,
                   limits, domains, noNewPrivs, why>>

\* caps::apply.  PR_CAPBSET_DROP refuses a capability the kernel has not got,
\* capset passes over it.
DropCaps ==
    LET plan == CapsPlan(c.keep)
    IN  /\ pc = "caps"
        /\ \/ "capabilities" \notin c.sections /\ pc' = "session" /\ UNCHANGED <<cred, why>>
           \/ /\ "capabilities" \in c.sections /\ plan.bounding_drop \subseteq kernel.caps
              /\ cred' = [permitted   |-> cred.permitted \cap plan.kept,
                          inheritable |-> kernel.caps \cap plan.kept,
                          bounding    |-> cred.bounding \ plan.bounding_drop]
              /\ pc' = "session" /\ UNCHANGED why
           \/ /\ "capabilities" \in c.sections /\ ~(plan.bounding_drop \subseteq kernel.caps)
              /\ Refuse("caps") /\ UNCHANGED cred
        /\ UNCHANGED <<c, kernel, leader, result, calls, callerNs, ids, ns, maps,
                       placed, limits, domains, noNewPrivs>>

\* setsid is refused to the leader of a process group; a child of clone3 is none.
NewSession ==
    /\ pc = "session"
    /\ IF c.new_session /\ c.mode = "execve" /\ leader
       THEN Refuse("session")
       ELSE pc' = "nnp" /\ UNCHANGED why
    /\ UNCHANGED <<c, kernel, leader, result, calls, callerNs, ids, ns, maps, placed,
                   cred, limits, domains, noNewPrivs>>

NoNewPrivs ==
    /\ pc = "nnp" /\ pc' = "exec"
    /\ noNewPrivs' = c.no_new_privs
    /\ UNCHANGED <<c, kernel, leader, result, calls, callerNs, ids, ns, maps, placed,
                   cred, limits, domains, why>>

\* execve of a file with capabilities fileCaps, the command or what it executes.
ExecFile(fileCaps) ==
    LET counted == IF c.insideRoot THEN kernel.caps ELSE fileCaps
    IN  /\ cred' = [cred EXCEPT !.permitted = PermittedAfterExec(cred, counted, noNewPrivs)]
        /\ ns' = ns \cup (IF kernel.timeOnExec THEN c.namespaces \cap {"time"} ELSE {})
        /\ pc' = "command"
        /\ UNCHANGED <<c, kernel, leader, result, calls, callerNs, ids, maps, placed,
                       limits, domains, noNewPrivs, why>>

Exec ==
    \/ pc = "exec" /\ \E fileCaps \in SUBSET kernel.caps : ExecFile(fileCaps)
    \/ /\ pc = "exec" /\ Refuse("exec")
       /\ UNCHANGED <<c, kernel, leader, result, calls, callerNs, ids, ns, maps, placed,
                      cred, limits, domains, noNewPrivs>>

\* The command executes other files, and makes what it may inheritable: what
\* it has, or with CAP_SETPCAP whatever its bounding set holds.
CommandExecs == pc = "command" /\ \E fileCaps \in SUBSET kernel.caps : ExecFile(fileCaps)

CommandRaises ==
    /\ pc = "command"
    /\ \E more \in SUBSET {cap \in cred.bounding : {cap, SetPCap} \cap cred.permitted # {}} :
           cred' = [cred EXCEPT !.inheritable = @ \cup more]
    /\ UNCHANGED <<c, kernel, leader, run, ns, maps, placed, limits, domains, noNewPrivs, why>>

Next ==
    \/ Build \/ Call \/ Prepare \/ Clone \/ Unshare \/ WriteMap
    \/ Place \/ SetLimits \/ Landlock \/ DropCaps \/ NewSession \/ NoNewPrivs
    \/ Exec \/ CommandExecs \/ CommandRaises

Spec == Init /\ [][Next]_vars

-----------------------------------------------------------------------------
(* Properties.                                                             *)

\* The Landlock version that pnut.toml(5) names for each list.
ListAbi == [allowed_read |-> 1, allowed_write |-> 1, allowed_execute |-> 1,
            allowed_refer |-> 2, allowed_truncate |-> 3, allowed_bind |-> 4,
            allowed_connect |-> 4, allowed_ioctl_dev |-> 5]
RightAbi == [r \in FsRights |-> CASE r = "Refer" -> 2 [] r = "Truncate" -> 3
                                  [] r = "IoctlDev" -> 5 [] OTHER -> 1]

\* "All filesystem access rights up to the highest ABI required by the
\* configured fields are governed", and Refer always is.
Governed(right) ==
    \/ RightAbi[right] = 1 \/ right = "Refer"
    \/ \E l \in DOMAIN ListAbi : c.landlock[l] # {} /\ ListAbi[l] >= RightAbi[right]

Listed(right, p) ==
    \E l \in FsLists : right \in FsAccess[l] /\ \E q \in c.landlock[l] : IsBeneath(p, q)

Probes == Files \cup UNION {c.landlock[l] : l \in FsLists}
Ports  == UNION {c.landlock[l] : l \in NetLists}

\* The command has a governed right exactly below the paths listed for it, an
\* ungoverned one everywhere, and may use exactly the listed ports if any are
\* listed: no other list, in another version of Landlock, changes what a list
\* says (Landlock::prepare, landlock::apply).
LandlockExact ==
    pc = "command" /\ "landlock" \in c.sections =>
        /\ \A r \in FsRights, p \in Probes :
               (\A d \in domains : MayAccess(d, r, p)) <=> (Governed(r) => Listed(r, p))
        /\ \A l \in NetLists, port \in Ports :
               (\A d \in domains : MayUsePort(d, NetAccess[l], port)) <=>
                   (c.landlock[l] # {} => port \in c.landlock[l])

\* The limit on descriptors that the configuration gives, or the caller's.
Nofile == IF "nofile" \in DOMAIN c.rlimits THEN c.rlimits["nofile"] ELSE kernel.hard["nofile"]

\* A stage refuses its plan only for a reason outside of it: Landlock because
\* the kernel is older than a list requires or a list with rights of
\* directories names a file, caps because the kernel does not know a
\* capability, setrlimit because more is asked than there is.  One plan refuses
\* itself: limits are set before Landlock is (runtime.rs:112-127), and a
\* nofile that leaves no number for the ruleset or for a path fails there.
RefusedForAReason ==
    /\ why = "abi" => \E l \in DOMAIN ListAbi :
                        (c.landlock[l] # {} \/ ListAbi[l] = 1) /\ ListAbi[l] > kernel.abi
    /\ why = "rule" => \E l \in FsLists :
                        ~(FsAccess[l] \subseteq FileRights) /\ c.landlock[l] \cap Files # {}
    /\ why = "descriptors" => Nofile <= kernel.free[2]
                              /\ (Nofile > kernel.free[1] => \E l \in FsLists : c.landlock[l] # {})
    /\ why = "caps" => ~(CrateCaps \subseteq kernel.caps)
    /\ why = "limits" => \E r \in DOMAIN c.rlimits :
                        LimitOf(r, c.rlimits[r]) > kernel.hard[r]

\* Whatever files the command executes and whatever it makes inheritable, it
\* never gains a capability that [capabilities] does not keep, unless the
\* kernel has one that pnut does not know and no_new_privs is off (caps::apply).
CapsWithinKeep ==
    pc = "command" /\ "capabilities" \in c.sections /\ (noNewPrivs \/ kernel.caps \subseteq CrateCaps) =>
        cred.permitted \subseteq c.keep

\* A command that is root in the sandbox has what is kept, and still has it
\* after any number of execs (Capabilities::prepare).
KeptCapsStay ==
    pc = "command" /\ "capabilities" \in c.sections /\ c.insideRoot =>
        c.keep \cap kernel.caps \subseteq cred.permitted

\* The command runs with its IDs mapped, in namespaces of its own of every
\* kind that is configured, and under the limits that are asked for, or as
\* high as they go.  (In execve mode it depends on the kernel whether a time
\* namespace is entered.)
AsConfigured ==
    pc = "command" =>
        /\ maps = 3
        /\ c.namespaces \ ns \subseteq
              (IF c.mode = "execve" /\ ~kernel.timeOnExec THEN {"time"} ELSE {})
        /\ \A r \in DOMAIN c.rlimits :
              LET bytes == c.rlimits[r] * (IF r \in InMegabytes THEN MIB ELSE 1)
              IN  limits[r] = bytes \/ (limits[r] = MaxU64 /\ bytes > MaxU64)

\* Nothing is set up outside the namespaces of the sandbox; once mode never
\* moves the caller; and a caller that gets an error in execve mode is where
\* it was or in all the namespaces of the configuration, never in between.
HostUntouched ==
    /\ "mounts" \in placed => "mount" \in ns
    /\ "hostname" \in placed => "uts" \in ns
    /\ "loopback" \in placed => "net" \in ns
    /\ c.mode = "once" => callerNs = {}
    /\ callerNs \in {{}, c.namespaces \ {"pid", "time"}}
    /\ result = "clone" /\ calls = 1 => callerNs = {}

=============================================================================
