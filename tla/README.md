# A verification of pnut

pnut runs one command in a Linux sandbox that needs no privileges: a planner
(`pnut`) validates a configuration and translates it, a child runtime
(`pnut-child`) applies it between `clone3` and `execve`, and a policy compiler
(`kafel`) produces the seccomp filter. This directory holds TLA+ models of the
parts whose correctness depends on order, failure and concurrency, the TLC
configurations that check them, and TLAPS proofs.

`tlc -config X.cfg M` checks a configuration, and `tlapm` on each of the eight
`*Proofs.tla` modules checks the proofs. `PROJECT.json` maps every definition to
the source lines it models.

## 1. Inventory

| Component | State it keeps | Operations | Hard behaviours | Modelled in |
|---|---|---|---|---|
| Once mode, parent (`sandbox/parent.rs`) | descriptors of two pipes, the ID map files written, the signal mask of the thread, the child | `run_once_mode`, `run_parent_setup`, `write_id_maps`, `wait_for_child`, `decode_child_failure` | several threads share one descriptor table; every step can fail with the child half set up; the host can die; signals arrive at any time | `OnceMode`, `SignalSupervision` |
| Child runtime (`pnut-child/src/runtime.rs`) | `completed_stages`, its descriptors, the filter | `run` and its 21 stages | a failure at any stage; the filter applies to the runtime's own later calls | `ChildRuntime`, grouped in `OnceMode` |
| Reports and completion evidence (`report.rs`, `completion.rs`, `io.rs`) | the record in the status pipe, the evidence in the sink | `Reporter::*`, `emit`, `decode` | who may believe what, when the child dies between two writes | `ChildRuntime`, `OnceMode` |
| Descriptor policy (`fd.rs`, `FileDescriptors::prepare`) | the descriptor table, a cursor | `apply_actions`, `close_other_fds`, `next_keep_fd` | one action overwrites what another needs; range arithmetic at the edges | `FdPlan` |
| Environment assembly (`env.rs`, `Environment::prepare`) | scratch slots and bytes | `prepare` | `environ` is read twice, once to size the slots and once to fill them | `EnvAssembly` |
| Mounts (`mount/`, `pnut/src/mount.rs`, `Table::prepare`) | a mount tree under a private tmpfs, staged file contents, trees prepared in the host | one operation per entry kind, `/dev`, `pivot_root`, cleanup | later entries hide earlier ones; host paths change between planning and mounting; mount points are made in whatever is there; propagation to the host | `MountSetup` |
| Landlock, capabilities, rlimits | masks and rule lists | `prepare` and `apply` of each | an empty list and an absent one mean different things; one list raises the version for all; two words of 32 bits; what `execve` leaves of a set | `ConfinementPlan`, `Confinement` |
| Validation (`config.rs`, `sandbox.rs`) | none | `TryFrom<SandboxBuilder>`, `run` | combinations that only fail later, in the child | `ConfinementPlan`, `Confinement` |
| Execve mode (`standalone.rs`) | the namespaces of the caller | `run_execve_mode` | `unshare` cannot be undone when a later step fails | `Confinement` |
| seccomp policy preparation (`sandbox/seccomp.rs`) | an ordered rule list | `prepare_program`, `inject_userns_deny` | injected rules meet user rules on the same syscall | `KafelCodegen` |
| kafel front end (`parser.rs`, `resolver.rs`, `resolve.rs`) | the set of names seen, the table of constants, the visiting set | `parse_with_includes`, `resolve_define`, `flatten_policy` | circles of `#include`, `#define` and `USE`; names used before they are defined, or twice | `KafelInclude`, `KafelResolve` |
| kafel compiler (`codegen/`, `interp.rs`) | rule list, ranges, instruction buffer, tree under construction | normalise, emit | ranges without gaps; jumps of 8 bits in code that grows; 64-bit comparison in 32-bit words | `KafelRanges`, `KafelMachine`, `KafelCompare`, `KafelExpr`, `KafelReverse`, `KafelCodegen` |
| System call wrappers (`net.rs`, `process.rs`, `pnut-child/src/seccomp.rs`) | none | one system call each | none of their own | as stages of `ChildRuntime` and `Confinement` |
| Command line (`pnut-cli`, `error.rs`) | none | options, TOML, exit codes | none of their own | not modelled |

How they interact. The host thread prepares a `ChildSpec`, creates a **sync
pipe** (parent to child, one byte: the ID maps are written) and a **status
pipe** (child to parent, one `ChildFailure`), blocks its signals and clones. The
child inherits the whole descriptor table, closes the parent's ends of *its own*
two pipes, arms its death signal, waits for the byte, runs its stages and
executes the command. The parent writes three map files and the byte, waits with
a signalfd and the pidfd, reaps the child and reads the status pipe. EOF on
either pipe carries meaning, and EOF needs *every* copy of the other end to be
closed; that is where the concurrency of this program lies.

What makes each component correct:

* once mode: no setup before the maps, no error for a command that ran, no `Ok`
  for one that did not unless the plan of the run itself takes the record away,
  no child left behind, no call that never returns, no descriptor leaked into a
  command, no command that outlives its host;
* signals: none lost, none taken by the host, all acted upon, the mask restored;
* runtime: all stages or no command; evidence never ahead of the stages; every
  failure reported that the filter lets through; no stage after the privilege it
  needs is gone;
* descriptors: what is kept stays open on the right file, all else is closed;
* environment: the command sees what `[env]` says and nothing else, and the
  scratch storage is never overrun;
* mounts: the last entry at or above a path decides what is there, read-only
  covers all that an entry mounted, and in the host nothing is mounted and
  nothing made but where a destination leads;
* confinement: the command has exactly the accesses, capabilities, limits and
  namespaces that the sections name, a plan is refused for reasons outside of it
  only, but for a `nofile` that starves Landlock, and a caller is moved into
  namespaces only as execve mode says;
* includes and constants: a policy means what its files say, written out in
  order, and a circle is refused;
* seccomp: the program does to every call what the policy says, and the rules
  pnut adds hold where the user's policy does not rule itself.

The hazards that the properties aim at are listed in `PROJECT.json`, each at its
line.

## 2. The modules

### OnceMode

One element of `Runs` is one call of `Sandbox::run` with the child it clones.
`ppc[r]` is the place of the thread in `run_once_mode` and `run_parent_setup`,
`cpc[r]` the place of the child in `pnut_child::run`. The stages of the child
that do not interact with the parent are grouped (`SetUp`, `Confine`); each may
be refused. `hostFds` is the one descriptor table that all threads share, and
`childFds[r]` is the copy `Clone` makes of it, so the model decides EOF and
EPIPE by looking at who holds which end (`Open`). `syncByte` and `record` are
the contents of the pipes. A report may be lost while the pipe has a reader: an
`[fd]` mapping whose `dst` is the number of the status pipe replaces it
(`FdsHitStatus`, `Mapped`), and an installed filter may answer the write with an
errno (`FilterRefuses`, `WriteRefused`). The child exits with 126 or 127 all the
same, and the parent, which finds no record, returns `Ok` with that code.
`ReturnEarly` is the `?` operator: the owned descriptors of the frame are
dropped. `HostDies` closes the table of the host and kills the armed children;
`ChildKilled` is any signal from outside.

A thread in a signal handler may interrupt a `waitpid` that has no retry
(`AwaitFailedChild` ignores the result) and the read of the status pipe, whose
error counts as "no record" (`Decode`): `MayInterrupt`.

`RunContract` is what a caller may rely on, without pipes or maps: a call ends
at most once, `Ok` only with a dead child whose command ran or that a signal
took, or in a run whose plan can silence its child (`Unheard`), an error only if
the command neither ran nor will run. OnceMode implements it (`Contract`, by `RC
== INSTANCE RunContract WITH ...`).

### SignalSupervision

The signal mask around `clone3` and the loop of `wait_for_child`, for one call
in a host with one thread, since a signal mask belongs to a thread. Pending
signals are a set, as standard signals coalesce. `Poll` keeps what the pidfd
reported, so that a child that dies between `poll` and `waitpid` is covered;
`Drain` reads one `siginfo` per step, and `PollFails` is the error return of
`poll`. `Relay` is `pidfd_send_signal`: with `forward_signals` the child may
handle or ignore the signal, without it SIGKILL takes it. SIGCHLD ignored by the
host, or reaping elsewhere, is `AutoReap`.

### ChildRuntime

`run()` stage by stage. A `ChildSpec` is the set of the optional parts it has;
`Order` is the order of the code and `Needs` says which part each stage asks
for. Each stage succeeds, is skipped, or is refused and reported (`Fail`,
`Report`). `KernelAllows` is the one fact about the kernel that the order
depends on: mount, host name and loopback need CAP_SYS_ADMIN or CAP_NET_ADMIN in
the namespace, Landlock and seccomp need CAP_SYS_ADMIN or no_new_privs. After
`Seccomp` the filter decides about every call by itself, since it sees
descriptor and length: `Filters` gives a verdict for the write of the evidence,
for the close of the sink and for the write of a late report.
`CompletionIsValid` is the check before the first stage: no descriptor action
names the status pipe or the sink (`hit_status`, `hit_sink`), and the sink has a
number of its own (`clash`). `Accepted` is the reading of a consumer as the
module comment of `completion.rs` describes it.

### FdPlan

`apply_actions` and `close_other_fds` on small descriptor tables, where a table
maps a descriptor to the file it denotes. Plans come from the model of
`FileDescriptors::prepare` (`PlanKeep`: the destinations in a `BTreeSet`, which
`Ascending` iterates by rank) or are arbitrary lists, as a direct user of
`pnut-child` may pass. `c_int` is scaled down to `CIntMax` = 7 and `u32` with it
to 15, which keeps both edges: the cast of -1 and the range up to the maximum. A
`close_range` that the kernel refuses ends the stage with a part of the table
closed (`CloseRangeFails`).

### EnvAssembly

`SizeStorage` is `Environment::prepare` in the host: it counts `environ` through
`vars_os()`, or the kept keys, and sums the bytes of `set`. `HostChanges` is
another thread that sets or unsets variables before `CloneChild` copies the
process. `Walk`, `Bind` and `Finish` are `env::prepare` in the child, entry by
entry, `set` in any order since the configuration keeps it in a hash map. An
entry without `=` has the key `NoKey`; a configured key that contains `=` is in
`BadKeys`. A value has no bytes of its own, an entry has a `Size`.

### MountSetup

`Plan` is `Table::prepare` in the host: a `stat` of every bind source (for a
prepared mount, the caller cloned its tree and says what it is). `HostRenames`
is another process that swaps the directory and the file of that name at any
later moment. The rest is `mount::setup` in the child, one action per step:
`SetupRoot`, `Staging`, `SetupDev`, one action per entry kind, `Pivot`,
`DetachOldRoot`, `Cleanup`; `Fails` stops any of them half way, with the mount
points made so far. A filesystem is a tree of directories and files, and `mnt`
the list of mounts in the order they were attached, so a path leads to the last
one attached at a prefix of it. A mount knows whether it is read-only and
whether it is `shared` with the host; what would reach the host is counted in
`hostMounts`. The host has one directory with a filesystem mounted below it, and
one file. `prepare` strips the leading `/` of a destination and nothing else, so
a destination may begin with `..` (`Up`): it leads to the directory of the host
that `/tmp/pnut-newroot` is in (`Outside`), which the model keeps as a part of
the tree that the new root is mounted on. Mount points made there stay; a mount
attached there goes with the old root. Symbolic links, mount options, `..` after
an ordinary name or a second time, and a bind whose source holds
`/tmp/pnut-newroot` are left out.

### ConfinementPlan, Confinement

`ConfinementPlan` is what pnut computes: `Valid` (`TryFrom<SandboxBuilder>`),
`LandlockPlan` (the version, the handled rights, the rules), `CapsPlan` (two
words of 32 bits), `LimitOf` (saturating megabytes), and what the kernel makes
of them. `Confinement` takes a configuration from `Build` to the command in both
modes: once mode prepares, then clones; execve mode unshares, writes its own ID
maps, and only then prepares, so `Prepare` may fail with the caller already
inside, and the caller may call again (`MaxCalls`). The stages that follow are
those of `ChildRuntime` with their effect: IDs, mounts, host name and loopback
(`Place`), limits, Landlock, capabilities, session, no_new_privs. `CommandExecs`
lets the command execute files with any file capabilities, `CommandRaises` raise
its inheritable set, from its bounding set too if it has CAP_SETPCAP. `Landlock`
needs a number for the ruleset and one more while the rule of a path is added,
and the limits of the same plan are in force by then (`EnoughDescriptors`). A
kernel is a version of Landlock, the capabilities it knows, its hard limits, and
the two lowest numbers free for a descriptor. `ids` says whether the caller's
own IDs are mapped, on which a second call depends.

### KafelInclude, KafelResolve, KafelRanges, KafelMachine, KafelCompare, KafelExpr, KafelReverse, KafelCodegen

One compilation of a policy, from the files on disk to the program. `FileOf`
(`KafelInclude`) is `parse_with_includes` for the policy and for the prelude,
depth first; `RefusesInclude` has its three checks in their order, the depth,
the set of names as they are written, and the file; a name is found relative to
the file that includes it. `Resolve` is `parse_policy`: `DefineTable` resolves
the constants in the order of the file, each with those it uses, `Validates`
(every `USE` names a policy, no rule has more than six arguments) and
`FlattenFile` (`KafelResolve`) write the `USE`s out, `Simplify` (`KafelExpr`)
folds the filters; `GenerateExpr` lowers them, with the comparisons of
`KafelCompare`. `AddPnutRules` is what `sandbox/seccomp.rs` appends, depending
on who calls. `Normalize` is `normalize_ranges` (`KafelRanges`). `TakeRange` is
one turn of the loop of `generate_rules`, with the chain of conditional mappings
and the joins it causes, `JoinRest` one turn of its second loop, and `Finish`
the prelude and the size check. `cg` is the `ReverseCodegen`: code is kept in
the order of emission, back to front, so a jump goes to a smaller index and a
distance grows with every instruction. A return value stands for its `ActionId`.

`SourceResolved` compares the front end with a reading of the sources that has
no visiting sets: paths of includes (`Chains`) and reachable names (`Behind`,
`Reaches`). Each refusal of an include has its own reason, and where names tell
the files apart (`NamesTellFiles`) a circle is refused exactly where a file
includes itself. Of doubled constants it says which definition counts
(`ExprThatCounts`).

`KafelMachine` is the machine of `interp.rs`: `Runs` has what the code yields
from every instruction on. `KafelReverse` is `ReverseCodegen`: return
instructions that are shared, trampolines, the chain of a range
(`EmitConditionalChain`), the joins (`JoinTop`) and the prelude. `KafelCompare`
also has the reference meaning of a comparison (`CompareHolds`, `MaskedHolds`),
`KafelExpr` that of a filter (`Holds`). The loops of these modules are recursive
functions; only `KafelResolve`, `KafelInclude` and `KafelExpr` walk trees with
recursive operators. A word has four values instead of 2^32 and an argument two
words, so equality, order and masks go through high and low words as they do in
the code. System call numbers end at 6 instead of 1023 and a jump reaches 5
instead of 255; `AddJump` cuts its distances to the width of the field as `as
u8` does. `Verdict` is what the policy says of a call, computed from the rules
as written. `DebugAssertions` chooses the build: with them a jump that does not
fit panics.

### MC modules

`MCOnceMode` declares the permutations of the runs (used only where the instance
treats them alike and no liveness is checked), `MCChildRuntime`, `MCFdPlan`,
`MCEnvAssembly`, `MCMountSetup`, `MCConfinement` and `MCKafelCodegen` enumerate
the specs, the lists, the environs and sections, the mount tables, the
configurations and kernels, and the policies. Operators called *variant* in a
module are slips a programmer could make; no specification uses them. They exist
to show that each property fails when the code is wrong.

## 3. The runs

| Run | Question | Size |
|---|---|---|
| `once_pair` | Two calls at once, all setup steps may be refused, one call may be refused its maps, one has an `[fd]` mapping onto its status pipe and the other a filter that refuses reports; do all promises hold, does every call return, does the pair implement `RunContract`? | 76 572 states |
| `once_storm` | Two calls with every failure, interruption, kill and the death of the host: maps before setup, no silent failure but where the filter refuses the record, no orphan | 842 537 states, up to symmetry |
| `signals` | Two forwardable signals, up to three sends at any moment, both settings of `forward_signals`, refusals at each step | 898 states |
| `runtime` | All combinations of the parts a sink asks for, with or without the other parts, a descriptor action on the status pipe or the sink, or a sink without a number of its own; every refusal, every filter that tells the three calls after it apart, a kill at any point | 307 476 states |
| `fd_policy` | All plans of up to three mappings and all lists of up to two actions with six keep lists, on all tables over descriptors 3..5; a refused `close_range` | 362 438 states |
| `env_policy` | All environs of up to three entries (two keys, a second value, a malformed entry) against 80 sections, changed or not before the clone | 210 480 states |
| `kafel` | About 7 800 sources in eight families: single filters over all operators, word boundaries and nestings; up to two rules on the numbers pnut has rules for, for each caller; every layout, over six numbers, of a filtered rule and two plain ones, whose actions differ or share an encoding; files that include, constants that use and policies that use each other; rules with as many arguments as a call has, or one more | 63 531 states |
| `mounts` | All tables of at most three entries from a pool with each kind, read-only or not, nested destinations and destinations on `/dev`, on the staging directory, on the root, in procfs and outside of the root; the host renames a source at any moment; every call may be refused | 402 070 states |
| `confinement` | Five families of configurations (what is validated, all combinations of Landlock lists, capabilities, limits, a limit on descriptors together with Landlock) in both modes on eight kernels, with two calls in execve mode | 980 408 states |

`TypeOK` is not an invariant of a run where it is proved for every instance.

Bounds. Two calls suffice for what crosses calls: an inherited end matters to
the one call it belongs to. (The safety part of this is proved for any number,
see section 5.) Three sends of two signals allow a signal to be sent twice,
before and after it was read, with another in between. Three mappings allow a
chain (3 to 4 to 5), a swap and an overwrite. The map files are three because
the code writes three. Three verdicts of a filter on each of three calls are
what the runtime can tell apart. Three entries allow a doubled key next to
another one, and an environ that grows or shrinks by more than the slot of the
null; the five `keep` lists hold none, one, both, a repeated and a malformed
key. Three mounts allow an entry below another one and a third that hides both.
Two calls in execve mode are the first that moves the caller and one from where
it was left. In `confinement` a path tree of a directory, a file in it and
another directory has every relation that `IsBeneath` tells apart; one "MiB" is
4 bytes of a largest number of 15, so that products stay below, meet and exceed
it.

Three runs show the code doing what a doc, comment or roadmap line excludes;
each is a finding in `PROJECT.json` with the line it quotes:

* `once_deadlock`: two calls whose ID maps are both refused wait for each
  other's child for ever, because the sync pipe is not CLOEXEC and the other
  child holds its write end while it is itself waiting;
* `once_unsupervised`: `signalfd()` or `poll()` fails after the byte was
  written: the caller gets an error and the command runs;
* `kafel_false`: a filter that folds to false emits no code, the chain is
  entered at the instruction copied last, which is the true exit, and the rule
  applies to every call.

Divergences seen while modelling that have no run of their own: a refused
`clone3` returns with the signals still blocked; `waitpid` failing with ECHILD,
because the host ignores SIGCHLD or reaps elsewhere, makes the supervision loop
spin (`AutoReap = TRUE` in `Signals.cfg` breaks `ExitIsNoticed`); in a PID
namespace `getppid()` is 0, never 1, so a host that dies before the death signal
is armed is not noticed (the assumption of `NoOrphan`); a comparison of two
arguments, and one with a mask of more than 32 bits, compiles to no code and so
applies always, as in `kafel_false`; a constant of one word is compared with the
low word of the argument only; the rules pnut appends so that execve is always
allowed (seccomp.rs:79-80) and clone3 always refused yield to an earlier
unconditional rule of the user (`PnutRulesHold` names the exceptions);
`pipe_pair` is not CLOEXEC although ARCHITECTURE.md says both pipes are, and
with `close_fds = false` a command keeps another call's sync pipe; a child that
fails before the sync wait makes the parent's write fail with EPIPE, and the
report is never read (a host that is PID 1 always takes this path with
`die_with_parent`); an unsorted keep list closes descriptors that it names,
since `next_keep_fd` stops at the first element that is not below the cursor,
although fd.rs:74-76 says it "does not require that property for correctness"
(the planner always sorts); the assembly of the environment fails with ENOSPC
when `environ` has an entry without `=`, which `vars_os()` does not count, and
with `clear = true` when a kept key is there twice (`NoSpaceForAReason` names
all such reasons); `thread_unblock` also unblocks what the caller had blocked; a
filter that kills on `write()` takes the report of a later failure with it; a
filter that answers every `write()` with EINTR keeps a failed child in the loop
of `write_all` for ever, which no module has; the error paths of the sync write
and of `signalfd` return without reaping the child.

The record of a failure is lost in two ways that the plan of a run brings about
itself, and `run()` then returns `Ok(126)` or `Ok(127)` as if a command had
exited so: an `[fd]` mapping whose `dst` is the number of the status pipe
replaces it, and without a completion sink no check notices
(runtime.rs:158-161); a filter that answers the 16-byte write with an errno
loses what fails after it, `chdir` and `execve` (report.rs:139-183).
ROADMAP.md:28-30 promises access to child failures "instead of `Ok(126)`",
ARCHITECTURE.md:160 and 166 that the child writes a `ChildFailure`,
PRINCIPLES.md:76-78 that a caller can tell them apart. `NoSilentSetupFailure`
and `Contract` name both exceptions (`Muted`, `Unheard`), and nothing else loses
a record. For the same reason the clean close of the status pipe that
completion.rs:3-5 asks a consumer to look for does not tell that `execve`
succeeded: a filter may let the 42 bytes of evidence pass and refuse the 16 of
the record. `AcceptedIsConfined` says what is left: such a child is confined,
and its own filter is the one that refused. An `[fd]` mapping whose *source* is
the number of a control pipe is not modelled.

In the descriptor policy a mapping of -1 onto -1 is skipped, but its -1 stands
first in the keep list, is the largest number as a u32, and so ends the scan at
once and closes the other kept destinations (the premise `NoneNegative` of
`KeptStayOpen` and `MappingsHonoured`).

In mounts: ARCHITECTURE.md:143-144 lists `/dev` after the mounts, while the code
does it first, so that an entry on or below `/dev` counts; `/tmp/pnut-newroot`
stays in the host. A destination that starts with `..` leaves the new root,
since neither `sandbox.rs` nor prepare.rs:298-337 refuses it and mod.rs:366-395
follows it: the mount points on the way to it are made in `/tmp` of the host,
without any writable bind, and setup succeeds although the command never sees
the entry. `HostWritesAreGranted` says that this is the only place where the
host is written to without a bind, and `LastEntryWins` speaks of destinations
inside only.

In confinement: without a `[capabilities]` section nothing is dropped, although
pnut.toml.5.scd:313 says "All capabilities are dropped by default"; what is kept
is lost at `execve` when the inside uid is not 0, since the ambient set is
cleared (the premise of `KeptCapsStay`); a `BuildError` is documented as
"pre-run", but in execve mode it may come after `unshare`, with the caller left
inside, where a retry is refused its ID maps unless inside and outside IDs are
equal; `setsid` fails for a process group leader, which a caller of execve mode
usually is, with the default `new_session`; `unshare(CLONE_NEWTIME)` only counts
for children, as a PID namespace does, but only the latter is refused by
validation; a list with rights of directories that names a regular file is
refused by the kernel with EINVAL, which fails closed; the limits of a plan are
in force before its Landlock rules are added (runtime.rs:112-127), so a small
`nofile` refuses its own plan with EMFILE, which fails closed too
(`RefusedForAReason` names it); a configuration without a user namespace is
always refused, at the ID maps.

In kafel: codegen.rs:71-73 says that `canonical_name` serves to find circular
includes, but parser.rs:112 uses the name as written, so legal chains through
two files of one name are refused, and a circle under different names is only
found by its depth (`IncludesResolved`); of two `#define`s of one name the
earlier counts, the prelude's before the user's, unless a definition above uses
the name, and then the later (`DefinesResolved`; the test at
tests/includes.rs:151 is named for the opposite and takes either outcome),
whereas of two policies of one name always the later; on the right of a
comparison a name is looked up among the constants before the arguments, on the
left the other way round (resolve.rs:550 and 598); without debug assertions the
false target of a jump is made reachable before the true one, what is emitted
for the true one may push it out of reach, and the distance is cut to 8 bits
(`Kafel.cfg` with `DebugAssertions = FALSE` breaks `SubtreesDecide`; a few
hundred numbers with differing actions fill the 255 instructions of the real
reach).

## 4. Fairness

`OnceMode` assumes weak fairness of each host thread and of the setup of each
child: the kernel schedules them, and a step that blocks is a guard. Nothing is
assumed of commands, kills, signals or failures; `EveryRunReturns` therefore
excepts a command that runs for ever. `SuperviseFails` is not under fairness.
`SignalSupervision` assumes the thread is scheduled, and that a child whose sync
pipe was dropped exits (it reads EOF and reports, which `OnceMode` shows); apart
from that a child need not exit. `FdPlan` is sequential: weak fairness of
`Next`.

## 5. What is proved

The theorems hold for every value of the constants that satisfies the
assumptions of the modules, and the one named here. In particular they hold for
any number of concurrent calls, any mount table, any configuration and kernel,
any signals, any keys, any descriptor lists.

| Theorem | Assumes | States |
|---|---|---|
| **`OnceModeProofs`** | | |
| `TypeCorrect` | - | `TypeOK` |
| `MapsFirst` | - | `MapsBeforeSetup` |
| `NoSilentFailure` | - | `NoSilentSetupFailure` |
| `FailClosed` | signalfd and poll do not fail | `ErrorMeansNotInhabited` |
| `NoOrphan` | no PID namespace with `die_with_parent`, orphans go to PID 1 | `NoOrphanCommand` |
| `NoPipeLeaks` | every run has `close_fds` | `CommandHoldsNoPipe` |
| `NobodyLeftBehind` | `Undisturbed` | `NothingLeftBehind` |
| `ReportsArrive` | `Undisturbed` | `ReportReachesCaller` |
| `KeepsContract` | signalfd and poll do not fail | OnceMode implements `RunContract` |
| **`SignalSupervisionProofs`** | | |
| `SignalTypeCorrect` | - | `TypeOK` |
| `NoneLost` | - | `NoSignalLost` |
| `HostLeftAlone` | - | `HostUndisturbed` |
| `EveryExitUnblocks` | - | `NothingLeftBlocked` |
| **`ChildRuntimeProofs`** | | |
| `RuntimeTypeCorrect` | - | `TypeOK` |
| `FullyInhabited` | - | `NeverPartlyInhabited` |
| `EvidenceTrue` | - | `EvidenceIsSound` |
| `AcceptanceTrue` | - | `AcceptedIsConfined` |
| `SinkFailureReported` | - | `SinkFailureIsReported` |
| `PrivilegesLast` | - | `NoPrivilegeMissing` |
| **`MountSetupProofs`** | | |
| `MountTypeCorrect` | - | `TypeOK` |
| `HostMountsUntouched` | - | `HostMountsIntact` |
| `TreeInvariance` | - | `BuildInv`, the mount tree at every step |
| `ReadOnlyIsKept` | - | `ReadOnlyHolds` |
| `HostWritesGranted` | - | `HostWritesAreGranted` |
| `LastEntryShows` | - | `LastEntryWins` |
| **`ConfinementProofs`** | | |
| `ConfinementTypeCorrect` | - | `TypeOK` |
| `HostStaysUntouched` | - | `HostUntouched` |
| `NoCapsBeyondKeep` | - | `CapsWithinKeep` |
| `KeptCapsRemain` | - | `KeptCapsStay` |
| `RunsAsConfigured` | - | `AsConfigured` |
| `LandlockIsExact` | - | `LandlockExact` |
| `RefusalsHaveReasons` | - | `RefusedForAReason` |
| **`FdPlanProofs`** | | |
| `FdTypeCorrect` | - | `TypeOK` |
| `NothingElse` | - | `NothingElseOpen`, whatever the keep list |
| `WhatIsKeptStays` | direct users pass sorted keep lists | `KeptStayOpen` |
| `MappingsHold` | direct users pass sorted keep lists | `MappingsHonoured` |
| **`EnvAssemblyProofs`** | | |
| `EnvTypeCorrect` | - | `TypeOK` |
| `SlotsHold` | - | `NeverOverrun` |
| `EnvHonoured` | - | `CommandSees` |
| `SpaceIsEnough` | - | `NoSpaceForAReason` |
| **`KafelProofs`** | | |
| `RangesAreRight` | - | what `normalize_ranges` returns, for any list of rules |
| `ComparisonDecides` | not two arguments, which the code takes for false | the code of a comparison |
| `MaskedDecides` | mask and value of one word; wider ones the code takes for false | the code of a masked comparison |
| `ChainDecides` | the filters' code has no return of its own | the chain of a range |
| `TurnKeepsTree`, `TurnsBuildTree` | the same | the first loop of `generate_rules` |
| `TreeJoins` | - | its second loop |
| `ProgramDecides` | no overflow | the prelude |
| `GenerateDecides` | the filters' code, no overflow | `generate`, for any list of ranges |
| `RulesAreEnforced` | the filters' code, no overflow | from rules to program |

The assumption of `FailClosed` is the negation of what the run
`once_unsupervised` shows, so it cannot be dropped. That of `NoOrphan` excludes
the PID namespace in which `getppid()` says nothing. `Undisturbed` says that no
handler of the host interrupts a blocking call, `signalfd()` and `poll()` work,
nobody else kills a child, a host that is PID 1 uses `die_with_parent` only with
a PID namespace, and no filter around the host refuses PR_SET_PDEATHSIG (a child
that fails before the sync wait makes the write of the byte fail): each of
these, dropped, leaves a child or a report behind (section 3). The plans of
`FileDescriptors::prepare` satisfy the assumption of the last two `FdPlan`
theorems by construction, which `AscendingSorts` proves.

**OnceMode.** None of the promises is inductive. `IInv` is: it adds, for each
run, how many maps are written at each place of the thread (`MapLedger`), that
the byte and all that follows it come after the third map (`ByteAfterMaps`),
that a result exists exactly at the end (`ResultAtEnd`), who holds which end of
the run's own pipes (`EndsHeld`: the child holds its status descriptor until it
ends, unless a mapping `Replaced` it, so a report finds its pipe), what a dead
child left behind (`EndOfChild`: a record, unless the child is `Muted`) and what
each result says about the child (`ResultMeans`). `NoOrphan` needs in addition
that an armed child past the parent check has a living parent (`ParentAlive`),
`NoPipeLeaks` that a child past `close_other_fds` holds its status descriptor at
most (`FdsClosed`). `NobodyLeftBehind` and `ReportsArrive` rest on `TidyInv`:
the child waits as long as the host holds the write end of its sync pipe
(`ChildWaits`), so the byte is never written to a pipe without a reader, and a
result other than an early error comes with a reaped child (`ResultTidy`). Steps
are proved per action, each for the run that moves and for the others; the
refinement has one lemma per kind of step of the contract.

**SignalSupervision.** The mask holds from the block to the unblock, and before
the clone there is nothing to lose (`MaskHolds`).

**ChildRuntime.** The invariant is an account of the order: `done` is exactly
what the spec asks for among the stages before `at` (`DoneBefore`). A child past
the preflight check that has a completion sink still has its status pipe
(`SinkHasStatus`), because the check refuses any descriptor action that names
it; the evidence is written only after the filter, and the filter is not
replaced afterwards (`EvidenceAfterSeccomp`); a failure whose record the filter
lets through to the status pipe is in it (`FailureRecorded`). `AcceptanceTrue`
combines these: a consumer that finds evidence and no record has a command, a
killed child, or a failed one whose filter refused. `PrivilegesLast` then reads
off the places of the stages.

**MountSetup.** `HostMountsIntact` is not inductive, as attaching on a shared
mount would reach the host. `NothingShared` makes it so: once the root is
private, no mount of the new tree is shared, since every tree that comes from
the host is either cloned from a private one or made private before it is
attached.

`LastEntryWins` is about the end only. `BuildInv` says what the tree means at
every step: each mount is one that setup makes itself or one that its entry asks
for, at the right place, from the right filesystem, and read-only where the
entry is (`MountsAsMeant`); the mounts of setup come first, then those of the
entries in the order of the table, the volume in a bound directory after it, and
none is missing (`Layered`); an injected file keeps its content and a file of
the host stays a file (`TreesAsMeant`). A path leads to the last mount above it,
so at the end that is the one of the last entry above it (`LastEntryShows`). The
host may move its directory over the file of that name after planning. An entry
planned as a directory then finds its source gone, so it never shows the file
(`DirsStayDirs`). An entry planned as a file makes a file as its mount point, on
which the kernel attaches no directory; that the path leads to the file just
made, and not to a mount in the way, needs `MountPointsThere`: every mount in
sight still has all the directories above it, so below the first one that is
missing there is none. What is made on the way to a destination, completely or
until a call is refused, lies in a filesystem that a writable mount on that way
shows as a directory (`OnlyGranted`). Of the directories of the host only an
earlier bind that the configuration makes writable shows one (`WritesGranted`),
except the one around the new root, which the mount of the root itself shows
below `..`: this is `HostWritesGranted`.

**Confinement.** `IInv` has one part per piece of state: what the caller was
moved into and why (`CallerInv`), which namespaces are entered at each place
(`NamespacesInv`), the ID maps (`MapsInv`), the three sets of capabilities over
any number of execs (`CredInv`), the limits (`LimitsInv`), and that the Landlock
domain is the plan's (`DomainsInv`). `LandlockIsExact` and `RefusalsHaveReasons`
then are about the plan alone: which version a list raises it to and which
rights that governs (`PlanGoverns`, `RulesAreHandled`), and which limit on
descriptors it has put in force by then (`NofileInForce`); `BitIsNumber` says
that word and bit give back the number of a capability.

**FdPlan.** Below the cursor the table holds kept descriptors only
(`ClosedSoFar` in `FdInv`), for any list, as the cursor never passes an open
descriptor without closing it or finding it in the list. With a sorted list
nothing that is kept is closed: what is to survive is where it was, or denotes
what its mapping asked for (`OpenInv`), since the next descriptor kept is then
the least not below the cursor. That the planner's list is sorted is a fact
about ranks: an element of a finite set that is not the least of those left has
one more below it (`RankGrows`), and so iterating by rank ascends
(`AscendingSorts`).

**EnvAssembly.** The invariant relates the list under construction to the part
of `environ` walked so far and to the bindings already encoded, which is what
`CommandSees` says of the whole when both are at their end. `SpaceIsEnough`
needs a second one, `SpaceInv`: what was counted in the host (a slot per kept
key or per entry, one per binding, one for the end, the bytes of the bindings)
against what the child has used. Entries taken and bindings made never need more
slots than that while environ is what was counted, each kept key is there once
and each entry has a key (`SlotsLeft`); the bytes are enough in any case. Bytes
are counted as the size of a set (`BytesOf`), so that the facts about finite
sets apply to the sum.

**Kafel.** No run states these theorems; in `Kafel.cfg` each is one step of what
`Faithful` and `SubtreesDecide` say of whole programs. For any list of rules
`NormalizeRanges` is sorted, has no gap and covers 0 to `MaxSyscallNr`; the
range of a number has the action and the conditional rules that `ToRange` gives
that number, or the default action when no rule has it; and no two neighbours
could have been one range. The loops are recursive functions over the length of
the list. That these exist is shown first (`StepsExist`), and what a loop keeps
then holds up to the end because there is no least place at which it fails
(`UpTo`). Merging keeps the order and loses no number (`MergeInv`); filling
keeps that all numbers below `next` are said rightly (`Filled`), as a gap
between sorted ranges is free of rules (`BetweenIsFree`). Every push either
appends or widens the last range, and both keep all of it (`PushCases`). Numbers
are naturals here: those of the code come from the table of names, far below the
end of a u32.

What an instruction yields depends on those below it only, so that code which
grows leaves alone what was emitted before (`RunsStay`). A return instruction
that is shared is one (`IsGenerator`), a trampoline yields what its target does,
and a jump whose distances were not cut goes to the side its test says
(`AddJumpDecides`). A chain is then right by its number of mappings: the copy of
an expression's code leads where its exits were to lead (`CopyLeads`). The tree
has an invariant (`TreeInv`): its numbers descend, the targets of neighbours
differ, and the code at each target does to a call that falls in its stretch
what is said of it (`TreeDecides`). A join, a push and the widening of the top
for a shared target keep it. `RulesAreEnforced` composes this with
`RangesAreRight`: for any list of rules a call gets the action of the first
conditional rule of its number whose filter holds, else of the first
unconditional one, else the default.

Three hypotheses stay. *No overflow*: `AddJump` cuts its distances, and
`overflow` says that it did, which happens (section 3). *The code of each filter
takes the exit that the filter says when it is entered at its last instruction*:
for a single comparison that is `ComparisonDecides` or `MaskedDecides`; it fails
for a filter that folds to false, which is the finding of `kafel_false`.
*Numbers end at `MaxSyscallNr`*: above, the last range applies, as the model
checks. Words may have any number of values, as long as a mask of one word picks
bits of the low word (`MasksPickLowBits`), and `MaxJump` is at least 3.

Only model-checked: all liveness (`EveryRunReturns`, `SignalKillsChild`,
`ExitIsNoticed`, `Terminates`), since liveness under fairness is not within
reach of the provers used; and what the runs state of kafel (`Faithful`,
`SubtreesDecide`, `SourceResolved`, `PnutRulesHold`) as a whole. The trees of
filters, policies and files are walked by recursive operators, and what these
compute can only be shown by an induction over data, which the provers do not
do. So `and`, `or` and `not` of filters, their folding, `USE`, `#define` and
`#include` stay with TLC, and the theorems begin where the rules are a list and
the code of each filter is given.

## 6. What is left out

The command line: reading options and TOML, and which exit code an error has. Of
kafel: the grammar, the table of system call names, the names of arguments, and
the wording and spans of errors. The loading of a filter beyond its one call;
the byte layouts of `ChildFailure` and of the completion record; file contents
and names, time. Of mounts: options, the symbolic links of `/dev`, sources that
contain `/tmp/pnut-newroot`. Real-time signals are not forwarded by the code.
`OnceMode` abstracts which setup step fails; `ChildRuntime` has the steps,
`Confinement` and `MountSetup` what they do. A write of one byte or of one
16-byte record to a pipe is atomic.

## 7. What could come next

1. That `OnceMode` abstracts `ChildRuntime`: the stages grouped in `SetUp` and
   `Confine` as a refinement.
2. The exit codes of the command line.
