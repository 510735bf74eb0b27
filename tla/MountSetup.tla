----------------------------- MODULE MountSetup -----------------------------
(***************************************************************************)
(* The mount tree of the sandbox: what mount::Table::prepare plans in the  *)
(* host (pnut/src/sandbox/prepare.rs) and mount::setup builds in the child *)
(* (pnut-child/src/mount/), against a host that changes in between.        *)
(*                                                                         *)
(* A filesystem is a tree of directories and files; a mount shows one of   *)
(* them at a path of the new root.  Mounts are kept in the order           *)
(* in which they were attached: what a path leads to is decided by the     *)
(* last mount attached at a prefix of it.  The host has one directory with *)
(* a filesystem mounted below it and one file, and the new root has a      *)
(* directory of the host for a parent, which a destination reaches by "..".*)
(* Left out: symbolic links, a bind whose source holds /tmp/pnut-newroot,  *)
(* and ".." after an ordinary name or a second time.                       *)
(***************************************************************************)
EXTENDS Integers, SequencesExt

CONSTANTS
    Tables,      \* the mount::Tables considered
    Name,        \* the names that paths are made of
    Vol,         \* the name in the host directory where a filesystem is mounted
    DevNodes     \* the device nodes of the host that setup_dev attaches, in order

\* Filesystems: those of the host, those that setup makes, and one for each
\* entry (for a file entry, the inode that is staged for it).
HostFs    == {<<"hostroot">>, <<"hostdir">>, <<"vol">>, <<"hostfile">>, <<"hostdev">>}
SetupFs   == {<<"root">>, <<"dev">>, <<"shm">>, <<"pts">>}
EntryFs(i) == <<"entry", i>>

Dir     == <<>>       \* what a tree maps a directory to
File(c) == <<c>>      \* a file and its content: 0, or the entry it is from
Only(v) == [q \in {<<>>} |-> v]      \* the tree of a single inode

Kinds == {"bind", "prepared", "tmpfs", "proc", "mqueue", "file"}
Binds == {"bind", "prepared"}

\* An entry holds the fields of mount::MountEntry that matter here: its kind,
\* the name "d" or "g" of its source, its destination as a sequence of names,
\* and read_only.
\* prepare strips the leading '/' of a destination and nothing else.
Names == Seq(Name)
Up    == ".."
Outside(p) == p # <<>> /\ p[1] = Up
EntryType == [kind : Kinds, src : {"d", "g", "none"}, dst : Names, readOnly : BOOLEAN]

ASSUME TablesAssumption == Tables \subseteq Seq(EntryType)
ASSUME NamesAssumption ==
    /\ {Vol, "dev", "shm", "pts"} \subseteq Name /\ DevNodes \in Seq(Name)
    /\ {"shm", "pts"} \cap {DevNodes[k] : k \in DOMAIN DevNodes} = {}

VARIABLES
    table,      \* the configured mount::Table
    isDir,      \* src_is_dir of each planned entry
    renamed,    \* the host moved its directory over its file
    pc,         \* the next step
    idx,        \* the entry to be processed
    count,      \* content_count
    staged,     \* the staging directory: content-<n> -> filesystem of the inode
    trees,      \* filesystem -> path -> Dir or File
    mnt,        \* the mounts below the new root, in the order of attachment
    private,    \* the child's copy of the host's mounts is MS_PRIVATE
    spent,      \* the sources whose prepared mount was moved and unmounted
    hostMounts, \* what is mounted in the namespace of the host
    detail      \* MountError::detail, -1 for none

config == <<table, isDir>>
vars == <<table, isDir, renamed, pc, idx, count, staged, trees, mnt, private,
          spent, hostMounts, detail>>

Entry == table[idx]

AllFs == HostFs \cup SetupFs \cup {EntryFs(i) : i \in DOMAIN table}

MountType == [at : Names, fs : AllFs, by : 0..Len(table), ro : BOOLEAN,
              shared : BOOLEAN]

TypeOK ==
    /\ table \in Tables
    /\ isDir \in [DOMAIN table -> BOOLEAN]
    /\ pc \in {"plan", "root", "staging", "dev", "entries", "pivot", "detach",
               "cleanup", "done", "failed"}
    /\ idx \in 1..(Len(table) + 1)
    /\ count \in 0..Len(table)
    /\ DOMAIN staged \subseteq 0..(count - 1)
    /\ DOMAIN trees = AllFs
    /\ mnt \in Seq(MountType)
    /\ detail \in {-1, 0, 2000, 3000} \cup {999 + i : i \in DOMAIN table}

-----------------------------------------------------------------------------
(* Paths and what they lead to.  Those outside the new root are kept in the *)
(* tree of the filesystem it shows, below the name "..": what is made there *)
(* stays in the host, what is mounted there goes with the old root.         *)

IsAbove(p, q) == Len(p) <= Len(q) /\ SubSeq(q, 1, Len(p)) = p
Parent(p) == SubSeq(p, 1, Len(p) - 1)
Below(p, q) == SubSeq(q, Len(p) + 1, Len(q))

\* Path p leads to mount k, the last one attached at or above it.
LeadsTo(p, k) ==
    /\ IsAbove(mnt[k].at, p)
    /\ \A j \in DOMAIN mnt : IsAbove(mnt[j].at, p) => j <= k

Visible(p) == CHOOSE k \in DOMAIN mnt : LeadsTo(p, k)

FsAt(p)   == mnt[Visible(p)].fs
Inner(p)  == Below(mnt[Visible(p)].at, p)
Exists(p) == Inner(p) \in DOMAIN trees[FsAt(p)]
KindAt(p) == trees[FsAt(p)][Inner(p)]
IsDirAt(p) == Exists(p) /\ KindAt(p) = Dir

\* devpts and procfs take no new entries, mqueue no directories; what procfs
\* has is a place for a mount like any other.
Sealed(fs, what) ==
    \/ fs = <<"pts">>
    \/ \E i \in DOMAIN table :
          /\ fs = EntryFs(i)
          /\ table[i].kind = "proc" \/ (table[i].kind = "mqueue" /\ what = Dir)

Creatable(p, what) ==
    /\ IsDirAt(p)
    /\ ~mnt[Visible(p)].ro
    /\ ~Sealed(FsAt(p), what)

\* tree t with new paths P, all of them with value v.
With(t, P, v) == [q \in P \cup DOMAIN t |-> IF q \in DOMAIN t THEN t[q] ELSE v]

-----------------------------------------------------------------------------
(* mount/syscall.rs.                                                       *)

\* mkdirat_all: mkdirat on every prefix, EEXIST ignored, so that a file in
\* the way is only noticed by the next prefix.
Missing(p) == {k \in 1..Len(p) : ~Exists(SubSeq(p, 1, k))}
FirstMissing(p) == CHOOSE k \in Missing(p) : \A j \in Missing(p) : k <= j
Base(p) == SubSeq(p, 1, FirstMissing(p) - 1)

MkdirAllOk(p) == Missing(p) # {} => Creatable(Base(p), Dir)

\* The trees after the directories up to prefix n of p were made.
MkdirTo(p, n) ==
    LET fs  == FsAt(Base(p))
        new == {Inner(Base(p)) \o SubSeq(p, FirstMissing(p), k) :
                    k \in FirstMissing(p)..n}
    IN  IF Missing(p) = {} THEN trees
        ELSE [trees EXCEPT ![fs] = With(@, new, Dir)]

\* create_file_at: O_CREAT without O_TRUNC; an existing file is opened for
\* writing and stays as it is.  ensure_parent_dirs has made the parent.
CreateFileOk(p) ==
    /\ p # <<>>
    /\ MkdirAllOk(Parent(p))
    /\ \/ Exists(p) /\ KindAt(p) # Dir /\ ~mnt[Visible(p)].ro
       \/ /\ ~Exists(p)
          /\ \/ Missing(Parent(p)) # {}
             \/ Creatable(Parent(p), File(0))

CreateFile(p) ==
    LET top == IF Missing(Parent(p)) = {} THEN Parent(p) ELSE Base(Parent(p))
        t   == MkdirTo(Parent(p), Len(p) - 1)
        new == Inner(top) \o Below(top, p)
    IN  IF Exists(p) THEN t ELSE [t EXCEPT ![FsAt(top)] = With(@, {new}, File(0))]

\* ensure_mount_point
MountPointOk(p, dir) == IF dir THEN MkdirAllOk(p) ELSE CreateFileOk(p)
MountPoint(p, dir)   == IF dir THEN MkdirTo(p, Len(p)) ELSE CreateFile(p)

\* The trees if ensure_mount_point is refused half way.
MountPointPartly(p, dir) ==
    LET d == IF dir THEN p ELSE Parent(p)
    IN  IF MkdirAllOk(d) THEN {MkdirTo(d, n) : n \in 0..Len(d)} ELSE {trees}

-----------------------------------------------------------------------------
(* Mounts.                                                                 *)

\* A mount shows the root of fs at path at; by is the entry it is for, 0 for
\* the mounts of setup itself.
Mount(at, fs, by) ==
    [at |-> at, fs |-> fs, by |-> by, ro |-> FALSE, shared |-> FALSE]

\* Variant: AT_RECURSIVE is forgotten.
SetReadOnlyRootOnly(ms, recursive) == [ms EXCEPT ![1].ro = TRUE]

\* mount_setattr on a detached tree, whose first mount is its root.
SetReadOnly(ms, recursive) ==
    [k \in DOMAIN ms |-> IF recursive \/ k = 1 THEN [ms[k] EXCEPT !.ro = TRUE]
                                              ELSE ms[k]]
\* Variant: the inherited propagation is kept.
KeepPropagation(ms) == ms

MakePrivate(ms) == [k \in DOMAIN ms |-> [ms[k] EXCEPT !.shared = FALSE]]

\* move_mount_to_fd: a directory goes on a directory, a file on a file, and
\* the empty path leads nowhere (no MOVE_MOUNT_T_EMPTY_PATH).
MoveMountOk(t, p, ofDir) ==
    /\ p # <<>>
    /\ Inner(p) \in DOMAIN t[FsAt(p)]
    /\ (t[FsAt(p)][Inner(p)] = Dir) = ofDir

\* Attaching below a shared mount also attaches in the host's namespace.
Attach(ms, p) ==
    /\ mnt' = mnt \o ms
    /\ hostMounts' = hostMounts \cup
           {p[Len(p)] : k \in {j \in DOMAIN mnt : LeadsTo(p, j) /\ mnt[j].shared}}

\* What a name of the host stands for now.
HostInode(name) ==
    CASE name = "d" /\ ~renamed -> <<"hostdir">>
      [] name = "g" /\ ~renamed -> <<"hostfile">>
      [] name = "g" /\ renamed  -> <<"hostdir">>
      [] OTHER                  -> <<>>

\* open_tree(OPEN_TREE_CLONE | AT_RECURSIVE) of a host inode.
CloneTree(inode, at, by, shared) ==
    LET m(p, fs) == [Mount(p, fs, by) EXCEPT !.shared = shared]
    IN  IF inode = <<"hostdir">>
        THEN <<m(at, inode), m(Append(at, Vol), <<"vol">>)>>
        ELSE <<m(at, inode)>>

\* umount2(MNT_DETACH) of an attached tree: from a shared root it takes the
\* mounts below away from the host as well.
TakenFromHost(ms) == IF ms[1].shared /\ Len(ms) > 1 THEN {Vol} ELSE {}

-----------------------------------------------------------------------------
(* Planning, in the host.                                                  *)

\* The directories a filesystem has before setup touches it.
Original(f) ==
    {<<>>} \cup (IF f = <<"hostdir">> THEN {<<Vol>>} ELSE {})
           \cup (IF f = <<"root">> THEN {<<Up>>} ELSE {})
           \cup {<<"sys">> : i \in {j \in DOMAIN table :
                                      f = EntryFs(j) /\ table[j].kind = "proc"}}

Init ==
    /\ table \in Tables
    /\ isDir = [i \in DOMAIN table |-> FALSE]
    /\ renamed = FALSE
    /\ pc = "plan" /\ idx = 1 /\ count = 0 /\ detail = -1
    /\ staged = <<>> /\ mnt = <<>> /\ spent = {}
    /\ private = FALSE /\ hostMounts = {Vol}
    /\ trees = [f \in AllFs |->
          IF f \in {<<"hostfile">>, <<"hostdev">>} THEN Only(File(0))
          ELSE [q \in Original(f) |-> Dir]]

\* mount::Table::prepare stats every bind source.  (The caller of a prepared
\* mount knows what it cloned.)
Plan ==
    /\ pc = "plan"
    /\ IF \A i \in DOMAIN table :
             table[i].kind \in Binds => HostInode(table[i].src) # <<>>
       THEN /\ isDir' = [i \in DOMAIN table |->
                  /\ table[i].kind \in Binds
                  /\ HostInode(table[i].src) = <<"hostdir">>]
            /\ pc' = "root"
       ELSE pc' = "failed" /\ UNCHANGED isDir
    /\ UNCHANGED <<table, renamed, idx, count, staged, trees, mnt, private, spent,
                   hostMounts, detail>>

\* Another process of the host: rename(d, g), the mount below moves along.
HostRenames ==
    /\ ~renamed /\ pc \notin {"done", "failed"}
    /\ renamed' = TRUE
    /\ UNCHANGED <<table, isDir, pc, idx, count, staged, trees, mnt, private,
                   spent, hostMounts, detail>>

-----------------------------------------------------------------------------
(* mount::setup, in the child.                                             *)

SetupRoot ==
    /\ pc = "root" /\ pc' = "staging"
    /\ private' = TRUE
    /\ mnt' = <<Mount(<<>>, <<"root">>, 0)>>
    /\ hostMounts' = hostMounts \cup (IF private' THEN {} ELSE {"newroot"})
    /\ UNCHANGED <<config, renamed, idx, count, staged, trees, spent, detail>>

OldRootDir == <<".old_root">>
StagingDir == <<".pnut-content">>

Staging ==
    /\ pc = "staging" /\ pc' = "dev"
    /\ trees' = [trees EXCEPT ![<<"root">>] = With(@, {OldRootDir, StagingDir}, Dir)]
    /\ UNCHANGED <<config, renamed, idx, count, staged, mnt, private, spent,
                   hostMounts, detail>>

\* dev::setup_dev
DevPath(n) == <<"dev", n>>
NodeMounts == [k \in DOMAIN DevNodes |-> Mount(DevPath(DevNodes[k]), <<"hostdev">>, 0)]

LayDownDev(t) ==
    [t EXCEPT ![<<"root">>] = With(@, {<<"dev">>}, Dir),
              ![<<"dev">>]  = With(With(@, {<<n>> : n \in Range(DevNodes)}, File(0)),
                                   {<<"shm">>, <<"pts">>}, Dir)]

DevMounts == <<Mount(<<"dev">>, <<"dev">>, 0)>> \o NodeMounts \o
             <<Mount(DevPath("shm"), <<"shm">>, 0), Mount(DevPath("pts"), <<"pts">>, 0)>>

\* Variant: /dev after the entries, as ARCHITECTURE.md lists the steps.
SetupDevLast ==
    /\ \/ pc = "dev" /\ pc' = "entries" /\ UNCHANGED <<trees, mnt>>
       \/ /\ pc = "entries" /\ idx > Len(table) /\ pc' = "pivot"
          /\ trees' = LayDownDev(trees)
          /\ mnt' = mnt \o DevMounts
    /\ UNCHANGED <<config, renamed, idx, count, staged, private, spent, hostMounts,
                   detail>>

SetupDev ==
    /\ pc = "dev" /\ pc' = "entries"
    /\ trees' = LayDownDev(trees)
    /\ mnt' = mnt \o DevMounts
    /\ UNCHANGED <<config, renamed, idx, count, staged, private, spent, hostMounts,
                   detail>>

Processing(kinds) == pc = "entries" /\ idx <= Len(table) /\ Entry.kind \in kinds
NextEntry == idx' = idx + 1 /\ UNCHANGED <<config, renamed, pc, private, detail>>

IfReadOnly(ms) == IF Entry.readOnly THEN SetReadOnly(ms, isDir[idx]) ELSE ms

\* process_bind_mount, BindMountSource::Path
BindPath ==
    LET inode == HostInode(Entry.src)
        made  == MountPoint(Entry.dst, isDir[idx])
    IN  /\ Processing({"bind"})
        /\ MountPointOk(Entry.dst, isDir[idx])
        /\ inode # <<>>
        /\ MoveMountOk(made, Entry.dst, inode = <<"hostdir">>)
        /\ trees' = made
        /\ Attach(IfReadOnly(CloneTree(inode, Entry.dst, idx, ~private)), Entry.dst)
        /\ NextEntry
        /\ UNCHANGED <<count, staged, spent>>

\* process_bind_mount, BindMountSource::Prepared: the tree, cloned when it was
\* planned, is attached, cloned again and detached.
BindPrepared ==
    LET inode == IF isDir[idx] THEN <<"hostdir">> ELSE <<"hostfile">>
        made  == MountPoint(Entry.dst, isDir[idx])
        given == IfReadOnly(MakePrivate(CloneTree(inode, Entry.dst, idx, TRUE)))
    IN  /\ Processing({"prepared"})
        /\ MountPointOk(Entry.dst, isDir[idx])
        /\ inode \notin spent
        /\ MoveMountOk(made, Entry.dst, isDir[idx])
        /\ trees' = made
        /\ spent' = spent \cup {inode}
        /\ mnt' = mnt \o IfReadOnly(given)
        /\ hostMounts' = hostMounts \ TakenFromHost(given)
        /\ NextEntry
        /\ UNCHANGED <<count, staged>>

\* process_tmpfs_mount, process_proc_mount and process_mqueue_mount
NewFs ==
    LET made  == MkdirTo(Entry.dst, Len(Entry.dst))
        fresh == <<Mount(Entry.dst, EntryFs(idx), idx)>>
    IN  /\ Processing({"tmpfs", "proc", "mqueue"})
        /\ MkdirAllOk(Entry.dst)
        /\ MoveMountOk(made, Entry.dst, TRUE)
        /\ trees' = made
        /\ Attach(IF Entry.kind = "tmpfs" THEN IfReadOnly(fresh) ELSE fresh, Entry.dst)
        /\ NextEntry
        /\ UNCHANGED <<count, staged, spent>>

\* write_file_at(staging_fd, content-<n>): O_TRUNC on a name that exists.
Inode(n) == IF n \in DOMAIN staged THEN staged[n] ELSE EntryFs(idx)

Stage(n) ==
    staged' = [k \in DOMAIN staged \cup {n} |-> IF k = n THEN Inode(n) ELSE staged[k]]
WithContent(t, n) == [t EXCEPT ![Inode(n)] = Only(File(idx))]

\* process_file_mount
InjectFile ==
    LET made == CreateFile(Entry.dst)
    IN  /\ Processing({"file"})
        /\ CreateFileOk(Entry.dst)
        /\ MoveMountOk(made, Entry.dst, FALSE)
        /\ count' = count + 1
        /\ Stage(count)
        /\ trees' = WithContent(made, count)
        /\ Attach(IfReadOnly(<<Mount(Entry.dst, Inode(count), idx)>>), Entry.dst)
        /\ NextEntry
        /\ UNCHANGED spent

EntriesDone ==
    /\ pc = "entries" /\ idx > Len(table) /\ pc' = "pivot"
    /\ UNCHANGED <<config, renamed, idx, count, staged, trees, mnt, private, spent,
                   hostMounts, detail>>

\* pivot_and_cleanup.  pivot_root(".", ".") stacks the old root on the new one.
Pivot ==
    /\ pc = "pivot" /\ pc' = "detach"
    /\ mnt' = Append(mnt, Mount(<<>>, <<"hostroot">>, 0))
    /\ UNCHANGED <<config, renamed, idx, count, staged, trees, private, spent,
                   hostMounts, detail>>

DetachOldRoot ==
    /\ pc = "detach" /\ pc' = "cleanup"
    /\ mnt' = SubSeq(mnt, 1, Len(mnt) - 1)
    /\ UNCHANGED <<config, renamed, idx, count, staged, trees, private, spent,
                   hostMounts, detail>>

\* cleanup_staging and the two unlinkat(AT_REMOVEDIR), whose errors are ignored.
Removable(p) ==
    /\ Visible(p) = 1
    /\ \A q \in DOMAIN trees[<<"root">>] : IsAbove(p, q) => q = p

\* Variant: the last staged file is forgotten.
CleanupAllButOne ==
    /\ pc = "cleanup" /\ pc' = "done"
    /\ staged' = [n \in DOMAIN staged \ 0..(count - 2) |-> staged[n]]
    /\ UNCHANGED <<config, renamed, idx, count, trees, mnt, private, spent,
                   hostMounts, detail>>

Cleanup ==
    LET unlinked == 0..(count - 1)
        gone == {p \in {OldRootDir, StagingDir} : Removable(p)}
    IN  /\ pc = "cleanup" /\ pc' = "done"
        /\ staged' = [n \in DOMAIN staged \ unlinked |-> staged[n]]
        /\ trees' = [trees EXCEPT ![<<"root">>] =
                        [p \in DOMAIN @ \ gone |-> @[p]]]
        /\ UNCHANGED <<config, renamed, idx, count, mnt, private, spent, hostMounts,
                       detail>>

\* The kernel may refuse any call of any step; what the step created in a
\* filesystem stays.
DetailOf ==
    CASE pc \in {"root", "staging"} -> 0
      [] pc = "dev"     -> 2000
      [] pc = "entries" -> 999 + idx
      [] OTHER          -> 3000

MadeSoFar ==
    IF pc # "entries" THEN {trees}
    ELSE MountPointPartly(Entry.dst, ~(Entry.kind = "file" \/
                                       (Entry.kind \in Binds /\ ~isDir[idx])))

Fails ==
    /\ pc \in {"root", "staging", "dev", "entries", "pivot", "detach", "cleanup"}
    /\ pc = "entries" => idx <= Len(table)
    /\ trees' \in MadeSoFar
    /\ pc' = "failed"
    /\ detail' = DetailOf
    /\ UNCHANGED <<config, renamed, idx, count, staged, mnt, private, spent,
                   hostMounts>>

Next ==
    \/ Plan \/ HostRenames
    \/ SetupRoot \/ Staging \/ SetupDev
    \/ BindPath \/ BindPrepared \/ NewFs \/ InjectFile
    \/ EntriesDone \/ Pivot \/ DetachOldRoot \/ Cleanup
    \/ Fails

Spec == Init /\ [][Next]_vars

-----------------------------------------------------------------------------
(* Properties.                                                             *)

\* The entry whose destination was given last at or above p, 0 for none.
LastEntryAbove(p) ==
    LET above == {i \in DOMAIN table : IsAbove(table[i].dst, p)}
    IN  IF above = {} THEN 0
        ELSE CHOOSE i \in above : \A j \in above : j <= i

\* What the managed tree shows where no entry has a say.
ManagedFs(p) ==
    IF ~IsAbove(<<"dev">>, p) THEN <<"root">>
    ELSE CASE \E n \in Range(DevNodes) : IsAbove(DevPath(n), p) -> <<"hostdev">>
           [] IsAbove(DevPath("shm"), p) -> <<"shm">>
           [] IsAbove(DevPath("pts"), p) -> <<"pts">>
           [] OTHER -> <<"dev">>

\* What entry i shows at p, below its destination.
ShownBy(i, p) ==
    IF table[i].kind \notin Binds THEN EntryFs(i)
    ELSE IF ~isDir[i] THEN <<"hostfile">>
    ELSE IF IsAbove(Append(table[i].dst, Vol), p) THEN <<"vol">>
    ELSE <<"hostdir">>

Watched ==
    LET points == {<<>>} \cup
                  {DevPath(n) : n \in Range(DevNodes) \cup {"shm", "pts"}} \cup
                  UNION {{table[i].dst, Parent(table[i].dst), Append(table[i].dst, Vol)} :
                             i \in {j \in DOMAIN table : table[j].dst # <<>>}}
    IN  {p \in points : ~Outside(p)}

\* If setup succeeds, every path leads to what the last entry at or above it
\* asked for, with its content and the mounts below a bind, and elsewhere to
\* the managed /dev or the empty root: no entry is hidden by /dev or by an
\* earlier one, and nothing of the old root is left (mod.rs, setup).  An entry
\* whose destination is outside has no such path: setup succeeds without it.
LastEntryWins ==
    pc = "done" =>
        \A p \in Watched :
            LET i == LastEntryAbove(p)
            IN  /\ mnt[Visible(p)].by = i
                /\ FsAt(p) = (IF i = 0 THEN ManagedFs(p) ELSE ShownBy(i, p))
                /\ i # 0 /\ table[i].kind = "file" => trees[FsAt(p)][<<>>] = File(i)

\* No mount made for a read-only entry is ever writable, the mounts below a
\* bind included, whatever the host renames between the stat and the bind;
\* and once setup is over an injected file cannot be reached through the
\* staging directory either (process_bind_mount, process_file_mount).
ReadOnlyHolds ==
    /\ \A k \in DOMAIN mnt :
          mnt[k].by # 0 /\ table[mnt[k].by].kind \in Binds \cup {"tmpfs", "file"}
          /\ table[mnt[k].by].readOnly => mnt[k].ro
    /\ pc = "done" => DOMAIN staged = {}

\* Path q of what is mounted at path at is on the way to path p.
OnTheWay(at, q, p) ==
    \E r \in {SubSeq(p, 1, n) : n \in 0..Len(p)} : IsAbove(at, r) /\ q = Below(at, r)

\* The directories of the host; <<"root">> holds the one around the new root.
OfTheHost   == (HostFs \ {<<"hostroot">>}) \cup {<<"root">>}
MadeThere(f) == {q \in DOMAIN trees[f] \ Original(f) : f = <<"root">> => Outside(q)}

\* Entry i lets setup write to directory f of the host, and shows it there.
LetsWrite(i, f) ==
    /\ f \in {<<"hostdir">>, <<"vol">>}
    /\ table[i].kind \in Binds /\ isDir[i] /\ ~table[i].readOnly
ShownAt(i, f) == IF f = <<"vol">> THEN Append(table[i].dst, Vol) ELSE table[i].dst

\* Entry j may make q in directory f.
MayMake(j, f, q) ==
    \/ f = <<"root">> /\ OnTheWay(<<>>, q, table[j].dst)
    \/ \E i \in 1..(j - 1) : LetsWrite(i, f) /\ OnTheWay(ShownAt(i, f), q, table[j].dst)

\* In a directory that the configuration names, setup makes only what is on the
\* way to a destination that goes through an earlier, writable bind of that very
\* directory.  The one other place of the host where it makes anything is next
\* to /tmp/pnut-newroot, and there only what is on the way to a destination
\* that starts with "..", which nothing refuses (ensure_mount_point, mkdirat_all,
\* create_file_at; prepare in prepare.rs).
HostWritesAreGranted ==
    \A f \in OfTheHost : \A q \in MadeThere(f) :
        \E j \in 1..idx : j \in DOMAIN table /\ MayMake(j, f, q)

\* Setting up a sandbox neither mounts nor unmounts anything in the host
\* (setup_root, and MS_PRIVATE on a prepared tree).
HostMountsIntact == hostMounts = {Vol}

=============================================================================
