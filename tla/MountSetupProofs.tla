-------------------------- MODULE MountSetupProofs --------------------------
(***************************************************************************)
(* What holds of MountSetup for every mount table: type correctness; that  *)
(* building a sandbox leaves the mounts of the host alone; and what the    *)
(* mount tree looks like: read-only entries are read-only, mount points in *)
(* the host are only made where the configuration allows it, and the last  *)
(* entry at a path wins.                                                   *)
(***************************************************************************)
EXTENDS MountSetup, TLAPS, FiniteSetTheorems, SequenceTheorems

\* Once the tree of the child is private, none of its mounts is shared.
NothingShared ==
    /\ pc \notin {"plan", "root", "failed"} => private
    /\ pc \in {"plan", "root"} => mnt = <<>>
    /\ \A k \in DOMAIN mnt : ~mnt[k].shared

IInv == TypeOK /\ count < idx /\ NothingShared /\ HostMountsIntact

-----------------------------------------------------------------------------
(* Sequences of mounts.                                                    *)

\* Concatenation keeps what holds of every element of both parts.
LEMMA ConcatUnshared ==
    ASSUME NEW S, NEW a \in Seq(S), NEW b \in Seq(S),
           \A k \in DOMAIN a : ~a[k].shared,
           \A k \in DOMAIN b : ~b[k].shared
    PROVE  /\ a \o b \in Seq(S)
           /\ \A k \in DOMAIN (a \o b) : ~(a \o b)[k].shared
<1>1. a \o b \in Seq(S) /\ DOMAIN (a \o b) = 1..(Len(a) + Len(b))
  OBVIOUS
<1>2. ASSUME NEW k \in DOMAIN (a \o b) PROVE ~(a \o b)[k].shared
  <2>1. CASE k <= Len(a)
    <3>1. k \in DOMAIN a /\ (a \o b)[k] = a[k]
      BY <1>1, <2>1
    <3> QED BY <3>1
  <2>2. CASE k > Len(a)
    <3>1. k - Len(a) \in DOMAIN b /\ (a \o b)[k] = b[k - Len(a)]
      BY <1>1, <2>2
    <3> QED BY <3>1
  <2> QED BY <1>1, <2>1, <2>2
<1> QED BY <1>1, <1>2

\* mount_setattr changes neither the shape of a tree nor its propagation.
LEMMA SetReadOnlyType ==
    ASSUME NEW ms \in Seq(MountType), NEW r \in BOOLEAN
    PROVE  /\ SetReadOnly(ms, r) \in Seq(MountType)
           /\ DOMAIN SetReadOnly(ms, r) = DOMAIN ms
           /\ \A k \in DOMAIN ms : SetReadOnly(ms, r)[k].shared = ms[k].shared
<1>1. \A k \in DOMAIN ms : ms[k] \in MountType
  OBVIOUS
<1>2. \A k \in DOMAIN ms : SetReadOnly(ms, r)[k] \in MountType
  BY <1>1 DEF SetReadOnly, MountType
<1>3. \A k \in DOMAIN ms : SetReadOnly(ms, r)[k].shared = ms[k].shared
  BY <1>1 DEF SetReadOnly, MountType
<1>4. SetReadOnly(ms, r) = [k \in 1..Len(ms) |-> SetReadOnly(ms, r)[k]]
  BY DEF SetReadOnly
<1> QED BY <1>2, <1>3, <1>4 DEF SetReadOnly

LEMMA MakePrivateType ==
    ASSUME NEW ms \in Seq(MountType)
    PROVE  /\ MakePrivate(ms) \in Seq(MountType)
           /\ DOMAIN MakePrivate(ms) = DOMAIN ms
           /\ \A k \in DOMAIN ms : ~MakePrivate(ms)[k].shared
<1>1. \A k \in DOMAIN ms : ms[k] \in MountType
  OBVIOUS
<1>2. \A k \in DOMAIN ms : /\ MakePrivate(ms)[k] \in MountType
                           /\ ~MakePrivate(ms)[k].shared
  BY <1>1 DEF MakePrivate, MountType
<1>3. MakePrivate(ms) = [k \in 1..Len(ms) |-> MakePrivate(ms)[k]]
  BY DEF MakePrivate
<1> QED BY <1>2, <1>3 DEF MakePrivate

LEMMA IfReadOnlyType ==
    ASSUME TypeOK, idx \in DOMAIN table, NEW ms \in Seq(MountType)
    PROVE  /\ IfReadOnly(ms) \in Seq(MountType)
           /\ DOMAIN IfReadOnly(ms) = DOMAIN ms
           /\ \A k \in DOMAIN ms : IfReadOnly(ms)[k].shared = ms[k].shared
<1>1. isDir[idx] \in BOOLEAN
  BY DEF TypeOK
<1> QED BY <1>1, SetReadOnlyType DEF IfReadOnly

\* A clone has the mounts of the host inode, with the propagation given.
LEMMA CloneTreeType ==
    ASSUME NEW inode \in AllFs, NEW at \in Names, NEW by \in 0..Len(table),
           NEW shared \in BOOLEAN
    PROVE  /\ CloneTree(inode, at, by, shared) \in Seq(MountType)
           /\ \A k \in DOMAIN CloneTree(inode, at, by, shared) :
                  CloneTree(inode, at, by, shared)[k].shared = shared
<1> DEFINE m(p, fs) == [Mount(p, fs, by) EXCEPT !.shared = shared]
<1>1. Vol \in Name
  BY NamesAssumption
<1>2. <<"vol">> \in AllFs /\ Append(at, Vol) \in Names
  BY <1>1 DEF AllFs, HostFs, Names
<1>3. m(at, inode) \in MountType /\ m(at, inode).shared = shared
  BY DEF Mount, MountType
<1>4. /\ m(Append(at, Vol), <<"vol">>) \in MountType
      /\ m(Append(at, Vol), <<"vol">>).shared = shared
  BY <1>2 DEF Mount, MountType
<1> HIDE DEF m
<1>5. /\ <<m(at, inode), m(Append(at, Vol), <<"vol">>)>> \in Seq(MountType)
      /\ <<m(at, inode)>> \in Seq(MountType)
  BY <1>3, <1>4
<1>6. CloneTree(inode, at, by, shared)
        = IF inode = <<"hostdir">>
          THEN <<m(at, inode), m(Append(at, Vol), <<"vol">>)>>
          ELSE <<m(at, inode)>>
  BY DEF CloneTree, m
<1> QED BY <1>3, <1>4, <1>5, <1>6

\* The mounts of setup_dev.
LEMMA DevMountsType ==
    ASSUME TypeOK
    PROVE  /\ DevMounts \in Seq(MountType)
           /\ \A k \in DOMAIN DevMounts : ~DevMounts[k].shared
<1> DEFINE first == <<Mount(<<"dev">>, <<"dev">>, 0)>>
           last  == <<Mount(DevPath("shm"), <<"shm">>, 0),
                      Mount(DevPath("pts"), <<"pts">>, 0)>>
<1>1. DevNodes \in Seq(Name) /\ 0 \in 0..Len(table)
  BY NamesAssumption, TablesAssumption DEF TypeOK
<1>2. \A at \in Names, fs \in AllFs :
          Mount(at, fs, 0) \in MountType /\ ~Mount(at, fs, 0).shared
  BY <1>1 DEF Mount, MountType
<1>3. \A n \in Name : DevPath(n) \in Names
  BY NamesAssumption DEF DevPath, Names
<1>4. /\ <<"dev">> \in Names
      /\ {<<"dev">>, <<"shm">>, <<"pts">>, <<"hostdev">>} \subseteq AllFs
  <2>1. {<<"dev">>, <<"shm">>, <<"pts">>} \subseteq SetupFs /\ <<"hostdev">> \in HostFs
    BY DEF HostFs, SetupFs
  <2>2. HostFs \cup SetupFs \subseteq AllFs
    BY DEF AllFs
  <2>3. <<"dev">> \in Names
    BY NamesAssumption DEF Names
  <2> QED BY <2>1, <2>2, <2>3
<1>5. first \in Seq(MountType) /\ \A k \in DOMAIN first : ~first[k].shared
  BY <1>2, <1>4
<1>6. last \in Seq(MountType) /\ \A k \in DOMAIN last : ~last[k].shared
  <2> DEFINE shm == Mount(DevPath("shm"), <<"shm">>, 0)
             pts == Mount(DevPath("pts"), <<"pts">>, 0)
  <2>1. shm \in MountType /\ ~shm.shared /\ pts \in MountType /\ ~pts.shared
    <3>1. DevPath("shm") \in Names /\ DevPath("pts") \in Names
      BY <1>3, NamesAssumption
    <3> QED BY <3>1, <1>2, <1>4
  <2> HIDE DEF shm, pts
  <2>2. <<shm, pts>> \in Seq(MountType) /\ \A k \in DOMAIN <<shm, pts>> : ~<<shm, pts>>[k].shared
    BY <2>1
  <2> QED BY <2>2 DEF last, shm, pts
<1>7. NodeMounts \in Seq(MountType) /\ \A k \in DOMAIN NodeMounts : ~NodeMounts[k].shared
  <2>1. \A k \in 1..Len(DevNodes) : DevNodes[k] \in Name
    BY <1>1
  <2>2. \A k \in 1..Len(DevNodes) : /\ NodeMounts[k] \in MountType
                                   /\ ~NodeMounts[k].shared
    <3> SUFFICES ASSUME NEW k \in 1..Len(DevNodes)
                 PROVE  NodeMounts[k] \in MountType /\ ~NodeMounts[k].shared
      OBVIOUS
    <3>1. NodeMounts[k] = Mount(DevPath(DevNodes[k]), <<"hostdev">>, 0)
      BY <1>1 DEF NodeMounts
    <3>2. DevPath(DevNodes[k]) \in Names
      BY <2>1, <1>3
    <3> QED BY <3>1, <3>2, <1>2, <1>4
  <2>3. NodeMounts = [k \in 1..Len(DevNodes) |-> NodeMounts[k]]
    BY <1>1 DEF NodeMounts
  <2> QED BY <1>1, <2>2, <2>3
<1> HIDE DEF first, last
<1>8. /\ first \o NodeMounts \in Seq(MountType)
      /\ \A k \in DOMAIN (first \o NodeMounts) : ~(first \o NodeMounts)[k].shared
  BY <1>5, <1>7, ConcatUnshared
<1>9. DevMounts = (first \o NodeMounts) \o last
  BY DEF DevMounts, first, last
<1> QED BY <1>6, <1>8, <1>9, ConcatUnshared

-----------------------------------------------------------------------------
(* The invariant.                                                          *)

LEMMA TableType ==
    ASSUME TypeOK
    PROVE  /\ table \in Seq(EntryType)
           /\ Len(table) \in Nat /\ DOMAIN table = 1..Len(table)
BY TablesAssumption DEF TypeOK

LEMMA InitInv == Init => IInv
<1> SUFFICES ASSUME Init PROVE IInv
  OBVIOUS
<1>1. table \in Seq(EntryType) /\ Len(table) \in Nat
  BY TablesAssumption DEF Init
<1>2. TypeOK
  BY <1>1 DEF Init, TypeOK
<1>3. count < idx /\ NothingShared /\ HostMountsIntact
  BY DEF Init, NothingShared, HostMountsIntact
<1> QED BY <1>2, <1>3 DEF IInv

\* Only trees and mounts change: AllFs stays what it is.
LEMMA SameTypes ==
    ASSUME UNCHANGED table
    PROVE  AllFs' = AllFs /\ MountType' = MountType
BY DEF AllFs, MountType, EntryFs

\* With no mount shared, attaching unshared mounts leaves the host alone.
LEMMA AttachUnshared ==
    ASSUME IInv, NEW ms \in Seq(MountType), \A k \in DOMAIN ms : ~ms[k].shared,
           NEW p, Attach(ms, p)
    PROVE  /\ mnt' \in Seq(MountType)
           /\ \A k \in DOMAIN mnt' : ~mnt'[k].shared
           /\ hostMounts' = hostMounts
<1>1. mnt \in Seq(MountType) /\ \A k \in DOMAIN mnt : ~mnt[k].shared
  BY DEF IInv, TypeOK, NothingShared
<1>2. mnt' = mnt \o ms
  BY DEF Attach
<1>3. hostMounts' = hostMounts
  BY <1>1 DEF Attach
<1> QED BY <1>1, <1>2, <1>3, ConcatUnshared

-----------------------------------------------------------------------------
(* One step of every action.                                               *)

\* What is left to show of a step that keeps table, isDir and renamed.
LEMMA Typed ==
    ASSUME IInv, UNCHANGED config, UNCHANGED private,
           pc' \in {"staging", "dev", "entries", "pivot", "detach", "cleanup",
                    "done", "failed"},
           pc \notin {"plan", "root", "failed"},
           idx' \in 1..(Len(table) + 1), count' \in 0..Len(table), count' < idx',
           DOMAIN staged' \subseteq 0..(count' - 1), DOMAIN trees' = DOMAIN trees,
           mnt' \in Seq(MountType), \A k \in DOMAIN mnt' : ~mnt'[k].shared,
           detail' \in {-1, 0, 2000, 3000} \cup {999 + i : i \in DOMAIN table},
           hostMounts' = hostMounts
    PROVE  IInv'
<1>1. AllFs' = AllFs /\ MountType' = MountType
  BY SameTypes DEF config
<1>2. TypeOK'
  BY <1>1 DEF IInv, TypeOK, config
<1>3. NothingShared' /\ HostMountsIntact'
  BY DEF IInv, NothingShared, HostMountsIntact
<1> QED BY <1>2, <1>3 DEF IInv

\* trees keeps its domain through whatever is created.
LEMMA TreesKept ==
    ASSUME NEW p, NEW d, NEW n
    PROVE  /\ DOMAIN MkdirTo(p, n) = DOMAIN trees
           /\ DOMAIN CreateFile(p) = DOMAIN trees
           /\ DOMAIN MountPoint(p, d) = DOMAIN trees
           /\ \A t \in MountPointPartly(p, d) : DOMAIN t = DOMAIN trees
<1>1. \A q, k : DOMAIN MkdirTo(q, k) = DOMAIN trees
  BY DEF MkdirTo
<1>2. \A q : DOMAIN CreateFile(q) = DOMAIN trees
  BY <1>1 DEF CreateFile
<1>3. DOMAIN MountPoint(p, d) = DOMAIN trees
  BY <1>1, <1>2 DEF MountPoint
<1>4. \A t \in MountPointPartly(p, d) : DOMAIN t = DOMAIN trees
  BY <1>1 DEF MountPointPartly
<1> QED BY <1>1, <1>2, <1>3, <1>4

\* What TypeOK gives of the entry that is processed.
LEMMA EntryTyped ==
    ASSUME IInv, NEW kinds, Processing(kinds)
    PROVE  /\ idx \in DOMAIN table /\ idx \in 0..Len(table)
           /\ idx + 1 \in 1..(Len(table) + 1)
           /\ Entry \in EntryType /\ Entry.dst \in Names /\ isDir[idx] \in BOOLEAN
           /\ pc = "entries" /\ private
           /\ EntryFs(idx) \in AllFs
<1>1. TypeOK
  BY DEF IInv
<1>2. idx \in DOMAIN table /\ idx \in 0..Len(table) /\ idx + 1 \in 1..(Len(table) + 1)
  BY <1>1, TableType DEF Processing, TypeOK
<1>3. Entry \in EntryType /\ isDir[idx] \in BOOLEAN
  BY <1>1, <1>2, TableType DEF TypeOK, Entry
<1>4. Entry.dst \in Names
  BY <1>3 DEF EntryType
<1>5. pc = "entries" /\ private
  BY DEF Processing, IInv, NothingShared
<1>6. EntryFs(idx) \in AllFs
  BY <1>2 DEF AllFs
<1> QED BY <1>2, <1>3, <1>4, <1>5, <1>6

\* An entry that only adds to the tree leaves the rest of the invariant as it is.
LEMMA NextEntryTyped ==
    ASSUME IInv, NEW kinds, Processing(kinds), NextEntry, UNCHANGED <<count, staged>>,
           DOMAIN trees' = DOMAIN trees, hostMounts' = hostMounts,
           mnt' \in Seq(MountType), \A k \in DOMAIN mnt' : ~mnt'[k].shared
    PROVE  IInv'
<1>1. TypeOK
  BY DEF IInv
<1>2. /\ UNCHANGED config /\ UNCHANGED private /\ pc' = "entries" /\ pc = "entries"
      /\ idx' \in 1..(Len(table) + 1) /\ detail' = detail
  BY EntryTyped DEF NextEntry
<1>3. count' \in 0..Len(table) /\ count' < idx'
  <2>1. count' = count /\ idx' = idx + 1
    BY DEF NextEntry
  <2>2. count \in 0..Len(table) /\ idx \in 1..(Len(table) + 1) /\ count < idx
    BY <1>1 DEF TypeOK, IInv
  <2> QED BY <2>1, <2>2
<1>4. DOMAIN staged' \subseteq 0..(count' - 1)
  BY <1>1 DEF TypeOK
<1>5. detail' \in {-1, 0, 2000, 3000} \cup {999 + i : i \in DOMAIN table}
  BY <1>1, <1>2 DEF TypeOK
<1> QED BY <1>2, <1>3, <1>4, <1>5, Typed

LEMMA HostInodeType == ASSUME NEW n, HostInode(n) # <<>> PROVE HostInode(n) \in AllFs
<1>1. HostInode(n) \in HostFs
  BY DEF HostInode, HostFs
<1> QED BY <1>1 DEF AllFs

LEMMA BindPathInv == ASSUME IInv, BindPath PROVE IInv'
<1> DEFINE inode == HostInode(Entry.src)
           tree  == CloneTree(inode, Entry.dst, idx, ~private)
<1>1. /\ Processing({"bind"}) /\ inode # <<>> /\ NextEntry
      /\ trees' = MountPoint(Entry.dst, isDir[idx])
      /\ Attach(IfReadOnly(tree), Entry.dst)
      /\ UNCHANGED <<count, staged, spent>>
  BY DEF BindPath
<1>2. TypeOK
  BY DEF IInv
<1>3. tree \in Seq(MountType) /\ \A k \in DOMAIN tree : ~tree[k].shared
  BY <1>1, EntryTyped, HostInodeType, CloneTreeType
<1>4. /\ IfReadOnly(tree) \in Seq(MountType)
      /\ \A k \in DOMAIN IfReadOnly(tree) : ~IfReadOnly(tree)[k].shared
  BY <1>1, <1>2, <1>3, EntryTyped, IfReadOnlyType
<1> HIDE DEF tree, inode
<1>5. /\ mnt' \in Seq(MountType) /\ \A k \in DOMAIN mnt' : ~mnt'[k].shared
      /\ hostMounts' = hostMounts
  BY <1>1, <1>4, AttachUnshared
<1>6. DOMAIN trees' = DOMAIN trees
  BY <1>1, TreesKept
<1> QED BY <1>1, <1>2, <1>5, <1>6, EntryTyped, Typed DEF NextEntry, TypeOK, IInv

LEMMA BindPreparedInv == ASSUME IInv, BindPrepared PROVE IInv'
<1> DEFINE inode == IF isDir[idx] THEN <<"hostdir">> ELSE <<"hostfile">>
           clone == CloneTree(inode, Entry.dst, idx, TRUE)
           given == IfReadOnly(MakePrivate(clone))
<1>1. /\ Processing({"prepared"}) /\ NextEntry
      /\ trees' = MountPoint(Entry.dst, isDir[idx])
      /\ mnt' = mnt \o IfReadOnly(given)
      /\ hostMounts' = hostMounts \ TakenFromHost(given)
      /\ UNCHANGED <<count, staged>>
  BY DEF BindPrepared
<1>2. TypeOK
  BY DEF IInv
<1>3. inode \in AllFs
  BY DEF AllFs, HostFs
<1>4. clone \in Seq(MountType)
  BY <1>1, <1>3, EntryTyped, CloneTreeType
<1> HIDE DEF clone, inode
<1>5. MakePrivate(clone) \in Seq(MountType)
      /\ \A k \in DOMAIN MakePrivate(clone) : ~MakePrivate(clone)[k].shared
  BY <1>4, MakePrivateType
<1>6. given \in Seq(MountType) /\ \A k \in DOMAIN given : ~given[k].shared
  BY <1>1, <1>2, <1>5, EntryTyped, IfReadOnlyType
<1> HIDE DEF given
<1>7. /\ IfReadOnly(given) \in Seq(MountType)
      /\ \A k \in DOMAIN IfReadOnly(given) : ~IfReadOnly(given)[k].shared
  BY <1>1, <1>2, <1>6, EntryTyped, IfReadOnlyType
<1>8. TakenFromHost(given) = {}
  BY <1>6 DEF TakenFromHost
<1>9. mnt \in Seq(MountType) /\ \A k \in DOMAIN mnt : ~mnt[k].shared
  BY DEF IInv, TypeOK, NothingShared
<1>10. mnt' \in Seq(MountType) /\ \A k \in DOMAIN mnt' : ~mnt'[k].shared
  BY <1>1, <1>7, <1>9, ConcatUnshared
<1>11. DOMAIN trees' = DOMAIN trees
  BY <1>1, TreesKept
<1>12. hostMounts' = hostMounts
  BY <1>1, <1>8
<1> QED BY <1>1, <1>10, <1>11, <1>12, NextEntryTyped

\* The single mount of an entry that makes its own filesystem or file.
LEMMA OneMount ==
    ASSUME IInv, NEW kinds, Processing(kinds), NEW fs \in AllFs
    PROVE  LET m == <<Mount(Entry.dst, fs, idx)>>
           IN  /\ m \in Seq(MountType) /\ \A k \in DOMAIN m : ~m[k].shared
               /\ IfReadOnly(m) \in Seq(MountType)
               /\ \A k \in DOMAIN IfReadOnly(m) : ~IfReadOnly(m)[k].shared
<1> DEFINE one == Mount(Entry.dst, fs, idx)
           m   == <<one>>
<1>1. one \in MountType /\ ~one.shared
  BY EntryTyped DEF Mount, MountType
<1> HIDE DEF one
<1>2. m \in Seq(MountType) /\ \A k \in DOMAIN m : ~m[k].shared
  BY <1>1
<1> HIDE DEF m
<1>3. /\ IfReadOnly(m) \in Seq(MountType)
      /\ \A k \in DOMAIN IfReadOnly(m) : ~IfReadOnly(m)[k].shared
  BY <1>2, EntryTyped, IfReadOnlyType DEF IInv
<1> QED BY <1>2, <1>3 DEF m, one

LEMMA NewFsInv == ASSUME IInv, NewFs PROVE IInv'
<1> DEFINE fresh == <<Mount(Entry.dst, EntryFs(idx), idx)>>
           ms == IF Entry.kind = "tmpfs" THEN IfReadOnly(fresh) ELSE fresh
<1>1. /\ Processing({"tmpfs", "proc", "mqueue"}) /\ NextEntry
      /\ trees' = MkdirTo(Entry.dst, Len(Entry.dst))
      /\ Attach(ms, Entry.dst)
      /\ UNCHANGED <<count, staged>>
  BY DEF NewFs
<1>2. TypeOK
  BY DEF IInv
<1>3. ms \in Seq(MountType) /\ \A k \in DOMAIN ms : ~ms[k].shared
  BY <1>1, EntryTyped, OneMount
<1> HIDE DEF ms
<1>4. /\ mnt' \in Seq(MountType) /\ \A k \in DOMAIN mnt' : ~mnt'[k].shared
      /\ hostMounts' = hostMounts
  BY <1>1, <1>3, AttachUnshared
<1>5. DOMAIN trees' = DOMAIN trees
  BY <1>1, TreesKept
<1> QED BY <1>1, <1>4, <1>5, NextEntryTyped

LEMMA InjectFileInv == ASSUME IInv, InjectFile PROVE IInv'
<1> DEFINE m == <<Mount(Entry.dst, Inode(count), idx)>>
           made == CreateFile(Entry.dst)
<1>1. /\ Processing({"file"}) /\ NextEntry
      /\ count' = count + 1 /\ Stage(count)
      /\ trees' = WithContent(made, count)
      /\ Attach(IfReadOnly(m), Entry.dst)
  BY DEF InjectFile
<1>2. TypeOK /\ count < idx
  BY DEF IInv
<1>3. Inode(count) = EntryFs(idx)
  BY <1>2 DEF Inode, TypeOK
<1>4. IfReadOnly(m) \in Seq(MountType) /\ \A k \in DOMAIN IfReadOnly(m) : ~IfReadOnly(m)[k].shared
  BY <1>1, <1>3, EntryTyped, OneMount
<1> HIDE DEF m
<1>5. /\ mnt' \in Seq(MountType) /\ \A k \in DOMAIN mnt' : ~mnt'[k].shared
      /\ hostMounts' = hostMounts
  BY <1>1, <1>4, AttachUnshared
<1>6. DOMAIN trees' = DOMAIN trees
  BY <1>1, TreesKept DEF WithContent
<1>7. DOMAIN staged' \subseteq 0..(count' - 1)
  BY <1>1, <1>2 DEF Stage, TypeOK
<1>8. count' \in 0..Len(table) /\ count' < idx' /\ idx' \in 1..(Len(table) + 1)
  BY <1>1, <1>2, EntryTyped, TableType DEF NextEntry, TypeOK
<1> QED BY <1>1, <1>2, <1>5, <1>6, <1>7, <1>8, EntryTyped, Typed DEF NextEntry, TypeOK

LEMMA BeforeRootInv == ASSUME IInv, Plan \/ HostRenames \/ SetupRoot PROVE IInv'
<1>1. AllFs' = AllFs /\ MountType' = MountType
  BY SameTypes DEF Plan, HostRenames, SetupRoot, config
<1>2. CASE Plan
  <2> DEFINE D(i) == table[i].kind \in Binds /\ HostInode(table[i].src) = <<"hostdir">>
  <2>3. \A i : D(i) \in BOOLEAN
    OBVIOUS
  <2>4. isDir' = [i \in DOMAIN table |-> D(i)] \/ isDir' = isDir
    BY <1>2 DEF Plan
  <2> HIDE DEF D
  <2>5. isDir' \in [DOMAIN table -> BOOLEAN]
    BY <2>3, <2>4 DEF IInv, TypeOK
  <2>1. TypeOK'
    BY <1>1, <1>2, <2>5 DEF Plan, IInv, TypeOK
  <2>2. (count < idx)' /\ NothingShared' /\ HostMountsIntact'
    BY <1>2 DEF Plan, IInv, NothingShared, HostMountsIntact
  <2> QED BY <2>1, <2>2 DEF IInv
<1>3. CASE HostRenames
  BY <1>1, <1>3 DEF HostRenames, IInv, TypeOK, NothingShared, HostMountsIntact
<1>4. CASE SetupRoot
  <2> DEFINE root == Mount(<<>>, <<"root">>, 0)
  <2>1. <<"root">> \in AllFs /\ 0 \in 0..Len(table) /\ <<>> \in Names
    BY TableType DEF AllFs, SetupFs, Names, IInv
  <2>2. root \in MountType /\ ~root.shared
    BY <2>1 DEF Mount, MountType
  <2> HIDE DEF root
  <2>3. mnt' = <<root>> /\ private' /\ hostMounts' = hostMounts \cup {}
    BY <1>4 DEF SetupRoot, root
  <2>4. mnt' \in Seq(MountType) /\ \A k \in DOMAIN mnt' : ~mnt'[k].shared
    BY <2>2, <2>3
  <2>5. TypeOK'
    BY <1>1, <1>4, <2>4 DEF SetupRoot, IInv, TypeOK, config
  <2>6. (count < idx)' /\ NothingShared' /\ HostMountsIntact'
    BY <1>4, <2>3, <2>4 DEF SetupRoot, IInv, NothingShared, HostMountsIntact
  <2> QED BY <2>5, <2>6 DEF IInv
<1> QED BY <1>2, <1>3, <1>4

\* Staging, setup_dev and everything after the last entry.
LEMMA FixedStepsInv ==
    ASSUME IInv,
           Staging \/ SetupDev \/ EntriesDone \/ Pivot \/ DetachOldRoot \/ Cleanup
    PROVE  IInv'
<1>1. TypeOK /\ count < idx /\ mnt \in Seq(MountType) /\ \A k \in DOMAIN mnt : ~mnt[k].shared
  BY DEF IInv, TypeOK, NothingShared
<1>2. CASE Staging
  BY <1>1, <1>2, Typed DEF Staging, TypeOK
<1>3. CASE SetupDev
  <2>1. mnt' \in Seq(MountType) /\ \A k \in DOMAIN mnt' : ~mnt'[k].shared
    BY <1>1, <1>3, DevMountsType, ConcatUnshared DEF SetupDev
  <2>2. DOMAIN trees' = DOMAIN trees
    BY <1>3 DEF SetupDev, LayDownDev
  <2> QED BY <1>1, <1>3, <2>1, <2>2, Typed DEF SetupDev, TypeOK
<1>4. CASE EntriesDone
  BY <1>1, <1>4, Typed DEF EntriesDone, TypeOK
<1>5. CASE Pivot
  <2> DEFINE old == Mount(<<>>, <<"hostroot">>, 0)
  <2>1. <<"hostroot">> \in AllFs /\ 0 \in 0..Len(table) /\ <<>> \in Names
    BY <1>1, TableType DEF AllFs, HostFs, Names
  <2>2. old \in MountType /\ ~old.shared
    BY <2>1 DEF Mount, MountType
  <2> HIDE DEF old
  <2>3. <<old>> \in Seq(MountType) /\ \A k \in DOMAIN <<old>> : ~<<old>>[k].shared
    BY <2>2
  <2>4. mnt' = mnt \o <<old>>
    BY <1>1, <1>5, <2>2 DEF Pivot, old
  <2>5. mnt' \in Seq(MountType) /\ \A k \in DOMAIN mnt' : ~mnt'[k].shared
    BY <1>1, <2>3, <2>4, ConcatUnshared
  <2> QED BY <1>1, <1>5, <2>5, Typed DEF Pivot, TypeOK
<1>6. CASE DetachOldRoot
  <2>1. mnt' = SubSeq(mnt, 1, Len(mnt) - 1)
    BY <1>6 DEF DetachOldRoot
  <2>2. mnt' \in Seq(MountType) /\ \A k \in DOMAIN mnt' : k \in DOMAIN mnt /\ mnt'[k] = mnt[k]
    BY <1>1, <2>1
  <2> QED BY <1>1, <1>6, <2>2, Typed DEF DetachOldRoot, TypeOK
<1>7. CASE Cleanup
  <2>1. DOMAIN trees' = DOMAIN trees /\ DOMAIN staged' \subseteq DOMAIN staged
    BY <1>7 DEF Cleanup
  <2> QED BY <1>1, <1>7, <2>1, Typed DEF Cleanup, TypeOK
<1> QED BY <1>2, <1>3, <1>4, <1>5, <1>6, <1>7

LEMMA FailsInv == ASSUME IInv, Fails PROVE IInv'
<1>1. TypeOK /\ count < idx /\ mnt \in Seq(MountType) /\ \A k \in DOMAIN mnt : ~mnt[k].shared
  BY DEF IInv, TypeOK, NothingShared
<1>2. DOMAIN trees' = DOMAIN trees
  BY TreesKept DEF Fails, MadeSoFar
<1>3. detail' \in {-1, 0, 2000, 3000} \cup {999 + i : i \in DOMAIN table}
  <2>1. pc = "entries" => idx \in DOMAIN table
    BY <1>1, TableType DEF Fails, TypeOK
  <2> QED BY <2>1 DEF Fails, DetailOf
<1>4. AllFs' = AllFs /\ MountType' = MountType
  BY SameTypes DEF Fails, config
<1>5. TypeOK'
  BY <1>1, <1>2, <1>3, <1>4 DEF Fails, TypeOK, config
<1>6. (count < idx)' /\ NothingShared' /\ HostMountsIntact'
  BY <1>1 DEF Fails, IInv, NothingShared, HostMountsIntact
<1> QED BY <1>5, <1>6 DEF IInv

LEMMA StepInv == IInv /\ [Next]_vars => IInv'
<1>1. ASSUME IInv, Next PROVE IInv'
  BY <1>1, BindPathInv, BindPreparedInv, NewFsInv, InjectFileInv, BeforeRootInv,
     FixedStepsInv, FailsInv DEF Next
<1>2. ASSUME IInv, UNCHANGED vars PROVE IInv'
  <2>1. AllFs' = AllFs /\ MountType' = MountType
    BY <1>2, SameTypes DEF vars
  <2> QED BY <1>2, <2>1 DEF vars, IInv, TypeOK, NothingShared, HostMountsIntact
<1> QED BY <1>1, <1>2

THEOREM Invariance == Spec => []IInv
BY InitInv, StepInv, PTL DEF Spec

-----------------------------------------------------------------------------
(* The theorems.                                                           *)

\* Type correctness of the planning and of every step of mount::setup.
THEOREM MountTypeCorrect == Spec => []TypeOK
<1>1. IInv => TypeOK
  BY DEF IInv
<1> QED BY <1>1, Invariance, PTL

\* Whatever the table asks for, and whatever of it fails, nothing is mounted
\* or unmounted in the namespace of the host: setup_root makes the copy of the
\* host's mounts private, process_bind_mount the prepared trees.
THEOREM HostMountsUntouched == Spec => []HostMountsIntact
<1>1. IInv => HostMountsIntact
  BY DEF IInv
<1> QED BY <1>1, Invariance, PTL

-----------------------------------------------------------------------------
(* What a path leads to, in a list of mounts ms and with the trees t.      *)

LeadsIn(ms, p, k) ==
    /\ IsAbove(ms[k].at, p)
    /\ \A j \in DOMAIN ms : IsAbove(ms[j].at, p) => j <= k

VisibleIn(ms, p) == CHOOSE k \in DOMAIN ms : LeadsIn(ms, p, k)

ThereIn(ms, t, p) ==
    Below(ms[VisibleIn(ms, p)].at, p) \in DOMAIN t[ms[VisibleIn(ms, p)].fs]

\* The mounts below a root.
Rooted(ms) ==
    /\ Len(ms) \in Nat \ {0} /\ DOMAIN ms = 1..Len(ms)
    /\ \A k \in DOMAIN ms : ms[k].at \in Names
    /\ ms[1].at = <<>>

Prefix(p, n) == SubSeq(p, 1, n)

\* No mount in sight has lost the directories above it.
WellPlaced(ms, t) ==
    \A k \in DOMAIN ms : VisibleIn(ms, ms[k].at) = k =>
        \A n \in 0..Len(ms[k].at) : ThereIn(ms, t, Prefix(ms[k].at, n))

-----------------------------------------------------------------------------
(* Paths.                                                                  *)

LEMMA NamesAreSeqs ==
    ASSUME NEW p \in Names
    PROVE  p \in Seq(Name) /\ Len(p) \in Nat /\ DOMAIN p = 1..Len(p)
BY DEF Names

LEMMA PrefixType ==
    ASSUME NEW p \in Names, NEW n \in 0..Len(p)
    PROVE  /\ Prefix(p, n) \in Names /\ Len(Prefix(p, n)) = n
           /\ \A i \in 1..n : Prefix(p, n)[i] = p[i]
BY DEF Names, Prefix

LEMMA WholePrefix ==
    ASSUME NEW p \in Names
    PROVE  Prefix(p, Len(p)) = p /\ Prefix(p, 0) = <<>>
BY DEF Names, Prefix

LEMMA PrefixOfPrefix ==
    ASSUME NEW p \in Names, NEW m \in 0..Len(p), NEW n \in 0..m
    PROVE  Prefix(Prefix(p, m), n) = Prefix(p, n)
<1>1. /\ Prefix(p, m) \in Names /\ Len(Prefix(p, m)) = m
      /\ \A i \in 1..m : Prefix(p, m)[i] = p[i]
  BY PrefixType
<1>2. Len(p) \in Nat
  BY DEF Names
<1>3. /\ Prefix(Prefix(p, m), n) \in Names /\ Len(Prefix(Prefix(p, m), n)) = n
      /\ \A i \in 1..n : Prefix(Prefix(p, m), n)[i] = Prefix(p, m)[i]
  BY <1>1, PrefixType
<1>4. /\ Prefix(p, n) \in Names /\ Len(Prefix(p, n)) = n
      /\ \A i \in 1..n : Prefix(p, n)[i] = p[i]
  BY <1>2, PrefixType
<1>5. \A i \in 1..n : Prefix(Prefix(p, m), n)[i] = Prefix(p, n)[i]
  BY <1>1, <1>2, <1>3, <1>4
<1> QED BY <1>3, <1>4, <1>5, SeqEqual DEF Names

\* a is above q if it is a prefix of it.
LEMMA AboveIsPrefix ==
    ASSUME NEW a \in Names, NEW q \in Names
    PROVE  IsAbove(a, q) <=> Len(a) \in 0..Len(q) /\ Prefix(q, Len(a)) = a
BY DEF IsAbove, Prefix, Names

LEMMA PrefixIsAbove ==
    ASSUME NEW p \in Names, NEW m \in 0..Len(p), NEW n \in 0..m
    PROVE  IsAbove(Prefix(p, n), Prefix(p, m)) /\ IsAbove(Prefix(p, n), p)
<1>1. n \in 0..Len(p)
  BY NamesAreSeqs
<1>2. /\ Prefix(p, m) \in Names /\ Len(Prefix(p, m)) = m
      /\ Prefix(p, n) \in Names /\ Len(Prefix(p, n)) = n
  BY <1>1, PrefixType
<1>3. Prefix(Prefix(p, m), n) = Prefix(p, n)
  BY PrefixOfPrefix
<1> QED BY <1>1, <1>2, <1>3, AboveIsPrefix

LEMMA AboveTransitive ==
    ASSUME NEW a \in Names, NEW b \in Names, NEW c \in Names,
           IsAbove(a, b), IsAbove(b, c)
    PROVE  IsAbove(a, c)
<1>1. Len(a) \in 0..Len(b) /\ Prefix(b, Len(a)) = a
  BY AboveIsPrefix
<1>2. Len(b) \in 0..Len(c) /\ Prefix(c, Len(b)) = b
  BY AboveIsPrefix
<1>3. Prefix(c, Len(a)) = a
  BY <1>1, <1>2, PrefixOfPrefix
<1>4. Len(a) \in 0..Len(c)
  BY <1>1, <1>2, NamesAreSeqs
<1> QED BY <1>3, <1>4, AboveIsPrefix

\* Of two paths above a third the shorter one is above the other.
LEMMA AboveComparable ==
    ASSUME NEW a \in Names, NEW b \in Names, NEW c \in Names,
           IsAbove(a, c), IsAbove(b, c), Len(a) <= Len(b)
    PROVE  IsAbove(a, b)
<1>1. Len(a) \in 0..Len(c) /\ Prefix(c, Len(a)) = a
  BY AboveIsPrefix
<1>2. Len(b) \in 0..Len(c) /\ Prefix(c, Len(b)) = b
  BY AboveIsPrefix
<1>3. Len(a) \in 0..Len(b)
  BY <1>1, <1>2, NamesAreSeqs
<1>4. Prefix(b, Len(a)) = a
  BY <1>1, <1>2, <1>3, PrefixOfPrefix
<1> QED BY <1>3, <1>4, AboveIsPrefix

LEMMA AboveAntisymmetric ==
    ASSUME NEW a \in Names, NEW b \in Names, IsAbove(a, b), Len(b) <= Len(a)
    PROVE  a = b
<1>1. Len(a) = Len(b) /\ Prefix(b, Len(a)) = a
  BY AboveIsPrefix, NamesAreSeqs
<1> QED BY <1>1, WholePrefix

\* What is left of a path below a, in two parts.
LEMMA BelowJoin ==
    ASSUME NEW p \in Names, NEW a \in Names, NEW m \in Nat, NEW n \in m..Len(p),
           m <= Len(p), IsAbove(a, Prefix(p, m))
    PROVE  /\ Below(a, Prefix(p, m)) \o SubSeq(p, m + 1, n) = Below(a, Prefix(p, n))
           /\ Below(a, Prefix(p, n)) = SubSeq(p, Len(a) + 1, n)
           /\ Len(Below(a, Prefix(p, n))) = n - Len(a)
<1>1. p \in Seq(Name) /\ Len(p) \in Nat /\ DOMAIN p = 1..Len(p) /\ Len(a) \in Nat
  BY NamesAreSeqs
<1>2. \A k \in 0..Len(p) : Prefix(p, k) \in Names /\ Len(Prefix(p, k)) = k
  BY PrefixType
<1>3. Len(a) \in 0..m
  BY <1>1, <1>2, AboveIsPrefix
<1>4. ASSUME NEW k \in m..Len(p)
      PROVE  /\ Below(a, Prefix(p, k)) = SubSeq(p, Len(a) + 1, k)
             /\ Len(Below(a, Prefix(p, k))) = k - Len(a)
  <2>1. Below(a, Prefix(p, k)) = SubSeq(SubSeq(p, 1, k), Len(a) + 1, k)
    BY <1>1, <1>2 DEF Below, Prefix
  <2>2. CASE Len(a) = k
    <3>1. \A s : SubSeq(s, k + 1, k) = <<>>
      BY <1>1, SubSeqEmpty
    <3> QED BY <1>1, <2>1, <2>2, <3>1
  <2>3. CASE Len(a) # k
    <3>1. SubSeq(SubSeq(p, 1, k), Len(a) + 1, k) = SubSeq(p, 1 + Len(a) + 1 - 1, 1 + k - 1)
      <4>1. 1 \in 1..Len(p) /\ k \in 1..Len(p) /\ Len(a) + 1 \in 1..(k - 1 + 1)
            /\ k \in 1..(k - 1 + 1)
        BY <1>1, <1>3, <2>3
      <4> QED BY <1>1, <4>1, SubSeqOfSubSeq
    <3>2. 1 + Len(a) + 1 - 1 = Len(a) + 1 /\ 1 + k - 1 = k
      BY <1>1
    <3>3. Len(SubSeq(p, Len(a) + 1, k)) = k - Len(a)
      BY <1>1, <1>3, <2>3
    <3> QED BY <2>1, <3>1, <3>2, <3>3
  <2> QED BY <2>2, <2>3
<1>5. SubSeq(p, Len(a) + 1, m) \o SubSeq(p, m + 1, n) = SubSeq(p, Len(a) + 1, n)
  <2>1. \A i \in 1..(Len(p) + 1) : m \in (i - 1)..Len(p) =>
            SubSeq(p, i, m) \o SubSeq(p, m + 1, n) = SubSeq(p, i, n)
    BY <1>1, ConcatAdjacentSubSeq
  <2>2. PICK i \in 1..(Len(p) + 1) : i = Len(a) + 1
    BY <1>1, <1>3
  <2>3. m \in (i - 1)..Len(p)
    BY <1>1, <1>3, <2>2
  <2>4. SubSeq(p, i, m) \o SubSeq(p, m + 1, n) = SubSeq(p, i, n)
    BY <2>1, <2>3
  <2> QED BY <2>2, <2>4
<1>6. m \in m..Len(p)
  BY <1>1
<1> QED BY <1>4, <1>5, <1>6

LEMMA BelowItself == ASSUME NEW p \in Names PROVE Below(p, p) = <<>>
BY SubSeqEmpty, NamesAreSeqs DEF Below

-----------------------------------------------------------------------------
(* The mount that a path leads to.                                         *)

\* A set of numbers with a bound has a greatest one: of the intervals k..n one
\* is inside all the others.
LEMMA Greatest ==
    ASSUME NEW n \in Nat, NEW S \in SUBSET (1..n), S # {}
    PROVE  \E k \in S : \A j \in S : j <= k
<1> DEFINE T == {k..n : k \in S}
           R == StrictSubsetOrdering(1..n)
<1>1. IsWellFoundedOn(R, FiniteSubsetsOf(1..n))
  BY FS_StrictSubsetOrderingWellFounded
<1>2. T \subseteq FiniteSubsetsOf(1..n) /\ T # {}
  <2>1. \A k \in S : IsFiniteSet(k..n) /\ k..n \in SUBSET (1..n)
    BY FS_Interval
  <2> QED BY <2>1 DEF FiniteSubsetsOf
<1>3. PICK x \in T : \A y \in T : ~ (<<y, x>> \in R)
  <2> HIDE DEF T, R
  <2> QED BY <1>1, <1>2, WFMin
<1>4. PICK k \in S : x = k..n
  OBVIOUS
<1>5. ASSUME NEW j \in S, k < j PROVE FALSE
  <2>1. j..n \in SUBSET (1..n) /\ k..n \in SUBSET (1..n) /\ j..n \subseteq k..n
    BY <1>5
  <2>2. k \in k..n /\ k \notin j..n
    BY <1>5
  <2>3. <<j..n, k..n>> \in R
    BY <2>1, <2>2 DEF StrictSubsetOrdering
  <2> QED BY <1>3, <1>4, <2>3
<1> QED BY <1>5

LEMMA VisibleIs ==
    ASSUME NEW ms, Rooted(ms), NEW p \in Names
    PROVE  VisibleIn(ms, p) \in DOMAIN ms /\ LeadsIn(ms, p, VisibleIn(ms, p))
<1> DEFINE S == {k \in DOMAIN ms : IsAbove(ms[k].at, p)}
<1>1. Len(ms) \in Nat /\ S \in SUBSET (1..Len(ms))
  BY DEF Rooted
<1>2. 1 \in S
  <2>1. <<>> \in Names /\ Len(<<>>) = 0 /\ Len(p) \in Nat
    BY NamesAreSeqs DEF Names
  <2>2. IsAbove(<<>>, p)
    BY <2>1, AboveIsPrefix, WholePrefix
  <2> QED BY <2>2 DEF Rooted
<1>3. \E k \in S : \A j \in S : j <= k
  BY <1>1, <1>2, Greatest
<1>4. \E k \in DOMAIN ms : LeadsIn(ms, p, k)
  BY <1>3 DEF LeadsIn
<1> QED BY <1>4 DEF VisibleIn

LEMMA VisibleUnique ==
    ASSUME NEW ms, Rooted(ms), NEW p \in Names,
           NEW k \in DOMAIN ms, LeadsIn(ms, p, k)
    PROVE  VisibleIn(ms, p) = k
<1>1. VisibleIn(ms, p) \in DOMAIN ms /\ LeadsIn(ms, p, VisibleIn(ms, p))
  BY VisibleIs
<1>2. VisibleIn(ms, p) <= k /\ k <= VisibleIn(ms, p)
  BY <1>1 DEF LeadsIn
<1> QED BY <1>1, <1>2 DEF Rooted

\* Between a mount and a path that leads to it every path leads to it.
LEMMA SameBetween ==
    ASSUME NEW ms, Rooted(ms), NEW p \in Names, NEW q \in Names,
           IsAbove(ms[VisibleIn(ms, p)].at, q), IsAbove(q, p)
    PROVE  VisibleIn(ms, q) = VisibleIn(ms, p)
<1> DEFINE V == VisibleIn(ms, p)
<1>1. V \in DOMAIN ms /\ LeadsIn(ms, p, V)
  BY VisibleIs
<1>2. \A j \in DOMAIN ms : IsAbove(ms[j].at, q) => IsAbove(ms[j].at, p)
  BY AboveTransitive DEF Rooted
<1>3. LeadsIn(ms, q, V)
  BY <1>1, <1>2 DEF LeadsIn
<1> QED BY <1>1, <1>3, VisibleUnique

\* From a prefix of p down to the first one that is missing no mount is in the
\* way, since a mount in sight has all the directories above it.
LEMMA SameMount ==
    ASSUME NEW ms, Rooted(ms), NEW t, WellPlaced(ms, t),
           NEW p \in Names, NEW m \in 0..(Len(p) - 1),
           ~ThereIn(ms, t, Prefix(p, m + 1)), NEW n \in m..Len(p)
    PROVE  /\ VisibleIn(ms, Prefix(p, n)) = VisibleIn(ms, Prefix(p, m))
           /\ IsAbove(ms[VisibleIn(ms, Prefix(p, m))].at, Prefix(p, m))
<1> DEFINE q == Prefix(p, n)
           V == VisibleIn(ms, q)
           a == ms[V].at
<1>0. Len(p) \in Nat /\ n \in 0..Len(p) /\ m \in 0..Len(p) /\ m + 1 \in 0..Len(p)
  BY NamesAreSeqs
<1>1. q \in Names /\ Len(q) = n
  BY <1>0, PrefixType
<1>2. V \in DOMAIN ms /\ LeadsIn(ms, q, V) /\ a \in Names
  <2>1. V \in DOMAIN ms /\ LeadsIn(ms, q, V)
    BY <1>1, VisibleIs
  <2> QED BY <2>1 DEF Rooted
<1>3. IsAbove(a, q) /\ Len(a) \in 0..n /\ Prefix(q, Len(a)) = a /\ Prefix(a, Len(a)) = a
  BY <1>1, <1>2, AboveIsPrefix, WholePrefix DEF LeadsIn
<1>4. IsAbove(a, a)
  BY <1>2, <1>3, AboveIsPrefix, NamesAreSeqs
<1>5. VisibleIn(ms, a) = V
  BY <1>1, <1>2, <1>3, <1>4, SameBetween
<1>6. Len(a) <= m
  <2>1. SUFFICES ASSUME Len(a) > m PROVE FALSE
    BY <1>0, <1>3
  <2>2. m + 1 \in 0..Len(a)
    BY <1>0, <1>3, <2>1
  <2>3. ThereIn(ms, t, Prefix(a, m + 1))
    BY <1>2, <1>5, <2>2 DEF WellPlaced
  <2>4. Prefix(a, m + 1) = Prefix(p, m + 1)
    <3>1. Prefix(Prefix(q, Len(a)), m + 1) = Prefix(q, m + 1)
      BY <1>1, <1>3, <2>2, PrefixOfPrefix
    <3>2. m + 1 \in 0..n
      BY <1>0, <1>3, <2>2
    <3>3. Prefix(q, m + 1) = Prefix(p, m + 1)
      BY <1>0, <3>2, PrefixOfPrefix
    <3> QED BY <1>3, <3>1, <3>3
  <2> QED BY <2>3, <2>4
<1>7. Prefix(p, m) \in Names /\ Len(Prefix(p, m)) = m /\ IsAbove(Prefix(p, m), q)
  BY <1>0, PrefixType, PrefixIsAbove
<1>8. IsAbove(a, Prefix(p, m))
  BY <1>1, <1>2, <1>3, <1>6, <1>7, AboveComparable
<1> QED BY <1>1, <1>7, <1>8, SameBetween

-----------------------------------------------------------------------------
(* What mkdirat_all and create_file_at make.                               *)

LEMMA Least ==
    ASSUME NEW n \in Nat, NEW S \in SUBSET (1..n), S # {}
    PROVE  \E k \in S : \A j \in S : k <= j
<1> DEFINE T == {n + 1 - k : k \in S}
<1>1. T \in SUBSET (1..n) /\ T # {}
  <2>1. \A k \in S : n + 1 - k \in 1..n
    OBVIOUS
  <2>2. PICK k \in S : TRUE
    OBVIOUS
  <2>3. n + 1 - k \in T
    OBVIOUS
  <2>. QED  BY <2>1, <2>3
<1> HIDE DEF T
<1>2. PICK m \in T : \A j \in T : j <= m
  BY <1>1, Greatest
<1>3. PICK k \in S : m = n + 1 - k
  BY DEF T
<1>4. ASSUME NEW j \in S PROVE k <= j
  <2>1. n + 1 - j \in T
    BY DEF T
  <2>2. n + 1 - j <= n + 1 - k
    BY <1>2, <1>3, <2>1
  <2> QED BY <2>2
<1> QED BY <1>4

LEMMA VisibleHere ==
    ASSUME NEW p
    PROVE  Visible(p) = VisibleIn(mnt, p) /\ (Exists(p) <=> ThereIn(mnt, trees, p))
BY DEF Visible, LeadsTo, VisibleIn, LeadsIn, Exists, Inner, FsAt, ThereIn

LEMMA FirstMissingIs ==
    ASSUME NEW p \in Names, Missing(p) # {}
    PROVE  /\ FirstMissing(p) \in 1..Len(p)
           /\ ~Exists(Prefix(p, FirstMissing(p)))
           /\ \A k \in 1..(FirstMissing(p) - 1) : Exists(Prefix(p, k))
           /\ Base(p) = Prefix(p, FirstMissing(p) - 1)
<1>1. Missing(p) \in SUBSET (1..Len(p)) /\ Len(p) \in Nat
  BY NamesAreSeqs DEF Missing
<1>2. \E k \in Missing(p) : \A j \in Missing(p) : k <= j
  BY <1>1, Least
<1>3. FirstMissing(p) \in Missing(p) /\ \A j \in Missing(p) : FirstMissing(p) <= j
  BY <1>2 DEF FirstMissing
<1>4. \A k \in 1..(FirstMissing(p) - 1) : k \in 1..Len(p) /\ k \notin Missing(p)
  BY <1>1, <1>3
<1>5. Base(p) = Prefix(p, FirstMissing(p) - 1)
  BY DEF Base, Prefix
<1> QED BY <1>1, <1>3, <1>4, <1>5 DEF Missing, Prefix

LEMMA WithAdds ==
    ASSUME NEW t, NEW P, NEW v
    PROVE  /\ DOMAIN With(t, P, v) = P \cup DOMAIN t
           /\ \A q \in DOMAIN t : With(t, P, v)[q] = t[q]
           /\ \A q \in P \ DOMAIN t : With(t, P, v)[q] = v
BY DEF With

\* Nothing of the trees t is lost in the trees u.
Grown(t, u) ==
    /\ DOMAIN u = DOMAIN t
    /\ \A f \in DOMAIN t : /\ DOMAIN t[f] \subseteq DOMAIN u[f]
                           /\ \A q \in DOMAIN t[f] : u[f][q] = t[f][q]

LEMMA ThereStays ==
    ASSUME NEW ms, Rooted(ms), NEW t, NEW u, Grown(t, u),
           \A k \in DOMAIN ms : ms[k].fs \in DOMAIN t,
           NEW p \in Names, ThereIn(ms, t, p)
    PROVE  ThereIn(ms, u, p)
<1>1. VisibleIn(ms, p) \in DOMAIN ms
  BY VisibleIs
<1> QED BY <1>1 DEF ThereIn, Grown

LEMMA AddingGrows ==
    ASSUME NEW t, NEW f, NEW P, NEW v
    PROVE  Grown(t, [t EXCEPT ![f] = With(@, P, v)])
<1> DEFINE u == [t EXCEPT ![f] = With(@, P, v)]
<1>1. DOMAIN u = DOMAIN t
  OBVIOUS
<1>2. ASSUME NEW g \in DOMAIN t
      PROVE  /\ DOMAIN t[g] \subseteq DOMAIN u[g]
             /\ \A q \in DOMAIN t[g] : u[g][q] = t[g][q]
  <2>1. CASE g = f
    <3>1. u[g] = With(t[g], P, v)
      BY <2>1
    <3> HIDE DEF u
    <3>2. DOMAIN u[g] = P \cup DOMAIN t[g] /\ \A q \in DOMAIN t[g] : u[g][q] = t[g][q]
      BY <3>1 DEF With
    <3> QED BY <3>2
  <2>2. CASE g # f
    BY <2>2
  <2> QED BY <2>1, <2>2
<1> HIDE DEF u
<1>3. Grown(t, u)
  BY <1>1, <1>2 DEF Grown
<1> QED BY <1>3 DEF u

LEMMA MkdirToGrows == ASSUME NEW p, NEW n PROVE Grown(trees, MkdirTo(p, n))
<1> DEFINE fs  == FsAt(Base(p))
           new == {Inner(Base(p)) \o SubSeq(p, FirstMissing(p), k) :
                       k \in FirstMissing(p)..n}
<1>1. MkdirTo(p, n) = IF Missing(p) = {} THEN trees
                      ELSE [trees EXCEPT ![fs] = With(@, new, Dir)]
  BY DEF MkdirTo
<1> HIDE DEF fs, new
<1>2. Grown(trees, trees)
  BY DEF Grown
<1>3. Grown(trees, [trees EXCEPT ![fs] = With(@, new, Dir)])
  BY AddingGrows
<1> QED BY <1>1, <1>2, <1>3

LEMMA CreateFileGrows == ASSUME NEW p PROVE Grown(trees, CreateFile(p))
<1> DEFINE top == IF Missing(Parent(p)) = {} THEN Parent(p) ELSE Base(Parent(p))
           t   == MkdirTo(Parent(p), Len(p) - 1)
           new == Inner(top) \o Below(top, p)
           fs  == FsAt(top)
<1>1. Grown(trees, t)
  BY MkdirToGrows
<1>2. CreateFile(p) = IF Exists(p) THEN t
                      ELSE [t EXCEPT ![fs] = With(@, {new}, File(0))]
  BY DEF CreateFile
<1> HIDE DEF fs, new, t
<1>3. Grown(t, CreateFile(p))
  <2>1. Grown(t, t)
    BY DEF Grown
  <2>2. Grown(t, [t EXCEPT ![fs] = With(@, {new}, File(0))])
    BY AddingGrows
  <2> QED BY <1>2, <2>1, <2>2
<1> QED BY <1>1, <1>3 DEF Grown

LEMMA MountPointGrows ==
    ASSUME NEW p, NEW d
    PROVE  /\ Grown(trees, MountPoint(p, d))
           /\ \A t \in MountPointPartly(p, d) : Grown(trees, t)
<1>1. Grown(trees, trees)
  BY DEF Grown
<1> QED BY <1>1, MkdirToGrows, CreateFileGrows DEF MountPoint, MountPointPartly

\* The tree while its entries are processed.
Standing ==
    /\ TypeOK /\ Rooted(mnt) /\ WellPlaced(mnt, trees)
    /\ \A f \in AllFs : <<>> \in DOMAIN trees[f]

LEMMA RootIsThere ==
    ASSUME NEW ms, Rooted(ms), NEW t, \A k \in DOMAIN ms : <<>> \in DOMAIN t[ms[k].fs]
    PROVE  ThereIn(ms, t, <<>>)
<1> DEFINE V == VisibleIn(ms, <<>>)
<1>1. <<>> \in Names /\ Len(<<>>) = 0
  BY DEF Names
<1>2. V \in DOMAIN ms /\ LeadsIn(ms, <<>>, V)
  BY <1>1, VisibleIs
<1>3. ms[V].at \in Names /\ IsAbove(ms[V].at, <<>>) /\ Len(ms[V].at) \in Nat
  BY <1>2, NamesAreSeqs DEF LeadsIn, Rooted
<1>4. ms[V].at = <<>>
  BY <1>1, <1>3, AboveAntisymmetric
<1> QED BY <1>1, <1>2, <1>4, BelowItself DEF ThereIn

LEMMA MountsTyped ==
    ASSUME TypeOK
    PROVE  /\ Len(mnt) \in Nat /\ DOMAIN mnt = 1..Len(mnt)
           /\ \A k \in DOMAIN mnt : mnt[k] \in MountType
           /\ \A k \in DOMAIN mnt : /\ mnt[k].at \in Names /\ mnt[k].fs \in AllFs
                                    /\ mnt[k].by \in 0..Len(table)
           /\ DOMAIN trees = AllFs
<1>1. mnt \in Seq(MountType) /\ DOMAIN trees = AllFs
  BY DEF TypeOK
<1>2. /\ Len(mnt) \in Nat /\ DOMAIN mnt = 1..Len(mnt)
      /\ \A k \in DOMAIN mnt : mnt[k] \in MountType
  BY <1>1
<1> QED BY <1>1, <1>2 DEF MountType

\* Of the prefixes of p those that mkdirat_all makes are in the filesystem that
\* they lead to.
LEMMA MkdirMakes ==
    ASSUME Standing, NEW p \in Names, NEW n \in 0..Len(p), NEW k \in 0..n
    PROVE  ThereIn(mnt, MkdirTo(p, n), Prefix(p, k))
<1> DEFINE u == MkdirTo(p, n)
           q == Prefix(p, k)
           fm == FirstMissing(p)
<1>0. Len(p) \in Nat /\ k \in 0..Len(p) /\ q \in Names
  BY NamesAreSeqs, PrefixType
<1>1. Rooted(mnt) /\ DOMAIN trees = AllFs /\ \A j \in DOMAIN mnt : mnt[j].fs \in AllFs
  BY MountsTyped DEF Standing
<1>2. Grown(trees, u)
  BY MkdirToGrows
<1>3. SUFFICES ASSUME ~Exists(q) PROVE ThereIn(mnt, u, q)
  BY <1>0, <1>1, <1>2, ThereStays, VisibleHere
<1>4. k # 0
  <2>1. ThereIn(mnt, trees, <<>>)
    BY <1>1, RootIsThere DEF Standing
  <2> QED BY <1>3, <2>1, VisibleHere, WholePrefix
<1>5. Missing(p) # {} /\ fm \in 1..Len(p) /\ fm <= k
  <2>1. k \in Missing(p)
    BY <1>0, <1>3, <1>4 DEF Missing, Prefix
  <2>2. fm \in 1..Len(p) /\ \A j \in 1..(fm - 1) : Exists(Prefix(p, j))
    BY <2>1, FirstMissingIs
  <2> QED BY <1>0, <1>3, <1>4, <2>1, <2>2
<1>6. /\ fm - 1 \in 0..(Len(p) - 1) /\ ~ThereIn(mnt, trees, Prefix(p, fm - 1 + 1))
      /\ k \in (fm - 1)..Len(p) /\ Base(p) = Prefix(p, fm - 1)
      /\ fm - 1 + 1 = fm
  BY <1>0, <1>5, FirstMissingIs, VisibleHere
<1> DEFINE V == VisibleIn(mnt, Base(p))
<1>7. /\ VisibleIn(mnt, q) = V
      /\ IsAbove(mnt[V].at, Base(p))
  BY <1>6, SameMount DEF Standing
<1>8. V \in DOMAIN mnt /\ mnt[V].at \in Names /\ mnt[V].fs \in DOMAIN trees
  <2>1. V \in DOMAIN mnt
    BY <1>0, <1>1, <1>7, VisibleIs
  <2> QED BY <1>1, <2>1 DEF Rooted
<1>9. Inner(Base(p)) \o SubSeq(p, fm, k) = Below(mnt[V].at, q)
  <2>1. Inner(Base(p)) = Below(mnt[V].at, Prefix(p, fm - 1))
    BY <1>6, VisibleHere DEF Inner
  <2>2. fm - 1 \in Nat /\ fm - 1 <= Len(p) /\ IsAbove(mnt[V].at, Prefix(p, fm - 1))
    BY <1>0, <1>5, <1>6, <1>7
  <2>3. Below(mnt[V].at, Prefix(p, fm - 1)) \o SubSeq(p, fm - 1 + 1, k)
            = Below(mnt[V].at, Prefix(p, k))
    BY <1>6, <1>8, <2>2, BelowJoin
  <2> QED BY <1>6, <2>1, <2>3
<1>10. Below(mnt[V].at, q) \in DOMAIN u[mnt[V].fs]
  <2> DEFINE new == {Inner(Base(p)) \o SubSeq(p, FirstMissing(p), j) :
                         j \in FirstMissing(p)..n}
             fs == mnt[V].fs
  <2>1. u = [trees EXCEPT ![fs] = With(@, new, Dir)]
    BY <1>5, VisibleHere DEF MkdirTo, FsAt
  <2>2. Below(mnt[V].at, q) \in new
    <3>1. k \in FirstMissing(p)..n
      BY <1>0, <1>5
    <3> QED BY <1>9, <3>1
  <2> HIDE DEF new, fs, u
  <2>3. fs \in DOMAIN trees
    BY <1>8 DEF fs
  <2>4. DOMAIN u[fs] = new \cup DOMAIN trees[fs]
    BY <2>1, <2>3, WithAdds
  <2> QED BY <2>2, <2>4 DEF fs
<1> QED BY <1>7, <1>10 DEF ThereIn

LEMMA ParentIs ==
    ASSUME NEW p \in Names, p # <<>>
    PROVE  /\ Len(p) \in Nat \ {0}
           /\ Parent(p) = Prefix(p, Len(p) - 1) /\ Parent(p) \in Names
           /\ Len(Parent(p)) = Len(p) - 1
           /\ \A k \in 0..(Len(p) - 1) : Prefix(Parent(p), k) = Prefix(p, k)
<1>1. Len(p) \in Nat \ {0}
  BY NamesAreSeqs, EmptySeq DEF Names
<1>2. Parent(p) = Prefix(p, Len(p) - 1)
  BY DEF Parent, Prefix
<1>3. Len(p) - 1 \in 0..Len(p)
  BY <1>1
<1> QED BY <1>1, <1>2, <1>3, PrefixType, PrefixOfPrefix

\* Where create_file_at makes p: in the filesystem that p leads to, at a path
\* that ensure_parent_dirs has not used.
FileBase(p) == IF Missing(Parent(p)) = {} THEN Parent(p) ELSE Base(Parent(p))

LEMMA FileBaseIs ==
    ASSUME Standing, NEW p \in Names, p # <<>>, ~Exists(p)
    PROVE  LET V == VisibleIn(mnt, p)
           IN  /\ Visible(FileBase(p)) = V /\ Visible(p) = V
               /\ V \in DOMAIN mnt
               /\ Inner(FileBase(p)) \o Below(FileBase(p), p) = Inner(p)
               /\ Len(mnt[V].at) \in 0..(Len(p) - 1)
               /\ Len(Inner(p)) = Len(p) - Len(mnt[V].at)
<1> DEFINE d == Parent(p)
           V == VisibleIn(mnt, p)
           a == mnt[V].at
<1>1. /\ Len(p) \in Nat \ {0} /\ d = Prefix(p, Len(p) - 1) /\ d \in Names
      /\ Len(d) = Len(p) - 1 /\ \A k \in 0..(Len(p) - 1) : Prefix(d, k) = Prefix(p, k)
  BY ParentIs
<1>2. PICK m \in 0..(Len(p) - 1) : /\ FileBase(p) = Prefix(p, m)
                                   /\ ~Exists(Prefix(p, m + 1))
  <2>1. CASE Missing(d) = {}
    <3>1. Len(p) - 1 \in 0..(Len(p) - 1) /\ Len(p) - 1 + 1 = Len(p)
      BY <1>1
    <3>2. Prefix(p, Len(p)) = p /\ FileBase(p) = d
      BY <2>1, WholePrefix DEF FileBase
    <3> QED BY <1>1, <3>1, <3>2
  <2>2. CASE Missing(d) # {}
    <3> DEFINE fm == FirstMissing(d)
    <3>1. fm \in 1..(Len(p) - 1) /\ ~Exists(Prefix(d, fm)) /\ FileBase(p) = Prefix(d, fm - 1)
      BY <1>1, <2>2, FirstMissingIs DEF FileBase
    <3>2. fm - 1 \in 0..(Len(p) - 1) /\ fm - 1 + 1 = fm /\ fm \in 0..(Len(p) - 1)
      BY <1>1, <3>1
    <3> QED BY <1>1, <3>1, <3>2
  <2> QED BY <2>1, <2>2
<1>3. Len(p) \in m..Len(p) /\ Prefix(p, Len(p)) = p /\ ~ThereIn(mnt, trees, Prefix(p, m + 1))
  BY <1>1, <1>2, VisibleHere, WholePrefix
<1>4. VisibleIn(mnt, Prefix(p, m)) = V /\ IsAbove(a, Prefix(p, m))
  BY <1>3, SameMount DEF Standing
<1>5. V \in DOMAIN mnt /\ a \in Names
  <2>1. V \in DOMAIN mnt
    BY VisibleIs DEF Standing
  <2> QED BY <2>1 DEF Standing, Rooted
<1>6. m \in Nat /\ m <= Len(p) /\ m \in 0..Len(p)
  BY <1>1
<1>7. Prefix(p, m) \in Names /\ Len(Prefix(p, m)) = m
  BY <1>6, PrefixType
<1>8. Len(a) \in 0..m
  BY <1>4, <1>5, <1>7, AboveIsPrefix
<1>9. /\ Below(a, Prefix(p, m)) \o SubSeq(p, m + 1, Len(p)) = Below(a, p)
      /\ Len(Below(a, p)) = Len(p) - Len(a)
  <2>1. /\ Below(a, Prefix(p, m)) \o SubSeq(p, m + 1, Len(p)) = Below(a, Prefix(p, Len(p)))
        /\ Len(Below(a, Prefix(p, Len(p)))) = Len(p) - Len(a)
    BY <1>3, <1>4, <1>5, <1>6, BelowJoin
  <2> QED BY <1>3, <2>1
<1>10. Visible(FileBase(p)) = V /\ Visible(p) = V
  BY <1>2, <1>4, VisibleHere
<1>11. /\ Inner(p) = Below(a, p) /\ Inner(FileBase(p)) = Below(a, Prefix(p, m))
       /\ Below(FileBase(p), p) = SubSeq(p, m + 1, Len(p))
  BY <1>2, <1>7, <1>10 DEF Inner, Below
<1>12. Len(a) \in 0..(Len(p) - 1)
  BY <1>1, <1>8
<1> QED BY <1>5, <1>9, <1>10, <1>11, <1>12

\* What create_file_at leaves at p is not a directory, and the directories
\* above it are made.
LEMMA FileIsMade ==
    ASSUME Standing, NEW p \in Names, CreateFileOk(p)
    PROVE  /\ \A k \in 0..(Len(p) - 1) : ThereIn(mnt, CreateFile(p), Prefix(p, k))
           /\ CreateFile(p)[FsAt(p)][Inner(p)] # Dir
<1> DEFINE d == Parent(p)
           t == MkdirTo(d, Len(p) - 1)
           new == Inner(FileBase(p)) \o Below(FileBase(p), p)
           u == CreateFile(p)
<1>0. p # <<>>
  BY DEF CreateFileOk
<1>1. /\ Len(p) \in Nat \ {0} /\ d \in Names /\ Len(d) = Len(p) - 1
      /\ \A k \in 0..(Len(p) - 1) : Prefix(d, k) = Prefix(p, k)
  BY <1>0, ParentIs
<1>2. /\ Rooted(mnt) /\ DOMAIN trees = AllFs
      /\ \A j \in DOMAIN mnt : mnt[j].fs \in DOMAIN trees
  BY MountsTyped DEF Standing
<1>3. u = IF Exists(p) THEN t ELSE [t EXCEPT ![FsAt(FileBase(p))] = With(@, {new}, File(0))]
  BY DEF CreateFile, FileBase
<1>4. Grown(t, u)
  <2>1. Grown(t, t)
    BY DEF Grown
  <2>2. Grown(t, [t EXCEPT ![FsAt(FileBase(p))] = With(@, {new}, File(0))])
    BY AddingGrows
  <2> QED BY <1>3, <2>1, <2>2
<1>5. Grown(trees, t)
  BY MkdirToGrows
<1>6. ASSUME NEW k \in 0..(Len(p) - 1) PROVE ThereIn(mnt, u, Prefix(p, k))
  <2>1. ThereIn(mnt, t, Prefix(d, k))
    <3>1. Len(p) - 1 \in 0..Len(d)
      BY <1>1
    <3> QED BY <1>1, <3>1, MkdirMakes
  <2>2. Prefix(p, k) \in Names
    BY <1>1, PrefixType
  <2>3. \A j \in DOMAIN mnt : mnt[j].fs \in DOMAIN t
    BY <1>2, <1>5 DEF Grown
  <2> HIDE DEF t, u
  <2> QED BY <1>1, <1>2, <1>4, <2>1, <2>2, <2>3, ThereStays
<1>7. CASE Exists(p)
  <2>1. Inner(p) \in DOMAIN trees[FsAt(p)] /\ trees[FsAt(p)][Inner(p)] # Dir
    BY <1>7 DEF CreateFileOk, Exists, KindAt
  <2>2. FsAt(p) \in DOMAIN trees
    BY <1>2, VisibleHere, VisibleIs DEF FsAt
  <2> HIDE DEF t, u
  <2> QED BY <1>3, <1>5, <1>6, <1>7, <2>1, <2>2 DEF Grown, u
<1>8. CASE ~Exists(p)
  <2> DEFINE V == VisibleIn(mnt, p)
             fs == mnt[V].fs
  <2>1. /\ Visible(FileBase(p)) = V /\ Visible(p) = V /\ V \in DOMAIN mnt
        /\ new = Inner(p) /\ Len(mnt[V].at) \in 0..(Len(p) - 1)
        /\ Len(Inner(p)) = Len(p) - Len(mnt[V].at)
    BY <1>0, <1>8, FileBaseIs
  <2>2. FsAt(FileBase(p)) = fs /\ FsAt(p) = fs /\ fs \in DOMAIN trees
    BY <1>2, <2>1 DEF FsAt
  <2>3. Inner(p) \notin DOMAIN trees[fs]
    BY <1>8, <2>2 DEF Exists
  <2>4. Inner(p) \notin DOMAIN t[fs]
    <3>1. CASE Missing(d) = {}
      BY <2>3, <3>1 DEF MkdirTo
    <3>2. CASE Missing(d) # {}
      <4> DEFINE fm == FirstMissing(d)
                 dirs == {Inner(Base(d)) \o SubSeq(d, fm, k) : k \in fm..(Len(p) - 1)}
      <4>1. FileBase(p) = Base(d)
        BY <3>2 DEF FileBase
      <4>2. t = [trees EXCEPT ![fs] = With(@, dirs, Dir)]
        BY <2>2, <3>2, <4>1 DEF MkdirTo
      <4>3. ASSUME NEW k \in fm..(Len(p) - 1)
            PROVE  Inner(Base(d)) \o SubSeq(d, fm, k) # Inner(p)
        <5>1. fm \in 1..Len(d) /\ Base(d) = Prefix(d, fm - 1) /\ ~Exists(Prefix(d, fm))
          BY <1>1, <3>2, FirstMissingIs
        <5>2. /\ fm - 1 \in 0..(Len(d) - 1) /\ fm - 1 + 1 = fm /\ k \in (fm - 1)..Len(d)
              /\ fm - 1 \in Nat /\ fm - 1 <= Len(d) /\ fm - 1 \in (fm - 1)..Len(d)
          BY <1>1, <5>1
        <5>3. /\ VisibleIn(mnt, Base(d)) = V
              /\ IsAbove(mnt[V].at, Base(d)) /\ mnt[V].at \in Names
          <6>1. VisibleIn(mnt, Base(d)) = V
            BY <2>1, <4>1, VisibleHere
          <6>2. Base(d) \in Names
            BY <1>1, <5>1, <5>2, PrefixType, NamesAreSeqs
          <6>3. LeadsIn(mnt, Base(d), V)
            BY <1>2, <6>1, <6>2, VisibleIs
          <6> QED BY <1>2, <2>1, <6>1, <6>3 DEF LeadsIn, Rooted
        <5>4. /\ Below(mnt[V].at, Base(d)) \o SubSeq(d, fm, k) = Below(mnt[V].at, Prefix(d, k))
              /\ Len(Below(mnt[V].at, Prefix(d, k))) = k - Len(mnt[V].at)
          <6>1. IsAbove(mnt[V].at, Prefix(d, fm - 1))
            BY <5>1, <5>3
          <6>2. /\ Below(mnt[V].at, Prefix(d, fm - 1)) \o SubSeq(d, fm - 1 + 1, k)
                        = Below(mnt[V].at, Prefix(d, k))
                /\ Len(Below(mnt[V].at, Prefix(d, k))) = k - Len(mnt[V].at)
            BY <1>1, <5>2, <5>3, <6>1, BelowJoin
          <6> QED BY <5>1, <5>2, <6>2
        <5>5. Inner(Base(d)) = Below(mnt[V].at, Base(d))
          BY <2>1, <4>1 DEF Inner
        <5>6. Len(Inner(Base(d)) \o SubSeq(d, fm, k)) = k - Len(mnt[V].at)
          BY <5>4, <5>5
        <5>7. k < Len(p)
          BY <1>1, <5>1
        <5>8. k \in Nat /\ Len(mnt[V].at) \in Nat /\ Len(p) \in Nat
          BY <1>1, <2>1, <5>1
        <5>9. k - Len(mnt[V].at) # Len(p) - Len(mnt[V].at)
          BY <5>7, <5>8
        <5> QED BY <2>1, <5>6, <5>9
      <4>4. Inner(p) \notin dirs
        BY <4>3
      <4> HIDE DEF dirs, t, fs
      <4>5. t[fs] = With(trees[fs], dirs, Dir)
        BY <2>2, <4>2
      <4>6. DOMAIN t[fs] = dirs \cup DOMAIN trees[fs]
        BY <4>5 DEF With
      <4> QED BY <2>3, <4>4, <4>6
    <3> QED BY <3>1, <3>2
  <2>5. u[fs] = With(t[fs], {Inner(p)}, File(0))
    <3>1. fs \in DOMAIN t
      BY <1>5, <2>2 DEF Grown
    <3> HIDE DEF t, fs
    <3> QED BY <1>3, <1>8, <2>1, <2>2, <3>1
  <2> HIDE DEF t, u, fs
  <2>6. u[fs][Inner(p)] = File(0)
    BY <2>4, <2>5 DEF With
  <2> QED BY <1>6, <2>2, <2>6 DEF File, Dir, u
<1> QED BY <1>7, <1>8

-----------------------------------------------------------------------------
(* Mounts that are added at the end of the list.                           *)

\* ns is ms with more mounts, each of them at p or at the volume in it.
AddedAt(ms, ns, p) ==
    /\ Len(ms) < Len(ns)
    /\ \A k \in DOMAIN ms : ns[k].at = ms[k].at /\ ns[k].fs = ms[k].fs
    /\ ns[Len(ms) + 1].at = p
    /\ \A k \in DOMAIN ns \ DOMAIN ms : ns[k].at \in {p, Append(p, Vol)}

LEMMA VolumeIs ==
    ASSUME NEW p \in Names
    PROVE  /\ Append(p, Vol) \in Names /\ Len(Append(p, Vol)) = Len(p) + 1
           /\ \A n \in 0..Len(p) : Prefix(Append(p, Vol), n) = Prefix(p, n)
           /\ IsAbove(p, Append(p, Vol)) /\ Append(p, Vol) # p
<1>1. p \in Seq(Name) /\ Vol \in Name /\ Len(p) \in Nat
  BY NamesAreSeqs, NamesAssumption
<1>2. /\ Append(p, Vol) \in Names /\ Len(Append(p, Vol)) = Len(p) + 1
      /\ \A i \in 1..Len(p) : Append(p, Vol)[i] = p[i]
  BY <1>1 DEF Names
<1>3. ASSUME NEW n \in 0..Len(p) PROVE Prefix(Append(p, Vol), n) = Prefix(p, n)
  <2>1. n \in 0..Len(Append(p, Vol))
    BY <1>1, <1>2
  <2>2. /\ Prefix(Append(p, Vol), n) \in Names /\ Len(Prefix(Append(p, Vol), n)) = n
        /\ \A i \in 1..n : Prefix(Append(p, Vol), n)[i] = Append(p, Vol)[i]
    BY <1>2, <2>1, PrefixType
  <2>3. /\ Prefix(p, n) \in Names /\ Len(Prefix(p, n)) = n
        /\ \A i \in 1..n : Prefix(p, n)[i] = p[i]
    BY PrefixType
  <2>4. \A i \in 1..n : Prefix(Append(p, Vol), n)[i] = Prefix(p, n)[i]
    BY <1>1, <1>2, <2>2, <2>3
  <2> QED BY <2>2, <2>3, <2>4, SeqEqual DEF Names
<1>4. IsAbove(p, Append(p, Vol))
  <2>1. Len(p) \in 0..Len(p) /\ Len(p) \in 0..Len(Append(p, Vol))
    BY <1>1, <1>2
  <2>2. Prefix(Append(p, Vol), Len(p)) = p
    BY <1>3, <2>1, WholePrefix
  <2> QED BY <1>2, <2>1, <2>2, AboveIsPrefix
<1>5. Append(p, Vol) # p
  BY <1>1, <1>2
<1> QED BY <1>2, <1>3, <1>4, <1>5

\* A path with none of the new mounts above it leads where it led.
LEMMA Unhidden ==
    ASSUME NEW ms, Rooted(ms), NEW ns, Rooted(ns), NEW p \in Names,
           AddedAt(ms, ns, p), NEW q \in Names, NEW u,
           \A k \in DOMAIN ns \ DOMAIN ms : ~IsAbove(ns[k].at, q)
    PROVE  /\ VisibleIn(ns, q) = VisibleIn(ms, q)
           /\ ThereIn(ms, u, q) => ThereIn(ns, u, q)
<1> DEFINE V == VisibleIn(ms, q)
<1>1. V \in DOMAIN ms /\ LeadsIn(ms, q, V)
  BY VisibleIs
<1>2. DOMAIN ms \subseteq DOMAIN ns
  BY DEF Rooted, AddedAt
<1>3. \A k \in DOMAIN ms : ns[k].at = ms[k].at
  BY DEF AddedAt
<1>4. LeadsIn(ns, q, V)
  BY <1>1, <1>2, <1>3 DEF LeadsIn
<1>5. VisibleIn(ns, q) = V
  BY <1>1, <1>2, <1>4, VisibleUnique
<1>6. ns[V].at = ms[V].at /\ ns[V].fs = ms[V].fs
  BY <1>1 DEF AddedAt
<1> QED BY <1>5, <1>6 DEF ThereIn

LEMMA AddedIsPlaced ==
    ASSUME NEW ms, Rooted(ms), NEW t, WellPlaced(ms, t), NEW u,
           \A k \in DOMAIN ms : DOMAIN t[ms[k].fs] \subseteq DOMAIN u[ms[k].fs],
           NEW ns, Rooted(ns), NEW p \in Names, AddedAt(ms, ns, p),
           \A k \in DOMAIN ns : <<>> \in DOMAIN u[ns[k].fs],
           \A n \in 0..(Len(p) - 1) : ThereIn(ms, u, Prefix(p, n))
    PROVE  WellPlaced(ns, u)
<1>0. /\ Len(p) \in Nat /\ Len(ms) \in Nat /\ Len(ns) \in Nat
      /\ DOMAIN ms = 1..Len(ms) /\ DOMAIN ns = 1..Len(ns) /\ Len(ms) < Len(ns)
  BY NamesAreSeqs DEF Rooted, AddedAt
<1>1. SUFFICES ASSUME NEW k \in DOMAIN ns, VisibleIn(ns, ns[k].at) = k,
                      NEW n \in 0..Len(ns[k].at)
               PROVE  ThereIn(ns, u, Prefix(ns[k].at, n))
  BY DEF WellPlaced
<1> DEFINE a == ns[k].at
           q == Prefix(a, n)
<1>2. a \in Names /\ q \in Names /\ Len(q) = n /\ IsAbove(q, a) /\ Len(a) \in Nat
  <2>1. a \in Names
    BY DEF Rooted
  <2>2. Len(a) \in Nat /\ n \in 0..Len(a) /\ Len(a) \in 0..Len(a)
    BY <2>1, NamesAreSeqs
  <2> QED BY <2>1, <2>2, PrefixType, PrefixIsAbove
<1>3. CASE k \in DOMAIN ms
  <2>1. ASSUME NEW j \in DOMAIN ns \ DOMAIN ms PROVE ~IsAbove(ns[j].at, a)
    <3>1. LeadsIn(ns, a, k)
      BY <1>1, <1>2, VisibleIs
    <3>2. ~(j <= k)
      BY <1>0, <1>3
    <3> QED BY <3>1, <3>2 DEF LeadsIn
  <2>2. ASSUME NEW j \in DOMAIN ns \ DOMAIN ms PROVE ~IsAbove(ns[j].at, q)
    <3>1. ns[j].at \in Names
      BY DEF Rooted
    <3> QED BY <1>2, <2>1, <3>1, AboveTransitive
  <2>3. a = ms[k].at
    BY <1>3 DEF AddedAt
  <2>4. VisibleIn(ns, a) = VisibleIn(ms, a)
    BY <1>2, <2>1, Unhidden
  <2>5. ThereIn(ms, t, q)
    BY <1>1, <1>3, <2>3, <2>4 DEF WellPlaced
  <2>6. ThereIn(ms, u, q)
    <3>1. VisibleIn(ms, q) \in DOMAIN ms
      BY <1>2, VisibleIs
    <3> QED BY <2>5, <3>1 DEF ThereIn
  <2> QED BY <1>2, <2>2, <2>6, Unhidden
<1>4. CASE k \notin DOMAIN ms /\ n < Len(p)
  <2>1. q = Prefix(p, n)
    <3>1. n \in 0..Len(p)
      BY <1>0, <1>2, <1>4
    <3>2. a \in {p, Append(p, Vol)}
      BY <1>4 DEF AddedAt
    <3> QED BY <3>1, <3>2, VolumeIs
  <2>2. ASSUME NEW j \in DOMAIN ns \ DOMAIN ms PROVE ~IsAbove(ns[j].at, q)
    <3>1. ns[j].at \in Names /\ ns[j].at \in {p, Append(p, Vol)}
      BY DEF Rooted, AddedAt
    <3>2. Len(ns[j].at) \in {Len(p), Len(p) + 1}
      BY <3>1, VolumeIs
    <3> QED BY <1>0, <1>2, <1>4, <3>1, <3>2, AboveIsPrefix
  <2>3. ThereIn(ms, u, q)
    BY <1>0, <1>2, <1>4, <2>1
  <2> QED BY <1>2, <2>2, <2>3, Unhidden
<1>5. CASE k \notin DOMAIN ms /\ n >= Len(p)
  <2> DEFINE V == VisibleIn(ns, q)
  <2>1. a \in {p, Append(p, Vol)}
    BY <1>5 DEF AddedAt
  <2>2. V \in DOMAIN ns /\ LeadsIn(ns, q, V)
    BY <1>2, VisibleIs
  <2>3. CASE n = Len(p)
    <3>1. q = p
      <4>1. Len(p) \in 0..Len(p) /\ Prefix(p, Len(p)) = p
        BY <1>0, WholePrefix
      <4>2. Prefix(Append(p, Vol), Len(p)) = Prefix(p, Len(p))
        BY <4>1, VolumeIs
      <4> QED BY <2>1, <2>3, <4>1, <4>2
    <3>2. IsAbove(p, p) /\ Len(ms) + 1 \in DOMAIN ns /\ ns[Len(ms) + 1].at = p
      <4>1. Len(p) \in 0..Len(p) /\ Prefix(p, Len(p)) = p
        BY <1>0, WholePrefix
      <4> QED BY <1>0, <4>1, AboveIsPrefix DEF AddedAt
    <3>3. Len(ms) + 1 <= V
      BY <2>2, <3>1, <3>2 DEF LeadsIn
    <3>4. V \in DOMAIN ns \ DOMAIN ms
      BY <1>0, <2>2, <3>3
    <3>5. ns[V].at \in {p, Append(p, Vol)} /\ IsAbove(ns[V].at, p)
      BY <2>2, <3>1, <3>4 DEF AddedAt, LeadsIn
    <3>6. ~IsAbove(Append(p, Vol), p)
      <4>1. Append(p, Vol) \in Names /\ Len(Append(p, Vol)) = Len(p) + 1
        BY VolumeIs
      <4>2. Len(Append(p, Vol)) \notin 0..Len(p)
        BY <1>0, <4>1
      <4> QED BY <4>1, <4>2, AboveIsPrefix
    <3>7. ns[V].at = q
      BY <3>1, <3>5, <3>6
    <3> QED BY <1>2, <2>2, <3>7, BelowItself DEF ThereIn
  <2>4. CASE n # Len(p)
    <3>1. n = Len(a)
      BY <1>0, <1>2, <1>5, <2>1, <2>4, VolumeIs
    <3>2. q = a
      BY <1>2, <3>1, WholePrefix
    <3>3. V = k /\ ns[V].at = q
      BY <1>1, <3>2
    <3> QED BY <1>2, <2>2, <3>3, BelowItself DEF ThereIn
  <2> QED BY <2>3, <2>4
<1> QED BY <1>0, <1>2, <1>3, <1>4, <1>5

-----------------------------------------------------------------------------
(* The invariant: what mounts and trees look like while setup goes on.     *)

\* The last mount that setup keeps: pivot_root stacks the old root on top.
Top == IF pc = "detach" THEN Len(mnt) - 1 ELSE Len(mnt)

ForSetup(m) ==
    /\ m.fs \in SetupFs \cup {<<"hostdev">>, <<"hostroot">>}
    /\ m.fs = <<"root">> => m.at = <<>>

\* A mount shows what its entry is for, and is read-only if the entry is.
ForEntry(m) ==
    LET e == table[m.by]
    IN  /\ m.by < idx
        /\ e.kind \in Binds /\ ~isDir[m.by] => m.at = e.dst /\ m.fs = <<"hostfile">>
        /\ e.kind \in Binds /\ isDir[m.by] =>
               \/ m.at = e.dst /\ m.fs = <<"hostdir">>
               \/ m.at = Append(e.dst, Vol) /\ m.fs = <<"vol">>
        /\ e.kind \notin Binds => m.at = e.dst /\ m.fs = EntryFs(m.by)
        /\ e.readOnly /\ e.kind \in Binds \cup {"tmpfs", "file"} => m.ro

MountsAsMeant ==
    \A k \in DOMAIN mnt : IF mnt[k].by = 0 THEN ForSetup(mnt[k]) ELSE ForEntry(mnt[k])

\* What setup mounts itself comes first, then the entries in their order, and
\* of a directory the volume in it second.
BaseMounts == <<Mount(<<>>, <<"root">>, 0)>> \o DevMounts
Building   == {"entries", "pivot", "detach", "cleanup", "done"}

BaseFirst ==
    /\ Len(BaseMounts) <= Top
    /\ \A k \in 1..Len(BaseMounts) : mnt[k] = BaseMounts[k]
    /\ \A k \in 1..Top : k > Len(BaseMounts) => mnt[k].by # 0

InOrder ==
    \A j, k \in 1..Top : j < k /\ mnt[k].by # 0 =>
        \/ mnt[j].by < mnt[k].by
        \/ /\ mnt[j].by = mnt[k].by
           /\ mnt[j].at = table[mnt[k].by].dst
           /\ mnt[k].at = Append(table[mnt[k].by].dst, Vol)

AllPresent ==
    \A i \in 1..(idx - 1) :
        /\ \E k \in 1..Top : mnt[k].by = i /\ mnt[k].at = table[i].dst
        /\ table[i].kind \in Binds /\ isDir[i] =>
               \E k \in 1..Top : mnt[k].by = i /\ mnt[k].at = Append(table[i].dst, Vol)

Layered ==
    /\ pc \in {"staging", "dev"} => mnt = <<Mount(<<>>, <<"root">>, 0)>>
    /\ pc \in Building => BaseFirst /\ InOrder /\ AllPresent

\* Every tree has its root; the files of the host stay files, and what is
\* staged for a file entry keeps its content.
TreesAsMeant ==
    /\ \A f \in AllFs : <<>> \in DOMAIN trees[f]
    /\ \A f \in {<<"hostfile">>, <<"hostdev">>} :
           DOMAIN trees[f] = {<<>>} /\ trees[f][<<>>] # Dir
    /\ \A i \in 1..(idx - 1) :
           table[i].kind = "file" => trees[EntryFs(i)][<<>>] = File(i)

\* A source that was a directory is one, or is gone.
DirsStayDirs ==
    /\ pc = "plan" => \A i \in DOMAIN table : ~isDir[i]
    /\ \A i \in DOMAIN table :
           table[i].kind = "bind" /\ isDir[i] => HostInode(table[i].src) # <<"hostfile">>

MountPointsThere == pc = "entries" => WellPlaced(mnt, trees)

AllProcessed ==
    /\ pc \in {"plan", "root", "staging", "dev"} => idx = 1
    /\ pc \in {"pivot", "detach", "cleanup", "done"} => idx = Len(table) + 1
    /\ pc = "done" => DOMAIN staged = {}

BuildInv ==
    /\ MountsAsMeant /\ Layered /\ TreesAsMeant /\ DirsStayDirs /\ MountPointsThere
    /\ AllProcessed /\ HostWritesAreGranted

-----------------------------------------------------------------------------
(* Filesystems, and those that a mount point can be created in.            *)

LEMMA FsApart ==
    /\ \A i, j \in Nat : EntryFs(i) = EntryFs(j) => i = j
    /\ \A i \in Nat : EntryFs(i) \notin HostFs \cup SetupFs
    /\ HostFs \cap SetupFs = {} /\ HostFs \cup SetupFs \subseteq AllFs
    /\ <<"hostdir">> # <<"hostfile">> /\ <<"vol">> # <<"hostdir">>
    /\ <<"vol">> # <<"hostfile">> /\ <<"hostdev">> # <<"hostdir">>
    /\ <<"hostdev">> # <<"vol">> /\ <<"hostdev">> # <<"hostfile">>
    /\ <<"hostroot">> # <<"hostdir">> /\ <<"hostroot">> # <<"vol">>
<1>1. \A i, j \in Nat : EntryFs(i) = EntryFs(j) => i = j
  BY DEF EntryFs
<1>2. \A i \in Nat : EntryFs(i) \notin HostFs \cup SetupFs
  <2>1. \A i \in Nat : Len(EntryFs(i)) = 2
    BY DEF EntryFs
  <2>2. \A f \in HostFs \cup SetupFs : Len(f) = 1
    BY DEF HostFs, SetupFs
  <2> QED BY <2>1, <2>2
<1>3. HostFs \cap SetupFs = {}
  BY DEF HostFs, SetupFs
<1> QED BY <1>1, <1>2, <1>3 DEF AllFs

\* Mount k shows f, is writable, and f is a directory somewhere.
Opens(k, f) ==
    mnt[k].fs = f /\ ~mnt[k].ro /\ \E q \in DOMAIN trees[f] : trees[f][q] = Dir

\* Such a mount is on the way to p, and shows q there.
Granted(f, q, p) == \E k \in DOMAIN mnt : Opens(k, f) /\ OnTheWay(mnt[k].at, q, p)

LEMMA CreatableOpens ==
    ASSUME TypeOK, Rooted(mnt), NEW p \in Names, NEW what, Creatable(p, what)
    PROVE  /\ Visible(p) \in DOMAIN mnt /\ Opens(Visible(p), FsAt(p))
           /\ IsAbove(mnt[Visible(p)].at, p)
<1>1. Visible(p) \in DOMAIN mnt /\ LeadsIn(mnt, p, Visible(p))
  BY VisibleHere, VisibleIs
<1>2. IsAbove(mnt[Visible(p)].at, p)
  BY <1>1 DEF LeadsIn
<1> QED BY <1>1, <1>2 DEF Creatable, IsDirAt, Exists, KindAt, FsAt, Opens

LEMMA WayIs ==
    ASSUME NEW p \in Names, NEW n \in 0..Len(p), NEW at, IsAbove(at, Prefix(p, n))
    PROVE  OnTheWay(at, Below(at, Prefix(p, n)), p)
BY DEF OnTheWay, Prefix

\* What is on the way to the parent is on the way.
LEMMA WayOfParent ==
    ASSUME NEW p \in Names, p # <<>>, NEW at, NEW q, OnTheWay(at, q, Parent(p))
    PROVE  OnTheWay(at, q, p)
<1>1. /\ Len(p) \in Nat /\ Len(Parent(p)) = Len(p) - 1
      /\ \A k \in 0..(Len(p) - 1) : Prefix(Parent(p), k) = Prefix(p, k)
  BY ParentIs
<1>2. PICK n \in 0..Len(Parent(p)) :
          IsAbove(at, Prefix(Parent(p), n)) /\ q = Below(at, Prefix(Parent(p), n))
  BY DEF OnTheWay, Prefix
<1>3. n \in 0..Len(p) /\ Prefix(Parent(p), n) = Prefix(p, n)
  BY <1>1
<1> QED BY <1>2, <1>3, WayIs

\* Trees u differ from the present ones only on the way to p, where that was
\* granted.
OnlyGranted(u, p) ==
    \A f \in AllFs : \A q \in DOMAIN u[f] \ DOMAIN trees[f] : Granted(f, q, p)

LEMMA BaseType ==
    ASSUME NEW p \in Names, Missing(p) # {}
    PROVE  Base(p) \in Names
<1>1. FirstMissing(p) \in 1..Len(p) /\ Base(p) = Prefix(p, FirstMissing(p) - 1)
  BY FirstMissingIs
<1>2. FirstMissing(p) - 1 \in 0..Len(p)
  BY <1>1, NamesAreSeqs
<1> QED BY <1>1, <1>2, PrefixType

LEMMA MkdirGranted ==
    ASSUME TypeOK, Rooted(mnt), NEW p \in Names, NEW n \in 0..Len(p), MkdirAllOk(p)
    PROVE  OnlyGranted(MkdirTo(p, n), p)
<1> DEFINE fs  == FsAt(Base(p))
           fm  == FirstMissing(p)
           V   == Visible(Base(p))
           a   == mnt[V].at
           new == {Inner(Base(p)) \o SubSeq(p, fm, k) : k \in fm..n}
<1>1. CASE Missing(p) = {}
  BY <1>1 DEF MkdirTo, OnlyGranted
<1>2. CASE Missing(p) # {}
  <2>1. /\ fm \in 1..Len(p) /\ Base(p) = Prefix(p, fm - 1) /\ Base(p) \in Names
        /\ Len(p) \in Nat
    BY <1>2, FirstMissingIs, BaseType, NamesAreSeqs
  <2>2. V \in DOMAIN mnt /\ Opens(V, fs) /\ IsAbove(a, Base(p)) /\ a \in Names
    BY <1>2, <2>1, CreatableOpens, MountsTyped DEF MkdirAllOk
  <2>3. MkdirTo(p, n) = [trees EXCEPT ![fs] = With(@, new, Dir)]
    BY <1>2 DEF MkdirTo
  <2>4. ASSUME NEW k \in fm..n
        PROVE  OnTheWay(a, Inner(Base(p)) \o SubSeq(p, fm, k), p)
    <3>1. /\ k \in 0..Len(p) /\ fm - 1 \in Nat /\ fm - 1 <= Len(p) /\ k \in (fm - 1)..Len(p)
          /\ fm - 1 \in 0..k /\ fm - 1 + 1 = fm
      BY <2>1
    <3>2. Inner(Base(p)) \o SubSeq(p, fm, k) = Below(a, Prefix(p, k))
      <4>1. Below(a, Prefix(p, fm - 1)) \o SubSeq(p, fm - 1 + 1, k) = Below(a, Prefix(p, k))
        BY <2>1, <2>2, <3>1, BelowJoin
      <4> QED BY <2>1, <3>1, <4>1 DEF Inner
    <3>3. IsAbove(a, Prefix(p, k))
      <4>1. IsAbove(Prefix(p, fm - 1), Prefix(p, k)) /\ Prefix(p, k) \in Names
        BY <3>1, PrefixIsAbove, PrefixType
      <4> QED BY <2>1, <2>2, <4>1, AboveTransitive
    <3> QED BY <3>1, <3>2, <3>3, WayIs
  <2>5. \A q \in new : OnTheWay(a, q, p)
    BY <2>4
  <2> HIDE DEF fs, new, V
  <2>6. ASSUME NEW f \in AllFs, NEW q \in DOMAIN MkdirTo(p, n)[f] \ DOMAIN trees[f]
        PROVE  Granted(f, q, p)
    <3>1. f = fs
      BY <2>3, <2>6 DEF TypeOK
    <3>2. q \in new
      <4>1. fs \in DOMAIN trees
        BY <2>6, <3>1 DEF TypeOK
      <4>2. MkdirTo(p, n)[fs] = With(trees[fs], new, Dir)
        BY <2>3, <4>1
      <4>3. DOMAIN MkdirTo(p, n)[fs] = new \cup DOMAIN trees[fs]
        BY <4>2 DEF With
      <4> QED BY <2>6, <3>1, <4>3
    <3> QED BY <2>2, <2>5, <3>1, <3>2 DEF Granted
  <2> QED BY <2>6 DEF OnlyGranted
<1> QED BY <1>1, <1>2

LEMMA CreateFileGranted ==
    ASSUME Standing, NEW p \in Names, CreateFileOk(p)
    PROVE  OnlyGranted(CreateFile(p), p)
<1> DEFINE d   == Parent(p)
           t   == MkdirTo(d, Len(p) - 1)
           new == Inner(FileBase(p)) \o Below(FileBase(p), p)
           fs  == FsAt(FileBase(p))
<1>1. /\ p # <<>> /\ d \in Names /\ MkdirAllOk(d) /\ TypeOK /\ Rooted(mnt)
      /\ Len(p) - 1 \in 0..Len(d)
  BY ParentIs DEF CreateFileOk, Standing
<1>2. OnlyGranted(t, p) /\ Grown(trees, t)
  <2>1. OnlyGranted(t, d) /\ Grown(trees, t)
    BY <1>1, MkdirGranted, MkdirToGrows
  <2> HIDE DEF t, d
  <2> QED BY <1>1, <2>1, WayOfParent DEF OnlyGranted, Granted, d
<1>3. CreateFile(p) = IF Exists(p) THEN t ELSE [t EXCEPT ![fs] = With(@, {new}, File(0))]
  BY DEF CreateFile, FileBase
<1>4. CASE Exists(p)
  BY <1>2, <1>3, <1>4
<1>5. CASE ~Exists(p)
  <2> DEFINE V == Visible(FileBase(p))
  <2>1. V \in DOMAIN mnt /\ Opens(V, fs)
    <3>1. CASE Missing(d) = {}
      <4>1. Creatable(d, File(0)) /\ FileBase(p) = d
        BY <1>5, <3>1 DEF CreateFileOk, FileBase
      <4> QED BY <1>1, <4>1, CreatableOpens
    <3>2. CASE Missing(d) # {}
      <4>1. Creatable(Base(d), Dir) /\ FileBase(p) = Base(d)
        BY <1>1, <3>2 DEF MkdirAllOk, FileBase
      <4> QED BY <1>1, <3>2, <4>1, BaseType, CreatableOpens
    <3> QED BY <3>1, <3>2
  <2>2. OnTheWay(mnt[V].at, new, p)
    <3>1. V = VisibleIn(mnt, p) /\ new = Inner(p) /\ Visible(p) = V
      BY <1>1, <1>5, FileBaseIs
    <3>2. IsAbove(mnt[V].at, p)
      BY <1>1, <3>1, VisibleIs DEF LeadsIn
    <3>3. Prefix(p, Len(p)) = p /\ Len(p) \in 0..Len(p)
      BY WholePrefix, NamesAreSeqs
    <3>4. OnTheWay(mnt[V].at, Below(mnt[V].at, Prefix(p, Len(p))), p)
      BY <3>2, <3>3, WayIs
    <3> QED BY <3>1, <3>3, <3>4 DEF Inner
  <2> HIDE DEF fs, new, t, V
  <2>3. ASSUME NEW f \in AllFs, NEW q \in DOMAIN CreateFile(p)[f] \ DOMAIN trees[f]
        PROVE  Granted(f, q, p)
    <3>1. CASE q \in DOMAIN t[f]
      BY <1>2, <2>3, <3>1 DEF OnlyGranted
    <3>2. CASE q \notin DOMAIN t[f]
      <4>1. DOMAIN t = AllFs
        BY <1>1, <1>2 DEF Grown, TypeOK
      <4>2. f = fs
        BY <1>3, <1>5, <2>3, <3>2, <4>1
      <4>3. q = new
        <5>1. CreateFile(p)[fs] = With(t[fs], {new}, File(0))
          BY <1>3, <1>5, <2>3, <4>1, <4>2
        <5>2. DOMAIN CreateFile(p)[fs] = {new} \cup DOMAIN t[fs]
          BY <5>1 DEF With
        <5> QED BY <2>3, <3>2, <4>2, <5>2
      <4> QED BY <2>1, <2>2, <4>2, <4>3 DEF Granted
    <3> QED BY <3>1, <3>2
  <2> QED BY <2>3 DEF OnlyGranted
<1> QED BY <1>4, <1>5

LEMMA MountPointGranted ==
    ASSUME Standing, NEW p \in Names, NEW d \in BOOLEAN
    PROVE  /\ MountPointOk(p, d) => OnlyGranted(MountPoint(p, d), p)
           /\ \A u \in MountPointPartly(p, d) : OnlyGranted(u, p)
<1>1. MountPointOk(p, d) => OnlyGranted(MountPoint(p, d), p)
  <2>1. Len(p) \in 0..Len(p)
    BY NamesAreSeqs
  <2> QED BY <2>1, MkdirGranted, CreateFileGranted DEF MountPointOk, MountPoint, Standing
<1>2. ASSUME NEW u \in MountPointPartly(p, d) PROVE OnlyGranted(u, p)
  <2> DEFINE q == IF d THEN p ELSE Parent(p)
  <2>1. q \in Names /\ (q = p \/ (p # <<>> /\ q = Parent(p)))
    <3>1. CASE p = <<>>
      <4>1. Parent(p) = <<>>
        BY <3>1, SubSeqEmpty DEF Parent
      <4> QED BY <3>1, <4>1
    <3>2. CASE p # <<>>
      BY <3>2, ParentIs
    <3> QED BY <3>1, <3>2
  <2>2. CASE MkdirAllOk(q)
    <3>1. PICK n \in 0..Len(q) : u = MkdirTo(q, n)
      BY <1>2, <2>2 DEF MountPointPartly
    <3>2. OnlyGranted(u, q)
      BY <2>1, <2>2, <3>1, MkdirGranted DEF Standing
    <3> HIDE DEF q
    <3> QED BY <2>1, <3>2, WayOfParent DEF OnlyGranted, Granted
  <2>3. CASE ~MkdirAllOk(q)
    BY <1>2, <2>3 DEF MountPointPartly, OnlyGranted
  <2> QED BY <2>2, <2>3
<1> QED BY <1>1, <1>2

\* Setup writes to the host through a bind of a directory that is not read-only,
\* and around the new root.
LEMMA GrantedMayMake ==
    ASSUME IInv, BuildInv, idx \in DOMAIN table, NEW f \in OfTheHost, NEW q,
           Granted(f, q, Entry.dst)
    PROVE  MayMake(idx, f, q)
<1>1. PICK k \in DOMAIN mnt : Opens(k, f) /\ OnTheWay(mnt[k].at, q, Entry.dst)
  BY DEF Granted
<1>2. f \in {<<"hostdir">>, <<"vol">>, <<"root">>}
  BY <1>1 DEF BuildInv, TreesAsMeant, OfTheHost, HostFs, Opens
<1>3. /\ mnt[k].by \in 0..Len(table) /\ idx \in 1..(Len(table) + 1)
      /\ DOMAIN table = 1..Len(table) /\ mnt[k].fs = f /\ ~mnt[k].ro
  BY <1>1, MountsTyped, TableType DEF IInv, TypeOK, Opens
<1>4. CASE mnt[k].by = 0
  <2>1. ForSetup(mnt[k])
    BY <1>4 DEF BuildInv, MountsAsMeant
  <2>2. f = <<"root">>
    BY <1>2, <1>3, <2>1, FsApart DEF ForSetup, SetupFs
  <2>3. mnt[k].at = <<>>
    BY <1>3, <2>1, <2>2 DEF ForSetup
  <2> QED BY <1>1, <2>2, <2>3 DEF MayMake, Entry
<1>5. CASE mnt[k].by # 0
  <2> DEFINE i == mnt[k].by
  <2>1. ForEntry(mnt[k]) /\ i \in Nat /\ i \in 1..(idx - 1)
    <3>1. ForEntry(mnt[k])
      BY <1>5 DEF BuildInv, MountsAsMeant
    <3>2. mnt[k].by < idx
      BY <3>1 DEF ForEntry
    <3> QED BY <1>3, <1>5, <3>1, <3>2
  <2>2. f # EntryFs(i)
    <3>1. f \in HostFs \cup SetupFs
      BY <1>2 DEF HostFs, SetupFs
    <3> QED BY <2>1, <3>1, FsApart
  <2>3. <<"root">> # <<"hostfile">> /\ <<"root">> # <<"hostdir">> /\ <<"root">> # <<"vol">>
    OBVIOUS
  <2>4. table[i].kind \in Binds /\ isDir[i] /\ f \in {<<"hostdir">>, <<"vol">>}
    BY <1>2, <1>3, <2>1, <2>2, <2>3, FsApart DEF ForEntry
  <2>5. ~table[i].readOnly
    BY <1>3, <2>1, <2>4 DEF ForEntry
  <2>6. mnt[k].at = ShownAt(i, f)
    BY <1>3, <2>1, <2>4, FsApart DEF ForEntry, ShownAt
  <2>7. LetsWrite(i, f)
    BY <2>4, <2>5 DEF LetsWrite
  <2> QED BY <1>1, <2>1, <2>6, <2>7 DEF MayMake, Entry
<1> QED BY <1>4, <1>5

\* Trees in which the host has what it had, what entry idx may make, and what is
\* inside the new root.
LEMMA WritesGranted ==
    ASSUME HostWritesAreGranted, UNCHANGED <<table, isDir>>, idx \in Nat \ {0},
           idx' \in {idx, idx + 1},
           \A f \in OfTheHost : \A q \in DOMAIN trees'[f] :
               \/ q \in DOMAIN trees[f]
               \/ f = <<"root">> /\ ~Outside(q)
               \/ idx \in DOMAIN table /\ MayMake(idx, f, q)
    PROVE  HostWritesAreGranted'
<1>1. \A f : Original(f)' = Original(f)
  BY DEF Original
<1>2. \A j, f, q : MayMake(j, f, q)' <=> MayMake(j, f, q)
  BY DEF MayMake, LetsWrite, ShownAt
<1>3. ASSUME NEW f \in OfTheHost, NEW q \in MadeThere(f)'
      PROVE  \E j \in 1..idx' : j \in DOMAIN table /\ MayMake(j, f, q)
  <2>1. q \in DOMAIN trees'[f] \ Original(f) /\ (f = <<"root">> => Outside(q))
    BY <1>1, <1>3 DEF MadeThere
  <2>2. CASE q \in DOMAIN trees[f]
    <3>1. q \in MadeThere(f)
      BY <2>1, <2>2 DEF MadeThere
    <3>2. PICK j \in 1..idx : j \in DOMAIN table /\ MayMake(j, f, q)
      BY <3>1 DEF HostWritesAreGranted
    <3>3. j \in 1..idx'
      OBVIOUS
    <3> QED BY <3>2, <3>3
  <2>3. CASE q \notin DOMAIN trees[f]
    <3>1. idx \in DOMAIN table /\ MayMake(idx, f, q) /\ idx \in 1..idx'
      BY <2>1, <2>3
    <3> QED BY <3>1
  <2> QED BY <2>2, <2>3
<1> QED BY <1>2, <1>3 DEF HostWritesAreGranted, OfTheHost, HostFs

-----------------------------------------------------------------------------
(* What an entry attaches.                                                 *)

EntryShows ==
    IF Entry.kind \in Binds
    THEN IF isDir[idx] THEN <<"hostdir">> ELSE <<"hostfile">>
    ELSE EntryFs(idx)

EntryShape(ms) ==
    /\ ms \in Seq(MountType)
    /\ Len(ms) = IF Entry.kind \in Binds /\ isDir[idx] THEN 2 ELSE 1
    /\ \A k \in 1..Len(ms) : ms[k].by = idx
    /\ ms[1].at = Entry.dst /\ ms[1].fs = EntryShows
    /\ Len(ms) = 2 => ms[2].at = Append(Entry.dst, Vol) /\ ms[2].fs = <<"vol">>

ReadOnlyIfAsked(ms) ==
    Entry.readOnly /\ Entry.kind \in Binds \cup {"tmpfs", "file"} =>
        \A k \in 1..Len(ms) : ms[k].ro

SameShape(ms, ns) ==
    /\ ns \in Seq(MountType) /\ Len(ns) = Len(ms)
    /\ \A k \in 1..Len(ms) : ns[k].at = ms[k].at /\ ns[k].fs = ms[k].fs /\ ns[k].by = ms[k].by

LEMMA SameLength ==
    ASSUME NEW S, NEW a \in Seq(S), NEW b \in Seq(S), DOMAIN a = DOMAIN b
    PROVE  Len(a) = Len(b)
<1>1. Len(a) \in Nat /\ Len(b) \in Nat /\ 1..Len(a) = 1..Len(b)
  OBVIOUS
<1>2. Len(a) <= Len(b)
  <2>1. CASE Len(a) = 0
    BY <1>1, <2>1
  <2>2. CASE Len(a) # 0
    <3>1. Len(a) \in 1..Len(b)
      BY <1>1, <2>2
    <3> QED BY <1>1, <3>1
  <2> QED BY <2>1, <2>2
<1>3. Len(b) <= Len(a)
  <2>1. CASE Len(b) = 0
    BY <1>1, <2>1
  <2>2. CASE Len(b) # 0
    <3>1. Len(b) \in 1..Len(a)
      BY <1>1, <2>2
    <3> QED BY <1>1, <3>1
  <2> QED BY <2>1, <2>2
<1> QED BY <1>1, <1>2, <1>3

LEMMA ShapeLength ==
    ASSUME NEW ms, EntryShape(ms)
    PROVE  /\ Len(ms) \in Nat /\ Len(ms) \in {1, 2} /\ 1 \in 1..Len(ms)
           /\ Len(ms) = 2 => 2 \in 1..Len(ms)
           /\ \A k \in 1..Len(ms) : k = 1 \/ (k = 2 /\ Len(ms) = 2)
<1>1. Len(ms) \in {1, 2}
  BY DEF EntryShape
<1>2. Len(ms) \in Nat
  BY <1>1
<1>3. CASE Len(ms) = 1
  BY <1>3
<1>4. CASE Len(ms) = 2
  BY <1>4
<1> QED BY <1>1, <1>2, <1>3, <1>4

LEMMA ShapeKept ==
    ASSUME NEW ms, NEW ns, EntryShape(ms), SameShape(ms, ns)
    PROVE  EntryShape(ns)
<1>1. Len(ms) \in {1, 2}
  BY DEF EntryShape
<1>2. 1 \in 1..Len(ms) /\ (Len(ms) = 2 => 2 \in 1..Len(ms))
  BY <1>1
<1> QED BY <1>1, <1>2 DEF EntryShape, SameShape

LEMMA MakePrivateShape ==
    ASSUME NEW ms \in Seq(MountType)
    PROVE  SameShape(ms, MakePrivate(ms))
<1>1. MakePrivate(ms) \in Seq(MountType) /\ DOMAIN MakePrivate(ms) = DOMAIN ms
  BY MakePrivateType
<1>2. \A k \in DOMAIN ms : ms[k] \in MountType
  OBVIOUS
<1>3. \A k \in DOMAIN ms : /\ MakePrivate(ms)[k].at = ms[k].at
                           /\ MakePrivate(ms)[k].fs = ms[k].fs
                           /\ MakePrivate(ms)[k].by = ms[k].by
  BY <1>2 DEF MakePrivate, MountType
<1>4. Len(MakePrivate(ms)) = Len(ms) /\ DOMAIN ms = 1..Len(ms)
  BY <1>1, SameLength
<1> QED BY <1>1, <1>3, <1>4 DEF SameShape

LEMMA IfReadOnlyShape ==
    ASSUME TypeOK, idx \in DOMAIN table, NEW ms \in Seq(MountType)
    PROVE  /\ SameShape(ms, IfReadOnly(ms))
           /\ EntryShape(ms) => ReadOnlyIfAsked(IfReadOnly(ms))
<1>1. IfReadOnly(ms) \in Seq(MountType) /\ DOMAIN IfReadOnly(ms) = DOMAIN ms
  BY IfReadOnlyType
<1>2. /\ \A k \in DOMAIN ms : ms[k] \in MountType
      /\ isDir[idx] \in BOOLEAN /\ DOMAIN ms = 1..Len(ms)
  BY DEF TypeOK
<1>3. Len(IfReadOnly(ms)) = Len(ms)
  BY <1>1, SameLength
<1>4. ASSUME NEW k \in DOMAIN ms
      PROVE  /\ IfReadOnly(ms)[k].at = ms[k].at /\ IfReadOnly(ms)[k].fs = ms[k].fs
             /\ IfReadOnly(ms)[k].by = ms[k].by
             /\ Entry.readOnly /\ (isDir[idx] \/ k = 1) => IfReadOnly(ms)[k].ro
  <2>1. CASE Entry.readOnly
    <3>1. IfReadOnly(ms)[k] = IF isDir[idx] \/ k = 1 THEN [ms[k] EXCEPT !.ro = TRUE] ELSE ms[k]
      BY <2>1 DEF IfReadOnly, SetReadOnly
    <3> QED BY <1>2, <3>1 DEF MountType
  <2>2. CASE ~Entry.readOnly
    BY <2>2 DEF IfReadOnly
  <2> QED BY <2>1, <2>2
<1>5. SameShape(ms, IfReadOnly(ms))
  BY <1>1, <1>2, <1>3, <1>4 DEF SameShape
<1>6. ASSUME EntryShape(ms) PROVE ReadOnlyIfAsked(IfReadOnly(ms))
  <2>1. \A k \in 1..Len(ms) : isDir[idx] \/ k = 1
    BY <1>6 DEF EntryShape
  <2> QED BY <1>2, <1>3, <1>4, <2>1 DEF ReadOnlyIfAsked
<1> QED BY <1>5, <1>6

\* A clone of the planned inode shows what the entry is for.
LEMMA CloneTreeShape ==
    ASSUME IInv, NEW kinds, Processing(kinds), Entry.kind \in Binds, NEW shared \in BOOLEAN,
           NEW inode, inode = EntryShows
    PROVE  EntryShape(CloneTree(inode, Entry.dst, idx, shared))
<1> DEFINE m(p, fs) == [Mount(p, fs, idx) EXCEPT !.shared = shared]
           c == CloneTree(inode, Entry.dst, idx, shared)
<1>1. c = IF inode = <<"hostdir">>
          THEN <<m(Entry.dst, inode), m(Append(Entry.dst, Vol), <<"vol">>)>>
          ELSE <<m(Entry.dst, inode)>>
  BY DEF CloneTree
<1>2. inode = IF isDir[idx] THEN <<"hostdir">> ELSE <<"hostfile">>
  BY DEF EntryShows
<1>3. inode \in AllFs
  BY <1>2 DEF AllFs, HostFs
<1>4. c \in Seq(MountType)
  BY <1>3, EntryTyped, CloneTreeType
<1>5. \A p, fs : m(p, fs).at = p /\ m(p, fs).fs = fs /\ m(p, fs).by = idx
  BY DEF Mount
<1> HIDE DEF m, c
<1>6. CASE isDir[idx]
  <2>1. c = <<m(Entry.dst, inode), m(Append(Entry.dst, Vol), <<"vol">>)>>
    BY <1>1, <1>2, <1>6
  <2>2. Len(c) = 2 /\ c[1] = m(Entry.dst, inode) /\ c[2] = m(Append(Entry.dst, Vol), <<"vol">>)
    BY <2>1
  <2>3. \A k \in 1..Len(c) : c[k].by = idx
    BY <1>5, <2>2
  <2>4. /\ c[1].at = Entry.dst /\ c[1].fs = EntryShows
        /\ c[2].at = Append(Entry.dst, Vol) /\ c[2].fs = <<"vol">>
    <3>1. c[1].at = Entry.dst /\ c[1].fs = inode
      BY <1>5, <2>2
    <3>2. c[2].at = Append(Entry.dst, Vol)
      BY <1>5, <2>2
    <3>3. c[2].fs = <<"vol">>
      BY <1>5, <2>2
    <3> QED BY <3>1, <3>2, <3>3
  <2>5. EntryShape(c)
    <3>1. Len(c) = 2 /\ (Entry.kind \in Binds /\ isDir[idx])
      BY <1>6, <2>2
    <3> QED BY <1>4, <2>3, <2>4, <3>1 DEF EntryShape
  <2> QED BY <2>5 DEF c
<1>7. CASE ~isDir[idx]
  <2>1. c = <<m(Entry.dst, inode)>>
    BY <1>1, <1>2, <1>7, FsApart
  <2>2. Len(c) = 1 /\ c[1] = m(Entry.dst, inode)
    BY <2>1
  <2>3. \A k \in 1..Len(c) : c[k].by = idx
    BY <1>5, <2>2
  <2> QED BY <1>4, <1>5, <1>7, <2>2, <2>3 DEF EntryShape, c
<1> QED BY <1>6, <1>7

LEMMA OneMountShape ==
    ASSUME IInv, NEW kinds, Processing(kinds), Entry.kind \notin Binds
    PROVE  EntryShape(<<Mount(Entry.dst, EntryFs(idx), idx)>>)
<1> DEFINE one == Mount(Entry.dst, EntryFs(idx), idx)
<1>1. <<one>> \in Seq(MountType)
  BY EntryTyped, OneMount
<1>2. one.at = Entry.dst /\ one.fs = EntryFs(idx) /\ one.by = idx
  BY DEF Mount
<1> HIDE DEF one
<1>3. Len(<<one>>) = 1 /\ <<one>>[1] = one
  OBVIOUS
<1>4. EntryShape(<<one>>)
  BY <1>1, <1>2, <1>3 DEF EntryShape, EntryShows
<1> QED BY <1>4 DEF one

-----------------------------------------------------------------------------
(* The step of an entry.                                                   *)

\* Trees u hold the directories above the destination, lose nothing, and have
\* grown only where that was granted.
Made(u) ==
    /\ Grown(trees, u) /\ OnlyGranted(u, Entry.dst)
    /\ \A n \in 0..(Len(Entry.dst) - 1) : ThereIn(mnt, u, Prefix(Entry.dst, n))

WithStaged(u) == [u EXCEPT ![EntryFs(idx)] = Only(File(idx))]

\* What an entry's action does to mounts and trees.
EntryStep ==
    /\ pc = "entries" /\ idx \in DOMAIN table /\ NextEntry
    /\ \E ms : EntryShape(ms) /\ ReadOnlyIfAsked(ms) /\ mnt' = mnt \o ms
    /\ \E u : /\ Made(u)
              /\ trees' = IF Entry.kind = "file" THEN WithStaged(u) ELSE u

\* The mounts of setup itself: the root, /dev, its nodes and what is in it.
LEMMA BaseMountsAre ==
    LET N == Len(DevNodes)
    IN  /\ N \in Nat /\ Len(BaseMounts) = N + 4 /\ DOMAIN BaseMounts = 1..(N + 4)
        /\ BaseMounts[1] = Mount(<<>>, <<"root">>, 0)
        /\ BaseMounts[2] = Mount(<<"dev">>, <<"dev">>, 0)
        /\ \A k \in 1..N : BaseMounts[k + 2] = Mount(DevPath(DevNodes[k]), <<"hostdev">>, 0)
        /\ BaseMounts[N + 3] = Mount(DevPath("shm"), <<"shm">>, 0)
        /\ BaseMounts[N + 4] = Mount(DevPath("pts"), <<"pts">>, 0)
<1> DEFINE N == Len(DevNodes)
           S == {Mount(p, f, 0) : p \in Names, f \in HostFs \cup SetupFs}
           root  == <<Mount(<<>>, <<"root">>, 0)>>
           first == <<Mount(<<"dev">>, <<"dev">>, 0)>>
           last  == <<Mount(DevPath("shm"), <<"shm">>, 0),
                      Mount(DevPath("pts"), <<"pts">>, 0)>>
<1>1. DevNodes \in Seq(Name) /\ N \in Nat /\ DOMAIN DevNodes = 1..N
  BY NamesAssumption
<1>2. \A n \in Name : DevPath(n) \in Names
  BY NamesAssumption DEF DevPath, Names
<1>3. <<>> \in Names /\ <<"dev">> \in Names /\ DevPath("shm") \in Names /\ DevPath("pts") \in Names
  BY <1>2, NamesAssumption DEF Names
<1>4. \A p \in Names, f \in HostFs \cup SetupFs : Mount(p, f, 0) \in S
  OBVIOUS
<1>5. {<<"root">>, <<"dev">>, <<"shm">>, <<"pts">>, <<"hostdev">>} \subseteq HostFs \cup SetupFs
  BY DEF HostFs, SetupFs
<1> HIDE DEF S
<1>6. /\ Mount(<<>>, <<"root">>, 0) \in S /\ Mount(<<"dev">>, <<"dev">>, 0) \in S
      /\ Mount(DevPath("shm"), <<"shm">>, 0) \in S /\ Mount(DevPath("pts"), <<"pts">>, 0) \in S
  BY <1>3, <1>4, <1>5
<1>7. /\ NodeMounts \in Seq(S) /\ Len(NodeMounts) = N
      /\ \A k \in 1..N : NodeMounts[k] = Mount(DevPath(DevNodes[k]), <<"hostdev">>, 0)
  <2>1. \A k \in 1..N : NodeMounts[k] = Mount(DevPath(DevNodes[k]), <<"hostdev">>, 0)
    BY <1>1 DEF NodeMounts
  <2>2. \A k \in 1..N : NodeMounts[k] \in S
    <3>1. \A k \in 1..N : DevPath(DevNodes[k]) \in Names
      BY <1>1, <1>2
    <3> HIDE DEF S
    <3> QED BY <1>4, <1>5, <2>1, <3>1
  <2>3. NodeMounts = [k \in 1..N |-> NodeMounts[k]]
    BY <1>1 DEF NodeMounts
  <2> HIDE DEF S
  <2> QED BY <1>1, <2>1, <2>2, <2>3
<1> HIDE DEF S
<1>8. /\ root \in Seq(S) /\ Len(root) = 1 /\ root[1] = Mount(<<>>, <<"root">>, 0)
      /\ first \in Seq(S) /\ Len(first) = 1 /\ first[1] = Mount(<<"dev">>, <<"dev">>, 0)
  BY <1>6
<1>9. /\ last \in Seq(S) /\ Len(last) = 2 /\ last[1] = Mount(DevPath("shm"), <<"shm">>, 0)
      /\ last[2] = Mount(DevPath("pts"), <<"pts">>, 0)
  BY <1>6
<1> DEFINE nodes == first \o NodeMounts
           dev   == nodes \o last
<1>10. BaseMounts = root \o dev
  BY DEF BaseMounts, DevMounts
<1> HIDE DEF root, first, last
<1>11. /\ nodes \in Seq(S) /\ Len(nodes) = N + 1 /\ nodes[1] = Mount(<<"dev">>, <<"dev">>, 0)
       /\ \A k \in 1..N : nodes[k + 1] = Mount(DevPath(DevNodes[k]), <<"hostdev">>, 0)
  <2>1. /\ nodes \in Seq(S) /\ Len(nodes) = 1 + N
        /\ \A i \in 1..(1 + N) : nodes[i] = IF i <= 1 THEN first[i] ELSE NodeMounts[i - 1]
    <3>1. /\ first \o NodeMounts \in Seq(S) /\ Len(first \o NodeMounts) = Len(first) + Len(NodeMounts)
          /\ \A i \in 1..(Len(first) + Len(NodeMounts)) : (first \o NodeMounts)[i] =
                 IF i <= Len(first) THEN first[i] ELSE NodeMounts[i - Len(first)]
      <4>1. first \in Seq(S) /\ NodeMounts \in Seq(S)
        BY <1>7, <1>8
      <4> QED BY <4>1, ConcatProperties
    <3> QED BY <1>7, <1>8, <3>1
  <2>2. \A k \in 1..N : k + 1 \in 1..(1 + N) /\ ~(k + 1 <= 1) /\ k + 1 - 1 = k
    BY <1>1
  <2>3. 1 \in 1..(1 + N)
    BY <1>1
  <2> QED BY <1>1, <1>7, <1>8, <2>1, <2>2, <2>3
<1> HIDE DEF nodes
<1>12. /\ dev \in Seq(S) /\ Len(dev) = N + 3 /\ \A k \in 1..(N + 1) : dev[k] = nodes[k]
       /\ dev[N + 2] = last[1] /\ dev[N + 3] = last[2]
  <2>1. /\ dev \in Seq(S) /\ Len(dev) = N + 1 + 2
        /\ \A i \in 1..(N + 1 + 2) : dev[i] = IF i <= N + 1 THEN nodes[i] ELSE last[i - (N + 1)]
    <3>1. /\ nodes \o last \in Seq(S) /\ Len(nodes \o last) = Len(nodes) + Len(last)
          /\ \A i \in 1..(Len(nodes) + Len(last)) : (nodes \o last)[i] =
                 IF i <= Len(nodes) THEN nodes[i] ELSE last[i - Len(nodes)]
      <4>1. nodes \in Seq(S) /\ last \in Seq(S)
        BY <1>9, <1>11
      <4> QED BY <4>1, ConcatProperties
    <3> QED BY <1>9, <1>11, <3>1
  <2>2. /\ N + 2 \in 1..(N + 1 + 2) /\ ~(N + 2 <= N + 1) /\ N + 2 - (N + 1) = 1
        /\ N + 3 \in 1..(N + 1 + 2) /\ ~(N + 3 <= N + 1) /\ N + 3 - (N + 1) = 2
    BY <1>1
  <2>3. dev[N + 2] = last[1] /\ dev[N + 3] = last[2]
    BY <2>1, <2>2
  <2>4. N + 1 + 2 = N + 3 /\ \A k \in 1..(N + 1) : k \in 1..(N + 1 + 2) /\ k <= N + 1
    BY <1>1
  <2>5. \A k \in 1..(N + 1) : dev[k] = nodes[k]
    BY <2>1, <2>4
  <2> HIDE DEF N, dev, last
  <2> QED BY <2>1, <2>3, <2>4, <2>5
<1> HIDE DEF dev
<1>13. /\ BaseMounts \in Seq(S) /\ Len(BaseMounts) = N + 4
       /\ BaseMounts[1] = root[1] /\ \A k \in 1..(N + 3) : BaseMounts[k + 1] = dev[k]
  <2>1. /\ BaseMounts \in Seq(S) /\ Len(BaseMounts) = 1 + (N + 3)
        /\ \A i \in 1..(1 + (N + 3)) : BaseMounts[i] = IF i <= 1 THEN root[i] ELSE dev[i - 1]
    <3>1. /\ root \o dev \in Seq(S) /\ Len(root \o dev) = Len(root) + Len(dev)
          /\ \A i \in 1..(Len(root) + Len(dev)) : (root \o dev)[i] =
                 IF i <= Len(root) THEN root[i] ELSE dev[i - Len(root)]
      <4>1. root \in Seq(S) /\ dev \in Seq(S)
        BY <1>8, <1>12
      <4> QED BY <4>1, ConcatProperties
    <3> QED BY <1>8, <1>10, <1>12, <3>1
  <2>2. \A k \in 1..(N + 3) : k + 1 \in 1..(1 + (N + 3)) /\ ~(k + 1 <= 1) /\ k + 1 - 1 = k
    BY <1>1
  <2>3. 1 \in 1..(1 + (N + 3))
    BY <1>1
  <2> QED BY <1>1, <2>1, <2>2, <2>3
<1>14. DOMAIN BaseMounts = 1..(N + 4)
  BY <1>13
<1>15. BaseMounts[2] = Mount(<<"dev">>, <<"dev">>, 0)
  <2>1. 1 \in 1..(N + 3) /\ 1 \in 1..(N + 1) /\ 1 + 1 = 2
    BY <1>1
  <2> QED BY <1>11, <1>12, <1>13, <2>1
<1>16. ASSUME NEW k \in 1..N
       PROVE  BaseMounts[k + 2] = Mount(DevPath(DevNodes[k]), <<"hostdev">>, 0)
  <2>1. k + 1 \in 1..(N + 3) /\ k + 1 \in 1..(N + 1) /\ k + 1 + 1 = k + 2
    BY <1>1
  <2> QED BY <1>11, <1>12, <1>13, <2>1
<1>17. /\ BaseMounts[N + 3] = Mount(DevPath("shm"), <<"shm">>, 0)
       /\ BaseMounts[N + 4] = Mount(DevPath("pts"), <<"pts">>, 0)
  <2>1. N + 2 \in 1..(N + 3) /\ N + 2 + 1 = N + 3 /\ N + 3 \in 1..(N + 3) /\ N + 3 + 1 = N + 4
    BY <1>1
  <2> QED BY <1>9, <1>12, <1>13, <2>1
<1> QED BY <1>1, <1>8, <1>13, <1>14, <1>15, <1>16, <1>17

\* They are for no entry, and get no shorter paths.
LEMMA BaseMountsShape ==
    ASSUME NEW k \in DOMAIN BaseMounts
    PROVE  /\ BaseMounts[k].by = 0 /\ ForSetup(BaseMounts[k])
           /\ BaseMounts[k].fs \in HostFs \cup SetupFs
           /\ BaseMounts[k].at \in Names
           /\ k = 1 => BaseMounts[k].at = <<>>
           /\ k = 2 => BaseMounts[k].at = <<"dev">>
           /\ k > 2 => \E n \in Name : BaseMounts[k].at = DevPath(n)
<1> DEFINE N == Len(DevNodes)
<1>1. PICK p \in Names, f \in SetupFs \cup {<<"hostdev">>} :
          /\ BaseMounts[k] = Mount(p, f, 0)
          /\ f = <<"root">> => p = <<>>
          /\ k = 1 => p = <<>>
          /\ k = 2 => p = <<"dev">>
          /\ k > 2 => \E n \in Name : p = DevPath(n)
  <2>1. k \in 1..(N + 4) /\ N \in Nat
    BY BaseMountsAre
  <2>2. {<<"root">>, <<"dev">>, <<"shm">>, <<"pts">>} \subseteq SetupFs
    BY DEF SetupFs
  <2>3. /\ {"dev", "shm", "pts"} \subseteq Name /\ \A i \in 1..N : DevNodes[i] \in Name
        /\ \A n \in Name : DevPath(n) \in Names
        /\ <<>> \in Names /\ <<"dev">> \in Names
    BY NamesAssumption DEF DevPath, Names
  <2>4. CASE k = 1
    BY <2>2, <2>3, <2>4, BaseMountsAre
  <2>5. CASE k = 2
    BY <2>2, <2>3, <2>5, BaseMountsAre
  <2>6. CASE k \in 3..(N + 2)
    <3>1. k - 2 \in 1..N /\ k - 2 + 2 = k
      BY <2>1, <2>6
    <3>2. BaseMounts[k] = Mount(DevPath(DevNodes[k - 2]), <<"hostdev">>, 0)
      BY <3>1, BaseMountsAre
    <3>3. k > 2 /\ k # 1 /\ k # 2
      BY <2>1, <2>6
    <3> QED BY <2>3, <3>1, <3>2, <3>3
  <2>7. CASE k = N + 3
    <3>1. k > 2 /\ k # 1 /\ k # 2
      BY <2>1, <2>7
    <3> QED BY <2>2, <2>3, <2>7, <3>1, BaseMountsAre
  <2>8. CASE k = N + 4
    <3>1. k > 2 /\ k # 1 /\ k # 2
      BY <2>1, <2>8
    <3> QED BY <2>2, <2>3, <2>8, <3>1, BaseMountsAre
  <2> QED BY <2>1, <2>4, <2>5, <2>6, <2>7, <2>8
<1>2. BaseMounts[k].by = 0 /\ BaseMounts[k].fs = f /\ BaseMounts[k].at = p
  BY <1>1 DEF Mount
<1>3. f \in HostFs \cup SetupFs
  BY DEF HostFs
<1> QED BY <1>1, <1>2, <1>3 DEF ForSetup

LEMMA StandingInEntries ==
    ASSUME IInv, BuildInv, pc = "entries"
    PROVE  Standing
<1>1. TypeOK /\ Len(mnt) \in Nat /\ DOMAIN mnt = 1..Len(mnt)
      /\ \A k \in DOMAIN mnt : mnt[k].at \in Names
  BY MountsTyped DEF IInv
<1>2. Len(BaseMounts) <= Len(mnt) /\ \A k \in 1..Len(BaseMounts) : mnt[k] = BaseMounts[k]
  BY DEF BuildInv, Layered, Building, BaseFirst, Top
<1>3. Len(BaseMounts) \in Nat \ {0} /\ BaseMounts[1] = Mount(<<>>, <<"root">>, 0)
  BY BaseMountsAre
<1>4. mnt[1].at = <<>>
  <2>1. mnt[1] = Mount(<<>>, <<"root">>, 0)
    BY <1>2, <1>3
  <2> QED BY <2>1 DEF Mount
<1>5. Len(mnt) \in Nat \ {0}
  BY <1>1, <1>2, <1>3
<1>6. Rooted(mnt)
  BY <1>1, <1>4, <1>5 DEF Rooted
<1> QED BY <1>1, <1>6 DEF BuildInv, TreesAsMeant, MountPointsThere, Standing

LEMMA MountPointMade ==
    ASSUME IInv, BuildInv, NEW kinds, Processing(kinds), NEW d \in BOOLEAN,
           MountPointOk(Entry.dst, d)
    PROVE  /\ Made(MountPoint(Entry.dst, d))
           /\ ~d => ~MoveMountOk(MountPoint(Entry.dst, d), Entry.dst, TRUE)
<1> DEFINE p == Entry.dst
           u == MountPoint(p, d)
<1>1. Standing /\ p \in Names
  BY EntryTyped, StandingInEntries
<1>2. Grown(trees, u) /\ OnlyGranted(u, p)
  BY <1>1, MountPointGrows, MountPointGranted
<1>3. CASE d
  <2>1. \A n \in 0..(Len(p) - 1) : ThereIn(mnt, MkdirTo(p, Len(p)), Prefix(p, n))
    <3>1. Len(p) \in 0..Len(p) /\ \A n \in 0..(Len(p) - 1) : n \in 0..Len(p)
      BY <1>1, NamesAreSeqs
    <3> QED BY <1>1, <3>1, MkdirMakes
  <2> QED BY <1>2, <1>3, <2>1 DEF Made, MountPoint
<1>4. CASE ~d
  <2>1. CreateFileOk(p) /\ u = CreateFile(p)
    BY <1>4 DEF MountPointOk, MountPoint
  <2>2. /\ \A n \in 0..(Len(p) - 1) : ThereIn(mnt, u, Prefix(p, n))
        /\ u[FsAt(p)][Inner(p)] # Dir
    BY <1>1, <2>1, FileIsMade
  <2> QED BY <1>2, <2>2 DEF Made, MoveMountOk
<1> QED BY <1>3, <1>4

LEMMA BindPathStep ==
    ASSUME IInv, BuildInv, BindPath
    PROVE  EntryStep /\ Entry.kind = "bind" /\ UNCHANGED <<count, staged>>
<1> DEFINE inode == HostInode(Entry.src)
           made  == MountPoint(Entry.dst, isDir[idx])
           tree  == CloneTree(inode, Entry.dst, idx, ~private)
<1>1. /\ Processing({"bind"}) /\ inode # <<>> /\ NextEntry
      /\ MountPointOk(Entry.dst, isDir[idx])
      /\ MoveMountOk(made, Entry.dst, inode = <<"hostdir">>)
      /\ trees' = made
      /\ mnt' = mnt \o IfReadOnly(tree)
      /\ UNCHANGED <<count, staged>>
  BY DEF BindPath, Attach
<1>2. /\ pc = "entries" /\ idx \in DOMAIN table /\ Entry.kind = "bind" /\ Entry = table[idx]
      /\ isDir[idx] \in BOOLEAN /\ TypeOK
  BY <1>1, EntryTyped DEF Processing, IInv, Entry
<1>3. Made(made) /\ (~isDir[idx] => ~MoveMountOk(made, Entry.dst, TRUE))
  BY <1>1, <1>2, MountPointMade
<1>4. inode \in {<<"hostdir">>, <<"hostfile">>}
  BY <1>1 DEF HostInode
<1>5. inode = EntryShows
  <2>1. isDir[idx] => inode = <<"hostdir">>
    BY <1>2, <1>4 DEF BuildInv, DirsStayDirs
  <2>2. ~isDir[idx] => inode # <<"hostdir">>
    BY <1>1, <1>3
  <2> QED BY <1>2, <1>4, <2>1, <2>2 DEF EntryShows, Binds
<1>6. EntryShape(tree)
  BY <1>1, <1>2, <1>5, CloneTreeShape DEF Binds
<1>7. EntryShape(IfReadOnly(tree)) /\ ReadOnlyIfAsked(IfReadOnly(tree))
  <2>1. tree \in Seq(MountType)
    BY <1>6 DEF EntryShape
  <2> HIDE DEF tree
  <2> QED BY <1>2, <1>6, <2>1, IfReadOnlyShape, ShapeKept
<1> HIDE DEF tree, made
<1> QED BY <1>1, <1>2, <1>3, <1>7 DEF EntryStep

LEMMA BindPreparedStep ==
    ASSUME IInv, BuildInv, BindPrepared
    PROVE  EntryStep /\ Entry.kind = "prepared" /\ UNCHANGED <<count, staged>>
<1> DEFINE inode == IF isDir[idx] THEN <<"hostdir">> ELSE <<"hostfile">>
           made  == MountPoint(Entry.dst, isDir[idx])
           tree  == CloneTree(inode, Entry.dst, idx, TRUE)
           given == IfReadOnly(MakePrivate(tree))
<1>1. /\ Processing({"prepared"}) /\ NextEntry
      /\ MountPointOk(Entry.dst, isDir[idx])
      /\ trees' = made
      /\ mnt' = mnt \o IfReadOnly(given)
      /\ UNCHANGED <<count, staged>>
  BY DEF BindPrepared
<1>2. /\ pc = "entries" /\ idx \in DOMAIN table /\ Entry.kind = "prepared"
      /\ isDir[idx] \in BOOLEAN /\ TypeOK
  BY <1>1, EntryTyped DEF Processing, IInv
<1>3. Made(made)
  BY <1>1, <1>2, MountPointMade
<1>4. EntryShape(tree)
  <2>1. inode = EntryShows
    BY <1>2 DEF EntryShows, Binds
  <2> QED BY <1>1, <1>2, <2>1, CloneTreeShape DEF Binds
<1> HIDE DEF tree, made
<1>5. EntryShape(given)
  <2>1. tree \in Seq(MountType)
    BY <1>4 DEF EntryShape
  <2>2. EntryShape(MakePrivate(tree))
    BY <1>4, <2>1, MakePrivateShape, ShapeKept
  <2>3. MakePrivate(tree) \in Seq(MountType)
    BY <2>2 DEF EntryShape
  <2> QED BY <1>2, <2>2, <2>3, IfReadOnlyShape, ShapeKept
<1> HIDE DEF given
<1>6. EntryShape(IfReadOnly(given)) /\ ReadOnlyIfAsked(IfReadOnly(given))
  <2>1. given \in Seq(MountType)
    BY <1>5 DEF EntryShape
  <2> QED BY <1>2, <1>5, <2>1, IfReadOnlyShape, ShapeKept
<1> QED BY <1>1, <1>2, <1>3, <1>6 DEF EntryStep

LEMMA NewFsStep ==
    ASSUME IInv, BuildInv, NewFs
    PROVE  /\ EntryStep /\ Entry.kind \in {"tmpfs", "proc", "mqueue"}
           /\ UNCHANGED <<count, staged>>
<1> DEFINE fresh == <<Mount(Entry.dst, EntryFs(idx), idx)>>
           ms == IF Entry.kind = "tmpfs" THEN IfReadOnly(fresh) ELSE fresh
           made == MountPoint(Entry.dst, TRUE)
<1>1. /\ Processing({"tmpfs", "proc", "mqueue"}) /\ NextEntry
      /\ MountPointOk(Entry.dst, TRUE)
      /\ trees' = made
      /\ mnt' = mnt \o ms
      /\ UNCHANGED <<count, staged>>
  BY DEF NewFs, Attach, MountPointOk, MountPoint
<1>2. /\ pc = "entries" /\ idx \in DOMAIN table /\ Entry.kind \in {"tmpfs", "proc", "mqueue"}
      /\ Entry.kind \notin Binds /\ TypeOK
  BY <1>1, EntryTyped DEF Processing, IInv, Binds
<1>3. Made(made)
  BY <1>1, MountPointMade
<1>4. EntryShape(fresh)
  BY <1>1, <1>2, OneMountShape
<1> HIDE DEF fresh, made
<1>5. EntryShape(ms) /\ ReadOnlyIfAsked(ms)
  <2>1. fresh \in Seq(MountType)
    BY <1>4 DEF EntryShape
  <2>2. EntryShape(IfReadOnly(fresh)) /\ ReadOnlyIfAsked(IfReadOnly(fresh))
    BY <1>2, <1>4, <2>1, IfReadOnlyShape, ShapeKept
  <2>3. Entry.kind # "tmpfs" => ReadOnlyIfAsked(fresh)
    BY <1>2 DEF ReadOnlyIfAsked
  <2> QED BY <1>4, <2>2, <2>3
<1> HIDE DEF ms
<1> QED BY <1>1, <1>2, <1>3, <1>5 DEF EntryStep

LEMMA InjectFileStep ==
    ASSUME IInv, BuildInv, InjectFile
    PROVE  EntryStep /\ Entry.kind = "file"
<1> DEFINE made == MountPoint(Entry.dst, FALSE)
           one  == <<Mount(Entry.dst, EntryFs(idx), idx)>>
<1>1. Inode(count) = EntryFs(idx)
  BY DEF IInv, TypeOK, Inode
<1>2. /\ Processing({"file"}) /\ NextEntry
      /\ MountPointOk(Entry.dst, FALSE)
      /\ trees' = WithStaged(made)
      /\ mnt' = mnt \o IfReadOnly(one)
  BY <1>1 DEF InjectFile, Attach, MountPointOk, MountPoint, WithContent, WithStaged
<1>3. /\ pc = "entries" /\ idx \in DOMAIN table /\ Entry.kind = "file"
      /\ Entry.kind \notin Binds /\ TypeOK
  BY <1>2, EntryTyped DEF Processing, IInv, Binds
<1>4. Made(made)
  BY <1>2, MountPointMade
<1>5. EntryShape(one)
  BY <1>2, <1>3, OneMountShape
<1> HIDE DEF one, made
<1>6. EntryShape(IfReadOnly(one)) /\ ReadOnlyIfAsked(IfReadOnly(one))
  <2>1. one \in Seq(MountType)
    BY <1>5 DEF EntryShape
  <2> QED BY <1>3, <1>5, <2>1, IfReadOnlyShape, ShapeKept
<1> QED BY <1>2, <1>3, <1>4, <1>6 DEF EntryStep

-----------------------------------------------------------------------------
(* An entry's step keeps every part of the invariant.                      *)

Appended(ms) ==
    /\ EntryShape(ms) /\ ReadOnlyIfAsked(ms)
    /\ Len(mnt') = Len(mnt) + Len(ms) /\ DOMAIN mnt' = 1..Len(mnt')
    /\ \A k \in DOMAIN mnt : k \in DOMAIN mnt' /\ mnt'[k] = mnt[k]
    /\ \A k \in 1..Len(ms) : Len(mnt) + k \in DOMAIN mnt' /\ mnt'[Len(mnt) + k] = ms[k]
    /\ \A k \in DOMAIN mnt' \ DOMAIN mnt :
           k - Len(mnt) \in 1..Len(ms) /\ mnt'[k] = ms[k - Len(mnt)]

LEMMA EntryAppends == ASSUME TypeOK, EntryStep PROVE \E ms : Appended(ms)
<1>1. PICK ms : EntryShape(ms) /\ ReadOnlyIfAsked(ms) /\ mnt' = mnt \o ms
  BY DEF EntryStep
<1>2. mnt \in Seq(MountType) /\ ms \in Seq(MountType)
  BY <1>1 DEF TypeOK, EntryShape
<1>3. /\ Len(mnt') = Len(mnt) + Len(ms) /\ DOMAIN mnt' = 1..Len(mnt')
      /\ Len(mnt) \in Nat /\ Len(ms) \in Nat /\ DOMAIN mnt = 1..Len(mnt)
      /\ \A k \in 1..(Len(mnt) + Len(ms)) : mnt'[k] =
             IF k <= Len(mnt) THEN mnt[k] ELSE ms[k - Len(mnt)]
  BY <1>1, <1>2, ConcatProperties, LenProperties
<1>4. \A k \in DOMAIN mnt : k \in DOMAIN mnt' /\ mnt'[k] = mnt[k]
  BY <1>3
<1>5. ASSUME NEW k \in 1..Len(ms)
      PROVE  Len(mnt) + k \in DOMAIN mnt' /\ mnt'[Len(mnt) + k] = ms[k]
  <2>1. Len(mnt) + k \in 1..(Len(mnt) + Len(ms)) /\ ~(Len(mnt) + k <= Len(mnt))
        /\ Len(mnt) + k - Len(mnt) = k
    BY <1>3
  <2> QED BY <1>3, <2>1
<1>6. ASSUME NEW k \in DOMAIN mnt' \ DOMAIN mnt
      PROVE  k - Len(mnt) \in 1..Len(ms) /\ mnt'[k] = ms[k - Len(mnt)]
  <2>1. k \in 1..(Len(mnt) + Len(ms)) /\ ~(k <= Len(mnt)) /\ k - Len(mnt) \in 1..Len(ms)
    BY <1>3
  <2> QED BY <1>3, <2>1
<1> QED BY <1>1, <1>3, <1>4, <1>5, <1>6 DEF Appended

\* What the lemmas below use of the step.
EntryNow ==
    /\ TypeOK /\ idx \in DOMAIN table /\ idx \in Nat \ {0} /\ idx' = idx + 1
    /\ table' = table /\ isDir' = isDir /\ renamed' = renamed
    /\ pc = "entries" /\ pc' = "entries" /\ AllFs' = AllFs
    /\ DOMAIN table = 1..Len(table) /\ Len(table) \in Nat
    /\ Entry = table[idx] /\ Entry.dst \in Names

LEMMA EntryFacts == ASSUME IInv, EntryStep PROVE EntryNow
<1>1. /\ TypeOK /\ pc = "entries" /\ idx \in DOMAIN table /\ idx' = idx + 1
      /\ table' = table /\ isDir' = isDir /\ renamed' = renamed /\ pc' = pc
  BY DEF IInv, EntryStep, NextEntry, config
<1>2. DOMAIN table = 1..Len(table) /\ Len(table) \in Nat /\ table \in Seq(EntryType)
  BY <1>1, TableType
<1>3. Entry = table[idx] /\ table[idx] \in EntryType
  BY <1>1, <1>2 DEF Entry
<1> QED BY <1>1, <1>2, <1>3 DEF EntryType, AllFs, EntryNow

LEMMA EntryMounts == ASSUME IInv, BuildInv, EntryStep PROVE MountsAsMeant'
<1>0. EntryNow
  BY EntryFacts
<1> USE <1>0 DEF EntryNow
<1>1. PICK ms : Appended(ms)
  BY EntryAppends
<1> DEFINE Meant(m) ==
      LET e == table[m.by]
      IN  /\ m.by < idx + 1
          /\ e.kind \in Binds /\ ~isDir[m.by] => m.at = e.dst /\ m.fs = <<"hostfile">>
          /\ e.kind \in Binds /\ isDir[m.by] =>
                 \/ m.at = e.dst /\ m.fs = <<"hostdir">>
                 \/ m.at = Append(e.dst, Vol) /\ m.fs = <<"vol">>
          /\ e.kind \notin Binds => m.at = e.dst /\ m.fs = EntryFs(m.by)
          /\ e.readOnly /\ e.kind \in Binds \cup {"tmpfs", "file"} => m.ro
<1>2. ASSUME NEW k \in DOMAIN mnt
      PROVE  IF mnt[k].by = 0 THEN ForSetup(mnt[k]) ELSE Meant(mnt[k])
  <2>1. CASE mnt[k].by # 0
    <3>1. ForEntry(mnt[k]) /\ mnt[k].by \in Int
      BY <2>1, MountsTyped DEF BuildInv, MountsAsMeant
    <3> QED BY <2>1, <3>1 DEF ForEntry
  <2> QED BY <2>1 DEF BuildInv, MountsAsMeant
<1>3. ASSUME NEW j \in 1..Len(ms)
      PROVE  ms[j].by # 0 /\ Meant(ms[j])
  <2>1. EntryShape(ms) /\ ReadOnlyIfAsked(ms)
    BY <1>1 DEF Appended
  <2>2. ms[j].by = idx /\ idx # 0 /\ idx < idx + 1
    BY <2>1 DEF EntryShape
  <2>3. j = 1 \/ (j = 2 /\ Len(ms) = 2 /\ Entry.kind \in Binds /\ isDir[idx])
    BY <2>1 DEF EntryShape
  <2>4. Entry.readOnly /\ Entry.kind \in Binds \cup {"tmpfs", "file"} => ms[j].ro
    BY <2>1 DEF ReadOnlyIfAsked
  <2>5. j = 1 => ms[j].at = Entry.dst /\ ms[j].fs = EntryShows
    BY <2>1 DEF EntryShape
  <2>6. j # 1 => ms[j].at = Append(Entry.dst, Vol) /\ ms[j].fs = <<"vol">>
    BY <2>1, <2>3 DEF EntryShape
  <2> QED BY <2>2, <2>3, <2>4, <2>5, <2>6 DEF EntryShows
<1>4. ASSUME NEW k \in DOMAIN mnt'
      PROVE  IF mnt'[k].by = 0 THEN ForSetup(mnt'[k]) ELSE Meant(mnt'[k])
  <2> HIDE DEF Meant
  <2>1. CASE k \in DOMAIN mnt
    <3>1. mnt'[k] = mnt[k]
      BY <1>1, <2>1 DEF Appended
    <3> QED BY <1>2, <2>1, <3>1
  <2>2. CASE k \notin DOMAIN mnt
    <3>1. PICK j \in 1..Len(ms) : mnt'[k] = ms[j]
      BY <1>1, <2>2 DEF Appended
    <3> QED BY <1>3, <3>1
  <2> QED BY <2>1, <2>2
<1> QED BY <1>4 DEF MountsAsMeant, ForSetup, ForEntry

\* No mount shows the inode of the entry before it is processed.
LEMMA NotShownYet ==
    ASSUME IInv, BuildInv, NEW k \in DOMAIN mnt
    PROVE  mnt[k].fs # EntryFs(idx)
<1>1. TypeOK /\ idx \in Nat /\ mnt[k].by \in Nat
  BY MountsTyped, TableType DEF IInv, TypeOK
<1>2. CASE mnt[k].by = 0
  <2>1. mnt[k].fs \in HostFs \cup SetupFs
    BY <1>2 DEF BuildInv, MountsAsMeant, ForSetup, HostFs
  <2> QED BY <1>1, <2>1, FsApart
<1>3. CASE mnt[k].by # 0
  <2>1. ForEntry(mnt[k])
    BY <1>3 DEF BuildInv, MountsAsMeant
  <2>2. mnt[k].by < idx
    BY <2>1 DEF ForEntry
  <2>3. mnt[k].fs \in HostFs \/ mnt[k].fs = EntryFs(mnt[k].by)
    BY <2>1 DEF ForEntry, HostFs
  <2> QED BY <1>1, <2>2, <2>3, FsApart
<1> QED BY <1>2, <1>3

LEMMA EntryTrees ==
    ASSUME IInv, BuildInv, EntryStep
    PROVE  TreesAsMeant' /\ MountPointsThere' /\ HostWritesAreGranted'
<1>0. EntryNow
  BY EntryFacts
<1> USE <1>0 DEF EntryNow
<1>1. PICK u : Made(u) /\ trees' = IF Entry.kind = "file" THEN WithStaged(u) ELSE u
  BY DEF EntryStep
<1>2. Grown(trees, u) /\ OnlyGranted(u, Entry.dst) /\ DOMAIN trees = AllFs /\ DOMAIN u = AllFs
  BY <1>1, MountsTyped DEF Made, Grown
<1>3. EntryFs(idx) \in AllFs /\ EntryFs(idx) \notin HostFs \cup SetupFs
  BY FsApart DEF AllFs
<1>4. /\ \A f \in AllFs : f # EntryFs(idx) => trees'[f] = u[f]
      /\ Entry.kind = "file" => trees'[EntryFs(idx)] = Only(File(idx))
      /\ Entry.kind # "file" => trees' = u
  BY <1>1, <1>2, <1>3 DEF WithStaged
<1>5. DOMAIN Only(File(idx)) = {<<>>} /\ Only(File(idx))[<<>>] = File(idx)
  BY DEF Only
<1>6. \A f \in AllFs : <<>> \in DOMAIN trees'[f]
  <2>1. \A f \in AllFs : <<>> \in DOMAIN u[f]
    BY <1>2 DEF BuildInv, TreesAsMeant, Grown
  <2> QED BY <1>4, <1>5, <2>1
<1>7. ASSUME NEW f \in {<<"hostfile">>, <<"hostdev">>}
      PROVE  DOMAIN trees'[f] = {<<>>} /\ trees'[f][<<>>] # Dir
  <2>1. f \in HostFs /\ f \in AllFs /\ DOMAIN trees[f] = {<<>>} /\ trees[f][<<>>] # Dir
    BY DEF BuildInv, TreesAsMeant, HostFs, AllFs
  <2>2. \A q : ~Granted(f, q, Entry.dst)
    BY <2>1 DEF Granted, Opens
  <2>3. DOMAIN u[f] = {<<>>} /\ u[f][<<>>] = trees[f][<<>>]
    BY <1>2, <2>1, <2>2 DEF OnlyGranted, Grown
  <2>4. trees'[f] = u[f]
    BY <1>3, <1>4, <2>1
  <2> QED BY <2>1, <2>3, <2>4
<1>8. ASSUME NEW i \in 1..idx, table[i].kind = "file"
      PROVE  trees'[EntryFs(i)][<<>>] = File(i)
  <2>1. CASE i = idx
    BY <1>4, <1>5, <1>8, <2>1
  <2>2. CASE i # idx
    <3>1. i \in 1..(idx - 1) /\ i \in Nat /\ i \in DOMAIN table
      BY <2>2
    <3>2. trees[EntryFs(i)][<<>>] = File(i) /\ EntryFs(i) \in AllFs
      BY <1>8, <3>1 DEF BuildInv, TreesAsMeant, AllFs
    <3>3. EntryFs(i) # EntryFs(idx)
      BY <2>2, <3>1, FsApart
    <3>4. <<>> \in DOMAIN trees[EntryFs(i)]
      BY <3>2 DEF BuildInv, TreesAsMeant
    <3>5. u[EntryFs(i)][<<>>] = trees[EntryFs(i)][<<>>]
      BY <1>2, <3>2, <3>4 DEF Grown
    <3> QED BY <1>4, <3>2, <3>3, <3>5
  <2> QED BY <2>1, <2>2
<1>9. TreesAsMeant'
  <2>1. idx' - 1 = idx
    OBVIOUS
  <2> QED BY <1>6, <1>7, <1>8, <2>1 DEF TreesAsMeant
<1>10. WellPlaced(mnt', trees')
  <2> DEFINE p == Entry.dst
  <2>1. Standing
    BY StandingInEntries
  <2>2. PICK ms : Appended(ms)
    BY EntryAppends
  <2>3. /\ DOMAIN mnt = 1..Len(mnt) /\ Len(mnt) \in Nat \ {0} /\ Len(ms) \in {1, 2}
        /\ Len(mnt') = Len(mnt) + Len(ms) /\ DOMAIN mnt' = 1..Len(mnt')
    <3>1. Len(mnt') = Len(mnt) + Len(ms) /\ DOMAIN mnt' = 1..Len(mnt')
      BY <2>2 DEF Appended
    <3>2. Len(ms) \in {1, 2}
      BY <2>2 DEF Appended, EntryShape
    <3> QED BY <2>1, <3>1, <3>2 DEF Standing, Rooted
  <2>4. \A k \in DOMAIN mnt : mnt'[k] = mnt[k]
    BY <2>2 DEF Appended
  <2>5. ms[1].at = p /\ (Len(ms) = 2 => ms[2].at = Append(p, Vol))
    BY <2>2 DEF Appended, EntryShape
  <2>6. \A k \in DOMAIN mnt' \ DOMAIN mnt : mnt'[k].at \in {p, Append(p, Vol)}
    <3> SUFFICES ASSUME NEW k \in DOMAIN mnt' \ DOMAIN mnt
                 PROVE  mnt'[k].at \in {p, Append(p, Vol)}
      OBVIOUS
    <3>1. PICK j \in 1..Len(ms) : mnt'[k] = ms[j]
      BY <2>2 DEF Appended
    <3>2. j = 1 \/ (j = 2 /\ Len(ms) = 2)
      BY <2>2, ShapeLength DEF Appended
    <3> QED BY <2>5, <3>1, <3>2
  <2>7. mnt'[Len(mnt) + 1].at = p
    <3>1. 1 \in 1..Len(ms)
      BY <2>2, ShapeLength DEF Appended
    <3>2. mnt'[Len(mnt) + 1] = ms[1]
      BY <2>2, <3>1 DEF Appended
    <3> QED BY <2>5, <3>2
  <2>8. AddedAt(mnt, mnt', p)
    <3>1. Len(ms) \in Nat /\ 1 \in 1..Len(ms)
      BY <2>2, ShapeLength DEF Appended
    <3>2. Len(mnt) < Len(mnt')
      BY <2>3, <3>1
    <3> QED BY <2>4, <2>6, <2>7, <3>2 DEF AddedAt
  <2>9. Rooted(mnt')
    <3>1. \A k \in DOMAIN mnt' : mnt'[k].at \in Names
      BY <2>1, <2>4, <2>6, VolumeIs DEF Standing, Rooted
    <3>2. mnt'[1].at = <<>>
      BY <2>1, <2>3, <2>4 DEF Standing, Rooted
    <3>3. Len(mnt') \in Nat \ {0}
      BY <2>3
    <3> QED BY <2>3, <3>1, <3>2, <3>3 DEF Rooted
  <2>10. ASSUME NEW k \in DOMAIN mnt
         PROVE  /\ DOMAIN trees[mnt[k].fs] \subseteq DOMAIN trees'[mnt[k].fs]
                /\ trees'[mnt[k].fs] = u[mnt[k].fs]
    <3>1. mnt[k].fs \in AllFs /\ mnt[k].fs # EntryFs(idx)
      BY MountsTyped, NotShownYet
    <3> QED BY <1>2, <1>4, <3>1 DEF Grown
  <2>11. ASSUME NEW k \in DOMAIN mnt' PROVE <<>> \in DOMAIN trees'[mnt'[k].fs]
    <3>1. mnt'[k].fs \in AllFs
      <4>1. CASE k \in DOMAIN mnt
        BY <2>4, <4>1, MountsTyped
      <4>2. CASE k \notin DOMAIN mnt
        <5>1. PICK j \in 1..Len(ms) : mnt'[k] = ms[j]
          BY <2>2, <4>2 DEF Appended
        <5>2. ms[j] \in MountType
          BY <2>2, <5>1 DEF Appended, EntryShape
        <5> QED BY <5>1, <5>2 DEF MountType
      <4> QED BY <4>1, <4>2
    <3> QED BY <1>6, <3>1
  <2>12. ASSUME NEW n \in 0..(Len(p) - 1) PROVE ThereIn(mnt, trees', Prefix(p, n))
    <3>1. ThereIn(mnt, u, Prefix(p, n))
      BY <1>1 DEF Made
    <3>2. Prefix(p, n) \in Names
      <4>1. n \in 0..Len(p)
        BY NamesAreSeqs
      <4> QED BY <4>1, PrefixType
    <3>3. VisibleIn(mnt, Prefix(p, n)) \in DOMAIN mnt
      BY <2>1, <3>2, VisibleIs DEF Standing
    <3> QED BY <2>10, <3>1, <3>3 DEF ThereIn
  <2> QED BY <2>1, <2>8, <2>9, <2>10, <2>11, <2>12, AddedIsPlaced DEF Standing
<1>11. HostWritesAreGranted'
  <2>1. ASSUME NEW f \in OfTheHost, NEW q \in DOMAIN trees'[f], q \notin DOMAIN trees[f]
        PROVE  MayMake(idx, f, q)
    <3>1. f \in HostFs \cup SetupFs /\ f \in AllFs
      BY DEF OfTheHost, HostFs, SetupFs, AllFs
    <3>2. trees'[f] = u[f]
      BY <1>3, <1>4, <3>1
    <3>3. Granted(f, q, Entry.dst)
      BY <1>2, <2>1, <3>1, <3>2 DEF OnlyGranted
    <3> QED BY <3>3, GrantedMayMake
  <2>2. HostWritesAreGranted /\ UNCHANGED <<table, isDir>> /\ idx' \in {idx, idx + 1}
    BY DEF BuildInv
  <2> QED BY <2>1, <2>2, WritesGranted
<1> QED BY <1>9, <1>10, <1>11 DEF MountPointsThere

LEMMA EntryLayers == ASSUME IInv, BuildInv, EntryStep PROVE Layered'
<1>0. EntryNow
  BY EntryFacts
<1> USE <1>0 DEF EntryNow
<1>1. PICK ms : Appended(ms)
  BY EntryAppends
<1>2. /\ Len(mnt) \in Nat /\ DOMAIN mnt = 1..Len(mnt) /\ Len(ms) \in {1, 2}
      /\ Len(mnt') = Len(mnt) + Len(ms) /\ DOMAIN mnt' = 1..Len(mnt')
      /\ \A k \in 1..Len(mnt) : mnt'[k] = mnt[k]
      /\ mnt'[Len(mnt) + 1] = ms[1] /\ (Len(ms) = 2 => mnt'[Len(mnt) + 2] = ms[2])
  <2>1. Len(ms) \in {1, 2} /\ 1 \in 1..Len(ms) /\ (Len(ms) = 2 => 2 \in 1..Len(ms))
    BY <1>1 DEF Appended, EntryShape
  <2> QED BY <1>1, <2>1, MountsTyped DEF Appended
<1>3. /\ ms[1].by = idx /\ ms[1].at = Entry.dst
      /\ Len(ms) = 2 => ms[2].by = idx /\ ms[2].at = Append(Entry.dst, Vol)
      /\ Entry.kind \in Binds /\ isDir[idx] => Len(ms) = 2
  BY <1>1, <1>2 DEF Appended, EntryShape
<1>4. Top = Len(mnt) /\ Top' = Len(mnt')
  BY DEF Top
<1>5. BaseFirst /\ InOrder /\ AllPresent
  BY DEF BuildInv, Layered, Building
<1>ord. \A j, k \in 1..Len(mnt) : j < k /\ mnt[k].by # 0 =>
            \/ mnt[j].by < mnt[k].by
            \/ /\ mnt[j].by = mnt[k].by
               /\ mnt[j].at = table[mnt[k].by].dst
               /\ mnt[k].at = Append(table[mnt[k].by].dst, Vol)
  BY <1>4, <1>5 DEF InOrder
<1>all. \A i \in 1..(idx - 1) :
            /\ \E k \in 1..Len(mnt) : mnt[k].by = i /\ mnt[k].at = table[i].dst
            /\ table[i].kind \in Binds /\ isDir[i] =>
                   \E k \in 1..Len(mnt) : /\ mnt[k].by = i
                                          /\ mnt[k].at = Append(table[i].dst, Vol)
  BY <1>4, <1>5 DEF AllPresent
<1>6. \A k \in 1..Len(mnt) : mnt[k].by \in Nat /\ mnt[k].by < idx
  <2> SUFFICES ASSUME NEW k \in 1..Len(mnt) PROVE mnt[k].by \in Nat /\ mnt[k].by < idx
    OBVIOUS
  <2>1. mnt[k].by \in Nat
    BY <1>2, MountsTyped
  <2>2. mnt[k].by # 0 => ForEntry(mnt[k])
    BY <1>2 DEF BuildInv, MountsAsMeant
  <2> QED BY <2>1, <2>2 DEF ForEntry
<1>7. ASSUME NEW k \in 1..Len(mnt')
      PROVE  \/ k \in 1..Len(mnt)
             \/ k = Len(mnt) + 1 /\ mnt'[k] = ms[1]
             \/ k = Len(mnt) + 2 /\ Len(ms) = 2 /\ mnt'[k] = ms[2]
  <2>1. SUFFICES ASSUME k \notin 1..Len(mnt)
                 PROVE  \/ k = Len(mnt) + 1 /\ mnt'[k] = ms[1]
                        \/ k = Len(mnt) + 2 /\ Len(ms) = 2 /\ mnt'[k] = ms[2]
    OBVIOUS
  <2>2. k - Len(mnt) \in 1..Len(ms) /\ mnt'[k] = ms[k - Len(mnt)]
    BY <1>1, <1>2, <2>1 DEF Appended
  <2>3. k - Len(mnt) = 1 \/ (k - Len(mnt) = 2 /\ Len(ms) = 2)
    BY <1>1, <2>2, ShapeLength DEF Appended
  <2> QED BY <1>2, <2>2, <2>3
<1>8. BaseFirst'
  <2>1. Len(BaseMounts) <= Len(mnt')
    BY <1>2, <1>4, <1>5 DEF BaseFirst
  <2>2. \A k \in 1..Len(BaseMounts) : mnt'[k] = BaseMounts[k]
    BY <1>2, <1>4, <1>5 DEF BaseFirst
  <2>3. \A k \in 1..Len(mnt') : k > Len(BaseMounts) => mnt'[k].by # 0
    BY <1>2, <1>3, <1>4, <1>5, <1>7 DEF BaseFirst
  <2>4. BaseMounts' = BaseMounts
    BY DEF BaseMounts, DevMounts, NodeMounts, DevPath, Mount
  <2> QED BY <1>4, <2>1, <2>2, <2>3, <2>4 DEF BaseFirst
<1>9. InOrder'
  <2>1. ASSUME NEW j \in 1..Len(mnt'), NEW k \in 1..Len(mnt'), j < k, mnt'[k].by # 0
        PROVE  \/ mnt'[j].by < mnt'[k].by
               \/ /\ mnt'[j].by = mnt'[k].by
                  /\ mnt'[j].at = table[mnt'[k].by].dst
                  /\ mnt'[k].at = Append(table[mnt'[k].by].dst, Vol)
    <3>1. CASE k \in 1..Len(mnt)
      <4>1. j \in 1..Len(mnt) /\ mnt'[j] = mnt[j] /\ mnt'[k] = mnt[k]
        BY <1>2, <2>1, <3>1
      <4> QED BY <1>ord, <2>1, <3>1, <4>1
    <3>2. CASE k \notin 1..Len(mnt)
      <4>1. mnt'[k].by = idx
        BY <1>3, <1>7, <3>2
      <4>2. CASE j \in 1..Len(mnt)
        BY <1>2, <1>6, <4>1, <4>2
      <4>3. CASE j \notin 1..Len(mnt)
        <5>1. j = Len(mnt) + 1 /\ mnt'[j] = ms[1]
              /\ k = Len(mnt) + 2 /\ Len(ms) = 2 /\ mnt'[k] = ms[2]
          BY <1>2, <1>7, <2>1, <3>2, <4>3
        <5> QED BY <1>3, <5>1
      <4> QED BY <4>2, <4>3
    <3> QED BY <3>1, <3>2
  <2> QED BY <1>4, <2>1 DEF InOrder
<1>10. AllPresent'
  <2>1. ASSUME NEW i \in 1..idx
        PROVE  /\ \E k \in 1..Len(mnt') : mnt'[k].by = i /\ mnt'[k].at = table[i].dst
               /\ table[i].kind \in Binds /\ isDir[i] =>
                      \E k \in 1..Len(mnt') : /\ mnt'[k].by = i
                                              /\ mnt'[k].at = Append(table[i].dst, Vol)
    <3>1. CASE i = idx
      <4> DEFINE one == Len(mnt) + 1
                 two == Len(mnt) + 2
      <4>1. one \in 1..Len(mnt') /\ (Len(ms) = 2 => two \in 1..Len(mnt'))
        BY <1>2
      <4>2. mnt'[one] = ms[1] /\ (Len(ms) = 2 => mnt'[two] = ms[2])
        BY <1>2
      <4> HIDE DEF one, two
      <4>3. mnt'[one].by = i /\ mnt'[one].at = table[i].dst
        BY <1>3, <3>1, <4>2
      <4>4. ASSUME table[i].kind \in Binds, isDir[i]
            PROVE  /\ two \in 1..Len(mnt') /\ mnt'[two].by = i
                   /\ mnt'[two].at = Append(table[i].dst, Vol)
        <5>1. Len(ms) = 2
          BY <1>3, <3>1, <4>4 DEF Entry
        <5> QED BY <1>3, <3>1, <4>1, <4>2, <5>1
      <4> QED BY <4>1, <4>3, <4>4
    <3>2. CASE i # idx
      <4>1. i \in 1..(idx - 1)
        BY <3>2
      <4>2. \A k \in 1..Len(mnt) : k \in 1..Len(mnt') /\ mnt'[k] = mnt[k]
        BY <1>2
      <4>3. PICK k \in 1..Len(mnt) : mnt[k].by = i /\ mnt[k].at = table[i].dst
        BY <1>all, <4>1
      <4>4. ASSUME table[i].kind \in Binds, isDir[i]
            PROVE  \E m \in 1..Len(mnt) : /\ mnt[m].by = i
                                          /\ mnt[m].at = Append(table[i].dst, Vol)
        BY <1>all, <4>1, <4>4
      <4> QED BY <4>2, <4>3, <4>4
    <3> QED BY <3>1, <3>2
  <2>2. idx' - 1 = idx
    OBVIOUS
  <2> QED BY <1>4, <2>1, <2>2 DEF AllPresent
<1> QED BY <1>8, <1>9, <1>10 DEF Layered

LEMMA EntryInv ==
    ASSUME IInv, BuildInv, BindPath \/ BindPrepared \/ NewFs \/ InjectFile
    PROVE  BuildInv'
<1>1. EntryStep
  BY BindPathStep, BindPreparedStep, NewFsStep, InjectFileStep
<1>2. DirsStayDirs'
  BY <1>1, EntryFacts DEF EntryNow, BuildInv, DirsStayDirs, HostInode
<1>3. AllProcessed'
  BY <1>1, EntryFacts DEF EntryNow, AllProcessed
<1> QED BY <1>1, <1>2, <1>3, EntryMounts, EntryTrees, EntryLayers DEF BuildInv

-----------------------------------------------------------------------------
(* The other steps.                                                        *)

LEMMA BuildInit == Init => BuildInv
<1> SUFFICES ASSUME Init PROVE BuildInv
  OBVIOUS
<1>1. /\ mnt = <<>> /\ pc = "plan" /\ idx = 1 /\ \A i \in DOMAIN table : isDir[i] = FALSE
      /\ trees = [f \in AllFs |->
            IF f \in {<<"hostfile">>, <<"hostdev">>} THEN Only(File(0))
            ELSE [q \in Original(f) |-> Dir]]
  BY DEF Init
<1>2. /\ DOMAIN Only(File(0)) = {<<>>} /\ Only(File(0))[<<>>] # Dir
      /\ \A f : <<>> \in Original(f)
  BY DEF Only, File, Dir, Original
<1>3. \A f \in AllFs : <<>> \in DOMAIN trees[f] /\ DOMAIN trees[f] \subseteq Original(f)
  BY <1>1, <1>2
<1>4. OfTheHost \subseteq AllFs
  BY DEF AllFs, OfTheHost, HostFs, SetupFs
<1>5. \A f \in {<<"hostfile">>, <<"hostdev">>} :
          DOMAIN trees[f] = {<<>>} /\ trees[f][<<>>] # Dir
  <2>1. \A f \in {<<"hostfile">>, <<"hostdev">>} : f \in AllFs
    BY DEF AllFs, HostFs
  <2> QED BY <1>1, <1>2, <2>1
<1>6. TreesAsMeant
  <2>1. 1..(idx - 1) = {}
    BY <1>1
  <2> QED BY <1>3, <1>5, <2>1 DEF TreesAsMeant
<1>7. HostWritesAreGranted
  BY <1>3, <1>4 DEF HostWritesAreGranted, MadeThere
<1>8. MountsAsMeant
  BY <1>1 DEF MountsAsMeant
<1>9. Layered /\ DirsStayDirs /\ MountPointsThere /\ AllProcessed
  BY <1>1 DEF Layered, Building, DirsStayDirs, MountPointsThere, AllProcessed
<1> QED BY <1>6, <1>7, <1>8, <1>9 DEF BuildInv

\* No name comes to stand for the file that did not before.
LEMMA DirsStay ==
    ASSUME BuildInv, UNCHANGED <<table, isDir>>, renamed' \in {renamed, TRUE},
           pc' = "plan" => pc = "plan"
    PROVE  DirsStayDirs'
<1>1. \A s : HostInode(s) = <<"hostfile">> <=> s = "g" /\ ~renamed
  BY FsApart DEF HostInode
<1>2. \A s : HostInode(s)' = <<"hostfile">> <=> s = "g" /\ ~renamed'
  BY FsApart DEF HostInode
<1>3. ASSUME NEW i \in DOMAIN table, table[i].kind = "bind", isDir[i]
      PROVE  HostInode(table[i].src)' # <<"hostfile">>
  <2>1. HostInode(table[i].src) # <<"hostfile">>
    BY <1>3 DEF BuildInv, DirsStayDirs
  <2>2. ~(table[i].src = "g" /\ ~renamed)
    BY <1>1, <2>1
  <2>3. ~(table[i].src = "g" /\ ~renamed')
    <3>1. CASE renamed' = renamed
      BY <2>2, <3>1
    <3>2. CASE renamed' = TRUE
      BY <3>2
    <3> QED BY <3>1, <3>2
  <2> QED BY <1>2, <2>3
<1>4. pc' = "plan" => \A i \in DOMAIN table : ~isDir[i]
  BY DEF BuildInv, DirsStayDirs
<1> QED BY <1>3, <1>4 DEF DirsStayDirs

\* What does not depend on the mounts, if table, idx and isDir are kept.
LEMMA SameTable ==
    ASSUME IInv, BuildInv, UNCHANGED <<table, isDir, idx>>
    PROVE  /\ trees' = trees => TreesAsMeant' /\ HostWritesAreGranted'
           /\ mnt' = mnt => MountsAsMeant'
<1>1. AllFs' = AllFs
  BY DEF AllFs
<1>2. trees' = trees => TreesAsMeant' /\ HostWritesAreGranted'
  <2> SUFFICES ASSUME trees' = trees PROVE TreesAsMeant' /\ HostWritesAreGranted'
    OBVIOUS
  <2>1. TreesAsMeant'
    BY <1>1 DEF BuildInv, TreesAsMeant
  <2>2. HostWritesAreGranted /\ idx \in Nat \ {0}
    BY DEF BuildInv, IInv, TypeOK
  <2> QED BY <2>1, <2>2, WritesGranted
<1>3. mnt' = mnt => MountsAsMeant'
  BY DEF BuildInv, MountsAsMeant, ForSetup, ForEntry
<1> QED BY <1>2, <1>3

\* The filesystems of setup grow, inside the new root.
GrownInside ==
    /\ \A f \in AllFs \ SetupFs : trees'[f] = trees[f]
    /\ \A q \in DOMAIN trees'[<<"root">>] \ DOMAIN trees[<<"root">>] : ~Outside(q)

\* The trees may grow where that is granted, and inside the new root.
LEMMA TreesGrown ==
    ASSUME IInv, BuildInv, UNCHANGED <<table, isDir, idx>>, Grown(trees, trees'),
           (idx \in DOMAIN table /\ OnlyGranted(trees', Entry.dst)) \/ GrownInside
    PROVE  TreesAsMeant' /\ HostWritesAreGranted'
<1>1. AllFs' = AllFs /\ DOMAIN trees = AllFs
  BY DEF AllFs, IInv, TypeOK
<1>2. /\ \A f \in HostFs : f \in AllFs \ SetupFs
      /\ \A f \in OfTheHost : f \in AllFs /\ (f = <<"root">> \/ f \in HostFs)
  BY FsApart DEF OfTheHost, AllFs, SetupFs
<1>3. \A f \in AllFs : <<>> \in DOMAIN trees'[f]
  BY <1>1 DEF BuildInv, TreesAsMeant, Grown
<1>4. ASSUME NEW f \in {<<"hostfile">>, <<"hostdev">>}
      PROVE  DOMAIN trees'[f] = {<<>>} /\ trees'[f][<<>>] # Dir
  <2>1. f \in HostFs /\ f \in AllFs /\ DOMAIN trees[f] = {<<>>} /\ trees[f][<<>>] # Dir
    BY DEF BuildInv, TreesAsMeant, HostFs, AllFs
  <2>2. \A q : ~Granted(f, q, Entry.dst)
    BY <2>1 DEF Granted, Opens
  <2>3. DOMAIN trees'[f] \subseteq DOMAIN trees[f]
    BY <1>2, <2>1, <2>2 DEF OnlyGranted, GrownInside
  <2> QED BY <1>1, <2>1, <2>3 DEF Grown
<1>5. ASSUME NEW i \in 1..(idx - 1), table[i].kind = "file"
      PROVE  trees'[EntryFs(i)][<<>>] = File(i)
  <2>1. i \in DOMAIN table
    BY TableType DEF IInv, TypeOK
  <2>2. EntryFs(i) \in AllFs
    BY <2>1 DEF AllFs
  <2>3. trees[EntryFs(i)][<<>>] = File(i) /\ <<>> \in DOMAIN trees[EntryFs(i)]
    BY <1>5, <2>2 DEF BuildInv, TreesAsMeant
  <2> QED BY <1>1, <2>2, <2>3 DEF Grown
<1>6. TreesAsMeant'
  BY <1>1, <1>3, <1>4, <1>5 DEF TreesAsMeant
<1>7. HostWritesAreGranted'
  <2>1. ASSUME NEW f \in OfTheHost, NEW q \in DOMAIN trees'[f], q \notin DOMAIN trees[f]
        PROVE  (f = <<"root">> /\ ~Outside(q)) \/ (idx \in DOMAIN table /\ MayMake(idx, f, q))
    <3>1. CASE idx \in DOMAIN table /\ OnlyGranted(trees', Entry.dst)
      <4>1. Granted(f, q, Entry.dst)
        BY <1>2, <2>1, <3>1 DEF OnlyGranted
      <4> QED BY <3>1, <4>1, GrantedMayMake
    <3>2. CASE GrownInside
      BY <1>2, <2>1, <3>2 DEF GrownInside
    <3> QED BY <3>1, <3>2
  <2>2. HostWritesAreGranted /\ idx \in Nat \ {0}
    BY DEF BuildInv, IInv, TypeOK
  <2> QED BY <2>1, <2>2, WritesGranted
<1> QED BY <1>6, <1>7

LEMMA PlanInv == ASSUME IInv, BuildInv, Plan PROVE BuildInv'
<1>1. /\ pc = "plan" /\ pc' \in {"root", "failed"}
      /\ UNCHANGED <<table, renamed, idx, trees, mnt, staged>>
  BY DEF Plan
<1>2. mnt = <<>> /\ mnt' = <<>>
  BY <1>1 DEF IInv, NothingShared
<1>3. \A i \in DOMAIN table : ~isDir[i]
  BY <1>1 DEF BuildInv, DirsStayDirs
<1>4. MountsAsMeant'
  BY <1>2 DEF MountsAsMeant
<1>5. TreesAsMeant'
  BY <1>1 DEF BuildInv, TreesAsMeant, AllFs
<1>6. DirsStayDirs'
  <2>1. HostInode(table[1].src)' = HostInode(table[1].src)
    BY <1>1 DEF HostInode
  <2>2. \A i \in DOMAIN table :
            isDir'[i] => isDir[i] \/ HostInode(table[i].src) = <<"hostdir">>
    BY DEF Plan
  <2>3. \A i \in DOMAIN table : isDir'[i] => HostInode(table[i].src) # <<"hostfile">>
    BY <1>3, <2>2, FsApart
  <2> QED BY <1>1, <2>3 DEF DirsStayDirs, HostInode
<1>7. HostWritesAreGranted'
  <2>1. DOMAIN table = 1..Len(table) /\ Len(table) \in Nat
    BY TableType DEF IInv, TypeOK
  <2>2. ASSUME NEW j \in DOMAIN table, NEW f, NEW q, MayMake(j, f, q)
        PROVE  MayMake(j, f, q)'
    <3>1. \A i \in 1..(j - 1) : i \in DOMAIN table
      BY <2>1
    <3>2. f = <<"root">> /\ OnTheWay(<<>>, q, table[j].dst)
      BY <1>3, <2>2, <3>1 DEF MayMake, LetsWrite
    <3> QED BY <1>1, <3>2 DEF MayMake
  <2>3. \A f : MadeThere(f)' = MadeThere(f)
    BY <1>1 DEF MadeThere, Original
  <2> QED BY <1>1, <2>2, <2>3 DEF BuildInv, HostWritesAreGranted, OfTheHost, HostFs
<1>8. Layered' /\ MountPointsThere' /\ AllProcessed'
  BY <1>1 DEF BuildInv, Layered, Building, MountPointsThere, AllProcessed
<1> QED BY <1>4, <1>5, <1>6, <1>7, <1>8 DEF BuildInv

\* Steps after which every path that is kept leads to what it led to.
LEMMA LayersKept ==
    ASSUME IInv, BuildInv, pc \in Building, pc' \in Building,
           UNCHANGED <<table, isDir, idx>>, Top' = Top,
           \A k \in 1..Top : mnt'[k] = mnt[k]
    PROVE  Layered'
<1>1. Top \in Int
  BY MountsTyped DEF IInv, Top
<1>2. BaseFirst'
  <2>1. Len(BaseMounts) <= Top /\ Len(BaseMounts) \in Nat
        /\ (\A k \in 1..Len(BaseMounts) : mnt[k] = BaseMounts[k])
        /\ (\A k \in 1..Top : k > Len(BaseMounts) => mnt[k].by # 0)
    BY BaseMountsAre DEF BuildInv, Layered, BaseFirst
  <2>2. \A k \in 1..Len(BaseMounts) : k \in 1..Top
    BY <1>1, <2>1
  <2>3. \A k \in 1..Len(BaseMounts) : mnt'[k] = BaseMounts[k]
    BY <2>1, <2>2
  <2>4. \A k \in 1..Top : k > Len(BaseMounts) => mnt'[k].by # 0
    BY <2>1
  <2>5. BaseMounts' = BaseMounts
    BY DEF BaseMounts, DevMounts, NodeMounts, DevPath, Mount
  <2> QED BY <2>1, <2>3, <2>4, <2>5 DEF BaseFirst
<1>3. InOrder'
  <2>1. ASSUME NEW j \in 1..Top, NEW k \in 1..Top, j < k, mnt'[k].by # 0
        PROVE  \/ mnt'[j].by < mnt'[k].by
               \/ /\ mnt'[j].by = mnt'[k].by
                  /\ mnt'[j].at = table[mnt'[k].by].dst
                  /\ mnt'[k].at = Append(table[mnt'[k].by].dst, Vol)
    <3>1. mnt'[j] = mnt[j] /\ mnt'[k] = mnt[k]
      OBVIOUS
    <3> QED BY <2>1, <3>1 DEF BuildInv, Layered, InOrder
  <2> QED BY <2>1 DEF InOrder
<1>4. AllPresent'
  <2>1. ASSUME NEW i \in 1..(idx - 1)
        PROVE  /\ \E k \in 1..Top : mnt'[k].by = i /\ mnt'[k].at = table[i].dst
               /\ table[i].kind \in Binds /\ isDir[i] =>
                      \E k \in 1..Top : /\ mnt'[k].by = i
                                        /\ mnt'[k].at = Append(table[i].dst, Vol)
    <3>1. /\ \E k \in 1..Top : mnt[k].by = i /\ mnt[k].at = table[i].dst
          /\ table[i].kind \in Binds /\ isDir[i] =>
                 \E k \in 1..Top : mnt[k].by = i /\ mnt[k].at = Append(table[i].dst, Vol)
      BY DEF BuildInv, Layered, AllPresent
    <3> QED BY <3>1
  <2> QED BY <2>1 DEF AllPresent
<1>5. pc' \notin {"staging", "dev"}
  BY DEF Building
<1> QED BY <1>2, <1>3, <1>4, <1>5 DEF Layered

LEMMA QuietInv ==
    ASSUME IInv, BuildInv, HostRenames \/ EntriesDone \/ UNCHANGED vars
    PROVE  BuildInv'
<1>1. /\ UNCHANGED <<table, isDir, idx, staged, trees, mnt>>
      /\ renamed' \in {renamed, TRUE}
      /\ pc' = pc \/ (pc' = "pivot" /\ pc = "entries" /\ idx > Len(table))
  BY DEF HostRenames, EntriesDone, vars, config
<1>2. TreesAsMeant' /\ HostWritesAreGranted' /\ MountsAsMeant'
  BY <1>1, SameTable
<1>3. DirsStayDirs'
  BY <1>1, DirsStay
<1>4. MountPointsThere'
  BY <1>1 DEF BuildInv, MountPointsThere
<1>5. AllProcessed'
  <2>1. idx \in 1..(Len(table) + 1) /\ Len(table) \in Nat
    BY TableType DEF IInv, TypeOK
  <2> QED BY <1>1, <2>1 DEF BuildInv, AllProcessed
<1>6. Layered'
  <2>1. CASE pc \in Building
    <3>1. pc' \in Building /\ Top' = Top
      BY <1>1, <2>1 DEF Building, Top
    <3> QED BY <1>1, <2>1, <3>1, LayersKept
  <2>2. CASE pc \notin Building
    BY <1>1, <2>2 DEF BuildInv, Layered, Building
  <2> QED BY <2>1, <2>2
<1> QED BY <1>2, <1>3, <1>4, <1>5, <1>6 DEF BuildInv

LEMMA RootInv == ASSUME IInv, BuildInv, SetupRoot \/ Staging PROVE BuildInv'
<1>1. /\ UNCHANGED <<table, isDir, idx, renamed, staged>> /\ idx = 1
      /\ pc' \in {"staging", "dev"} /\ mnt' = <<Mount(<<>>, <<"root">>, 0)>>
  BY DEF SetupRoot, Staging, BuildInv, Layered, AllProcessed, config
<1>2. Grown(trees, trees') /\ GrownInside
  <2>1. CASE SetupRoot
    BY <2>1 DEF SetupRoot, Grown, GrownInside
  <2>2. CASE Staging
    <3>1. trees' = [trees EXCEPT ![<<"root">>] = With(@, {OldRootDir, StagingDir}, Dir)]
      BY <2>2 DEF Staging
    <3>2. Grown(trees, trees')
      BY <3>1, AddingGrows
    <3>3. \A f \in AllFs \ SetupFs : trees'[f] = trees[f]
      BY <3>1 DEF SetupFs, IInv, TypeOK
    <3>4. ~Outside(OldRootDir) /\ ~Outside(StagingDir)
      BY DEF Outside, Up, OldRootDir, StagingDir
    <3>5. \A q \in DOMAIN trees'[<<"root">>] \ DOMAIN trees[<<"root">>] : ~Outside(q)
      <4>1. <<"root">> \in DOMAIN trees
        BY DEF IInv, TypeOK, AllFs, SetupFs
      <4>2. trees'[<<"root">>] = With(trees[<<"root">>], {OldRootDir, StagingDir}, Dir)
        BY <3>1, <4>1
      <4>3. DOMAIN trees'[<<"root">>] = {OldRootDir, StagingDir} \cup DOMAIN trees[<<"root">>]
        BY <4>2 DEF With
      <4> QED BY <3>4, <4>3
    <3> QED BY <3>2, <3>3, <3>5 DEF GrownInside
  <2> QED BY <2>1, <2>2
<1>3. TreesAsMeant' /\ HostWritesAreGranted'
  BY <1>1, <1>2, TreesGrown
<1>4. DirsStayDirs'
  BY <1>1, DirsStay
<1>5. MountsAsMeant'
  <2> DEFINE root == Mount(<<>>, <<"root">>, 0)
  <2>1. root.by = 0 /\ ForSetup(root)
    BY DEF Mount, ForSetup, SetupFs
  <2> HIDE DEF root
  <2>2. DOMAIN <<root>> = {1} /\ <<root>>[1] = root
    OBVIOUS
  <2>3. \A k \in DOMAIN mnt' : mnt'[k] = root
    BY <1>1, <2>2 DEF root
  <2> QED BY <2>1, <2>3 DEF MountsAsMeant, ForSetup
<1>6. Layered' /\ MountPointsThere' /\ AllProcessed'
  BY <1>1 DEF Layered, Building, MountPointsThere, AllProcessed
<1> QED BY <1>3, <1>4, <1>5, <1>6 DEF BuildInv

\* The mounts of setup are attached on their mount points.
LEMMA BaseIsPlaced ==
    ASSUME NEW t, \A k \in DOMAIN BaseMounts : <<>> \in DOMAIN t[BaseMounts[k].fs]
    PROVE  Rooted(BaseMounts) /\ WellPlaced(BaseMounts, t)
<1> DEFINE ms == BaseMounts
           at(k) == ms[k].at
<1>1. Len(ms) \in Nat \ {0} /\ DOMAIN ms = 1..Len(ms) /\ 1 \in DOMAIN ms /\ 2 \in DOMAIN ms
  BY BaseMountsAre
<1>2. \A k \in DOMAIN ms : /\ at(k) \in Names
                           /\ k = 1 => at(k) = <<>>
                           /\ k = 2 => at(k) = <<"dev">>
                           /\ k > 2 => \E n \in Name : at(k) = DevPath(n)
  BY BaseMountsShape
<1> HIDE DEF ms
<1>3. Rooted(ms)
  BY <1>1, <1>2 DEF Rooted
<1>4. \A k \in DOMAIN ms : Len(at(k)) = IF k = 1 THEN 0 ELSE IF k = 2 THEN 1 ELSE 2
  <2>1. Len(<<>>) = 0 /\ Len(<<"dev">>) = 1 /\ \A n : Len(DevPath(n)) = 2
    BY DEF DevPath
  <2> SUFFICES ASSUME NEW k \in DOMAIN ms
               PROVE  Len(at(k)) = IF k = 1 THEN 0 ELSE IF k = 2 THEN 1 ELSE 2
    OBVIOUS
  <2>2. CASE k > 2
    <3>1. PICK n \in Name : at(k) = DevPath(n)
      BY <1>2, <2>2
    <3> QED BY <1>1, <2>1, <2>2, <3>1
  <2>3. CASE k \in {1, 2}
    BY <1>2, <2>1, <2>3
  <2> QED BY <1>1, <2>2, <2>3
<1>5. ASSUME NEW j \in DOMAIN ms
      PROVE  ms[VisibleIn(ms, at(j))].at = at(j)
  <2> DEFINE V == VisibleIn(ms, at(j))
  <2>1. V \in DOMAIN ms /\ LeadsIn(ms, at(j), V) /\ at(j) \in Names /\ at(V) \in Names
    BY <1>2, <1>3, VisibleIs
  <2>2. IsAbove(at(j), at(j))
    BY <2>1, NamesAreSeqs, AboveIsPrefix, WholePrefix
  <2>3. IsAbove(at(V), at(j)) /\ j <= V
    BY <2>1, <2>2 DEF LeadsIn
  <2>4. Len(at(V)) <= Len(at(j)) /\ Len(at(V)) >= Len(at(j))
    BY <1>1, <1>4, <2>1, <2>3 DEF IsAbove
  <2>5. SubSeq(at(j), 1, Len(at(j))) = at(V)
    <3>1. Len(at(V)) \in Nat /\ Len(at(j)) \in Nat
      BY <2>1, NamesAreSeqs
    <3>2. Len(at(V)) = Len(at(j))
      BY <2>4, <3>1
    <3> QED BY <2>3, <3>2 DEF IsAbove
  <2> QED BY <2>1, <2>5, WholePrefix DEF Prefix
<1>6. \A j \in DOMAIN ms : ThereIn(ms, t, at(j))
  <2> SUFFICES ASSUME NEW j \in DOMAIN ms PROVE ThereIn(ms, t, at(j))
    OBVIOUS
  <2>1. VisibleIn(ms, at(j)) \in DOMAIN ms /\ at(j) \in Names
    BY <1>2, <1>3, VisibleIs
  <2>2. <<>> \in DOMAIN t[ms[VisibleIn(ms, at(j))].fs]
    BY <2>1 DEF ms
  <2> QED BY <1>5, <2>1, <2>2, BelowItself DEF ThereIn
<1>7. ASSUME NEW k \in DOMAIN ms, NEW n \in 0..Len(at(k))
      PROVE  \E j \in DOMAIN ms : Prefix(at(k), n) = at(j)
  <2>1. CASE n = 0
    BY <1>1, <1>2, <2>1, WholePrefix
  <2>2. CASE n = Len(at(k))
    BY <1>2, <2>2, WholePrefix
  <2>3. CASE n # 0 /\ n # Len(at(k))
    <3>1. n = 1 /\ k > 2
      BY <1>1, <1>4, <2>3
    <3>2. PICK x \in Name : at(k) = DevPath(x)
      BY <1>2, <3>1
    <3>3. Prefix(at(k), n) = <<"dev">>
      <4>1. at(k) = <<"dev", x>> /\ at(k) \in Names
        BY <1>2, <3>2 DEF DevPath
      <4>2. Prefix(at(k), n) \in Names /\ Len(Prefix(at(k), n)) = 1
            /\ Prefix(at(k), n)[1] = at(k)[1]
        <5>1. 1 \in 0..Len(at(k)) /\ 1 \in 1..1 /\ n = 1
          BY <3>1, <4>1, NamesAreSeqs
        <5> HIDE DEF at
        <5> QED BY <4>1, <5>1, PrefixType
      <4>3. \A s \in Names : Len(s) = 1 /\ s[1] = "dev" => s = <<"dev">>
        BY DEF Names
      <4> HIDE DEF at
      <4> QED BY <4>1, <4>2, <4>3
    <3> QED BY <1>1, <1>2, <3>3
  <2> QED BY <2>1, <2>2, <2>3
<1>8. WellPlaced(ms, t)
  <2>1. ASSUME NEW k \in DOMAIN ms, NEW n \in 0..Len(at(k))
        PROVE  ThereIn(ms, t, Prefix(at(k), n))
    BY <1>6, <1>7
  <2> QED BY <2>1 DEF WellPlaced
<1> QED BY <1>3, <1>8 DEF ms

LEMMA DevInv == ASSUME IInv, BuildInv, SetupDev PROVE BuildInv'
<1>1. /\ pc = "dev" /\ pc' = "entries" /\ UNCHANGED <<table, isDir, idx, renamed>>
      /\ idx = 1 /\ trees' = LayDownDev(trees)
      /\ mnt = <<Mount(<<>>, <<"root">>, 0)>> /\ mnt' = BaseMounts
      /\ BaseMounts' = BaseMounts
  BY DEF SetupDev, BuildInv, Layered, AllProcessed, BaseMounts, config
<1>2. Grown(trees, trees') /\ GrownInside
  <2>1. <<"root">> # <<"dev">> /\ <<"root">> \in AllFs \cap SetupFs
        /\ <<"dev">> \in AllFs \cap SetupFs
    BY DEF AllFs, SetupFs
  <2>2. DOMAIN trees = AllFs /\ DOMAIN trees' = AllFs
    BY <1>1 DEF LayDownDev, IInv, TypeOK
  <2>3. trees'[<<"root">>] = With(trees[<<"root">>], {<<"dev">>}, Dir)
    BY <1>1, <2>1, <2>2 DEF LayDownDev
  <2>4. PICK P, Q : trees'[<<"dev">>] = With(With(trees[<<"dev">>], P, File(0)), Q, Dir)
    BY <1>1, <2>1, <2>2 DEF LayDownDev
  <2>5. \A f \in AllFs \ {<<"root">>, <<"dev">>} : trees'[f] = trees[f]
    BY <1>1, <2>2 DEF LayDownDev
  <2>6. ASSUME NEW f \in AllFs
        PROVE  /\ DOMAIN trees[f] \subseteq DOMAIN trees'[f]
               /\ \A q \in DOMAIN trees[f] : trees'[f][q] = trees[f][q]
    <3>1. CASE f = <<"root">>
      BY <2>3, <3>1 DEF With
    <3>2. CASE f = <<"dev">>
      <4> DEFINE w == With(trees[<<"dev">>], P, File(0))
      <4>1. trees'[f] = With(w, Q, Dir)
        BY <2>4, <3>2
      <4>2. DOMAIN trees[f] \subseteq DOMAIN w /\ \A q \in DOMAIN trees[f] : w[q] = trees[f][q]
        BY <3>2 DEF With
      <4> HIDE DEF w
      <4> QED BY <4>1, <4>2 DEF With
    <3>3. CASE f \notin {<<"root">>, <<"dev">>}
      BY <2>5, <3>3
    <3> QED BY <3>1, <3>2, <3>3
  <2>7. Grown(trees, trees')
    BY <2>2, <2>6 DEF Grown
  <2>8. ~Outside(<<"dev">>)
    BY DEF Outside, Up
  <2>9. \A q \in DOMAIN trees'[<<"root">>] \ DOMAIN trees[<<"root">>] : ~Outside(q)
    <3>1. DOMAIN trees'[<<"root">>] = {<<"dev">>} \cup DOMAIN trees[<<"root">>]
      BY <2>3 DEF With
    <3> QED BY <2>8, <3>1
  <2> QED BY <2>1, <2>5, <2>7, <2>9 DEF GrownInside
<1>3. TreesAsMeant' /\ HostWritesAreGranted'
  BY <1>1, <1>2, TreesGrown
<1>4. DirsStayDirs'
  BY <1>1, DirsStay
<1>5. MountsAsMeant'
  <2>1. \A k \in DOMAIN mnt' : mnt'[k].by = 0 /\ ForSetup(mnt'[k])
    BY <1>1, BaseMountsShape
  <2> QED BY <2>1 DEF MountsAsMeant, ForSetup
<1>6. Layered'
  <2>1. /\ Len(BaseMounts) \in Nat /\ DOMAIN BaseMounts = 1..Len(BaseMounts)
        /\ \A k \in 1..Len(BaseMounts) : BaseMounts[k].by = 0
    BY BaseMountsAre, BaseMountsShape
  <2>2. Top' = Len(BaseMounts)
    BY <1>1 DEF Top
  <2>3. BaseFirst' /\ InOrder'
    BY <1>1, <2>1, <2>2 DEF BaseFirst, InOrder
  <2>4. AllPresent'
    <3>1. 1..(idx' - 1) = {}
      BY <1>1
    <3> QED BY <3>1 DEF AllPresent
  <2> QED BY <1>1, <2>3, <2>4 DEF Layered
<1>7. MountPointsThere'
  <2>1. \A k \in DOMAIN BaseMounts : <<>> \in DOMAIN trees'[BaseMounts[k].fs]
    <3>1. \A k \in DOMAIN BaseMounts : BaseMounts[k].fs \in AllFs /\ AllFs' = AllFs
      BY <1>1, BaseMountsShape DEF AllFs
    <3> QED BY <1>3, <3>1 DEF TreesAsMeant
  <2>2. WellPlaced(BaseMounts, trees')
    BY <2>1, BaseIsPlaced
  <2> QED BY <1>1, <2>2 DEF MountPointsThere
<1>8. AllProcessed'
  BY <1>1 DEF AllProcessed
<1> QED BY <1>3, <1>4, <1>5, <1>6, <1>7, <1>8 DEF BuildInv

LEMMA PivotInv == ASSUME IInv, BuildInv, Pivot \/ DetachOldRoot PROVE BuildInv'
<1>1. /\ UNCHANGED <<table, isDir, idx, renamed, staged, trees>>
      /\ \/ pc = "pivot" /\ pc' = "detach"
         \/ pc = "detach" /\ pc' = "cleanup"
  BY DEF Pivot, DetachOldRoot, config
<1>2. mnt \in Seq(MountType) /\ Len(mnt) \in Nat /\ DOMAIN mnt = 1..Len(mnt)
  BY MountsTyped DEF IInv, TypeOK
<1>3. Top \in Nat
  <2>1. Len(BaseMounts) \in Nat /\ Len(BaseMounts) <= Top /\ Top \in Int
    BY <1>1, <1>2, BaseMountsAre DEF BuildInv, Layered, Building, BaseFirst, Top
  <2> QED BY <2>1
<1>4. /\ Top' = Top /\ \A k \in 1..Top : k \in DOMAIN mnt /\ mnt'[k] = mnt[k]
      /\ \A k \in DOMAIN mnt' : \/ k \in DOMAIN mnt /\ mnt'[k] = mnt[k]
                                \/ mnt'[k] = Mount(<<>>, <<"hostroot">>, 0)
  <2>1. CASE Pivot
    <3>1. /\ pc = "pivot" /\ pc' = "detach"
          /\ mnt' = Append(mnt, Mount(<<>>, <<"hostroot">>, 0))
      BY <2>1 DEF Pivot
    <3>2. /\ Len(mnt') = Len(mnt) + 1 /\ DOMAIN mnt' = 1..(Len(mnt) + 1)
          /\ \A k \in 1..Len(mnt) : mnt'[k] = mnt[k]
          /\ mnt'[Len(mnt) + 1] = Mount(<<>>, <<"hostroot">>, 0)
      BY <1>2, <3>1
    <3>3. Top = Len(mnt) /\ Top' = Len(mnt)
      BY <1>2, <3>1, <3>2 DEF Top
    <3> QED BY <1>2, <3>2, <3>3
  <2>2. CASE DetachOldRoot
    <3>1. pc = "detach" /\ pc' = "cleanup" /\ mnt' = SubSeq(mnt, 1, Len(mnt) - 1)
      BY <2>2 DEF DetachOldRoot
    <3>2. Top = Len(mnt) - 1
      BY <3>1 DEF Top
    <3>3. Len(mnt) - 1 \in 0..Len(mnt)
      BY <1>2, <1>3, <3>2
    <3>4. /\ Len(mnt') = Len(mnt) - 1 /\ DOMAIN mnt' = 1..(Len(mnt) - 1)
          /\ \A k \in 1..(Len(mnt) - 1) : mnt'[k] = mnt[k]
      BY <1>2, <3>1, <3>3
    <3>5. Top' = Len(mnt) - 1
      BY <3>1, <3>4 DEF Top
    <3> QED BY <1>2, <3>2, <3>4, <3>5
  <2> QED BY <2>1, <2>2
<1>5. TreesAsMeant' /\ HostWritesAreGranted'
  BY <1>1, SameTable
<1>6. MountsAsMeant'
  <2>1. ASSUME NEW k \in DOMAIN mnt'
        PROVE  IF mnt'[k].by = 0 THEN ForSetup(mnt'[k]) ELSE ForEntry(mnt'[k])
    <3>1. CASE k \in DOMAIN mnt /\ mnt'[k] = mnt[k]
      BY <3>1 DEF BuildInv, MountsAsMeant
    <3>2. CASE mnt'[k] = Mount(<<>>, <<"hostroot">>, 0)
      BY <3>2 DEF Mount, ForSetup
    <3> QED BY <1>4, <3>1, <3>2
  <2> QED BY <1>1, <2>1 DEF MountsAsMeant, ForSetup, ForEntry
<1>7. Layered'
  <2>1. pc \in Building /\ pc' \in Building
    BY <1>1 DEF Building
  <2> QED BY <1>1, <1>4, <2>1, LayersKept
<1>8. DirsStayDirs'
  BY <1>1, DirsStay
<1>9. MountPointsThere' /\ AllProcessed'
  BY <1>1 DEF BuildInv, MountPointsThere, AllProcessed
<1> QED BY <1>5, <1>6, <1>7, <1>8, <1>9 DEF BuildInv

LEMMA CleanupInv == ASSUME IInv, BuildInv, Cleanup PROVE BuildInv'
<1>1. /\ UNCHANGED <<table, isDir, idx, renamed, mnt>> /\ pc = "cleanup" /\ pc' = "done"
      /\ DOMAIN staged' = DOMAIN staged \ 0..(count - 1)
      /\ AllFs' = AllFs
  BY DEF Cleanup, AllFs, config
<1>2. DOMAIN staged' = {}
  BY <1>1 DEF IInv, TypeOK
<1>3. DOMAIN trees = AllFs /\ <<"root">> \in AllFs /\ <<"root">> \notin HostFs
      /\ \A i \in DOMAIN table : <<"root">> # EntryFs(i)
  <2>1. <<"root">> \in SetupFs
    BY DEF SetupFs
  <2>2. \A i \in DOMAIN table : i \in Nat
    BY TableType DEF IInv
  <2> QED BY <2>1, <2>2, FsApart DEF IInv, TypeOK
<1>4. \A f \in AllFs \ {<<"root">>} : trees'[f] = trees[f]
  BY <1>3 DEF Cleanup
<1>5. <<>> \in DOMAIN trees'[<<"root">>]
  <2>1. PICK gone \in SUBSET {OldRootDir, StagingDir} :
            trees' = [trees EXCEPT ![<<"root">>] = [p \in DOMAIN @ \ gone |-> @[p]]]
    BY DEF Cleanup
  <2>2. trees'[<<"root">>] =
            [p \in DOMAIN trees[<<"root">>] \ gone |-> trees[<<"root">>][p]]
    BY <1>3, <2>1
  <2>3. <<>> \notin gone
    <3>1. <<>> # OldRootDir /\ <<>> # StagingDir
      BY DEF OldRootDir, StagingDir
    <3> QED BY <3>1
  <2>4. <<>> \in DOMAIN trees[<<"root">>]
    BY <1>3 DEF BuildInv, TreesAsMeant
  <2> QED BY <2>2, <2>3, <2>4
<1>6. \A f \in {<<"hostdir">>, <<"vol">>, <<"hostfile">>, <<"hostdev">>} :
          trees'[f] = trees[f]
  <2>1. \A f \in {<<"hostdir">>, <<"vol">>, <<"hostfile">>, <<"hostdev">>} :
            f \in HostFs /\ f \in AllFs
    BY DEF HostFs, AllFs
  <2> QED BY <1>3, <1>4, <2>1
<1>7. TreesAsMeant'
  <2>1. \A f \in AllFs : <<>> \in DOMAIN trees'[f]
    BY <1>4, <1>5 DEF BuildInv, TreesAsMeant
  <2>2. \A f \in {<<"hostfile">>, <<"hostdev">>} :
            DOMAIN trees'[f] = {<<>>} /\ trees'[f][<<>>] # Dir
    BY <1>6 DEF BuildInv, TreesAsMeant
  <2>3. ASSUME NEW i \in 1..(idx - 1), table[i].kind = "file"
        PROVE  trees'[EntryFs(i)][<<>>] = File(i)
    <3>1. i \in DOMAIN table
      BY TableType DEF IInv, TypeOK
    <3>2. EntryFs(i) \in AllFs \ {<<"root">>}
      BY <1>3, <3>1 DEF AllFs
    <3> QED BY <1>4, <2>3, <3>2 DEF BuildInv, TreesAsMeant
  <2> QED BY <1>1, <2>1, <2>2, <2>3 DEF TreesAsMeant
<1>8. HostWritesAreGranted'
  <2>1. \A f \in OfTheHost : DOMAIN trees'[f] \subseteq DOMAIN trees[f]
    <3>1. DOMAIN trees'[<<"root">>] \subseteq DOMAIN trees[<<"root">>]
      BY <1>3 DEF Cleanup
    <3>2. \A f \in OfTheHost : f = <<"root">> \/ f \in AllFs \ {<<"root">>}
      BY FsApart DEF OfTheHost
    <3> QED BY <1>4, <3>1, <3>2
  <2>2. HostWritesAreGranted /\ idx \in Nat \ {0} /\ idx' \in {idx, idx + 1}
    BY <1>1 DEF BuildInv, IInv, TypeOK
  <2> QED BY <1>1, <2>1, <2>2, WritesGranted
<1>9. MountsAsMeant' /\ DirsStayDirs'
  BY <1>1, SameTable, DirsStay
<1>10. Layered'
  <2>1. pc \in Building /\ pc' \in Building /\ Top' = Top
    BY <1>1 DEF Building, Top
  <2> QED BY <1>1, <2>1, LayersKept
<1>11. MountPointsThere' /\ AllProcessed'
  BY <1>1, <1>2 DEF BuildInv, MountPointsThere, AllProcessed
<1> QED BY <1>7, <1>8, <1>9, <1>10, <1>11 DEF BuildInv

\* What a step made before the kernel refused to go on is granted as well.
LEMMA FailsBuildInv == ASSUME IInv, BuildInv, Fails PROVE BuildInv'
<1>1. /\ UNCHANGED <<table, isDir, idx, renamed, mnt, staged>> /\ pc' = "failed"
      /\ pc # "plan" /\ (pc = "entries" => idx <= Len(table)) /\ trees' \in MadeSoFar
  BY DEF Fails, config
<1>2. Grown(trees, trees')
      /\ \/ idx \in DOMAIN table /\ OnlyGranted(trees', Entry.dst)
         \/ GrownInside
  <2>1. CASE pc # "entries"
    BY <1>1, <2>1 DEF MadeSoFar, Grown, GrownInside
  <2>2. CASE pc = "entries"
    <3> DEFINE d == ~(Entry.kind = "file" \/ (Entry.kind \in Binds /\ ~isDir[idx]))
    <3>1. Standing
      BY <2>2, StandingInEntries
    <3>2. Entry.dst \in Names /\ idx \in DOMAIN table
      <4>1. Processing({Entry.kind})
        BY <1>1, <2>2 DEF Processing
      <4> QED BY <4>1, EntryTyped
    <3>3. d \in BOOLEAN /\ trees' \in MountPointPartly(Entry.dst, d)
      BY <1>1, <2>2 DEF MadeSoFar
    <3> HIDE DEF d
    <3> QED BY <3>1, <3>2, <3>3, MountPointGrows, MountPointGranted
  <2> QED BY <2>1, <2>2
<1>3. TreesAsMeant' /\ HostWritesAreGranted'
  BY <1>1, <1>2, TreesGrown
<1>4. MountsAsMeant' /\ DirsStayDirs'
  BY <1>1, SameTable, DirsStay
<1>5. Layered' /\ MountPointsThere' /\ AllProcessed'
  BY <1>1 DEF Layered, Building, MountPointsThere, AllProcessed
<1> QED BY <1>3, <1>4, <1>5 DEF BuildInv

LEMMA BuildStep == IInv /\ BuildInv /\ [Next]_vars => BuildInv'
<1> SUFFICES ASSUME IInv, BuildInv, [Next]_vars PROVE BuildInv'
  OBVIOUS
<1> QED BY EntryInv, PlanInv, QuietInv, RootInv, DevInv, PivotInv, CleanupInv,
           FailsBuildInv DEF Next

\* The mount tree is what the table asks for, at every step.
THEOREM TreeInvariance == Spec => []BuildInv
BY BuildInit, BuildStep, Invariance, PTL DEF Spec

-----------------------------------------------------------------------------
(* The theorems.                                                           *)

\* For every table and whatever the host renames in the meantime, a mount for a
\* read-only entry is read-only from the moment it is attached, with the mounts
\* below a bind, and nothing is left in the staging directory
\* (process_bind_mount, process_file_mount, cleanup_staging).
THEOREM ReadOnlyIsKept == Spec => []ReadOnlyHolds
<1>1. IInv /\ BuildInv => ReadOnlyHolds
  <2> SUFFICES ASSUME IInv, BuildInv PROVE ReadOnlyHolds
    OBVIOUS
  <2>1. ASSUME NEW k \in DOMAIN mnt, mnt[k].by # 0,
               table[mnt[k].by].kind \in Binds \cup {"tmpfs", "file"},
               table[mnt[k].by].readOnly
        PROVE  mnt[k].ro
    BY <2>1 DEF BuildInv, MountsAsMeant, ForEntry
  <2>2. pc = "done" => DOMAIN staged = {}
    BY DEF BuildInv, AllProcessed
  <2> QED BY <2>1, <2>2 DEF ReadOnlyHolds
<1> QED BY <1>1, Invariance, TreeInvariance, PTL

\* For every table, what setup makes in a directory of the host is on the way to
\* a destination: through an earlier bind of that directory that the table makes
\* writable, or by ".." out of the new root.  What a failing step leaves there is
\* no exception (ensure_mount_point, mkdirat_all, create_file_at, prepare).
THEOREM HostWritesGranted == Spec => []HostWritesAreGranted
<1>1. BuildInv => HostWritesAreGranted
  BY DEF BuildInv
<1> QED BY <1>1, TreeInvariance, PTL

-----------------------------------------------------------------------------
(* The last entry wins.                                                    *)

\* The tree when setup is over, and mount V that p leads to.
OverAt(p, V) ==
    /\ IInv /\ BuildInv /\ pc = "done" /\ p \in Names
    /\ idx = Len(table) + 1 /\ Top = Len(mnt) /\ DOMAIN mnt = 1..Len(mnt)
    /\ DOMAIN table = 1..Len(table) /\ Len(table) \in Nat /\ Len(mnt) \in Nat
    /\ V \in DOMAIN mnt /\ LeadsTo(p, V) /\ V = Visible(p)
    /\ \A k \in DOMAIN mnt : mnt[k].at \in Names /\ mnt[k].by \in 0..Len(table)
    /\ \A i \in DOMAIN table : table[i].dst \in Names
    /\ BaseFirst /\ InOrder /\ AllPresent

LEMMA DestinationsTyped ==
    ASSUME TypeOK
    PROVE  /\ table \in Seq(EntryType) /\ DOMAIN table = 1..Len(table) /\ Len(table) \in Nat
           /\ \A i \in DOMAIN table : table[i].dst \in Names
<1>1. table \in Seq(EntryType) /\ DOMAIN table = 1..Len(table) /\ Len(table) \in Nat
  BY TableType
<1>2. \A i \in DOMAIN table : table[i] \in EntryType
  BY <1>1
<1> QED BY <1>1, <1>2 DEF EntryType

LEMMA SetupOver ==
    ASSUME IInv, BuildInv, pc = "done", NEW p \in Names
    PROVE  OverAt(p, Visible(p))
<1>1. TypeOK /\ Top = Len(mnt) /\ idx = Len(table) + 1
      /\ BaseFirst /\ InOrder /\ AllPresent
  BY DEF IInv, Top, BuildInv, AllProcessed, Layered, Building
<1>2. /\ Len(mnt) \in Nat /\ DOMAIN mnt = 1..Len(mnt)
      /\ \A k \in DOMAIN mnt : mnt[k].at \in Names /\ mnt[k].by \in 0..Len(table)
  BY <1>1, MountsTyped
<1>3. /\ table \in Seq(EntryType) /\ DOMAIN table = 1..Len(table) /\ Len(table) \in Nat
      /\ \A i \in DOMAIN table : table[i].dst \in Names
  BY <1>1, DestinationsTyped
<1>4. Len(BaseMounts) \in Nat \ {0} /\ 1 \in 1..Len(BaseMounts)
      /\ BaseMounts[1] = Mount(<<>>, <<"root">>, 0)
  BY BaseMountsAre
<1>5. mnt[1].at = <<>> /\ Len(mnt) \in Nat \ {0}
  <2>1. mnt[1] = Mount(<<>>, <<"root">>, 0) /\ Len(BaseMounts) <= Len(mnt)
    BY <1>1, <1>4 DEF BaseFirst
  <2> QED BY <1>2, <1>4, <2>1 DEF Mount
<1>6. Rooted(mnt)
  BY <1>2, <1>5 DEF Rooted
<1>7. Visible(p) \in DOMAIN mnt /\ LeadsTo(p, Visible(p))
  BY <1>6, VisibleHere, VisibleIs DEF LeadsIn, LeadsTo
<1> QED BY <1>1, <1>2, <1>3, <1>7 DEF OverAt

\* An entry has a mount above p only if it was given at or above p.
LEMMA EntryIsAbove ==
    ASSUME NEW p, NEW V, OverAt(p, V), mnt[V].by # 0
    PROVE  /\ mnt[V].by \in DOMAIN table /\ IsAbove(table[mnt[V].by].dst, p)
           /\ ForEntry(mnt[V])
<1>1. mnt[V].by \in DOMAIN table /\ ForEntry(mnt[V]) /\ IsAbove(mnt[V].at, p)
  BY DEF OverAt, BuildInv, MountsAsMeant, LeadsTo
<1> DEFINE d == table[mnt[V].by].dst
<1>2. p \in Names /\ d \in Names /\ (mnt[V].at = d \/ mnt[V].at = Append(d, Vol))
  BY <1>1 DEF OverAt, ForEntry
<1>3. IsAbove(d, Append(d, Vol)) /\ Append(d, Vol) \in Names
  BY <1>2, VolumeIs
<1>4. IsAbove(d, p)
  <2> HIDE DEF d
  <2>1. CASE mnt[V].at = d
    BY <1>1, <2>1
  <2>2. CASE mnt[V].at = Append(d, Vol)
    BY <1>1, <1>2, <1>3, <2>2, AboveTransitive
  <2> QED BY <1>2, <2>1, <2>2
<1> QED BY <1>1, <1>4

\* Two paths of the same length above a third one are the same.
LEMMA AboveSame ==
    ASSUME NEW a \in Names, NEW b \in Names, NEW p \in Names,
           IsAbove(a, p), IsAbove(b, p), Len(a) = Len(b)
    PROVE  a = b
BY AboveIsPrefix

\* Where no entry has a say, setup's own mounts show what they are for.
LEMMA ManagedShown ==
    ASSUME NEW p, NEW V, OverAt(p, V), mnt[V].by = 0
    PROVE  mnt[V].fs = ManagedFs(p)
<1> DEFINE N == Len(DevNodes)
<1>1. /\ N \in Nat /\ Len(BaseMounts) = N + 4 /\ DOMAIN BaseMounts = 1..(N + 4)
      /\ p \in Names /\ V \in Nat
  BY BaseMountsAre DEF OverAt
<1>2. V \in 1..(N + 4) /\ mnt[V] = BaseMounts[V]
  BY <1>1 DEF OverAt, BaseFirst
<1>3. IsAbove(BaseMounts[V].at, p)
      /\ \A k \in 1..(N + 4) : IsAbove(BaseMounts[k].at, p) => k <= V
  <2>1. \A k \in 1..(N + 4) : k \in DOMAIN mnt /\ mnt[k] = BaseMounts[k]
    BY <1>1 DEF OverAt, BaseFirst
  <2> QED BY <1>2, <2>1 DEF OverAt, LeadsTo
<1>4. /\ BaseMounts[1].fs = <<"root">>
      /\ BaseMounts[2].at = <<"dev">> /\ BaseMounts[2].fs = <<"dev">>
      /\ \A k \in 1..N : /\ BaseMounts[k + 2].at = DevPath(DevNodes[k])
                         /\ BaseMounts[k + 2].fs = <<"hostdev">>
      /\ BaseMounts[N + 3].at = DevPath("shm") /\ BaseMounts[N + 3].fs = <<"shm">>
      /\ BaseMounts[N + 4].at = DevPath("pts") /\ BaseMounts[N + 4].fs = <<"pts">>
  <2>1. \A a, f : Mount(a, f, 0).at = a /\ Mount(a, f, 0).fs = f
    BY DEF Mount
  <2> QED BY <2>1, BaseMountsAre
<1>5. Range(DevNodes) = {DevNodes[k] : k \in 1..N}
      /\ \A k \in 1..N : DevNodes[k] # "shm" /\ DevNodes[k] # "pts"
      /\ {"shm", "pts", "dev"} \subseteq Name /\ Range(DevNodes) \subseteq Name
  BY NamesAssumption DEF Range
<1>6. /\ \A m, n \in Name : DevPath(m) = DevPath(n) => m = n
      /\ \A n \in Name : DevPath(n) \in Names /\ Len(DevPath(n)) = 2
                         /\ IsAbove(<<"dev">>, DevPath(n))
      /\ <<"dev">> \in Names
  <2>1. \A n \in Name : DevPath(n) \in Names /\ Len(DevPath(n)) = 2 /\ DevPath(n)[1] = "dev"
    BY NamesAssumption DEF DevPath, Names
  <2>2. <<"dev">> \in Names /\ Len(<<"dev">>) = 1
    BY NamesAssumption DEF Names
  <2>3. ASSUME NEW n \in Name PROVE IsAbove(<<"dev">>, DevPath(n))
    <3>1. 1 \in 0..Len(DevPath(n)) /\ 1 \in 1..1
      BY <2>1
    <3>2. /\ Prefix(DevPath(n), 1) \in Names /\ Len(Prefix(DevPath(n), 1)) = 1
          /\ Prefix(DevPath(n), 1)[1] = "dev"
      BY <2>1, <3>1, PrefixType
    <3>3. \A s \in Names : Len(s) = 1 /\ s[1] = "dev" => s = <<"dev">>
      BY DEF Names
    <3> QED BY <2>1, <2>2, <3>1, <3>2, <3>3, AboveIsPrefix
  <2> QED BY <2>1, <2>2, <2>3 DEF DevPath
<1>7. \A m, n \in Name : IsAbove(DevPath(m), p) /\ IsAbove(DevPath(n), p) => m = n
  BY <1>1, <1>6, AboveSame
<1>8. \A n \in Name : IsAbove(DevPath(n), p) => IsAbove(<<"dev">>, p)
  BY <1>1, <1>6, AboveTransitive
<1>9. CASE V = 1
  <2>1. ~IsAbove(<<"dev">>, p)
    <3>1. 2 \in 1..(N + 4) /\ ~(2 <= V)
      BY <1>1, <1>9
    <3> QED BY <1>3, <1>4, <3>1
  <2> QED BY <1>2, <1>4, <1>9, <2>1 DEF ManagedFs
<1>10. CASE V # 1
  <2>1. IsAbove(<<"dev">>, p)
    <3>1. BaseMounts[V].at = <<"dev">> \/ \E n \in Name : BaseMounts[V].at = DevPath(n)
      BY <1>1, <1>2, <1>10, BaseMountsShape
    <3> QED BY <1>3, <1>8, <3>1
  <2>2. CASE \E n \in Range(DevNodes) : IsAbove(DevPath(n), p)
    <3>1. PICK k \in 1..N : IsAbove(DevPath(DevNodes[k]), p) /\ DevNodes[k] \in Name
      BY <1>5, <2>2
    <3>2. ~IsAbove(DevPath("shm"), p) /\ ~IsAbove(DevPath("pts"), p)
      BY <1>5, <1>7, <3>1
    <3>3. k + 2 <= V /\ V # N + 3 /\ V # N + 4
      <4>1. k + 2 \in 1..(N + 4)
        BY <1>1
      <4> QED BY <1>3, <1>4, <3>1, <3>2, <4>1
    <3>4. V - 2 \in 1..N /\ V - 2 + 2 = V
      BY <1>1, <1>2, <3>3
    <3>5. mnt[V].fs = <<"hostdev">>
      BY <1>2, <1>4, <3>4
    <3> QED BY <2>1, <2>2, <3>2, <3>5 DEF ManagedFs
  <2>3. CASE ~\E n \in Range(DevNodes) : IsAbove(DevPath(n), p)
    <3>1. V \notin 3..(N + 2)
      <4> SUFFICES ASSUME V \in 3..(N + 2) PROVE FALSE
        OBVIOUS
      <4>1. V - 2 \in 1..N /\ V - 2 + 2 = V
        BY <1>1
      <4>2. IsAbove(DevPath(DevNodes[V - 2]), p)
        BY <1>3, <1>4, <4>1
      <4> QED BY <1>5, <2>3, <4>1, <4>2
    <3>2. /\ IsAbove(DevPath("shm"), p) => N + 3 <= V /\ ~IsAbove(DevPath("pts"), p)
          /\ IsAbove(DevPath("pts"), p) => N + 4 <= V
          /\ V = N + 3 => IsAbove(DevPath("shm"), p)
          /\ V = N + 4 => IsAbove(DevPath("pts"), p)
      <4>1. N + 3 \in 1..(N + 4) /\ N + 4 \in 1..(N + 4) /\ "shm" # "pts"
        BY <1>1
      <4>2. "shm" \in Name /\ "pts" \in Name
        BY NamesAssumption
      <4>3. ~(IsAbove(DevPath("shm"), p) /\ IsAbove(DevPath("pts"), p))
        BY <1>7, <4>1, <4>2
      <4>4. /\ IsAbove(DevPath("shm"), p) => N + 3 <= V
            /\ IsAbove(DevPath("pts"), p) => N + 4 <= V
        BY <1>3, <1>4, <4>1
      <4> QED BY <1>3, <1>4, <4>3, <4>4
    <3>3. V \in {2, N + 3, N + 4}
      BY <1>1, <1>2, <1>10, <3>1
    <3>4. CASE V = N + 3
      <4>1. IsAbove(DevPath("shm"), p) /\ ~IsAbove(DevPath("pts"), p)
        BY <3>2, <3>4
      <4> QED BY <1>2, <1>4, <2>1, <2>3, <3>4, <4>1 DEF ManagedFs
    <3>5. CASE V = N + 4
      <4>1. IsAbove(DevPath("pts"), p) /\ ~IsAbove(DevPath("shm"), p)
        BY <3>2, <3>5
      <4> QED BY <1>2, <1>4, <2>1, <2>3, <3>5, <4>1 DEF ManagedFs
    <3>6. CASE V = 2
      <4>1. ~IsAbove(DevPath("pts"), p) /\ ~IsAbove(DevPath("shm"), p)
        BY <1>1, <3>2, <3>6
      <4> QED BY <1>2, <1>4, <2>1, <2>3, <3>6, <4>1 DEF ManagedFs
    <3> QED BY <3>3, <3>4, <3>5, <3>6
  <2> QED BY <2>2, <2>3
<1> QED BY <1>9, <1>10

LEMMA LastEntryIs ==
    ASSUME NEW p, NEW V, OverAt(p, V)
    PROVE  IF \E j \in DOMAIN table : IsAbove(table[j].dst, p)
           THEN /\ LastEntryAbove(p) \in DOMAIN table
                /\ IsAbove(table[LastEntryAbove(p)].dst, p)
                /\ \A j \in DOMAIN table : IsAbove(table[j].dst, p) => j <= LastEntryAbove(p)
           ELSE LastEntryAbove(p) = 0
<1> DEFINE above == {j \in DOMAIN table : IsAbove(table[j].dst, p)}
<1>1. above \in SUBSET (1..Len(table)) /\ Len(table) \in Nat
  BY DEF OverAt
<1>2. above # {} => \E k \in above : \A j \in above : j <= k
  <2> HIDE DEF above
  <2> QED BY <1>1, Greatest
<1>3. LastEntryAbove(p) = IF above = {} THEN 0
                          ELSE CHOOSE i \in above : \A j \in above : j <= i
  BY DEF LastEntryAbove
<1> QED BY <1>2, <1>3

\* The mount that p leads to is for the last entry above p.
LEMMA WinnerIsLast ==
    ASSUME NEW p, NEW V, OverAt(p, V)
    PROVE  mnt[V].by = LastEntryAbove(p)
<1> DEFINE i == LastEntryAbove(p)
           b == mnt[V].by
<1>1. CASE ~\E j \in DOMAIN table : IsAbove(table[j].dst, p)
  BY <1>1, LastEntryIs, EntryIsAbove
<1>2. CASE \E j \in DOMAIN table : IsAbove(table[j].dst, p)
  <2>1. i \in DOMAIN table /\ IsAbove(table[i].dst, p)
        /\ \A j \in DOMAIN table : IsAbove(table[j].dst, p) => j <= i
    BY <1>2, LastEntryIs
  <2>2. i \in 1..(idx - 1)
    BY <2>1 DEF OverAt
  <2>3. PICK k \in 1..Top : mnt[k].by = i /\ mnt[k].at = table[i].dst
    BY <2>2 DEF OverAt, AllPresent
  <2>4. k \in DOMAIN mnt /\ k <= V /\ V \in 1..Top /\ k \in Nat /\ V \in Nat
    BY <2>1, <2>3 DEF OverAt, LeadsTo
  <2>5. i # 0 /\ i \in Nat /\ b \in Nat
    BY <2>1 DEF OverAt
  <2>6. b # 0
    <3>1. k \notin 1..Len(BaseMounts)
      <4>1. \A j \in 1..Len(BaseMounts) : BaseMounts[j].by = 0
        BY BaseMountsShape, BaseMountsAre
      <4>2. \A j \in 1..Len(BaseMounts) : mnt[j] = BaseMounts[j]
        BY DEF OverAt, BaseFirst
      <4> QED BY <2>3, <2>5, <4>1, <4>2
    <3>2. V > Len(BaseMounts)
      BY <2>4, <3>1, BaseMountsAre
    <3> QED BY <2>4, <3>2 DEF OverAt, BaseFirst
  <2>7. b <= i
    BY <2>1, <2>6, EntryIsAbove
  <2>8. i <= b
    <3>1. CASE k = V
      BY <2>3, <2>5, <3>1
    <3>2. CASE k # V
      <4>1. k < V
        BY <2>4, <3>2
      <4>2. mnt[k].by < b \/ mnt[k].by = b
        BY <2>3, <2>4, <2>6, <4>1 DEF OverAt, InOrder
      <4> QED BY <2>3, <2>5, <4>2
    <3> QED BY <3>1, <3>2
  <2> QED BY <2>5, <2>7, <2>8
<1> QED BY <1>1, <1>2

LEMMA WinnerIsShown ==
    ASSUME NEW p, NEW V, OverAt(p, V), mnt[V].by # 0
    PROVE  mnt[V].fs = ShownBy(mnt[V].by, p)
<1> DEFINE i == mnt[V].by
           v == Append(table[i].dst, Vol)
<1>1. i \in DOMAIN table /\ ForEntry(mnt[V]) /\ table[i].dst \in Names
  BY EntryIsAbove DEF OverAt
<1>2. IsAbove(mnt[V].at, p) /\ V \in 1..Top
  BY DEF OverAt, LeadsTo
<1>3. CASE table[i].kind \notin Binds
  BY <1>1, <1>3 DEF ForEntry, ShownBy
<1>4. CASE table[i].kind \in Binds /\ ~isDir[i]
  BY <1>1, <1>4 DEF ForEntry, ShownBy
<1>5. CASE table[i].kind \in Binds /\ isDir[i]
  <2>1. \/ mnt[V].at = table[i].dst /\ mnt[V].fs = <<"hostdir">>
        \/ mnt[V].at = v /\ mnt[V].fs = <<"vol">>
    BY <1>1, <1>5 DEF ForEntry
  <2>2. v # table[i].dst
    BY <1>1, VolumeIs
  <2>3. IsAbove(v, p) => mnt[V].at = v
    <3> SUFFICES ASSUME IsAbove(v, p), mnt[V].at # v PROVE FALSE
      OBVIOUS
    <3>1. i \in 1..(idx - 1)
      BY <1>1 DEF OverAt
    <3>2. PICK k \in 1..Top : mnt[k].by = i /\ mnt[k].at = v
      BY <1>5, <3>1 DEF OverAt, AllPresent
    <3>3. k <= V /\ k # V /\ k \in Nat /\ V \in Nat
      <4>1. k \in DOMAIN mnt /\ k \in Nat /\ V \in Nat
            /\ \A j \in DOMAIN mnt : IsAbove(mnt[j].at, p) => j <= V
        BY DEF OverAt, LeadsTo
      <4>2. k # V
        BY <3>2
      <4> QED BY <3>2, <4>1, <4>2
    <3>4. k < V /\ k \in 1..Top /\ V \in 1..Top
      BY <1>2, <3>2, <3>3
    <3>5. \/ mnt[k].by < mnt[V].by
          \/ mnt[V].at = Append(table[mnt[V].by].dst, Vol)
      <4>1. InOrder /\ mnt[V].by # 0
        BY DEF OverAt
      <4> QED BY <3>4, <4>1 DEF InOrder
    <3>6. i \in Nat
      BY <1>1 DEF OverAt
    <3>7. mnt[V].at # Append(table[mnt[V].by].dst, Vol)
      OBVIOUS
    <3>8. mnt[k].by < i
      BY <3>5, <3>7
    <3> HIDE DEF i
    <3> QED BY <3>2, <3>6, <3>8
  <2> QED BY <1>2, <1>5, <2>1, <2>2, <2>3 DEF ShownBy
<1> QED BY <1>3, <1>4, <1>5

LEMMA WatchedAreNames == ASSUME TypeOK, NEW p \in Watched PROVE p \in Names
<1>1. \A n \in Name : DevPath(n) \in Names
  BY NamesAssumption DEF DevPath, Names
<1>2. Range(DevNodes) \cup {"shm", "pts"} \subseteq Name /\ <<>> \in Names
  BY NamesAssumption DEF Range, Names
<1>3. \A i \in DOMAIN table : table[i].dst \in Names
  BY DestinationsTyped
<1>4. ASSUME NEW i \in DOMAIN table, table[i].dst # <<>>
      PROVE  {table[i].dst, Parent(table[i].dst), Append(table[i].dst, Vol)} \subseteq Names
  <2>1. table[i].dst \in Names
    BY <1>3
  <2>2. Parent(table[i].dst) \in Names /\ Append(table[i].dst, Vol) \in Names
    BY <1>4, <2>1, ParentIs, VolumeIs
  <2> QED BY <2>1, <2>2
<1> DEFINE nodes == {DevPath(n) : n \in Range(DevNodes) \cup {"shm", "pts"}}
           given == {i \in DOMAIN table : table[i].dst # <<>>}
           near(i) == {table[i].dst, Parent(table[i].dst), Append(table[i].dst, Vol)}
<1>5. Watched \subseteq {<<>>} \cup nodes \cup UNION {near(i) : i \in given}
  BY DEF Watched
<1>6. nodes \subseteq Names /\ \A i \in given : near(i) \subseteq Names
  BY <1>1, <1>2, <1>4
<1> HIDE DEF nodes, given, near
<1> QED BY <1>2, <1>5, <1>6

\* For every table, once setup has succeeded every path leads to what the last
\* entry at or above it asked for, with the content and the mounts below that it
\* asked for, and elsewhere to the managed /dev or the empty root: neither /dev
\* nor an earlier entry hides a later one (mod.rs, setup).
THEOREM LastEntryShows == Spec => []LastEntryWins
<1>1. ASSUME IInv, BuildInv PROVE LastEntryWins
  <2> SUFFICES ASSUME pc = "done", NEW p \in Watched
               PROVE  LET i == LastEntryAbove(p)
                      IN  /\ mnt[Visible(p)].by = i
                          /\ FsAt(p) = (IF i = 0 THEN ManagedFs(p) ELSE ShownBy(i, p))
                          /\ i # 0 /\ table[i].kind = "file" => trees[FsAt(p)][<<>>] = File(i)
    BY DEF LastEntryWins
  <2> DEFINE i == LastEntryAbove(p)
             V == Visible(p)
  <2>1. OverAt(p, V)
    BY <1>1, SetupOver, WatchedAreNames DEF IInv
  <2>2. mnt[V].by = i
    BY <2>1, WinnerIsLast
  <2>3. mnt[V].fs = IF i = 0 THEN ManagedFs(p) ELSE ShownBy(i, p)
    BY <2>1, <2>2, ManagedShown, WinnerIsShown
  <2>4. ASSUME i # 0, table[i].kind = "file" PROVE trees[mnt[V].fs][<<>>] = File(i)
    <3>1. mnt[V].fs = EntryFs(i)
      BY <2>3, <2>4 DEF ShownBy, Binds
    <3>2. i \in 1..(idx - 1)
      BY <2>1, <2>2, <2>4, EntryIsAbove DEF OverAt
    <3> QED BY <1>1, <2>4, <3>1, <3>2 DEF BuildInv, TreesAsMeant
  <2> QED BY <2>2, <2>3, <2>4 DEF FsAt
<1> QED BY <1>1, Invariance, TreeInvariance, PTL
=============================================================================
