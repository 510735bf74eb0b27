---------------------------- MODULE MCMountSetup ----------------------------
(* Instances of MountSetup for TLC: every table of at most MaxEntries from a *)
(* pool that has each kind of entry, nested destinations, destinations below *)
(* /dev, in procfs, on the staging directory and outside the new root, and   *)
(* the empty one.                                                            *)
EXTENDS MountSetup

CONSTANT MaxEntries   \* bounds the length of a table

E(kind, src, dst, ro) == [kind |-> kind, src |-> src, dst |-> dst, readOnly |-> ro]

Pool ==
    {E(k, "d", <<"a">>, ro) : k \in Binds, ro \in BOOLEAN} \cup
    {E("bind", "g", <<"a">>, TRUE), E("prepared", "g", <<"a", "x">>, TRUE),
     E("bind", "g", <<"dev", "null">>, FALSE),
     E("tmpfs", "none", <<"a", "v">>, TRUE), E("tmpfs", "none", <<"dev">>, FALSE),
     E("tmpfs", "none", <<"a", "y", "z">>, FALSE),
     E("tmpfs", "none", <<".pnut-content">>, FALSE),
     E("proc", "none", <<"a">>, FALSE), E("mqueue", "none", <<"dev", "mqueue">>, FALSE),
     E("tmpfs", "none", <<>>, FALSE), E("tmpfs", "none", <<"a", "sys">>, FALSE),
     E("tmpfs", "none", <<Up, "a">>, FALSE), E("bind", "d", <<Up, "a", "x">>, FALSE),
     E("file", "none", <<Up, "a", "x", "y">>, TRUE),
     E("file", "none", <<"a", "x">>, TRUE), E("file", "none", <<"a", "v", "w">>, FALSE),
     E("file", "none", <<"b">>, TRUE)}

NodeList == <<"null">>
NameSet  == {"a", "b", "v", "w", "x", "y", "z", "dev", "null", "shm", "pts", "mqueue",
             "sys", ".pnut-content", Up}

MCTables == SeqOf(Pool, MaxEntries)
=============================================================================
