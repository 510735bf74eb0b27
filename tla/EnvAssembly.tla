---------------------------- MODULE EnvAssembly ----------------------------
(***************************************************************************)
(* The environment of the command: Environment::prepare sizes the scratch  *)
(* storage in the host (pnut/src/sandbox/prepare.rs), the child fills it   *)
(* from the environ it got from clone3 (pnut-child/src/env.rs).            *)
(*                                                                         *)
(* The host's environ is read twice, by prepare through vars_os() and by   *)
(* clone3 as it copies the process; another thread may change it between.  *)
(* An entry of environ is a key with a value; an entry without a '=' is an *)
(* entry of NoKey: no key matches it, and vars_os() passes over it.        *)
(***************************************************************************)
EXTENDS Naturals, Sequences, FiniteSets

CONSTANTS
    Keys,       \* the names of variables
    NoKey,      \* stands in for the name of an entry without '='
    BadKeys,    \* the configured names that contain a '='
    Vals,       \* the values
    Size,       \* the bytes that "key=value" takes, by key
    Configs,    \* the [env] sections considered: clear, keep and set
    Environs    \* the environs that the host may have

ASSUME EnvSets ==
    /\ NoKey \notin Keys /\ BadKeys \subseteq Keys
    /\ Size \in [Keys -> Nat \ {0}]
    /\ IsFiniteSet(Keys)
    /\ \A c \in Configs :
           /\ c.clear \in BOOLEAN
           /\ c.keep \in Seq(Keys)
           /\ DOMAIN c.set \subseteq Keys /\ \A k \in DOMAIN c.set : c.set[k] \in Vals
    /\ \A e \in Environs :
           e \in Seq([key : (Keys \ BadKeys) \cup {NoKey}, val : Vals])

VARIABLES
    config,    \* the Environment of the call
    environ,   \* the host's environ until clone3, the child's from then on
    changed,   \* environ was changed after prepare() had counted it
    slots,     \* storage.envp.len()
    room,      \* storage.bytes.len()
    cursor,    \* how many entries of environ the child has looked at
    pending,   \* the keys of `set` not yet encoded
    out,       \* the entries in storage.envp
    bytes,     \* bytes_len
    phase      \* "prepare", "sized", "walk", "bind", "done" or the errno

vars == <<config, environ, changed, slots, room, cursor, pending, out, bytes,
          phase>>

Entry == [key : Keys \cup {NoKey}, val : Vals]

TypeOK ==
    /\ config \in Configs
    /\ environ \in Environs
    /\ changed \in BOOLEAN
    /\ slots \in Nat
    /\ cursor \in 0..Len(environ)
    /\ pending \subseteq DOMAIN config.set
    /\ out \in Seq(Entry)
    /\ bytes \in Nat
    /\ phase \in {"prepare", "sized", "walk", "bind", "done", "ENOSPC", "EINVAL"}

Init ==
    /\ config \in Configs
    /\ environ \in Environs
    /\ changed = FALSE
    /\ slots = 0
    /\ room = 0
    /\ cursor = 0
    /\ pending = {}
    /\ out = <<>>
    /\ bytes = 0
    /\ phase = "prepare"

-----------------------------------------------------------------------------
(* Which entries the child takes over.                                     *)

Kept == {config.keep[i] : i \in 1..Len(config.keep)}

\* entry_key_eq: a key with '=' matches nothing, and nothing matches NoKey.
Matches(e, ks) == e.key \in ks \ BadKeys

\* Variant: `set` is applied to what is left, but does not hide it.
ShouldIncludeSet(e) == config.clear => Matches(e, Kept)

ShouldInclude(e) ==
    /\ ~Matches(e, DOMAIN config.set)
    /\ config.clear => Matches(e, Kept)

-----------------------------------------------------------------------------
(* The host.                                                               *)

\* std::env::vars_os().count(): entries without '=' are passed over.
VarsOs(env) == Cardinality({i \in 1..Len(env) : env[i].key # NoKey})

\* The bytes of the bindings of S, <<k, n>> for the n-th of "k=value".
BytesOf(S) == UNION {{k} \X (1..Size[k]) : k \in S}

\* Variant: the bindings of `set` are not counted.
SizeWithoutSet ==
    /\ phase = "prepare"
    /\ slots' = 1 + IF config.clear THEN Len(config.keep) ELSE VarsOs(environ)
    /\ room' = Cardinality(BytesOf(DOMAIN config.set))
    /\ phase' = "sized"
    /\ UNCHANGED <<config, environ, changed, cursor, pending, out, bytes>>

\* Environment::prepare
SizeStorage ==
    /\ phase = "prepare"
    /\ slots' = 1 + Cardinality(DOMAIN config.set)
                  + IF config.clear THEN Len(config.keep) ELSE VarsOs(environ)
    /\ room' = Cardinality(BytesOf(DOMAIN config.set))
    /\ phase' = "sized"
    /\ UNCHANGED <<config, environ, changed, cursor, pending, out, bytes>>

\* Other threads of the host set and unset variables.
HostChanges ==
    /\ phase = "sized"
    /\ environ' \in Environs \ {environ}
    /\ changed' = TRUE
    /\ UNCHANGED <<config, slots, room, cursor, pending, out, bytes, phase>>

\* clone3: the child goes on with the environ of this moment.
CloneChild ==
    /\ phase = "sized"
    /\ phase' = "walk"
    /\ pending' = DOMAIN config.set
    /\ UNCHANGED <<config, environ, changed, slots, room, cursor, out, bytes>>

-----------------------------------------------------------------------------
(* The child.                                                              *)

\* Variant: the slot of the terminating null is given away.
PushAny(e, next) ==
    IF Len(out) >= slots
    THEN phase' = "ENOSPC" /\ UNCHANGED out
    ELSE out' = Append(out, e) /\ phase' = next

\* push_env_ptr: the last slot is for the terminating null.
Push(e, next) ==
    IF Len(out) + 1 >= slots
    THEN phase' = "ENOSPC" /\ UNCHANGED out
    ELSE out' = Append(out, e) /\ phase' = next

\* One turn of the loop over environ.
Walk ==
    /\ phase = "walk" /\ cursor < Len(environ)
    /\ LET e == environ[cursor + 1]
       IN IF ShouldInclude(e) THEN Push(e, "walk") ELSE UNCHANGED <<out, phase>>
    /\ cursor' = cursor + 1
    /\ UNCHANGED <<config, environ, changed, slots, room, pending, bytes>>

WalkEnds ==
    /\ phase = "walk" /\ cursor = Len(environ)
    /\ phase' = "bind"
    /\ UNCHANGED <<config, environ, changed, slots, room, cursor, pending, out,
                   bytes>>

\* encode_binding and push_env_ptr for one element of `set`, which is iterated
\* in the order of a HashMap: any.
Bind(k) ==
    /\ phase = "bind" /\ k \in pending
    /\ pending' = pending \ {k}
    /\ \/ /\ k \in BadKeys
          /\ phase' = "EINVAL"
          /\ UNCHANGED <<out, bytes>>
       \/ /\ k \notin BadKeys /\ bytes + Size[k] > room
          /\ phase' = "ENOSPC"
          /\ UNCHANGED <<out, bytes>>
       \/ /\ k \notin BadKeys /\ bytes + Size[k] <= room
          /\ bytes' = bytes + Size[k]
          /\ Push([key |-> k, val |-> config.set[k]], "bind")
    /\ UNCHANGED <<config, environ, changed, slots, room, cursor>>

\* The terminating null.
Finish ==
    /\ phase = "bind" /\ pending = {}
    /\ phase' = IF Len(out) >= slots THEN "ENOSPC" ELSE "done"
    /\ UNCHANGED <<config, environ, changed, slots, room, cursor, pending, out,
                   bytes>>

Next ==
    \/ SizeStorage \/ HostChanges \/ CloneChild \/ Walk \/ WalkEnds \/ Finish
    \/ \E k \in Keys : Bind(k)

Spec == Init /\ [][Next]_vars

-----------------------------------------------------------------------------
(* What the command finds.                                                 *)

Values(env, k) == {env[i].val : i \in {j \in 1..Len(env) : env[j].key = k}}

\* The [env] section is honoured for the environ at the moment of the clone,
\* whatever prepare() saw: `set` wins over the host and over `keep`, with
\* `clear` only what is kept remains, and without it all the host had
\* (should_include and encode_binding; [env] in pnut.toml.5).
CommandSees ==
    phase = "done" =>
        \A k \in Keys \cup {NoKey} :
            Values(out, k) =
                IF k \in DOMAIN config.set THEN {config.set[k]}
                ELSE IF config.clear /\ k \notin Kept THEN {}
                ELSE Values(environ, k)

\* What is written never exceeds the slots that the host sized, the null
\* included, even when environ has grown since (push_env_ptr).
NeverOverrun == phase \in {"walk", "bind", "done"} => Len(out) < slots

\* The child runs out of slots or bytes only if environ was changed after prepare() had
\* counted it, holds an entry that vars_os() does not count, or holds a kept
\* key twice: never because of the configuration alone (the capacities of
\* Environment::prepare against what env::prepare pushes).
Twice(k) == Cardinality({i \in 1..Len(environ) : environ[i].key = k}) > 1

NoSpaceForAReason ==
    phase = "ENOSPC" =>
        \/ changed
        \/ ~config.clear /\ Values(environ, NoKey) # {}
        \/ config.clear /\ \E k \in Kept \ DOMAIN config.set : Twice(k)

=============================================================================
