--------------------------- MODULE MCEnvAssembly ---------------------------
(* Instances of EnvAssembly for TLC: two variables, a third name that only   *)
(* the configuration uses because it contains a '=', and entries without     *)
(* '='.  The host's values differ from the configured one.                   *)
EXTENDS EnvAssembly, SequencesExt

CONSTANTS A, B, Bad, host, other, own

MCKeys  == {A, B, Bad}
MCVals  == {host, other, own}
MCSize  == (A :> 2) @@ (B :> 3) @@ (Bad :> 2)

HostEntries == [key : {A, B}, val : {host}] \cup
               {[key |-> A, val |-> other], [key |-> NoKey, val |-> host]}

MCEnvirons == SeqOf(HostEntries, 3)

MCConfigs ==
    [clear : BOOLEAN,
     keep  : {<<>>, <<A>>, <<A, B>>, <<B, B>>, <<Bad>>},
     set   : UNION {[S -> {own}] : S \in SUBSET MCKeys}]

=============================================================================
