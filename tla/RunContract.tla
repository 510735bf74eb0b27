----------------------------- MODULE RunContract -----------------------------
(***************************************************************************)
(* What a caller of `Sandbox::run` may rely on, with no word about pipes,  *)
(* ID maps or signals: a call ends at most once; it ends in Ok only when   *)
(* its child is dead, and then either the command ran or a signal took the *)
(* child, unless the plan of the run itself may silence its child; it ends *)
(* in an error only when the command never ran, and after an error the     *)
(* command will not run either.                                            *)
(***************************************************************************)
CONSTANTS
    Runs,
    Unheard   \* the runs whose plan may silence the child that fails

VARIABLES
    child,    \* "none", "setup", "command" or "gone"
    ran,      \* the runs whose command was executed
    killed,   \* the runs whose child was killed by a signal
    outcome   \* "none", "ok" or "error"

vars == <<child, ran, killed, outcome>>

Init ==
    /\ child = [r \in Runs |-> "none"]
    /\ ran = {}
    /\ killed = {}
    /\ outcome = [r \in Runs |-> "none"]

\* The child exists and is being set up.
Start(r) ==
    /\ child[r] = "none" /\ outcome[r] = "none"
    /\ child' = [child EXCEPT ![r] = "setup"]
    /\ UNCHANGED <<ran, killed, outcome>>

\* Setup is complete: the command takes the child over.
Inhabit(r) ==
    /\ child[r] = "setup" /\ outcome[r] = "none"
    /\ child' = [child EXCEPT ![r] = "command"]
    /\ ran' = ran \cup {r}
    /\ UNCHANGED <<killed, outcome>>

\* Some children end, each by itself or by a signal.
End ==
    \E dead \in SUBSET {r \in Runs : child[r] \in {"setup", "command"}} :
        /\ child' = [r \in Runs |-> IF r \in dead THEN "gone" ELSE child[r]]
        /\ \E k \in SUBSET dead : killed' = killed \cup k
        /\ UNCHANGED <<ran, outcome>>

ReturnOk(r) ==
    /\ outcome[r] = "none" /\ child[r] = "gone"
    /\ r \in ran \cup killed \cup Unheard
    /\ outcome' = [outcome EXCEPT ![r] = "ok"]
    /\ UNCHANGED <<child, ran, killed>>

ReturnError(r) ==
    /\ outcome[r] = "none" /\ r \notin ran
    /\ outcome' = [outcome EXCEPT ![r] = "error"]
    /\ UNCHANGED <<child, ran, killed>>

Next ==
    \/ End
    \/ \E r \in Runs : Start(r) \/ Inhabit(r) \/ ReturnOk(r) \/ ReturnError(r)

Spec == Init /\ [][Next]_vars
=============================================================================
