--------------------------- MODULE MCChildRuntime ---------------------------
(* Instances of ChildRuntime for TLC.  The parts that a completion sink asks *)
(* for are taken in every combination, with at most one of the ways in which *)
(* an fd action or a number spoils the sink; the others are there all       *)
(* together or not at all; the capability plan keeps CAP_SYS_ADMIN or drops  *)
(* it.  Filters are all those that tell the three calls apart.               *)
EXTENDS ChildRuntime

SinkParts == {"status", "completion", "mounts", "rlimits", "caps",
              "close_fds", "no_new_privs", "seccomp"}

Spoils == {"hit_status", "hit_sink", "clash"}

Rest == Parts \ (SinkParts \cup Spoils \cup {"keep_admin"})

SinkSpecs ==
    {p \cup q \cup s : p \in SUBSET SinkParts,
                      q \in {{}, Rest, {"keep_admin"}, Rest \cup {"keep_admin"}},
                      s \in {{}} \cup {{h} : h \in Spoils}}

AllFilters == [Filtered -> Verdicts]

=============================================================================
