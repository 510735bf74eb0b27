------------------------------ MODULE MCFdPlan ------------------------------
(* Instances of FdPlan for TLC: stdio is always open, three descriptors are  *)
(* mapped or closed in every way by a few actions, descriptor 6 is the       *)
(* status pipe and 5 may be the completion sink.  A mapping of -1 onto -1    *)
(* is skipped by apply_actions, but its destination is in the keep list.     *)
EXTENDS FdPlan, SequencesExt

Mapped == 3..5
Opens  == {{0, 1, 2} \cup S \cup {6} : S \in SUBSET Mapped}

MapActions == {Dup2(s, d) : s \in Mapped, d \in {1} \cup Mapped} \cup {Dup2(-1, -1)}
AnyActions == MapActions \cup {Close(f) : f \in Mapped}

\* Plans of FileDescriptors: mappings with distinct destinations.
PlanLists == {as \in SeqOf(MapActions, 3) :
                 \A i, j \in 1..Len(as) : i # j => as[i].dst # as[j].dst}

\* Lists of a direct user of pnut-child, with keep lists in ascending order.
SortedKeeps == {<<>>, <<4>>, <<3, 5>>, <<4, 6>>, <<3, 4, 5>>, <<0, 1, 2, 4>>}
DirectLists == SeqOf(AnyActions, 2) \X SortedKeeps

Extras == {{-1}, {6, -1}, {6, 5}}

=============================================================================
