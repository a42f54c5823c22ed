------------------------------ MODULE MCSwarm ------------------------------
(* Small plans for the swarm: the shapes a planner can answer with. *)
EXTENDS Swarm

Ids == {"t1", "t2", "t3", "t4"}

T(name, needs) == [id |-> name, deps |-> needs]

Chain    == <<T("t1", {}), T("t2", {"t1"}), T("t3", {"t2"})>>
FanIn    == <<T("t3", {"t1", "t2"}), T("t1", {}), T("t2", {})>>
FanOut   == <<T("t1", {}), T("t2", {"t1"}), T("t3", {"t1"})>>
(* Longer than MaxWorkers, with nothing to wait for. *)
Wide     == <<T("t1", {}), T("t2", {}), T("t3", {}), T("t4", {})>>
Cycle    == <<T("t1", {"t2"}), T("t2", {"t1"})>>
Unknown  == <<T("t1", {}), T("t2", {"t3"})>>
SelfDep  == <<T("t1", {"t1"}), T("t2", {})>>
Single   == <<T("t1", {})>>
(* One id on two entries: only the first is ever found. *)
Repeated == <<T("t1", {"t2"}), T("t1", {}), T("t2", {})>>
(* Longer too: the dependency of t4 is cut off. *)
CutOff   == <<T("t4", {"t3"}), T("t1", {}), T("t2", {}), T("t3", {})>>

AllPlans == {<<>>, Chain, FanIn, FanOut, Wide, Cycle, Unknown, SelfDep,
             Single, Repeated, CutOff}

ShortPlans == {<<T("t1", {}), T("t2", {"t1"})>>, <<T("t1", {}), T("t2", {})>>, Single}

=============================================================================
