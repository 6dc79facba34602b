----------------------------- MODULE MCScheduler ----------------------------
(* Instances of AnsibleScheduler. *)
EXTENDS AnsibleScheduler

CONSTANTS e1, e2, e3, e4, o1, o2

FourExecutions == {e1, e2, e3, e4}
ThreeExecutions == {e1, e2, e3}
TwoOrganizations == {o1, o2}

\* o1 has two executions and a limit of one; o2 has two and none.
Owner == [e \in Executions |-> IF e \in {e3, e4} THEN o2 ELSE o1]
Limits == [o \in Organizations |-> IF o = o1 THEN 1 ELSE 0]
BothLimited == [o \in Organizations |-> IF o = o1 THEN 1 ELSE 2]
OneBooked == {e2}

\* o1 runs containers and o2 containers or agents; or both run agents.
Mixed == {s \in [Organizations -> Engines] : s[o1] = "container"}
MixedAgents == {s \in Mixed : s[o2] = "agent"}
Nobody == {}
Second == {o2}
Agents == {[o \in Organizations |-> "agent"]}
=============================================================================
