------------------------------ MODULE MCAgents ------------------------------
(* Instances of AnsibleExecution: model values and the drivers of executions. *)
EXTENDS AnsibleInvariant, TLC

CONSTANTS e1, e2, e3, a1, a2

OneExecution == {e1}
TwoExecutions == {e1, e2}
ThreeExecutions == {e1, e2, e3}
OneAgent == {a1}
TwoAgents == {a1, a2}

\* All executions of one driver, or the last one of another.
SameDriver == [e \in Executions |-> "legacy"]
TwoDrivers == [e \in Executions |-> IF e = e1 THEN "pioneer" ELSE "legacy"]

NoCheckOnly == {}
ThirdCheckOnly == {e3}

\* The agents are alike, and no run of this symmetry checks liveness.
AgentSymmetry == Permutations(Agents)
=============================================================================
