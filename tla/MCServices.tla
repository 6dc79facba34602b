----------------------------- MODULE MCServices -----------------------------
(* The services beside the Ansible driver.  They share only the database, so   *)
(* one at a time is at work (focus) and the others rest as they began.         *)
EXTENDS Conductor, OaseJudgement, OaseActions, OaseCollection,
        LoadTable, TerraformCli, ContainerExecution, TLC

VARIABLE focus

servicesVars == <<focus, conductorVars, oaseVars, actionVars, collectionVars,
                  loadVars, terraformVars, containerVars>>

-----------------------------------------------------------------------------
(* Conductor classes, the nodes numbered in the order of their rows. *)

Class(type, out, condition, skip, endType) ==
  [type |-> type, out |-> out, skip |-> skip, rank |-> [n \in DOMAIN type |-> n],
   condition |-> [n \in DOMAIN type |-> IF n \in DOMAIN condition THEN condition[n] ELSE <<>>],
   endType |-> [n \in DOMAIN type |-> IF n \in DOMAIN endType THEN endType[n] ELSE "normal"]]

\* Two movements side by side, merged.
Merged == Class(<<"start", "parallel-branch", "movement", "movement", "merge", "end">>,
                <<{2}, {3, 4}, {5}, {5}, {6}, {}>>, <<>>, {}, <<>>)

\* A failure that a conditional branch takes over; a movement to be skipped.
Caught == Class(<<"start", "movement", "conditional-branch", "movement", "end", "end">>,
                <<{2}, {3}, {4, 6}, {5}, {}, {}>>,
                3 :> (4 :> {"normal"} @@ 6 :> {"else"}), {4}, 6 :> "warned")

\* A movement and a call side by side, each with its own end.
Forked == Class(<<"start", "parallel-branch", "movement", "call", "end", "end">>,
                <<{2}, {3, 4}, {5}, {6}, {}, {}>>, <<>>, {}, 6 :> "warned")

\* A status file decides between a call with a pause and the end.
Paused == Class(<<"start", "movement", "status-file-branch", "call", "pause", "end", "end">>,
                <<{2}, {3}, {4, 6}, {5}, {7}, {}, {}>>,
                3 :> (4 :> {"value"} @@ 6 :> {"else"}), {}, 7 :> "failed")

\* A caught failure beside one that is not.
Both == Class(<<"start", "parallel-branch", "movement", "end", "movement",
                "conditional-branch", "end", "movement", "end">>,
              <<{2}, {3, 5}, {4}, {}, {6}, {7, 8}, {}, {9}, {}>>,
              6 :> (7 :> {"failed"} @@ 8 :> {"normal"}), {8}, <<>>)

AllGraphs == {Merged, Caught, Forked, Paused, Both}

-----------------------------------------------------------------------------
(* Rules over two filters, of which f wants a single event. *)

Rule(a, b, op, acts, makes) == [a |-> a, b |-> b, op |-> op, acts |-> acts, makes |-> makes]
Alone(a, acts, makes) == Rule(a, "none", "single", acts, makes)

AllRules == {<<Rule("f", "g", "and", FALSE, {}), Alone("f", FALSE, {}), Alone("g", TRUE, {})>>,
             <<Rule("g", "f", "order", FALSE, {}), Alone("f", FALSE, {"g"})>>,
             <<Rule("f", "g", "xor", FALSE, {}), Alone("g", FALSE, {"f"})>>}

-----------------------------------------------------------------------------
(* Requests of two users for two records of a menu, unique in two columns. *)

Pair(a, b) == "a" :> a @@ "b" :> b
One(cmd, row, gives) == [cmd |-> cmd, row |-> row, gives |-> gives]

AllRequests ==
    {<<One("Register", "s", Pair("k", "k"))>>, <<One("Register", "s", "a" :> "k")>>, <<One("Update", "s", Pair("k", "k"))>>,
     <<One("Update", "s", "b" :> "k")>>, <<One("Update", "r", <<>>)>>,
     <<One("Restore", "s", <<>>)>>, <<One("Discard", "r", <<>>)>>,
     <<One("Restore", "r", <<>>)>>, <<One("Delete", "r", <<>>)>>,
     <<One("Discard", "r", <<>>), One("Update", "s", Pair("k", "k"))>>,
     <<One("Update", "s", Pair("k", "k")), One("Discard", "r", <<>>)>>,
     <<One("Update", "r", Pair("l", "k")), One("Register", "s", Pair("k", "k"))>>,
     <<One("Restore", "s", <<>>), One("Delete", "r", <<>>)>>}

AllTables == {[r |-> Row(1, Pair("k", "k"), FALSE), s |-> s] :
                s \in {Row(1, Pair("k", "k"), TRUE), Row(1, Pair("k", "l"), FALSE), Absent}}

-----------------------------------------------------------------------------
(* Two executions of one Terraform workspace; one that is booked only checks
   its parameters. *)

OneWorkspace == [e \in {"d", "e"} |-> "w"]
AllModes == {[e \in {"d", "e"} |-> "apply"], [d |-> "apply", e |-> "param"]}

-----------------------------------------------------------------------------
Services == {"conductor", "judgement", "actions", "collection", "load", "terraform", "container"}

Init ==
    /\ focus \in Services
    /\ ConductorInit /\ OaseInit /\ ActionInit /\ CollectionInit /\ LoadInit /\ TerraformInit
    /\ ContainerInit
    /\ focus = "conductor" \/ (graph = Merged /\ cstatus = "unexecuted")
    /\ focus = "judgement" \/ Len(rules) = 3
    /\ focus = "load" \/ (menu = "plain" /\ ~Exists(table, "s"))
    /\ status["d"] = "not_yet"
    /\ (status["e"] = "reserve") = (runMode["e"] = "param")
    /\ focus = "terraform" \/ runMode["e"] = "apply"
    /\ focus = "container" \/ purpose = "run"

\* The steps of one service, the others resting.
InConductor == /\ focus = "conductor"
               /\ UNCHANGED <<focus, oaseVars, actionVars, collectionVars, loadVars,
                              terraformVars, containerVars>>
InJudgement == /\ focus = "judgement"
               /\ UNCHANGED <<focus, conductorVars, actionVars, collectionVars, loadVars,
                              terraformVars, containerVars>>
InActions == /\ focus = "actions"
             /\ UNCHANGED <<focus, conductorVars, oaseVars, collectionVars, loadVars,
                            terraformVars, containerVars>>
InCollection == /\ focus = "collection"
                /\ UNCHANGED <<focus, conductorVars, oaseVars, actionVars, loadVars,
                               terraformVars, containerVars>>
InLoad == /\ focus = "load"
          /\ UNCHANGED <<focus, conductorVars, oaseVars, actionVars, collectionVars,
                         terraformVars, containerVars>>
InTerraform == /\ focus = "terraform"
               /\ UNCHANGED <<focus, conductorVars, oaseVars, actionVars, collectionVars,
                              loadVars, containerVars>>
InContainer == /\ focus = "container"
               /\ UNCHANGED <<focus, conductorVars, oaseVars, actionVars, collectionVars,
                              loadVars, terraformVars>>

\* Executions that both run terraform are alike: d is taken up first.
FirstIsFirst == runMode["e"] = "apply" /\ status'["e"] = "prepare" => status["d"] /= "not_yet"

Next == \/ InConductor /\ ConductorNext
        \/ InJudgement /\ OaseNext
        \/ InActions /\ ActionNext
        \/ InCollection /\ CollectionNext
        \/ InLoad /\ LoadNext
        \/ InTerraform /\ TerraformNext /\ FirstIsFirst
        \/ InContainer /\ ContainerNext

\* The fairness of each service's own specification, for the one at work: what
\* conductors, requests and children have to do stays to be done, so for them the strong
\* fairness of the executions says no more than their weak one.
Proceeds == \/ InConductor /\ PassSteps
            \/ InJudgement /\ PassGoesOn
            \/ InActions /\ (WriterSteps \/ MainSteps)
            \/ InCollection /\ AgentSteps
            \/ InTerraform /\ ParentSteps /\ FirstIsFirst
            \/ InContainer /\ OverseerSteps

Follows == \/ InConductor /\ \E n \in Members : ExecEnds(n)
           \/ InActions /\ \E l \in LogRows : ConductorEnds(l)
           \/ InCollection /\ ReceiverSteps
           \/ InTerraform /\ \E e \in Executions : ChildSteps(e)
           \/ InContainer /\ (ExecChildSteps \/ ContainerComes)

Spec == Init /\ [][Next]_servicesVars /\ WF_servicesVars(Proceeds) /\ SF_servicesVars(Follows)
=============================================================================
