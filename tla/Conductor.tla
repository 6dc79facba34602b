------------------------------ MODULE Conductor ------------------------------
(* A conductor instance: the nodes of its graph, the executions its nodes     *)
(* start, the passes of ita_by_conductor_synchronize over it, and the user.   *)
(*                                                                            *)
(* A pass is one transaction under the lock of both tables, so the user and   *)
(* the drivers act between passes: what a driver writes during a pass is not  *)
(* in its snapshot.  The list of open instances is read before.               *)
EXTENDS Naturals, FiniteSets

CONSTANTS Graphs,     \* the conductor classes that may be executed
          MaxTroubles \* how often a query or a registration may fail

NodeTypes == {"start", "end", "movement", "call", "parallel-branch",
              "conditional-branch", "merge", "pause", "status-file-branch"}

\* T_COMN_CONDUCTOR_NODE_STATUS, the values the passes write.
NodeNormal == {"normal", "skipped", "warned"}
NodeError == {"failed", "exception", "scram"}
NodeEnd == NodeNormal \cup NodeError
NodeStatus == {"unexecuted", "executing", "delayed", "paused"} \cup NodeEnd

\* T_COMN_CONDUCTOR_STATUS
ConductorEnd == {"normal", "failed", "warned", "scram", "exception"}
ConductorOpen == {"unexecuted", "scheduled", "running", "delayed", "paused"}
ConductorStatus == ConductorOpen \cup ConductorEnd \cup {"cancelled"}

\* What a movement's row, or the row of a called conductor, tells the node:
\* "unstarted" is NOT_YET or PREPARE, or a conductor no pass has opened yet.
ExecEnded == {"complete", "warned", "failure", "exception", "scram"}
ExecStatus == {"none", "unstarted", "processing", "late"} \cup ExecEnded

-----------------------------------------------------------------------------
(* ConductorCommonLibs: what a class may look like. *)

\* _node_connect_point_condition: what a node of a type may lead to and follow.
MayLeadTo(t) ==
    CASE t = "start"           -> {"movement", "call", "parallel-branch"}
      [] t = "parallel-branch" -> {"movement", "call"}
      [] t \in {"movement", "call"} -> NodeTypes \ {"start"}
      [] t = "end"             -> {}
      [] OTHER                 -> {"end", "movement", "call", "parallel-branch", "pause"}

MayFollow(t) ==
    CASE t = "start" -> {}
      [] t = "end" -> {"movement", "call", "conditional-branch", "merge", "pause",
                       "status-file-branch"}
      [] t \in {"movement", "call"} -> NodeTypes \ {"end"}
      [] t = "parallel-branch" -> {"start", "movement", "call", "conditional-branch",
                                   "merge", "pause", "status-file-branch"}
      [] t = "merge" -> {"movement", "call", "pause"}
      [] t = "pause" -> {"movement", "call", "parallel-branch", "merge", "status-file-branch"}
      [] OTHER -> {"movement", "call"}

\* chk_node_conditions of every node.
Connected(g) == \A n \in DOMAIN g.type : \A m \in g.out[n] :
                    /\ m \in DOMAIN g.type
                    /\ g.type[m] \in MayLeadTo(g.type[n])
                    /\ g.type[n] \in MayFollow(g.type[m])

\* Each node with all that follow it: the least set closed under the edges.
After == [g \in Graphs |-> [n \in DOMAIN g.type |->
            {x \in DOMAIN g.type :
               \A S \in SUBSET DOMAIN g.type :
                 n \in S /\ (\A p \in S : g.out[p] \subseteq S) => x \in S}]]

Below(g, ms) == UNION {After[g][m] : m \in ms}

\* chk_parallel_marge: what a branch leads to is joined with nothing outside.
Separate(g) ==
    \A c \in DOMAIN g.type : g.type[c] \in {"conditional-branch", "status-file-branch"} =>
        \A m \in g.out[c] : \A n \in Below(g, {m}) :
            {p \in DOMAIN g.type : n \in g.out[p]} \subseteq Below(g, {m}) \cup {c}

\* _node_end_type_list: what an end node may say of the conductor.
EndTypes == {"normal", "warned", "failed"}

\* A class that passed the checks; rank is the order in which the database
\* returns the rows of its nodes.
IsClass(g) ==
    /\ IsFiniteSet(DOMAIN g.type)
    /\ \A n \in DOMAIN g.type : g.type[n] \in NodeTypes
    /\ Connected(g)
    /\ Separate(g)
    /\ \A n \in DOMAIN g.type : g.type[n] /= "merge" =>
         Cardinality({p \in DOMAIN g.type : n \in g.out[p]}) <= 1
    /\ Cardinality({n \in DOMAIN g.type : g.type[n] = "start"}) = 1
    /\ \A n \in DOMAIN g.type : g.type[n] = "end" => g.endType[n] \in EndTypes
    /\ g.skip \subseteq {n \in DOMAIN g.type : g.type[n] \in {"movement", "call"}}
    /\ \A n, m \in DOMAIN g.type : g.rank[n] = g.rank[m] => n = m

ASSUME ClassAssumption == \A g \in Graphs : IsClass(g)
ASSUME TroubleAssumption == MaxTroubles \in Nat

-----------------------------------------------------------------------------
VARIABLES graph,    \* the class settings, copied into the instance
          cstatus,  \* STATUS_ID of the conductor instance
          stopped,  \* ABORT_EXECUTE_FLAG of the conductor instance
          nstatus,  \* STATUS_ID of each node instance
          released, \* RELEASED_FLAG of the pause nodes
          exec,     \* status of the execution a node started
          file,     \* the status file its execution left: the value, or "none"
          pass,     \* the pass at work: where it is, nodes to do, update status
          troubles  \* how often something failed

conductorVars == <<graph, cstatus, stopped, nstatus, released, exec, file, pass, troubles>>

Members == DOMAIN graph.type
Of(t) == {n \in Members : graph.type[n] = t}
In(n) == {p \in Members : n \in graph.out[p]}
Drives(n) == graph.type[n] \in {"movement", "call"}
Idle == [pc |-> "idle", todo |-> {}, update |-> "none"]
Listed == [Idle EXCEPT !.pc = "listed"]
Unlocked == pass \in {Idle, Listed}

ConductorTypeOK ==
    /\ graph \in Graphs
    /\ cstatus \in ConductorStatus
    /\ stopped \in BOOLEAN
    /\ nstatus \in [Members -> NodeStatus]
    /\ released \in [Members -> BOOLEAN]
    /\ exec \in [Members -> ExecStatus]
    /\ file \in [Members -> {"none", "value"}]
    /\ pass \in [pc : {"idle", "listed", "nodes", "finish"}, todo : SUBSET Members,
                 update : ConductorStatus \cup {"none"}]
    /\ troubles \in 0..MaxTroubles

\* create_execute_register_parameter: every node unexecuted, skip flags copied.
ConductorInit ==
    /\ graph \in Graphs
    /\ cstatus \in {"unexecuted", "scheduled"}
    /\ stopped = FALSE
    /\ nstatus = [n \in Members |-> "unexecuted"]
    /\ released = [n \in Members |-> FALSE]
    /\ exec = [n \in Members |-> "none"]
    /\ file = [n \in Members |-> "none"]
    /\ pass = Idle
    /\ troubles = 0

-----------------------------------------------------------------------------
(* The user, in transactions under the same lock. *)

Scram == /\ Unlocked
         /\ cstatus \in {"running", "delayed", "paused"}
         /\ ~stopped
         /\ stopped' = TRUE
         /\ UNCHANGED <<graph, cstatus, nstatus, released, exec, file, pass, troubles>>

Release(n) == /\ Unlocked
              /\ graph.type[n] = "pause"
              /\ ~released[n]
              /\ nstatus[n] = "paused"
              /\ nstatus' = [nstatus EXCEPT ![n] = "executing"]
              /\ released' = [released EXCEPT ![n] = TRUE]
              /\ UNCHANGED <<graph, cstatus, stopped, exec, file, pass, troubles>>

CancelBooking == /\ Unlocked
                 /\ cstatus = "scheduled"
                 /\ cstatus' = "cancelled"
                 /\ UNCHANGED <<graph, stopped, nstatus, released, exec, file, pass, troubles>>

(* The drivers and the called conductors. *)

ExecWorks(n) ==
    /\ Unlocked
    /\ \/ exec[n] = "unstarted" /\ exec' = [exec EXCEPT ![n] = "processing"]
       \/ exec[n] = "processing" /\ exec' = [exec EXCEPT ![n] = "late"]
    /\ UNCHANGED <<graph, cstatus, stopped, nstatus, released, file, pass, troubles>>

ExecEnds(n) ==
    /\ Unlocked
    /\ exec[n] \in {"unstarted", "processing", "late"}
    /\ \E s \in ExecEnded :
         /\ s = "warned" => graph.type[n] = "call"
         /\ exec' = [exec EXCEPT ![n] = s]
         /\ \E f \in {"none", "value"} :
              /\ f = "value" => s = "complete" /\ graph.type[n] = "movement"
              /\ file' = [file EXCEPT ![n] = f]
    /\ UNCHANGED <<graph, cstatus, stopped, nstatus, released, pass, troubles>>

-----------------------------------------------------------------------------
(* What a node does to itself, to the nodes after it and to the conductor. *)

\* next_node_exec on the statuses s: the given nodes are put to work.
Started(s, next) == [m \in Members |-> IF m \in next THEN "executing" ELSE s[m]]

\* target_node_skip: the given nodes and all that follow them, up to the ends.
SkippedBelow(s, ms) == LET below == Below(graph, ms)
                       IN  [m \in Members |-> IF m \in below THEN "skipped" ELSE s[m]]

\* error_node_conditional_flg: of the failed movements and calls the last row
\* decides whether a conditional branch takes over.
HandledOnly(s, n) == \E m \in graph.out[n] : graph.type[m] = "conditional-branch"

BrokenFailed(s) == {n \in Members : Drives(n) /\ s[n] = "failed"}
Broken(s) == {n \in Members : Drives(n) /\ s[n] \in NodeError}

Unhandled(s) == \E n \in Broken(s) : /\ ~HandledOnly(s, n)
                                     /\ \A m \in Broken(s) : graph.rank[m] <= graph.rank[n]

\* Ends the turn of node n: the statuses s, and the conductor's update status u.
Turn(n, s, u) ==
    /\ nstatus' = s
    /\ pass' = [pass EXCEPT !.todo = @ \ {n}, !.update = u]

\* start_node_action, end_node_action and parallel_branch_node_action.
StartNode(n) ==
    /\ graph.type[n] \in {"start", "parallel-branch"}
    /\ IF stopped THEN Turn(n, [nstatus EXCEPT ![n] = "scram"], "scram")
                  ELSE Turn(n, Started([nstatus EXCEPT ![n] = "normal"], graph.out[n]), "running")
    /\ UNCHANGED <<exec, troubles>>

EndNode(n) ==
    /\ graph.type[n] = "end"
    /\ IF stopped THEN Turn(n, [nstatus EXCEPT ![n] = "scram"], "scram")
                  ELSE Turn(n, [nstatus EXCEPT ![n] = "normal"], graph.endType[n])
    /\ UNCHANGED <<exec, troubles>>

\* A movement or call has the status v: written if it changed, and when it has
\* ended the nodes after it start unless a failure stands in the way.
Reflect(n, v, written, u) ==
    LET s == [nstatus EXCEPT ![n] = v]
        blocked == \/ v \in NodeError /\ ~HandledOnly(s, n)
                   \/ Unhandled(s)
        quiet == IF stopped /\ exec[n] /= "none" THEN "scram"
                 ELSE IF graph.type[n] = "call" THEN "running" ELSE pass.update
    IN  IF v = nstatus[n] /\ ~written THEN Turn(n, nstatus, quiet)
        ELSE IF v \in NodeEnd /\ ~blocked THEN Turn(n, Started(s, graph.out[n]), u)
        ELSE Turn(n, s, u)

Trouble == troubles < MaxTroubles /\ troubles' = troubles + 1

\* movement_node_action and call_node_action, nothing executed yet: a movement
\* that cannot be registered is tried again, a call has failed.
Execute(n) ==
    /\ Drives(n) /\ exec[n] = "none"
    /\ \/ /\ stopped
          /\ Reflect(n, "scram", FALSE, "scram")
          /\ UNCHANGED <<exec, troubles>>
       \/ /\ ~stopped /\ n \in graph.skip
          /\ Reflect(n, "skipped", FALSE, "running")
          /\ UNCHANGED <<exec, troubles>>
       \/ /\ ~stopped /\ n \notin graph.skip
          /\ Reflect(n, "executing", TRUE, "running")
          /\ exec' = [exec EXCEPT ![n] = "unstarted"]
          /\ UNCHANGED troubles
       \/ /\ ~stopped /\ n \notin graph.skip
          /\ Trouble
          /\ IF graph.type[n] = "call" THEN Reflect(n, "failed", FALSE, "failed")
                                       ELSE Reflect(n, "executing", FALSE, "running")
          /\ UNCHANGED exec

\* The node's status for the status of its execution, and the conductor's.
NodeOf == [unstarted |-> "executing", processing |-> "executing", late |-> "delayed",
           complete |-> "normal", warned |-> "warned", failure |-> "failed",
           exception |-> "exception", scram |-> "scram"]

ConductorOfRaw(n) == IF exec[n] = "complete" THEN "normal" ELSE exec[n]

ConductorOf(n) ==
    CASE exec[n] \in {"unstarted", "processing"} -> "running"
      [] exec[n] = "late"     -> "delayed"
      [] exec[n] = "complete" -> "normal"
      [] exec[n] = "failure"  -> "failed"
      [] exec[n] = "exception" -> IF graph.type[n] = "call" THEN "exception" ELSE "failed"
      [] OTHER                -> exec[n]

\* The same, once there is an execution: asked to stop, then read.
Follow(n) ==
    /\ Drives(n) /\ exec[n] /= "none"
    /\ Reflect(n, NodeOf[exec[n]], FALSE, ConductorOf(n))
    /\ UNCHANGED <<exec, troubles>>

\* The branch the conditions choose: in their absence the else branch.
Chosen(n, key) ==
    LET match == {m \in graph.out[n] : key \in graph.condition[n][m]}
        other == {m \in graph.out[n] : "else" \in graph.condition[n][m]}
    IN  IF match /= {} THEN match ELSE other

\* conditional_branch_node_action and status_file_branch_node_action.
BranchNode(n) ==
    LET p == CHOOSE p \in In(n) : TRUE
        key == IF graph.type[n] = "conditional-branch" THEN nstatus[p] ELSE file[p]
        chosen == Chosen(n, key)
        s == SkippedBelow([nstatus EXCEPT ![n] = "normal"], graph.out[n] \ chosen)
    IN  /\ graph.type[n] \in {"conditional-branch", "status-file-branch"}
        /\ IF stopped THEN Turn(n, [nstatus EXCEPT ![n] = "scram"], "scram")
                      ELSE Turn(n, Started(s, chosen), "running")
        /\ UNCHANGED <<exec, troubles>>

\* What a merge waits for.
MergesAny(n) == \E p \in In(n) : nstatus[p] \in NodeNormal
Merges(n) == \A p \in In(n) : nstatus[p] \in NodeNormal

MergeNode(n) ==
    LET v == IF stopped THEN "scram" ELSE "normal"
        u == IF stopped THEN "scram" ELSE pass.update
        s == [nstatus EXCEPT ![n] = v]
    IN  /\ graph.type[n] = "merge"
        /\ IF Merges(n)
           THEN Turn(n, Started(s, graph.out[n]), u)
           ELSE Turn(n, IF stopped THEN s ELSE nstatus, u)
        /\ UNCHANGED <<exec, troubles>>

PauseNode(n) ==
    /\ graph.type[n] = "pause"
    /\ IF stopped
       THEN Turn(n, [nstatus EXCEPT ![n] = "scram"], "scram")
       ELSE IF nstatus[n] = "executing" \/ ~released[n]
       THEN Turn(n, [nstatus EXCEPT ![n] = "paused"], "paused")
       ELSE Turn(n, Started([nstatus EXCEPT ![n] = "normal"], graph.out[n]), "running")
    /\ UNCHANGED <<exec, troubles>>

-----------------------------------------------------------------------------
(* A pass. *)

\* The nodes at work, a start node that is still to be started, and the nodes at
\* work that execute nothing themselves.
BusyUndelayed == {n \in Members : nstatus[n] \in {"executing", "paused"}}
Busy == {n \in Members : nstatus[n] \in {"executing", "delayed", "paused"}}
FirstAlways == Of("start")
FirstToStart == {n \in Of("start") : nstatus[n] = "unexecuted"}
WaitingNodes == {n \in Members : nstatus[n] \in {"executing", "delayed"} /\ ~Drives(n)}

Severity(t) == CASE t = "failed" -> 2 [] t = "warned" -> 1 [] OTHER -> 0

\* chk_conductor_end: the status a conductor ends with.
EndStatus(s) ==
    LET types == {graph.endType[n] : n \in {m \in Of("end") : s[m] = "normal"}}
        has(v) == \E n \in Members : s[n] = v
    IN  IF types /= {} THEN CHOOSE t \in types : \A d \in types : Severity(d) <= Severity(t)
        ELSE IF \A n \in Members : s[n] \in NodeNormal THEN "normal"
        ELSE IF stopped THEN "scram"
        ELSE IF has("failed") THEN "failed"
        ELSE IF has("scram") THEN "scram"
        ELSE IF has("exception") THEN "exception" ELSE "normal"

\* get_execute_conductor_list: a booking may be cancelled after it.
List == /\ pass = Idle
        /\ cstatus \in ConductorOpen
        /\ pass' = Listed
        /\ UNCHANGED <<graph, cstatus, stopped, nstatus, released, exec, file, troubles>>

\* conductor_status_update opens the instance, and ends one cancelled since it was
\* listed; then the start node alone, or every node at work.
PassStart ==
    LET ended == IF cstatus = "cancelled" THEN EndStatus(nstatus) ELSE "none"
    IN  /\ pass = Listed
        /\ cstatus' = CASE cstatus = "cancelled" -> ended
                        [] cstatus \in {"unexecuted", "scheduled"} -> "running"
                        [] OTHER -> cstatus
        /\ pass' = [pc |-> "nodes", todo |-> IF FirstToStart /= {} THEN FirstToStart ELSE Busy,
                    update |-> ended]
        /\ UNCHANGED <<graph, stopped, nstatus, released, exec, file, troubles>>

\* Statuses are gone through in the order executing, delayed, paused.
Turns(n) == CASE nstatus[n] = "delayed" -> 1 [] nstatus[n] = "paused" -> 2 [] OTHER -> 0

First(n) == \A m \in pass.todo : \/ Turns(n) < Turns(m)
                                 \/ Turns(n) = Turns(m) /\ graph.rank[n] <= graph.rank[m]

\* execute_node_action
NodeTurn(n) ==
    /\ pass.pc = "nodes"
    /\ n \in pass.todo /\ First(n)
    /\ StartNode(n) \/ EndNode(n) \/ Execute(n) \/ Follow(n)
       \/ BranchNode(n) \/ MergeNode(n) \/ PauseNode(n)
    /\ UNCHANGED <<graph, cstatus, stopped, released, file>>

\* The status of an execution cannot be read: the other nodes are passed over,
\* what was done so far is kept.
NodeBreaks(n) ==
    /\ pass.pc = "nodes"
    /\ n \in pass.todo /\ First(n)
    /\ Trouble
    /\ Drives(n) /\ exec[n] /= "none"
    /\ pass' = [pc |-> "finish", todo |-> {},
                update |-> IF stopped THEN "scram"
                           ELSE IF graph.type[n] = "call" THEN "running" ELSE pass.update]
    /\ UNCHANGED <<graph, cstatus, stopped, nstatus, released, exec, file>>

NodesDone == /\ pass.pc = "nodes" /\ pass.todo = {}
             /\ pass' = [pass EXCEPT !.pc = "finish"]
             /\ UNCHANGED <<graph, cstatus, stopped, nstatus, released, exec, file, troubles>>

\* Nodes at work keep a conductor open; after a failure nobody handles, those
\* that only wait are failed.
CheckEnd ==
    LET drives == {n \in Members : nstatus[n] \in {"executing", "delayed"} /\ Drives(n)}
        failed(ms) == [n \in Members |-> IF n \in ms THEN "failed" ELSE nstatus[n]]
    IN  IF Busy = {} THEN /\ cstatus' = EndStatus(nstatus)
                          /\ UNCHANGED nstatus
        ELSE IF ~Unhandled(nstatus) THEN UNCHANGED <<cstatus, nstatus>>
        ELSE IF drives = {} THEN /\ nstatus' = failed(WaitingNodes)
                                 /\ cstatus' = EndStatus(nstatus)
        ELSE /\ \E ms \in SUBSET WaitingNodes : nstatus' = failed(ms)
             /\ UNCHANGED cstatus

\* conductor_status_update, and the commit.
PassEnd ==
    LET update == IF cstatus = "delayed" /\ pass.update = "running"
                  THEN "delayed" ELSE pass.update
    IN  /\ pass.pc = "finish"
        /\ CASE update = cstatus -> UNCHANGED <<cstatus, nstatus>>
             [] update /= cstatus /\ update \in ConductorOpen ->
                    cstatus' = update /\ UNCHANGED nstatus
             [] OTHER -> CheckEnd
        /\ pass' = Idle
        /\ UNCHANGED <<graph, stopped, released, exec, file, troubles>>

PassSteps == List \/ PassStart \/ NodesDone \/ PassEnd \/ \E n \in Members : NodeTurn(n)

ConductorNext ==
    \/ Scram \/ CancelBooking \/ PassSteps
    \/ \E n \in Members : Release(n) \/ ExecWorks(n) \/ ExecEnds(n) \/ NodeBreaks(n)

ConductorSpec == ConductorInit /\ [][ConductorNext]_conductorVars

(* The synchronizer loops.  Executions end, and what they leave is seen by the *)
(* passes after that: the passes between do not keep them from it.  Of the     *)
(* users nothing is assumed.                                                   *)
ConductorFairness == /\ WF_conductorVars(PassSteps)
                     /\ SF_conductorVars(\E n \in Members : ExecEnds(n))

ConductorFairSpec == ConductorSpec /\ ConductorFairness

-----------------------------------------------------------------------------
Live == {"unstarted", "processing", "late"}

\* chk_conductor_end: a conductor that has ended leaves no movement and no
\* called conductor at work, whatever failed, was stopped or was skipped.
NothingLeftRunning == cstatus \in ConductorEnd => \A n \in Members : exec[n] \notin Live

\* An ended node that lets go of what comes after it: what merges it has waited
\* for has all ended well.
LetsGo(p) == /\ nstatus[p] \in NodeEnd
             /\ graph.type[p] = "merge" => \A q \in In(p) : nstatus[q] \in NodeNormal

\* No node is started before its turn: a movement or call that executes
\* anything, and any node that is not behind a merge, follows one that ended;
\* a merge that ended well follows only nodes that ended well.
OrderKept ==
    \A n \in Members :
        /\ graph.type[n] /= "merge" /\ nstatus[n] /= "unexecuted" => \A p \in In(n) : LetsGo(p)
        /\ graph.type[n] = "merge" /\ nstatus[n] \in NodeNormal
             => \A p \in In(n) : nstatus[p] \in NodeNormal

\* A node that ended well is never put to work again nor judged anew, by a
\* later pass, a late branch or the skipping of others.
WellEndedIsFinal ==
    [][\A n \in Members : nstatus[n] \in NodeNormal => nstatus'[n] = nstatus[n]]_conductorVars

\* Of the movements below one parallel branch some leave their failure to a
\* conditional branch and others do not.
Mixed(g) == \E n, m \in DOMAIN g.type :
    /\ g.type[n] \in {"movement", "call"} /\ g.type[m] \in {"movement", "call"}
    /\ \E c \in g.out[n] : g.type[c] = "conditional-branch"
    /\ \A c \in g.out[m] : g.type[c] /= "conditional-branch"
    /\ \E p \in DOMAIN g.type : /\ g.type[p] = "parallel-branch"
                                /\ {n, m} \subseteq Below(g, {p})

Unmixed == {g \in Graphs : ~Mixed(g)}

OnHold == \E n \in Members : nstatus[n] = "paused"

\* A conductor does not run for ever: a started one ends, or waits for a user at a
\* pause node; a stopped one ends, whatever waited, was on hold or at work.
ConductorSettles ==
    []<>(/\ cstatus \in {"running", "delayed", "paused"}
         /\ graph \in Unmixed \/ stopped
         => OnHold /\ ~stopped)
=============================================================================
