-------------------------- MODULE AnsibleExecution --------------------------
(* The life of executions run by agents: backyard, receiver and agents meet  *)
(* in the rows and in the calls.  No component waits for another.            *)
EXTENDS AnsibleBackyard, AnsibleAgent

CONSTANTS MaxCalls,  \* bound: calls of each kind under way at a time
          Events     \* the kinds of event that may cross the normal course

ASSUME BoundAssumption == MaxCalls \in Nat
ASSUME EventAssumption == Events \subseteq {"scram", "delay", "parent", "child", "handler",
                                            "fetches", "posts", "main", "worker", "runner"}

vars == <<rowVars, backyardVars, netVars, agentVars>>

TypeOK == RowTypeOK /\ BackyardTypeOK /\ ReceiverTypeOK /\ AgentTypeOK

Init == RowInit /\ BackyardInit /\ ReceiverInit /\ AgentInit

-----------------------------------------------------------------------------
(* The steps of each component when nothing goes wrong with it. *)

\* The user and the clock.
User(e) == "scram" \in Events /\ Scram(e) /\ UNCHANGED <<backyardVars, netVars, agentVars>>
Clock(e) == TimePasses(e) /\ UNCHANGED <<backyardVars, netVars, agentVars>>

ParentStep(e) == Parent(e) /\ UNCHANGED <<netVars, agentVars>>
GiveUpStep(e) == GiveUp(e) /\ UNCHANGED <<netVars, agentVars>>
ChildStep(e) == Child(e) /\ UNCHANGED <<netVars, agentVars>>
DelayedStep(e) == /\ "delay" \in Events /\ MonitorDelayed(e)
                  /\ UNCHANGED <<netVars, agentVars>>

\* By what a call has selected or says, and how far its handler is, so that
\* fairness reaches each of them.
FetchServed(a, rows) ==
    /\ \E f \in fetches : /\ f.agent = a /\ f.rows = rows
                          /\ FetchRead(f) \/ FetchCommit(f) \/ FetchDropped(f)
    /\ UNCHANGED <<backyardVars, agentVars>>

PostServed(a, e, s, pc) ==
    /\ \E p \in posts : /\ p.agent = a /\ p.exec = e /\ p.post = s /\ p.pc = pc
                        /\ PostRead(p) \/ PostCommit(p) \/ PostDropped(p)
    /\ UNCHANGED <<backyardVars, agentVars>>

MainStep(a) ==
    /\ \/ CreateStatusFile(a)
       \/ Fetch(a) /\ Cardinality(fetches) < MaxCalls
       \/ \E f \in fetches : f.agent = a /\ FetchAnswer(f)
       \/ \E e \in Executions :
            \/ Spawn(a, e)
            \/ Report(a, e) /\ Cardinality(posts) < MaxCalls
       \/ \E p \in posts : p.agent = a /\ ReportEnds(p)
    /\ UNCHANGED backyardVars

BeatStep(a, e) == Heartbeat(a, e) /\ UNCHANGED backyardVars

WorkerStep(a, e) ==
    /\ \/ StartRunner(a, e)
       \/ \E p \in posts : p.agent = a /\ p.exec = e /\ PostAnswer(p)
       \/ /\ Poll(a, e) \/ StopRunner(a, e) \/ StopFails(a, e) \/ LastPost(a, e)
          /\ Cardinality(posts) < MaxCalls
    /\ UNCHANGED backyardVars

RunnerStep(a, e) == RunnerEnds(a, e) /\ UNCHANGED backyardVars

-----------------------------------------------------------------------------
(* What may go wrong, by kind. *)

BackyardFault ==
    /\ \/ "parent" \in Events /\ ParentDies
       \/ "child" \in Events /\ \E e \in Executions : ChildDies(e) \/ ChildRaises(e)
    /\ UNCHANGED <<netVars, agentVars>>

HandlerFault ==
    /\ "handler" \in Events
    /\ \/ \E f \in fetches : FetchRollback(f)
       \/ \E p \in posts : PostLost(p)
    /\ UNCHANGED <<backyardVars, agentVars>>

NetFault ==
    /\ \/ /\ "fetches" \in Events
          /\ \E f \in fetches :
               FetchGiveUp(f) \/ (FetchRetry(f) /\ Cardinality(fetches) < MaxCalls)
       \/ /\ "posts" \in Events
          /\ \/ \E p \in posts :
                  PostGiveUp(p) \/ (PostRetry(p) /\ Cardinality(posts) < MaxCalls)
             \/ \E a \in Agents, e \in Executions :
                  ReportNotUploaded(a, e) \/ LastUploadFails(a, e)
    /\ UNCHANGED backyardVars

AgentFault ==
    /\ \/ "main" \in Events /\ \E a \in Agents : MainCrash(a)
       \/ \E a \in Agents, e \in Executions :
            \/ "worker" \in Events /\ WorkerCrash(a, e)
            \/ "worker" \in Events /\ WorkerFails(a, e)
            \/ "worker" \in Events /\ PollBroken(a, e) /\ Cardinality(posts) < MaxCalls
            \/ "runner" \in Events /\ RunnerVanishes(a, e)
    /\ UNCHANGED backyardVars

-----------------------------------------------------------------------------
Next ==
    \/ \E e \in Executions :
         \/ User(e) \/ Clock(e)
         \/ ParentStep(e) \/ ChildStep(e) \/ DelayedStep(e)
    \/ \E a \in Agents :
         \/ MainStep(a)
         \/ \E rows \in SUBSET Executions : FetchServed(a, rows)
         \/ \E e \in Executions :
              \/ BeatStep(a, e) \/ WorkerStep(a, e) \/ RunnerStep(a, e)
              \/ \E s \in Posted, pc \in {"sent", "read"} : PostServed(a, e, s, pc)
    \/ BackyardFault \/ HandlerFault \/ NetFault \/ AgentFault

Spec == Init /\ [][Next]_vars

(* The parent looks at every running row in every pass, a child sleeps three *)
(* seconds between looks, threads serve every call, an agent and its         *)
(* children loop: none of them waits for anything but its own step.          *)
Fairness ==
    /\ \A e \in Executions : /\ WF_vars(Clock(e))
                             /\ SF_vars(ParentStep(e))
                             /\ SF_vars(GiveUpStep(e))
                             /\ WF_vars(ChildStep(e))
    /\ \A a \in Agents : /\ WF_vars(MainStep(a))
                         /\ \A rows \in SUBSET Executions : WF_vars(FetchServed(a, rows))
    /\ \A a \in Agents, e \in Executions :
         /\ WF_vars(WorkerStep(a, e))
         /\ \A s \in Posted, pc \in {"sent", "read"} : WF_vars(PostServed(a, e, s, pc))

\* A playbook comes to an end and leaves its rc file.
RunnerFairness == \A a \in Agents, e \in Executions : WF_vars(RunnerStep(a, e))

FairSpec == Spec /\ Fairness
LiveSpec == FairSpec /\ RunnerFairness

-----------------------------------------------------------------------------
(* Safety. *)

\* COMPLETE is never said of an execution whose runner did not end with rc 0:
\* not by a late, repeated or overtaken notification, whoever else runs it.
NoFalseCompletion ==
    \A e \in Executions : status[e] = "COMPLETE" =>
        e \in CheckOnly \/ \E a \in Agents : runner[a][e] = "ok"

\* SCRAM means that the user asked for it, the order reached a child, and
\* that the child's runner no longer runs.
ScramIsGenuine ==
    \A e \in Executions : status[e] = "SCRAM" =>
        abort[e] /\ \E a \in Agents : forced[a][e] /\ runner[a][e] /= "running"

\* As long as the row has not left PREPARE_COMPLETE no agent has the execution
\* and no process of one was ever started for it.
OfferedIsUntaken ==
    \A e \in Executions : status[e] \in {"NOT_YET", "PREPARE", "PREPARE_COMPLETE"} =>
        \A a \in Agents : /\ e \notin todo[a]
                          /\ worker[a][e] = "none" /\ runner[a][e] = "none"
                          /\ ~statusfile[a][e]

\* An agent never has more children at work than its EXECUTION_LIMIT.
ExecutionLimitKept ==
    \A a \in Agents :
        Cardinality({e \in Executions : worker[a][e] /= "none"}) <= ExecutionLimit

\* "Row lock of each execution table": an execution is handed to one agent.
AtMostOneAgent ==
    \A e \in Executions : Cardinality({a \in Agents : worker[a][e] /= "none"}) <= 1

-----------------------------------------------------------------------------
(* What a step may not do. *)

\* A writer that read the row of e some time ago and may yet change it.
Outstanding(e) ==
    \/ child[e] /= "none"
    \/ giveup = e
    \/ \E f \in fetches : f.pc = "read" /\ e \in f.rows
    \/ \E p \in posts : p.pc = "read" /\ p.exec = e /\ p.post /= status[e]

Settled(e) == status[e] \in Terminal /\ ~Outstanding(e)

\* What the refusals of get_execution_status are there for: once an execution
\* has ended and nobody holds an old reading of its row, its status is final,
\* whatever notifications are repeated, delayed or made up later.
SettledIsFinal ==
    [][\A e \in Executions : Settled(e) => Settled(e)' /\ status'[e] = status[e]]_vars

\* An agent never starts an execution it already started once.
NoSecondStart ==
    [][\A a \in Agents, e \in Executions :
         worker[a][e] = "none" /\ worker'[a][e] = "start" =>
             runner[a][e] = "none" /\ ~statusfile[a][e]]_vars

\* "So that an unexpected error does not become running, completed, failed or
\* stopped": a notification leaves the status of an ended execution alone.
NotificationRespectsEnd ==
    [][\A e \in Executions :
         status[e] \in Terminal /\ posts' /= posts => status'[e] = status[e]]_vars

-----------------------------------------------------------------------------
(* The promise kept. *)

PhaseOf(e) ==
    CASE status[e] = "NOT_YET"          -> "waiting"
      [] status[e] = "PREPARE"          -> "preparing"
      [] status[e] = "PREPARE_COMPLETE" -> "offered"
      [] status[e] \in Dispatched       -> "given"
      [] Settled(e)                     -> "settled"
      [] OTHER                          -> "ended"

OutcomeOf(e) == IF status[e] \in Terminal THEN status[e] ELSE "none"

Lifecycle == INSTANCE ExecutionLifecycle
               WITH phase <- [e \in Executions |-> PhaseOf(e)],
                    outcome <- [e \in Executions |-> OutcomeOf(e)]

\* The rows, as backyard, receiver and agents leave them, go through the
\* phases of ExecutionLifecycle.
KeepsLifecycle == Lifecycle!Spec

-----------------------------------------------------------------------------
(* Liveness. *)

\* A launched execution ends and its status becomes final, whichever process,
\* call or handler fails on the way.
LaunchedSettles == \A e \in Executions : (status[e] /= "NOT_YET") ~> []Settled(e)

\* The emergency stop ends every child that runs the execution, even if the
\* runner itself would never end.
AbortEndsWorkers == \A e \in Executions : abort[e] ~> [](\A a \in Agents : worker[a][e] = "none")
=============================================================================
