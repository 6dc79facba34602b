-------------------------- MODULE AnsibleInvariant --------------------------
(* The inductive invariant behind the safety of AnsibleExecution: why an     *)
(* agent is never handed the same execution twice although calls are         *)
(* repeated and arrive late, and why what a notification says is true of the *)
(* runner even if the notification is handled long after it was sent.  And   *)
(* the one behind ExecutionLimitKept.                                        *)
EXTENDS AnsibleExecution

\* Statuses an execution never returns to once an agent can know of it.
Early == {"NOT_YET", "PREPARE", "PREPARE_COMPLETE"}

Concerns(p, a, e) == p.agent = a /\ p.exec = e

\* Nothing of the agent a has been at work on e: no process, no file, no call.
Untouched(a, e) ==
    /\ worker[a][e] = "none" /\ runner[a][e] = "none"
    /\ ~statusfile[a][e] /\ ~forced[a][e]
    /\ current[a] /= e
    /\ \A p \in posts : ~Concerns(p, a, e)

Fresh(a, e) == e \notin todo[a] /\ Untouched(a, e)

\* The child that prepares an execution is alone with its row.
PreparesAlone ==
    \A e \in Executions : child[e] = "prepare" => status[e] = "PREPARE" /\ giveup /= e

\* A selected row had been prepared, and an answered one is given out.
SelectedIsPrepared ==
    \A f \in fetches : \A e \in f.rows :
        /\ status[e] \notin {"NOT_YET", "PREPARE"}
        /\ f.pc = "done" => status[e] \notin Early

EarlyIsFresh ==
    \A e \in Executions : status[e] \in Early => \A a \in Agents : Fresh(a, e)

\* The main loop does one thing at a time, and has one try of a call open.
OneFetchAtATime ==
    /\ \A f \in fetches : f.live => main[f.agent] = "fetching"
    /\ \A f, g \in fetches : f.live /\ g.live /\ f.agent = g.agent => f = g

Reporting(p) == p.live /\ p.sender = "main"

OneReportAtATime ==
    /\ \A p \in posts : Reporting(p) => main[p.agent] = "reporting"
    /\ \A p, q \in posts : Reporting(p) /\ Reporting(q) /\ p.agent = q.agent => p = q

\* What an agent is about to be told of, or has yet to start, is new to it.
FetchedIsFresh == \A f \in fetches : f.live => \A e \in f.rows : Fresh(f.agent, e)
TodoIsUntouched == \A a \in Agents : \A e \in todo[a] : Untouched(a, e)

\* A child that has not started its runner has nothing behind it.
StartIsClean ==
    \A a \in Agents, e \in Executions : worker[a][e] = "start" =>
        /\ runner[a][e] = "none" /\ ~forced[a][e]
        /\ \A p \in posts : ~Concerns(p, a, e)

\* What a notification says, and what its handler will answer, is true.
PostsAreTrue ==
    \A p \in posts :
        /\ p.post = "COMPLETE" => runner[p.agent][p.exec] = "ok"
        /\ p.post = "SCRAM" => forced[p.agent][p.exec] /\ runner[p.agent][p.exec] /= "running"
        /\ p.scram => abort[p.exec]

ForcedByAbort == \A a \in Agents, e \in Executions : forced[a][e] => abort[e]

\* The invariant: inductive, and with the safety properties among its parts.
Inv == /\ TypeOK
       /\ PreparesAlone /\ SelectedIsPrepared /\ EarlyIsFresh
       /\ OneFetchAtATime /\ OneReportAtATime
       /\ FetchedIsFresh /\ TodoIsUntouched /\ StartIsClean
       /\ PostsAreTrue /\ ForcedByAbort
       /\ NoFalseCompletion /\ ScramIsGenuine
-----------------------------------------------------------------------------
(* Why an agent's children of a driver never outnumber its EXECUTION_LIMIT.  *)

\* Where they may: a main loop killed between Popen and the status file does
\* not know its child any more, and the receiver takes the limit for none if
\* the platform sets none.
LimitsApply == "main" \notin Events /\ SystemLimit /= 0

Drivers == {Driver[e] : e \in Executions}
Of(S, d) == {e \in S : Driver[e] = d}

AtWork(a) == {e \in Executions : worker[a][e] /= "none"}

ByChild(p) == p.live /\ p.sender = "child"

\* A child has one try of a call open, and waits for it.
OneCallPerChild ==
    /\ \A p \in posts : ByChild(p) => worker[p.agent][p.exec] \in {"posting", "lastpost"}
    /\ \A p, q \in posts :
         ByChild(p) /\ ByChild(q) /\ p.agent = q.agent /\ p.exec = q.exec => p = q

\* The main loop holds an execution only while it forks or reports it, and it
\* reports one whose child is gone.
HandsAreEmpty ==
    \A a \in Agents :
        /\ main[a] \in {"idle", "fetching"} => current[a] = NoWork
        /\ main[a] /= "spawning" => todo[a] = {}
        /\ main[a] = "reporting" => current[a] \notin AtWork(a)

ReportsCurrent == \A p \in posts : Reporting(p) => p.exec = current[p.agent]

\* Every child has its status file, but the one that was forked just now.
ChildrenHaveFiles ==
    \A a \in Agents : \A e \in AtWork(a) : statusfile[a][e] \/ current[a] = e

\* What an agent has yet to start of a driver, asks for or is about to be told
\* of fits in the slots its children of that driver leave.
SlotsAreFree ==
    \A d \in Drivers :
        /\ \A a \in Agents :
             Cardinality(Of(AtWork(a), d)) + Cardinality(Of(todo[a], d)) <= ExecutionLimit
        /\ \A f \in fetches : f.live =>
             /\ Cardinality(Of(AtWork(f.agent), d)) + f.limit <= ExecutionLimit
             /\ Cardinality(Of(f.rows, d)) <= f.limit

\* An agent never has more children of one driver at work than EXECUTION_LIMIT: of
\* several drivers together it may, since the receiver takes the limit for each table.
DriverLimitKept ==
    \A a \in Agents, d \in Drivers : Cardinality(Of(AtWork(a), d)) <= ExecutionLimit

CapacityInv == /\ OneCallPerChild /\ HandsAreEmpty /\ ReportsCurrent
               /\ ChildrenHaveFiles /\ SlotsAreFree
=============================================================================
