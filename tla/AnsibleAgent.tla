---------------------------- MODULE AnsibleAgent ----------------------------
(* ita_ag_ansible_execution: on each host a main loop (agent_main.py) that   *)
(* fetches work, forks a child per execution and looks after its children by *)
(* their status files; and the children (agent_child_main.py), each of which *)
(* starts an ansible-runner, polls it and notifies the receiver.             *)
EXTENDS AnsibleReceiver

CONSTANTS MovementLimit,  \* MOVEMENT_LIMIT of an agent
          NoWork          \* "no execution" for the main loop's hand

ASSUME AgentAssumption == MovementLimit \in Nat \ {0} /\ NoWork \notin Executions

VARIABLES main,       \* where the main loop of an agent stands
          todo,       \* fetched executions it has not forked a child for
          current,    \* the one whose files it is writing or which it reports
          statusfile, \* status file of an execution on an agent's disk
          worker,     \* the child process of an execution and where it stands
          runner,     \* its ansible-runner; "ok" and "ng" stand for the rc file
          forced      \* forced.txt: the child was told to stop the runner

agentVars == <<main, todo, current, statusfile, worker, runner, forced>>

PerJob(S) == [Agents -> [Executions -> S]]

AgentTypeOK ==
    /\ main \in [Agents -> {"idle", "fetching", "spawning", "reporting"}]
    /\ todo \in [Agents -> SUBSET Executions]
    /\ current \in [Agents -> Executions \cup {NoWork}]
    /\ statusfile \in PerJob(BOOLEAN)
    /\ worker \in PerJob({"none", "start", "poll", "posting", "failed", "lastpost"})
    /\ runner \in PerJob({"none", "running", "ok", "ng", "stopped", "lost"})
    /\ forced \in PerJob(BOOLEAN)

AgentInit ==
    /\ main = [a \in Agents |-> "idle"]
    /\ todo = [a \in Agents |-> {}]
    /\ current = [a \in Agents |-> NoWork]
    /\ statusfile = [a \in Agents |-> [e \in Executions |-> FALSE]]
    /\ worker = [a \in Agents |-> [e \in Executions |-> "none"]]
    /\ runner = [a \in Agents |-> [e \in Executions |-> "none"]]
    /\ forced = [a \in Agents |-> [e \in Executions |-> FALSE]]

-----------------------------------------------------------------------------
(* Calls: sent, answered, retried, given up. *)

NewPost(a, e, sender, s) ==
    [agent |-> a, exec |-> e, sender |-> sender, post |-> s, update |-> FALSE,
     scram |-> FALSE, pc |-> "sent", try |-> 1, live |-> TRUE]

NewFetch(a, n) == [agent |-> a, limit |-> n, rows |-> {}, pc |-> "sent",
                   try |-> 1, live |-> TRUE]

\* The client stops waiting: a response is lost, a request may still arrive.
Abandoned(calls, c) ==
    (calls \ {c}) \cup (IF c.pc = "done" THEN {} ELSE {[c EXCEPT !.live = FALSE]})

FetchRetry(f) ==
    /\ f \in fetches
    /\ f.live /\ f.try < ApiTries
    /\ fetches' = Abandoned(fetches, f)
                    \cup {[NewFetch(f.agent, f.limit) EXCEPT !.try = f.try + 1]}
    /\ UNCHANGED <<posts, agentVars, rowVars>>

PostRetry(p) ==
    /\ p \in posts
    /\ p.live /\ p.try < ApiTries
    /\ posts' = Abandoned(posts, p)
                  \cup {[NewPost(p.agent, p.exec, p.sender, p.post) EXCEPT !.try = p.try + 1]}
    /\ UNCHANGED <<fetches, agentVars, rowVars>>

-----------------------------------------------------------------------------
(* The main loop. *)

\* Slip: a child counts once its runner is started.
WorkingRunners(a) == {e \in Executions : runner[a][e] = "running"}

\* get_working_child_process: status files with a live process behind them.
Working(a) == {e \in Executions : statusfile[a][e] /\ worker[a][e] /= "none"}

\* Asks for no more than its free slots and MOVEMENT_LIMIT allow.
Fetch(a) ==
    LET allow == ExecutionLimit - Cardinality(Working(a))
    IN  /\ main[a] = "idle"
        /\ allow > 0
        /\ fetches' = fetches \cup
                        {NewFetch(a, IF allow > MovementLimit THEN MovementLimit ELSE allow)}
        /\ main' = [main EXCEPT ![a] = "fetching"]
        /\ UNCHANGED <<posts, todo, current, statusfile, worker, runner, forced, rowVars>>

FetchAnswer(f) ==
    /\ f \in fetches
    /\ f.live /\ f.pc = "done"
    /\ fetches' = fetches \ {f}
    /\ todo' = [todo EXCEPT ![f.agent] = f.rows]
    /\ main' = [main EXCEPT ![f.agent] = IF f.rows = {} THEN "idle" ELSE "spawning"]
    /\ UNCHANGED <<posts, current, statusfile, worker, runner, forced, rowVars>>

FetchGiveUp(f) ==
    /\ f \in fetches
    /\ f.live /\ f.try = ApiTries
    /\ fetches' = Abandoned(fetches, f)
    /\ main' = [main EXCEPT ![f.agent] = "idle"]
    /\ UNCHANGED <<posts, todo, current, statusfile, worker, runner, forced, rowVars>>

\* Popen comes first ...
Spawn(a, e) ==
    /\ main[a] = "spawning" /\ current[a] = NoWork
    /\ e \in todo[a]
    /\ worker' = [worker EXCEPT ![a][e] = "start"]
    /\ todo' = [todo EXCEPT ![a] = @ \ {e}]
    /\ current' = [current EXCEPT ![a] = e]
    /\ UNCHANGED <<main, statusfile, runner, forced, netVars, rowVars>>

\* ... and the status file after it, which a quick child may have outlived.
CreateStatusFile(a) ==
    /\ main[a] = "spawning" /\ current[a] /= NoWork
    /\ statusfile' = [statusfile EXCEPT ![a][current[a]] = TRUE]
    /\ current' = [current EXCEPT ![a] = NoWork]
    /\ main' = [main EXCEPT ![a] = IF todo[a] = {} THEN "idle" ELSE "spawning"]
    /\ UNCHANGED <<todo, worker, runner, forced, netVars, rowVars>>

\* post_notification_execution: the working executions' timestamps.
Heartbeat(a, e) ==
    /\ main[a] = "idle"
    /\ e \in Working(a)
    /\ Touch(e)
    /\ UNCHANGED <<netVars, agentVars>>

\* update_error_executions: a status file nobody serves is reported a failure
\* (unless the upload before it fails), and removed whatever the answer is.
Report(a, e) ==
    /\ main[a] = "idle"
    /\ statusfile[a][e] /\ worker[a][e] = "none"
    /\ posts' = posts \cup {NewPost(a, e, "main", "FAILURE")}
    /\ main' = [main EXCEPT ![a] = "reporting"]
    /\ current' = [current EXCEPT ![a] = e]
    /\ UNCHANGED <<fetches, todo, statusfile, worker, runner, forced, rowVars>>

ReportNotUploaded(a, e) ==
    /\ main[a] = "idle"
    /\ statusfile[a][e] /\ worker[a][e] = "none"
    /\ statusfile' = [statusfile EXCEPT ![a][e] = FALSE]
    /\ UNCHANGED <<main, todo, current, worker, runner, forced, netVars, rowVars>>

ReportEnds(p) ==
    /\ p \in posts
    /\ p.sender = "main" /\ p.live
    /\ p.pc = "done" \/ p.try = ApiTries
    /\ posts' = Abandoned(posts, p)
    /\ statusfile' = [statusfile EXCEPT ![p.agent][p.exec] = FALSE]
    /\ main' = [main EXCEPT ![p.agent] = "idle"]
    /\ current' = [current EXCEPT ![p.agent] = NoWork]
    /\ UNCHANGED <<fetches, todo, worker, runner, forced, rowVars>>

\* The service dies: what it held in memory is gone, its calls go on alone.
Orphaned(calls, mine) ==
    (calls \ mine) \cup {[c EXCEPT !.live = FALSE] : c \in {d \in mine : d.pc /= "done"}}

MainCrash(a) ==
    /\ fetches' = Orphaned(fetches, {f \in fetches : f.agent = a /\ f.live})
    /\ posts' = Orphaned(posts, {p \in posts : p.agent = a /\ p.live /\ p.sender = "main"})
    /\ main' = [main EXCEPT ![a] = "idle"]
    /\ todo' = [todo EXCEPT ![a] = {}]
    /\ current' = [current EXCEPT ![a] = NoWork]
    /\ UNCHANGED <<statusfile, worker, runner, forced, rowVars>>

-----------------------------------------------------------------------------
(* A child and its runner. *)

WorkerBecomes(a, e, s) == worker' = [worker EXCEPT ![a][e] = s]

\* Populated data fetched, builder.sh and start.sh done.
StartRunner(a, e) ==
    /\ worker[a][e] = "start"
    /\ runner' = [runner EXCEPT ![a][e] = "running"]
    /\ WorkerBecomes(a, e, "poll")
    /\ UNCHANGED <<main, todo, current, statusfile, forced, netVars, rowVars>>

\* Some call before the loop, or an upload inside it, failed for good.
WorkerFails(a, e) ==
    /\ worker[a][e] \in {"start", "poll"}
    /\ WorkerBecomes(a, e, "failed")
    /\ UNCHANGED <<main, todo, current, statusfile, runner, forced, netVars, rowVars>>

Notify(a, e, s) ==
    /\ posts' = posts \cup {NewPost(a, e, "child", s)}
    /\ WorkerBecomes(a, e, "posting")
    /\ UNCHANGED <<fetches, main, todo, current, statusfile, forced, rowVars>>

\* Slip: an rc file, whatever it says, is success.
RcStatusUnread(r, absent) == IF r \in {"ok", "ng"} THEN "COMPLETE" ELSE absent

\* What the rc file says; without one the runner is taken to be at work.
RcStatus(r, absent) == CASE r = "ok" -> "COMPLETE"
                         [] r = "ng" -> "FAILURE"
                         [] OTHER    -> absent

\* No forced.txt: the rc file decides.
Poll(a, e) == /\ worker[a][e] = "poll"
              /\ ~forced[a][e]
              /\ Notify(a, e, RcStatus(runner[a][e], "PROCESSING"))
              /\ UNCHANGED runner

\* alive.sh could not be run at all: without an rc file this is a failure.
PollBroken(a, e) == /\ worker[a][e] = "poll"
                    /\ Notify(a, e, RcStatus(runner[a][e], "FAILURE"))
                    /\ UNCHANGED runner

\* forced.txt is there and stop.sh succeeds.
StopRunner(a, e) ==
    /\ worker[a][e] = "poll"
    /\ forced[a][e]
    /\ runner' = [runner EXCEPT ![a][e] = IF @ = "running" THEN "stopped" ELSE @]
    /\ Notify(a, e, "SCRAM")

\* Slips: the failure of stop.sh is not noticed, or tried again for ever.
StopFailsUnnoticed(a, e) == /\ worker[a][e] = "poll"
                            /\ forced[a][e]
                            /\ Notify(a, e, RcStatus(runner[a][e], "SCRAM"))
                            /\ UNCHANGED runner

StopFailsRetried(a, e) == /\ worker[a][e] = "poll"
                          /\ forced[a][e]
                          /\ Notify(a, e, RcStatus(runner[a][e], "PROCESSING"))
                          /\ UNCHANGED runner

\* forced.txt is there and stop.sh fails: the rc file decides.
StopFails(a, e) == /\ worker[a][e] = "poll"
                   /\ forced[a][e]
                   /\ Notify(a, e, RcStatus(runner[a][e], "FAILURE"))
                   /\ UNCHANGED runner

\* The process ends and takes its status file with it.
WorkerEnds(a, e) == /\ WorkerBecomes(a, e, "none")
                    /\ statusfile' = [statusfile EXCEPT ![a][e] = FALSE]

\* SCRAM_STATUS of the answer leaves forced.txt; PROCESSING goes round again.
PostAnswer(p) ==
    /\ p \in posts
    /\ p.sender = "child" /\ p.live /\ p.pc = "done"
    /\ posts' = posts \ {p}
    /\ forced' = [forced EXCEPT ![p.agent][p.exec] = @ \/ p.scram]
    /\ IF p.post = "PROCESSING"
       THEN WorkerBecomes(p.agent, p.exec, "poll") /\ UNCHANGED statusfile
       ELSE WorkerEnds(p.agent, p.exec)
    /\ UNCHANGED <<fetches, main, todo, current, runner, rowVars>>

\* All tries failed: AppException, or the end if this was the last word.
PostGiveUp(p) ==
    /\ p \in posts
    /\ p.sender = "child" /\ p.live /\ p.try = ApiTries
    /\ posts' = Abandoned(posts, p)
    /\ IF worker[p.agent][p.exec] = "posting"
       THEN WorkerBecomes(p.agent, p.exec, "failed") /\ UNCHANGED statusfile
       ELSE WorkerEnds(p.agent, p.exec)
    /\ UNCHANGED <<fetches, main, todo, current, runner, forced, rowVars>>

\* agent_child_main: FAILURE is the last word of a failed child ...
LastPost(a, e) ==
    /\ worker[a][e] = "failed"
    /\ posts' = posts \cup {NewPost(a, e, "child", "FAILURE")}
    /\ WorkerBecomes(a, e, "lastpost")
    /\ UNCHANGED <<fetches, main, todo, current, statusfile, runner, forced, rowVars>>

\* ... unless its upload fails as well.
LastUploadFails(a, e) ==
    /\ worker[a][e] = "failed"
    /\ WorkerEnds(a, e)
    /\ UNCHANGED <<main, todo, current, runner, forced, netVars, rowVars>>

\* Killed: the status file stays, a call on its way goes on alone.
WorkerCrash(a, e) ==
    /\ worker[a][e] /= "none"
    /\ WorkerBecomes(a, e, "none")
    /\ posts' = Orphaned(posts, {p \in posts : /\ p.agent = a /\ p.exec = e
                                               /\ p.live /\ p.sender = "child"})
    /\ UNCHANGED <<fetches, main, todo, current, statusfile, runner, forced, rowVars>>

RunnerEnds(a, e) ==
    /\ runner[a][e] = "running"
    /\ \E r \in {"ok", "ng"} : runner' = [runner EXCEPT ![a][e] = r]
    /\ UNCHANGED <<main, todo, current, statusfile, worker, forced, netVars, rowVars>>

\* Killed without an rc file: alive.sh fails, which the child takes as normal.
RunnerVanishes(a, e) ==
    /\ runner[a][e] = "running"
    /\ runner' = [runner EXCEPT ![a][e] = "lost"]
    /\ UNCHANGED <<main, todo, current, statusfile, worker, forced, netVars, rowVars>>
=============================================================================
