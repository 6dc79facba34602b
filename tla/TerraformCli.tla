---------------------------- MODULE TerraformCli ----------------------------
(* ita_by_terraform_cli_execute: the passes that start a child for each        *)
(* execution, one per Terraform workspace at a time; the children, that run    *)
(* terraform in the directory of the workspace; users and processes that die.  *)
(* The limit of 100 starts per pass is not modelled.                           *)
EXTENDS Naturals, FiniteSets

CONSTANTS Executions,
          Workspaces,
          WorkspaceOf, \* of each execution
          RunModes,    \* RUN_MODE of each execution, as users may choose them
          MaxDeaths    \* how often processes die

ASSUME ExecutionAssumption ==
    /\ WorkspaceOf \in [Executions -> Workspaces]
    /\ RunModes \subseteq [Executions -> {"apply", "param"}]
    /\ MaxDeaths \in Nat

Running == {"prepare", "processing", "delayed"}
Waiting == {"not_yet", "reserve"}
Settled == {"complete", "failure", "exception"}

\* Where a child is: at the commands it holds the lock file of the workspace,
\* after them it is about to write the last status (update_status).
Commands == {"init", "plan", "apply"}
Places == {"begin", "cleaned", "checked", "open", "gone"} \cup Commands \cup Settled

VARIABLES runMode, \* a check of parameters, or terraform with all its commands
          status,  \* STATUS_ID of the executions
          child,   \* where the child of an execution is, "gone" if there is none
          stops,   \* workspaces with an emergency stop file
          results, \* workspaces with a result file
          asked,   \* the execution a user is about to stop, or "none"
          halted, \* history: the executions whose child has found a stop file
          parent,  \* the pass: where it is, the processes and the rows it saw,
                   \* the workspaces in use and the execution to start
          deaths

terraformVars == <<runMode, status, child, stops, results, asked, halted, parent, deaths>>
files == <<stops, results>>
users == <<runMode, asked, deaths>>
others == <<users, halted>>

Unread == [e \in Executions |-> "not_yet"]
Resting == [pc |-> "idle", alive |-> {}, seen |-> Unread,
            stale |-> TRUE, used |-> {}, due |-> {}, next |-> "none"]

TerraformInit ==
    /\ runMode \in RunModes
    /\ status \in [Executions -> Waiting]
    /\ child = [e \in Executions |-> "gone"]
    /\ stops = {} /\ results = {}
    /\ asked = "none" /\ halted = {}
    /\ parent = Resting
    /\ deaths = 0

Writes(e, s) == status' = [status EXCEPT ![e] = s]
Moves(e, place) == child' = [child EXCEPT ![e] = place]

-----------------------------------------------------------------------------
(* The pass. *)

\* child_process_exist_check: the processes are listed before the rows are read.
ListProcesses ==
    /\ parent.pc = "idle"
    /\ \E e \in Executions : status[e] \in Waiting \cup Running
    /\ parent' = [parent EXCEPT !.pc = "listed", !.alive = {e \in Executions : child[e] /= "gone"}]
    /\ UNCHANGED <<status, child, files, others>>

\* What is read first is read until something is committed.
ReadRows ==
    /\ parent.pc = "listed"
    /\ parent' = [parent EXCEPT !.pc = "check", !.seen = status]
    /\ UNCHANGED <<status, child, files, others>>

Read(e) == IF parent.stale THEN parent.seen[e] ELSE status[e]
LostByNow == {e \in Executions : child[e] = "gone" /\ parent.seen[e] \in Running}
LostAtWork == {e \in Executions \ parent.alive : parent.seen[e] \in Running \ {"prepare"}}
Lost == {e \in Executions \ parent.alive : parent.seen[e] \in Running}

\* A row without its process, read again, ends as an exception.
Bury(e) ==
    /\ parent.pc = "check" /\ e \in Lost
    /\ Writes(e, IF Read(e) \in Running THEN "exception" ELSE status[e])
    /\ parent' = [parent EXCEPT !.stale = FALSE, !.seen[e] = "exception"]
    /\ UNCHANGED <<child, files, others>>

InUseAtWork == {WorkspaceOf[e] : e \in {d \in Executions : Read(d) \in Running \ {"prepare"}}}
InUse == {WorkspaceOf[e] : e \in {d \in Executions : Read(d) \in Running}}

\* get_running_process, and the executions that are due.
Survey ==
    /\ parent.pc = "check" /\ Lost = {}
    /\ \E booked \in SUBSET {e \in Executions : Read(e) = "reserve"} :
         parent' = [parent EXCEPT !.pc = "start", !.alive = {},
                      !.seen = IF parent.stale THEN @ ELSE Unread,
                      !.due = booked \cup {e \in Executions : Read(e) = "not_yet"},
                      !.used = InUse]
    /\ UNCHANGED <<status, child, files, others>>

\* run_unexecuted and run_child_process: read again, then prepared; what is not
\* waiting any more has failed.
Launch(e) ==
    /\ parent.pc = "start" /\ e \in parent.due /\ WorkspaceOf[e] \notin parent.used
    /\ Writes(e, IF Read(e) \in Waiting THEN "prepare" ELSE "exception")
    /\ parent' = [parent EXCEPT !.due = @ \ {e}, !.used = @ \cup {WorkspaceOf[e]},
                     !.stale = FALSE, !.seen = Unread,
                     !.next = IF Read(e) \in Waiting THEN e ELSE "none",
                     !.pc = IF Read(e) \in Waiting THEN "spawn" ELSE "start"]
    /\ UNCHANGED <<child, files, others>>

\* An emergency stop file left in the workspace is removed, the child started.
Spawn ==
    /\ parent.pc = "spawn"
    /\ stops' = stops \ {WorkspaceOf[parent.next]}
    /\ Moves(parent.next, "begin")
    /\ parent' = [parent EXCEPT !.pc = "start", !.next = "none"]
    /\ UNCHANGED <<status, results, others>>

PassDone ==
    /\ parent.pc = "start"
    /\ \A e \in parent.due : WorkspaceOf[e] \in parent.used
    /\ parent' = Resting
    /\ UNCHANGED <<status, child, files, others>>

ParentSteps == ListProcesses \/ ReadRows \/ Survey \/ Spawn \/ PassDone
               \/ \E e \in Executions : Bury(e) \/ Launch(e)

-----------------------------------------------------------------------------
(* A child. *)

\* update_status_error
Fails(e) == Writes(e, "exception") /\ Moves(e, "gone")

\* main_logic: no values, no status; a check of parameters ends here.  The stop
\* file cannot be found yet, and is removed with the files of the last run.
Begin(e) ==
    /\ child[e] = "begin"
    /\ \/ Moves(e, "gone") /\ UNCHANGED <<status, files>>
       \/ Fails(e) /\ UNCHANGED files
       \/ runMode[e] = "param" /\ Writes(e, "complete") /\ Moves(e, "gone") /\ UNCHANGED files
       \/ /\ runMode[e] = "apply"
          /\ stops' = stops \ {WorkspaceOf[e]} /\ results' = results \ {WorkspaceOf[e]}
          /\ Moves(e, "cleaned")
          /\ UNCHANGED status
    /\ UNCHANGED <<parent, others>>

\* is_emergency_stop: the status is written; whatever it returns, the child goes on.
StopCheck(e) ==
    IF WorkspaceOf[e] \in stops THEN Writes(e, "scram") /\ halted' = halted \cup {e}
    ELSE UNCHANGED <<status, halted>>

Prepare(e) ==
    /\ child[e] = "cleaned"
    /\ \/ Fails(e) /\ UNCHANGED halted
       \/ StopCheck(e) /\ Moves(e, "checked")
    /\ UNCHANGED <<files, parent, users>>

\* instance_execution
Open(e) ==
    /\ child[e] = "checked"
    /\ Writes(e, "processing")
    /\ Moves(e, "open")
    /\ UNCHANGED <<files, parent, others>>

Locked(w) == \E d \in Executions : WorkspaceOf[d] = w /\ child[d] \in Commands

LockDirectory(e) ==
    /\ child[e] = "open"
    /\ IF Locked(WorkspaceOf[e]) THEN Fails(e) ELSE Moves(e, "init") /\ UNCHANGED status
    /\ UNCHANGED <<files, parent, others>>

\* exec_command: init refuses to follow another run.
Following == [init |-> "plan", plan |-> "apply", apply |-> "complete"]

Command(e) ==
    /\ child[e] \in Commands
    /\ LET w == WorkspaceOf[e]
           refused == child[e] = "init" /\ w \in results
       IN  \/ /\ ~refused
              /\ results' = results \cup {w}
              /\ \/ /\ Moves(e, Following[child[e]])
                    /\ IF child[e] = "apply" THEN UNCHANGED <<status, halted>> ELSE StopCheck(e)
                 \/ Moves(e, "failure") /\ UNCHANGED <<status, halted>>
           \/ refused /\ Moves(e, "exception") /\ UNCHANGED <<status, halted, results>>
           \/ Fails(e) /\ results' \in {results, results \cup {w}} /\ UNCHANGED halted
    /\ UNCHANGED <<stops, parent, users>>

\* While a command runs the time limit passes.
Delay(e) ==
    /\ child[e] \in Commands /\ status[e] = "processing"
    /\ Writes(e, "delayed")
    /\ UNCHANGED <<child, files, parent, others>>

\* The lock file is closed, the output stored, the last status written.
LastStatus(e) ==
    /\ child[e] \in Settled
    /\ Fails(e) \/ (Writes(e, child[e]) /\ Moves(e, "gone"))
    /\ UNCHANGED <<files, parent, others>>

ChildSteps(e) == Begin(e) \/ Prepare(e) \/ Open(e) \/ LockDirectory(e) \/ Command(e) \/ LastStatus(e)

-----------------------------------------------------------------------------
(* Users, and processes that die. *)

Cancel(e) ==
    /\ status[e] = "reserve"
    /\ Writes(e, "cancelled")
    /\ UNCHANGED <<child, files, parent, others>>

\* execution_scram: the status is looked at, then the file is made.
AskStop(e) ==
    /\ asked = "none" /\ status[e] \in {"processing", "delayed"}
    /\ asked' = e
    /\ UNCHANGED <<status, child, files, parent, runMode, halted, deaths>>

Touch ==
    /\ asked \in Executions
    /\ stops' = stops \cup {WorkspaceOf[asked]}
    /\ asked' = "none"
    /\ UNCHANGED <<status, child, results, parent, runMode, halted, deaths>>

ChildDies(e) ==
    /\ deaths < MaxDeaths /\ child[e] /= "gone"
    /\ deaths' = deaths + 1
    /\ Moves(e, "gone")
    /\ UNCHANGED <<status, files, asked, halted, parent, runMode>>

Restart ==
    /\ deaths < MaxDeaths
    /\ deaths' = deaths + 1
    /\ child' = [e \in Executions |-> "gone"]
    /\ parent' = Resting
    /\ UNCHANGED <<status, files, asked, halted, runMode>>

TerraformNext ==
    \/ ParentSteps \/ Touch \/ Restart
    \/ \E e \in Executions : ChildSteps(e) \/ Delay(e) \/ Cancel(e) \/ AskStop(e) \/ ChildDies(e)

TerraformSpec == TerraformInit /\ [][TerraformNext]_terraformVars

\* The backyard loops, and terraform and the children go on.
TerraformFairSpec == /\ TerraformSpec
                     /\ WF_terraformVars(ParentSteps)
                     /\ WF_terraformVars(\E e \in Executions : ChildSteps(e))

-----------------------------------------------------------------------------
\* get_running_process: no second child is started for the directory of a
\* workspace, with its state file, while another child is there, unless one of
\* them found a stop file, its own or one that came too late for the run before.
OneAtWork ==
    \A d, e \in Executions :
        /\ d /= e /\ WorkspaceOf[d] = WorkspaceOf[e]
        /\ child[d] /= "gone" /\ child[e] /= "gone"
        => {d, e} \cap halted /= {}

\* child_process_exist_check: whatever ended is never declared lost, and no
\* other process gives an ended execution another status.
SettledKept ==
    [][\A e \in Executions : status[e] \in Settled => status'[e] = status[e]]_terraformVars

\* What was taken up ends, whichever process dies meanwhile.
TakenUp == {e \in Executions : status[e] \in Running}
TakenUpEnds == []<>(TakenUp = {})
=============================================================================
