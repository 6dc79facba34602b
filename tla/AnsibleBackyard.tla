-------------------------- MODULE AnsibleBackyard ---------------------------
(* ita_by_ansible_execute for executions run by an agent: one parent loop    *)
(* (backyard_main.py) that launches a child process per execution, looks for *)
(* running rows whose child is gone and restarts it or gives the execution   *)
(* up; and the children (backyard_child_main.py), which prepare the material *)
(* and then poll the row until it is terminal.                               *)
EXTENDS ExecutionRow

CONSTANTS RestartMax,   \* CHILD_PROCESS_RETRY_LIMIT
          NoExecution   \* "no execution" for the parent's hand

ASSUME RestartMaxAssumption == RestartMax \in Nat
ASSUME NoExecutionAssumption == NoExecution \notin Executions

VARIABLES child,     \* the child process of an execution and where it stands
          restarts,  \* AG child process restart count file
          giveup     \* the execution the parent has decided to give up

backyardVars == <<child, restarts, giveup>>

\* "expire" and "delay": the child has read the row and decided to write.
ChildState == {"none", "prepare", "monitor", "expire", "delay"}

BackyardTypeOK == /\ child \in [Executions -> ChildState]
                  /\ restarts \in [Executions -> 0..RestartMax]
                  /\ giveup \in Executions \cup {NoExecution}

BackyardInit == /\ child = [e \in Executions |-> "none"]
                /\ restarts = [e \in Executions |-> 0]
                /\ giveup = NoExecution

ChildBecomes(e, s) == child' = [child EXCEPT ![e] = s]

-----------------------------------------------------------------------------
(* The parent. *)

\* run_child_process: only a row still unexecuted is set to PREPARE and forked.
Launch(e) == /\ giveup = NoExecution
             /\ status[e] = "NOT_YET"
             /\ WriteStatus(e, "PREPARE")
             /\ ChildBecomes(e, "prepare")
             /\ UNCHANGED <<restarts, giveup>>

\* Slip: the row is not read again.
ChildMissingUnread(e) == /\ giveup = NoExecution
                         /\ child[e] = "none"
                         /\ status[e] /= "NOT_YET"

\* child_process_exist_check reached a running row that no process serves.
ChildMissing(e) == /\ giveup = NoExecution
                   /\ child[e] = "none"
                   /\ status[e] \in Running

\* chkAGChildProcessRestartCount let the child be started again.
Restart(e) == /\ ChildMissing(e)
              /\ restarts[e] < RestartMax
              /\ restarts' = [restarts EXCEPT ![e] = @ + 1]
              /\ ChildBecomes(e, "monitor")
              /\ UNCHANGED <<giveup, rowVars>>

\* The count is used up, or the child died before it made its directory.
DecideToGiveUp(e) == /\ ChildMissing(e)
                     /\ restarts[e] = RestartMax \/ status[e] = "PREPARE"
                     /\ giveup' = e
                     /\ UNCHANGED <<child, restarts, rowVars>>

\* The write does not look at the row again.
GiveUp(e) == /\ giveup = e
             /\ WriteStatus(e, "EXCEPTION")
             /\ giveup' = NoExecution
             /\ UNCHANGED <<child, restarts>>

\* The parent dies between the decision and the write.
ParentDies == /\ giveup /= NoExecution
              /\ giveup' = NoExecution
              /\ UNCHANGED <<child, restarts, rowVars>>

-----------------------------------------------------------------------------
(* A child. *)

\* Parameter check only: the child writes COMPLETE and ends.
CheckParameters(e) == /\ child[e] = "prepare"
                      /\ e \in CheckOnly
                      /\ WriteStatus(e, "COMPLETE")
                      /\ ChildBecomes(e, "none")
                      /\ UNCHANGED <<restarts, giveup>>

\* instance_execution: the material is offered to the agents, or refused; in
\* both cases the child of an agent execution goes on to the polling loop.
Prepare(e) == /\ child[e] = "prepare"
              /\ e \notin CheckOnly
              /\ \E s \in {"PREPARE_COMPLETE", "EXCEPTION"} : WriteStatus(e, s)
              /\ ChildBecomes(e, "monitor")
              /\ UNCHANGED <<restarts, giveup>>

\* Slip: the time-out is judged for running executions only.
MonitorExpiredRunning(e) == /\ child[e] = "monitor"
                            /\ stale[e] /\ status[e] = "PROCESSING"
                            /\ ChildBecomes(e, "expire")
                            /\ UNCHANGED <<restarts, giveup, rowVars>>

\* One look at the row: the time-out is judged first, whatever the status is.
MonitorExpired(e) == /\ child[e] = "monitor"
                     /\ stale[e]
                     /\ ChildBecomes(e, "expire")
                     /\ UNCHANGED <<restarts, giveup, rowVars>>

MonitorEnded(e) == /\ child[e] = "monitor"
                   /\ ~stale[e]
                   /\ status[e] \in Terminal
                   /\ ChildBecomes(e, "none")
                   /\ UNCHANGED <<restarts, giveup, rowVars>>

\* The delay limit of the Movement has gone by.
MonitorDelayed(e) == /\ child[e] = "monitor"
                     /\ ~stale[e]
                     /\ status[e] = "PROCESSING"
                     /\ ChildBecomes(e, "delay")
                     /\ UNCHANGED <<restarts, giveup, rowVars>>

\* InstanceRecodeUpdate fetches a new timestamp and so defeats the optimistic
\* lock: what was decided is written over whatever the row holds by now.
Expire(e) == /\ child[e] = "expire"
             /\ WriteStatus(e, "EXCEPTION")
             /\ ChildBecomes(e, "none")
             /\ UNCHANGED <<restarts, giveup>>

Delay(e) == /\ child[e] = "delay"
            /\ WriteStatus(e, "PROCESS_DELAYED")
            /\ ChildBecomes(e, "monitor")
            /\ UNCHANGED <<restarts, giveup>>

\* Killed, or InstanceRecodeUpdate failed: it ends without touching the row.
ChildDies(e) == /\ child[e] /= "none"
                /\ ChildBecomes(e, "none")
                /\ UNCHANGED <<restarts, giveup, rowVars>>

\* An exception reaches the wrapper: update_status_error, then it ends.
ChildRaises(e) == /\ child[e] /= "none"
                  /\ WriteStatus(e, "EXCEPTION")
                  /\ ChildBecomes(e, "none")
                  /\ UNCHANGED <<restarts, giveup>>

-----------------------------------------------------------------------------
Parent(e) == Launch(e) \/ Restart(e) \/ DecideToGiveUp(e) \/ GiveUp(e)

\* What a child that is neither killed nor failing does.
Child(e) == \/ CheckParameters(e) \/ Prepare(e)
            \/ MonitorExpired(e) \/ MonitorEnded(e)
            \/ Expire(e) \/ Delay(e)
=============================================================================
