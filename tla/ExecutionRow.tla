---------------------------- MODULE ExecutionRow ----------------------------
(* One row per execution in T_ANSL/ANSP/ANSR_EXEC_STS_INST: the only state   *)
(* the backyard, the receiver API and the users of the system share.  Every  *)
(* component reads and writes it in transactions of its own; none of them    *)
(* takes a lock the others honour.                                           *)
EXTENDS Naturals, FiniteSets

CONSTANTS Executions,  \* the execution numbers (EXECUTION_NO)
          CheckOnly    \* those registered in run mode "check parameters"

ASSUME ExecutionsAssumption == IsFiniteSet(Executions)
ASSUME CheckOnlyAssumption == CheckOnly \subseteq Executions

VARIABLES status,  \* STATUS_ID of the row
          abort,   \* ABORT_EXECUTE_FLAG of the row
          stale    \* LAST_UPDATE_TIMESTAMP is older than Timeout_Interval

rowVars == <<status, abort, stale>>

Terminal == {"COMPLETE", "FAILURE", "EXCEPTION", "SCRAM"}

\* PROCESSING_WAIT to PROCESS_DELAYED: an agent has been given the execution.
Dispatched == {"PROCESSING_WAIT", "PROCESSING", "PROCESS_DELAYED"}

\* What get_running_process counts as running.
Running == {"PREPARE", "PREPARE_COMPLETE"} \cup Dispatched

Status == {"NOT_YET"} \cup Running \cup Terminal

RowTypeOK == /\ status \in [Executions -> Status]
             /\ abort \in [Executions -> BOOLEAN]
             /\ stale \in [Executions -> BOOLEAN]

RowInit == /\ status = [e \in Executions |-> "NOT_YET"]
           /\ abort = [e \in Executions |-> FALSE]
           /\ stale = [e \in Executions |-> FALSE]

\* table_update: the columns it is given, and always the timestamp.
WriteStatus(e, s) == /\ status' = [status EXCEPT ![e] = s]
                     /\ stale' = [stale EXCEPT ![e] = FALSE]
                     /\ UNCHANGED abort

\* table_update with the primary key only: the timestamp alone moves.
Touch(e) == /\ stale' = [stale EXCEPT ![e] = FALSE]
            /\ UNCHANGED <<status, abort>>

\* ANSIBLE_AGENT_NON_COMMUNICATION_DETECTION_TIME goes by without a write.
TimePasses(e) == /\ status[e] /= "NOT_YET"
                 /\ ~stale[e]
                 /\ stale' = [stale EXCEPT ![e] = TRUE]
                 /\ UNCHANGED <<status, abort>>

\* execution_scram: for an agent the emergency stop only raises the flag.
Scram(e) == /\ status[e] \in {"PREPARE_COMPLETE"} \cup Dispatched
            /\ abort' = [abort EXCEPT ![e] = TRUE]
            /\ stale' = [stale EXCEPT ![e] = FALSE]
            /\ UNCHANGED status
=============================================================================
