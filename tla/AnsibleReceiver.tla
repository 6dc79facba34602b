-------------------------- MODULE AnsibleReceiver ---------------------------
(* ita_api_ansible_execution_receiver: the API the agents call.  A call is   *)
(* a record that lives from the moment the client sends it until its         *)
(* response is taken; the handler reads the row in one step and writes it in *)
(* a later one, as its transactions allow.                                   *)
EXTENDS ExecutionRow

CONSTANTS Agents,         \* the agent services
          Driver,         \* legacy, pioneer or legacy_role of an execution
          SystemLimit,    \* ita.system.ansible.execution_limit, 0: no limit
          OrgLimit,       \* ita.organization.ansible.execution_limit
          ExecutionLimit, \* EXECUTION_LIMIT of an agent
          ApiTries        \* tries of retry_api_call

ASSUME ReceiverAssumption == /\ SystemLimit \in Nat
                             /\ OrgLimit \in Nat
                             /\ ExecutionLimit \in Nat \ {0}
                             /\ ApiTries \in Nat \ {0}
                             /\ DOMAIN Driver = Executions

VARIABLES fetches,  \* calls of unexecuted_instance
          posts     \* calls of get_execution_status (status notification)

netVars == <<fetches, posts>>

\* live: the client still waits for this try; a late try is not taken back.
FetchCall == [agent : Agents, limit : 1..ExecutionLimit,
              rows : SUBSET Executions, pc : {"sent", "read", "done"},
              try : 1..ApiTries, live : BOOLEAN]

Posted == {"PROCESSING", "COMPLETE", "FAILURE", "SCRAM"}

\* sender: the child of the agent that runs the execution, or its main loop;
\* update and scram: what the handler made of the row it read.
PostCall == [agent : Agents, exec : Executions, sender : {"child", "main"},
             post : Posted, update : BOOLEAN, scram : BOOLEAN,
             pc : {"sent", "read", "done"}, try : 1..ApiTries, live : BOOLEAN]

ReceiverTypeOK == fetches \subseteq FetchCall /\ posts \subseteq PostCall

ReceiverInit == fetches = {} /\ posts = {}

\* A handled call leaves a response only if somebody waits for it.
Answered(calls, old, new) ==
    (calls \ {old}) \cup (IF new.live THEN {[new EXCEPT !.pc = "done"]} ELSE {})

-----------------------------------------------------------------------------
(* unexecuted_instance *)

\* What an agent asks for, cut to the limits of the platform.
GetExecutionLimit(asked) ==
    LET most == IF OrgLimit /= 0 /\ OrgLimit < SystemLimit THEN OrgLimit ELSE SystemLimit
    IN  IF asked < most THEN asked ELSE most

\* Slip: what waits to start is offered as well.
OfferableTwice(e) == status[e] \in {"PREPARE_COMPLETE", "PROCESSING_WAIT"}

Offerable(e) == status[e] = "PREPARE_COMPLETE"

Offered(d) == {e \in Executions : Offerable(e) /\ Driver[e] = d}

\* LIMIT is applied to each driver's table: as many rows as it allows, of each;
\* a limit of zero adds no LIMIT to the query.
Selectable(limit) ==
    {rows \in SUBSET Executions :
        /\ \A e \in rows : Offerable(e)
        /\ \A d \in {Driver[e] : e \in Executions} :
             LET taken == Cardinality({e \in rows : Driver[e] = d})
                 there == Cardinality(Offered(d))
             IN  taken = IF limit \in 1..there THEN limit ELSE there}

FetchRead(f) == /\ f \in fetches
                /\ f.pc = "sent"
                /\ \E rows \in Selectable(GetExecutionLimit(f.limit)) :
                     fetches' = (fetches \ {f})
                                  \cup {[f EXCEPT !.pc = "read", !.rows = rows]}
                /\ UNCHANGED <<posts, rowVars>>

\* Slip: the handler answers with rows it has not written.
FetchCommitUnwritten(f) ==
    /\ f \in fetches
    /\ f.pc = "read"
    /\ fetches' = Answered(fetches, f, f)
    /\ UNCHANGED <<posts, rowVars>>

\* FOR UPDATE comes after the SELECT and nothing is read again under it.
FetchCommit(f) ==
    /\ f \in fetches
    /\ f.pc = "read"
    /\ status' = [e \in Executions |->
                    IF e \in f.rows THEN "PROCESSING_WAIT" ELSE status[e]]
    /\ stale' = [e \in Executions |-> e \notin f.rows /\ stale[e]]
    /\ fetches' = Answered(fetches, f, f)
    /\ UNCHANGED <<posts, abort>>

\* Any exception: rolled back, and answered with no work at all.
FetchRollback(f) ==
    /\ f \in fetches
    /\ f.pc = "read"
    /\ fetches' = Answered(fetches, f, [f EXCEPT !.rows = {}])
    /\ UNCHANGED <<posts, rowVars>>

-----------------------------------------------------------------------------
(* get_execution_status *)

\* Slip: an ended row only refuses to run again.
RefusedPartly(current, post) == current \in Terminal /\ post = "PROCESSING"

\* A row that has ended takes no other notification than its own status.
Refused(current, post) == current \in Terminal /\ post /= current

\* update_status_flg: PROCESSING only starts a waiting row, the others write.
Updates(current, post) == post = "PROCESSING" => current = "PROCESSING_WAIT"

\* The row is read, and the decision taken, before the transaction starts.
PostRead(p) ==
    LET current == status[p.exec]
        read == [p EXCEPT !.scram = abort[p.exec], !.update = Updates(current, p.post)]
    IN  /\ p \in posts
        /\ p.pc = "sent"
        /\ posts' = IF Refused(current, p.post)
                    THEN Answered(posts, p, [read EXCEPT !.update = FALSE])
                    ELSE (posts \ {p}) \cup {[read EXCEPT !.pc = "read"]}
        /\ UNCHANGED <<fetches, rowVars>>

PostWrite(p) == IF p.update THEN WriteStatus(p.exec, p.post) ELSE Touch(p.exec)

PostHandled(p) == Answered(posts, p, [p EXCEPT !.update = FALSE])

PostCommit(p) == /\ p \in posts
                 /\ p.pc = "read"
                 /\ PostWrite(p)
                 /\ posts' = PostHandled(p)
                 /\ UNCHANGED fetches

\* The result zip or InstanceRecodeUpdate failed: answered 200 all the same.
PostLost(p) == /\ p \in posts
               /\ p.pc = "read"
               /\ p.post /= "PROCESSING"
               /\ posts' = PostHandled(p)
               /\ UNCHANGED <<fetches, rowVars>>

\* A try the client has given up may also never have arrived.
FetchDropped(f) == /\ f \in fetches
                   /\ ~f.live /\ f.pc = "sent"
                   /\ fetches' = fetches \ {f}
                   /\ UNCHANGED <<posts, rowVars>>

PostDropped(p) == /\ p \in posts
                  /\ ~p.live /\ p.pc = "sent"
                  /\ posts' = posts \ {p}
                  /\ UNCHANGED <<fetches, rowVars>>
=============================================================================
