-------------------------- MODULE AnsibleScheduler --------------------------
(* backyard_main.main_logic: which executions one pass of the parent starts. *)
(* A pass counts what runs, looks after rows whose child is gone and then    *)
(* starts what was waiting, one by one, against the limits of the system and *)
(* of each organization; the counts it compares with are those of its start. *)
EXTENDS Integers, FiniteSets

CONSTANTS Executions, Organizations,
          OrgOf,      \* the organization of an execution
          AllLimit,   \* ita.system.ansible.execution_limit, 0: no limit
          OrgLimit,   \* ita.organization.ansible.execution_limit of each
          Booked,     \* executions with a TIME_BOOK
          Settings,   \* the interface settings that the organizations may begin with
          Wavering,   \* the organizations whose setting is changed, once
          RestartMax  \* CHILD_PROCESS_RETRY_LIMIT, of the children of agent runs

\* ANSIBLE_EXEC_MODE: a container next to the parent, or agents elsewhere.
Engines == {"container", "agent"}

ASSUME SchedulerAssumption == /\ IsFiniteSet(Executions)
                              /\ OrgOf \in [Executions -> Organizations]
                              /\ AllLimit \in Nat
                              /\ OrgLimit \in [Organizations -> Nat]
                              /\ Booked \subseteq Executions
                              /\ Settings \subseteq [Organizations -> Engines]
                              /\ Wavering \subseteq Organizations
                              /\ RestartMax \in Nat

VARIABLES state,    \* STATUS_ID, as far as the scheduler tells statuses apart
          due,      \* the booked executions whose time has come
          served,   \* executions with a process that will bring them to an end
          restarts, \* how often the child of an execution was started again
          setting,  \* T_ANSC_IF_INFO of each organization (of one workspace each)
          wavering, \* those that have not changed theirs yet
          engine,   \* EXEC_MODE, which a row takes from the setting when it is made
          pass      \* local variables of the pass under way

rowVars == <<state, due, served, restarts>>
modeVars == <<setting, wavering, engine>>
vars == <<rowVars, modeVars, pass>>

\* "handed": PREPARE_COMPLETE or PROCESSING_WAIT; "active": PROCESSING or DELAYED.
States == {"unregistered", "waiting", "reserved", "cancelled",
           "prepare", "handed", "active", "ended"}

Launched == {"prepare", "handed", "active"}

\* What execute_control counts.
Counted == {e \in Executions : state[e] \in {"prepare", "active"}}
CountedOf(o) == {e \in Counted : OrgOf[e] = o}

\* What is really on its way.
Busy == {e \in Executions : state[e] \in Launched}
BusyOf(o) == {e \in Busy : OrgOf[e] = o}

\* The rows that are run in containers, whatever the setting is now.
InContainers == {e \in Executions : engine[e] = "container"}

TypeOK == /\ state \in [Executions -> States]
          /\ due \in SUBSET Booked
          /\ served \in SUBSET Executions
          /\ restarts \in [Executions -> 0..RestartMax]
          /\ setting \in [Organizations -> Engines]
          /\ wavering \subseteq Wavering
          /\ engine \in [Executions -> Engines]
          /\ pass \in [pc : {"idle", "check", "loop", "launch"}, left : SUBSET Executions,
                       at : SUBSET Executions, priority : [Executions -> Nat],
                       crr : Nat, all : Nat, org : [Organizations -> Nat]]

NoPass == [pc |-> "idle", left |-> {}, at |-> {}, priority |-> [e \in Executions |-> 0],
           crr |-> 0, all |-> 0, org |-> [o \in Organizations |-> 0]]

Init == /\ state = [e \in Executions |-> "unregistered"]
        /\ due = {}
        /\ served = {}
        /\ restarts = [e \in Executions |-> 0]
        /\ setting \in Settings
        /\ wavering = Wavering
        /\ engine = [e \in Executions |-> setting[OrgOf[e]]]
        /\ pass = NoPass

-----------------------------------------------------------------------------
(* The users, the clock and the executions. *)

\* insert_execution_list: NOT_YET, or RESERVE with a TIME_BOOK.
Register(e) ==
    /\ state[e] = "unregistered"
    /\ state' = [state EXCEPT ![e] = IF e \in Booked THEN "reserved" ELSE "waiting"]
    /\ engine' = [engine EXCEPT ![e] = setting[OrgOf[e]]]
    /\ UNCHANGED <<due, served, restarts, setting, wavering, pass>>

\* reserve_cancel, only of a row that is still reserved.
Cancel(e) == /\ state[e] = "reserved"
             /\ state' = [state EXCEPT ![e] = "cancelled"]
             /\ UNCHANGED <<due, served, restarts, modeVars, pass>>

ComeDue(e) == /\ e \in Booked \ due
              /\ due' = due \cup {e}
              /\ UNCHANGED <<state, served, restarts, modeVars, pass>>

\* An administrator changes the interface setting under the executions.
Switch(o) == /\ o \in wavering
             /\ \E g \in Engines \ {setting[o]} : setting' = [setting EXCEPT ![o] = g]
             /\ wavering' = wavering \ {o}
             /\ UNCHANGED <<rowVars, engine, pass>>

\* The child prepares, the execution starts, the execution ends.
Progress(e) ==
    /\ e \in served
    /\ \/ /\ state[e] = "prepare"
          /\ state' = [state EXCEPT ![e] = IF engine[e] = "agent" THEN "handed" ELSE "active"]
       \/ /\ state[e] = "handed"
          /\ state' = [state EXCEPT ![e] = "active"]
       \/ /\ state[e] \in Launched
          /\ state' = [state EXCEPT ![e] = "ended"]
    /\ UNCHANGED <<due, served, restarts, modeVars, pass>>

\* Child and agent are gone and leave the row as it is.
Abandon(e) == /\ e \in served
              /\ state[e] \in Launched
              /\ served' = served \ {e}
              /\ UNCHANGED <<state, due, restarts, modeVars, pass>>

-----------------------------------------------------------------------------
(* The pass. *)

Target(e) == state[e] = "waiting" \/ (state[e] = "reserved" /\ e \in due)

\* Slip: zero is taken for a limit.
ExcludedByZero(o) == Cardinality(CountedOf(o)) >= OrgLimit[o]

\* No record at all is selected for an organization beyond its limit.
Excluded(o) == OrgLimit[o] /= 0 /\ Cardinality(CountedOf(o)) > OrgLimit[o]

\* Slip: the rest of the division.
PriorityByRest(o) ==
    LET count == Cardinality(CountedOf(o))
    IN  IF OrgLimit[o] = 0 THEN count ELSE count % OrgLimit[o]

\* organization_priority of an organization that has something running.
Priority(o) ==
    LET count == Cardinality(CountedOf(o))
    IN  IF OrgLimit[o] = 0 THEN count ELSE count \div OrgLimit[o]

\* organization_priority of each selected row.  The variable is not reset between
\* rows, so a row of an organization with nothing running takes over that of any
\* row that comes before it: in which order rows come, the query leaves open.
Priorities(selected) ==
    LET running == {e \in selected : CountedOf(OrgOf[e]) /= {}}
        own == [e \in Executions |-> IF e \in running THEN Priority(OrgOf[e]) ELSE 0]
    IN  {p \in [Executions -> {0} \cup {own[e] : e \in running}] :
           \A e \in Executions : e \in running \/ e \notin selected => p[e] = own[e]}

\* execute_control.  Beyond the limit it returns [], which its caller cannot
\* take apart: the exception ends the pass before anything is looked after.
ExecuteControl ==
    /\ pass.pc = "idle"
    /\ AllLimit = 0 \/ Cardinality(Counted) <= AllLimit
    /\ LET selected == {e \in Executions : Target(e) /\ ~Excluded(OrgOf[e])}
       IN  \E p \in Priorities(selected) :
             pass' = [pc |-> "check", left |-> selected, at |-> {}, priority |-> p,
                      crr |-> 0, all |-> Cardinality(Counted),
                      org |-> [o \in Organizations |-> Cardinality(CountedOf(o))]]
    /\ UNCHANGED <<rowVars, modeVars>>

\* Slip: the statuses looked at leave out some.
ChildProcessExistCheckOfPrepared ==
    LET lost == {e \in Executions \ served : state[e] = "prepare"}
    IN  /\ pass.pc = "check"
        /\ state' = [e \in Executions |-> IF e \in lost THEN "ended" ELSE state[e]]
        /\ pass' = IF pass.left = {} THEN NoPass ELSE [pass EXCEPT !.pc = "loop"]
        /\ UNCHANGED <<due, served, restarts, modeVars>>

\* child_process_exist_check.  The setting decides, not the row: under one for
\* containers a lost row is ended, unless it is one that only agents know; under
\* one for agents its child is started again as long as restarts are left, and
\* one that died before it made its directory may be ended at once.
ChildProcessExistCheck ==
    LET lost == {e \in Executions \ served : state[e] \in Launched}
        inAgents == {e \in lost : setting[OrgOf[e]] = "agent"}
        known == {e \in lost \ inAgents : state[e] = "handed"}
        left == {e \in inAgents : restarts[e] < RestartMax}
    IN  /\ pass.pc = "check"
        /\ \E again \in SUBSET left :
             /\ \A e \in left \ again : state[e] = "prepare"
             /\ served' = served \cup again
             /\ restarts' = [e \in Executions |->
                               IF e \in again THEN restarts[e] + 1 ELSE restarts[e]]
             /\ state' = [e \in Executions |->
                            IF e \in lost \ (again \cup known) THEN "ended" ELSE state[e]]
        /\ pass' = IF pass.left = {} THEN NoPass ELSE [pass EXCEPT !.pc = "loop"]
        /\ UNCHANGED <<due, modeVars>>

\* Slip: crr_count stands still.
AdvanceUncounted(e) ==
    IF pass.left = {e} THEN NoPass
    ELSE [pass EXCEPT !.left = @ \ {e}, !.at = {}, !.pc = "loop"]

\* Slip: crr_count runs the wrong way.
AdvanceDown(e) ==
    IF pass.left = {e} THEN NoPass
    ELSE [pass EXCEPT !.left = @ \ {e}, !.at = {}, !.pc = "loop", !.crr = @ - 1]

\* The list is sorted by priority, and by times and a hash that are left open here.
First(e) == e \in pass.left /\ \A d \in pass.left : pass.priority[e] <= pass.priority[d]

Advance(e) ==
    IF pass.left = {e} THEN NoPass
    ELSE [pass EXCEPT !.left = @ \ {e}, !.at = {}, !.pc = "loop", !.crr = @ + 1]

\* Slip: what the pass itself has started is left out of the organization's count.
LimitReachedByCounts(e) ==
    \/ AllLimit /= 0 /\ pass.crr + 1 + pass.all > AllLimit
    \/ OrgLimit[OrgOf[e]] /= 0 /\ pass.org[OrgOf[e]] >= OrgLimit[OrgOf[e]]

LimitReached(e) ==
    \/ AllLimit /= 0 /\ pass.crr + 1 + pass.all > AllLimit
    \/ OrgLimit[OrgOf[e]] /= 0 /\ pass.crr + 1 + pass.org[OrgOf[e]] > OrgLimit[OrgOf[e]]

\* Slip: the row is not looked at again.
RunUnexecutedBlindly(e) ==
    /\ pass.pc = "loop" /\ First(e)
    /\ ~LimitReached(e)
    /\ pass' = [pass EXCEPT !.pc = "launch", !.at = {e}]
    /\ UNCHANGED <<rowVars, modeVars>>

\* The row is locked, its host name written and committed; then it is read once
\* more and found unexecuted.
RunUnexecuted(e) ==
    /\ pass.pc = "loop" /\ First(e)
    /\ ~LimitReached(e)
    /\ state[e] \in {"waiting", "reserved"}
    /\ pass' = [pass EXCEPT !.pc = "launch", !.at = {e}]
    /\ UNCHANGED <<rowVars, modeVars>>

\* run_child_process: PREPARE whatever the row holds by now, and a child.
RunChildProcess(e) ==
    /\ pass.pc = "launch" /\ pass.at = {e}
    /\ state' = [state EXCEPT ![e] = "prepare"]
    /\ served' = served \cup {e}
    /\ pass' = Advance(e)
    /\ UNCHANGED <<due, restarts, modeVars>>

\* A limit reached, or a row that is no longer unexecuted, ends the whole pass.
EndPass(e) ==
    /\ pass.pc = "loop" /\ First(e)
    /\ LimitReached(e) \/ state[e] \notin {"waiting", "reserved"}
    /\ pass' = NoPass
    /\ UNCHANGED <<rowVars, modeVars>>

\* An exception for one execution: counted as started, and the loop goes on.
SkipOne(e) ==
    /\ \/ pass.pc = "loop" /\ First(e) /\ ~LimitReached(e)
       \/ pass.pc = "launch" /\ pass.at = {e}
    /\ pass' = Advance(e)
    /\ UNCHANGED <<rowVars, modeVars>>

\* An exception outside the loop, or the parent dies: the pass is forgotten.
PassBreaks == /\ pass.pc /= "idle"
              /\ pass' = NoPass
              /\ UNCHANGED <<rowVars, modeVars>>

Pass == \/ ExecuteControl
        \/ ChildProcessExistCheck
        \/ \E e \in Executions : RunUnexecuted(e) \/ RunChildProcess(e) \/ EndPass(e)

Next == \/ Pass \/ PassBreaks
        \/ \E e \in Executions : \/ Register(e) \/ Cancel(e) \/ ComeDue(e)
                                 \/ Progress(e) \/ Abandon(e) \/ SkipOne(e)
        \/ \E o \in Organizations : Switch(o)

Spec == Init /\ [][Next]_vars

(* The parent loops, a process that serves an execution goes on, and it is   *)
(* not every pass that an exception breaks, nor always the same execution    *)
(* when its turn has come; that it comes is not assumed.                     *)
Fairness == /\ WF_vars(Pass) /\ SF_vars(ChildProcessExistCheck)
            /\ \A e \in Executions : /\ WF_vars(Progress(e))
                                     /\ SF_vars(RunUnexecuted(e)) /\ SF_vars(RunChildProcess(e))

FairSpec == Spec /\ Fairness

-----------------------------------------------------------------------------
\* The limit of the whole system on executions under way.
AllLimitKept == AllLimit /= 0 => Cardinality(Busy) <= AllLimit

\* Containers under way never exceed the limit of the system, nor those of an
\* organization its own, while agents run others beside them and whatever the
\* setting was when those were registered.
ContainersKeepLimits ==
    /\ AllLimit /= 0 => Cardinality(Busy \cap InContainers) <= AllLimit
    /\ \A o \in Organizations :
         OrgLimit[o] /= 0 => Cardinality(BusyOf(o) \cap InContainers) <= OrgLimit[o]

\* No container is started in excess of what the counts of the pass allow for:
\* the stale counts plus crr_count never fall behind what really runs.
PassCountsAll ==
    pass.pc /= "idle" =>
        /\ Cardinality(Counted \cap InContainers) <= pass.all + pass.crr
        /\ \A o \in Organizations :
             Cardinality(CountedOf(o) \cap InContainers) <= pass.org[o] + pass.crr

\* Of limited organizations with something running, those that were full when the
\* pass began come last: none of them ends it before one that had room is looked at.
Full(o) == OrgLimit[o] /= 0 /\ pass.org[o] >= OrgLimit[o]
HadRoom(o) == OrgLimit[o] /= 0 /\ pass.org[o] \in 1..OrgLimit[o] - 1

FullComeLast ==
    pass.pc = "loop" =>
        \A e, d \in pass.left : First(e) /\ Full(OrgOf[e]) => ~HadRoom(OrgOf[d])

\* What was cancelled stays so: a pass that chose it before neither starts it
\* nor sets about to, unless it had already looked at the row for the last time.
CancelledIsNotStarted ==
    [][\A e \in Executions :
         state[e] = "cancelled" /\ e \notin pass.at =>
             state'[e] = "cancelled" /\ e \notin pass'.at \cup served']_vars

\* Agents took up more than the limit: execute_control fails until some end.
Overfull == AllLimit /= 0 /\ Cardinality(Counted) > AllLimit

\* Of a row that agents know, when neither child nor agent serves it, a setting
\* for containers makes the parent forget.
Forgotten(e) == state[e] = "handed" /\ e \notin served /\ setting[OrgOf[e]] = "container"

\* Everything registered is started in the end, although processes die, one
\* full organization ends the pass for all, and every item may be skipped.
EverythingIsStarted ==
    \A e \in Executions : state[e] = "waiting" ~> state[e] = "prepare" \/ Overfull

\* A launched execution ends even when everything that served it has died and
\* the setting has changed since, but for those the parent forgets.
EverythingEnds ==
    \A e \in Executions :
        state[e] \in Launched ~> state[e] = "ended" \/ Forgotten(e) \/ Overfull
=============================================================================
