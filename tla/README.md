# Exastro IT Automation: verified models of its services

Exastro IT Automation (ITA) is a set of Python services around one MariaDB:
users maintain tables and register work (an *execution* of a *movement*),
background services ("backyards") prepare and supervise it, conductors chain it,
rules start conductors on events, and agents on other hosts run it. This
directory holds TLA+ models of the places where these services meet without ever
waiting for each other. Paths below are relative to `src/ita_root/`.

## 1. Inventory

| component | state it keeps | operations | hard behaviour | what makes it correct |
|---|---|---|---|---|
| Execution rows (`T_ANSL/ANSP/ANSR_EXEC_STS_INST`) | `STATUS_ID`, `ABORT_EXECUTE_FLAG`, `LAST_UPDATE_TIMESTAMP` | `table_update`, `InstanceRecodeUpdate`, `execution_scram`, `insert_execution_list` | every component writes them in transactions of its own | the status follows the life cycle; what has settled is final |
| Ansible backyard, parent (`ita_by_ansible_execute/backyard_main.py`) | restart count files, process list | one pass: count, look after dead children, launch | stale counts, crash between decision and write, limits | limits kept, nothing starves, no dead row is forgotten |
| Ansible backyard, child (`backyard_child_main.py`) | one process per execution | prepare material, poll, time out, mark as delayed | decides on an old reading of the row | every launched execution ends |
| Receiver API (`ita_api_ansible_execution_receiver`) | none of its own | `unexecuted_instance`, `get_execution_status`, `update_result`, heartbeat | two agents at once; late and repeated calls | an execution is handed out once; no false status |
| Agent (`ita_ag_ansible_execution`) | status files, `forced.txt`, rc file, processes | fetch, fork, heartbeat, report dead children; poll, stop and report the runner | lost responses, retries, killed processes, files out of step with processes | limit of children kept, nothing is run twice, reports are true, a stop stops |
| User API (`rest_libs.py`, `driver_controll.py`) | none | register, emergency stop, cancel a reservation | races with the backyard | a stop is not lost |
| Ansible container mode (`ansible_execute.py`, `controll_ansible_agent.py`) | the row, the container, `result.txt`, `forced.txt` | start, check, kill, clean up | parent, child, container and user share files; each may die or not answer between two steps | no container outlives its row; what the row says of the playbook is so |
| Tower mode (`AnsibleTowerExecute.py`) | Tower jobs | launch, poll, cancel | calls of a product outside | a job ends with its row |
| Conductor (`conductor/classes/exec_util.py`, `ita_by_conductor_synchronize`) | conductor and node instances, status files of movements | one pass per instance: start it, turn each node, end it; stop, release, cancel | statuses copied late, failures beside running branches, skipped and handled nodes | nodes start in order and once, merges wait for all, nothing is left running, every instance ends |
| OASE judgement (`ita_by_oase_conclusion/backyard_main.py`, `libs/judgement.py`, `oase/manage_events.py`) | events in MongoDB, in memory the events each filter holds | label, judge by levels and sweeps, conclude, time out | conclusions enter the filters in the middle of a level; filters shared by rules | an event is used once and judged once; a pass ends |
| OASE actions (`libs/action.py`, `action_status_monitor.py`, `writer_process.py`) | `T_OASE_ACTION_LOG`, buffers and queue of the writer process | register, flush, start a conductor, follow it, conclude | two stores, two processes, either may die between any two writes | a row starts its conductor once, concludes when it ended well, and ends |
| OASE collection (`ita_ag_oase`, `ita_api_oase_receiver`) | the agent's SQLite file (events with fetch time and sent mark, fetches, last fetch); events in MongoDB, fetches recorded in MariaDB | fetch, save, post, mark, clean; check, store, record, answer | two stores on each side, lost answers, deaths, a host name that changes with the container | no event is lost, none is stored twice, all arrive |
| `loadTable` (`loadtable/load_table.py`) | any maintained table, `T_COMN_RECODE_LOCK_TABLE` | register, update, discard, restore, delete, singly or in bulk | snapshots, locks of different names, times of update quoted by users | no lost update, unique keys, all of a request or nothing |
| Terraform CLI (`ita_by_terraform_cli_execute`) | rows, processes, lock, stop and result files per workspace | pass: look after children, choose, launch; child: check, init, plan, apply; stop, cancel | processes listed before rows are read, rows read from an old snapshot, files of the workspace and not of the execution | one child per workspace, what ended stays, what was taken up ends |
| Batch jobs (variable list-up, CI/CD, collector, host group split, menus, import and export, cleaning) | tables and files | recompute, copy, delete | failure half way | repeating them gives the same result |

Interaction: the user API, the parent, its children and the receiver read and
write the rows; agents talk to the receiver by HTTP only; the parent knows its
children by `ps`, the agent its children by `ps` and status files; a child of
an agent knows its runner by the rc file and `alive.sh`; the child that runs a
container knows it by what Docker or Kubernetes answers and by `result.txt`.
Conductor starts executions through the user API and polls their rows. The OASE
agent talks to its receiver by HTTP; what the receiver stores is judged by the
OASE backyard, which starts conductors.

## 2. The modules

| module | models | extends |
|---|---|---|
| `ExecutionRow` | the row and its writers | |
| `AnsibleBackyard` | parent and children of `ita_by_ansible_execute`, agent mode | `ExecutionRow` |
| `AnsibleReceiver` | the two handlers that matter, and the calls in flight | `ExecutionRow` |
| `AnsibleAgent` | main loops, their children and runners | `AnsibleReceiver` |
| `AnsibleExecution` | the whole system, its fairness and its properties | `AnsibleBackyard`, `AnsibleAgent` |
| `ExecutionLifecycle` | the abstract specification: what the user is promised | |
| `AnsibleInvariant` | the inductive invariants, of all and of an agent's capacity | `AnsibleExecution` |
| `AnsibleSafety`, `AnsibleSteps` | the proofs | `AnsibleInvariant` and each other |
| `AnsibleScheduler` | which executions a pass of the parent starts, in containers and by agents | |
| `ContainerExecution` | one execution in a container: parent, child, container, files, user | |
| `Conductor` | passes over one conductor instance, all node types, users, the drivers outside | |
| `OaseJudgement` | events, filters, the three levels of rules, sweeps and rounds | |
| `OaseActions` | action log, main process, writer process, conductors outside | |
| `OaseCollection` | agent with its file, requests under way, receiver with its two stores | |
| `LoadTable` | users maintaining the records of one menu in transactions | |
| `TerraformCli` | passes, children, files of workspaces, users, deaths | |
| `OaseProofs` | inductive invariants and proofs | `OaseJudgement`, `OaseActions` |
| `ConductorProofs`, `CollectionProofs` | the same | `Conductor`, `OaseCollection` |
| `LoadProofs`, `TerraformProofs` | the same | `LoadTable`, `TerraformCli` |
| `ContainerProofs` | the same | `ContainerExecution`, `AnsibleScheduler` |
| `MCAgents`, `MCScheduler`, `MCServices` | instances for TLC | |

**State.** `status`, `abort` and `stale` stand for the three columns of a row;
`stale` says that the timestamp is older than `Timeout_Interval`, so time needs
no counter: `TimePasses` sets it, each write of the row clears it. `child` is
the backyard's process for an execution; the values `expire` and `delay` mean
that it has read the row and decided to write but has not written yet. `giveup`
is the same gap in the parent. A call is a record in `fetches` or `posts`, with
`pc` = `sent`, `read` (the handler has read the row and decided) or `done` (the
response is under way) and `live` = the client still waits for this try.
`main`, `todo`, `current` are the local variables of an agent's main loop;
`statusfile`, `forced`, `worker` and `runner` are its disk and processes.

**Grain.** A step is what one transaction or one process does between two
points at which another can interfere. The handlers are two steps, because
`unexecuted_instance` selects before it locks and writes, and
`get_execution_status` reads before its transaction; so are the child's look and
write, the parent's decision and write, and the fork and the status file. The
emergency stop, which locks its table, and `reserve_cancel` are one step each.
Launching is two steps in `AnsibleScheduler` (the last look at the row, then
`run_child_process`), where reservations are cancelled beside it, and one step in
`AnsibleBackyard`, where nobody else touches a row that is not taken up.

**What is folded together.** One parent is modelled (the process list is local
to a host and the check of children does not filter by `EXECUTE_HOST_NAME`, so
the code supports no second one either). `unexecuted_instance` sees all drivers
in one snapshot. An agent serves one execution environment; the order of
`TIME_REGISTER` is any selection of the right size. The agent computes its
working children twice in a pass; they are looked at whenever it is idle. The
heartbeat touches a working execution in one step; a heartbeat that arrives just
after its child has ended is left out. An upload of result files that fails is
a choice of the call that follows it: `update_result` answers 200 for ended
rows, so uploads block nothing. The agent never restarts its children
(`CHILD_PROCESS_RETRY_LIMIT` is 0 in its `setup.sh`). `status = PREPARE` stands
for "the child died before it made its directory" in the parent's decision to
give up at once. Contents of files, logs, tar archives and messages are left
out. The passes skipped in maintenance mode are not modelled.

**Abstract specification.** `ExecutionLifecycle` has a phase and an outcome per
execution: waiting, preparing, offered, given, ended, settled. `AnsibleExecution`
implements it by `PhaseOf` and `OutcomeOf` (property `KeepsLifecycle`). The
difference between *ended* and *settled* is the point: after an execution has
ended, a writer that had read the row before may still change the outcome or
make it look as if it ran. `Settled` says exactly when nobody can any more: no
child of the backyard, no decision of the parent, no fetch that has selected the
row, and no notification past its reading that says anything else. From then on
the status is final (`SettledIsFinal`, proved), because the refusals of
`get_execution_status` (lines 215-227) reject all that arrives later.

**The scheduler** is a model of its own: it abstracts the processes to "served or not"
and details the pass (`main_logic`, `execute_control`), with the stale counts of its
start, `crr_count`, the exclusion of organizations, the early returns and the exceptions
of single items. The list of a pass is in the order of `organization_priority`
(`Priority`, `First`): what an organization has running, divided by its limit. The
variable is not reset between rows, so a row of an organization with nothing running
takes over the priority of any row before it (`Priorities`); the order in which rows
come, and times and hashes that decide between equals, are left open. `setting` is the
interface setting of an organization (`ANSIBLE_EXEC_MODE`, one workspace each), `engine`
the `EXEC_MODE` a row takes from it when it is registered. An administrator may change
the setting of the organizations in `Wavering`; what was registered keeps its engine,
but the parent decides by the setting of the moment what to do with a row whose child is
gone. `Forgotten` and `Overfull` name the two states in which nothing goes on (section
5).

**`ContainerExecution`** follows one execution from the row to the container and
back. `execChild` is where the child is: it builds the files, waits for the
command that starts the container, looks, stops, judges by the result file, and
writes the status it found (`verdict`). `overseer` is the parent between two
writes of its own: the row is PREPARE and the child not yet started, or the row
is EXCEPTION and the container not yet cleaned up. A container that is `coming`
was asked for and does not run yet; it may come up after all who asked have
died. `unseen` is history: it says that a container went on while its row was
about to end, and each place that sets it is one where the code knows no better
(section 5). The model implements `ExecutionLifecycle` too: to its user an
execution in a container is one of those that agents carry out.

**Conductor.** `graph` is the class: node types, edges (each node's `out`, in
order), the conditions of branches, skip flags and end types; `IsClass` is what
`chk_conductor` accepts. `nstatus` and `cstatus` are the status columns,
`released` and `stopped` the flags users set, `exec` what the driver outside
makes of the execution or called conductor of a node (`ExecWorks`, `ExecEnds`),
`file` the status file it leaves. `pass` holds the local variables of
`conductor_status_update`: the nodes still to turn, in the order of
`get_execute_all_node_list`, and the status to write. The backyard lists the open
instances (`List`) before it takes the locks and does not look at their status again
(`PassStart`), so users and drivers act in between. A turn of a node
(`execute_node_action`) is one step of a pass, and the pass is one transaction under
the locks: users and drivers act between passes, and what a driver writes during one
the next reads. `NodeBreaks` is a turn that fails, after which the pass leaves the
other nodes out and ends. `Broken` and `Unhandled` keep the asymmetry of the code:
`error_node_conditional_flg` is decided by the last failing row.

**OASE.** An event carries the filters that catch it, its second, its life time and its
flag; matching labels against filters is left out. A pass takes the new events, ages
some, and goes through levels 1 to 3; `Judge` is one rule, in order of priority;
`SweepAgain` repeats a level that had a conclusion, at most `LoopLimit` times;
`NextLevel` returns to level 1 when any level had one. `incident` is `IncidentDict`,
`preserved` the events withheld from later rules. `used` counts how often rules used an
event; it is history. In `OaseActions` the writes to the writer process are a queue; it
keeps back up to `BufferSize` writes to MongoDB and the writes to one row of MariaDB.
`PassBreaks` is an exception that `backyard_main` catches, wherever a pass is: the rest
of it is left out but for what `finish_workspace_processing` writes; `NoticeBreaks` is
one between a row's completion and its conclusion, which is lost. One in the middle of
`RegisterActionLog` is shown only as a death. A rule matches each event alone there,
since how rules share events is `OaseJudgement`'s matter.

**`OaseCollection`.** A message carries the second in which its source shows it;
the agent asks for what is not older than its last fetch and leaves out what its
file still has. `saved`, `fetches` and `lastFetch` are the three tables of the
SQLite file, each step on them a transaction of its own. A request goes through
`new`, `checked`, `written` and `done` at the receiver, `live` as long as the agent
waits for it. `progress` is the latest fetch the receiver has recorded for a host
name; a container that comes back may have another. `doubtful` and `untidy` are
history: a fetch was let in again before the record of the first was written, or
the agent died before it had cleaned its file (section 5).

**`LoadTable`.** `view` is the snapshot of a transaction with its own writes; it is
fixed by the first read (`Look`), which comes after the locks. `Maintain` is
`exec_maintenance` of one entry. The record a registration becomes is part of the entry,
since `genarate_primary_key_value` gives each a new key. A record has the `Columns` of
one combination that is to be unique; an entry `gives` some of them, all or none.
Columns of a table of its own are meant, not those of menus that keep theirs in
`DATA_JSON`. A menu is plain, or names tables to lock; see section 5 for why such menus
take one kind of request only.

**`TerraformCli`.** `parent` holds what a pass has read: processes first, then
rows in a snapshot that lasts until it commits (`stale`). A child is where its
program is; at `init`, `plan` and `apply` it holds the lock file. Stop and result
files belong to workspaces. `halted` is history.

## 3. What TLC checks

| run | instance | question |
|---|---|---|
| `handover` | 1 execution, 2 agents, 2 tries, fetches may fail | `Inv`, `OfferedIsUntaken`, `NoSecondStart` |
| `capacity` | 3 executions of one driver, one check-only, 1 agent | `ExecutionLimitKept` |
| `faults` | 1 execution, 1 agent, all failures but those of fetches and main loop | `NoFalseCompletion`, `ScramIsGenuine`, `SettledIsFinal`, `KeepsLifecycle` |
| `stop` | 1 execution, 1 agent, stops, lost notifications, failing workers | `AbortEndsWorkers` (liveness) |
| `settles` | 1 execution, 1 agent, every process may die | `LaunchedSettles` (liveness) |
| `scheduler` | 4 executions of 2 organizations with one booked, limits of the system (2) and of the organizations (1 and 2), one organization with either engine and a change of it | `TypeOK`, `ContainersKeepLimits`, `PassCountsAll`, `FullComeLast`, `CancelledIsNotStarted` (1,080,172 states) |
| `agentmode` | 3 executions, one organization with containers and one with agents that changes, system limit 2, so that the order of a pass matters | `EverythingIsStarted`, `EverythingEnds` (liveness; 19,994 states) |
| `services` | five conductor classes, three sets of rules, two happenings with an action log, two messages collected, two users and two records, two Terraform executions, one execution in a container | the properties of the seven services, below (339,197 states) |
| `handout`, `overwrite`, `unlimited`, `agentlimit` | small | disagreements, section 5 |

**The run `services`.** The seven services share only the database, and each
model holds what it needs of the others (a conductor sees its executions as
`exec`, the action log its conductors as `conductor`). `MCServices` puts them
side by side with a variable `focus`: one is at work, the others rest as they
began, so the states are the sum and not the product.

* Conductor: two branches merged; a failure caught by a conditional branch with a
  movement to be skipped; a movement and a call with an end each; a status file deciding
  between a call with a pause and the end; a caught failure beside one that is not.
  Every execution may end in every way, a turn may fail once (`MaxTroubles`), users
  stop, release and cancel at any time, also between the list and a pass.
  `NothingLeftRunning`: an instance that has ended has no execution at work.
  `OrderKept`: a node has started only if what comes before it ended so as to let it.
  `WellEndedIsFinal`: a node that ended well stays so. `ConductorSettles`: a started
  instance (of a class that does not mix caught and other failures) ends or waits for a
  user at a pause node; a stopped one ends, whatever waited.
* Judgement: two filters, one of which wants a single event; combinations *and*,
  *then* and *exclusive or*, with and without conclusions that feed the next rule;
  two events arrive, in one pass or two. `EventUsedOnce`, `JudgedOnce`,
  `JudgementEnds`.
* Actions: two happenings, one with an action; two mishaps anywhere, each a death of the
  writer or of the backyard or a conclusion lost (`MaxFaults`), and any number of
  passes that break off; two writes kept back, so that the buffer fills and does not.
  `StartedOnce`, `ConclusionIsEarned`, `NothingHeldBack`, `RowsEnd`.
* Collection: two messages, three seconds, so that a message appears in the second
  of a fetch, before and after it; two mishaps, which is a lost answer and a death;
  two host names. One sent fetch is kept instead of two, so that the file is cleaned
  within so few seconds. `NothingLost`, `CollectedOnce`, `EventsArrive`. The
  inductive invariants of the proofs were checked on four seconds as well.
* Containers: the playbook run or only its parameters checked; two losses anywhere,
  such as a death of the parent and a query that does not answer. `NothingRunsOn`,
  `EndIsTrue`, `StoppedEnds`, `ContainerKeepsLifecycle`.
* `LoadTable`: two users, two records, a key of two columns, single and double
  requests of every command, updates and registrations that give one column, both or
  none, the second record in use, disused or absent; two changes are
  enough for a reader between them. `NoUpdateLost`, `UniqueKept`.
* Terraform: two executions of one workspace (workspaces do not interact), the
  one that only checks parameters booked; one death of a child or the container.
  `OneAtWork`, `SettledKept`, `TakenUpEnds`. That a late stop file of one run
  stops the next needs a third execution, which only the proof covers.

The type invariants of the services are not among the properties of the run: those of
`LoadTable` and `TerraformCli` are part of their inductive invariants, and section 4 has
a theorem for each of the other five. The runs `scheduler`, `agentmode` and `services`
do not check for deadlock: above the system limit a pass ends before it does anything, a
row whose processes have died under the wrong setting is left alone, and a service whose
executions have ended has nothing left to do.

**Bounds.** `Events` names the kinds of failure a run allows, so that each run
combines those its question is about. `MaxCalls` bounds the calls of each kind
under way at a time (2: one call and a late earlier one, which is what a race
needs), `ApiTries` the tries of a call, `RestartMax` the restarts of a child
(0 or 1; the code's default of 10 adds only repetition). One execution is enough
for the properties that speak of each execution alone: executions meet only in
an agent's main loop and in the limits, and those are the business of `capacity`
and of the scheduler's runs; the proofs cover any number. Two agents are enough
for a race for a row. The agents are symmetric in `handover`; no liveness is
checked under symmetry.

**Fairness.** The parent runs pass after pass and looks at every running row in
each, so `ParentStep` and `GiveUpStep` are strongly fair (a child that comes and
goes disables them again and again); a child polls every three seconds, threads
serve every call, an agent and its children loop with `sleep`, time passes: weak
fairness. A dying process, a failing handler, a lost call, a user, a heartbeat
have none. `RunnerFairness`, used in `settles` only, says that a playbook ends
and leaves its rc file; without it the code gives no such promise, since its
heartbeats keep the time-out away for ever. `stop` does not assume it. In the
scheduler, strong fairness of `RunUnexecuted` and `RunChildProcess` says that an
exception does not hit the same execution in every pass when its turn has come; that
it comes is not assumed, it follows from the order of the list, in which whatever is
before an execution is started, skipped or ends the pass. Strong fairness of
`ChildProcessExistCheck` says that not every pass breaks off before it; weak fairness
of `Pass` and `Progress` that the parent loops and a process that serves an execution
goes on.

In `services` the backyards loop and their processes go on: weak fairness of the
steps of passes, main and writer process, the OASE agent and the parent of
containers (`Proceeds`). Strong fairness of `Follows` is that of executions and
conductors outside, requests at the OASE receiver, Terraform children and the
child that runs a container with the command it waits for; each of these has a
step to do until it ends or dies, so it says what weak fairness says. A playbook
in a container may take for ever. Users, deaths, arriving events, lost answers and
failing turns have no fairness. Liveness is stated as "again and again" where
something may come back (`ConductorSettles`, `EventsArrive`, `StoppedEnds`).
That a pass of the action log gets through is not assumed: an exception may break off
every one of them, and `RowsEnd` says that again and again either no row is unended or
a pass has broken off. What the code gives is no more, since a cause may last (section
5): then nothing looks at executing rows.

## 4. What is proved

TLAPS proves for any executions, agents, drivers, limits, tries, call bounds and
sets of failures, from the assumptions stated with the constants only:

| theorem | statement |
|---|---|
| `TypeCorrect` | `Spec => []TypeOK` |
| `InvHolds` | `Spec => []Inv` |
| `OfferIsUntaken` | `Spec => []OfferedIsUntaken` |
| `CompletionIsTrue` | `Spec => []NoFalseCompletion` |
| `ScramIsTrue` | `Spec => []ScramIsGenuine` |
| `StartIsFirst` | `Spec => NoSecondStart` |
| `SettledStatusIsFinal` | `Spec => SettledIsFinal` |
| `LifecycleIsKept` | `Spec => KeepsLifecycle` |
| `CapacityHolds`, `DriverLimitIsKept` | `LimitsApply => (Spec => []CapacityInv)`, `LimitsApply => (Spec => []DriverLimitKept)` |
| `LimitIsKept` | `LimitsApply` and one driver `=> (Spec => []ExecutionLimitKept)` |
| `SchedulerTypeHolds` | `Spec => []TypeOK` |
| `ContainersKeepLimitsHolds`, `PassCountsAllHolds` | `Spec => []ContainersKeepLimits`, `Spec => []PassCountsAll` |
| `FullComeLastHolds` | `Spec => []FullComeLast` |
| `CancelledIsNotStartedHolds` | `Spec => CancelledIsNotStarted` |
| `ConductorTypeHolds` | `ConductorSpec => []ConductorTypeOK` |
| `OrderKeptHolds`, `NothingLeftRunningHolds` | `ConductorSpec => []OrderKept`, `ConductorSpec => []NothingLeftRunning` |
| `WellEndedIsFinalHolds` | `ConductorSpec => WellEndedIsFinal` |
| `UsedOnceHolds`, `JudgedOnceHolds` | `OaseSpec => []EventUsedOnce`, `OaseSpec => JudgedOnce` |
| `OaseTypeHolds`, `ActionTypeHolds` | `OaseSpec => []OaseTypeOK`, `ActionSpec => []ActionTypeOK` |
| `StartedOnceHolds` | `ActionSpec => []StartedOnce` |
| `ConclusionIsEarnedHolds`, `NothingHeldBackHolds` | `ActionSpec => []ConclusionIsEarned`, `ActionSpec => []NothingHeldBack` |
| `CollectionTypeHolds`, `ContainerTypeHolds` | `CollectionSpec => []CollectionTypeOK`, `ContainerSpec => []ContainerTypeOK` |
| `NothingLostHolds`, `CollectedOnceHolds` | `CollectionSpec => []NothingLost`, `CollectionSpec => []CollectedOnce` |
| `NothingRunsOnHolds`, `EndIsTrueHolds` | `ContainerSpec => []NothingRunsOn`, `ContainerSpec => []EndIsTrue` |
| `KeepsLifecycleHolds` | `ContainerSpec => ContainerKeepsLifecycle` |
| `LocksExclude` | `LoadSpec => []OneInside` |
| `NoUpdateLostHolds`, `UniqueKeptHolds` | `LoadSpec => NoUpdateLost`, `LoadSpec => UniqueKept` |
| `OneAtWorkHolds`, `SettledKeptHolds` | `TerraformSpec => []OneAtWork`, `TerraformSpec => SettledKept` |

(The first eleven are of the Ansible execution, `Spec` of `AnsibleExecution`; the runs
do not check its `TypeOK` apart from `Inv`, which contains it. The next five, from
`SchedulerTypeHolds` on, are of the scheduler, `Spec` of `AnsibleScheduler`.)

None of the safety properties of the Ansible execution is inductive. `Inv` adds
what they rest on:

* *freshness*: a row that is still offered is unknown to every agent; what a
  live fetch has selected, or an agent is about to fork, has no process, file,
  runner or notification on that agent (`EarlyIsFresh`, `FetchedIsFresh`,
  `TodoIsUntouched`, `StartIsClean`). This needs that a main loop has one live
  fetch at a time (`OneFetchAtATime`): a late earlier try may still be handled,
  but its answer reaches nobody. Freshness is why two agents can be handed the
  same execution (section 5) while one agent never is handed it twice;
* *truth in flight*: what a notification says is true of its runner when it is
  sent and stays true until it is handled, however late (`PostsAreTrue`), since
  rc files and `forced.txt` are never withdrawn while the execution is known;
  a runner is only ever started by a child in state `start`, and such a child
  is new (`StartIsClean`);
* *preparation alone*: while the child prepares, nobody else writes its row.

The proof has one step per action. Actions of the user, the clock and the
backyard touch rows only (`RowsMoveKeeps`); each action of an agent is reduced to
the few parts it can disturb (`AgentMoveKeeps`, `NotifyMoveKeeps`). `NoSecondStart`
and `SettledIsFinal` follow from `Inv` and its preservation. `KeepsLifecycle` is a
step by step simulation: whoever of the backyard is about to write a row took it up
before, and a child that calls it delayed saw it running (`BackyardFollows`), so
every row moves as the life cycle lets it (`GoesOn`), and once it has settled it does
not move at all.

`DriverLimitIsKept` says that an agent never has more children of one driver at work
than `EXECUTION_LIMIT`, and `LimitIsKept` that it has no more in all if there is one
driver. That is all the code promises: the receiver applies the `LIMIT` to the table of
each driver, so that one call may bring as many of each as there are slots, and with two
drivers TLC shows one child too many (`capacity` with `TwoDrivers` and `NoCheckOnly`,
too large to be a run of its own). The hypotheses, `LimitsApply`, are needed too: a main
loop that is killed while it forks leaves a child without status file, which the next
one does not count (hazard at `agent_main.py:134`), and a system limit of 0 drops the
`LIMIT` of the receiver's query (run `unlimited`). Under them the slots a main loop has
counted stay free until it fills them (`SlotsAreFree`, for each driver, since its
children are among those that were counted): only the main loop forks, what it has yet
to start and what its live fetch may still bring are counted against the limit, it knows
every child by its status file but the one it is about to fork (`ChildrenHaveFiles`),
and it asks only when it has nothing left in hand (`HandsAreEmpty`). Lost, late and
repeated calls do not disturb this, as a late answer reaches nobody; and no answer
revives a child that is gone, as a child waits for its one call as long as that call is
open (`OneCallPerChild`).

The other proofs:

* *scheduler*: what the pass counted when it began, plus `crr_count`, is never less
  than the containers under way, of all and of each organization (`PassCovers`), and
  where it is about to launch there is room for one more (`PassHasRoom`); then no
  launch exceeds a limit. It rests on two facts about rows: an agent never takes up
  what is run in a container (`ContainersStay`), which is why the statuses that
  `execute_control` does not count (section 5) cannot hide one, and what has not been
  launched has no process (`UnlaunchedUnserved`).
* *order of a pass*: a row of an organization that had something running has the share
  of that organization as its priority, whatever order the rows came in, as nothing
  is inherited there (`PassBegins`); counts and priorities stay through the pass
  (`PassOrdered`, `OrderStays`); and a share is 0 below a limit and not from there on
  (`ShareIs`). So what is full comes behind what has something running and room
  (`FullComeLast`). Nothing like it holds for organizations with nothing running, or
  with no limit (section 5).
* *conductor*: for any class that passes the checks (`ClassAssumption`), with cycles or
  without. What a node lets go stays let go (`GrowthKeeps`), and a node whose turn it is
  has not let go of anything, so what it starts was not started before (`AfterDueIs`).
  The skipping of a branch reaches far; that everything it reaches is unexecuted follows
  from `ShutIsUnexecuted`: a set of nodes that nothing outside it has let go holds
  nothing that was started. It is stated for sets, since a class may hold cycles and an
  induction along its edges would not end; what lies below a branch is such a set,
  because `chk_parallel_marge` joins it with nothing outside (`BelowIs`). So no skipped
  node has an execution at work, and the nodes that have one keep the conductor open
  (`LiveIsBusy`). An instance that is cancelled while it is listed has nothing that
  was ever begun (`UnbegunIsUnexecuted`), so a pass that ends it
  still has nothing but a start node to turn to (`PassIsOpen`).
* *judgement*: every step ages events (`Ages`): one that is no longer new stays
  as it is, one that is new is used by one rule and flagged, or gives up being new
  unused. This holds for any way of extracting rules, since a rule only ever
  picks new events (`PickedIsNew`), so the proof does not look into levels.
* *action log*: an insertion is asked for once per try, since a row is untried while its
  event waits in the cache (`TriesAreNew`) and an event without a flag is new or has its
  flag on the way (`FlagsCome`); a row that is written had therefore not been there
  (`InsertsApart`, `CompletesFollow`), so the writer never makes a started row matched
  again. An answer of the writer means that all it was asked before is written
  (`AnswersAreTrue`), and what is to be started is matched and listed once
  (`WorkListed`); it becomes executing before it starts. The buffers, the deaths, the
  broken passes and the lost queue enter only through these; `Happenings` has to be
  finite, as a pass makes a list of what it reads. Conclusions rest on the same
  (`ConclusionInv`): a row without an action is registered and completed in one write
  (`WrittenAtOnce`), so its event never comes back; a row with one is listed once while
  it is executing and asked to be concluded once it is completed (`CheckListed`,
  `AskedWhenEarned`); and what is asked for is not there yet and nowhere twice, in the
  queue or held back (`ConcludedOnce`), since what is written, in part or in full, is
  dropped from what is held, by a dying writer too. While nobody has died and no
  notification has cost a conclusion (`InStep`), a flagged event has its row and a
  completed row has its conclusion, written or on the way; between passes nothing is on
  the way, which is `NothingHeldBack`.
* *types of the judgement*: filters hold events there are, which is not by the shape
  of the model: what a rule concludes is put into every filter that catches it, by a
  fold over a list of filters, and becomes an event in the middle of a level. What
  such a fold leaves is proved by the least step at which it would go wrong
  (`LeastOf`, `FoldFrom`, `ConcludedKeeps`), as the induction theorems of the library
  are out of reach. The filters of a rule have to be finitely many (`RuleAssumption`),
  as the code reads them from a table.
* *collection*: times lie behind the clock and requests report what the file has
  (`InTime`, `PostsFit`, `GotFits`); a file that is tidy has a fetch for every row, a
  row that is marked was stored before (`RowsHaveFetches`, `FetchesFit`,
  `StoredBefore`), and under these no message that a fetch could see is missing.
  That each is stored once rests on two more facts (`OneFetch`, `StoredOnce`): all
  requests and the file agree on the fetch that found a message; one request is at work
  at a time, on what is not stored, and what is stored is recorded or will be. They
  hold only while nothing is `doubtful` or `untidy`, which is why both are in the
  property. That an agent waits for exactly one live request (in `CollectionTypeOK`)
  needs that a request ends only together with the waiting for it, on either side and
  by any failure (`WaitedFor`, `OneIsLive`).
* *containers*: the row follows child and parent (`RowFollowsChild`); nothing of a
  container is there before it is asked for (`StartsClean`); once the child has made
  up its mind a container that goes on is `unseen` (`LeftIsUnseen`); result file and
  verdict are true when they are written (`ResultIsTrue`, `WrittenIsTrue`). The
  refinement then is a step by step simulation of `ExecutionLifecycle`.
* *`LoadTable`*: the locks of a menu are the same for all its users, hence one
  user is inside (`OneInside`); what it sees is current but for its own writes, and
  each record it wrote had the time it quoted and has another now (`Sees`); that a
  second entry for one record is refused follows from it. Records that are to be
  registered are absent until then and promised to one user (`Promised`, `Apart`).
  For unique keys: what is seen without an error is unique, or the request
  has an update that escapes the check (`Unchecked`, `UniqueSeen`). Nothing is
  assumed about the columns: an entry that does not escape was looked for by the key
  its record then has, or leaves its record's key and use as they are.
* *Terraform*: what a pass read is old but still true where it matters
  (`ReadIsCurrent`): a row without a process cannot change, a waiting row can only
  be cancelled, and the row of a child that was not stopped was running. From it
  follow that only running rows are declared lost, and that the workspaces in use
  are known when an execution is chosen (`UsedIsKnown`, `NextIsFree`).

Only model-checked: liveness, which with `ENABLED` is out of the prover's reach
(`AbortEndsWorkers`, `LaunchedSettles`, `EverythingIsStarted`, `EverythingEnds`,
`ConductorSettles`, `JudgementEnds`, `RowsEnd`, `TakenUpEnds`, `EventsArrive`,
`StoppedEnds`). Every invariant and action property of the passing runs has a theorem.

## 5. Disagreements between the code and what it says

* `handout`: `unexecuted_instance` selects rows, then locks them, and never reads
  them again; two agents are handed the same execution, against the comment on
  the row lock (`libs/ansible_execution.py:123`). With several rows the lock
  statement binds the joined numbers to one placeholder and locks nothing.
* `overwrite`: `get_execution_status` refuses what an ended row must not become
  (comments at 216-226), but judges a row read before its transaction; an
  `EXCEPTION` the backyard writes in between is overwritten.
* `unlimited`: a system limit of 0 means "none" for the backyard and makes the
  receiver drop the `LIMIT` of its query, so an agent gets more than the free
  slots it asked for (`agent_main.py:105`).
* `agentlimit`: `execute_control` leaves two statuses of agent runs out of its
  count, so the system limit does not bound them; above the limit it returns a
  list its caller cannot unpack and the check of dead children is skipped.

These have runs. Others were met while modelling; the models do what the code
does, and the properties are stated so as to hold for it:

* Conductor: the type of an end node that was reached overrides failed and
  stopped branches (`chk_conductor_end`); an instance with a handled and an
  unhandled failure side by side may wait for a merge for ever, because
  `error_node_conditional_flg` is that of the last failing row
  (`ConductorSettles` is claimed for it only once it is stopped); a pause keeps
  the status "paused" when its instance fails, and can still be released;
  `search_target_node` follows the first branch only. A booking that is cancelled
  between the list of open instances (`ita_by_conductor_synchronize/backyard_main.py:84`)
  and the locks (`:109-115`) is given an end status and started all the same, as its
  status is not read again.
* Scheduler: when an administrator changes an organization's setting from agents to
  containers, `child_process_exist_check` looks at rows of agents as if they were
  containers; one that only agents know (PREPARE_COMPLETE, PROCESSING_WAIT) and whose
  child and agent have died is never ended (`Forgotten`; `backyard_main.py:352-414`
  against `:416` and after). A reservation that is cancelled between the last look
  of `run_unexecuted` at the row and the update of `run_child_process` is
  overwritten by PREPARE and started (`CancelledIsNotStarted` excludes that moment).
* Order of a pass: `organization_priority` is set before the loop over the rows and not
  in it (`backyard_main.py:242`), so an organization with nothing running may inherit
  the share of a full one and be sorted with it; for an organization without a limit
  the priority is the number of its executions (`:252`), which puts it behind full
  organizations. As the first execution beyond a limit ends the whole pass (`:115`),
  either may wait longer than the order was made for; both are started in the end
  (`EverythingIsStarted`).
* The receiver applies its `LIMIT` to the table of each driver, so an agent that serves
  several drivers may have as many children of each as its `EXECUTION_LIMIT`
  (`DriverLimitKept`).
* Containers: a query that does not answer counts as "not running"
  (`ansible_execute.py:299-303`), so the row may end while its container goes on; so
  may a row whose container was still coming, whose kill failed, whose child raised
  (`update_status_error` writes EXCEPTION and stops nothing), and whose parent died
  between the commit of EXCEPTION and the clean-up (`backyard_main.py:383-397`),
  since nothing looks at an ended row again. These are the cases of `unseen`.
* Collection: the deletion of sent rows takes those with `sent_flag=0` along
  (`sqlite_connect.py:162`). In an undisturbed pass there are none; if the agent
  dies before it has cleaned its file and its next request fails, events that were
  never sent are deleted (`untidy`). An event is stored twice if the receiver dies
  between MongoDB and MariaDB, if two requests overlap, or if the agent's host name
  changes while an answer is lost (`doubtful`).
* Judgement: the limit against endless loops counts the sweeps of a level and is
  reset with each round (`backyard_main.py:440-467`, against the comment at 441),
  so rules that conclude their own premise never end (`Founded` in
  `JudgementEnds`); an "and" whose filters pick the same event uses it for both.
* Action log: after a death an event may be flagged without a row (the writer
  writes events before rows), or judged again (the row is there, the flag is
  not); a conductor started by `apply_api` runs on while its row ends as an error
  if the link was not written; a conclusion is lost when the process dies between
  the status and the event, or the notification there raises
  (`action_status_monitor.py:147-173`). An exception of a pass is caught
  (`ita_by_oase_conclusion/backyard_main.py:120-128`) and what follows is left out,
  `checkRuleMatch` and `checkExecuting` too. A rule in force whose filter is switched off
  is such a cause that lasts (`judgement.py:363`, as `getFilterIDMap` leaves the filter
  out): while events come, every pass breaks off and executing rows do not end, which
  `RowsEnd` excepts. `conductor_execute_no_transaction` returns False
  after its insert without a rollback (`exec_util.py:4589-4664`).
* `loadTable`: `rest_maintenance` locks the text of the list of tables, while
  `rest_maintenance_all` locks the tables of the list and its own
  (`load_table.py:1219-1223`, `1302-1310`), so that single and bulk requests for a menu
  with LOCK_TABLE do not exclude each other: the model lets such a menu take one kind
  only. `exec_unique_constraint` (`:2365-2422`, on what the entry gives, `:1888`) takes
  a column that is left out as NULL and not as what the record holds; only registrations
  have to give what is required (`:2776`). So an update of one column of a combination
  may make two records in use share a key, and one of a disused record that mentions
  none of them revives it unchecked: `UniqueKept` leaves out requests with such an
  update (`Escapes`).
* Terraform: what `is_emergency_stop` returns is ignored at its callers, so a child
  goes on after a stop and its last status replaces SCRAM; meanwhile its workspace
  counts as free and a second child may start, which the lock file then refuses.
  The stop file belongs to the workspace and is made after the status was looked
  at: late, it stops the execution that follows. `/bin/rm -fr {}` is given the
  paths as one, so the lock file is not removed. A killed child leaves its
  terraform running, which the model does not show.

## 6. Not modelled, and the plan

Still to do, in this order:

1. Composition of `Conductor` with `ExecutionLifecycle` as the abstract movement.
2. Several executions in containers at once, under the parent of `AnsibleScheduler`.

Of what is modelled in part, this is left out. Of the scheduler: the restart count
files as files, and maintenance mode. Of containers: time to pull an image, states
of Docker and Kubernetes beyond coming, up and exited, the files of the playbook; a
change of the setting is in `AnsibleScheduler`. Of collection: several settings of
one agent, mails that arrive late or bear a date in the future (collected again once
their row is cleaned away), the age limit of the progress table, errors of SQLite,
the grouping of events and the check for duplicates across agents, which match
labels.

Left out: Tower mode and Terraform Cloud/EP (REST choreographies with products that are
not here), the periodic registration of conductors, batch jobs and import and export
(sequential file and table transformations), column classes and authority in `loadTable`
(data, no shared state), admin API, migrations and the web client (no shared protocol
state).
