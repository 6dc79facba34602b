------------------------- MODULE ContainerExecution -------------------------
(* One execution by ansible-playbook in a container of its own: the parent of  *)
(* ita_by_ansible_execute, the child that starts, watches and stops the        *)
(* container, the files they share with it, and the user's emergency stop.     *)
(* Processes die, calls fail, and Docker or Kubernetes may not answer.         *)
EXTENDS Naturals

CONSTANT MaxLosses \* how often something dies, fails or does not answer

ASSUME LossAssumption == MaxLosses \in Nat

VARIABLES purpose,   \* RUN_MODE: to run the playbook, or to check parameters
          rowStatus, \* STATUS_ID
          execChild, \* where the child is, "gone" if there is none
          verdict,   \* the last status, as execute_statuscheck found it
          container,
          playbook,  \* how ansible-playbook ended
          result,    \* result.txt
          forced,    \* forced.txt is there
          stopper,   \* the request for an emergency stop
          overseer,  \* the parent
          unseen,    \* a container went on that nobody looks after (history)
          losses

inside == <<container, playbook, result>>
containerVars == <<purpose, rowStatus, execChild, verdict, inside, forced, stopper, overseer,
                   unseen, losses>>

Active == {"prepare", "processing", "delayed"}
Final == {"complete", "failure", "exception", "scram"}
ChildPlaces == {"build", "starting", "refused", "look", "stop", "judge", "write", "ended", "gone"}

Tally == 0..MaxLosses

ContainerTypeOK ==
    /\ purpose \in {"run", "check"}
    /\ rowStatus \in {"not_yet"} \cup Active \cup Final
    /\ execChild \in ChildPlaces
    /\ verdict \in {"none"} \cup Final
    /\ (execChild = "write") = (verdict /= "none")
    /\ container \in {"absent", "coming", "up", "exited"}
    /\ playbook \in {"none", "going", "good", "bad"}
    /\ result \in {"none", "empty", "completed", "prevented"}
    /\ forced \in BOOLEAN
    /\ stopper \in {"idle", "asked", "done"}
    /\ overseer \in {"idle", "fork", "clean"}
    /\ unseen \in BOOLEAN
    /\ losses \in Tally

ContainerInit ==
    /\ purpose \in {"run", "check"}
    /\ rowStatus = "not_yet" /\ execChild = "gone" /\ verdict = "none"
    /\ container = "absent" /\ playbook = "none" /\ result = "none"
    /\ forced = FALSE /\ stopper = "idle" /\ overseer = "idle"
    /\ unseen = FALSE /\ losses = 0

Loss == losses < MaxLosses /\ losses' = losses + 1

\* The container goes on though its row is about to end.
LeftIf(up) == IF up THEN unseen' = TRUE ELSE UNCHANGED unseen

-----------------------------------------------------------------------------
(* The parent. *)

\* run_child_process: the row becomes PREPARE, then the child is started.
TakeUpRow == /\ overseer = "idle" /\ rowStatus = "not_yet"
             /\ rowStatus' = "prepare" /\ overseer' = "fork"
             /\ UNCHANGED <<purpose, execChild, verdict, inside, forced, stopper, unseen, losses>>

ForkChild == /\ overseer = "fork"
             /\ execChild' = "build" /\ overseer' = "idle"
             /\ UNCHANGED <<purpose, rowStatus, verdict, inside, forced, stopper, unseen, losses>>

FindGone(statuses) ==
    /\ overseer = "idle" /\ execChild = "gone" /\ rowStatus \in statuses
    /\ rowStatus' = "exception" /\ overseer' = "clean"
    /\ UNCHANGED <<purpose, execChild, verdict, inside, forced, stopper, unseen, losses>>

\* Slip: a row that never left PREPARE is not looked for.
FindGoneAtWork == FindGone(Active \ {"prepare"})

\* child_process_exist_check: an active row without a child.
FindChildGone == FindGone(Active)

\* An exited container is removed, perhaps without success.
Removed(c) == IF c = "exited" THEN {"absent", "exited"} ELSE {c}

\* Slip: only an exited container is cleaned up.
CleanExited == /\ overseer = "clean" /\ overseer' = "idle"
               /\ container' \in Removed(container)
               /\ LeftIf(container = "coming")
               /\ UNCHANGED <<purpose, rowStatus, execChild, verdict, playbook, result, forced,
                              stopper, losses>>

\* Then what is left of the container: killed if it runs, removed if it ended.
CleanContainer == /\ overseer = "clean" /\ overseer' = "idle"
                  /\ container' \in IF container = "up" THEN {"absent"} ELSE Removed(container)
                  /\ LeftIf(container = "coming")
                  /\ UNCHANGED <<purpose, rowStatus, execChild, verdict, playbook, result, forced,
                                 stopper, losses>>

\* The query does not answer, or the kill fails; that is logged.
CleanInVain == /\ overseer = "clean" /\ Loss
               /\ overseer' = "idle" /\ LeftIf(container \in {"coming", "up"})
               /\ UNCHANGED <<purpose, rowStatus, execChild, verdict, inside, forced, stopper>>

\* The backyard dies with its children and what they call; a container is not its
\* child, and may even come up later.
ParentLost == /\ Loss
              /\ execChild' = "gone" /\ verdict' = "none" /\ overseer' = "idle"
              /\ container' \in IF container = "coming" THEN {"absent", "coming"} ELSE {container}
              /\ LeftIf(overseer = "clean" /\ container' \in {"coming", "up"})
              /\ UNCHANGED <<purpose, rowStatus, playbook, result, forced, stopper>>

-----------------------------------------------------------------------------
(* The child. *)

ChildGoes(place) == execChild' = place /\ UNCHANGED <<purpose, forced, stopper, overseer>>
Finds(v) == ChildGoes("write") /\ verdict' = v

CheckParameters == /\ execChild = "build" /\ purpose = "check"
                   /\ ChildGoes("ended") /\ rowStatus' = "complete"
                   /\ UNCHANGED <<verdict, inside, unseen, losses>>

\* execute_construct: a shell around ansible-playbook, and a command that starts
\* it in a container; should the child die meanwhile, the command goes on.
StartContainer == /\ execChild = "build" /\ purpose = "run"
                  /\ ChildGoes("starting") /\ container' = "coming"
                  /\ UNCHANGED <<rowStatus, verdict, playbook, result, unseen, losses>>

\* The command fails, with the container started or not.
StartFails == /\ execChild = "starting" /\ Loss
              /\ ChildGoes("refused")
              /\ \/ container = "coming" /\ container' = "absent" /\ UNCHANGED playbook
                 \/ container = "coming" /\ container' = "up" /\ playbook' = "going"
                 \/ container /= "coming" /\ UNCHANGED <<container, playbook>>
              /\ LeftIf(container' = "up")
              /\ UNCHANGED <<rowStatus, verdict, result>>

RecordStart == /\ \/ execChild = "starting" /\ container /= "coming"
                     /\ ChildGoes("look") /\ rowStatus' = "processing"
                  \/ execChild = "refused"
                     /\ ChildGoes("ended") /\ rowStatus' = "exception"
               /\ UNCHANGED <<verdict, inside, unseen, losses>>

\* execute_statuscheck asks whether the container runs.
LookAt(up) == /\ execChild = "look"
              /\ \/ up /\ forced /\ ChildGoes("stop") /\ UNCHANGED rowStatus
                 \/ ~up /\ ChildGoes("judge") /\ UNCHANGED rowStatus
                 \/ up /\ ~forced /\ rowStatus = "processing"
                    /\ ChildGoes("look") /\ rowStatus' = "delayed"
              /\ UNCHANGED <<verdict, inside>>

LookAtContainer == LookAt(container = "up") /\ UNCHANGED <<unseen, losses>>

\* What does not answer counts as not running.
LookInVain == container = "up" /\ Loss /\ LeftIf(TRUE) /\ LookAt(FALSE)

StopContainer == /\ execChild = "stop"
                 /\ container' = "absent" /\ Finds("scram")
                 /\ UNCHANGED <<rowStatus, playbook, result, unseen, losses>>

\* The kill fails, or only the removal after it.
StopFails == /\ execChild = "stop" /\ Loss
             /\ container' \in {container, "exited"} /\ Finds("exception")
             /\ LeftIf(container' = "up")
             /\ UNCHANGED <<rowStatus, playbook, result>>

JudgeResult(v) == /\ execChild = "judge" /\ Finds(v)
                  /\ container' \in Removed(container)
                  /\ UNCHANGED <<rowStatus, playbook, result, unseen, losses>>

\* Slip: a result file counts as success.
ReadLoosely == JudgeResult(IF result = "none" THEN "exception" ELSE "complete")

\* Without a running container its result file tells.
ReadResult == JudgeResult(CASE result = "completed" -> "complete"
                            [] result = "none" -> "exception"
                            [] OTHER -> "failure")

WriteEnd == /\ execChild = "write"
            /\ rowStatus' = verdict /\ verdict' = "none"
            /\ ChildGoes("ended")
            /\ UNCHANGED <<inside, unseen, losses>>

LeaveChild == /\ execChild = "ended" /\ ChildGoes("gone")
              /\ UNCHANGED <<rowStatus, verdict, inside, unseen, losses>>

RaiseFrom(places) == /\ execChild \in places /\ Loss
                     /\ rowStatus' = "exception" /\ verdict' = "none"
                     /\ ChildGoes("gone") /\ LeftIf(container \in {"coming", "up"})
                     /\ UNCHANGED inside

\* Slip: what is raised after the end was written is taken for its failure.
ChildRaisesLate == RaiseFrom(ChildPlaces \ {"gone"})

\* update_status_error: the row ends, whatever became of the container.
ChildRaises == RaiseFrom(ChildPlaces \ {"ended", "gone"})

\* Killed, or unable even to write the row.
ChildLost == /\ execChild /= "gone" /\ Loss
             /\ ChildGoes("gone") /\ verdict' = "none"
             /\ UNCHANGED <<rowStatus, inside, unseen>>

-----------------------------------------------------------------------------
(* The shell in the container, and the user. *)

rest == <<purpose, rowStatus, execChild, verdict, forced, stopper, overseer, unseen>>

ContainerComes == /\ container = "coming"
                  /\ container' = "up" /\ playbook' = "going"
                  /\ UNCHANGED <<result, rest, losses>>

\* The file is opened, written, and the shell ends.
PlaybookEnds == /\ container = "up" /\ playbook = "going"
                /\ playbook' \in {"good", "bad"} /\ result' = "empty"
                /\ UNCHANGED <<container, rest, losses>>

WriteResult == /\ container = "up" /\ result = "empty"
               /\ result' = IF playbook = "good" THEN "completed" ELSE "prevented"
               /\ UNCHANGED <<container, playbook, rest, losses>>

ContainerExits == /\ container = "up" /\ result \in {"completed", "prevented"}
                  /\ container' = "exited"
                  /\ UNCHANGED <<playbook, result, rest, losses>>

\* It ends before it has written a result, or for reasons of its own.
ContainerLost == /\ container = "up" /\ Loss
                 /\ container' = "exited"
                 /\ UNCHANGED <<playbook, result, rest>>

\* execution_scram looks at the status, then execute_abort writes forced.txt.
AskForStop == /\ stopper = "idle" /\ rowStatus \in {"processing", "delayed"}
              /\ stopper' = "asked"
              /\ UNCHANGED <<purpose, rowStatus, execChild, verdict, inside, forced, overseer,
                             unseen, losses>>

WriteForced == /\ stopper = "asked"
               /\ stopper' = "done" /\ forced' = TRUE
               /\ UNCHANGED <<purpose, rowStatus, execChild, verdict, inside, overseer, unseen,
                              losses>>

-----------------------------------------------------------------------------
OverseerSteps == TakeUpRow \/ ForkChild \/ FindChildGone \/ CleanContainer
ExecChildSteps == \/ CheckParameters \/ StartContainer \/ RecordStart \/ LookAtContainer
                  \/ StopContainer \/ ReadResult \/ WriteEnd \/ LeaveChild
ContainerSteps == ContainerComes \/ PlaybookEnds \/ WriteResult \/ ContainerExits
LossSteps == \/ CleanInVain \/ ParentLost \/ StartFails \/ LookInVain \/ StopFails
             \/ ChildRaises \/ ChildLost \/ ContainerLost

ContainerNext == \/ OverseerSteps \/ ExecChildSteps \/ ContainerSteps \/ LossSteps
                 \/ AskForStop \/ WriteForced

ContainerSpec == ContainerInit /\ [][ContainerNext]_containerVars

\* The backyard loops, a child goes on and commands return; a playbook may take
\* for ever.
ContainerFairSpec == ContainerSpec /\ WF_containerVars(OverseerSteps)
                                   /\ WF_containerVars(ExecChildSteps \/ ContainerComes)

-----------------------------------------------------------------------------
\* No container outlives its row: once the row has ended and nobody is at work on
\* it any more nothing runs, but for a container that was still coming, or could not
\* be seen or stopped, and one whose child or parent failed right after the row.
NothingRunsOn ==
    rowStatus \in Final /\ execChild = "gone" /\ overseer = "idle" /\ container = "up" => unseen

\* What the row says of the playbook is so, over processes that die and containers
\* that seem to have ended: success and failure are its own, and after a stop
\* nothing goes on.
EndIsTrue == /\ rowStatus = "complete" /\ purpose = "run" => playbook = "good"
             /\ rowStatus = "failure" => playbook \in {"good", "bad"}
             /\ rowStatus = "scram" => forced /\ container = "absent"

\* A row that was taken up ends once its container has ended or is to be stopped,
\* whoever dies meanwhile.
StoppedEnds == []<>(rowStatus \notin Active \/ (container = "up" /\ ~forced))

UserPhase == CASE rowStatus = "not_yet" -> "waiting"
               [] rowStatus = "prepare" /\ playbook = "none" -> "preparing"
               [] rowStatus = "prepare" /\ playbook /= "none" -> "offered"
               [] rowStatus \in {"processing", "delayed"} -> "given"
               [] OTHER -> "settled"

UserOutcome == CASE rowStatus = "complete" -> "COMPLETE"
                 [] rowStatus = "failure" -> "FAILURE"
                 [] rowStatus = "exception" -> "EXCEPTION"
                 [] rowStatus = "scram" -> "SCRAM"
                 [] OTHER -> "none"

Promised == INSTANCE ExecutionLifecycle WITH
              Executions <- {"e"},
              phase <- [e \in {"e"} |-> UserPhase],
              outcome <- [e \in {"e"} |-> UserOutcome]

\* For its user the execution is one of those that agents carry out: taken up once,
\* handed over once, and settled when it has ended.
ContainerKeepsLifecycle == Promised!Spec
=============================================================================
