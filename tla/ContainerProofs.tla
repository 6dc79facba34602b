---------------------------- MODULE ContainerProofs ----------------------------
(* Executions in containers, with any number of deaths and failing calls: what
   becomes of each (ContainerExecution), and how many there are at a time
   (AnsibleScheduler). *)
EXTENDS ContainerExecution, AnsibleScheduler, FiniteSetTheorems, TLAPS

\* The parent is busy with the row only while there is no child, and what the row
\* says follows from where the child is.
RowFollowsChild ==
    /\ rowStatus = "not_yet" => execChild = "gone" /\ overseer = "idle"
    /\ overseer = "fork" => execChild = "gone" /\ rowStatus = "prepare"
    /\ overseer = "clean" => execChild = "gone" /\ rowStatus = "exception"
    /\ execChild \in {"build", "starting", "refused"} => rowStatus = "prepare"
    /\ execChild \in {"look", "stop", "judge", "write"} => rowStatus \in {"processing",
     "delayed"}
    /\ execChild = "ended" => rowStatus \in Final

\* Before the child starts it there is no container, and a container that is
\* coming has run nothing yet.
Early == rowStatus = "not_yet" \/ overseer = "fork" \/ execChild = "build"

StartsClean ==
    /\ Early => container = "absent"
    /\ Early \/ container = "coming" => playbook = "none" /\ result = "none"
    /\ container = "coming" => execChild \in {"starting", "gone"}
    /\ execChild = "starting" => container \in {"coming", "up", "exited"}
    /\ container \in {"up", "exited"} \/ execChild = "stop" => playbook /= "none"

\* What child and parent leave behind when they have done with the row is known to
\* be left.
Over == \/ execChild \in {"refused", "judge", "write", "ended"}
        \/ rowStatus \in Final /\ execChild = "gone" /\ overseer = "idle"

LeftIsUnseen == Over /\ container \in {"coming", "up"} => unseen

\* What was found is true before it is written, and stays so.
Holds(v) == /\ v = "complete" => playbook = "good"
            /\ v = "failure" => playbook \in {"good", "bad"}
            /\ v = "scram" => forced /\ container = "absent"

ResultIsTrue == /\ result = "completed" => playbook = "good"
                /\ result \in {"empty", "prevented"} => playbook \in {"good", "bad"}
                /\ execChild = "stop" => forced

WrittenIsTrue == /\ Holds(verdict)
                 /\ purpose = "check" \/ Holds(rowStatus)
                 /\ purpose = "check" => container = "absent"
                 /\ purpose = "check" => rowStatus \notin {"failure", "scram"}
                 /\ purpose = "check" => execChild \in {"build", "ended", "gone"}

ContainerInv == /\ ContainerTypeOK /\ RowFollowsChild /\ StartsClean /\ LeftIsUnseen
                /\ ResultIsTrue /\ WrittenIsTrue

LEMMA ContainerInvInit == ContainerInit => ContainerInv
<1> SUFFICES ASSUME ContainerInit PROVE ContainerInv
  OBVIOUS
<1>0. losses \in Tally
  BY LossAssumption DEF LossAssumption, ContainerInit, Tally
<1>1. ContainerTypeOK
  BY <1>0 DEF ContainerInit, ContainerTypeOK, ChildPlaces, Active, Final
<1>2. RowFollowsChild /\ StartsClean /\ LeftIsUnseen
  BY DEF ContainerInit, RowFollowsChild, StartsClean, LeftIsUnseen, Early, Over, Active, Final
<1>3. ResultIsTrue /\ WrittenIsTrue
  BY DEF ContainerInit, ResultIsTrue, WrittenIsTrue, Holds
<1> QED
  BY <1>1, <1>2, <1>3 DEF ContainerInv

LEMMA TallyKept ==
    ASSUME losses \in Tally, [ContainerNext]_containerVars PROVE losses' \in Tally
<1>1. CASE Loss
  BY <1>1, LossAssumption DEF LossAssumption, Loss, Tally
<1>2. CASE UNCHANGED losses
  BY <1>2 DEF Tally
<1>3. Loss \/ UNCHANGED losses
  BY DEF ContainerNext, OverseerSteps, ExecChildSteps, ContainerSteps, LossSteps, containerVars,
     TakeUpRow, ForkChild, FindChildGone, CleanContainer, CheckParameters, StartContainer,
     RecordStart, LookAtContainer, StopContainer, ReadResult, WriteEnd, LeaveChild,
     ContainerComes, PlaybookEnds, WriteResult, ContainerExits, CleanInVain, ParentLost,
     StartFails, LookInVain, StopFails, ChildRaises, ChildLost, ContainerLost, AskForStop,
     WriteForced, ChildGoes, FindGone, Finds, JudgeResult, LeftIf, LookAt, RaiseFrom,
     Removed, rest
<1> QED
  BY <1>1, <1>2, <1>3

LEMMA ContainerInvStep == ContainerInv /\ [ContainerNext]_containerVars => ContainerInv'
<1> SUFFICES ASSUME ContainerInv, [ContainerNext]_containerVars PROVE ContainerInv'
  OBVIOUS
<1>0. losses' \in Tally
  BY TallyKept DEF ContainerInv, ContainerTypeOK
<1> USE <1>0 DEF ContainerInv, ContainerTypeOK, RowFollowsChild, StartsClean, LeftIsUnseen,
        ResultIsTrue, WrittenIsTrue, Holds, Early, Over, ChildPlaces, Active, Final
<1>1. CASE TakeUpRow
  BY <1>1 DEF TakeUpRow, inside
<1>2. CASE ForkChild
  BY <1>2 DEF ForkChild, inside
<1>3. CASE FindChildGone
  BY <1>3 DEF FindChildGone, FindGone, inside
<1>4. CASE CleanContainer
  <2>1. ContainerTypeOK'
    BY <1>4 DEF CleanContainer, Removed, LeftIf, inside
  <2>2. RowFollowsChild' /\ StartsClean' /\ LeftIsUnseen'
    BY <1>4 DEF CleanContainer, Removed, LeftIf, inside
  <2>3. ResultIsTrue' /\ WrittenIsTrue'
    BY <1>4 DEF CleanContainer, Removed, LeftIf, inside
  <2> QED
    BY <2>1, <2>2, <2>3
<1>5. CASE CheckParameters
  BY <1>5 DEF CheckParameters, ChildGoes, inside
<1>6. CASE StartContainer
  BY <1>6 DEF StartContainer, ChildGoes, inside
<1>7. CASE RecordStart
  BY <1>7 DEF RecordStart, ChildGoes, inside
<1>8. CASE LookAtContainer
  BY <1>8 DEF LookAtContainer, LookAt, ChildGoes, inside
<1>9. CASE StopContainer
  BY <1>9 DEF StopContainer, Finds, ChildGoes, inside
<1>10. CASE ReadResult
  BY <1>10 DEF ReadResult, JudgeResult, Finds, ChildGoes, Removed, inside
<1>11. CASE WriteEnd
  BY <1>11 DEF WriteEnd, ChildGoes, inside
<1>12. CASE LeaveChild
  BY <1>12 DEF LeaveChild, ChildGoes, inside
<1>13. CASE ContainerComes
  BY <1>13 DEF ContainerComes, rest, inside
<1>14. CASE PlaybookEnds
  BY <1>14 DEF PlaybookEnds, rest, inside
<1>15. CASE WriteResult
  BY <1>15 DEF WriteResult, rest, inside
<1>16. CASE ContainerExits
  BY <1>16 DEF ContainerExits, rest, inside
<1>17. CASE CleanInVain
  <2>1. ContainerTypeOK'
    BY <1>17 DEF CleanInVain, LeftIf, inside
  <2>2. RowFollowsChild' /\ StartsClean' /\ LeftIsUnseen'
    BY <1>17 DEF CleanInVain, LeftIf, inside
  <2>3. ResultIsTrue' /\ WrittenIsTrue'
    BY <1>17 DEF CleanInVain, LeftIf, inside
  <2> QED
    BY <2>1, <2>2, <2>3
<1>18. CASE ParentLost
  <2>0. unseen' \in BOOLEAN /\ container' \in {"absent", "coming", container}
    BY <1>18 DEF ParentLost, LeftIf
  <2>1. ContainerTypeOK'
    BY <1>18, <2>0 DEF ParentLost
  <2>2. RowFollowsChild' /\ StartsClean' /\ LeftIsUnseen'
    BY <1>18 DEF ParentLost, LeftIf, inside
  <2>3. ResultIsTrue' /\ WrittenIsTrue'
    BY <1>18 DEF ParentLost, LeftIf, inside
  <2> QED
    BY <2>1, <2>2, <2>3
<1>19. CASE StartFails
  BY <1>19 DEF StartFails, ChildGoes, LeftIf, inside
<1>20. CASE LookInVain
  BY <1>20 DEF LookInVain, LeftIf, LookAt, ChildGoes, inside
<1>21. CASE StopFails
  <2>1. ContainerTypeOK'
    BY <1>21 DEF StopFails, Finds, ChildGoes, LeftIf, inside
  <2>2. RowFollowsChild' /\ StartsClean' /\ LeftIsUnseen'
    BY <1>21 DEF StopFails, Finds, ChildGoes, LeftIf, inside
  <2>3. ResultIsTrue' /\ WrittenIsTrue'
    BY <1>21 DEF StopFails, Finds, ChildGoes, LeftIf, inside
  <2> QED
    BY <2>1, <2>2, <2>3
<1>22. CASE ChildRaises
  <2>1. ContainerTypeOK'
    BY <1>22 DEF ChildRaises, RaiseFrom, ChildGoes, LeftIf, inside
  <2>2. RowFollowsChild' /\ StartsClean' /\ LeftIsUnseen'
    BY <1>22 DEF ChildRaises, RaiseFrom, ChildGoes, LeftIf, inside
  <2>3. ResultIsTrue' /\ WrittenIsTrue'
    BY <1>22 DEF ChildRaises, RaiseFrom, ChildGoes, LeftIf, inside
  <2> QED
    BY <2>1, <2>2, <2>3
<1>23. CASE ChildLost
  BY <1>23 DEF ChildLost, ChildGoes, inside
<1>24. CASE ContainerLost
  BY <1>24 DEF ContainerLost, rest, inside
<1>25. CASE AskForStop
  BY <1>25 DEF AskForStop, inside
<1>26. CASE WriteForced
  BY <1>26 DEF WriteForced, inside
<1>27. CASE UNCHANGED containerVars
  BY <1>27 DEF containerVars, inside
<1> QED
  BY <1>1, <1>2, <1>3, <1>4, <1>5, <1>6, <1>7, <1>8, <1>9, <1>10, <1>11, <1>12, <1>13, <1>14,
     <1>15, <1>16, <1>17, <1>18, <1>19, <1>20, <1>21, <1>22, <1>23, <1>24, <1>25, <1>26, <1>27
  DEF ContainerNext, OverseerSteps, ExecChildSteps, ContainerSteps, LossSteps

LEMMA ContainerInvHolds == ContainerSpec => []ContainerInv
BY ContainerInvInit, ContainerInvStep, PTL DEF ContainerSpec

\* Row, child, parent and container are what the tables and the engine know, and no
\* more is lost than may be (ContainerTypeOK).
THEOREM ContainerTypeHolds == ContainerSpec => []ContainerTypeOK
<1>1. ContainerInv => ContainerTypeOK
  BY DEF ContainerInv
<1> QED
  BY <1>1, ContainerInvHolds, PTL

\* A container outlives its row only where nobody could see it or stop it, however
\* often processes die and calls fail.
THEOREM NothingRunsOnHolds == ContainerSpec => []NothingRunsOn
<1>1. ContainerInv => NothingRunsOn
  BY DEF ContainerInv, LeftIsUnseen, Over, NothingRunsOn
<1> QED
  BY <1>1, ContainerInvHolds, PTL

\* Success, failure and stop are true of the playbook and the container, however
\* often processes die and calls fail.
THEOREM EndIsTrueHolds == ContainerSpec => []EndIsTrue
<1>1. ContainerInv => EndIsTrue
  BY DEF ContainerInv, ContainerTypeOK, WrittenIsTrue, Holds, EndIsTrue
<1> QED
  BY <1>1, ContainerInvHolds, PTL

LEMMA UserStarts == ContainerInit => Promised!Init
BY DEF ContainerInit, Promised!Init, UserPhase, UserOutcome

\* What the user sees is a stutter, a step of the life cycle, or an end.
LEMMA UserStep ==
    ASSUME ContainerInv, ContainerInv', ContainerNext
    PROVE  \/ UNCHANGED <<UserPhase, UserOutcome>>
           \/ UserPhase = "waiting" /\ UserPhase' = "preparing" /\ UserOutcome' = "none"
           \/ UserPhase = "preparing" /\ UserPhase' = "offered" /\ UserOutcome' = "none"
           \/ UserPhase = "offered" /\ UserPhase' = "given" /\ UserOutcome' = "none"
           \/ /\ UserPhase \in {"preparing", "offered", "given"}
              /\ UserPhase' = "settled" /\ UserOutcome' \in Promised!Outcomes
<1> USE DEF UserPhase, UserOutcome, ContainerInv, ContainerTypeOK, RowFollowsChild, StartsClean,
            Early, ChildPlaces, Active, Final, Promised!Outcomes
<1>0. CASE UNCHANGED <<rowStatus, playbook>>
  BY <1>0
<1>1. CASE TakeUpRow
  BY <1>1 DEF TakeUpRow, inside
<1>2. CASE FindChildGone
  BY <1>2 DEF FindChildGone, FindGone, inside
<1>3. CASE CheckParameters
  BY <1>3 DEF CheckParameters, ChildGoes, inside
<1>4. CASE RecordStart
  BY <1>4 DEF RecordStart, ChildGoes, inside
<1>5. CASE LookAtContainer
  BY <1>5 DEF LookAtContainer, LookAt, ChildGoes, inside
<1>6. CASE WriteEnd
  BY <1>6 DEF WriteEnd, ChildGoes, inside
<1>7. CASE ContainerComes
  BY <1>7 DEF ContainerComes, rest, inside
<1>8. CASE PlaybookEnds
  BY <1>8 DEF PlaybookEnds, rest, inside
<1>9. CASE StartFails
  BY <1>9 DEF StartFails, ChildGoes, LeftIf, inside
<1>10. CASE LookInVain
  BY <1>10 DEF LookInVain, LeftIf, LookAt, ChildGoes, inside
<1>11. CASE ChildRaises
  BY <1>11 DEF ChildRaises, RaiseFrom, ChildGoes, LeftIf, inside
<1>12. CASE ForkChild \/ CleanContainer \/ StartContainer \/ StopContainer \/ ReadResult \/
      LeaveChild \/ WriteResult \/ ContainerExits \/ CleanInVain \/ ParentLost \/ StopFails \/
      ChildLost \/ ContainerLost \/ AskForStop \/ WriteForced
  BY <1>0, <1>12 DEF ForkChild, CleanContainer, StartContainer, StopContainer, ReadResult,
     LeaveChild, WriteResult, ContainerExits, CleanInVain, ParentLost, StopFails, ChildLost,
     ContainerLost, AskForStop, WriteForced, ChildGoes, Finds, JudgeResult, LeftIf, Removed,
     inside, rest
<1> QED
  BY <1>1, <1>2, <1>3, <1>4, <1>5, <1>6, <1>7, <1>8, <1>9, <1>10, <1>11, <1>12
  DEF ContainerNext, OverseerSteps, ExecChildSteps, ContainerSteps, LossSteps

LEMMA UserSees ==
    ContainerInv /\ ContainerInv' /\ [ContainerNext]_containerVars =>
        [Promised!Next]_<<[e \in {"e"} |-> UserPhase], [e \in {"e"} |-> UserOutcome]>>
<1> SUFFICES ASSUME ContainerInv, ContainerInv', [ContainerNext]_containerVars
    PROVE [Promised!Next]_<<[e \in {"e"} |-> UserPhase], [e \in {"e"} |-> UserOutcome]>>
  OBVIOUS
<1>1. CASE UNCHANGED containerVars
  BY <1>1 DEF containerVars, inside, UserPhase, UserOutcome
<1>2. CASE ContainerNext
  <2>1. CASE UNCHANGED <<UserPhase, UserOutcome>>
    BY <2>1
  <2>2. CASE ~ UNCHANGED <<UserPhase, UserOutcome>>
    BY <1>2, <2>2, UserStep DEF Promised!Next, Promised!Launch, Promised!Offer,
       Promised!GiveOut, Promised!End, Promised!Becomes
  <2> QED
    BY <2>1, <2>2
<1> QED
  BY <1>1, <1>2

\* The execution in a container implements what the user of any execution is
\* promised, the same as the executions of agents do.
THEOREM KeepsLifecycleHolds == ContainerSpec => ContainerKeepsLifecycle
BY UserStarts, UserSees, ContainerInvHolds, PTL
   DEF ContainerSpec, ContainerKeepsLifecycle, Promised!Spec

-----------------------------------------------------------------------------
(* How many containers there are: the passes of AnsibleScheduler, for any
   executions, organizations and limits, with Cardinality as the code's counts. *)

\* The containers under way, of all and of one organization.
UnderWay == Busy \cap InContainers
UnderWayOf(o) == BusyOf(o) \cap InContainers

\* No agent takes up what is run in a container.
ContainersStay == \A e \in InContainers : state[e] /= "handed"

\* What has not been launched has no process.
UnlaunchedUnserved ==
    \A e \in Executions :
        state[e] \in {"unregistered", "waiting", "reserved", "cancelled"} => e \notin served

\* The counts of the pass cover all containers, and leave room for one it is
\* about to start.
PassCovers ==
    pass.pc /= "idle" =>
        /\ Cardinality(UnderWay) <= pass.all + pass.crr
        /\ \A o \in Organizations : Cardinality(UnderWayOf(o)) <= pass.org[o] + pass.crr

PassHasRoom == pass.pc = "launch" => \A e \in pass.at : ~LimitReached(e)

\* The rows that are selected, and what sorts them: a share of the limit, rounded
\* down.
Selected == {e \in Executions : Target(e) /\ ~Excluded(OrgOf[e])}
Share(n, limit) == IF limit = 0 THEN n ELSE n \div limit

\* The rows a pass has left are sorted by how full their organizations were.
PassOrdered ==
    \A e \in pass.left :
        LET o == OrgOf[e]
        IN  pass.org[o] > 0 => pass.priority[e] = Share(pass.org[o], OrgLimit[o])

\* What each step of the parent, the users and the processes keeps.
SchedulerInv == TypeOK /\ ContainersStay /\ UnlaunchedUnserved
                /\ PassCovers /\ PassHasRoom /\ PassOrdered /\ ContainersKeepLimits

\* Cardinality is defined for all that is counted.
LEMMA UnderWayIsFinite ==
    ASSUME NEW o \in Organizations
    PROVE  /\ IsFiniteSet(Counted) /\ IsFiniteSet(CountedOf(o))
           /\ IsFiniteSet(UnderWay) /\ IsFiniteSet(UnderWayOf(o))
BY FS_Subset, SchedulerAssumption
   DEF Counted, CountedOf, UnderWay, UnderWayOf, Busy, BusyOf

\* Containers that are under way are counted.
LEMMA UnderWayIsCounted ==
    ASSUME TypeOK, ContainersStay
    PROVE  /\ UnderWay = Counted \cap InContainers
           /\ \A o \in Organizations : UnderWayOf(o) = CountedOf(o) \cap InContainers
BY DEF TypeOK, ContainersStay, UnderWay, UnderWayOf, Busy, BusyOf, Launched, Counted, CountedOf,
       InContainers

\* How the local variables of a pass move.
LEMMA PassMoves ==
    ASSUME TypeOK, [Next]_vars
    PROVE  \/ pass' = pass \/ pass' = NoPass
           \/ ExecuteControl
           \/ pass.pc = "check" /\ pass' = [pass EXCEPT !.pc = "loop"]
           \/ \E e \in Executions :
                \/ pass.pc = "loop" /\ pass' = [pass EXCEPT !.pc = "launch", !.at = {e}]
                \/ pass.pc \in {"loop", "launch"} /\ pass' = Advance(e)
BY DEF Next, Pass, Register, Cancel, ComeDue, Progress, Abandon, Switch, PassBreaks,
       ChildProcessExistCheck, RunUnexecuted, RunChildProcess, EndPass, SkipOne, vars

\* The values a pass's local variables may have (as in TypeOK).
SchedulerPasses == [pc : {"idle", "check", "loop", "launch"}, left : SUBSET Executions,
                    at : SUBSET Executions, priority : [Executions -> Nat],
                    crr : Nat, all : Nat, org : [Organizations -> Nat]]

\* A pass that ends, and one that goes on to its loop, keeps its types.
LEMMA NoPassTyped ==
    /\ NoPass \in SchedulerPasses
    /\ pass \in SchedulerPasses => [pass EXCEPT !.pc = "loop"] \in SchedulerPasses
BY DEF NoPass, SchedulerPasses

\* So does one that goes on to the next execution, or to its launch.
LEMMA PassTypes ==
    ASSUME pass \in SchedulerPasses, NEW e \in Executions
    PROVE  /\ Advance(e) \in SchedulerPasses
           /\ [pass EXCEPT !.pc = "launch", !.at = {e}] \in SchedulerPasses
<1>2. ASSUME NEW l \in SUBSET Executions, NEW n \in Nat
      PROVE  [pass EXCEPT !.left = l, !.at = {}, !.pc = "loop", !.crr = n] \in SchedulerPasses
  BY DEF SchedulerPasses
<1>3. pass.left \ {e} \in SUBSET Executions /\ pass.crr + 1 \in Nat
  BY DEF SchedulerPasses
<1>4. Advance(e) \in SchedulerPasses
  BY NoPassTyped, <1>2, <1>3 DEF Advance
<1>6. [pass EXCEPT !.pc = "launch", !.at = {e}] \in SchedulerPasses
  BY DEF SchedulerPasses
<1>. QED
  BY <1>4, <1>6

\* A share is 0 below the limit and not from there on.
LEMMA ShareIs ==
    ASSUME NEW n \in Nat, NEW limit \in Nat
    PROVE  /\ Share(n, limit) \in Nat
           /\ limit /= 0 /\ n < limit => Share(n, limit) = 0
           /\ limit /= 0 /\ n >= limit => Share(n, limit) >= 1
<1>1. CASE limit = 0
  BY <1>1 DEF Share
<1>2. CASE limit /= 0
  <2>. DEFINE q == n \div limit
              r == n % limit
  <2>1. q \in Int /\ r \in 0..(limit - 1) /\ n = limit * q + r
    BY <1>2
  <2>. HIDE DEF q, r
  <2>2. q >= 0
    <3>. SUFFICES ASSUME q <= -1 PROVE FALSE
      BY <2>1
    <3>1. limit * q <= limit * (-1)
      BY <2>1
    <3>. QED
      BY <2>1, <3>1
  <2>3. ASSUME n < limit PROVE q = 0
    <3>. SUFFICES ASSUME q >= 1 PROVE FALSE
      BY <2>1, <2>2
    <3>1. limit * q >= limit
      BY <2>1
    <3>. QED
      BY <2>1, <2>3, <3>1
  <2>4. ASSUME n >= limit PROVE q >= 1
    <3>. SUFFICES ASSUME q = 0 PROVE FALSE
      BY <2>1, <2>2
    <3>. QED
      BY <2>1, <2>4
  <2>5. Share(n, limit) = q
    BY <1>2 DEF Share, q
  <2>. QED
    BY <1>2, <2>1, <2>2, <2>3, <2>4, <2>5
<1>. QED
  BY <1>1, <1>2

\* The local variables of a pass that begins: rows of an organization that has
\* something running have its share as their priority, whatever order they came in.
LEMMA PassBegins ==
    ASSUME ExecuteControl
    PROVE  /\ pass' \in SchedulerPasses
           /\ pass'.pc = "check" /\ pass'.at = {}
           /\ \A e \in pass'.left :
                LET o == OrgOf[e] IN
                pass'.org[o] > 0 => pass'.priority[e] = Share(pass'.org[o], OrgLimit[o])
<1>. DEFINE running == {e \in Selected : CountedOf(OrgOf[e]) /= {}}
            own == [e \in Executions |-> IF e \in running THEN Priority(OrgOf[e]) ELSE 0]
<1>1. PICK p \in Priorities(Selected) :
        pass' = [pc |-> "check", left |-> Selected, at |-> {}, priority |-> p,
                 crr |-> 0, all |-> Cardinality(Counted),
                 org |-> [o \in Organizations |-> Cardinality(CountedOf(o))]]
  BY DEF ExecuteControl, Selected
<1>2. /\ Cardinality(Counted) \in Nat
      /\ \A o \in Organizations : /\ Cardinality(CountedOf(o)) \in Nat
                                  /\ CountedOf(o) = {} => Cardinality(CountedOf(o)) = 0
  BY UnderWayIsFinite, FS_CardinalityType, FS_EmptySet, SchedulerAssumption, FS_Subset
     DEF Counted, CountedOf
<1>3. \A o \in Organizations : /\ Priority(o) = Share(Cardinality(CountedOf(o)), OrgLimit[o])
                               /\ Priority(o) \in Nat
  BY <1>2, ShareIs, SchedulerAssumption DEF Priority, Share
<1>4. Selected \subseteq Executions /\ \A e \in Executions : OrgOf[e] \in Organizations
  BY SchedulerAssumption DEF Selected
<1>5. \A e \in running : own[e] = Priority(OrgOf[e]) /\ own[e] \in Nat
  BY <1>3, <1>4
<1>6. p \in [Executions -> {0} \cup {own[e] : e \in running}]
      /\ \A e \in Executions : e \in running \/ e \notin Selected => p[e] = own[e]
  BY DEF Priorities
<1>. HIDE DEF own
<1>7. p \in [Executions -> Nat]
  BY <1>5, <1>6
<1>8. pass' \in SchedulerPasses
  BY <1>1, <1>2, <1>4, <1>7 DEF SchedulerPasses
<1>9. ASSUME NEW e \in Selected, pass'.org[OrgOf[e]] > 0
      PROVE  pass'.priority[e] = Share(pass'.org[OrgOf[e]], OrgLimit[OrgOf[e]])
  <2>1. OrgOf[e] \in Organizations /\ pass'.org[OrgOf[e]] = Cardinality(CountedOf(OrgOf[e]))
    BY <1>1, <1>4
  <2>2. e \in running
    BY <1>2, <1>9, <2>1
  <2>. QED
    BY <1>1, <1>3, <1>4, <1>5, <1>6, <2>1, <2>2
<1>. QED
  BY <1>1, <1>8, <1>9

\* The types of the rows and of the pass are kept.
LEMMA SchedulerTypes ==
    ASSUME TypeOK, [Next]_vars
    PROVE  TypeOK'
<1>1. pass \in SchedulerPasses
  BY DEF TypeOK, SchedulerPasses
<1>2. pass' \in SchedulerPasses
  <2>1. CASE ExecuteControl
    BY <2>1, PassBegins
  <2>. QED
    BY <1>1, <2>1, PassTypes, PassMoves, NoPassTyped
<1>. DEFINE RowsTyped == /\ state \in [Executions -> States]
                         /\ due \in SUBSET Booked
                         /\ served \in SUBSET Executions
                         /\ restarts \in [Executions -> 0..RestartMax]
                         /\ setting \in [Organizations -> Engines]
                         /\ wavering \subseteq Wavering
                         /\ engine \in [Executions -> Engines]
<1>. USE DEF TypeOK, States, Engines
<1>3. UNCHANGED <<rowVars, modeVars>> => RowsTyped'
  BY DEF rowVars, modeVars
<1>4. ASSUME NEW e \in Executions,
             Register(e) \/ Cancel(e) \/ ComeDue(e) \/ Progress(e) \/ Abandon(e)
      PROVE  RowsTyped'
  BY <1>4, SchedulerAssumption DEF Register, Cancel, ComeDue, Progress, Abandon, modeVars
<1>5. ASSUME NEW o \in Organizations, Switch(o) PROVE RowsTyped'
  BY <1>5 DEF Switch, rowVars
<1>6. ASSUME ChildProcessExistCheck PROVE RowsTyped'
  BY <1>6, SchedulerAssumption DEF ChildProcessExistCheck, modeVars, Launched
<1>7. ASSUME NEW e \in Executions, RunChildProcess(e) PROVE RowsTyped'
  BY <1>7 DEF RunChildProcess, modeVars
<1>8. RowsTyped'
  BY <1>3, <1>4, <1>5, <1>6, <1>7
     DEF Next, Pass, PassBreaks, ExecuteControl, RunUnexecuted, EndPass, SkipOne, vars
<1>. QED
  BY <1>2, <1>8 DEF SchedulerPasses

\* Only RunChildProcess adds to the containers under way.
LEMMA UnderWayMoves ==
    ASSUME TypeOK, ContainersStay, UnlaunchedUnserved, [Next]_vars
    PROVE  /\ ContainersStay' /\ UnlaunchedUnserved'
           /\ \/ UnderWay' \subseteq UnderWay
              \/ \E e \in Executions : RunChildProcess(e) /\ UnderWay' \subseteq UnderWay \cup {e}
<1>. DEFINE Shrinks == ContainersStay' /\ UnlaunchedUnserved' /\ UnderWay' \subseteq UnderWay
<1>. USE DEF TypeOK, ContainersStay, UnlaunchedUnserved, UnderWay, InContainers, Busy, Launched
<1>1. ASSUME UNCHANGED rowVars, UNCHANGED engine PROVE Shrinks
  BY <1>1 DEF rowVars
<1>2. ASSUME NEW e \in Executions, Register(e) PROVE Shrinks
  BY <1>2 DEF Register
<1>3. ASSUME NEW e \in Executions, Cancel(e) \/ ComeDue(e) \/ Progress(e) \/ Abandon(e)
      PROVE  Shrinks
  BY <1>3 DEF Cancel, ComeDue, Progress, Abandon, modeVars
<1>4. CASE ChildProcessExistCheck
  BY <1>4 DEF ChildProcessExistCheck, modeVars
<1>5. ASSUME NEW e \in Executions, RunChildProcess(e)
      PROVE  ContainersStay' /\ UnlaunchedUnserved' /\ UnderWay' \subseteq UnderWay \cup {e}
  BY <1>5 DEF RunChildProcess, modeVars
<1>. QED
  BY <1>1, <1>2, <1>3, <1>4, <1>5
     DEF Next, Pass, PassBreaks, ExecuteControl, RunUnexecuted, EndPass, SkipOne, Switch, vars,
         modeVars

\* A pass that goes on counts no less than before, and one more when it starts one.
LEMMA CountsStay ==
    ASSUME TypeOK, [Next]_vars, ~ExecuteControl, pass'.pc /= "idle"
    PROVE  /\ pass.pc /= "idle"
           /\ pass'.all = pass.all /\ pass'.org = pass.org
           /\ pass'.crr \in {pass.crr, pass.crr + 1}
           /\ \A e \in Executions : RunChildProcess(e) => pass'.crr = pass.crr + 1
<1>. DEFINE Goes == /\ pass'.all = pass.all /\ pass'.org = pass.org
                    /\ pass'.crr \in {pass.crr, pass.crr + 1}
<1>1. pass \in SchedulerPasses
  BY DEF TypeOK, SchedulerPasses
<1>2. pass' /= NoPass
  BY DEF NoPass
<1>3. ASSUME NEW e \in Executions, pass' = Advance(e)
      PROVE  pass'.all = pass.all /\ pass'.org = pass.org /\ pass'.crr = pass.crr + 1
  <2>1. pass' = [pass EXCEPT !.left = @ \ {e}, !.at = {}, !.pc = "loop", !.crr = @ + 1]
    BY <1>2, <1>3 DEF Advance
  <2>. QED
    BY <1>1, <2>1 DEF SchedulerPasses
<1>4. ASSUME NEW e \in Executions, pass' = [pass EXCEPT !.pc = "launch", !.at = {e}] PROVE Goes
  BY <1>1, <1>4 DEF SchedulerPasses
<1>5. ASSUME pass' = [pass EXCEPT !.pc = "loop"] PROVE Goes
  BY <1>1, <1>5 DEF SchedulerPasses
<1>6. Goes /\ pass.pc /= "idle"
  BY <1>2, <1>3, <1>4, <1>5, PassMoves
<1>7. \A e \in Executions : RunChildProcess(e) => pass'.crr = pass.crr + 1
  BY <1>3 DEF RunChildProcess
<1>. QED
  BY <1>6, <1>7

\* A set with at most one more member is at most one larger.
LEMMA AtMostOneMore ==
    ASSUME NEW A, IsFiniteSet(A), NEW B, NEW e, B \subseteq A \cup {e}
    PROVE  /\ Cardinality(A) \in Nat /\ Cardinality(B) \in Nat
           /\ Cardinality(B) <= Cardinality(A) + 1
           /\ e \notin B => Cardinality(B) <= Cardinality(A)
<1>0. Cardinality(A) \in Nat
  BY FS_CardinalityType
<1>1. IsFiniteSet(A \cup {e}) /\ Cardinality(A \cup {e}) \in {Cardinality(A), Cardinality(A) + 1}
  BY FS_AddElement
<1>2. IsFiniteSet(B) /\ Cardinality(B) <= Cardinality(A \cup {e})
  BY <1>1, FS_Subset
<1>3. e \notin B => Cardinality(B) <= Cardinality(A)
  BY FS_Subset
<1>4. /\ Cardinality(A) \in Nat /\ Cardinality(B) \in Nat
      /\ Cardinality(A \cup {e}) \in Nat
  BY <1>1, <1>2, FS_CardinalityType
<1>. QED
  BY <1>0, <1>1, <1>2, <1>3, <1>4

\* The counts cover what is under way in the next state, if they do in this one.
LEMMA CountsCover ==
    ASSUME SchedulerInv, TypeOK', [Next]_vars,
           \/ UnderWay' \subseteq UnderWay
           \/ \E e \in Executions : RunChildProcess(e) /\ UnderWay' \subseteq UnderWay \cup {e}
    PROVE  PassCovers' /\ ContainersKeepLimits'
<1>. USE DEF SchedulerInv
<1>1. CASE UnderWay' \subseteq UnderWay
  <2>1. /\ Cardinality(UnderWay) \in Nat /\ Cardinality(UnderWay') \in Nat
        /\ Cardinality(UnderWay') <= Cardinality(UnderWay)
    <3>1. IsFiniteSet(UnderWay)
      BY FS_Subset, SchedulerAssumption DEF UnderWay, Busy
    <3>. QED
      BY <1>1, <3>1, FS_Subset, FS_CardinalityType
  <2>2. ASSUME NEW o \in Organizations
        PROVE  /\ Cardinality(UnderWayOf(o)) \in Nat /\ Cardinality(UnderWayOf(o)') \in Nat
               /\ Cardinality(UnderWayOf(o)') <= Cardinality(UnderWayOf(o))
    <3>1. IsFiniteSet(UnderWayOf(o))
      BY UnderWayIsFinite
    <3>2. UnderWayOf(o)' \subseteq UnderWayOf(o)
      BY <1>1 DEF UnderWay, UnderWayOf, BusyOf
    <3>. QED
      BY <3>1, <3>2, FS_Subset, FS_CardinalityType
  <2>3. ContainersKeepLimits'
    <3>1. AllLimit /= 0 => Cardinality(UnderWay') <= AllLimit
      BY <2>1, SchedulerAssumption DEF ContainersKeepLimits, UnderWay
    <3>2. ASSUME NEW o \in Organizations, OrgLimit[o] /= 0
          PROVE  Cardinality(UnderWayOf(o)') <= OrgLimit[o]
      <4>1. Cardinality(UnderWayOf(o)) <= OrgLimit[o] /\ OrgLimit[o] \in Nat
        BY <3>2, SchedulerAssumption DEF ContainersKeepLimits, UnderWayOf
      <4>. QED
        BY <2>2, <4>1
    <3>. QED
      BY <3>1, <3>2 DEF ContainersKeepLimits, UnderWay, UnderWayOf
  <2>4. CASE ExecuteControl
    <3>1. /\ UnderWay \subseteq Counted
          /\ \A o \in Organizations : UnderWayOf(o) \subseteq CountedOf(o)
      BY UnderWayIsCounted
    <3>2. /\ pass'.all = Cardinality(Counted) /\ pass'.crr = 0
          /\ \A o \in Organizations : pass'.org[o] = Cardinality(CountedOf(o))
      BY <2>4 DEF ExecuteControl
    <3>3. Cardinality(UnderWay) <= pass'.all /\ pass'.all \in Nat
      <4>1. IsFiniteSet(Counted)
        BY FS_Subset, SchedulerAssumption DEF Counted
      <4>. QED
        BY <3>1, <3>2, <4>1, FS_Subset, FS_CardinalityType
    <3>4. \A o \in Organizations :
            Cardinality(UnderWayOf(o)) <= pass'.org[o] /\ pass'.org[o] \in Nat
      BY <3>1, <3>2, UnderWayIsFinite, FS_Subset, FS_CardinalityType
    <3>5. PassCovers'
      BY <2>1, <2>2, <3>2, <3>3, <3>4 DEF PassCovers
    <3>. QED
      BY <2>3, <3>5
  <2>5. CASE ~ExecuteControl
    <3>1. ASSUME pass'.pc /= "idle"
          PROVE  /\ pass.pc /= "idle" /\ pass'.all = pass.all /\ pass'.org = pass.org
                 /\ pass'.crr \in {pass.crr, pass.crr + 1}
      BY <2>5, <3>1, CountsStay
    <3>2. /\ pass.all \in Nat /\ pass.crr \in Nat
          /\ \A o \in Organizations : pass.org[o] \in Nat
      BY DEF TypeOK
    <3>3. PassCovers'
      BY <2>1, <2>2, <3>1, <3>2 DEF PassCovers
    <3>. QED
      BY <2>3, <3>3
  <2>. QED
    BY <2>4, <2>5
<1>2. ASSUME NEW e \in Executions, RunChildProcess(e), UnderWay' \subseteq UnderWay \cup {e}
      PROVE  PassCovers' /\ ContainersKeepLimits'
  <2>. DEFINE own == OrgOf[e]
  <2>1. /\ pass.pc = "launch" /\ pass.at = {e} /\ ~LimitReached(e)
        /\ own \in Organizations
    BY <1>2, SchedulerAssumption DEF RunChildProcess, PassHasRoom
  <2>2. /\ pass.all \in Nat /\ pass.crr \in Nat
        /\ \A o \in Organizations : pass.org[o] \in Nat
    BY DEF TypeOK
  <2>3. /\ Cardinality(UnderWay) \in Nat /\ Cardinality(UnderWay') \in Nat
        /\ Cardinality(UnderWay') <= Cardinality(UnderWay) + 1
    <3>1. IsFiniteSet(UnderWay)
      BY FS_Subset, SchedulerAssumption DEF UnderWay, Busy
    <3>. QED
      BY <1>2, <3>1, AtMostOneMore
  <2>4. ASSUME NEW o \in Organizations
        PROVE  /\ Cardinality(UnderWayOf(o)) \in Nat /\ Cardinality(UnderWayOf(o)') \in Nat
               /\ Cardinality(UnderWayOf(o)') <= Cardinality(UnderWayOf(o)) + 1
               /\ o /= own => Cardinality(UnderWayOf(o)') <= Cardinality(UnderWayOf(o))
    <3>1. IsFiniteSet(UnderWayOf(o))
      BY UnderWayIsFinite
    <3>2. /\ UnderWayOf(o)' \subseteq UnderWayOf(o) \cup {e}
          /\ o /= own => e \notin UnderWayOf(o)'
      BY <1>2 DEF UnderWay, UnderWayOf, BusyOf
    <3>. QED
      BY <3>1, <3>2, AtMostOneMore
  <2>5. /\ Cardinality(UnderWay) <= pass.all + pass.crr
        /\ \A o \in Organizations : Cardinality(UnderWayOf(o)) <= pass.org[o] + pass.crr
    BY <2>1 DEF PassCovers
  <2>6. /\ AllLimit /= 0 => pass.crr + 1 + pass.all <= AllLimit
        /\ OrgLimit[own] /= 0 => pass.crr + 1 + pass.org[own] <= OrgLimit[own]
    BY <2>1, <2>2, SchedulerAssumption DEF LimitReached
  <2>7. ContainersKeepLimits'
    <3>1. AllLimit /= 0 => Cardinality(UnderWay') <= AllLimit
      BY <2>2, <2>3, <2>5, <2>6, SchedulerAssumption
    <3>2. ASSUME NEW o \in Organizations, OrgLimit[o] /= 0
          PROVE  Cardinality(UnderWayOf(o)') <= OrgLimit[o]
      <4>1. OrgLimit[o] \in Nat
        BY SchedulerAssumption
      <4>2. CASE o = own
        BY <2>1, <2>2, <2>4, <2>5, <2>6, <3>2, <4>1, <4>2
      <4>3. CASE o /= own
        <5>1. Cardinality(UnderWayOf(o)) <= OrgLimit[o]
          BY <3>2 DEF ContainersKeepLimits, UnderWayOf
        <5>. QED
          BY <2>4, <4>1, <4>3, <5>1
      <4>. QED
        BY <4>2, <4>3
    <3>. QED
      BY <3>1, <3>2 DEF ContainersKeepLimits, UnderWay, UnderWayOf
  <2>8. PassCovers'
    <3>1. SUFFICES ASSUME pass'.pc /= "idle"
                   PROVE  /\ Cardinality(UnderWay') <= pass'.all + pass'.crr
                          /\ \A o \in Organizations :
                               Cardinality(UnderWayOf(o)') <= pass'.org[o] + pass'.crr
      BY DEF PassCovers
    <3>2. ~ExecuteControl
      BY <2>1 DEF ExecuteControl
    <3>3. pass'.all = pass.all /\ pass'.org = pass.org /\ pass'.crr = pass.crr + 1
      BY <1>2, <3>1, <3>2, CountsStay
    <3>. QED
      BY <2>2, <2>3, <2>4, <2>5, <3>3
  <2>. QED
    BY <2>7, <2>8
<1>. QED
  BY <1>1, <1>2

\* A pass keeps the priorities and counts it began with, and takes no row back.
LEMMA OrderStays ==
    ASSUME TypeOK, PassOrdered, [Next]_vars
    PROVE  PassOrdered'
<1>1. pass \in SchedulerPasses
  BY DEF TypeOK, SchedulerPasses
<1>2. CASE ExecuteControl
  BY <1>2, PassBegins DEF PassOrdered
<1>3. ASSUME pass'.left \subseteq pass.left, pass'.org = pass.org, pass'.priority = pass.priority
      PROVE  PassOrdered'
  BY <1>3 DEF PassOrdered
<1>4. CASE pass' = NoPass
  BY <1>4 DEF NoPass, PassOrdered
<1>5. ASSUME NEW e \in Executions, pass' = Advance(e), pass' /= NoPass PROVE PassOrdered'
  <2>1. pass' = [pass EXCEPT !.left = @ \ {e}, !.at = {}, !.pc = "loop", !.crr = @ + 1]
    BY <1>5 DEF Advance
  <2>. QED
    BY <1>1, <1>3, <2>1 DEF SchedulerPasses
<1>6. ASSUME NEW e \in Executions, pass' = [pass EXCEPT !.pc = "launch", !.at = {e}]
      PROVE  PassOrdered'
  BY <1>1, <1>3, <1>6 DEF SchedulerPasses
<1>7. CASE pass' = [pass EXCEPT !.pc = "loop"]
  BY <1>1, <1>3, <1>7 DEF SchedulerPasses
<1>. QED
  BY <1>2, <1>3, <1>4, <1>5, <1>6, <1>7, PassMoves

\* Each step keeps the invariant.
LEMMA SchedulerNext ==
    ASSUME SchedulerInv, [Next]_vars
    PROVE  SchedulerInv'
<1>. USE DEF SchedulerInv
<1>1. TypeOK'
  BY SchedulerTypes
<1>2. /\ ContainersStay' /\ UnlaunchedUnserved'
      /\ \/ UnderWay' \subseteq UnderWay
         \/ \E e \in Executions : RunChildProcess(e) /\ UnderWay' \subseteq UnderWay \cup {e}
  BY UnderWayMoves
<1>3. PassHasRoom'
  <2>1. SUFFICES ASSUME pass'.pc = "launch", NEW e \in pass'.at PROVE ~LimitReached(e)'
    BY DEF PassHasRoom
  <2>2. pass \in SchedulerPasses
    BY DEF TypeOK, SchedulerPasses
  <2>3. \/ pass' = pass
        \/ \E d \in Executions : RunUnexecuted(d)
    <3>1. ASSUME NEW d \in Executions PROVE pass' /= Advance(d)
      <4>1. CASE pass.left = {d}
        BY <2>1, <4>1 DEF Advance, NoPass
      <4>2. CASE pass.left /= {d}
        BY <2>1, <2>2, <4>2 DEF Advance, SchedulerPasses
      <4>. QED
        BY <4>1, <4>2
    <3>2. pass' /= [pass EXCEPT !.pc = "loop"] /\ pass' /= NoPass
      BY <2>1, <2>2 DEF NoPass, SchedulerPasses
    <3>3. ~ExecuteControl
      BY <2>1, PassBegins
    <3>. QED
      BY <3>1, <3>2, <3>3 DEF Next, Pass, Register, Cancel, ComeDue, Progress, Abandon, Switch,
         PassBreaks, ChildProcessExistCheck, RunChildProcess, EndPass, SkipOne, vars
  <2>4. CASE pass' = pass
    BY <2>1, <2>4 DEF PassHasRoom, LimitReached
  <2>5. ASSUME NEW d \in Executions, RunUnexecuted(d) PROVE ~LimitReached(e)'
    <3>1. pass' = [pass EXCEPT !.pc = "launch", !.at = {d}] /\ ~LimitReached(d)
      BY <2>5 DEF RunUnexecuted
    <3>2. e = d /\ pass'.all = pass.all /\ pass'.org = pass.org /\ pass'.crr = pass.crr
      BY <2>1, <2>2, <3>1 DEF SchedulerPasses
    <3>. QED
      BY <3>1, <3>2 DEF LimitReached
  <2>. QED
    BY <2>3, <2>4, <2>5
<1>4. PassCovers' /\ ContainersKeepLimits'
  BY <1>1, <1>2, CountsCover
<1>5. PassOrdered'
  BY OrderStays
<1>. QED
  BY <1>1, <1>2, <1>3, <1>4, <1>5

\* The invariant holds in every state.
LEMMA SchedulerInvHolds == Spec => []SchedulerInv
<1>1. Init => SchedulerInv
  <2>. SUFFICES ASSUME Init PROVE SchedulerInv
    OBVIOUS
  <2>1. TypeOK
    BY SchedulerAssumption DEF Init, TypeOK, NoPass, States, Engines
  <2>2. UnderWay = {} /\ \A o \in Organizations : UnderWayOf(o) = {}
    BY DEF Init, UnderWay, UnderWayOf, Busy, BusyOf, Launched
  <2>3. ContainersKeepLimits
    <3>1. Cardinality(UnderWay) = 0 /\ \A o \in Organizations : Cardinality(UnderWayOf(o)) = 0
      BY <2>2, FS_EmptySet
    <3>. QED
      BY <3>1, SchedulerAssumption DEF ContainersKeepLimits, UnderWay, UnderWayOf
  <2>4. PassCovers /\ PassHasRoom /\ PassOrdered
    BY DEF Init, NoPass, PassCovers, PassHasRoom, PassOrdered
  <2>5. ContainersStay /\ UnlaunchedUnserved
    BY DEF Init, ContainersStay, UnlaunchedUnserved, InContainers
  <2>. QED
    BY <2>1, <2>3, <2>4, <2>5 DEF SchedulerInv
<1>. QED
  BY <1>1, SchedulerNext, PTL DEF Spec

\* Rows, settings and the counts of a pass are what the tables and the code know, and
\* no child of an agent run is started more often than CHILD_PROCESS_RETRY_LIMIT.
THEOREM SchedulerTypeHolds == Spec => []TypeOK
<1>1. SchedulerInv => TypeOK
  BY DEF SchedulerInv
<1>. QED
  BY <1>1, SchedulerInvHolds, PTL

\* Containers never exceed the limits, for any number of executions and
\* organizations, whatever is registered, booked, cancelled or switched beside.
THEOREM ContainersKeepLimitsHolds == Spec => []ContainersKeepLimits
<1>1. SchedulerInv => ContainersKeepLimits
  BY DEF SchedulerInv
<1>. QED
  BY <1>1, SchedulerInvHolds, PTL

\* The stale counts of a pass and what it has started cover the containers there
\* are at every point of the pass.
THEOREM PassCountsAllHolds == Spec => []PassCountsAll
<1>1. SchedulerInv => PassCountsAll
  BY UnderWayIsCounted DEF SchedulerInv, PassCovers, PassCountsAll
<1>. QED
  BY <1>1, SchedulerInvHolds, PTL

\* The sorting of a pass puts organizations that were full behind those with
\* something running and room, in whatever order the query returned the rows.
THEOREM FullComeLastHolds == Spec => []FullComeLast
<1>1. SchedulerInv => FullComeLast
  <2>. SUFFICES ASSUME SchedulerInv, NEW e \in pass.left, NEW d \in pass.left,
                       First(e), Full(OrgOf[e]), HadRoom(OrgOf[d])
                PROVE  FALSE
    BY DEF FullComeLast
  <2>. DEFINE o == OrgOf[e]
              w == OrgOf[d]
  <2>1. /\ o \in Organizations /\ w \in Organizations
        /\ e \in Executions /\ d \in Executions
        /\ pass.org[o] \in Nat /\ pass.org[w] \in Nat
        /\ OrgLimit[o] \in Nat /\ OrgLimit[w] \in Nat
    BY SchedulerAssumption DEF SchedulerInv, TypeOK
  <2>2. /\ pass.org[o] > 0 /\ pass.org[o] >= OrgLimit[o] /\ OrgLimit[o] /= 0
        /\ pass.org[w] > 0 /\ pass.org[w] < OrgLimit[w] /\ OrgLimit[w] /= 0
    BY <2>1 DEF Full, HadRoom
  <2>3. pass.priority[e] >= 1 /\ pass.priority[d] = 0
    BY <2>1, <2>2, ShareIs DEF SchedulerInv, PassOrdered
  <2>4. pass.priority[e] \in Nat /\ pass.priority[e] <= pass.priority[d]
    BY <2>1 DEF First, SchedulerInv, TypeOK
  <2>. QED
    BY <2>3, <2>4
<1>. QED
  BY <1>1, SchedulerInvHolds, PTL

\* A cancelled reservation is never started by a pass that had not looked at it
\* for the last time.
THEOREM CancelledIsNotStartedHolds == Spec => CancelledIsNotStarted
<1>1. ASSUME SchedulerInv, [Next]_vars, NEW e \in Executions,
             state[e] = "cancelled", e \notin pass.at
      PROVE  state'[e] = "cancelled" /\ e \notin pass'.at \cup served'
  <2>. USE DEF SchedulerInv
  <2>1. e \notin served
    BY <1>1 DEF UnlaunchedUnserved
  <2>2. state'[e] = "cancelled" /\ e \notin served'
    BY <1>1, <2>1
       DEF TypeOK, Next, Pass, Register, Cancel, ComeDue, Progress, Abandon, Switch, PassBreaks,
           ExecuteControl, ChildProcessExistCheck, RunUnexecuted, RunChildProcess, EndPass,
           SkipOne, vars, rowVars, modeVars, Launched
  <2>3. e \notin pass'.at
    <3>1. pass \in SchedulerPasses
      BY <1>1 DEF TypeOK, SchedulerPasses
    <3>2. NoPass.at = {} /\ [pass EXCEPT !.pc = "loop"].at = pass.at
      BY <3>1 DEF NoPass, SchedulerPasses
    <3>3. ASSUME ExecuteControl PROVE pass'.at = {}
      BY <3>3, PassBegins
    <3>4. ASSUME NEW d \in Executions, RunUnexecuted(d) PROVE e \notin pass'.at
      BY <1>1, <3>1, <3>4 DEF RunUnexecuted, SchedulerPasses
    <3>5. ASSUME NEW d \in Executions, pass' = Advance(d) PROVE e \notin pass'.at
      <4>1. CASE pass.left = {d}
        BY <3>2, <3>5, <4>1 DEF Advance
      <4>2. CASE pass.left /= {d}
        BY <3>1, <3>5, <4>2 DEF Advance, SchedulerPasses
      <4>. QED
        BY <4>1, <4>2
    <3>. QED
      BY <1>1, <3>2, <3>3, <3>4, <3>5
         DEF Next, Pass, Register, Cancel, ComeDue, Progress, Abandon, Switch, PassBreaks,
             ChildProcessExistCheck, RunChildProcess, EndPass, SkipOne, vars
  <2>. QED
    BY <2>2, <2>3
<1>2. SchedulerInv /\ [Next]_vars =>
        \A e \in Executions :
          state[e] = "cancelled" /\ e \notin pass.at =>
            state'[e] = "cancelled" /\ e \notin pass'.at \cup served'
  BY <1>1
<1>. QED
  BY <1>2, SchedulerInvHolds, PTL DEF CancelledIsNotStarted, Spec
================================================================================
