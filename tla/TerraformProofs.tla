---------------------------- MODULE TerraformProofs ----------------------------
(* The passes and children of TerraformCli, for any executions and workspaces. *)
EXTENDS TerraformCli, TLAPS

Statuses == Running \cup Waiting \cup Settled \cup {"scram", "cancelled"}
ParentPlaces == {"idle", "listed", "check", "start", "spawn"}
Untaken == Waiting \cup {"cancelled"}

TerraformTypeOK ==
    /\ status \in [Executions -> Statuses]
    /\ child \in [Executions -> Places]
    /\ halted \subseteq Executions
    /\ parent \in [pc : ParentPlaces, alive : SUBSET Executions, seen : [Executions -> Statuses],
                   stale : BOOLEAN, used : SUBSET Workspaces, due : SUBSET Executions,
                   next : Executions \cup {"none"}]

There(e) == child[e] /= "gone"

\* A child works on a row that is running or was stopped.
ChildHasRow == \A e \in Executions : There(e) =>
    status[e] \in Running \/ (status[e] = "scram" /\ e \in halted)

\* What a pass has read is still so where it matters: who had no process at the
\* start has none, a row without one is as it was read, and nobody takes up a row.
Listed == parent.pc \in {"listed", "check"} =>
    \A e \in Executions : There(e) => e \in parent.alive

ReadIsCurrent == parent.pc = "check" => \A e \in Executions :
    /\ e \notin parent.alive /\ parent.seen[e] \in Running => status[e] = parent.seen[e]
    /\ parent.seen[e] \in Waiting => status[e] \in Untaken
    /\ There(e) /\ e \notin halted => parent.seen[e] \in Running

\* What is due is taken up by nobody else, and the workspaces of children that
\* were not stopped are in use.
DueIsUntaken == parent.pc \in {"start", "spawn"} => \A e \in parent.due :
    /\ status[e] \in Untaken
    /\ parent.stale => parent.seen[e] \in Waiting

UsedIsKnown == parent.pc \in {"start", "spawn"} => \A e \in Executions :
    There(e) /\ e \notin halted => WorkspaceOf[e] \in parent.used

\* The execution to start has a row and no child, and its workspace is free.
NextIsFree == parent.pc = "spawn" =>
    /\ parent.next \in Executions \ parent.due
    /\ status[parent.next] = "prepare" /\ ~There(parent.next)
    /\ WorkspaceOf[parent.next] \in parent.used
    /\ \A d \in Executions \ {parent.next} :
         There(d) /\ WorkspaceOf[d] = WorkspaceOf[parent.next] => d \in halted

TerraformInv == /\ TerraformTypeOK /\ ChildHasRow /\ Listed /\ ReadIsCurrent
                /\ DueIsUntaken /\ UsedIsKnown /\ NextIsFree /\ OneAtWork

LEMMA TerraformInvInit == TerraformInit => TerraformInv
<1> SUFFICES ASSUME TerraformInit PROVE TerraformInv
  OBVIOUS
<1>1. \A e \in Executions : ~There(e)
  BY DEF TerraformInit, There
<1>2. TerraformTypeOK
  BY DEF TerraformInit, TerraformTypeOK, Resting, Unread, Statuses, Waiting, ParentPlaces, Places
<1>3. parent.pc = "idle"
  BY DEF TerraformInit, Resting
<1>4. QED
  BY <1>1, <1>2, <1>3 DEF TerraformInv, ChildHasRow, Listed, ReadIsCurrent, DueIsUntaken,
                          UsedIsKnown, NextIsFree, OneAtWork, There

-----------------------------------------------------------------------------
(* Steps of one child *)

\* A step of the child of e: it writes its own row only, and as long as it is
\* there the row is running or was stopped.
OwnStep(e) ==
    /\ There(e) /\ UNCHANGED parent
    /\ status' \in [Executions -> Statuses] /\ child' \in [Executions -> Places]
    /\ halted \subseteq halted' /\ halted' \subseteq Executions
    /\ \A d \in Executions \ {e} : child'[d] = child[d] /\ status'[d] = status[d]
    /\ child'[e] /= "gone" => status'[e] \in Running \/ (status'[e] = "scram" /\ e \in halted')

LEMMA StatusesApart ==
  /\ Running \cap Settled = {} /\ Running \cap Untaken = {} /\ Untaken \cap Settled = {}
  /\ "scram" \notin Running \cup Settled \cup Untaken
BY DEF Running, Settled, Untaken, Waiting

LEMMA OwnStepKeeps ==
  ASSUME TerraformInv, NEW e \in Executions, OwnStep(e)
  PROVE  /\ TerraformInv'
         /\ \A d \in Executions : status[d] \in Settled => status'[d] = status[d]
<1>1. status[e] \notin Untaken \cup Settled
  BY StatusesApart DEF TerraformInv, ChildHasRow, OwnStep
<1>2. \A d \in Executions : /\ There(d)' => There(d)
                            /\ d \notin halted' => d \notin halted
                            /\ d /= e => status'[d] = status[d]
  BY DEF OwnStep, There
<1>3. TerraformTypeOK'
  BY DEF TerraformInv, TerraformTypeOK, OwnStep
<1>4. ChildHasRow'
  <2>1. ASSUME NEW d \in Executions, child'[d] /= "gone"
        PROVE  status'[d] \in Running \/ (status'[d] = "scram" /\ d \in halted')
    <3>1. CASE d = e
      BY <2>1, <3>1 DEF OwnStep
    <3>2. CASE d /= e
      BY <2>1, <3>2 DEF TerraformInv, ChildHasRow, OwnStep, There
    <3>3. QED
      BY <3>1, <3>2
  <2>2. QED
    BY <2>1 DEF ChildHasRow, There
<1>5. Listed'
  BY <1>2 DEF TerraformInv, Listed, OwnStep
<1>6. ReadIsCurrent'
  <2>1. SUFFICES ASSUME parent.pc = "check", NEW d \in Executions
        PROVE  /\ d \notin parent.alive /\ parent.seen[d] \in Running => status'[d] = parent.seen[d]
               /\ parent.seen[d] \in Waiting => status'[d] \in Untaken
               /\ There(d)' /\ d \notin halted' => parent.seen[d] \in Running
    BY DEF ReadIsCurrent, OwnStep
  <2>2. e \in parent.alive
    BY <2>1 DEF TerraformInv, Listed, OwnStep
  <2>3. parent.seen[e] \notin Waiting
    BY <1>1, <2>1 DEF TerraformInv, ReadIsCurrent
  <2>4. QED
    BY <1>2, <2>1, <2>2, <2>3 DEF TerraformInv, ReadIsCurrent
<1>7. DueIsUntaken'
  <2>1. SUFFICES ASSUME parent.pc \in {"start", "spawn"}, NEW d \in parent.due
        PROVE  status'[d] \in Untaken /\ (parent.stale => parent.seen[d] \in Waiting)
    BY DEF DueIsUntaken, OwnStep
  <2>2. d \in Executions /\ status[d] \in Untaken /\ (parent.stale => parent.seen[d] \in Waiting)
    BY <2>1 DEF TerraformInv, TerraformTypeOK, DueIsUntaken
  <2>3. QED
    BY <1>1, <1>2, <2>2
<1>8. UsedIsKnown'
  BY <1>2 DEF TerraformInv, UsedIsKnown, OwnStep
<1>9. NextIsFree'
  <2>1. SUFFICES ASSUME parent.pc = "spawn" PROVE NextIsFree'
    BY DEF NextIsFree, OwnStep
  <2>2. parent' = parent /\ halted \subseteq halted' /\ parent.next /= e
    BY <2>1 DEF TerraformInv, NextIsFree, OwnStep
  <2>3. QED
    BY <1>2, <2>1, <2>2 DEF TerraformInv, NextIsFree
<1>10. OneAtWork'
  BY <1>2 DEF TerraformInv, OneAtWork, There
<1>11. QED
  BY <1>1, <1>2, <1>3, <1>4, <1>5, <1>6, <1>7, <1>8, <1>9, <1>10 DEF TerraformInv

\* What a child may make of its row and itself.
LEMMA OwnWrites ==
  ASSUME TerraformInv, NEW e \in Executions, There(e), UNCHANGED parent,
         \/ UNCHANGED status
         \/ \E s \in Statuses : Writes(e, s),
         \/ UNCHANGED child
         \/ \E p \in Places : Moves(e, p),
         UNCHANGED halted \/ halted' = halted \cup {e},
         child'[e] /= "gone" => \/ status'[e] = status[e]
                                \/ status'[e] \in Running
                                \/ status'[e] = "scram" /\ e \in halted'
  PROVE  OwnStep(e)
<1>1. /\ status \in [Executions -> Statuses] /\ child \in [Executions -> Places]
      /\ halted \subseteq Executions
  BY DEF TerraformInv, TerraformTypeOK
<1>2. /\ status' \in [Executions -> Statuses]
      /\ \A d \in Executions \ {e} : status'[d] = status[d]
  BY <1>1 DEF Writes
<1>3. /\ child' \in [Executions -> Places]
      /\ \A d \in Executions \ {e} : child'[d] = child[d]
  BY <1>1 DEF Moves
<1>4. status[e] \in Running \/ (status[e] = "scram" /\ e \in halted')
  BY DEF TerraformInv, ChildHasRow
<1>5. QED
  BY <1>1, <1>2, <1>3, <1>4 DEF OwnStep

LEMMA PlacesAndStatuses ==
  /\ {"exception", "complete", "scram", "processing", "delayed"} \cup Settled \subseteq Statuses
  /\ {"gone", "cleaned", "checked", "open", "init"} \cup Settled \subseteq Places
  /\ \A c \in Commands : Following[c] \in Places
BY DEF Statuses, Running, Waiting, Settled, Places, Commands, Following

LEMMA ChildIsOwnStep ==
  ASSUME TerraformInv, NEW e \in Executions, ChildSteps(e) \/ Delay(e) \/ ChildDies(e)
  PROVE  OwnStep(e)
<1>1. status \in [Executions -> Statuses] /\ child \in [Executions -> Places]
  BY DEF TerraformInv, TerraformTypeOK
<1>2. /\ \A s : Writes(e, s) => status'[e] = s
      /\ \A p : Moves(e, p) => child'[e] = p
  BY <1>1 DEF Writes, Moves
<1>3. CASE Begin(e)
  <2>1. There(e) /\ UNCHANGED <<parent, halted>>
    BY <1>3 DEF Begin, There, others
  <2>2. \/ UNCHANGED status /\ Moves(e, "gone")
        \/ UNCHANGED status /\ Moves(e, "cleaned")
        \/ \E s \in {"exception", "complete"} : Writes(e, s) /\ Moves(e, "gone")
    BY <1>3 DEF Begin, Fails
  <2>3. QED
    BY <1>2, <2>1, <2>2, OwnWrites, PlacesAndStatuses
<1>4. CASE Prepare(e)
  <2>1. There(e) /\ UNCHANGED parent
    BY <1>4 DEF Prepare, There
  <2>2. \/ Writes(e, "exception") /\ Moves(e, "gone") /\ UNCHANGED halted
        \/ Writes(e, "scram") /\ halted' = halted \cup {e} /\ Moves(e, "checked")
        \/ UNCHANGED <<status, halted>> /\ Moves(e, "checked")
    BY <1>4 DEF Prepare, Fails, StopCheck
  <2>3. QED
    BY <1>2, <2>1, <2>2, OwnWrites, PlacesAndStatuses
<1>5. CASE Open(e)
  <2>1. /\ There(e) /\ UNCHANGED <<parent, halted>>
        /\ Writes(e, "processing") /\ Moves(e, "open")
    BY <1>5 DEF Open, There, others
  <2>2. QED
    BY <1>2, <2>1, OwnWrites, PlacesAndStatuses DEF Running
<1>6. CASE LockDirectory(e)
  <2>1. There(e) /\ UNCHANGED <<parent, halted>>
    BY <1>6 DEF LockDirectory, There, others
  <2>2. \/ Writes(e, "exception") /\ Moves(e, "gone")
        \/ UNCHANGED status /\ Moves(e, "init")
    BY <1>6 DEF LockDirectory, Fails
  <2>3. QED
    BY <1>2, <2>1, <2>2, OwnWrites, PlacesAndStatuses
<1>7. CASE Command(e)
  <2>1. There(e) /\ UNCHANGED parent /\ child[e] \in Commands
    BY <1>7 DEF Command, There, Commands
  <2>2. \/ Writes(e, "exception") /\ Moves(e, "gone") /\ UNCHANGED halted
        \/ \E p \in {Following[child[e]], "failure", "exception"} :
             /\ Moves(e, p)
             /\ \/ Writes(e, "scram") /\ halted' = halted \cup {e}
                \/ UNCHANGED <<status, halted>>
    BY <1>7 DEF Command, Fails, StopCheck
  <2>3. {Following[child[e]], "failure", "exception"} \subseteq Places
    BY <2>1, PlacesAndStatuses DEF Settled
  <2>4. QED
    BY <1>2, <2>1, <2>2, <2>3, OwnWrites, PlacesAndStatuses
<1>8. CASE LastStatus(e)
  <2>1. There(e) /\ UNCHANGED <<parent, halted>>
    BY <1>8 DEF LastStatus, There, others, Settled
  <2>2. \E s \in Settled : Writes(e, s) /\ Moves(e, "gone")
    BY <1>8 DEF LastStatus, Fails, Settled
  <2>3. QED
    BY <1>2, <2>1, <2>2, OwnWrites, PlacesAndStatuses
<1>9. CASE Delay(e)
  <2>1. /\ There(e) /\ UNCHANGED <<parent, halted, child>>
        /\ Writes(e, "delayed")
    BY <1>9 DEF Delay, There, others, Commands
  <2>2. QED
    BY <1>2, <2>1, OwnWrites, PlacesAndStatuses DEF Running
<1>10. CASE ChildDies(e)
  <2>1. There(e) /\ UNCHANGED <<parent, halted, status>> /\ Moves(e, "gone")
    BY <1>10 DEF ChildDies, There
  <2>2. QED
    BY <1>2, <2>1, OwnWrites, PlacesAndStatuses
<1>11. QED
  BY <1>3, <1>4, <1>5, <1>6, <1>7, <1>8, <1>9, <1>10 DEF ChildSteps

-----------------------------------------------------------------------------
(* Steps of the pass, of users and of the container *)

\* No child starts and no row changes while the pass only looks around.
LEMMA LookingKeeps ==
  ASSUME TerraformInv, ListProcesses \/ ReadRows \/ Survey \/ PassDone
  PROVE  TerraformInv' /\ UNCHANGED status
<1>1. UNCHANGED <<status, child, halted>>
  BY DEF ListProcesses, ReadRows, Survey, PassDone, others
<1>2. ChildHasRow' /\ OneAtWork'
  BY <1>1 DEF TerraformInv, ChildHasRow, OneAtWork, There
<1>3. CASE ListProcesses
  <2>1. /\ parent' = [parent EXCEPT !.pc = "listed", !.alive = {e \in Executions : child[e] /= "gone"}]
    BY <1>3 DEF ListProcesses
  <2>2. TerraformTypeOK'
    BY <1>1, <2>1 DEF TerraformInv, TerraformTypeOK, ParentPlaces
  <2>3. parent'.pc = "listed" /\ parent'.alive = {e \in Executions : child[e] /= "gone"}
    BY <2>1 DEF TerraformInv, TerraformTypeOK
  <2>4. QED
    BY <1>1, <1>2, <2>2, <2>3 DEF TerraformInv, Listed, ReadIsCurrent, DueIsUntaken,
                                  UsedIsKnown, NextIsFree, There
<1>4. CASE ReadRows
  <2>1. parent.pc = "listed" /\ parent' = [parent EXCEPT !.pc = "check", !.seen = status]
    BY <1>4 DEF ReadRows
  <2>2. TerraformTypeOK'
    BY <1>1, <2>1 DEF TerraformInv, TerraformTypeOK, ParentPlaces
  <2>3. parent'.pc = "check" /\ parent'.alive = parent.alive /\ parent'.seen = status
    BY <2>1 DEF TerraformInv, TerraformTypeOK
  <2>4. Listed'
    BY <1>1, <2>1, <2>3 DEF TerraformInv, Listed, There
  <2>5. ReadIsCurrent'
    BY <1>1, <2>3 DEF TerraformInv, ReadIsCurrent, ChildHasRow, There, Untaken
  <2>6. QED
    BY <1>1, <1>2, <2>2, <2>3, <2>4, <2>5 DEF TerraformInv, DueIsUntaken, UsedIsKnown, NextIsFree
<1>5. CASE Survey
  <2>1. PICK booked \in SUBSET {e \in Executions : Read(e) = "reserve"} :
          parent' = [parent EXCEPT !.pc = "start", !.alive = {},
                      !.seen = IF parent.stale THEN @ ELSE Unread,
                      !.due = booked \cup {e \in Executions : Read(e) = "not_yet"},
                      !.used = InUse]
    BY <1>5 DEF Survey
  <2>2. parent.pc = "check"
    BY <1>5 DEF Survey
  <2>3. InUse \subseteq Workspaces /\ Unread \in [Executions -> Statuses]
    BY ExecutionAssumption DEF InUse, Unread, Statuses, Waiting
  <2>4. /\ parent'.pc = "start" /\ parent'.used = InUse /\ parent'.stale = parent.stale
        /\ parent'.seen = IF parent.stale THEN parent.seen ELSE Unread
        /\ parent'.due = booked \cup {e \in Executions : Read(e) = "not_yet"}
        /\ parent'.alive = {} /\ parent'.next = parent.next
    BY <2>1 DEF TerraformInv, TerraformTypeOK
  <2>5. TerraformTypeOK'
    <3>1. parent'.seen \in [Executions -> Statuses]
      BY <2>3, <2>4 DEF TerraformInv, TerraformTypeOK
    <3>2. parent'.due \subseteq Executions
      BY <2>4
    <3>3. QED
      BY <1>1, <2>1, <2>3, <2>4, <3>1, <3>2 DEF TerraformInv, TerraformTypeOK, ParentPlaces
  <2>6. DueIsUntaken'
    <3>1. \A e \in parent'.due : e \in Executions /\ Read(e) \in Waiting
      BY <2>4 DEF Waiting
    <3>2. QED
      BY <1>1, <2>2, <2>4, <3>1 DEF DueIsUntaken, TerraformInv, ReadIsCurrent, Read, Untaken
  <2>7. UsedIsKnown'
    <3>1. ASSUME NEW e \in Executions, There(e), e \notin halted
          PROVE  Read(e) \in Running
      BY <2>2, <3>1 DEF TerraformInv, ReadIsCurrent, ChildHasRow, Read
    <3>2. QED
      BY <1>1, <2>4, <3>1 DEF UsedIsKnown, InUse, There
  <2>8. QED
    BY <1>1, <1>2, <2>4, <2>5, <2>6, <2>7 DEF TerraformInv, Listed, ReadIsCurrent, NextIsFree
<1>6. CASE PassDone
  <2>1. parent' = Resting /\ parent'.pc = "idle"
    BY <1>6 DEF PassDone, Resting
  <2>2. TerraformTypeOK'
    BY <1>1, <2>1 DEF TerraformInv, TerraformTypeOK, Resting, Unread, Statuses, Waiting, ParentPlaces
  <2>3. QED
    BY <1>1, <1>2, <2>1, <2>2 DEF TerraformInv, Listed, ReadIsCurrent, DueIsUntaken,
                                  UsedIsKnown, NextIsFree
<1>7. QED
  BY <1>1, <1>3, <1>4, <1>5, <1>6

\* A row that is declared lost is still the running row without a process it
\* was when the pass read it.
LEMMA BuryKeeps ==
  ASSUME TerraformInv, NEW e \in Executions, Bury(e)
  PROVE  TerraformInv' /\ \A d \in Executions : status[d] \in Settled => status'[d] = status[d]
<1>1. /\ parent.pc = "check" /\ e \notin parent.alive /\ parent.seen[e] \in Running
      /\ UNCHANGED <<child, halted>>
      /\ parent' = [parent EXCEPT !.stale = FALSE, !.seen[e] = "exception"]
  BY DEF Bury, Lost, others
<1>2. status[e] = parent.seen[e] /\ ~There(e)
  BY <1>1 DEF TerraformInv, ReadIsCurrent, Listed
<1>3. Writes(e, "exception")
  BY <1>1, <1>2 DEF Bury, Read
<1>4. /\ status'[e] = "exception" /\ status' \in [Executions -> Statuses]
      /\ \A d \in Executions \ {e} : status'[d] = status[d]
  BY <1>3 DEF Writes, TerraformInv, TerraformTypeOK, Statuses, Settled
<1>5. /\ parent'.pc = "check" /\ parent'.alive = parent.alive
      /\ parent'.seen = [parent.seen EXCEPT ![e] = "exception"]
      /\ parent' \in [pc : ParentPlaces, alive : SUBSET Executions, seen : [Executions -> Statuses],
                      stale : BOOLEAN, used : SUBSET Workspaces, due : SUBSET Executions,
                      next : Executions \cup {"none"}]
  BY <1>1 DEF TerraformInv, TerraformTypeOK, Statuses, Settled
<1>6. /\ parent'.seen[e] = "exception"
      /\ \A d \in Executions \ {e} : parent'.seen[d] = parent.seen[d]
  BY <1>5 DEF TerraformInv, TerraformTypeOK
<1>7. TerraformTypeOK'
  BY <1>1, <1>4, <1>5 DEF TerraformInv, TerraformTypeOK
<1>8. ChildHasRow' /\ OneAtWork' /\ Listed'
  BY <1>1, <1>2, <1>4, <1>5 DEF TerraformInv, ChildHasRow, OneAtWork, Listed, There
<1>9. ReadIsCurrent'
  BY <1>1, <1>2, <1>4, <1>5, <1>6 DEF TerraformInv, ReadIsCurrent, There, Running, Waiting
<1>10. QED
  BY <1>2, <1>1, <1>4, <1>5, <1>7, <1>8, <1>9, StatusesApart
     DEF TerraformInv, DueIsUntaken, UsedIsKnown, NextIsFree

LEMMA LaunchKeeps ==
  ASSUME TerraformInv, NEW e \in Executions, Launch(e)
  PROVE  TerraformInv' /\ \A d \in Executions : status[d] \in Settled => status'[d] = status[d]
<1> DEFINE s == IF Read(e) \in Waiting THEN "prepare" ELSE "exception"
<1>1. /\ parent.pc = "start" /\ e \in parent.due /\ WorkspaceOf[e] \notin parent.used
      /\ Writes(e, s) /\ UNCHANGED <<child, halted>>
      /\ parent' = [parent EXCEPT !.due = @ \ {e}, !.used = @ \cup {WorkspaceOf[e]},
                     !.stale = FALSE, !.seen = Unread,
                     !.next = IF Read(e) \in Waiting THEN e ELSE "none",
                     !.pc = IF Read(e) \in Waiting THEN "spawn" ELSE "start"]
  BY DEF Launch, others
<1>2. status[e] \in Untaken /\ ~There(e)
  BY <1>1, StatusesApart DEF TerraformInv, DueIsUntaken, ChildHasRow
<1>3. /\ status'[e] = s /\ status' \in [Executions -> Statuses]
      /\ \A d \in Executions \ {e} : status'[d] = status[d]
  BY <1>1 DEF Writes, TerraformInv, TerraformTypeOK, Statuses, Settled, Running
<1>4. /\ parent'.pc = IF Read(e) \in Waiting THEN "spawn" ELSE "start"
      /\ parent'.due = parent.due \ {e} /\ parent'.used = parent.used \cup {WorkspaceOf[e]}
      /\ parent'.next = IF Read(e) \in Waiting THEN e ELSE "none"
      /\ parent'.stale = FALSE
  BY <1>1 DEF TerraformInv, TerraformTypeOK
<1>5. TerraformTypeOK'
  <2>1. Unread \in [Executions -> Statuses] /\ WorkspaceOf[e] \in Workspaces
    BY ExecutionAssumption DEF Unread, Statuses, Waiting
  <2>2. QED
    BY <1>1, <1>3, <2>1 DEF TerraformInv, TerraformTypeOK, ParentPlaces
<1>6. ChildHasRow' /\ OneAtWork'
  BY <1>1, <1>2, <1>3 DEF TerraformInv, ChildHasRow, OneAtWork, There
<1>7. DueIsUntaken'
  BY <1>1, <1>3, <1>4 DEF TerraformInv, TerraformTypeOK, DueIsUntaken
<1>8. UsedIsKnown'
  BY <1>1, <1>4 DEF TerraformInv, UsedIsKnown, There
<1>9. NextIsFree'
  <2>1. SUFFICES ASSUME Read(e) \in Waiting PROVE NextIsFree'
    BY <1>4 DEF NextIsFree
  <2>2. parent'.next = e /\ status'[e] = "prepare" /\ ~There(e)'
    BY <1>1, <1>2, <1>3, <1>4, <2>1 DEF There
  <2>3. \A d \in Executions \ {e} : There(d) /\ WorkspaceOf[d] = WorkspaceOf[e] => d \in halted
    BY <1>1 DEF TerraformInv, UsedIsKnown
  <2>4. QED
    BY <1>1, <1>4, <2>2, <2>3 DEF NextIsFree, There
<1>10. QED
  BY <1>2, <1>3, <1>4, <1>5, <1>6, <1>7, <1>8, <1>9, StatusesApart
     DEF TerraformInv, Listed, ReadIsCurrent

LEMMA SpawnKeeps ==
  ASSUME TerraformInv, Spawn
  PROVE  TerraformInv' /\ UNCHANGED status
<1> DEFINE e == parent.next
<1>1. /\ parent.pc = "spawn" /\ Moves(e, "begin") /\ UNCHANGED <<status, halted>>
      /\ parent' = [parent EXCEPT !.pc = "start", !.next = "none"]
  BY DEF Spawn, others
<1>2. /\ e \in Executions \ parent.due /\ status[e] = "prepare" /\ ~There(e)
      /\ WorkspaceOf[e] \in parent.used
      /\ \A d \in Executions \ {e} : There(d) /\ WorkspaceOf[d] = WorkspaceOf[e] => d \in halted
  BY <1>1 DEF TerraformInv, NextIsFree
<1>3. /\ child'[e] = "begin" /\ child' \in [Executions -> Places]
      /\ \A d \in Executions \ {e} : child'[d] = child[d]
  BY <1>1, <1>2 DEF Moves, TerraformInv, TerraformTypeOK, Places
<1>4. /\ parent'.pc = "start" /\ parent'.due = parent.due /\ parent'.used = parent.used
      /\ parent'.stale = parent.stale /\ parent'.seen = parent.seen
  BY <1>1 DEF TerraformInv, TerraformTypeOK
<1>5. TerraformTypeOK'
  BY <1>1, <1>3 DEF TerraformInv, TerraformTypeOK, ParentPlaces
<1>6. ChildHasRow'
  BY <1>1, <1>2, <1>3 DEF TerraformInv, ChildHasRow, There, Running
<1>7. OneAtWork'
  BY <1>1, <1>2, <1>3 DEF TerraformInv, OneAtWork, There
<1>8. UsedIsKnown' /\ DueIsUntaken'
  BY <1>1, <1>2, <1>3, <1>4 DEF TerraformInv, UsedIsKnown, DueIsUntaken, There
<1>9. QED
  BY <1>1, <1>4, <1>5, <1>6, <1>7, <1>8 DEF TerraformInv, Listed, ReadIsCurrent, NextIsFree

LEMMA CancelKeeps ==
  ASSUME TerraformInv, NEW e \in Executions, Cancel(e)
  PROVE  TerraformInv' /\ \A d \in Executions : status[d] \in Settled => status'[d] = status[d]
<1>1. status[e] = "reserve" /\ Writes(e, "cancelled") /\ UNCHANGED <<child, halted, parent>>
  BY DEF Cancel, others
<1>2. /\ status'[e] = "cancelled" /\ status' \in [Executions -> Statuses]
      /\ \A d \in Executions \ {e} : status'[d] = status[d]
  BY <1>1 DEF Writes, TerraformInv, TerraformTypeOK, Statuses
<1>3. ~There(e)
  BY <1>1 DEF TerraformInv, ChildHasRow, Running
<1>4. TerraformTypeOK' /\ ChildHasRow' /\ OneAtWork' /\ Listed' /\ UsedIsKnown'
  BY <1>1, <1>2, <1>3 DEF TerraformInv, TerraformTypeOK, ChildHasRow, OneAtWork, Listed,
                          UsedIsKnown, There
<1>5. ReadIsCurrent'
  BY <1>1, <1>2 DEF TerraformInv, ReadIsCurrent, There, Untaken, Running
<1>6. DueIsUntaken'
  BY <1>1, <1>2 DEF TerraformInv, TerraformTypeOK, DueIsUntaken, Untaken
<1>7. NextIsFree'
  BY <1>1, <1>2 DEF TerraformInv, NextIsFree, There
<1>8. QED
  BY <1>1, <1>2, <1>4, <1>5, <1>6, <1>7 DEF TerraformInv, Settled

LEMMA RestartKeeps ==
  ASSUME TerraformInv, Restart
  PROVE  TerraformInv' /\ UNCHANGED status
<1>1. /\ UNCHANGED <<status, halted>> /\ parent' = Resting
      /\ child' = [e \in Executions |-> "gone"]
  BY DEF Restart
<1>2. parent'.pc = "idle" /\ \A e \in Executions : ~There(e)'
  BY <1>1 DEF Resting, There
<1>3. TerraformTypeOK'
  BY <1>1 DEF TerraformInv, TerraformTypeOK, Resting, Unread, Statuses, Waiting, ParentPlaces, Places
<1>4. QED
  BY <1>1, <1>2, <1>3 DEF TerraformInv, ChildHasRow, Listed, ReadIsCurrent, DueIsUntaken,
                          UsedIsKnown, NextIsFree, OneAtWork, There

LEMMA IdlingKeeps ==
  ASSUME TerraformInv, UNCHANGED <<status, child, halted, parent>>
  PROVE  TerraformInv'
BY DEF TerraformInv, TerraformTypeOK, ChildHasRow, Listed, ReadIsCurrent, DueIsUntaken,
       UsedIsKnown, NextIsFree, OneAtWork, There

LEMMA TerraformStep ==
  ASSUME TerraformInv, [TerraformNext]_terraformVars
  PROVE  TerraformInv' /\ \A d \in Executions : status[d] \in Settled => status'[d] = status[d]
<1>1. CASE ListProcesses \/ ReadRows \/ Survey \/ PassDone
  BY <1>1, LookingKeeps
<1>2. CASE \E e \in Executions : Bury(e)
  BY <1>2, BuryKeeps
<1>3. CASE \E e \in Executions : Launch(e)
  BY <1>3, LaunchKeeps
<1>4. CASE Spawn
  BY <1>4, SpawnKeeps
<1>5. CASE \E e \in Executions : ChildSteps(e) \/ Delay(e) \/ ChildDies(e)
  BY <1>5, ChildIsOwnStep, OwnStepKeeps
<1>6. CASE \E e \in Executions : Cancel(e)
  BY <1>6, CancelKeeps
<1>7. CASE Restart
  BY <1>7, RestartKeeps
<1>8. CASE Touch \/ (\E e \in Executions : AskStop(e)) \/ UNCHANGED terraformVars
  BY <1>8, IdlingKeeps DEF Touch, AskStop, terraformVars
<1>9. QED
  BY <1>1, <1>2, <1>3, <1>4, <1>5, <1>6, <1>7, <1>8 DEF TerraformNext, ParentSteps

-----------------------------------------------------------------------------
\* get_running_process and the pass let one child at a time into a workspace, as
\* long as none has found a stop file (OneAtWork).
THEOREM OneAtWorkHolds == TerraformSpec => []OneAtWork
<1>1. TerraformInv /\ [TerraformNext]_terraformVars => TerraformInv'
  BY TerraformStep
<1>2. TerraformInv => OneAtWork
  BY DEF TerraformInv
<1>3. QED
  BY <1>1, <1>2, TerraformInvInit, PTL DEF TerraformSpec

\* child_process_exist_check declares no execution lost that has ended, with
\* whatever it read and when (SettledKept).
THEOREM SettledKeptHolds == TerraformSpec => SettledKept
<1>1. TerraformInv /\ [TerraformNext]_terraformVars => TerraformInv'
  BY TerraformStep
<1>2. TerraformInv /\ [TerraformNext]_terraformVars
        => [\A e \in Executions : status[e] \in Settled => status'[e] = status[e]]_terraformVars
  BY TerraformStep
<1>3. QED
  BY <1>1, <1>2, TerraformInvInit, PTL DEF TerraformSpec, SettledKept
=============================================================================
