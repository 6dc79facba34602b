----------------------------- MODULE AnsibleSteps -----------------------------
(* Proofs about AnsibleExecution: what no step does, and why no agent takes  *)
(* more than its limit.                                                      *)
EXTENDS AnsibleSafety

-----------------------------------------------------------------------------
(* Only Spawn starts a child. *)

\* The step starts no child.
StartsNone ==
    \/ UNCHANGED worker
    \/ \E a \in Agents, e \in Executions, s \in {"none", "poll", "posting", "failed", "lastpost"} :
         worker' = [worker EXCEPT ![a][e] = s]

LEMMA WorkersMove ==
    ASSUME Inv, [Next]_vars
    PROVE  StartsNone \/ \E a \in Agents, e \in Executions : Spawn(a, e)
<1>. USE DEF StartsNone
<1>1. CASE UNCHANGED vars
  BY <1>1 DEF vars, agentVars
<1>2. ASSUME NEW e \in Executions,
             User(e) \/ Clock(e) \/ ParentStep(e) \/ ChildStep(e) \/ DelayedStep(e)
      PROVE  StartsNone
  BY <1>2 DEF User, Clock, ParentStep, ChildStep, DelayedStep, agentVars
<1>3. CASE BackyardFault \/ HandlerFault
  BY <1>3 DEF BackyardFault, HandlerFault, agentVars
<1>4. ASSUME NEW a \in Agents, NEW rows \in SUBSET Executions, FetchServed(a, rows)
      PROVE  StartsNone
  BY <1>4 DEF FetchServed, agentVars
<1>5. ASSUME NEW a \in Agents, NEW e \in Executions, NEW s \in Posted,
             NEW pc \in {"sent", "read"}, PostServed(a, e, s, pc)
      PROVE  StartsNone
  BY <1>5 DEF PostServed, agentVars
<1>6. \A p \in posts : p.agent \in Agents /\ p.exec \in Executions
  BY DEF Inv, TypeOK, ReceiverTypeOK, PostCall
<1>7. ASSUME NEW p, PostAnswer(p) \/ PostGiveUp(p) PROVE StartsNone
  BY <1>6, <1>7 DEF PostAnswer, PostGiveUp, WorkerBecomes, WorkerEnds
<1>8. ASSUME NEW a \in Agents, MainStep(a), ~\E e \in Executions : Spawn(a, e)
      PROVE  StartsNone
  BY <1>8 DEF MainStep, CreateStatusFile, Fetch, FetchAnswer, Report, ReportEnds
<1>9. ASSUME NEW a \in Agents, NEW e \in Executions,
             BeatStep(a, e) \/ WorkerStep(a, e) \/ RunnerStep(a, e)
      PROVE  StartsNone
  BY <1>7, <1>9 DEF BeatStep, WorkerStep, RunnerStep, Heartbeat, agentVars, StartRunner, Poll,
                    StopRunner, StopFails, LastPost, RunnerEnds, Notify, WorkerBecomes
<1>10. CASE NetFault
  BY <1>7, <1>10 DEF NetFault, FetchGiveUp, FetchRetry, PostRetry, ReportNotUploaded,
                     LastUploadFails, WorkerEnds, WorkerBecomes, agentVars
<1>11. CASE AgentFault
  BY <1>11 DEF AgentFault, MainCrash, WorkerCrash, WorkerFails, PollBroken, RunnerVanishes,
               Notify, WorkerBecomes
<1>. QED
  BY <1>1, <1>2, <1>3, <1>4, <1>5, <1>8, <1>9, <1>10, <1>11 DEF Next

\* An agent never starts an execution a second time: whatever it is given, it
\* never had a process, a runner or a status file of.
THEOREM StartIsFirst == Spec => NoSecondStart
<1>1. ASSUME Inv, [Next]_vars
      PROVE  \A a \in Agents, e \in Executions :
               worker[a][e] = "none" /\ worker'[a][e] = "start" =>
                 runner[a][e] = "none" /\ ~statusfile[a][e]
  <2>. SUFFICES ASSUME NEW a \in Agents, NEW e \in Executions,
                       worker[a][e] = "none", worker'[a][e] = "start"
                PROVE  runner[a][e] = "none" /\ ~statusfile[a][e]
    OBVIOUS
  <2>1. ~StartsNone
    <3>1. worker \in [Agents -> [Executions -> {"none", "start", "poll", "posting", "failed",
                                               "lastpost"}]]
      BY <1>1 DEF Inv, TypeOK, AgentTypeOK, PerJob
    <3>2. ASSUME NEW b \in Agents, NEW d \in Executions, NEW s, s /= "start",
                 worker' = [worker EXCEPT ![b][d] = s]
          PROVE  FALSE
      BY <3>1, <3>2
    <3>. QED
      BY <3>2 DEF StartsNone
  <2>2. PICK b \in Agents, d \in Executions : Spawn(b, d)
    BY <1>1, <2>1, WorkersMove
  <2>3. b = a /\ d = e
    BY <1>1, <2>2 DEF Spawn, Inv, TypeOK, AgentTypeOK, PerJob
  <2>4. e \in todo[a]
    BY <2>2, <2>3 DEF Spawn
  <2>5. Untouched(a, e)
    BY <1>1, <2>4 DEF Inv, TodoIsUntouched
  <2>. QED
    BY <2>5 DEF Untouched
<1>. QED
  BY <1>1, InvHolds, PTL DEF NoSecondStart, Spec

-----------------------------------------------------------------------------
(* What is settled stays so. *)

\* No call reads a row in this step: what has been read, had been before.
ReadsNothing ==
    /\ \A f \in fetches' : f.pc = "read" =>
         \E g \in fetches : g.pc = "read" /\ g.rows = f.rows
    /\ \A p \in posts' : p.pc = "read" =>
         \E q \in posts : q.pc = "read" /\ q.exec = p.exec /\ q.post = p.post

LEMMA ReadsNothingSettled ==
    ASSUME NEW e \in Executions, Settled(e), ReadsNothing,
           status'[e] = status[e], child'[e] = "none", giveup' /= e
    PROVE  Settled(e)'
  BY DEF Settled, Outstanding, ReadsNothing

\* Nothing an agent does reads or writes the status of a row.
LEMMA AgentReadsNothing ==
    ASSUME Inv,
           \/ NetFault \/ AgentFault
           \/ \E a \in Agents : MainStep(a)
           \/ \E a \in Agents, e \in Executions : WorkerStep(a, e) \/ RunnerStep(a, e)
    PROVE  ReadsNothing /\ UNCHANGED <<status, backyardVars>>
<1>1. UNCHANGED <<rowVars, backyardVars>>
  <2>1. (\E a \in Agents : MainStep(a)) => UNCHANGED <<rowVars, backyardVars>>
    BY DEF MainStep, CreateStatusFile, Fetch, FetchAnswer, Spawn, Report, ReportEnds
  <2>2. \A p : PostAnswer(p) \/ PostGiveUp(p) \/ PostRetry(p) => UNCHANGED rowVars
    BY DEF PostAnswer, PostGiveUp, PostRetry
  <2>3. \A a, e : WorkerStep(a, e) \/ RunnerStep(a, e) => UNCHANGED <<rowVars, backyardVars>>
    BY <2>2 DEF WorkerStep, RunnerStep, StartRunner, Poll, StopRunner, StopFails, LastPost,
                RunnerEnds, Notify
  <2>4. NetFault => UNCHANGED <<rowVars, backyardVars>>
    BY <2>2 DEF NetFault, FetchGiveUp, FetchRetry, ReportNotUploaded, LastUploadFails
  <2>5. AgentFault => UNCHANGED <<rowVars, backyardVars>>
    BY DEF AgentFault, MainCrash, WorkerCrash, WorkerFails, PollBroken, RunnerVanishes, Notify
  <2>. QED
    BY <2>1, <2>3, <2>4, <2>5
<1>. DEFINE SameF == \A f \in fetches' : f.pc = "read" =>
                       \E g \in fetches : g.pc = "read" /\ g.rows = f.rows
            SameP == \A p \in posts' : p.pc = "read" =>
                       \E q \in posts : q.pc = "read" /\ q.exec = p.exec /\ q.post = p.post
<1>2. \A f \in fetches : \A g \in Abandoned(fetches, f) :
        \E h \in fetches : h.pc = g.pc /\ h.rows = g.rows
  BY DEF Abandoned, Inv, TypeOK, ReceiverTypeOK, FetchCall
<1>3. \A p \in posts : \A q \in Abandoned(posts, p) :
        \E r \in posts : r.pc = q.pc /\ r.exec = q.exec /\ r.post = q.post
  BY DEF Abandoned, Inv, TypeOK, ReceiverTypeOK, PostCall
<1>4. \A mine \in SUBSET fetches : \A g \in Orphaned(fetches, mine) :
        \E h \in fetches : h.pc = g.pc /\ h.rows = g.rows
  BY DEF Orphaned, Inv, TypeOK, ReceiverTypeOK, FetchCall
<1>5. \A mine \in SUBSET posts : \A q \in Orphaned(posts, mine) :
        \E r \in posts : r.pc = q.pc /\ r.exec = q.exec /\ r.post = q.post
  BY DEF Orphaned, Inv, TypeOK, ReceiverTypeOK, PostCall
<1>6. \A b, d, sender, s : NewPost(b, d, sender, s).pc = "sent"
  BY DEF NewPost
<1>7. \A b, m : NewFetch(b, m).pc = "sent"
  BY DEF NewFetch
<1>8. UNCHANGED netVars => SameF /\ SameP
  BY DEF netVars
<1>9. \A a : MainStep(a) => SameF /\ SameP
  <2>. SUFFICES ASSUME NEW a, MainStep(a) PROVE SameF /\ SameP
    OBVIOUS
  <2>1. CreateStatusFile(a) \/ (\E d \in Executions : Spawn(a, d)) => SameF /\ SameP
    BY <1>8 DEF CreateStatusFile, Spawn
  <2>2. Fetch(a) => SameF /\ SameP
    BY <1>7 DEF Fetch
  <2>3. \A f : FetchAnswer(f) => SameF /\ SameP
    BY DEF FetchAnswer
  <2>4. \A d : Report(a, d) => SameF /\ SameP
    BY <1>6 DEF Report
  <2>5. \A p : ReportEnds(p) => SameF /\ SameP
    BY <1>3 DEF ReportEnds
  <2>. QED
    BY <2>1, <2>2, <2>3, <2>4, <2>5 DEF MainStep
<1>10. \A p : PostAnswer(p) \/ PostGiveUp(p) => SameF /\ SameP
  BY <1>3 DEF PostAnswer, PostGiveUp
<1>11. \A b, d : Poll(b, d) \/ PollBroken(b, d) \/ StopRunner(b, d) \/ StopFails(b, d)
                   \/ LastPost(b, d) => SameF /\ SameP
  BY <1>6 DEF Poll, PollBroken, StopRunner, StopFails, LastPost, Notify
<1>12. \A a, e : WorkerStep(a, e) \/ RunnerStep(a, e) => SameF /\ SameP
  BY <1>8, <1>10, <1>11 DEF WorkerStep, RunnerStep, StartRunner, RunnerEnds
<1>13. \A f : FetchGiveUp(f) \/ FetchRetry(f) => SameF /\ SameP
  <2>. SUFFICES ASSUME NEW f, FetchGiveUp(f) \/ FetchRetry(f) PROVE SameF /\ SameP
    OBVIOUS
  <2>. DEFINE again == [NewFetch(f.agent, f.limit) EXCEPT !.try = f.try + 1]
  <2>1. again.pc = "sent"
    BY DEF NewFetch
  <2>2. posts' = posts /\ fetches' \subseteq Abandoned(fetches, f) \cup {again}
    BY DEF FetchGiveUp, FetchRetry
  <2>3. f \in fetches
    BY DEF FetchGiveUp, FetchRetry
  <2>. QED
    BY <1>2, <2>1, <2>2, <2>3
<1>14. \A p : PostRetry(p) => SameF /\ SameP
  <2>. SUFFICES ASSUME NEW p, PostRetry(p) PROVE SameF /\ SameP
    OBVIOUS
  <2>. DEFINE again == [NewPost(p.agent, p.exec, p.sender, p.post) EXCEPT !.try = p.try + 1]
  <2>1. again.pc = "sent"
    BY DEF NewPost
  <2>2. fetches' = fetches /\ posts' = Abandoned(posts, p) \cup {again} /\ p \in posts
    BY DEF PostRetry
  <2>. HIDE DEF again
  <2>3. \A q \in posts' : q \in Abandoned(posts, p) \/ q.pc = "sent"
    BY <2>1, <2>2
  <2>. QED
    BY <1>3, <2>2, <2>3
<1>15. NetFault => SameF /\ SameP
  BY <1>8, <1>10, <1>13, <1>14 DEF NetFault, ReportNotUploaded, LastUploadFails
<1>16. AgentFault => SameF /\ SameP
  BY <1>4, <1>5, <1>8, <1>11
     DEF AgentFault, MainCrash, WorkerCrash, WorkerFails, RunnerVanishes
<1>. QED
  BY <1>1, <1>9, <1>12, <1>15, <1>16 DEF ReadsNothing, rowVars

\* The backyard has no hand in what is settled.
LEMMA BackyardSettled ==
    ASSUME Inv, NEW e \in Executions, Settled(e),
           \/ ParentDies
           \/ \E d \in Executions :
                \/ User(d) \/ Clock(d) \/ Parent(d) \/ Child(d) \/ MonitorDelayed(d)
                \/ ChildDies(d) \/ ChildRaises(d)
    PROVE  child'[e] = "none" /\ giveup' /= e /\ status'[e] = status[e]
<1>. USE DEF Inv, TypeOK, RowTypeOK, BackyardTypeOK
<1>1. status[e] \in Terminal /\ child[e] = "none" /\ giveup /= e
  BY DEF Settled, Outstanding
<1>2. CASE ParentDies
  BY <1>1, <1>2, NoExecutionAssumption DEF ParentDies, rowVars
<1>3. ASSUME NEW d \in Executions, User(d) \/ Clock(d)
      PROVE  child'[e] = "none" /\ giveup' /= e /\ status'[e] = status[e]
  BY <1>1, <1>3 DEF User, Clock, Scram, TimePasses, backyardVars
<1>4. ASSUME NEW d \in Executions, Parent(d)
      PROVE  child'[e] = "none" /\ giveup' /= e /\ status'[e] = status[e]
  <2>1. d = e => ~Parent(d)
    BY <1>1 DEF Parent, Launch, Restart, DecideToGiveUp, GiveUp, ChildMissing, Terminal, Running,
                Dispatched
  <2>2. CASE Launch(d) \/ Restart(d)
    BY <1>1, <1>4, <2>1, <2>2 DEF Launch, Restart, ChildMissing, WriteStatus, ChildBecomes, rowVars
  <2>3. CASE DecideToGiveUp(d) \/ GiveUp(d)
    BY <1>1, <1>4, <2>1, <2>3, NoExecutionAssumption
       DEF DecideToGiveUp, GiveUp, WriteStatus, rowVars
  <2>. QED
    BY <1>4, <2>2, <2>3 DEF Parent
<1>5. ASSUME NEW d \in Executions,
             Child(d) \/ MonitorDelayed(d) \/ ChildDies(d) \/ ChildRaises(d)
      PROVE  child'[e] = "none" /\ giveup' /= e /\ status'[e] = status[e]
  <2>1. child[d] /= "none"
    BY <1>5 DEF Child, MonitorDelayed, ChildDies, ChildRaises, CheckParameters, Prepare,
                MonitorExpired, MonitorEnded, Expire, Delay
  <2>2. d /= e /\ giveup' = giveup
    BY <1>1, <1>5, <2>1
       DEF Child, MonitorDelayed, ChildDies, ChildRaises, CheckParameters, Prepare,
           MonitorExpired, MonitorEnded, Expire, Delay
  <2>3. child'[e] = child[e]
    BY <1>5, <2>2
       DEF Child, MonitorDelayed, ChildDies, ChildRaises, CheckParameters, Prepare,
           MonitorExpired, MonitorEnded, Expire, Delay, ChildBecomes
  <2>4. status'[e] = status[e]
    BY <1>5, <2>2
       DEF Child, MonitorDelayed, ChildDies, ChildRaises, CheckParameters, Prepare,
           MonitorExpired, MonitorEnded, Expire, Delay, WriteStatus, rowVars
  <2>. QED
    BY <1>1, <2>2, <2>3, <2>4
<1>. QED
  BY <1>2, <1>3, <1>4, <1>5

\* A selection made now or before holds no row that has ended.
LEMMA FetchSettled ==
    ASSUME Inv, NEW e \in Executions, Settled(e), NEW f,
           FetchRead(f) \/ FetchCommit(f) \/ FetchRollback(f) \/ FetchDropped(f),
           UNCHANGED backyardVars
    PROVE  Settled(e)' /\ status'[e] = status[e]
<1>1. /\ status[e] \in Terminal /\ child[e] = "none" /\ giveup /= e
      /\ \A g \in fetches : g.pc = "read" => e \notin g.rows
      /\ \A p \in posts : p.pc = "read" /\ p.exec = e => p.post = status[e]
  BY DEF Settled, Outstanding
<1>2. f \in fetches /\ f \in FetchCall /\ posts' = posts
  BY DEF FetchRead, FetchCommit, FetchRollback, FetchDropped, Inv, TypeOK, ReceiverTypeOK
<1>3. status'[e] = status[e]
  BY <1>1, <1>2
     DEF FetchRead, FetchCommit, FetchRollback, FetchDropped, rowVars, Inv, TypeOK, RowTypeOK
<1>4. \A g \in fetches' : g.pc = "read" => e \notin g.rows
  <2>1. CASE FetchRead(f)
    <3>1. PICK rows \in Selectable(GetExecutionLimit(f.limit)) :
            fetches' = (fetches \ {f}) \cup {[f EXCEPT !.pc = "read", !.rows = rows]}
      BY <2>1 DEF FetchRead
    <3>2. e \notin rows
      BY <1>1 DEF Selectable, Offerable, Terminal
    <3>3. [f EXCEPT !.pc = "read", !.rows = rows].rows = rows
      BY <1>2 DEF FetchCall
    <3>. QED
      BY <1>1, <3>1, <3>2, <3>3
  <2>2. CASE FetchCommit(f)
    BY <1>1, <1>2, <2>2 DEF FetchCommit, Answered, FetchCall
  <2>3. CASE FetchRollback(f)
    <3>. DEFINE g == [f EXCEPT !.rows = {}]
    <3>1. g \in FetchCall
      BY <1>2 DEF FetchCall
    <3>2. fetches' = Answered(fetches, f, g)
      BY <2>3 DEF FetchRollback
    <3>. HIDE DEF g
    <3>. QED
      BY <1>1, <3>1, <3>2 DEF Answered, FetchCall
  <2>4. CASE FetchDropped(f)
    BY <1>1, <2>4 DEF FetchDropped
  <2>. QED
    BY <2>1, <2>2, <2>3, <2>4
<1>. QED
  BY <1>1, <1>2, <1>3, <1>4 DEF Settled, Outstanding, backyardVars

\* A notification is refused, unless it says what the row says already.
LEMMA PostSettled ==
    ASSUME Inv, NEW e \in Executions, Settled(e), NEW p,
           PostRead(p) \/ PostCommit(p) \/ PostLost(p) \/ PostDropped(p),
           UNCHANGED backyardVars
    PROVE  Settled(e)' /\ status'[e] = status[e]
<1>1. /\ status[e] \in Terminal /\ child[e] = "none" /\ giveup /= e
      /\ \A g \in fetches : g.pc = "read" => e \notin g.rows
      /\ \A q \in posts : q.pc = "read" /\ q.exec = e => q.post = status[e]
  BY DEF Settled, Outstanding
<1>2. p \in posts /\ p \in PostCall /\ fetches' = fetches
  BY DEF PostRead, PostCommit, PostLost, PostDropped, Inv, TypeOK, ReceiverTypeOK
<1>3. status'[e] = status[e]
  BY <1>1, <1>2
     DEF PostRead, PostCommit, PostLost, PostDropped, PostWrite, WriteStatus, Touch, rowVars,
         Inv, TypeOK, RowTypeOK
<1>4. \A q \in posts' : q.pc = "read" /\ q.exec = e => q.post = status[e]
  <2>1. CASE PostRead(p)
    <3>. DEFINE read == [p EXCEPT !.scram = abort[p.exec],
                                  !.update = Updates(status[p.exec], p.post)]
                refused == [read EXCEPT !.update = FALSE]
                taken == [read EXCEPT !.pc = "read"]
    <3>1. taken.exec = p.exec /\ taken.post = p.post
      BY <1>2 DEF PostCall
    <3>2. [refused EXCEPT !.pc = "done"].pc = "done"
      BY <1>2 DEF PostCall
    <3>3. \/ posts' = Answered(posts, p, refused)
          \/ posts' = (posts \ {p}) \cup {taken} /\ ~Refused(status[p.exec], p.post)
      BY <2>1 DEF PostRead
    <3>. HIDE DEF refused, taken
    <3>4. CASE posts' = Answered(posts, p, refused)
      BY <1>1, <3>2, <3>4 DEF Answered
    <3>5. CASE posts' = (posts \ {p}) \cup {taken} /\ ~Refused(status[p.exec], p.post)
      BY <1>1, <3>1, <3>5 DEF Refused
    <3>. QED
      BY <3>3, <3>4, <3>5
  <2>2. CASE PostCommit(p) \/ PostLost(p)
    <3>. DEFINE written == [p EXCEPT !.update = FALSE]
    <3>1. [written EXCEPT !.pc = "done"].pc = "done"
      BY <1>2 DEF PostCall
    <3>2. posts' = Answered(posts, p, written)
      BY <2>2 DEF PostCommit, PostLost, PostHandled
    <3>. HIDE DEF written
    <3>. QED
      BY <1>1, <3>1, <3>2 DEF Answered
  <2>3. CASE PostDropped(p)
    BY <1>1, <2>3 DEF PostDropped
  <2>. QED
    BY <2>1, <2>2, <2>3
<1>. QED
  BY <1>1, <1>2, <1>3, <1>4 DEF Settled, Outstanding, backyardVars

LEMMA SettledStays ==
    ASSUME Inv, [Next]_vars, NEW e \in Executions, Settled(e)
    PROVE  Settled(e)' /\ status'[e] = status[e]
<1>1. CASE UNCHANGED vars
  BY <1>1 DEF vars, rowVars, backyardVars, netVars, Settled, Outstanding
<1>2. CASE \/ BackyardFault
           \/ \E d \in Executions :
                User(d) \/ Clock(d) \/ ParentStep(d) \/ ChildStep(d) \/ DelayedStep(d)
  <2>1. child'[e] = "none" /\ giveup' /= e /\ status'[e] = status[e]
    BY <1>2, BackyardSettled DEF BackyardFault, ParentStep, ChildStep, DelayedStep
  <2>2. UNCHANGED netVars
    BY <1>2 DEF BackyardFault, User, Clock, ParentStep, ChildStep, DelayedStep
  <2>. QED
    BY <2>1, <2>2, ReadsNothingSettled DEF ReadsNothing, netVars
<1>3. CASE \/ HandlerFault
           \/ \E a \in Agents, rows \in SUBSET Executions : FetchServed(a, rows)
           \/ \E a \in Agents, d \in Executions, s \in Posted, pc \in {"sent", "read"} :
                PostServed(a, d, s, pc)
  BY <1>3, FetchSettled, PostSettled DEF HandlerFault, FetchServed, PostServed
<1>4. CASE \E a \in Agents, d \in Executions : BeatStep(a, d)
  <2>1. UNCHANGED <<status, netVars, backyardVars>>
    BY <1>4 DEF BeatStep, Heartbeat, Touch
  <2>. QED
    BY <2>1 DEF netVars, backyardVars, Settled, Outstanding
<1>5. CASE \/ NetFault \/ AgentFault
           \/ \E a \in Agents : MainStep(a)
           \/ \E a \in Agents, d \in Executions : WorkerStep(a, d) \/ RunnerStep(a, d)
  <2>1. child[e] = "none" /\ giveup /= e
    BY DEF Settled, Outstanding
  <2>. QED
    BY <1>5, <2>1, AgentReadsNothing, ReadsNothingSettled DEF backyardVars
<1>. QED
  BY <1>1, <1>2, <1>3, <1>4, <1>5 DEF Next

\* Once an execution has ended and nobody holds an old reading of its row, no
\* step of any component, and no call however late, changes its status.
THEOREM SettledStatusIsFinal == Spec => SettledIsFinal
<1>1. Inv /\ [Next]_vars =>
        \A e \in Executions : Settled(e) => Settled(e)' /\ status'[e] = status[e]
  BY SettledStays
<1>. QED
  BY <1>1, InvHolds, PTL DEF SettledIsFinal, Spec

-----------------------------------------------------------------------------
(* The promise of ExecutionLifecycle is kept. *)

\* Whoever of the backyard is about to write a row took it up before, and a
\* child that calls it delayed saw it running.
BackyardFollows ==
    \A e \in Executions :
        /\ child[e] /= "none" \/ giveup = e => status[e] /= "NOT_YET"
        /\ child[e] = "delay" => status[e] \notin Early

\* How the status of a row moves in one step.
GoesOn(e) ==
    \/ status'[e] = status[e]
    \/ status[e] = "NOT_YET" /\ status'[e] = "PREPARE"
    \/ status[e] = "PREPARE" /\ status'[e] = "PREPARE_COMPLETE"
    \/ status[e] /= "NOT_YET" /\ status'[e] \in Terminal
    \/ status[e] \notin {"NOT_YET", "PREPARE"} /\ status'[e] \in Dispatched

LEMMA BackyardGoesOn ==
    ASSUME Inv, BackyardFollows, NEW e \in Executions, NEW d \in Executions,
           \/ ParentDies
           \/ User(d) \/ Clock(d) \/ Parent(d) \/ Child(d) \/ MonitorDelayed(d)
           \/ ChildDies(d) \/ ChildRaises(d)
    PROVE  GoesOn(e) /\ BackyardFollows'
<1>. USE DEF Inv, TypeOK, RowTypeOK, BackyardTypeOK, BackyardFollows, GoesOn, Early
<1>1. CASE ParentDies
  BY <1>1, NoExecutionAssumption DEF ParentDies, rowVars
<1>2. CASE User(d) \/ Clock(d)
  BY <1>2 DEF User, Clock, Scram, TimePasses, backyardVars
<1>3. CASE Parent(d)
  <2>1. CASE Launch(d)
    BY <2>1, NoExecutionAssumption DEF Launch, WriteStatus, ChildBecomes
  <2>2. CASE Restart(d)
    BY <2>2 DEF Restart, ChildMissing, ChildBecomes, rowVars, Running, Dispatched
  <2>3. CASE DecideToGiveUp(d)
    BY <2>3 DEF DecideToGiveUp, ChildMissing, rowVars, Running, Dispatched
  <2>4. CASE GiveUp(d)
    BY <2>4, NoExecutionAssumption DEF GiveUp, WriteStatus, Terminal
  <2>. QED
    BY <1>3, <2>1, <2>2, <2>3, <2>4 DEF Parent
<1>4. CASE MonitorExpired(d) \/ MonitorEnded(d) \/ MonitorDelayed(d) \/ ChildDies(d)
  BY <1>4 DEF MonitorExpired, MonitorEnded, MonitorDelayed, ChildDies, ChildBecomes, rowVars
<1>5. CASE CheckParameters(d) \/ Prepare(d) \/ Expire(d) \/ ChildRaises(d)
  BY <1>5 DEF CheckParameters, Prepare, Expire, ChildRaises, WriteStatus, ChildBecomes,
              PreparesAlone, Terminal
<1>6. CASE Delay(d)
  BY <1>6 DEF Delay, WriteStatus, ChildBecomes, Dispatched
<1>. QED
  BY <1>1, <1>2, <1>3, <1>4, <1>5, <1>6 DEF Child

LEMMA CallGoesOn ==
    ASSUME Inv, BackyardFollows, NEW e \in Executions, NEW c,
           \/ FetchRead(c) \/ FetchCommit(c) \/ FetchRollback(c) \/ FetchDropped(c)
           \/ PostRead(c) \/ PostCommit(c) \/ PostLost(c) \/ PostDropped(c)
    PROVE  GoesOn(e) /\ (status[e] \notin Early => status'[e] \notin Early)
             /\ (status[e] /= "NOT_YET" => status'[e] /= "NOT_YET")
<1>. USE DEF Inv, TypeOK, RowTypeOK, ReceiverTypeOK, GoesOn, Early, Dispatched, Terminal
<1>1. CASE FetchCommit(c)
  BY <1>1 DEF FetchCommit, SelectedIsPrepared
<1>2. CASE PostCommit(c)
  <2>1. c \in posts /\ c \in PostCall
    BY <1>2 DEF PostCommit
  <2>2. status[c.exec] \notin Early
    BY <2>1 DEF EarlyIsFresh, Fresh, Untouched, Concerns, PostCall
  <2>. QED
    BY <1>2, <2>1, <2>2 DEF PostCommit, PostWrite, WriteStatus, Touch, PostCall, Posted
<1>3. CASE UNCHANGED status
  BY <1>3
<1>. QED
  BY <1>1, <1>2, <1>3 DEF FetchRead, FetchRollback, FetchDropped, PostRead, PostLost,
                          PostDropped, rowVars

\* Every step of the system keeps to the moves above.
LEMMA StatusGoesOn ==
    ASSUME Inv, BackyardFollows, [Next]_vars
    PROVE  BackyardFollows' /\ \A e \in Executions : GoesOn(e)
<1>. DEFINE Moved == BackyardFollows' /\ \A e \in Executions : GoesOn(e)
<1>0. ASSUME UNCHANGED <<status, backyardVars>> PROVE Moved
  BY <1>0 DEF backyardVars, BackyardFollows, GoesOn
<1>1. CASE UNCHANGED vars
  BY <1>0, <1>1 DEF vars, rowVars
<1>2. CASE \/ BackyardFault
           \/ \E d \in Executions :
                User(d) \/ Clock(d) \/ ParentStep(d) \/ ChildStep(d) \/ DelayedStep(d)
  <2>1. CASE ParentDies
    BY <1>0, <2>1, NoExecutionAssumption DEF ParentDies, rowVars, BackyardFollows, GoesOn
  <2>2. CASE \E d \in Executions :
               \/ User(d) \/ Clock(d) \/ Parent(d) \/ Child(d) \/ MonitorDelayed(d)
               \/ ChildDies(d) \/ ChildRaises(d)
    BY <2>2, BackyardGoesOn
  <2>. QED
    BY <1>2, <2>1, <2>2 DEF BackyardFault, ParentStep, ChildStep, DelayedStep
<1>3. CASE \/ HandlerFault
           \/ \E a \in Agents, rows \in SUBSET Executions : FetchServed(a, rows)
           \/ \E a \in Agents, d \in Executions, s \in Posted, pc \in {"sent", "read"} :
                PostServed(a, d, s, pc)
  <2>1. PICK c : \/ FetchRead(c) \/ FetchCommit(c) \/ FetchRollback(c) \/ FetchDropped(c)
                 \/ PostRead(c) \/ PostCommit(c) \/ PostLost(c) \/ PostDropped(c)
    BY <1>3 DEF HandlerFault, FetchServed, PostServed
  <2>2. UNCHANGED backyardVars
    BY <1>3 DEF HandlerFault, FetchServed, PostServed
  <2>. QED
    BY <2>1, <2>2, CallGoesOn DEF BackyardFollows, backyardVars
<1>4. CASE \E a \in Agents, d \in Executions : BeatStep(a, d)
  BY <1>0, <1>4 DEF BeatStep, Heartbeat, Touch
<1>5. CASE \/ NetFault \/ AgentFault
           \/ \E a \in Agents : MainStep(a)
           \/ \E a \in Agents, d \in Executions : WorkerStep(a, d) \/ RunnerStep(a, d)
  BY <1>0, <1>5, AgentReadsNothing
<1>. QED
  BY <1>1, <1>2, <1>3, <1>4, <1>5 DEF Next

LEMMA FollowsHolds == Spec => []BackyardFollows
<1>1. Init => BackyardFollows
  BY NoExecutionAssumption DEF Init, RowInit, BackyardInit, BackyardFollows
<1>2. Inv /\ BackyardFollows /\ [Next]_vars => BackyardFollows'
  BY StatusGoesOn
<1>. QED
  BY <1>1, <1>2, InvHolds, PTL DEF Spec

LEMMA LifecycleStarts == Init => Lifecycle!Init
<1>. SUFFICES ASSUME Init PROVE Lifecycle!Init
  OBVIOUS
<1>1. ASSUME NEW e \in Executions PROVE PhaseOf(e) = "waiting" /\ OutcomeOf(e) = "none"
  <2>1. status[e] = "NOT_YET"
    BY DEF Init, RowInit
  <2>. QED
    BY <2>1 DEF PhaseOf, OutcomeOf, Settled, Terminal, Dispatched
<1>. QED
  BY <1>1 DEF Lifecycle!Init

\* What one row shows in a step is a step of the life cycle.
LEMMA PhaseGoesOn ==
    ASSUME Inv, Inv', BackyardFollows, [Next]_vars, NEW e \in Executions
    PROVE  \/ PhaseOf(e)' = PhaseOf(e) /\ OutcomeOf(e)' = OutcomeOf(e)
           \/ PhaseOf(e) = "waiting" /\ PhaseOf(e)' = "preparing" /\ OutcomeOf(e)' = "none"
           \/ PhaseOf(e) = "preparing" /\ PhaseOf(e)' = "offered" /\ OutcomeOf(e)' = "none"
           \/ /\ PhaseOf(e) \in {"offered", "ended"}
              /\ PhaseOf(e)' = "given" /\ OutcomeOf(e)' = "none"
           \/ /\ PhaseOf(e) \in {"preparing", "offered", "given", "ended"}
              /\ PhaseOf(e)' \in {"ended", "settled"}
              /\ OutcomeOf(e)' \in Lifecycle!Outcomes
<1>1. GoesOn(e)
  BY StatusGoesOn
<1>2. Settled(e) => Settled(e)' /\ status'[e] = status[e]
  BY SettledStays
<1>3. status[e] \in Status /\ status'[e] \in Status
  BY DEF Inv, TypeOK, RowTypeOK
<1>4. (Settled(e) => status[e] \in Terminal) /\ (Settled(e)' => status'[e] \in Terminal)
  BY DEF Settled
<1>. QED
  BY <1>1, <1>2, <1>3, <1>4
     DEF GoesOn, PhaseOf, OutcomeOf, Status, Running, Dispatched, Terminal, Lifecycle!Outcomes

LEMMA LifecycleGoesOn ==
    ASSUME Inv, Inv', BackyardFollows, [Next]_vars
    PROVE  Lifecycle!Next
<1>1. ASSUME NEW e \in Executions
      PROVE  \/ Lifecycle!Launch(e) \/ Lifecycle!Offer(e) \/ Lifecycle!GiveOut(e)
             \/ Lifecycle!End(e) \/ Lifecycle!Reopen(e) \/ Lifecycle!Stay(e)
  BY PhaseGoesOn DEF Lifecycle!Launch, Lifecycle!Offer, Lifecycle!GiveOut, Lifecycle!End,
                     Lifecycle!Reopen, Lifecycle!Stay, Lifecycle!Becomes
<1>. QED
  BY <1>1 DEF Lifecycle!Next

\* Whatever dies, is lost or comes late, the rows of all executions go through
\* the phases that their users are promised: prepared once, offered once, given
\* out after that, and history once they have settled.
THEOREM LifecycleIsKept == Spec => KeepsLifecycle
<1>1. Inv /\ Inv' /\ BackyardFollows /\ [Next]_vars =>
        [Lifecycle!Next]_<<[e \in Executions |-> PhaseOf(e)], [e \in Executions |-> OutcomeOf(e)]>>
  BY LifecycleGoesOn
<1>. QED
  BY <1>1, LifecycleStarts, InvHolds, FollowsHolds, PTL DEF Spec, KeepsLifecycle, Lifecycle!Spec

-----------------------------------------------------------------------------
(* The limit of an agent.                                                    *)

\* The children of an agent, and what it is given, can be counted.
LEMMA Countable ==
    ASSUME NEW S \in SUBSET Executions
    PROVE  IsFiniteSet(S) /\ Cardinality(S) \in Nat
  BY ExecutionsAssumption, FS_Subset, FS_CardinalityType

LEMMA FewerThan ==
    ASSUME NEW S \in SUBSET Executions, NEW T \in SUBSET S
    PROVE  Cardinality(T) <= Cardinality(S)
  BY ExecutionsAssumption, FS_Subset

\* So can those of one driver.
LEMMA OfDriver ==
    ASSUME NEW S \in SUBSET Executions, NEW d
    PROVE  /\ Of(S, d) \in SUBSET S
           /\ IsFiniteSet(Of(S, d)) /\ Cardinality(Of(S, d)) \in Nat
           /\ Cardinality(Of(S, d)) <= Cardinality(S)
           /\ \A T \in SUBSET S : Cardinality(Of(T, d)) <= Cardinality(Of(S, d))
<1>1. Of(S, d) \in SUBSET S /\ \A T \in SUBSET S : Of(T, d) \in SUBSET Of(S, d)
  BY DEF Of
<1>. QED
  BY <1>1, Countable, FewerThan

\* A query for a limited number of rows selects no more of any driver.
LEMMA SelectionFits ==
    ASSUME LimitsApply, NEW n \in Nat \ {0},
           NEW rows \in Selectable(GetExecutionLimit(n)), NEW d \in Drivers
    PROVE  Cardinality(Of(rows, d)) <= n
<1>. DEFINE k == GetExecutionLimit(n)
            there == Cardinality(Offered(d))
<1>1. k \in Nat \ {0} /\ k <= n
  BY ReceiverAssumption DEF LimitsApply, GetExecutionLimit
<1>2. Cardinality(Of(rows, d)) = IF k \in 1..there THEN k ELSE there
  BY DEF Selectable, Drivers, Of
<1>3. there \in Nat
  BY Countable DEF Offered
<1>. QED
  BY <1>1, <1>2, <1>3

\* What SlotsAreFree says of one agent, and of one call.
AgentFits(a) == \A d \in Drivers :
    Cardinality(Of(AtWork(a), d)) + Cardinality(Of(todo[a], d)) <= ExecutionLimit
CallFits(f) == \A d \in Drivers :
    /\ Cardinality(Of(AtWork(f.agent), d)) + f.limit <= ExecutionLimit
    /\ Cardinality(Of(f.rows, d)) <= f.limit

LEMMA SlotsApart ==
    /\ SlotsAreFree <=> /\ \A a \in Agents : AgentFits(a)
                        /\ \A f \in fetches : f.live => CallFits(f)
    /\ SlotsAreFree' <=> /\ \A a \in Agents : AgentFits(a)'
                         /\ \A f \in fetches' : f.live => CallFits(f)'
BY DEF SlotsAreFree, AgentFits, CallFits

\* An agent with no more children than before, and no more to be started, and a
\* call that learns of nothing, still fit.
LEMMA FewerFit ==
    ASSUME NEW a \in Agents, TypeOK, AtWork(a)' \subseteq AtWork(a)
    PROVE  /\ AgentFits(a) /\ todo'[a] \subseteq todo[a] => AgentFits(a)'
           /\ \A f, g : /\ CallFits(g) /\ g.agent = a /\ g.limit \in Nat
                        /\ f.agent = g.agent /\ f.limit = g.limit
                        /\ f.rows = g.rows \/ f.rows = {}
                        => CallFits(f)'
<1>1. AtWork(a) \in SUBSET Executions /\ todo[a] \in SUBSET Executions
  BY DEF AtWork, TypeOK, AgentTypeOK
<1>2. ASSUME NEW d
      PROVE  /\ Cardinality(Of(AtWork(a)', d)) <= Cardinality(Of(AtWork(a), d))
             /\ Cardinality(Of(AtWork(a)', d)) \in Nat
             /\ Cardinality(Of(AtWork(a), d)) \in Nat
             /\ Cardinality(Of({}, d)) = 0
  <2>1. AtWork(a)' \in SUBSET AtWork(a) /\ AtWork(a)' \in SUBSET Executions
    BY <1>1
  <2>2. Of({}, d) = {}
    BY DEF Of
  <2>. QED
    BY <1>1, <2>1, <2>2, OfDriver, FS_EmptySet
<1>3. ASSUME AgentFits(a), todo'[a] \subseteq todo[a], NEW d \in Drivers
      PROVE  Cardinality(Of(AtWork(a)', d)) + Cardinality(Of(todo'[a], d)) <= ExecutionLimit
  <2>1. todo'[a] \in SUBSET todo[a] /\ todo'[a] \in SUBSET Executions
    BY <1>1, <1>3
  <2>2. /\ Cardinality(Of(todo'[a], d)) <= Cardinality(Of(todo[a], d))
        /\ Cardinality(Of(todo'[a], d)) \in Nat /\ Cardinality(Of(todo[a], d)) \in Nat
    BY <1>1, <2>1, OfDriver
  <2>3. Cardinality(Of(AtWork(a), d)) + Cardinality(Of(todo[a], d)) <= ExecutionLimit
    BY <1>3 DEF AgentFits
  <2>. QED
    BY <1>2, <2>2, <2>3, ReceiverAssumption
<1>4. ASSUME NEW f, NEW g, CallFits(g), g.agent = a, g.limit \in Nat,
             f.agent = g.agent, f.limit = g.limit, f.rows = g.rows \/ f.rows = {},
             NEW d \in Drivers
      PROVE  /\ Cardinality(Of(AtWork(a)', d)) + f.limit <= ExecutionLimit
             /\ Cardinality(Of(f.rows, d)) <= f.limit
  <2>1. /\ Cardinality(Of(AtWork(a), d)) + g.limit <= ExecutionLimit
        /\ Cardinality(Of(g.rows, d)) <= g.limit
    BY <1>4 DEF CallFits
  <2>. QED
    BY <1>2, <1>4, <2>1, ReceiverAssumption
<1>. QED
  BY <1>3, <1>4 DEF AgentFits, CallFits

\* So does a call that stays as it is.
LEMMA CallStillFits ==
    ASSUME TypeOK, SlotsAreFree, NEW f \in fetches, f.live,
           AtWork(f.agent)' \subseteq AtWork(f.agent)
    PROVE  CallFits(f)'
<1>1. f.agent \in Agents /\ f.limit \in Nat
  BY ReceiverAssumption DEF TypeOK, ReceiverTypeOK, FetchCall
<1>. QED
  BY <1>1, FewerFit, SlotsApart

\* A step after which there are no more children and no more to be started,
\* and in which no call learns of anything, leaves enough free slots.
LEMMA SlotsStay ==
    ASSUME TypeOK, SlotsAreFree,
           \A a \in Agents : AtWork(a)' \subseteq AtWork(a) /\ todo'[a] \subseteq todo[a],
           \A f \in fetches' : f.live =>
             \E g \in fetches : /\ g.live /\ g.agent = f.agent /\ g.limit = f.limit
                                /\ f.rows = g.rows \/ f.rows = {}
    PROVE  SlotsAreFree'
<1>1. \A a \in Agents : AgentFits(a)'
  BY FewerFit, SlotsApart
<1>2. ASSUME NEW f \in fetches', f.live PROVE CallFits(f)'
  <2>1. PICK g \in fetches : /\ g.live /\ g.agent = f.agent /\ g.limit = f.limit
                             /\ f.rows = g.rows \/ f.rows = {}
    BY <1>2
  <2>2. g.agent \in Agents /\ g.limit \in Nat
    BY ReceiverAssumption DEF TypeOK, ReceiverTypeOK, FetchCall
  <2>. QED
    BY <2>1, <2>2, FewerFit, SlotsApart
<1>. QED
  BY <1>1, <1>2, SlotsApart

\* One call of a child or a main loop put in the place of another.
LEMMA CallsStay ==
    ASSUME OneCallPerChild, ReportsCurrent, UNCHANGED <<worker, current>>,
           NEW p \in posts, NEW q,
           q.agent = p.agent, q.exec = p.exec, q.sender = p.sender, q.live => p.live,
           \A x \in posts' : x.live => x = q \/ (x \in posts /\ x /= p)
    PROVE  OneCallPerChild' /\ ReportsCurrent'
<1>1. OneCallPerChild'
  BY DEF OneCallPerChild, ByChild
<1>2. ReportsCurrent'
  BY DEF ReportsCurrent, Reporting
<1>. QED
  BY <1>1, <1>2

\* The user, the clock, the backyard and a heartbeat.
LEMMA CapacityUnmoved ==
    ASSUME CapacityInv, UNCHANGED <<netVars, agentVars>>
    PROVE  CapacityInv'
<1>. USE DEF netVars, agentVars
<1>1. OneCallPerChild' /\ HandsAreEmpty' /\ ReportsCurrent' /\ ChildrenHaveFiles'
  BY DEF CapacityInv, OneCallPerChild, HandsAreEmpty, ReportsCurrent, ChildrenHaveFiles,
         ByChild, Reporting, AtWork
<1>2. SlotsAreFree'
  BY DEF CapacityInv, SlotsAreFree, AtWork
<1>. QED
  BY <1>1, <1>2 DEF CapacityInv

\* The handlers of a call for work.
LEMMA CapacityFetchServed ==
    ASSUME Inv, LimitsApply, CapacityInv, NEW f \in fetches,
           FetchRead(f) \/ FetchCommit(f) \/ FetchDropped(f) \/ FetchRollback(f),
           UNCHANGED <<posts, agentVars>>
    PROVE  CapacityInv'
<1>1. OneCallPerChild' /\ HandsAreEmpty' /\ ReportsCurrent' /\ ChildrenHaveFiles'
  BY DEF CapacityInv, OneCallPerChild, HandsAreEmpty, ReportsCurrent, ChildrenHaveFiles,
         ByChild, Reporting, AtWork, agentVars
<1>2. \A a \in Agents : AtWork(a)' = AtWork(a) /\ todo'[a] = todo[a]
  BY DEF AtWork, agentVars
<1>. f \in FetchCall
  BY DEF Inv, TypeOK, ReceiverTypeOK
<1>3. CASE FetchRead(f)
  <2>1. PICK rows \in Selectable(GetExecutionLimit(f.limit)) :
          fetches' = (fetches \ {f}) \cup {[f EXCEPT !.pc = "read", !.rows = rows]}
    BY <1>3 DEF FetchRead
  <2>2. f.limit \in Nat \ {0}
    BY ReceiverAssumption DEF FetchCall
  <2>3. \A d \in Drivers : Cardinality(Of(rows, d)) <= f.limit
    BY <2>2, SelectionFits
  <2>. DEFINE g == [f EXCEPT !.pc = "read", !.rows = rows]
  <2>4. g.agent = f.agent /\ g.limit = f.limit /\ g.live = f.live /\ g.rows = rows
    BY DEF FetchCall
  <2>. HIDE DEF g
  <2>5. ASSUME NEW x \in fetches', x.live PROVE CallFits(x)'
    <3>1. CASE x \in fetches
      <4>1. x.agent \in Agents
        BY <3>1 DEF Inv, TypeOK, ReceiverTypeOK, FetchCall
      <4>. QED
        BY <1>2, <2>5, <3>1, <4>1, CallStillFits DEF Inv, CapacityInv
    <3>2. CASE x = g
      <4>1. CallFits(f) /\ f.agent \in Agents
        BY <2>4, <2>5, <3>2, SlotsApart DEF CapacityInv, FetchCall
      <4>. QED
        BY <1>2, <2>3, <2>4, <3>2, <4>1 DEF CallFits
    <3>. QED
      BY <2>1, <2>5, <3>1, <3>2 DEF g
  <2>6. SlotsAreFree'
    BY <1>2, <2>5, FewerFit, SlotsApart DEF Inv, CapacityInv
  <2>. QED
    BY <1>1, <2>6 DEF CapacityInv
<1>4. CASE FetchCommit(f) \/ FetchDropped(f) \/ FetchRollback(f)
  <2>. DEFINE g == [f EXCEPT !.pc = "done"]
              h == [[f EXCEPT !.rows = {}] EXCEPT !.pc = "done"]
  <2>1. /\ g.live = f.live /\ g.agent = f.agent /\ g.limit = f.limit /\ g.rows = f.rows
        /\ h.live = f.live /\ h.agent = f.agent /\ h.limit = f.limit /\ h.rows = {}
    BY DEF FetchCall
  <2>2. \A x \in fetches' : x.live => x \in fetches \/ x = g \/ x = h
    BY <1>4 DEF FetchCommit, FetchDropped, FetchRollback, Answered
  <2>. HIDE DEF g, h
  <2>3. SlotsAreFree'
    <3>1. \A x \in fetches' : x.live =>
             \E y \in fetches : /\ y.live /\ y.agent = x.agent /\ y.limit = x.limit
                                /\ x.rows = y.rows \/ x.rows = {}
      BY <2>1, <2>2
    <3>. QED
      BY <1>2, <3>1, SlotsStay DEF Inv, CapacityInv
  <2>. QED
    BY <1>1, <2>3 DEF CapacityInv
<1>. QED
  BY <1>3, <1>4

\* The handlers of a notification, and its repetition.
LEMMA CapacityPostServed ==
    ASSUME Inv, CapacityInv, NEW p \in posts,
           PostRead(p) \/ PostCommit(p) \/ PostDropped(p) \/ PostLost(p) \/ PostRetry(p),
           UNCHANGED <<fetches, agentVars>>
    PROVE  CapacityInv'
<1>1. HandsAreEmpty' /\ ChildrenHaveFiles' /\ SlotsAreFree'
  BY DEF CapacityInv, HandsAreEmpty, ChildrenHaveFiles, SlotsAreFree, AtWork, agentVars
<1>. p \in PostCall
  BY DEF Inv, TypeOK, ReceiverTypeOK
<1>2. PICK q : /\ q.agent = p.agent /\ q.exec = p.exec /\ q.sender = p.sender
               /\ q.live => p.live
               /\ \A x \in posts' : x.live => x = q \/ (x \in posts /\ x /= p)
  <2>1. CASE PostRead(p) \/ PostCommit(p) \/ PostLost(p)
    <3>. DEFINE r == [p EXCEPT !.scram = abort[p.exec], !.update = Updates(status[p.exec], p.post)]
    <3>. DEFINE q1 == [[r EXCEPT !.update = FALSE] EXCEPT !.pc = "done"]
                q2 == [r EXCEPT !.pc = "read"]
                q3 == [[p EXCEPT !.update = FALSE] EXCEPT !.pc = "done"]
    <3>1. /\ q1.agent = p.agent /\ q1.exec = p.exec /\ q1.sender = p.sender /\ q1.live = p.live
          /\ q2.agent = p.agent /\ q2.exec = p.exec /\ q2.sender = p.sender /\ q2.live = p.live
          /\ q3.agent = p.agent /\ q3.exec = p.exec /\ q3.sender = p.sender /\ q3.live = p.live
      BY DEF PostCall
    <3>2. \/ posts' \subseteq (posts \ {p}) \cup {q1}
          \/ posts' \subseteq (posts \ {p}) \cup {q2}
          \/ posts' \subseteq (posts \ {p}) \cup {q3}
      BY <2>1 DEF PostRead, PostCommit, PostLost, PostHandled, Answered
    <3>. HIDE DEF q1, q2, q3
    <3>. QED
      BY <3>1, <3>2
  <2>2. CASE PostDropped(p)
    BY <2>2 DEF PostDropped
  <2>3. CASE PostRetry(p)
    <3>. DEFINE q == [NewPost(p.agent, p.exec, p.sender, p.post) EXCEPT !.try = p.try + 1]
    <3>1. q.agent = p.agent /\ q.exec = p.exec /\ q.sender = p.sender /\ p.live
      BY <2>3 DEF NewPost, PostRetry
    <3>2. ~[p EXCEPT !.live = FALSE].live
      BY DEF PostCall
    <3>3. \A x \in posts' : x.live => x = q \/ (x \in posts /\ x /= p)
      BY <2>3, <3>2 DEF PostRetry, Abandoned
    <3>. HIDE DEF q
    <3>. QED
      BY <3>1, <3>3
  <2>. QED
    BY <2>1, <2>2, <2>3
<1>3. OneCallPerChild' /\ ReportsCurrent'
  BY <1>2, CallsStay DEF CapacityInv, agentVars
<1>. QED
  BY <1>1, <1>3 DEF CapacityInv

\* The main loop between two calls: a child is forked, its file written, an old
\* file given up.
LEMMA CapacityMain ==
    ASSUME Inv, Inv', CapacityInv, NEW a \in Agents, NEW e \in Executions,
           \/ Spawn(a, e)
           \/ CreateStatusFile(a) /\ e = current[a]
           \/ ReportNotUploaded(a, e)
    PROVE  CapacityInv'
<1>. USE DEF netVars
<1>1. UNCHANGED <<fetches, posts>>
  BY DEF Spawn, CreateStatusFile, ReportNotUploaded
<1>2. /\ main \in [Agents -> {"idle", "fetching", "spawning", "reporting"}]
      /\ todo \in [Agents -> SUBSET Executions]
      /\ current \in [Agents -> Executions \cup {NoWork}]
      /\ statusfile \in [Agents -> [Executions -> BOOLEAN]]
      /\ worker \in [Agents -> [Executions -> {"none", "start", "poll", "posting", "failed",
                                               "lastpost"}]]
      /\ NoWork \notin Executions
      /\ \A f \in fetches : f.agent \in Agents
      /\ \A p \in posts : p.agent \in Agents /\ p.exec \in Executions
  BY AgentAssumption DEF Inv, TypeOK, AgentTypeOK, PerJob, ReceiverTypeOK, FetchCall, PostCall
<1>3. CASE Spawn(a, e)
  <2>1. /\ main[a] = "spawning" /\ current[a] = NoWork /\ e \in todo[a]
        /\ UNCHANGED <<main, statusfile>>
        /\ worker' = [worker EXCEPT ![a][e] = "start"]
        /\ todo' = [todo EXCEPT ![a] = @ \ {e}]
        /\ current' = [current EXCEPT ![a] = e]
    BY <1>3 DEF Spawn
  <2>2. \A p \in posts : ~Concerns(p, a, e)
    BY <2>1 DEF Inv, TodoIsUntouched, Untouched
  <2>3. OneCallPerChild'
    BY <1>1, <1>2, <2>1, <2>2 DEF CapacityInv, OneCallPerChild, ByChild, Concerns
  <2>4. ReportsCurrent'
    BY <1>1, <1>2, <2>1 DEF CapacityInv, ReportsCurrent, Reporting, Inv, OneReportAtATime
  <2>5. /\ AtWork(a)' = AtWork(a) \cup {e}
        /\ \A b \in Agents : b /= a => AtWork(b)' = AtWork(b)
    BY <1>2, <2>1 DEF AtWork
  <2>6. HandsAreEmpty'
    BY <1>2, <2>1, <2>5 DEF CapacityInv, HandsAreEmpty
  <2>7. ChildrenHaveFiles'
    <3>1. \A b \in Agents : \A d \in AtWork(b) : statusfile[b][d] \/ current[b] = d
      BY DEF CapacityInv, ChildrenHaveFiles
    <3>2. \A b \in Agents : AtWork(b) \subseteq Executions
      BY DEF AtWork
    <3>3. \A d \in AtWork(a) : statusfile[a][d]
      BY <1>2, <2>1, <3>1, <3>2
    <3>. QED
      BY <1>2, <2>1, <2>5, <3>1, <3>3 DEF ChildrenHaveFiles
  <2>8. AgentFits(a)'
    <3>1. /\ AtWork(a) \in SUBSET Executions /\ todo[a] \in SUBSET Executions
          /\ AtWork(a)' \in SUBSET Executions /\ todo'[a] = todo[a] \ {e}
      BY <1>2, <2>1, <2>5 DEF AtWork
    <3>. SUFFICES ASSUME NEW d \in Drivers
                  PROVE  Cardinality(Of(AtWork(a)', d)) + Cardinality(Of(todo'[a], d))
                           <= ExecutionLimit
      BY DEF AgentFits
    <3>. DEFINE A == Of(AtWork(a), d)
                T == Of(todo[a], d)
    <3>2. /\ IsFiniteSet(A) /\ Cardinality(A) \in Nat
          /\ IsFiniteSet(T) /\ Cardinality(T) \in Nat
      BY <3>1, OfDriver
    <3>3. Cardinality(A) + Cardinality(T) <= ExecutionLimit
      BY DEF CapacityInv, SlotsAreFree
    <3>4. CASE Driver[e] = d
      <4>1. Of(AtWork(a)', d) = A \cup {e} /\ Of(todo'[a], d) = T \ {e} /\ e \in T
        BY <2>1, <2>5, <3>1, <3>4 DEF Of
      <4>. HIDE DEF A, T
      <4>2. Cardinality(A \cup {e}) = IF e \in A THEN Cardinality(A) ELSE Cardinality(A) + 1
        BY <3>2, FS_AddElement
      <4>3. Cardinality(T \ {e}) = Cardinality(T) - 1
        BY <3>2, <4>1, FS_RemoveElement
      <4>. QED
        BY <3>2, <3>3, <4>1, <4>2, <4>3, ReceiverAssumption
    <3>5. CASE Driver[e] /= d
      <4>1. Of(AtWork(a)', d) = A /\ Of(todo'[a], d) = T
        BY <2>5, <3>1, <3>5 DEF Of
      <4>. QED
        BY <3>3, <4>1
    <3>. QED
      BY <3>4, <3>5
  <2>9. SlotsAreFree'
    <3>1. ASSUME NEW b \in Agents PROVE AgentFits(b)'
      <4>1. CASE b = a
        BY <2>8, <4>1
      <4>2. CASE b /= a
        BY <1>2, <2>1, <2>5, <4>2, FewerFit, SlotsApart DEF Inv, CapacityInv
      <4>. QED
        BY <4>1, <4>2
    <3>2. \A f \in fetches : f.live => f.agent /= a
      BY <2>1 DEF Inv, OneFetchAtATime
    <3>3. \A f \in fetches' : f.live => CallFits(f)'
      BY <1>1, <1>2, <2>5, <3>2, CallStillFits DEF Inv, CapacityInv
    <3>. QED
      BY <3>1, <3>3, SlotsApart
  <2>. QED
    BY <2>3, <2>4, <2>6, <2>7, <2>9 DEF CapacityInv
<1>4. CASE CreateStatusFile(a) /\ e = current[a]
  <2>1. /\ main[a] = "spawning" /\ UNCHANGED <<worker, todo>>
        /\ statusfile' = [statusfile EXCEPT ![a][e] = TRUE]
        /\ current' = [current EXCEPT ![a] = NoWork]
        /\ main' = [main EXCEPT ![a] = IF todo[a] = {} THEN "idle" ELSE "spawning"]
    BY <1>4 DEF CreateStatusFile
  <2>2. \A b \in Agents : AtWork(b)' = AtWork(b) /\ AtWork(b) \subseteq Executions
    BY <2>1 DEF AtWork
  <2>3. OneCallPerChild' /\ SlotsAreFree'
    BY <1>1, <1>2, <2>1, <2>2 DEF CapacityInv, OneCallPerChild, ByChild, SlotsAreFree
  <2>4. ReportsCurrent'
    BY <1>1, <1>2, <2>1 DEF CapacityInv, ReportsCurrent, Reporting, Inv, OneReportAtATime
  <2>5. HandsAreEmpty'
    BY <1>2, <2>1, <2>2 DEF CapacityInv, HandsAreEmpty
  <2>6. ChildrenHaveFiles'
    BY <1>2, <1>4, <2>1, <2>2 DEF CapacityInv, ChildrenHaveFiles
  <2>. QED
    BY <2>3, <2>4, <2>5, <2>6 DEF CapacityInv
<1>5. CASE ReportNotUploaded(a, e)
  <2>1. /\ worker[a][e] = "none" /\ UNCHANGED <<worker, todo, main, current>>
        /\ statusfile' = [statusfile EXCEPT ![a][e] = FALSE]
    BY <1>5 DEF ReportNotUploaded
  <2>2. \A b \in Agents : AtWork(b)' = AtWork(b) /\ AtWork(b) \subseteq Executions
    BY <2>1 DEF AtWork
  <2>3. OneCallPerChild' /\ SlotsAreFree' /\ HandsAreEmpty'
    BY <1>1, <1>2, <2>1, <2>2
       DEF CapacityInv, OneCallPerChild, ByChild, SlotsAreFree, HandsAreEmpty
  <2>4. ReportsCurrent'
    BY <1>1, <2>1 DEF CapacityInv, ReportsCurrent, Reporting
  <2>5. ChildrenHaveFiles'
    BY <1>2, <2>1, <2>2 DEF CapacityInv, ChildrenHaveFiles, AtWork
  <2>. QED
    BY <2>3, <2>4, <2>5 DEF CapacityInv
<1>. QED
  BY <1>3, <1>4, <1>5

\* The call of the main loop for work: sent, answered, repeated, given up.
LEMMA CapacityFetch ==
    ASSUME Inv, Inv', CapacityInv, NEW a \in Agents, Fetch(a)
    PROVE  CapacityInv'
<1>1. /\ main[a] = "idle" /\ UNCHANGED <<posts, todo, current, statusfile, worker>>
      /\ main' = [main EXCEPT ![a] = "fetching"]
  BY DEF Fetch
<1>2. /\ main \in [Agents -> {"idle", "fetching", "spawning", "reporting"}]
      /\ \A p \in posts : p.agent \in Agents
      /\ \A f \in fetches : f.agent \in Agents
  BY DEF Inv, TypeOK, AgentTypeOK, ReceiverTypeOK, FetchCall, PostCall
<1>3. \A b \in Agents : AtWork(b)' = AtWork(b) /\ AtWork(b) \subseteq Executions
  BY <1>1 DEF AtWork
<1>4. OneCallPerChild' /\ ReportsCurrent' /\ ChildrenHaveFiles'
  BY <1>1, <1>3
     DEF CapacityInv, OneCallPerChild, ByChild, ReportsCurrent, Reporting, ChildrenHaveFiles
<1>5. HandsAreEmpty'
  BY <1>1, <1>2, <1>3 DEF CapacityInv, HandsAreEmpty
<1>6. AtWork(a) = Working(a)
  <2>1. current[a] = NoWork
    BY <1>1 DEF CapacityInv, HandsAreEmpty
  <2>. QED
    BY <2>1, AgentAssumption DEF CapacityInv, ChildrenHaveFiles, AtWork, Working
<1>7. SlotsAreFree'
  <2>. DEFINE allow == ExecutionLimit - Cardinality(Working(a))
              m == IF allow > MovementLimit THEN MovementLimit ELSE allow
  <2>1. fetches' = fetches \cup {NewFetch(a, m)}
    BY DEF Fetch
  <2>2. Cardinality(AtWork(a)) \in Nat
    BY <1>3, Countable
  <2>3. m \in 1..ExecutionLimit /\ Cardinality(AtWork(a)) + m <= ExecutionLimit
    BY <1>6, <2>2, ReceiverAssumption, AgentAssumption DEF Fetch
  <2>. HIDE DEF m
  <2>4. /\ NewFetch(a, m).agent = a /\ NewFetch(a, m).limit = m /\ NewFetch(a, m).rows = {}
    BY DEF NewFetch
  <2>5. \A b \in Agents : AgentFits(b)'
    BY <1>1, <1>3, FewerFit, SlotsApart DEF Inv, CapacityInv
  <2>6. ASSUME NEW f \in fetches', f.live PROVE CallFits(f)'
    <3>1. CASE f \in fetches
      BY <1>2, <1>3, <2>6, <3>1, CallStillFits DEF Inv, CapacityInv
    <3>2. CASE f = NewFetch(a, m)
      <4>. SUFFICES ASSUME NEW d \in Drivers
                    PROVE  /\ Cardinality(Of(AtWork(a)', d)) + m <= ExecutionLimit
                           /\ Cardinality(Of({}, d)) <= m
        BY <2>4, <3>2 DEF CallFits
      <4>1. /\ Cardinality(Of(AtWork(a), d)) <= Cardinality(AtWork(a))
            /\ Cardinality(Of(AtWork(a), d)) \in Nat
        BY <1>3, OfDriver
      <4>2. Of({}, d) = {} /\ Cardinality({}) = 0
        BY FS_EmptySet DEF Of
      <4>. QED
        BY <1>3, <2>2, <2>3, <4>1, <4>2, ReceiverAssumption
    <3>. QED
      BY <2>1, <3>1, <3>2
  <2>. QED
    BY <2>5, <2>6, SlotsApart
<1>. QED
  BY <1>4, <1>5, <1>7 DEF CapacityInv

LEMMA CapacityFetchCall ==
    ASSUME Inv, Inv', CapacityInv, NEW f \in fetches,
           FetchAnswer(f) \/ FetchRetry(f) \/ FetchGiveUp(f)
    PROVE  CapacityInv'
<1>1. f.live /\ UNCHANGED <<posts, current, statusfile, worker>>
  BY DEF FetchAnswer, FetchRetry, FetchGiveUp, agentVars
<1>2. /\ main \in [Agents -> {"idle", "fetching", "spawning", "reporting"}]
      /\ todo \in [Agents -> SUBSET Executions]
      /\ \A p \in posts : p.agent \in Agents
      /\ \A g \in fetches : g.agent \in Agents
      /\ f \in FetchCall
  BY DEF Inv, TypeOK, AgentTypeOK, ReceiverTypeOK, FetchCall, PostCall
<1>3. \A b \in Agents : AtWork(b)' = AtWork(b) /\ AtWork(b) \subseteq Executions
  BY <1>1 DEF AtWork
<1>4. OneCallPerChild' /\ ReportsCurrent' /\ ChildrenHaveFiles'
  BY <1>1, <1>3
     DEF CapacityInv, OneCallPerChild, ByChild, ReportsCurrent, Reporting, ChildrenHaveFiles
<1>5. /\ main[f.agent] = "fetching" /\ current[f.agent] = NoWork /\ todo[f.agent] = {}
      /\ \A g \in fetches : g.live /\ g.agent = f.agent => g = f
  BY <1>1, <1>2 DEF CapacityInv, HandsAreEmpty, Inv, OneFetchAtATime
<1>6. ~[f EXCEPT !.live = FALSE].live
  BY <1>2 DEF FetchCall
<1>7. CASE FetchAnswer(f)
  <2>1. /\ fetches' = fetches \ {f}
        /\ todo' = [todo EXCEPT ![f.agent] = f.rows]
        /\ main' = [main EXCEPT ![f.agent] = IF f.rows = {} THEN "idle" ELSE "spawning"]
    BY <1>7 DEF FetchAnswer
  <2>2. HandsAreEmpty'
    BY <1>1, <1>2, <1>3, <1>5, <2>1 DEF CapacityInv, HandsAreEmpty
  <2>3. f.agent \in Agents /\ f.limit \in Nat /\ f.rows \in SUBSET Executions
    BY <1>2, ReceiverAssumption DEF FetchCall
  <2>4. ASSUME NEW d \in Drivers
        PROVE  Cardinality(Of(AtWork(f.agent), d)) + Cardinality(Of(f.rows, d)) <= ExecutionLimit
    <3>1. /\ Cardinality(Of(AtWork(f.agent), d)) + f.limit <= ExecutionLimit
          /\ Cardinality(Of(f.rows, d)) <= f.limit
      BY <1>1 DEF CapacityInv, SlotsAreFree
    <3>2. /\ Cardinality(Of(AtWork(f.agent), d)) \in Nat
          /\ Cardinality(Of(f.rows, d)) \in Nat
      BY <1>3, <2>3, OfDriver
    <3>. QED
      BY <2>3, <3>1, <3>2, ReceiverAssumption
  <2>5. ASSUME NEW b \in Agents PROVE AgentFits(b)'
    <3>1. CASE b = f.agent
      BY <1>2, <1>3, <2>1, <2>4, <3>1 DEF AgentFits
    <3>2. CASE b /= f.agent
      BY <1>2, <1>3, <2>1, <3>2, FewerFit, SlotsApart DEF Inv, CapacityInv
    <3>. QED
      BY <3>1, <3>2
  <2>6. SlotsAreFree'
    <3>1. \A g \in fetches' : g.live => CallFits(g)'
      BY <1>2, <1>3, <2>1, CallStillFits DEF Inv, CapacityInv
    <3>. QED
      BY <2>5, <3>1, SlotsApart
  <2>. QED
    BY <1>4, <2>2, <2>6 DEF CapacityInv
<1>8. CASE FetchRetry(f)
  <2>. DEFINE g == [NewFetch(f.agent, f.limit) EXCEPT !.try = f.try + 1]
  <2>1. UNCHANGED <<main, todo>>
    BY <1>8 DEF FetchRetry, agentVars
  <2>2. g.agent = f.agent /\ g.limit = f.limit /\ g.rows = {}
    BY DEF NewFetch
  <2>3. \A x \in fetches' : x.live => x \in fetches \/ x = g
    BY <1>6, <1>8 DEF FetchRetry, Abandoned
  <2>. HIDE DEF g
  <2>4. SlotsAreFree'
    <3>1. \A x \in fetches' : x.live =>
             \E y \in fetches : /\ y.live /\ y.agent = x.agent /\ y.limit = x.limit
                                /\ x.rows = y.rows \/ x.rows = {}
      BY <1>1, <2>2, <2>3
    <3>. QED
      BY <1>3, <2>1, <3>1, SlotsStay DEF Inv, CapacityInv
  <2>5. HandsAreEmpty'
    BY <1>1, <1>3, <2>1 DEF CapacityInv, HandsAreEmpty
  <2>. QED
    BY <1>4, <2>4, <2>5 DEF CapacityInv
<1>9. CASE FetchGiveUp(f)
  <2>1. UNCHANGED todo /\ main' = [main EXCEPT ![f.agent] = "idle"]
    BY <1>9 DEF FetchGiveUp
  <2>2. \A x \in fetches' : x.live => x \in fetches
    BY <1>6, <1>9 DEF FetchGiveUp, Abandoned
  <2>3. SlotsAreFree'
    <3>1. \A x \in fetches' : x.live =>
             \E y \in fetches : /\ y.live /\ y.agent = x.agent /\ y.limit = x.limit
                                /\ x.rows = y.rows \/ x.rows = {}
      BY <2>2
    <3>. QED
      BY <1>3, <2>1, <3>1, SlotsStay DEF Inv, CapacityInv
  <2>4. HandsAreEmpty'
    BY <1>1, <1>2, <1>3, <1>5, <2>1 DEF CapacityInv, HandsAreEmpty
  <2>. QED
    BY <1>4, <2>3, <2>4 DEF CapacityInv
<1>. QED
  BY <1>7, <1>8, <1>9

\* A child goes on, or ends and may take its status file with it.
LEMMA ChildGoesOn ==
    ASSUME Inv, CapacityInv, NEW a \in Agents, NEW e \in Executions, NEW s,
           UNCHANGED <<main, todo, current, fetches>>,
           worker[a][e] /= "none", worker' = [worker EXCEPT ![a][e] = s],
           \/ UNCHANGED statusfile
           \/ s = "none" /\ statusfile' = [statusfile EXCEPT ![a][e] = FALSE]
    PROVE  HandsAreEmpty' /\ ChildrenHaveFiles' /\ SlotsAreFree'
<1>1. /\ statusfile \in [Agents -> [Executions -> BOOLEAN]]
      /\ worker \in [Agents -> [Executions -> {"none", "start", "poll", "posting", "failed",
                                               "lastpost"}]]
      /\ TypeOK
  BY DEF Inv, TypeOK, AgentTypeOK, PerJob
<1>2. \A b \in Agents : AtWork(b)' \subseteq AtWork(b)
  BY <1>1 DEF AtWork
<1>3. s = "none" => e \notin AtWork(a)'
  BY <1>1 DEF AtWork
<1>4. HandsAreEmpty'
  BY <1>2 DEF CapacityInv, HandsAreEmpty
<1>5. ChildrenHaveFiles'
  <2>. SUFFICES ASSUME NEW b \in Agents, NEW d \in AtWork(b)'
                PROVE  statusfile'[b][d] \/ current[b] = d
    BY DEF ChildrenHaveFiles
  <2>1. d \in AtWork(b) /\ d \in Executions
    BY <1>2 DEF AtWork
  <2>2. statusfile[b][d] \/ current[b] = d
    BY <2>1 DEF CapacityInv, ChildrenHaveFiles
  <2>. QED
    BY <1>1, <1>3, <2>1, <2>2
<1>6. SlotsAreFree'
  BY <1>1, <1>2, SlotsStay DEF CapacityInv
<1>. QED
  BY <1>4, <1>5, <1>6

\* The calls of that child: all that were open are closed, one may be opened.
LEMMA ChildCalls ==
    ASSUME Inv, CapacityInv, NEW a \in Agents, NEW e \in Executions, NEW s, NEW q,
           UNCHANGED current, worker' = [worker EXCEPT ![a][e] = s],
           \A p \in posts' : p.live =>
             \/ p \in posts /\ (p.sender = "child" => ~Concerns(p, a, e))
             \/ /\ p = q /\ q.sender = "child" /\ Concerns(q, a, e)
                /\ s \in {"posting", "lastpost"}
    PROVE  OneCallPerChild' /\ ReportsCurrent'
<1>1. /\ worker \in [Agents -> [Executions -> {"none", "start", "poll", "posting", "failed",
                                               "lastpost"}]]
      /\ \A p \in posts : p.agent \in Agents /\ p.exec \in Executions
  BY DEF Inv, TypeOK, AgentTypeOK, PerJob, ReceiverTypeOK, PostCall
<1>2. worker'[a][e] = s /\ \A b \in Agents, d \in Executions :
                             b /= a \/ d /= e => worker'[b][d] = worker[b][d]
  BY <1>1
<1>3. OneCallPerChild'
  <2>1. ASSUME NEW p \in posts', ByChild(p)
        PROVE  worker'[p.agent][p.exec] \in {"posting", "lastpost"}
    BY <1>1, <1>2, <2>1 DEF CapacityInv, OneCallPerChild, ByChild, Concerns
  <2>2. ASSUME NEW p \in posts', NEW r \in posts', ByChild(p), ByChild(r),
               p.agent = r.agent, p.exec = r.exec
        PROVE  p = r
    BY <2>2 DEF CapacityInv, OneCallPerChild, ByChild, Concerns
  <2>. QED
    BY <2>1, <2>2 DEF OneCallPerChild, ByChild
<1>4. ReportsCurrent'
  BY DEF CapacityInv, ReportsCurrent, Reporting
<1>. QED
  BY <1>3, <1>4

\* The steps of a child that concern no call ...
LEMMA CapacityWorker ==
    ASSUME Inv, CapacityInv, NEW a \in Agents, NEW e \in Executions,
           \/ StartRunner(a, e) \/ WorkerFails(a, e) \/ LastUploadFails(a, e)
           \/ RunnerEnds(a, e) \/ RunnerVanishes(a, e)
    PROVE  CapacityInv'
<1>1. UNCHANGED <<main, todo, current, fetches, posts>>
  BY DEF StartRunner, WorkerFails, LastUploadFails, RunnerEnds, RunnerVanishes, netVars
<1>2. CASE UNCHANGED <<worker, statusfile>>
  BY <1>1, <1>2 DEF CapacityInv, OneCallPerChild, HandsAreEmpty, ReportsCurrent,
                    ChildrenHaveFiles, SlotsAreFree, ByChild, Reporting, AtWork
<1>3. CASE StartRunner(a, e) \/ WorkerFails(a, e) \/ LastUploadFails(a, e)
  <2>1. PICK s : /\ worker[a][e] \in {"start", "poll", "failed"}
                 /\ worker' = [worker EXCEPT ![a][e] = s]
                 /\ \/ UNCHANGED statusfile
                    \/ s = "none" /\ statusfile' = [statusfile EXCEPT ![a][e] = FALSE]
    BY <1>3 DEF StartRunner, WorkerFails, LastUploadFails, WorkerBecomes, WorkerEnds
  <2>2. \A p \in posts : ByChild(p) => ~Concerns(p, a, e)
    BY <2>1 DEF CapacityInv, OneCallPerChild, Concerns
  <2>3. HandsAreEmpty' /\ ChildrenHaveFiles' /\ SlotsAreFree'
    BY <1>1, <2>1, ChildGoesOn
  <2>4. OneCallPerChild' /\ ReportsCurrent'
    BY <1>1, <2>1, <2>2, ChildCalls DEF ByChild
  <2>. QED
    BY <2>3, <2>4 DEF CapacityInv
<1>. QED
  BY <1>2, <1>3 DEF RunnerEnds, RunnerVanishes

\* ... those that send one, ...
LEMMA CapacityNotify ==
    ASSUME Inv, CapacityInv, NEW a \in Agents, NEW e \in Executions,
           \/ Poll(a, e) \/ PollBroken(a, e) \/ StopRunner(a, e) \/ StopFails(a, e)
           \/ LastPost(a, e)
    PROVE  CapacityInv'
<1>1. UNCHANGED <<main, todo, current, fetches, statusfile>>
  BY DEF Poll, PollBroken, StopRunner, StopFails, LastPost, Notify
<1>2. PICK s, post :
        /\ s \in {"posting", "lastpost"}
        /\ worker[a][e] \in {"poll", "failed"}
        /\ worker' = [worker EXCEPT ![a][e] = s]
        /\ posts' = posts \cup {NewPost(a, e, "child", post)}
  BY DEF Poll, PollBroken, StopRunner, StopFails, LastPost, Notify, WorkerBecomes
<1>3. HandsAreEmpty' /\ ChildrenHaveFiles' /\ SlotsAreFree'
  BY <1>1, <1>2, ChildGoesOn
<1>4. \A p \in posts : ByChild(p) => ~Concerns(p, a, e)
  BY <1>2 DEF CapacityInv, OneCallPerChild, Concerns
<1>. DEFINE q == NewPost(a, e, "child", post)
<1>5. q.sender = "child" /\ Concerns(q, a, e)
  BY DEF NewPost, Concerns
<1>. HIDE DEF q
<1>6. OneCallPerChild' /\ ReportsCurrent'
  <2>1. \A p \in posts' : p.live =>
             \/ p \in posts /\ (p.sender = "child" => ~Concerns(p, a, e))
             \/ /\ p = q /\ q.sender = "child" /\ Concerns(q, a, e)
                /\ s \in {"posting", "lastpost"}
    BY <1>2, <1>4, <1>5 DEF ByChild, q
  <2>. QED
    BY <1>1, <1>2, <2>1, ChildCalls
<1>. QED
  BY <1>3, <1>6 DEF CapacityInv

\* ... and those that close one.
LEMMA CapacityPostEnds ==
    ASSUME Inv, CapacityInv, NEW p \in posts, PostAnswer(p) \/ PostGiveUp(p)
    PROVE  CapacityInv'
<1>. DEFINE a == p.agent
            e == p.exec
<1>1. p \in PostCall /\ a \in Agents /\ e \in Executions
  BY DEF Inv, TypeOK, ReceiverTypeOK, PostCall
<1>2. ByChild(p) /\ UNCHANGED <<main, todo, current, fetches>>
  BY DEF PostAnswer, PostGiveUp, ByChild
<1>3. PICK s : /\ worker' = [worker EXCEPT ![a][e] = s]
               /\ \/ UNCHANGED statusfile
                  \/ s = "none" /\ statusfile' = [statusfile EXCEPT ![a][e] = FALSE]
  BY DEF PostAnswer, PostGiveUp, WorkerBecomes, WorkerEnds
<1>4. worker[a][e] /= "none"
  BY <1>2 DEF CapacityInv, OneCallPerChild
<1>5. HandsAreEmpty' /\ ChildrenHaveFiles' /\ SlotsAreFree'
  BY <1>1, <1>2, <1>3, <1>4, ChildGoesOn
<1>6. \A x \in posts' : x.live => x \in posts /\ x /= p
  <2>1. ~[p EXCEPT !.live = FALSE].live
    BY <1>1 DEF PostCall
  <2>. QED
    BY <2>1 DEF PostAnswer, PostGiveUp, Abandoned
<1>7. \A x \in posts : ByChild(x) /\ Concerns(x, a, e) => x = p
  BY <1>2 DEF CapacityInv, OneCallPerChild, Concerns
<1>. HIDE DEF a, e
<1>8. OneCallPerChild' /\ ReportsCurrent'
  <2>1. \A x \in posts' : x.live => x \in posts /\ (x.sender = "child" => ~Concerns(x, a, e))
    BY <1>6, <1>7 DEF ByChild
  <2>. QED
    BY <1>1, <1>2, <1>3, <2>1, ChildCalls
<1>. QED
  BY <1>5, <1>8 DEF CapacityInv

\* A killed child leaves its file, which the main loop will see, and its calls,
\* which nobody waits for.
LEMMA CapacityWorkerCrash ==
    ASSUME Inv, CapacityInv, NEW a \in Agents, NEW e \in Executions, WorkerCrash(a, e)
    PROVE  CapacityInv'
<1>1. /\ UNCHANGED <<main, todo, current, fetches, statusfile>> /\ worker[a][e] /= "none"
      /\ worker' = [worker EXCEPT ![a][e] = "none"]
  BY DEF WorkerCrash, WorkerBecomes
<1>2. HandsAreEmpty' /\ ChildrenHaveFiles' /\ SlotsAreFree'
  BY <1>1, ChildGoesOn
<1>3. \A p \in posts' : p.live => p \in posts /\ (p.sender = "child" => ~Concerns(p, a, e))
  <2>1. \A p \in posts : ~[p EXCEPT !.live = FALSE].live
    BY DEF Inv, TypeOK, ReceiverTypeOK, PostCall
  <2>. QED
    BY <2>1 DEF WorkerCrash, Orphaned, Concerns
<1>4. OneCallPerChild' /\ ReportsCurrent'
  BY <1>1, <1>3, ChildCalls
<1>. QED
  BY <1>2, <1>4 DEF CapacityInv

\* The main loop reports a child that is gone.
LEMMA CapacityReport ==
    ASSUME Inv, CapacityInv, NEW a \in Agents, NEW e \in Executions, Report(a, e)
    PROVE  CapacityInv'
<1>1. /\ main[a] = "idle" /\ worker[a][e] = "none"
      /\ UNCHANGED <<fetches, todo, statusfile, worker>>
      /\ posts' = posts \cup {NewPost(a, e, "main", "FAILURE")}
      /\ main' = [main EXCEPT ![a] = "reporting"]
      /\ current' = [current EXCEPT ![a] = e]
  BY DEF Report
<1>2. /\ main \in [Agents -> {"idle", "fetching", "spawning", "reporting"}]
      /\ current \in [Agents -> Executions \cup {NoWork}]
      /\ \A p \in posts : p.agent \in Agents
  BY DEF Inv, TypeOK, AgentTypeOK, ReceiverTypeOK, PostCall
<1>3. \A b \in Agents : AtWork(b)' = AtWork(b) /\ AtWork(b) \subseteq Executions
  BY <1>1 DEF AtWork
<1>. DEFINE q == NewPost(a, e, "main", "FAILURE")
<1>4. q.agent = a /\ q.exec = e /\ q.sender = "main"
  BY DEF NewPost
<1>. HIDE DEF q
<1>5. posts' = posts \cup {q}
  BY <1>1 DEF q
<1>6. OneCallPerChild'
  BY <1>1, <1>4, <1>5 DEF CapacityInv, OneCallPerChild, ByChild
<1>7. ReportsCurrent'
  BY <1>1, <1>2, <1>4, <1>5 DEF CapacityInv, ReportsCurrent, Reporting, Inv, OneReportAtATime
<1>8. HandsAreEmpty'
  <2>1. e \notin AtWork(a)
    BY <1>1 DEF AtWork
  <2>. QED
    BY <1>1, <1>2, <1>3, <2>1 DEF CapacityInv, HandsAreEmpty
<1>9. ChildrenHaveFiles'
  <2>1. current[a] = NoWork
    BY <1>1 DEF CapacityInv, HandsAreEmpty
  <2>2. \A b \in Agents : b /= a => current'[b] = current[b]
    BY <1>1, <1>2
  <2>3. \A d \in AtWork(a) : statusfile[a][d]
    BY <1>3, <2>1, AgentAssumption DEF CapacityInv, ChildrenHaveFiles
  <2>. QED
    BY <1>1, <1>3, <2>2, <2>3 DEF CapacityInv, ChildrenHaveFiles
<1>10. SlotsAreFree'
  BY <1>1, <1>3 DEF CapacityInv, SlotsAreFree, Inv, TypeOK, ReceiverTypeOK, FetchCall
<1>. QED
  BY <1>6, <1>7, <1>8, <1>9, <1>10 DEF CapacityInv

LEMMA CapacityReportEnds ==
    ASSUME Inv, CapacityInv, NEW p \in posts, ReportEnds(p)
    PROVE  CapacityInv'
<1>. DEFINE a == p.agent
            e == p.exec
<1>1. p \in PostCall /\ a \in Agents /\ e \in Executions
  BY DEF Inv, TypeOK, ReceiverTypeOK, PostCall
<1>2. /\ Reporting(p) /\ UNCHANGED <<fetches, todo, worker>>
      /\ statusfile' = [statusfile EXCEPT ![a][e] = FALSE]
      /\ main' = [main EXCEPT ![a] = "idle"]
      /\ current' = [current EXCEPT ![a] = NoWork]
  BY DEF ReportEnds, Reporting
<1>3. /\ main \in [Agents -> {"idle", "fetching", "spawning", "reporting"}]
      /\ current \in [Agents -> Executions \cup {NoWork}]
      /\ statusfile \in [Agents -> [Executions -> BOOLEAN]]
      /\ \A x \in posts : x.agent \in Agents
  BY DEF Inv, TypeOK, AgentTypeOK, PerJob, ReceiverTypeOK, PostCall
<1>4. \A b \in Agents : AtWork(b)' = AtWork(b) /\ AtWork(b) \subseteq Executions
  BY <1>2 DEF AtWork
<1>5. \A x \in posts' : x.live => x \in posts /\ x /= p
  <2>1. ~[p EXCEPT !.live = FALSE].live
    BY <1>1 DEF PostCall
  <2>. QED
    BY <2>1 DEF ReportEnds, Abandoned
<1>6. main[a] = "reporting" /\ current[a] = e /\ e \notin AtWork(a) /\ todo[a] = {}
  BY <1>1, <1>2 DEF CapacityInv, ReportsCurrent, HandsAreEmpty, Inv, OneReportAtATime
<1>7. OneCallPerChild'
  BY <1>2, <1>5 DEF CapacityInv, OneCallPerChild, ByChild
<1>8. ReportsCurrent'
  <2>. SUFFICES ASSUME NEW x \in posts', Reporting(x)
                PROVE  x.exec = current'[x.agent]
    BY DEF ReportsCurrent, Reporting
  <2>1. x \in posts /\ x /= p
    BY <1>5 DEF Reporting
  <2>2. x.agent /= a
    BY <1>2, <2>1 DEF Inv, OneReportAtATime
  <2>. QED
    BY <1>2, <1>3, <2>1, <2>2 DEF CapacityInv, ReportsCurrent
<1>9. HandsAreEmpty'
  BY <1>1, <1>2, <1>3, <1>4, <1>6 DEF CapacityInv, HandsAreEmpty
<1>10. ChildrenHaveFiles'
  <2>. SUFFICES ASSUME NEW b \in Agents, NEW d \in AtWork(b)
                PROVE  statusfile'[b][d] \/ current'[b] = d
    BY <1>4 DEF ChildrenHaveFiles
  <2>1. d \in Executions /\ (statusfile[b][d] \/ current[b] = d)
    BY <1>4 DEF CapacityInv, ChildrenHaveFiles
  <2>2. CASE b = a
    BY <1>2, <1>3, <1>6, <2>1, <2>2
  <2>3. CASE b /= a
    BY <1>2, <1>3, <2>1, <2>3
  <2>. QED
    BY <2>2, <2>3
<1>11. SlotsAreFree'
  BY <1>2, <1>4 DEF CapacityInv, SlotsAreFree, Inv, TypeOK, ReceiverTypeOK, FetchCall
<1>. QED
  BY <1>7, <1>8, <1>9, <1>10, <1>11 DEF CapacityInv

LEMMA CapacityKept ==
    ASSUME LimitsApply, Inv, Inv', CapacityInv, [Next]_vars
    PROVE  CapacityInv'
<1>1. CASE UNCHANGED vars
  BY <1>1, CapacityUnmoved DEF vars
<1>2. ASSUME NEW e \in Executions,
             User(e) \/ Clock(e) \/ ParentStep(e) \/ ChildStep(e) \/ DelayedStep(e)
      PROVE  CapacityInv'
  BY <1>2, CapacityUnmoved DEF User, Clock, ParentStep, ChildStep, DelayedStep
<1>3. CASE BackyardFault
  BY <1>3, CapacityUnmoved DEF BackyardFault
<1>4. ASSUME NEW a \in Agents, NEW rows \in SUBSET Executions, FetchServed(a, rows)
      PROVE  CapacityInv'
  BY <1>4, CapacityFetchServed DEF FetchServed, FetchRead, FetchCommit, FetchDropped
<1>5. ASSUME NEW a \in Agents, NEW e \in Executions, NEW s \in Posted,
             NEW pc \in {"sent", "read"}, PostServed(a, e, s, pc)
      PROVE  CapacityInv'
  BY <1>5, CapacityPostServed DEF PostServed, PostRead, PostCommit, PostDropped
<1>6. CASE HandlerFault
  BY <1>6, CapacityFetchServed, CapacityPostServed
     DEF HandlerFault, FetchRollback, PostLost
<1>7. ASSUME NEW a \in Agents, MainStep(a) PROVE CapacityInv'
  <2>1. CASE CreateStatusFile(a)
    <3>1. current[a] \in Executions
      BY <2>1 DEF CreateStatusFile, Inv, TypeOK, AgentTypeOK
    <3>. QED
      BY <2>1, <3>1, CapacityMain
  <2>2. CASE Fetch(a)
    BY <2>2, CapacityFetch
  <2>3. CASE \E f \in fetches : FetchAnswer(f)
    BY <2>3, CapacityFetchCall
  <2>4. CASE \E e \in Executions : Spawn(a, e) \/ Report(a, e)
    BY <2>4, CapacityMain, CapacityReport
  <2>5. CASE \E p \in posts : ReportEnds(p)
    BY <2>5, CapacityReportEnds
  <2>. QED
    BY <1>7, <2>1, <2>2, <2>3, <2>4, <2>5 DEF MainStep
<1>8. ASSUME NEW a \in Agents, NEW e \in Executions, BeatStep(a, e) PROVE CapacityInv'
  BY <1>8, CapacityUnmoved DEF BeatStep, Heartbeat
<1>9. ASSUME NEW a \in Agents, NEW e \in Executions, WorkerStep(a, e) \/ RunnerStep(a, e)
      PROVE  CapacityInv'
  BY <1>9, CapacityWorker, CapacityPostEnds, CapacityNotify DEF WorkerStep, RunnerStep
<1>10. CASE NetFault
  <2>1. ASSUME NEW p \in posts, PostRetry(p) PROVE CapacityInv'
    BY <2>1, CapacityPostServed DEF PostRetry
  <2>. QED
    BY <1>10, <2>1, CapacityFetchCall, CapacityPostEnds, CapacityMain, CapacityWorker
       DEF NetFault
<1>11. CASE AgentFault
  BY <1>11, CapacityWorkerCrash, CapacityWorker, CapacityNotify DEF AgentFault, LimitsApply
<1>. QED
  BY <1>1, <1>2, <1>3, <1>4, <1>5, <1>6, <1>7, <1>8, <1>9, <1>10, <1>11 DEF Next

LEMMA CapacityStarts == Init => CapacityInv
<1>. SUFFICES ASSUME Init PROVE CapacityInv
  OBVIOUS
<1>1. posts = {} /\ fetches = {}
  BY DEF Init, ReceiverInit
<1>2. \A a \in Agents : /\ main[a] = "idle" /\ todo[a] = {} /\ current[a] = NoWork
                        /\ AtWork(a) = {}
  BY DEF Init, AgentInit, AtWork
<1>3. OneCallPerChild /\ ReportsCurrent /\ HandsAreEmpty /\ ChildrenHaveFiles
  BY <1>1, <1>2 DEF OneCallPerChild, ReportsCurrent, HandsAreEmpty, ChildrenHaveFiles
<1>4. SlotsAreFree
  <2>. SUFFICES ASSUME NEW d \in Drivers, NEW a \in Agents
                PROVE  Cardinality(Of(AtWork(a), d)) + Cardinality(Of(todo[a], d))
                         <= ExecutionLimit
    BY <1>1 DEF SlotsAreFree
  <2>1. Cardinality({}) = 0 /\ Of({}, d) = {}
    BY FS_EmptySet DEF Of
  <2>2. Cardinality(Of(AtWork(a), d)) = 0 /\ Cardinality(Of(todo[a], d)) = 0
    BY <1>2, <2>1
  <2>. QED
    BY <2>2, ReceiverAssumption
<1>. QED
  BY <1>3, <1>4 DEF CapacityInv

\* The free slots a main loop counts before it asks for work are there when the
\* answer comes: only it forks children, it knows every child by its status
\* file, and a late answer reaches nobody.
THEOREM CapacityHolds == LimitsApply => (Spec => []CapacityInv)
<1>. SUFFICES ASSUME LimitsApply PROVE Spec => []CapacityInv
  OBVIOUS
<1>1. Inv /\ CapacityInv /\ [Next]_vars /\ Inv' => CapacityInv'
  BY CapacityKept
<1>. QED
  BY <1>1, CapacityStarts, InvHolds, PTL DEF Spec

\* No agent ever has more children of one driver at work than its EXECUTION_LIMIT,
\* even if calls for work are lost, repeated or answered late and if children and
\* runners die, as long as no main loop is killed and the platform sets a limit
\* (LimitsApply).
THEOREM DriverLimitIsKept == LimitsApply => (Spec => []DriverLimitKept)
<1>. SUFFICES ASSUME LimitsApply PROVE Spec => []DriverLimitKept
  OBVIOUS
<1>1. Inv /\ CapacityInv => DriverLimitKept
  <2>. SUFFICES ASSUME Inv, CapacityInv, NEW a \in Agents, NEW d \in Drivers
                PROVE  Cardinality(Of(AtWork(a), d)) <= ExecutionLimit
    BY DEF DriverLimitKept
  <2>1. AtWork(a) \in SUBSET Executions /\ todo[a] \in SUBSET Executions
    BY DEF Inv, TypeOK, AgentTypeOK, AtWork
  <2>2. /\ Cardinality(Of(AtWork(a), d)) \in Nat
        /\ Cardinality(Of(todo[a], d)) \in Nat
    BY <2>1, OfDriver
  <2>. QED
    BY <2>2, ReceiverAssumption DEF CapacityInv, SlotsAreFree
<1>2. Spec => []CapacityInv
  BY CapacityHolds
<1>. QED
  BY <1>1, <1>2, InvHolds, PTL

\* Where all executions are of one driver, that is its limit of children in all.
THEOREM LimitIsKept ==
    LimitsApply /\ (\A d, e \in Executions : Driver[d] = Driver[e])
      => (Spec => []ExecutionLimitKept)
<1>. SUFFICES ASSUME LimitsApply, \A d, e \in Executions : Driver[d] = Driver[e]
              PROVE  Spec => []ExecutionLimitKept
  OBVIOUS
<1>1. DriverLimitKept => ExecutionLimitKept
  <2>. SUFFICES ASSUME DriverLimitKept, NEW a \in Agents
                PROVE  Cardinality(AtWork(a)) <= ExecutionLimit
    BY DEF ExecutionLimitKept, AtWork
  <2>1. CASE AtWork(a) = {}
    BY <2>1, FS_EmptySet, ReceiverAssumption
  <2>2. ASSUME NEW e \in AtWork(a) PROVE Cardinality(AtWork(a)) <= ExecutionLimit
    <3>1. e \in Executions /\ AtWork(a) \subseteq Executions
      BY DEF AtWork
    <3>2. Of(AtWork(a), Driver[e]) = AtWork(a) /\ Driver[e] \in Drivers
      BY <3>1 DEF Of, Drivers
    <3>. QED
      BY <3>2 DEF DriverLimitKept
  <2>. QED
    BY <2>1, <2>2
<1>2. Spec => []DriverLimitKept
  BY DriverLimitIsKept
<1>. QED
  BY <1>1, <1>2, PTL
=============================================================================
