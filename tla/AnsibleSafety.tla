---------------------------- MODULE AnsibleSafety ----------------------------
(* Proofs about AnsibleExecution: its type invariant, with what the operators *)
(* on calls (Answered, Abandoned, Orphaned) leave of a set of calls; Inv is   *)
(* inductive, and what follows from it for every number of executions,        *)
(* agents, tries and restarts.                                                *)
EXTENDS AnsibleInvariant, FiniteSetTheorems, TLAPS

-----------------------------------------------------------------------------
(* Calls. *)

\* A call is well typed when it is made.
LEMMA NewPostType ==
    ASSUME NEW a \in Agents, NEW e \in Executions,
           NEW sender \in {"child", "main"}, NEW s \in Posted, NEW n \in 1..ApiTries
    PROVE  [NewPost(a, e, sender, s) EXCEPT !.try = n] \in PostCall
  BY DEF NewPost, PostCall

LEMMA FirstPostType ==
    ASSUME NEW a \in Agents, NEW e \in Executions,
           NEW sender \in {"child", "main"}, NEW s \in Posted
    PROVE  NewPost(a, e, sender, s) \in PostCall
  BY ReceiverAssumption DEF NewPost, PostCall

LEMMA NewFetchType ==
    ASSUME NEW a \in Agents, NEW m \in 1..ExecutionLimit, NEW n \in 1..ApiTries
    PROVE  [NewFetch(a, m) EXCEPT !.try = n] \in FetchCall
  BY DEF NewFetch, FetchCall

LEMMA FirstFetchType ==
    ASSUME NEW a \in Agents, NEW m \in 1..ExecutionLimit
    PROVE  NewFetch(a, m) \in FetchCall
  BY ReceiverAssumption DEF NewFetch, FetchCall

\* Answering, abandoning and orphaning calls leaves well-typed calls.
LEMMA AnsweredPosts ==
    ASSUME posts \subseteq PostCall, NEW p, NEW q \in PostCall
    PROVE  Answered(posts, p, q) \subseteq PostCall
  BY DEF Answered, PostCall

LEMMA AnsweredFetches ==
    ASSUME fetches \subseteq FetchCall, NEW f, NEW g \in FetchCall
    PROVE  Answered(fetches, f, g) \subseteq FetchCall
  BY DEF Answered, FetchCall

LEMMA AbandonedPosts ==
    ASSUME posts \subseteq PostCall, NEW p \in posts
    PROVE  Abandoned(posts, p) \subseteq PostCall
  BY DEF Abandoned, PostCall

LEMMA AbandonedFetches ==
    ASSUME fetches \subseteq FetchCall, NEW f \in fetches
    PROVE  Abandoned(fetches, f) \subseteq FetchCall
  BY DEF Abandoned, FetchCall

LEMMA OrphanedPosts ==
    ASSUME posts \subseteq PostCall, NEW mine \in SUBSET posts
    PROVE  Orphaned(posts, mine) \subseteq PostCall
<1>1. \A p \in PostCall : [p EXCEPT !.live = FALSE] \in PostCall
  BY DEF PostCall
<1>. QED
  BY <1>1 DEF Orphaned

LEMMA OrphanedFetches ==
    ASSUME fetches \subseteq FetchCall, NEW mine \in SUBSET fetches
    PROVE  Orphaned(fetches, mine) \subseteq FetchCall
  BY DEF Orphaned, FetchCall

-----------------------------------------------------------------------------
(* Steps of the user, the clock and the backyard. *)

\* What such a step may touch keeps its type, and it touches nothing else.
LEMMA RowStepTypes ==
    ASSUME TypeOK, NEW e \in Executions, User(e) \/ Clock(e)
    PROVE  TypeOK'
<1>1. RowTypeOK'
  BY DEF TypeOK, RowTypeOK, User, Clock, Scram, TimePasses
<1>. QED
  BY <1>1 DEF TypeOK, BackyardTypeOK, ReceiverTypeOK, AgentTypeOK, PerJob, User, Clock,
              backyardVars, netVars, agentVars

LEMMA ParentTypes ==
    ASSUME TypeOK, NEW e \in Executions, Parent(e)
    PROVE  RowTypeOK' /\ BackyardTypeOK'
<1>1. CASE Launch(e)
  BY <1>1 DEF TypeOK, RowTypeOK, BackyardTypeOK, Launch, WriteStatus, ChildBecomes,
              Status, Running, ChildState
<1>2. CASE Restart(e)
  BY <1>2, RestartMaxAssumption
     DEF TypeOK, RowTypeOK, BackyardTypeOK, Restart, ChildMissing, ChildBecomes,
         ChildState, rowVars
<1>3. CASE DecideToGiveUp(e)
  BY <1>3 DEF TypeOK, RowTypeOK, BackyardTypeOK, DecideToGiveUp, ChildMissing, rowVars
<1>4. CASE GiveUp(e)
  BY <1>4 DEF TypeOK, RowTypeOK, BackyardTypeOK, GiveUp, WriteStatus, Status, Terminal
<1>. QED
  BY <1>1, <1>2, <1>3, <1>4 DEF Parent

LEMMA ChildTypes ==
    ASSUME TypeOK, NEW e \in Executions, Child(e) \/ MonitorDelayed(e)
    PROVE  RowTypeOK' /\ BackyardTypeOK'
<1>1. CASE CheckParameters(e) \/ Prepare(e) \/ Expire(e) \/ Delay(e)
  <2>1. PICK s \in Status, c \in ChildState : WriteStatus(e, s) /\ ChildBecomes(e, c)
    BY <1>1 DEF CheckParameters, Prepare, Expire, Delay, Status, Running, Dispatched,
                Terminal, ChildState
  <2>2. RowTypeOK'
    BY <2>1 DEF TypeOK, RowTypeOK, WriteStatus
  <2>3. child' \in [Executions -> ChildState]
    BY <2>1 DEF TypeOK, BackyardTypeOK, ChildBecomes
  <2>. QED
    BY <1>1, <2>2, <2>3 DEF TypeOK, BackyardTypeOK, CheckParameters, Prepare, Expire, Delay
<1>2. CASE MonitorExpired(e) \/ MonitorEnded(e) \/ MonitorDelayed(e)
  BY <1>2 DEF TypeOK, RowTypeOK, BackyardTypeOK, MonitorExpired, MonitorEnded,
              MonitorDelayed, ChildBecomes, ChildState, rowVars
<1>. QED
  BY <1>1, <1>2 DEF Child

LEMMA BackyardFaultTypes ==
    ASSUME TypeOK, BackyardFault
    PROVE  RowTypeOK' /\ BackyardTypeOK'
<1>1. CASE ParentDies
  BY <1>1 DEF TypeOK, RowTypeOK, BackyardTypeOK, ParentDies, rowVars
<1>2. ASSUME NEW e \in Executions, ChildDies(e) PROVE RowTypeOK' /\ BackyardTypeOK'
  BY <1>2 DEF TypeOK, RowTypeOK, BackyardTypeOK, ChildDies, ChildBecomes, ChildState, rowVars
<1>3. ASSUME NEW e \in Executions, ChildRaises(e) PROVE RowTypeOK' /\ BackyardTypeOK'
  BY <1>3 DEF TypeOK, RowTypeOK, BackyardTypeOK, ChildRaises, WriteStatus, ChildBecomes,
              ChildState, Status, Terminal
<1>. QED
  BY <1>1, <1>2, <1>3 DEF BackyardFault

-----------------------------------------------------------------------------
(* Steps of the receiver. *)

LEMMA FetchHandlerTypes ==
    ASSUME TypeOK, NEW f,
           FetchRead(f) \/ FetchCommit(f) \/ FetchRollback(f) \/ FetchDropped(f)
    PROVE  RowTypeOK' /\ ReceiverTypeOK'
<1>1. f \in FetchCall
  BY DEF TypeOK, ReceiverTypeOK, FetchRead, FetchCommit, FetchRollback, FetchDropped
<1>2. fetches \subseteq FetchCall /\ posts \subseteq PostCall
  BY DEF TypeOK, ReceiverTypeOK
<1>3. CASE FetchRead(f)
  <2>1. \A rows \in SUBSET Executions : [f EXCEPT !.pc = "read", !.rows = rows] \in FetchCall
    BY <1>1 DEF FetchCall
  <2>2. \A n : Selectable(n) \subseteq SUBSET Executions
    BY DEF Selectable
  <2>. QED
    BY <1>2, <1>3, <2>1, <2>2 DEF TypeOK, RowTypeOK, ReceiverTypeOK, FetchRead, rowVars
<1>4. CASE FetchCommit(f)
  <2>1. fetches' \subseteq FetchCall /\ posts' \subseteq PostCall
    BY <1>1, <1>2, <1>4, AnsweredFetches DEF FetchCommit
  <2>2. RowTypeOK'
    BY <1>4 DEF TypeOK, RowTypeOK, FetchCommit, Status, Running, Dispatched
  <2>. QED
    BY <2>1, <2>2 DEF ReceiverTypeOK
<1>5. CASE FetchRollback(f)
  <2>1. [f EXCEPT !.rows = {}] \in FetchCall
    BY <1>1 DEF FetchCall
  <2>. QED
    BY <1>2, <1>5, <2>1, AnsweredFetches
       DEF TypeOK, RowTypeOK, ReceiverTypeOK, FetchRollback, rowVars
<1>6. CASE FetchDropped(f)
  BY <1>2, <1>6 DEF TypeOK, RowTypeOK, ReceiverTypeOK, FetchDropped, rowVars
<1>. QED
  BY <1>3, <1>4, <1>5, <1>6

LEMMA PostHandlerTypes ==
    ASSUME TypeOK, NEW p,
           PostRead(p) \/ PostCommit(p) \/ PostLost(p) \/ PostDropped(p)
    PROVE  RowTypeOK' /\ ReceiverTypeOK'
<1>1. p \in posts /\ p \in PostCall
  BY DEF TypeOK, ReceiverTypeOK, PostRead, PostCommit, PostLost, PostDropped
<1>2. fetches \subseteq FetchCall /\ posts \subseteq PostCall
  BY DEF TypeOK, ReceiverTypeOK
<1>3. [p EXCEPT !.update = FALSE] \in PostCall
  BY <1>1 DEF PostCall
<1>4. CASE PostRead(p)
  <2>. DEFINE read == [p EXCEPT !.scram = abort[p.exec], !.update = Updates(status[p.exec], p.post)]
  <2>1. abort[p.exec] \in BOOLEAN /\ Updates(status[p.exec], p.post) \in BOOLEAN
    BY <1>1 DEF TypeOK, RowTypeOK, PostCall, Updates
  <2>2. read \in PostCall
    BY <1>1, <2>1 DEF PostCall
  <2>3. [read EXCEPT !.update = FALSE] \in PostCall /\ [read EXCEPT !.pc = "read"] \in PostCall
    BY <2>2 DEF PostCall
  <2>4. posts' \subseteq PostCall
    BY <1>2, <1>4, <2>3, AnsweredPosts DEF PostRead
  <2>. QED
    BY <1>2, <1>4, <2>4 DEF TypeOK, RowTypeOK, ReceiverTypeOK, PostRead, rowVars
<1>5. CASE PostCommit(p)
  <2>1. RowTypeOK'
    BY <1>1, <1>5 DEF TypeOK, RowTypeOK, PostCommit, PostWrite, WriteStatus, Touch, PostCall,
                      Posted, Status, Running, Dispatched, Terminal
  <2>. QED
    BY <1>2, <1>3, <1>5, <2>1, AnsweredPosts DEF ReceiverTypeOK, PostCommit, PostHandled
<1>6. CASE PostLost(p)
  BY <1>2, <1>3, <1>6, AnsweredPosts
     DEF TypeOK, RowTypeOK, ReceiverTypeOK, PostLost, PostHandled, rowVars
<1>7. CASE PostDropped(p)
  BY <1>2, <1>7 DEF TypeOK, RowTypeOK, ReceiverTypeOK, PostDropped, rowVars
<1>. QED
  BY <1>4, <1>5, <1>6, <1>7

-----------------------------------------------------------------------------
(* Steps of the agents. *)

LEMMA PerJobExcept ==
    ASSUME NEW S, NEW f \in PerJob(S), NEW a \in Agents, NEW e \in Executions, NEW v \in S
    PROVE  [f EXCEPT ![a][e] = v] \in PerJob(S)
  BY DEF PerJob

\* The size of a request is within what FetchCall allows.
LEMMA AllowedType ==
    ASSUME NEW a \in Agents, ExecutionLimit - Cardinality(Working(a)) > 0
    PROVE  LET allow == ExecutionLimit - Cardinality(Working(a))
           IN  (IF allow > MovementLimit THEN MovementLimit ELSE allow) \in 1..ExecutionLimit
<1>1. Working(a) \subseteq Executions
  BY DEF Working
<1>2. Cardinality(Working(a)) \in Nat
  BY <1>1, ExecutionsAssumption, FS_Subset, FS_CardinalityType
<1>. QED
  BY <1>2, ReceiverAssumption, AgentAssumption

LEMMA MainTypes ==
    ASSUME TypeOK, NEW a \in Agents, MainStep(a)
    PROVE  RowTypeOK' /\ ReceiverTypeOK' /\ AgentTypeOK'
<1>. USE DEF TypeOK, ReceiverTypeOK
<1>. fetches \subseteq FetchCall /\ posts \subseteq PostCall
  OBVIOUS
<1>1. CASE CreateStatusFile(a)
  <2>1. current[a] \in Executions
    BY <1>1 DEF AgentTypeOK, CreateStatusFile
  <2>2. statusfile' \in PerJob(BOOLEAN)
    BY <1>1, <2>1, PerJobExcept DEF AgentTypeOK, CreateStatusFile
  <2>. QED
    BY <1>1, <2>2 DEF RowTypeOK, AgentTypeOK, CreateStatusFile, rowVars, netVars
<1>2. CASE Fetch(a)
  <2>1. fetches' \subseteq FetchCall
    BY <1>2, AllowedType, FirstFetchType DEF Fetch
  <2>. QED
    BY <1>2, <2>1 DEF RowTypeOK, AgentTypeOK, Fetch, rowVars
<1>3. ASSUME NEW f \in fetches, f.agent = a, FetchAnswer(f)
      PROVE  RowTypeOK' /\ ReceiverTypeOK' /\ AgentTypeOK'
  <2>1. f.rows \in SUBSET Executions
    BY <1>3 DEF FetchCall
  <2>. QED
    BY <1>3, <2>1 DEF RowTypeOK, AgentTypeOK, FetchAnswer, rowVars
<1>4. ASSUME NEW e \in Executions, Spawn(a, e)
      PROVE  RowTypeOK' /\ ReceiverTypeOK' /\ AgentTypeOK'
  <2>1. worker' \in PerJob({"none", "start", "poll", "posting", "failed", "lastpost"})
    BY <1>4, PerJobExcept DEF AgentTypeOK, Spawn
  <2>. QED
    BY <1>4, <2>1 DEF RowTypeOK, AgentTypeOK, Spawn, rowVars, netVars
<1>5. ASSUME NEW e \in Executions, Report(a, e)
      PROVE  RowTypeOK' /\ ReceiverTypeOK' /\ AgentTypeOK'
  <2>1. posts' \subseteq PostCall
    BY <1>5, FirstPostType DEF Report, Posted
  <2>. QED
    BY <1>5, <2>1 DEF RowTypeOK, AgentTypeOK, Report, rowVars
<1>6. ASSUME NEW p \in posts, p.agent = a, ReportEnds(p)
      PROVE  RowTypeOK' /\ ReceiverTypeOK' /\ AgentTypeOK'
  <2>1. p.exec \in Executions
    BY <1>6 DEF PostCall
  <2>2. statusfile' \in PerJob(BOOLEAN)
    BY <1>6, <2>1, PerJobExcept DEF AgentTypeOK, ReportEnds
  <2>. QED
    BY <1>6, <2>2, AbandonedPosts DEF RowTypeOK, AgentTypeOK, ReportEnds, rowVars
<1>. QED
  BY <1>1, <1>2, <1>3, <1>4, <1>5, <1>6 DEF MainStep

\* A notification of a child, and the state the child is left in.
LEMMA NotifyTypes ==
    ASSUME TypeOK, NEW a \in Agents, NEW e \in Executions, NEW s \in Posted, Notify(a, e, s)
    PROVE  /\ RowTypeOK' /\ ReceiverTypeOK'
           /\ worker' \in PerJob({"none", "start", "poll", "posting", "failed", "lastpost"})
<1>1. worker' \in PerJob({"none", "start", "poll", "posting", "failed", "lastpost"})
  BY PerJobExcept DEF TypeOK, AgentTypeOK, Notify, WorkerBecomes
<1>. QED
  BY <1>1, FirstPostType DEF TypeOK, RowTypeOK, ReceiverTypeOK, Notify, rowVars

LEMMA WorkerTypes ==
    ASSUME TypeOK, NEW a \in Agents, NEW e \in Executions,
           WorkerStep(a, e) \/ BeatStep(a, e) \/ RunnerStep(a, e)
    PROVE  RowTypeOK' /\ ReceiverTypeOK' /\ AgentTypeOK'
<1>. DEFINE Workers == {"none", "start", "poll", "posting", "failed", "lastpost"}
            Runners == {"none", "running", "ok", "ng", "stopped", "lost"}
<1>1. CASE BeatStep(a, e)
  BY <1>1 DEF TypeOK, RowTypeOK, ReceiverTypeOK, AgentTypeOK, BeatStep, Heartbeat, Touch,
              netVars, agentVars
<1>2. CASE RunnerStep(a, e)
  <2>1. runner' \in PerJob(Runners)
    BY <1>2 DEF TypeOK, AgentTypeOK, PerJob, RunnerStep, RunnerEnds
  <2>. QED
    BY <1>2, <2>1 DEF TypeOK, RowTypeOK, ReceiverTypeOK, AgentTypeOK, RunnerStep, RunnerEnds,
                      rowVars, netVars
<1>3. CASE StartRunner(a, e)
  <2>1. runner' \in PerJob(Runners) /\ worker' \in PerJob(Workers)
    BY <1>3, PerJobExcept DEF TypeOK, AgentTypeOK, StartRunner, WorkerBecomes
  <2>. QED
    BY <1>3, <2>1 DEF TypeOK, RowTypeOK, ReceiverTypeOK, AgentTypeOK, StartRunner,
                      rowVars, netVars
<1>4. ASSUME NEW p \in posts, p.agent = a, p.exec = e, PostAnswer(p)
      PROVE  RowTypeOK' /\ ReceiverTypeOK' /\ AgentTypeOK'
  <2>1. p.scram \in BOOLEAN
    BY <1>4 DEF TypeOK, ReceiverTypeOK, PostCall
  <2>2. (forced[a][e] \/ p.scram) \in BOOLEAN
    BY <2>1 DEF TypeOK, AgentTypeOK, PerJob
  <2>3. forced' \in PerJob(BOOLEAN)
    BY <1>4, <2>2, PerJobExcept DEF TypeOK, AgentTypeOK, PostAnswer
  <2>4. worker' \in PerJob(Workers)
    <3>1. PICK s \in Workers : worker' = [worker EXCEPT ![a][e] = s]
      BY <1>4 DEF PostAnswer, WorkerBecomes, WorkerEnds
    <3>2. worker \in PerJob(Workers)
      BY DEF TypeOK, AgentTypeOK
    <3>3. [worker EXCEPT ![a][e] = s] \in PerJob(Workers)
      BY <3>2, PerJobExcept
    <3>. QED
      BY <3>1, <3>2, <3>3
  <2>5. statusfile' \in PerJob(BOOLEAN)
    <3>1. UNCHANGED statusfile \/ statusfile' = [statusfile EXCEPT ![a][e] = FALSE]
      BY <1>4 DEF PostAnswer, WorkerEnds
    <3>2. statusfile \in PerJob(BOOLEAN)
      BY DEF TypeOK, AgentTypeOK
    <3>3. [statusfile EXCEPT ![a][e] = FALSE] \in PerJob(BOOLEAN)
      BY <3>2, PerJobExcept
    <3>. QED
      BY <3>1, <3>2, <3>3
  <2>. QED
    BY <1>4, <2>3, <2>4, <2>5
       DEF TypeOK, RowTypeOK, ReceiverTypeOK, AgentTypeOK, PostAnswer, rowVars
<1>5. CASE Poll(a, e) \/ StopFails(a, e)
  <2>1. PICK s \in Posted : Notify(a, e, s) /\ UNCHANGED runner
    BY <1>5 DEF Poll, StopFails, RcStatus, Posted
  <2>2. Notify(a, e, s) /\ UNCHANGED runner
    BY <2>1
  <2>. QED
    BY <2>2, NotifyTypes DEF TypeOK, AgentTypeOK, Notify
<1>6. CASE StopRunner(a, e)
  <2>1. Notify(a, e, "SCRAM") /\ "SCRAM" \in Posted
    BY <1>6 DEF StopRunner, Posted
  <2>2. runner' \in PerJob(Runners)
    <3>1. PICK r \in Runners : runner' = [runner EXCEPT ![a][e] = r]
      BY <1>6 DEF StopRunner, TypeOK, AgentTypeOK, PerJob
    <3>2. runner \in PerJob(Runners)
      BY DEF TypeOK, AgentTypeOK
    <3>3. [runner EXCEPT ![a][e] = r] \in PerJob(Runners)
      BY <3>2, PerJobExcept
    <3>. QED
      BY <3>1, <3>2, <3>3
  <2>. QED
    BY <2>1, <2>2, NotifyTypes DEF TypeOK, AgentTypeOK, Notify
<1>7. CASE LastPost(a, e)
  <2>1. worker' \in PerJob(Workers)
    BY <1>7, PerJobExcept DEF TypeOK, AgentTypeOK, LastPost, WorkerBecomes
  <2>. QED
    BY <1>7, <2>1, FirstPostType
       DEF TypeOK, RowTypeOK, ReceiverTypeOK, AgentTypeOK, LastPost, Posted, rowVars
<1>. QED
  BY <1>1, <1>2, <1>3, <1>4, <1>5, <1>6, <1>7 DEF WorkerStep

LEMMA NetFaultTypes ==
    ASSUME TypeOK, NetFault
    PROVE  RowTypeOK' /\ ReceiverTypeOK' /\ AgentTypeOK'
<1>. DEFINE Workers == {"none", "start", "poll", "posting", "failed", "lastpost"}
<1>1. fetches \subseteq FetchCall /\ posts \subseteq PostCall
  BY DEF TypeOK, ReceiverTypeOK
<1>2. ASSUME NEW f \in fetches, FetchGiveUp(f)
      PROVE  RowTypeOK' /\ ReceiverTypeOK' /\ AgentTypeOK'
  BY <1>1, <1>2, AbandonedFetches
     DEF TypeOK, RowTypeOK, ReceiverTypeOK, AgentTypeOK, FetchGiveUp, rowVars
<1>3. ASSUME NEW f \in fetches, FetchRetry(f)
      PROVE  RowTypeOK' /\ ReceiverTypeOK' /\ AgentTypeOK'
  <2>1. f.agent \in Agents /\ f.limit \in 1..ExecutionLimit /\ f.try + 1 \in 1..ApiTries
    BY <1>1, <1>3, ReceiverAssumption DEF FetchRetry, FetchCall
  <2>. QED
    BY <1>1, <1>3, <2>1, AbandonedFetches, NewFetchType
       DEF TypeOK, RowTypeOK, ReceiverTypeOK, AgentTypeOK, FetchRetry, rowVars, agentVars
<1>4. ASSUME NEW p \in posts, PostGiveUp(p)
      PROVE  RowTypeOK' /\ ReceiverTypeOK' /\ AgentTypeOK'
  <2>1. p.agent \in Agents /\ p.exec \in Executions
    BY <1>1, <1>4 DEF PostCall
  <2>2. worker' \in PerJob(Workers)
    <3>1. PICK s \in Workers : worker' = [worker EXCEPT ![p.agent][p.exec] = s]
      BY <1>4 DEF PostGiveUp, WorkerBecomes, WorkerEnds
    <3>2. worker \in PerJob(Workers)
      BY DEF TypeOK, AgentTypeOK
    <3>3. [worker EXCEPT ![p.agent][p.exec] = s] \in PerJob(Workers)
      BY <2>1, <3>2, PerJobExcept
    <3>. QED
      BY <3>1, <3>2, <3>3
  <2>3. statusfile' \in PerJob(BOOLEAN)
    <3>1. UNCHANGED statusfile \/ statusfile' = [statusfile EXCEPT ![p.agent][p.exec] = FALSE]
      BY <1>4 DEF PostGiveUp, WorkerEnds
    <3>2. statusfile \in PerJob(BOOLEAN)
      BY DEF TypeOK, AgentTypeOK
    <3>3. [statusfile EXCEPT ![p.agent][p.exec] = FALSE] \in PerJob(BOOLEAN)
      BY <2>1, <3>2, PerJobExcept
    <3>. QED
      BY <3>1, <3>2, <3>3
  <2>. QED
    BY <1>1, <1>4, <2>2, <2>3, AbandonedPosts
       DEF TypeOK, RowTypeOK, ReceiverTypeOK, AgentTypeOK, PostGiveUp, rowVars
<1>5. ASSUME NEW p \in posts, PostRetry(p)
      PROVE  RowTypeOK' /\ ReceiverTypeOK' /\ AgentTypeOK'
  <2>1. /\ p.agent \in Agents /\ p.exec \in Executions /\ p.sender \in {"child", "main"}
        /\ p.post \in Posted /\ p.try + 1 \in 1..ApiTries
    BY <1>1, <1>5, ReceiverAssumption DEF PostRetry, PostCall
  <2>. QED
    BY <1>1, <1>5, <2>1, AbandonedPosts, NewPostType
       DEF TypeOK, RowTypeOK, ReceiverTypeOK, AgentTypeOK, PostRetry, rowVars, agentVars
<1>6. ASSUME NEW a \in Agents, NEW e \in Executions,
             ReportNotUploaded(a, e) \/ LastUploadFails(a, e)
      PROVE  RowTypeOK' /\ ReceiverTypeOK' /\ AgentTypeOK'
  <2>1. statusfile' \in PerJob(BOOLEAN)
    <3>1. statusfile' = [statusfile EXCEPT ![a][e] = FALSE]
      BY <1>6 DEF ReportNotUploaded, LastUploadFails, WorkerEnds
    <3>2. statusfile \in PerJob(BOOLEAN)
      BY DEF TypeOK, AgentTypeOK
    <3>3. [statusfile EXCEPT ![a][e] = FALSE] \in PerJob(BOOLEAN)
      BY <3>2, PerJobExcept
    <3>. QED
      BY <3>1, <3>2, <3>3
  <2>2. worker' \in PerJob(Workers)
    <3>1. UNCHANGED worker \/ worker' = [worker EXCEPT ![a][e] = "none"]
      BY <1>6 DEF ReportNotUploaded, LastUploadFails, WorkerEnds, WorkerBecomes
    <3>2. worker \in PerJob(Workers)
      BY DEF TypeOK, AgentTypeOK
    <3>3. [worker EXCEPT ![a][e] = "none"] \in PerJob(Workers)
      BY <3>2, PerJobExcept
    <3>. QED
      BY <3>1, <3>2, <3>3
  <2>. QED
    BY <1>6, <2>1, <2>2 DEF TypeOK, RowTypeOK, ReceiverTypeOK, AgentTypeOK, ReportNotUploaded,
                      LastUploadFails, rowVars, netVars
<1>. QED
  BY <1>2, <1>3, <1>4, <1>5, <1>6 DEF NetFault

LEMMA AgentFaultTypes ==
    ASSUME TypeOK, AgentFault
    PROVE  RowTypeOK' /\ ReceiverTypeOK' /\ AgentTypeOK'
<1>. DEFINE Workers == {"none", "start", "poll", "posting", "failed", "lastpost"}
            Runners == {"none", "running", "ok", "ng", "stopped", "lost"}
<1>1. fetches \subseteq FetchCall /\ posts \subseteq PostCall
  BY DEF TypeOK, ReceiverTypeOK
<1>2. ASSUME NEW a \in Agents, MainCrash(a)
      PROVE  RowTypeOK' /\ ReceiverTypeOK' /\ AgentTypeOK'
  <2>1. fetches' \subseteq FetchCall /\ posts' \subseteq PostCall
    BY <1>1, <1>2, OrphanedFetches, OrphanedPosts DEF MainCrash
  <2>. QED
    BY <1>2, <2>1 DEF TypeOK, RowTypeOK, ReceiverTypeOK, AgentTypeOK, MainCrash, rowVars
<1>3. ASSUME NEW a \in Agents, NEW e \in Executions, WorkerCrash(a, e)
      PROVE  RowTypeOK' /\ ReceiverTypeOK' /\ AgentTypeOK'
  <2>1. posts' \subseteq PostCall
    BY <1>1, <1>3, OrphanedPosts DEF WorkerCrash
  <2>2. worker' \in PerJob(Workers)
    BY <1>3, PerJobExcept DEF TypeOK, AgentTypeOK, WorkerCrash, WorkerBecomes
  <2>. QED
    BY <1>1, <1>3, <2>1, <2>2
       DEF TypeOK, RowTypeOK, ReceiverTypeOK, AgentTypeOK, WorkerCrash, rowVars
<1>4. ASSUME NEW a \in Agents, NEW e \in Executions,
             WorkerFails(a, e) \/ RunnerVanishes(a, e)
      PROVE  RowTypeOK' /\ ReceiverTypeOK' /\ AgentTypeOK'
  <2>1. worker' \in PerJob(Workers)
    <3>1. UNCHANGED worker \/ worker' = [worker EXCEPT ![a][e] = "failed"]
      BY <1>4 DEF WorkerFails, RunnerVanishes, WorkerBecomes
    <3>2. worker \in PerJob(Workers)
      BY DEF TypeOK, AgentTypeOK
    <3>3. [worker EXCEPT ![a][e] = "failed"] \in PerJob(Workers)
      BY <3>2, PerJobExcept
    <3>. QED
      BY <3>1, <3>2, <3>3
  <2>2. runner' \in PerJob(Runners)
    <3>1. UNCHANGED runner \/ runner' = [runner EXCEPT ![a][e] = "lost"]
      BY <1>4 DEF WorkerFails, RunnerVanishes
    <3>2. runner \in PerJob(Runners)
      BY DEF TypeOK, AgentTypeOK
    <3>3. [runner EXCEPT ![a][e] = "lost"] \in PerJob(Runners)
      BY <3>2, PerJobExcept
    <3>. QED
      BY <3>1, <3>2, <3>3
  <2>. QED
    BY <1>4, <2>1, <2>2 DEF TypeOK, RowTypeOK, ReceiverTypeOK, AgentTypeOK, WorkerFails,
                      RunnerVanishes, rowVars, netVars
<1>5. ASSUME NEW a \in Agents, NEW e \in Executions, PollBroken(a, e)
      PROVE  RowTypeOK' /\ ReceiverTypeOK' /\ AgentTypeOK'
  <2>1. PICK s \in Posted : Notify(a, e, s) /\ UNCHANGED runner
    BY <1>5 DEF PollBroken, RcStatus, Posted
  <2>. QED
    BY <2>1, NotifyTypes DEF TypeOK, AgentTypeOK, Notify
<1>. QED
  BY <1>2, <1>3, <1>4, <1>5 DEF AgentFault

-----------------------------------------------------------------------------
LEMMA InitTypes == Init => TypeOK
  BY RestartMaxAssumption
     DEF Init, RowInit, BackyardInit, ReceiverInit, AgentInit, TypeOK, RowTypeOK,
         BackyardTypeOK, ReceiverTypeOK, AgentTypeOK, PerJob, Status, ChildState

LEMMA NextTypes ==
    ASSUME TypeOK, [Next]_vars
    PROVE  TypeOK'
<1>1. CASE UNCHANGED vars
  BY <1>1 DEF vars, rowVars, backyardVars, netVars, agentVars, TypeOK, RowTypeOK,
              BackyardTypeOK, ReceiverTypeOK, AgentTypeOK
<1>2. ASSUME NEW e \in Executions, User(e) \/ Clock(e) PROVE TypeOK'
  BY <1>2, RowStepTypes
<1>3. ASSUME NEW e \in Executions, ParentStep(e) \/ ChildStep(e) \/ DelayedStep(e)
      PROVE  TypeOK'
  BY <1>3, ParentTypes, ChildTypes
     DEF ParentStep, ChildStep, DelayedStep, TypeOK, ReceiverTypeOK, AgentTypeOK,
         netVars, agentVars
<1>4. CASE BackyardFault
  BY <1>4, BackyardFaultTypes
     DEF BackyardFault, TypeOK, ReceiverTypeOK, AgentTypeOK, netVars, agentVars
<1>5. ASSUME NEW a \in Agents, NEW rows \in SUBSET Executions, FetchServed(a, rows)
      PROVE  TypeOK'
  BY <1>5, FetchHandlerTypes
     DEF FetchServed, TypeOK, BackyardTypeOK, AgentTypeOK, backyardVars, agentVars
<1>6. ASSUME NEW a \in Agents, NEW e \in Executions, NEW s \in Posted,
             NEW pc \in {"sent", "read"}, PostServed(a, e, s, pc)
      PROVE  TypeOK'
  BY <1>6, PostHandlerTypes
     DEF PostServed, TypeOK, BackyardTypeOK, AgentTypeOK, backyardVars, agentVars
<1>7. CASE HandlerFault
  BY <1>7, FetchHandlerTypes, PostHandlerTypes
     DEF HandlerFault, TypeOK, BackyardTypeOK, AgentTypeOK, backyardVars, agentVars
<1>8. ASSUME NEW a \in Agents, MainStep(a) PROVE TypeOK'
  BY <1>8, MainTypes DEF MainStep, TypeOK, BackyardTypeOK, backyardVars
<1>9. ASSUME NEW a \in Agents, NEW e \in Executions,
             BeatStep(a, e) \/ WorkerStep(a, e) \/ RunnerStep(a, e)
      PROVE  TypeOK'
  BY <1>9, WorkerTypes
     DEF BeatStep, WorkerStep, RunnerStep, TypeOK, BackyardTypeOK, backyardVars
<1>10. CASE NetFault \/ AgentFault
  BY <1>10, NetFaultTypes, AgentFaultTypes
     DEF NetFault, AgentFault, TypeOK, BackyardTypeOK, backyardVars
<1>. QED
  BY <1>1, <1>2, <1>3, <1>4, <1>5, <1>6, <1>7, <1>8, <1>9, <1>10 DEF Next

\* Whatever the components do, alone or interleaved, rows, processes, files and
\* calls keep their types: a status is one the code knows, a restart count never
\* passes its limit, an agent never asks for more than its limit.
THEOREM TypeCorrect == Spec => []TypeOK
<1>1. TypeOK /\ [Next]_vars => TypeOK'
  BY NextTypes
<1>. QED
  BY <1>1, InitTypes, PTL DEF Spec

-----------------------------------------------------------------------------
(* Steps that leave calls and agents alone: the user's, the clock's and the  *)
(* backyard's.                                                               *)

\* How such a step may change the rows.
RowsMove ==
    /\ \A e \in Executions :
         /\ status'[e] \in Early => status[e] \in Early
         /\ status'[e] \in {"NOT_YET", "PREPARE"} => status[e] \in {"NOT_YET", "PREPARE"}
         /\ status'[e] = "COMPLETE" => status[e] = "COMPLETE" \/ e \in CheckOnly
         /\ status'[e] = "SCRAM" => status[e] = "SCRAM"
         /\ abort[e] => abort'[e]
    /\ PreparesAlone'

LEMMA RowsMoveKeeps ==
    ASSUME Inv, TypeOK', RowsMove, UNCHANGED <<netVars, agentVars>>
    PROVE  Inv'
<1>. USE DEF Inv, netVars, agentVars, Fresh, Untouched, Concerns
<1>1. SelectedIsPrepared'
  BY DEF SelectedIsPrepared, RowsMove, TypeOK, ReceiverTypeOK, FetchCall
<1>2. EarlyIsFresh'
  BY DEF EarlyIsFresh, RowsMove
<1>3. OneFetchAtATime' /\ OneReportAtATime'
  BY DEF OneFetchAtATime, OneReportAtATime, Reporting
<1>4. FetchedIsFresh' /\ TodoIsUntouched' /\ StartIsClean'
  BY DEF FetchedIsFresh, TodoIsUntouched, StartIsClean
<1>5. PostsAreTrue'
  BY DEF PostsAreTrue, RowsMove, TypeOK, ReceiverTypeOK, PostCall
<1>6. ForcedByAbort'
  BY DEF ForcedByAbort, RowsMove
<1>7. NoFalseCompletion' /\ ScramIsGenuine'
  BY DEF NoFalseCompletion, ScramIsGenuine, RowsMove
<1>. QED
  BY <1>1, <1>2, <1>3, <1>4, <1>5, <1>6, <1>7 DEF RowsMove

LEMMA BackyardMoves ==
    ASSUME Inv, NEW e \in Executions,
           User(e) \/ Clock(e) \/ ParentStep(e) \/ ChildStep(e) \/ DelayedStep(e)
             \/ ChildDies(e) \/ ChildRaises(e)
    PROVE  RowsMove
<1>. USE DEF Inv, TypeOK, RowTypeOK, BackyardTypeOK, RowsMove, PreparesAlone, Early
<1>1. CASE User(e) \/ Clock(e)
  BY <1>1 DEF User, Clock, Scram, TimePasses, backyardVars
<1>2. CASE Launch(e)
  BY <1>2, NoExecutionAssumption DEF Launch, WriteStatus, ChildBecomes
<1>3. CASE Restart(e) \/ DecideToGiveUp(e)
  BY <1>3 DEF Restart, DecideToGiveUp, ChildMissing, ChildBecomes, rowVars
<1>4. CASE GiveUp(e)
  BY <1>4, NoExecutionAssumption DEF GiveUp, WriteStatus
<1>5. CASE CheckParameters(e)
  BY <1>5 DEF CheckParameters, WriteStatus, ChildBecomes
<1>6. CASE Prepare(e)
  BY <1>6 DEF Prepare, WriteStatus, ChildBecomes
<1>7. CASE MonitorExpired(e) \/ MonitorEnded(e) \/ MonitorDelayed(e) \/ ChildDies(e)
  BY <1>7 DEF MonitorExpired, MonitorEnded, MonitorDelayed, ChildDies, ChildBecomes, rowVars
<1>8. CASE Expire(e) \/ Delay(e) \/ ChildRaises(e)
  BY <1>8 DEF Expire, Delay, ChildRaises, WriteStatus, ChildBecomes
<1>. QED
  BY <1>1, <1>2, <1>3, <1>4, <1>5, <1>6, <1>7, <1>8
     DEF ParentStep, Parent, ChildStep, Child, DelayedStep

-----------------------------------------------------------------------------
(* Steps of the receiver's handlers. *)

LEMMA FetchReadKeeps ==
    ASSUME Inv, TypeOK', NEW f, FetchRead(f), UNCHANGED <<backyardVars, agentVars>>
    PROVE  Inv'
<1>. USE DEF Inv, FetchRead, rowVars, backyardVars, agentVars, Fresh, Untouched, Concerns
<1>1. PICK rows \in Selectable(GetExecutionLimit(f.limit)) :
        fetches' = (fetches \ {f}) \cup {[f EXCEPT !.pc = "read", !.rows = rows]}
  OBVIOUS
<1>2. \A e \in rows : e \in Executions /\ status[e] = "PREPARE_COMPLETE"
  BY <1>1 DEF Selectable, Offerable
<1>3. f \in FetchCall
  BY DEF TypeOK, ReceiverTypeOK
<1>. DEFINE g == [f EXCEPT !.pc = "read", !.rows = rows]
<1>4. g.rows = rows /\ g.pc = "read" /\ g.agent = f.agent /\ g.live = f.live
  BY <1>3 DEF FetchCall
<1>5. PreparesAlone' /\ EarlyIsFresh' /\ TodoIsUntouched' /\ StartIsClean'
  BY DEF PreparesAlone, EarlyIsFresh, TodoIsUntouched, StartIsClean
<1>6. PostsAreTrue' /\ ForcedByAbort' /\ NoFalseCompletion' /\ ScramIsGenuine'
  BY DEF PostsAreTrue, ForcedByAbort, NoFalseCompletion, ScramIsGenuine
<1>7. \A h \in fetches' : (h \in fetches /\ h /= f) \/ h = g
  BY <1>1
<1>8. SelectedIsPrepared'
  BY <1>2, <1>4, <1>7 DEF SelectedIsPrepared
<1>9. OneFetchAtATime'
  <2>1. \A h \in fetches' : h.live => main'[h.agent] = "fetching"
    BY <1>4, <1>7 DEF OneFetchAtATime
  <2>2. \A h \in fetches' : h.live =>
           \/ h = g /\ f.live
           \/ h \in fetches /\ h /= f
    BY <1>4, <1>7
  <2>3. \A h, k \in fetches' : h.live /\ k.live /\ h.agent = k.agent => h = k
    BY <1>4, <2>2 DEF OneFetchAtATime
  <2>. QED
    BY <2>1, <2>3 DEF OneFetchAtATime
<1>10. OneReportAtATime'
  BY DEF OneReportAtATime, Reporting
<1>11. FetchedIsFresh'
  <2>1. f.agent \in Agents
    BY <1>3 DEF FetchCall
  <2>2. \A e \in rows : Fresh(f.agent, e)
    BY <1>2, <2>1 DEF EarlyIsFresh, Early
  <2>3. SUFFICES ASSUME NEW h \in fetches', h.live, NEW e \in h.rows
                 PROVE  Fresh(h.agent, e)'
    BY DEF FetchedIsFresh
  <2>4. CASE h \in fetches
    BY <2>3, <2>4 DEF FetchedIsFresh
  <2>5. CASE h = g
    BY <1>4, <2>2, <2>3, <2>5
  <2>. QED
    BY <1>7, <2>4, <2>5
<1>. QED
  BY <1>5, <1>6, <1>8, <1>9, <1>10, <1>11

\* The answer of a selection, committed or rolled back.
LEMMA FetchAnsweredKeeps ==
    ASSUME Inv, TypeOK', NEW f, FetchCommit(f) \/ FetchRollback(f) \/ FetchDropped(f),
           UNCHANGED <<backyardVars, agentVars>>
    PROVE  Inv'
<1>. USE DEF Inv, rowVars, backyardVars, agentVars, Fresh, Untouched, Concerns
<1>1. f \in fetches /\ f \in FetchCall /\ f.pc /= "done" /\ UNCHANGED <<posts, abort>>
  BY DEF FetchCommit, FetchRollback, FetchDropped, TypeOK, ReceiverTypeOK
<1>2. \A e \in Executions :
        \/ UNCHANGED status[e]
        \/ FetchCommit(f) /\ e \in f.rows /\ status'[e] = "PROCESSING_WAIT"
  BY DEF FetchCommit, FetchRollback, FetchDropped, TypeOK, RowTypeOK
<1>3. \A g \in fetches' :
        \/ g \in fetches /\ g /= f
        \/ /\ f.live /\ g.live /\ g.agent = f.agent /\ g.pc = "done"
           /\ \/ g.rows = {}
              \/ g.rows = f.rows /\ FetchCommit(f)
  <2>1. CASE FetchCommit(f)
    BY <1>1, <2>1 DEF FetchCommit, Answered, FetchCall
  <2>2. CASE FetchRollback(f)
    <3>. DEFINE g == [f EXCEPT !.rows = {}]
    <3>1. g.rows = {} /\ g.live = f.live /\ g.agent = f.agent /\ g \in FetchCall
      BY <1>1 DEF FetchCall
    <3>2. fetches' = Answered(fetches, f, g)
      BY <2>2 DEF FetchRollback
    <3>. HIDE DEF g
    <3>3. \A h \in fetches' :
            \/ h \in fetches /\ h /= f
            \/ g.live /\ h = [g EXCEPT !.pc = "done"]
      BY <3>2 DEF Answered
    <3>4. \A h : h = [g EXCEPT !.pc = "done"] =>
                   h.rows = {} /\ h.live = f.live /\ h.agent = f.agent /\ h.pc = "done"
      BY <3>1 DEF FetchCall
    <3>. QED
      BY <3>1, <3>3, <3>4
  <2>3. CASE FetchDropped(f)
    BY <1>1, <2>3 DEF FetchDropped
  <2>. QED
    BY <2>1, <2>2, <2>3
<1>4. \A g, h \in fetches' : g \notin fetches /\ h \notin fetches => g = h
  BY <1>1 DEF FetchCommit, FetchRollback, FetchDropped, Answered
<1>5. PreparesAlone'
  <2>1. \A e \in f.rows : status[e] /= "PREPARE"
    BY <1>1 DEF SelectedIsPrepared
  <2>. QED
    BY <1>2, <2>1 DEF PreparesAlone
<1>6. EarlyIsFresh' /\ TodoIsUntouched' /\ StartIsClean' /\ PostsAreTrue' /\ ForcedByAbort'
  BY <1>1, <1>2 DEF EarlyIsFresh, TodoIsUntouched, StartIsClean, PostsAreTrue, ForcedByAbort,
                    Early
<1>7. NoFalseCompletion' /\ ScramIsGenuine'
  BY <1>1, <1>2 DEF NoFalseCompletion, ScramIsGenuine
<1>8. SelectedIsPrepared'
  <2>1. \A g \in fetches' : g.rows \subseteq Executions
    BY DEF TypeOK, ReceiverTypeOK, FetchCall
  <2>2. \A e \in f.rows : FetchCommit(f) => status'[e] = "PROCESSING_WAIT"
    BY <1>1 DEF FetchCommit, FetchCall
  <2>. QED
    BY <1>1, <1>2, <1>3, <2>1, <2>2 DEF SelectedIsPrepared, Early
<1>9. OneFetchAtATime'
  <2>1. \A g \in fetches' : g.live => main'[g.agent] = "fetching"
    BY <1>1, <1>3 DEF OneFetchAtATime
  <2>2. ASSUME NEW g \in fetches', NEW h \in fetches', g.live, h.live, g.agent = h.agent
        PROVE  g = h
    <3>1. CASE g \in fetches /\ h \in fetches
      BY <2>2, <3>1 DEF OneFetchAtATime
    <3>2. CASE g \notin fetches /\ h \notin fetches
      BY <1>4, <3>2
    <3>3. CASE g \in fetches /\ h \notin fetches
      BY <1>1, <1>3, <2>2, <3>3 DEF OneFetchAtATime
    <3>4. CASE g \notin fetches /\ h \in fetches
      BY <1>1, <1>3, <2>2, <3>4 DEF OneFetchAtATime
    <3>. QED
      BY <3>1, <3>2, <3>3, <3>4
  <2>. QED
    BY <2>1, <2>2 DEF OneFetchAtATime
<1>10. OneReportAtATime'
  BY <1>1 DEF OneReportAtATime, Reporting
<1>11. FetchedIsFresh'
  BY <1>1, <1>3 DEF FetchedIsFresh
<1>. QED
  BY <1>5, <1>6, <1>7, <1>8, <1>9, <1>10, <1>11

\* What is left of a notification that was handled: n says what p said, and
\* what it answers is true of the row.
Leaves(p, n) ==
    /\ n.agent = p.agent /\ n.exec = p.exec /\ n.sender = p.sender
    /\ n.post = p.post /\ n.live = p.live
    /\ n.scram => p.scram \/ abort[p.exec]
    /\ \A q \in posts' : (q \in posts /\ q /= p) \/ q = n

LEMMA PostMoves ==
    ASSUME Inv, NEW p, PostRead(p) \/ PostCommit(p) \/ PostLost(p) \/ PostDropped(p)
    PROVE  \E n : Leaves(p, n)
<1>. USE DEF Leaves
<1>1. p \in posts /\ p \in PostCall
  BY DEF Inv, TypeOK, ReceiverTypeOK, PostRead, PostCommit, PostLost, PostDropped
<1>2. CASE PostRead(p)
  <2>. DEFINE read == [p EXCEPT !.scram = abort[p.exec],
                                !.update = Updates(status[p.exec], p.post)]
              refused == [read EXCEPT !.update = FALSE]
              done == [refused EXCEPT !.pc = "done"]
              taken == [read EXCEPT !.pc = "read"]
  <2>1. \A n \in {done, taken} :
          /\ n.agent = p.agent /\ n.exec = p.exec /\ n.sender = p.sender
          /\ n.post = p.post /\ n.live = p.live /\ n.scram = abort[p.exec]
    BY <1>1 DEF PostCall
  <2>2. \/ posts' = Answered(posts, p, refused)
        \/ posts' = (posts \ {p}) \cup {taken}
    BY <1>2 DEF PostRead
  <2>3. CASE posts' = Answered(posts, p, refused)
    <3>1. \A q \in posts' : (q \in posts /\ q /= p) \/ q = done
      <4>. HIDE DEF refused
      <4>. QED
        BY <2>3 DEF Answered
    <3>. QED
      BY <2>1, <3>1
  <2>4. CASE posts' = (posts \ {p}) \cup {taken}
    BY <2>1, <2>4
  <2>. QED
    BY <2>2, <2>3, <2>4
<1>3. CASE PostCommit(p) \/ PostLost(p)
  <2>. DEFINE written == [p EXCEPT !.update = FALSE]
              done == [written EXCEPT !.pc = "done"]
  <2>1. /\ done.agent = p.agent /\ done.exec = p.exec /\ done.sender = p.sender
        /\ done.post = p.post /\ done.live = p.live /\ done.scram = p.scram
    BY <1>1 DEF PostCall
  <2>2. posts' = Answered(posts, p, written)
    BY <1>3 DEF PostCommit, PostLost, PostHandled
  <2>3. \A q \in posts' : (q \in posts /\ q /= p) \/ q = done
    <3>. HIDE DEF written
    <3>. QED
      BY <2>2 DEF Answered
  <2>. QED
    BY <2>1, <2>3
<1>4. CASE PostDropped(p)
  BY <1>4 DEF PostDropped
<1>. QED
  BY <1>2, <1>3, <1>4

LEMMA PostHandlerKeeps ==
    ASSUME Inv, TypeOK', NEW p,
           PostRead(p) \/ PostCommit(p) \/ PostLost(p) \/ PostDropped(p),
           UNCHANGED <<backyardVars, agentVars>>
    PROVE  Inv'
<1>. USE DEF backyardVars, agentVars
<1>1. p \in posts /\ p \in PostCall /\ UNCHANGED <<fetches, abort>>
  BY DEF Inv, TypeOK, ReceiverTypeOK, PostRead, PostCommit, PostLost, PostDropped, PostWrite,
         WriteStatus, Touch, rowVars
<1>2. PICK n : Leaves(p, n)
  BY PostMoves
<1>3. p.agent \in Agents /\ p.exec \in Executions /\ p.post \in Posted
  BY <1>1 DEF PostCall
<1>4. status[p.exec] \notin Early
  BY <1>1, <1>3 DEF Inv, EarlyIsFresh, Fresh, Untouched, Concerns
<1>5. \A e \in Executions : UNCHANGED status[e] \/ (e = p.exec /\ status'[e] = p.post)
  BY DEF Inv, TypeOK, RowTypeOK, PostRead, PostCommit, PostLost, PostDropped, PostWrite,
         WriteStatus, Touch, rowVars
<1>6. \A e \in Executions :
        /\ status'[e] \in Early => status[e] \in Early
        /\ UNCHANGED status[e] \/ status'[e] \notin Early
  BY <1>3, <1>5 DEF Posted, Early
<1>7. \A a \in Agents, e \in Executions :
        (\A q \in posts : ~Concerns(q, a, e)) => (\A q \in posts' : ~Concerns(q, a, e))
  BY <1>1, <1>2 DEF Concerns, Leaves
<1>8. PreparesAlone' /\ SelectedIsPrepared'
  BY <1>1, <1>3, <1>4, <1>5, <1>6
     DEF Inv, PreparesAlone, SelectedIsPrepared, Early, TypeOK, ReceiverTypeOK, FetchCall
<1>9. EarlyIsFresh' /\ TodoIsUntouched' /\ StartIsClean'
  BY <1>6, <1>7 DEF Inv, EarlyIsFresh, TodoIsUntouched, StartIsClean, Fresh, Untouched,
                    TypeOK, AgentTypeOK
<1>10. OneFetchAtATime'
  BY <1>1 DEF Inv, OneFetchAtATime
<1>11. OneReportAtATime'
  BY <1>1, <1>2 DEF Inv, OneReportAtATime, Reporting, Leaves
<1>12. FetchedIsFresh'
  BY <1>1, <1>7 DEF Inv, FetchedIsFresh, Fresh, Untouched, TypeOK, ReceiverTypeOK, FetchCall
<1>13. PostsAreTrue' /\ ForcedByAbort'
  BY <1>1, <1>2 DEF Inv, PostsAreTrue, ForcedByAbort, Leaves
<1>14. NoFalseCompletion' /\ ScramIsGenuine'
  BY <1>1, <1>3, <1>5
     DEF Inv, NoFalseCompletion, ScramIsGenuine, PostsAreTrue, ForcedByAbort
<1>. QED
  BY <1>8, <1>9, <1>10, <1>11, <1>12, <1>13, <1>14 DEF Inv

-----------------------------------------------------------------------------
(* Steps of the agents: neither status nor flag of any row changes. *)

\* What an agent is new to stays so, but for what it is being given.
FreshStays ==
    \A a \in Agents, e \in Executions : Fresh(a, e) =>
        \/ Fresh(a, e)'
        \/ status[e] \notin Early /\ \A f \in fetches' : ~(f.live /\ f.agent = a)

\* A selection is an old one, at most as far as it was, or empty.
FetchesStay ==
    \A f \in fetches' :
        \/ f.rows = {}
        \/ \E g \in fetches : /\ f.rows = g.rows /\ f.agent = g.agent
                              /\ f.pc = "done" => g.pc = "done"
                              /\ f.live => g.live

\* A runner that ended, or was stopped by order, does not run again.
RunnersStay ==
    \A a \in Agents, e \in Executions :
        /\ runner[a][e] = "ok" => runner'[a][e] = "ok"
        /\ forced[a][e] /\ runner[a][e] /= "running" =>
             forced'[a][e] /\ runner'[a][e] /= "running"

LEMMA AgentMoveKeeps ==
    ASSUME Inv, TypeOK', UNCHANGED <<backyardVars, status, abort>>,
           FreshStays, FetchesStay, RunnersStay,
           OneFetchAtATime', OneReportAtATime', TodoIsUntouched', StartIsClean',
           PostsAreTrue', ForcedByAbort'
    PROVE  Inv'
<1>1. PreparesAlone'
  BY DEF Inv, PreparesAlone, backyardVars
<1>2. SelectedIsPrepared'
  BY DEF Inv, SelectedIsPrepared, FetchesStay
<1>3. EarlyIsFresh'
  BY DEF Inv, EarlyIsFresh, FreshStays
<1>4. FetchedIsFresh'
  <2>. SUFFICES ASSUME NEW f \in fetches', f.live, NEW e \in f.rows
                PROVE  Fresh(f.agent, e)'
    BY DEF FetchedIsFresh
  <2>1. f.agent \in Agents /\ e \in Executions
    BY DEF TypeOK, ReceiverTypeOK, FetchCall
  <2>2. Fresh(f.agent, e)
    BY DEF FetchesStay, Inv, FetchedIsFresh
  <2>. QED
    BY <2>1, <2>2 DEF FreshStays
<1>5. NoFalseCompletion' /\ ScramIsGenuine'
  BY DEF Inv, NoFalseCompletion, ScramIsGenuine, RunnersStay
<1>. QED
  BY <1>1, <1>2, <1>3, <1>4, <1>5 DEF Inv

\* A step about the execution e on the agent a leaves every other alone.
OnlyJob(a, e) ==
    \A b \in Agents, d \in Executions :
        \/ b = a /\ d = e
        \/ UNCHANGED <<worker[b][d], runner[b][d], statusfile[b][d], forced[b][d]>>

\* The steps of an agent that concern no call: those of its main loop ...
LEMMA MainKeeps ==
    ASSUME Inv, TypeOK', NEW a \in Agents, NEW e \in Executions,
           \/ Spawn(a, e)
           \/ CreateStatusFile(a) /\ e = current[a]
           \/ ReportNotUploaded(a, e),
           UNCHANGED backyardVars
    PROVE  Inv'
<1>1. UNCHANGED <<rowVars, fetches, posts, runner, forced>>
  BY DEF Spawn, CreateStatusFile, ReportNotUploaded, netVars
<1>2. OnlyJob(a, e)
  <2>. SUFFICES ASSUME NEW b \in Agents, NEW d \in Executions, b /= a \/ d /= e
                PROVE  UNCHANGED <<worker[b][d], statusfile[b][d]>>
    BY <1>1 DEF OnlyJob
  <2>1. worker'[b][d] = worker[b][d]
    BY DEF Spawn, CreateStatusFile, ReportNotUploaded, Inv, TypeOK, AgentTypeOK, PerJob
  <2>2. statusfile'[b][d] = statusfile[b][d]
    BY DEF Spawn, CreateStatusFile, ReportNotUploaded, Inv, TypeOK, AgentTypeOK, PerJob
  <2>. QED
    BY <2>1, <2>2
<1>3. /\ \A b \in Agents : todo'[b] \subseteq todo[b]
      /\ \A b \in Agents, d \in Executions : d \in todo[b] => d \in todo'[b] \/ (b = a /\ d = e)
      /\ e \notin todo'[a]
  BY DEF Spawn, CreateStatusFile, ReportNotUploaded, Inv, TypeOK, AgentTypeOK,
         TodoIsUntouched, Untouched
<1>4. /\ ~Fresh(a, e)
      /\ ~Untouched(a, e) \/ Spawn(a, e)
      /\ Spawn(a, e) => Untouched(a, e)
  BY DEF Spawn, CreateStatusFile, ReportNotUploaded, Fresh, Untouched, Inv, TodoIsUntouched
<1>5. \A b \in Agents : main'[b] = main[b] \/ (b = a /\ main[a] = "spawning")
  BY DEF Spawn, CreateStatusFile, ReportNotUploaded, Inv, TypeOK, AgentTypeOK
<1>6. \A b \in Agents : current'[b] \in {current[b], NoWork} \/ (b = a /\ current'[b] = e)
  BY DEF Spawn, CreateStatusFile, ReportNotUploaded, Inv, TypeOK, AgentTypeOK
<1>7. \A b \in Agents, d \in Executions : worker'[b][d] = "start" =>
        worker[b][d] = "start" \/ (b = a /\ d = e /\ Untouched(a, e))
  BY <1>2, <1>4 DEF OnlyJob, Spawn, CreateStatusFile, ReportNotUploaded
<1>8. \A b \in Agents, d \in Executions :
        b /= a \/ d /= e => (Untouched(b, d) => Untouched(b, d)')
  BY <1>1, <1>2, <1>6, AgentAssumption DEF OnlyJob, Untouched, Concerns
<1>9. FreshStays
  BY <1>3, <1>4, <1>8 DEF FreshStays, Fresh
<1>10. FetchesStay /\ RunnersStay
  BY <1>1 DEF FetchesStay, RunnersStay
<1>11. OneFetchAtATime'
  BY <1>1, <1>5 DEF OneFetchAtATime, Inv, TypeOK, ReceiverTypeOK, FetchCall
<1>12. OneReportAtATime'
  BY <1>1, <1>5 DEF OneReportAtATime, Reporting, Inv, TypeOK, ReceiverTypeOK, PostCall
<1>13. TodoIsUntouched'
  BY <1>3, <1>4, <1>8 DEF TodoIsUntouched, Inv, TypeOK, AgentTypeOK
<1>14. StartIsClean'
  BY <1>1, <1>7 DEF StartIsClean, Untouched, Concerns, Inv
<1>15. PostsAreTrue' /\ ForcedByAbort'
  BY <1>1 DEF PostsAreTrue, ForcedByAbort, Inv, rowVars
<1>. QED
  BY <1>1, <1>9, <1>10, <1>11, <1>12, <1>13, <1>14, <1>15, AgentMoveKeeps DEF rowVars

\* ... and those of a child and its runner.
LEMMA WorkerKeeps ==
    ASSUME Inv, TypeOK', NEW a \in Agents, NEW e \in Executions,
           \/ StartRunner(a, e) \/ WorkerFails(a, e) \/ LastUploadFails(a, e)
           \/ RunnerEnds(a, e) \/ RunnerVanishes(a, e),
           UNCHANGED backyardVars
    PROVE  Inv'
<1>. USE DEF StartRunner, WorkerFails, LastUploadFails, RunnerEnds, RunnerVanishes,
             WorkerBecomes, WorkerEnds
<1>1. UNCHANGED <<rowVars, fetches, posts, main, todo, current, forced>>
  BY DEF netVars
<1>2. OnlyJob(a, e)
  <2>. SUFFICES ASSUME NEW b \in Agents, NEW d \in Executions, b /= a \/ d /= e
                PROVE  UNCHANGED <<worker[b][d], runner[b][d], statusfile[b][d]>>
    BY <1>1 DEF OnlyJob
  <2>1. worker'[b][d] = worker[b][d]
    BY DEF Inv, TypeOK, AgentTypeOK, PerJob
  <2>2. runner'[b][d] = runner[b][d]
    BY DEF Inv, TypeOK, AgentTypeOK, PerJob
  <2>3. statusfile'[b][d] = statusfile[b][d]
    BY DEF Inv, TypeOK, AgentTypeOK, PerJob
  <2>. QED
    BY <2>1, <2>2, <2>3
<1>3. /\ worker[a][e] /= "none" \/ runner[a][e] = "running"
      /\ worker'[a][e] = "start" => worker[a][e] = "start" /\ runner[a][e] = "running"
      /\ runner'[a][e] = runner[a][e] \/ runner[a][e] = "running" \/ worker[a][e] = "start"
      /\ runner'[a][e] = "running" => runner[a][e] = "running" \/ worker[a][e] = "start"
  <2>1. worker[a][e] /= "none" \/ runner[a][e] = "running"
    OBVIOUS
  <2>2. worker'[a][e] = "start" => worker[a][e] = "start" /\ runner[a][e] = "running"
    BY DEF Inv, TypeOK, AgentTypeOK, PerJob
  <2>3. runner'[a][e] = runner[a][e] \/ runner[a][e] = "running" \/ worker[a][e] = "start"
    BY DEF Inv, TypeOK, AgentTypeOK, PerJob
  <2>4. runner'[a][e] = "running" => runner[a][e] = "running" \/ worker[a][e] = "start"
    BY <2>3
  <2>. QED
    BY <2>1, <2>2, <2>3, <2>4
<1>4. ~Untouched(a, e)
  BY <1>3 DEF Untouched
<1>5. \A b \in Agents, d \in Executions : Untouched(b, d) => Untouched(b, d)'
  BY <1>1, <1>2, <1>4 DEF OnlyJob, Untouched, Concerns
<1>6. FreshStays /\ TodoIsUntouched'
  BY <1>1, <1>5 DEF FreshStays, TodoIsUntouched, Fresh, Inv, TypeOK, AgentTypeOK
<1>7. FetchesStay /\ OneFetchAtATime' /\ OneReportAtATime' /\ ForcedByAbort'
  BY <1>1 DEF FetchesStay, OneFetchAtATime, OneReportAtATime, Reporting, ForcedByAbort, Inv,
              rowVars
<1>8. worker[a][e] = "start" => /\ runner[a][e] = "none" /\ ~forced[a][e]
                                /\ \A p \in posts : ~Concerns(p, a, e)
  BY DEF Inv, StartIsClean
<1>9. RunnersStay
  BY <1>1, <1>2, <1>3, <1>8 DEF RunnersStay, OnlyJob
<1>10. StartIsClean'
  BY <1>1, <1>2, <1>3, <1>8 DEF StartIsClean, OnlyJob, Inv, Concerns
<1>11. PostsAreTrue'
  BY <1>1, <1>2, <1>3, <1>8
     DEF PostsAreTrue, OnlyJob, Concerns, Inv, TypeOK, ReceiverTypeOK, PostCall, rowVars
<1>. QED
  BY <1>1, <1>6, <1>7, <1>9, <1>10, <1>11, AgentMoveKeeps DEF rowVars

\* The calls of the main loop for work: sent, ...
LEMMA FetchKeeps ==
    ASSUME Inv, TypeOK', NEW a \in Agents, Fetch(a), UNCHANGED backyardVars
    PROVE  Inv'
<1>1. /\ UNCHANGED <<rowVars, posts, todo, current, statusfile, worker, runner, forced>>
      /\ main[a] = "idle"
  BY DEF Fetch
<1>2. PICK m : fetches' = fetches \cup {NewFetch(a, m)}
  BY DEF Fetch
<1>3. NewFetch(a, m).agent = a /\ NewFetch(a, m).rows = {}
  BY DEF NewFetch
<1>4. \A b \in Agents : main'[b] = main[b] \/ (b = a /\ main'[b] = "fetching")
  BY DEF Fetch, Inv, TypeOK, AgentTypeOK
<1>5. main'[a] = "fetching"
  BY DEF Fetch, Inv, TypeOK, AgentTypeOK
<1>6. FreshStays /\ RunnersStay /\ TodoIsUntouched' /\ StartIsClean'
  BY <1>1 DEF FreshStays, RunnersStay, TodoIsUntouched, StartIsClean, Fresh, Untouched, Inv
<1>7. FetchesStay
  BY <1>2, <1>3 DEF FetchesStay
<1>8. \A f \in fetches : f.agent \in Agents /\ (f.live => f.agent /= a)
  BY <1>1 DEF Inv, OneFetchAtATime, TypeOK, ReceiverTypeOK, FetchCall
<1>9. OneFetchAtATime'
  BY <1>2, <1>3, <1>4, <1>5, <1>8 DEF OneFetchAtATime, Inv
<1>10. OneReportAtATime'
  BY <1>1, <1>4 DEF OneReportAtATime, Reporting, Inv, TypeOK, ReceiverTypeOK, PostCall
<1>11. PostsAreTrue' /\ ForcedByAbort'
  BY <1>1 DEF PostsAreTrue, ForcedByAbort, Inv, rowVars
<1>. QED
  BY <1>1, <1>6, <1>7, <1>9, <1>10, <1>11, AgentMoveKeeps DEF rowVars

\* ... and answered, repeated or given up.
LEMMA FetchCallKeeps ==
    ASSUME Inv, TypeOK', NEW f, FetchAnswer(f) \/ FetchRetry(f) \/ FetchGiveUp(f),
           UNCHANGED backyardVars
    PROVE  Inv'
<1>. DEFINE again == [NewFetch(f.agent, f.limit) EXCEPT !.try = f.try + 1]
            left == [f EXCEPT !.live = FALSE]
<1>1. /\ UNCHANGED <<rowVars, posts, current, statusfile, worker, runner, forced>>
      /\ f \in fetches /\ f \in FetchCall /\ f.live
  BY DEF FetchAnswer, FetchRetry, FetchGiveUp, Inv, TypeOK, ReceiverTypeOK, agentVars
<1>2. again.rows = {} /\ again.agent = f.agent /\ f.agent \in Agents
  BY <1>1 DEF NewFetch, FetchCall
<1>3. ~left.live /\ left.rows = f.rows /\ left.agent = f.agent /\ left.pc = f.pc
  BY <1>1 DEF FetchCall
<1>. HIDE DEF again, left
<1>4. \A g \in fetches' : \/ g \in fetches /\ g /= f
                          \/ g = left
                          \/ g = again /\ FetchRetry(f)
  BY DEF FetchAnswer, FetchRetry, FetchGiveUp, Abandoned, again, left
<1>5. main[f.agent] = "fetching"
  BY <1>1 DEF Inv, OneFetchAtATime
<1>6. /\ \A b \in Agents : main'[b] = main[b] \/ (b = f.agent /\ ~FetchRetry(f))
      /\ FetchRetry(f) => main' = main
  BY DEF FetchAnswer, FetchRetry, FetchGiveUp, agentVars, Inv, TypeOK, AgentTypeOK
<1>7. \A g \in fetches' : g.live /\ g.agent = f.agent => g = again /\ FetchRetry(f)
  BY <1>1, <1>3, <1>4 DEF Inv, OneFetchAtATime
<1>8. FetchesStay
  BY <1>1, <1>2, <1>3, <1>4 DEF FetchesStay
<1>9. OneFetchAtATime'
  <2>1. \A g \in fetches' : g.live => main'[g.agent] = "fetching"
    BY <1>2, <1>3, <1>4, <1>5, <1>6, <1>7
       DEF Inv, OneFetchAtATime, TypeOK, ReceiverTypeOK, FetchCall
  <2>2. \A g, h \in fetches' : g.live /\ h.live /\ g.agent = h.agent => g = h
    BY <1>2, <1>3, <1>4, <1>7 DEF Inv, OneFetchAtATime
  <2>. QED
    BY <2>1, <2>2 DEF OneFetchAtATime
<1>10. OneReportAtATime'
  BY <1>1, <1>5, <1>6
     DEF OneReportAtATime, Reporting, Inv, TypeOK, ReceiverTypeOK, PostCall
<1>11. \A b \in Agents, d \in Executions : Untouched(b, d) => Untouched(b, d)'
  BY <1>1 DEF Untouched
<1>12. \A b \in Agents :
        todo'[b] = todo[b] \/ (b = f.agent /\ todo'[b] = f.rows /\ FetchAnswer(f))
  BY DEF FetchAnswer, FetchRetry, FetchGiveUp, agentVars, Inv, TypeOK, AgentTypeOK
<1>13. \A d \in f.rows : d \in Executions /\ Fresh(f.agent, d)
  BY <1>1 DEF Inv, FetchedIsFresh, FetchCall
<1>14. TodoIsUntouched'
  BY <1>11, <1>12, <1>13 DEF TodoIsUntouched, Inv, TypeOK, AgentTypeOK, Fresh
<1>15. FreshStays
  <2>. SUFFICES ASSUME NEW b \in Agents, NEW d \in Executions, Fresh(b, d), ~Fresh(b, d)'
                PROVE  status[d] \notin Early /\ \A g \in fetches' : ~(g.live /\ g.agent = b)
    BY DEF FreshStays
  <2>1. FetchAnswer(f) /\ b = f.agent /\ d \in f.rows
    BY <1>11, <1>12 DEF Fresh
  <2>2. f.pc = "done" /\ fetches' = fetches \ {f}
    BY <2>1 DEF FetchAnswer
  <2>. QED
    BY <1>1, <2>1, <2>2 DEF Inv, SelectedIsPrepared, OneFetchAtATime
<1>16. RunnersStay /\ StartIsClean'
  BY <1>1 DEF RunnersStay, StartIsClean, Inv
<1>17. PostsAreTrue' /\ ForcedByAbort'
  BY <1>1 DEF PostsAreTrue, ForcedByAbort, Inv, rowVars
<1>. QED
  BY <1>1, <1>8, <1>9, <1>10, <1>14, <1>15, <1>16, <1>17, AgentMoveKeeps DEF rowVars

-----------------------------------------------------------------------------
(* Notifications: what the calls of an agent about one execution may change. *)

\* The notification p is an old one, perhaps no longer waited for.
Old(p) == \E q \in posts : /\ p.agent = q.agent /\ p.exec = q.exec /\ p.sender = q.sender
                           /\ p.post = q.post /\ p.scram = q.scram
                           /\ p.live => p = q

\* A new notification of the agent a says of e what is the case.
NewIsTrue(p, a, e) ==
    /\ Concerns(p, a, e) /\ ~p.scram
    /\ p.post = "COMPLETE" => runner'[a][e] = "ok"
    /\ p.post = "SCRAM" => forced'[a][e] /\ runner'[a][e] /= "running"

NotifyMove(a, e) ==
    /\ ~Untouched(a, e) /\ worker'[a][e] /= "start"
    /\ runner'[a][e] = "running" => runner[a][e] = "running"
    /\ runner[a][e] = "ok" => runner'[a][e] = "ok"
    /\ forced[a][e] => forced'[a][e]
    /\ forced'[a][e] => forced[a][e] \/ abort[e]
    /\ \A p \in posts' : Old(p) \/ NewIsTrue(p, a, e)
    /\ \A b \in Agents : current'[b] \in {current[b], NoWork} \/ (b = a /\ current'[b] = e)

LEMMA NotifyMoveKeeps ==
    ASSUME Inv, TypeOK', NEW a \in Agents, NEW e \in Executions,
           UNCHANGED <<backyardVars, rowVars, fetches, todo>>,
           OnlyJob(a, e), NotifyMove(a, e), OneFetchAtATime', OneReportAtATime'
    PROVE  Inv'
<1>1. \A b \in Agents, d \in Executions : Untouched(b, d) => Untouched(b, d)'
  <2>. SUFFICES ASSUME NEW b \in Agents, NEW d \in Executions, Untouched(b, d)
                PROVE  Untouched(b, d)'
    OBVIOUS
  <2>1. b /= a \/ d /= e
    BY DEF NotifyMove
  <2>2. \A p \in posts' : ~Concerns(p, b, d)
    BY <2>1 DEF NotifyMove, Untouched, Concerns, Old, NewIsTrue
  <2>3. current'[b] /= d
    BY <2>1, AgentAssumption DEF NotifyMove, Untouched
  <2>. QED
    BY <2>1, <2>2, <2>3 DEF OnlyJob, Untouched, Concerns
<1>2. FreshStays /\ TodoIsUntouched'
  BY <1>1 DEF FreshStays, Fresh, TodoIsUntouched, Inv, TypeOK, AgentTypeOK
<1>3. FetchesStay
  BY DEF FetchesStay
<1>4. RunnersStay
  BY DEF RunnersStay, OnlyJob, NotifyMove
<1>5. StartIsClean'
  <2>. SUFFICES ASSUME NEW b \in Agents, NEW d \in Executions, worker'[b][d] = "start"
                PROVE  /\ runner'[b][d] = "none" /\ ~forced'[b][d]
                       /\ \A p \in posts' : ~Concerns(p, b, d)
    BY DEF StartIsClean, Concerns
  <2>1. b /= a \/ d /= e
    BY DEF NotifyMove
  <2>2. worker[b][d] = "start"
    BY <2>1 DEF OnlyJob
  <2>3. /\ runner[b][d] = "none" /\ ~forced[b][d]
        /\ \A p \in posts : ~Concerns(p, b, d)
    BY <2>2 DEF Inv, StartIsClean
  <2>. QED
    BY <2>1, <2>3 DEF OnlyJob, NotifyMove, Old, NewIsTrue, Concerns
<1>6. PostsAreTrue'
  <2>. SUFFICES ASSUME NEW p \in posts'
                PROVE  /\ p.post = "COMPLETE" => runner'[p.agent][p.exec] = "ok"
                       /\ p.post = "SCRAM" => /\ forced'[p.agent][p.exec]
                                              /\ runner'[p.agent][p.exec] /= "running"
                       /\ p.scram => abort'[p.exec]
    BY DEF PostsAreTrue
  <2>1. CASE Old(p)
    <3>1. PICK q \in posts : /\ p.agent = q.agent /\ p.exec = q.exec
                             /\ p.post = q.post /\ p.scram = q.scram
      BY <2>1 DEF Old
    <3>2. q.agent \in Agents /\ q.exec \in Executions
      BY DEF Inv, TypeOK, ReceiverTypeOK, PostCall
    <3>. QED
      BY <1>4, <3>1, <3>2 DEF Inv, PostsAreTrue, RunnersStay, rowVars
  <2>2. CASE NewIsTrue(p, a, e)
    BY <2>2 DEF NewIsTrue, Concerns
  <2>. QED
    BY <2>1, <2>2 DEF NotifyMove
<1>7. ForcedByAbort'
  BY DEF ForcedByAbort, OnlyJob, NotifyMove, Inv, rowVars
<1>. QED
  BY <1>2, <1>3, <1>4, <1>5, <1>6, <1>7, AgentMoveKeeps DEF rowVars

\* What is abandoned or orphaned is old.
LEMMA AbandonedIsOld ==
    ASSUME Inv, NEW p \in posts, NEW q \in Abandoned(posts, p)
    PROVE  Old(q) /\ (q.live => q /= p)
  BY DEF Abandoned, Old, Inv, TypeOK, ReceiverTypeOK, PostCall

LEMMA OrphanedIsOld ==
    ASSUME Inv, NEW mine \in SUBSET posts, NEW q \in Orphaned(posts, mine)
    PROVE  Old(q) /\ (q.live => q \notin mine)
<1>1. CASE q \in posts \ mine
  BY <1>1 DEF Old
<1>2. CASE \E d \in mine : q = [d EXCEPT !.live = FALSE]
  BY <1>2 DEF Old, Inv, TypeOK, ReceiverTypeOK, PostCall
<1>. QED
  BY <1>1, <1>2 DEF Orphaned

\* A child notifies.
LEMMA NotifyKeeps ==
    ASSUME Inv, TypeOK', NEW a \in Agents, NEW e \in Executions,
           \/ Poll(a, e) \/ PollBroken(a, e) \/ StopRunner(a, e) \/ StopFails(a, e)
           \/ LastPost(a, e),
           UNCHANGED backyardVars
    PROVE  Inv'
<1>. USE DEF Poll, PollBroken, StopRunner, StopFails, LastPost, Notify, WorkerBecomes
<1>1. /\ UNCHANGED <<rowVars, fetches, main, todo, current, statusfile, forced>>
      /\ worker[a][e] \in {"poll", "failed"} /\ worker'[a][e] /= "start"
  BY DEF Inv, TypeOK, AgentTypeOK, PerJob
<1>2. PICK s : /\ posts' = posts \cup {NewPost(a, e, "child", s)}
               /\ s = "COMPLETE" => runner[a][e] = "ok"
               /\ s = "SCRAM" => StopRunner(a, e)
  BY DEF RcStatus
<1>. DEFINE new == NewPost(a, e, "child", s)
<1>3. /\ new.agent = a /\ new.exec = e /\ new.sender = "child"
      /\ new.post = s /\ ~new.scram
  BY DEF NewPost
<1>4. OnlyJob(a, e)
  <2>. SUFFICES ASSUME NEW b \in Agents, NEW d \in Executions, b /= a \/ d /= e
                PROVE  UNCHANGED <<worker[b][d], runner[b][d]>>
    BY <1>1 DEF OnlyJob
  <2>1. worker'[b][d] = worker[b][d]
    BY DEF Inv, TypeOK, AgentTypeOK, PerJob
  <2>2. runner'[b][d] = runner[b][d]
    BY DEF Inv, TypeOK, AgentTypeOK, PerJob
  <2>. QED
    BY <2>1, <2>2
<1>5. /\ runner'[a][e] = "running" => runner[a][e] = "running"
      /\ runner[a][e] = "ok" => runner'[a][e] = "ok"
      /\ StopRunner(a, e) => forced[a][e] /\ runner'[a][e] /= "running"
  BY DEF Inv, TypeOK, AgentTypeOK, PerJob
<1>6. NotifyMove(a, e)
  <2>1. NewIsTrue(new, a, e)
    BY <1>1, <1>2, <1>3, <1>5 DEF NewIsTrue, Concerns
  <2>2. \A p \in posts : Old(p)
    BY DEF Old
  <2>. QED
    BY <1>1, <1>2, <1>5, <2>1, <2>2 DEF NotifyMove, Untouched
<1>7. OneFetchAtATime' /\ OneReportAtATime'
  BY <1>1, <1>2, <1>3 DEF OneFetchAtATime, OneReportAtATime, Reporting, Inv
<1>. QED
  BY <1>1, <1>4, <1>6, <1>7, NotifyMoveKeeps

\* The main loop reports an execution nobody serves.
LEMMA ReportKeeps ==
    ASSUME Inv, TypeOK', NEW a \in Agents, NEW e \in Executions, Report(a, e),
           UNCHANGED backyardVars
    PROVE  Inv'
<1>. DEFINE new == NewPost(a, e, "main", "FAILURE")
<1>1. /\ UNCHANGED <<rowVars, fetches, todo, statusfile, worker, runner, forced>>
      /\ main[a] = "idle" /\ statusfile[a][e] /\ worker[a][e] = "none"
      /\ posts' = posts \cup {new}
  BY DEF Report
<1>2. /\ new.agent = a /\ new.exec = e /\ new.sender = "main"
      /\ new.post = "FAILURE" /\ ~new.scram
  BY DEF NewPost
<1>. HIDE DEF new
<1>3. /\ \A b \in Agents : main'[b] = main[b] \/ b = a
      /\ main'[a] = "reporting"
      /\ \A b \in Agents : current'[b] = current[b] \/ (b = a /\ current'[b] = e)
  BY DEF Report, Inv, TypeOK, AgentTypeOK
<1>4. OnlyJob(a, e)
  BY <1>1 DEF OnlyJob
<1>5. NotifyMove(a, e)
  <2>1. NewIsTrue(new, a, e)
    BY <1>2 DEF NewIsTrue, Concerns
  <2>2. \A p \in posts : Old(p)
    BY DEF Old
  <2>. QED
    BY <1>1, <1>3, <2>1, <2>2 DEF NotifyMove, Untouched
<1>6. OneFetchAtATime'
  BY <1>1, <1>3 DEF OneFetchAtATime, Inv, TypeOK, ReceiverTypeOK, FetchCall
<1>7. \A p \in posts : p.agent \in Agents /\ (Reporting(p) => p.agent /= a)
  BY <1>1 DEF Inv, OneReportAtATime, TypeOK, ReceiverTypeOK, PostCall
<1>8. OneReportAtATime'
  BY <1>1, <1>2, <1>3, <1>7 DEF OneReportAtATime, Reporting, Inv
<1>. QED
  BY <1>1, <1>4, <1>5, <1>6, <1>8, NotifyMoveKeeps

\* A try is repeated.
LEMMA PostRetryKeeps ==
    ASSUME Inv, TypeOK', NEW p, PostRetry(p), UNCHANGED backyardVars
    PROVE  Inv'
<1>. DEFINE again == [NewPost(p.agent, p.exec, p.sender, p.post) EXCEPT !.try = p.try + 1]
<1>1. /\ UNCHANGED <<rowVars, fetches, agentVars>>
      /\ p \in posts /\ p \in PostCall /\ p.live
      /\ posts' = Abandoned(posts, p) \cup {again}
  BY DEF PostRetry, Inv, TypeOK, ReceiverTypeOK
<1>2. /\ again.agent = p.agent /\ again.exec = p.exec /\ again.sender = p.sender
      /\ again.post = p.post /\ ~again.scram /\ again.live
  BY DEF NewPost
<1>. HIDE DEF again
<1>3. p.agent \in Agents /\ p.exec \in Executions
  BY <1>1 DEF PostCall
<1>4. ~Untouched(p.agent, p.exec) /\ worker[p.agent][p.exec] /= "start"
  BY <1>1, <1>3 DEF Untouched, Concerns, Inv, StartIsClean
<1>5. OnlyJob(p.agent, p.exec)
  BY <1>1 DEF OnlyJob, agentVars
<1>6. NewIsTrue(again, p.agent, p.exec)
  BY <1>1, <1>2 DEF NewIsTrue, Concerns, Inv, PostsAreTrue, agentVars
<1>7. \A q \in posts' : (Old(q) /\ (q.live => q /= p)) \/ q = again
  BY <1>1, AbandonedIsOld
<1>8. NotifyMove(p.agent, p.exec)
  BY <1>1, <1>4, <1>6, <1>7 DEF NotifyMove, agentVars
<1>9. OneFetchAtATime'
  BY <1>1 DEF OneFetchAtATime, Inv, agentVars
<1>10. OneReportAtATime'
  BY <1>1, <1>2, <1>7 DEF OneReportAtATime, Reporting, Inv, agentVars, Old
<1>. QED
  BY <1>1, <1>3, <1>5, <1>8, <1>9, <1>10, NotifyMoveKeeps DEF agentVars

\* A call of a child or a report comes to its end.
LEMMA PostEndsKeeps ==
    ASSUME Inv, TypeOK', NEW p, PostAnswer(p) \/ PostGiveUp(p) \/ ReportEnds(p),
           UNCHANGED backyardVars
    PROVE  Inv'
<1>. USE DEF PostAnswer, PostGiveUp, ReportEnds, WorkerBecomes, WorkerEnds
<1>1. /\ UNCHANGED <<rowVars, fetches, todo, runner>>
      /\ p \in posts /\ p \in PostCall /\ p.live
  BY DEF Inv, TypeOK, ReceiverTypeOK
<1>2. p.agent \in Agents /\ p.exec \in Executions
  BY <1>1 DEF PostCall
<1>3. ~Untouched(p.agent, p.exec) /\ worker[p.agent][p.exec] /= "start"
  BY <1>1, <1>2 DEF Untouched, Concerns, Inv, StartIsClean
<1>4. OnlyJob(p.agent, p.exec)
  <2>. SUFFICES ASSUME NEW b \in Agents, NEW d \in Executions, b /= p.agent \/ d /= p.exec
                PROVE  UNCHANGED <<worker[b][d], statusfile[b][d], forced[b][d]>>
    BY <1>1 DEF OnlyJob
  <2>1. worker'[b][d] = worker[b][d]
    BY <1>2 DEF Inv, TypeOK, AgentTypeOK, PerJob
  <2>2. statusfile'[b][d] = statusfile[b][d]
    BY <1>2 DEF Inv, TypeOK, AgentTypeOK, PerJob
  <2>3. forced'[b][d] = forced[b][d]
    BY <1>2 DEF Inv, TypeOK, AgentTypeOK, PerJob
  <2>. QED
    BY <2>1, <2>2, <2>3
<1>5. worker'[p.agent][p.exec] /= "start"
  BY <1>2, <1>3 DEF Inv, TypeOK, AgentTypeOK, PerJob
<1>6. LET a == p.agent  e == p.exec
      IN  (forced[a][e] => forced'[a][e]) /\ (forced'[a][e] => forced[a][e] \/ p.scram)
  BY <1>1, <1>2 DEF Inv, TypeOK, AgentTypeOK, PerJob, PostCall
<1>7. p.scram => abort[p.exec]
  BY <1>1 DEF Inv, PostsAreTrue
<1>8. \A q \in posts' : Old(q) /\ (q.live => q /= p)
  <2>1. posts' = posts \ {p} \/ posts' = Abandoned(posts, p)
    OBVIOUS
  <2>2. \A q \in posts \ {p} : Old(q)
    BY DEF Old
  <2>. QED
    BY <1>1, <2>1, <2>2, AbandonedIsOld
<1>9. \A b \in Agents : current'[b] \in {current[b], NoWork}
  BY DEF Inv, TypeOK, AgentTypeOK
<1>10. NotifyMove(p.agent, p.exec)
  BY <1>1, <1>3, <1>5, <1>6, <1>7, <1>8, <1>9 DEF NotifyMove
<1>11. UNCHANGED main \/ (Reporting(p) /\ main' = [main EXCEPT ![p.agent] = "idle"])
  BY DEF Reporting
<1>12. OneFetchAtATime'
  <2>1. Reporting(p) => \A f \in fetches : f.live => f.agent /= p.agent
    BY <1>1 DEF Inv, OneFetchAtATime, OneReportAtATime
  <2>. QED
    BY <1>1, <1>2, <1>11, <2>1
       DEF OneFetchAtATime, Inv, TypeOK, AgentTypeOK, ReceiverTypeOK, FetchCall
<1>13. OneReportAtATime'
  <2>1. \A q \in posts' : Reporting(q) => q \in posts /\ q /= p
    BY <1>8 DEF Reporting, Old
  <2>2. \A q \in posts' : Reporting(q) /\ Reporting(p) => q.agent /= p.agent
    BY <1>1, <2>1 DEF Inv, OneReportAtATime
  <2>. QED
    BY <1>2, <1>11, <2>1, <2>2
       DEF OneReportAtATime, Reporting, Inv, TypeOK, AgentTypeOK, ReceiverTypeOK, PostCall
<1>. QED
  BY <1>1, <1>2, <1>4, <1>10, <1>12, <1>13, NotifyMoveKeeps

\* A child is killed, its call on its own.
LEMMA WorkerCrashKeeps ==
    ASSUME Inv, TypeOK', NEW a \in Agents, NEW e \in Executions, WorkerCrash(a, e),
           UNCHANGED backyardVars
    PROVE  Inv'
<1>1. /\ UNCHANGED <<rowVars, fetches, main, todo, current, statusfile, runner, forced>>
      /\ worker[a][e] /= "none" /\ worker'[a][e] = "none"
  BY DEF WorkerCrash, WorkerBecomes, Inv, TypeOK, AgentTypeOK, PerJob
<1>2. OnlyJob(a, e)
  BY <1>1 DEF OnlyJob, WorkerCrash, WorkerBecomes, Inv, TypeOK, AgentTypeOK, PerJob
<1>3. \A q \in posts' : Old(q)
  BY OrphanedIsOld DEF WorkerCrash
<1>4. NotifyMove(a, e)
  BY <1>1, <1>3 DEF NotifyMove, Untouched
<1>5. OneFetchAtATime' /\ OneReportAtATime'
  BY <1>1, <1>3 DEF OneFetchAtATime, OneReportAtATime, Reporting, Old, Inv
<1>. QED
  BY <1>1, <1>2, <1>4, <1>5, NotifyMoveKeeps

\* The service dies.
LEMMA MainCrashKeeps ==
    ASSUME Inv, TypeOK', NEW a \in Agents, MainCrash(a), UNCHANGED backyardVars
    PROVE  Inv'
<1>. DEFINE mineF == {f \in fetches : f.agent = a /\ f.live}
            mineP == {p \in posts : p.agent = a /\ p.live /\ p.sender = "main"}
<1>1. /\ UNCHANGED <<rowVars, statusfile, worker, runner, forced>>
      /\ fetches' = Orphaned(fetches, mineF) /\ posts' = Orphaned(posts, mineP)
  BY DEF MainCrash
<1>2. /\ \A b \in Agents : main'[b] = main[b] \/ b = a
      /\ \A b \in Agents : current'[b] \in {current[b], NoWork}
      /\ \A b \in Agents : todo'[b] = todo[b] \/ (b = a /\ todo'[b] = {})
  BY DEF MainCrash, Inv, TypeOK, AgentTypeOK
<1>3. \A p \in posts' : Old(p) /\ (p.live => p \notin mineP)
  BY <1>1, OrphanedIsOld
<1>4. \A f \in fetches' :
        \/ f \in fetches /\ f \notin mineF
        \/ \E g \in fetches : /\ ~f.live /\ f.rows = g.rows /\ f.agent = g.agent
                              /\ f.pc = g.pc
  BY <1>1 DEF Orphaned, Inv, TypeOK, ReceiverTypeOK, FetchCall
<1>5. \A b \in Agents, d \in Executions : Untouched(b, d) => Untouched(b, d)'
  BY <1>1, <1>2, <1>3, AgentAssumption DEF Untouched, Concerns, Old
<1>6. FreshStays /\ TodoIsUntouched'
  BY <1>2, <1>5 DEF FreshStays, Fresh, TodoIsUntouched, Inv, TypeOK, AgentTypeOK
<1>7. FetchesStay
  BY <1>4 DEF FetchesStay
<1>8. RunnersStay /\ ForcedByAbort'
  BY <1>1 DEF RunnersStay, ForcedByAbort, Inv, rowVars
<1>9. OneFetchAtATime'
  BY <1>2, <1>4 DEF OneFetchAtATime, Inv, TypeOK, ReceiverTypeOK, FetchCall
<1>10. OneReportAtATime'
  BY <1>2, <1>3 DEF OneReportAtATime, Reporting, Old, Inv, TypeOK, ReceiverTypeOK, PostCall
<1>11. StartIsClean'
  BY <1>1, <1>3 DEF StartIsClean, Concerns, Old, Inv
<1>12. PostsAreTrue'
  BY <1>1, <1>3 DEF PostsAreTrue, Old, Inv, rowVars
<1>. QED
  BY <1>1, <1>6, <1>7, <1>8, <1>9, <1>10, <1>11, <1>12, AgentMoveKeeps DEF rowVars

-----------------------------------------------------------------------------
(* The invariant. *)

LEMMA InitInv == Init => Inv
<1>. SUFFICES ASSUME Init PROVE Inv
  OBVIOUS
<1>1. TypeOK
  BY InitTypes
<1>2. \A a \in Agents, e \in Executions : Fresh(a, e)
  BY AgentAssumption DEF Init, ReceiverInit, AgentInit, Fresh, Untouched
<1>3. PreparesAlone /\ NoFalseCompletion /\ ScramIsGenuine
  BY DEF Init, RowInit, BackyardInit, PreparesAlone, NoFalseCompletion, ScramIsGenuine
<1>4. SelectedIsPrepared /\ OneFetchAtATime /\ OneReportAtATime /\ FetchedIsFresh
  BY DEF Init, ReceiverInit, SelectedIsPrepared, OneFetchAtATime, OneReportAtATime,
         FetchedIsFresh
<1>5. TodoIsUntouched /\ StartIsClean /\ PostsAreTrue /\ ForcedByAbort
  BY DEF Init, ReceiverInit, AgentInit, TodoIsUntouched, StartIsClean, PostsAreTrue,
         ForcedByAbort
<1>. QED
  BY <1>1, <1>2, <1>3, <1>4, <1>5 DEF Inv, EarlyIsFresh

LEMMA NextInv ==
    ASSUME Inv, [Next]_vars
    PROVE  Inv'
<1>. TypeOK'
  BY NextTypes DEF Inv
<1>1. CASE UNCHANGED vars
  <2>1. RowsMove
    BY <1>1 DEF RowsMove, PreparesAlone, Inv, vars, rowVars, backyardVars
  <2>. QED
    BY <1>1, <2>1, RowsMoveKeeps DEF vars
<1>2. ASSUME NEW e \in Executions,
             User(e) \/ Clock(e) \/ ParentStep(e) \/ ChildStep(e) \/ DelayedStep(e)
      PROVE  Inv'
  <2>1. RowsMove
    BY <1>2, BackyardMoves
  <2>2. UNCHANGED <<netVars, agentVars>>
    BY <1>2 DEF User, Clock, ParentStep, ChildStep, DelayedStep
  <2>. QED
    BY <2>1, <2>2, RowsMoveKeeps
<1>3. CASE BackyardFault
  <2>1. ParentDies => RowsMove
    BY NoExecutionAssumption DEF ParentDies, RowsMove, PreparesAlone, Inv, TypeOK, RowTypeOK,
                                 BackyardTypeOK, rowVars
  <2>2. \A e \in Executions : ChildDies(e) \/ ChildRaises(e) => RowsMove
    BY BackyardMoves
  <2>. QED
    BY <1>3, <2>1, <2>2, RowsMoveKeeps DEF BackyardFault
<1>4. ASSUME NEW a \in Agents, NEW rows \in SUBSET Executions, FetchServed(a, rows)
      PROVE  Inv'
  BY <1>4, FetchReadKeeps, FetchAnsweredKeeps DEF FetchServed
<1>5. ASSUME NEW a \in Agents, NEW e \in Executions, NEW s \in Posted,
             NEW pc \in {"sent", "read"}, PostServed(a, e, s, pc)
      PROVE  Inv'
  BY <1>5, PostHandlerKeeps DEF PostServed
<1>6. CASE HandlerFault
  BY <1>6, FetchAnsweredKeeps, PostHandlerKeeps DEF HandlerFault
<1>7. ASSUME NEW a \in Agents, MainStep(a) PROVE Inv'
  <2>1. CASE CreateStatusFile(a)
    <3>1. current[a] \in Executions
      BY <2>1 DEF CreateStatusFile, Inv, TypeOK, AgentTypeOK
    <3>. QED
      BY <1>7, <2>1, <3>1, MainKeeps DEF MainStep
  <2>2. CASE Fetch(a)
    BY <1>7, <2>2, FetchKeeps DEF MainStep
  <2>3. CASE \E f \in fetches : f.agent = a /\ FetchAnswer(f)
    BY <1>7, <2>3, FetchCallKeeps DEF MainStep
  <2>4. CASE \E e \in Executions : Spawn(a, e) \/ Report(a, e)
    BY <1>7, <2>4, MainKeeps, ReportKeeps DEF MainStep
  <2>5. CASE \E p \in posts : p.agent = a /\ ReportEnds(p)
    BY <1>7, <2>5, PostEndsKeeps DEF MainStep
  <2>. QED
    BY <1>7, <2>1, <2>2, <2>3, <2>4, <2>5 DEF MainStep
<1>8. ASSUME NEW a \in Agents, NEW e \in Executions, BeatStep(a, e) PROVE Inv'
  <2>1. RowsMove /\ UNCHANGED <<netVars, agentVars>>
    BY <1>8 DEF RowsMove, PreparesAlone, Inv, BeatStep, Heartbeat, Touch, backyardVars
  <2>. QED
    BY <2>1, RowsMoveKeeps
<1>9. ASSUME NEW a \in Agents, NEW e \in Executions, WorkerStep(a, e) \/ RunnerStep(a, e)
      PROVE  Inv'
  BY <1>9, WorkerKeeps, PostEndsKeeps, NotifyKeeps DEF WorkerStep, RunnerStep
<1>10. CASE NetFault
  BY <1>10, FetchCallKeeps, PostEndsKeeps, PostRetryKeeps, MainKeeps, WorkerKeeps
     DEF NetFault
<1>11. CASE AgentFault
  BY <1>11, MainCrashKeeps, WorkerCrashKeeps, WorkerKeeps, NotifyKeeps DEF AgentFault
<1>. QED
  BY <1>1, <1>2, <1>3, <1>4, <1>5, <1>6, <1>7, <1>8, <1>9, <1>10, <1>11 DEF Next

\* The invariant holds for every number of agents, executions, tries, restarts
\* and limits, whichever events cross the normal course of the work.
THEOREM InvHolds == Spec => []Inv
<1>1. Inv /\ [Next]_vars => Inv'
  BY NextInv
<1>. QED
  BY <1>1, InitInv, PTL DEF Spec

\* A row that has not left PREPARE_COMPLETE belongs to no agent: neither a late
\* answer nor a repeated fetch puts it into one's hands before it is marked.
THEOREM OfferIsUntaken == Spec => []OfferedIsUntaken
<1>1. Inv => OfferedIsUntaken
  BY DEF Inv, EarlyIsFresh, Early, Fresh, Untouched, OfferedIsUntaken
<1>. QED
  BY <1>1, InvHolds, PTL

\* COMPLETE is only said of an execution whose runner ended with rc 0.
THEOREM CompletionIsTrue == Spec => []NoFalseCompletion
<1>1. Inv => NoFalseCompletion
  BY DEF Inv
<1>. QED
  BY <1>1, InvHolds, PTL

\* SCRAM is only said of an execution the user stopped and whose runner stopped.
THEOREM ScramIsTrue == Spec => []ScramIsGenuine
<1>1. Inv => ScramIsGenuine
  BY DEF Inv
<1>. QED
  BY <1>1, InvHolds, PTL
=============================================================================
