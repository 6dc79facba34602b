--------------------------- MODULE CollectionProofs ---------------------------
(* Nothing lost and nothing twice in OaseCollection, for any messages, names   *)
(* and bounds.                                                                 *)
EXTENDS OaseCollection, FiniteSetTheorems, TLAPS

Passes == [pc : AgentPlaces, at : 0..LastSecond, got : SUBSET Messages, times : SUBSET Seconds]

CollectionTyped ==
    /\ second \in Seconds
    /\ shown \in [Messages -> 0..LastSecond]
    /\ saved \in [Messages -> [at : 0..LastSecond, sent : BOOLEAN]]
    /\ fetches \in [Seconds -> {"none", "unsent", "sent"}]
    /\ lastFetch \in Seconds
    /\ agent \in Passes /\ (agent.pc = "save" => agent.at \in Seconds)
    /\ host \in Hosts
    /\ posts \subseteq Posts
    /\ labelled \in [Messages -> Nat]
    /\ progress \in [Hosts -> 0..LastSecond]
    /\ doubtful \in BOOLEAN /\ untidy \in BOOLEAN
    /\ mishaps \in 0..MaxMishaps

\* Nothing that was fetched, posted or recorded is younger than the last fetch.
InTime ==
    /\ lastFetch <= second
    /\ \A m \in Messages : shown[m] <= second
    /\ \A m \in Messages : saved[m].at <= lastFetch
    /\ \A m \in Messages : saved[m].at = 0 => saved[m] = NoRow
    /\ \A t \in Seconds : fetches[t] /= "none" => t <= lastFetch
    /\ \A h \in Hosts : progress[h] <= lastFetch
    /\ \A p \in posts : \A t \in p.times : t <= lastFetch
    /\ \A t \in agent.times : t <= lastFetch

\* At most one request is waited for, and a request finds what it reports.
PostsFit ==
    /\ \A p \in posts : p.live => agent.pc = "wait"
    /\ \A p, q \in posts : p.live /\ q.live => p = q
    /\ \A p \in posts : \A f \in p.found : f[2] \in p.times

\* What a call brought is what was shown since the last fetch and is not kept.
GotFits == agent.pc = "save" =>
    /\ lastFetch < agent.at /\ agent.at <= second
    /\ \A m \in agent.got : m \notin Kept /\ shown[m] >= lastFetch /\ shown[m] <= agent.at
    /\ \A m \in Messages \ agent.got : shown[m] >= lastFetch /\ shown[m] < agent.at => m \in Kept

-----------------------------------------------------------------------------
(* A file that was cleaned in time. *)

\* An unsent row's fetch is unsent, and no row is without a fetch.
RowsHaveFetches ==
    /\ \A m \in Unsent : fetches[saved[m].at] = "unsent"
    /\ \A m \in Kept : fetches[saved[m].at] /= "none"

\* A request carries all unsent fetches, and what is left to clean up is cleaned
\* up while nothing is unsent.
FetchesFit ==
    /\ agent.pc \in {"wait", "answered", "mark"} => agent.times = Fetched("unsent")
    /\ agent.pc = "mark" => Unsent = {}
    /\ Fetched("sent") /= Remaining => agent.pc = "clean" /\ Fetched("unsent") = {}

Carried(p, m) == p.pc \in {"new", "checked"} /\ <<m, saved[m].at>> \in p.found

\* What was sent, answered or recorded is stored; and what a request would record
\* or have marked is stored or about to be.
StoredBefore ==
    /\ \A m \in Kept : saved[m].sent => labelled[m] > 0
    /\ agent.pc = "answered" => \A m \in Unsent : labelled[m] > 0
    /\ \A m \in Kept, h \in Hosts : saved[m].at <= progress[h] => labelled[m] > 0
    /\ \A p \in posts : \A m \in Kept : \A t \in p.times :
         saved[m].at <= t => labelled[m] > 0 \/ Carried(p, m)
    /\ \A p \in posts : p.live => \A m \in Unsent : labelled[m] > 0 \/ Carried(p, m)

Tidy == RowsHaveFetches /\ FetchesFit /\ StoredBefore /\ NothingLost

CollectionInv == CollectionTyped /\ InTime /\ PostsFit /\ GotFits /\ (untidy \/ Tidy)

-----------------------------------------------------------------------------
(* Fetches that did not come in again before they were recorded. *)

Recorded(t) == \/ \E h \in Hosts : t <= progress[h]
               \/ \E q \in posts : q.pc = "written" /\ t \in q.times

\* A message that was fetched is told by its row, or is too old for another call.
Known(m) == shown[m] > 0 /\ (m \in Kept \/ shown[m] < lastFetch)

\* A message has one fetch: its row and all requests name the same.
OneFetch ==
    /\ \A m \in Kept : Known(m) /\ shown[m] <= saved[m].at
    /\ \A m \in Messages : labelled[m] > 0 => Known(m)
    /\ \A p \in posts : \A f \in p.found :
         Known(f[1]) /\ (f[1] \in Kept => saved[f[1]].at = f[2])
    /\ \A p, q \in posts : \A f \in p.found, g \in q.found : f[1] = g[1] => f[2] = g[2]

\* One request is at work, on what is not stored; and what is stored is recorded
\* or will be.
StoredOnce ==
    /\ \A p, q \in posts : AtWork(p) /\ AtWork(q) => p = q
    /\ \A p \in posts : p.pc = "checked" => \A f \in p.found : labelled[f[1]] = 0
    /\ \A m \in Kept : labelled[m] > 0 => Recorded(saved[m].at)
    /\ \A p \in posts : p.pc = "new" =>
         \A f \in p.found : labelled[f[1]] > 0 => Recorded(f[2])
    /\ \A m \in Messages : labelled[m] <= 1

OnceInv == doubtful \/ untidy \/ (OneFetch /\ StoredOnce)

-----------------------------------------------------------------------------
LEMMA AgentRests == AgentAtRest \in Passes /\ AgentAtRest.pc = "idle"
BY CollectionAssumption DEF AgentAtRest, Passes, AgentPlaces

LEMMA CollectionInvInit == CollectionInit => CollectionInv /\ OnceInv
<1> SUFFICES ASSUME CollectionInit PROVE CollectionInv /\ OnceInv
  OBVIOUS
<1> USE CollectionAssumption
<1>1. Kept = {} /\ Unsent = {} /\ posts = {} /\ ~untidy /\ ~doubtful
  BY DEF CollectionInit, Kept, Unsent
<1>2. CollectionTyped
  <2>1. doubtful \in BOOLEAN /\ untidy \in BOOLEAN
    BY DEF CollectionInit
  <2>2. second \in Seconds /\ lastFetch \in Seconds /\ host \in Hosts /\ mishaps \in 0..MaxMishaps
    BY DEF CollectionInit, Seconds, Hosts
  <2>3. /\ shown \in [Messages -> 0..LastSecond] /\ labelled \in [Messages -> Nat]
        /\ progress \in [Hosts -> 0..LastSecond]
        /\ saved \in [Messages -> [at : 0..LastSecond, sent : BOOLEAN]]
        /\ fetches \in [Seconds -> {"none", "unsent", "sent"}]
    BY DEF CollectionInit, NoRow
  <2> QED
    BY <1>1, <2>1, <2>2, <2>3, AgentRests DEF CollectionInit, CollectionTyped
<1>3. InTime
  BY DEF CollectionInit, InTime, Seconds, Hosts, NoRow, AgentAtRest
<1>4. PostsFit /\ GotFits
  BY <1>1 DEF CollectionInit, PostsFit, GotFits, AgentAtRest
<1>5. RowsHaveFetches /\ StoredBefore /\ NothingLost
  BY <1>1 DEF CollectionInit, RowsHaveFetches, StoredBefore, NothingLost, AgentAtRest
<1>6. Fetched("sent") = {}
  BY DEF CollectionInit, Fetched
<1>7. FetchesFit
  BY <1>6 DEF CollectionInit, FetchesFit, Remaining, AgentAtRest
<1>8. OneFetch /\ StoredOnce
  BY <1>1 DEF CollectionInit, OneFetch, StoredOnce
<1> QED
  BY <1>2, <1>3, <1>4, <1>5, <1>7, <1>8 DEF CollectionInv, Tidy, OnceInv

-----------------------------------------------------------------------------
(* Types. *)

LEMMA RequestFields ==
  ASSUME CollectionTyped, NEW p \in posts
  PROVE  /\ p.pc \in {"new", "checked", "written", "done"} /\ p.live \in BOOLEAN
         /\ p.host \in Hosts /\ p.times \subseteq Seconds
         /\ p.found \subseteq Messages \X Seconds
BY DEF CollectionTyped, Posts

LEMMA RequestsTyped ==
  ASSUME CollectionTyped, NEW p \in posts
  PROVE  /\ p \in Posts
         /\ \A pc \in {"new", "checked", "written", "done"} : [p EXCEPT !.pc = pc] \in Posts
         /\ [p EXCEPT !.live = FALSE] \in Posts
         /\ \A pc \in {"new", "checked", "written", "done"},
               ts \in SUBSET p.times, fs \in SUBSET p.found :
              [p EXCEPT !.pc = pc, !.times = ts, !.found = fs] \in Posts
<1>1. p \in Posts
  BY DEF CollectionTyped
<1>2. \A pc \in {"new", "checked", "written", "done"} : [p EXCEPT !.pc = pc] \in Posts
  BY <1>1 DEF Posts
<1>3. [p EXCEPT !.live = FALSE] \in Posts
  BY <1>1 DEF Posts
<1>4. ASSUME NEW pc \in {"new", "checked", "written", "done"},
             NEW ts \in SUBSET p.times, NEW fs \in SUBSET p.found
      PROVE  [p EXCEPT !.pc = pc, !.times = ts, !.found = fs] \in Posts
  <2>1. ts \in SUBSET Seconds /\ fs \in SUBSET (Messages \X Seconds)
    BY <1>1 DEF Posts
  <2> QED
    BY <1>1, <2>1 DEF Posts
<1> QED
  BY <1>1, <1>2, <1>3, <1>4

LEMMA AgentComes ==
  ASSUME agent \in Passes, NEW pc \in AgentPlaces, Comes(pc)
  PROVE  agent' \in Passes /\ agent'.pc = pc
<1>1. CASE pc = "clean"
  BY <1>1 DEF Comes, Passes
<1>2. CASE pc /= "clean"
  BY <1>2 DEF Comes, Passes
<1> QED
  BY <1>1, <1>2

LEMMA AgentStepTyped ==
  ASSUME CollectionTyped,
         FetchNothing \/ Call \/ Save \/ SendRequest \/ MarkEvents \/ MarkFetches \/ Clean
  PROVE  CollectionTyped'
<1> USE CollectionAssumption DEF CollectionTyped, source, disk, receiver
<1>1. CASE FetchNothing
  <2>1. agent' \in Passes /\ agent'.pc = "send"
    BY <1>1, AgentComes DEF FetchNothing, AgentPlaces
  <2> QED
    BY <1>1, <2>1 DEF FetchNothing
<1>2. CASE Call
  <2>1. agent' \in Passes /\ agent'.at \in Seconds
    <3>1. PICK got \in SUBSET Messages :
            agent' = [agent EXCEPT !.pc = "save", !.at = second, !.got = got]
      BY <1>2 DEF Call, CallFor
    <3>2. "save" \in AgentPlaces /\ second \in 0..LastSecond
      BY DEF AgentPlaces, Seconds
    <3>3. agent'.at = second
      BY <3>1 DEF Passes
    <3> QED
      BY <3>1, <3>2, <3>3 DEF Passes
  <2>2. UNCHANGED <<source, disk, host, receiver, untidy, mishaps>>
    BY <1>2 DEF Call, CallFor
  <2> QED
    BY <2>1, <2>2
<1>3. CASE Save
  <2>1. agent' \in Passes /\ agent'.pc = "send"
    <3>1. agent' = [agent EXCEPT !.pc = "send", !.at = 0, !.got = {}]
      BY <1>3 DEF Save, SaveAt
    <3>2. {} \in SUBSET Messages /\ 0 \in 0..LastSecond /\ "send" \in AgentPlaces
      BY DEF AgentPlaces
    <3> QED
      BY <3>1, <3>2 DEF Passes
  <2>2. saved' \in [Messages -> [at : 0..LastSecond, sent : BOOLEAN]]
    BY <1>3 DEF Save, SaveAt, Passes
  <2>3. fetches' \in [Seconds -> {"none", "unsent", "sent"}] /\ lastFetch' \in Seconds
    BY <1>3 DEF Save, SaveAt
  <2>4. UNCHANGED <<source, host, receiver, untidy, mishaps>>
    BY <1>3 DEF Save, SaveAt
  <2> QED
    BY <2>1, <2>2, <2>3, <2>4
<1>4. CASE SendRequest
  <2>1. Fetched("unsent") \in SUBSET Seconds
    BY DEF Fetched
  <2>2. {<<m, saved[m].at>> : m \in {n \in Unsent : saved[n].at \in Fetched("unsent")}}
          \in SUBSET (Messages \X Seconds)
    BY <2>1 DEF Unsent, Kept
  <2>3. posts' \subseteq Posts
    <3>1. PICK p : /\ posts' = posts \cup {p}
                   /\ p = [pc |-> "new", live |-> TRUE, host |-> host, times |-> Fetched("unsent"),
                           found |-> {<<m, saved[m].at>> :
                             m \in {n \in Unsent : saved[n].at \in Fetched("unsent")}}]
      BY <1>4 DEF SendRequest
    <3>2. p \in Posts
      BY <3>1, <2>1, <2>2 DEF Posts
    <3> QED
      BY <3>1, <3>2
  <2>4. agent' \in Passes /\ agent'.pc = "wait"
    BY <1>4, <2>1 DEF SendRequest, AgentPlaces, Passes
  <2> QED
    BY <1>4, <2>3, <2>4 DEF SendRequest
<1>5. CASE MarkEvents
  <2>1. agent' \in Passes /\ agent'.pc = "mark"
    BY <1>5, AgentComes DEF MarkEvents, AgentPlaces
  <2> QED
    BY <1>5, <2>1 DEF MarkEvents
<1>6. CASE MarkFetches
  <2>1. agent' \in Passes /\ agent'.pc = "clean"
    BY <1>6 DEF MarkFetches, AgentPlaces, Passes
  <2> QED
    BY <1>6, <2>1 DEF MarkFetches
<1>7. CASE Clean
  <2>1. saved' \in [Messages -> [at : 0..LastSecond, sent : BOOLEAN]]
    <3>1. NoRow \in [at : 0..LastSecond, sent : BOOLEAN]
      BY DEF NoRow
    <3> QED
      BY <1>7, <3>1 DEF Clean
  <2>2. fetches' \in [Seconds -> {"none", "unsent", "sent"}] /\ lastFetch' = lastFetch
    BY <1>7 DEF Clean
  <2> QED
    BY <1>7, <2>1, <2>2, AgentRests DEF Clean
<1> QED
  BY <1>1, <1>2, <1>3, <1>4, <1>5, <1>6, <1>7

LEMMA RequestEndTyped ==
  ASSUME CollectionTyped, NEW p \in posts, NEW pc \in {"answered", "clean"},
         RequestEnds(p, pc)
  PROVE  posts' \subseteq Posts /\ agent' \in Passes
         /\ (agent'.pc = "save" => agent'.at \in Seconds)
<1>1. pc \in AgentPlaces
  BY DEF AgentPlaces
<1> QED
  BY <1>1, AgentComes DEF CollectionTyped, RequestEnds

LEMMA OtherStepTyped ==
  ASSUME CollectionTyped, CollectionNext, ~AgentSteps
  PROVE  CollectionTyped'
<1> USE CollectionAssumption DEF source, disk, receiver
<1>1. CASE Tick
  BY <1>1 DEF CollectionTyped, Tick, Seconds
<1>2. ASSUME NEW m \in Messages, Show(m) PROVE CollectionTyped'
  BY <1>2 DEF CollectionTyped, Show, Seconds
<1>3. CASE GiveUp
  <2>1. posts' \subseteq Posts
    BY <1>3, RequestsTyped DEF GiveUp
  <2> QED
    BY <1>3, <2>1, AgentComes DEF CollectionTyped, GiveUp, Mishap, AgentPlaces
<1>4. CASE AgentDies
  <2>1. posts' \subseteq Posts
    BY <1>4, RequestsTyped DEF AgentDies
  <2> QED
    BY <1>4, <2>1, AgentRests DEF CollectionTyped, AgentDies, Mishap
<1>5. ASSUME NEW p \in posts, CheckFetches(p) PROVE CollectionTyped'
  <2> DEFINE new == {t \in p.times : t > progress[p.host]}
             found == {f \in p.found : f[2] \in new}
  <2>1. posts' \subseteq Posts
    <3>1. \A pc \in {"new", "checked", "written", "done"} :
            [p EXCEPT !.pc = pc, !.times = new, !.found = found] \in Posts
      BY RequestsTyped
    <3> QED
      BY <1>5, <3>1 DEF CheckFetches, CheckFrom, Stays, CollectionTyped
  <2> QED
    BY <1>5, <2>1 DEF CollectionTyped, CheckFetches, CheckFrom, Unrecorded
<1>6. ASSUME NEW p \in posts, StoreEvents(p) PROVE CollectionTyped'
  <2>1. labelled' \in [Messages -> Nat]
    BY <1>6 DEF CollectionTyped, StoreEvents, Inserted
  <2>2. posts' \subseteq Posts
    BY <1>6, RequestsTyped DEF CollectionTyped, StoreEvents, Stays
  <2> QED
    BY <1>6, <2>1, <2>2 DEF CollectionTyped, StoreEvents
<1>7. ASSUME NEW p \in posts, RecordFetches(p) PROVE CollectionTyped'
  <2>1. p.times \subseteq 0..LastSecond /\ p.host \in Hosts
    BY RequestFields DEF Seconds
  <2>2. progress' \in [Hosts -> 0..LastSecond]
    <3>1. PICK latest \in p.times \cup {progress[p.host]} :
            progress' = [progress EXCEPT ![p.host] = latest]
      BY <1>7 DEF RecordFetches
    <3>2. latest \in 0..LastSecond
      BY <2>1, <3>1 DEF CollectionTyped
    <3> QED
      BY <2>1, <3>1, <3>2 DEF CollectionTyped
  <2>3. posts' \subseteq Posts
    BY <1>7, RequestsTyped DEF CollectionTyped, RecordFetches, Stays
  <2> QED
    BY <1>7, <2>2, <2>3 DEF CollectionTyped, RecordFetches
<1>8. ASSUME NEW p \in posts, Reply(p) PROVE CollectionTyped'
  BY <1>8, RequestEndTyped DEF CollectionTyped, Reply
<1>9. ASSUME NEW p \in posts, ReplyLost(p) PROVE CollectionTyped'
  BY <1>9, RequestEndTyped DEF CollectionTyped, ReplyLost, Mishap
<1>10. ASSUME NEW p \in posts, ReceiverFails(p) PROVE CollectionTyped'
  <2>1. labelled' \in [Messages -> Nat]
    BY <1>10 DEF CollectionTyped, ReceiverFails, Inserted
  <2>2. doubtful' \in BOOLEAN
    BY <1>10 DEF CollectionTyped, ReceiverFails
  <2> QED
    BY <1>10, <2>1, <2>2, RequestEndTyped DEF CollectionTyped, ReceiverFails, Mishap
<1> QED
  BY <1>1, <1>2, <1>3, <1>4, <1>5, <1>6, <1>7, <1>8, <1>9, <1>10
     DEF CollectionNext, ReceiverSteps

\* Rows, fetches, requests and what the receiver counted stay what they are, over
\* losses and restarts on either side.
THEOREM CollectedTypes == CollectionSpec => []CollectionTyped
<1>1. CollectionTyped /\ [CollectionNext]_collectionVars => CollectionTyped'
  <2> SUFFICES ASSUME CollectionTyped, [CollectionNext]_collectionVars PROVE CollectionTyped'
    OBVIOUS
  <2>1. CASE AgentSteps
    BY <2>1, AgentStepTyped DEF AgentSteps
  <2>2. CASE CollectionNext /\ ~AgentSteps
    BY <2>2, OtherStepTyped
  <2>3. CASE UNCHANGED collectionVars
    BY <2>3 DEF CollectionTyped, collectionVars, source, disk, receiver
  <2> QED
    BY <2>1, <2>2, <2>3
<1> QED
  BY <1>1, CollectionInvInit, PTL DEF CollectionSpec, CollectionInv

-----------------------------------------------------------------------------
(* Times, requests and what a call brought, whatever was left uncleaned. *)

\* All requests but a new one come from earlier ones that report no less.
LEMMA RequestsShrink ==
  ASSUME CollectionTyped, CollectionNext, ~SendRequest
  PROVE  \A q \in posts' : \E p \in posts :
           /\ q.times \subseteq p.times /\ q.found \subseteq p.found
           /\ q.live => p.live
<1> DEFINE From(q, p) == /\ q.times \subseteq p.times /\ q.found \subseteq p.found
                         /\ q.live => p.live
<1> SUFFICES \A q \in posts' : \E p \in posts : From(q, p)
  OBVIOUS
<1>1. CASE posts' \subseteq posts
  BY <1>1
<1>2. CASE posts' = {[p EXCEPT !.live = FALSE] : p \in posts}
  <2>1. \A p \in posts : From([p EXCEPT !.live = FALSE], p)
    BY DEF CollectionTyped, Posts
  <2> HIDE DEF From
  <2> QED
    BY <1>2, <2>1
<1>3. ASSUME NEW p \in posts, NEW q, Stays(p, q), From(q, p)
      PROVE  \A r \in posts' : \E o \in posts : From(r, o)
  BY <1>3 DEF Stays
<1>4. ASSUME NEW p \in posts, CheckFetches(p)
      PROVE  \A r \in posts' : \E o \in posts : From(r, o)
  <2> DEFINE new == {t \in p.times : t > progress[p.host]}
             found == {f \in p.found : f[2] \in new}
  <2>1. PICK pc : Stays(p, [p EXCEPT !.pc = pc, !.times = new, !.found = found])
    BY <1>4 DEF CheckFetches, CheckFrom
  <2>2. From([p EXCEPT !.pc = pc, !.times = new, !.found = found], p)
    BY DEF CollectionTyped, Posts
  <2> HIDE DEF From
  <2> QED
    BY <1>3, <2>1, <2>2
<1>5. ASSUME NEW p \in posts, StoreEvents(p) \/ RecordFetches(p)
      PROVE  \A r \in posts' : \E o \in posts : From(r, o)
  <2>1. PICK pc : Stays(p, [p EXCEPT !.pc = pc])
    BY <1>5 DEF StoreEvents, RecordFetches
  <2>2. From([p EXCEPT !.pc = pc], p)
    BY DEF CollectionTyped, Posts
  <2> HIDE DEF From
  <2> QED
    BY <1>3, <2>1, <2>2
<1>6. ASSUME NEW p \in posts, Reply(p) \/ ReplyLost(p) \/ ReceiverFails(p)
      PROVE  posts' \subseteq posts
  BY <1>6 DEF Reply, ReplyLost, ReceiverFails, RequestEnds
<1>7. CASE AgentSteps
  BY <1>1, <1>7 DEF AgentSteps, FetchNothing, Call, CallFor, Save, SaveAt, MarkEvents, MarkFetches,
                    Clean, receiver
<1>8. CASE Tick \/ \E m \in Messages : Show(m)
  BY <1>1, <1>8 DEF Tick, Show, receiver
<1>9. CASE GiveUp \/ AgentDies
  BY <1>2, <1>9 DEF GiveUp, AgentDies
<1> HIDE DEF From
<1> QED
  BY <1>1, <1>4, <1>5, <1>6, <1>7, <1>8, <1>9 DEF CollectionNext, ReceiverSteps

LEMMA TimesShrink ==
  ASSUME CollectionTyped, CollectionNext, ~SendRequest
  PROVE  agent'.times \subseteq agent.times
<1>1. ASSUME NEW pc, Comes(pc) PROVE agent'.times \subseteq agent.times
  BY <1>1 DEF Comes, CollectionTyped, Passes
<1>2. ASSUME NEW p \in posts, NEW pc, RequestEnds(p, pc) PROVE agent'.times \subseteq agent.times
  BY <1>1, <1>2 DEF RequestEnds
<1>3. CASE FetchNothing \/ MarkEvents \/ GiveUp
  BY <1>1, <1>3 DEF FetchNothing, MarkEvents, GiveUp
<1>4. CASE Call \/ Save \/ MarkFetches
  BY <1>4 DEF Call, CallFor, Save, SaveAt, MarkFetches, CollectionTyped, Passes
<1>5. CASE Clean \/ AgentDies
  BY <1>5 DEF Clean, AgentDies, AgentAtRest
<1>6. ASSUME NEW p \in posts, Reply(p) \/ ReplyLost(p) \/ ReceiverFails(p)
      PROVE  agent'.times \subseteq agent.times
  BY <1>2, <1>6 DEF Reply, ReplyLost, ReceiverFails
<1>7. ASSUME NEW p \in posts, CheckFetches(p) \/ StoreEvents(p) \/ RecordFetches(p)
      PROVE  agent'.times \subseteq agent.times
  BY <1>7 DEF CheckFetches, CheckFrom, StoreEvents, RecordFetches
<1>8. CASE Tick \/ \E m \in Messages : Show(m)
  BY <1>8 DEF Tick, Show
<1> QED
  BY <1>3, <1>4, <1>5, <1>6, <1>7, <1>8 DEF CollectionNext, AgentSteps, ReceiverSteps

\* The steps that leave clock, file and records alone.
Aside == \/ FetchNothing \/ Call \/ GiveUp \/ AgentDies
         \/ \E p \in posts : \/ CheckFetches(p) \/ StoreEvents(p) \/ Reply(p)
                            \/ ReplyLost(p) \/ ReceiverFails(p)

LEMMA AsideKeeps ==
  ASSUME Aside PROVE UNCHANGED <<source, disk, progress>>
BY DEF Aside, FetchNothing, Call, CallFor, GiveUp, AgentDies, CheckFetches, CheckFrom, StoreEvents,
       Reply, ReplyLost, ReceiverFails, receiver

LEMMA InTimeStep ==
  ASSUME CollectionTyped, CollectionTyped', InTime, GotFits, CollectionNext
  PROVE  InTime'
<1> USE CollectionAssumption
<1>1. CASE SendRequest
  <2>1. UNCHANGED <<source, disk, progress>>
    BY <1>1 DEF SendRequest
  <2>2. \A p \in posts' : p \in posts \/ p.times = Fetched("unsent")
    BY <1>1 DEF SendRequest
  <2>3. agent'.times = Fetched("unsent")
    BY <1>1 DEF SendRequest, CollectionTyped, Passes
  <2>4. /\ \A p \in posts' : \A t \in p.times : t <= lastFetch
        /\ \A t \in agent'.times : t <= lastFetch
    BY <2>2, <2>3 DEF InTime, Fetched
  <2> QED
    BY <2>1, <2>4 DEF InTime, source, disk
<1>2. SUFFICES ASSUME ~SendRequest PROVE InTime'
  BY <1>1
<1>3. /\ \A p \in posts' : \A t \in p.times : t <= lastFetch
      /\ \A t \in agent'.times : t <= lastFetch
  BY <1>2, RequestsShrink, TimesShrink DEF InTime
<1>4. CASE Tick
  BY <1>3, <1>4 DEF CollectionTyped, InTime, Tick, disk, receiver, Seconds
<1>5. ASSUME NEW m \in Messages, Show(m) PROVE InTime'
  BY <1>3, <1>5 DEF CollectionTyped, InTime, Show, disk, receiver, Seconds
<1>6. CASE Save
  <2>1. lastFetch < agent.at /\ agent.at <= second /\ agent.at \in Seconds
    BY <1>6 DEF Save, SaveAt, GotFits, CollectionTyped
  <2>2. UNCHANGED <<second, shown, progress, posts>> /\ lastFetch' = agent.at
    BY <1>6 DEF Save, SaveAt, source, receiver
  <2>3. \A m \in Messages : /\ saved'[m].at <= lastFetch'
                            /\ saved'[m].at = 0 => saved'[m] = NoRow
    BY <1>6, <2>1, <2>2 DEF CollectionTyped, InTime, Save, SaveAt, Seconds
  <2>4. \A t \in Seconds : fetches'[t] /= "none" => t <= lastFetch'
    BY <1>6, <2>1, <2>2 DEF CollectionTyped, InTime, Save, SaveAt, Seconds
  <2>5. /\ \A h \in Hosts : progress[h] <= agent.at
        /\ \A p \in posts : \A t \in p.times : t <= agent.at
        /\ \A t \in agent'.times : t <= agent.at
    <3>1. (\A p \in posts : p.times \subseteq Seconds) /\ agent'.times \subseteq Seconds
      BY RequestFields DEF CollectionTyped, Passes
    <3> QED
      BY <1>3, <2>1, <2>2, <3>1 DEF CollectionTyped, InTime, Seconds
  <2> QED
    BY <2>1, <2>2, <2>3, <2>4, <2>5 DEF InTime, CollectionTyped
<1>7. CASE MarkEvents
  <2>1. \A m \in Messages : saved'[m].at = saved[m].at /\ (saved'[m] = saved[m] \/ m \in Kept)
    BY <1>7 DEF MarkEvents, CollectionTyped, Unsent
  <2> QED
    BY <1>3, <1>7, <2>1 DEF MarkEvents, InTime, source, receiver, Kept
<1>8. CASE MarkFetches
  BY <1>3, <1>8 DEF MarkFetches, CollectionTyped, InTime, source, receiver
<1>9. CASE Clean
  <2>1. \A m \in Messages : saved'[m] = NoRow \/ saved'[m] = saved[m]
    BY <1>9 DEF Clean, CollectionTyped, disk
  <2>2. \A t \in Seconds : fetches'[t] /= "none" => fetches[t] /= "none"
    BY <1>9 DEF Clean, CollectionTyped, disk, Remaining, Fetched
  <2>3. UNCHANGED <<second, shown, lastFetch, progress, posts>>
    BY <1>9 DEF Clean, source, disk, receiver
  <2>4. \A m \in Messages : /\ saved'[m].at <= lastFetch'
                            /\ saved'[m].at = 0 => saved'[m] = NoRow
    BY <2>1, <2>3 DEF InTime, NoRow, CollectionTyped, Seconds
  <2>5. \A t \in Seconds : fetches'[t] /= "none" => t <= lastFetch'
    BY <2>2, <2>3 DEF InTime
  <2> QED
    BY <1>3, <2>3, <2>4, <2>5 DEF InTime
<1>10. ASSUME NEW p \in posts, RecordFetches(p) PROVE InTime'
  <2>1. UNCHANGED <<source, disk>>
    BY <1>10 DEF RecordFetches
  <2>2. \A h \in Hosts : progress'[h] <= lastFetch
    BY <1>10, RequestFields DEF RecordFetches, InTime, CollectionTyped
  <2> QED
    BY <1>3, <2>1, <2>2 DEF InTime, source, disk
<1>11. CASE Aside
  <2>1. UNCHANGED <<source, disk, progress>>
    BY <1>11, AsideKeeps
  <2> QED
    BY <1>3, <2>1 DEF InTime, source, disk
<1> QED
  BY <1>2, <1>4, <1>5, <1>6, <1>7, <1>8, <1>9, <1>10, <1>11
     DEF CollectionNext, AgentSteps, ReceiverSteps, Aside

LEMMA PostsFitStep ==
  ASSUME CollectionTyped, CollectionTyped', PostsFit, CollectionNext
  PROVE  PostsFit'
<1>1. CASE SendRequest
  <2>1. PICK q : /\ posts' = posts \cup {q} /\ q.live
                 /\ \A f \in q.found : f[2] \in q.times
    <3> DEFINE new == [pc |-> "new", live |-> TRUE, host |-> host, times |-> Fetched("unsent"),
                       found |-> {<<m, saved[m].at>> :
                         m \in {n \in Unsent : saved[n].at \in Fetched("unsent")}}]
    <3>1. posts' = posts \cup {new}
      BY <1>1 DEF SendRequest
    <3>2. new.live /\ \A f \in new.found : f[2] \in new.times
      OBVIOUS
    <3> HIDE DEF new
    <3> QED
      BY <3>1, <3>2
  <2>2. agent.pc = "send" /\ agent'.pc = "wait"
    BY <1>1 DEF SendRequest, CollectionTyped, Passes
  <2>3. \A p \in posts : ~p.live
    BY <2>2 DEF PostsFit
  <2> QED
    BY <2>1, <2>2, <2>3 DEF PostsFit
<1>2. SUFFICES ASSUME ~SendRequest PROVE PostsFit'
  BY <1>1
<1>3. ASSUME UNCHANGED posts, \A p \in posts : ~p.live PROVE PostsFit'
  BY <1>3 DEF PostsFit
<1>4. ASSUME UNCHANGED <<posts, agent>> PROVE PostsFit'
  BY <1>4 DEF PostsFit
<1>5. ASSUME posts' = {[p EXCEPT !.live = FALSE] : p \in posts} PROVE PostsFit'
  <2>1. \A q \in posts' : ~q.live /\ \E p \in posts : q.times = p.times /\ q.found = p.found
    BY <1>5 DEF CollectionTyped, Posts
  <2> QED
    BY <2>1 DEF PostsFit
<1>6. ASSUME NEW p \in posts, NEW q, Stays(p, q), UNCHANGED agent, q.live => p.live,
             \A f \in q.found : f[2] \in q.times
      PROVE  PostsFit'
  BY <1>6 DEF Stays, PostsFit
<1>7. ASSUME NEW p \in posts, NEW pc, RequestEnds(p, pc) PROVE PostsFit'
  <2>1. p.live => \A q \in posts' : ~q.live
    BY <1>7 DEF RequestEnds, PostsFit
  <2> QED
    BY <1>7, <2>1 DEF RequestEnds, PostsFit
<1>8. CASE AgentSteps
  <2>1. UNCHANGED posts /\ agent.pc /= "wait"
    BY <1>2, <1>8 DEF AgentSteps, FetchNothing, Call, CallFor, Save, SaveAt, MarkEvents, MarkFetches,
                      Clean, receiver
  <2> QED
    BY <1>3, <2>1 DEF PostsFit
<1>9. CASE Tick \/ \E m \in Messages : Show(m)
  BY <1>4, <1>9 DEF Tick, Show, receiver
<1>10. CASE GiveUp \/ AgentDies
  BY <1>5, <1>10 DEF GiveUp, AgentDies
<1>11. ASSUME NEW p \in posts, CheckFetches(p) PROVE PostsFit'
  <2> DEFINE new == {t \in p.times : t > progress[p.host]}
             found == {f \in p.found : f[2] \in new}
  <2>1. PICK pc : Stays(p, [p EXCEPT !.pc = pc, !.times = new, !.found = found])
    BY <1>11 DEF CheckFetches, CheckFrom
  <2>2. \A f \in found : f[2] \in new
    OBVIOUS
  <2>3. UNCHANGED agent
    BY <1>11 DEF CheckFetches, CheckFrom
  <2> HIDE DEF new, found
  <2> DEFINE q == [p EXCEPT !.pc = pc, !.times = new, !.found = found]
  <2>4. (q.live => p.live) /\ q.times = new /\ q.found = found
    BY DEF CollectionTyped, Posts
  <2>5. Stays(p, q)
    BY <2>1
  <2> HIDE DEF q
  <2> QED
    BY <1>6, <2>2, <2>3, <2>4, <2>5
<1>12. ASSUME NEW p \in posts, StoreEvents(p) \/ RecordFetches(p) PROVE PostsFit'
  <2>1. PICK pc : Stays(p, [p EXCEPT !.pc = pc])
    BY <1>12 DEF StoreEvents, RecordFetches
  <2>2. PICK q : Stays(p, q) /\ (q.live => p.live) /\ q.times = p.times /\ q.found = p.found
    BY <2>1 DEF CollectionTyped, Posts
  <2>3. \A f \in q.found : f[2] \in q.times
    BY <2>2 DEF PostsFit
  <2> QED
    BY <1>6, <1>12, <2>2, <2>3 DEF StoreEvents, RecordFetches
<1>13. ASSUME NEW p \in posts, Reply(p) \/ ReplyLost(p) \/ ReceiverFails(p) PROVE PostsFit'
  BY <1>7, <1>13 DEF Reply, ReplyLost, ReceiverFails
<1> QED
  BY <1>8, <1>9, <1>10, <1>11, <1>12, <1>13 DEF CollectionNext, ReceiverSteps

\* Where its steps bring the agent.
LEMMA AgentGoes ==
  ASSUME CollectionTyped
  PROVE  /\ FetchNothing \/ Save => agent'.pc = "send"
         /\ Call => agent'.pc = "save"
         /\ SendRequest => agent'.pc = "wait"
         /\ MarkEvents => agent'.pc = "mark"
         /\ MarkFetches \/ GiveUp => agent'.pc = "clean"
         /\ Clean \/ AgentDies => agent'.pc = "idle"
         /\ \A p, pc : RequestEnds(p, pc) => agent' = agent \/ agent'.pc = pc
<1>1. ASSUME NEW pc, Comes(pc) PROVE agent'.pc = pc
  BY <1>1 DEF Comes, CollectionTyped, Passes
<1>2. FetchNothing \/ Save => agent'.pc = "send"
  BY <1>1 DEF FetchNothing, Save, SaveAt, CollectionTyped, Passes
<1>3. Call => agent'.pc = "save"
  BY DEF Call, CallFor, CollectionTyped, Passes
<1>4. SendRequest => agent'.pc = "wait"
  BY DEF SendRequest, CollectionTyped, Passes
<1>5. MarkEvents => agent'.pc = "mark"
  BY <1>1 DEF MarkEvents
<1>6. MarkFetches \/ GiveUp => agent'.pc = "clean"
  BY <1>1 DEF MarkFetches, GiveUp, CollectionTyped, Passes
<1>7. Clean \/ AgentDies => agent'.pc = "idle"
  BY DEF Clean, AgentDies, AgentAtRest
<1>8. \A p, pc : RequestEnds(p, pc) => agent' = agent \/ agent'.pc = pc
  BY <1>1 DEF RequestEnds
<1> QED
  BY <1>2, <1>3, <1>4, <1>5, <1>6, <1>7, <1>8

LEMMA GotFitsStep ==
  ASSUME CollectionTyped, CollectionTyped', InTime, GotFits, CollectionNext
  PROVE  GotFits'
<1> USE CollectionAssumption
<1>1. CASE Call
  <2> DEFINE got == {m \in Messages \ Kept : shown[m] /= 0 /\ shown[m] >= lastFetch}
  <2>1. agent'.at = second /\ agent'.got = got /\ second > lastFetch
    BY <1>1 DEF Call, CallFor, CollectionTyped, Passes
  <2>2. UNCHANGED <<second, shown, saved, lastFetch>>
    BY <1>1 DEF Call, CallFor, source, disk
  <2>3. Kept' = Kept
    BY <2>2 DEF Kept
  <2>4. \A m \in got : m \notin Kept /\ shown[m] >= lastFetch /\ shown[m] <= second
    BY DEF InTime
  <2>5. \A m \in Messages \ got : shown[m] >= lastFetch => m \in Kept
    BY DEF CollectionTyped, Seconds
  <2> HIDE DEF got
  <2> QED
    BY <2>1, <2>2, <2>3, <2>4, <2>5 DEF GotFits, CollectionTyped, Seconds
<1>2. CASE Tick
  BY <1>2 DEF Tick, disk, GotFits, Kept, CollectionTyped, Seconds
<1>3. ASSUME NEW m \in Messages, Show(m) PROVE GotFits'
  <2>1. shown[m] = 0 /\ shown' = [shown EXCEPT ![m] = second]
    BY <1>3 DEF Show
  <2>2. UNCHANGED <<second, saved, lastFetch, agent>> /\ Kept' = Kept
    BY <1>3 DEF Show, disk, Kept
  <2>3. \A n \in Messages \ {m} : shown'[n] = shown[n]
    BY <2>1 DEF CollectionTyped
  <2>4. shown'[m] = second
    BY <2>1 DEF CollectionTyped
  <2> SUFFICES ASSUME agent.pc = "save" PROVE GotFits'
    BY <2>2 DEF GotFits
  <2>5. m \notin agent.got /\ agent.got \subseteq Messages
    <3>1. lastFetch \in Nat \ {0} /\ agent.got \subseteq Messages
      BY DEF CollectionTyped, Passes, Seconds
    <3>2. m \in agent.got => shown[m] >= lastFetch
      BY DEF GotFits
    <3> QED
      BY <2>1, <3>1, <3>2
  <2>6. ~(second < agent.at)
    BY DEF GotFits, CollectionTyped, Passes, Seconds
  <2> QED
    BY <2>2, <2>3, <2>4, <2>5, <2>6 DEF GotFits
<1>4. CASE UNCHANGED <<source, disk>> /\ (agent'.pc = "save" => agent' = agent)
  BY <1>4 DEF source, disk, GotFits, Kept
<1>5. CASE agent'.pc /= "save"
  BY <1>5 DEF GotFits
<1>6. CASE AgentSteps /\ ~Call
  BY <1>5, <1>6, AgentGoes DEF AgentSteps
<1>7. CASE GiveUp \/ AgentDies
  BY <1>5, <1>7, AgentGoes
<1>8. ASSUME NEW p \in posts,
             CheckFetches(p) \/ StoreEvents(p) \/ RecordFetches(p) PROVE GotFits'
  BY <1>4, <1>8 DEF CheckFetches, CheckFrom, StoreEvents, RecordFetches
<1>9. ASSUME NEW p \in posts, Reply(p) \/ ReplyLost(p) \/ ReceiverFails(p) PROVE GotFits'
  <2>1. \E pc \in {"answered", "clean"} : RequestEnds(p, pc)
    BY <1>9 DEF Reply, ReplyLost, ReceiverFails
  <2>2. UNCHANGED <<source, disk>>
    BY <1>9 DEF Reply, ReplyLost, ReceiverFails
  <2> QED
    BY <1>4, <2>1, <2>2, AgentGoes
<1> QED
  BY <1>1, <1>2, <1>3, <1>6, <1>7, <1>8, <1>9 DEF CollectionNext, ReceiverSteps

-----------------------------------------------------------------------------
(* A file that was cleaned in time. *)

LEMMA DiskKept ==
  ASSUME CollectionNext, ~Save, ~MarkEvents, ~MarkFetches, ~Clean
  PROVE  UNCHANGED disk
BY DEF CollectionNext, Tick, Show, AgentSteps, FetchNothing, Call, CallFor, SendRequest, GiveUp,
       AgentDies, ReceiverSteps, CheckFetches, CheckFrom, StoreEvents, RecordFetches, Reply,
       ReplyLost, ReceiverFails

LEMMA UntidyStays ==
  ASSUME CollectionTyped, CollectionNext, ~untidy'
  PROVE  ~untidy /\ (AgentDies => Fetched("sent") = Remaining)
BY DEF CollectionTyped, CollectionNext, Tick, Show, AgentSteps, FetchNothing, Call, CallFor, Save,
       SaveAt, SendRequest, MarkEvents, MarkFetches, Clean, GiveUp, AgentDies, ReceiverSteps,
       CheckFetches, CheckFrom, StoreEvents, RecordFetches, Reply, ReplyLost, ReceiverFails

\* A row is kept under a second, and where no fetch is unsent no row is.
LEMMA KeptAt ==
  ASSUME CollectionTyped, InTime, NEW m \in Kept
  PROVE  m \in Messages /\ saved[m].at \in Seconds
BY DEF CollectionTyped, InTime, Kept, Seconds

LEMMA NoneUnsent ==
  ASSUME CollectionTyped, InTime, RowsHaveFetches, Fetched("unsent") = {}
  PROVE  Unsent = {}
BY KeptAt DEF RowsHaveFetches, Fetched, Unsent

\* What a cleaning leaves when the file was tidy: the rows of what remains.
LEMMA TidyClean ==
  ASSUME CollectionTyped, InTime, RowsHaveFetches, FetchesFit, Clean,
         Fetched("sent") /= Remaining
  PROVE  /\ Unsent = {}
         /\ \A m \in Messages : saved'[m] = IF m \in Kept /\ saved[m].at \notin Remaining
                                           THEN NoRow ELSE saved[m]
         /\ fetches' = [t \in Seconds |-> IF t \in Remaining THEN "sent" ELSE "none"]
<1>1. Unsent = {}
  BY NoneUnsent DEF FetchesFit
<1> DEFINE old == {m \in Kept \ Unsent : saved[m].at \notin Remaining}
           dropped == IF old = {} THEN {} ELSE old \cup Unsent
<1>2. dropped = old
  BY <1>1
<1>3. /\ saved' = [m \in Messages |-> IF m \in dropped THEN NoRow ELSE saved[m]]
      /\ fetches' = [t \in Seconds |-> IF t \in Remaining THEN "sent" ELSE "none"]
  BY DEF Clean
<1> QED
  BY <1>1, <1>2, <1>3

LEMMA RowsHaveFetchesStep ==
  ASSUME CollectionTyped, CollectionTyped', InTime, Tidy, CollectionNext
  PROVE  RowsHaveFetches'
<1> USE CollectionAssumption
<1>1. CASE Save
  <2>1. agent.at \in Seconds
    BY <1>1 DEF Save, SaveAt, CollectionTyped
  <2>2. \A m \in agent.got : saved'[m].at = agent.at /\ fetches'[agent.at] = "unsent"
    BY <1>1, <2>1 DEF Save, SaveAt, CollectionTyped, Passes
  <2>3. \A m \in Messages \ agent.got : saved'[m] = saved[m]
    BY <1>1 DEF Save, SaveAt
  <2>4. \A t \in Seconds : fetches'[t] = fetches[t] \/ fetches'[t] = "unsent"
    BY <1>1, <2>1 DEF Save, SaveAt, CollectionTyped
  <2> QED
    BY <2>2, <2>3, <2>4, KeptAt DEF Tidy, RowsHaveFetches, Kept, Unsent
<1>2. CASE MarkEvents
  <2>1. fetches' = fetches
    BY <1>2 DEF MarkEvents
  <2>2. \A m \in Messages : saved'[m].at = saved[m].at /\ (saved'[m] = saved[m] \/ (m \in Kept /\ saved'[m].sent))
    BY <1>2 DEF MarkEvents, CollectionTyped, Unsent
  <2> QED
    BY <2>1, <2>2 DEF Tidy, RowsHaveFetches, Kept, Unsent
<1>3. CASE MarkFetches
  <2>1. Unsent = {} /\ saved' = saved
    BY <1>3 DEF MarkFetches, Tidy, FetchesFit
  <2>2. \A t \in Seconds : fetches[t] /= "none" => fetches'[t] /= "none"
    BY <1>3 DEF MarkFetches, CollectionTyped
  <2> QED
    BY <2>1, <2>2, KeptAt DEF Tidy, RowsHaveFetches, Kept, Unsent
<1>4. CASE Clean
  <2>1. CASE Fetched("sent") = Remaining
    BY <1>4, <2>1 DEF Clean, disk, Tidy, RowsHaveFetches, Kept, Unsent
  <2>2. CASE Fetched("sent") /= Remaining
    <3>1. \A m \in Kept' : m \in Kept /\ saved'[m] = saved[m] /\ saved[m].at \in Remaining
      BY <1>4, <2>2, TidyClean DEF Tidy, Kept
    <3>2. Unsent' \subseteq Unsent
      BY <3>1 DEF Unsent
    <3>3. \A m \in Kept' : fetches'[saved'[m].at] = "sent"
      BY <1>4, <2>2, <3>1, TidyClean, KeptAt DEF Tidy
    <3> QED
      BY <1>4, <2>2, <3>2, <3>3, TidyClean DEF Tidy, RowsHaveFetches
  <2> QED
    BY <2>1, <2>2
<1>5. CASE UNCHANGED disk
  BY <1>5 DEF disk, Tidy, RowsHaveFetches, Kept, Unsent
<1> QED
  BY <1>1, <1>2, <1>3, <1>4, <1>5, DiskKept

\* What remains of what remains is all of it.
LEMMA RemainingRemains ==
  ASSUME Fetched("sent")' = Remaining
  PROVE  Remaining' = Remaining
<1> USE CollectionAssumption
<1>1. IsFiniteSet(Seconds)
  BY FS_Interval DEF Seconds
<1>2. ASSUME NEW t \in Remaining
      PROVE  Cardinality({u \in Remaining : u > t}) < KeptFetches
  <2> DEFINE few == {u \in Remaining : u > t}
             all == {u \in Fetched("sent") : u > t}
  <2>1. few \subseteq all /\ all \subseteq Seconds
    BY DEF Remaining, Fetched
  <2>2. IsFiniteSet(all)
    BY <1>1, <2>1, FS_Subset
  <2>3. Cardinality(few) <= Cardinality(all) /\ IsFiniteSet(few)
    BY <2>1, <2>2, FS_Subset
  <2>4. Cardinality(few) \in Nat /\ Cardinality(all) \in Nat
    BY <2>2, <2>3, FS_CardinalityType
  <2>5. Cardinality(all) < KeptFetches
    BY DEF Remaining
  <2> QED
    BY <2>3, <2>4, <2>5
<1>3. Remaining' = {t \in Remaining : Cardinality({u \in Remaining : u > t}) < KeptFetches}
  BY DEF Remaining
<1> QED
  BY <1>2, <1>3
\* The answer of a request that is waited for, or its end, leaves the agent's
\* fetches as they were.
LEMMA AgentEnds ==
  ASSUME CollectionTyped, PostsFit, NEW p \in posts, NEW pc \in {"answered", "clean"},
         RequestEnds(p, pc)
  PROVE  \/ agent' = agent
         \/ /\ p.live /\ agent.pc = "wait" /\ agent'.pc = pc
            /\ pc = "answered" => agent'.times = agent.times
BY DEF CollectionTyped, PostsFit, RequestEnds, Comes, Passes

LEMMA FetchesFitStep ==
  ASSUME CollectionTyped, CollectionTyped', InTime, PostsFit, GotFits, Tidy, CollectionNext,
         ~untidy'
  PROVE  FetchesFit'
<1> USE DEF Tidy
<1> DEFINE Left == Fetched("sent") /= Remaining => agent.pc = "clean" /\ Fetched("unsent") = {}
<1>1. ASSUME UNCHANGED fetches PROVE /\ \A f : Fetched(f)' = Fetched(f)
                                     /\ Remaining' = Remaining
  BY <1>1 DEF Fetched, Remaining
<1>2. ASSUME UNCHANGED disk, agent.pc /= "clean", agent'.pc \notin {"wait", "answered", "mark"}
      PROVE  FetchesFit'
  BY <1>1, <1>2 DEF FetchesFit, disk
<1>3. ASSUME UNCHANGED <<disk, agent>> PROVE FetchesFit'
  <2>1. Unsent' = Unsent
    BY <1>3 DEF disk, Unsent, Kept
  <2> QED
    BY <1>1, <1>3, <2>1 DEF FetchesFit, disk
<1>4. CASE FetchNothing \/ Call
  BY <1>2, <1>4, AgentGoes DEF FetchNothing, Call, CallFor
<1>5. CASE Save
  <2>1. agent.at \in Seconds /\ agent.at > lastFetch /\ agent'.pc = "send"
    BY <1>5, AgentGoes DEF Save, SaveAt, CollectionTyped, GotFits, Seconds
  <2>2. Fetched("sent")' = Fetched("sent")
    BY <1>5, <2>1 DEF Save, SaveAt, Fetched, InTime, CollectionTyped, Seconds
  <2>3. Remaining' = Remaining
    BY <2>2 DEF Remaining
  <2> QED
    BY <1>5, <2>1, <2>2, <2>3 DEF FetchesFit, Save, SaveAt
<1>6. CASE SendRequest
  <2>1. agent.pc = "send" /\ agent'.pc = "wait" /\ agent'.times = Fetched("unsent")
    BY <1>6 DEF SendRequest, CollectionTyped, Passes
  <2> QED
    BY <1>1, <1>6, <2>1 DEF FetchesFit, SendRequest, disk
<1>7. CASE MarkEvents
  <2>1. agent.pc = "answered" /\ agent'.pc = "mark" /\ agent'.times = agent.times
    BY <1>7 DEF MarkEvents, Comes, CollectionTyped, Passes
  <2>2. \A m \in Unsent : m \in Messages /\ saved[m].at \in agent.times
    BY <2>1, KeptAt DEF FetchesFit, RowsHaveFetches, Fetched, Unsent
  <2>3. Unsent' = {}
    BY <1>7, <2>2 DEF MarkEvents, Unsent, Kept, CollectionTyped
  <2> QED
    BY <1>1, <1>7, <2>1, <2>3 DEF FetchesFit, MarkEvents
<1>8. CASE MarkFetches
  <2>1. agent.times = Fetched("unsent") /\ agent'.pc = "clean"
    BY <1>8, AgentGoes DEF MarkFetches, FetchesFit
  <2>2. Fetched("unsent")' = {}
    BY <1>8, <2>1 DEF MarkFetches, Fetched
  <2> QED
    BY <2>1, <2>2 DEF FetchesFit
<1>9. CASE Clean
  <2>1. agent'.pc = "idle"
    BY <1>9, AgentGoes
  <2>2. CASE Fetched("sent") = Remaining
    BY <1>1, <1>9, <2>1, <2>2 DEF Clean, disk, FetchesFit
  <2>3. CASE Fetched("sent") /= Remaining
    <3>1. Fetched("sent")' = Remaining
      BY <1>9, <2>3, TidyClean DEF Fetched, Remaining
    <3> QED
      BY <2>1, <3>1, RemainingRemains DEF FetchesFit
  <2> QED
    BY <2>2, <2>3
<1>10. CASE GiveUp
  BY <1>2, <1>10, AgentGoes DEF GiveUp
<1>11. CASE AgentDies
  <2>1. Fetched("sent") = Remaining /\ UNCHANGED disk
    BY <1>11, UntidyStays DEF AgentDies
  <2> QED
    BY <1>1, <1>11, <2>1, AgentGoes DEF FetchesFit, disk
<1>12. CASE Tick \/ \E m \in Messages : Show(m)
  BY <1>3, <1>12 DEF Tick, Show
<1>13. ASSUME NEW p \in posts,
              CheckFetches(p) \/ StoreEvents(p) \/ RecordFetches(p) PROVE FetchesFit'
  BY <1>3, <1>13 DEF CheckFetches, CheckFrom, StoreEvents, RecordFetches
<1>14. ASSUME NEW p \in posts, Reply(p) \/ ReplyLost(p) \/ ReceiverFails(p) PROVE FetchesFit'
  <2>1. PICK pc \in {"answered", "clean"} : RequestEnds(p, pc)
    BY <1>14 DEF Reply, ReplyLost, ReceiverFails
  <2>2. UNCHANGED disk
    BY <1>14 DEF Reply, ReplyLost, ReceiverFails
  <2>3. CASE agent' = agent
    BY <1>3, <2>2, <2>3
  <2>4. CASE agent' /= agent
    <3>1. /\ agent.pc = "wait" /\ agent'.pc = pc
          /\ pc = "answered" => agent'.times = agent.times
      BY <2>1, <2>4, AgentEnds
    <3> QED
      BY <1>1, <2>2, <3>1 DEF FetchesFit, disk
  <2> QED
    BY <2>3, <2>4
<1> QED
  BY <1>4, <1>5, <1>6, <1>7, <1>8, <1>9, <1>10, <1>11, <1>12, <1>13, <1>14
     DEF CollectionNext, AgentSteps, ReceiverSteps

LEMMA StoredStays ==
  ASSUME CollectionTyped, CollectionNext, NEW m \in Messages, labelled[m] > 0
  PROVE  labelled'[m] > 0
<1>1. CASE \E ms : labelled' = Inserted(ms)
  BY <1>1 DEF Inserted, CollectionTyped
<1>2. CASE UNCHANGED labelled
  BY <1>2
<1> QED
  BY <1>1, <1>2 DEF CollectionNext, Tick, Show, AgentSteps, FetchNothing, Call, CallFor, Save, SaveAt,
     SendRequest, MarkEvents, MarkFetches, Clean, GiveUp, AgentDies, ReceiverSteps, CheckFetches,
     CheckFrom, StoreEvents, RecordFetches, Reply, ReplyLost, ReceiverFails, receiver

\* What changes in the rows of a tidy file.
LEMMA RowsChange ==
  ASSUME CollectionTyped, InTime, Tidy, CollectionNext, ~Save, NEW m \in Messages
  PROVE  \/ saved'[m] = saved[m]
         \/ m \in Kept /\ saved[m].sent /\ saved'[m] = NoRow
         \/ /\ m \in Unsent /\ agent.pc = "answered"
            /\ saved'[m].at = saved[m].at /\ saved'[m].sent
<1> USE DEF Tidy
<1>1. CASE MarkEvents
  BY <1>1 DEF MarkEvents, CollectionTyped, Unsent
<1>2. CASE Clean
  <2>1. CASE Fetched("sent") = Remaining
    BY <1>2, <2>1 DEF Clean, disk
  <2>2. CASE Fetched("sent") /= Remaining
    BY <1>2, <2>2, TidyClean DEF Unsent
  <2> QED
    BY <2>1, <2>2
<1>3. CASE MarkFetches
  BY <1>3 DEF MarkFetches
<1>4. CASE UNCHANGED disk
  BY <1>4 DEF disk
<1> QED
  BY <1>1, <1>2, <1>3, <1>4, DiskKept

\* A saving adds unsent rows of a fetch later than any before.
LEMMA RowsSaved ==
  ASSUME CollectionTyped, InTime, GotFits, Save
  PROVE  /\ agent.at \in Seconds /\ agent.at > lastFetch /\ lastFetch' = agent.at
         /\ \A m \in agent.got : m \in Messages /\ saved'[m] = [at |-> agent.at, sent |-> FALSE]
         /\ \A m \in Messages \ agent.got : saved'[m] = saved[m]
         /\ UNCHANGED <<source, posts, labelled, progress>>
BY DEF Save, SaveAt, CollectionTyped, Passes, GotFits, Seconds, receiver

LEMMA NothingLostStep ==
  ASSUME CollectionTyped, CollectionTyped', InTime, InTime', GotFits, Tidy, CollectionNext, ~untidy
  PROVE  NothingLost'
<1> USE DEF Tidy
<1> SUFFICES ASSUME NEW m \in Messages, shown'[m] \in 1..(lastFetch' - 1)
             PROVE  labelled'[m] > 0 \/ m \in Unsent'
  BY DEF NothingLost
<1>1. labelled[m] > 0 => labelled'[m] > 0
  BY StoredStays
<1>2. shown[m] \in 1..(lastFetch - 1) => labelled[m] > 0 \/ m \in Unsent
  BY DEF NothingLost
<1>3. CASE Save
  <2>1. CASE m \in agent.got
    <3>1. saved'[m].at /= 0 /\ ~saved'[m].sent
      BY <1>3, <2>1, RowsSaved DEF Seconds
    <3> QED
      BY <3>1 DEF Unsent, Kept, NoRow
  <2>2. CASE m \notin agent.got
    <3>1. saved'[m] = saved[m] /\ shown'[m] = shown[m] /\ lastFetch' = agent.at /\ agent.pc = "save"
      BY <1>3, <2>2, RowsSaved DEF source, Save, SaveAt
    <3>2. shown[m] \in 1..(lastFetch - 1) \/ m \in Kept
      <4>1. shown[m] >= lastFetch /\ shown[m] < agent.at => m \in Kept
        BY <2>2, <3>1 DEF GotFits
      <4>2. shown[m] \in Int /\ lastFetch \in Int /\ agent.at \in Int
        BY <3>1 DEF CollectionTyped, Seconds
      <4>3. shown[m] \in 1..(agent.at - 1)
        BY <3>1
      <4> QED
        BY <4>1, <4>2, <4>3
    <3>3. m \in Kept /\ saved[m].sent => labelled[m] > 0
      BY DEF StoredBefore
    <3>4. m \in Kept => labelled[m] > 0 \/ m \in Unsent
      BY <3>3 DEF Unsent
    <3> QED
      BY <1>1, <1>2, <3>1, <3>2, <3>4 DEF Unsent, Kept
  <2> QED
    BY <2>1, <2>2
<1>4. CASE ~Save
  <2>1. lastFetch' = lastFetch
    BY <1>4, DiskKept DEF MarkEvents, MarkFetches, Clean, disk
  <2>2. shown'[m] = shown[m]
    <3>1. CASE \E n \in Messages : Show(n)
      BY <2>1, <3>1 DEF Show, CollectionTyped, InTime, Seconds
    <3>2. CASE ~\E n \in Messages : Show(n)
      BY <3>2 DEF CollectionNext, Tick, AgentSteps, FetchNothing, Call, CallFor, Save, SaveAt,
         SendRequest, MarkEvents, MarkFetches, Clean, GiveUp, AgentDies, ReceiverSteps, CheckFetches,
         CheckFrom, StoreEvents, RecordFetches, Reply, ReplyLost, ReceiverFails, source
    <3> QED
      BY <3>1, <3>2
  <2>3. labelled[m] > 0 \/ m \in Unsent
    BY <1>2, <2>1, <2>2
  <2>4. m \in Unsent => m \in Unsent' \/ labelled[m] > 0
    BY <1>4, RowsChange DEF StoredBefore, Unsent, Kept
  <2> QED
    BY <1>1, <2>3, <2>4
<1> QED
  BY <1>3, <1>4
\* A row that is there after a step was there before it, or has just been saved.
LEMMA RowsStay ==
  ASSUME CollectionTyped, InTime, GotFits, Tidy, CollectionNext, NEW m \in Kept'
  PROVE  /\ m \in Messages
         /\ \/ m \in Kept /\ saved'[m].at = saved[m].at /\ (m \in Unsent' => m \in Unsent)
            \/ /\ Save /\ saved'[m].at > lastFetch /\ ~saved'[m].sent
               /\ UNCHANGED <<posts, labelled, progress>>
<1>1. m \in Messages /\ saved'[m] /= NoRow
  BY DEF Kept
<1>2. CASE Save
  BY <1>1, <1>2, RowsSaved DEF Kept, Unsent
<1>3. CASE ~Save
  BY <1>1, <1>3, RowsChange DEF Kept, Unsent, NoRow
<1> QED
  BY <1>1, <1>2, <1>3

LEMMA RowsStoredStep ==
  ASSUME CollectionTyped, CollectionTyped', InTime, GotFits, Tidy, CollectionNext
  PROVE  /\ \A m \in Kept' : saved'[m].sent => labelled'[m] > 0
         /\ \A m \in Kept', h \in Hosts : saved'[m].at <= progress'[h] => labelled'[m] > 0
<1> USE DEF Tidy
<1>1. ASSUME NEW m \in Kept', saved'[m].sent PROVE labelled'[m] > 0
  <2>1. m \in Kept /\ (saved[m].sent \/ m \in Unsent)
    BY <1>1, RowsStay DEF Unsent
  <2>2. saved[m].sent => labelled[m] > 0
    BY <2>1 DEF StoredBefore
  <2>3. CASE ~saved[m].sent
    <3>1. ~Save /\ m \in Messages
      BY <1>1, RowsStay, <2>3, RowsSaved, <2>1 DEF Kept
    <3>2. agent.pc = "answered" /\ m \in Unsent
      BY <1>1, <2>1, <2>3, <3>1, RowsChange DEF Unsent
    <3> QED
      BY <3>1, <3>2, StoredStays DEF StoredBefore
  <2> QED
    BY <2>1, <2>2, <2>3, StoredStays, KeptAt
<1>2. ASSUME NEW m \in Kept', NEW h \in Hosts, saved'[m].at <= progress'[h]
      PROVE  labelled'[m] > 0
  <2>1. CASE Save /\ saved'[m].at > lastFetch /\ UNCHANGED progress
    BY <1>2, <2>1 DEF InTime, CollectionTyped, Seconds, Kept
  <2>2. CASE m \in Kept /\ saved'[m].at = saved[m].at
    <3>1. CASE progress'[h] = progress[h]
      BY <1>2, <2>2, <3>1, KeptAt, StoredStays DEF StoredBefore
    <3>2. CASE progress'[h] /= progress[h]
      <4>1. PICK p \in posts : RecordFetches(p)
        BY <3>2 DEF CollectionNext, Tick, Show, AgentSteps, FetchNothing, Call, CallFor, Save, SaveAt,
           SendRequest, MarkEvents, MarkFetches, Clean, GiveUp, AgentDies, ReceiverSteps,
           CheckFetches, CheckFrom, StoreEvents, Reply, ReplyLost, ReceiverFails, receiver
      <4>2. p.pc = "written" /\ progress'[h] \in p.times
        BY <3>2, <4>1 DEF RecordFetches, CollectionTyped
      <4> QED
        BY <1>2, <2>2, <4>1, <4>2, KeptAt, StoredStays DEF StoredBefore, Carried
    <3> QED
      BY <3>1, <3>2
  <2> QED
    BY <2>1, <2>2, RowsStay
<1> QED
  BY <1>1, <1>2

\* What a request owes its rows: below its last fetch, and while it is waited for.
Owes(q) ==
    /\ \A m \in Kept : \A t \in q.times : saved[m].at <= t => labelled[m] > 0 \/ Carried(q, m)
    /\ q.live => \A m \in Unsent : labelled[m] > 0 \/ Carried(q, m)

\* A request that reports no more, is not waited for anew, and carries for the
\* rows what is not stored meanwhile, owes nothing new.
LEMMA OwesNoMore ==
  ASSUME CollectionTyped, CollectionTyped', InTime, PostsFit, GotFits, Tidy, CollectionNext,
         NEW p \in posts, NEW q, q.times \subseteq p.times, q.live => p.live,
         \A m \in Kept : Carried(p, m) =>
            labelled'[m] > 0 \/ (q.pc \in {"new", "checked"} /\ <<m, saved[m].at>> \in q.found)
  PROVE  Owes(q)'
<1> USE DEF Tidy
<1>1. \A t \in p.times : t <= lastFetch /\ t \in Seconds
  BY RequestFields DEF InTime
<1>2. ASSUME NEW m \in Kept', NEW t \in q.times, saved'[m].at <= t
      PROVE  labelled'[m] > 0 \/ Carried(q, m)'
  <2>1. ~(saved'[m].at > lastFetch)
    <3>1. m \in Messages /\ t \in p.times
      BY <1>2 DEF Kept
    <3>2. saved'[m].at \in 0..LastSecond /\ lastFetch \in Nat /\ t \in Nat /\ t <= lastFetch
      BY <1>1, <3>1 DEF CollectionTyped, Seconds
    <3> QED
      BY <1>2, <3>2
  <2>2. m \in Kept /\ saved'[m].at = saved[m].at
    BY <2>1, RowsStay
  <2>3. labelled[m] > 0 \/ Carried(p, m)
    BY <1>2, <2>2 DEF StoredBefore
  <2> QED
    BY <2>2, <2>3, KeptAt, StoredStays DEF Carried
<1>3. ASSUME q.live, NEW m \in Unsent' PROVE labelled'[m] > 0 \/ Carried(q, m)'
  <2>1. ~Save
    BY <1>3 DEF PostsFit, Save, SaveAt
  <2>2. m \in Kept /\ m \in Unsent /\ saved'[m].at = saved[m].at
    BY <2>1, RowsStay DEF Unsent
  <2>3. labelled[m] > 0 \/ Carried(p, m)
    BY <1>3, <2>2 DEF StoredBefore
  <2> QED
    BY <2>2, <2>3, KeptAt, StoredStays DEF Carried
<1> QED
  BY <1>2, <1>3 DEF Owes

LEMMA RequestsOweStep ==
  ASSUME CollectionTyped, CollectionTyped', InTime, PostsFit, GotFits, Tidy, CollectionNext
  PROVE  \A q \in posts' : Owes(q)'
<1> USE DEF Tidy
<1>1. ASSUME NEW p \in posts PROVE Owes(p)'
  BY <1>1, OwesNoMore DEF Carried
<1>2. CASE posts' \subseteq posts
  BY <1>1, <1>2
<1>3. CASE SendRequest
  <2>1. PICK q : /\ posts' = posts \cup {q}
                 /\ q.pc = "new"
                 /\ q.found = {<<m, saved[m].at>> :
                                 m \in {n \in Unsent : saved[n].at \in Fetched("unsent")}}
    <3> DEFINE found == {<<m, saved[m].at>> :
                           m \in {n \in Unsent : saved[n].at \in Fetched("unsent")}}
               q == [pc |-> "new", live |-> TRUE, host |-> host, times |-> Fetched("unsent"),
                     found |-> found]
    <3>1. posts' = posts \cup {q}
      BY <1>3 DEF SendRequest
    <3>2. q.pc = "new" /\ q.found = found
      OBVIOUS
    <3> HIDE DEF q
    <3> QED
      BY <3>1, <3>2
  <2>2. \A m \in Unsent : Carried(q, m)
    BY <2>1, KeptAt DEF Carried, Unsent, RowsHaveFetches, Fetched
  <2>3. /\ \A m \in Kept : labelled[m] > 0 \/ Carried(q, m)
        /\ UNCHANGED <<saved, labelled>>
    BY <1>3, <2>2 DEF StoredBefore, Unsent, SendRequest, disk
  <2>4. Owes(q)'
    BY <2>3 DEF Owes, Carried, Kept, Unsent
  <2> QED
    BY <1>1, <2>1, <2>4
<1>4. CASE GiveUp \/ AgentDies
  <2>1. posts' = {[p EXCEPT !.live = FALSE] : p \in posts}
    BY <1>4 DEF GiveUp, AgentDies
  <2>2. ASSUME NEW p \in posts PROVE Owes([p EXCEPT !.live = FALSE])'
    <3> DEFINE q == [p EXCEPT !.live = FALSE]
    <3>1. ~q.live /\ q.times = p.times /\ q.pc = p.pc /\ q.found = p.found
      BY DEF CollectionTyped, Posts
    <3> HIDE DEF q
    <3>2. Owes(q)'
      BY <3>1, OwesNoMore DEF Carried
    <3> QED
      BY <3>2 DEF q
  <2> QED
    BY <2>1, <2>2
<1>5. ASSUME NEW p \in posts, CheckFetches(p) PROVE \A q \in posts' : Owes(q)'
  <2> DEFINE new == {t \in p.times : t > progress[p.host]}
             found == {f \in p.found : f[2] \in new}
  <2>1. PICK q : /\ Stays(p, q)
                 /\ q = [p EXCEPT !.pc = IF found = {} THEN "done" ELSE "checked",
                                  !.times = new, !.found = found]
    BY <1>5 DEF CheckFetches, CheckFrom
  <2>2. /\ q.pc = IF found = {} THEN "done" ELSE "checked"
        /\ q.times = new /\ q.found = found /\ q.live = p.live
    BY <2>1 DEF CollectionTyped, Posts
  <2>3. ASSUME NEW m \in Kept, Carried(p, m)
        PROVE  labelled'[m] > 0 \/ (q.pc \in {"new", "checked"} /\ <<m, saved[m].at>> \in q.found)
    <3>1. saved[m].at \in p.times /\ saved[m].at \in Seconds
      BY <2>3, KeptAt DEF Carried, PostsFit
    <3>2. CASE saved[m].at <= progress[p.host]
      BY <3>2, KeptAt, StoredStays, RequestFields DEF StoredBefore
    <3>3. CASE saved[m].at > progress[p.host]
      BY <2>2, <2>3, <3>1, <3>3 DEF Carried
    <3>4. progress[p.host] \in 0..LastSecond
      BY RequestFields DEF CollectionTyped
    <3>5. saved[m].at \in 1..LastSecond
      BY <3>1 DEF Seconds
    <3> QED
      BY <3>2, <3>3, <3>4, <3>5, CollectionAssumption
  <2>4. Owes(q)'
    BY <2>2, <2>3, OwesNoMore
  <2> QED
    BY <1>1, <2>1, <2>4 DEF Stays
<1>6. ASSUME NEW p \in posts, StoreEvents(p) PROVE \A q \in posts' : Owes(q)'
  <2> DEFINE q == [p EXCEPT !.pc = "written"]
  <2>1. Stays(p, q) /\ labelled' = Inserted(MessagesOf(p))
    BY <1>6 DEF StoreEvents
  <2>2. q.times = p.times /\ q.live = p.live
    BY DEF CollectionTyped, Posts
  <2> HIDE DEF q
  <2>3. ASSUME NEW m \in Kept, Carried(p, m) PROVE labelled'[m] > 0
    BY <2>1, <2>3, KeptAt DEF Carried, MessagesOf, Inserted, CollectionTyped
  <2>4. Owes(q)'
    BY <2>2, <2>3, OwesNoMore
  <2> QED
    BY <1>1, <2>1, <2>4 DEF Stays
<1>7. ASSUME NEW p \in posts, RecordFetches(p) PROVE \A q \in posts' : Owes(q)'
  <2> DEFINE q == [p EXCEPT !.pc = "done"]
  <2>1. Stays(p, q) /\ p.pc = "written"
    BY <1>7 DEF RecordFetches
  <2>2. q.times = p.times /\ q.live = p.live
    BY DEF CollectionTyped, Posts
  <2> HIDE DEF q
  <2>3. Owes(q)'
    BY <2>1, <2>2, OwesNoMore DEF Carried
  <2> QED
    BY <1>1, <2>1, <2>3 DEF Stays
<1>8. ASSUME NEW p \in posts, Reply(p) \/ ReplyLost(p) \/ ReceiverFails(p)
      PROVE  posts' \subseteq posts
  BY <1>8 DEF Reply, ReplyLost, ReceiverFails, RequestEnds
<1>9. CASE Tick \/ \E m \in Messages : Show(m)
  BY <1>2, <1>9 DEF Tick, Show, receiver
<1>10. CASE AgentSteps /\ ~SendRequest
  BY <1>2, <1>10 DEF AgentSteps, FetchNothing, Call, CallFor, Save, SaveAt, MarkEvents, MarkFetches,
                     Clean, receiver
<1> QED
  BY <1>2, <1>3, <1>4, <1>5, <1>6, <1>7, <1>8, <1>9, <1>10 DEF CollectionNext, ReceiverSteps

LEMMA AnsweredStep ==
  ASSUME CollectionTyped, CollectionTyped', InTime, PostsFit, GotFits, Tidy, CollectionNext,
         agent'.pc = "answered", NEW m \in Unsent'
  PROVE  labelled'[m] > 0
<1> USE DEF Tidy
<1>1. ~Save
  BY AgentGoes
<1>2. m \in Messages /\ m \in Unsent
  BY <1>1, RowsStay DEF Unsent
<1>3. CASE agent.pc = "answered"
  BY <1>2, <1>3, StoredStays DEF StoredBefore
<1>4. CASE agent.pc /= "answered"
  <2>1. PICK p \in posts : RequestEnds(p, "answered") /\ p.pc = "done" /\ agent' /= agent
    <3>1. ~AgentSteps /\ ~GiveUp /\ ~AgentDies
      BY AgentGoes DEF AgentSteps
    <3>2. agent' /= agent
      BY <1>4
    <3>3. ~Tick /\ ~(\E n \in Messages : Show(n))
      BY <3>2 DEF Tick, Show
    <3>4. \A p \in posts : ~CheckFetches(p) /\ ~StoreEvents(p) /\ ~RecordFetches(p)
      BY <3>2 DEF CheckFetches, CheckFrom, StoreEvents, RecordFetches
    <3>5. \A p \in posts : ~ReplyLost(p) /\ ~ReceiverFails(p)
      BY <3>2, AgentGoes DEF ReplyLost, ReceiverFails
    <3> QED
      BY <3>1, <3>2, <3>3, <3>4, <3>5 DEF CollectionNext, ReceiverSteps, Reply
  <2>2. p.live
    BY <2>1, AgentEnds
  <2> QED
    BY <1>2, <2>1, <2>2, StoredStays DEF StoredBefore, Carried
<1> QED
  BY <1>3, <1>4

LEMMA StoredBeforeStep ==
  ASSUME CollectionTyped, CollectionTyped', InTime, PostsFit, GotFits, Tidy, CollectionNext
  PROVE  StoredBefore'
BY RowsStoredStep, RequestsOweStep, AnsweredStep DEF StoredBefore, Owes

-----------------------------------------------------------------------------
\* The times are in order, at most one request is waited for, and in a file that
\* was cleaned in time every row has its fetch and what was sent is stored.
THEOREM CollectionInvHolds == CollectionSpec => []CollectionInv
<1>1. CollectionInv /\ [CollectionNext]_collectionVars => CollectionInv'
  <2> SUFFICES ASSUME CollectionInv, [CollectionNext]_collectionVars PROVE CollectionInv'
    OBVIOUS
  <2> USE DEF CollectionInv
  <2>1. CASE CollectionNext
    <3>1. CollectionTyped'
      BY <2>1, AgentStepTyped, OtherStepTyped DEF AgentSteps
    <3>2. InTime' /\ PostsFit' /\ GotFits'
      BY <2>1, <3>1, InTimeStep, PostsFitStep, GotFitsStep
    <3>3. ASSUME ~untidy' PROVE Tidy'
      <4>1. ~untidy /\ Tidy
        BY <2>1, <3>3, UntidyStays
      <4>2. RowsHaveFetches' /\ FetchesFit' /\ StoredBefore' /\ NothingLost'
        BY <2>1, <3>1, <3>2, <3>3, <4>1, RowsHaveFetchesStep, FetchesFitStep, StoredBeforeStep,
           NothingLostStep
      <4> QED
        BY <4>2 DEF Tidy
    <3> QED
      BY <3>1, <3>2, <3>3
  <2>2. CASE UNCHANGED collectionVars
    BY <2>2 DEF collectionVars, source, disk, receiver, CollectionTyped, InTime, PostsFit, GotFits,
       Tidy, RowsHaveFetches, FetchesFit, StoredBefore, NothingLost, Carried, Kept, Unsent, Fetched,
       Remaining
  <2> QED
    BY <2>1, <2>2
<1> QED
  BY <1>1, CollectionInvInit, PTL DEF CollectionSpec

\* Whatever dies or is lost: what the source showed before the last fetch is in
\* MongoDB or waits in the file of an agent that always cleaned it in time.
THEOREM NothingLostHolds == CollectionSpec => []NothingLost
<1>1. CollectionInv => NothingLost
  BY DEF CollectionInv, Tidy, NothingLost
<1> QED
  BY <1>1, CollectionInvHolds, PTL
-----------------------------------------------------------------------------
(* What was fetched is not fetched again. *)

LEMMA ShownStays ==
  ASSUME CollectionTyped, CollectionNext, NEW m \in Messages, shown[m] > 0
  PROVE  shown'[m] = shown[m]
<1>1. CASE \E n \in Messages : Show(n)
  BY <1>1 DEF Show, CollectionTyped
<1>2. CASE ~\E n \in Messages : Show(n)
  BY <1>2 DEF CollectionNext, Tick, AgentSteps, FetchNothing, Call, CallFor, Save, SaveAt,
     SendRequest, MarkEvents, MarkFetches, Clean, GiveUp, AgentDies, ReceiverSteps, CheckFetches,
     CheckFrom, StoreEvents, RecordFetches, Reply, ReplyLost, ReceiverFails, source
<1> QED
  BY <1>1, <1>2

LEMMA LastFetchStays ==
  ASSUME CollectionTyped, InTime, GotFits, CollectionNext
  PROVE  lastFetch' \in Nat /\ lastFetch \in Nat /\ lastFetch <= lastFetch'
<1>1. lastFetch \in Nat
  BY DEF CollectionTyped, Seconds
<1>2. CASE Save
  BY <1>1, <1>2, RowsSaved DEF Seconds
<1>3. CASE ~Save
  BY <1>1, <1>3, DiskKept DEF MarkEvents, MarkFetches, Clean, disk
<1> QED
  BY <1>1, <1>2, <1>3

\* A message stays known, and keeps the fetch of its row.
LEMMA KnownStays ==
  ASSUME CollectionTyped, InTime, GotFits, Tidy, OneFetch, CollectionNext,
         NEW m \in Messages, Known(m)
  PROVE  Known(m)' /\ (m \in Kept' => m \in Kept /\ saved'[m].at = saved[m].at)
<1> USE DEF Tidy
<1>1. shown'[m] = shown[m] /\ shown[m] \in Nat /\ shown[m] > 0
  BY ShownStays DEF Known, CollectionTyped
<1>2. lastFetch' \in Nat /\ lastFetch \in Nat /\ lastFetch <= lastFetch'
  BY LastFetchStays
<1>3. CASE Save
  <2>1. m \notin agent.got
    BY <1>1, <1>2, <1>3 DEF Save, SaveAt, GotFits, Known
  <2>2. saved'[m] = saved[m]
    BY <1>3, <2>1, RowsSaved
  <2> QED
    BY <1>1, <1>2, <2>2 DEF Known, Kept
<1>4. CASE ~Save /\ saved'[m] = NoRow /\ m \in Kept
  <2>1. Clean /\ Fetched("sent") /= Remaining
    BY <1>4, DiskKept DEF MarkEvents, MarkFetches, Clean, disk, Kept, CollectionTyped, NoRow
  <2>2. saved[m].at \in Seconds /\ saved[m].at \notin Remaining
    BY <1>4, <2>1, TidyClean, KeptAt DEF Kept
  <2>3. saved[m].at \in Fetched("sent")
    <3>1. fetches[saved[m].at] /= "none" /\ Fetched("unsent") = {}
      BY <1>4, <2>1 DEF RowsHaveFetches, FetchesFit
    <3> QED
      BY <2>2, <3>1 DEF Fetched, CollectionTyped
  <2>4. PICK u \in Fetched("sent") : u > saved[m].at
    <3> DEFINE later == {u \in Fetched("sent") : u > saved[m].at}
    <3>1. ~(Cardinality(later) < KeptFetches)
      BY <2>2, <2>3 DEF Remaining
    <3>2. later /= {}
      BY <3>1, FS_EmptySet, CollectionAssumption
    <3> QED
      BY <3>2
  <2>5. u <= lastFetch /\ u \in Nat
    BY <2>4 DEF Fetched, InTime, Seconds
  <2>6. shown[m] <= saved[m].at /\ saved[m].at \in Nat
    BY <1>4, <2>2 DEF OneFetch, Seconds
  <2>7. shown'[m] < lastFetch'
    BY <1>1, <1>2, <2>4, <2>5, <2>6
  <2> QED
    BY <1>1, <1>4, <2>7 DEF Known, Kept
<1>5. CASE ~Save /\ ~(saved'[m] = NoRow /\ m \in Kept)
  <2>1. saved'[m].at = saved[m].at /\ (m \in Kept' <=> m \in Kept)
    BY <1>5, RowsChange DEF Kept, Unsent, NoRow
  <2> QED
    BY <1>1, <1>2, <2>1 DEF Known
<1> QED
  BY <1>3, <1>4, <1>5

\* Where a request comes from.
Sent(q) == q.pc = "new" /\ \A f \in q.found : f[1] \in Unsent /\ f[2] = saved[f[1]].at
Same(q, p) == q.pc = p.pc /\ q.times = p.times /\ q.found = p.found
Checked(q, p) == /\ CheckFetches(p) /\ q.pc \in {"checked", "done"}
                 /\ q.found \subseteq p.found
                 /\ \A f \in q.found : f[2] \in {t \in p.times : t > progress[p.host]}
Stored(q, p) == StoreEvents(p) /\ q.pc = "written" /\ q.times = p.times /\ q.found = p.found
Noted(q, p) == RecordFetches(p) /\ q.pc = "done" /\ q.times = p.times /\ q.found = p.found

LEMMA RequestsFrom ==
  ASSUME CollectionTyped, CollectionNext
  PROVE  \A q \in posts' :
            \/ SendRequest /\ (q \in posts \/ Sent(q))
            \/ \E p \in posts : Same(q, p) \/ Checked(q, p) \/ Stored(q, p) \/ Noted(q, p)
<1> DEFINE Goal == \A q \in posts' :
            \/ SendRequest /\ (q \in posts \/ Sent(q))
            \/ \E p \in posts : Same(q, p) \/ Checked(q, p) \/ Stored(q, p) \/ Noted(q, p)
<1>1. ASSUME posts' \subseteq posts PROVE Goal
  BY <1>1 DEF Same
<1>2. CASE SendRequest
  <2> DEFINE found == {<<m, saved[m].at>> :
                         m \in {n \in Unsent : saved[n].at \in Fetched("unsent")}}
             q == [pc |-> "new", live |-> TRUE, host |-> host, times |-> Fetched("unsent"),
                   found |-> found]
  <2>1. posts' = posts \cup {q}
    BY <1>2 DEF SendRequest
  <2>2. q.pc = "new" /\ q.found = found
    OBVIOUS
  <2> HIDE DEF q
  <2>3. Sent(q)
    BY <2>2 DEF Sent
  <2> QED
    BY <1>2, <2>1, <2>3
<1>3. CASE GiveUp \/ AgentDies
  <2>1. posts' = {[p EXCEPT !.live = FALSE] : p \in posts}
    BY <1>3 DEF GiveUp, AgentDies
  <2>2. \A p \in posts : Same([p EXCEPT !.live = FALSE], p)
    BY DEF CollectionTyped, Posts, Same
  <2> QED
    BY <2>1, <2>2
<1>4. ASSUME NEW p \in posts, NEW q, Stays(p, q), Checked(q, p) \/ Stored(q, p) \/ Noted(q, p)
      PROVE  Goal
  BY <1>4 DEF Stays, Same
<1>5. ASSUME NEW p \in posts, CheckFetches(p) PROVE Goal
  <2> DEFINE new == {t \in p.times : t > progress[p.host]}
             found == {f \in p.found : f[2] \in new}
  <2>1. PICK q : /\ Stays(p, q)
                 /\ q = [p EXCEPT !.pc = IF found = {} THEN "done" ELSE "checked",
                                  !.times = new, !.found = found]
    BY <1>5 DEF CheckFetches, CheckFrom
  <2>2. q.pc \in {"checked", "done"} /\ q.found = found
    BY <2>1 DEF CollectionTyped, Posts
  <2>3. Checked(q, p)
    BY <1>5, <2>2 DEF Checked
  <2> QED
    BY <1>4, <2>1, <2>3
<1>6. ASSUME NEW p \in posts, StoreEvents(p) PROVE Goal
  <2> DEFINE q == [p EXCEPT !.pc = "written"]
  <2>1. Stays(p, q)
    BY <1>6 DEF StoreEvents
  <2>2. q.pc = "written" /\ q.times = p.times /\ q.found = p.found
    BY DEF CollectionTyped, Posts
  <2> HIDE DEF q
  <2>3. Stored(q, p)
    BY <1>6, <2>2 DEF Stored
  <2> QED
    BY <1>4, <2>1, <2>3
<1>7. ASSUME NEW p \in posts, RecordFetches(p) PROVE Goal
  <2> DEFINE q == [p EXCEPT !.pc = "done"]
  <2>1. Stays(p, q)
    BY <1>7 DEF RecordFetches
  <2>2. q.pc = "done" /\ q.times = p.times /\ q.found = p.found
    BY DEF CollectionTyped, Posts
  <2> HIDE DEF q
  <2>3. Noted(q, p)
    BY <1>7, <2>2 DEF Noted
  <2> QED
    BY <1>4, <2>1, <2>3
<1>8. ASSUME NEW p \in posts, Reply(p) \/ ReplyLost(p) \/ ReceiverFails(p)
      PROVE  posts' \subseteq posts
  BY <1>8 DEF Reply, ReplyLost, ReceiverFails, RequestEnds
<1>9. CASE Tick \/ \E m \in Messages : Show(m)
  BY <1>1, <1>9 DEF Tick, Show, receiver
<1>10. CASE AgentSteps /\ ~SendRequest
  BY <1>1, <1>10 DEF AgentSteps, FetchNothing, Call, CallFor, Save, SaveAt, MarkEvents, MarkFetches,
                     Clean, receiver
<1> QED
  BY <1>1, <1>2, <1>3, <1>5, <1>6, <1>7, <1>8, <1>9, <1>10 DEF CollectionNext, ReceiverSteps

LEMMA OneFetchStep ==
  ASSUME CollectionTyped, CollectionTyped', InTime, GotFits, Tidy, OneFetch,
         CollectionNext, \A m \in Messages : labelled'[m] > 0 =>
            labelled[m] > 0 \/ \E p \in posts : \E f \in p.found : f[1] = m
  PROVE  OneFetch'
<1> DEFINE Origin(f) == \/ \E p \in posts : f \in p.found
                        \/ f[1] \in Unsent /\ f[2] = saved[f[1]].at
<1>1. ASSUME NEW f \in Messages \X Seconds, Origin(f)
      PROVE  Known(f[1]) /\ (f[1] \in Kept => saved[f[1]].at = f[2])
  BY <1>1 DEF OneFetch, Unsent
<1>2. ASSUME NEW q \in posts', NEW f \in q.found
      PROVE  f \in Messages \X Seconds /\ Origin(f)
  <2>1. f \in Messages \X Seconds
    BY DEF CollectionTyped, Posts
  <2>2. Origin(f)
    BY RequestsFrom DEF Sent, Same, Checked, Stored, Noted
  <2> QED
    BY <2>1, <2>2
<1>3. ASSUME NEW f \in Messages \X Seconds, NEW g \in Messages \X Seconds,
             Origin(f), Origin(g), f[1] = g[1]
      PROVE  f[2] = g[2]
  <2>1. CASE f[1] \in Kept
    BY <1>1, <1>3, <2>1
  <2>2. CASE f[1] \notin Kept
    BY <1>3, <2>2 DEF OneFetch, Unsent
  <2> QED
    BY <2>1, <2>2
<1>4. ASSUME NEW m \in Kept' PROVE Known(m)' /\ shown'[m] <= saved'[m].at
  <2>1. m \in Messages
    BY RowsStay
  <2>2. CASE m \in Kept
    <3>1. Known(m) /\ shown[m] <= saved[m].at
      BY <2>2 DEF OneFetch
    <3> QED
      BY <2>1, <3>1, KnownStays, ShownStays DEF Known
  <2>3. CASE m \notin Kept
    <3>1. Save
      BY <2>3, RowsStay
    <3>2. m \in agent.got /\ saved'[m].at = agent.at
      BY <2>1, <2>3, <3>1, RowsSaved DEF Kept
    <3>3. shown[m] >= lastFetch /\ shown[m] <= agent.at
      BY <3>1, <3>2 DEF Save, SaveAt, GotFits
    <3>4. shown'[m] = shown[m]
      BY <3>1, RowsSaved DEF source
    <3>5. shown[m] \in 0..LastSecond /\ lastFetch \in 1..LastSecond
      BY <2>1 DEF CollectionTyped, Seconds
    <3>6. shown[m] > 0
      BY <3>3, <3>5, CollectionAssumption
    <3> QED
      BY <3>2, <3>3, <3>4, <3>6 DEF Known
  <2> QED
    BY <2>2, <2>3
<1>5. ASSUME NEW m \in Messages, labelled'[m] > 0 PROVE Known(m)'
  <2>1. Known(m)
    BY <1>5 DEF OneFetch
  <2> QED
    BY <2>1, KnownStays
<1>6. ASSUME NEW q \in posts', NEW f \in q.found
      PROVE  Known(f[1])' /\ (f[1] \in Kept' => saved'[f[1]].at = f[2])
  <2>1. f[1] \in Messages /\ Known(f[1]) /\ (f[1] \in Kept => saved[f[1]].at = f[2])
    BY <1>1, <1>2
  <2> QED
    BY <2>1, KnownStays
<1>7. \A p, q \in posts' : \A f \in p.found, g \in q.found : f[1] = g[1] => f[2] = g[2]
  BY <1>2, <1>3
<1> HIDE DEF Origin
<1> QED
  BY <1>4, <1>5, <1>6, <1>7 DEF OneFetch

-----------------------------------------------------------------------------
(* What was stored is not stored again. *)

LEMMA NoDoubt ==
  ASSUME CollectionTyped, CollectionNext, ~doubtful'
  PROVE  /\ ~doubtful
         /\ \A p \in posts : CheckFetches(p) => ~Unrecorded(p, {t \in p.times : t > progress[p.host]})
         /\ \A p \in posts : ReceiverFails(p) => p.pc /= "written" /\ UNCHANGED labelled
<1>1. ~doubtful
  BY DEF CollectionTyped, CollectionNext, Tick, Show, AgentSteps, FetchNothing, Call, CallFor, Save,
     SaveAt, SendRequest, MarkEvents, MarkFetches, Clean, GiveUp, AgentDies, ReceiverSteps,
     CheckFetches, CheckFrom, StoreEvents, RecordFetches, Reply, ReplyLost, ReceiverFails, receiver
<1>2. ASSUME NEW p \in posts, CheckFetches(p)
      PROVE  ~Unrecorded(p, {t \in p.times : t > progress[p.host]})
  BY <1>2 DEF CheckFetches, CheckFrom
<1>3. ASSUME NEW p \in posts, ReceiverFails(p) PROVE p.pc /= "written" /\ UNCHANGED labelled
  <2>1. PICK ms : /\ labelled' = Inserted(ms)
                  /\ doubtful' = (doubtful \/ ms /= {} \/ p.pc = "written")
    BY <1>3 DEF ReceiverFails
  <2>2. ms = {} /\ p.pc /= "written"
    BY <2>1
  <2> QED
    BY <2>1, <2>2 DEF Inserted, CollectionTyped
<1> QED
  BY <1>1, <1>2, <1>3

\* Only an orderly storing adds to MongoDB.
LEMMA LabelledFrom ==
  ASSUME CollectionTyped, CollectionNext, ~doubtful'
  PROVE  UNCHANGED labelled \/ \E p \in posts : StoreEvents(p)
BY NoDoubt DEF CollectionNext, Tick, Show, AgentSteps, FetchNothing, Call, CallFor, Save,
   SaveAt, SendRequest, MarkEvents, MarkFetches, Clean, GiveUp, AgentDies, ReceiverSteps,
   CheckFetches, CheckFrom, RecordFetches, Reply, ReplyLost, receiver

LEMMA StoredByOne ==
  ASSUME CollectionTyped, CollectionNext, ~doubtful', NEW m \in Messages, labelled'[m] /= labelled[m]
  PROVE  \E p \in posts : StoreEvents(p) /\ m \in MessagesOf(p) /\ labelled'[m] = labelled[m] + 1
BY LabelledFrom DEF StoreEvents, Inserted

LEMMA RecordedStays ==
  ASSUME CollectionTyped, CollectionTyped', CollectionNext, ~doubtful', NEW t \in Seconds, Recorded(t)
  PROVE  Recorded(t)'
<1>1. CASE \E h \in Hosts : t <= progress[h]
  <2>1. PICK h \in Hosts : t <= progress[h]
    BY <1>1
  <2>2. progress'[h] >= progress[h]
    <3>1. CASE \E p \in posts : RecordFetches(p)
      BY <3>1 DEF RecordFetches, CollectionTyped
    <3>2. CASE ~\E p \in posts : RecordFetches(p)
      <4>1. UNCHANGED progress
        BY <3>2 DEF CollectionNext, Tick, Show, AgentSteps, FetchNothing, Call, CallFor, Save, SaveAt,
           SendRequest, MarkEvents, MarkFetches, Clean, GiveUp, AgentDies, ReceiverSteps,
           CheckFetches, CheckFrom, StoreEvents, Reply, ReplyLost, ReceiverFails, receiver
      <4>2. progress[h] \in 0..LastSecond
        BY DEF CollectionTyped
      <4> QED
        BY <4>1, <4>2
    <3> QED
      BY <3>1, <3>2
  <2>3. t \in Nat /\ progress[h] \in Nat /\ progress'[h] \in Nat
    BY DEF CollectionTyped, Seconds
  <2> QED
    BY <2>1, <2>2, <2>3 DEF Recorded
<1>2. ASSUME NEW p \in posts, p.pc = "written", t \in p.times PROVE Recorded(t)'
  <2>1. CASE p \in posts'
    BY <1>2, <2>1 DEF Recorded
  <2>2. CASE RecordFetches(p)
    <3>1. p.host \in Hosts /\ progress'[p.host] >= t
      BY <1>2, <2>2 DEF RecordFetches, CollectionTyped, Posts
    <3> QED
      BY <3>1 DEF Recorded
  <2>3. CASE GiveUp \/ AgentDies
    <3>1. posts' = {[q EXCEPT !.live = FALSE] : q \in posts}
      BY <2>3 DEF GiveUp, AgentDies
    <3> DEFINE q == [p EXCEPT !.live = FALSE]
    <3>2. q \in posts'
      BY <3>1
    <3>3. q.pc = "written" /\ t \in q.times
      BY <1>2 DEF CollectionTyped, Posts
    <3> HIDE DEF q
    <3> QED
      BY <3>2, <3>3 DEF Recorded
  <2>4. ASSUME NEW q \in posts,
               CheckFetches(q) \/ StoreEvents(q) \/ Reply(q) \/ ReplyLost(q) \/ ReceiverFails(q)
        PROVE  p \in posts'
    <3>1. q.pc /= "written"
      BY <2>4, NoDoubt DEF CheckFetches, CheckFrom, StoreEvents, Reply, ReplyLost
    <3> QED
      BY <1>2, <2>4, <3>1 DEF CheckFetches, CheckFrom, StoreEvents, Reply, ReplyLost, ReceiverFails,
         RequestEnds, Stays
  <2>5. CASE Tick \/ (\E m \in Messages : Show(m)) \/ AgentSteps
    BY <2>1, <2>5 DEF Tick, Show, AgentSteps, FetchNothing, Call, CallFor, Save, SaveAt, SendRequest,
       MarkEvents, MarkFetches, Clean, receiver
  <2>6. ASSUME NEW q \in posts, RecordFetches(q), q /= p PROVE p \in posts'
    BY <2>6 DEF RecordFetches, Stays
  <2> QED
    BY <2>1, <2>2, <2>3, <2>4, <2>5, <2>6 DEF CollectionNext, ReceiverSteps
<1> QED
  BY <1>1, <1>2 DEF Recorded

LEMMA OneAtWork ==
  ASSUME CollectionTyped, CollectionNext, ~doubtful', StoredOnce,
         NEW p \in posts', NEW q \in posts', AtWork(p), AtWork(q)
  PROVE  p = q
<1>1. CASE p \in posts /\ q \in posts
  BY <1>1 DEF StoredOnce
<1>2. CASE GiveUp \/ AgentDies
  <2>1. PICK a \in posts, b \in posts : p = [a EXCEPT !.live = FALSE] /\ q = [b EXCEPT !.live = FALSE]
    BY <1>2 DEF GiveUp, AgentDies
  <2>2. AtWork(a) /\ AtWork(b)
    BY <2>1 DEF AtWork, CollectionTyped, Posts
  <2> QED
    BY <2>1, <2>2 DEF StoredOnce
<1>3. CASE SendRequest
  <2>1. \A r \in posts' : r \in posts \/ r.pc = "new"
    BY <1>3 DEF SendRequest
  <2> QED
    BY <1>1, <2>1 DEF AtWork
<1>4. ASSUME NEW o \in posts, NEW r, Stays(o, r), \A a \in posts : AtWork(a) => a = o \/ ~AtWork(r)
      PROVE  p = q
  BY <1>4 DEF Stays, StoredOnce
<1>5. ASSUME NEW o \in posts, CheckFetches(o) PROVE p = q
  <2>1. \A a \in posts : ~AtWork(a)
    BY <1>5, NoDoubt DEF Unrecorded
  <2> QED
    BY <1>4, <1>5, <2>1 DEF CheckFetches, CheckFrom
<1>6. ASSUME NEW o \in posts, StoreEvents(o) PROVE p = q
  <2>1. \A a \in posts : AtWork(a) => a = o
    BY <1>6 DEF StoreEvents, StoredOnce, AtWork
  <2> QED
    BY <1>4, <1>6, <2>1 DEF StoreEvents
<1>7. ASSUME NEW o \in posts, RecordFetches(o) PROVE p = q
  <2>1. ~AtWork([o EXCEPT !.pc = "done"])
    BY DEF AtWork, CollectionTyped, Posts
  <2> QED
    BY <1>4, <1>7, <2>1 DEF RecordFetches
<1>8. ASSUME NEW o \in posts, Reply(o) \/ ReplyLost(o) \/ ReceiverFails(o)
      PROVE  posts' \subseteq posts
  BY <1>8 DEF Reply, ReplyLost, ReceiverFails, RequestEnds
<1>9. CASE Tick \/ (\E m \in Messages : Show(m)) \/ (AgentSteps /\ ~SendRequest)
  BY <1>1, <1>9 DEF Tick, Show, AgentSteps, FetchNothing, Call, CallFor, Save, SaveAt, MarkEvents,
     MarkFetches, Clean, receiver
<1> QED
  BY <1>1, <1>2, <1>3, <1>5, <1>6, <1>7, <1>8, <1>9 DEF CollectionNext, ReceiverSteps

LEMMA StoredOnceStep ==
  ASSUME CollectionTyped, CollectionTyped', InTime, InTime', PostsFit, GotFits, Tidy, OneFetch,
         StoredOnce, CollectionNext, ~doubtful'
  PROVE  StoredOnce'
<1>1. ASSUME NEW p \in posts, p.pc = "checked", NEW f \in p.found PROVE labelled[f[1]] = 0
  BY <1>1 DEF StoredOnce
<1>2. ASSUME NEW q \in posts', q.pc = "checked", NEW f \in q.found PROVE labelled'[f[1]] = 0
  <2>1. f[1] \in Messages
    BY DEF CollectionTyped, Posts
  <2>2. CASE \E p \in posts : Same(q, p)
    <3>1. PICK p \in posts : Same(q, p)
      BY <2>2
    <3>2. labelled[f[1]] = 0 /\ AtWork(p)
      BY <1>1, <1>2, <3>1 DEF Same, AtWork
    <3>3. ASSUME labelled'[f[1]] /= labelled[f[1]] PROVE FALSE
      <4>1. PICK o \in posts : StoreEvents(o)
        BY <2>1, <3>3, StoredByOne
      <4>2. p = o
        BY <3>2, <4>1 DEF StoreEvents, AtWork, StoredOnce
      <4>3. posts' = (posts \ {o}) \cup {[o EXCEPT !.pc = "written"]}
        BY <4>1 DEF StoreEvents, Stays
      <4>4. [o EXCEPT !.pc = "written"].pc = "written"
        BY DEF CollectionTyped, Posts
      <4>5. q \in posts /\ q /= o
        BY <1>2, <4>3, <4>4
      <4> QED
        BY <1>2, <4>1, <4>5 DEF StoreEvents, AtWork, StoredOnce
    <3> QED
      BY <3>2, <3>3
  <2>3. CASE \E p \in posts : Checked(q, p)
    <3>1. PICK p \in posts : Checked(q, p)
      BY <2>3
    <3>2. /\ p.pc = "new" /\ f \in p.found /\ UNCHANGED labelled
          /\ f[2] \in {t \in p.times : t > progress[p.host]}
          /\ ~Unrecorded(p, {t \in p.times : t > progress[p.host]})
      BY <3>1, NoDoubt DEF Checked, CheckFetches, CheckFrom
    <3>3. ~Recorded(f[2])
      <4>1. ~\E o \in posts : o.pc = "written"
        BY <3>2 DEF Unrecorded, AtWork
      <4>2. \A h \in Hosts \ {p.host} : ~(f[2] <= progress[h])
        BY <3>2 DEF Unrecorded
      <4>3. p.host \in Hosts /\ f[2] \in Seconds /\ progress[p.host] \in 0..LastSecond
        BY <3>2, RequestFields DEF CollectionTyped
      <4>4. ~(f[2] <= progress[p.host])
        BY <3>2, <4>3, CollectionAssumption DEF Seconds
      <4> QED
        BY <4>1, <4>2, <4>4 DEF Recorded
    <3>4. ~(labelled[f[1]] > 0)
      BY <3>2, <3>3 DEF StoredOnce
    <3> QED
      BY <2>1, <3>2, <3>4 DEF CollectionTyped
  <2>4. q \in posts => Same(q, q)
    BY DEF Same
  <2> QED
    BY <1>2, <2>2, <2>3, <2>4, RequestsFrom DEF Sent, Stored, Noted
<1>3. ASSUME NEW p \in posts, StoreEvents(p), NEW f \in p.found
      PROVE  Recorded(f[2])'
  <2> DEFINE q == [p EXCEPT !.pc = "written"]
  <2>1. q \in posts'
    BY <1>3 DEF StoreEvents, Stays
  <2>2. q.pc = "written" /\ q.times = p.times
    BY DEF CollectionTyped, Posts
  <2>3. f[2] \in p.times
    BY <1>3 DEF PostsFit
  <2> HIDE DEF q
  <2> QED
    BY <2>1, <2>2, <2>3 DEF Recorded
<1>4. ASSUME NEW m \in Messages, NEW t \in Seconds, labelled'[m] > 0,
             labelled[m] > 0 => Recorded(t),
             \A p \in posts : \A f \in p.found : f[1] = m => f[2] = t
      PROVE  Recorded(t)'
  <2>1. CASE labelled'[m] = labelled[m]
    BY <1>4, <2>1, RecordedStays
  <2>2. CASE labelled'[m] /= labelled[m]
    <3>1. PICK p \in posts : StoreEvents(p) /\ m \in MessagesOf(p)
      BY <2>2, StoredByOne
    <3>2. PICK f \in p.found : f[1] = m
      BY <3>1 DEF MessagesOf
    <3> QED
      BY <1>3, <1>4, <3>1, <3>2
  <2> QED
    BY <2>1, <2>2
<1>5. ASSUME NEW m \in Kept', labelled'[m] > 0 PROVE Recorded(saved[m].at)'
  <2>1. m \in Messages
    BY RowsStay
  <2>2. CASE m \in Kept /\ saved'[m].at = saved[m].at
    <3>1. saved[m].at \in Seconds
      BY <2>2, KeptAt
    <3>2. labelled[m] > 0 => Recorded(saved[m].at)
      BY <2>2 DEF StoredOnce
    <3>3. \A p \in posts : \A f \in p.found : f[1] = m => f[2] = saved[m].at
      BY <2>2 DEF OneFetch
    <3>4. PICK t : t = saved[m].at
      OBVIOUS
    <3>5. Recorded(t)'
      BY <1>4, <1>5, <2>1, <3>1, <3>2, <3>3, <3>4
    <3> QED
      BY <2>2, <3>4, <3>5 DEF Recorded
  <2>3. CASE m \notin Kept
    <3>1. Save /\ UNCHANGED labelled
      BY <2>3, RowsStay
    <3>2. m \in agent.got
      BY <2>1, <2>3, <3>1, RowsSaved DEF Kept
    <3>3. shown[m] >= lastFetch /\ shown[m] \in Nat /\ lastFetch \in Nat
      BY <2>1, <3>1, <3>2 DEF Save, SaveAt, GotFits, CollectionTyped, Seconds
    <3>4. Known(m)
      BY <1>5, <2>1, <3>1 DEF OneFetch
    <3> QED
      BY <2>3, <3>3, <3>4 DEF Known
  <2>4. CASE m \in Kept /\ saved'[m].at /= saved[m].at
    BY <2>4, RowsStay, RowsSaved, <2>1 DEF GotFits, Save, SaveAt
  <2> QED
    BY <2>2, <2>3, <2>4
<1>6. ASSUME NEW q \in posts', q.pc = "new", NEW f \in q.found, labelled'[f[1]] > 0
      PROVE  Recorded(f[2])'
  <2>1. f[1] \in Messages /\ f[2] \in Seconds
    BY DEF CollectionTyped, Posts
  <2>2. CASE f[1] \in Unsent /\ f[2] = saved[f[1]].at
    <3>1. labelled[f[1]] > 0 => Recorded(f[2])
      BY <2>2 DEF StoredOnce, Unsent
    <3>2. \A p \in posts : \A g \in p.found : g[1] = f[1] => g[2] = f[2]
      BY <2>2 DEF OneFetch, Unsent
    <3> QED
      BY <1>4, <1>6, <2>1, <3>1, <3>2
  <2>3. ASSUME NEW p \in posts, p.pc = "new", f \in p.found PROVE Recorded(f[2])'
    <3>1. labelled[f[1]] > 0 => Recorded(f[2])
      BY <2>3 DEF StoredOnce
    <3>2. \A o \in posts : \A g \in o.found : g[1] = f[1] => g[2] = f[2]
      BY <2>3 DEF OneFetch
    <3> QED
      BY <1>4, <1>6, <2>1, <3>1, <3>2
  <2> QED
    BY <1>6, <2>2, <2>3, RequestsFrom DEF Sent, Same, Checked, Stored, Noted
<1>7. ASSUME NEW m \in Messages PROVE labelled'[m] <= 1
  <2>1. labelled[m] <= 1 /\ labelled[m] \in Nat
    BY DEF StoredOnce, CollectionTyped
  <2>2. CASE labelled'[m] /= labelled[m]
    <3>1. PICK p \in posts : /\ StoreEvents(p) /\ m \in MessagesOf(p)
                             /\ labelled'[m] = labelled[m] + 1
      BY <2>2, StoredByOne
    <3>2. labelled[m] = 0
      BY <1>1, <3>1 DEF StoreEvents, MessagesOf
    <3> QED
      BY <3>1, <3>2
  <2> QED
    BY <2>1, <2>2
<1>8. \A p, q \in posts' : AtWork(p) /\ AtWork(q) => p = q
  BY OneAtWork
<1> QED
  BY <1>2, <1>5, <1>6, <1>7, <1>8 DEF StoredOnce

\* Without a doubtful fetch or an untidy file a message has one fetch, one request
\* is at work, and what is stored is recorded or about to be.
THEOREM OnceInvHolds == CollectionSpec => []OnceInv
<1>1. CollectionInv /\ CollectionInv' /\ OnceInv /\ [CollectionNext]_collectionVars => OnceInv'
  <2> SUFFICES ASSUME CollectionInv, CollectionInv', OnceInv, [CollectionNext]_collectionVars,
                      ~doubtful', ~untidy'
               PROVE  (OneFetch /\ StoredOnce)'
    BY DEF OnceInv
  <2> USE DEF CollectionInv
  <2>1. CASE CollectionNext
    <3>1. ~doubtful /\ ~untidy
      BY <2>1, NoDoubt, UntidyStays
    <3>2. OneFetch /\ StoredOnce /\ Tidy
      BY <3>1 DEF OnceInv
    <3>3. \A m \in Messages : labelled'[m] > 0 =>
            labelled[m] > 0 \/ \E p \in posts : \E f \in p.found : f[1] = m
      BY <2>1, StoredByOne DEF MessagesOf
    <3> QED
      BY <2>1, <3>2, <3>3, OneFetchStep, StoredOnceStep
  <2>2. CASE UNCHANGED collectionVars
    BY <2>2 DEF collectionVars, source, disk, receiver, OnceInv, OneFetch, StoredOnce, Known, Recorded,
       Kept
  <2> QED
    BY <2>1, <2>2
<1> QED
  BY <1>1, CollectionInvInit, CollectionInvHolds, PTL DEF CollectionSpec

\* No event is in MongoDB twice, over lost answers, retries and restarts, where
\* no fetch came in again before it was recorded and the file was cleaned in time.
THEOREM CollectedOnceHolds == CollectionSpec => []CollectedOnce
<1>1. OnceInv => CollectedOnce
  BY DEF OnceInv, StoredOnce, CollectedOnce
<1> QED
  BY <1>1, OnceInvHolds, PTL
-----------------------------------------------------------------------------
(* The agent waits for exactly one request. *)

\* An agent that waits has a request that will tell it so.
WaitedFor == agent.pc = "wait" => \E p \in posts : p.live

\* A request that goes on is as live as before, and one that ends unheard, or is
\* not waited for, leaves the agent where it is.
LEMMA WaitedForStep ==
  ASSUME CollectionTyped, PostsFit, WaitedFor, CollectionNext
  PROVE  WaitedFor'
<1> SUFFICES ASSUME agent'.pc = "wait" PROVE \E p \in posts' : p.live
  BY DEF WaitedFor
<1> USE DEF Passes, AgentPlaces
<1>1. CASE SendRequest
  <2> DEFINE q == [pc |-> "new", live |-> TRUE, host |-> host, times |-> Fetched("unsent"),
                   found |-> {<<m, saved[m].at>> :
                                m \in {n \in Unsent : saved[n].at \in Fetched("unsent")}}]
  <2>1. q \in posts'
    BY <1>1 DEF SendRequest
  <2>2. q.live
    OBVIOUS
  <2> QED
    BY <2>1, <2>2
<1>2. CASE \/ FetchNothing \/ Call \/ Save \/ MarkEvents \/ MarkFetches \/ Clean
           \/ GiveUp \/ AgentDies
  <2>1. agent \in Passes
    BY DEF CollectionTyped
  <2>2. ASSUME FetchNothing \/ MarkEvents \/ GiveUp PROVE agent'.pc /= "wait"
    BY <2>1, <2>2 DEF FetchNothing, MarkEvents, GiveUp, Comes
  <2>3. ASSUME Call PROVE agent'.pc /= "wait"
    BY <2>1, <2>3 DEF Call, CallFor
  <2>4. ASSUME Save \/ MarkFetches PROVE agent'.pc /= "wait"
    BY <2>1, <2>4 DEF Save, SaveAt, MarkFetches
  <2>5. ASSUME Clean \/ AgentDies PROVE agent'.pc /= "wait"
    BY <2>5, AgentRests DEF Clean, AgentDies
  <2> QED
    BY <1>2, <2>2, <2>3, <2>4, <2>5
<1>3. CASE Tick \/ \E m \in Messages : Show(m)
  BY <1>3 DEF Tick, Show, receiver, WaitedFor
<1>4. ASSUME NEW p \in posts, NEW q, q.live = p.live, Stays(p, q), UNCHANGED agent
      PROVE  \E r \in posts' : r.live
  BY <1>4 DEF WaitedFor, Stays
<1>5. ASSUME NEW p \in posts, CheckFetches(p) \/ StoreEvents(p) \/ RecordFetches(p)
      PROVE  \E r \in posts' : r.live
  <2>1. p \in Posts
    BY DEF CollectionTyped
  <2>2. CASE CheckFetches(p)
    BY <1>4, <2>1, <2>2 DEF CheckFetches, CheckFrom, Posts
  <2>3. CASE StoreEvents(p)
    BY <1>4, <2>1, <2>3 DEF StoreEvents, Posts
  <2>4. CASE RecordFetches(p)
    BY <1>4, <2>1, <2>4 DEF RecordFetches, Posts
  <2> QED
    BY <1>5, <2>2, <2>3, <2>4
<1>6. ASSUME NEW p \in posts, NEW pc \in {"answered", "clean"}, RequestEnds(p, pc)
      PROVE  \E r \in posts' : r.live
  BY <1>6 DEF CollectionTyped, RequestEnds, Comes, WaitedFor
<1> QED
  BY <1>1, <1>2, <1>3, <1>5, <1>6
     DEF CollectionNext, AgentSteps, ReceiverSteps, Reply, ReplyLost, ReceiverFails

\* One set is as large as the other says.
LEMMA OneIsLive ==
  ASSUME CollectionTyped, PostsFit, WaitedFor
  PROVE  Cardinality({p \in posts : p.live}) = IF agent.pc = "wait" THEN 1 ELSE 0
<1>1. CASE agent.pc = "wait"
  <2>1. PICK p \in posts : p.live
    BY <1>1 DEF WaitedFor
  <2>2. {q \in posts : q.live} = {p}
    BY <2>1 DEF PostsFit
  <2> QED
    BY <1>1, <2>2, FS_Singleton
<1>2. CASE agent.pc /= "wait"
  <2>1. {q \in posts : q.live} = {}
    BY <1>2 DEF PostsFit
  <2> QED
    BY <1>2, <2>1, FS_EmptySet
<1> QED
  BY <1>1, <1>2

\* File, requests and records are what the tables know, and an agent waits for
\* exactly one request and no request for nobody: a loss, a death or a restart on
\* either side leaves neither behind (CollectionTypeOK).
THEOREM CollectionTypeHolds == CollectionSpec => []CollectionTypeOK
<1>1. CollectionInit => WaitedFor
  BY DEF CollectionInit, AgentAtRest, WaitedFor
<1>2. CollectionInv /\ WaitedFor /\ [CollectionNext]_collectionVars => WaitedFor'
  <2>1. CASE UNCHANGED collectionVars
    BY <2>1 DEF collectionVars, receiver, WaitedFor
  <2> QED
    BY <2>1, WaitedForStep DEF CollectionInv
<1>3. CollectionInv /\ WaitedFor => CollectionTypeOK
  BY OneIsLive DEF CollectionInv, CollectionTyped, CollectionTypeOK, Passes
<1> QED
  BY <1>1, <1>2, <1>3, CollectionInvHolds, PTL DEF CollectionSpec
=============================================================================
