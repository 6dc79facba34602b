--------------------------- MODULE OaseCollection ---------------------------
(* How events come into ITA: ita_ag_oase fetches what its source shows, keeps *)
(* it in a SQLite file and posts what was not sent yet; post_events of        *)
(* ita_api_oase_receiver refuses fetches it has recorded, writes the events   *)
(* to MongoDB and then the fetches to MariaDB.  Answers get lost, either side *)
(* dies, and the agent may come back under another name.                      *)
EXTENDS Naturals, FiniteSets

CONSTANTS Messages,    \* what the source shows, in the order of numbers
          LastSecond,  \* bound of the clock
          MaxMishaps,  \* how often something is lost, fails or dies
          LastHost,    \* how many values HOSTNAME takes, one per container
          KeptFetches  \* sent fetches whose events stay in the file (2)

ASSUME CollectionAssumption ==
    /\ Messages \subseteq Nat /\ IsFiniteSet(Messages)
    /\ LastSecond \in Nat \ {0, 1} /\ MaxMishaps \in Nat /\ LastHost \in Nat \ {0}
    /\ KeptFetches \in Nat \ {0}

VARIABLES second,    \* the clock
          shown,     \* the second a message carries and appears in, 0: not yet
          saved,     \* table events: fetched_time and sent_flag, or no row
          fetches,   \* table sent_timestamp: sent_flag of each fetched_time
          lastFetch, \* table last_fetched_time
          agent,     \* the pass of the agent
          host,      \* its HOSTNAME
          posts,     \* the requests the receiver is at work on
          labelled,  \* how often an event is in MongoDB
          progress,  \* latest FETCHED_TIME of each host in the progress table
          doubtful,  \* a fetch came in again before it was recorded (history)
          untidy,    \* the agent died before it had cleaned its file (history)
          mishaps

source == <<second, shown>>
disk == <<saved, fetches, lastFetch>>
receiver == <<posts, labelled, progress, doubtful>>
collectionVars == <<source, disk, agent, host, receiver, untidy, mishaps>>

Seconds == 1..LastSecond
Hosts == 1..LastHost

NoRow == [at |-> 0, sent |-> FALSE]
Kept == {m \in Messages : saved[m] /= NoRow}
Unsent == {m \in Kept : ~saved[m].sent}
Fetched(flag) == {t \in Seconds : fetches[t] = flag}

AgentPlaces == {"idle", "save", "send", "wait", "answered", "mark", "clean"}
AgentAtRest == [pc |-> "idle", at |-> 0, got |-> {}, times |-> {}]
Comes(pc) == agent' = [agent EXCEPT !.pc = pc, !.times = IF pc = "clean" THEN {} ELSE @]

\* A request: the fetches it reports, and which message each found.
Posts == [pc : {"new", "checked", "written", "done"}, live : BOOLEAN, host : Hosts,
          times : SUBSET Seconds, found : SUBSET (Messages \X Seconds)]
MessagesOf(p) == {f[1] : f \in p.found}

CollectionTypeOK ==
    /\ second \in Seconds
    /\ shown \in [Messages -> 0..LastSecond]
    /\ saved \in [Messages -> [at : 0..LastSecond, sent : BOOLEAN]]
    /\ fetches \in [Seconds -> {"none", "unsent", "sent"}]
    /\ lastFetch \in Seconds
    /\ agent.pc \in AgentPlaces /\ agent.got \subseteq Messages
    /\ host \in Hosts
    /\ \A p \in posts : p \in Posts
    /\ Cardinality({p \in posts : p.live}) = IF agent.pc = "wait" THEN 1 ELSE 0
    /\ labelled \in [Messages -> Nat]
    /\ progress \in [Hosts -> 0..LastSecond]
    /\ mishaps \in 0..MaxMishaps

\* The first pass has noted the time it began.
CollectionInit ==
    /\ second = 2 /\ shown = [m \in Messages |-> 0]
    /\ saved = [m \in Messages |-> NoRow]
    /\ fetches = [t \in Seconds |-> "none"]
    /\ lastFetch = 1
    /\ agent = AgentAtRest /\ host = 1
    /\ posts = {} /\ labelled = [m \in Messages |-> 0]
    /\ progress = [h \in Hosts |-> 0]
    /\ doubtful = FALSE /\ untidy = FALSE /\ mishaps = 0

Mishap == mishaps < MaxMishaps /\ mishaps' = mishaps + 1

-----------------------------------------------------------------------------
(* The source: a message carries the second in which it becomes visible. *)

Tick == /\ second < LastSecond
        /\ second' = second + 1
        /\ UNCHANGED <<shown, disk, agent, host, receiver, untidy, mishaps>>

Show(m) == /\ shown[m] = 0 /\ \A n \in Messages : n < m => shown[n] /= 0
           /\ shown' = [shown EXCEPT ![m] = second]
           /\ UNCHANGED <<second, disk, agent, host, receiver, untidy, mishaps>>

-----------------------------------------------------------------------------
(* The agent. *)

\* A pass that knows no settings, or whose call fails, goes on to send.
FetchNothing == /\ agent.pc = "idle"
                /\ Comes("send")
                /\ UNCHANGED <<source, disk, host, receiver, untidy, mishaps>>

\* collect_event notes fetched_time and asks the source for what is not older
\* than the last fetch; passes are at least three seconds apart.
CallFor(ms) == /\ agent.pc = "idle" /\ second > lastFetch
               /\ agent' = [agent EXCEPT !.pc = "save", !.at = second, !.got =
                              {m \in ms : shown[m] /= 0 /\ shown[m] >= lastFetch}]
               /\ UNCHANGED <<source, disk, host, receiver, untidy, mishaps>>

\* Slip: messages that are still in the file are taken again.
CallRepeatedly == CallFor(Messages)

\* Without the SAVED_IDS.
Call == CallFor(Messages \ Kept)

SaveAt(noted) ==
    /\ agent.pc = "save"
    /\ saved' = [m \in Messages |->
                   IF m \in agent.got THEN [at |-> agent.at, sent |-> FALSE] ELSE saved[m]]
    /\ fetches' = IF agent.got = {} THEN fetches ELSE [fetches EXCEPT ![agent.at] = "unsent"]
    /\ lastFetch' = noted
    /\ agent' = [agent EXCEPT !.pc = "send", !.at = 0, !.got = {}]
    /\ UNCHANGED <<source, host, receiver, untidy, mishaps>>

\* Slip: the time of saving becomes that of the fetch.
SaveNow == SaveAt(second)

\* insert_events, one transaction.
Save == SaveAt(agent.at)

\* What was found and not sent is posted, all unsent fetches in one request.
SendRequest ==
    /\ agent.pc = "send" /\ Fetched("unsent") /= {}
    /\ posts' = posts \cup
         {[pc |-> "new", live |-> TRUE, host |-> host, times |-> Fetched("unsent"),
           found |-> {<<m, saved[m].at>> :
                        m \in {n \in Unsent : saved[n].at \in Fetched("unsent")}}]}
    /\ agent' = [agent EXCEPT !.pc = "wait", !.times = Fetched("unsent")]
    /\ UNCHANGED <<source, disk, host, labelled, progress, doubtful, untidy, mishaps>>

\* Of a 200: first the events are marked, then, in a transaction of its own,
\* the fetches.
MarkEvents ==
    /\ agent.pc = "answered"
    /\ saved' = [m \in Messages |->
                   IF m \in Unsent /\ saved[m].at \in agent.times
                   THEN [saved[m] EXCEPT !.sent = TRUE] ELSE saved[m]]
    /\ Comes("mark")
    /\ UNCHANGED <<source, fetches, lastFetch, host, receiver, untidy, mishaps>>

MarkFetches ==
    /\ agent.pc = "mark"
    /\ fetches' = [t \in Seconds |-> IF t \in agent.times THEN "sent" ELSE fetches[t]]
    /\ agent' = [agent EXCEPT !.pc = "clean", !.times = {}]
    /\ UNCHANGED <<source, saved, lastFetch, host, receiver, untidy, mishaps>>

\* The latest fetches that were sent.
Remaining ==
    {t \in Fetched("sent") : Cardinality({u \in Fetched("sent") : u > t}) < KeptFetches}

\* The end of a pass, with or without a request: delete_unnecessary_records, when
\* there are more sent fetches than stay; its condition takes unsent rows along.
Clean ==
    /\ agent.pc = "clean" \/ (agent.pc = "send" /\ Fetched("unsent") = {})
    /\ IF Fetched("sent") = Remaining
       THEN UNCHANGED disk
       ELSE LET old == {m \in Kept \ Unsent : saved[m].at \notin Remaining}
                dropped == IF old = {} THEN {} ELSE old \cup Unsent
            IN  /\ saved' = [m \in Messages |-> IF m \in dropped THEN NoRow ELSE saved[m]]
                /\ fetches' = [t \in Seconds |-> IF t \in Remaining THEN "sent" ELSE "none"]
                /\ UNCHANGED lastFetch
    /\ agent' = AgentAtRest
    /\ UNCHANGED <<source, host, receiver, untidy, mishaps>>

\* The request is given up while the receiver goes on with it.
GiveUp == /\ agent.pc = "wait" /\ Mishap
          /\ posts' = {[p EXCEPT !.live = FALSE] : p \in posts}
          /\ Comes("clean")
          /\ UNCHANGED <<source, disk, host, labelled, progress, doubtful, untidy>>

\* The container ends at any point; the file stays, the name may not.
AgentDies == /\ Mishap
             /\ agent' = AgentAtRest
             /\ host' \in {host, host + 1} \cap Hosts
             /\ posts' = {[p EXCEPT !.live = FALSE] : p \in posts}
             /\ untidy' = (untidy \/ Fetched("sent") /= Remaining)
             /\ UNCHANGED <<source, disk, labelled, progress, doubtful>>

AgentSteps == FetchNothing \/ Call \/ Save \/ SendRequest
              \/ MarkEvents \/ MarkFetches \/ Clean

-----------------------------------------------------------------------------
(* The receiver. *)

AtWork(p) == p.pc \in {"checked", "written"}
Stays(p, q) == posts' = (posts \ {p}) \cup {q}

\* The request ends, and the agent gets to know of it if it still waits.
RequestEnds(p, pc) == /\ posts' = posts \ {p}
                      /\ IF p.live THEN Comes(pc) ELSE UNCHANGED agent

\* A fetch that may be in MongoDB although this check cannot see it: another
\* request is between its check and its record, or it was another name's.
Unrecorded(p, new) == \/ \E q \in posts : AtWork(q)
                      \/ \E t \in new, h \in Hosts \ {p.host} : t <= progress[h]

CheckFrom(p, new) ==
    /\ p.pc = "new"
    /\ LET found == {f \in p.found : f[2] \in new}
       IN  Stays(p, [p EXCEPT !.pc = IF found = {} THEN "done" ELSE "checked",
                              !.times = new, !.found = found])
    /\ doubtful' = (doubtful \/ Unrecorded(p, new))
    /\ UNCHANGED <<source, disk, agent, host, labelled, progress, untidy, mishaps>>

\* Slip: the fetch that was recorded last is let in.
CheckLoosely(p) == CheckFrom(p, {t \in p.times : t >= progress[p.host]})

\* Slip: what is refused is answered with an error.
CheckStrictly(p) ==
    LET new == {t \in p.times : t > progress[p.host]}
    IN  \/ CheckFrom(p, new) /\ \E f \in p.found : f[2] \in new
        \/ /\ p.pc = "new" /\ \A f \in p.found : f[2] \notin new
           /\ RequestEnds(p, "clean")
           /\ UNCHANGED <<source, disk, host, labelled, progress, doubtful, untidy, mishaps>>

\* post_events: fetches not later than the last one recorded are left out, and
\* where nothing else was found that is all.
CheckFetches(p) == CheckFrom(p, {t \in p.times : t > progress[p.host]})

Inserted(ms) == [m \in Messages |-> IF m \in ms THEN labelled[m] + 1 ELSE labelled[m]]

StoreEvents(p) == /\ p.pc = "checked"
                  /\ labelled' = Inserted(MessagesOf(p))
                  /\ Stays(p, [p EXCEPT !.pc = "written"])
                  /\ UNCHANGED <<source, disk, agent, host, progress, doubtful, untidy,
                                 mishaps>>

RecordFetches(p) ==
    /\ p.pc = "written"
    /\ \E latest \in p.times \cup {progress[p.host]} :
         /\ latest >= progress[p.host] /\ \A t \in p.times : latest >= t
         /\ progress' = [progress EXCEPT ![p.host] = latest]
    /\ Stays(p, [p EXCEPT !.pc = "done"])
    /\ UNCHANGED <<source, disk, agent, host, labelled, doubtful, untidy, mishaps>>

Reply(p) == /\ p.pc = "done"
            /\ RequestEnds(p, "answered")
            /\ UNCHANGED <<source, disk, host, labelled, progress, doubtful, untidy, mishaps>>

ReplyLost(p) == /\ p.pc = "done" /\ p.live /\ Mishap
                /\ RequestEnds(p, "clean")
                /\ UNCHANGED <<source, disk, host, labelled, progress, doubtful, untidy>>

\* A store is out of reach or the process dies: perhaps in the middle of the
\* events, perhaps between them and the record.
ReceiverFails(p) ==
    /\ p.pc /= "done" /\ Mishap
    /\ \E ms \in SUBSET (IF p.pc = "checked" THEN MessagesOf(p) ELSE {}) :
         /\ labelled' = Inserted(ms)
         /\ doubtful' = (doubtful \/ ms /= {} \/ p.pc = "written")
    /\ RequestEnds(p, "clean")
    /\ UNCHANGED <<source, disk, host, progress, untidy>>

ReceiverSteps ==
    \E p \in posts : CheckFetches(p) \/ StoreEvents(p) \/ RecordFetches(p) \/ Reply(p)

CollectionNext == \/ Tick \/ \E m \in Messages : Show(m)
                  \/ AgentSteps \/ GiveUp \/ AgentDies
                  \/ ReceiverSteps \/ \E p \in posts : ReplyLost(p) \/ ReceiverFails(p)

CollectionSpec == CollectionInit /\ [][CollectionNext]_collectionVars

\* The agent loops and a request is worked on.
CollectionFairSpec == CollectionSpec /\ WF_collectionVars(AgentSteps)
                                     /\ WF_collectionVars(ReceiverSteps)

-----------------------------------------------------------------------------
\* Whatever dies or is lost: what the source showed before the last fetch is in
\* MongoDB or waits in the agent's file; but for an agent that died before it
\* had cleaned, whose next cleaning takes unsent rows along.
NothingLost ==
    untidy \/ \A m \in Messages :
                shown[m] \in 1..(lastFetch - 1) => labelled[m] > 0 \/ m \in Unsent

\* No event is in MongoDB twice, over lost answers, retries and restarts; but
\* where a fetch came in again before it was recorded, or such an agent dropped
\* a row by which it would have known the message again.
CollectedOnce == doubtful \/ untidy \/ \A m \in Messages : labelled[m] <= 1

\* What the agent has found gets into MongoDB, and the agent gets to know.
EventsArrive == []<>(untidy \/ \A m \in Kept : saved[m].sent /\ labelled[m] > 0)
=============================================================================
