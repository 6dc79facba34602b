------------------------------ MODULE OaseProofs ------------------------------
(* The events of OaseJudgement, for every rule set, limit and set of filters,  *)
(* and the rows of OaseActions, for every set of events, limit of faults and   *)
(* size of buffer.                                                             *)
EXTENDS OaseJudgement, OaseActions, FiniteSetTheorems, WellFoundedInduction, TLAPS

\* What a pass relies on of the events: they are records in a sequence, and the
\* flag of each agrees with the rules that used it.
OaseInv == /\ rules \in RuleSets
           /\ events \in Seq(Event)
           /\ EventUsedOnce

\* How a step may treat the events there are: one that is no longer new stays,
\* one that is new is used by one rule, or gives up being new unused.
Ages(e, d) == /\ d \in Event
              /\ e.flag /= "new" => d = e
              /\ e.flag = "new" => \/ d.flag = "evaluated" /\ d.used = e.used + 1
                                   \/ d.flag /= "evaluated" /\ d.used = e.used

\* A sequence of the length of another is one of the same kind.
LEMMA MarkedIsSeq ==
  ASSUME NEW s \in Seq(Event), NEW t, DOMAIN t = DOMAIN s,
         t = [e \in DOMAIN s |-> t[e]],
         \A e \in DOMAIN s : t[e] \in Event
  PROVE  t \in Seq(Event)
<1>1. t \in [DOMAIN s -> Event]
  OBVIOUS
<1>2. QED
  BY <1>1

\* A filter picks only events that are there and new.
LEMMA PickedIsNew ==
  ASSUME NEW r
  PROVE  \A e \in EventsOf(r) : e \in DOMAIN events /\ events[e].flag = "new"
BY DEF EventsOf, Picked, Candidates, IsNew

\* The rules of the set in force catch and make events for filters there are.
LEMMA RuleIsRule ==
  ASSUME OaseInv, NEW r \in Rules
  PROVE  r \in Nat /\ rules[r].makes \in SUBSET Filters
<1> DEFINE R == [a : Filters, b : Filters \cup {"none"},
                 op : {"single", "and", "xor", "order"},
                 acts : BOOLEAN, makes : SUBSET Filters]
<1>1. rules \in Seq(R)
  BY RuleAssumption DEF OaseInv
<1>2. r \in Nat /\ rules[r] \in R
  <2> HIDE DEF R
  <2>1. QED
    BY <1>1 DEF Rules
<1>3. QED
  BY <1>2

\* What is labelled or concluded is an event, new and unused.
LEMMA FreshIsEvent ==
  ASSUME events \in Seq(Event), NEW fs \in SUBSET Filters, NEW r \in Nat, NEW later \in {0, 1}
  PROVE  /\ Fresh(fs, r, later) \in Event
         /\ Fresh(fs, r, later).flag = "new" /\ Fresh(fs, r, later).used = 0
<1>1. CASE events = <<>>
  BY <1>1 DEF Fresh, Event
<1>2. CASE events /= <<>>
  <2>1. Len(events) \in DOMAIN events
    BY <1>2
  <2>2. events[Len(events)] \in Event
    BY <2>1
  <2>3. events[Len(events)].at \in Nat
    BY <2>2 DEF Event
  <2>4. QED
    BY <1>2, <2>3 DEF Fresh, Event
<1>3. QED
  BY <1>1, <1>2

\* A step that treats the events this way, and adds at most a new unused one,
\* keeps the invariant and what has been judged.
LEMMA AgeingKeeps ==
  ASSUME OaseInv, NEW aged, aged = [e \in DOMAIN events |-> aged[e]],
         \A e \in DOMAIN events : Ages(events[e], aged[e]),
         rules' = rules,
         events' = aged \/ \E x \in Event : /\ events' = Append(aged, x)
                                           /\ x.flag = "new" /\ x.used = 0
  PROVE  /\ OaseInv'
         /\ \A e \in DOMAIN events : ~IsNew(e) => events'[e] = events[e]
<1>1. aged \in Seq(Event) /\ DOMAIN aged = DOMAIN events
  <2>1. \A e \in DOMAIN events : aged[e] \in Event
    BY DEF Ages
  <2>2. DOMAIN aged = DOMAIN events
    OBVIOUS
  <2>3. QED
    BY <2>1, <2>2, MarkedIsSeq DEF OaseInv
<1>2. \A e \in DOMAIN aged : aged[e].used = IF aged[e].flag = "evaluated" THEN 1 ELSE 0
  <2>1. SUFFICES ASSUME NEW e \in DOMAIN events
                 PROVE  aged[e].used = IF aged[e].flag = "evaluated" THEN 1 ELSE 0
    BY <1>1
  <2>2. events[e].used = IF events[e].flag = "evaluated" THEN 1 ELSE 0
    BY DEF OaseInv, EventUsedOnce
  <2>3. Ages(events[e], aged[e])
    OBVIOUS
  <2>4. QED
    BY <2>2, <2>3 DEF Ages
<1>3. \A e \in DOMAIN events : ~IsNew(e) => aged[e] = events[e]
  BY DEF Ages, IsNew
<1>4. CASE events' = aged
  BY <1>1, <1>2, <1>3, <1>4 DEF OaseInv, EventUsedOnce
<1>5. ASSUME NEW x \in Event, events' = Append(aged, x), x.flag = "new", x.used = 0
      PROVE  /\ OaseInv'
             /\ \A e \in DOMAIN events : ~IsNew(e) => events'[e] = events[e]
  <2>1. events' \in Seq(Event)
    BY <1>1, <1>5
  <2>2. /\ DOMAIN events' = DOMAIN aged \cup {Len(aged) + 1}
        /\ events'[Len(aged) + 1] = x
        /\ \A e \in DOMAIN aged : events'[e] = aged[e]
    BY <1>1, <1>5
  <2>3. EventUsedOnce'
    BY <1>2, <1>5, <2>2 DEF EventUsedOnce
  <2>4. QED
    BY <1>1, <1>3, <2>1, <2>2, <2>3 DEF OaseInv
<1>6. QED
  BY <1>4, <1>5

-----------------------------------------------------------------------------
LEMMA InvInit == OaseInit => OaseInv
BY DEF OaseInit, OaseInv, EventUsedOnce

\* Events nobody touches age as they may.
LEMMA RestAges ==
  ASSUME OaseInv, NEW e \in DOMAIN events
  PROVE  Ages(events[e], events[e])
BY DEF OaseInv, Ages

\* So does one that a rule uses.
LEMMA UsingAges ==
  ASSUME NEW e \in Event, e.flag = "new"
  PROVE  Ages(e, [e EXCEPT !.flag = "evaluated", !.used = @ + 1])
<1> DEFINE d == [e EXCEPT !.flag = "evaluated", !.used = @ + 1]
<1>1. e.used + 1 \in Nat
  BY DEF Event
<1>2. d.flag = "evaluated" /\ d.used = e.used + 1
  BY DEF Event
<1>3. [e EXCEPT !.flag = "evaluated"] \in Event
  BY DEF Event
<1>4. \A c \in Event, n \in Nat : [c EXCEPT !.used = n] \in Event
  BY DEF Event
<1>5. d = [[e EXCEPT !.flag = "evaluated"] EXCEPT !.used = e.used + 1]
  BY DEF Event
<1>6. d \in Event
  BY <1>1, <1>3, <1>4, <1>5
<1>7. QED
  BY <1>2, <1>6 DEF Ages

LEMMA InvArrive ==
  ASSUME OaseInv, Arrive
  PROVE  OaseInv' /\ \A e \in DOMAIN events : ~IsNew(e) => events'[e] = events[e]
<1>1. PICK fs \in SUBSET Filters, later \in {0, 1} :
         events' = Append(events, Fresh(fs, 0, later))
  BY DEF Arrive
<1>2. /\ Fresh(fs, 0, later) \in Event
      /\ Fresh(fs, 0, later).flag = "new" /\ Fresh(fs, 0, later).used = 0
  BY FreshIsEvent DEF OaseInv
<1>3. rules' = rules /\ events = [e \in DOMAIN events |-> events[e]]
  BY DEF Arrive, OaseInv
<1>4. QED
  BY <1>1, <1>2, <1>3, RestAges, AgeingKeeps

LEMMA InvPassBegins ==
  ASSUME OaseInv, PassBegins
  PROVE  OaseInv' /\ \A e \in DOMAIN events : ~IsNew(e) => events'[e] = events[e]
<1>1. PICK late \in SUBSET {e \in DOMAIN events : IsNew(e)},
           over \in SUBSET {e \in DOMAIN events : IsNew(e)} :
         events' = [e \in DOMAIN events |->
                     IF e \in over THEN [events[e] EXCEPT !.flag = "timeout"]
                     ELSE IF e \in late THEN [events[e] EXCEPT !.time = "late"]
                     ELSE events[e]]
  BY Zenon DEF PassBegins
<1>2. ASSUME NEW e \in DOMAIN events
      PROVE  Ages(events[e], events'[e])
  <2>1. events[e] \in Event
    BY DEF OaseInv
  <2>2. CASE e \in over
    BY <1>1, <2>1, <2>2 DEF Ages, Event, IsNew
  <2>3. CASE e \notin over /\ e \in late
    BY <1>1, <2>1, <2>3 DEF Ages, Event, IsNew
  <2>4. CASE e \notin over /\ e \notin late
    BY <1>1, <2>4, RestAges
  <2>5. QED
    BY <2>2, <2>3, <2>4
<1>3. rules' = rules /\ events' = [e \in DOMAIN events |-> events'[e]]
  BY <1>1 DEF PassBegins
<1>4. QED
  BY <1>2, <1>3, AgeingKeeps

LEMMA InvPassEnds ==
  ASSUME OaseInv, PassEnds
  PROVE  OaseInv' /\ \A e \in DOMAIN events : ~IsNew(e) => events'[e] = events[e]
<1>1. events' = [e \in DOMAIN events |-> Leftover(e)] /\ rules' = rules
  BY DEF PassEnds
<1>2. ASSUME NEW e \in DOMAIN events
      PROVE  Ages(events[e], Leftover(e))
  <2>1. events[e] \in Event
    BY DEF OaseInv
  <2>2. CASE ~IsNew(e)
    BY <2>2, RestAges DEF Leftover
  <2>3. CASE IsNew(e) /\ events[e].time = "late"
    <3>1. Leftover(e) = [events[e] EXCEPT !.flag = "timeout"]
      BY <2>3 DEF Leftover
    <3>2. QED
      BY <2>1, <2>3, <3>1 DEF Ages, Event, IsNew
  <2>4. CASE IsNew(e) /\ events[e].time /= "late" /\ \A f \in Filters : e \notin Held(f)
    <3>1. Leftover(e) = [events[e] EXCEPT !.flag = "undetected"]
      BY <2>4 DEF Leftover
    <3>2. QED
      BY <2>1, <2>4, <3>1 DEF Ages, Event, IsNew
  <2>5. CASE IsNew(e) /\ events[e].time /= "late" /\ ~\A f \in Filters : e \notin Held(f)
    <3>1. Leftover(e) = events[e]
      BY <2>5 DEF Leftover
    <3>2. QED
      BY <3>1, RestAges
  <2>6. QED
    BY <2>2, <2>3, <2>4, <2>5
<1>3. events' = [e \in DOMAIN events |-> events'[e]]
  BY <1>1
<1>4. QED
  BY <1>1, <1>2, <1>3, AgeingKeeps

LEMMA InvJudge ==
  ASSUME OaseInv, NEW r \in Rules, Judge(r)
  PROVE  OaseInv' /\ \A e \in DOMAIN events : ~IsNew(e) => events'[e] = events[e]
<1> DEFINE marked == [e \in DOMAIN events |-> IF e \in EventsOf(r) THEN Used(e) ELSE events[e]]
<1>1. rules' = rules /\ r \in Nat /\ rules[r].makes \in SUBSET Filters
  BY RuleIsRule DEF Judge
<1>2. \/ events' = events
      \/ events' = marked
      \/ \E later \in {0, 1} : events' = Append(marked, Fresh(rules[r].makes, r, later))
  BY DEF Judge
<1>3. ASSUME NEW e \in DOMAIN events
      PROVE  Ages(events[e], marked[e])
  <2>1. events[e] \in Event
    BY DEF OaseInv
  <2>2. CASE e \in EventsOf(r)
    <3>1. marked[e] = [events[e] EXCEPT !.flag = "evaluated", !.used = @ + 1]
      BY <2>2 DEF Used
    <3>2. events[e].flag = "new"
      BY <2>2, PickedIsNew
    <3>3. QED
      BY <2>1, <3>1, <3>2, UsingAges
  <2>3. CASE e \notin EventsOf(r)
    BY <2>3, RestAges
  <2>4. QED
    BY <2>2, <2>3
<1>4. marked = [e \in DOMAIN events |-> marked[e]]
  OBVIOUS
<1> HIDE DEF marked
<1>5. CASE events' = events
  <2>1. events = [e \in DOMAIN events |-> events[e]]
    BY DEF OaseInv
  <2>2. QED
    BY <1>1, <1>5, <2>1, RestAges, AgeingKeeps
<1>6. CASE events' = marked
  BY <1>1, <1>3, <1>4, <1>6, AgeingKeeps
<1>7. CASE \E later \in {0, 1} : events' = Append(marked, Fresh(rules[r].makes, r, later))
  <2>1. PICK later \in {0, 1} : events' = Append(marked, Fresh(rules[r].makes, r, later))
    BY <1>7
  <2>2. /\ Fresh(rules[r].makes, r, later) \in Event
        /\ Fresh(rules[r].makes, r, later).flag = "new"
        /\ Fresh(rules[r].makes, r, later).used = 0
    BY <1>1, FreshIsEvent DEF OaseInv
  <2>3. QED
    BY <1>1, <1>3, <1>4, <2>1, <2>2, AgeingKeeps
<1>8. QED
  BY <1>2, <1>5, <1>6, <1>7

LEMMA InvStep ==
  ASSUME OaseInv, [OaseNext]_oaseVars
  PROVE  OaseInv' /\ \A e \in DOMAIN events : ~IsNew(e) => events'[e] = events[e]
<1>1. CASE UNCHANGED <<rules, events>>
  BY <1>1 DEF OaseInv, EventUsedOnce
<1>2. CASE SweepAgain \/ NextLevel \/ UNCHANGED oaseVars
  BY <1>1, <1>2 DEF SweepAgain, NextLevel, oaseVars
<1>3. CASE \E r \in Rules : Judge(r)
  BY <1>3, InvJudge
<1>4. QED
  BY <1>2, <1>3, InvArrive, InvPassBegins, InvPassEnds DEF OaseNext, PassGoesOn

-----------------------------------------------------------------------------
\* RegisterActionLog uses an event up once and flags it, whatever the rules, the
\* filters they share, the levels and the sweeps (EventUsedOnce).
THEOREM UsedOnceHolds == OaseSpec => []EventUsedOnce
<1>1. OaseInv /\ [OaseNext]_oaseVars => OaseInv'
  BY InvStep
<1>2. OaseInv => EventUsedOnce
  BY DEF OaseInv
<1>3. QED
  BY <1>1, <1>2, InvInit, PTL DEF OaseSpec

\* What has been used, has timed out or was found unknown stays as it is through
\* all passes that follow (JudgedOnce).
THEOREM JudgedOnceHolds == OaseSpec => JudgedOnce
<1>1. OaseInv /\ [OaseNext]_oaseVars => OaseInv'
  BY InvStep
<1>2. OaseInv /\ [OaseNext]_oaseVars
        => [\A e \in DOMAIN events : ~IsNew(e) => events'[e] = events[e]]_oaseVars
  BY InvStep
<1>3. QED
  BY <1>1, <1>2, InvInit, PTL DEF OaseSpec, JudgedOnce

-----------------------------------------------------------------------------
\* What the writer's queue carries: writes to the stores, and two markers.
Writes == [kind : {"insert", "flag", "conclude", "complete"}, row : LogRows]
          \cup [kind : {"flush", "finish"}]
Insert(l) == [kind |-> "insert", row |-> l]

\* Row l has not been thought of yet.
Untried(l) == /\ logs[l] = "none"
              /\ \A i \in DOMAIN queue : queue[i] /= Insert(l)
              /\ \A i \in DOMAIN rowBuffer : rowBuffer[i] /= Insert(l)

\* The flag of an event is on its way.
FlagComes(e) == \/ \E i \in DOMAIN queue : queue[i].kind = "flag" /\ queue[i].row.of = e
                \/ \E i \in DOMAIN held : held[i].kind = "flag" /\ held[i].row.of = e

\* What the queue, the two buffers and the stores hold.
ActionTypes ==
    /\ queue \in Seq(Writes) /\ held \in Seq(Writes) /\ rowBuffer \in Seq(Writes)
    /\ \A i \in DOMAIN held : held[i].kind \in {"flag", "conclude"}
    /\ \A i \in DOMAIN rowBuffer : ToLog(rowBuffer[i])
    /\ evaluated \subseteq Happenings /\ cache \subseteq Happenings
    /\ logs \in [LogRows -> {"none", "matched", "executing", "completed", "abend"}]
    /\ starts \in [LogRows -> Nat]
    /\ main \in [pc : MainPlaces, todo : Seq(LogRows)]
    /\ faults \in 0..MaxFaults /\ writer \in BOOLEAN

\* Nothing is asked for that is not written; a dead writer was asked for nothing.
NothingAsked == queue = <<>> /\ held = <<>> /\ rowBuffer = <<>>
DeadIsEmpty == writer \/ NothingAsked

\* A row whose insertion is asked for is not there and is asked for once.
InsertsApart ==
    /\ \A i \in DOMAIN queue :
         queue[i].kind = "insert" =>
            /\ logs[queue[i].row] = "none"
            /\ \A j \in DOMAIN queue : queue[j] = queue[i] => i = j
            /\ \A j \in DOMAIN rowBuffer : rowBuffer[j] /= queue[i]
    /\ \A j \in DOMAIN rowBuffer : rowBuffer[j].kind = "insert" => logs[rowBuffer[j].row] = "none"

\* A row is completed after it was inserted.
CompletesFollow ==
    /\ \A i \in DOMAIN queue :
         queue[i].kind = "complete" =>
            \/ logs[queue[i].row] /= "none"
            \/ \E j \in DOMAIN rowBuffer : rowBuffer[j] = Insert(queue[i].row)
            \/ \E j \in DOMAIN queue : j < i /\ queue[j] = Insert(queue[i].row)
    /\ \A i \in DOMAIN rowBuffer :
         rowBuffer[i].kind = "complete" =>
            \/ logs[rowBuffer[i].row] /= "none"
            \/ \E j \in DOMAIN rowBuffer : rowBuffer[j] = Insert(rowBuffer[i].row)

\* The rows of a later try are untried; so are those of this try whose event
\* still waits in the cache.
TriesAreNew ==
    \A l \in LogRows :
        l.try > faults + 1 \/ (l.try = faults + 1 /\ (~writer \/ l.of \in cache)) => Untried(l)

\* An event not flagged has not been acted on in this try, or its flag is on
\* its way.
FlagsCome ==
    writer => \A e \in Happenings \ evaluated : Untried([of |-> e, try |-> faults + 1]) \/ FlagComes(e)

\* Past an answer of the writer nothing it was asked before is unwritten; while
\* one is waited for, the marker is the last of the queue.
AnswersAreTrue ==
    /\ At("idle") => NothingAsked
    /\ main.pc \in {"flush", "finish", "broken"} =>
         NothingAsked \/ (queue /= <<>> /\ queue[Len(queue)].kind \in {"flush", "finish"})
    /\ main.pc \in {"start", "run", "link", "check", "conclude"} =>
         rowBuffer = <<>> /\ \A i \in DOMAIN queue : ~ToLog(queue[i])

\* A row that was started is no longer matched.
StartsOnce == \A l \in LogRows : starts[l] <= 1 /\ (starts[l] = 1 => logs[l] \notin {"none", "matched"})

\* What is to be started is matched and listed once; the first of it may be
\* under way already.
WorkListed == LET work == main.todo IN
    /\ main.pc \in {"start", "run", "link"} =>
         \A i \in DOMAIN work :
            /\ (i = 1 /\ ~At("start")) \/ logs[work[i]] = "matched"
            /\ \A j \in DOMAIN work : work[i] = work[j] => i = j
    /\ main.pc \in {"run", "link", "conclude"} => work /= <<>>
    /\ At("run") => logs[work[1]] = "executing" /\ starts[work[1]] = 0
    /\ main.pc \in {"check", "conclude"} => \A i \in DOMAIN work : logs[work[i]] /= "none"

\* What holds of the action log whichever process has died.
ActionInv == /\ ActionTypes /\ DeadIsEmpty /\ InsertsApart /\ CompletesFollow /\ TriesAreNew /\ FlagsCome
        /\ AnswersAreTrue /\ StartsOnce /\ WorkListed

\* Where the elements of a tail come from.
LEMMA TailIs ==
    ASSUME NEW S, NEW s \in Seq(S), s /= <<>>
    PROVE  /\ Tail(s) \in Seq(S) /\ Head(s) = s[1] /\ s[1] \in S /\ 1 \in DOMAIN s
           /\ Len(s) \in Nat /\ Len(Tail(s)) = Len(s) - 1
           /\ \A i \in DOMAIN Tail(s) :
                i \in Nat \ {0} /\ i + 1 \in DOMAIN s /\ Tail(s)[i] = s[i + 1]
           /\ \A i \in DOMAIN s : i \in Nat /\ (i = 1 \/ (i - 1 \in DOMAIN Tail(s) /\ Tail(s)[i - 1] = s[i]))
OBVIOUS

\* Where the elements of an appended sequence come from.
LEMMA AppendIs ==
    ASSUME NEW S, NEW s \in Seq(S), NEW x \in S
    PROVE  /\ Append(s, x) \in Seq(S) /\ Append(s, x) /= <<>>
           /\ Len(s) \in Nat /\ Len(Append(s, x)) = Len(s) + 1
           /\ \A i \in DOMAIN Append(s, x) :
                 \/ i \in DOMAIN s /\ Append(s, x)[i] = s[i]
                 \/ i = Len(s) + 1 /\ Append(s, x)[i] = x
           /\ \A i \in DOMAIN s : i \in DOMAIN Append(s, x) /\ Append(s, x)[i] = s[i]
           /\ Len(s) + 1 \in DOMAIN Append(s, x) /\ Append(s, x)[Len(s) + 1] = x
OBVIOUS

\* Where those of two joined sequences come from.
LEMMA ConcatIs ==
    ASSUME NEW S, NEW s \in Seq(S), NEW t \in Seq(S)
    PROVE  /\ s \o t \in Seq(S)
           /\ Len(s) \in Nat /\ Len(t) \in Nat /\ Len(s \o t) = Len(s) + Len(t)
           /\ \A i \in DOMAIN (s \o t) : i \in Nat
           /\ \A i \in DOMAIN s : i <= Len(s)
           /\ \A i \in DOMAIN (s \o t) :
                 \/ i \in DOMAIN s /\ (s \o t)[i] = s[i]
                 \/ i - Len(s) \in DOMAIN t /\ (s \o t)[i] = t[i - Len(s)]
           /\ \A i \in DOMAIN s : i \in DOMAIN (s \o t) /\ (s \o t)[i] = s[i]
           /\ \A i \in DOMAIN t : i + Len(s) \in DOMAIN (s \o t) /\ (s \o t)[i + Len(s)] = t[i]
OBVIOUS

\* A finite set made a sequence has each element once.
LEMMA SetToSeqIs ==
    ASSUME NEW S, IsFiniteSet(S)
    PROVE  /\ SetToSeq(S) \in Seq(S)
           /\ \A i, j \in DOMAIN SetToSeq(S) : SetToSeq(S)[i] = SetToSeq(S)[j] => i = j
<1>1. /\ Cardinality(S) \in Nat
      /\ \E f \in [1..Cardinality(S) -> S] : IsInjective(f)
  <2>1. Cardinality(S) \in Nat /\ ExistsBijection(1..Cardinality(S), S)
    BY FS_CardinalityType
  <2>. QED
    BY <2>1 DEF ExistsBijection, Bijection, Injection, IsInjective
<1>2. SetToSeq(S) \in [1..Cardinality(S) -> S] /\ IsInjective(SetToSeq(S))
  BY <1>1 DEF SetToSeq
<1>. QED
  BY <1>1, <1>2 DEF IsInjective

\* There are finitely many rows.
LEMMA LogRowsFinite == IsFiniteSet(LogRows)
<1>. DEFINE Pairs == Happenings \X (1..MaxFaults + 1)
            f == [p \in Pairs |-> [of |-> p[1], try |-> p[2]]]
<1>1. IsFiniteSet(Pairs)
  <2>1. IsFiniteSet(1..MaxFaults + 1) /\ IsFiniteSet(Happenings)
    BY FS_Interval, ActionAssumption
  <2>. QED
    BY <2>1, FS_Product
<1>2. f \in Surjection(Pairs, LogRows)
  <2>1. f \in [Pairs -> LogRows]
    BY DEF LogRows
  <2>2. ASSUME NEW l \in LogRows PROVE <<l.of, l.try>> \in Pairs /\ f[<<l.of, l.try>>] = l
    BY DEF LogRows
  <2>. QED
    BY <2>1, <2>2 DEF Surjection
<1>. HIDE DEF Pairs, f
<1>. QED
  BY <1>1, <1>2, FS_Surjection

\* The rows the main process reads are listed once each.
LEMMA PendingIs ==
    ASSUME NEW S \in SUBSET LogRows
    PROVE  /\ SetToSeq(S) \in Seq(S) /\ SetToSeq(S) \in Seq(LogRows)
           /\ \A i, j \in DOMAIN SetToSeq(S) : SetToSeq(S)[i] = SetToSeq(S)[j] => i = j
           /\ \A i \in DOMAIN SetToSeq(S) : SetToSeq(S)[i] \in S
<1>1. IsFiniteSet(S)
  BY LogRowsFinite, FS_Subset
<1>. QED
  BY <1>1, SetToSeqIs

\* It holds at the start.
LEMMA ActionInvStarts == ActionInit => ActionInv
<1>. SUFFICES ASSUME ActionInit PROVE ActionInv
  OBVIOUS
<1>1. main = [pc |-> "idle", todo |-> <<>>] /\ queue = <<>> /\ held = <<>> /\ rowBuffer = <<>>
  BY DEF ActionInit
<1>2. ActionTypes
  BY <1>1, ActionAssumption DEF ActionInit, ActionTypes, MainPlaces
<1>. QED
  BY <1>1, <1>2, ActionAssumption
     DEF ActionInit, ActionInv, DeadIsEmpty, InsertsApart, CompletesFollow, TriesAreNew, FlagsCome,
         AnswersAreTrue,
         StartsOnce, WorkListed, NothingAsked, Untried, At, LogRows, ToLog

\* What is asked and written is as it was.
Still == UNCHANGED <<queue, held, rowBuffer, writer, evaluated, logs, starts, faults>>

\* A step that leaves them so keeps it.
LEMMA StillKeeps ==
    ASSUME ActionInv, Still, cache' \subseteq cache, main' \in [pc : MainPlaces, todo : Seq(LogRows)],
           AnswersAreTrue', WorkListed'
    PROVE  ActionInv'
<1>1. ActionTypes'
  BY DEF ActionInv, Still, ActionTypes
<1>. QED
  BY <1>1 DEF ActionInv, Still, DeadIsEmpty, InsertsApart, CompletesFollow, TriesAreNew, FlagsCome,
     StartsOnce,
     NothingAsked, Untried, FlagComes

\* Where Goes puts the main process.
LEMMA GoesTo ==
    ASSUME NEW pc \in MainPlaces, NEW work \in Seq(LogRows), Goes(pc, work)
    PROVE  /\ main' \in [pc : MainPlaces, todo : Seq(LogRows)]
           /\ main'.pc = pc /\ main'.todo = work
BY DEF Goes

\* Reading the rows, linking one, ending a pass and ending a conductor keep it.
LEMMA QuietKeeps ==
    ASSUME ActionInv,
           Flushed \/ StartsDone \/ Link \/ Finished
           \/ \E l \in LogRows : ConductorEnds(l)
    PROVE  ActionInv'
<1>. USE DEF stored, doing, asking, MainPlaces
<1>0. main \in [pc : MainPlaces, todo : Seq(LogRows)] /\ <<>> \in Seq(LogRows)
  BY DEF ActionInv, ActionTypes
<1>1. CASE Flushed
  <2>. DEFINE s == SetToSeq({l \in LogRows : logs[l] = "matched"})
  <2>1. /\ s \in Seq(LogRows) /\ \A i \in DOMAIN s : logs[s[i]] = "matched"
        /\ \A i, j \in DOMAIN s : s[i] = s[j] => i = j
    BY PendingIs
  <2>2. Goes("start", s) /\ Still /\ cache' = cache /\ At("flush") /\ queue = <<>>
    <3>1. s = Pending({"matched"})
      BY DEF Pending
    <3>. QED
      BY <1>1, <3>1 DEF Flushed, Still
  <2>. HIDE DEF s
  <2>3. main' \in [pc : MainPlaces, todo : Seq(LogRows)] /\ main'.pc = "start" /\ main'.todo = s
    BY <2>1, <2>2, GoesTo
  <2>4. NothingAsked
    BY <2>2 DEF ActionInv, AnswersAreTrue, At
  <2>5. AnswersAreTrue'
    BY <2>2, <2>3, <2>4 DEF AnswersAreTrue, NothingAsked, At, Still
  <2>6. WorkListed'
    BY <2>1, <2>2, <2>3 DEF WorkListed, At, Still
  <2>. QED
    BY <2>2, <2>3, <2>5, <2>6, StillKeeps
<1>2. CASE StartsDone
  <2>. DEFINE s == SetToSeq({l \in LogRows : logs[l] = "executing"})
  <2>1. /\ s \in Seq(LogRows) /\ \A i \in DOMAIN s : logs[s[i]] = "executing"
    BY PendingIs
  <2>2. Goes("check", s) /\ Still /\ cache' = cache /\ At("start")
    <3>1. s = Pending({"executing"})
      BY DEF Pending
    <3>. QED
      BY <1>2, <3>1 DEF StartsDone, Still
  <2>. HIDE DEF s
  <2>3. main' \in [pc : MainPlaces, todo : Seq(LogRows)] /\ main'.pc = "check" /\ main'.todo = s
    BY <2>1, <2>2, GoesTo
  <2>5. AnswersAreTrue'
    BY <2>2, <2>3 DEF ActionInv, AnswersAreTrue, At, Still
  <2>6. WorkListed'
    BY <2>1, <2>2, <2>3 DEF WorkListed, At, Still
  <2>. QED
    BY <2>2, <2>3, <2>5, <2>6, StillKeeps
<1>3. CASE Link
  <2>1. At("link") /\ main.todo /= <<>> /\ main.todo \in Seq(LogRows)
        /\ Goes("start", Tail(main.todo)) /\ Still /\ cache' = cache
    BY <1>0, <1>3 DEF Link, Still, At, ActionInv, WorkListed
  <2>2. /\ main' \in [pc : MainPlaces, todo : Seq(LogRows)]
        /\ main'.pc = "start" /\ main'.todo = Tail(main.todo)
    BY <2>1, GoesTo, TailIs
  <2>3. AnswersAreTrue'
    BY <2>1, <2>2 DEF ActionInv, AnswersAreTrue, At, Still
  <2>4. WorkListed'
    <3>. DEFINE t == main.todo
                u == Tail(main.todo)
    <3>1. \A i \in DOMAIN u : i \in Nat \ {0} /\ i + 1 \in DOMAIN t /\ u[i] = t[i + 1]
      BY <2>1, TailIs
    <3>2. \A i \in DOMAIN t : /\ i /= 1 => logs[t[i]] = "matched"
                              /\ \A j \in DOMAIN t : t[i] = t[j] => i = j
      BY <2>1 DEF ActionInv, WorkListed, At
    <3>3. ASSUME NEW i \in DOMAIN u
          PROVE  logs[u[i]] = "matched" /\ \A j \in DOMAIN u : u[i] = u[j] => i = j
      <4>1. i + 1 /= 1 /\ i \in Nat
        BY <3>1
      <4>. QED
        BY <3>1, <3>2, <4>1
    <3>. HIDE DEF u
    <3>. QED
      BY <2>1, <2>2, <3>3 DEF WorkListed, At, Still, u
  <2>. QED
    BY <2>1, <2>2, <2>3, <2>4, StillKeeps
<1>4. CASE Finished
  <2>1. /\ main.pc \in {"finish", "broken"} /\ Goes("idle", <<>>) /\ Still
        /\ cache' = {} /\ queue = <<>>
    BY <1>4 DEF Finished, Still
  <2>2. main' \in [pc : MainPlaces, todo : Seq(LogRows)] /\ main'.pc = "idle" /\ main'.todo = <<>>
    BY <1>0, <2>1, GoesTo
  <2>3. NothingAsked
    <3>1. ~(queue /= <<>>)
      BY <2>1
    <3>. QED
      BY <2>1, <3>1 DEF ActionInv, AnswersAreTrue
  <2>4. AnswersAreTrue' /\ WorkListed'
    BY <2>1, <2>2, <2>3 DEF AnswersAreTrue, NothingAsked, WorkListed, At, Still
  <2>. QED
    BY <2>1, <2>2, <2>4, StillKeeps
<1>5. ASSUME NEW l \in LogRows, ConductorEnds(l) PROVE ActionInv'
  <2>1. Still /\ cache' = cache /\ main' = main
    BY <1>5 DEF ConductorEnds, Still
  <2>2. AnswersAreTrue' /\ WorkListed'
    BY <2>1 DEF ActionInv, AnswersAreTrue, WorkListed, At, Still, NothingAsked, ToLog
  <2>. QED
    BY <1>0, <2>1, <2>2, StillKeeps
<1>. QED
  BY <1>1, <1>2, <1>3, <1>4, <1>5

\* A pass, and with it a writer, begins on the events not flagged.
LEMMA WorkBeginsKeeps ==
    ASSUME ActionInv, WorkBegins
    PROVE  ActionInv'
<1>. USE DEF stored, doing, asking, MainPlaces
<1>1. /\ At("idle") /\ writer' = TRUE /\ cache' = Happenings \ evaluated /\ Goes("judge", <<>>)
      /\ UNCHANGED <<logs, evaluated, starts, queue, held, rowBuffer, faults>>
  BY DEF WorkBegins
<1>2. main' \in [pc : MainPlaces, todo : Seq(LogRows)] /\ main'.pc = "judge" /\ main'.todo = <<>>
  <2>1. <<>> \in Seq(LogRows)
    OBVIOUS
  <2>. QED
    BY <1>1, <2>1, GoesTo
<1>3. queue = <<>> /\ held = <<>> /\ rowBuffer = <<>>
  BY <1>1 DEF ActionInv, AnswersAreTrue, NothingAsked
<1>4. ActionTypes'
  BY <1>1, <1>2 DEF ActionInv, ActionTypes
<1>5. AnswersAreTrue' /\ WorkListed'
  BY <1>1, <1>2, <1>3 DEF AnswersAreTrue, WorkListed, At, NothingAsked
<1>10. StartsOnce' /\ DeadIsEmpty' /\ InsertsApart' /\ CompletesFollow'
  BY <1>1, <1>3 DEF ActionInv, StartsOnce, DeadIsEmpty, InsertsApart, CompletesFollow, NothingAsked
<1>6. ASSUME NEW e \in Happenings \ evaluated
      PROVE  [of |-> e, try |-> faults + 1] \in LogRows => Untried([of |-> e, try |-> faults + 1])
  <2>1. CASE writer
    BY <1>3, <1>6, <2>1 DEF ActionInv, FlagsCome, FlagComes
  <2>2. CASE ~writer
    BY <2>2 DEF ActionInv, TriesAreNew
  <2>. QED
    BY <2>1, <2>2
<1>7. \A e \in Happenings : [of |-> e, try |-> faults + 1] \in LogRows
  BY ActionAssumption DEF ActionInv, ActionTypes, LogRows
<1>8. FlagsCome'
  BY <1>1, <1>6, <1>7 DEF FlagsCome, Untried
<1>9. TriesAreNew'
  <2>1. SUFFICES ASSUME NEW l \in LogRows, l.try > faults + 1 \/ (l.try = faults + 1 /\ l.of \in cache')
                 PROVE  Untried(l)
    BY <1>1 DEF TriesAreNew, Untried
  <2>2. CASE l.try > faults + 1
    BY <2>2 DEF ActionInv, TriesAreNew
  <2>3. CASE l.try = faults + 1 /\ l.of \in Happenings \ evaluated
    <3>1. l = [of |-> l.of, try |-> faults + 1]
      BY <2>3 DEF LogRows
    <3>. QED
      BY <1>6, <2>3, <3>1
  <2>. QED
    BY <1>1, <2>1, <2>2, <2>3
<1>. QED
  BY <1>4, <1>5, <1>8, <1>9, <1>10 DEF ActionInv

\* A row that is there is written; nothing else moves but the place of the main process.
LEMMA RowMoves ==
    ASSUME ActionInv, NEW h \in LogRows, logs[h] /= "none",
           NEW s \in {"matched", "executing", "completed", "abend"},
           logs' = [logs EXCEPT ![h] = s],
           UNCHANGED <<queue, held, rowBuffer, writer, evaluated, cache, faults>>,
           main' \in [pc : MainPlaces, todo : Seq(LogRows)], starts' \in [LogRows -> Nat],
           AnswersAreTrue', WorkListed', StartsOnce'
    PROVE  ActionInv'
<1>1. ActionTypes'
  BY DEF ActionInv, ActionTypes
<1>2. \A l \in LogRows : l /= h => logs'[l] = logs[l]
  BY DEF ActionInv, ActionTypes
<1>3. \A l \in LogRows : Untried(l) => Untried(l)'
  BY <1>2 DEF Untried
<1>4. TriesAreNew' /\ FlagsCome' /\ DeadIsEmpty'
  <2>1. \A e \in Happenings : [of |-> e, try |-> faults + 1] \in LogRows
    BY ActionAssumption DEF ActionInv, ActionTypes, LogRows
  <2>. QED
    BY <1>3, <2>1 DEF ActionInv, TriesAreNew, FlagsCome, FlagComes, DeadIsEmpty, NothingAsked
<1>5. InsertsApart' /\ CompletesFollow'
  <2>1. /\ \A i \in DOMAIN queue : queue[i].kind = "insert" => queue[i].row \in LogRows
        /\ \A i \in DOMAIN queue : queue[i].kind = "complete" => queue[i].row \in LogRows
        /\ \A i \in DOMAIN rowBuffer : rowBuffer[i].row \in LogRows
    <3>1. /\ \A i \in DOMAIN queue : queue[i] \in Writes
          /\ \A i \in DOMAIN rowBuffer : rowBuffer[i] \in Writes /\ ToLog(rowBuffer[i])
      BY DEF ActionInv, ActionTypes
    <3>. QED
      BY <3>1 DEF Writes, ToLog
  <2>2. logs'[h] /= "none"
    BY DEF ActionInv, ActionTypes
  <2>. QED
    BY <1>2, <2>1, <2>2 DEF ActionInv, InsertsApart, CompletesFollow
<1>. QED
  BY <1>1, <1>4, <1>5 DEF ActionInv

\* A matched row becomes executing before its conductor starts.
LEMMA MarkExecutingKeeps ==
    ASSUME ActionInv, MarkExecuting
    PROVE  ActionInv'
<1>. DEFINE t == main.todo
<1>1. /\ At("start") /\ t /= <<>> /\ t \in Seq(LogRows) /\ t[1] \in LogRows /\ Head(t) = t[1]
      /\ 1 \in DOMAIN t
  <2>1. t \in Seq(LogRows) /\ t /= <<>> /\ At("start")
    BY DEF MarkExecuting, ActionInv, ActionTypes
  <2>. QED
    BY <2>1, TailIs
<1>2. /\ logs' = [logs EXCEPT ![t[1]] = "executing"] /\ Goes("run", t)
      /\ UNCHANGED <<queue, held, rowBuffer, writer, evaluated, cache, faults, starts>>
  BY <1>1 DEF MarkExecuting, doing, asking
<1>3. main' \in [pc : MainPlaces, todo : Seq(LogRows)] /\ main'.pc = "run" /\ main'.todo = t
  BY <1>1, <1>2, GoesTo DEF MainPlaces
<1>4. \A i \in DOMAIN t : logs[t[i]] = "matched" /\ \A j \in DOMAIN t : t[i] = t[j] => i = j
  BY <1>1 DEF ActionInv, WorkListed, At
<1>5. /\ logs \in [LogRows -> {"none", "matched", "executing", "completed", "abend"}]
      /\ starts \in [LogRows -> Nat] /\ \A i \in DOMAIN t : t[i] \in LogRows
  BY <1>1 DEF ActionInv, ActionTypes
<1>6. AnswersAreTrue'
  BY <1>1, <1>2, <1>3 DEF ActionInv, AnswersAreTrue, At
<1>7. StartsOnce'
  BY <1>1, <1>2, <1>4, <1>5 DEF ActionInv, StartsOnce
<1>8. starts[t[1]] = 0 /\ logs'[t[1]] = "executing"
  <2>1. logs[t[1]] = "matched" /\ starts[t[1]] <= 1 /\ starts[t[1]] /= 1 /\ starts[t[1]] \in Nat
    BY <1>1, <1>4, <1>5 DEF ActionInv, StartsOnce
  <2>. QED
    BY <1>1, <1>2, <1>5, <2>1
<1>9. \A i \in DOMAIN t : i /= 1 => logs'[t[i]] = "matched"
  BY <1>1, <1>2, <1>4, <1>5
<1>10. WorkListed'
  <2>. HIDE DEF t
  <2>. QED
    BY <1>1, <1>2, <1>3, <1>4, <1>8, <1>9 DEF WorkListed, At
<1>. HIDE DEF t
<1>. QED
  BY <1>1, <1>2, <1>3, <1>4, <1>5, <1>6, <1>7, <1>10, RowMoves

\* Its conductor starts, or fails to, and the row is written so.
LEMMA RunKeeps ==
    ASSUME ActionInv, Run
    PROVE  ActionInv'
<1>. DEFINE t == main.todo
            u == Tail(t)
<1>1. /\ At("run") /\ t /= <<>> /\ t \in Seq(LogRows) /\ t[1] \in LogRows /\ Head(t) = t[1]
      /\ 1 \in DOMAIN t /\ u \in Seq(LogRows)
      /\ \A i \in DOMAIN u : i \in Nat \ {0} /\ i + 1 \in DOMAIN t /\ u[i] = t[i + 1]
  <2>1. t \in Seq(LogRows) /\ t /= <<>> /\ At("run")
    BY DEF Run, ActionInv, ActionTypes, WorkListed, At
  <2>. QED
    BY <2>1, TailIs
<1>2. /\ UNCHANGED <<queue, held, rowBuffer, writer, evaluated, cache, faults>>
      /\ \/ starts' = [starts EXCEPT ![t[1]] = @ + 1] /\ logs' = logs
            /\ (Goes("start", u) \/ Goes("link", t))
         \/ starts' = starts /\ logs' = [logs EXCEPT ![t[1]] = "abend"] /\ Goes("start", u)
  BY <1>1 DEF Run, doing, asking
<1>4. /\ \A i \in DOMAIN t : /\ i /= 1 => logs[t[i]] = "matched"
                             /\ \A j \in DOMAIN t : t[i] = t[j] => i = j
      /\ logs[t[1]] = "executing" /\ starts[t[1]] = 0
  BY <1>1 DEF ActionInv, WorkListed, At
<1>5. /\ logs \in [LogRows -> {"none", "matched", "executing", "completed", "abend"}]
      /\ starts \in [LogRows -> Nat] /\ \A i \in DOMAIN t : t[i] \in LogRows
  BY <1>1 DEF ActionInv, ActionTypes
<1>6. \A i \in DOMAIN u : /\ logs[u[i]] = "matched" /\ u[i] /= t[1] /\ u[i] \in LogRows
                          /\ \A j \in DOMAIN u : u[i] = u[j] => i = j
  <2>1. ASSUME NEW i \in DOMAIN u
        PROVE  i + 1 /= 1 /\ i \in Nat /\ u[i] = t[i + 1] /\ i + 1 \in DOMAIN t
    BY <1>1
  <2>2. ASSUME NEW i \in DOMAIN u, NEW j \in DOMAIN u, u[i] = u[j] PROVE i = j
    <3>1. i + 1 = j + 1
      BY <1>4, <2>1, <2>2
    <3>. QED
      BY <2>1, <3>1
  <2>. QED
    BY <1>1, <1>4, <1>5, <2>1, <2>2
<1>. HIDE DEF t, u
<1>7. \E s \in {"executing", "abend"} : logs' = [logs EXCEPT ![t[1]] = s]
  BY <1>1, <1>2, <1>4, <1>5
<1>8. /\ main' \in [pc : MainPlaces, todo : Seq(LogRows)]
      /\ \/ main'.pc = "start" /\ main'.todo = u
         \/ main'.pc = "link" /\ main'.todo = t
  BY <1>1, <1>2, GoesTo DEF MainPlaces
<1>9. AnswersAreTrue'
  BY <1>1, <1>2, <1>8 DEF ActionInv, AnswersAreTrue, At
<1>10. StartsOnce' /\ starts' \in [LogRows -> Nat]
  <2>1. /\ starts' \in [LogRows -> Nat] /\ starts'[t[1]] \in {0, 1}
        /\ \A l \in LogRows : l /= t[1] => starts'[l] = starts[l]
    BY <1>1, <1>2, <1>4, <1>5
  <2>2. logs'[t[1]] \in {"executing", "abend"} /\ \A l \in LogRows : l /= t[1] => logs'[l] = logs[l]
    BY <1>1, <1>5, <1>7
  <2>. QED
    BY <2>1, <2>2 DEF ActionInv, StartsOnce
<1>11. \A l \in LogRows : l /= t[1] => logs'[l] = logs[l]
  BY <1>5, <1>7
<1>12. WorkListed'
  BY <1>1, <1>4, <1>5, <1>6, <1>8, <1>11 DEF WorkListed, At
<1>. QED
  BY <1>1, <1>2, <1>4, <1>5, <1>7, <1>8, <1>9, <1>10, <1>12, RowMoves

\* A row whose conductor has ended is written so.
LEMMA CheckKeeps ==
    ASSUME ActionInv, Check
    PROVE  ActionInv'
<1>. DEFINE t == main.todo
            u == Tail(t)
<1>1. /\ At("check") /\ t /= <<>> /\ t \in Seq(LogRows) /\ t[1] \in LogRows /\ Head(t) = t[1]
      /\ 1 \in DOMAIN t /\ u \in Seq(LogRows)
      /\ \A i \in DOMAIN u : i \in Nat \ {0} /\ i + 1 \in DOMAIN t /\ u[i] = t[i + 1]
  <2>1. t \in Seq(LogRows) /\ t /= <<>> /\ At("check")
    BY DEF Check, ActionInv, ActionTypes, WorkListed, At
  <2>. QED
    BY <2>1, TailIs
<1>2. /\ UNCHANGED <<queue, held, rowBuffer, writer, evaluated, cache, faults, starts>>
      /\ \/ logs' = logs /\ Goes("check", u)
         \/ logs' = [logs EXCEPT ![t[1]] = "completed"] /\ Goes("conclude", t)
         \/ logs' = [logs EXCEPT ![t[1]] = "abend"] /\ Goes("check", u)
  BY <1>1 DEF Check, doing, asking
<1>4. \A i \in DOMAIN t : logs[t[i]] /= "none" /\ t[i] \in LogRows
  BY <1>1 DEF ActionInv, WorkListed, At, ActionTypes
<1>5. /\ logs \in [LogRows -> {"none", "matched", "executing", "completed", "abend"}]
      /\ starts \in [LogRows -> Nat]
  BY <1>1 DEF ActionInv, ActionTypes
<1>6. \A i \in DOMAIN u : logs[u[i]] /= "none" /\ u[i] \in LogRows
  BY <1>1, <1>4
<1>. HIDE DEF t, u
<1>7. \E s \in {"matched", "executing", "completed", "abend"} : logs' = [logs EXCEPT ![t[1]] = s]
  BY <1>1, <1>2, <1>4, <1>5
<1>8. /\ main' \in [pc : MainPlaces, todo : Seq(LogRows)]
      /\ \/ main'.pc = "check" /\ main'.todo = u
         \/ main'.pc = "conclude" /\ main'.todo = t
  BY <1>1, <1>2, GoesTo DEF MainPlaces
<1>9. AnswersAreTrue'
  BY <1>1, <1>2, <1>8 DEF ActionInv, AnswersAreTrue, At
<1>10. StartsOnce'
  BY <1>1, <1>2, <1>4, <1>5 DEF ActionInv, StartsOnce
<1>11. \A l \in LogRows : logs'[l] = "none" => logs[l] = "none"
  BY <1>5, <1>7
<1>12. WorkListed'
  BY <1>1, <1>4, <1>6, <1>8, <1>11 DEF WorkListed, At
<1>. QED
  BY <1>1, <1>2, <1>4, <1>5, <1>7, <1>8, <1>9, <1>10, <1>12, RowMoves

\* The main process asks for what is no row, whether or not it loses a conclusion.
LEMMA AskMoves ==
    ASSUME ActionInv, NEW ws \in Seq(Writes), \A i \in DOMAIN ws : ws[i].kind \notin {"insert", "complete"},
           queue' = IF writer THEN queue \o ws ELSE queue,
           UNCHANGED <<logs, starts, held, rowBuffer, writer, evaluated, cache>>,
           faults' \in {faults, faults + 1}, faults' <= MaxFaults,
           main' \in [pc : MainPlaces, todo : Seq(LogRows)],
           AnswersAreTrue', WorkListed'
    PROVE  ActionInv'
<1>. DEFINE q == queue'
<1>1. /\ queue \in Seq(Writes) /\ faults \in Nat /\ faults' \in 0..MaxFaults
      /\ faults' = faults \/ faults' = faults + 1
  BY ActionAssumption DEF ActionInv, ActionTypes
<1>2. /\ q \in Seq(Writes)
      /\ \A i \in DOMAIN q : \/ i \in DOMAIN queue /\ q[i] = queue[i]
                             \/ q[i].kind \notin {"insert", "complete"}
      /\ \A i \in DOMAIN queue : i \in DOMAIN q /\ q[i] = queue[i]
  <2>1. CASE ~writer
    BY <1>1, <2>1
  <2>2. CASE writer
    BY <1>1, <2>2, ConcatIs
  <2>. QED
    BY <2>1, <2>2
<1>3. queue' = q
  OBVIOUS
<1>. HIDE DEF q
<1>4. ActionTypes'
  BY <1>1, <1>2, <1>3 DEF ActionInv, ActionTypes
<1>5. \A l \in LogRows : Untried(l) => Untried(l)'
  BY <1>2, <1>3 DEF Untried, Insert
<1>6. \A e : FlagComes(e) => FlagComes(e)'
  BY <1>2, <1>3 DEF FlagComes
<1>7. TriesAreNew' /\ FlagsCome' /\ DeadIsEmpty' /\ StartsOnce'
  <2>1. ASSUME NEW l \in LogRows,
               l.try > faults' + 1 \/ (l.try = faults' + 1 /\ (~writer \/ l.of \in cache))
        PROVE  Untried(l)'
    <3>1. l.try \in Nat
      BY DEF LogRows
    <3>2. l.try > faults + 1 \/ (l.try = faults + 1 /\ (~writer \/ l.of \in cache))
      BY <1>1, <2>1, <3>1
    <3>. QED
      BY <1>5, <3>2 DEF ActionInv, TriesAreNew
  <2>2. ASSUME NEW e \in Happenings \ evaluated, writer, NEW n, n = faults' + 1
        PROVE  Untried([of |-> e, try |-> n])' \/ FlagComes(e)'
    <3>1. [of |-> e, try |-> n] \in LogRows
      <4>1. n \in 1..MaxFaults + 1 /\ e \in Happenings
        BY <1>1, <2>2, ActionAssumption
      <4>. QED
        BY <4>1 DEF LogRows
    <3>2. CASE faults' = faults
      <4>1. Untried([of |-> e, try |-> n]) \/ FlagComes(e)
        BY <2>2, <3>2 DEF ActionInv, FlagsCome
      <4>. QED
        BY <1>5, <1>6, <3>1, <4>1
    <3>3. CASE faults' = faults + 1
      <4>1. [of |-> e, try |-> n].try > faults + 1
        BY <1>1, <2>2, <3>3
      <4>2. Untried([of |-> e, try |-> n])
        BY <3>1, <4>1 DEF ActionInv, TriesAreNew
      <4>. QED
        BY <1>5, <3>1, <4>2
    <3>. QED
      BY <1>1, <3>2, <3>3
  <2>3. DeadIsEmpty' /\ StartsOnce'
    BY DEF ActionInv, DeadIsEmpty, NothingAsked, StartsOnce
  <2>4. TriesAreNew'
    BY <2>1 DEF TriesAreNew
  <2>5. FlagsCome'
    BY <2>2 DEF FlagsCome
  <2>. QED
    BY <2>3, <2>4, <2>5
<1>8. InsertsApart'
  <2>1. ASSUME NEW i \in DOMAIN q, q[i].kind = "insert"
        PROVE  i \in DOMAIN queue /\ q[i] = queue[i] /\ queue[i].kind = "insert"
    BY <1>2, <2>1
  <2>2. ASSUME NEW i \in DOMAIN q, q[i].kind = "insert",
               NEW j \in DOMAIN q, q[j] = q[i]
        PROVE  i = j
    BY <2>1, <2>2 DEF ActionInv, InsertsApart
  <2>. QED
    BY <1>3, <2>1, <2>2 DEF ActionInv, InsertsApart
<1>9. CompletesFollow'
  <2>1. ASSUME NEW i \in DOMAIN q, q[i].kind = "complete"
        PROVE  i \in DOMAIN queue /\ q[i] = queue[i] /\ queue[i].kind = "complete"
    BY <1>2, <2>1
  <2>2. ASSUME NEW i \in DOMAIN q, q[i].kind = "complete"
        PROVE  \/ logs[q[i].row] /= "none"
               \/ \E j \in DOMAIN rowBuffer : rowBuffer[j] = Insert(q[i].row)
               \/ \E j \in DOMAIN q : j < i /\ q[j] = Insert(q[i].row)
    <3>1. /\ i \in DOMAIN queue /\ q[i] = queue[i] /\ queue[i].kind = "complete"
          /\ \A j \in DOMAIN queue : j \in DOMAIN q /\ q[j] = queue[j]
      BY <1>2, <2>1, <2>2
    <3>2. \/ logs[queue[i].row] /= "none"
          \/ \E j \in DOMAIN rowBuffer : rowBuffer[j] = Insert(queue[i].row)
          \/ \E j \in DOMAIN queue : j < i /\ queue[j] = Insert(queue[i].row)
      BY <3>1 DEF ActionInv, CompletesFollow
    <3>. QED
      BY <3>1, <3>2
  <2>. QED
    BY <1>3, <2>2 DEF ActionInv, CompletesFollow
<1>. QED
  BY <1>4, <1>7, <1>8, <1>9 DEF ActionInv

\* What JudgeDone, ChecksDone and Conclude ask for.
LEMMA MarkersAreWrites ==
    /\ \A k \in {"flush", "finish"} :
         <<Plain(k)>> \in Seq(Writes) /\ Len(<<Plain(k)>>) = 1 /\ <<Plain(k)>>[1].kind = k
         /\ \A i \in DOMAIN <<Plain(k)>> : <<Plain(k)>>[i].kind = k
    /\ \A l \in LogRows :
         /\ Asked(<<"conclude">>, l) \in Seq(Writes)
         /\ \A i \in DOMAIN Asked(<<"conclude">>, l) :
              Asked(<<"conclude">>, l)[i] = [kind |-> "conclude", row |-> l]
<1>1. ASSUME NEW k \in {"flush", "finish"}
      PROVE  Plain(k) \in Writes /\ Plain(k).kind = k
  BY DEF Plain, Writes
<1>2. ASSUME NEW l \in LogRows
      PROVE  /\ Asked(<<"conclude">>, l) = <<[kind |-> "conclude", row |-> l]>>
             /\ [kind |-> "conclude", row |-> l] \in Writes
  BY DEF Asked, Writes
<1>3. ASSUME NEW w \in Writes
      PROVE  <<w>> \in Seq(Writes) /\ Len(<<w>>) = 1 /\ \A i \in DOMAIN <<w>> : <<w>>[i] = w
  OBVIOUS
<1>4. ASSUME NEW k \in {"flush", "finish"}
      PROVE  /\ <<Plain(k)>> \in Seq(Writes) /\ Len(<<Plain(k)>>) = 1 /\ <<Plain(k)>>[1].kind = k
             /\ \A i \in DOMAIN <<Plain(k)>> : <<Plain(k)>>[i].kind = k
  BY <1>1, <1>3
<1>5. ASSUME NEW l \in LogRows
      PROVE  /\ Asked(<<"conclude">>, l) \in Seq(Writes)
             /\ \A i \in DOMAIN Asked(<<"conclude">>, l) :
                  Asked(<<"conclude">>, l)[i] = [kind |-> "conclude", row |-> l]
  <2>. DEFINE w == [kind |-> "conclude", row |-> l]
  <2>1. Asked(<<"conclude">>, l) = <<w>> /\ w \in Writes
    BY <1>2
  <2>. HIDE DEF w
  <2>2. <<w>> \in Seq(Writes) /\ \A i \in DOMAIN <<w>> : <<w>>[i] = w
    BY <1>3, <2>1
  <2>. QED
    BY <2>1, <2>2 DEF w
<1>. QED
  BY <1>4, <1>5

\* They keep it.
LEMMA AsksKeep ==
    ASSUME ActionInv, PassBreaks \/ NoticeBreaks \/ JudgeDone \/ ChecksDone \/ Conclude
    PROVE  ActionInv'
<1>0. /\ main \in [pc : MainPlaces, todo : Seq(LogRows)] /\ <<>> \in Seq(LogRows)
      /\ queue \in Seq(Writes) /\ writer \in BOOLEAN
  BY DEF ActionInv, ActionTypes
<1>1. ASSUME NEW k \in {"flush", "finish"}, NEW p \in {"flush", "finish", "broken"},
             Ask(<<Plain(k)>>), Goes(p, <<>>),
             UNCHANGED <<logs, starts, held, rowBuffer, writer, evaluated, cache>>,
             faults' \in {faults, faults + 1}, faults' <= MaxFaults
      PROVE  ActionInv'
  <2>. DEFINE ws == <<Plain(k)>>
  <2>1. /\ ws \in Seq(Writes) /\ Len(ws) = 1 /\ ws[1].kind = k
        /\ \A i \in DOMAIN ws : ws[i].kind = k
    BY MarkersAreWrites
  <2>2. queue' = IF writer THEN queue \o ws ELSE queue
    BY <1>1 DEF Ask
  <2>. HIDE DEF ws
  <2>3. main' \in [pc : MainPlaces, todo : Seq(LogRows)] /\ main'.pc = p /\ main'.todo = <<>>
    BY <1>0, <1>1, GoesTo DEF MainPlaces
  <2>4. AnswersAreTrue'
    <3>1. CASE writer
      <4>1. /\ queue' /= <<>> /\ queue'[Len(queue')] = ws[1]
        <5>1. /\ queue' = queue \o ws /\ Len(ws) = 1 /\ 1 \in DOMAIN ws /\ ws \in Seq(Writes)
          BY <2>1, <2>2, <3>1
        <5>. DEFINE q == queue \o ws
        <5>2. /\ Len(queue) \in Nat /\ Len(q) = Len(queue) + Len(ws) /\ q \in Seq(Writes)
              /\ \A i \in DOMAIN ws : i + Len(queue) \in DOMAIN q /\ q[i + Len(queue)] = ws[i]
          <6>1. queue \in Seq(Writes) /\ ws \in Seq(Writes)
            BY <1>0, <5>1
          <6>. QED
            BY <6>1, ConcatIs
        <5>. HIDE DEF q
        <5>3. 1 + Len(queue) = Len(q) /\ q[1 + Len(queue)] = ws[1] /\ q /= <<>>
          BY <5>1, <5>2
        <5>4. queue' = q
          BY <5>1 DEF q
        <5>. QED
          BY <5>3, <5>4
      <4>. QED
        BY <2>1, <2>3, <4>1 DEF AnswersAreTrue, At
    <3>2. CASE ~writer
      BY <1>1, <2>2, <2>3, <3>2 DEF ActionInv, DeadIsEmpty, NothingAsked, AnswersAreTrue, At
    <3>. QED
      BY <3>1, <3>2
  <2>5. WorkListed'
    BY <2>3 DEF WorkListed, At
  <2>. QED
    BY <1>1, <2>1, <2>2, <2>3, <2>4, <2>5, AskMoves
<1>2. CASE Conclude
  <2>. DEFINE t == main.todo
              ws == Asked(<<"conclude">>, t[1])
  <2>1. /\ At("conclude") /\ t /= <<>> /\ t \in Seq(LogRows) /\ t[1] \in LogRows /\ Head(t) = t[1]
        /\ Tail(t) \in Seq(LogRows)
        /\ \A i \in DOMAIN Tail(t) : i + 1 \in DOMAIN t /\ Tail(t)[i] = t[i + 1]
    <3>1. t \in Seq(LogRows) /\ t /= <<>> /\ At("conclude")
      BY <1>0, <1>2 DEF Conclude, ActionInv, WorkListed, At
    <3>. QED
      BY <3>1, TailIs
  <2>2. UNCHANGED <<logs, starts, held, rowBuffer, writer, evaluated, cache, faults>>
    BY <1>2 DEF Conclude, stored, doing
  <2>3. CASE writer
    <3>1. queue' = IF writer THEN queue \o ws ELSE queue
      BY <1>2, <2>1, <2>3 DEF Conclude, Ask
    <3>2. /\ main' \in [pc : MainPlaces, todo : Seq(LogRows)]
          /\ main'.pc = "check" /\ main'.todo = Tail(t)
      BY <1>2, <2>1, <2>3, GoesTo DEF Conclude, MainPlaces
    <3>3. ws \in Seq(Writes) /\ \A i \in DOMAIN ws : ws[i].kind = "conclude"
      <4>1. /\ ws \in Seq(Writes)
            /\ \A i \in DOMAIN ws : ws[i] = [kind |-> "conclude", row |-> t[1]]
        BY <2>1, MarkersAreWrites
      <4>. QED
        BY <4>1
    <3>. HIDE DEF ws, t
    <3>4. AnswersAreTrue'
      <4>1. queue' \in Seq(Writes)
            /\ \A i \in DOMAIN queue' : \/ i \in DOMAIN queue /\ queue'[i] = queue[i]
                                        \/ queue'[i].kind = "conclude"
        <5>1. queue' = queue \o ws
          BY <2>3, <3>1
        <5>2. /\ queue \o ws \in Seq(Writes)
              /\ \A i \in DOMAIN (queue \o ws) :
                    \/ i \in DOMAIN queue /\ (queue \o ws)[i] = queue[i]
                    \/ i - Len(queue) \in DOMAIN ws /\ (queue \o ws)[i] = ws[i - Len(queue)]
          BY <1>0, <3>3, ConcatIs
        <5>. QED
          BY <3>3, <5>1, <5>2
      <4>2. rowBuffer = <<>> /\ \A i \in DOMAIN queue : ~ToLog(queue[i])
        BY <2>1 DEF ActionInv, AnswersAreTrue, At
      <4>. QED
        BY <2>2, <3>2, <4>1, <4>2 DEF AnswersAreTrue, At, ToLog
    <3>5. WorkListed'
      <4>1. \A i \in DOMAIN t : logs[t[i]] /= "none"
        BY <2>1 DEF ActionInv, WorkListed, At, t
      <4>. QED
        BY <2>1, <2>2, <3>2, <4>1 DEF WorkListed, At
    <3>6. faults' \in {faults, faults + 1} /\ faults' <= MaxFaults
      BY <2>2, ActionAssumption DEF ActionInv, ActionTypes
    <3>. QED
      BY <2>2, <3>1, <3>2, <3>3, <3>4, <3>5, <3>6, AskMoves
  <2>4. CASE ~writer
    <3>1. Goes("broken", <<>>) /\ queue' = queue
      BY <1>2, <2>4 DEF Conclude
    <3>2. main' \in [pc : MainPlaces, todo : Seq(LogRows)] /\ main'.pc = "broken" /\ main'.todo = <<>>
      BY <1>0, <3>1, GoesTo DEF MainPlaces
    <3>3. AnswersAreTrue'
      BY <2>2, <2>4, <3>1, <3>2 DEF ActionInv, DeadIsEmpty, NothingAsked, AnswersAreTrue, At
    <3>4. WorkListed'
      BY <3>2 DEF WorkListed, At
    <3>. QED
      BY <2>2, <3>1, <3>2, <3>3, <3>4, StillKeeps DEF Still
  <2>. QED
    BY <2>3, <2>4
<1>3. faults \in 0..MaxFaults /\ MaxFaults \in Nat
  BY ActionAssumption DEF ActionInv, ActionTypes
<1>4. CASE NoticeBreaks
  <2>1. /\ Ask(<<Plain("finish")>>) /\ Goes("broken", <<>>)
        /\ UNCHANGED <<logs, starts, held, rowBuffer, writer, evaluated, cache>>
        /\ faults' = faults + 1 /\ faults < MaxFaults
    BY <1>4 DEF NoticeBreaks, stored, doing
  <2>2. faults' \in {faults, faults + 1} /\ faults' <= MaxFaults
    BY <1>3, <2>1
  <2>. QED
    BY <1>1, <2>1, <2>2
<1>5. CASE PassBreaks \/ JudgeDone \/ ChecksDone
  <2>1. PICK k \in {"flush", "finish"}, p \in {"flush", "finish", "broken"} :
           /\ Ask(<<Plain(k)>>) /\ Goes(p, <<>>)
           /\ UNCHANGED <<logs, starts, held, rowBuffer, writer, evaluated, cache, faults>>
    BY <1>5 DEF PassBreaks, JudgeDone, ChecksDone, stored, doing
  <2>2. faults' \in {faults, faults + 1} /\ faults' <= MaxFaults
    BY <1>3, <2>1
  <2>. QED
    BY <1>1, <2>1, <2>2
<1>. QED
  BY <1>2, <1>4, <1>5

\* What RegisterActionLog asks for.
LEMMA RegisterAsks ==
    ASSUME NEW l \in LogRows, NEW ws,
           \/ ws = Asked(<<"insert", "flag">>, l)
           \/ ws = Asked(<<"insert", "flag", "conclude", "complete">>, l)
    PROVE  /\ ws \in Seq(Writes) /\ 1 \in DOMAIN ws /\ 2 \in DOMAIN ws
           /\ ws[1] = Insert(l) /\ ws[2].kind = "flag"
           /\ \A i \in DOMAIN ws : i \in Nat \ {0} /\ ws[i].row = l /\ (i /= 1 => ws[i].kind /= "insert")
<1>. DEFINE W(k) == [kind |-> k, row |-> l]
<1>1. \A k \in {"insert", "flag", "conclude", "complete"} : W(k) \in Writes /\ W(k).kind = k /\ W(k).row = l
  BY DEF Writes
<1>2. CASE ws = Asked(<<"insert", "flag">>, l)
  <2>1. ws = <<W("insert"), W("flag")>>
    BY <1>2 DEF Asked
  <2>2. W("insert") = Insert(l)
    BY DEF Insert
  <2>. HIDE DEF W
  <2>. QED
    BY <1>1, <2>1, <2>2
<1>3. CASE ws = Asked(<<"insert", "flag", "conclude", "complete">>, l)
  <2>1. ws = <<W("insert"), W("flag"), W("conclude"), W("complete")>>
    BY <1>3 DEF Asked
  <2>2. W("insert") = Insert(l)
    BY DEF Insert
  <2>. HIDE DEF W
  <2>. QED
    BY <1>1, <2>1, <2>2
<1>. QED
  BY <1>2, <1>3

\* Registering an action log asks for a row that was untried.
LEMMA RegisterKeeps ==
    ASSUME ActionInv, NEW e \in Happenings, RegisterLog(e)
    PROVE  ActionInv'
<1>. DEFINE l == [of |-> e, try |-> faults + 1]
            ws == Asked(IF Acts(l) THEN <<"insert", "flag">>
                        ELSE <<"insert", "flag", "conclude", "complete">>, l)
            q == queue \o ws
<1>1. l \in LogRows /\ \A d \in Happenings : [of |-> d, try |-> faults + 1] \in LogRows
  BY ActionAssumption DEF ActionInv, ActionTypes, LogRows
<1>2. /\ queue' = queue \o ws /\ cache' = cache \ {e} /\ writer /\ e \in cache /\ At("judge")
      /\ UNCHANGED <<logs, starts, held, rowBuffer, writer, evaluated, faults, main>>
  BY DEF RegisterLog, Ask, stored, doing
<1>3. /\ ws \in Seq(Writes) /\ 1 \in DOMAIN ws /\ 2 \in DOMAIN ws
      /\ ws[1] = Insert(l) /\ ws[2].kind = "flag"
      /\ \A i \in DOMAIN ws : i \in Nat \ {0} /\ ws[i].row = l /\ (i /= 1 => ws[i].kind /= "insert")
  <2>1. \/ ws = Asked(<<"insert", "flag">>, l)
        \/ ws = Asked(<<"insert", "flag", "conclude", "complete">>, l)
    OBVIOUS
  <2>. HIDE DEF ws
  <2>. QED
    BY <1>1, <2>1, RegisterAsks
<1>4. Untried(l)
  <2>1. l.of \in cache /\ l.try = faults + 1
    BY <1>2
  <2>. QED
    BY <1>1, <2>1 DEF ActionInv, TriesAreNew
<1>5. queue \in Seq(Writes) /\ Len(queue) \in Nat /\ l.of = e
  BY DEF ActionInv, ActionTypes
<1>. HIDE DEF ws
<1>6. /\ q \in Seq(Writes)
      /\ \A i \in DOMAIN q : i \in Nat
      /\ \A i \in DOMAIN q : \/ i \in DOMAIN queue /\ q[i] = queue[i]
                             \/ i - Len(queue) \in DOMAIN ws /\ q[i] = ws[i - Len(queue)]
      /\ \A i \in DOMAIN queue : i <= Len(queue)
      /\ \A i \in DOMAIN queue : i \in DOMAIN q /\ q[i] = queue[i]
      /\ \A i \in DOMAIN ws : i + Len(queue) \in DOMAIN q /\ q[i + Len(queue)] = ws[i]
  BY <1>3, <1>5, ConcatIs
<1>7. queue' = q
  BY <1>2
<1>. HIDE DEF q
<1>8. \A i \in DOMAIN q : \/ i \in DOMAIN queue /\ q[i] = queue[i]
                          \/ i > Len(queue) /\ q[i].row = l
                             /\ (i /= Len(queue) + 1 => q[i].kind /= "insert")
                             /\ (i = Len(queue) + 1 => q[i] = Insert(l))
  <2>1. SUFFICES ASSUME NEW i \in DOMAIN q, i - Len(queue) \in DOMAIN ws, q[i] = ws[i - Len(queue)]
                 PROVE  i > Len(queue) /\ q[i].row = l
                        /\ (i /= Len(queue) + 1 => q[i].kind /= "insert")
                        /\ (i = Len(queue) + 1 => q[i] = Insert(l))
    BY <1>6
  <2>. DEFINE k == i - Len(queue)
  <2>2. k \in Nat \ {0} /\ k \in DOMAIN ws /\ q[i] = ws[k] /\ i = k + Len(queue) /\ i \in Nat
    BY <1>3, <1>5, <1>6, <2>1
  <2>. HIDE DEF k
  <2>3. q[i].row = l /\ (k /= 1 => q[i].kind /= "insert") /\ (k = 1 => q[i] = Insert(l))
    BY <1>3, <2>2
  <2>. QED
    BY <1>5, <2>2, <2>3
<1>9. Len(queue) + 1 \in DOMAIN q /\ q[Len(queue) + 1] = Insert(l)
  BY <1>3, <1>5, <1>6
<1>10. ActionTypes'
  BY <1>2, <1>6, <1>7 DEF ActionInv, ActionTypes
<1>11. DeadIsEmpty' /\ StartsOnce' /\ AnswersAreTrue' /\ WorkListed'
  BY <1>2 DEF ActionInv, DeadIsEmpty, StartsOnce, AnswersAreTrue, WorkListed, At
<1>12. \A k \in LogRows : k /= l /\ Untried(k) => Untried(k)'
  BY <1>2, <1>7, <1>8 DEF Untried, Insert
<1>13. TriesAreNew'
  BY <1>2, <1>12 DEF ActionInv, ActionTypes, TriesAreNew
<1>14. FlagsCome'
  <2>1. SUFFICES ASSUME NEW d \in Happenings \ evaluated
                 PROVE  Untried([of |-> d, try |-> faults + 1])' \/ FlagComes(d)'
    BY <1>2 DEF FlagsCome
  <2>2. CASE d = e
    <3>1. 2 + Len(queue) \in DOMAIN q /\ q[2 + Len(queue)].kind = "flag"
          /\ q[2 + Len(queue)].row.of = e
      BY <1>3, <1>5, <1>6
    <3>. QED
      BY <1>7, <2>2, <3>1 DEF FlagComes
  <2>3. CASE d /= e
    <3>1. FlagComes(d) => FlagComes(d)'
      BY <1>2, <1>6, <1>7 DEF FlagComes
    <3>2. Untried([of |-> d, try |-> faults + 1]) => Untried([of |-> d, try |-> faults + 1])'
      BY <1>1, <1>2, <1>12, <2>3
    <3>. QED
      BY <1>2, <3>1, <3>2 DEF ActionInv, FlagsCome
  <2>. QED
    BY <2>2, <2>3
<1>15. InsertsApart'
  <2>1. ASSUME NEW i \in DOMAIN q, q[i].kind = "insert"
        PROVE  \/ i \in DOMAIN queue /\ q[i] = queue[i] /\ q[i] /= Insert(l)
               \/ i = Len(queue) + 1 /\ q[i] = Insert(l)
    <3>1. \A j \in DOMAIN queue : queue[j] /= Insert(l)
      BY <1>4 DEF Untried
    <3>. QED
      BY <1>8, <2>1, <3>1
  <2>2. ASSUME NEW i \in DOMAIN q, q[i].kind = "insert", NEW j \in DOMAIN q, q[j] = q[i] PROVE i = j
    <3>1. q[j].kind = "insert"
      BY <2>2
    <3>. QED
      BY <2>1, <2>2, <3>1 DEF ActionInv, InsertsApart
  <2>3. ASSUME NEW i \in DOMAIN q, q[i].kind = "insert"
        PROVE  logs[q[i].row] = "none" /\ \A j \in DOMAIN rowBuffer : rowBuffer[j] /= q[i]
    <3>1. Insert(l).row = l
      BY DEF Insert
    <3>. QED
      BY <1>4, <2>1, <2>3, <3>1 DEF ActionInv, InsertsApart, Untried
  <2>. QED
    BY <1>2, <1>7, <2>2, <2>3 DEF ActionInv, InsertsApart
<1>16. CompletesFollow'
  <2>1. ASSUME NEW i \in DOMAIN q, q[i].kind = "complete"
        PROVE  \/ logs[q[i].row] /= "none"
               \/ \E j \in DOMAIN rowBuffer : rowBuffer[j] = Insert(q[i].row)
               \/ \E j \in DOMAIN q : j < i /\ q[j] = Insert(q[i].row)
    <3>1. CASE i \in DOMAIN queue /\ q[i] = queue[i]
      <4>1. \/ logs[queue[i].row] /= "none"
            \/ \E j \in DOMAIN rowBuffer : rowBuffer[j] = Insert(queue[i].row)
            \/ \E j \in DOMAIN queue : j < i /\ queue[j] = Insert(queue[i].row)
        BY <2>1, <3>1 DEF ActionInv, CompletesFollow
      <4>. QED
        BY <1>6, <3>1, <4>1
    <3>2. CASE i > Len(queue) /\ q[i].row = l /\ (i = Len(queue) + 1 => q[i] = Insert(l))
      <4>1. i /= Len(queue) + 1
        BY <2>1, <3>2 DEF Insert
      <4>2. Len(queue) + 1 < i
        BY <1>5, <1>6, <3>2, <4>1
      <4>. QED
        BY <1>9, <3>2, <4>2
    <3>. QED
      BY <1>8, <3>1, <3>2
  <2>. QED
    BY <1>2, <1>7, <2>1 DEF ActionInv, CompletesFollow
<1>. QED
  BY <1>10, <1>11, <1>13, <1>14, <1>15, <1>16 DEF ActionInv

\* What events and rows become when held writes are made.
LEMMA FlaggedIs ==
    ASSUME NEW ws \in Seq(Writes), \A i \in DOMAIN ws : ws[i].kind \in {"flag", "conclude"},
           evaluated \subseteq Happenings
    PROVE  /\ Flagged(ws) \subseteq Happenings /\ evaluated \subseteq Flagged(ws)
           /\ \A i \in DOMAIN ws : ws[i].kind = "flag" => ws[i].row.of \in Flagged(ws)
<1>1. \A i \in DOMAIN ws : ws[i] \in Writes
  OBVIOUS
<1>2. \A i \in DOMAIN ws : ws[i].row.of \in Happenings
  BY <1>1 DEF Writes, LogRows
<1>. QED
  BY <1>2 DEF Flagged

\* Which rows are there, and which are matched, when held rows are written.
LEMMA RowsIs ==
    ASSUME ActionTypes
    PROVE  /\ Rows(rowBuffer) \in [LogRows -> {"none", "matched", "executing", "completed", "abend"}]
           /\ \A l \in LogRows :
                /\ Rows(rowBuffer)[l] = "none" <=>
                      /\ logs[l] = "none"
                      /\ \A i \in DOMAIN rowBuffer : rowBuffer[i].row /= l
                /\ Rows(rowBuffer)[l] = "matched" =>
                      logs[l] = "matched" \/ \E i \in DOMAIN rowBuffer : rowBuffer[i] = Insert(l)
<1>1. \A i \in DOMAIN rowBuffer : rowBuffer[i] \in Writes /\ rowBuffer[i].kind \in {"insert", "complete"}
  BY DEF ActionTypes, ToLog
<1>2. \A i \in DOMAIN rowBuffer : /\ rowBuffer[i] = [kind |-> rowBuffer[i].kind, row |-> rowBuffer[i].row]
                                  /\ rowBuffer[i].row \in LogRows
  BY <1>1 DEF Writes
<1>3. logs \in [LogRows -> {"none", "matched", "executing", "completed", "abend"}]
  BY DEF ActionTypes
<1>. QED
  BY <1>1, <1>2, <1>3 DEF Rows, Insert

\* The head of the queue is taken; the marker at its end, if any, stays there.
LEMMA HeadTaken ==
    ASSUME ActionInv, queue /= <<>>, queue' = Tail(queue)
    PROVE  /\ queue \in Seq(Writes) /\ queue' \in Seq(Writes) /\ Head(queue) = queue[1]
           /\ queue[1] \in Writes /\ 1 \in DOMAIN queue
           /\ \A i \in DOMAIN queue' : i \in Nat \ {0} /\ i + 1 \in DOMAIN queue /\ queue'[i] = queue[i + 1]
           /\ \A i \in DOMAIN queue :
                i \in Nat /\ (i = 1 \/ (i - 1 \in DOMAIN queue' /\ queue'[i - 1] = queue[i]))
           /\ \/ queue' /= <<>> /\ queue'[Len(queue')] = queue[Len(queue)]
              \/ queue' = <<>> /\ queue[Len(queue)] = queue[1]
<1>1. queue \in Seq(Writes)
  BY DEF ActionInv, ActionTypes
<1>2. /\ queue' \in Seq(Writes) /\ Head(queue) = queue[1]
      /\ queue[1] \in Writes /\ 1 \in DOMAIN queue
      /\ Len(queue) \in Nat /\ Len(queue') = Len(queue) - 1
      /\ \A i \in DOMAIN queue' : i \in Nat \ {0} /\ i + 1 \in DOMAIN queue /\ queue'[i] = queue[i + 1]
      /\ \A i \in DOMAIN queue : i \in Nat /\ (i = 1 \/ (i - 1 \in DOMAIN queue' /\ queue'[i - 1] = queue[i]))
  BY <1>1, TailIs
<1>3. CASE queue' = <<>>
  <2>1. Len(queue) = 1
    BY <1>2, <1>3
  <2>. QED
    BY <1>1, <1>2, <1>3, <2>1
<1>4. CASE queue' /= <<>>
  <2>1. Len(queue') \in DOMAIN queue' /\ Len(queue') + 1 = Len(queue)
    BY <1>2, <1>4
  <2>2. queue'[Len(queue')] = queue[Len(queue)]
    BY <1>2, <2>1
  <2>. QED
    BY <1>1, <1>2, <1>4, <2>2
<1>. QED
  BY <1>3, <1>4

\* A pass that waits for an answer goes on waiting.
LEMMA StillWaits ==
    ASSUME ActionInv, queue /= <<>>, queue' = Tail(queue), main' = main,
           rowBuffer' = rowBuffer \/ queue[1].kind \in {"insert", "complete"},
           queue[1].kind \notin {"flush", "finish"} \/ (held' = <<>> /\ rowBuffer' = <<>>)
    PROVE  AnswersAreTrue'
<1>1. ~At("idle")
  BY DEF ActionInv, AnswersAreTrue, NothingAsked
<1>2. ASSUME main.pc \in {"flush", "finish", "broken"}
      PROVE  NothingAsked' \/ (queue' /= <<>> /\ queue'[Len(queue')].kind \in {"flush", "finish"})
  <2>1. queue[Len(queue)].kind \in {"flush", "finish"}
    BY <1>2 DEF ActionInv, AnswersAreTrue, NothingAsked
  <2>. QED
    BY <2>1, HeadTaken DEF NothingAsked
<1>3. ASSUME main.pc \in {"start", "run", "link", "check", "conclude"}
      PROVE  rowBuffer' = <<>> /\ \A i \in DOMAIN queue' : ~ToLog(queue'[i])
  <2>1. rowBuffer = <<>> /\ \A i \in DOMAIN queue : ~ToLog(queue[i])
    BY <1>3 DEF ActionInv, AnswersAreTrue
  <2>. QED
    BY <2>1, HeadTaken DEF ToLog
<1>. QED
  BY <1>1, <1>2, <1>3 DEF AnswersAreTrue, At

\* The writer holds a flag or a conclusion back, or writes all it holds.
LEMMA TakeEventKeeps ==
    ASSUME ActionInv, TakeEventWrite
    PROVE  ActionInv'
<1>1. /\ writer /\ queue /= <<>> /\ queue' = Tail(queue) /\ Head(queue).kind \in {"flag", "conclude"}
      /\ \/ evaluated' = Flagged(held) /\ held' = <<Head(queue)>>
         \/ evaluated' = evaluated /\ held' = Append(held, Head(queue))
      /\ UNCHANGED <<logs, starts, main, cache, rowBuffer, writer, faults>>
  BY DEF TakeEventWrite, WriteEvents, doing
<1>2. /\ queue' \in Seq(Writes) /\ Head(queue) = queue[1] /\ queue[1] \in Writes /\ 1 \in DOMAIN queue
      /\ \A i \in DOMAIN queue' : i \in Nat \ {0} /\ i + 1 \in DOMAIN queue /\ queue'[i] = queue[i + 1]
      /\ \A i \in DOMAIN queue : i \in Nat /\ (i = 1 \/ (i - 1 \in DOMAIN queue' /\ queue'[i - 1] = queue[i]))
  BY <1>1, HeadTaken
<1>3. /\ held \in Seq(Writes) /\ \A i \in DOMAIN held : held[i].kind \in {"flag", "conclude"}
      /\ evaluated \subseteq Happenings
  BY DEF ActionInv, ActionTypes
<1>4. /\ Flagged(held) \subseteq Happenings /\ evaluated \subseteq Flagged(held)
      /\ \A i \in DOMAIN held : held[i].kind = "flag" => held[i].row.of \in Flagged(held)
  BY <1>3, FlaggedIs
<1>5. /\ held' \in Seq(Writes) /\ \A i \in DOMAIN held' : held'[i].kind \in {"flag", "conclude"}
      /\ \E i \in DOMAIN held' : held'[i] = queue[1]
      /\ evaluated' \subseteq Happenings /\ evaluated \subseteq evaluated'
      /\ \/ evaluated' = Flagged(held)
         \/ \A i \in DOMAIN held : i \in DOMAIN held' /\ held'[i] = held[i]
  <2>0. queue[1] \in Writes /\ queue[1].kind \in {"flag", "conclude"}
    BY <1>1, <1>2
  <2>1. CASE evaluated' = evaluated /\ held' = Append(held, queue[1])
    <3>. DEFINE h == Append(held, queue[1])
    <3>1. /\ h \in Seq(Writes) /\ Len(held) + 1 \in DOMAIN h /\ h[Len(held) + 1] = queue[1]
          /\ \A i \in DOMAIN h : \/ i \in DOMAIN held /\ h[i] = held[i]
                                 \/ i = Len(held) + 1 /\ h[i] = queue[1]
          /\ \A i \in DOMAIN held : i \in DOMAIN h /\ h[i] = held[i]
      BY <1>3, <2>0, AppendIs
    <3>2. held' = h
      BY <2>1
    <3>. HIDE DEF h
    <3>. QED
      BY <1>3, <2>0, <2>1, <3>1, <3>2
  <2>2. CASE evaluated' = Flagged(held) /\ held' = <<queue[1]>>
    <3>1. /\ <<queue[1]>> \in Seq(Writes) /\ 1 \in DOMAIN <<queue[1]>>
          /\ \A i \in DOMAIN <<queue[1]>> : <<queue[1]>>[i] = queue[1]
      BY <2>0
    <3>. QED
      BY <1>4, <2>0, <2>2, <3>1
  <2>. QED
    BY <1>1, <1>2, <2>1, <2>2
<1>6. ActionTypes'
  BY <1>1, <1>2, <1>5 DEF ActionInv, ActionTypes
<1>7. DeadIsEmpty' /\ StartsOnce' /\ WorkListed'
  BY <1>1 DEF ActionInv, DeadIsEmpty, StartsOnce, WorkListed, At
<1>8. AnswersAreTrue'
  <2>1. queue[1].kind \in {"flag", "conclude"} /\ main' = main /\ rowBuffer' = rowBuffer
    BY <1>1, <1>2
  <2>2. queue[1].kind \notin {"flush", "finish"}
    BY <2>1
  <2>. QED
    BY <1>1, <2>1, <2>2, StillWaits
<1>9. \A l \in LogRows : Untried(l) => Untried(l)'
  BY <1>1, <1>2 DEF Untried
<1>10. TriesAreNew'
  BY <1>1, <1>9 DEF ActionInv, TriesAreNew
<1>11. FlagsCome'
  <2>1. \A e \in Happenings : [of |-> e, try |-> faults + 1] \in LogRows
    BY ActionAssumption DEF ActionInv, ActionTypes, LogRows
  <2>2. ASSUME NEW e \in Happenings \ evaluated', FlagComes(e) PROVE FlagComes(e)'
    <3>1. CASE \E i \in DOMAIN queue : queue[i].kind = "flag" /\ queue[i].row.of = e
      <4>1. PICK i \in DOMAIN queue : queue[i].kind = "flag" /\ queue[i].row.of = e
        BY <3>1
      <4>2. CASE i = 1
        BY <1>5, <4>1, <4>2 DEF FlagComes
      <4>3. CASE i /= 1
        BY <1>2, <4>1, <4>3 DEF FlagComes
      <4>. QED
        BY <4>2, <4>3
    <3>2. CASE \E i \in DOMAIN held : held[i].kind = "flag" /\ held[i].row.of = e
      BY <1>4, <1>5, <2>2, <3>2 DEF FlagComes
    <3>. QED
      BY <2>2, <3>1, <3>2 DEF FlagComes
  <2>. QED
    BY <1>1, <1>5, <1>9, <2>1, <2>2 DEF ActionInv, FlagsCome
<1>12. InsertsApart'
  BY <1>1, <1>2 DEF ActionInv, InsertsApart
<1>13. CompletesFollow'
  <2>1. ASSUME NEW i \in DOMAIN queue', queue'[i].kind = "complete"
        PROVE  \/ logs[queue'[i].row] /= "none"
               \/ \E j \in DOMAIN rowBuffer : rowBuffer[j] = Insert(queue'[i].row)
               \/ \E j \in DOMAIN queue' : j < i /\ queue'[j] = Insert(queue'[i].row)
    <3>. DEFINE r == queue[i + 1].row
    <3>1. i \in Nat /\ i + 1 \in DOMAIN queue /\ queue'[i] = queue[i + 1]
      BY <1>2
    <3>2. \/ logs[r] /= "none"
          \/ \E j \in DOMAIN rowBuffer : rowBuffer[j] = Insert(r)
          \/ \E j \in DOMAIN queue : j < i + 1 /\ queue[j] = Insert(r)
      BY <2>1, <3>1 DEF ActionInv, CompletesFollow
    <3>3. ASSUME NEW j \in DOMAIN queue, j < i + 1, queue[j] = Insert(r)
          PROVE  j - 1 \in DOMAIN queue' /\ j - 1 < i /\ queue'[j - 1] = Insert(r)
      <4>1. j /= 1
        BY <1>1, <1>2, <3>3 DEF Insert
      <4>. QED
        BY <1>2, <3>1, <3>3, <4>1
    <3>. QED
      BY <3>1, <3>2, <3>3
  <2>. QED
    BY <1>1, <2>1 DEF ActionInv, CompletesFollow
<1>. QED
  BY <1>6, <1>7, <1>8, <1>10, <1>11, <1>12, <1>13 DEF ActionInv

\* The writes to one row are made together: none of its rows had been there.
LEMMA RowsWritten ==
    ASSUME ActionInv, logs' = Rows(rowBuffer)
    PROVE  /\ logs' \in [LogRows -> {"none", "matched", "executing", "completed", "abend"}]
           /\ \A l \in LogRows :
                logs'[l] = "none" <=>
                   logs[l] = "none" /\ \A i \in DOMAIN rowBuffer : rowBuffer[i] /= Insert(l)
           /\ \A l \in LogRows : starts[l] = 1 => logs'[l] \notin {"none", "matched"}
<1>1. /\ logs' \in [LogRows -> {"none", "matched", "executing", "completed", "abend"}]
      /\ \A l \in LogRows : logs'[l] = "none" <=>
            /\ logs[l] = "none"
            /\ \A i \in DOMAIN rowBuffer : rowBuffer[i].row /= l
      /\ \A l \in LogRows : logs'[l] = "matched" =>
            logs[l] = "matched" \/ \E i \in DOMAIN rowBuffer : rowBuffer[i] = Insert(l)
  BY RowsIs DEF ActionInv
<1>2. ASSUME NEW l \in LogRows, logs[l] = "none", \A i \in DOMAIN rowBuffer : rowBuffer[i] /= Insert(l),
             NEW i \in DOMAIN rowBuffer
      PROVE  rowBuffer[i].row /= l
  <2>1. rowBuffer[i] \in Writes /\ rowBuffer[i].kind \in {"insert", "complete"}
    BY DEF ActionInv, ActionTypes, ToLog
  <2>2. rowBuffer[i] = [kind |-> rowBuffer[i].kind, row |-> rowBuffer[i].row]
    BY <2>1 DEF Writes
  <2>3. CASE rowBuffer[i].kind = "insert"
    BY <1>2, <2>2, <2>3 DEF Insert
  <2>4. CASE rowBuffer[i].kind = "complete"
    BY <1>2, <2>4 DEF ActionInv, CompletesFollow
  <2>. QED
    BY <2>1, <2>3, <2>4
<1>3. \A l \in LogRows : Insert(l).row = l /\ Insert(l).kind = "insert"
  BY DEF Insert
<1>4. \A l \in LogRows :
        logs'[l] = "none" <=>
           logs[l] = "none" /\ \A i \in DOMAIN rowBuffer : rowBuffer[i] /= Insert(l)
  BY <1>1, <1>2, <1>3
<1>5. ASSUME NEW l \in LogRows, starts[l] = 1 PROVE logs'[l] \notin {"none", "matched"}
  <2>1. logs[l] \notin {"none", "matched"}
    BY <1>5 DEF ActionInv, StartsOnce
  <2>2. \A i \in DOMAIN rowBuffer : rowBuffer[i] /= Insert(l)
    BY <1>3, <2>1 DEF ActionInv, InsertsApart
  <2>. QED
    BY <1>1, <2>1, <2>2
<1>. QED
  BY <1>1, <1>4, <1>5

\* The writer writes the rows it holds when the next one is another row's.
LEMMA TakeRowKeeps ==
    ASSUME ActionInv, TakeRowWrite
    PROVE  ActionInv'
<1>1. /\ writer /\ queue /= <<>> /\ queue' = Tail(queue) /\ Head(queue).kind \in {"insert", "complete"}
      /\ \/ Head(queue).kind = "complete" /\ logs' = logs /\ rowBuffer' = Append(rowBuffer, Head(queue))
         \/ logs' = Rows(rowBuffer) /\ rowBuffer' = <<Head(queue)>>
      /\ UNCHANGED <<evaluated, starts, main, cache, held, writer, faults>>
  BY DEF TakeRowWrite, WriteRow, doing
<1>2. /\ queue' \in Seq(Writes) /\ Head(queue) = queue[1] /\ queue[1] \in Writes /\ 1 \in DOMAIN queue
      /\ \A i \in DOMAIN queue' : i \in Nat \ {0} /\ i + 1 \in DOMAIN queue /\ queue'[i] = queue[i + 1]
      /\ \A i \in DOMAIN queue : i \in Nat /\ (i = 1 \/ (i - 1 \in DOMAIN queue' /\ queue'[i - 1] = queue[i]))
  BY <1>1, HeadTaken
<1>3. /\ queue[1].kind \in {"insert", "complete"} /\ queue[1].row \in LogRows
      /\ queue[1] = [kind |-> queue[1].kind, row |-> queue[1].row] /\ ToLog(queue[1])
  BY <1>1, <1>2 DEF Writes, ToLog
<1>4. main.pc \notin {"start", "run", "link", "check", "conclude"}
  BY <1>2, <1>3 DEF ActionInv, AnswersAreTrue
<1>5. rowBuffer \in Seq(Writes) /\ \A i \in DOMAIN rowBuffer : ToLog(rowBuffer[i])
  BY DEF ActionInv, ActionTypes
\* What becomes of the rows and of what is held back.
<1>6. /\ rowBuffer' \in Seq(Writes) /\ \A i \in DOMAIN rowBuffer' : ToLog(rowBuffer'[i])
      /\ \E i \in DOMAIN rowBuffer' : rowBuffer'[i] = queue[1]
      /\ \/ /\ queue[1].kind = "complete" /\ logs' = logs
            /\ \A i \in DOMAIN rowBuffer' : \/ i \in DOMAIN rowBuffer /\ rowBuffer'[i] = rowBuffer[i]
                                            \/ rowBuffer'[i] = queue[1]
            /\ \A i \in DOMAIN rowBuffer : i \in DOMAIN rowBuffer' /\ rowBuffer'[i] = rowBuffer[i]
         \/ logs' = Rows(rowBuffer) /\ \A i \in DOMAIN rowBuffer' : rowBuffer'[i] = queue[1]
  <2>1. CASE queue[1].kind = "complete" /\ logs' = logs /\ rowBuffer' = Append(rowBuffer, queue[1])
    <3>. DEFINE b == Append(rowBuffer, queue[1])
    <3>1. /\ b \in Seq(Writes) /\ Len(rowBuffer) + 1 \in DOMAIN b /\ b[Len(rowBuffer) + 1] = queue[1]
          /\ \A i \in DOMAIN b : \/ i \in DOMAIN rowBuffer /\ b[i] = rowBuffer[i]
                                 \/ i = Len(rowBuffer) + 1 /\ b[i] = queue[1]
          /\ \A i \in DOMAIN rowBuffer : i \in DOMAIN b /\ b[i] = rowBuffer[i]
      BY <1>2, <1>5, AppendIs
    <3>2. rowBuffer' = b
      BY <2>1
    <3>. HIDE DEF b
    <3>. QED
      BY <1>3, <1>5, <2>1, <3>1, <3>2
  <2>2. CASE logs' = Rows(rowBuffer) /\ rowBuffer' = <<queue[1]>>
    <3>1. /\ <<queue[1]>> \in Seq(Writes) /\ 1 \in DOMAIN <<queue[1]>>
          /\ \A i \in DOMAIN <<queue[1]>> : <<queue[1]>>[i] = queue[1]
      BY <1>2
    <3>. QED
      BY <1>3, <2>2, <3>1
  <2>. QED
    BY <1>1, <1>2, <2>1, <2>2
<1>7. logs' = Rows(rowBuffer) =>
        /\ logs' \in [LogRows -> {"none", "matched", "executing", "completed", "abend"}]
        /\ \A l \in LogRows :
             logs'[l] = "none" <=>
                logs[l] = "none" /\ \A i \in DOMAIN rowBuffer : rowBuffer[i] /= Insert(l)
        /\ \A l \in LogRows : starts[l] = 1 => logs'[l] \notin {"none", "matched"}
  BY RowsWritten
<1>8. \A l \in LogRows : Insert(l).row = l /\ Insert(l).kind = "insert"
  BY DEF Insert
<1>9. ActionTypes'
  BY <1>1, <1>2, <1>6, <1>7 DEF ActionInv, ActionTypes
<1>10. DeadIsEmpty' /\ StartsOnce' /\ WorkListed'
  BY <1>1, <1>4, <1>6, <1>7 DEF ActionInv, DeadIsEmpty, StartsOnce, WorkListed, At
<1>11. AnswersAreTrue'
  BY <1>1, <1>3, StillWaits
\* A row without an insertion among what is held back stays away.
<1>12. ASSUME NEW l \in LogRows, logs[l] = "none", \A i \in DOMAIN rowBuffer : rowBuffer[i] /= Insert(l)
       PROVE  /\ logs'[l] = "none"
              /\ queue[1] /= Insert(l) => \A i \in DOMAIN rowBuffer' : rowBuffer'[i] /= Insert(l)
  BY <1>6, <1>7, <1>12
<1>13. \A l \in LogRows : Untried(l) => Untried(l)'
  <2>1. ASSUME NEW l \in LogRows, Untried(l) PROVE Untried(l)'
    <3>1. \A i \in DOMAIN queue' : queue'[i] /= Insert(l)
      BY <1>2, <2>1 DEF Untried
    <3>2. queue[1] /= Insert(l)
      BY <1>2, <2>1 DEF Untried
    <3>. QED
      BY <1>12, <2>1, <3>1, <3>2 DEF Untried
  <2>. QED
    BY <2>1
<1>14. TriesAreNew'
  BY <1>1, <1>13 DEF ActionInv, TriesAreNew
<1>15. FlagsCome'
  <2>1. \A e \in Happenings : [of |-> e, try |-> faults + 1] \in LogRows
    BY ActionAssumption DEF ActionInv, ActionTypes, LogRows
  <2>2. ASSUME NEW e, FlagComes(e) PROVE FlagComes(e)'
    <3>1. CASE \E i \in DOMAIN queue : queue[i].kind = "flag" /\ queue[i].row.of = e
      <4>1. PICK i \in DOMAIN queue : queue[i].kind = "flag" /\ queue[i].row.of = e
        BY <3>1
      <4>2. i /= 1
        BY <1>3, <4>1
      <4>. QED
        BY <1>2, <4>1, <4>2 DEF FlagComes
    <3>2. CASE \E i \in DOMAIN held : held[i].kind = "flag" /\ held[i].row.of = e
      BY <1>1, <3>2 DEF FlagComes
    <3>. QED
      BY <2>2, <3>1, <3>2 DEF FlagComes
  <2>. QED
    BY <1>1, <1>13, <2>1, <2>2 DEF ActionInv, FlagsCome
<1>16. InsertsApart'
  <2>1. ASSUME NEW i \in DOMAIN queue', queue'[i].kind = "insert"
        PROVE  /\ logs'[queue'[i].row] = "none"
               /\ \A j \in DOMAIN queue' : queue'[j] = queue'[i] => i = j
               /\ \A j \in DOMAIN rowBuffer' : rowBuffer'[j] /= queue'[i]
    <3>. DEFINE r == queue[i + 1].row
    <3>1. i \in Nat \ {0} /\ i + 1 \in DOMAIN queue /\ queue'[i] = queue[i + 1] /\ i + 1 /= 1
      BY <1>2
    <3>2. /\ queue[i + 1] = Insert(r) /\ r \in LogRows
      <4>1. queue[i + 1] \in Writes /\ queue[i + 1].kind = "insert"
        BY <2>1, <3>1 DEF ActionInv, ActionTypes
      <4>. QED
        BY <4>1 DEF Writes, Insert
    <3>3. /\ logs[r] = "none"
          /\ \A j \in DOMAIN queue : queue[j] = queue[i + 1] => i + 1 = j
          /\ \A j \in DOMAIN rowBuffer : rowBuffer[j] /= Insert(r)
      BY <2>1, <3>1, <3>2 DEF ActionInv, InsertsApart
    <3>4. queue[1] /= Insert(r)
      BY <1>2, <3>1, <3>2, <3>3
    <3>5. logs'[r] = "none" /\ \A j \in DOMAIN rowBuffer' : rowBuffer'[j] /= Insert(r)
      BY <1>12, <3>2, <3>3, <3>4
    <3>6. ASSUME NEW j \in DOMAIN queue', queue'[j] = queue'[i] PROVE i = j
      <4>1. j \in Nat /\ j + 1 \in DOMAIN queue /\ queue[j + 1] = queue[i + 1]
        BY <1>2, <3>1, <3>6
      <4>2. j + 1 = i + 1
        BY <3>3, <4>1
      <4>. QED
        BY <3>1, <4>1, <4>2
    <3>. QED
      BY <3>1, <3>2, <3>5, <3>6
  <2>2. ASSUME NEW j \in DOMAIN rowBuffer', rowBuffer'[j].kind = "insert"
        PROVE  logs'[rowBuffer'[j].row] = "none"
    <3>1. CASE queue[1].kind = "complete" /\ logs' = logs
      BY <1>3, <1>6, <2>2, <3>1 DEF ActionInv, InsertsApart
    <3>2. CASE rowBuffer'[j] = queue[1]
      <4>1. queue[1] = Insert(queue[1].row)
        BY <1>3, <2>2, <3>2 DEF Insert
      <4>2. logs[queue[1].row] = "none" /\ \A i \in DOMAIN rowBuffer : rowBuffer[i] /= queue[1]
        BY <1>2, <2>2, <3>2 DEF ActionInv, InsertsApart
      <4>. QED
        BY <1>3, <1>12, <3>2, <4>1, <4>2
    <3>. QED
      BY <1>6, <2>2, <3>1, <3>2
  <2>. QED
    BY <2>1, <2>2 DEF InsertsApart
<1>17. \A l \in LogRows :
         (logs[l] /= "none" \/ \E j \in DOMAIN rowBuffer : rowBuffer[j] = Insert(l)) =>
            (logs'[l] /= "none" \/ \E j \in DOMAIN rowBuffer' : rowBuffer'[j] = Insert(l))
  BY <1>6, <1>7
<1>18. CompletesFollow'
  <2>1. ASSUME NEW i \in DOMAIN queue', queue'[i].kind = "complete"
        PROVE  \/ logs'[queue'[i].row] /= "none"
               \/ \E j \in DOMAIN rowBuffer' : rowBuffer'[j] = Insert(queue'[i].row)
               \/ \E j \in DOMAIN queue' : j < i /\ queue'[j] = Insert(queue'[i].row)
    <3>. DEFINE r == queue[i + 1].row
    <3>1. i \in Nat /\ i + 1 \in DOMAIN queue /\ queue'[i] = queue[i + 1]
      BY <1>2
    <3>2. r \in LogRows
      <4>1. queue[i + 1] \in Writes /\ queue[i + 1].kind = "complete"
        BY <2>1, <3>1 DEF ActionInv, ActionTypes
      <4>. QED
        BY <4>1 DEF Writes
    <3>3. \/ logs[r] /= "none"
          \/ \E j \in DOMAIN rowBuffer : rowBuffer[j] = Insert(r)
          \/ \E j \in DOMAIN queue : j < i + 1 /\ queue[j] = Insert(r)
      BY <2>1, <3>1 DEF ActionInv, CompletesFollow
    <3>4. ASSUME NEW j \in DOMAIN queue, j < i + 1, queue[j] = Insert(r)
          PROVE  \/ \E k \in DOMAIN rowBuffer' : rowBuffer'[k] = Insert(r)
                 \/ \E k \in DOMAIN queue' : k < i /\ queue'[k] = Insert(r)
      <4>1. CASE j = 1
        BY <1>6, <3>4, <4>1
      <4>2. CASE j /= 1
        <5>1. j - 1 \in DOMAIN queue' /\ queue'[j - 1] = queue[j] /\ j \in Nat
          BY <1>2, <4>2
        <5>. QED
          BY <3>1, <3>4, <5>1
      <4>. QED
        BY <4>1, <4>2
    <3>. HIDE DEF r
    <3>5. \/ logs'[r] /= "none"
          \/ \E k \in DOMAIN rowBuffer' : rowBuffer'[k] = Insert(r)
          \/ \E k \in DOMAIN queue' : k < i /\ queue'[k] = Insert(r)
      BY <1>17, <3>2, <3>3, <3>4
    <3>6. r = queue'[i].row
      BY <3>1 DEF r
    <3>. QED
      BY <3>5, <3>6
  <2>2. ASSUME NEW j \in DOMAIN rowBuffer', rowBuffer'[j].kind = "complete"
        PROVE  \/ logs'[rowBuffer'[j].row] /= "none"
               \/ \E k \in DOMAIN rowBuffer' : rowBuffer'[k] = Insert(rowBuffer'[j].row)
    <3>1. CASE rowBuffer'[j] = queue[1]
      <4>1. \/ logs[queue[1].row] /= "none"
            \/ \E k \in DOMAIN rowBuffer : rowBuffer[k] = Insert(queue[1].row)
        <5>1. \A k \in DOMAIN queue : ~(k < 1)
          BY <1>2 DEF ActionInv, ActionTypes
        <5>. QED
          BY <1>2, <2>2, <3>1, <5>1 DEF ActionInv, CompletesFollow
      <4>. QED
        BY <1>3, <1>17, <3>1, <4>1
    <3>2. CASE j \in DOMAIN rowBuffer /\ rowBuffer'[j] = rowBuffer[j]
      <4>1. \/ logs[rowBuffer[j].row] /= "none"
            \/ \E k \in DOMAIN rowBuffer : rowBuffer[k] = Insert(rowBuffer[j].row)
        BY <2>2, <3>2 DEF ActionInv, CompletesFollow
      <4>2. rowBuffer[j].row \in LogRows
        BY <1>5, <3>2 DEF Writes, ToLog
      <4>. QED
        BY <1>17, <3>2, <4>1, <4>2
    <3>. QED
      BY <1>6, <3>1, <3>2
  <2>. QED
    BY <2>1, <2>2 DEF CompletesFollow
<1>. QED
  BY <1>9, <1>10, <1>11, <1>14, <1>15, <1>16, <1>18 DEF ActionInv

\* It writes what it holds when a marker wants it, and answers when it has.
LEMMA FlushKeeps ==
    ASSUME ActionInv, FlushEvents \/ FlushRow
    PROVE  ActionInv'
<1>1. CASE FlushEvents
  <2>1. /\ evaluated' = Flagged(held) /\ held' = <<>> /\ queue /= <<>>
        /\ Head(queue).kind \in {"flush", "finish"}
        /\ UNCHANGED <<logs, starts, main, cache, queue, rowBuffer, writer, faults>>
    BY <1>1 DEF FlushEvents, Wanted, WriteEvents, doing
  <2>2. /\ held \in Seq(Writes) /\ \A i \in DOMAIN held : held[i].kind \in {"flag", "conclude"}
        /\ evaluated \subseteq Happenings
    BY DEF ActionInv, ActionTypes
  <2>3. /\ evaluated' \subseteq Happenings /\ evaluated \subseteq evaluated'
        /\ \A i \in DOMAIN held : held[i].kind = "flag" => held[i].row.of \in evaluated'
    BY <2>1, <2>2, FlaggedIs
  <2>4. ActionTypes' /\ DeadIsEmpty' /\ InsertsApart' /\ CompletesFollow' /\ StartsOnce' /\ WorkListed'
    <3>1. ActionTypes'
      BY <2>1, <2>3 DEF ActionInv, ActionTypes
    <3>2. DeadIsEmpty' /\ InsertsApart' /\ CompletesFollow'
      BY <2>1 DEF ActionInv, DeadIsEmpty, NothingAsked, InsertsApart, CompletesFollow
    <3>3. StartsOnce' /\ WorkListed'
      BY <2>1 DEF ActionInv, StartsOnce, WorkListed, At
    <3>. QED
      BY <3>1, <3>2, <3>3
  <2>5. TriesAreNew'
    BY <2>1 DEF ActionInv, TriesAreNew, Untried
  <2>6. FlagsCome'
    BY <2>1, <2>3 DEF ActionInv, FlagsCome, FlagComes, Untried
  <2>7. AnswersAreTrue'
    BY <2>1 DEF ActionInv, AnswersAreTrue, NothingAsked, At
  <2>. QED
    BY <2>4, <2>5, <2>6, <2>7 DEF ActionInv
<1>2. CASE FlushRow
  <2>1. /\ logs' = Rows(rowBuffer) /\ rowBuffer' = <<>> /\ queue /= <<>> /\ rowBuffer /= <<>>
        /\ UNCHANGED <<evaluated, starts, main, cache, queue, held, writer, faults>>
    BY <1>2 DEF FlushRow, Wanted, WriteRow, doing
  <2>2. /\ logs' \in [LogRows -> {"none", "matched", "executing", "completed", "abend"}]
        /\ \A l \in LogRows :
             logs'[l] = "none" <=>
                logs[l] = "none" /\ \A i \in DOMAIN rowBuffer : rowBuffer[i] /= Insert(l)
        /\ \A l \in LogRows : starts[l] = 1 => logs'[l] \notin {"none", "matched"}
    BY <2>1, RowsWritten
  <2>3. main.pc \notin {"start", "run", "link", "check", "conclude"}
    BY <2>1 DEF ActionInv, AnswersAreTrue
  <2>4. \A l \in LogRows : Untried(l) => Untried(l)'
    BY <2>1, <2>2 DEF Untried
  <2>5. ActionTypes' /\ DeadIsEmpty'
    BY <2>1, <2>2 DEF ActionInv, ActionTypes, DeadIsEmpty, NothingAsked
  <2>6. StartsOnce' /\ WorkListed' /\ TriesAreNew'
    BY <2>1, <2>2, <2>3, <2>4 DEF ActionInv, StartsOnce, WorkListed, At, TriesAreNew
  <2>7. FlagsCome'
    <3>1. \A e \in Happenings : [of |-> e, try |-> faults + 1] \in LogRows
      BY ActionAssumption DEF ActionInv, ActionTypes, LogRows
    <3>. QED
      BY <2>1, <2>4, <3>1 DEF ActionInv, FlagsCome, FlagComes
  <2>8. AnswersAreTrue'
    BY <2>1 DEF ActionInv, AnswersAreTrue, NothingAsked, At
  <2>9. \A i \in DOMAIN queue : queue[i].kind \in {"insert", "complete"} => queue[i].row \in LogRows
    <3>1. \A i \in DOMAIN queue : queue[i] \in Writes
      BY DEF ActionInv, ActionTypes
    <3>. QED
      BY <3>1 DEF Writes
  <2>10. InsertsApart'
    <3>1. ASSUME NEW i \in DOMAIN queue, queue[i].kind = "insert" PROVE queue[i] = Insert(queue[i].row)
      <4>1. queue[i] \in Writes
        BY DEF ActionInv, ActionTypes
      <4>. QED
        BY <3>1, <4>1 DEF Writes, Insert
    <3>. QED
      BY <2>1, <2>2, <2>9, <3>1 DEF ActionInv, InsertsApart
  <2>11. CompletesFollow'
    BY <2>1, <2>2, <2>9 DEF ActionInv, CompletesFollow
  <2>. QED
    BY <2>5, <2>6, <2>7, <2>8, <2>10, <2>11 DEF ActionInv
<1>. QED
  BY <1>1, <1>2

\* It answers a marker with nothing left to write.
LEMMA AnswerKeeps ==
    ASSUME ActionInv, Answer
    PROVE  ActionInv'
<1>1. /\ queue /= <<>> /\ queue' = Tail(queue) /\ Head(queue).kind \in {"flush", "finish"}
      /\ held = <<>> /\ rowBuffer = <<>> /\ writer
      /\ UNCHANGED <<logs, evaluated, starts, main, cache, held, rowBuffer, writer, faults>>
  BY DEF Answer, Wanted, stored, doing
<1>2. /\ queue' \in Seq(Writes) /\ Head(queue) = queue[1]
      /\ \A i \in DOMAIN queue' : i \in Nat \ {0} /\ i + 1 \in DOMAIN queue /\ queue'[i] = queue[i + 1]
      /\ \A i \in DOMAIN queue : i \in Nat /\ (i = 1 \/ (i - 1 \in DOMAIN queue' /\ queue'[i - 1] = queue[i]))
  BY <1>1, HeadTaken
<1>3. queue[1].kind \in {"flush", "finish"}
  BY <1>1, <1>2
<1>4. ActionTypes' /\ DeadIsEmpty'
  BY <1>1, <1>2 DEF ActionInv, ActionTypes, DeadIsEmpty
<1>5. StartsOnce' /\ WorkListed'
  BY <1>1 DEF ActionInv, StartsOnce, WorkListed, At
<1>6. AnswersAreTrue'
  BY <1>1, StillWaits
<1>7. \A l \in LogRows : Untried(l) => Untried(l)'
  BY <1>1, <1>2 DEF Untried
<1>8. TriesAreNew'
  BY <1>1, <1>7 DEF ActionInv, TriesAreNew
<1>9. FlagsCome'
  <2>1. \A e \in Happenings : [of |-> e, try |-> faults + 1] \in LogRows
    BY ActionAssumption DEF ActionInv, ActionTypes, LogRows
  <2>2. ASSUME NEW e, FlagComes(e) PROVE FlagComes(e)'
    <3>1. CASE \E i \in DOMAIN queue : queue[i].kind = "flag" /\ queue[i].row.of = e
      <4>1. PICK i \in DOMAIN queue : queue[i].kind = "flag" /\ queue[i].row.of = e
        BY <3>1
      <4>2. i /= 1
        BY <1>3, <4>1
      <4>. QED
        BY <1>2, <4>1, <4>2 DEF FlagComes
    <3>2. CASE \E i \in DOMAIN held : held[i].kind = "flag" /\ held[i].row.of = e
      BY <1>1, <3>2 DEF FlagComes
    <3>. QED
      BY <2>2, <3>1, <3>2 DEF FlagComes
  <2>. QED
    BY <1>1, <1>7, <2>1, <2>2 DEF ActionInv, FlagsCome
<1>10. InsertsApart'
  BY <1>1, <1>2 DEF ActionInv, InsertsApart
<1>11. CompletesFollow'
  <2>1. ASSUME NEW i \in DOMAIN queue', queue'[i].kind = "complete"
        PROVE  \/ logs[queue'[i].row] /= "none"
               \/ \E j \in DOMAIN queue' : j < i /\ queue'[j] = Insert(queue'[i].row)
    <3>. DEFINE r == queue[i + 1].row
    <3>1. i \in Nat /\ i + 1 \in DOMAIN queue /\ queue'[i] = queue[i + 1]
      BY <1>2
    <3>2. \/ logs[r] /= "none"
          \/ \E j \in DOMAIN queue : j < i + 1 /\ queue[j] = Insert(r)
      BY <1>1, <2>1, <3>1 DEF ActionInv, CompletesFollow
    <3>3. ASSUME NEW j \in DOMAIN queue, j < i + 1, queue[j] = Insert(r)
          PROVE  j - 1 \in DOMAIN queue' /\ j - 1 < i /\ queue'[j - 1] = Insert(r)
      <4>1. j /= 1
        BY <1>3, <3>3 DEF Insert
      <4>. QED
        BY <1>2, <3>1, <3>3, <4>1
    <3>. QED
      BY <3>1, <3>2, <3>3
  <2>. QED
    BY <1>1, <2>1 DEF CompletesFollow
<1>. QED
  BY <1>4, <1>5, <1>6, <1>8, <1>9, <1>10, <1>11 DEF ActionInv

\* With a process dies what it was asked and what it held back.
LEMMA DeathKeeps ==
    ASSUME ActionInv, WriterDies \/ BackyardDies
    PROVE  ActionInv'
<1>1. /\ faults < MaxFaults /\ faults' = faults + 1 /\ writer' = FALSE
      /\ queue' = <<>> /\ held' = <<>> /\ rowBuffer' = <<>>
      /\ UNCHANGED <<logs, starts>> /\ cache' \subseteq Happenings
      /\ (main' = main \/ main' = [pc |-> "idle", todo |-> <<>>])
  BY DEF WriterDies, BackyardDies, doing, Goes, stored, ActionInv, ActionTypes
<1>2. evaluated' \subseteq Happenings
  <2>1. CASE BackyardDies
    BY <2>1 DEF BackyardDies, stored, ActionInv, ActionTypes
  <2>2. CASE WriterDies
    <3>1. PICK n \in 0..Len(held) : evaluated' = Flagged(SubSeq(held, 1, n))
      BY <2>2 DEF WriterDies, WriteEvents
    <3>. DEFINE ws == SubSeq(held, 1, n)
    <3>2. /\ held \in Seq(Writes) /\ \A i \in DOMAIN held : held[i].kind \in {"flag", "conclude"}
          /\ evaluated \subseteq Happenings
      BY DEF ActionInv, ActionTypes
    <3>3. ws \in Seq(Writes) /\ \A i \in DOMAIN ws : ws[i].kind \in {"flag", "conclude"}
      BY <3>2
    <3>. HIDE DEF ws
    <3>4. evaluated' = Flagged(ws)
      BY <3>1 DEF ws
    <3>. QED
      BY <3>2, <3>3, <3>4, FlaggedIs
  <2>. QED
    BY <2>1, <2>2
<1>3. ActionTypes'
  <2>1. /\ <<>> \in Seq(Writes)
        /\ [pc |-> "idle", todo |-> <<>>] \in [pc : MainPlaces, todo : Seq(LogRows)]
    BY DEF MainPlaces
  <2>2. faults' \in 0..MaxFaults
    BY <1>1, ActionAssumption DEF ActionInv, ActionTypes
  <2>3. /\ queue' \in Seq(Writes) /\ held' \in Seq(Writes) /\ rowBuffer' \in Seq(Writes)
        /\ \A i \in DOMAIN held' : held'[i].kind \in {"flag", "conclude"}
        /\ \A i \in DOMAIN rowBuffer' : ToLog(rowBuffer'[i])
    BY <1>1, <2>1
  <2>4. main' \in [pc : MainPlaces, todo : Seq(LogRows)]
    BY <1>1, <2>1 DEF ActionInv, ActionTypes
  <2>5. /\ logs' \in [LogRows -> {"none", "matched", "executing", "completed", "abend"}]
        /\ starts' \in [LogRows -> Nat] /\ writer' \in BOOLEAN /\ cache' \subseteq Happenings
    BY <1>1 DEF ActionInv, ActionTypes
  <2>. QED
    BY <1>2, <2>2, <2>3, <2>4, <2>5 DEF ActionTypes, ToLog
<1>4. DeadIsEmpty' /\ InsertsApart' /\ CompletesFollow' /\ StartsOnce' /\ FlagsCome'
  BY <1>1 DEF ActionInv, DeadIsEmpty, NothingAsked, InsertsApart, CompletesFollow, StartsOnce, FlagsCome
<1>5. AnswersAreTrue'
  BY <1>1 DEF AnswersAreTrue, NothingAsked, At
<1>6. WorkListed'
  BY <1>1 DEF ActionInv, WorkListed, At
<1>7. TriesAreNew'
  <2>1. SUFFICES ASSUME NEW l \in LogRows, l.try > faults' \/ l.try = faults' + 1
                 PROVE  logs'[l] = "none"
    BY <1>1 DEF TriesAreNew, Untried, ActionInv, ActionTypes, LogRows
  <2>2. l.try > faults + 1
    BY <1>1, <2>1
  <2>. QED
    BY <1>1, <2>2 DEF ActionInv, TriesAreNew, Untried
<1>. QED
  BY <1>3, <1>4, <1>5, <1>6, <1>7 DEF ActionInv

\* Whatever step is taken keeps it.
LEMMA ActionInvHolds == ActionSpec => []ActionInv
<1>1. ASSUME ActionInv, [ActionNext]_actionVars PROVE ActionInv'
  <2>1. CASE UNCHANGED actionVars
    <3>1. Still /\ cache' = cache /\ main' = main
      BY <2>1 DEF actionVars, Still
    <3>2. AnswersAreTrue'
      BY <1>1, <3>1 DEF Still, ActionInv, AnswersAreTrue, NothingAsked, At
    <3>3. WorkListed' /\ main' \in [pc : MainPlaces, todo : Seq(LogRows)]
      BY <1>1, <3>1 DEF Still, ActionInv, ActionTypes, WorkListed, At
    <3>. QED
      BY <1>1, <3>1, <3>2, <3>3, StillKeeps
  <2>. QED
    BY <1>1, <2>1, QuietKeeps, WorkBeginsKeeps, MarkExecutingKeeps, RunKeeps, CheckKeeps, AsksKeep,
       RegisterKeeps, TakeEventKeeps, TakeRowKeeps, FlushKeeps, AnswerKeeps, DeathKeeps
       DEF ActionNext, WriterSteps, MainSteps
<1>. QED
  BY <1>1, ActionInvStarts, PTL DEF ActionSpec

\* A row of the action log starts its conductor at most once, whichever process
\* dies between two writes: checkRuleMatch makes it executing first, and no write
\* the writer still has makes a row matched that was started.
THEOREM StartedOnceHolds == ActionSpec => []StartedOnce
<1>1. ActionInv => StartedOnce
  BY DEF ActionInv, StartsOnce, StartedOnce
<1>. QED
  BY <1>1, ActionInvHolds, PTL

-----------------------------------------------------------------------------
(* The conclusions of the action log. *)

\* A conclusion event and a completion that are asked for.
Conclusion(l) == [kind |-> "conclude", row |-> l]
Completion(l) == [kind |-> "complete", row |-> l]

\* A conclusion event is in MongoDB, or was asked for and is not written yet.
Awaits(w) == (\E i \in DOMAIN queue : queue[i] = w) \/ (\E i \in DOMAIN held : held[i] = w)
Unconcluded(l) == concluded[l] = 0 /\ ~Awaits(Conclusion(l))

\* What is left of the types: each conclusion is there once, and the writes to
\* rows that are held back are to one row.
ConclusionTypes ==
    /\ concluded \in [LogRows -> {0, 1}]
    /\ linked \subseteq LogRows
    /\ conductor \in [LogRows -> {"none", "running", "normal", "other"}]
    /\ Len(held) <= BufferSize
    /\ \A i, j \in DOMAIN rowBuffer : rowBuffer[i].row = rowBuffer[j].row

\* A row without an action is inserted and completed in one write: what comes
\* between the two in the queue is not written to rows.
Between(w) == w.kind \in {"flag", "conclude"}
Joined(s) == \A i \in DOMAIN s :
    s[i].kind = "insert" /\ ~Acts(s[i].row) =>
        \E k \in DOMAIN s : /\ i < k /\ s[k] = Completion(s[i].row)
                            /\ \A j \in DOMAIN s : i < j /\ j < k => Between(s[j])
ComesFirst(w, s) == \E k \in DOMAIN s : s[k] = w /\ \A j \in DOMAIN s : j < k => Between(s[j])
WrittenAtOnce ==
    /\ \A l \in LogRows : ~Acts(l) => logs[l] \in {"none", "completed"}
    /\ Joined(queue)
    /\ \A i \in DOMAIN rowBuffer :
         rowBuffer[i].kind = "insert" /\ ~Acts(rowBuffer[i].row) =>
            \/ \E k \in DOMAIN rowBuffer : rowBuffer[k] = Completion(rowBuffer[i].row)
            \/ ComesFirst(Completion(rowBuffer[i].row), queue)

\* A row of this try or a later one that was not thought of has no conclusion.
NewIsUnconcluded == \A l \in LogRows : l.try > faults /\ Untried(l) => Unconcluded(l)

\* A conclusion that is asked for is not there, and is asked for once.
Single(s) == \A i, j \in DOMAIN s : s[i].kind = "conclude" /\ s[j] = s[i] => i = j
Missing(s) == \A i \in DOMAIN s : s[i].kind = "conclude" => concluded[s[i].row] = 0
ConcludedOnce ==
    /\ Single(queue) /\ Missing(queue) /\ Single(held) /\ Missing(held)
    /\ \A i \in DOMAIN queue, j \in DOMAIN held : queue[i].kind = "conclude" => held[j] /= queue[i]

\* The conclusion of a row with an action is asked for after its conductor ended
\* normally and the row was completed.
AskedWhenEarned ==
    \A l \in LogRows : Acts(l) /\ ~Unconcluded(l) => conductor[l] = "normal" /\ logs[l] = "completed"

\* The rows to be looked at are executing and listed once; the first of them may
\* have just been completed, and then its conclusion was not asked for.
CheckListed == LET work == main.todo IN
    main.pc \in {"check", "conclude"} =>
        /\ \A i, j \in DOMAIN work : work[i] = work[j] => i = j
        /\ \A i \in DOMAIN work :
             IF i = 1 /\ At("conclude")
             THEN /\ logs[work[1]] = "completed" /\ conductor[work[1]] = "normal"
                  /\ Unconcluded(work[1])
             ELSE logs[work[i]] = "executing"

\* What holds of the conclusions whichever process has died.
ConclusionInv == /\ ConclusionTypes /\ WrittenAtOnce /\ NewIsUnconcluded /\ ConcludedOnce
                 /\ AskedWhenEarned /\ CheckListed

\* It holds at the start.
LEMMA ConclusionStarts == ActionInit => ConclusionInv
<1>. SUFFICES ASSUME ActionInit PROVE ConclusionInv
  OBVIOUS
<1>1. /\ queue = <<>> /\ held = <<>> /\ rowBuffer = <<>> /\ At("idle")
      /\ concluded = [l \in LogRows |-> 0] /\ logs = [l \in LogRows |-> "none"]
      /\ linked = {} /\ conductor = [l \in LogRows |-> "none"]
  BY DEF ActionInit, At
<1>2. ConclusionTypes
  BY <1>1, ActionAssumption DEF ConclusionTypes
<1>3. \A l \in LogRows : Unconcluded(l)
  BY <1>1 DEF Unconcluded, Awaits
<1>. QED
  BY <1>1, <1>2, <1>3
     DEF ConclusionInv, WrittenAtOnce, Joined, NewIsUnconcluded, ConcludedOnce, Single, Missing,
         AskedWhenEarned, CheckListed, At

\* What written conclusions make of the store, when each was asked for once.
LEMMA ConclusionsIs ==
    ASSUME concluded \in [LogRows -> {0, 1}], NEW ws \in Seq(Writes),
           Single(ws), Missing(ws)
    PROVE  /\ Conclusions(ws) \in [LogRows -> {0, 1}]
           /\ \A l \in LogRows : Conclusions(ws)[l] = 0 <=>
                concluded[l] = 0 /\ \A i \in DOMAIN ws : ws[i] /= Conclusion(l)
<1>1. ASSUME NEW l \in LogRows
      PROVE  /\ Conclusions(ws)[l] \in {0, 1}
             /\ Conclusions(ws)[l] = 0 <=>
                  concluded[l] = 0 /\ \A i \in DOMAIN ws : ws[i] /= Conclusion(l)
  <2>. DEFINE S == {i \in DOMAIN ws : ws[i] = Conclusion(l)}
  <2>1. Conclusions(ws)[l] = concluded[l] + Cardinality(S)
    BY DEF Conclusions, Conclusion
  <2>2. Conclusion(l).kind = "conclude" /\ Conclusion(l).row = l
    BY DEF Conclusion
  <2>3. CASE S = {}
    <3>1. Cardinality(S) = 0
      BY <2>3, FS_EmptySet
    <3>. QED
      BY <2>1, <2>3, <3>1
  <2>4. ASSUME NEW i \in S PROVE S = {i} /\ concluded[l] = 0
    BY <2>2 DEF Single, Missing
  <2>5. ASSUME NEW i \in S PROVE concluded[l] = 0 /\ Cardinality(S) = 1
    <3>1. S = {i} /\ concluded[l] = 0
      BY <2>4
    <3>. HIDE DEF S
    <3>. QED
      BY <3>1, FS_Singleton
  <2>6. CASE S /= {}
    <3>1. PICK i \in S : TRUE
      BY <2>6
    <3>2. concluded[l] = 0 /\ Cardinality(S) = 1 /\ ws[i] = Conclusion(l) /\ i \in DOMAIN ws
      BY <2>5
    <3>3. Conclusions(ws)[l] = 1
      BY <2>1, <3>2
    <3>. QED
      BY <3>2, <3>3
  <2>. QED
    BY <2>3, <2>6
<1>2. Conclusions(ws) = [l \in LogRows |-> Conclusions(ws)[l]]
  BY DEF Conclusions
<1>. QED
  BY <1>1, <1>2

\* What a step leaves of the invariant that makes no difference to the
\* conclusions, the conductors and the work at hand.
LEMMA RestKeeps ==
    ASSUME ConclusionInv, UNCHANGED <<conductor, main, faults>>,
           \A l \in LogRows : Unconcluded(l)' <=> Unconcluded(l),
           \A l \in LogRows : Untried(l)' => Untried(l),
           \A l \in LogRows : logs[l] = "completed" => logs'[l] = "completed",
           main.pc \in {"check", "conclude"} => logs' = logs /\ main.todo \in Seq(LogRows)
    PROVE  NewIsUnconcluded' /\ AskedWhenEarned' /\ CheckListed'
<1>1. NewIsUnconcluded' /\ AskedWhenEarned'
  BY DEF ConclusionInv, NewIsUnconcluded, AskedWhenEarned, Acts
<1>2. ASSUME main.pc \in {"check", "conclude"}, NEW i \in DOMAIN main.todo
      PROVE  IF i = 1 /\ At("conclude")
             THEN /\ logs'[main.todo[1]] = "completed" /\ conductor[main.todo[1]] = "normal"
                  /\ Unconcluded(main.todo[1])'
             ELSE logs'[main.todo[i]] = "executing"
  BY <1>2 DEF ConclusionInv, CheckListed
<1>3. CheckListed'
  BY <1>2 DEF ConclusionInv, CheckListed, At
<1>. QED
  BY <1>1, <1>3

\* The main process and the conductors: steps that ask for nothing.
LEMMA WorkConcludes ==
    ASSUME ActionInv, ConclusionInv, UNCHANGED <<queue, held, rowBuffer, concluded>>,
           faults' \in {faults, faults + 1},
           linked' \subseteq LogRows,
           conductor' \in [LogRows -> {"none", "running", "normal", "other"}],
           \A l \in LogRows : ~Acts(l) => logs'[l] = logs[l],
           \A l \in LogRows : logs'[l] = "none" => logs[l] = "none",
           \A l \in LogRows : conductor[l] = "normal" /\ logs[l] = "completed" =>
                                 conductor'[l] = "normal" /\ logs'[l] = "completed",
           CheckListed'
    PROVE  ConclusionInv'
<1>1. \A l \in LogRows : Unconcluded(l)' <=> Unconcluded(l)
  BY DEF Unconcluded, Awaits
<1>2. \A l \in LogRows : Untried(l)' => Untried(l)
  BY DEF Untried
<1>3. ConclusionTypes' /\ WrittenAtOnce' /\ ConcludedOnce'
  BY DEF ConclusionInv, ConclusionTypes, WrittenAtOnce, Joined, ComesFirst, Between, Completion,
         ConcludedOnce, Single, Missing, Acts
<1>4. \A l \in LogRows : l.try > faults' => l.try > faults
  BY ActionAssumption DEF ActionInv, ActionTypes, LogRows
<1>5. NewIsUnconcluded' /\ AskedWhenEarned'
  BY <1>1, <1>2, <1>4 DEF ConclusionInv, NewIsUnconcluded, AskedWhenEarned, Acts
<1>. QED
  BY <1>3, <1>5 DEF ConclusionInv

\* Reading the rows, beginning and ending a pass, linking a row and ending a
\* conductor keep it.
LEMMA QuietConcludes ==
    ASSUME ActionInv, ConclusionInv,
           WorkBegins \/ Flushed \/ StartsDone \/ Link \/ Finished
           \/ \E l \in LogRows : ConductorEnds(l)
    PROVE  ConclusionInv'
<1>. USE DEF stored, doing, asking
<1>0. /\ linked \subseteq LogRows /\ conductor \in [LogRows -> {"none", "running", "normal", "other"}]
      /\ main \in [pc : MainPlaces, todo : Seq(LogRows)]
  BY DEF ActionInv, ActionTypes, ConclusionInv, ConclusionTypes
<1>1. CASE WorkBegins \/ Flushed \/ Finished
  <2>1. /\ UNCHANGED <<queue, held, rowBuffer, concluded, faults, linked, conductor, logs>>
        /\ main'.pc \in {"judge", "start", "idle"}
    BY <1>1 DEF WorkBegins, Flushed, Finished, Goes
  <2>2. CheckListed'
    BY <2>1 DEF CheckListed
  <2>. QED
    BY <1>0, <2>1, <2>2, WorkConcludes
<1>2. CASE StartsDone
  <2>. DEFINE s == SetToSeq({l \in LogRows : logs[l] = "executing"})
  <2>1. /\ \A i \in DOMAIN s : logs[s[i]] = "executing"
        /\ \A i, j \in DOMAIN s : s[i] = s[j] => i = j
    BY PendingIs
  <2>2. /\ main' = [pc |-> "check", todo |-> s]
        /\ UNCHANGED <<queue, held, rowBuffer, concluded, faults, linked, conductor, logs>>
    <3>1. s = Pending({"executing"})
      BY DEF Pending
    <3>. QED
      BY <1>2, <3>1 DEF StartsDone, Goes
  <2>. HIDE DEF s
  <2>3. CheckListed'
    BY <2>1, <2>2 DEF CheckListed, At
  <2>. QED
    BY <1>0, <2>2, <2>3, WorkConcludes
<1>3. CASE Link
  <2>1. main.todo \in Seq(LogRows) /\ main.todo /= <<>>
    BY <1>0, <1>3 DEF Link, ActionInv, WorkListed, At
  <2>2. Head(main.todo) \in LogRows
    BY <2>1
  <2>3. /\ linked' = linked \cup {Head(main.todo)} /\ main'.pc = "start"
        /\ UNCHANGED <<queue, held, rowBuffer, concluded, faults, conductor, logs>>
    BY <1>3 DEF Link, Goes
  <2>4. CheckListed'
    BY <2>3 DEF CheckListed
  <2>. QED
    BY <1>0, <2>2, <2>3, <2>4, WorkConcludes
<1>4. ASSUME NEW l \in LogRows, ConductorEnds(l) PROVE ConclusionInv'
  <2>1. /\ UNCHANGED <<queue, held, rowBuffer, concluded, faults, linked, logs, main>>
        /\ conductor[l] = "running"
        /\ \E s \in {"normal", "other"} : conductor' = [conductor EXCEPT ![l] = s]
    BY <1>4 DEF ConductorEnds
  <2>2. /\ conductor' \in [LogRows -> {"none", "running", "normal", "other"}]
        /\ \A k \in LogRows : conductor[k] = "normal" => conductor'[k] = "normal"
    BY <1>0, <2>1
  <2>4. \A i \in DOMAIN main.todo : main.todo[i] \in LogRows /\ i \in Nat
    BY <1>0
  <2>5. ASSUME main.pc \in {"check", "conclude"}, NEW i \in DOMAIN main.todo
        PROVE  IF i = 1 /\ At("conclude")
               THEN /\ logs[main.todo[1]] = "completed" /\ conductor'[main.todo[1]] = "normal"
                    /\ Unconcluded(main.todo[1])
               ELSE logs[main.todo[i]] = "executing"
    BY <2>2, <2>4, <2>5 DEF ConclusionInv, CheckListed
  <2>6. CheckListed'
    BY <2>1, <2>5 DEF ConclusionInv, CheckListed, At, Unconcluded, Awaits
  <2>. QED
    BY <1>0, <2>1, <2>2, <2>6, WorkConcludes
<1>. QED
  BY <1>1, <1>2, <1>3, <1>4

\* A row that is not completed yet moves on: it has an action.
LEMMA RowConcludes ==
    ASSUME ActionInv, ConclusionInv, NEW h \in LogRows, logs[h] \in {"matched", "executing"},
           NEW s, logs' = [logs EXCEPT ![h] = s] \/ logs' = logs, s /= "none",
           UNCHANGED <<queue, held, rowBuffer, concluded, faults>>,
           linked' \subseteq LogRows,
           \/ conductor' = conductor
           \/ conductor' = [conductor EXCEPT ![h] = "running"],
           CheckListed'
    PROVE  ConclusionInv'
<1>1. /\ logs \in [LogRows -> {"none", "matched", "executing", "completed", "abend"}]
      /\ conductor \in [LogRows -> {"none", "running", "normal", "other"}]
  BY DEF ActionInv, ActionTypes, ConclusionInv, ConclusionTypes
<1>2. Acts(h)
  BY DEF ConclusionInv, WrittenAtOnce
<1>3. \A l \in LogRows : ~Acts(l) => logs'[l] = logs[l]
  BY <1>1, <1>2
<1>4. \A l \in LogRows : logs'[l] = "none" => logs[l] = "none"
  BY <1>1
<1>5. \A l \in LogRows : conductor[l] = "normal" /\ logs[l] = "completed" =>
                            conductor'[l] = "normal" /\ logs'[l] = "completed"
  BY <1>1
<1>6. conductor' \in [LogRows -> {"none", "running", "normal", "other"}]
  BY <1>1
<1>. QED
  BY <1>3, <1>4, <1>5, <1>6, WorkConcludes

\* Starting a row keeps it.
LEMMA StartConcludes ==
    ASSUME ActionInv, ConclusionInv, MarkExecuting \/ Run
    PROVE  ConclusionInv'
<1>. DEFINE h == Head(main.todo)
<1>1. main.todo \in Seq(LogRows) /\ main.todo /= <<>> /\ main.pc \in {"start", "run"}
  BY DEF MarkExecuting, Run, At, ActionInv, ActionTypes, WorkListed
<1>2. h \in LogRows /\ h = main.todo[1] /\ 1 \in DOMAIN main.todo
  BY <1>1
<1>3. logs[h] \in {"matched", "executing"}
  BY <1>1, <1>2 DEF ActionInv, WorkListed, At
<1>4. linked \subseteq LogRows
  BY DEF ConclusionInv, ConclusionTypes
<1>5. UNCHANGED <<queue, held, rowBuffer, concluded, faults>> /\ main'.pc \in {"run", "start", "link"}
  BY DEF MarkExecuting, Run, doing, asking, Goes
<1>6. CheckListed'
  BY <1>5 DEF CheckListed
<1>7. \/ logs' = [logs EXCEPT ![h] = "executing"] /\ UNCHANGED <<linked, conductor>>
      \/ logs' = logs /\ conductor' = [conductor EXCEPT ![h] = "running"]
         /\ linked' \in {linked, linked \cup {h}}
      \/ logs' = [logs EXCEPT ![h] = "abend"] /\ UNCHANGED <<linked, conductor>>
  BY DEF MarkExecuting, Run, doing
<1>. HIDE DEF h
<1>8. CASE logs' = [logs EXCEPT ![h] = "executing"] /\ UNCHANGED <<linked, conductor>>
  BY <1>2, <1>3, <1>4, <1>5, <1>6, <1>8, RowConcludes
<1>9. CASE logs' = logs /\ conductor' = [conductor EXCEPT ![h] = "running"]
           /\ linked' \in {linked, linked \cup {h}}
  <2>1. linked' \subseteq LogRows
    BY <1>2, <1>4, <1>9
  <2>. QED
    BY <1>2, <1>3, <1>5, <1>6, <1>9, <2>1, RowConcludes
<1>10. CASE logs' = [logs EXCEPT ![h] = "abend"] /\ UNCHANGED <<linked, conductor>>
  BY <1>2, <1>3, <1>4, <1>5, <1>6, <1>10, RowConcludes
<1>. QED
  BY <1>7, <1>8, <1>9, <1>10

\* Looking at a row keeps it: one that is executing has no conclusion yet.
LEMMA CheckConcludes ==
    ASSUME ActionInv, ConclusionInv, Check
    PROVE  ConclusionInv'
<1>. DEFINE t == main.todo
            u == Tail(t)
            h == t[1]
<1>1. t \in Seq(LogRows) /\ t /= <<>> /\ At("check")
  BY DEF Check, ActionInv, ActionTypes
<1>2. /\ Head(t) = h /\ h \in LogRows /\ 1 \in DOMAIN t /\ u \in Seq(LogRows)
      /\ \A i \in DOMAIN u : i \in Nat \ {0} /\ i + 1 \in DOMAIN t /\ u[i] = t[i + 1]
      /\ \A i \in DOMAIN t : t[i] \in LogRows /\ i \in Nat
  BY <1>1, TailIs
<1>3. /\ \A i, j \in DOMAIN t : t[i] = t[j] => i = j
      /\ \A i \in DOMAIN t : logs[t[i]] = "executing"
  BY <1>1 DEF ConclusionInv, CheckListed, At
<1>4. logs[h] = "executing"
  BY <1>2, <1>3
<1>5. Unconcluded(h)
  <2>1. Acts(h)
    BY <1>2, <1>4 DEF ConclusionInv, WrittenAtOnce
  <2>. QED
    BY <1>2, <1>4, <2>1 DEF ConclusionInv, AskedWhenEarned
<1>6. /\ UNCHANGED <<queue, held, rowBuffer, concluded, faults, linked, conductor>>
      /\ \/ main' = [pc |-> "check", todo |-> u] /\ logs' = logs
         \/ main' = [pc |-> "conclude", todo |-> t] /\ logs' = [logs EXCEPT ![h] = "completed"]
            /\ conductor[h] = "normal"
         \/ main' = [pc |-> "check", todo |-> u] /\ logs' = [logs EXCEPT ![h] = "abend"]
  BY <1>2 DEF Check, doing, asking, Goes, EndedWell
<1>7. \A i, j \in DOMAIN u : u[i] = u[j] => i = j
  <2>1. ASSUME NEW i \in DOMAIN u, NEW j \in DOMAIN u, u[i] = u[j] PROVE i = j
    <3>1. i + 1 = j + 1 /\ i \in Nat /\ j \in Nat
      BY <1>2, <1>3, <2>1
    <3>. QED
      BY <3>1
  <2>. QED
    BY <2>1
<1>8. \A i \in DOMAIN u : u[i] /= h /\ u[i] \in LogRows /\ logs[u[i]] = "executing"
  <2>1. ASSUME NEW i \in DOMAIN u PROVE u[i] /= h /\ u[i] \in LogRows /\ logs[u[i]] = "executing"
    <3>1. i + 1 /= 1 /\ i + 1 \in DOMAIN t /\ u[i] = t[i + 1]
      BY <1>2
    <3>. QED
      BY <1>2, <1>3, <3>1
  <2>. QED
    BY <2>1
<1>9. \A i \in DOMAIN t : i /= 1 => t[i] /= h
  BY <1>2, <1>3
<1>10. logs \in [LogRows -> {"none", "matched", "executing", "completed", "abend"}]
       /\ linked \subseteq LogRows
  BY DEF ActionInv, ActionTypes, ConclusionInv, ConclusionTypes
<1>. HIDE DEF t, u, h
<1>11. ASSUME main' = [pc |-> "check", todo |-> u],
              logs' = logs \/ logs' = [logs EXCEPT ![h] = "abend"]
       PROVE  ConclusionInv'
  <2>1. \A i \in DOMAIN u : logs'[u[i]] = "executing"
    BY <1>2, <1>8, <1>10, <1>11
  <2>2. CheckListed'
    BY <1>7, <1>11, <2>1 DEF CheckListed, At
  <2>. QED
    BY <1>2, <1>4, <1>6, <1>10, <1>11, <2>2, RowConcludes
<1>12. ASSUME main' = [pc |-> "conclude", todo |-> t], logs' = [logs EXCEPT ![h] = "completed"],
              conductor[h] = "normal"
       PROVE  ConclusionInv'
  <2>1. logs'[h] = "completed" /\ \A i \in DOMAIN t : i /= 1 => logs'[t[i]] = "executing"
    BY <1>2, <1>3, <1>9, <1>10, <1>12
  <2>2. h = t[1]
    BY DEF h
  <2>3. CheckListed'
    BY <1>3, <1>5, <1>6, <1>12, <2>1, <2>2 DEF CheckListed, At, Unconcluded, Awaits
  <2>. QED
    BY <1>2, <1>4, <1>6, <1>10, <1>12, <2>3, RowConcludes
<1>. QED
  BY <1>6, <1>11, <1>12

\* Sequences that join each insertion with its completion.
LEMMA JoinedConcat ==
    ASSUME NEW s \in Seq(Writes), NEW t \in Seq(Writes), Joined(s), Joined(t)
    PROVE  Joined(s \o t)
<1>. DEFINE q == s \o t
            n == Len(s)
<1>1. /\ n \in Nat /\ \A i \in DOMAIN q : i \in Nat
      /\ \A i \in DOMAIN s : i <= n /\ i \in DOMAIN q /\ q[i] = s[i]
      /\ \A i \in DOMAIN q : \/ i \in DOMAIN s /\ q[i] = s[i]
                             \/ i - n \in DOMAIN t /\ q[i] = t[i - n]
      /\ \A i \in DOMAIN t : i + n \in DOMAIN q /\ q[i + n] = t[i]
  BY ConcatIs
<1>2. \A i \in DOMAIN t : i \in Nat \ {0}
  OBVIOUS
<1>. HIDE DEF q, n
<1>3. ASSUME NEW i \in DOMAIN q, q[i].kind = "insert", ~Acts(q[i].row)
      PROVE  \E k \in DOMAIN q : /\ i < k /\ q[k] = Completion(q[i].row)
                                 /\ \A j \in DOMAIN q : i < j /\ j < k => Between(q[j])
  <2>1. CASE i \in DOMAIN s /\ q[i] = s[i]
    <3>1. PICK k \in DOMAIN s : /\ i < k /\ s[k] = Completion(s[i].row)
                                /\ \A j \in DOMAIN s : i < j /\ j < k => Between(s[j])
      BY <1>3, <2>1 DEF Joined
    <3>2. k \in DOMAIN q /\ q[k] = Completion(q[i].row)
      BY <1>1, <2>1, <3>1
    <3>3. ASSUME NEW j \in DOMAIN q, i < j, j < k PROVE Between(q[j])
      <4>1. ~(j - n \in DOMAIN t)
        BY <1>1, <1>2, <3>3
      <4>. QED
        BY <1>1, <3>1, <3>3, <4>1
    <3>. QED
      BY <3>1, <3>2, <3>3
  <2>2. CASE i - n \in DOMAIN t /\ q[i] = t[i - n]
    <3>1. PICK k \in DOMAIN t : /\ i - n < k /\ t[k] = Completion(t[i - n].row)
                                /\ \A j \in DOMAIN t : i - n < j /\ j < k => Between(t[j])
      BY <1>3, <2>2 DEF Joined
    <3>2. k + n \in DOMAIN q /\ q[k + n] = Completion(q[i].row) /\ i < k + n
      BY <1>1, <1>2, <2>2, <3>1
    <3>3. ASSUME NEW j \in DOMAIN q, i < j, j < k + n PROVE Between(q[j])
      <4>1. j - n \in DOMAIN t /\ q[j] = t[j - n] /\ j \in Nat
        BY <1>1, <1>2, <2>2, <3>3
      <4>2. i - n < j - n /\ j - n < k
        BY <1>1, <1>2, <3>3, <4>1
      <4>. QED
        BY <3>1, <4>1, <4>2
    <3>. QED
      BY <3>2, <3>3
  <2>. QED
    BY <1>1, <2>1, <2>2
<1>. QED
  BY <1>3 DEF Joined, q

\* What is appended is asked for after what was asked before.
LEMMA ComesStill ==
    ASSUME NEW s \in Seq(Writes), NEW t \in Seq(Writes), NEW w, ComesFirst(w, s)
    PROVE  ComesFirst(w, s \o t)
<1>. DEFINE q == s \o t
            n == Len(s)
<1>1. /\ n \in Nat /\ \A i \in DOMAIN q : i \in Nat
      /\ \A i \in DOMAIN s : i <= n /\ i \in DOMAIN q /\ q[i] = s[i]
      /\ \A i \in DOMAIN q : \/ i \in DOMAIN s /\ q[i] = s[i]
                             \/ i - n \in DOMAIN t /\ q[i] = t[i - n]
  BY ConcatIs
<1>2. \A i \in DOMAIN t : i \in Nat \ {0}
  OBVIOUS
<1>. HIDE DEF q, n
<1>3. PICK k \in DOMAIN s : s[k] = w /\ \A j \in DOMAIN s : j < k => Between(s[j])
  BY DEF ComesFirst
<1>4. ASSUME NEW j \in DOMAIN q, j < k PROVE Between(q[j])
  <2>1. ~(j - n \in DOMAIN t)
    BY <1>1, <1>2, <1>4
  <2>. QED
    BY <1>1, <1>3, <1>4, <2>1
<1>. QED
  BY <1>1, <1>3, <1>4 DEF ComesFirst, q

\* The writer is asked for more: each new conclusion for the first time, and what
\* is to be written at once together.
LEMMA AskedConcludes ==
    ASSUME ActionInv, ConclusionInv, NEW ws \in Seq(Writes), queue' = queue \o ws,
           UNCHANGED <<logs, held, rowBuffer, concluded, linked, conductor>>,
           Joined(ws), Single(ws),
           \A i \in DOMAIN ws : ws[i].kind = "conclude" => Unconcluded(ws[i].row)
    PROVE  /\ ConclusionTypes' /\ WrittenAtOnce' /\ ConcludedOnce'
           /\ \A l \in LogRows : Unconcluded(l)' <=>
                 Unconcluded(l) /\ \A i \in DOMAIN ws : ws[i] /= Conclusion(l)
           /\ \A l \in LogRows : Untried(l)' => Untried(l)
<1>. DEFINE q == queue \o ws
<1>0. queue \in Seq(Writes) /\ held \in Seq(Writes)
  BY DEF ActionInv, ActionTypes
<1>1. /\ q \in Seq(Writes) /\ Len(queue) \in Nat /\ \A i \in DOMAIN q : i \in Nat
      /\ \A i \in DOMAIN q : \/ i \in DOMAIN queue /\ q[i] = queue[i]
                             \/ i - Len(queue) \in DOMAIN ws /\ q[i] = ws[i - Len(queue)]
      /\ \A i \in DOMAIN queue : i \in DOMAIN q /\ q[i] = queue[i]
      /\ \A i \in DOMAIN ws : i + Len(queue) \in DOMAIN q /\ q[i + Len(queue)] = ws[i]
  BY <1>0, ConcatIs
<1>2. Joined(q) /\ \A w : ComesFirst(w, queue) => ComesFirst(w, q)
  BY <1>0, JoinedConcat, ComesStill DEF ConclusionInv, WrittenAtOnce
<1>3. queue' = q
  OBVIOUS
<1>. HIDE DEF q
<1>4. ConclusionTypes'
  BY DEF ConclusionInv, ConclusionTypes
<1>5. WrittenAtOnce'
  BY <1>2, <1>3 DEF ConclusionInv, WrittenAtOnce, Acts
<1>6. ASSUME NEW i \in DOMAIN ws, ws[i].kind = "conclude"
      PROVE  /\ concluded[ws[i].row] = 0
             /\ \A j \in DOMAIN queue : queue[j] /= ws[i]
             /\ \A j \in DOMAIN held : held[j] /= ws[i]
  <2>1. ws[i] = Conclusion(ws[i].row)
    <3>1. ws[i] \in Writes
      OBVIOUS
    <3>. QED
      BY <1>6, <3>1 DEF Writes, Conclusion
  <2>. QED
    BY <1>6, <2>1 DEF Unconcluded, Awaits
<1>7. ConcludedOnce'
  <2>1. Single(q)
    <3>1. SUFFICES ASSUME NEW i \in DOMAIN q, NEW j \in DOMAIN q, q[i].kind = "conclude", q[j] = q[i]
                   PROVE  i = j
      BY DEF Single
    <3>2. CASE i \in DOMAIN queue /\ q[i] = queue[i]
      <4>1. ~(j - Len(queue) \in DOMAIN ws /\ q[j] = ws[j - Len(queue)])
        BY <1>6, <3>1, <3>2
      <4>. QED
        BY <1>1, <3>1, <3>2, <4>1 DEF ConclusionInv, ConcludedOnce, Single
    <3>3. CASE i - Len(queue) \in DOMAIN ws /\ q[i] = ws[i - Len(queue)]
      <4>1. ~(j \in DOMAIN queue /\ q[j] = queue[j])
        BY <1>6, <3>1, <3>3
      <4>2. j - Len(queue) \in DOMAIN ws /\ q[j] = ws[j - Len(queue)]
        BY <1>1, <4>1
      <4>3. i - Len(queue) = j - Len(queue)
        BY <3>1, <3>3, <4>2 DEF Single
      <4>. QED
        BY <1>1, <4>3
    <3>. QED
      BY <1>1, <3>2, <3>3
  <2>2. \A i \in DOMAIN q : q[i].kind = "conclude" =>
           concluded[q[i].row] = 0 /\ \A j \in DOMAIN held : held[j] /= q[i]
    BY <1>1, <1>6 DEF ConclusionInv, ConcludedOnce, Missing
  <2>. QED
    BY <1>3, <2>1, <2>2 DEF ConclusionInv, ConcludedOnce, Single, Missing
<1>8. ASSUME NEW l \in LogRows
      PROVE  Unconcluded(l)' <=> Unconcluded(l) /\ \A i \in DOMAIN ws : ws[i] /= Conclusion(l)
  <2>1. (\E i \in DOMAIN q : q[i] = Conclusion(l)) <=>
           \/ \E i \in DOMAIN queue : queue[i] = Conclusion(l)
           \/ \E i \in DOMAIN ws : ws[i] = Conclusion(l)
    BY <1>1
  <2>. QED
    BY <1>3, <2>1 DEF Unconcluded, Awaits, Conclusion
<1>9. \A l \in LogRows : Untried(l)' => Untried(l)
  BY <1>1, <1>3 DEF Untried, Insert
<1>. QED
  BY <1>4, <1>5, <1>7, <1>8, <1>9

\* What RegisterActionLog asks for is joined; a conclusion only without an action.
LEMMA RegisterJoins ==
    ASSUME NEW l \in LogRows, NEW ws,
           ws = Asked(IF Acts(l) THEN <<"insert", "flag">>
                      ELSE <<"insert", "flag", "conclude", "complete">>, l)
    PROVE  /\ Joined(ws) /\ Single(ws)
           /\ \A i \in DOMAIN ws : ws[i].row = l /\ (ws[i].kind = "conclude" => ~Acts(l))
<1>. DEFINE W(k) == [kind |-> k, row |-> l]
<1>1. \A k \in {"insert", "flag", "conclude", "complete"} : W(k).kind = k /\ W(k).row = l
  OBVIOUS
<1>2. CASE Acts(l)
  <2>1. ws = <<W("insert"), W("flag")>>
    BY <1>2 DEF Asked
  <2>. HIDE DEF W
  <2>2. DOMAIN ws = 1..2 /\ ws[1] = W("insert") /\ ws[2] = W("flag")
    BY <2>1
  <2>. QED
    BY <1>1, <1>2, <2>2 DEF Joined, Single
<1>3. CASE ~Acts(l)
  <2>1. ws = <<W("insert"), W("flag"), W("conclude"), W("complete")>>
    BY <1>3 DEF Asked
  <2>2. W("complete") = Completion(l)
    BY DEF Completion
  <2>. HIDE DEF W
  <2>3. /\ DOMAIN ws = 1..4 /\ ws[1] = W("insert") /\ ws[2] = W("flag") /\ ws[3] = W("conclude")
        /\ ws[4] = W("complete")
    BY <2>1
  <2>4. Single(ws)
    BY <1>1, <2>3 DEF Single
  <2>5. Between(ws[2]) /\ Between(ws[3])
    BY <1>1, <2>3 DEF Between
  <2>6. Joined(ws)
    <3>1. SUFFICES ASSUME NEW i \in DOMAIN ws, ws[i].kind = "insert"
                   PROVE  \E k \in DOMAIN ws : /\ i < k /\ ws[k] = Completion(ws[i].row)
                                               /\ \A j \in DOMAIN ws : i < j /\ j < k => Between(ws[j])
      BY DEF Joined
    <3>2. i = 1 /\ ws[1].row = l
      BY <1>1, <2>3, <3>1
    <3>3. 4 \in DOMAIN ws /\ i < 4 /\ ws[4] = Completion(ws[i].row)
      BY <2>2, <2>3, <3>2
    <3>4. \A j \in DOMAIN ws : i < j /\ j < 4 => j = 2 \/ j = 3
      BY <2>3, <3>2
    <3>. QED
      BY <2>5, <3>3, <3>4
  <2>. QED
    BY <1>1, <1>3, <2>3, <2>4, <2>6
<1>. QED
  BY <1>2, <1>3

\* Registering an action log keeps it: the row was new.
LEMMA RegisterConcludes ==
    ASSUME ActionInv, ConclusionInv, NEW e \in Happenings, RegisterLog(e)
    PROVE  ConclusionInv'
<1>. DEFINE l == [of |-> e, try |-> faults + 1]
            ws == Asked(IF Acts(l) THEN <<"insert", "flag">>
                        ELSE <<"insert", "flag", "conclude", "complete">>, l)
<1>1. l \in LogRows /\ faults \in Nat
  BY ActionAssumption DEF ActionInv, ActionTypes, LogRows
<1>2. /\ queue' = queue \o ws /\ writer /\ e \in cache /\ At("judge")
      /\ UNCHANGED <<logs, held, rowBuffer, concluded, linked, conductor, faults, main>>
  BY DEF RegisterLog, Ask, stored, doing
<1>3. ws \in Seq(Writes) /\ 1 \in DOMAIN ws /\ ws[1] = Insert(l)
  <2>1. \/ ws = Asked(<<"insert", "flag">>, l)
        \/ ws = Asked(<<"insert", "flag", "conclude", "complete">>, l)
    OBVIOUS
  <2>. HIDE DEF ws
  <2>. QED
    BY <1>1, <2>1, RegisterAsks
<1>4. /\ Joined(ws) /\ Single(ws)
      /\ \A i \in DOMAIN ws : ws[i].row = l /\ (ws[i].kind = "conclude" => ~Acts(l))
  BY <1>1, RegisterJoins
<1>5. Unconcluded(l)
  <2>1. l.of \in cache /\ l.try = faults + 1 /\ l.try > faults
    BY <1>1, <1>2
  <2>2. Untried(l)
    BY <1>1, <2>1 DEF ActionInv, TriesAreNew
  <2>. QED
    BY <1>1, <2>1, <2>2 DEF ConclusionInv, NewIsUnconcluded
<1>. HIDE DEF ws
<1>6. /\ ConclusionTypes' /\ WrittenAtOnce' /\ ConcludedOnce'
      /\ \A k \in LogRows : Unconcluded(k)' <=>
            Unconcluded(k) /\ \A i \in DOMAIN ws : ws[i] /= Conclusion(k)
      /\ \A k \in LogRows : Untried(k)' => Untried(k)
  <2>1. \A i \in DOMAIN ws : ws[i].kind = "conclude" => Unconcluded(ws[i].row)
    BY <1>4, <1>5
  <2>. QED
    BY <1>2, <1>3, <1>4, <2>1, AskedConcludes
<1>7. ASSUME NEW k \in LogRows, k = l PROVE ~Untried(k)'
  <2>1. queue \in Seq(Writes)
    BY DEF ActionInv, ActionTypes
  <2>2. 1 + Len(queue) \in DOMAIN (queue \o ws) /\ (queue \o ws)[1 + Len(queue)] = Insert(l)
    BY <1>3, <2>1, ConcatIs
  <2>. QED
    BY <1>2, <1>7, <2>2 DEF Untried
<1>8. \A k \in LogRows : k /= l \/ Acts(l) => (Unconcluded(k)' <=> Unconcluded(k))
  BY <1>4, <1>6 DEF Conclusion
<1>. HIDE DEF l
<1>9. NewIsUnconcluded' /\ AskedWhenEarned'
  <2>1. ASSUME NEW k \in LogRows, k.try > faults, Untried(k)' PROVE Unconcluded(k)'
    <3>1. k /= l
      BY <1>7, <2>1
    <3>. QED
      BY <1>6, <1>8, <2>1, <3>1 DEF ConclusionInv, NewIsUnconcluded
  <2>2. ASSUME NEW k \in LogRows, Acts(k), ~Unconcluded(k)'
        PROVE  conductor[k] = "normal" /\ logs[k] = "completed"
    BY <1>8, <2>2 DEF ConclusionInv, AskedWhenEarned
  <2>. QED
    BY <1>2, <2>1, <2>2 DEF NewIsUnconcluded, AskedWhenEarned, Acts
<1>10. CheckListed'
  BY <1>2 DEF CheckListed, At
<1>. QED
  BY <1>6, <1>9, <1>10 DEF ConclusionInv

\* The markers and the conclusion of a completed row keep it.
LEMMA AsksConclude ==
    ASSUME ActionInv, ConclusionInv,
           PassBreaks \/ NoticeBreaks \/ JudgeDone \/ ChecksDone \/ Conclude
    PROVE  ConclusionInv'
<1>0. /\ main \in [pc : MainPlaces, todo : Seq(LogRows)] /\ linked \subseteq LogRows
      /\ conductor \in [LogRows -> {"none", "running", "normal", "other"}]
  BY DEF ActionInv, ActionTypes, ConclusionInv, ConclusionTypes
<1>1. ASSUME UNCHANGED <<logs, held, rowBuffer, concluded, linked, conductor, queue>>,
             faults' \in {faults, faults + 1}, main'.pc \in {"flush", "finish", "broken"}
      PROVE  ConclusionInv'
  <2>1. CheckListed'
    BY <1>1 DEF CheckListed
  <2>. QED
    BY <1>0, <1>1, <2>1, WorkConcludes
<1>2. ASSUME NEW k \in {"flush", "finish"}, Ask(<<Plain(k)>>),
             main'.pc \in {"flush", "finish", "broken"},
             UNCHANGED <<logs, held, rowBuffer, concluded, linked, conductor>>,
             faults' \in {faults, faults + 1}
      PROVE  ConclusionInv'
  <2>. DEFINE ws == <<Plain(k)>>
  <2>1. ws \in Seq(Writes) /\ \A i \in DOMAIN ws : ws[i].kind = k
    BY MarkersAreWrites
  <2>2. queue' = IF writer THEN queue \o ws ELSE queue
    BY <1>2 DEF Ask
  <2>. HIDE DEF ws
  <2>3. CASE writer
    <3>1. /\ Joined(ws) /\ Single(ws)
          /\ \A i \in DOMAIN ws : ws[i].kind = "conclude" => Unconcluded(ws[i].row)
      BY <2>1 DEF Joined, Single
    <3>2. /\ ConclusionTypes' /\ WrittenAtOnce' /\ ConcludedOnce'
          /\ \A l \in LogRows : Unconcluded(l)' <=>
                Unconcluded(l) /\ \A i \in DOMAIN ws : ws[i] /= Conclusion(l)
          /\ \A l \in LogRows : Untried(l)' => Untried(l)
      BY <1>2, <2>1, <2>2, <2>3, <3>1, AskedConcludes
    <3>3. \A l \in LogRows : Unconcluded(l)' <=> Unconcluded(l)
      BY <2>1, <3>2 DEF Conclusion
    <3>4. \A l \in LogRows : l.try > faults' => l.try > faults
      BY <1>2, ActionAssumption DEF ActionInv, ActionTypes, LogRows
    <3>5. NewIsUnconcluded' /\ AskedWhenEarned'
      BY <1>2, <3>2, <3>3, <3>4 DEF ConclusionInv, NewIsUnconcluded, AskedWhenEarned, Acts
    <3>6. CheckListed'
      BY <1>2 DEF CheckListed
    <3>. QED
      BY <3>2, <3>5, <3>6 DEF ConclusionInv
  <2>4. CASE ~writer
    BY <1>1, <1>2, <2>2, <2>4
  <2>. QED
    BY <2>3, <2>4
<1>3. CASE Conclude
  <2>. DEFINE t == main.todo
              u == Tail(t)
              h == t[1]
              ws == Asked(<<"conclude">>, h)
  <2>1. At("conclude") /\ t /= <<>> /\ t \in Seq(LogRows)
    BY <1>0, <1>3 DEF Conclude, ActionInv, WorkListed, At
  <2>2. /\ Head(t) = h /\ h \in LogRows /\ 1 \in DOMAIN t /\ u \in Seq(LogRows)
        /\ \A i \in DOMAIN u : i \in Nat \ {0} /\ i + 1 \in DOMAIN t /\ u[i] = t[i + 1]
    BY <2>1, TailIs
  <2>3. UNCHANGED <<logs, held, rowBuffer, concluded, linked, conductor, faults>>
    BY <1>3 DEF Conclude, stored, doing
  <2>4. CASE ~writer
    <3>1. queue' = queue /\ main'.pc = "broken"
      BY <1>3, <2>4 DEF Conclude, Goes
    <3>. QED
      BY <1>1, <2>3, <3>1
  <2>5. CASE writer
    <3>1. /\ \A i, j \in DOMAIN t : t[i] = t[j] => i = j
          /\ \A i \in DOMAIN t : i /= 1 => logs[t[i]] = "executing"
          /\ logs[h] = "completed" /\ conductor[h] = "normal" /\ Unconcluded(h)
      BY <2>1, <2>2 DEF ConclusionInv, CheckListed, At
    <3>2. queue' = queue \o ws /\ main' = [pc |-> "check", todo |-> u]
      BY <1>3, <2>2, <2>5 DEF Conclude, Ask, Goes
    <3>3. /\ ws \in Seq(Writes) /\ DOMAIN ws = {1}
          /\ \A i \in DOMAIN ws : ws[i] = Conclusion(h)
      <4>1. /\ ws \in Seq(Writes) /\ \A i \in DOMAIN ws : ws[i] = Conclusion(h)
        BY <2>2, MarkersAreWrites DEF Conclusion
      <4>2. DOMAIN ws = {1}
        BY DEF Asked
      <4>. QED
        BY <4>1, <4>2
    <3>. HIDE DEF ws
    <3>4. /\ Joined(ws) /\ Single(ws)
          /\ \A i \in DOMAIN ws : ws[i].kind = "conclude" => Unconcluded(ws[i].row)
      BY <3>1, <3>3 DEF Joined, Single, Conclusion
    <3>5. /\ ConclusionTypes' /\ WrittenAtOnce' /\ ConcludedOnce'
          /\ \A l \in LogRows : Unconcluded(l)' <=>
                Unconcluded(l) /\ \A i \in DOMAIN ws : ws[i] /= Conclusion(l)
          /\ \A l \in LogRows : Untried(l)' => Untried(l)
      BY <2>3, <3>2, <3>3, <3>4, AskedConcludes
    <3>6. \A l \in LogRows : l /= h => (Unconcluded(l)' <=> Unconcluded(l))
      BY <3>3, <3>5 DEF Conclusion
    <3>7. ASSUME NEW l \in LogRows, l.try > faults, Untried(l)' PROVE Unconcluded(l)'
      <4>1. Untried(l)
        BY <3>5, <3>7
      <4>2. l /= h
        BY <3>1, <4>1 DEF Untried
      <4>. QED
        BY <3>6, <3>7, <4>1, <4>2 DEF ConclusionInv, NewIsUnconcluded
    <3>8. ASSUME NEW l \in LogRows, Acts(l), ~Unconcluded(l)'
          PROVE  conductor[l] = "normal" /\ logs[l] = "completed"
      BY <3>1, <3>6, <3>8 DEF ConclusionInv, AskedWhenEarned
    <3>9. NewIsUnconcluded' /\ AskedWhenEarned'
      BY <2>3, <3>7, <3>8 DEF NewIsUnconcluded, AskedWhenEarned, Acts
    <3>10. \A i \in DOMAIN u : logs[u[i]] = "executing"
      <4>1. ASSUME NEW i \in DOMAIN u PROVE logs[u[i]] = "executing"
        <5>1. i + 1 /= 1 /\ i + 1 \in DOMAIN t /\ u[i] = t[i + 1]
          BY <2>2
        <5>. QED
          BY <3>1, <5>1
      <4>. QED
        BY <4>1
    <3>11. \A i, j \in DOMAIN u : u[i] = u[j] => i = j
      <4>1. ASSUME NEW i \in DOMAIN u, NEW j \in DOMAIN u, u[i] = u[j] PROVE i = j
        <5>1. i + 1 = j + 1 /\ i \in Nat /\ j \in Nat
          BY <2>2, <3>1, <4>1
        <5>. QED
          BY <5>1
      <4>. QED
        BY <4>1
    <3>. HIDE DEF u
    <3>12. CheckListed'
      BY <2>3, <3>2, <3>10, <3>11 DEF CheckListed, At
    <3>. QED
      BY <3>5, <3>9, <3>12 DEF ConclusionInv
  <2>. QED
    BY <2>4, <2>5
<1>4. CASE PassBreaks \/ NoticeBreaks \/ JudgeDone \/ ChecksDone
  <2>1. PICK k \in {"flush", "finish"} :
           /\ Ask(<<Plain(k)>>) /\ main'.pc \in {"flush", "finish", "broken"}
           /\ UNCHANGED <<logs, held, rowBuffer, concluded, linked, conductor>>
           /\ faults' \in {faults, faults + 1}
    BY <1>4 DEF PassBreaks, NoticeBreaks, JudgeDone, ChecksDone, stored, doing, Goes
  <2>. QED
    BY <1>2, <2>1
<1>. QED
  BY <1>3, <1>4

\* What a tail keeps of these properties of a sequence.
LEMMA TailJoins ==
    ASSUME NEW s \in Seq(Writes), s /= <<>>
    PROVE  /\ Joined(s) => Joined(Tail(s))
           /\ Single(s) => Single(Tail(s)) /\ \A i \in DOMAIN Tail(s) : s[1].kind = "conclude" => Tail(s)[i] /= s[1]
           /\ Joined(s) /\ s[1].kind = "insert" /\ ~Acts(s[1].row) =>
                 ComesFirst(Completion(s[1].row), Tail(s))
           /\ \A w : ComesFirst(w, s) => s[1] = w \/ (Between(s[1]) /\ ComesFirst(w, Tail(s)))
<1>. DEFINE u == Tail(s)
<1>1. /\ 1 \in DOMAIN s
      /\ \A i \in DOMAIN u : i \in Nat \ {0} /\ i + 1 \in DOMAIN s /\ u[i] = s[i + 1]
      /\ \A i \in DOMAIN s : i \in Nat \ {0} /\ (i = 1 \/ (i - 1 \in DOMAIN u /\ u[i - 1] = s[i]))
  BY TailIs
<1>. HIDE DEF u
<1>2. ASSUME Joined(s), NEW i \in DOMAIN s, s[i].kind = "insert", ~Acts(s[i].row)
      PROVE  \E k \in DOMAIN u : /\ i - 1 < k /\ u[k] = Completion(s[i].row)
                                 /\ \A j \in DOMAIN u : i - 1 < j /\ j < k => Between(u[j])
  <2>1. PICK k \in DOMAIN s : /\ i < k /\ s[k] = Completion(s[i].row)
                              /\ \A j \in DOMAIN s : i < j /\ j < k => Between(s[j])
    BY <1>2 DEF Joined
  <2>2. k - 1 \in DOMAIN u /\ u[k - 1] = Completion(s[i].row) /\ i - 1 < k - 1
    BY <1>1, <2>1
  <2>3. ASSUME NEW j \in DOMAIN u, i - 1 < j, j < k - 1 PROVE Between(u[j])
    <3>1. j + 1 \in DOMAIN s /\ u[j] = s[j + 1] /\ i \in Nat /\ j \in Nat /\ k \in Nat
      BY <1>1
    <3>2. i < j + 1 /\ j + 1 < k
      BY <2>3, <3>1
    <3>. QED
      BY <2>1, <3>1, <3>2
  <2>. QED
    BY <2>2, <2>3
<1>3. Joined(s) => Joined(u)
  <2>1. ASSUME Joined(s), NEW i \in DOMAIN u, u[i].kind = "insert", ~Acts(u[i].row)
        PROVE  \E k \in DOMAIN u : /\ i < k /\ u[k] = Completion(u[i].row)
                                   /\ \A j \in DOMAIN u : i < j /\ j < k => Between(u[j])
    <3>1. i + 1 \in DOMAIN s /\ u[i] = s[i + 1] /\ (i + 1) - 1 = i
      BY <1>1
    <3>. QED
      BY <1>2, <2>1, <3>1
  <2>. QED
    BY <2>1 DEF Joined
<1>4. Joined(s) /\ s[1].kind = "insert" /\ ~Acts(s[1].row) => ComesFirst(Completion(s[1].row), u)
  <2>1. SUFFICES ASSUME Joined(s), s[1].kind = "insert", ~Acts(s[1].row)
                 PROVE  ComesFirst(Completion(s[1].row), u)
    OBVIOUS
  <2>2. PICK k \in DOMAIN u : /\ u[k] = Completion(s[1].row)
                              /\ \A j \in DOMAIN u : 1 - 1 < j /\ j < k => Between(u[j])
    BY <1>1, <1>2, <2>1
  <2>3. \A j \in DOMAIN u : 1 - 1 < j
    BY <1>1
  <2>. QED
    BY <2>2, <2>3 DEF ComesFirst
<1>5. Single(s) => Single(u) /\ \A i \in DOMAIN u : s[1].kind = "conclude" => u[i] /= s[1]
  <2>1. ASSUME Single(s), NEW i \in DOMAIN u, NEW j \in DOMAIN u, u[i].kind = "conclude", u[j] = u[i]
        PROVE  i = j
    <3>1. i + 1 = j + 1 /\ i \in Nat /\ j \in Nat
      BY <1>1, <2>1 DEF Single
    <3>. QED
      BY <3>1
  <2>2. ASSUME Single(s), NEW i \in DOMAIN u, s[1].kind = "conclude", u[i] = s[1]
        PROVE  FALSE
    <3>1. i + 1 = 1 /\ i \in Nat \ {0}
      BY <1>1, <2>2 DEF Single
    <3>. QED
      BY <3>1
  <2>. QED
    BY <2>1, <2>2 DEF Single
<1>6. ASSUME NEW w, ComesFirst(w, s) PROVE s[1] = w \/ (Between(s[1]) /\ ComesFirst(w, u))
  <2>1. PICK k \in DOMAIN s : s[k] = w /\ \A j \in DOMAIN s : j < k => Between(s[j])
    BY <1>6 DEF ComesFirst
  <2>2. CASE k /= 1
    <3>1. k - 1 \in DOMAIN u /\ u[k - 1] = w /\ 1 < k
      BY <1>1, <2>1, <2>2
    <3>2. ASSUME NEW j \in DOMAIN u, j < k - 1 PROVE Between(u[j])
      <4>1. j + 1 \in DOMAIN s /\ j + 1 < k /\ u[j] = s[j + 1]
        BY <1>1, <3>2
      <4>. QED
        BY <2>1, <4>1
    <3>. QED
      BY <1>1, <2>1, <3>1, <3>2 DEF ComesFirst
  <2>3. CASE k = 1
    BY <2>1, <2>3
  <2>. QED
    BY <2>2, <2>3
<1>. QED
  BY <1>3, <1>4, <1>5, <1>6 DEF u

\* What the writer holds back or writes of flags and conclusions: no conclusion
\* that was asked for gets lost, none comes twice.
LEMMA EventsConclude ==
    ASSUME ActionInv, ConclusionInv, TakeEventWrite \/ FlushEvents
    PROVE  /\ ConclusionTypes' /\ WrittenAtOnce' /\ ConcludedOnce'
           /\ \A l \in LogRows : Unconcluded(l)' <=> Unconcluded(l)
<1>. DEFINE x == queue[1]
<1>0. /\ queue \in Seq(Writes) /\ held \in Seq(Writes)
      /\ concluded \in [LogRows -> {0, 1}] /\ Single(held) /\ Missing(held)
      /\ Len(held) <= BufferSize /\ Len(held) \in Nat /\ BufferSize \in Nat \ {0}
  BY ActionAssumption DEF ActionInv, ActionTypes, ConclusionInv, ConclusionTypes, ConcludedOnce
<1>1. /\ Conclusions(held) \in [LogRows -> {0, 1}]
      /\ \A l \in LogRows : Conclusions(held)[l] = 0 <=>
           concluded[l] = 0 /\ \A i \in DOMAIN held : held[i] /= Conclusion(l)
  BY <1>0, ConclusionsIs
<1>2. UNCHANGED <<logs, rowBuffer, linked, conductor>> /\ queue /= <<>>
  BY DEF TakeEventWrite, FlushEvents, Wanted, doing
<1>3. /\ x \in Writes /\ Head(queue) = x /\ 1 \in DOMAIN queue
      /\ \A i \in DOMAIN Tail(queue) : i + 1 \in DOMAIN queue /\ Tail(queue)[i] = queue[i + 1]
      /\ \A i \in DOMAIN queue : i = 1 \/ (i - 1 \in DOMAIN Tail(queue) /\ Tail(queue)[i - 1] = queue[i])
  BY <1>0, <1>2, TailIs
<1>4. /\ Joined(Tail(queue)) /\ Single(Tail(queue))
      /\ \A i \in DOMAIN Tail(queue) : x.kind = "conclude" => Tail(queue)[i] /= x
      /\ \A w : ComesFirst(w, queue) => x = w \/ ComesFirst(w, Tail(queue))
  BY <1>0, <1>2, TailJoins DEF ConclusionInv, WrittenAtOnce, ConcludedOnce
<1>5. \A i \in DOMAIN queue : queue[i].kind = "conclude" =>
         /\ queue[i].row \in LogRows /\ queue[i] = Conclusion(queue[i].row)
         /\ concluded[queue[i].row] = 0 /\ \A j \in DOMAIN held : held[j] /= queue[i]
  <2>1. \A i \in DOMAIN queue : queue[i] \in Writes
    BY <1>0
  <2>. QED
    BY <2>1 DEF Writes, Conclusion, ConclusionInv, ConcludedOnce, Missing
<1>. HIDE DEF x
<1>6. CASE FlushEvents
  <2>1. concluded' = Conclusions(held) /\ held' = <<>> /\ queue' = queue
    BY <1>6 DEF FlushEvents, WriteEvents
  <2>2. ConclusionTypes'
    BY <1>0, <1>1, <1>2, <2>1 DEF ConclusionInv, ConclusionTypes
  <2>3. WrittenAtOnce'
    BY <1>2, <2>1 DEF ConclusionInv, WrittenAtOnce, Acts
  <2>4. \A i \in DOMAIN queue : queue[i].kind = "conclude" => concluded'[queue[i].row] = 0
    BY <1>1, <1>5, <2>1
  <2>5. ConcludedOnce'
    BY <2>1, <2>4 DEF ConclusionInv, ConcludedOnce, Missing, Single
  <2>6. \A l \in LogRows : Unconcluded(l)' <=> Unconcluded(l)
    BY <1>1, <2>1 DEF Unconcluded, Awaits, Conclusion
  <2>. QED
    BY <2>2, <2>3, <2>5, <2>6
<1>7. CASE TakeEventWrite
  <2>1. /\ queue' = Tail(queue) /\ Between(x)
        /\ \/ Full /\ concluded' = Conclusions(held) /\ held' = <<x>>
           \/ ~Full /\ concluded' = concluded /\ held' = Append(held, x)
    BY <1>3, <1>7 DEF TakeEventWrite, WriteEvents, Between
  <2>2. WrittenAtOnce'
    <3>1. \A l : x /= Completion(l)
      BY <2>1 DEF Between, Completion
    <3>. QED
      BY <1>2, <1>4, <2>1, <3>1 DEF ConclusionInv, WrittenAtOnce, Acts
  \* What is held is what was, with the head of the queue; or that alone.
  <2>3. /\ held' \in Seq(Writes) /\ Len(held') <= BufferSize
        /\ \E i \in DOMAIN held' : held'[i] = x
        /\ concluded' \in [LogRows -> {0, 1}] /\ Single(held')
        /\ \A i \in DOMAIN held' : held'[i] = x \/ \E j \in DOMAIN held : held'[i] = held[j]
        /\ \/ concluded' = concluded /\ \A i \in DOMAIN held : i \in DOMAIN held' /\ held'[i] = held[i]
           \/ concluded' = Conclusions(held) /\ \A i \in DOMAIN held' : held'[i] = x
    <3>1. CASE Full /\ concluded' = Conclusions(held) /\ held' = <<x>>
      <4>1. /\ held' \in Seq(Writes) /\ Len(held') = 1 /\ 1 \in DOMAIN held' /\ held'[1] = x
            /\ \A i \in DOMAIN held' : i = 1
        BY <1>3, <3>1
      <4>. QED
        BY <1>0, <1>1, <3>1, <4>1 DEF Single
    <3>2. CASE ~Full /\ concluded' = concluded /\ held' = Append(held, x)
      <4>. DEFINE g == Append(held, x)
      <4>1. /\ g \in Seq(Writes) /\ Len(g) = Len(held) + 1
            /\ \A i \in DOMAIN g : \/ i \in DOMAIN held /\ g[i] = held[i]
                                   \/ i = Len(held) + 1 /\ g[i] = x
            /\ \A i \in DOMAIN held : i \in DOMAIN g /\ g[i] = held[i]
            /\ Len(held) + 1 \in DOMAIN g /\ g[Len(held) + 1] = x
        BY <1>0, <1>3, AppendIs
      <4>2. held' = g
        BY <3>2
      <4>. HIDE DEF g
      <4>3. Len(g) <= BufferSize
        BY <1>0, <3>2, <4>1 DEF Full
      <4>4. x.kind = "conclude" => \A j \in DOMAIN held : held[j] /= x
        BY <1>3, <1>5 DEF x
      <4>5. Single(g)
        BY <1>0, <4>1, <4>4 DEF Single
      <4>6. \A i \in DOMAIN g : g[i] = x \/ \E j \in DOMAIN held : g[i] = held[j]
        BY <4>1
      <4>. QED
        BY <1>0, <3>2, <4>1, <4>2, <4>3, <4>5, <4>6
    <3>. QED
      BY <2>1, <3>1, <3>2
  <2>4. ConclusionTypes'
    BY <1>2, <2>3 DEF ConclusionInv, ConclusionTypes
  <2>5. x.kind = "conclude" => x.row \in LogRows /\ x = Conclusion(x.row)
           /\ concluded[x.row] = 0 /\ \A j \in DOMAIN held : held[j] /= x
    BY <1>3, <1>5 DEF x
  <2>6. \A i \in DOMAIN queue : queue[i].kind = "conclude" => concluded'[queue[i].row] = 0
    BY <1>1, <1>5, <2>3
  <2>7. ConcludedOnce'
    <3>1. Missing(queue)' /\ Single(queue)'
      BY <1>3, <1>4, <2>1, <2>6 DEF Missing, Single
    <3>2. Missing(held)' /\ Single(held)'
      <4>1. x.kind = "conclude" => concluded'[x.row] = 0
        BY <1>3, <2>6 DEF x
      <4>2. ASSUME NEW i \in DOMAIN held', held'[i].kind = "conclude" PROVE concluded'[held'[i].row] = 0
        <5>1. CASE held'[i] = x
          BY <4>1, <4>2, <5>1
        <5>2. CASE held'[i] /= x
          <6>1. concluded' = concluded /\ \E j \in DOMAIN held : held'[i] = held[j]
            BY <2>3, <5>2
          <6>. QED
            BY <1>0, <4>2, <6>1 DEF Missing
        <5>. QED
          BY <5>1, <5>2
      <4>. QED
        BY <2>3, <4>2 DEF Missing, Single
    <3>3. \A i \in DOMAIN queue', j \in DOMAIN held' : queue'[i].kind = "conclude" => held'[j] /= queue'[i]
      <4>1. \A i \in DOMAIN queue' : queue'[i].kind = "conclude" =>
               queue'[i] /= x /\ \A j \in DOMAIN held : held[j] /= queue'[i]
        BY <1>3, <1>4, <1>5, <2>1
      <4>. QED
        BY <2>3, <4>1
    <3>. QED
      BY <3>1, <3>2, <3>3 DEF ConcludedOnce
  <2>8. ASSUME NEW l \in LogRows PROVE Unconcluded(l)' <=> Unconcluded(l)
    <3>. DEFINE c == Conclusion(l)
    <3>1. (\E i \in DOMAIN queue : queue[i] = c) <=> x = c \/ \E i \in DOMAIN queue' : queue'[i] = c
      BY <1>3, <2>1 DEF x
    <3>2. (\E i \in DOMAIN held' : held'[i] = c) \/ concluded'[l] /= 0 <=>
             x = c \/ (\E i \in DOMAIN held : held[i] = c) \/ concluded[l] /= 0
      BY <1>1, <2>3
    <3>3. (concluded'[l] = 0 /\ ~(\E i \in DOMAIN queue' : queue'[i] = c)
             /\ ~(\E i \in DOMAIN held' : held'[i] = c)) <=>
          (concluded[l] = 0 /\ ~(\E i \in DOMAIN queue : queue[i] = c)
             /\ ~(\E i \in DOMAIN held : held[i] = c))
      BY <3>1, <3>2
    <3>. QED
      BY <3>3 DEF Unconcluded, Awaits, Conclusion
  <2>. QED
    BY <2>2, <2>4, <2>7, <2>8
<1>. QED
  BY <1>6, <1>7

\* The completion of a row is written, held back or in the queue; a flag is
\* written or comes.
CompletionComes(l) == \/ \E i \in DOMAIN queue : queue[i] = Completion(l)
                      \/ \E i \in DOMAIN rowBuffer : rowBuffer[i] = Completion(l)
Done(l) == logs[l] = "completed" \/ CompletionComes(l)
Flags(e) == e \in evaluated \/ FlagComes(e)

\* Handling the rows the writer loses none and makes none up.
LEMMA RowsMove ==
    ASSUME ActionInv, TakeRowWrite \/ FlushRow \/ Answer
    PROVE  /\ \A l \in LogRows : Untried(l)' => Untried(l)
           /\ \A l \in LogRows : Done(l)' <=> Done(l)
           /\ \A l \in LogRows : Unconcluded(l)' <=> Unconcluded(l)
           /\ \A e : Flags(e)' => Flags(e)
<1>. DEFINE x == queue[1]
<1>1. /\ queue \in Seq(Writes) /\ queue /= <<>> /\ rowBuffer \in Seq(Writes)
      /\ UNCHANGED <<evaluated, concluded, held>> /\ queue' \in {queue, Tail(queue)}
  BY DEF TakeRowWrite, FlushRow, Answer, Wanted, ActionInv, ActionTypes, stored
<1>2. /\ x \in Writes /\ Head(queue) = x
      /\ \A w : (\E i \in DOMAIN queue : queue[i] = w) <=>
                   (x = w \/ \E i \in DOMAIN Tail(queue) : Tail(queue)[i] = w)
  <2>1. /\ x \in Writes /\ Head(queue) = x /\ 1 \in DOMAIN queue
        /\ \A i \in DOMAIN Tail(queue) : i + 1 \in DOMAIN queue /\ Tail(queue)[i] = queue[i + 1]
        /\ \A i \in DOMAIN queue :
              i = 1 \/ (i - 1 \in DOMAIN Tail(queue) /\ Tail(queue)[i - 1] = queue[i])
    BY <1>1, TailIs
  <2>. QED
    BY <2>1
<1>. HIDE DEF x
<1>3. x.kind \in {"insert", "complete", "flush", "finish"}
  BY <1>2 DEF TakeRowWrite, FlushRow, Answer, Wanted
<1>4. \A l \in LogRows : Unconcluded(l)' <=> Unconcluded(l)
  <2>1. \A l \in LogRows : x /= Conclusion(l)
    BY <1>3 DEF Conclusion
  <2>2. \A l \in LogRows : (\E i \in DOMAIN queue' : queue'[i] = Conclusion(l)) <=>
                              \E i \in DOMAIN queue : queue[i] = Conclusion(l)
    BY <1>1, <1>2, <2>1
  <2>. QED
    BY <1>1, <2>2 DEF Unconcluded, Awaits, Conclusion
<1>5. \A e : Flags(e)' => Flags(e)
  <2>1. \A i \in DOMAIN queue' : \E j \in DOMAIN queue : queue[j] = queue'[i]
    BY <1>1, <1>2
  <2>. QED
    BY <1>1, <2>1 DEF Flags, FlagComes
\* What the rows held back become when they are written.
<1>6. ASSUME logs' = Rows(rowBuffer), NEW l \in LogRows
      PROVE  /\ logs'[l] = "none" => logs[l] = "none" /\ \A i \in DOMAIN rowBuffer : rowBuffer[i] /= Insert(l)
             /\ logs'[l] = "completed" <=>
                   logs[l] = "completed" \/ \E i \in DOMAIN rowBuffer : rowBuffer[i] = Completion(l)
  <2>1. logs'[l] = IF \E i \in DOMAIN rowBuffer : rowBuffer[i] = Completion(l) THEN "completed"
                   ELSE IF \E i \in DOMAIN rowBuffer : rowBuffer[i] = Insert(l) THEN "matched"
                   ELSE logs[l]
    BY <1>6 DEF Rows, Completion, Insert
  <2>2. (\E i \in DOMAIN rowBuffer : rowBuffer[i] = Insert(l)) => logs[l] = "none"
    BY DEF ActionInv, InsertsApart, Insert
  <2>. QED
    BY <2>1, <2>2
<1>7. CASE Answer \/ FlushRow
  <2>1. /\ rowBuffer' = <<>> /\ x.kind \in {"flush", "finish"}
        /\ logs' = Rows(rowBuffer) \/ (logs' = logs /\ rowBuffer = <<>>)
    BY <1>2, <1>7 DEF Answer, FlushRow, Wanted, WriteRow, stored
  <2>2. \A l \in LogRows : x /= Insert(l) /\ x /= Completion(l)
    BY <2>1 DEF Insert, Completion
  <2>3. ASSUME NEW l \in LogRows
        PROVE  /\ (\E i \in DOMAIN queue' : queue'[i] = Insert(l)) <=> \E i \in DOMAIN queue : queue[i] = Insert(l)
               /\ (\E i \in DOMAIN queue' : queue'[i] = Completion(l)) <=>
                     \E i \in DOMAIN queue : queue[i] = Completion(l)
    BY <1>1, <1>2, <2>2
  <2>4. ASSUME NEW l \in LogRows
        PROVE  /\ logs'[l] = "none" => logs[l] = "none" /\ \A i \in DOMAIN rowBuffer : rowBuffer[i] /= Insert(l)
               /\ logs'[l] = "completed" <=>
                     logs[l] = "completed" \/ \E i \in DOMAIN rowBuffer : rowBuffer[i] = Completion(l)
    BY <1>6, <2>1
  <2>5. \A l \in LogRows : Untried(l)' => Untried(l)
    BY <2>3, <2>4 DEF Untried, Insert
  <2>6. \A l \in LogRows : Done(l)' <=> Done(l)
    BY <2>1, <2>3, <2>4 DEF Done, CompletionComes, Completion
  <2>. QED
    BY <1>4, <1>5, <2>5, <2>6
<1>8. CASE TakeRowWrite
  <2>1. /\ queue' = Tail(queue)
        /\ \/ x.kind = "complete" /\ logs' = logs /\ rowBuffer' = Append(rowBuffer, x)
           \/ logs' = Rows(rowBuffer) /\ rowBuffer' = <<x>>
    BY <1>2, <1>8 DEF TakeRowWrite, WriteRow
  <2>2. ASSUME NEW w
        PROVE  /\ (\E i \in DOMAIN Append(rowBuffer, x) : Append(rowBuffer, x)[i] = w) <=>
                     (x = w \/ \E i \in DOMAIN rowBuffer : rowBuffer[i] = w)
               /\ (\E i \in DOMAIN <<x>> : <<x>>[i] = w) <=> x = w
    <3>. DEFINE b == Append(rowBuffer, x)
    <3>1. /\ Len(rowBuffer) + 1 \in DOMAIN b /\ b[Len(rowBuffer) + 1] = x
          /\ \A i \in DOMAIN b : \/ i \in DOMAIN rowBuffer /\ b[i] = rowBuffer[i]
                                 \/ i = Len(rowBuffer) + 1 /\ b[i] = x
          /\ \A i \in DOMAIN rowBuffer : i \in DOMAIN b /\ b[i] = rowBuffer[i]
      BY <1>1, <1>2, AppendIs
    <3>. HIDE DEF b
    <3>2. (\E i \in DOMAIN b : b[i] = w) <=> (x = w \/ \E i \in DOMAIN rowBuffer : rowBuffer[i] = w)
      BY <3>1
    <3>3. DOMAIN <<x>> = {1} /\ <<x>>[1] = x
      OBVIOUS
    <3>. QED
      BY <3>2, <3>3 DEF b
  <2>3. ASSUME NEW l \in LogRows
        PROVE  /\ logs'[l] = "none" /\ ~(\E i \in DOMAIN rowBuffer' : rowBuffer'[i] = Insert(l)) =>
                     /\ logs[l] = "none" /\ x /= Insert(l)
                     /\ ~(\E i \in DOMAIN rowBuffer : rowBuffer[i] = Insert(l))
               /\ (logs'[l] = "completed" \/ \E i \in DOMAIN rowBuffer' : rowBuffer'[i] = Completion(l)) <=>
                     \/ logs[l] = "completed" \/ x = Completion(l)
                     \/ \E i \in DOMAIN rowBuffer : rowBuffer[i] = Completion(l)
    <3>1. CASE x.kind = "complete" /\ logs' = logs /\ rowBuffer' = Append(rowBuffer, x)
      BY <2>2, <3>1
    <3>2. CASE logs' = Rows(rowBuffer) /\ rowBuffer' = <<x>>
      BY <1>6, <2>2, <3>2
    <3>. QED
      BY <2>1, <3>1, <3>2
  <2>4. \A l \in LogRows : Untried(l)' => Untried(l)
    BY <1>2, <2>1, <2>3 DEF Untried, Insert
  <2>5. \A l \in LogRows : Done(l)' <=> Done(l)
    BY <1>2, <2>1, <2>3 DEF Done, CompletionComes, Completion
  <2>. QED
    BY <1>4, <1>5, <2>4, <2>5
<1>. QED
  BY <1>7, <1>8

\* Handling the events it loses no flag and makes none up, and leaves the rows.
LEMMA EventsMove ==
    ASSUME ActionInv, TakeEventWrite \/ FlushEvents
    PROVE  /\ \A l \in LogRows : Untried(l)' => Untried(l)
           /\ \A l \in LogRows : Done(l)' <=> Done(l)
           /\ \A e : Flags(e)' => Flags(e)
<1>. DEFINE x == queue[1]
<1>1. /\ queue \in Seq(Writes) /\ queue /= <<>> /\ held \in Seq(Writes)
      /\ UNCHANGED <<logs, rowBuffer>>
      /\ \/ queue' = queue /\ evaluated' = Flagged(held) /\ held' = <<>>
         \/ /\ queue' = Tail(queue) /\ Head(queue).kind \in {"flag", "conclude"}
            /\ \/ evaluated' = Flagged(held) /\ held' = <<Head(queue)>>
               \/ evaluated' = evaluated /\ held' = Append(held, Head(queue))
  BY DEF TakeEventWrite, FlushEvents, Wanted, WriteEvents, ActionInv, ActionTypes
<1>2. /\ x \in Writes /\ Head(queue) = x
      /\ \A w : (\E i \in DOMAIN queue : queue[i] = w) <=>
                   (x = w \/ \E i \in DOMAIN Tail(queue) : Tail(queue)[i] = w)
  <2>1. /\ x \in Writes /\ Head(queue) = x /\ 1 \in DOMAIN queue
        /\ \A i \in DOMAIN Tail(queue) : i + 1 \in DOMAIN queue /\ Tail(queue)[i] = queue[i + 1]
        /\ \A i \in DOMAIN queue :
              i = 1 \/ (i - 1 \in DOMAIN Tail(queue) /\ Tail(queue)[i - 1] = queue[i])
    BY <1>1, TailIs
  <2>. QED
    BY <2>1
<1>. HIDE DEF x
<1>3. ASSUME NEW w, w.kind \in {"insert", "complete"}
      PROVE  (\E i \in DOMAIN queue' : queue'[i] = w) <=> \E i \in DOMAIN queue : queue[i] = w
  BY <1>1, <1>2, <1>3
<1>4. \A l \in LogRows : (Untried(l)' => Untried(l)) /\ (Done(l)' <=> Done(l))
  <2>1. \A l \in LogRows : Insert(l).kind = "insert" /\ Completion(l).kind = "complete"
    BY DEF Insert, Completion
  <2>. QED
    BY <1>1, <1>3, <2>1 DEF Untried, Done, CompletionComes, Insert, Completion
<1>5. \A e : e \in Flagged(held) => Flags(e)
  BY DEF Flagged, Flags, FlagComes
<1>6. \A i \in DOMAIN queue' : \E j \in DOMAIN queue : queue[j] = queue'[i]
  BY <1>1, <1>2
<1>7. \A i \in DOMAIN held' : \/ \E j \in DOMAIN queue : queue[j] = held'[i]
                              \/ \E j \in DOMAIN held : held[j] = held'[i]
  <2>1. CASE held' = <<>>
    BY <2>1
  <2>2. CASE held' = <<x>>
    <3>1. \A i \in DOMAIN held' : held'[i] = x
      BY <2>2
    <3>. QED
      BY <1>2, <3>1
  <2>3. CASE held' = Append(held, x)
    <3>. DEFINE h == Append(held, x)
    <3>1. \A i \in DOMAIN h : \/ i \in DOMAIN held /\ h[i] = held[i]
                              \/ i = Len(held) + 1 /\ h[i] = x
      BY <1>1, <1>2, AppendIs
    <3>. HIDE DEF h
    <3>2. held' = h
      BY <2>3 DEF h
    <3>. QED
      BY <1>2, <3>1, <3>2
  <2>. QED
    BY <1>1, <1>2, <2>1, <2>2, <2>3
<1>8. \A e : Flags(e)' => Flags(e)
  <2>1. evaluated' \in {evaluated, Flagged(held)}
    BY <1>1
  <2>. QED
    BY <1>5, <1>6, <1>7, <2>1 DEF Flags, FlagComes
<1>. QED
  BY <1>4, <1>8

\* The writes to one row are made together: a row without an action is completed
\* by the write that inserts it.
LEMMA RowsComplete ==
    ASSUME ActionInv, ConclusionInv, logs' = Rows(rowBuffer),
           \A i \in DOMAIN rowBuffer : rowBuffer[i].kind = "insert" /\ ~Acts(rowBuffer[i].row) =>
              \E k \in DOMAIN rowBuffer : rowBuffer[k] = Completion(rowBuffer[i].row)
    PROVE  /\ \A l \in LogRows : ~Acts(l) => logs'[l] \in {"none", "completed"}
           /\ \A l \in LogRows : logs[l] = "completed" => logs'[l] = "completed"
<1>1. \A l \in LogRows : Rows(rowBuffer)[l] =
         IF \E i \in DOMAIN rowBuffer : rowBuffer[i] = Completion(l) THEN "completed"
         ELSE IF \E i \in DOMAIN rowBuffer : rowBuffer[i] = Insert(l) THEN "matched"
         ELSE logs[l]
  BY DEF Rows, Completion, Insert
<1>2. \A l \in LogRows : Insert(l).kind = "insert" /\ Insert(l).row = l
  BY DEF Insert
<1>3. \A l \in LogRows : ~Acts(l) => logs[l] \in {"none", "completed"}
  BY DEF ConclusionInv, WrittenAtOnce
<1>4. \A i \in DOMAIN rowBuffer : rowBuffer[i].kind = "insert" => logs[rowBuffer[i].row] = "none"
  BY DEF ActionInv, InsertsApart
<1>. QED
  BY <1>1, <1>2, <1>3, <1>4

\* The writer's writes to rows keep it, and so does its answer.
LEMMA RowsConclude ==
    ASSUME ActionInv, ConclusionInv, TakeRowWrite \/ FlushRow \/ Answer
    PROVE  ConclusionInv'
<1>. DEFINE x == queue[1]
            u == Tail(queue)
<1>0. queue \in Seq(Writes) /\ queue /= <<>> /\ rowBuffer \in Seq(Writes)
  BY DEF TakeRowWrite, FlushRow, Answer, Wanted, ActionInv, ActionTypes
<1>1. /\ x \in Writes /\ Head(queue) = x /\ 1 \in DOMAIN queue
      /\ \A i \in DOMAIN u : i + 1 \in DOMAIN queue /\ u[i] = queue[i + 1]
      /\ \A i \in DOMAIN queue : i = 1 \/ (i - 1 \in DOMAIN u /\ u[i - 1] = queue[i])
  BY <1>0, TailIs
<1>2. /\ Joined(u) /\ Single(u)
      /\ x.kind = "insert" /\ ~Acts(x.row) => ComesFirst(Completion(x.row), u)
      /\ \A w : ComesFirst(w, queue) => x = w \/ (Between(x) /\ ComesFirst(w, u))
  BY <1>0, TailJoins DEF ConclusionInv, WrittenAtOnce, ConcludedOnce
<1>3. UNCHANGED <<held, concluded, linked, conductor, main, faults>>
  BY DEF TakeRowWrite, FlushRow, Answer, stored, doing
<1>4. ~Between(x) /\ queue' \in {queue, u}
  BY <1>1 DEF TakeRowWrite, FlushRow, Answer, Wanted, Between
<1>5. x = queue[1]
  OBVIOUS
<1>. HIDE DEF x, u
<1>6. \A i \in DOMAIN rowBuffer :
         rowBuffer[i].kind = "insert" /\ ~Acts(rowBuffer[i].row) =>
            \/ \E k \in DOMAIN rowBuffer : rowBuffer[k] = Completion(rowBuffer[i].row)
            \/ x = Completion(rowBuffer[i].row)
  BY <1>2, <1>4 DEF ConclusionInv, WrittenAtOnce
<1>7. \A i \in DOMAIN queue' : queue'[i].kind = "conclude" =>
         \E j \in DOMAIN queue : queue[j] = queue'[i]
  BY <1>1, <1>4
<1>8. Single(queue')
  BY <1>2, <1>4 DEF ConclusionInv, ConcludedOnce
<1>9. ConcludedOnce'
  BY <1>3, <1>7, <1>8 DEF ConclusionInv, ConcludedOnce, Missing, Single
<1>10. /\ \A l \in LogRows : Unconcluded(l)' <=> Unconcluded(l)
       /\ \A l \in LogRows : Untried(l)' => Untried(l)
  BY RowsMove
<1>11. main.todo \in Seq(LogRows)
  BY DEF ActionInv, ActionTypes
\* Nothing is left for the rows while the main process looks at them.
<1>12. main.pc \in {"check", "conclude"} => rowBuffer = <<>> /\ ~ToLog(x)
  BY <1>1, <1>5 DEF ActionInv, AnswersAreTrue
\* A row is completed after it is inserted: what is not there after the step was
\* not there before.
<1>13. \A l \in LogRows : ~Acts(l) => logs[l] \in {"none", "completed"}
  BY DEF ConclusionInv, WrittenAtOnce
<1>14. ASSUME WrittenAtOnce', \A i, j \in DOMAIN rowBuffer' : rowBuffer'[i].row = rowBuffer'[j].row,
              \A l \in LogRows : logs[l] = "completed" => logs'[l] = "completed",
              main.pc \in {"check", "conclude"} => logs' = logs
       PROVE  ConclusionInv'
  <2>1. ConclusionTypes'
    BY <1>3, <1>14 DEF ConclusionInv, ConclusionTypes
  <2>2. NewIsUnconcluded' /\ AskedWhenEarned' /\ CheckListed'
    BY <1>3, <1>10, <1>11, <1>14, RestKeeps
  <2>. QED
    BY <1>9, <1>14, <2>1, <2>2 DEF ConclusionInv
<1>15. CASE Answer
  <2>1. queue' = u /\ rowBuffer = <<>> /\ rowBuffer' = <<>> /\ logs' = logs /\ ~ToLog(x)
    BY <1>1, <1>15 DEF Answer, Wanted, stored, ToLog, u
  <2>2. WrittenAtOnce'
    BY <1>2, <1>13, <2>1 DEF WrittenAtOnce, Acts
  <2>. QED
    BY <1>14, <2>1, <2>2
<1>16. CASE FlushRow
  <2>1. /\ queue' = queue /\ rowBuffer' = <<>> /\ logs' = Rows(rowBuffer) /\ ~ToLog(x) /\ rowBuffer /= <<>>
    BY <1>1, <1>16 DEF FlushRow, Wanted, WriteRow, ToLog
  <2>2. \A i \in DOMAIN rowBuffer : rowBuffer[i].kind = "insert" /\ ~Acts(rowBuffer[i].row) =>
           \E k \in DOMAIN rowBuffer : rowBuffer[k] = Completion(rowBuffer[i].row)
    BY <1>6, <2>1 DEF ToLog, Completion
  <2>3. /\ \A l \in LogRows : ~Acts(l) => logs'[l] \in {"none", "completed"}
        /\ \A l \in LogRows : logs[l] = "completed" => logs'[l] = "completed"
    BY <2>1, <2>2, RowsComplete
  <2>4. WrittenAtOnce'
    BY <2>1, <2>3 DEF ConclusionInv, WrittenAtOnce, Acts
  <2>5. main.pc \notin {"check", "conclude"}
    BY <1>12, <2>1
  <2>. QED
    BY <1>14, <2>1, <2>3, <2>4, <2>5
<1>17. CASE TakeRowWrite
  <2>1. /\ queue' = u /\ ToLog(x)
        /\ \/ /\ x.kind = "complete" /\ (rowBuffer /= <<>> => Head(rowBuffer).row = x.row)
              /\ logs' = logs /\ rowBuffer' = Append(rowBuffer, x)
           \/ /\ ~(x.kind = "complete" /\ (rowBuffer /= <<>> => Head(rowBuffer).row = x.row))
              /\ logs' = Rows(rowBuffer) /\ rowBuffer' = <<x>>
    BY <1>1, <1>17 DEF TakeRowWrite, WriteRow, ToLog, u
  <2>2. main.pc \notin {"check", "conclude"}
    BY <1>12, <2>1
  <2>3. \A i \in DOMAIN rowBuffer : 1 \in DOMAIN rowBuffer /\ rowBuffer[1] = Head(rowBuffer)
                                    /\ rowBuffer[i].row = Head(rowBuffer).row
    <3>1. \A i \in DOMAIN rowBuffer : 1 \in DOMAIN rowBuffer /\ rowBuffer[1] = Head(rowBuffer)
      BY <1>0
    <3>. QED
      BY <3>1 DEF ConclusionInv, ConclusionTypes
  <2>4. CASE /\ x.kind = "complete" /\ (rowBuffer /= <<>> => Head(rowBuffer).row = x.row)
             /\ logs' = logs /\ rowBuffer' = Append(rowBuffer, x)
    <3>. DEFINE b == Append(rowBuffer, x)
    <3>1. /\ Len(rowBuffer) + 1 \in DOMAIN b /\ b[Len(rowBuffer) + 1] = x
          /\ \A i \in DOMAIN b : \/ i \in DOMAIN rowBuffer /\ b[i] = rowBuffer[i]
                                 \/ i = Len(rowBuffer) + 1 /\ b[i] = x
          /\ \A i \in DOMAIN rowBuffer : i \in DOMAIN b /\ b[i] = rowBuffer[i]
      BY <1>0, <1>1, AppendIs
    <3>2. rowBuffer' = b
      BY <2>4
    <3>. HIDE DEF b
    <3>3. \A i, j \in DOMAIN b : b[i].row = b[j].row
      <4>1. \A i \in DOMAIN rowBuffer : rowBuffer[i].row = x.row
        BY <2>3, <2>4
      <4>. QED
        BY <3>1, <4>1
    <3>4. ASSUME NEW i \in DOMAIN b, b[i].kind = "insert", ~Acts(b[i].row)
          PROVE  \E k \in DOMAIN b : b[k] = Completion(b[i].row)
      <4>1. i \in DOMAIN rowBuffer /\ b[i] = rowBuffer[i]
        BY <2>4, <3>1, <3>4
      <4>. QED
        BY <1>6, <3>1, <3>4, <4>1
    <3>5. WrittenAtOnce'
      BY <1>2, <1>13, <2>1, <2>4, <3>2, <3>4 DEF WrittenAtOnce, Acts
    <3>. QED
      BY <1>14, <2>2, <2>4, <3>2, <3>3, <3>5
  <2>5. CASE /\ ~(x.kind = "complete" /\ (rowBuffer /= <<>> => Head(rowBuffer).row = x.row))
             /\ logs' = Rows(rowBuffer) /\ rowBuffer' = <<x>>
    <3>1. DOMAIN <<x>> = {1} /\ <<x>>[1] = x
      OBVIOUS
    <3>2. rowBuffer' = <<x>>
      BY <2>5
    <3>3. \A i \in DOMAIN rowBuffer : rowBuffer[i].kind = "insert" /\ ~Acts(rowBuffer[i].row) =>
             \E k \in DOMAIN rowBuffer : rowBuffer[k] = Completion(rowBuffer[i].row)
      <4>1. \A i \in DOMAIN rowBuffer : x /= Completion(rowBuffer[i].row)
        BY <2>3, <2>5 DEF Completion
      <4>. QED
        BY <1>6, <4>1
    <3>4. /\ \A l \in LogRows : ~Acts(l) => logs'[l] \in {"none", "completed"}
          /\ \A l \in LogRows : logs[l] = "completed" => logs'[l] = "completed"
      BY <2>5, <3>3, RowsComplete
    <3>5. \A i \in DOMAIN rowBuffer' : rowBuffer'[i] = x
      BY <3>1, <3>2
    <3>6. WrittenAtOnce'
      BY <1>2, <2>1, <3>4, <3>5 DEF WrittenAtOnce, Acts
    <3>. QED
      BY <1>14, <2>2, <3>4, <3>5, <3>6
  <2>. QED
    BY <2>1, <2>4, <2>5
<1>. QED
  BY <1>15, <1>16, <1>17

\* The writer's writes to MongoDB keep it.
LEMMA EventsKeepConclusions ==
    ASSUME ActionInv, ConclusionInv, TakeEventWrite \/ FlushEvents
    PROVE  ConclusionInv'
<1>1. /\ ConclusionTypes' /\ WrittenAtOnce' /\ ConcludedOnce'
      /\ \A l \in LogRows : Unconcluded(l)' <=> Unconcluded(l)
  BY EventsConclude
<1>2. UNCHANGED <<logs, rowBuffer, conductor, main, faults>> /\ main.todo \in Seq(LogRows)
  BY DEF TakeEventWrite, FlushEvents, doing, ActionInv, ActionTypes
<1>3. \A l \in LogRows : Untried(l)' => Untried(l)
  BY EventsMove
<1>4. NewIsUnconcluded' /\ AskedWhenEarned' /\ CheckListed'
  BY <1>1, <1>2, <1>3, RestKeeps
<1>. QED
  BY <1>1, <1>4 DEF ConclusionInv

\* When a process dies, of what was held back a first part may be written.
LEMMA DeathConcludes ==
    ASSUME ActionInv, ConclusionInv, WriterDies \/ BackyardDies
    PROVE  ConclusionInv'
<1>1. /\ faults' = faults + 1 /\ faults \in Nat
      /\ queue' = <<>> /\ held' = <<>> /\ rowBuffer' = <<>>
      /\ UNCHANGED <<logs, linked, conductor>>
      /\ (main' = main \/ main' = [pc |-> "idle", todo |-> <<>>])
      /\ BufferSize \in Nat
  BY ActionAssumption DEF WriterDies, BackyardDies, doing, Goes, stored, ActionInv, ActionTypes
<1>2. /\ held \in Seq(Writes) /\ concluded \in [LogRows -> {0, 1}] /\ Single(held) /\ Missing(held)
      /\ main \in [pc : MainPlaces, todo : Seq(LogRows)]
  BY DEF ActionInv, ActionTypes, ConclusionInv, ConclusionTypes, ConcludedOnce
\* What is written was asked for.
<1>3. /\ concluded' \in [LogRows -> {0, 1}]
      /\ \A l \in LogRows : Unconcluded(l) => concluded'[l] = 0
  <2>1. CASE BackyardDies
    BY <1>2, <2>1 DEF BackyardDies, stored, Unconcluded
  <2>2. CASE WriterDies
    <3>1. PICK n \in 0..Len(held) : concluded' = Conclusions(SubSeq(held, 1, n))
      BY <2>2 DEF WriterDies, WriteEvents
    <3>. DEFINE ws == SubSeq(held, 1, n)
    <3>2. ws \in Seq(Writes) /\ \A i \in DOMAIN ws : i \in DOMAIN held /\ ws[i] = held[i]
      BY <1>2
    <3>. HIDE DEF ws
    <3>3. Single(ws) /\ Missing(ws)
      BY <1>2, <3>2 DEF Single, Missing
    <3>4. /\ Conclusions(ws) \in [LogRows -> {0, 1}]
          /\ \A l \in LogRows : Conclusions(ws)[l] = 0 <=>
               concluded[l] = 0 /\ \A i \in DOMAIN ws : ws[i] /= Conclusion(l)
      BY <1>2, <3>2, <3>3, ConclusionsIs
    <3>5. concluded' = Conclusions(ws)
      BY <3>1 DEF ws
    <3>. QED
      BY <3>2, <3>4, <3>5 DEF Unconcluded, Awaits
  <2>. QED
    BY <2>1, <2>2
<1>4. \A l \in LogRows : Unconcluded(l) => Unconcluded(l)'
  BY <1>1, <1>3 DEF Unconcluded, Awaits
<1>5. ConclusionTypes'
  BY <1>1, <1>3 DEF ConclusionInv, ConclusionTypes
<1>6. WrittenAtOnce'
  BY <1>1 DEF ConclusionInv, WrittenAtOnce, Joined, Acts
<1>7. ConcludedOnce'
  BY <1>1 DEF ConcludedOnce, Single, Missing
<1>8. AskedWhenEarned'
  BY <1>1, <1>4 DEF ConclusionInv, AskedWhenEarned, Acts
<1>9. NewIsUnconcluded'
  <2>1. ASSUME NEW l \in LogRows, l.try > faults + 1 PROVE Unconcluded(l)'
    <3>1. l.try > faults /\ Untried(l)
      BY <1>1, <2>1 DEF ActionInv, TriesAreNew, LogRows
    <3>. QED
      BY <1>4, <3>1 DEF ConclusionInv, NewIsUnconcluded
  <2>. QED
    BY <1>1, <2>1 DEF NewIsUnconcluded
<1>10. CheckListed'
  <2>1. CASE main' = main
    <3>1. ASSUME main.pc \in {"check", "conclude"}, NEW i \in DOMAIN main.todo
          PROVE  IF i = 1 /\ At("conclude")
                 THEN /\ logs[main.todo[1]] = "completed" /\ conductor[main.todo[1]] = "normal"
                      /\ concluded'[main.todo[1]] = 0
                 ELSE logs[main.todo[i]] = "executing"
      BY <1>2, <1>3, <3>1 DEF ConclusionInv, CheckListed
    <3>. QED
      BY <1>1, <2>1, <3>1 DEF ConclusionInv, CheckListed, At, Unconcluded, Awaits
  <2>2. CASE main' = [pc |-> "idle", todo |-> <<>>]
    BY <2>2 DEF CheckListed
  <2>. QED
    BY <1>1, <2>1, <2>2
<1>. QED
  BY <1>5, <1>6, <1>7, <1>8, <1>9, <1>10 DEF ConclusionInv

\* Whatever step is taken keeps it.
LEMMA ConclusionInvHolds == ActionSpec => []ConclusionInv
<1>1. ASSUME ActionInv, ConclusionInv, [ActionNext]_actionVars PROVE ConclusionInv'
  <2>1. CASE UNCHANGED actionVars
    <3>1. /\ UNCHANGED <<queue, held, rowBuffer, concluded, faults, linked, conductor, logs, main>>
          /\ linked \subseteq LogRows
          /\ conductor \in [LogRows -> {"none", "running", "normal", "other"}]
      BY <1>1, <2>1 DEF actionVars, ConclusionInv, ConclusionTypes
    <3>2. CheckListed'
      BY <1>1, <3>1 DEF ConclusionInv, CheckListed, At, Unconcluded, Awaits
    <3>. QED
      BY <1>1, <3>1, <3>2, WorkConcludes
  <2>. QED
    BY <1>1, <2>1, QuietConcludes, StartConcludes, CheckConcludes, AsksConclude, RegisterConcludes,
       EventsKeepConclusions, RowsConclude, DeathConcludes
       DEF ActionNext, WriterSteps, MainSteps
<1>. QED
  BY <1>1, ActionInvHolds, ConclusionStarts, PTL DEF ActionSpec

\* The types of the action log's state, writes held back included: at most
\* BufferSize of them to MongoDB, and rows of one id to the database.
THEOREM ActionTypeHolds == ActionSpec => []ActionTypeOK
<1>1. ActionInv /\ ConclusionInv => ActionTypeOK
  <2>. SUFFICES ASSUME ActionInv, ConclusionInv PROVE ActionTypeOK
    OBVIOUS
  <2>1. ActionTypes /\ ConclusionTypes
    BY DEF ActionInv, ConclusionInv
  <2>2. ToSet(main.todo) \subseteq LogRows /\ main.pc \in MainPlaces
    BY <2>1 DEF ActionTypes, ToSet
  <2>3. concluded \in [LogRows -> Nat]
    BY <2>1 DEF ConclusionTypes
  <2>. QED
    BY <2>1, <2>2, <2>3 DEF ActionTypes, ConclusionTypes, ActionTypeOK
<1>. QED
  BY <1>1, ActionInvHolds, ConclusionInvHolds, PTL

\* The conclusion of a row with an action is written to MongoDB once at most, and
\* only after the conductor it started ended normally and the row was completed:
\* InsertConclusionEvent is not reached for a row twice, whichever process died,
\* and a bulk that is written in part is not written again.
THEOREM ConclusionIsEarnedHolds == ActionSpec => []ConclusionIsEarned
<1>1. ConclusionInv => ConclusionIsEarned
  <2>. SUFFICES ASSUME ConclusionInv, NEW l \in LogRows, concluded[l] > 0
                PROVE  concluded[l] = 1 /\ (Acts(l) => conductor[l] = "normal" /\ logs[l] = "completed")
    BY DEF ConclusionIsEarned
  <2>1. concluded[l] = 1
    BY DEF ConclusionInv, ConclusionTypes
  <2>. QED
    BY <2>1 DEF ConclusionInv, AskedWhenEarned, Unconcluded
<1>. QED
  BY <1>1, ConclusionInvHolds, PTL

\* The row whose conclusion is asked for next.
Due(l) == At("conclude") /\ main.todo[1] = l

\* As long as nothing died: an event that is flagged or whose flag comes has its
\* row; a row has its conclusion, or will, when it is completed, or will be.
InStep ==
    faults = 0 =>
        /\ writer
        /\ \A e \in Happenings : Flags(e) => ~Untried([of |-> e, try |-> 1])
        /\ \A l \in LogRows : ~Unconcluded(l) => Done(l)
        /\ \A l \in LogRows : Done(l) => ~Unconcluded(l) \/ Due(l)

\* A step that makes no conclusion, completion or flag of its own keeps it.
LEMMA StaysInStep ==
    ASSUME InStep, faults' = faults, writer => writer',
           \A e : Flags(e)' => Flags(e),
           \A l \in LogRows : Untried(l)' => Untried(l),
           \A l \in LogRows : Unconcluded(l)' <=> Unconcluded(l),
           \A l \in LogRows : (Done(l) <=> Done(l)') \/ (Done(l)' /\ Due(l)'),
           \A l \in LogRows : Due(l) => Due(l)'
    PROVE  InStep'
<1>. SUFFICES ASSUME faults = 0 PROVE InStep'
  BY DEF InStep
<1>1. \A e \in Happenings : [of |-> e, try |-> 1] \in LogRows
  BY ActionAssumption DEF LogRows
<1>2. \A e \in Happenings : Flags(e)' => ~Untried([of |-> e, try |-> 1])'
  BY <1>1 DEF InStep
<1>3. ASSUME NEW l \in LogRows
      PROVE  /\ ~Unconcluded(l)' => Done(l)'
             /\ Done(l)' => ~Unconcluded(l)' \/ Due(l)'
  BY DEF InStep
<1>. QED
  BY <1>2, <1>3 DEF InStep

\* The main process between the writes it asks for.
LEMMA MainInStep ==
    ASSUME ActionInv, ConclusionInv, InStep,
           \/ WorkBegins \/ Flushed \/ StartsDone \/ Link \/ Finished \/ MarkExecuting \/ Run \/ Check
           \/ \E l \in LogRows : ConductorEnds(l)
    PROVE  InStep'
<1>1. /\ UNCHANGED <<queue, held, rowBuffer, concluded, evaluated, faults>> /\ (writer => writer')
      /\ \/ logs' = logs
         \/ /\ main.pc \in {"start", "run", "check"} /\ main.todo /= <<>>
            /\ \/ \E s \in {"executing", "abend"} : logs' = [logs EXCEPT ![Head(main.todo)] = s]
               \/ /\ logs' = [logs EXCEPT ![Head(main.todo)] = "completed"]
                  /\ main' = [pc |-> "conclude", todo |-> main.todo]
      /\ main' = main \/ main.pc /= "conclude"
  <2>1. CASE WorkBegins \/ Flushed \/ StartsDone \/ Link \/ Finished
    BY <2>1 DEF WorkBegins, Flushed, StartsDone, Link, Finished, stored, doing, asking, At
  <2>2. CASE MarkExecuting \/ Check
    BY <2>2 DEF MarkExecuting, Check, doing, asking, At, Goes
  <2>3. CASE Run
    <3>1. main.todo /= <<>>
      BY <2>3 DEF Run, ActionInv, WorkListed, At
    <3>. QED
      BY <2>3, <3>1 DEF Run, doing, asking, At
  <2>4. CASE \E l \in LogRows : ConductorEnds(l)
    BY <2>4 DEF ConductorEnds, stored, asking
  <2>. QED
    BY <2>1, <2>2, <2>3, <2>4
<1>2. /\ \A e : Flags(e)' <=> Flags(e)
      /\ \A l \in LogRows : Unconcluded(l)' <=> Unconcluded(l)
      /\ \A l \in LogRows : CompletionComes(l)' <=> CompletionComes(l)
  BY <1>1 DEF Flags, FlagComes, Unconcluded, Awaits, CompletionComes
<1>3. \A l \in LogRows : Due(l) => Due(l)'
  BY <1>1 DEF Due, At
<1>4. logs \in [LogRows -> {"none", "matched", "executing", "completed", "abend"}]
      /\ main.todo \in Seq(LogRows)
  BY DEF ActionInv, ActionTypes
<1>5. CASE logs' = logs
  <2>1. \A l \in LogRows : (Untried(l)' => Untried(l)) /\ (Done(l) <=> Done(l)')
    BY <1>1, <1>5 DEF Untried, Done, CompletionComes
  <2>. QED
    BY <1>1, <1>2, <1>3, <2>1, StaysInStep
<1>6. CASE /\ main.pc \in {"start", "run", "check"} /\ main.todo /= <<>>
           /\ \/ \E s \in {"executing", "abend"} : logs' = [logs EXCEPT ![Head(main.todo)] = s]
              \/ /\ logs' = [logs EXCEPT ![Head(main.todo)] = "completed"]
                 /\ main' = [pc |-> "conclude", todo |-> main.todo]
  <2>. DEFINE h == main.todo[1]
  <2>1. h = Head(main.todo) /\ h \in LogRows /\ 1 \in DOMAIN main.todo
    BY <1>4, <1>6
  <2>2. logs[h] \in {"matched", "executing"}
    BY <1>6, <2>1 DEF ActionInv, WorkListed, ConclusionInv, CheckListed, At
  <2>. HIDE DEF h
  <2>3. \A l \in LogRows : logs'[l] = "none" => logs[l] = "none"
    BY <1>4, <1>6, <2>1, <2>2
  <2>4. \A l \in LogRows : Untried(l)' => Untried(l)
    BY <1>1, <2>3 DEF Untried
  <2>5. ASSUME NEW l \in LogRows PROVE (Done(l) <=> Done(l)') \/ (Done(l)' /\ Due(l)')
    <3>1. CASE logs'[l] = "completed" <=> logs[l] = "completed"
      BY <1>2, <3>1 DEF Done
    <3>2. CASE ~(logs'[l] = "completed" <=> logs[l] = "completed")
      <4>1. l = h /\ logs'[l] = "completed" /\ main' = [pc |-> "conclude", todo |-> main.todo]
        BY <1>4, <1>6, <2>1, <2>2, <3>2
      <4>. QED
        BY <4>1 DEF Done, Due, At, h
    <3>. QED
      BY <3>1, <3>2
  <2>. QED
    BY <1>1, <1>2, <1>3, <2>4, <2>5, StaysInStep
<1>. QED
  BY <1>1, <1>5, <1>6

\* The writer.
LEMMA WriterInStep ==
    ASSUME ActionInv, ConclusionInv, InStep, WriterSteps
    PROVE  InStep'
<1>1. UNCHANGED <<main, faults, writer>>
  BY DEF WriterSteps, TakeEventWrite, TakeRowWrite, FlushEvents, FlushRow, Answer
<1>2. \A l \in LogRows : Due(l) => Due(l)'
  BY <1>1 DEF Due, At
<1>3. CASE TakeEventWrite \/ FlushEvents
  <2>1. \A l \in LogRows : Unconcluded(l)' <=> Unconcluded(l)
    BY <1>3, EventsConclude
  <2>2. /\ \A l \in LogRows : Untried(l)' => Untried(l)
        /\ \A l \in LogRows : Done(l)' <=> Done(l)
        /\ \A e : Flags(e)' => Flags(e)
    BY <1>3, EventsMove
  <2>. QED
    BY <1>1, <1>2, <2>1, <2>2, StaysInStep
<1>4. CASE TakeRowWrite \/ FlushRow \/ Answer
  <2>1. /\ \A l \in LogRows : Untried(l)' => Untried(l)
        /\ \A l \in LogRows : Done(l)' <=> Done(l)
        /\ \A l \in LogRows : Unconcluded(l)' <=> Unconcluded(l)
        /\ \A e : Flags(e)' => Flags(e)
    BY <1>4, RowsMove
  <2>. QED
    BY <1>1, <1>2, <2>1, StaysInStep
<1>. QED
  BY <1>3, <1>4 DEF WriterSteps

\* What the main process asks for: a conclusion with the completion of its row,
\* a flag with its row.
LEMMA AskedInStep ==
    ASSUME ActionInv, ConclusionInv, InStep, NEW ws \in Seq(Writes), queue' = queue \o ws,
           UNCHANGED <<logs, held, rowBuffer, concluded, evaluated, faults, writer>>,
           \A i \in DOMAIN ws : ws[i].kind = "flag" => \E j \in DOMAIN ws : ws[j] = Insert(ws[i].row),
           \A i \in DOMAIN ws : ws[i].kind = "flag" => ws[i].row.try = faults + 1,
           \A l \in LogRows : (\E i \in DOMAIN ws : ws[i] = Conclusion(l)) =>
              Done(l) \/ \E i \in DOMAIN ws : ws[i] = Completion(l),
           \A l \in LogRows : (\E i \in DOMAIN ws : ws[i] = Completion(l)) =>
              \E i \in DOMAIN ws : ws[i] = Conclusion(l),
           \A l \in LogRows : Due(l) => Due(l)' \/ \E i \in DOMAIN ws : ws[i] = Conclusion(l)
    PROVE  InStep'
<1>. SUFFICES ASSUME faults = 0 PROVE InStep'
  BY DEF InStep
<1>. DEFINE q == queue \o ws
<1>1. \A w : (\E i \in DOMAIN q : q[i] = w) <=>
               ((\E i \in DOMAIN queue : queue[i] = w) \/ \E i \in DOMAIN ws : ws[i] = w)
  <2>1. queue \in Seq(Writes)
    BY DEF ActionInv, ActionTypes
  <2>2. /\ \A i \in DOMAIN q : \/ i \in DOMAIN queue /\ q[i] = queue[i]
                               \/ i - Len(queue) \in DOMAIN ws /\ q[i] = ws[i - Len(queue)]
        /\ \A i \in DOMAIN queue : i \in DOMAIN q /\ q[i] = queue[i]
        /\ \A i \in DOMAIN ws : i + Len(queue) \in DOMAIN q /\ q[i + Len(queue)] = ws[i]
    BY <2>1, ConcatIs
  <2>. HIDE DEF q
  <2>. QED
    BY <2>2
<1>2. queue' = q
  OBVIOUS
<1>. HIDE DEF q
<1>3. ASSUME NEW l \in LogRows
      PROVE  /\ Unconcluded(l)' <=> Unconcluded(l) /\ ~\E i \in DOMAIN ws : ws[i] = Conclusion(l)
             /\ Done(l)' <=> Done(l) \/ \E i \in DOMAIN ws : ws[i] = Completion(l)
             /\ Untried(l)' <=> Untried(l) /\ ~\E i \in DOMAIN ws : ws[i] = Insert(l)
  <2>1. \A w : (\E i \in DOMAIN queue' : queue'[i] = w) <=>
                 ((\E i \in DOMAIN queue : queue[i] = w) \/ \E i \in DOMAIN ws : ws[i] = w)
    BY <1>1, <1>2
  <2>2. Unconcluded(l)' <=> Unconcluded(l) /\ ~\E i \in DOMAIN ws : ws[i] = Conclusion(l)
    BY <2>1 DEF Unconcluded, Awaits, Conclusion
  <2>3. Done(l)' <=> Done(l) \/ \E i \in DOMAIN ws : ws[i] = Completion(l)
    BY <2>1 DEF Done, CompletionComes, Completion
  <2>4. Untried(l)' <=> Untried(l) /\ ~\E i \in DOMAIN ws : ws[i] = Insert(l)
    <3>1. logs' = logs /\ rowBuffer' = rowBuffer
      OBVIOUS
    <3>. QED
      BY <2>1, <3>1 DEF Untried, Insert
  <2>. QED
    BY <2>2, <2>3, <2>4
<1>4. ASSUME NEW e \in Happenings, Flags(e)'
      PROVE  ~Untried([of |-> e, try |-> 1])'
  <2>. DEFINE k == [of |-> e, try |-> 1]
  <2>1. k \in LogRows
    BY ActionAssumption DEF LogRows
  <2>2. CASE Flags(e)
    BY <1>3, <2>1, <2>2 DEF InStep
  <2>3. CASE ~Flags(e)
    <3>1. PICK i \in DOMAIN q : q[i].kind = "flag" /\ q[i].row.of = e
      BY <1>2, <1>4, <2>3 DEF Flags, FlagComes
    <3>2. PICK j \in DOMAIN ws : ws[j] = q[i]
      <4>1. ~(\E m \in DOMAIN queue : queue[m] = q[i])
        BY <2>3, <3>1 DEF Flags, FlagComes
      <4>. QED
        BY <1>1, <4>1
    <3>3. ws[j].row = k
      <4>1. ws[j] \in Writes /\ ws[j].row.try = 1 /\ ws[j].row.of = e
        BY <3>1, <3>2
      <4>. QED
        BY <3>1, <3>2, <4>1 DEF Writes, LogRows
    <3>4. \E m \in DOMAIN ws : ws[m] = Insert(k)
      BY <3>1, <3>2, <3>3
    <3>. QED
      BY <1>3, <2>1, <3>4
  <2>. QED
    BY <2>2, <2>3
<1>5. ASSUME NEW l \in LogRows
      PROVE  /\ ~Unconcluded(l)' => Done(l)'
             /\ Done(l)' => ~Unconcluded(l)' \/ Due(l)'
  BY <1>3 DEF InStep
<1>. QED
  BY <1>4, <1>5 DEF InStep

\* It asks.
LEMMA AsksInStep ==
    ASSUME ActionInv, ConclusionInv, InStep,
           \/ PassBreaks \/ JudgeDone \/ ChecksDone \/ Conclude
           \/ \E e \in Happenings : RegisterLog(e)
    PROVE  InStep'
<1>0. UNCHANGED <<logs, held, rowBuffer, concluded, evaluated, faults, writer>>
  BY DEF PassBreaks, JudgeDone, ChecksDone, Conclude, RegisterLog, stored
<1>. SUFFICES ASSUME faults = 0 PROVE InStep'
  BY <1>0 DEF InStep
<1>1. writer /\ \A l : Due(l) => main.pc = "conclude"
  BY DEF InStep, Due, At
<1>2. CASE PassBreaks \/ JudgeDone \/ ChecksDone
  <2>1. PICK k \in {"flush", "finish"} : Ask(<<Plain(k)>>) /\ main.pc /= "conclude"
    BY <1>2 DEF PassBreaks, JudgeDone, ChecksDone, At
  <2>. DEFINE ws == <<Plain(k)>>
  <2>2. ws \in Seq(Writes) /\ \A i \in DOMAIN ws : ws[i].kind = k
    BY MarkersAreWrites
  <2>3. queue' = queue \o ws
    BY <1>1, <2>1 DEF Ask
  <2>. HIDE DEF ws
  <2>4. \A l : ~Due(l) /\ \A i \in DOMAIN ws : /\ ws[i] /= Conclusion(l) /\ ws[i] /= Completion(l)
                                               /\ ws[i].kind /= "flag"
    BY <1>1, <2>1, <2>2 DEF Conclusion, Completion
  <2>. QED
    BY <1>0, <2>2, <2>3, <2>4, AskedInStep
<1>3. CASE Conclude
  <2>. DEFINE t == main.todo
              ws == Asked(<<"conclude">>, t[1])
  <2>1. t \in Seq(LogRows) /\ t /= <<>> /\ At("conclude")
    BY <1>3 DEF Conclude, ActionInv, ActionTypes, WorkListed, At
  <2>2. Head(t) = t[1] /\ t[1] \in LogRows /\ 1 \in DOMAIN t
    BY <2>1
  <2>3. queue' = queue \o ws
    BY <1>1, <1>3, <2>2 DEF Conclude, Ask
  <2>4. ws \in Seq(Writes) /\ DOMAIN ws = {1} /\ \A i \in DOMAIN ws : ws[i] = Conclusion(t[1])
    <3>1. ws \in Seq(Writes) /\ \A i \in DOMAIN ws : ws[i] = Conclusion(t[1])
      BY <2>2, MarkersAreWrites DEF Conclusion
    <3>2. DOMAIN ws = {1}
      BY DEF Asked
    <3>. QED
      BY <3>1, <3>2
  <2>5. Done(t[1])
    BY <2>1, <2>2 DEF ConclusionInv, CheckListed, At, Done
  <2>. HIDE DEF ws
  <2>6. \A i \in DOMAIN ws : ws[i].kind = "conclude"
    BY <2>4 DEF Conclusion
  <2>7. \A l \in LogRows : (\E i \in DOMAIN ws : ws[i] = Conclusion(l)) <=> l = t[1]
    BY <2>2, <2>4 DEF Conclusion
  <2>8. \A l \in LogRows : (\E i \in DOMAIN ws : ws[i] = Conclusion(l)) =>
           Done(l) \/ \E i \in DOMAIN ws : ws[i] = Completion(l)
    BY <2>5, <2>7
  <2>9. \A l \in LogRows : ~\E i \in DOMAIN ws : ws[i] = Completion(l)
    BY <2>6 DEF Completion
  <2>10. \A l \in LogRows : Due(l) => Due(l)' \/ \E i \in DOMAIN ws : ws[i] = Conclusion(l)
    BY <2>7 DEF Due
  <2>. QED
    BY <1>0, <2>3, <2>4, <2>6, <2>8, <2>9, <2>10, AskedInStep
<1>4. ASSUME NEW e \in Happenings, RegisterLog(e) PROVE InStep'
  <2>. DEFINE l == [of |-> e, try |-> faults + 1]
              ws == Asked(IF Acts(l) THEN <<"insert", "flag">>
                          ELSE <<"insert", "flag", "conclude", "complete">>, l)
  <2>1. l \in LogRows
    BY ActionAssumption DEF LogRows
  <2>2. queue' = queue \o ws /\ main' = main
    BY <1>4 DEF RegisterLog, Ask
  <2>3. ws \in Seq(Writes) /\ 1 \in DOMAIN ws /\ ws[1] = Insert(l) /\ \A i \in DOMAIN ws : ws[i].row = l
    <3>1. \/ ws = Asked(<<"insert", "flag">>, l)
          \/ ws = Asked(<<"insert", "flag", "conclude", "complete">>, l)
      OBVIOUS
    <3>. HIDE DEF ws
    <3>. QED
      BY <2>1, <3>1, RegisterAsks
  <2>4. (\E i \in DOMAIN ws : ws[i] = Conclusion(l)) <=> \E i \in DOMAIN ws : ws[i] = Completion(l)
    <3>. DEFINE W(k) == [kind |-> k, row |-> l]
    <3>1. CASE Acts(l)
      <4>1. ws = <<W("insert"), W("flag")>>
        BY <3>1 DEF Asked
      <4>. QED
        BY <4>1 DEF Conclusion, Completion
    <3>2. CASE ~Acts(l)
      <4>1. ws = <<W("insert"), W("flag"), W("conclude"), W("complete")>>
        BY <3>2 DEF Asked
      <4>2. 3 \in DOMAIN ws /\ ws[3] = Conclusion(l) /\ 4 \in DOMAIN ws /\ ws[4] = Completion(l)
        BY <4>1 DEF Conclusion, Completion
      <4>. QED
        BY <4>2
    <3>. QED
      BY <3>1, <3>2
  <2>. HIDE DEF ws
  <2>5. \A k \in LogRows : (\E i \in DOMAIN ws : ws[i] = Conclusion(k)) <=>
                              \E i \in DOMAIN ws : ws[i] = Completion(k)
    BY <2>3, <2>4 DEF Conclusion, Completion
  <2>6. \A k \in LogRows : Due(k) => Due(k)'
    BY <2>2 DEF Due, At
  <2>7. \A i \in DOMAIN ws : ws[i].row.try = faults + 1 /\ \E j \in DOMAIN ws : ws[j] = Insert(ws[i].row)
    BY <2>3
  <2>. HIDE DEF l
  <2>. QED
    BY <1>0, <2>2, <2>3, <2>5, <2>6, <2>7, AskedInStep
<1>. QED
  BY <1>2, <1>3, <1>4

\* Whatever step is taken keeps it: after a death it promises nothing.
LEMMA InStepHolds == ActionSpec => []InStep
<1>1. ActionInit => InStep
  <2>. SUFFICES ASSUME ActionInit PROVE InStep
    OBVIOUS
  <2>1. /\ queue = <<>> /\ held = <<>> /\ rowBuffer = <<>> /\ writer /\ evaluated = {}
        /\ concluded = [l \in LogRows |-> 0] /\ logs = [l \in LogRows |-> "none"]
    BY DEF ActionInit
  <2>2. /\ \A e : ~Flags(e)
        /\ \A l \in LogRows : Unconcluded(l) /\ ~Done(l)
    BY <2>1 DEF Flags, FlagComes, Unconcluded, Awaits, Done, CompletionComes
  <2>. QED
    BY <2>1, <2>2 DEF InStep
<1>2. ASSUME ActionInv, ConclusionInv, InStep, [ActionNext]_actionVars PROVE InStep'
  <2>1. CASE UNCHANGED actionVars
    BY <1>2, <2>1 DEF actionVars, InStep, Flags, FlagComes, Untried, Unconcluded, Awaits, Done,
                      CompletionComes, Due, At
  <2>2. CASE WriterDies \/ BackyardDies \/ NoticeBreaks
    <3>1. faults' /= 0
      BY <1>2, <2>2 DEF WriterDies, BackyardDies, NoticeBreaks, ActionInv, ActionTypes
    <3>. QED
      BY <3>1 DEF InStep
  <2>. QED
    BY <1>2, <2>1, <2>2, MainInStep, WriterInStep, AsksInStep DEF ActionNext, MainSteps
<1>. QED
  BY <1>1, <1>2, ActionInvHolds, ConclusionInvHolds, PTL DEF ActionSpec

\* Between passes, as long as no process died, nothing the writer was asked is
\* left: an event is flagged exactly when it has its row, and the conclusion of a
\* row is there exactly when the row is completed.
THEOREM NothingHeldBackHolds == ActionSpec => []NothingHeldBack
<1>1. ActionInv /\ ConclusionInv /\ InStep => NothingHeldBack
  <2>. SUFFICES ASSUME ActionInv, ConclusionInv, InStep, faults = 0, At("idle")
                PROVE  /\ \A e \in Happenings : e \in evaluated <=> logs[[of |-> e, try |-> 1]] /= "none"
                       /\ \A l \in LogRows : concluded[l] = 1 <=> logs[l] = "completed"
    BY DEF NothingHeldBack
  <2>1. queue = <<>> /\ held = <<>> /\ rowBuffer = <<>>
    BY DEF ActionInv, AnswersAreTrue, NothingAsked
  <2>2. /\ \A e : ~FlagComes(e)
        /\ \A l \in LogRows : /\ Untried(l) <=> logs[l] = "none"
                              /\ Unconcluded(l) <=> concluded[l] = 0
                              /\ Done(l) <=> logs[l] = "completed"
                              /\ ~Due(l)
    BY <2>1 DEF FlagComes, Untried, Unconcluded, Awaits, Done, CompletionComes, Due, At
  <2>3. ASSUME NEW e \in Happenings
        PROVE  e \in evaluated <=> logs[[of |-> e, try |-> 1]] /= "none"
    <3>1. [of |-> e, try |-> 1] \in LogRows
      BY ActionAssumption DEF LogRows
    <3>2. e \in evaluated => ~Untried([of |-> e, try |-> 1])
      BY DEF InStep, Flags
    <3>3. e \notin evaluated => Untried([of |-> e, try |-> 1])
      <4>1. writer /\ faults + 1 = 1
        BY DEF InStep
      <4>. QED
        BY <2>2, <4>1 DEF ActionInv, FlagsCome
    <3>. QED
      BY <2>2, <3>1, <3>2, <3>3
  <2>4. ASSUME NEW l \in LogRows PROVE concluded[l] = 1 <=> logs[l] = "completed"
    <3>1. concluded[l] \in {0, 1}
      BY DEF ConclusionInv, ConclusionTypes
    <3>2. ~Unconcluded(l) <=> Done(l)
      BY <2>2 DEF InStep
    <3>. QED
      BY <2>2, <3>1, <3>2
  <2>. QED
    BY <2>3, <2>4
<1>. QED
  BY <1>1, ActionInvHolds, ConclusionInvHolds, InStepHolds, PTL

-----------------------------------------------------------------------------
(* What the filters of a rule's conclusion catch: Concluded goes through them  *)
(* one by one.  That it comes to an end and keeps what each step keeps is an   *)
(* induction, done by the least number for which it fails.                     *)

\* A set of natural numbers that is not empty has a least one.
LEMMA LeastOf ==
  ASSUME NEW S \in SUBSET Nat, S /= {}
  PROVE  \E n \in S : \A m \in S : n <= m
<1> DEFINE R == {p \in Nat \X Nat : p[1] < p[2]}
<1>1. IsWellFoundedOn(R, Nat)
  BY NatLessThanWellFounded DEF OpToRel
<1>2. PICK n \in S : \A m \in S : <<m, n>> \notin R
  BY <1>1, WFMin
<1>3. ASSUME NEW m \in S PROVE n <= m
  <2>1. <<m, n>> \in Nat \X Nat /\ <<m, n>> \notin R
    BY <1>2
  <2> QED
    BY <2>1
<1> QED
  BY <1>3

\* And one below a bound has a greatest, which Max picks.
LEMMA MaxIs ==
  ASSUME NEW k \in Nat, NEW d \in SUBSET (1..k), d /= {}
  PROVE  /\ Max(d) \in d /\ \A x \in d : x <= Max(d)
         /\ d \ {Max(d)} \in SUBSET (1..(k - 1))
<1> DEFINE S == {m \in Nat : k - m \in d}
<1>1. S \in SUBSET Nat /\ S /= {}
  <2>1. PICK x \in d : TRUE
    OBVIOUS
  <2>2. k - x \in Nat /\ k - (k - x) = x
    OBVIOUS
  <2> QED
    BY <2>1, <2>2
<1>2. PICK n \in S : \A m \in S : n <= m
  <2> HIDE DEF S
  <2> QED
    BY <1>1, LeastOf
<1>3. ASSUME NEW x \in d PROVE x <= k - n
  <2>1. k - x \in Nat /\ k - (k - x) = x
    OBVIOUS
  <2>2. k - x \in S
    BY <2>1
  <2> QED
    BY <1>2, <2>1, <2>2
<1>4. k - n \in d /\ \A x \in d : k - n >= x
  BY <1>2, <1>3
<1>5. Max(d) \in d /\ \A x \in d : Max(d) >= x
  BY <1>4 DEF Max
<1>6. ASSUME NEW x \in d \ {Max(d)} PROVE x \in 1..(k - 1)
  <2>1. Max(d) \in 1..k /\ x \in 1..k /\ x <= Max(d) /\ x /= Max(d)
    BY <1>5
  <2> QED
    BY <2>1
<1>7. \A x \in d : x <= Max(d)
  <2>1. Max(d) \in 1..k /\ \A x \in d : x \in 1..k
    BY <1>5
  <2> HIDE <1>1, <1>2, <1>3, <1>4
  <2> QED
    BY <1>5, <2>1
<1> QED
  BY <1>5, <1>6, <1>7

\* How Concluded is unfolded, over the positions of the filters.
IsFold(h, k, q, s, c) ==
  h = [d \in SUBSET (1..k) |->
        IF d = {} THEN s ELSE Catches(h[d \ {Max(d)}], q[Max(d)], c)]

LEMMA FoldFrom ==
  ASSUME NEW k \in Nat, NEW q, NEW s, NEW c, NEW g, IsFold(g, k, q, s, c)
  PROVE  \E h : IsFold(h, k + 1, q, s, c)
<1> DEFINE h == [d \in SUBSET (1..(k + 1)) |->
                  IF d = {} THEN s ELSE Catches(g[d \ {Max(d)}], q[Max(d)], c)]
<1>1. ASSUME NEW d \in SUBSET (1..k) PROVE h[d] = g[d]
  <2>1. d \in SUBSET (1..(k + 1))
    OBVIOUS
  <2>2. h[d] = IF d = {} THEN s ELSE Catches(g[d \ {Max(d)}], q[Max(d)], c)
    BY <2>1
  <2>3. g[d] = IF d = {} THEN s ELSE Catches(g[d \ {Max(d)}], q[Max(d)], c)
    BY DEF IsFold
  <2> QED
    BY <2>2, <2>3
<1>2. ASSUME NEW d \in SUBSET (1..(k + 1)), d /= {} PROVE g[d \ {Max(d)}] = h[d \ {Max(d)}]
  <2>1. d \ {Max(d)} \in SUBSET (1..((k + 1) - 1))
    <3>1. k + 1 \in Nat
      OBVIOUS
    <3> HIDE DEF h
    <3> QED
      BY <1>2, <3>1, MaxIs
  <2>2. (k + 1) - 1 = k
    OBVIOUS
  <2> HIDE DEF h
  <2> QED
    BY <1>1, <2>1, <2>2
<1>3. h = [d \in SUBSET (1..(k + 1)) |->
            IF d = {} THEN s ELSE Catches(h[d \ {Max(d)}], q[Max(d)], c)]
  <2> DEFINE Left(d) == IF d = {} THEN s ELSE Catches(g[d \ {Max(d)}], q[Max(d)], c)
             Right(d) == IF d = {} THEN s ELSE Catches(h[d \ {Max(d)}], q[Max(d)], c)
  <2>1. ASSUME NEW d \in SUBSET (1..(k + 1)) PROVE Left(d) = Right(d)
    <3> HIDE DEF h
    <3>1. CASE d = {}
      BY <3>1
    <3>2. CASE d /= {}
      <4>1. g[d \ {Max(d)}] = h[d \ {Max(d)}]
        BY <1>2, <3>2
      <4> QED
        BY <3>2, <4>1
    <3> QED
      BY <3>1, <3>2
  <2>2. h = [d \in SUBSET (1..(k + 1)) |-> Left(d)]
    OBVIOUS
  <2> HIDE DEF h, Left, Right
  <2>3. h = [d \in SUBSET (1..(k + 1)) |-> Right(d)]
    BY <2>1, <2>2
  <2> QED
    BY <2>3 DEF Right
<1> QED
  BY <1>3 DEF IsFold

\* The filters can be gone through.
LEMMA FoldExists ==
  ASSUME NEW n \in Nat, NEW q, NEW s, NEW c
  PROVE  \E h : IsFold(h, n, q, s, c)
<1> DEFINE Bad == {k \in Nat : ~\E h : IsFold(h, k, q, s, c)}
<1>1. SUFFICES ASSUME Bad /= {} PROVE FALSE
  OBVIOUS
<1>2. PICK k \in Bad : \A m \in Bad : k <= m
  <2>1. Bad \in SUBSET Nat
    OBVIOUS
  <2> HIDE DEF Bad
  <2> QED
    BY <1>1, <2>1, LeastOf
<1>3. CASE k = 0
  <2> DEFINE g == [d \in SUBSET (1..0) |-> s]
  <2>1. ASSUME NEW d \in SUBSET (1..0) PROVE d = {}
    OBVIOUS
  <2>2. g = [d \in SUBSET (1..0) |->
              IF d = {} THEN s ELSE Catches(g[d \ {Max(d)}], q[Max(d)], c)]
    BY <2>1
  <2>3. IsFold(g, 0, q, s, c)
    BY <2>2 DEF IsFold
  <2> QED
    BY <1>2, <1>3, <2>3
<1>4. CASE k /= 0
  <2>1. k - 1 \in Nat /\ (k - 1) + 1 = k /\ k - 1 \notin Bad
    BY <1>2, <1>4
  <2>2. PICK g : IsFold(g, k - 1, q, s, c)
    BY <2>1
  <2>3. \E h : IsFold(h, (k - 1) + 1, q, s, c)
    <3> HIDE DEF Bad
    <3> QED
      BY <2>1, <2>2, FoldFrom
  <2> QED
    BY <1>2, <2>1, <2>3
<1> QED
  BY <1>3, <1>4

\* Concluded is such an unfolding.
LEMMA ConcludedIs ==
  ASSUME NEW s, NEW r, NEW c, NEW n \in Nat, DOMAIN SetToSeq(rules[r].makes) = 1..n
  PROVE  \E h : /\ IsFold(h, n, SetToSeq(rules[r].makes), s, c)
                /\ Concluded(s, r, c) = h[1..n]
<1> DEFINE q == SetToSeq(rules[r].makes)
           Folds(h) == h = [d \in SUBSET DOMAIN q |->
                             IF d = {} THEN s ELSE Catches(h[d \ {Max(d)}], q[Max(d)], c)]
<1>1. Concluded(s, r, c) = (CHOOSE h : Folds(h))[DOMAIN q]
  BY DEF Concluded, FoldLeft, MapThenFoldSet
<1>2. \A h : IsFold(h, n, q, s, c) <=> Folds(h)
  BY DEF IsFold
<1>3. \E h : IsFold(h, n, q, s, c)
  BY FoldExists
<1> HIDE DEF Folds, q
<1>4. Folds(CHOOSE h : Folds(h))
  BY <1>2, <1>3
<1>5. IsFold(CHOOSE h : Folds(h), n, q, s, c)
  BY <1>2, <1>4
<1>6. DOMAIN q = 1..n
  BY DEF q
<1> QED
  BY <1>1, <1>5, <1>6 DEF q

\* What the filters hold, of the first c events.
Incidents(c) == UNION {[fs -> SUBSET (1..c)] : fs \in SUBSET Filters}

LEMMA IncidentsIs ==
  ASSUME NEW c, NEW i
  PROVE  i \in Incidents(c) <=> /\ DOMAIN i \subseteq Filters
                                /\ i = [f \in DOMAIN i |-> i[f]]
                                /\ \A f \in DOMAIN i : i[f] \subseteq 1..c
<1>1. ASSUME i \in Incidents(c)
      PROVE  /\ DOMAIN i \subseteq Filters /\ i = [f \in DOMAIN i |-> i[f]]
             /\ \A f \in DOMAIN i : i[f] \subseteq 1..c
  <2>1. PICK fs \in SUBSET Filters : i \in [fs -> SUBSET (1..c)]
    BY <1>1 DEF Incidents
  <2> QED
    BY <2>1
<1>2. ASSUME DOMAIN i \subseteq Filters, i = [f \in DOMAIN i |-> i[f]],
             \A f \in DOMAIN i : i[f] \subseteq 1..c
      PROVE  i \in Incidents(c)
  <2>1. i \in [DOMAIN i -> SUBSET (1..c)]
    BY <1>2
  <2> QED
    BY <1>2, <2>1 DEF Incidents
<1> QED
  BY <1>1, <1>2

\* What Concluded passes from filter to filter.
Catching(c, evs) == [inc : Incidents(c), taken : SUBSET (1..c), evs : {evs}]

LEMMA CatchesKeeps ==
  ASSUME NEW c \in Nat \ {0}, NEW evs, NEW t \in Catching(c, evs), NEW f \in Filters
  PROVE  Catches(t, f, c) \in Catching(c, evs)
<1> DEFINE now == IF f \in DOMAIN t.inc THEN t.inc[f] ELSE {}
           waits == {e \in now : t.evs[e].flag = "new"}
           Holding(es) == [g \in DOMAIN t.inc \cup {f} |-> IF g = f THEN es ELSE t.inc[g]]
<1>1. /\ t.inc \in Incidents(c) /\ t.taken \in SUBSET (1..c)
      /\ \A i \in Incidents(c), k \in SUBSET (1..c) :
           [t EXCEPT !.inc = i, !.taken = @ \cup k] \in Catching(c, evs)
  BY DEF Catching
<1>2. /\ DOMAIN t.inc \subseteq Filters
      /\ \A g \in DOMAIN t.inc : t.inc[g] \subseteq 1..c
  BY <1>1, IncidentsIs
<1>3. now \subseteq 1..c
  BY <1>2
<1>4. ASSUME NEW es \in SUBSET (1..c) PROVE Holding(es) \in Incidents(c)
  <2>1. Holding(es) \in [DOMAIN t.inc \cup {f} -> SUBSET (1..c)]
    BY <1>2
  <2>2. DOMAIN t.inc \cup {f} \in SUBSET Filters
    BY <1>2
  <2> QED
    BY <2>1, <2>2 DEF Incidents
<1>5. ASSUME NEW i \in Incidents(c) PROVE Taken(i, f) \subseteq 1..c
  <2>1. \A g \in DOMAIN i : i[g] \subseteq 1..c
    BY <1>5, IncidentsIs
  <2> QED
    BY <2>1 DEF Taken
<1>6. now \cup {c} \in SUBSET (1..c) /\ now \ waits \in SUBSET (1..c)
  BY <1>3
<1>7. \/ Catches(t, f, c) = t
      \/ Catches(t, f, c) = [t EXCEPT !.inc = Holding(now \ waits), !.taken = @ \cup now]
      \/ Catches(t, f, c) = [t EXCEPT !.inc = Holding(now \cup {c}),
                              !.taken = @ \cup Taken(Holding(now \cup {c}), f)]
  <2> DEFINE First == f \in DOMAIN t.inc /\ now = {}
             Second == f \in SingleFilters /\ waits /= {}
             A == [t EXCEPT !.inc = Holding(now \ waits), !.taken = @ \cup now]
             Taking(i) == [t EXCEPT !.inc = i, !.taken = @ \cup Taken(i, f)]
             B == Taking(Holding(now \cup {c}))
  <2>1. Catches(t, f, c) = CASE First -> t [] Second -> A [] OTHER -> B
    BY DEF Catches
  <2>2. ~(First /\ Second)
    OBVIOUS
  <2>3. Catches(t, f, c) = t \/ Catches(t, f, c) = A \/ Catches(t, f, c) = B
    <3> HIDE DEF First, Second, A, B
    <3> QED
      BY <2>1, <2>2
  <2> QED
    BY <2>3
<1> HIDE DEF Holding, now, waits
<1>8. [t EXCEPT !.inc = Holding(now \ waits), !.taken = @ \cup now] \in Catching(c, evs)
  BY <1>1, <1>3, <1>4, <1>6
<1>9. [t EXCEPT !.inc = Holding(now \cup {c}),
        !.taken = @ \cup Taken(Holding(now \cup {c}), f)] \in Catching(c, evs)
  <2>1. Holding(now \cup {c}) \in Incidents(c)
    BY <1>4, <1>6
  <2>2. Taken(Holding(now \cup {c}), f) \in SUBSET (1..c)
    BY <1>5, <2>1
  <2> QED
    BY <1>1, <2>1, <2>2
<1> QED
  BY <1>7, <1>8, <1>9

\* So does Concluded, of whatever filters catch the conclusion.
LEMMA ConcludedKeeps ==
  ASSUME NEW c \in Nat \ {0}, NEW evs, NEW s \in Catching(c, evs),
         NEW r, rules[r].makes \in SUBSET Filters
  PROVE  Concluded(s, r, c) \in Catching(c, evs)
<1> DEFINE q == SetToSeq(rules[r].makes)
           n == Len(q)
<1>1. /\ n \in Nat /\ DOMAIN q = 1..n
      /\ \A k \in 1..n : q[k] \in Filters
  <2>1. IsFiniteSet(rules[r].makes)
    BY RuleAssumption, FS_Subset
  <2>2. q \in Seq(rules[r].makes)
    BY <2>1, SetToSeqIs
  <2> HIDE DEF q
  <2> QED
    BY <2>2
<1>2. PICK h : IsFold(h, n, q, s, c) /\ Concluded(s, r, c) = h[1..n]
  BY <1>1, ConcludedIs
<1> HIDE DEF q, n
<1> DEFINE Bad == {k \in Nat : k <= n /\ h[1..k] \notin Catching(c, evs)}
<1>3. SUFFICES ASSUME Bad /= {} PROVE FALSE
  BY <1>1, <1>2
<1>4. PICK k \in Bad : \A m \in Bad : k <= m
  <2>1. Bad \in SUBSET Nat
    OBVIOUS
  <2> HIDE DEF Bad
  <2> QED
    BY <1>3, <2>1, LeastOf
<1>5. 1..k \in SUBSET (1..n) /\ k \in Nat
  BY <1>1, <1>4
<1>6. h[1..k] = IF 1..k = {} THEN s ELSE Catches(h[(1..k) \ {Max(1..k)}], q[Max(1..k)], c)
  BY <1>2, <1>5 DEF IsFold
<1>7. CASE k = 0
  BY <1>4, <1>6, <1>7
<1>8. CASE k /= 0
  <2>1. k \in 1..k /\ k - 1 \in Nat /\ k - 1 <= n /\ ~(k <= k - 1)
    BY <1>1, <1>5, <1>4, <1>8
  <2>2. Max(1..k) = k
    <3>1. Max(1..k) \in 1..k /\ k <= Max(1..k)
      BY <1>5, <2>1, MaxIs
    <3> QED
      BY <1>5, <3>1
  <2>3. (1..k) \ {k} = 1..(k - 1)
    BY <1>5
  <2>4. h[1..(k - 1)] \in Catching(c, evs)
    BY <1>4, <2>1
  <2>5. q[k] \in Filters
    BY <1>1, <1>5, <2>1
  <2>6. h[1..k] = Catches(h[1..(k - 1)], q[k], c)
    BY <1>6, <2>1, <2>2, <2>3
  <2>7. h[1..k] \in Catching(c, evs)
    BY <2>4, <2>5, <2>6, CatchesKeeps
  <2> QED
    BY <1>4, <2>7
<1> QED
  BY <1>7, <1>8

\* All that OaseTypeOK says, and that a filter's events are kept in a function.
OaseTyped == OaseTypeOK /\ incident \in Incidents(Len(events))

LEMMA MoreEvents ==
  ASSUME NEW a \in Nat, NEW b \in Nat, a <= b
  PROVE  Incidents(a) \subseteq Incidents(b)
<1>1. 1..a \subseteq 1..b
  OBVIOUS
<1> QED
  BY <1>1 DEF Incidents

LEMMA TargetsAreRules == \A l : Targets(l) \subseteq Rules
BY DEF Targets, Level1, Level2, Level3

\* What a rule takes is there.
LEMMA HeldAreEvents ==
  ASSUME OaseTyped
  PROVE  \A f : Held(f) \subseteq DOMAIN events
BY DEF OaseTyped, OaseTypeOK, Held

LEMMA BoundsAreMet == 0 \in 0..LoopLimit /\ 0 \in 0..3 /\ 1 \in 0..3
BY RuleAssumption

LEMMA NothingHeld == \A n : <<>> \in Incidents(n) /\ DOMAIN <<>> = {}
<1>1. \A n : <<>> \in [{} -> SUBSET (1..n)]
  OBVIOUS
<1> QED
  BY <1>1 DEF Incidents

LEMMA TypedArrive ==
  ASSUME OaseInv, OaseInv', OaseTyped, Arrive
  PROVE  OaseTyped'
<1>1. PICK fs, later : events' = Append(events, Fresh(fs, 0, later))
  BY DEF Arrive
<1>2. /\ Len(events) \in Nat /\ Len(events') = Len(events) + 1
      /\ DOMAIN events \subseteq DOMAIN events'
  BY <1>1 DEF OaseInv
<1>3. incident' \in Incidents(Len(events'))
  BY <1>2, MoreEvents DEF OaseTyped, Arrive
<1> QED
  BY <1>2, <1>3 DEF OaseInv, OaseTyped, OaseTypeOK, Arrive, Rules

LEMMA TypedPassBegins ==
  ASSUME OaseInv, OaseInv', OaseTyped, PassBegins
  PROVE  OaseTyped'
<1>1. PICK late \in SUBSET {e \in DOMAIN events : IsNew(e)},
           over \in SUBSET {e \in DOMAIN events : IsNew(e)} :
         LET aged == [e \in DOMAIN events |->
                       IF e \in over THEN [events[e] EXCEPT !.flag = "timeout"]
                       ELSE IF e \in late THEN [events[e] EXCEPT !.time = "late"]
                       ELSE events[e]]
             caught == {f \in Filters : \E e \in DOMAIN events :
                                          aged[e].flag = "new" /\ f \in aged[e].in}
         IN  events' = aged /\ incident' = [f \in caught |-> Match(f, aged)]
  BY Zenon DEF PassBegins
<1> DEFINE aged == [e \in DOMAIN events |->
                     IF e \in over THEN [events[e] EXCEPT !.flag = "timeout"]
                     ELSE IF e \in late THEN [events[e] EXCEPT !.time = "late"]
                     ELSE events[e]]
           caught == {f \in Filters : \E e \in DOMAIN events :
                                        aged[e].flag = "new" /\ f \in aged[e].in}
<1>2. /\ events' = aged /\ incident' = [f \in caught |-> Match(f, aged)]
      /\ caught \in SUBSET Filters /\ DOMAIN aged = DOMAIN events
  BY <1>1
<1> HIDE DEF aged, caught
<1>3. DOMAIN events' = DOMAIN events /\ DOMAIN events' = 1..Len(events')
  BY <1>2 DEF OaseInv
<1>4. ASSUME NEW f \in caught PROVE Match(f, aged) \in SUBSET (1..Len(events'))
  BY <1>2, <1>3 DEF Match
<1>5. incident' \in [caught -> SUBSET (1..Len(events'))]
  BY <1>2, <1>4
<1>6. incident' \in Incidents(Len(events'))
  BY <1>2, <1>5 DEF Incidents
<1>7. /\ DOMAIN incident' \subseteq Filters
      /\ \A f \in DOMAIN incident' : incident'[f] \subseteq DOMAIN events'
  BY <1>3, <1>6, IncidentsIs
<1>8. /\ Level1 \subseteq Rules' /\ level' = 1
      /\ targets' = Level1 /\ todo' = Level1 /\ preserved' = {} /\ sweeps' = 0
      /\ again' \in BOOLEAN /\ fresh' \in BOOLEAN
  BY DEF Level1, Rules, PassBegins
<1> QED
  BY <1>6, <1>7, <1>8, BoundsAreMet DEF OaseInv, OaseTyped, OaseTypeOK

LEMMA TypedPassEnds ==
  ASSUME OaseInv, OaseInv', OaseTyped, PassEnds
  PROVE  OaseTyped'
<1>1. incident' \in Incidents(Len(events')) /\ DOMAIN incident' = {}
  BY NothingHeld DEF PassEnds
<1>2. /\ todo' = {} /\ targets' = {} /\ preserved' = {} /\ sweeps' = 0 /\ level' = 0
      /\ again' \in BOOLEAN /\ fresh' \in BOOLEAN
  BY DEF PassEnds, LevelDone
<1> QED
  BY <1>1, <1>2, BoundsAreMet DEF OaseInv, OaseTyped, OaseTypeOK

LEMMA TypedLevels ==
  ASSUME OaseInv, OaseInv', OaseTyped, SweepAgain \/ NextLevel
  PROVE  OaseTyped'
<1>1. CASE SweepAgain
  <2>1. sweeps' \in 0..LoopLimit
    <3>1. sweeps \in 0..LoopLimit /\ sweeps < LoopLimit /\ sweeps' = sweeps + 1 /\ LoopLimit \in Nat
      BY <1>1, RuleAssumption DEF OaseTyped, OaseTypeOK, SweepAgain, SweepsLeft
    <3> QED
      BY <3>1
  <2> QED
    BY <1>1, <2>1 DEF OaseTyped, OaseTypeOK, SweepAgain, Rules
<1>2. CASE NextLevel
  <2>1. level' \in 0..3
    BY <1>2 DEF OaseTyped, OaseTypeOK, NextLevel, LevelAfter
  <2>2. targets' \subseteq Rules' /\ todo' = targets' /\ 0 \in 0..LoopLimit
    BY <1>2, TargetsAreRules, RuleAssumption DEF NextLevel, Rules
  <2>3. fresh' \in BOOLEAN
    BY <1>2 DEF OaseTyped, OaseTypeOK, NextLevel, Carried, Renewed
  <2> QED
    BY <1>2, <2>1, <2>2, <2>3 DEF OaseInv, OaseTyped, OaseTypeOK, NextLevel
<1> QED
  BY <1>1, <1>2

\* What a rule concludes is held by filters there are, as an event there is.
LEMMA TypedJudge ==
  ASSUME OaseInv, OaseInv', OaseTyped, NEW r \in Rules, Judge(r)
  PROVE  OaseTyped'
<1> DEFINE taken == preserved \cup UNION {Held(f) : f \in FiltersOf(r)}
           marked == [e \in DOMAIN events |-> IF e \in EventsOf(r) THEN Used(e) ELSE events[e]]
           grown(later) == Append(marked, Fresh(rules[r].makes, r, later))
           s(later) == Concluded([inc |-> incident, taken |-> taken, evs |-> grown(later)],
                                 r, Len(grown(later)))
           n == Len(events)
<1>1. /\ n \in Nat /\ DOMAIN events = 1..n
      /\ incident \in Incidents(n) /\ preserved \in SUBSET (1..n)
  BY DEF OaseInv, OaseTyped, OaseTypeOK
<1>2. taken \in SUBSET (1..n)
  BY <1>1, HeldAreEvents
<1>3. Len(marked) = n /\ DOMAIN marked = 1..n /\ marked \in Seq({marked[e] : e \in 1..n})
  BY <1>1
<1>4. ASSUME NEW later PROVE Len(grown(later)) = n + 1 /\ DOMAIN grown(later) = 1..(n + 1)
  <2> HIDE DEF marked, n
  <2> QED
    BY <1>1, <1>3
<1>5. ASSUME NEW later PROVE s(later) \in Catching(n + 1, grown(later))
  <2>1. incident \in Incidents(n + 1) /\ taken \in SUBSET (1..(n + 1)) /\ n + 1 \in Nat \ {0}
    <3> HIDE DEF taken, n
    <3>1. 1..n \subseteq 1..(n + 1) /\ n + 1 \in Nat \ {0} /\ n <= n + 1
      BY <1>1
    <3> QED
      BY <1>1, <1>2, <3>1, MoreEvents
  <2>2. rules[r].makes \in SUBSET Filters
    BY RuleIsRule
  <2>3. Len(grown(later)) = n + 1
    BY <1>4
  <2> HIDE DEF taken, marked, grown, n
  <2>4. [inc |-> incident, taken |-> taken, evs |-> grown(later)] \in Catching(n + 1, grown(later))
    BY <2>1 DEF Catching
  <2> QED
    BY <2>1, <2>2, <2>3, <2>4, ConcludedKeeps
<1>6. \/ events' = events /\ incident' = incident /\ preserved' = preserved
      \/ events' = marked /\ incident' = incident /\ preserved' = taken
      \/ \E later : events' = grown(later) /\ incident' = s(later).inc /\ preserved' = s(later).taken
      \/ /\ events' = events
         /\ \E gone : incident' = [f \in DOMAIN incident \ gone |-> incident[f]]
         /\ preserved' \subseteq preserved
  BY DEF Judge
<1>7. incident' \in Incidents(Len(events')) /\ preserved' \subseteq 1..Len(events')
  <2> HIDE DEF taken, marked, grown, s
  <2>1. CASE events' = events /\ incident' = incident /\ preserved' = preserved
    BY <1>1, <2>1
  <2>2. CASE events' = marked /\ incident' = incident /\ preserved' = taken
    BY <1>1, <1>2, <1>3, <2>2
  <2>3. ASSUME NEW later, events' = grown(later), incident' = s(later).inc,
               preserved' = s(later).taken
        PROVE  incident' \in Incidents(Len(events')) /\ preserved' \subseteq 1..Len(events')
    <3>1. s(later) \in Catching(n + 1, grown(later)) /\ Len(events') = n + 1
      BY <1>4, <1>5, <2>3
    <3> HIDE DEF n
    <3> QED
      BY <2>3, <3>1 DEF Catching
  <2>4. ASSUME NEW gone, events' = events, preserved' \subseteq preserved,
               incident' = [f \in DOMAIN incident \ gone |-> incident[f]]
        PROVE  incident' \in Incidents(Len(events')) /\ preserved' \subseteq 1..Len(events')
    <3>1. /\ DOMAIN incident \subseteq Filters
          /\ \A f \in DOMAIN incident : incident[f] \subseteq 1..n
      BY <1>1, IncidentsIs
    <3>2. incident' \in [DOMAIN incident \ gone -> SUBSET (1..n)]
      BY <2>4, <3>1
    <3>3. incident' \in Incidents(n)
      BY <3>1, <3>2 DEF Incidents
    <3> QED
      BY <1>1, <2>4, <3>3
  <2> QED
    BY <1>6, <2>1, <2>2, <2>3, <2>4
<1>8. /\ DOMAIN incident' \subseteq Filters
      /\ \A f \in DOMAIN incident' : incident'[f] \subseteq 1..Len(events')
  BY <1>7, IncidentsIs
<1>9. DOMAIN events' = 1..Len(events')
  BY DEF OaseInv
<1>10. again' \in BOOLEAN /\ UNCHANGED <<rules, level, targets, sweeps, fresh>>
       /\ todo' \subseteq todo
  BY DEF Judge, OaseTyped, OaseTypeOK
<1> HIDE DEF n, taken, marked, grown, s
<1> QED
  BY <1>7, <1>8, <1>9, <1>10 DEF OaseInv, OaseTyped, OaseTypeOK, Rules

\* What the filters hold and what has been taken are events there are, through all
\* levels and sweeps, and however many filters catch what a rule concludes; a level
\* is swept no more often than the limit allows (OaseTypeOK).
THEOREM OaseTypeHolds == OaseSpec => []OaseTypeOK
<1>1. OaseInit => OaseTyped
  <2> SUFFICES ASSUME OaseInit PROVE OaseTyped
    OBVIOUS
  <2>1. incident \in Incidents(Len(events)) /\ DOMAIN incident = {}
    BY NothingHeld DEF OaseInit
  <2>2. /\ todo = {} /\ targets = {} /\ preserved = {} /\ sweeps = 0 /\ level = 0
        /\ again \in BOOLEAN /\ fresh \in BOOLEAN /\ OaseInv
    BY InvInit DEF OaseInit
  <2> QED
    BY <2>1, <2>2, BoundsAreMet DEF OaseInv, OaseTyped, OaseTypeOK
<1>2. OaseInv /\ OaseTyped /\ [OaseNext]_oaseVars => OaseTyped'
  <2> SUFFICES ASSUME OaseInv, OaseTyped, [OaseNext]_oaseVars PROVE OaseTyped'
    OBVIOUS
  <2>1. OaseInv'
    BY InvStep
  <2>2. CASE UNCHANGED oaseVars
    BY <2>2 DEF oaseVars, OaseTyped, OaseTypeOK, Rules
  <2> QED
    BY <2>1, <2>2, TypedArrive, TypedPassBegins, TypedPassEnds, TypedLevels, TypedJudge
       DEF OaseNext, PassGoesOn
<1>3. OaseInv /\ [OaseNext]_oaseVars => OaseInv'
  BY InvStep
<1>4. OaseTyped => OaseTypeOK
  BY DEF OaseTyped
<1> QED
  BY <1>1, <1>2, <1>3, <1>4, InvInit, PTL DEF OaseSpec
=============================================================================
