---------------------------- MODULE OaseJudgement ----------------------------
(* JudgeMain of ita_by_oase_conclusion: events are caught by filters, rules    *)
(* of three levels use them up in order of priority, and what a rule concludes *)
(* is an event again.  Filters that group events are not modelled.             *)
EXTENDS Naturals, Sequences, FiniteSets, SequencesExt

CONSTANTS Filters,
          SingleFilters,     \* the filters that want exactly one event; others queue
          RuleSets,   \* the rule sets that may be in force
          LoopLimit,  \* EVALUATE_LATENT_INFINITE_LOOP_LIMIT
          MaxArrivals \* how many events are collected

\* A rule: the filters it combines (the second one or "none"), how, whether it
\* has an action, and the filters that catch its conclusion.
IsRule(r) == /\ r.a \in Filters
             /\ r.b \in (Filters \cup {"none"}) \ {r.a}
             /\ r.op \in (IF r.b = "none" THEN {"single"} ELSE {"and", "xor", "order"})
             /\ r.acts \in BOOLEAN
             /\ r.makes \subseteq Filters

ASSUME RuleAssumption ==
    /\ IsFiniteSet(Filters) /\ "none" \notin Filters /\ SingleFilters \subseteq Filters
    /\ \A rs \in RuleSets : rs \in Seq([a : Filters, b : Filters \cup {"none"},
                                        op : {"single", "and", "xor", "order"},
                                        acts : BOOLEAN, makes : SUBSET Filters])
                            /\ \A r \in 1..Len(rs) : IsRule(rs[r])
    /\ LoopLimit \in Nat /\ MaxArrivals \in Nat

-----------------------------------------------------------------------------
VARIABLES rules,     \* the rule set in force, in order of priority
          events,    \* all events, oldest first: the filters that catch it, when
                     \* it came, its life time, its flag, the rule that concluded
                     \* it (0: it was collected) and how often rules used it
          incident,  \* IncidentDict: the events each filter holds, oldest first
          preserved, \* the events taken from the rules that follow
          level,     \* the level the pass is at, 0 between passes
          todo,      \* rules of the level still to be judged in this sweep
          targets,   \* the rules of the level
          again,     \* newIncident_Flg
          sweeps,    \* newIncidentCount of the level
          fresh      \* whether a level before had a new incident

oaseVars == <<rules, events, incident, preserved, level, todo, targets, again, sweeps, fresh>>

Rules == DOMAIN rules
Event == [in : SUBSET Filters, at : Nat, time : {"valid", "late"},
          flag : {"new", "evaluated", "timeout", "undetected"}, by : Nat, used : Nat]

FiltersOf(r) == {rules[r].a, rules[r].b} \ {"none"}
RulesOf(f) == {r \in Rules : f \in FiltersOf(r)}
Top(f, r) == \A q \in RulesOf(f) : r <= q
IsNew(e) == events[e].flag = "new"
Held(f) == IF f \in DOMAIN incident THEN incident[f] ELSE {}
Oldest(es) == CHOOSE e \in es : \A d \in es : e <= d

OaseTypeOK ==
    /\ rules \in RuleSets
    /\ events \in Seq(Event)
    /\ DOMAIN incident \subseteq Filters
    /\ \A f \in DOMAIN incident : incident[f] \subseteq DOMAIN events
    /\ preserved \subseteq DOMAIN events
    /\ level \in 0..3
    /\ targets \subseteq Rules /\ todo \subseteq targets
    /\ again \in BOOLEAN /\ fresh \in BOOLEAN
    /\ sweeps \in 0..LoopLimit

OaseInit ==
    /\ rules \in RuleSets
    /\ events = <<>>
    /\ incident = <<>>
    /\ preserved = {}
    /\ level = 0
    /\ todo = {} /\ targets = {}
    /\ again = FALSE /\ sweeps = 0 /\ fresh = FALSE

\* The event that filters fs catch, in the second of the last one or later.
Fresh(fs, r, later) ==
    LET last == IF events = <<>> THEN 0 ELSE events[Len(events)].at
    IN  [in |-> fs, at |-> last + later, time |-> "valid", flag |-> "new", by |-> r, used |-> 0]

\* An event is labelled; a pass does not see it before the next one.
Arrive == /\ level = 0
          /\ Cardinality({e \in DOMAIN events : events[e].by = 0}) < MaxArrivals
          /\ \E fs \in SUBSET Filters, later \in {0, 1} :
                events' = Append(events, Fresh(fs, 0, later))
          /\ UNCHANGED <<rules, incident, preserved, level, todo, targets, again, sweeps, fresh>>

-----------------------------------------------------------------------------
(* TargetRuleExtraction *)

\* Rules that nobody with a better priority shares a filter with.
Level1 == {r \in Rules : \A f \in FiltersOf(r) : Top(f, r)}

\* "a, then b" steps back from its filters while a is missing and b waits.
StepsBack(r, f) ==
    /\ rules[r].op = "order"
    /\ Held(rules[r].a) = {}
    /\ f = rules[r].b => \E e \in Held(f) : IsNew(e)

Level2 == {r \in Rules :
            /\ \A f \in FiltersOf(r) : /\ ~StepsBack(r, f)
                                       /\ \A q \in RulesOf(f) : q < r => StepsBack(q, f)
            /\ \E f \in FiltersOf(r) : Cardinality(RulesOf(f)) > 1}

\* Rules whose events run out of time, unless a better one is chosen already.
LateIn(f) == \E e \in Held(f) : IsNew(e) /\ events[e].time = "late"

RunsOut(r) ==
    /\ \A f \in FiltersOf(r) : Held(f) /= {}
    /\ IF rules[r].b = "none"
       THEN LateIn(rules[r].a)
       ELSE \/ LateIn(rules[r].b)
            \/ LateIn(rules[r].a) /\ IsNew(Oldest(Held(rules[r].b)))

Level3 ==
    LET chosen[n \in 0..Len(rules)] ==
          IF n = 0 THEN {}
          ELSE IF RunsOut(n) /\ \A f \in FiltersOf(n) : RulesOf(f) \cap chosen[n - 1] = {}
               THEN chosen[n - 1] \cup {n} ELSE chosen[n - 1]
    IN  {r \in Rules : r \in chosen[r]}

Targets(l) == CASE l = 1 -> Level1 [] l = 2 -> Level2 [] OTHER -> Level3

-----------------------------------------------------------------------------
(* A pass. *)

\* getFilterMatch: the new events the filter catches; a filter that wants one
\* holds none of several.
Match(f, evs) ==
    LET caught == {e \in DOMAIN evs : evs[e].flag = "new" /\ f \in evs[e].in}
    IN  IF f \in SingleFilters /\ Cardinality(caught) > 1 THEN {} ELSE caught

\* The events of a pass, some late and some over: those have timed out.
PassBegins ==
    /\ level = 0
    /\ \E e \in DOMAIN events : IsNew(e)
    /\ \E late, over \in SUBSET {e \in DOMAIN events : IsNew(e)} :
         LET aged == [e \in DOMAIN events |->
                       IF e \in over THEN [events[e] EXCEPT !.flag = "timeout"]
                       ELSE IF e \in late THEN [events[e] EXCEPT !.time = "late"]
                       ELSE events[e]]
             caught == {f \in Filters : \E e \in DOMAIN events :
                                          aged[e].flag = "new" /\ f \in aged[e].in}
         IN  /\ late \cap over = {}
             /\ \A e \in DOMAIN events : IsNew(e) /\ events[e].time = "late" => e \in late \cup over
             /\ events' = aged
             /\ incident' = [f \in caught |-> Match(f, aged)]
    /\ level' = 1
    /\ targets' = Level1 /\ todo' = Level1
    /\ preserved' = {} /\ again' = FALSE /\ sweeps' = 0 /\ fresh' = FALSE
    /\ UNCHANGED rules

\* getFilterJudge: the first new event of the filter nobody has taken, if any.
Candidates(f) == {e \in DOMAIN events : e \in Held(f) \ preserved /\ IsNew(e)}

Picked(f) == {e \in Candidates(f) : \A d \in Candidates(f) : e <= d}

\* The filters of the rule that have one, and their events.
Filled(r) == {f \in FiltersOf(r) : Picked(f) /= {}}
Complete(r) == Filled(r) = FiltersOf(r)
EventsOf(r) == UNION {Picked(f) : f \in FiltersOf(r)}

\* apply_filter
Applies(r) ==
    CASE rules[r].op = "xor" -> Cardinality(Filled(r)) = 1
      [] rules[r].op = "order" ->
           \E e \in Picked(rules[r].a), d \in Picked(rules[r].b) : events[e].at < events[d].at
      [] OTHER -> Complete(r)

\* Both sides of an exclusive or: the filters that hold the events forget them.
Collides(r) == rules[r].op = "xor" /\ Complete(r)

Taken(inc, f) == UNION {inc[g] : g \in DOMAIN inc \cap UNION {FiltersOf(q) : q \in RulesOf(f)}}

\* One filter catches the conclusion c: s is what is held and what is taken.
Catches(s, f, c) ==
    LET held == IF f \in DOMAIN s.inc THEN s.inc[f] ELSE {}
        waits == {e \in held : s.evs[e].flag = "new"}
        Holding(es) == [g \in DOMAIN s.inc \cup {f} |-> IF g = f THEN es ELSE s.inc[g]]
        Taking(inc) == [s EXCEPT !.inc = inc, !.taken = @ \cup Taken(inc, f)]
    IN  CASE f \in DOMAIN s.inc /\ held = {} -> s
          [] f \in SingleFilters /\ waits /= {} ->
               [s EXCEPT !.inc = Holding(held \ waits), !.taken = @ \ held]
          [] OTHER -> Taking(Holding(held \cup {c}))

Concluded(s, r, c) ==
    FoldLeft(LAMBDA t, f : Catches(t, f, c), s, SetToSeq(rules[r].makes))

UsedUnflagged(e) == [events[e] EXCEPT !.used = @ + 1]
Used(e) == [events[e] EXCEPT !.flag = "evaluated", !.used = @ + 1]

\* RuleJudge of the best rule to do.
Judge(r) ==
    /\ r \in todo /\ \A q \in todo : r <= q
    /\ todo' = todo \ {r}
    /\ IF Applies(r)
       THEN LET taken == preserved \cup UNION {Held(f) : f \in FiltersOf(r)}
                marked == [e \in DOMAIN events |-> IF e \in EventsOf(r) THEN Used(e) ELSE events[e]]
                grown(later) == Append(marked, Fresh(rules[r].makes, r, later))
                s(later) == Concluded([inc |-> incident, taken |-> taken, evs |-> grown(later)],
                                      r, Len(grown(later)))
            IN  IF rules[r].acts
                THEN /\ events' = marked
                     /\ preserved' = taken
                     /\ UNCHANGED <<incident, again>>
                ELSE \E later \in {0, 1} :
                     /\ events' = grown(later)
                     /\ incident' = s(later).inc
                     /\ preserved' = s(later).taken
                     /\ again' = TRUE
       ELSE IF Collides(r)
       THEN LET gone == {f \in DOMAIN incident : Held(f) \cap EventsOf(r) /= {}}
            IN  /\ incident' = [f \in DOMAIN incident \ gone |-> incident[f]]
                /\ preserved' = preserved \ UNION {Held(f) : f \in gone}
                /\ UNCHANGED <<events, again>>
       ELSE UNCHANGED <<events, incident, preserved, again>>
    /\ UNCHANGED <<rules, level, targets, sweeps, fresh>>

SweepsLeft == sweeps < LoopLimit

\* The level is gone through again while it had a new incident, up to the limit.
SweepAgain ==
    /\ level > 0 /\ todo = {} /\ again /\ SweepsLeft
    /\ todo' = targets
    /\ again' = FALSE
    /\ sweeps' = sweeps + 1
    /\ UNCHANGED <<rules, events, incident, preserved, level, targets, fresh>>

LevelDone == level > 0 /\ todo = {} /\ (again => ~SweepsLeft)
Renewed == fresh \/ (sweeps > 0 /\ ~again)
CarriedOn == Renewed
Carried == IF level < 3 THEN Renewed ELSE FALSE

LevelUp == level + 1
LevelAfter == IF level < 3 THEN level + 1 ELSE 1

NextLevel ==
    /\ LevelDone
    /\ level < 3 \/ Renewed
    /\ level' = LevelAfter
    /\ targets' = Targets(level') /\ todo' = targets'
    /\ fresh' = Carried
    /\ preserved' = {} /\ again' = FALSE /\ sweeps' = 0
    /\ UNCHANGED <<rules, events, incident>>

\* Late events have timed out; those that no filter holds are unknown.
LeftoverLate(e) == IF events[e].time = "late" THEN [events[e] EXCEPT !.flag = "timeout"]
                   ELSE events[e]
Leftover(e) ==
    IF ~IsNew(e) THEN events[e]
    ELSE IF events[e].time = "late" THEN [events[e] EXCEPT !.flag = "timeout"]
    ELSE IF \A f \in Filters : e \notin Held(f) THEN [events[e] EXCEPT !.flag = "undetected"]
    ELSE events[e]

PassEnds ==
    /\ LevelDone /\ level = 3 /\ ~Renewed
    /\ level' = 0
    /\ events' = [e \in DOMAIN events |-> Leftover(e)]
    /\ incident' = <<>> /\ preserved' = {}
    /\ targets' = {} /\ again' = FALSE /\ sweeps' = 0 /\ fresh' = FALSE
    /\ UNCHANGED <<rules, todo>>

PassGoesOn == (\E r \in Rules : Judge(r)) \/ SweepAgain \/ NextLevel \/ PassEnds
OaseNext == Arrive \/ PassBegins \/ PassGoesOn
OaseSpec == OaseInit /\ [][OaseNext]_oaseVars

\* A pass that has begun goes on by itself.
OaseFairSpec == OaseSpec /\ WF_oaseVars(PassGoesOn)

-----------------------------------------------------------------------------
\* RegisterActionLog: however levels and sweeps repeat and filters overlap, an
\* event is used up by one rule once, in this or a later pass, and then bears the
\* flag of it; no event bears that flag unused.
EventUsedOnce ==
    \A e \in DOMAIN events : events[e].used = IF events[e].flag = "evaluated" THEN 1 ELSE 0

\* An event is judged once: never after it timed out or was found unknown, and
\* what has been used is neither timed out nor unknown later.
JudgedOnce ==
    [][\A e \in DOMAIN events : ~IsNew(e) => events'[e] = events[e]]_oaseVars

\* No conclusion comes back to a rule it stems from.
Founded(rs) ==
    LET Feeds(r, q) == ~rs[r].acts /\ rs[r].makes \cap {rs[q].a, rs[q].b} /= {}
    IN  \E rank \in [DOMAIN rs -> DOMAIN rs] :
          \A r, q \in DOMAIN rs : Feeds(r, q) => rank[r] < rank[q]

\* A pass ends, however rules feed each other with conclusions and whatever
\* exclusive rules and single-event filters give back, if no rule feeds itself.
JudgementEnds == []<>(Founded(rules) => level = 0)
=============================================================================
