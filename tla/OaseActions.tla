----------------------------- MODULE OaseActions -----------------------------
(* What becomes of a judged event in ita_by_oase_conclusion: the main process  *)
(* hands its writes to the writer process, which keeps some of them back;      *)
(* rows of T_OASE_ACTION_LOG start conductors and end with them; either        *)
(* process may die, and an exception may break a pass off.                     *)
EXTENDS Naturals, Sequences, FiniteSets, SequencesExt

CONSTANTS Happenings, \* the labelled events, each of which some rule matches
          Acting,     \* those whose rule has an action
          MaxFaults,  \* how often a process dies or a conclusion is lost
          BufferSize  \* writes MongoBufferedWriter keeps back (100)

ASSUME ActionAssumption ==
    IsFiniteSet(Happenings) /\ Acting \subseteq Happenings
    /\ MaxFaults \in Nat /\ BufferSize \in Nat \ {0}

\* A judgement lost in a fault is made again: a row of its own each time.
LogRows == [of : Happenings, try : 1..MaxFaults + 1]
Acts(l) == l.of \in Acting

\* Writes are asked of the writer: a row, its completion, an event's flag and a
\* conclusion event; "flush" and "finish" also ask for an answer.
Asked(kinds, l) == [i \in DOMAIN kinds |-> [kind |-> kinds[i], row |-> l]]
ToLog(w) == w.kind \in {"insert", "complete"}
Plain(kind) == [kind |-> kind]

VARIABLES evaluated, \* the events flagged in MongoDB
          concluded, \* how often a row's conclusion event is in MongoDB
          logs,      \* STATUS_ID of the rows in the database, or "none"
          linked,    \* the rows that hold the id of a conductor instance
          conductor, \* the conductor instance started for a row
          starts,    \* how often a conductor was started for a row
          main,      \* the main process: where it is, and the rows to do
          cache,     \* the events it has read and not judged yet
          queue,     \* what the writer was asked
          held,      \* writes to MongoDB the writer holds back
          rowBuffer, \* the writes to one row it holds back
          writer,    \* whether it lives
          faults

actionVars == <<evaluated, concluded, logs, linked, conductor, starts, main, cache,
                queue, held, rowBuffer, writer, faults>>
stored == <<evaluated, concluded, logs>>
asking == <<queue, held, rowBuffer, writer>>
doing == <<linked, conductor, starts>>

MainPlaces == {"idle", "judge", "flush", "start", "run", "link", "check", "conclude",
               "finish", "broken"}
At(pc) == main.pc = pc
Goes(pc, todo) == main' = [pc |-> pc, todo |-> todo]

ActionTypeOK ==
    /\ evaluated \subseteq Happenings
    /\ concluded \in [LogRows -> Nat]
    /\ logs \in [LogRows -> {"none", "matched", "executing", "completed", "abend"}]
    /\ linked \subseteq LogRows
    /\ conductor \in [LogRows -> {"none", "running", "normal", "other"}]
    /\ starts \in [LogRows -> Nat]
    /\ main.pc \in MainPlaces /\ ToSet(main.todo) \subseteq LogRows
    /\ cache \subseteq Happenings
    /\ Len(held) <= BufferSize
    /\ \A i, j \in DOMAIN rowBuffer : ToLog(rowBuffer[i]) /\ rowBuffer[i].row = rowBuffer[j].row
    /\ writer \in BOOLEAN
    /\ faults \in 0..MaxFaults

ActionInit ==
    /\ evaluated = {} /\ concluded = [l \in LogRows |-> 0]
    /\ logs = [l \in LogRows |-> "none"]
    /\ linked = {} /\ conductor = [l \in LogRows |-> "none"] /\ starts = [l \in LogRows |-> 0]
    /\ main = [pc |-> "idle", todo |-> <<>>] /\ cache = {}
    /\ queue = <<>> /\ held = <<>> /\ rowBuffer = <<>> /\ writer = TRUE
    /\ faults = 0

-----------------------------------------------------------------------------
(* The writer process. *)

\* What a sequence of writes makes of the stores.
Flagged(ws) == evaluated \cup {w.row.of : w \in {ws[i] : i \in {j \in DOMAIN ws : ws[j].kind = "flag"}}}
Conclusions(ws) == [l \in LogRows |->
    concluded[l] + Cardinality({i \in DOMAIN ws : ws[i] = [kind |-> "conclude", row |-> l]})]
Rows(ws) == [l \in LogRows |->
    IF \E i \in DOMAIN ws : ws[i] = [kind |-> "complete", row |-> l] THEN "completed"
    ELSE IF \E i \in DOMAIN ws : ws[i] = [kind |-> "insert", row |-> l] THEN "matched"
    ELSE logs[l]]

WriteEvents(ws) == evaluated' = Flagged(ws) /\ concluded' = Conclusions(ws)
WriteRow(ws) == logs' = Rows(ws)

FullLate == Len(held) > BufferSize
Full == Len(held) >= BufferSize

\* MongoBufferedWriter: writes are kept back until there are BufferSize of them.
TakeEventWrite ==
    /\ writer /\ queue /= <<>> /\ Head(queue).kind \in {"flag", "conclude"}
    /\ IF Full
       THEN WriteEvents(held) /\ held' = <<Head(queue)>>
       ELSE held' = Append(held, Head(queue)) /\ UNCHANGED <<evaluated, concluded>>
    /\ queue' = Tail(queue)
    /\ UNCHANGED <<logs, doing, main, cache, rowBuffer, writer, faults>>

\* DBBufferedWriter: an update joins the write to the same row held back.
TakeRowWrite ==
    /\ writer /\ queue /= <<>> /\ Head(queue).kind \in {"insert", "complete"}
    /\ IF /\ Head(queue).kind = "complete"
          /\ rowBuffer /= <<>> => Head(rowBuffer).row = Head(queue).row
       THEN rowBuffer' = Append(rowBuffer, Head(queue)) /\ UNCHANGED logs
       ELSE WriteRow(rowBuffer) /\ rowBuffer' = <<Head(queue)>>
    /\ queue' = Tail(queue)
    /\ UNCHANGED <<evaluated, concluded, doing, main, cache, held, writer, faults>>

\* _flush_buffer and _finish_workspace_processing: the events, then the row,
\* then the answer.
Wanted == writer /\ queue /= <<>> /\ Head(queue).kind \in {"flush", "finish"}

FlushEvents ==
    /\ Wanted /\ held /= <<>>
    /\ WriteEvents(held)
    /\ held' = <<>>
    /\ UNCHANGED <<logs, doing, main, cache, queue, rowBuffer, writer, faults>>

FlushRow ==
    /\ Wanted /\ held = <<>> /\ rowBuffer /= <<>>
    /\ WriteRow(rowBuffer)
    /\ rowBuffer' = <<>>
    /\ UNCHANGED <<evaluated, concluded, doing, main, cache, queue, held, writer, faults>>

AnswerEarly ==
    /\ Wanted /\ held = <<>>
    /\ queue' = Tail(queue)
    /\ UNCHANGED <<stored, doing, main, cache, held, rowBuffer, writer, faults>>

Answer ==
    /\ Wanted /\ held = <<>> /\ rowBuffer = <<>>
    /\ queue' = Tail(queue)
    /\ UNCHANGED <<stored, doing, main, cache, held, rowBuffer, writer, faults>>

WriterSteps == TakeEventWrite \/ TakeRowWrite \/ FlushEvents \/ FlushRow \/ Answer

\* A write fails: of the bulk a first part is written, the process dies and what
\* it was asked goes with it.
WriterDies ==
    /\ writer /\ faults < MaxFaults
    /\ faults' = faults + 1
    /\ writer' = FALSE
    /\ \E n \in 0..Len(held) : WriteEvents(SubSeq(held, 1, n))
    /\ queue' = <<>> /\ held' = <<>> /\ rowBuffer' = <<>>
    /\ UNCHANGED <<logs, doing, main, cache>>

-----------------------------------------------------------------------------
(* A pass of the main process. *)

Ask(writes) == queue' = IF writer THEN queue \o writes ELSE queue
Pending(statuses) == SetToSeq({l \in LogRows : logs[l] \in statuses})

\* start_workspace_processing brings a dead writer back, with a new queue.
WorkBegins ==
    /\ At("idle")
    /\ \/ evaluated /= Happenings
       \/ \E l \in LogRows : logs[l] \in {"matched", "executing"}
    /\ writer' = TRUE
    /\ cache' = Happenings \ evaluated
    /\ Goes("judge", <<>>)
    /\ UNCHANGED <<stored, doing, queue, held, rowBuffer, faults>>

\* RegisterActionLog; without an action the conclusion follows at once.
RegisterLog(e) ==
    /\ At("judge") /\ e \in cache /\ writer
    /\ LET l == [of |-> e, try |-> faults + 1]
       IN  Ask(Asked(IF Acts(l) THEN <<"insert", "flag">>
                     ELSE <<"insert", "flag", "conclude", "complete">>, l))
    /\ cache' = cache \ {e}
    /\ UNCHANGED <<stored, doing, main, held, rowBuffer, writer, faults>>

\* backyard_main catches any exception and leaves the rest of the pass out: a
\* judgement with the writer dead, a rule in force whose filter is switched off,
\* which it meets in every pass with events, an error of a database.
PassBreaks ==
    /\ main.pc \in {"judge", "start", "run", "link", "check"}
    /\ Ask(<<Plain("finish")>>)
    /\ Goes("broken", <<>>)
    /\ UNCHANGED <<stored, doing, cache, held, rowBuffer, writer, faults>>

JudgeDone ==
    /\ At("judge") /\ cache = {}
    /\ Ask(<<Plain("flush")>>)
    /\ Goes("flush", <<>>)
    /\ UNCHANGED <<stored, doing, cache, held, rowBuffer, writer, faults>>

\* flush_buffer returns when the writer has answered, or is dead.
Flushed ==
    /\ At("flush") /\ queue = <<>>
    /\ Goes("start", Pending({"matched"}))
    /\ UNCHANGED <<stored, doing, cache, asking, faults>>

MarkExecutingUnwritten ==
    /\ At("start") /\ main.todo /= <<>>
    /\ Goes("run", main.todo)
    /\ UNCHANGED <<evaluated, concluded, logs, doing, cache, asking, faults>>

\* checkRuleMatch: a row is executing before its conductor is started.
MarkExecuting ==
    /\ At("start") /\ main.todo /= <<>>
    /\ logs' = [logs EXCEPT ![Head(main.todo)] = "executing"]
    /\ Goes("run", main.todo)
    /\ UNCHANGED <<evaluated, concluded, doing, cache, asking, faults>>

\* Action.run: registered with the id of the instance in one transaction; by
\* apply_api in a transaction before that; or not at all.
Run ==
    /\ At("run")
    /\ LET l == Head(main.todo)
           Started == /\ conductor' = [conductor EXCEPT ![l] = "running"]
                      /\ starts' = [starts EXCEPT ![l] = @ + 1]
       IN  \/ /\ Started
              /\ linked' = linked \cup {l}
              /\ Goes("start", Tail(main.todo))
              /\ UNCHANGED logs
           \/ /\ Started
              /\ Goes("link", main.todo)
              /\ UNCHANGED <<linked, logs>>
           \/ /\ logs' = [logs EXCEPT ![l] = "abend"]
              /\ Goes("start", Tail(main.todo))
              /\ UNCHANGED doing
    /\ UNCHANGED <<evaluated, concluded, cache, asking, faults>>

Link ==
    /\ At("link")
    /\ linked' = linked \cup {Head(main.todo)}
    /\ Goes("start", Tail(main.todo))
    /\ UNCHANGED <<stored, conductor, starts, cache, asking, faults>>

StartsDoneLinked ==
    /\ At("start") /\ main.todo = <<>>
    /\ Goes("check", SetToSeq({l \in linked : logs[l] = "executing"}))
    /\ UNCHANGED <<stored, doing, cache, asking, faults>>

StartsDone ==
    /\ At("start") /\ main.todo = <<>>
    /\ Goes("check", Pending({"executing"}))
    /\ UNCHANGED <<stored, doing, cache, asking, faults>>

EndedWellAnyhow(l) == l \in linked /\ conductor[l] \in {"normal", "other"}
EndedWell(l) == l \in linked /\ conductor[l] = "normal"

\* checkExecuting: without its conductor a row has failed, and so it has when
\* its rule was disused or switched off in the meantime.
Check ==
    /\ At("check") /\ main.todo /= <<>>
    /\ LET l == Head(main.todo)
       IN  \/ /\ l \in linked /\ conductor[l] = "running"
              /\ Goes("check", Tail(main.todo))
              /\ UNCHANGED logs
           \/ /\ EndedWell(l)
              /\ logs' = [logs EXCEPT ![l] = "completed"]
              /\ Goes("conclude", main.todo)
           \/ /\ logs' = [logs EXCEPT ![l] = "abend"]
              /\ Goes("check", Tail(main.todo))
    /\ UNCHANGED <<evaluated, concluded, doing, cache, asking, faults>>

\* InsertConclusionEvent of the completed row; with the writer dead the pass ends.
Conclude ==
    /\ At("conclude")
    /\ IF writer
       THEN /\ Ask(Asked(<<"conclude">>, Head(main.todo)))
            /\ Goes("check", Tail(main.todo))
       ELSE Goes("broken", <<>>) /\ UNCHANGED queue
    /\ UNCHANGED <<stored, doing, cache, held, rowBuffer, writer, faults>>

\* The notification between a row's completion and its conclusion fails: the row
\* stays completed, without a conclusion.
NoticeBreaks ==
    /\ At("conclude") /\ faults < MaxFaults
    /\ faults' = faults + 1
    /\ Ask(<<Plain("finish")>>)
    /\ Goes("broken", <<>>)
    /\ UNCHANGED <<stored, doing, cache, held, rowBuffer, writer>>

ChecksDone ==
    /\ At("check") /\ main.todo = <<>>
    /\ Ask(<<Plain("finish")>>)
    /\ Goes("finish", <<>>)
    /\ UNCHANGED <<stored, doing, cache, held, rowBuffer, writer, faults>>

\* finish_workspace_processing waits as flush_buffer does.
Finished ==
    /\ main.pc \in {"finish", "broken"} /\ queue = <<>>
    /\ Goes("idle", <<>>)
    /\ cache' = {}
    /\ UNCHANGED <<stored, doing, asking, faults>>

MainSteps == \/ WorkBegins \/ PassBreaks \/ JudgeDone \/ Flushed \/ MarkExecuting \/ Run \/ Link
             \/ StartsDone \/ Check \/ Conclude \/ ChecksDone \/ Finished
             \/ \E e \in Happenings : RegisterLog(e)

\* The container dies, and both processes with it.
BackyardDies ==
    /\ faults < MaxFaults
    /\ faults' = faults + 1
    /\ Goes("idle", <<>>)
    /\ cache' = {} /\ queue' = <<>> /\ held' = <<>> /\ rowBuffer' = <<>> /\ writer' = FALSE
    /\ UNCHANGED <<stored, doing>>

ConductorEnds(l) ==
    /\ conductor[l] = "running"
    /\ \E s \in {"normal", "other"} : conductor' = [conductor EXCEPT ![l] = s]
    /\ UNCHANGED <<stored, linked, starts, main, cache, asking, faults>>

ActionNext == \/ WriterSteps \/ MainSteps \/ NoticeBreaks \/ WriterDies \/ BackyardDies
              \/ \E l \in LogRows : ConductorEnds(l)

ActionSpec == ActionInit /\ [][ActionNext]_actionVars

\* Both processes go on, and conductors end.
ActionFairSpec == /\ ActionSpec
                  /\ WF_actionVars(WriterSteps \/ MainSteps)
                  /\ WF_actionVars(\E l \in LogRows : ConductorEnds(l))

-----------------------------------------------------------------------------
\* A row starts its conductor at most once, whichever process dies in between.
StartedOnce == \A l \in LogRows : starts[l] <= 1

\* The conclusion of a row with an action is an event only after its conductor
\* ended normally, and only once.
ConclusionIsEarned == \A l \in LogRows :
    concluded[l] > 0 => /\ concluded[l] = 1
                        /\ Acts(l) => conductor[l] = "normal" /\ logs[l] = "completed"

\* Between passes, as long as nothing died and no conclusion was lost, whatever
\* passes broke off: an event is flagged when it has its one row, and a row without
\* an action is completed with its conclusion.
NothingHeldBack ==
    faults = 0 /\ At("idle") =>
        /\ \A e \in Happenings : e \in evaluated <=> logs[[of |-> e, try |-> 1]] /= "none"
        /\ \A l \in LogRows : concluded[l] = 1 <=> logs[l] = "completed"

\* Every row ends, whichever process died and whatever passes broke off while it
\* was worked on, unless passes break off again and again: one that breaks off in
\* its judgement does not come to the rows.
Unended == {l \in LogRows : logs[l] \in {"matched", "executing"}}
RowsEnd == []<>(Unended = {} \/ At("broken"))
=============================================================================
