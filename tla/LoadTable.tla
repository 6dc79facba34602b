------------------------------ MODULE LoadTable ------------------------------
(* loadTable: users maintain the records of one menu with requests of one      *)
(* record (rest_maintenance) or several (rest_maintenance_all), each request a *)
(* transaction under locks on T_COMN_RECODE_LOCK_TABLE.  The menu has columns  *)
(* of its own (no DATA_JSON), one unique constraint over a combination of them *)
(* and no file columns.                                                        *)
EXTENDS Naturals, Sequences, FiniteSets

CONSTANTS Users,
          Tables,   \* the tables to begin with
          Records,  \* primary keys
          Columns,  \* the columns that are to be unique together
          Values,   \* what a column holds, "null" besides
          Requests, \* sequences of entries that users send
          MaxTime   \* how many times of update there are

Key == [Columns -> Values \cup {"null"}]

\* What an entry gives is a function of some of the columns, of all, or of none.
Given == UNION {[C -> Values \cup {"null"}] : C \in SUBSET Columns}

\* An entry: its command, its record (of a registration: the one it becomes) and
\* what exclusion_parameter leaves it: a discard and a restoration give nothing.
EntryCommands == {"Register", "Update", "Discard", "Restore", "Delete"}
Entry == [cmd : EntryCommands, row : Records, gives : Given]

ASSUME RequestAssumption ==
    /\ MaxTime \in Nat
    /\ Requests \subseteq Seq(Entry)
    /\ \A q \in Requests : /\ q /= <<>>
                           /\ \A i \in DOMAIN q : q[i].cmd \notin {"Register", "Update"} =>
                                                   DOMAIN q[i].gives = {}

VARIABLES menu,    \* "plain", or it names tables to lock (LOCK_TABLE) and is
                   \* maintained one by one or in bulk
          table,   \* the committed records
          time,    \* the last LAST_UPDATE_TIMESTAMP given
          request, \* of each user: where it is, its entries, the times of update
                   \* they quote, its next entry and whether one had an error
          view     \* of each user: what the transaction sees

loadVars == <<menu, table, time, request, view>>

\* The columns an entry leaves out are as in key.
Over(key, gives) == [c \in Columns |-> IF c \in DOMAIN gives THEN gives[c] ELSE key[c]]
Nothing == [c \in Columns |-> "null"]

Absent == [at |-> 0, key |-> Nothing, disused |-> TRUE]
Row(t, k, d) == [at |-> t, key |-> k, disused |-> d]
NoRequest == [pc |-> "idle", todo |-> <<>>, quoted |-> [r \in Records |-> 0], next |-> 1, failed |-> FALSE]
Blank == [r \in Records |-> Absent]
Exists(t, r) == t[r] /= Absent

\* A unique constraint over the records in use.
KeysUnique(t) == \A r, s \in Records :
    Exists(t, r) /\ Exists(t, s) /\ ~t[r].disused /\ ~t[s].disused /\ t[r].key = t[s].key => r = s

ASSUME TableAssumption ==
    /\ Tables \subseteq [Records -> {Absent} \cup [at : {1}, key : Key, disused : BOOLEAN]]
    /\ \A t \in Tables : KeysUnique(t)

LoadInit ==
    /\ menu \in {"plain", "single", "bulk"}
    /\ table \in Tables
    /\ time = 1
    /\ request = [u \in Users |-> NoRequest]
    /\ view = [u \in Users |-> Blank]

-----------------------------------------------------------------------------
\* table_lock: the own table, or what is listed: rest_maintenance_all adds the
\* own table to the list, rest_maintenance locks the text of the list.
Locks(u) == CASE menu = "plain"  -> {"own"}
              [] menu = "single" -> {"text"}
              [] menu = "bulk"   -> {"own", "other"}

InTransaction(u) == request[u].pc \in {"locked", "looked"}
Free(u) == \A v \in Users : InTransaction(v) => Locks(v) \cap Locks(u) = {}

Registered(q) == {q[i].row : i \in {j \in DOMAIN q : q[j].cmd = "Register"}}

\* A user quotes the times of update of the records it has read.
Send(u) == \E q \in Requests :
    /\ request[u] = NoRequest
    /\ menu /= "plain" => (menu = "single" <=> Len(q) = 1)
    /\ \A i \in DOMAIN q : (q[i].cmd = "Register") /= Exists(table, q[i].row)
    /\ \A v \in Users : Registered(q) \cap Registered(request[v].todo) = {}
    /\ time + Len(q) <= MaxTime
    /\ request' = [request EXCEPT ![u] = [pc |-> "sent", todo |-> q, next |-> 1, failed |-> FALSE,
                                          quoted |-> [r \in Records |-> table[r].at]]]
    /\ UNCHANGED <<menu, table, time, view>>

LockTables(u) == /\ request[u].pc = "sent" /\ Free(u)
           /\ request' = [request EXCEPT ![u].pc = "locked"]
           /\ UNCHANGED <<menu, table, time, view>>

\* The first read fixes what the transaction sees.
Look(u) == /\ request[u].pc = "locked"
           /\ view' = [view EXCEPT ![u] = table]
           /\ request' = [request EXCEPT ![u].pc = "looked"]
           /\ UNCHANGED <<menu, table, time>>

-----------------------------------------------------------------------------
(* exec_maintenance *)

Now(u) == request[u].todo[request[u].next]
Seen(u) == view[u][Now(u).row]

TargetedUnread(u) == Now(u).cmd = "Register" \/ Exists(view[u], Now(u).row)

\* get_target_rows, chk_lastupdatetime and convert_cmd_type.
Targeted(u) == Now(u).cmd = "Register"
            \/ /\ Exists(view[u], Now(u).row)
               /\ Seen(u).at = request[u].quoted[Now(u).row]
               /\ Now(u).cmd = "Discard" => ~Seen(u).disused

\* exec_unique_constraint looks for what the entry gives, a column it leaves out
\* being null and not what the record holds; a restoration, which gives nothing,
\* is looked for as the whole record too (exec_restore_validate).
ComparedRaw(u) == {Over(Nothing, Now(u).gives)}
Compared(u) == {Over(Nothing, Now(u).gives)}
               \cup (IF Now(u).cmd = "Restore" THEN {Seen(u).key} ELSE {})

NotTaken(u) == \A r \in Records \ {Now(u).row} :
    Exists(view[u], r) /\ ~view[u][r].disused => view[u][r].key \notin Compared(u)

\* The record the entry makes: only a discard leaves it out of use.
Made(u) == CASE Now(u).cmd = "Delete" -> Absent
             [] Now(u).cmd = "Register" -> Row(time + 1, Over(Nothing, Now(u).gives), FALSE)
             [] OTHER -> Row(time + 1, Over(Seen(u).key, Now(u).gives), Now(u).cmd = "Discard")

\* What a transaction has written waits for its end.
Written(u) == {request[u].todo[i].row : i \in 1..request[u].next - 1}
Waits(u) == \E v \in Users \ {u} : InTransaction(v) /\ Now(u).row \in Written(v)

\* One entry after the other, those after an error too.
Maintain(u) ==
    /\ request[u].pc = "looked" /\ request[u].next <= Len(request[u].todo)
    /\ ~Waits(u)
    /\ LET good == Targeted(u) /\ NotTaken(u)
       IN  /\ view' = IF good THEN [view EXCEPT ![u][Now(u).row] = Made(u)] ELSE view
           /\ time' = IF good THEN time + 1 ELSE time
           /\ request' = [request EXCEPT ![u].next = @ + 1, ![u].failed = @ \/ ~good]
    /\ UNCHANGED <<menu, table>>

\* Without an error the writes are committed, otherwise rolled back.
Finish(u) ==
    /\ request[u].pc = "looked" /\ request[u].next > Len(request[u].todo)
    /\ table' = IF request[u].failed THEN table
                ELSE [r \in Records |-> IF r \in Written(u) THEN view[u][r] ELSE table[r]]
    /\ request' = [request EXCEPT ![u] = NoRequest]
    /\ view' = [view EXCEPT ![u] = Blank]
    /\ UNCHANGED <<menu, time>>

\* An exception, a dead API process: rolled back.
Breaks(u) ==
    /\ InTransaction(u)
    /\ request' = [request EXCEPT ![u] = NoRequest]
    /\ view' = [view EXCEPT ![u] = Blank]
    /\ UNCHANGED <<menu, table, time>>

LoadNext == \E u \in Users : Send(u) \/ LockTables(u) \/ Look(u) \/ Maintain(u) \/ Finish(u) \/ Breaks(u)
LoadSpec == LoadInit /\ [][LoadNext]_loadVars

-----------------------------------------------------------------------------
Ends(u) == request[u] /= NoRequest /\ request'[u] = NoRequest

\* chk_lastupdatetime: a change replaces the version its user has read, whatever
\* other users and other entries of the request did since; and of a request
\* either every entry changes its record or none does.
NoUpdateLost ==
    [][table' /= table =>
         \E u \in Users : Ends(u) /\ \A r \in Records :
             IF \E i \in DOMAIN request[u].todo : request[u].todo[i].row = r
             THEN table'[r] /= table[r] /\ table[r].at = request[u].quoted[r]
             ELSE table'[r] = table[r]]_loadVars

\* An update that leaves columns of the key out is looked for by a key it does not
\* write: nobody sees to it that the one it writes, with what the record holds in
\* those columns, is free, when it changes the key or puts the record back into use.
Escapes(e) == e.cmd = "Update" /\ LET key == table[e.row].key
                                      written == Over(key, e.gives)
                                  IN  /\ written /= Over(Nothing, e.gives)
                                      /\ table[e.row].disused \/ written /= key
Unchecked(u) == \E i \in DOMAIN request[u].todo : Escapes(request[u].todo[i])

\* exec_unique_constraint: no two records in use ever share a key, in whatever
\* order registrations, discards, restorations and updates of users and of one
\* request take effect, unless the request holds an update that escapes it.
UniqueKept ==
    [][KeysUnique(table) => KeysUnique(table') \/ \E u \in Users : Ends(u) /\ Unchecked(u)]_loadVars
=============================================================================
