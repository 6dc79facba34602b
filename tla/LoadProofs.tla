------------------------------ MODULE LoadProofs ------------------------------
(* The transactions of LoadTable, for any users, records, keys and requests.   *)
EXTENDS LoadTable, TLAPS

Version == [at : Nat, key : Key, disused : BOOLEAN]
Request == [pc : {"idle", "sent", "locked", "looked"}, todo : Requests \cup {<<>>},
            quoted : [Records -> Nat], next : Nat \ {0}, failed : BOOLEAN]

LoadTypeOK == /\ menu \in {"plain", "single", "bulk"}
              /\ time \in Nat
              /\ table \in [Records -> Version]
              /\ request \in [Users -> Request]
              /\ view \in [Users -> [Records -> Version]]

\* A record that exists has been given a time, and none later than the last.
Timed(t) == \A r \in Records : t[r].at <= time /\ (Exists(t, r) => t[r].at > 0)
AllTimed == Timed(table) /\ \A u \in Users : Timed(view[u])

\* The locks of a menu let one user in at a time.
OneInside == \A u, v \in Users : InTransaction(u) /\ InTransaction(v) => u = v

\* What is registered is absent until its user commits it, and promised to no
\* other user; what is changed was there when its user read it.
Promised(u) == \A i \in DOMAIN request[u].todo :
    LET e == request[u].todo[i]
    IN  /\ e.cmd = "Register" => table[e.row] = Absent /\ request[u].quoted[e.row] = 0
        /\ e.cmd /= "Register" => request[u].quoted[e.row] > 0

Apart == \A u, v \in Users : u /= v =>
    Registered(request[u].todo) \cap Registered(request[v].todo) = {}

\* A transaction sees the committed records and what it has written itself, and
\* as long as it has no error it has replaced the versions its user quoted.
Sees(u) == request[u].pc = "looked" =>
    /\ request[u].next <= Len(request[u].todo) + 1
    /\ \A r \in Records : r \notin Written(u) => view[u][r] = table[r]
    /\ ~request[u].failed => \A r \in Written(u) :
         table[r].at = request[u].quoted[r] /\ view[u][r].at /= request[u].quoted[r]

\* A request that is under way has not begun before it is looked at.
Begun(u) == /\ request[u].pc = "idle" => request[u] = NoRequest
            /\ request[u].pc \in {"sent", "locked"} => request[u].next = 1 /\ ~request[u].failed

LoadInv == /\ LoadTypeOK /\ AllTimed /\ OneInside /\ Apart
           /\ \A u \in Users : Promised(u) /\ Sees(u) /\ Begun(u)

-----------------------------------------------------------------------------
(* Requests *)

LEMMA RequestIsSeq ==
  ASSUME NEW q \in Requests \cup {<<>>}
  PROVE  /\ q \in Seq(Entry)
         /\ \A i \in DOMAIN q : q[i] \in Entry /\ q[i].row \in Records
<1>1. q \in Seq(Entry)
  <2>1. CASE q \in Requests
    BY <2>1, RequestAssumption
  <2>2. CASE q = <<>>
    BY <2>2
  <2>3. QED
    BY <2>1, <2>2
<1>2. \A i \in DOMAIN q : q[i] \in Entry
  BY <1>1
<1>3. QED
  BY <1>1, <1>2 DEF Entry

LEMMA NothingIsKey == Nothing \in Key
BY DEF Nothing, Key

LEMMA AbsentIsVersion == Absent \in Version /\ Absent.at = 0
BY NothingIsKey DEF Absent, Version

\* What an entry gives and a key make a key.
LEMMA OverIsKey ==
  ASSUME NEW k \in Key, NEW g \in Given
  PROVE  Over(k, g) \in Key
<1>1. PICK C \in SUBSET Columns : g \in [C -> Values \cup {"null"}]
  BY DEF Given
<1>2. \A c \in Columns : (IF c \in DOMAIN g THEN g[c] ELSE k[c]) \in Values \cup {"null"}
  BY <1>1 DEF Key
<1>3. QED
  BY <1>2 DEF Over, Key

\* An entry that gives nothing leaves the key as it is.
LEMMA OverNothing ==
  ASSUME NEW k \in Key, NEW g, DOMAIN g = {}
  PROVE  Over(k, g) = k
BY DEF Over, Key

LEMMA NoRequestIsRequest ==
  /\ NoRequest \in Request
  /\ NoRequest.pc = "idle" /\ NoRequest.todo = <<>>
BY DEF NoRequest, Request

LEMMA LoadInvInit == LoadInit => LoadInv
<1> SUFFICES ASSUME LoadInit PROVE LoadInv
  OBVIOUS
<1>1. LoadTypeOK
  <2>1. table \in [Records -> {Absent} \cup [at : {1}, key : Key, disused : BOOLEAN]]
    BY TableAssumption DEF LoadInit
  <2>2. \A r \in Records : table[r] \in Version
    BY <2>1, AbsentIsVersion DEF Version
  <2>3. table \in [Records -> Version]
    BY <2>1, <2>2
  <2>4. Blank \in [Records -> Version]
    BY AbsentIsVersion DEF Blank
  <2>5. QED
    BY <2>3, <2>4, NoRequestIsRequest DEF LoadInit, LoadTypeOK
<1>2. AllTimed
  <2>1. \A r \in Records : table[r] = Absent \/ table[r].at = 1
    BY TableAssumption DEF LoadInit
  <2>2. Timed(table)
    BY <2>1, AbsentIsVersion DEF LoadInit, Timed, Exists
  <2>3. \A u \in Users : Timed(view[u])
    BY AbsentIsVersion DEF LoadInit, Timed, Exists, Blank
  <2>4. QED
    BY <2>2, <2>3 DEF AllTimed
<1>3. OneInside
  BY NoRequestIsRequest DEF LoadInit, OneInside, InTransaction
<1>4. Apart
  BY NoRequestIsRequest DEF LoadInit, Apart, Registered
<1>5. \A u \in Users : Promised(u) /\ Sees(u) /\ Begun(u)
  BY NoRequestIsRequest DEF LoadInit, Promised, Sees, Begun
<1>6. QED
  BY <1>1, <1>2, <1>3, <1>4, <1>5 DEF LoadInv

-----------------------------------------------------------------------------
(* Steps *)

\* A user nobody touches keeps its part while the table stays.
LEMMA Unaffected ==
  ASSUME NEW v \in Users, Promised(v), Sees(v), Begun(v),
         request'[v] = request[v], view'[v] = view[v], UNCHANGED table
  PROVE  Promised(v)' /\ Sees(v)' /\ Begun(v)'
BY DEF Promised, Sees, Begun, Written

LEMMA InvSend ==
  ASSUME LoadInv, NEW u \in Users, Send(u)
  PROVE  LoadInv'
<1>1. PICK q \in Requests :
         /\ request[u] = NoRequest
         /\ \A i \in DOMAIN q : (q[i].cmd = "Register") /= Exists(table, q[i].row)
         /\ \A v \in Users : Registered(q) \cap Registered(request[v].todo) = {}
         /\ request' = [request EXCEPT ![u] =
                          [pc |-> "sent", todo |-> q, next |-> 1, failed |-> FALSE,
                           quoted |-> [r \in Records |-> table[r].at]]]
  BY DEF Send
<1>2. UNCHANGED <<menu, table, time, view>>
  BY DEF Send
<1> DEFINE sent == [pc |-> "sent", todo |-> q, next |-> 1, failed |-> FALSE,
                    quoted |-> [r \in Records |-> table[r].at]]
<1>3. /\ request'[u] = sent
      /\ \A v \in Users : v /= u => request'[v] = request[v]
  BY <1>1 DEF LoadInv, LoadTypeOK
<1>4. LoadTypeOK'
  <2>1. [r \in Records |-> table[r].at] \in [Records -> Nat]
    BY DEF LoadInv, LoadTypeOK, Version
  <2>2. sent \in Request
    BY <2>1 DEF Request
  <2>3. QED
    BY <1>1, <1>2, <2>2 DEF LoadInv, LoadTypeOK
<1>5. AllTimed'
  BY <1>2 DEF LoadInv, AllTimed, Timed, Exists
<1>6. OneInside'
  BY <1>3 DEF LoadInv, OneInside, InTransaction
<1>7. Apart'
  BY <1>1, <1>3 DEF LoadInv, Apart
<1>8. Promised(u)' /\ Sees(u)' /\ Begun(u)'
  <2>1. \A i \in DOMAIN q : q[i].row \in Records
    BY RequestIsSeq
  <2>2. Promised(u)'
    BY <1>1, <1>2, <1>3, <2>1, AbsentIsVersion DEF Promised, Exists, LoadInv, AllTimed, Timed
  <2>3. Sees(u)' /\ Begun(u)'
    BY <1>3 DEF Sees, Begun
  <2>4. QED
    BY <2>2, <2>3
<1>9. \A v \in Users : v /= u => Promised(v)' /\ Sees(v)' /\ Begun(v)'
  BY <1>2, <1>3, Unaffected DEF LoadInv
<1>10. QED
  BY <1>4, <1>5, <1>6, <1>7, <1>8, <1>9 DEF LoadInv

\* All users of a menu ask for the same locks.
LEMMA InvLockTables ==
  ASSUME LoadInv, NEW u \in Users, LockTables(u)
  PROVE  LoadInv'
<1>1. /\ request[u].pc = "sent" /\ Free(u)
      /\ request' = [request EXCEPT ![u].pc = "locked"]
      /\ UNCHANGED <<menu, table, time, view>>
  BY DEF LockTables
<1>2. /\ request'[u] = [request[u] EXCEPT !.pc = "locked"]
      /\ \A v \in Users : v /= u => request'[v] = request[v]
  BY <1>1 DEF LoadInv, LoadTypeOK
<1>3. request[u] \in Request
  BY DEF LoadInv, LoadTypeOK
<1>4. LoadTypeOK'
  <2>1. [request[u] EXCEPT !.pc = "locked"] \in Request
    BY <1>3 DEF Request
  <2>2. QED
    BY <1>1, <2>1 DEF LoadInv, LoadTypeOK
<1>5. AllTimed'
  BY <1>1 DEF LoadInv, AllTimed, Timed, Exists
<1>6. OneInside'
  <2>1. \A v \in Users : ~InTransaction(v)
    <3>1. \A v \in Users : Locks(v) \cap Locks(u) /= {}
      BY DEF Locks, LoadInv, LoadTypeOK
    <3>2. QED
      BY <1>1, <3>1 DEF Free
  <2>2. QED
    BY <1>2, <2>1 DEF OneInside, InTransaction
<1>7. /\ request'[u].todo = request[u].todo /\ request'[u].quoted = request[u].quoted
      /\ request'[u].next = request[u].next /\ request'[u].failed = request[u].failed
      /\ request'[u].pc = "locked"
  BY <1>2, <1>3 DEF Request
<1>8. Apart'
  BY <1>2, <1>7 DEF LoadInv, Apart
<1>9. Promised(u)' /\ Sees(u)' /\ Begun(u)'
  BY <1>1, <1>7 DEF LoadInv, Promised, Sees, Begun
<1>10. \A v \in Users : v /= u => Promised(v)' /\ Sees(v)' /\ Begun(v)'
  BY <1>1, <1>2, Unaffected DEF LoadInv
<1>11. QED
  BY <1>4, <1>5, <1>6, <1>8, <1>9, <1>10 DEF LoadInv

LEMMA InvLook ==
  ASSUME LoadInv, NEW u \in Users, Look(u)
  PROVE  LoadInv'
<1>1. /\ request[u].pc = "locked"
      /\ view' = [view EXCEPT ![u] = table]
      /\ request' = [request EXCEPT ![u].pc = "looked"]
      /\ UNCHANGED <<menu, table, time>>
  BY DEF Look
<1>2. /\ request'[u] = [request[u] EXCEPT !.pc = "looked"]
      /\ view'[u] = table
      /\ \A v \in Users : v /= u => request'[v] = request[v] /\ view'[v] = view[v]
  BY <1>1 DEF LoadInv, LoadTypeOK
<1>3. request[u] \in Request
  BY DEF LoadInv, LoadTypeOK
<1>4. LoadTypeOK'
  <2>1. [request[u] EXCEPT !.pc = "looked"] \in Request
    BY <1>3 DEF Request
  <2>2. QED
    BY <1>1, <2>1 DEF LoadInv, LoadTypeOK
<1>5. AllTimed'
  <2>1. Timed(table)' /\ Timed(view[u])'
    BY <1>1, <1>2 DEF LoadInv, AllTimed, Timed, Exists
  <2>2. \A v \in Users : v /= u => Timed(view[v])'
    BY <1>1, <1>2 DEF LoadInv, AllTimed, Timed, Exists
  <2>3. QED
    BY <2>1, <2>2 DEF AllTimed
<1>6. /\ request'[u].todo = request[u].todo /\ request'[u].quoted = request[u].quoted
      /\ request'[u].next = request[u].next /\ request'[u].failed = request[u].failed
      /\ request'[u].pc = "looked"
  BY <1>2, <1>3 DEF Request
<1>7. OneInside'
  BY <1>1, <1>2, <1>6 DEF LoadInv, OneInside, InTransaction
<1>8. Apart'
  <2>1. \A v \in Users : request'[v].todo = request[v].todo
    BY <1>2, <1>6
  <2>2. QED
    BY <2>1 DEF LoadInv, Apart
<1>9. Promised(u)' /\ Begun(u)'
  BY <1>1, <1>6 DEF LoadInv, Promised, Begun
<1>10. Sees(u)'
  <2>1. request'[u].next = 1 /\ Len(request'[u].todo) \in Nat
    <3>1. request[u].todo \in Seq(Entry)
      BY <1>3, RequestIsSeq DEF Request
    <3>2. QED
      BY <1>1, <1>6, <3>1 DEF LoadInv, Begun
  <2>2. Written(u)' = {}
    BY <2>1 DEF Written
  <2>3. QED
    BY <1>1, <1>2, <2>1, <2>2 DEF Sees
<1>11. \A v \in Users : v /= u => Promised(v)' /\ Sees(v)' /\ Begun(v)'
  BY <1>1, <1>2, Unaffected DEF LoadInv
<1>12. QED
  BY <1>4, <1>5, <1>7, <1>8, <1>9, <1>10, <1>11 DEF LoadInv

\* Whoever ends gives up its part.
LEMMA Resting ==
  ASSUME NEW u \in Users, request'[u] = NoRequest
  PROVE  Promised(u)' /\ Sees(u)' /\ Begun(u)'
BY NoRequestIsRequest DEF Promised, Sees, Begun

LEMMA InvEnds ==
  ASSUME LoadInv, NEW u \in Users,
         request' = [request EXCEPT ![u] = NoRequest],
         view' = [view EXCEPT ![u] = Blank],
         UNCHANGED <<menu, time>>,
         table' \in [Records -> Version], Timed(table'),
         \A v \in Users : v /= u => Promised(v)' /\ Sees(v)' /\ Begun(v)'
  PROVE  LoadInv'
<1>1. /\ request'[u] = NoRequest /\ view'[u] = Blank
      /\ \A v \in Users : v /= u => request'[v] = request[v] /\ view'[v] = view[v]
  BY DEF LoadInv, LoadTypeOK
<1>2. LoadTypeOK'
  <2>1. Blank \in [Records -> Version]
    BY AbsentIsVersion DEF Blank
  <2>2. QED
    BY <2>1, NoRequestIsRequest DEF LoadInv, LoadTypeOK
<1>3. AllTimed'
  <2>1. Timed(table)'
    BY DEF Timed
  <2>2. Timed(view[u])'
    BY <1>1, AbsentIsVersion DEF Timed, Exists, Blank, LoadInv, LoadTypeOK
  <2>3. \A v \in Users : v /= u => Timed(view[v])'
    BY <1>1 DEF LoadInv, AllTimed, Timed, Exists
  <2>4. QED
    BY <2>1, <2>2, <2>3 DEF AllTimed
<1>4. OneInside'
  BY <1>1, NoRequestIsRequest DEF LoadInv, OneInside, InTransaction
<1>5. Apart'
  <2>1. Registered(request'[u].todo) = {}
    BY <1>1, NoRequestIsRequest DEF Registered
  <2>2. QED
    BY <1>1, <2>1 DEF LoadInv, Apart
<1>6. QED
  BY <1>1, <1>2, <1>3, <1>4, <1>5, Resting DEF LoadInv

LEMMA InvBreaks ==
  ASSUME LoadInv, NEW u \in Users, Breaks(u)
  PROVE  LoadInv'
<1>1. /\ request' = [request EXCEPT ![u] = NoRequest]
      /\ view' = [view EXCEPT ![u] = Blank]
      /\ UNCHANGED <<menu, time>> /\ UNCHANGED table
  BY DEF Breaks
<1>2. \A v \in Users : v /= u => request'[v] = request[v] /\ view'[v] = view[v]
  BY <1>1 DEF LoadInv, LoadTypeOK
<1>3. \A v \in Users : v /= u => Promised(v)' /\ Sees(v)' /\ Begun(v)'
  BY <1>1, <1>2, Unaffected DEF LoadInv
<1>4. table' \in [Records -> Version] /\ Timed(table')
  BY <1>1 DEF LoadInv, LoadTypeOK, AllTimed, Timed
<1>5. QED
  BY <1>1, <1>3, <1>4, InvEnds

\* exec_maintenance: an entry without an error replaces the version its user
\* quoted, which neither another user nor an entry before has replaced.
LEMMA InvMaintain ==
  ASSUME LoadInv, NEW u \in Users, Maintain(u)
  PROVE  LoadInv'
<1> DEFINE good == Targeted(u) /\ NotTaken(u)
           row == Now(u).row
           n == request[u].next
           todo == request[u].todo
<1>1. /\ request[u].pc = "looked" /\ n <= Len(todo)
      /\ view' = IF good THEN [view EXCEPT ![u][row] = Made(u)] ELSE view
      /\ time' = IF good THEN time + 1 ELSE time
      /\ request' = [request EXCEPT ![u].next = @ + 1, ![u].failed = @ \/ ~good]
      /\ UNCHANGED <<menu, table>>
  BY DEF Maintain
<1>2. /\ request[u] \in Request /\ view[u] \in [Records -> Version]
      /\ time \in Nat /\ table \in [Records -> Version]
  BY DEF LoadInv, LoadTypeOK
<1>3. /\ todo \in Seq(Entry) /\ n \in Nat \ {0} /\ n \in DOMAIN todo
      /\ todo[n] = Now(u) /\ Now(u) \in Entry /\ row \in Records
  <2>1. todo \in Seq(Entry) /\ n \in Nat \ {0}
    BY <1>2, RequestIsSeq DEF Request
  <2>2. n \in DOMAIN todo
    BY <1>1, <2>1
  <2>3. QED
    BY <1>2, <2>1, <2>2, RequestIsSeq DEF Now, Request
<1>4. /\ request'[u] = [request[u] EXCEPT !.next = n + 1, !.failed = @ \/ ~good]
      /\ \A v \in Users : v /= u => request'[v] = request[v] /\ view'[v] = view[v]
      /\ good => view'[u] = [view[u] EXCEPT ![row] = Made(u)]
      /\ ~good => view' = view
  BY <1>1, <1>2 DEF LoadInv, LoadTypeOK
<1>5. /\ request'[u].pc = "looked" /\ request'[u].todo = todo
      /\ request'[u].quoted = request[u].quoted /\ request'[u].next = n + 1
      /\ request'[u].failed = (request[u].failed \/ ~good)
      /\ request'[u] \in Request
  <2> DEFINE e == request[u].failed \/ ~good
  <2>1. e \in BOOLEAN
    OBVIOUS
  <2>2. request'[u] = [request[u] EXCEPT !.next = request[u].next + 1, !.failed = e]
    BY <1>4
  <2>3. request'[u].failed = e => request'[u].failed = (request[u].failed \/ ~good)
    OBVIOUS
  <2> HIDE DEF e, good
  <2>4. /\ request'[u].pc = request[u].pc /\ request'[u].todo = todo
        /\ request'[u].quoted = request[u].quoted /\ request'[u].next = n + 1
        /\ request'[u].failed = e /\ request'[u] \in Request
    <3>1. request[u].next + 1 \in Nat \ {0}
      BY <1>3
    <3>2. /\ request'[u].pc = request[u].pc /\ request'[u].todo = todo
          /\ request'[u].quoted = request[u].quoted /\ request'[u].next = n + 1
          /\ request'[u].failed = e
      BY <1>2, <2>2 DEF Request
    <3>3. request'[u] \in Request
      BY <1>2, <2>1, <2>2, <3>1 DEF Request
    <3>4. QED
      BY <3>2, <3>3
  <2>5. QED
    BY <1>1, <2>3, <2>4
<1>6. good => /\ Made(u) \in Version /\ Made(u).at <= time + 1
              /\ Made(u) /= Absent => Made(u).at > 0
              /\ Made(u).at /= request[u].quoted[row]
              /\ row \notin Written(u) => table[row].at = request[u].quoted[row]
              /\ request[u].failed \/ row \notin Written(u) \/ Now(u).cmd = "Register"
  <2> SUFFICES ASSUME good
               PROVE  /\ Made(u) \in Version /\ Made(u).at <= time + 1
                      /\ Made(u) /= Absent => Made(u).at > 0
                      /\ Made(u).at /= request[u].quoted[row]
                      /\ row \notin Written(u) => table[row].at = request[u].quoted[row]
                      /\ request[u].failed \/ row \notin Written(u) \/ Now(u).cmd = "Register"
    OBVIOUS
  <2>1. /\ \A k \in Key, d \in BOOLEAN : Row(time + 1, k, d) \in Version
        /\ \A k, d : Row(time + 1, k, d).at = time + 1
    BY <1>2 DEF Row, Version
  <2>2. CASE Now(u).cmd = "Register"
    <3>1. table[row] = Absent /\ request[u].quoted[row] = 0
      BY <1>3, <2>2 DEF LoadInv, Promised
    <3>2. /\ Made(u) = Row(time + 1, Over(Nothing, Now(u).gives), FALSE)
          /\ Over(Nothing, Now(u).gives) \in Key
      BY <1>3, <2>2, NothingIsKey, OverIsKey DEF Made, Entry
    <3>3. Made(u) \in Version /\ Made(u).at = time + 1
      BY <2>1, <3>2
    <3>4. QED
      BY <1>2, <2>2, <3>1, <3>3, AbsentIsVersion
  <2>3. CASE Now(u).cmd /= "Register"
    <3>1. Exists(view[u], row) /\ view[u][row].at = request[u].quoted[row]
      BY <2>3 DEF Targeted, Seen
    <3>2. /\ view[u][row] \in Version /\ view[u][row].at \in Nat
          /\ view[u][row].at <= time /\ view[u][row].at > 0
      BY <1>2, <1>3, <3>1 DEF LoadInv, AllTimed, Timed, Version
    <3>3. Over(Seen(u).key, Now(u).gives) \in Key
      BY <1>3, <3>2, OverIsKey DEF Entry, Seen, Version
    <3>4. \/ Made(u) = Absent
          \/ \E k \in Key, d \in BOOLEAN : Made(u) = Row(time + 1, k, d)
      <4>1. (Now(u).cmd = "Discard") \in BOOLEAN
        OBVIOUS
      <4>2. CASE Now(u).cmd = "Delete"
        BY <4>2 DEF Made
      <4>3. CASE Now(u).cmd /= "Delete"
        <5>1. Made(u) = Row(time + 1, Over(Seen(u).key, Now(u).gives), Now(u).cmd = "Discard")
          BY <2>3, <4>3 DEF Made
        <5>2. QED
          BY <3>3, <4>1, <5>1
      <4>4. QED
        BY <4>2, <4>3
    <3>5. row \notin Written(u) => table[row].at = request[u].quoted[row]
      BY <1>1, <1>3, <3>1 DEF LoadInv, Sees
    <3>6. request[u].failed \/ row \notin Written(u)
      BY <1>1, <3>1 DEF LoadInv, Sees
    <3>7. QED
      BY <1>2, <2>1, <3>1, <3>2, <3>4, <3>5, <3>6, AbsentIsVersion
  <2>4. QED
    BY <2>2, <2>3
<1> HIDE DEF good
<1>7. LoadTypeOK'
  <2>1. view'[u] \in [Records -> Version]
    BY <1>2, <1>4, <1>6
  <2>2. view' \in [Users -> [Records -> Version]]
    BY <1>1, <1>6, <2>1 DEF LoadInv, LoadTypeOK
  <2>3. request' \in [Users -> Request]
    BY <1>1, <1>5 DEF LoadInv, LoadTypeOK
  <2>4. QED
    BY <1>1, <1>2, <2>2, <2>3 DEF LoadInv, LoadTypeOK
<1>8. AllTimed'
  <2>1. time' \in Nat /\ time <= time' /\ (good => time' = time + 1)
    BY <1>1, <1>2
  <2>2. \A t \in [Records -> Version] : Timed(t) => Timed(t)'
    BY <1>2, <2>1 DEF Timed, Exists, Version
  <2>3. Timed(view[u])'
    <3>1. CASE good
      <4>1. ASSUME NEW r \in Records
            PROVE  view'[u][r].at <= time' /\ (Exists(view'[u], r) => view'[u][r].at > 0)
        <5>1. CASE r = row
          BY <1>2, <1>4, <1>6, <2>1, <3>1, <5>1 DEF Exists
        <5>2. CASE r /= row
          <6>1. view'[u][r] = view[u][r]
            BY <1>2, <1>4, <3>1, <5>2
          <6>2. view[u][r].at \in Nat
            BY <1>2 DEF Version
          <6>3. QED
            BY <1>2, <2>1, <6>1, <6>2 DEF LoadInv, AllTimed, Timed, Exists
        <5>3. QED
          BY <5>1, <5>2
      <4>2. QED
        BY <4>1 DEF Timed
    <3>2. CASE ~good
      BY <1>2, <1>4, <2>2, <3>2 DEF LoadInv, AllTimed, Timed, Exists
    <3>3. QED
      BY <3>1, <3>2
  <2>4. \A v \in Users : v /= u => Timed(view[v])'
    <3>1. SUFFICES ASSUME NEW v \in Users, v /= u
                   PROVE  Timed(view[v])'
      OBVIOUS
    <3>2. \A r \in Records : view[v][r].at \in Nat
      BY DEF LoadInv, LoadTypeOK, Version
    <3>3. QED
      BY <1>2, <1>4, <2>1, <3>1, <3>2 DEF LoadInv, AllTimed, Timed, Exists
  <2>5. Timed(table)'
    <3>1. \A r \in Records : table[r].at \in Nat
      BY <1>2 DEF Version
    <3>2. QED
      BY <1>1, <1>2, <2>1, <3>1 DEF LoadInv, AllTimed, Timed, Exists
  <2>6. QED
    BY <2>3, <2>4, <2>5 DEF AllTimed
<1>9. OneInside'
  BY <1>1, <1>4, <1>5 DEF LoadInv, OneInside, InTransaction
<1>10. Apart'
  <2>1. \A v \in Users : request'[v].todo = request[v].todo
    BY <1>4, <1>5
  <2>2. QED
    BY <2>1 DEF LoadInv, Apart
<1>11. Promised(u)' /\ Begun(u)'
  <2>1. Promised(u)'
    BY <1>1, <1>5 DEF LoadInv, Promised
  <2>2. QED
    BY <1>5, <2>1 DEF Begun
<1>12. Sees(u)'
  <2>1. Written(u)' = Written(u) \cup {row}
    <3>1. (1..(n + 1) - 1) = (1..n - 1) \cup {n}
      BY <1>3
    <3>2. QED
      BY <1>3, <1>5, <3>1 DEF Written
  <2>2. request'[u].next <= Len(request'[u].todo) + 1
    BY <1>1, <1>3, <1>5
  <2>3. \A r \in Records : r /= row => view'[u][r] = view[u][r]
    BY <1>2, <1>4
  <2>4. \A r \in Records : r \notin Written(u)' => view'[u][r] = table'[r]
    BY <1>1, <2>1, <2>3 DEF LoadInv, Sees
  <2>5. ASSUME ~request'[u].failed, NEW r \in Written(u)'
        PROVE  /\ table'[r].at = request'[u].quoted[r]
               /\ view'[u][r].at /= request'[u].quoted[r]
    <3>1. good /\ ~request[u].failed
      BY <1>5, <2>5
    <3>2. CASE r = row
      <4>1. view'[u][row] = Made(u)
        BY <1>2, <1>3, <1>4, <3>1
      <4>2. table[row].at = request[u].quoted[row]
        BY <1>1, <1>6, <3>1 DEF LoadInv, Sees
      <4>3. QED
        BY <1>1, <1>5, <1>6, <3>1, <3>2, <4>1, <4>2
    <3>3. CASE r /= row
      <4>1. r \in Written(u) /\ r \in Records
        <5>1. r \in Written(u)
          BY <2>1, <3>3
        <5>2. \A i \in 1..n - 1 : todo[i] \in Entry
          BY <1>1, <1>3
        <5>3. QED
          BY <5>1, <5>2 DEF Written, Entry
      <4>2. QED
        BY <1>1, <1>5, <2>3, <3>1, <3>3, <4>1 DEF LoadInv, Sees
    <3>4. QED
      BY <3>2, <3>3
  <2>6. QED
    BY <1>5, <2>2, <2>4, <2>5 DEF Sees
<1>13. \A v \in Users : v /= u => Promised(v)' /\ Sees(v)' /\ Begun(v)'
  BY <1>1, <1>4, Unaffected DEF LoadInv
<1>14. QED
  BY <1>7, <1>8, <1>9, <1>10, <1>11, <1>12, <1>13 DEF LoadInv

\* What a user commits replaces what it quoted, and nothing that is promised.
LEMMA Commits ==
  ASSUME LoadInv, NEW u \in Users, Finish(u), ~request[u].failed, NEW r \in Records
  PROVE  /\ r \in Written(u) <=> \E i \in DOMAIN request[u].todo : request[u].todo[i].row = r
         /\ r \in Written(u) => /\ table'[r] = view[u][r] /\ table'[r] /= table[r]
                                /\ table[r].at = request[u].quoted[r]
         /\ r \notin Written(u) => table'[r] = table[r]
<1> DEFINE todo == request[u].todo
           n == request[u].next
<1>1. /\ request[u].pc = "looked" /\ n > Len(todo)
      /\ table' = [s \in Records |-> IF s \in Written(u) THEN view[u][s] ELSE table[s]]
  BY DEF Finish
<1>2. todo \in Seq(Entry) /\ n \in Nat \ {0}
  BY RequestIsSeq DEF LoadInv, LoadTypeOK, Request
<1>3. n <= Len(todo) + 1
  BY <1>1 DEF LoadInv, Sees
<1>4. (1..n - 1) = DOMAIN todo
  BY <1>1, <1>2, <1>3
<1>5. r \in Written(u) <=> \E i \in DOMAIN todo : todo[i].row = r
  BY <1>4 DEF Written
<1>6. r \in Written(u) => /\ table'[r] = view[u][r] /\ table'[r] /= table[r]
                          /\ table[r].at = request[u].quoted[r]
  BY <1>1 DEF LoadInv, Sees
<1>7. r \notin Written(u) => table'[r] = table[r]
  BY <1>1
<1>8. QED
  BY <1>5, <1>6, <1>7

LEMMA InvFinish ==
  ASSUME LoadInv, NEW u \in Users, Finish(u)
  PROVE  LoadInv'
<1>1. /\ request[u].pc = "looked"
      /\ request' = [request EXCEPT ![u] = NoRequest]
      /\ view' = [view EXCEPT ![u] = Blank]
      /\ UNCHANGED <<menu, time>>
      /\ request[u].failed => table' = table
      /\ ~request[u].failed =>
           table' = [r \in Records |-> IF r \in Written(u) THEN view[u][r] ELSE table[r]]
  BY DEF Finish
<1>2. \A v \in Users : v /= u => request'[v] = request[v] /\ view'[v] = view[v]
  BY <1>1 DEF LoadInv, LoadTypeOK
<1>3. table' \in [Records -> Version] /\ Timed(table')
  <2>1. CASE request[u].failed
    BY <1>1, <2>1 DEF LoadInv, LoadTypeOK, AllTimed, Timed
  <2>2. CASE ~request[u].failed
    <3>1. \A r \in Records : table'[r] = view[u][r] \/ table'[r] = table[r]
      BY <1>1, <2>2
    <3>2. table' \in [Records -> Version]
      BY <1>1, <2>2 DEF LoadInv, LoadTypeOK
    <3>3. Timed(table')
      BY <3>1 DEF LoadInv, AllTimed, Timed, Exists
    <3>4. QED
      BY <3>2, <3>3
  <2>3. QED
    BY <2>1, <2>2
<1>4. ASSUME NEW v \in Users, v /= u
      PROVE  Promised(v)' /\ Sees(v)' /\ Begun(v)'
  <2>1. CASE request[u].failed
    BY <1>1, <1>2, <1>4, <2>1, Unaffected DEF LoadInv
  <2>2. CASE ~request[u].failed
    <3>1. request[v].pc /= "looked"
      BY <1>1, <1>4 DEF LoadInv, OneInside, InTransaction
    <3>2. Sees(v)' /\ Begun(v)'
      BY <1>2, <1>4, <3>1 DEF LoadInv, Sees, Begun
    <3>3. ASSUME NEW i \in DOMAIN request[v].todo, request[v].todo[i].cmd = "Register"
          PROVE  table'[request[v].todo[i].row] = Absent
      <4> DEFINE r == request[v].todo[i].row
      <4>1. r \in Records
        BY RequestIsSeq DEF LoadInv, LoadTypeOK, Request
      <4>2. table[r] = Absent /\ r \in Registered(request[v].todo)
        BY <3>3 DEF LoadInv, Promised, Registered
      <4>3. r \notin Registered(request[u].todo)
        BY <1>4, <4>2 DEF LoadInv, Apart
      <4>4. \A j \in DOMAIN request[u].todo : request[u].todo[j].row = r =>
              request[u].todo[j].cmd /= "Register" /\ request[u].quoted[r] > 0
        BY <4>3 DEF LoadInv, Promised, Registered
      <4>5. r \notin Written(u)
        BY <2>2, <4>1, <4>2, <4>4, Commits, AbsentIsVersion
      <4>6. QED
        BY <2>2, <4>1, <4>2, <4>5, Commits
    <3>4. Promised(v)'
      BY <1>2, <1>4, <3>3 DEF LoadInv, Promised
    <3>5. QED
      BY <3>2, <3>4
  <2>3. QED
    BY <2>1, <2>2
<1>5. QED
  BY <1>1, <1>3, <1>4, InvEnds

-----------------------------------------------------------------------------
LEMMA LoadInvStep == LoadInv /\ [LoadNext]_loadVars => LoadInv'
<1> SUFFICES ASSUME LoadInv, [LoadNext]_loadVars PROVE LoadInv'
  OBVIOUS
<1>1. CASE UNCHANGED loadVars
  <2>1. UNCHANGED <<menu, table, time, request, view>>
    BY <1>1 DEF loadVars
  <2>2. LoadTypeOK' /\ AllTimed'
    BY <2>1 DEF LoadInv, LoadTypeOK, AllTimed, Timed, Exists
  <2>3. OneInside' /\ Apart'
    BY <2>1 DEF LoadInv, OneInside, InTransaction, Apart
  <2>4. \A u \in Users : Promised(u)' /\ Sees(u)' /\ Begun(u)'
    BY <2>1, Unaffected DEF LoadInv
  <2>5. QED
    BY <2>2, <2>3, <2>4 DEF LoadInv
<1>2. CASE LoadNext
  BY <1>2, InvSend, InvLockTables, InvLook, InvMaintain, InvFinish, InvBreaks DEF LoadNext
<1>3. QED
  BY <1>1, <1>2

\* table_lock lets one user at a time into the records of a menu, of whichever
\* kind it is, and keeps what its user sees current.
THEOREM LocksExclude == LoadSpec => []OneInside
<1>1. LoadInv => OneInside
  BY DEF LoadInv
<1>2. QED
  BY <1>1, LoadInvInit, LoadInvStep, PTL DEF LoadSpec

\* chk_lastupdatetime under the locks: no change of one user is overwritten by
\* another who has not read it, and requests are all or nothing (NoUpdateLost).
THEOREM NoUpdateLostHolds == LoadSpec => NoUpdateLost
<1> DEFINE Replaced == table' /= table =>
      \E u \in Users : Ends(u) /\ \A r \in Records :
             IF \E i \in DOMAIN request[u].todo : request[u].todo[i].row = r
             THEN table'[r] /= table[r] /\ table[r].at = request[u].quoted[r]
             ELSE table'[r] = table[r]
<1>1. LoadInv /\ [LoadNext]_loadVars => [Replaced]_loadVars
  <2> SUFFICES ASSUME LoadInv, [LoadNext]_loadVars, table' /= table
               PROVE  Replaced
    BY DEF loadVars
  <2>1. PICK u \in Users : Finish(u)
    BY DEF LoadNext, loadVars, Send, LockTables, Look, Maintain, Breaks
  <2>2. ~request[u].failed
    BY <2>1 DEF Finish
  <2>3. Ends(u)
    BY <2>1, NoRequestIsRequest DEF Finish, Ends, LoadInv, LoadTypeOK
  <2>4. QED
    BY <2>1, <2>2, <2>3, Commits
<1>2. QED
  BY <1>1, LoadInvInit, LoadInvStep, PTL DEF LoadSpec, NoUpdateLost

-----------------------------------------------------------------------------
(* Unique keys *)

\* An entry done so far has escaped the constraint.
Escaped(u) == \E i \in DOMAIN request[u].todo :
    i < request[u].next /\ Escapes(request[u].todo[i])

\* Without an error a transaction keeps the keys it sees unique.
UniqueSeen(u) == request[u].pc = "looked" /\ ~request[u].failed /\ KeysUnique(table) =>
    KeysUnique(view[u]) \/ Escaped(u)

UniqueInv == LoadInv /\ \A u \in Users : UniqueSeen(u)

LEMMA UniqueMaintain ==
  ASSUME LoadInv, NEW u \in Users, UniqueSeen(u), Maintain(u)
  PROVE  UniqueSeen(u)'
<1> DEFINE row == Now(u).row
           n == request[u].next
           todo == request[u].todo
<1>1. /\ request[u].pc = "looked" /\ n <= Len(todo) /\ UNCHANGED table
      /\ request' = [request EXCEPT ![u].next = @ + 1,
                                    ![u].failed = @ \/ ~(Targeted(u) /\ NotTaken(u))]
  BY DEF Maintain
<1>2. request[u] \in Request /\ view[u] \in [Records -> Version] /\ table \in [Records -> Version]
  BY DEF LoadInv, LoadTypeOK
<1>3. /\ todo \in Seq(Entry) /\ n \in Nat \ {0} /\ n \in DOMAIN todo
      /\ todo[n] = Now(u) /\ Now(u) \in Entry /\ row \in Records
  <2>1. todo \in Seq(Entry) /\ n \in Nat \ {0}
    BY <1>2, RequestIsSeq DEF Request
  <2>2. n \in DOMAIN todo
    BY <1>1, <2>1
  <2>3. QED
    BY <1>2, <2>1, <2>2, RequestIsSeq DEF Now, Request
<1>4. /\ request'[u].todo = todo /\ request'[u].next = n + 1
      /\ request'[u].failed = (request[u].failed \/ ~(Targeted(u) /\ NotTaken(u)))
  BY <1>1, <1>2 DEF Request, LoadInv, LoadTypeOK
<1> SUFFICES ASSUME ~request'[u].failed, KeysUnique(table)
             PROVE  KeysUnique(view'[u]) \/ Escaped(u)'
  BY <1>1 DEF UniqueSeen
<1>5. /\ Targeted(u) /\ NotTaken(u) /\ ~request[u].failed
      /\ view' = [view EXCEPT ![u][row] = Made(u)]
  BY <1>4 DEF Maintain
<1>6. /\ view'[u][row] = Made(u)
      /\ \A r \in Records : r /= row => view'[u][r] = view[u][r]
  BY <1>2, <1>3, <1>5 DEF LoadInv, LoadTypeOK
<1>7. CASE Escaped(u)
  <2>1. PICK i \in DOMAIN todo : i < n /\ Escapes(todo[i])
    BY <1>7 DEF Escaped
  <2>2. i < n + 1
    BY <1>3, <2>1
  <2>3. QED
    BY <1>1, <1>4, <2>1, <2>2 DEF Escaped, Escapes
<1>8. CASE KeysUnique(view[u])
  <2> DEFINE e == Now(u)
             key == Seen(u).key
             written == Over(key, e.gives)
  <2>1. Seen(u) \in Version /\ key \in Key /\ e.gives \in Given
    BY <1>2, <1>3 DEF Seen, Version, Entry
  <2>2. \/ Made(u).disused
        \/ Made(u).key \in Compared(u)
        \/ e.cmd = "Update" /\ Made(u).key = written
    <3>1. /\ Absent.disused
          /\ \A t, k : Row(t, k, FALSE).key = k /\ Row(t, k, TRUE).disused
      BY DEF Absent, Row
    <3>2. CASE e.cmd = "Register"
      <4>1. Made(u) = Row(time + 1, Over(Nothing, e.gives), FALSE)
        BY <3>2 DEF Made
      <4>2. QED
        BY <3>1, <4>1 DEF Compared
    <3>3. CASE e.cmd = "Update"
      <4>1. Made(u) = Row(time + 1, written, FALSE)
        BY <3>3 DEF Made
      <4>2. QED
        BY <3>1, <3>3, <4>1
    <3>4. CASE e.cmd = "Restore"
      <4>1. DOMAIN e.gives = {}
        BY <1>2, <1>3, <3>4, RequestAssumption DEF Request
      <4>2. written = key
        BY <2>1, <4>1, OverNothing
      <4>3. Made(u) = Row(time + 1, written, FALSE)
        BY <3>4 DEF Made
      <4>4. key \in Compared(u)
        BY <3>4 DEF Compared
      <4>5. QED
        BY <3>1, <4>2, <4>3, <4>4
    <3>5. CASE e.cmd = "Discard"
      <4>1. Made(u) = Row(time + 1, written, TRUE)
        BY <3>5 DEF Made
      <4>2. QED
        BY <3>1, <4>1
    <3>6. CASE e.cmd = "Delete"
      <4>1. Made(u) = Absent
        BY <3>6 DEF Made
      <4>2. QED
        BY <3>1, <4>1
    <3>7. QED
      BY <1>3, <3>2, <3>3, <3>4, <3>5, <3>6 DEF Entry, EntryCommands
  <2>3. CASE Made(u).disused
    BY <1>6, <1>8, <2>3 DEF KeysUnique, Exists
  <2>4. CASE Made(u).key \in Compared(u)
    BY <1>5, <1>6, <1>8, <2>4 DEF KeysUnique, Exists, NotTaken
  <2>5. CASE e.cmd = "Update" /\ Made(u).key = written
    <3>1. Exists(view[u], row) /\ Seen(u).at = request[u].quoted[row]
      BY <1>5, <2>5 DEF Targeted
    <3>2. Seen(u) = table[row]
      BY <1>1, <1>3, <1>5, <3>1 DEF LoadInv, Sees, Seen
    <3>3. CASE written = Over(Nothing, e.gives)
      BY <2>4, <2>5, <3>3 DEF Compared
    <3>4. CASE written = key /\ ~Seen(u).disused
      BY <1>3, <1>6, <1>8, <2>5, <3>1, <3>4 DEF KeysUnique, Exists, Seen
    <3>5. CASE /\ written /= Over(Nothing, e.gives)
               /\ ~(written = key /\ ~Seen(u).disused)
      <4>1. Escapes(todo[n])
        BY <1>3, <2>5, <3>2, <3>5 DEF Escapes, Seen
      <4>2. n < n + 1 /\ n \in DOMAIN todo
        BY <1>3
      <4>3. n < request'[u].next /\ n \in DOMAIN request'[u].todo
        BY <1>4, <4>2
      <4>4. request'[u].todo[n] = todo[n]
        BY <1>4
      <4>5. QED
        BY <1>1, <4>1, <4>3, <4>4 DEF Escaped, Escapes
    <3>6. QED
      BY <3>3, <3>4, <3>5
  <2>6. QED
    BY <2>2, <2>3, <2>4, <2>5
<1>9. QED
  BY <1>1, <1>5, <1>7, <1>8 DEF UniqueSeen

LEMMA UniqueStep == UniqueInv /\ [LoadNext]_loadVars => UniqueInv'
<1> SUFFICES ASSUME UniqueInv, [LoadNext]_loadVars PROVE UniqueInv'
  OBVIOUS
<1>1. LoadInv /\ LoadInv'
  BY LoadInvStep DEF UniqueInv
<1>2. ASSUME NEW v \in Users, UNCHANGED <<table, request[v], view[v]>>
      PROVE  UniqueSeen(v)'
  BY <1>2 DEF UniqueInv, UniqueSeen, Escaped, Escapes
<1>3. ASSUME NEW v \in Users, request'[v].pc /= "looked"
      PROVE  UniqueSeen(v)'
  BY <1>3 DEF UniqueSeen
<1>4. CASE UNCHANGED loadVars
  BY <1>1, <1>2, <1>4 DEF UniqueInv, loadVars
<1>5. ASSUME NEW u \in Users,
             Send(u) \/ LockTables(u) \/ Look(u) \/ Maintain(u) \/ Finish(u) \/ Breaks(u),
             NEW v \in Users
      PROVE  UniqueSeen(v)'
  <2>1. CASE Send(u) \/ LockTables(u) \/ Breaks(u)
    <3>1. UNCHANGED table /\ (u /= v => UNCHANGED <<request[v], view[v]>>)
      BY <1>1, <2>1 DEF LoadInv, LoadTypeOK, Send, LockTables, Breaks
    <3>2. request'[u].pc /= "looked"
      <4>1. CASE Send(u)
        BY <1>1, <4>1 DEF Send, LoadInv, LoadTypeOK
      <4>2. CASE LockTables(u)
        BY <1>1, <4>2 DEF LockTables, LoadInv, LoadTypeOK, Request
      <4>3. CASE Breaks(u)
        BY <1>1, <4>3, NoRequestIsRequest DEF Breaks, LoadInv, LoadTypeOK
      <4>4. QED
        BY <2>1, <4>1, <4>2, <4>3
    <3>3. QED
      BY <1>2, <1>3, <3>1, <3>2
  <2>2. CASE Look(u)
    <3>1. UNCHANGED table /\ view'[u] = table /\ (u /= v => UNCHANGED <<request[v], view[v]>>)
      BY <1>1, <2>2 DEF LoadInv, LoadTypeOK, Look
    <3>2. QED
      BY <1>2, <3>1 DEF UniqueSeen
  <2>3. CASE Maintain(u)
    <3>1. UNCHANGED table /\ (u /= v => UNCHANGED <<request[v], view[v]>>)
      BY <1>1, <2>3 DEF LoadInv, LoadTypeOK, Maintain
    <3>2. QED
      BY <1>1, <1>2, <2>3, <3>1, UniqueMaintain DEF UniqueInv
  <2>4. CASE Finish(u)
    <3>1. request'[u].pc = "idle" /\ (u /= v => request'[v] = request[v])
      BY <1>1, <2>4, NoRequestIsRequest DEF LoadInv, LoadTypeOK, Finish
    <3>2. u /= v => request[v].pc /= "looked"
      BY <1>1, <2>4 DEF Finish, LoadInv, OneInside, InTransaction
    <3>3. QED
      BY <1>3, <3>1, <3>2
  <2>5. QED
    BY <1>5, <2>1, <2>2, <2>3, <2>4
<1>6. QED
  BY <1>1, <1>4, <1>5 DEF UniqueInv, LoadNext

\* exec_unique_constraint under the locks: no two records in use come to share a
\* key, but by an update that leaves columns of its key out (UniqueKept).
THEOREM UniqueKeptHolds == LoadSpec => UniqueKept
<1> DEFINE Kept == KeysUnique(table) => KeysUnique(table') \/ \E u \in Users : Ends(u) /\ Unchecked(u)
<1>1. LoadInit => UniqueInv
  BY LoadInvInit, NoRequestIsRequest DEF LoadInit, UniqueInv, UniqueSeen
<1>2. UniqueInv /\ [LoadNext]_loadVars => [Kept]_loadVars
  <2> SUFFICES ASSUME UniqueInv, [LoadNext]_loadVars, KeysUnique(table), ~KeysUnique(table')
               PROVE  \E u \in Users : Ends(u) /\ Unchecked(u)
    OBVIOUS
  <2>1. PICK u \in Users : Finish(u)
    BY DEF LoadNext, loadVars, Send, LockTables, Look, Maintain, Breaks, KeysUnique, Exists
  <2>2. /\ ~request[u].failed /\ request[u].pc = "looked" /\ Ends(u)
        /\ \A r \in Records : table'[r] = IF r \in Written(u) THEN view[u][r] ELSE table[r]
    <3>1. ~request[u].failed
      BY <2>1 DEF Finish
    <3>2. Ends(u)
      BY <2>1, NoRequestIsRequest DEF Finish, Ends, UniqueInv, LoadInv, LoadTypeOK
    <3>3. QED
      BY <2>1, <3>1, <3>2 DEF Finish
  <2>3. \A r \in Records : table'[r] = view[u][r]
    BY <2>2 DEF UniqueInv, LoadInv, Sees
  <2>4. ~KeysUnique(view[u])
    BY <2>3 DEF KeysUnique, Exists
  <2>5. Escaped(u)
    BY <2>2, <2>4 DEF UniqueInv, UniqueSeen
  <2>6. QED
    BY <2>2, <2>5 DEF Escaped, Unchecked
<1>3. QED
  BY <1>1, <1>2, UniqueStep, PTL DEF LoadSpec, UniqueKept
=============================================================================
