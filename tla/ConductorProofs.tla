--------------------------- MODULE ConductorProofs ---------------------------
(* The passes of Conductor, for every class that passed the checks, whatever   *)
(* its size, and any number of troubles.                                       *)
EXTENDS Conductor, FiniteSetTheorems, TLAPS

\* A node at work.
BusyStatus == {"executing", "delayed", "paused"}

\* What a pass has still to turn to is at work, or a start node to be started.
TodoIsDue == \A n \in pass.todo :
    nstatus[n] \in BusyStatus \/ (graph.type[n] = "start" /\ nstatus[n] = "unexecuted")

\* A set of nodes without a start node that nothing outside lets go.
Shut(S) == \A x \in S : /\ graph.type[x] /= "start"
                        /\ \A p \in In(x) : p \in S \/ ~LetsGo(p)

\* Nothing in such a set was put to work: what was is behind a start node by nodes
\* that let go, round a cycle there is nothing.
ShutIsUnexecuted == \A S \in SUBSET Members : Shut(S) => \A x \in S : nstatus[x] = "unexecuted"

\* A node whose execution is at work is at work itself, and so keeps the conductor
\* open.
LiveIsBusy == \A n \in Members :
    exec[n] \in Live => Drives(n) /\ nstatus[n] \in {"executing", "delayed"}

\* What a pass may leave as update status.
Updates == {"running", "delayed", "paused", "none"} \cup ConductorEnd

\* A conductor no pass has opened has no node at work.
Unbegun == {"unexecuted", "scheduled", "cancelled"}
UnbegunIsUnexecuted == cstatus \in Unbegun => \A n \in Members : nstatus[n] = "unexecuted"

\* A pass works on a conductor that is open or, cancelled after it was listed, just
\* ended: then it has only a start node to turn to.
PassIsOpen ==
    /\ pass.update \in Updates
    /\ pass.pc = "listed" => cstatus \in ConductorOpen \cup {"cancelled"}
    /\ pass.pc \in {"nodes", "finish"} => cstatus \notin Unbegun
    /\ pass.pc \in {"nodes", "finish"} /\ cstatus \in ConductorEnd => \A n \in pass.todo : ~Drives(n)

\* What every step keeps.
ConductorInv == /\ ConductorTypeOK /\ TodoIsDue /\ OrderKept /\ ShutIsUnexecuted /\ LiveIsBusy
                /\ UnbegunIsUnexecuted /\ PassIsOpen /\ NothingLeftRunning

\* What the checks of a class leave: edges within it, none to a start node or from
\* a merge or branch to a merge, one edge to a node that is no merge.
LEMMA ClassIs ==
    ASSUME graph \in Graphs
    PROVE  /\ \A n \in Members : graph.type[n] \in NodeTypes
           /\ \A n \in Members : graph.out[n] \subseteq Members
           /\ \A n \in Members : \A m \in graph.out[n] :
                /\ graph.type[m] /= "start"
                /\ graph.type[n] = "merge" => graph.type[m] /= "merge"
                /\ graph.type[n] \in {"conditional-branch", "status-file-branch"} =>
                      graph.type[m] /= "merge"
           /\ \A n \in Members : graph.type[n] /= "merge" => \A p, q \in In(n) : p = q
           /\ \A n \in Members : graph.type[n] = "end" => graph.endType[n] \in EndTypes
           /\ graph.skip \subseteq {n \in Members : Drives(n)}
<1>1. IsClass(graph)
  BY ClassAssumption
<1>2. Connected(graph)
  BY <1>1 DEF IsClass
<1>3. \A n \in Members : graph.type[n] \in NodeTypes
  BY <1>1 DEF IsClass, Members
<1>4. ASSUME NEW n \in Members, NEW m \in graph.out[n]
      PROVE  /\ m \in Members /\ graph.type[m] /= "start"
             /\ graph.type[n] \in {"merge", "conditional-branch", "status-file-branch"} =>
                   graph.type[m] /= "merge"
  <2>1. /\ m \in Members /\ graph.type[m] \in MayLeadTo(graph.type[n])
        /\ graph.type[n] \in MayFollow(graph.type[m])
    BY <1>2, <1>4 DEF Connected, Members
  <2>2. graph.type[m] /= "start"
    BY <2>1 DEF MayFollow
  <2>3. graph.type[n] \in {"merge", "conditional-branch", "status-file-branch"} =>
           graph.type[m] /= "merge"
    BY <2>1 DEF MayLeadTo
  <2>. QED
    BY <2>1, <2>2, <2>3
<1>5. ASSUME NEW n \in Members, graph.type[n] /= "merge", NEW p \in In(n), NEW q \in In(n)
      PROVE  p = q
  <2>. DEFINE P == {x \in DOMAIN graph.type : n \in graph.out[x]}
  <2>1. IsFiniteSet(DOMAIN graph.type) /\ Cardinality(P) <= 1
    BY <1>1, <1>5 DEF IsClass, Members
  <2>2. IsFiniteSet(P)
    BY <2>1, FS_Subset
  <2>3. p \in P /\ q \in P
    BY <1>5 DEF In, Members
  <2>. HIDE DEF P
  <2>4. SUFFICES ASSUME p /= q PROVE FALSE
    OBVIOUS
  <2>5. {p, q} \subseteq P /\ Cardinality({p, q}) = 2
    <3>1. IsFiniteSet({p}) /\ Cardinality({p}) = 1
      BY FS_Singleton
    <3>2. Cardinality({p} \cup {q}) = 2
      <4>1. q \notin {p}
        BY <2>4
      <4>2. Cardinality({p} \cup {q}) = Cardinality({p}) + 1
        BY <3>1, <4>1, FS_AddElement
      <4>. QED
        BY <3>1, <4>2
    <3>3. {p} \cup {q} = {p, q}
      OBVIOUS
    <3>. QED
      BY <2>3, <3>2, <3>3
  <2>6. Cardinality({p, q}) <= Cardinality(P) /\ Cardinality(P) \in Nat
    BY <2>2, <2>5, FS_Subset, FS_CardinalityType
  <2>. QED
    BY <2>1, <2>5, <2>6
<1>6. /\ \A n \in Members : graph.type[n] = "end" => graph.endType[n] \in EndTypes
      /\ graph.skip \subseteq {n \in Members : Drives(n)}
  BY <1>1 DEF IsClass, Members, Drives
<1>. QED
  BY <1>3, <1>4, <1>5, <1>6

\* All that follow the nodes ms behind a branch: joined with nothing outside.
LEMMA BelowIs ==
    ASSUME graph \in Graphs, NEW c \in Members, NEW ms \in SUBSET graph.out[c],
           graph.type[c] \in {"conditional-branch", "status-file-branch"}
    PROVE  LET B == Below(graph, ms) IN
           /\ B \in SUBSET Members /\ ms \subseteq B
           /\ \A x \in B : graph.out[x] \subseteq B
           /\ \A x \in B : graph.type[x] /= "start" /\ In(x) \subseteq B \cup {c}
           /\ \A T \in SUBSET Members :
                ms \subseteq T /\ (\A p \in T : graph.out[p] \subseteq T) => B \subseteq T
<1>. DEFINE B == Below(graph, ms)
<1>1. \A m \in Members : After[graph][m] =
        {x \in Members : \A S \in SUBSET Members :
            m \in S /\ (\A p \in S : graph.out[p] \subseteq S) => x \in S}
  BY DEF After, Members
<1>2. ms \subseteq Members /\ B = UNION {After[graph][m] : m \in ms}
  BY ClassIs DEF Below
<1>3. B \in SUBSET Members /\ ms \subseteq B
  BY <1>1, <1>2
<1>4. \A T \in SUBSET Members :
         ms \subseteq T /\ (\A p \in T : graph.out[p] \subseteq T) => B \subseteq T
  BY <1>1, <1>2
<1>5. ASSUME NEW x \in B, NEW y \in graph.out[x] PROVE y \in B
  <2>1. PICK m \in ms : x \in After[graph][m]
    BY <1>2, <1>5
  <2>2. y \in Members
    BY <1>3, <1>5, ClassIs
  <2>3. y \in After[graph][m]
    BY <1>1, <1>2, <1>5, <2>1, <2>2
  <2>. QED
    BY <1>2, <2>3
<1>6. ASSUME NEW x \in B PROVE graph.type[x] /= "start"
  <2>. DEFINE T == {y \in Members : graph.type[y] /= "start"}
  <2>1. ms \subseteq T /\ \A p \in T : graph.out[p] \subseteq T
    BY <1>2, ClassIs
  <2>. QED
    BY <1>4, <1>6, <2>1
<1>7. ASSUME NEW x \in B PROVE In(x) \subseteq B \cup {c}
  <2>1. PICK m \in ms : x \in After[graph][m]
    BY <1>2, <1>7
  <2>2. Separate(graph)
    BY ClassAssumption DEF IsClass
  <2>3. x \in Below(graph, {m})
    BY <2>1 DEF Below
  <2>4. In(x) \subseteq Below(graph, {m}) \cup {c}
    BY <2>1, <2>2, <2>3 DEF Separate, In, Members
  <2>5. Below(graph, {m}) \subseteq B
    BY <2>1 DEF Below
  <2>. QED
    BY <2>4, <2>5
<1>. HIDE DEF B
<1>. QED
  BY <1>3, <1>4, <1>5, <1>6, <1>7 DEF B

\* A step keeps the order if what ended well stays, what let go still does, what is
\* put to work was let go, and a merge that ends well waited for all.
LEMMA GrowthKeeps ==
    ASSUME ConductorInv, graph' = graph,
           \A x \in Members :
              /\ nstatus[x] \in NodeNormal => nstatus'[x] = nstatus[x]
              /\ LetsGo(x) => nstatus'[x] \in NodeEnd
              /\ nstatus[x] = "unexecuted" /\ nstatus'[x] /= "unexecuted" /\ graph.type[x] /= "merge" =>
                    \A p \in In(x) : LetsGo(p)'
              /\ graph.type[x] = "merge" /\ nstatus'[x] \in NodeNormal /\ nstatus[x] \notin NodeNormal =>
                    \A p \in In(x) : nstatus'[p] \in NodeNormal,
           \A S \in SUBSET Members : Shut(S)' /\ Shut(S) => \A x \in S : nstatus'[x] = "unexecuted"
    PROVE  OrderKept' /\ ShutIsUnexecuted'
<1>1. Members' = Members /\ \A x : In(x)' = In(x)
  BY DEF Members, In
<1>2. \A x \in Members : LetsGo(x) => LetsGo(x)'
  <2>1. \A x \in Members : In(x) \subseteq Members
    BY DEF In
  <2>. QED
    BY <1>1, <2>1 DEF LetsGo
<1>3. OrderKept'
  <2>1. \A x \in Members : In(x) \subseteq Members
    BY DEF In
  <2>. QED
    BY <1>1, <1>2, <2>1 DEF ConductorInv, OrderKept
<1>4. ASSUME NEW S \in SUBSET Members, Shut(S)' PROVE Shut(S)
  <2>1. \A x \in Members : In(x) \subseteq Members
    BY DEF In
  <2>. QED
    BY <1>1, <1>2, <1>4, <2>1 DEF Shut
<1>5. ShutIsUnexecuted'
  BY <1>1, <1>4 DEF ShutIsUnexecuted
<1>. QED
  BY <1>3, <1>5

\* A step keeps the invariant, and what ended well.
Keeps == /\ ConductorInv'
         /\ \A x \in Members : nstatus[x] \in NodeNormal => nstatus'[x] = nstatus[x]

\* What the turn of node n, which gets the status v, does to all of them.
Moved(n, v) ==
    /\ OrderKept' /\ ShutIsUnexecuted' /\ nstatus' \in [Members -> NodeStatus]
    /\ nstatus'[n] = v
    /\ \A x \in Members : x /= n =>
          \/ nstatus'[x] = nstatus[x] \/ nstatus'[x] = "executing"
          \/ nstatus[x] = "unexecuted" /\ graph.type[x] /= "start"
    /\ \A x \in Members : nstatus[x] \in NodeNormal => nstatus'[x] = nstatus[x]

\* What a node's turn may find after it: not let go by it yet.
LEMMA AfterDueIs ==
    ASSUME ConductorInv, NEW n \in pass.todo
    PROVE  /\ n \in Members /\ nstatus[n] \notin NodeEnd
           /\ \A x \in graph.out[n] :
                /\ x \in Members /\ x /= n /\ n \in In(x)
                /\ nstatus[x] \notin NodeNormal /\ ~LetsGo(x)
                /\ graph.type[x] /= "start"
                /\ graph.type[x] /= "merge" => nstatus[x] = "unexecuted" /\ In(x) = {n}
<1>1. /\ n \in Members /\ graph \in Graphs
      /\ nstatus[n] \in BusyStatus \/ (graph.type[n] = "start" /\ nstatus[n] = "unexecuted")
  BY DEF ConductorInv, ConductorTypeOK, TodoIsDue
<1>2. nstatus[n] \notin NodeEnd
  BY <1>1 DEF BusyStatus, NodeEnd, NodeNormal, NodeError
<1>3. ~LetsGo(n)
  BY <1>2 DEF LetsGo
<1>4. ASSUME NEW x \in graph.out[n]
      PROVE  /\ x \in Members /\ n \in In(x) /\ x /= n
             /\ nstatus[x] \notin NodeNormal /\ ~LetsGo(x) /\ graph.type[x] /= "start"
             /\ graph.type[x] /= "merge" => nstatus[x] = "unexecuted" /\ In(x) = {n}
  <2>1. x \in Members /\ n \in In(x) /\ graph.type[x] /= "start"
    BY <1>1, <1>4, ClassIs DEF In
  <2>2. graph.type[x] /= "merge" => nstatus[x] = "unexecuted"
    BY <1>3, <2>1 DEF ConductorInv, OrderKept
  <2>3. graph.type[x] /= "merge" => In(x) = {n}
    BY <1>1, <2>1, ClassIs
  <2>4. nstatus[x] \notin NodeNormal
    <3>1. CASE graph.type[x] = "merge"
      BY <1>2, <2>1, <3>1 DEF ConductorInv, OrderKept, NodeEnd
    <3>2. CASE graph.type[x] /= "merge"
      BY <2>2, <3>2 DEF NodeNormal
    <3>. QED
      BY <3>1, <3>2
  <2>5. ~LetsGo(x)
    <3>1. CASE graph.type[x] = "merge"
      BY <1>2, <2>1, <3>1 DEF LetsGo, NodeEnd
    <3>2. CASE graph.type[x] /= "merge"
      BY <2>2, <3>2 DEF LetsGo, NodeEnd, NodeNormal, NodeError
    <3>. QED
      BY <3>1, <3>2
  <2>6. x /= n
    <3>1. SUFFICES ASSUME x = n PROVE FALSE
      OBVIOUS
    <3>2. graph.type[n] /= "merge"
      BY <1>1, <1>4, <3>1, ClassIs
    <3>. QED
      BY <1>1, <2>1, <2>2, <3>1, <3>2 DEF BusyStatus
  <2>. QED
    BY <2>1, <2>2, <2>3, <2>4, <2>5, <2>6
<1>. QED
  BY <1>1, <1>2, <1>4

\* A node takes the status v and puts the nodes next to work.
LEMMA TurnIs ==
    ASSUME ConductorInv, graph' = graph, NEW n \in pass.todo, NEW v \in NodeStatus \ {"unexecuted"},
           NEW next \in SUBSET graph.out[n],
           next /= {} => v \in NodeEnd,
           graph.type[n] = "merge" /\ (next /= {} \/ v \in NodeNormal) => Merges(n),
           nstatus' = Started([nstatus EXCEPT ![n] = v], next)
    PROVE  Moved(n, v)
<1>1. /\ graph \in Graphs /\ nstatus \in [Members -> NodeStatus]
      /\ n \in Members /\ nstatus[n] \notin NodeEnd
  BY AfterDueIs DEF ConductorInv, ConductorTypeOK
<1>2. \A x \in next :
        /\ x \in Members /\ x /= n /\ n \in In(x) /\ nstatus[x] \notin NodeNormal /\ ~LetsGo(x)
        /\ graph.type[x] /= "start"
        /\ graph.type[x] /= "merge" => nstatus[x] = "unexecuted" /\ In(x) = {n}
  BY AfterDueIs
<1>3. /\ nstatus' \in [Members -> NodeStatus] /\ nstatus'[n] = v
      /\ \A x \in next : nstatus'[x] = "executing"
      /\ \A x \in Members : x /= n /\ x \notin next => nstatus'[x] = nstatus[x]
  BY <1>1, <1>2 DEF Started, NodeStatus
<1>4. \A x \in Members : nstatus[x] \in NodeNormal => nstatus'[x] = nstatus[x]
  BY <1>1, <1>2, <1>3 DEF NodeEnd
<1>5. \A x \in Members : LetsGo(x) => nstatus'[x] \in NodeEnd
  BY <1>1, <1>2, <1>3 DEF LetsGo
<1>6. \A x : In(x)' = In(x) /\ In(x) \subseteq Members
  BY DEF In, Members
<1>7. next /= {} => LetsGo(n)'
  BY <1>1, <1>3, <1>4, <1>6 DEF LetsGo, Merges
<1>8. ASSUME NEW x \in Members, nstatus[x] = "unexecuted", nstatus'[x] /= "unexecuted",
             graph.type[x] /= "merge", NEW p \in In(x)
      PROVE  LetsGo(p)'
  <2>1. CASE x \in next
    BY <1>2, <1>7, <1>8, <2>1
  <2>2. CASE x = n
    <3>1. graph.type[n] = "start"
      BY <1>1, <1>8, <2>2 DEF ConductorInv, TodoIsDue, BusyStatus
    <3>. QED
      BY <1>1, <1>6, <1>8, <2>2, <3>1, ClassIs DEF In
  <2>. QED
    BY <1>3, <1>8, <2>1, <2>2
<1>9. ASSUME NEW x \in Members, graph.type[x] = "merge", nstatus'[x] \in NodeNormal,
             nstatus[x] \notin NodeNormal, NEW p \in In(x)
      PROVE  nstatus'[p] \in NodeNormal
  <2>1. x = n
    BY <1>3, <1>9 DEF NodeNormal
  <2>. QED
    BY <1>3, <1>4, <1>6, <1>9, <2>1 DEF Merges
<1>10. ASSUME NEW S \in SUBSET Members, Shut(S)', Shut(S), NEW x \in S
       PROVE  nstatus'[x] = "unexecuted"
  <2>1. \A y \in S : nstatus[y] = "unexecuted" /\ graph.type[y] /= "start"
    BY <1>10 DEF ConductorInv, ShutIsUnexecuted, Shut
  <2>2. n \notin S
    BY <2>1 DEF ConductorInv, TodoIsDue, BusyStatus
  <2>3. x \notin next
    BY <1>2, <1>6, <1>7, <1>10, <2>2 DEF Shut
  <2>. QED
    BY <1>3, <1>10, <2>1, <2>2, <2>3
<1>. QED
  BY <1>3, <1>4, <1>5, <1>8, <1>9, <1>10, GrowthKeeps DEF Moved

\* A branch is decided: chosen is put to work, all below the others is skipped.
LEMMA BranchIs ==
    ASSUME ConductorInv, graph' = graph, NEW n \in pass.todo, NEW chosen \in SUBSET graph.out[n],
           graph.type[n] \in {"conditional-branch", "status-file-branch"},
           nstatus' = Started(SkippedBelow([nstatus EXCEPT ![n] = "normal"], graph.out[n] \ chosen),
                              chosen)
    PROVE  Moved(n, "normal")
<1>. DEFINE ms == graph.out[n] \ chosen
            B == Below(graph, ms)
<1>1. /\ graph \in Graphs /\ nstatus \in [Members -> NodeStatus]
      /\ n \in Members /\ nstatus[n] \notin NodeEnd
  BY AfterDueIs DEF ConductorInv, ConductorTypeOK
<1>2. /\ ms \in SUBSET graph.out[n] /\ B \in SUBSET Members /\ ms \subseteq B
      /\ \A x \in B : graph.out[x] \subseteq B
      /\ \A x \in B : graph.type[x] /= "start" /\ In(x) \subseteq B \cup {n}
      /\ \A T \in SUBSET Members :
           ms \subseteq T /\ (\A p \in T : graph.out[p] \subseteq T) => B \subseteq T
  BY <1>1, BelowIs
<1>3. \A x \in graph.out[n] :
        /\ x \in Members /\ x /= n /\ n \in In(x) /\ graph.type[x] \notin {"start", "merge"}
        /\ nstatus[x] = "unexecuted" /\ In(x) = {n}
  BY <1>1, AfterDueIs, ClassIs
<1>4. \A x : In(x)' = In(x) /\ In(x) \subseteq Members
  BY DEF In, Members
<1>5. ~LetsGo(n)
  BY <1>1 DEF LetsGo
<1>6. \A x \in B : nstatus[x] = "unexecuted"
  <2>1. Shut(B)
    BY <1>2, <1>5 DEF Shut
  <2>. QED
    BY <1>2, <2>1 DEF ConductorInv, ShutIsUnexecuted
<1>7. n \notin B
  BY <1>1, <1>6 DEF ConductorInv, TodoIsDue, BusyStatus
<1>8. chosen \cap B = {}
  <2>. DEFINE T == {x \in B : x \notin chosen}
  <2>1. ms \subseteq T /\ T \in SUBSET Members
    BY <1>2
  <2>2. ASSUME NEW p \in T, NEW x \in graph.out[p] PROVE x \in T
    <3>1. x \in B /\ p \in In(x)
      BY <1>2, <2>2 DEF In
    <3>2. x \notin chosen
      BY <1>3, <1>7, <2>2, <3>1
    <3>. QED
      BY <3>1, <3>2
  <2>. HIDE DEF ms, B
  <2>3. B \subseteq T
    BY <1>2, <2>1, <2>2
  <2>. QED
    BY <2>3
<1>. HIDE DEF B
<1>9. /\ nstatus' \in [Members -> NodeStatus] /\ nstatus'[n] = "normal"
      /\ \A x \in chosen : nstatus'[x] = "executing"
      /\ \A x \in B : nstatus'[x] = "skipped"
      /\ \A x \in Members : x /= n /\ x \notin chosen /\ x \notin B => nstatus'[x] = nstatus[x]
  <2>1. nstatus' = [x \in Members |-> IF x \in chosen THEN "executing" ELSE
                       IF x \in B THEN "skipped" ELSE [nstatus EXCEPT ![n] = "normal"][x]]
    BY DEF Started, SkippedBelow, B
  <2>. HIDE DEF ms
  <2>2. nstatus'[n] = "normal" /\ nstatus' \in [Members -> NodeStatus]
    BY <1>1, <1>3, <1>7, <2>1 DEF NodeStatus, NodeEnd, NodeNormal
  <2>3. \A x \in Members : nstatus'[x] =
          IF x \in chosen THEN "executing"
          ELSE IF x \in B THEN "skipped" ELSE [nstatus EXCEPT ![n] = "normal"][x]
    BY <2>1
  <2>4. \A x \in chosen : nstatus'[x] = "executing"
    BY <1>2, <1>3, <1>7, <2>3
  <2>5. \A x \in B : nstatus'[x] = "skipped"
    BY <1>2, <1>8, <2>3
  <2>6. \A x \in Members : x /= n /\ x \notin chosen /\ x \notin B => nstatus'[x] = nstatus[x]
    BY <1>1, <2>3
  <2>. QED
    BY <2>2, <2>4, <2>5, <2>6
<1>. HIDE DEF ms
<1>10. \A x \in Members : /\ nstatus[x] \in NodeNormal => nstatus'[x] = nstatus[x]
                          /\ nstatus[x] \in NodeEnd => nstatus'[x] = nstatus[x]
  BY <1>1, <1>3, <1>6, <1>9 DEF NodeEnd, NodeNormal, NodeError
<1>11. \A x \in Members : LetsGo(x) => nstatus'[x] \in NodeEnd
  BY <1>10 DEF LetsGo
<1>12. LetsGo(n)' /\ \A x \in B : \A p \in In(x) : nstatus'[p] \in NodeNormal
  <2>1. \A x \in B \cup {n} : nstatus'[x] \in NodeNormal
    BY <1>9 DEF NodeNormal
  <2>2. LetsGo(n)'
    BY <1>1, <2>1 DEF LetsGo, NodeEnd
  <2>. QED
    BY <1>2, <2>1, <2>2
<1>13. ASSUME NEW x \in Members, nstatus[x] = "unexecuted", nstatus'[x] /= "unexecuted",
              graph.type[x] /= "merge", NEW p \in In(x)
       PROVE  LetsGo(p)'
  <2>1. CASE x \in chosen
    BY <1>3, <1>12, <1>13, <2>1
  <2>2. CASE x = n
    BY <1>1, <1>13, <2>2 DEF ConductorInv, TodoIsDue, BusyStatus
  <2>3. CASE x \in B
    <3>1. p = n \/ (p \in B /\ \A q \in In(p) : nstatus'[q] \in NodeNormal)
      BY <1>2, <1>12, <1>13, <2>3
    <3>2. nstatus'[p] \in NodeNormal
      BY <1>12, <1>13, <2>3
    <3>. QED
      BY <1>4, <1>12, <3>1, <3>2 DEF LetsGo, NodeEnd
  <2>. QED
    BY <1>9, <1>13, <2>1, <2>2, <2>3
<1>14. ASSUME NEW x \in Members, graph.type[x] = "merge", nstatus'[x] \in NodeNormal,
              nstatus[x] \notin NodeNormal
       PROVE  \A p \in In(x) : nstatus'[p] \in NodeNormal
  <2>1. x \in B
    BY <1>1, <1>3, <1>9, <1>14
  <2>. QED
    BY <1>12, <2>1
<1>15. ASSUME NEW S \in SUBSET Members, Shut(S)', Shut(S), NEW x \in S
       PROVE  nstatus'[x] = "unexecuted"
  <2>1. \A y \in S : nstatus[y] = "unexecuted"
    BY <1>15 DEF ConductorInv, ShutIsUnexecuted
  <2>2. n \notin S
    BY <1>1, <2>1 DEF ConductorInv, TodoIsDue, BusyStatus
  <2>3. \A y \in S : \A p \in In(y) : p \in S \/ ~LetsGo(p)'
    BY <1>4, <1>15 DEF Shut
  <2>4. \A y \in graph.out[n] : y \notin S
    BY <1>3, <1>12, <2>2, <2>3
  <2>5. B \cap S = {}
    <3>. DEFINE T == {y \in B : y \notin S}
    <3>1. ms \subseteq T /\ T \in SUBSET Members
      BY <1>2, <2>4
    <3>2. ASSUME NEW p \in T, NEW y \in graph.out[p] PROVE y \in T
      <4>1. y \in B /\ p \in In(y) /\ p \in B
        BY <1>2, <3>2 DEF In
      <4>2. LetsGo(p)'
        <5>1. nstatus'[p] = "skipped" /\ \A q \in In(p) : nstatus'[q] \in NodeNormal
          BY <1>9, <1>12, <4>1
        <5>. QED
          BY <1>4, <5>1 DEF LetsGo, NodeEnd, NodeNormal
      <4>. QED
        BY <2>3, <3>2, <4>1, <4>2
    <3>3. B \subseteq T
      <4>. HIDE DEF T
      <4>. QED
        BY <1>2, <3>1, <3>2
    <3>. QED
      BY <3>3
  <2>. QED
    BY <1>9, <1>15, <2>1, <2>2, <2>4, <2>5
<1>. QED
  <2>1. \A x \in Members : x /= n =>
           \/ nstatus'[x] = nstatus[x] \/ nstatus'[x] = "executing"
           \/ nstatus[x] = "unexecuted" /\ graph.type[x] /= "start"
    BY <1>2, <1>6, <1>9
  <2>2. OrderKept' /\ ShutIsUnexecuted'
    BY <1>10, <1>11, <1>13, <1>14, <1>15, GrowthKeeps
  <2>. QED
    BY <1>9, <1>10, <2>1, <2>2 DEF Moved

\* chk_conductor_end fails nodes that only wait.
LEMMA FailedIs ==
    ASSUME ConductorInv, graph' = graph, NEW ms \in SUBSET WaitingNodes,
           nstatus' = [n \in Members |-> IF n \in ms THEN "failed" ELSE nstatus[n]]
    PROVE  /\ OrderKept' /\ ShutIsUnexecuted' /\ nstatus' \in [Members -> NodeStatus]
           /\ \A x \in Members : nstatus'[x] = nstatus[x] \/ ~Drives(x)
           /\ \A x \in Members : nstatus[x] \in NodeNormal => nstatus'[x] = nstatus[x]
<1>1. graph \in Graphs /\ nstatus \in [Members -> NodeStatus]
  BY DEF ConductorInv, ConductorTypeOK
<1>2. ms \subseteq Members /\ \A x \in ms : nstatus[x] \in {"executing", "delayed"} /\ ~Drives(x)
  BY DEF WaitingNodes
<1>3. /\ nstatus' \in [Members -> NodeStatus] /\ \A x \in ms : nstatus'[x] = "failed"
      /\ \A x \in Members : x \notin ms => nstatus'[x] = nstatus[x]
  BY <1>1, <1>2 DEF NodeStatus, NodeEnd, NodeError
<1>4. \A x \in Members : nstatus[x] \in NodeEnd => nstatus'[x] = nstatus[x]
  BY <1>2, <1>3 DEF NodeEnd, NodeNormal, NodeError
<1>5. \A x \in Members : nstatus[x] = "unexecuted" <=> nstatus'[x] = "unexecuted"
  BY <1>2, <1>3
<1>6. \A x \in Members : nstatus'[x] \in NodeNormal => nstatus[x] \in NodeNormal
  BY <1>3 DEF NodeNormal
<1>7. \A S \in SUBSET Members : Shut(S) => \A x \in S : nstatus'[x] = "unexecuted"
  BY <1>5 DEF ConductorInv, ShutIsUnexecuted
<1>8. OrderKept' /\ ShutIsUnexecuted'
  BY <1>4, <1>5, <1>6, <1>7, GrowthKeeps DEF LetsGo, NodeEnd
<1>. QED
  BY <1>2, <1>3, <1>4, <1>8 DEF NodeEnd

\* What a node with an execution at work may have.
Worked == {"executing", "delayed"}

LEMMA UpdatesAre == Updates \subseteq ConductorStatus \cup {"none"}
  BY DEF Updates, ConductorStatus, ConductorOpen

LEMMA PassTypeIs ==
    ASSUME ConductorInv
    PROVE  pass \in [pc : {"idle", "listed", "nodes", "finish"}, todo : SUBSET Members, update : Updates]
<1>1. /\ pass \in [pc : {"idle", "listed", "nodes", "finish"}, todo : SUBSET Members,
                   update : ConductorStatus \cup {"none"}]
      /\ pass.update \in Updates
  BY DEF ConductorInv, ConductorTypeOK, PassIsOpen
<1>2. /\ pass = [pc |-> pass.pc, todo |-> pass.todo, update |-> pass.update]
      /\ pass.pc \in {"idle", "listed", "nodes", "finish"} /\ pass.todo \in SUBSET Members
  BY <1>1
<1>. QED
  BY <1>1, <1>2

\* A turn of node n that leaves it with v and its execution with d.
LEMMA TurnEnds ==
    ASSUME ConductorInv, pass.pc = "nodes", NEW n \in pass.todo, NEW v, Moved(n, v),
           NEW d \in ExecStatus,
           NEW s, NEW u \in Updates, Turn(n, s, u),
           exec' = [exec EXCEPT ![n] = d], d \in Live => Drives(n) /\ v \in Worked,
           UNCHANGED <<graph, cstatus, stopped, released, file>>,
           UNCHANGED troubles \/ Trouble
    PROVE  Keeps
<1>1. /\ graph \in Graphs /\ n \in Members /\ cstatus \notin Unbegun
      /\ cstatus \in ConductorEnd => \A x \in pass.todo : ~Drives(x)
      /\ exec \in [Members -> ExecStatus] /\ nstatus \in [Members -> NodeStatus]
  BY AfterDueIs DEF ConductorInv, ConductorTypeOK, PassIsOpen
<1>2. Members' = Members /\ \A x : Drives(x)' = Drives(x)
  BY DEF Members, Drives
<1>3. /\ pass \in [pc : {"idle", "listed", "nodes", "finish"}, todo : SUBSET Members, update : Updates]
      /\ pass' = [pass EXCEPT !.todo = @ \ {n}, !.update = u]
  BY PassTypeIs DEF Turn
<1>4. /\ pass'.pc = "nodes" /\ pass'.todo = pass.todo \ {n}
      /\ pass' \in [pc : {"idle", "listed", "nodes", "finish"}, todo : SUBSET Members, update : Updates]
  BY <1>3
<1>5. troubles' \in 0..MaxTroubles
  BY TroubleAssumption DEF ConductorInv, ConductorTypeOK, Trouble
<1>6. exec' \in [Members -> ExecStatus] /\ exec'[n] = d
      /\ \A x \in Members : x /= n => exec'[x] = exec[x]
  BY <1>1
<1>7. ConductorTypeOK'
  BY <1>2, <1>4, <1>5, <1>6, UpdatesAre DEF ConductorInv, ConductorTypeOK, Moved
<1>8. LiveIsBusy'
  BY <1>1, <1>2, <1>6 DEF ConductorInv, LiveIsBusy, Moved, Worked
<1>9. TodoIsDue'
  <2>1. \A x \in pass.todo \ {n} : x \in Members
    BY <1>3
  <2>. QED
    BY <1>4, <2>1 DEF ConductorInv, TodoIsDue, Moved, BusyStatus
<1>10. PassIsOpen' /\ UnbegunIsUnexecuted'
  BY <1>1, <1>2, <1>4 DEF PassIsOpen, UnbegunIsUnexecuted
<1>11. NothingLeftRunning'
  <2>1. cstatus \in ConductorEnd => d \notin Live
    BY <1>1
  <2>. QED
    BY <1>1, <1>2, <1>6, <2>1 DEF ConductorInv, NothingLeftRunning
<1>. QED
  BY <1>7, <1>8, <1>9, <1>10, <1>11 DEF ConductorInv, Moved, Keeps

\* The same for a node that executes nothing.
LEMMA QuietTurnEnds ==
    ASSUME ConductorInv, pass.pc = "nodes", NEW n \in pass.todo, NEW v, Moved(n, v), ~Drives(n),
           NEW s, NEW u \in Updates, Turn(n, s, u),
           UNCHANGED <<graph, cstatus, stopped, released, file, exec, troubles>>
    PROVE  Keeps
<1>1. n \in Members /\ exec \in [Members -> ExecStatus] /\ exec[n] \notin Live
  BY AfterDueIs DEF ConductorInv, ConductorTypeOK, LiveIsBusy
<1>2. exec' = [exec EXCEPT ![n] = exec[n]] /\ exec[n] \in ExecStatus
  BY <1>1
<1>. QED
  BY <1>1, <1>2, TurnEnds

\* A node takes the status v and puts nothing to work.
LEMMA AloneIs ==
    ASSUME ConductorInv, graph' = graph, NEW n \in pass.todo, NEW v \in NodeStatus \ {"unexecuted"},
           graph.type[n] = "merge" /\ v \in NodeNormal => Merges(n),
           nstatus' = [nstatus EXCEPT ![n] = v]
    PROVE  Moved(n, v)
<1>1. nstatus' = Started([nstatus EXCEPT ![n] = v], {})
  BY DEF ConductorInv, ConductorTypeOK, Started
<1>. QED
  BY <1>1, TurnIs

\* A movement or call takes the status v of its execution d.
LEMMA ReflectKeeps ==
    ASSUME ConductorInv, pass.pc = "nodes", NEW n \in pass.todo, Drives(n),
           NEW v \in NodeStatus \ {"unexecuted"}, NEW written \in BOOLEAN, NEW u \in Updates,
           Reflect(n, v, written, u),
           NEW d \in ExecStatus, exec' = [exec EXCEPT ![n] = d], d \in Live => v \in Worked,
           UNCHANGED <<graph, cstatus, stopped, released, file>>,
           UNCHANGED troubles \/ Trouble
    PROVE  Keeps
<1>1. graph.type[n] /= "merge" /\ nstatus \in [Members -> NodeStatus] /\ n \in Members
      /\ pass.update \in Updates
  BY AfterDueIs DEF Drives, ConductorInv, ConductorTypeOK, PassIsOpen
<1>. DEFINE s == [nstatus EXCEPT ![n] = v]
            go == Started(s, graph.out[n])
<1>2. \/ v = nstatus[n] /\ \E q \in Updates : Turn(n, nstatus, q)
      \/ v \in NodeEnd /\ Turn(n, go, u)
      \/ Turn(n, s, u)
  <2>1. {"scram", "running"} \subseteq Updates
    BY DEF Updates, ConductorEnd
  <2>. QED
    BY <1>1, <2>1 DEF Reflect
<1>3. CASE v = nstatus[n] /\ \E q \in Updates : Turn(n, nstatus, q)
  <2>1. PICK q \in Updates : Turn(n, nstatus, q)
    BY <1>3
  <2>2. nstatus' = s
    BY <1>1, <1>3, <2>1 DEF Turn
  <2>3. Moved(n, v)
    BY <1>1, <2>2, AloneIs
  <2>. QED
    BY <2>1, <2>3, TurnEnds
<1>4. CASE v \in NodeEnd /\ Turn(n, go, u)
  <2>1. nstatus' = Started(s, graph.out[n])
    BY <1>4 DEF Turn
  <2>2. Moved(n, v)
    BY <1>1, <1>4, <2>1, TurnIs
  <2>. QED
    BY <1>4, <2>2, TurnEnds
<1>5. CASE Turn(n, s, u)
  <2>1. nstatus' = [nstatus EXCEPT ![n] = v]
    BY <1>5 DEF Turn
  <2>2. Moved(n, v)
    BY <1>1, <2>1, AloneIs
  <2>. QED
    BY <1>5, <2>2, TurnEnds
<1>. QED
  BY <1>2, <1>3, <1>4, <1>5

\* Movements and called conductors.
LEMMA DrivenKeeps ==
    ASSUME ConductorInv, pass.pc = "nodes", NEW n \in pass.todo, Execute(n) \/ Follow(n),
           UNCHANGED <<graph, cstatus, stopped, released, file>>
    PROVE  Keeps
<1>1. n \in Members /\ exec \in [Members -> ExecStatus] /\ Drives(n)
  BY AfterDueIs DEF ConductorInv, ConductorTypeOK, Execute, Follow
<1>2. {"scram", "running", "failed", "normal", "delayed", "exception", "warned"} \subseteq Updates
  BY DEF Updates, ConductorEnd
<1>3. {"scram", "skipped", "executing", "failed"} \subseteq NodeStatus \ {"unexecuted"}
  BY DEF NodeStatus, NodeEnd, NodeNormal, NodeError
<1>4. CASE Execute(n) /\ exec' = exec
  <2>1. exec[n] = "none" /\ exec' = [exec EXCEPT ![n] = exec[n]] /\ exec[n] \notin Live
    BY <1>1, <1>4 DEF Execute, Live
  <2>2. UNCHANGED troubles \/ Trouble
    BY <1>4 DEF Execute
  <2>3. \/ Reflect(n, "scram", FALSE, "scram") \/ Reflect(n, "skipped", FALSE, "running")
        \/ Reflect(n, "failed", FALSE, "failed") \/ Reflect(n, "executing", FALSE, "running")
        \/ Reflect(n, "executing", TRUE, "running")
    BY <1>4 DEF Execute
  <2>4. exec[n] \in ExecStatus
    BY <1>1
  <2>. QED
    BY <1>1, <1>2, <1>3, <2>1, <2>2, <2>3, <2>4, ReflectKeeps
<1>5. CASE Execute(n) /\ exec' /= exec
  <2>1. Reflect(n, "executing", TRUE, "running") /\ exec' = [exec EXCEPT ![n] = "unstarted"]
        /\ UNCHANGED troubles
    BY <1>5 DEF Execute
  <2>2. "unstarted" \in ExecStatus /\ "executing" \in Worked
    BY DEF ExecStatus, Worked
  <2>. QED
    BY <1>1, <1>2, <1>3, <2>1, <2>2, ReflectKeeps
<1>6. CASE Follow(n)
  <2>1. /\ exec[n] /= "none" /\ exec[n] \in ExecStatus /\ UNCHANGED <<exec, troubles>>
        /\ Reflect(n, NodeOf[exec[n]], FALSE, ConductorOf(n))
    BY <1>1, <1>6 DEF Follow
  <2>2. exec' = [exec EXCEPT ![n] = exec[n]]
    BY <1>1, <2>1
  <2>3. exec[n] \in {"unstarted", "processing", "late", "complete", "warned", "failure",
                     "exception", "scram"}
    BY <2>1 DEF ExecStatus, ExecEnded
  <2>4. /\ NodeOf[exec[n]] \in NodeStatus \ {"unexecuted"}
        /\ exec[n] \in Live => NodeOf[exec[n]] \in Worked
    BY <2>3 DEF NodeOf, NodeStatus, NodeEnd, NodeNormal, NodeError, Live, Worked
  <2>5. ConductorOf(n) \in Updates
    BY <1>2, <2>3 DEF ConductorOf
  <2>. QED
    BY <1>1, <2>1, <2>2, <2>4, <2>5, ReflectKeeps
<1>. QED
  BY <1>4, <1>5, <1>6

\* The nodes that execute nothing.
LEMMA WaitingKeeps ==
    ASSUME ConductorInv, pass.pc = "nodes", NEW n \in pass.todo,
           StartNode(n) \/ EndNode(n) \/ BranchNode(n) \/ MergeNode(n) \/ PauseNode(n),
           UNCHANGED <<graph, cstatus, stopped, released, file>>
    PROVE  Keeps
<1>1. n \in Members /\ graph \in Graphs /\ nstatus \in [Members -> NodeStatus] /\ pass.update \in Updates
  BY AfterDueIs DEF ConductorInv, ConductorTypeOK, PassIsOpen
<1>2. {"scram", "running", "paused", "normal", "warned", "failed"} \subseteq Updates
  BY DEF Updates, ConductorEnd
<1>3. {"scram", "normal", "paused"} \subseteq NodeStatus \ {"unexecuted"}
  BY DEF NodeStatus, NodeEnd, NodeNormal, NodeError
<1>4. ~Drives(n) /\ UNCHANGED <<exec, troubles>>
  BY DEF Drives, StartNode, EndNode, BranchNode, MergeNode, PauseNode
<1>5. ASSUME NEW v \in {"scram", "normal", "paused"}, NEW u \in Updates,
             Turn(n, [nstatus EXCEPT ![n] = v], u),
             graph.type[n] /= "merge" \/ v \notin NodeNormal \/ Merges(n)
      PROVE  Keeps
  <2>1. nstatus' = [nstatus EXCEPT ![n] = v]
    BY <1>5 DEF Turn
  <2>2. Moved(n, v)
    BY <1>3, <1>5, <2>1, AloneIs
  <2>. QED
    BY <1>4, <1>5, <2>2, QuietTurnEnds
<1>6. ASSUME NEW v \in {"scram", "normal"}, NEW u \in Updates,
             Turn(n, Started([nstatus EXCEPT ![n] = v], graph.out[n]), u),
             graph.type[n] /= "merge" \/ Merges(n)
      PROVE  Keeps
  <2>1. nstatus' = Started([nstatus EXCEPT ![n] = v], graph.out[n])
    BY <1>6 DEF Turn
  <2>2. v \in NodeEnd /\ v \in NodeStatus \ {"unexecuted"}
    BY <1>3, <1>6 DEF NodeEnd, NodeNormal, NodeError
  <2>3. Moved(n, v)
    BY <1>6, <2>1, <2>2, TurnIs
  <2>. QED
    BY <1>4, <1>6, <2>3, QuietTurnEnds
<1>7. CASE StartNode(n)
  BY <1>2, <1>5, <1>6, <1>7 DEF StartNode
<1>8. CASE EndNode(n)
  <2>1. graph.endType[n] \in Updates
    BY <1>1, <1>2, <1>8, ClassIs DEF EndNode, EndTypes
  <2>. QED
    BY <1>2, <1>5, <1>8, <2>1 DEF EndNode
<1>9. CASE BranchNode(n)
  <2>1. CASE stopped
    BY <1>2, <1>5, <1>9, <2>1 DEF BranchNode
  <2>2. CASE ~stopped
    <3>. DEFINE key == IF graph.type[n] = "conditional-branch" THEN nstatus[CHOOSE p \in In(n) : TRUE]
                       ELSE file[CHOOSE p \in In(n) : TRUE]
                chosen == Chosen(n, key)
                go == Started(SkippedBelow([nstatus EXCEPT ![n] = "normal"], graph.out[n] \ chosen),
                              chosen)
    <3>1. Turn(n, go, "running") /\ graph.type[n] \in {"conditional-branch", "status-file-branch"}
      BY <1>9, <2>2 DEF BranchNode
    <3>2. chosen \in SUBSET graph.out[n]
      BY DEF Chosen
    <3>. HIDE DEF chosen
    <3>3. nstatus' = go
      BY <3>1 DEF Turn
    <3>4. Moved(n, "normal")
      BY <3>1, <3>2, <3>3, BranchIs
    <3>. HIDE DEF go
    <3>. QED
      BY <1>2, <1>4, <3>1, <3>4, QuietTurnEnds
  <2>. QED
    BY <2>1, <2>2
<1>10. CASE MergeNode(n)
  <2>. DEFINE v == IF stopped THEN "scram" ELSE "normal"
              u == IF stopped THEN "scram" ELSE pass.update
  <2>1. u \in Updates /\ v \in {"scram", "normal"} /\ graph.type[n] = "merge"
    BY <1>1, <1>2, <1>10 DEF MergeNode
  <2>2. \/ Merges(n) /\ Turn(n, Started([nstatus EXCEPT ![n] = v], graph.out[n]), u)
        \/ ~Merges(n) /\ stopped /\ Turn(n, [nstatus EXCEPT ![n] = v], u)
        \/ ~Merges(n) /\ ~stopped /\ Turn(n, nstatus, u)
    BY <1>10 DEF MergeNode
  <2>3. CASE ~Merges(n) /\ stopped /\ Turn(n, [nstatus EXCEPT ![n] = v], u)
    <3>1. v \notin NodeNormal
      BY <2>3 DEF NodeNormal
    <3>. QED
      BY <1>5, <2>1, <2>3, <3>1
  <2>4. CASE ~Merges(n) /\ ~stopped /\ Turn(n, nstatus, u)
    <3>1. nstatus[n] \in BusyStatus
      BY <2>1 DEF ConductorInv, TodoIsDue
    <3>2. nstatus' = [nstatus EXCEPT ![n] = nstatus[n]]
      BY <1>1, <2>4 DEF Turn
    <3>3. nstatus[n] \in NodeStatus \ {"unexecuted"} /\ nstatus[n] \notin NodeNormal
      BY <1>1, <3>1 DEF BusyStatus, NodeNormal
    <3>4. Moved(n, nstatus[n])
      BY <3>2, <3>3, AloneIs
    <3>. QED
      BY <1>4, <2>1, <2>4, <3>4, QuietTurnEnds
  <2>. HIDE DEF u, v
  <2>. QED
    BY <1>6, <2>1, <2>2, <2>3, <2>4
<1>11. CASE PauseNode(n)
  BY <1>2, <1>5, <1>6, <1>11 DEF PauseNode
<1>. QED
  BY <1>7, <1>8, <1>9, <1>10, <1>11

\* What moves no node keeps the order.
LEMMA UnmovedKeeps ==
    ASSUME ConductorInv, UNCHANGED <<graph, nstatus>>
    PROVE  OrderKept' /\ ShutIsUnexecuted' /\ Members' = Members /\ \A x : Drives(x)' = Drives(x)
<1>1. Members' = Members /\ (\A x : In(x)' = In(x)) /\ \A x : Drives(x)' = Drives(x)
  BY DEF Members, In, Drives
<1>2. \A x : LetsGo(x)' = LetsGo(x)
  BY <1>1 DEF LetsGo
<1>3. OrderKept'
  BY <1>1, <1>2 DEF ConductorInv, OrderKept
<1>4. \A S : Shut(S)' = Shut(S)
  BY <1>1, <1>2 DEF Shut
<1>. QED
  BY <1>1, <1>3, <1>4 DEF ConductorInv, ShutIsUnexecuted

\* The users and the drivers act between passes.
LEMMA OutsideKeeps ==
    ASSUME ConductorInv,
           \/ Scram \/ CancelBooking
           \/ \E n \in Members : Release(n) \/ ExecWorks(n) \/ ExecEnds(n)
    PROVE  Keeps
<1>. USE DEF Idle, Listed, Unlocked
<1>1. CASE Scram
  <2>1. UNCHANGED <<graph, nstatus, exec, pass, cstatus, released, file, troubles>> /\ stopped' \in BOOLEAN
    BY <1>1 DEF Scram
  <2>2. /\ ConductorTypeOK' /\ TodoIsDue' /\ LiveIsBusy' /\ PassIsOpen' /\ UnbegunIsUnexecuted'
        /\ NothingLeftRunning'
    BY <2>1, UnmovedKeeps
       DEF ConductorInv, ConductorTypeOK, TodoIsDue, LiveIsBusy, PassIsOpen, UnbegunIsUnexecuted,
           NothingLeftRunning
  <2>. QED
    BY <2>1, <2>2, UnmovedKeeps DEF ConductorInv, Keeps
<1>2. CASE CancelBooking
  <2>1. /\ UNCHANGED <<graph, nstatus, exec, pass, stopped, released, file, troubles>>
        /\ cstatus = "scheduled" /\ cstatus' = "cancelled" /\ pass.pc \in {"idle", "listed"}
    BY <1>2 DEF CancelBooking
  <2>2. /\ ConductorTypeOK' /\ TodoIsDue' /\ LiveIsBusy' /\ PassIsOpen' /\ UnbegunIsUnexecuted'
        /\ NothingLeftRunning'
    BY <2>1, UnmovedKeeps
       DEF ConductorInv, ConductorTypeOK, TodoIsDue, LiveIsBusy, PassIsOpen, UnbegunIsUnexecuted,
           NothingLeftRunning, Unbegun, ConductorStatus, ConductorEnd
  <2>. QED
    BY <2>1, <2>2, UnmovedKeeps DEF ConductorInv, Keeps
<1>3. ASSUME NEW n \in Members, ExecWorks(n) \/ ExecEnds(n) PROVE Keeps
  <2>1. /\ UNCHANGED <<graph, nstatus, pass, cstatus, stopped, released, troubles>>
        /\ exec[n] \in Live
        /\ \E d \in ExecStatus : exec' = [exec EXCEPT ![n] = d]
    BY <1>3 DEF ExecWorks, ExecEnds, Live, ExecStatus
  <2>2. file' \in [Members -> {"none", "value"}]
    BY <1>3 DEF ConductorInv, ConductorTypeOK, ExecWorks, ExecEnds
  <2>3. PICK d \in ExecStatus : exec' = [exec EXCEPT ![n] = d]
    BY <2>1
  <2>4. /\ exec' \in [Members -> ExecStatus]
        /\ \A x \in Members : x /= n => exec'[x] = exec[x]
    BY <2>3 DEF ConductorInv, ConductorTypeOK
  <2>5. cstatus \notin ConductorEnd
    BY <1>3, <2>1 DEF ConductorInv, NothingLeftRunning
  <2>6. Drives(n) /\ nstatus[n] \in {"executing", "delayed"}
    BY <2>1 DEF ConductorInv, LiveIsBusy
  <2>7. ConductorTypeOK' /\ TodoIsDue' /\ PassIsOpen' /\ UnbegunIsUnexecuted'
    BY <2>1, <2>2, <2>4, UnmovedKeeps
       DEF ConductorInv, ConductorTypeOK, TodoIsDue, PassIsOpen, UnbegunIsUnexecuted
  <2>8. LiveIsBusy' /\ NothingLeftRunning'
    BY <2>1, <2>4, <2>5, <2>6, UnmovedKeeps DEF ConductorInv, LiveIsBusy, NothingLeftRunning
  <2>. QED
    BY <2>1, <2>7, <2>8, UnmovedKeeps DEF ConductorInv, Keeps
<1>4. ASSUME NEW n \in Members, Release(n) PROVE Keeps
  <2>1. /\ graph.type[n] = "pause" /\ nstatus[n] = "paused" /\ pass.todo = {} /\ pass.pc \in {"idle", "listed"}
        /\ nstatus' = [nstatus EXCEPT ![n] = "executing"] /\ released' = [released EXCEPT ![n] = TRUE]
        /\ UNCHANGED <<graph, cstatus, stopped, exec, file, pass, troubles>>
    BY <1>4 DEF Release
  <2>2. Members' = Members /\ \A x : Drives(x)' = Drives(x)
    BY <2>1 DEF Members, Drives
  <2>3. /\ nstatus' \in [Members -> NodeStatus] /\ nstatus'[n] = "executing"
        /\ \A x \in Members : x /= n => nstatus'[x] = nstatus[x]
    BY <2>1 DEF ConductorInv, ConductorTypeOK, NodeStatus
  <2>4. OrderKept' /\ ShutIsUnexecuted'
    <3>1. \A x \in Members : /\ nstatus[x] \in NodeEnd => nstatus'[x] = nstatus[x]
                             /\ nstatus[x] = "unexecuted" => nstatus'[x] = "unexecuted"
                             /\ nstatus'[x] \in NodeNormal => nstatus[x] \in NodeNormal
      BY <2>1, <2>3 DEF NodeEnd, NodeNormal, NodeError
    <3>2. \A S \in SUBSET Members : Shut(S) => \A x \in S : nstatus'[x] = "unexecuted"
      BY <3>1 DEF ConductorInv, ShutIsUnexecuted
    <3>. QED
      BY <2>1, <3>1, <3>2, GrowthKeeps DEF LetsGo, NodeEnd
  <2>5. /\ ConductorTypeOK' /\ TodoIsDue' /\ PassIsOpen' /\ UnbegunIsUnexecuted'
        /\ NothingLeftRunning'
    BY <2>1, <2>2, <2>3
       DEF ConductorInv, ConductorTypeOK, TodoIsDue, PassIsOpen, UnbegunIsUnexecuted, NothingLeftRunning
  <2>6. LiveIsBusy'
    BY <2>1, <2>2, <2>3 DEF ConductorInv, LiveIsBusy
  <2>. QED
    BY <2>1, <2>3, <2>4, <2>5, <2>6 DEF ConductorInv, Keeps, NodeNormal
<1>. QED
  BY <1>1, <1>2, <1>3, <1>4

\* chk_conductor_end gives an end status: of several end types the gravest.
LEMMA EndStatusIs ==
    ASSUME graph \in Graphs, NEW s
    PROVE  EndStatus(s) \in ConductorEnd
<1>. DEFINE types == {graph.endType[n] : n \in {m \in Of("end") : s[m] = "normal"}}
<1>1. types \subseteq EndTypes
  BY ClassIs DEF Of
<1>2. CASE types = {}
  <2>1. EndStatus(s) \in {"normal", "scram", "failed", "exception"}
    <3>. HIDE DEF types
    <3>. QED
      BY <1>2 DEF EndStatus, types
  <2>. QED
    BY <2>1 DEF ConductorEnd
<1>3. CASE types /= {}
  <2>1. \E t \in types : \A d \in types : Severity(d) <= Severity(t)
    <3>. HIDE DEF types
    <3>1. \A t \in types : t \in {"normal", "warned", "failed"}
      BY <1>1 DEF EndTypes
    <3>2. Severity("failed") = 2 /\ Severity("warned") = 1 /\ Severity("normal") = 0
      BY DEF Severity
    <3>3. CASE "failed" \in types
      BY <3>1, <3>2, <3>3
    <3>4. CASE "failed" \notin types /\ "warned" \in types
      BY <3>1, <3>2, <3>4
    <3>5. CASE "failed" \notin types /\ "warned" \notin types
      BY <1>3, <3>1, <3>2, <3>5
    <3>. QED
      BY <3>3, <3>4, <3>5
  <2>2. EndStatus(s) = CHOOSE t \in types : \A d \in types : Severity(d) <= Severity(t)
    BY <1>3 DEF EndStatus
  <2>3. EndStatus(s) \in types
    <3>. HIDE DEF types
    <3>. QED
      BY <2>1, <2>2
  <2>. QED
    BY <1>1, <2>3 DEF EndTypes, ConductorEnd
<1>. QED
  BY <1>2, <1>3

\* A pass opens the instance, and passes over what cannot be read.
LEMMA PassMoves ==
    ASSUME ConductorInv, List \/ PassStart \/ NodesDone \/ \E n \in Members : NodeBreaks(n)
    PROVE  Keeps
<1>1. UNCHANGED <<graph, nstatus, exec, stopped, released, file>>
  BY DEF List, PassStart, NodesDone, NodeBreaks
<1>2. {"scram", "running", "none"} \subseteq Updates
  BY DEF Updates, ConductorEnd
<1>3. pass \in [pc : {"idle", "listed", "nodes", "finish"}, todo : SUBSET Members, update : Updates]
  BY PassTypeIs
<1>4. /\ pass' \in [pc : {"idle", "listed", "nodes", "finish"}, todo : SUBSET Members, update : Updates]
      /\ cstatus' \in ConductorStatus /\ troubles' \in 0..MaxTroubles
      /\ \A n \in pass'.todo :
            nstatus[n] \in BusyStatus \/ (graph.type[n] = "start" /\ nstatus[n] = "unexecuted")
      /\ pass'.pc = "listed" => cstatus' \in ConductorOpen
      /\ pass'.pc \in {"nodes", "finish"} => cstatus' \notin Unbegun
      /\ pass'.pc \in {"nodes", "finish"} /\ cstatus' \in ConductorEnd =>
            \A n \in pass'.todo : ~Drives(n)
      /\ cstatus' \in Unbegun => cstatus' = cstatus
      /\ cstatus' \in ConductorEnd => cstatus' = cstatus \/ cstatus = "cancelled"
  <2>0. cstatus \in ConductorStatus /\ troubles \in 0..MaxTroubles /\ graph \in Graphs
    BY DEF ConductorInv, ConductorTypeOK
  <2>1. CASE PassStart
    <3>. DEFINE ended == IF cstatus = "cancelled" THEN EndStatus(nstatus) ELSE "none"
    <3>1. /\ pass' = [pc |-> "nodes", todo |-> IF FirstToStart /= {} THEN FirstToStart ELSE Busy,
                       update |-> ended]
          /\ \/ cstatus = "cancelled" /\ cstatus' = EndStatus(nstatus)
             \/ cstatus \in {"unexecuted", "scheduled"} /\ cstatus' = "running"
             \/ cstatus \in {"running", "delayed", "paused"} /\ cstatus' = cstatus
          /\ troubles' = troubles
      BY <2>1 DEF PassStart, ConductorInv, PassIsOpen, ConductorOpen, Listed
    <3>2. FirstToStart \subseteq Members /\ Busy \subseteq Members
      BY DEF FirstToStart, Busy, Of
    <3>3. \A n \in pass'.todo :
             nstatus[n] \in BusyStatus \/ (graph.type[n] = "start" /\ nstatus[n] = "unexecuted")
      BY <3>1 DEF FirstToStart, Busy, Of, BusyStatus
    <3>4. EndStatus(nstatus) \in ConductorEnd /\ ended \in Updates
      BY <2>0, EndStatusIs DEF Updates
    <3>5. cstatus = "cancelled" => \A n \in pass'.todo : ~Drives(n)
      BY <3>1, <3>2, <3>3 DEF ConductorInv, UnbegunIsUnexecuted, Unbegun, BusyStatus, Drives
    <3>. HIDE DEF ended
    <3>6. /\ cstatus' \in ConductorStatus /\ cstatus' \notin Unbegun
          /\ cstatus' \in ConductorEnd => cstatus = "cancelled"
      BY <3>1, <3>4 DEF ConductorStatus, ConductorOpen, ConductorEnd, Unbegun
    <3>. QED
      BY <2>0, <3>1, <3>2, <3>3, <3>4, <3>5, <3>6
  <2>2. CASE NodesDone
    BY <1>3, <2>0, <2>2 DEF NodesDone, ConductorInv, TodoIsDue, PassIsOpen
  <2>3. ASSUME NEW n \in Members, NodeBreaks(n) PROVE <1>4!:
    <3>1. /\ \E u \in Updates : pass' = [pc |-> "finish", todo |-> {}, update |-> u]
          /\ cstatus' = cstatus /\ cstatus \notin Unbegun
      BY <1>2, <1>3, <2>3 DEF NodeBreaks, ConductorInv, PassIsOpen
    <3>2. troubles' \in 0..MaxTroubles
      BY <2>3, TroubleAssumption DEF NodeBreaks, Trouble, ConductorInv, ConductorTypeOK
    <3>. QED
      BY <2>0, <3>1, <3>2
  <2>4. CASE List
    BY <1>2, <2>0, <2>4 DEF List, Listed, Idle
  <2>. QED
    BY <2>1, <2>2, <2>3, <2>4
<1>5. /\ ConductorTypeOK' /\ TodoIsDue' /\ LiveIsBusy' /\ PassIsOpen' /\ UnbegunIsUnexecuted'
      /\ NothingLeftRunning'
  <2>1. ConductorTypeOK'
    BY <1>1, <1>4, UnmovedKeeps, UpdatesAre DEF ConductorInv, ConductorTypeOK
  <2>2. LiveIsBusy'
    BY <1>1, UnmovedKeeps DEF ConductorInv, LiveIsBusy
  <2>3. TodoIsDue' /\ PassIsOpen' /\ UnbegunIsUnexecuted'
    BY <1>1, <1>4, UnmovedKeeps DEF ConductorInv, TodoIsDue, PassIsOpen, UnbegunIsUnexecuted
  <2>4. NothingLeftRunning'
    <3>1. cstatus = "cancelled" => \A n \in Members : exec[n] \notin Live
      BY DEF ConductorInv, UnbegunIsUnexecuted, Unbegun, LiveIsBusy
    <3>. QED
      BY <1>1, <1>4, <3>1, UnmovedKeeps DEF ConductorInv, NothingLeftRunning
  <2>. QED
    BY <2>1, <2>2, <2>3, <2>4
<1>. QED
  BY <1>1, <1>5, UnmovedKeeps DEF ConductorInv, Keeps

\* A pass ends the conductor only when no movement and no called conductor is at work.
LEMMA PassEndKeeps ==
    ASSUME ConductorInv, PassEnd
    PROVE  Keeps
<1>. DEFINE drives == {n \in Members : nstatus[n] \in {"executing", "delayed"} /\ Drives(n)}
<1>1. /\ UNCHANGED <<graph, stopped, released, exec, file, troubles>> /\ pass' = Idle
      /\ graph \in Graphs /\ nstatus \in [Members -> NodeStatus]
      /\ cstatus \in ConductorStatus \ Unbegun /\ pass.update \in Updates
  BY DEF PassEnd, ConductorInv, ConductorTypeOK, PassIsOpen
<1>2. Members' = Members /\ \A x : Drives(x)' = Drives(x)
  BY <1>1 DEF Members, Drives
<1>3. \/ nstatus' = nstatus /\ cstatus' \in {"running", "delayed", "paused", cstatus}
      \/ nstatus' = nstatus /\ Busy = {} /\ cstatus' = EndStatus(nstatus)
      \/ /\ \E ms \in SUBSET WaitingNodes :
              nstatus' = [n \in Members |-> IF n \in ms THEN "failed" ELSE nstatus[n]]
         /\ cstatus' = cstatus \/ (drives = {} /\ cstatus' = EndStatus(nstatus))
  <2>. DEFINE update == IF cstatus = "delayed" /\ pass.update = "running"
                        THEN "delayed" ELSE pass.update
  <2>1. \/ UNCHANGED <<cstatus, nstatus>>
        \/ update \in ConductorOpen /\ cstatus' = update /\ UNCHANGED nstatus
        \/ CheckEnd
    BY DEF PassEnd
  <2>2. update \in ConductorOpen => update \in {"running", "delayed", "paused"}
    BY <1>1 DEF Updates, ConductorOpen, ConductorEnd
  <2>. HIDE DEF update
  <2>3. CASE CheckEnd
    <3>. DEFINE failed(ms) == [n \in Members |-> IF n \in ms THEN "failed" ELSE nstatus[n]]
    <3>1. \/ Busy = {} /\ cstatus' = EndStatus(nstatus) /\ nstatus' = nstatus
          \/ UNCHANGED <<cstatus, nstatus>>
          \/ drives = {} /\ nstatus' = failed(WaitingNodes) /\ cstatus' = EndStatus(nstatus)
          \/ (\E ms \in SUBSET WaitingNodes : nstatus' = failed(ms)) /\ UNCHANGED cstatus
      BY <2>3 DEF CheckEnd
    <3>. HIDE DEF drives
    <3>. QED
      BY <1>1, <3>1
  <2>. QED
    BY <1>1, <2>1, <2>2, <2>3
<1>. HIDE DEF drives
<1>4. /\ OrderKept' /\ ShutIsUnexecuted' /\ nstatus' \in [Members -> NodeStatus]
      /\ \A x \in Members : nstatus'[x] = nstatus[x] \/ ~Drives(x)
      /\ \A x \in Members : nstatus[x] \in NodeNormal => nstatus'[x] = nstatus[x]
  <2>1. CASE nstatus' = nstatus
    BY <1>1, <2>1, UnmovedKeeps
  <2>2. ASSUME NEW ms \in SUBSET WaitingNodes,
               nstatus' = [n \in Members |-> IF n \in ms THEN "failed" ELSE nstatus[n]]
        PROVE  <1>4!:
    BY <1>1, <2>2, FailedIs
  <2>. QED
    BY <1>3, <2>1, <2>2
<1>5. /\ cstatus' \in ConductorStatus \ Unbegun
      /\ cstatus' \in ConductorEnd => cstatus \in ConductorEnd \/ Busy = {} \/ drives = {}
  BY <1>1, <1>3, EndStatusIs DEF ConductorStatus, ConductorOpen, ConductorEnd, Unbegun
<1>6. LiveIsBusy'
  BY <1>1, <1>2, <1>4 DEF ConductorInv, LiveIsBusy
<1>7. NothingLeftRunning'
  BY <1>1, <1>2, <1>5 DEF NothingLeftRunning, ConductorInv, LiveIsBusy, Busy, drives
<1>8. ConductorTypeOK' /\ TodoIsDue' /\ PassIsOpen' /\ UnbegunIsUnexecuted'
  <2>1. pass' \in [pc : {"idle", "listed", "nodes", "finish"}, todo : SUBSET Members,
                  update : ConductorStatus \cup {"none"}]
    BY <1>1 DEF Idle
  <2>. QED
    BY <1>1, <1>2, <1>4, <1>5, <2>1
       DEF ConductorInv, ConductorTypeOK, TodoIsDue, PassIsOpen, UnbegunIsUnexecuted, Updates, Idle
<1>. QED
  BY <1>4, <1>6, <1>7, <1>8 DEF ConductorInv, Keeps

\* It holds of an instance that was just registered.
LEMMA ConductorInvStarts == ConductorInit => ConductorInv
<1>. SUFFICES ASSUME ConductorInit PROVE ConductorInv
  OBVIOUS
<1>1. ConductorTypeOK
  <2>1. /\ nstatus \in [Members -> NodeStatus] /\ released \in [Members -> BOOLEAN]
        /\ exec \in [Members -> ExecStatus] /\ file \in [Members -> {"none", "value"}]
    BY DEF ConductorInit, NodeStatus, ExecStatus
  <2>2. cstatus \in ConductorStatus
    BY DEF ConductorInit, ConductorStatus, ConductorOpen
  <2>3. pass \in [pc : {"idle", "listed", "nodes", "finish"}, todo : SUBSET Members,
                 update : ConductorStatus \cup {"none"}]
    BY DEF ConductorInit, Idle
  <2>4. graph \in Graphs /\ stopped \in BOOLEAN
    BY DEF ConductorInit
  <2>5. troubles \in 0..MaxTroubles
    <3>1. troubles = 0
      BY DEF ConductorInit
    <3>. QED
      BY <3>1, TroubleAssumption
  <2>. QED
    BY <2>1, <2>2, <2>3, <2>4, <2>5 DEF ConductorTypeOK
<1>. QED
  BY <1>1 DEF ConductorInit, ConductorInv, TodoIsDue, OrderKept, ShutIsUnexecuted, LiveIsBusy,
     UnbegunIsUnexecuted, PassIsOpen, Updates, NothingLeftRunning, ConductorEnd, Idle, Live, NodeNormal

\* Whatever step is taken keeps it, and what ended well.
LEMMA ConductorStepKeeps ==
    ASSUME ConductorInv, [ConductorNext]_conductorVars
    PROVE  Keeps
<1>1. CASE UNCHANGED conductorVars
  <2>1. /\ ConductorTypeOK' /\ TodoIsDue' /\ LiveIsBusy' /\ PassIsOpen' /\ UnbegunIsUnexecuted'
        /\ NothingLeftRunning'
    BY <1>1, UnmovedKeeps
       DEF conductorVars, ConductorInv, ConductorTypeOK, TodoIsDue, LiveIsBusy, PassIsOpen,
           UnbegunIsUnexecuted, NothingLeftRunning
  <2>. QED
    BY <1>1, <2>1, UnmovedKeeps DEF conductorVars, ConductorInv, Keeps
<1>2. ASSUME NEW n \in Members, NodeTurn(n) PROVE Keeps
  BY <1>2, DrivenKeeps, WaitingKeeps DEF NodeTurn
<1>. QED
  BY <1>1, <1>2, OutsideKeeps, PassMoves, PassEndKeeps DEF ConductorNext, PassSteps

\* The statuses of a conductor instance, of its nodes and executions, and what a
\* pass keeps of them, are those the tables know, whatever its class looks like.
THEOREM ConductorTypeHolds == ConductorSpec => []ConductorTypeOK
<1>1. ConductorInv /\ [ConductorNext]_conductorVars => ConductorInv'
  BY ConductorStepKeeps DEF Keeps
<1>2. ConductorInv => ConductorTypeOK
  BY DEF ConductorInv
<1>. QED
  BY <1>1, <1>2, ConductorInvStarts, PTL DEF ConductorSpec

\* Of no class, however its branches, merges and cycles lie, a pass starts a node
\* before its turn: not when it skips branches, not when a node fails or is
\* stopped, and not round a cycle that nothing enters.
THEOREM OrderKeptHolds == ConductorSpec => []OrderKept
<1>1. ConductorInv /\ [ConductorNext]_conductorVars => ConductorInv'
  BY ConductorStepKeeps DEF Keeps
<1>2. ConductorInv => OrderKept
  BY DEF ConductorInv
<1>. QED
  BY <1>1, <1>2, ConductorInvStarts, PTL DEF ConductorSpec

\* chk_conductor_end never ends a conductor with a movement or a called conductor
\* still at work: no branch that is skipped holds one.
THEOREM NothingLeftRunningHolds == ConductorSpec => []NothingLeftRunning
<1>1. ConductorInv /\ [ConductorNext]_conductorVars => ConductorInv'
  BY ConductorStepKeeps DEF Keeps
<1>2. ConductorInv => NothingLeftRunning
  BY DEF ConductorInv
<1>. QED
  BY <1>1, <1>2, ConductorInvStarts, PTL DEF ConductorSpec

\* No later pass starts or judges anew a node that ended well, whatever turns the
\* nodes before it take and in which order the rows come.
THEOREM WellEndedIsFinalHolds == ConductorSpec => WellEndedIsFinal
<1>. DEFINE Final == \A n \in Members : nstatus[n] \in NodeNormal => nstatus'[n] = nstatus[n]
<1>1. ConductorInv /\ [ConductorNext]_conductorVars => ConductorInv' /\ Final
  BY ConductorStepKeeps DEF Keeps
<1>2. ConductorInv /\ [ConductorNext]_conductorVars => [Final]_conductorVars
  BY <1>1
<1>. QED
  BY <1>1, <1>2, ConductorInvStarts, PTL DEF ConductorSpec, WellEndedIsFinal
=============================================================================
