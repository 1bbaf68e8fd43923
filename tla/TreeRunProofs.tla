---------------------------- MODULE TreeRunProofs ----------------------------
(***************************************************************************)
(* Proofs about TreeRun for any number of sessions, with or without the    *)
(* executor, and for every set of faults: the types, that a branch dies    *)
(* with its starter, that no node is ended under an agent that goes on,    *)
(* and what the executor's sweep leaves running.  Chains of processes have *)
(* any length: Forest says of every set of nodes what induction along a    *)
(* chain needs.                                                            *)
(***************************************************************************)
EXTENDS TreeRun, TLAPS

\* The processes of a session and of those it was started under, as Chain has them.
Up(u) ==
    LET up[s \in Sessions] ==
          {SprigOf(s), StarterOf(s)}
          \cup IF u[s] \in Nodes THEN up[u[s]] ELSE {}
    IN  up

LEMMA ChainIsUp ==
    ASSUME NEW x
    PROVE  Chain(x) = Up(under)[x[2]] \ (IF x[1] = "starter" THEN {SprigOf(x[2])} ELSE {})
BY DEF Chain, Up

\* Up is what its recursion says, whatever the links are: the smallest sets that hold a session and what
\* it was started under are a solution.
LEMMA UpIs ==
    ASSUME NEW u, \A s \in Sessions : u[s] \in Nodes => u[s] \in Sessions
    PROVE  /\ Up(u) = [s \in Sessions |-> Up(u)[s]]
           /\ \A s \in Sessions :
                 Up(u)[s] = {SprigOf(s), StarterOf(s)}
                            \cup IF u[s] \in Nodes THEN Up(u)[u[s]] ELSE {}
<1> DEFINE Shut(X) == \A m \in X : u[m] \in Nodes => u[m] \in X
           Least(s) == {n \in Sessions : \A X \in SUBSET Sessions : s \in X /\ Shut(X) => n \in X}
           f == [s \in Sessions |-> {SprigOf(n) : n \in Least(s)} \cup {StarterOf(n) : n \in Least(s)}]
<1>1. ASSUME NEW s \in Sessions PROVE s \in Least(s) /\ Shut(Least(s))
    OBVIOUS
<1>2. ASSUME NEW s \in Sessions
      PROVE  Least(s) = {s} \cup IF u[s] \in Nodes THEN Least(u[s]) ELSE {}
  <2>1. CASE u[s] \in Nodes
    <3> DEFINE X == {s} \cup Least(u[s])
    <3>1. u[s] \in Sessions /\ X \in SUBSET Sessions /\ s \in X /\ Shut(X)
      BY <2>1, <1>1
    <3>2. Least(s) \subseteq X
      BY <3>1
    <3>3. \A n \in Least(u[s]) : n \in Least(s)
      BY <2>1
    <3> QED
      BY <2>1, <3>2, <3>3, <1>1
  <2>2. CASE u[s] \notin Nodes
    <3>1. {s} \in SUBSET Sessions /\ s \in {s} /\ Shut({s})
      BY <2>2
    <3> QED
      BY <2>2, <3>1, <1>1
  <2> QED
    BY <2>1, <2>2
<1>3. \A s \in Sessions :
         f[s] = {SprigOf(s), StarterOf(s)} \cup IF u[s] \in Nodes THEN f[u[s]] ELSE {}
  <2> HIDE DEF Least
  <2> QED
    BY <1>2
<1>4. f = [s \in Sessions |-> {SprigOf(s), StarterOf(s)}
                              \cup IF u[s] \in Nodes THEN f[u[s]] ELSE {}]
  <2> HIDE DEF Least
  <2> QED
    BY <1>3
<1>5. Up(u) = CHOOSE g : g = [s \in Sessions |-> {SprigOf(s), StarterOf(s)}
                                \cup IF u[s] \in Nodes THEN g[u[s]] ELSE {}]
  BY DEF Up
<1> HIDE DEF f
<1>6. Up(u) = [s \in Sessions |-> {SprigOf(s), StarterOf(s)}
                                \cup IF u[s] \in Nodes THEN Up(u)[u[s]] ELSE {}]
  BY <1>4, <1>5
<1> QED
  BY <1>6

-----------------------------------------------------------------------------
(* The invariant.                                                          *)

\* No starter is below itself, however long its chain.
Forest ==
    \A D \in SUBSET Nodes : (\A s \in D : under[s] \in D) => D = {}

\* What was started under a session was started by a node, and the ledger has the same parents.
Links ==
    /\ IsNode(tree, Root) /\ tree.parent[Root] = NoSession
    /\ starter[Root] \in {"none", "waiting", "ending", "returned"}
    /\ \A s \in Nodes :
          /\ starter[s] # "none" => under[s] \in Sessions
          /\ under[s] \in Nodes => IsNode(tree, under[s])
          /\ IsNode(tree, s) => starter[s] \notin {"none", "proposed"} /\ tree.parent[s] = under[s]

\* A sprig is started for a node, and its starter has seen it exit before it clears up.
Phases ==
    \A s \in Nodes :
        /\ Active(s) /\ starter[s] # "proposed" => IsNode(tree, s)
        /\ starter[s] \in {"none", "proposed", "spawned"} => sprig[s] = "none"
        /\ sprig[s] # "none" => IsNode(tree, s)
        /\ sprig[s] = "alive" => starter[s] \in {"started", "waiting", "killing", "dead"}

\* A process whose parent is gone has its signal.
Guarded ==
    \A s \in Nodes :
        /\ sprig[s] = "alive" => Active(s) \/ SprigOf(s) \in signalled
        /\ Active(s) /\ under[s] \in Nodes =>
              sprig[under[s]] = "alive" \/ StarterOf(s) \in signalled

\* One of the two processes of the node is gone for good.
Gone(n) ==
    /\ IsNode(tree, n)
    /\ sprig[n] = "exited" \/ starter[n] \in {"clearing", "ending", "returned", "dead"}

\* The chain of a node runs through such a node.
Cut(d) ==
    /\ IsNode(tree, d)
    /\ \E n \in Nodes : {SprigOf(n), StarterOf(n)} \subseteq Up(under)[d] /\ Gone(n)

\* What has ended, and what is about to be, is cut off from the top.
OnlyCutEnds ==
    /\ \A d \in Nodes : tree.state[d] = "ended" => Cut(d)
    /\ \A e \in Sessions : \A d \in todo[e] : Cut(d)
-----------------------------------------------------------------------------
(* The ledger.                                                             *)

\* The ancestors of a session are what their recursion says, as in UpIs.
LEMMA AboveIs ==
    ASSUME NEW t \in Tree
    PROVE  \A s \in Sessions :
              Above(t)[s] = IF t.parent[s] = NoSession THEN {}
                            ELSE {t.parent[s]} \cup Above(t)[t.parent[s]]
<1> DEFINE q == t.parent
           Shut(X) == \A m \in X : q[m] # NoSession => q[m] \in X
           Least(s) == {n \in Sessions :
                           \A X \in SUBSET Sessions : q[s] \in X /\ Shut(X) => n \in X}
           f == [s \in Sessions |-> IF q[s] = NoSession THEN {} ELSE Least(s)]
<1>1. \A s \in Sessions : q[s] \in Sessions \cup {NoSession}
    BY DEF Tree
<1> HIDE DEF q
<1>2. ASSUME NEW s \in Sessions, q[s] # NoSession
      PROVE  Least(s) = {q[s]} \cup IF q[q[s]] = NoSession THEN {} ELSE Least(q[s])
  <2>1. q[s] \in Least(s) /\ Shut(Least(s))
    BY <1>1, <1>2
  <2>2. CASE q[q[s]] = NoSession
    <3>1. {q[s]} \in SUBSET Sessions /\ q[s] \in {q[s]} /\ Shut({q[s]})
      BY <1>1, <1>2, <2>2
    <3> QED
      BY <3>1, <2>1, <2>2
  <2>3. CASE q[q[s]] # NoSession
    <3> DEFINE X == {q[s]} \cup Least(q[s])
    <3>1. q[q[s]] \in Least(q[s]) /\ Shut(Least(q[s]))
      BY <1>1, <1>2, <2>3
    <3>2. X \in SUBSET Sessions /\ q[s] \in X /\ Shut(X)
      BY <1>1, <1>2, <3>1
    <3>3. Least(s) \subseteq X
      BY <3>2
    <3>4. \A n \in Least(q[s]) : n \in Least(s)
      BY <1>1, <1>2, <2>3
    <3> QED
      BY <3>3, <3>4, <2>1, <2>3
  <2> QED
    BY <2>2, <2>3
<1>3. f = [s \in Sessions |-> IF q[s] = NoSession THEN {} ELSE {q[s]} \cup f[q[s]]]
  <2> HIDE DEF Least
  <2> QED
    BY <1>1, <1>2
<1>4. Above(t) = CHOOSE g : g = [s \in Sessions |-> IF t.parent[s] = NoSession THEN {}
                                                    ELSE {t.parent[s]} \cup g[t.parent[s]]]
  BY DEF Above
<1> HIDE DEF f
<1>5. Above(t) = [s \in Sessions |-> IF t.parent[s] = NoSession THEN {}
                                     ELSE {t.parent[s]} \cup Above(t)[t.parent[s]]]
  BY <1>3, <1>4 DEF q
<1> QED
  BY <1>5

\* The nodes and their parents are the same.
Steady(u) ==
    /\ u \in Tree /\ u.parent = tree.parent
    /\ \A d \in Sessions : IsNode(u, d) <=> IsNode(tree, d)

LEMMA EndedIs ==
    ASSUME tree \in Tree, NEW s \in Sessions
    PROVE  /\ Steady(Ended(s))
           /\ \A d \in Sessions :
                 Ended(s).state[d] = "ended" => d = s \/ tree.state[d] = "ended"
<1> DEFINE u == EndRow(tree, s, NoCount)
<1>1. u \in Tree
  BY DEF EndRow, Tree, MaybeCount
<1>2. u.parent = tree.parent
  BY DEF EndRow, Tree
<1>3. \A d \in Sessions : /\ IsNode(u, d) <=> IsNode(tree, d)
                          /\ u.state[d] = "ended" => d = s \/ tree.state[d] = "ended"
  BY DEF EndRow, Tree, IsNode, Running
<1>4. Ended(s) = u \/ Ended(s) = tree
  BY DEF Ended
<1> HIDE DEF u
<1> QED
  BY <1>1, <1>2, <1>3, <1>4 DEF Steady

LEMMA GroupRowIs ==
    ASSUME tree \in Tree, NEW s \in Sessions, NEW g \in Groups
    PROVE  Steady(GroupRow(tree, s, g)) /\ GroupRow(tree, s, g).state = tree.state
<1> DEFINE u == GroupRow(tree, s, g)
<1>1. u \in Tree
  BY DEF GroupRow, Tree
<1>2. u.parent = tree.parent /\ u.state = tree.state
  BY DEF GroupRow, Tree
<1> QED
  BY <1>1, <1>2 DEF Steady, IsNode

LEMMA SpawnRowIs ==
    ASSUME tree \in Tree, NEW s \in Sessions, NEW p \in Sessions, ~IsNode(tree, s), Running(tree, p)
    PROVE  LET u == SpawnRow(tree, p, s, NoEnvelope, NoCount, TRUE, NoCount)
           IN  /\ u \in Tree
               /\ u.state = [tree.state EXCEPT ![s] = "running"]
               /\ u.parent = [tree.parent EXCEPT ![s] = p]
<1> DEFINE u == SpawnRow(tree, p, s, NoEnvelope, NoCount, TRUE, NoCount)
           v == NewNode(tree, s, p, tree.root[p], NoEnvelope, NoCount, TRUE)
<1>1. /\ v \in Tree
      /\ v.state = [tree.state EXCEPT ![s] = "running"]
      /\ v.parent = [tree.parent EXCEPT ![s] = p]
  BY DEF NewNode, Tree, MaybeCount
<1>2. u = [v EXCEPT !.refused[p] = 0, !.own[p] = v.own[p]]
  BY DEF SpawnRow
<1> HIDE DEF u, v
<1>3. u \in Tree /\ u.state = v.state /\ u.parent = v.parent
  <2>1. v.own[p] \in MaybeCount
    BY <1>1 DEF Tree
  <2>2. \A n \in MaybeCount :
           LET w == [v EXCEPT !.refused[p] = 0, !.own[p] = n]
           IN  w \in Tree /\ w.state = v.state /\ w.parent = v.parent
    BY <1>1 DEF Tree
  <2>3. LET w == [v EXCEPT !.refused[p] = 0, !.own[p] = v.own[p]]
        IN  w \in Tree /\ w.state = v.state /\ w.parent = v.parent
    BY <2>1, <2>2
  <2> QED
    BY <1>2, <2>3
<1> QED
  BY <1>1, <1>3 DEF u
-----------------------------------------------------------------------------
(* The processes.                                                          *)

Phase == {"none", "proposed", "spawned", "started", "waiting", "killing", "clearing", "ending",
          "returned", "dead"}

Shape == TypeOK /\ Forest /\ Links /\ Phases /\ Guarded

\* The rest of what a step may do: to the lists of starters, and to signals, of which there are more.
Lists ==
    /\ targets' \in [Sessions -> SUBSET Groups]
    /\ todo' \in [Sessions -> SUBSET Nodes]
    /\ late' \subseteq Nodes
    /\ signalled \subseteq signalled' /\ signalled' \subseteq Process

LEMMA NodesAre == /\ Nodes \subseteq Sessions /\ Root \notin Nodes /\ NoSession \notin Nodes
                  /\ NoSession \notin Sessions
BY RunAssumption, TreeAssumption DEF Nodes

LEMMA InitShape == Init => Shape
<1> SUFFICES ASSUME Init PROVE Shape
  OBVIOUS
<1>1. EmptyTree \in Tree
  BY DEF EmptyTree, Tree, MaybeCount
<1>2. tree \in Tree /\ tree.parent = [EmptyTree.parent EXCEPT ![Root] = NoSession]
      /\ tree.state = [EmptyTree.state EXCEPT ![Root] = "running"]
  BY <1>1, RunAssumption, ZenonT(40) DEF Init, RootRow, NewNode, IsNode, EmptyTree, Tree, MaybeCount
<1>3. TypeOK
  BY <1>2, RunAssumption DEF Init, TypeOK
<1>4. Forest
  BY NodesAre DEF Init, Forest
<1>5. Links
  BY <1>2, NodesAre, RunAssumption, ZenonT(40) DEF Init, Links, IsNode, EmptyTree
<1>6. Phases /\ Guarded
  BY NodesAre DEF Init, Phases, Guarded, Active
<1> QED
  BY <1>3, <1>4, <1>5, <1>6 DEF Shape

\* A starter that goes on in run_node, or returns, once its sprig is not alive.
LEMMA StarterMoves ==
    ASSUME Shape, Steady(tree'), Lists, NEW s \in Nodes, NEW ph \in Phase,
           starter' = [starter EXCEPT ![s] = ph], UNCHANGED <<under, sprig>>,
           Active(s), IsNode(tree, s) \/ ph = "returned",
           \/ ph \in {"waiting", "killing"} /\ starter[s] \in {"started", "waiting"}
           \/ ph \in {"clearing", "ending", "returned"} /\ sprig[s] # "alive"
    PROVE  Shape'
<1> USE NodesAre
<1>1. TypeOK'
  BY DEF Shape, TypeOK, Steady, Lists, Phase
<1>2. Forest'
  BY DEF Shape, Forest
<1>3. Links'
  <2>1. ph \notin {"none", "proposed"} /\ starter[s] # "none"
    BY DEF Active
  <2>2. \A n \in Sessions : n # s => starter'[n] = starter[n]
    BY DEF Shape, TypeOK
  <2>3. starter'[s] = ph
    BY DEF Shape, TypeOK
  <2>4. /\ tree'.parent = tree.parent
        /\ \A n \in Sessions : IsNode(tree, n)' <=> IsNode(tree, n)
    BY DEF Steady, IsNode
  <2> QED
    BY <2>1, <2>2, <2>3, <2>4, RunAssumption DEF Shape, Links
<1>4. Phases'
  BY DEF Shape, TypeOK, Phases, Steady, IsNode, Active
<1>5. Guarded'
  BY DEF Shape, TypeOK, Guarded, Active, Lists
<1> QED
  BY <1>1, <1>2, <1>3, <1>4, <1>5 DEF Shape

\* A step of the ledger, the lists and the executor only.
LEMMA LedgerMoves ==
    ASSUME Shape, Steady(tree'), Lists, starter' \in [Sessions -> Phase],
           \A s \in Nodes : starter'[s] = starter[s],
           starter'[Root] \in {"none", "waiting", "ending", "returned"},
           UNCHANGED <<under, sprig>>
    PROVE  Shape'
<1> USE NodesAre
<1>1. TypeOK'
  BY DEF Shape, TypeOK, Steady, Lists, Phase
<1>2. Forest'
  BY DEF Shape, Forest
<1>3. Links'
  BY RunAssumption DEF Shape, TypeOK, Links, Steady, IsNode
<1>4. Phases'
  BY DEF Shape, TypeOK, Phases, Steady, IsNode, Active
<1>5. Guarded'
  BY DEF Shape, TypeOK, Guarded, Active, Lists
<1> QED
  BY <1>1, <1>2, <1>3, <1>4, <1>5 DEF Shape
\* Nobody is started under itself: who starts is a node, who is started is not.
LEMMA RunStarterNodes ==
    ASSUME Shape, NEW p \in Sessions, NEW s \in Nodes, RunStarter(p, s)
    PROVE  /\ p # s /\ IsNode(tree, p) /\ ~IsNode(tree, s)
           /\ p \in Nodes => sprig[p] = "alive"
           /\ sprig[s] = "none" /\ ~Active(s)
           /\ \A c \in Nodes : under[c] # s
<1>1. ~IsNode(tree, s) /\ ~Active(s)
  BY DEF RunStarter, Free, Active
<1>2. p # Root => p \in Nodes /\ sprig[p] = "alive"
  BY DEF RunStarter, Nodes
<1>3. IsNode(tree, p) /\ (p \in Nodes => sprig[p] = "alive")
  BY <1>2, NodesAre DEF Shape, Phases, Links
<1>4. sprig[s] = "none" /\ \A c \in Nodes : under[c] # s
  BY <1>1 DEF Shape, Phases, Links
<1> QED
  BY <1>1, <1>3, <1>4

LEMMA RunStarterShape ==
    ASSUME Shape, NEW p \in Sessions, NEW s \in Nodes, RunStarter(p, s)
    PROVE  Shape'
<1> USE NodesAre, RunStarterNodes
<1>1. /\ under' = [under EXCEPT ![s] = p] /\ starter' = [starter EXCEPT ![s] = "proposed"]
      /\ signalled' = signalled \ {StarterOf(s), SprigOf(s)}
      /\ UNCHANGED <<tree, sprig, targets, todo, late>>
  BY DEF RunStarter, Goes
<1>2. TypeOK'
  BY <1>1 DEF Shape, TypeOK
<1>3. Forest'
  <2> SUFFICES ASSUME NEW D \in SUBSET Nodes, \A n \in D : under'[n] \in D PROVE D = {}
    BY DEF Forest
  <2>1. \A n \in D \ {s} : under[n] \in D \ {s}
    BY <1>1 DEF Shape, TypeOK
  <2>2. D \ {s} = {}
    BY <2>1 DEF Shape, Forest
  <2>3. s \in D => p \in D \ {s}
    BY <1>1 DEF Shape, TypeOK
  <2> QED
    BY <2>2, <2>3
<1>4. Links'
  BY <1>1 DEF Shape, TypeOK, Links, IsNode
<1>5. Phases'
  BY <1>1 DEF Shape, TypeOK, Phases, Active, IsNode
<1>6. Guarded'
  <2>1. ASSUME NEW n \in Nodes, n # s
        PROVE  /\ sprig'[n] = "alive" => Active(n)' \/ SprigOf(n) \in signalled'
               /\ Active(n)' /\ under'[n] \in Nodes =>
                     sprig'[under'[n]] = "alive" \/ StarterOf(n) \in signalled'
    <3>1. starter'[n] = starter[n] /\ under'[n] = under[n]
      BY <1>1, <2>1 DEF Shape, TypeOK
    <3>2. /\ SprigOf(n) \in signalled => SprigOf(n) \in signalled'
          /\ StarterOf(n) \in signalled => StarterOf(n) \in signalled'
      BY <1>1, <2>1 DEF SprigOf, StarterOf
    <3> QED
      BY <1>1, <3>1, <3>2 DEF Shape, Guarded, Active
  <2>2. sprig'[s] # "alive" /\ (under'[s] \in Nodes => sprig'[under'[s]] = "alive")
    BY <1>1 DEF Shape, TypeOK
  <2> QED
    BY <2>1, <2>2 DEF Guarded
<1> QED
  BY <1>2, <1>3, <1>4, <1>5, <1>6 DEF Shape

\* The two steps that write the spawn row.
LEMMA SpawnShape ==
    ASSUME Shape, NEW s \in Nodes, Spawn(s) \/ SpawnedUnregistered(s)
    PROVE  /\ Shape' /\ starter[s] = "proposed"
           /\ tree'.state = [tree.state EXCEPT ![s] = "running"]
           /\ \E ph \in {"spawned", "returned"} : starter' = [starter EXCEPT ![s] = ph]
<1> USE NodesAre
<1>p. PICK ph \in {"spawned", "returned"} :
         /\ starter' = [starter EXCEPT ![s] = ph] /\ starter[s] = "proposed"
         /\ tree' = SpawnRow(tree, under[s], s, NoEnvelope, NoCount, TRUE, NoCount)
         /\ Running(tree, under[s]) /\ UNCHANGED <<under, sprig, signalled, targets, todo>>
         /\ late' \in {late, late \cup {s}}
  BY DEF Spawn, SpawnedUnregistered, Works, Goes, RowLands
<1>1. ~IsNode(tree, s) /\ under[s] \in Sessions /\ sprig[s] = "none"
  BY <1>p DEF Shape, Links, Phases
<1>2. /\ tree' \in Tree
      /\ tree'.state = [tree.state EXCEPT ![s] = "running"]
      /\ tree'.parent = [tree.parent EXCEPT ![s] = under[s]]
  BY <1>p, <1>1, SpawnRowIs DEF Shape, TypeOK
<1>3. TypeOK'
  BY <1>p, <1>2 DEF Shape, TypeOK
<1>4. Forest'
  BY <1>p DEF Shape, Forest
<1>n. /\ \A n \in Sessions : IsNode(tree, n) => IsNode(tree, n)'
      /\ \A n \in Sessions \ {s} : IsNode(tree, n)' => IsNode(tree, n)
      /\ IsNode(tree, s)'
      /\ \A n \in Sessions \ {s} : tree'.parent[n] = tree.parent[n] /\ starter'[n] = starter[n]
      /\ tree'.parent[s] = under[s] /\ starter'[s] = ph
  <2>1. /\ tree.state \in [Sessions -> {"none", "running", "ended"}]
        /\ tree.parent \in [Sessions -> Sessions \cup {NoSession}]
        /\ starter \in [Sessions -> Phase]
    BY DEF Shape, TypeOK, Tree, Phase
  <2>2. /\ tree'.parent[s] = under[s] /\ starter'[s] = ph /\ tree'.state[s] = "running"
        /\ \A n \in Sessions \ {s} : /\ tree'.parent[n] = tree.parent[n]
                                      /\ starter'[n] = starter[n]
                                      /\ tree'.state[n] = tree.state[n]
    BY <2>1, <1>p, <1>2
  <2> QED
    BY <2>2 DEF IsNode
<1>5. Links'
  BY <1>p, <1>1, <1>n, RunAssumption DEF Shape, Links
<1>6. Phases'
  BY <1>p, <1>1, <1>n DEF Shape, Phases, Active
<1>7. Guarded'
  BY <1>p, <1>1, <1>n DEF Shape, Guarded, Active
<1> QED
  BY <1>p, <1>2, <1>3, <1>4, <1>5, <1>6, <1>7 DEF Shape

LEMMA StartSprigShape == ASSUME Shape, NEW s \in Nodes, StartSprig(s) PROVE Shape'
<1> USE NodesAre
<1>1. /\ sprig' = [sprig EXCEPT ![s] = "alive"] /\ starter' = [starter EXCEPT ![s] = "started"]
      /\ starter[s] = "spawned" /\ UNCHANGED <<tree, under, signalled, targets, todo, late>>
  BY DEF StartSprig, Works, Goes
<1>2. TypeOK'
  BY <1>1 DEF Shape, TypeOK
<1>3. Forest'
  BY <1>1 DEF Shape, Forest
<1>4. Links'
  BY <1>1 DEF Shape, TypeOK, Links
<1>5. Phases'
  BY <1>1 DEF Shape, TypeOK, Phases, Active
<1>6. Guarded'
  BY <1>1 DEF Shape, TypeOK, Guarded, Active
<1> QED
  BY <1>2, <1>3, <1>4, <1>5, <1>6 DEF Shape
LEMMA SprigExitsShape == ASSUME Shape, NEW s \in Nodes, SprigExits(s) PROVE Shape'
<1> USE NodesAre
<1>1. /\ sprig' = [sprig EXCEPT ![s] = "exited"] /\ sprig[s] = "alive"
      /\ signalled' = (signalled \ {SprigOf(s)}) \cup Bereaved(SprigOf(s))
      /\ UNCHANGED <<tree, under, starter, targets, todo, late>>
  BY DEF SprigExits
<1>2. Bereaved(SprigOf(s)) = Alive \cap {StarterOf(c) : c \in {n \in Nodes : under[n] = s}}
  BY DEF Bereaved, SprigOf
<1>3. \A n \in Nodes : /\ under[n] = s /\ Active(n) => StarterOf(n) \in signalled'
                       /\ StarterOf(n) \in signalled => StarterOf(n) \in signalled'
                       /\ n # s /\ SprigOf(n) \in signalled => SprigOf(n) \in signalled'
  BY <1>1, <1>2 DEF Alive, StarterOf, SprigOf
<1>4. signalled' \subseteq Process
  BY <1>1, <1>2 DEF Shape, TypeOK, Process, StarterOf
<1>5. TypeOK'
  BY <1>1, <1>4 DEF Shape, TypeOK
<1>6. Forest' /\ Links'
  BY <1>1 DEF Shape, Forest, Links
<1>7. Phases'
  BY <1>1 DEF Shape, TypeOK, Phases, Active
<1>8. Guarded'
  BY <1>1, <1>3 DEF Shape, TypeOK, Guarded, Active
<1> QED
  BY <1>5, <1>6, <1>7, <1>8 DEF Shape

LEMMA StarterDiesShape == ASSUME Shape, NEW s \in Nodes, StarterDies(s) PROVE Shape'
<1> USE NodesAre
<1>1. /\ starter' = [starter EXCEPT ![s] = "dead"] /\ Active(s)
      /\ signalled' = (signalled \ {StarterOf(s)}) \cup Bereaved(StarterOf(s))
      /\ UNCHANGED <<tree, under, sprig, targets, todo, late>>
  BY DEF StarterDies, Goes
<1>2. Bereaved(StarterOf(s)) = Alive \cap {SprigOf(s)}
  BY DEF Bereaved, StarterOf
<1>3. /\ sprig[s] = "alive" => SprigOf(s) \in signalled'
      /\ \A n \in Nodes : /\ n # s /\ StarterOf(n) \in signalled => StarterOf(n) \in signalled'
                          /\ SprigOf(n) \in signalled => SprigOf(n) \in signalled'
  BY <1>1, <1>2 DEF Alive, StarterOf, SprigOf
<1>4. signalled' \subseteq Process
  BY <1>1, <1>2 DEF Shape, TypeOK, Process, SprigOf
<1>5. TypeOK'
  BY <1>1, <1>4 DEF Shape, TypeOK
<1>6. Forest' /\ Links'
  BY <1>1 DEF Shape, TypeOK, Forest, Links, Active
<1>7. Phases'
  BY <1>1 DEF Shape, TypeOK, Phases, Active
<1>8. Guarded'
  BY <1>1, <1>3 DEF Shape, TypeOK, Guarded, Active
<1> QED
  BY <1>5, <1>6, <1>7, <1>8 DEF Shape

\* Below a session there are nodes, never the root.
LEMMA BelowNodes == ASSUME Shape, NEW s PROVE Below(s) \subseteq Nodes
<1>1. tree \in Tree /\ tree.parent[Root] = NoSession
  BY DEF Shape, TypeOK, Links
<1>2. Above(tree)[Root] = {}
  BY <1>1, AboveIs, RunAssumption
<1> QED
  BY <1>2 DEF Below, Nodes

LEMMA NextShape == Shape /\ [Next]_vars => Shape'
<1> SUFFICES ASSUME Shape, [Next]_vars PROVE Shape'
  OBVIOUS
<1> USE NodesAre
<1>0. /\ tree \in Tree /\ Steady(tree) /\ starter \in [Sessions -> Phase]
      /\ targets \in [Sessions -> SUBSET Groups]
      /\ todo \in [Sessions -> SUBSET Nodes] /\ signalled \subseteq Process /\ late \subseteq Nodes
  BY DEF Shape, TypeOK, Steady, Phase
<1>1. ASSUME NEW p \in Sessions, NEW s \in Nodes, RunStarter(p, s) PROVE Shape'
  BY <1>1, RunStarterShape
<1>2. ASSUME NEW s \in Nodes, Spawn(s) \/ SpawnedUnregistered(s) PROVE Shape'
  BY <1>2, SpawnShape
<1>3. ASSUME NEW s \in Nodes, NotSpawned(s) PROVE Shape'
  <2>1. sprig[s] # "alive" /\ Active(s)
    BY <1>3 DEF NotSpawned, Works, Active, Shape, Phases
  <2>2. Lists /\ Steady(tree') /\ starter' = [starter EXCEPT ![s] = "returned"]
        /\ UNCHANGED <<under, sprig>>
    BY <1>3, <1>0 DEF NotSpawned, Goes, Lists, Steady
  <2> QED
    BY <2>1, <2>2, StarterMoves DEF Phase
<1>4. ASSUME NEW s \in Sessions, Proceed(s) PROVE Shape'
  <2>1. ASSUME s \in Nodes, StartSprig(s) PROVE Shape'
    BY <2>1, StartSprigShape
  <2>2. ASSUME s \in Nodes, StartFails(s) PROVE Shape'
    <3>1. sprig[s] # "alive" /\ Active(s) /\ IsNode(tree, s)
      BY <2>2 DEF StartFails, Works, Active, Shape, Phases
    <3>2. Lists /\ Steady(tree') /\ starter' = [starter EXCEPT ![s] = "clearing"]
          /\ UNCHANGED <<under, sprig>>
      BY <2>2, <1>0 DEF StartFails, Goes, Lists, Steady
    <3> QED
      BY <2>2, <3>1, <3>2, StarterMoves DEF Phase
  <2>3. ASSUME s \in Nodes, RecordGroup(s) PROVE Shape'
    <3>1. starter[s] = "started" /\ Active(s) /\ IsNode(tree, s)
      BY <2>3 DEF RecordGroup, Active, Shape, Phases
    <3>2. Steady(GroupRow(tree, s, s))
      BY <2>3, <1>0, RunAssumption, GroupRowIs
    <3>3. Lists /\ Steady(tree') /\ starter' = [starter EXCEPT ![s] = "waiting"]
          /\ UNCHANGED <<under, sprig>>
      BY <2>3, <1>0, <3>2 DEF RecordGroup, Goes, Lists
    <3> QED
      BY <2>3, <3>1, <3>3, StarterMoves DEF Phase
  <2>4. ASSUME s \in Nodes, Kill(s) PROVE Shape'
    <3>1. starter[s] = "waiting" /\ Active(s) /\ IsNode(tree, s)
      BY <2>4 DEF Kill, Works, Active, Shape, Phases
    <3>2. BranchGroups(s) \cup {s} \subseteq Groups
      BY <2>4, <1>0, RunAssumption DEF BranchGroups, Below, Tree
    <3>3. Alive \subseteq Process
      BY DEF Alive, Process, StarterOf, SprigOf
    <3>4. Lists /\ Steady(tree') /\ starter' = [starter EXCEPT ![s] = "killing"]
          /\ UNCHANGED <<under, sprig>>
      BY <2>4, <1>0, <3>2, <3>3 DEF Kill, Goes, Lists
    <3> QED
      BY <2>4, <3>1, <3>4, StarterMoves DEF Phase
  <2>5. ASSUME s \in Nodes, Killed(s) PROVE Shape'
    <3>1. sprig[s] # "alive" /\ Active(s) /\ IsNode(tree, s)
      BY <2>5 DEF Killed, Works, Active, Shape, Phases
    <3>2. Lists /\ Steady(tree') /\ starter' = [starter EXCEPT ![s] = "clearing"]
          /\ UNCHANGED <<under, sprig>>
      BY <2>5, <1>0 DEF Killed, Goes, Lists, Steady
    <3> QED
      BY <2>5, <3>1, <3>2, StarterMoves DEF Phase
  <2>6. ASSUME s \in Nodes, Clear(s) PROVE Shape'
    <3>1. sprig[s] # "alive" /\ Active(s) /\ IsNode(tree, s)
      BY <2>6 DEF Clear, Works, Active, Shape, Phases
    <3>2. Lists /\ Steady(tree') /\ starter' = [starter EXCEPT ![s] = "ending"]
          /\ UNCHANGED <<under, sprig>>
      BY <2>6, <1>0, BelowNodes DEF Clear, Goes, Lists, Steady
    <3> QED
      BY <2>6, <3>1, <3>2, StarterMoves DEF Phase
  <2>7. ASSUME EndBelow(s) PROVE Shape'
    <3>d. PICK d \in todo[s] : tree' = Ended(d) /\ todo' = [todo EXCEPT ![s] = @ \ {d}]
                               /\ UNCHANGED <<under, starter, sprig, signalled, targets, late>>
      BY <2>7 DEF EndBelow
    <3>1. Steady(tree')
      BY <3>d, <1>0, EndedIs
    <3>2. Lists
      BY <3>d, <1>0 DEF Lists
    <3>3. starter'[Root] \in {"none", "waiting", "ending", "returned"}
      BY <3>d DEF Shape, Links
    <3> QED
      BY <3>d, <3>1, <3>2, <3>3, <1>0, LedgerMoves
  <2>8. ASSUME EndOwn(s) PROVE Shape'
    <3>1. /\ starter[s] = "ending" /\ tree' = Ended(s) /\ starter' = [starter EXCEPT ![s] = "returned"]
          /\ UNCHANGED <<under, sprig, signalled, targets, todo, late>>
      BY <2>8 DEF EndOwn, Goes
    <3>2. Steady(tree') /\ Lists
      BY <3>1, <1>0, EndedIs DEF Lists
    <3>3. CASE s = Root
      <4>1. starter' \in [Sessions -> Phase] /\ starter'[Root] = "returned"
            /\ \A n \in Nodes : starter'[n] = starter[n]
        BY <3>1, <3>3, <1>0 DEF Phase
      <4> QED
        BY <3>1, <3>2, <4>1, LedgerMoves
    <3>4. CASE s \in Nodes
      <4>1. Active(s) /\ sprig[s] # "alive"
        BY <3>1, <3>4 DEF Active, Shape, Phases
      <4> QED
        BY <3>1, <3>2, <3>4, <4>1, StarterMoves DEF Phase
    <3> QED
      BY <3>3, <3>4 DEF Nodes
  <2>9. s = Root => \/ EndBelow(s) \/ EndOwn(s)
    BY <1>4 DEF Proceed, StartSprig, StartFails, RecordGroup, Kill, Killed, Clear, Works, Shape, Links
  <2> QED
    BY <1>4, <2>1, <2>2, <2>3, <2>4, <2>5, <2>6, <2>7, <2>8, <2>9 DEF Proceed, Nodes
<1>5. ASSUME Sweep PROVE Shape'
  <2>s. PICK s \in Nodes :
           todo' = [todo EXCEPT ![Root] = {d \in Below(s) \cup {s} : Running(tree, d)}]
    BY <1>5 DEF Sweep
  <2>1. todo' \in [Sessions -> SUBSET Nodes]
    BY <2>s, <1>0, BelowNodes
  <2>2. /\ starter' = [starter EXCEPT ![Root] = "ending"]
        /\ UNCHANGED <<tree, under, sprig, signalled, targets, late>>
    BY <1>5 DEF Sweep, Goes
  <2>3. starter' \in [Sessions -> Phase] /\ starter'[Root] = "ending"
        /\ \A n \in Nodes : starter'[n] = starter[n]
    BY <2>2, <1>0, RunAssumption DEF Phase
  <2>4. Steady(tree') /\ Lists
    BY <2>1, <2>2, <1>0 DEF Lists
  <2> QED
    BY <2>2, <2>3, <2>4, LedgerMoves
<1>6. ASSUME NEW s \in Nodes, SprigExits(s) \/ StarterDies(s) PROVE Shape'
  BY <1>6, SprigExitsShape, StarterDiesShape
<1>7. CASE UNCHANGED vars
  BY <1>7 DEF vars, Shape, TypeOK, Forest, Links, Phases, Guarded, IsNode, Active
<1> QED
  BY <1>1, <1>2, <1>3, <1>4, <1>5, <1>6, <1>7 DEF Next
-----------------------------------------------------------------------------
(* Chains.                                                                 *)

LEMMA ProcessesAre ==
    /\ \A n \in Nodes : /\ StarterOf(n) \in Alive <=> Active(n)
                        /\ SprigOf(n) \in Alive <=> sprig[n] = "alive"
    /\ \A m, n : /\ StarterOf(m) # SprigOf(n)
                 /\ SprigOf(m) = SprigOf(n) => m = n
                 /\ StarterOf(m) = StarterOf(n) => m = n
BY DEF Alive, StarterOf, SprigOf

LEMMA ChainUp ==
    \A n : Chain(SprigOf(n)) = Up(under)[n] /\ Chain(StarterOf(n)) = Up(under)[n] \ {SprigOf(n)}
BY ChainIsUp DEF SprigOf, StarterOf

\* The chain of a process: itself, and the chain of the one that started it.
LEMMA ChainIs ==
    ASSUME Forest, NEW n \in Nodes
    PROVE  /\ Chain(SprigOf(n)) = {SprigOf(n)} \cup Chain(StarterOf(n))
           /\ Chain(StarterOf(n)) =
                 {StarterOf(n)} \cup IF under[n] \in Nodes THEN Chain(SprigOf(under[n])) ELSE {}
<1> DEFINE U == Up(under)
<1>1. \A s \in Nodes :
         U[s] = {SprigOf(s), StarterOf(s)} \cup IF under[s] \in Nodes THEN U[under[s]] ELSE {}
  BY UpIs, NodesAre
<1> HIDE DEF U
<1>2. under[n] \in Nodes => SprigOf(n) \notin U[under[n]]
  <2> SUFFICES ASSUME under[n] \in Nodes, SprigOf(n) \in U[under[n]] PROVE FALSE
    OBVIOUS
  <2> DEFINE E == {m \in Nodes : SprigOf(n) \in U[m]}
  <2>1. ASSUME NEW m \in E PROVE under[m] \in E
    <3>1. CASE m = n
      BY <3>1
    <3>2. CASE m # n
      BY <3>2, <1>1, ProcessesAre
    <3> QED
      BY <3>1, <3>2
  <2>2. E = {}
    BY <2>1 DEF Forest
  <2> QED
    BY <2>2
<1>3. Chain(SprigOf(n)) = U[n] /\ Chain(StarterOf(n)) = U[n] \ {SprigOf(n)}
      /\ Chain(SprigOf(under[n])) = U[under[n]]
  BY ChainUp DEF U
<1>4. U[n] = {SprigOf(n), StarterOf(n)} \cup IF under[n] \in Nodes THEN U[under[n]] ELSE {}
  BY <1>1
<1>5. StarterOf(n) # SprigOf(n)
  BY ProcessesAre
<1> QED
  BY <1>2, <1>3, <1>4, <1>5

\* The parent-death signals run down every chain that is broken: by Guarded the first process below the
\* break is signalled, however far above x it is.
LEMMA SeveredStarter ==
    ASSUME Shape, NEW y, y \notin Alive
    PROVE  \A n \in Nodes : Active(n) /\ y \in Chain(StarterOf(n)) => Dying(StarterOf(n))
<1> DEFINE D == {n \in Nodes : /\ Active(n) /\ y \in Chain(StarterOf(n))
                               /\ ~Dying(StarterOf(n))}
<1>f. Forest /\ Guarded
  BY DEF Shape
<1>1. ASSUME NEW n \in D PROVE under[n] \in D
  <2>1. n \in Nodes /\ Active(n) /\ y \in Chain(StarterOf(n)) /\ ~Dying(StarterOf(n))
    OBVIOUS
  <2>2. StarterOf(n) \in Alive /\ y # StarterOf(n)
    BY <2>1, ProcessesAre
  <2>3. Chain(StarterOf(n)) =
          {StarterOf(n)} \cup IF under[n] \in Nodes THEN Chain(SprigOf(under[n])) ELSE {}
    BY <2>1, <1>f, ChainIs
  <2>4. under[n] \in Nodes /\ y \in Chain(SprigOf(under[n]))
    BY <2>1, <2>2, <2>3
  <2>p. PICK p \in Nodes : p = under[n]
    BY <2>4
  <2>5. StarterOf(n) \notin signalled
    BY <2>1, <2>2, <2>3 DEF Dying
  <2>6. sprig[p] = "alive" /\ SprigOf(p) \in Alive /\ y # SprigOf(p)
    BY <2>1, <2>4, <2>5, <2>p, <1>f, ProcessesAre DEF Guarded
  <2>7. Chain(SprigOf(p)) = {SprigOf(p)} \cup Chain(StarterOf(p))
    BY <1>f, ChainIs
  <2>8. SprigOf(p) \notin signalled
    BY <2>1, <2>3, <2>4, <2>p, <2>6, <2>7 DEF Dying
  <2>9. Active(p) /\ y \in Chain(StarterOf(p))
    BY <2>4, <2>p, <2>6, <2>7, <2>8, <1>f DEF Guarded
  <2>10. ~Dying(StarterOf(p))
    BY <2>1, <2>3, <2>4, <2>p, <2>7 DEF Dying
  <2> QED
    BY <2>9, <2>10, <2>p
<1>2. D = {}
  BY <1>1, <1>f DEF Forest
<1> QED
  BY <1>2

LEMMA Severed ==
    ASSUME Shape, NEW n \in Nodes, NEW x \in Alive \cap {StarterOf(n), SprigOf(n)},
           NEW y \in Chain(x), y \notin Alive
    PROVE  Dying(x)
<1>f. Forest /\ Guarded
  BY DEF Shape
<1>1. CASE x = StarterOf(n)
  BY <1>1, ProcessesAre, SeveredStarter
<1>2. CASE x = SprigOf(n)
  <2>1. Chain(SprigOf(n)) = {SprigOf(n)} \cup Chain(StarterOf(n))
    BY <1>f, ChainIs
  <2>2. CASE SprigOf(n) \in signalled
    BY <1>2, <2>1, <2>2 DEF Dying
  <2>3. CASE SprigOf(n) \notin signalled
    <3>1. Active(n) /\ y \in Chain(StarterOf(n))
      BY <1>2, <2>1, <2>3, <1>f, ProcessesAre DEF Guarded
    <3>2. Dying(StarterOf(n))
      BY <3>1, SeveredStarter
    <3> QED
      BY <1>2, <2>1, <3>2 DEF Dying
  <2> QED
    BY <2>2, <2>3
<1> QED
  BY <1>1, <1>2

\* What BranchDies says follows from the shape alone: a starter that returned or died is not alive.
LEMMA ShapeDies == Shape => BranchDies
<1> SUFFICES ASSUME Shape, NEW s \in Nodes, NEW d \in Nodes, starter[s] \in {"returned", "dead"},
                    NEW x \in Alive \cap {StarterOf(d), SprigOf(d)},
                    d = s \/ StarterOf(s) \in Chain(x)
             PROVE  Dying(x)
  BY DEF BranchDies
<1>1. StarterOf(s) \notin Alive
  BY ProcessesAre DEF Active
<1>2. CASE StarterOf(s) \in Chain(x)
  BY <1>1, <1>2, Severed
<1>3. CASE d = s
  <2>1. Chain(SprigOf(s)) = {SprigOf(s)} \cup Chain(StarterOf(s)) /\ StarterOf(s) \in Chain(StarterOf(s))
    BY ChainIs DEF Shape
  <2>2. x = SprigOf(s)
    BY <1>1, <1>3
  <2> QED
    BY <1>1, <2>1, <2>2, Severed
<1> QED
  BY <1>2, <1>3
-----------------------------------------------------------------------------
(* What ends is cut off.                                                   *)

\* A node whose chain is cut off has a dying sprig, or none.
LEMMA CutDies ==
    ASSUME Shape, NEW d \in Nodes, Cut(d), sprig[d] = "alive"
    PROVE  Dying(SprigOf(d))
<1>n. PICK n \in Nodes : {SprigOf(n), StarterOf(n)} \subseteq Up(under)[d] /\ Gone(n)
  BY DEF Cut
<1>1. {SprigOf(n), StarterOf(n)} \subseteq Chain(SprigOf(d)) /\ SprigOf(d) \in Alive
  BY <1>n, ChainUp, ProcessesAre
<1>2. SprigOf(n) \notin Alive \/ StarterOf(n) \notin Alive
  BY <1>n, ProcessesAre DEF Gone, Active, Shape, Phases
<1> QED
  BY <1>1, <1>2, Severed

\* The chain of a node goes through all that the ledger has above it.
LEMMA BelowIsChain ==
    ASSUME Shape, NEW e \in Nodes, NEW d \in Below(e), IsNode(tree, d)
    PROVE  /\ {SprigOf(e), StarterOf(e)} \subseteq Up(under)[d] /\ IsNode(tree, e)
           /\ d \in Nodes
<1> DEFINE U == Up(under)
           In(n) == {SprigOf(e), StarterOf(e)} \subseteq U[n] /\ IsNode(tree, e)
           D == {n \in Nodes : IsNode(tree, n) /\ e \in Above(tree)[n] /\ ~In(n)}
<1>1. \A s \in Nodes :
         U[s] = {SprigOf(s), StarterOf(s)} \cup IF under[s] \in Nodes THEN U[under[s]] ELSE {}
  BY UpIs, NodesAre
<1>2. /\ tree \in Tree /\ tree.parent[Root] = NoSession
      /\ \A n \in Nodes : IsNode(tree, n) => tree.parent[n] = under[n] /\ under[n] \in Sessions
      /\ \A n \in Nodes : under[n] \in Nodes => IsNode(tree, under[n])
  BY DEF Shape, TypeOK, Links
<1>3. \A s \in Sessions :
         Above(tree)[s] = IF tree.parent[s] = NoSession THEN {}
                          ELSE {tree.parent[s]} \cup Above(tree)[tree.parent[s]]
  BY <1>2, AboveIs
<1>4. ASSUME NEW n \in D PROVE under[n] \in D
  <2>1. n \in Nodes /\ IsNode(tree, n) /\ e \in Above(tree)[n] /\ ~In(n)
    OBVIOUS
  <2> HIDE DEF In, D
  <2>p. PICK p \in Sessions : p = under[n]
    BY <2>1, <1>2
  <2>2. tree.parent[n] = p /\ p # NoSession
    BY <2>1, <2>p, <1>2, NodesAre
  <2>3. p = e \/ e \in Above(tree)[p]
    BY <2>1, <2>2, <1>3, NodesAre
  <2>4. p \in Nodes
    BY <2>3, <1>2, <1>3, RunAssumption DEF Nodes
  <2>5. IsNode(tree, p) /\ U[n] = {SprigOf(n), StarterOf(n)} \cup U[p]
    BY <2>1, <2>p, <2>4, <1>1, <1>2
  <2>6. ~In(p)
    BY <2>1, <2>5 DEF In
  <2>7. p # e
    BY <2>5, <2>6, <1>1 DEF In
  <2> QED
    BY <2>p, <2>3, <2>4, <2>5, <2>6, <2>7 DEF D
<1>5. D = {}
  BY <1>4 DEF Shape, Forest
<1>6. d \in Nodes /\ e \in Above(tree)[d]
  BY BelowNodes DEF Below
<1> QED
  BY <1>5, <1>6

\* A new starter changes the chain of no node.
LEMMA SameUp ==
    ASSUME Shape, NEW p \in Sessions, NEW s \in Nodes, RunStarter(p, s)
    PROVE  \A n \in Nodes : IsNode(tree, n) => Up(under')[n] = Up(under)[n]
<1> DEFINE U == Up(under)
           V == Up(under')
           D == {n \in Nodes : IsNode(tree, n) /\ V[n] # U[n]}
<1>1. /\ \A n \in Nodes :
            U[n] = {SprigOf(n), StarterOf(n)} \cup IF under[n] \in Nodes THEN U[under[n]] ELSE {}
      /\ \A n \in Nodes :
            V[n] = {SprigOf(n), StarterOf(n)} \cup IF under'[n] \in Nodes THEN V[under'[n]] ELSE {}
  BY UpIs, NodesAre
<1>2. \A n \in Nodes : IsNode(tree, n) => under'[n] = under[n]
  BY RunStarterNodes, NodesAre, ZenonT(40) DEF RunStarter, Shape, TypeOK
<1>3. \A n \in Nodes : under[n] \in Nodes => IsNode(tree, under[n])
  BY DEF Shape, Links
<1> HIDE DEF U, V
<1>4. ASSUME NEW n \in D PROVE under[n] \in D
  <2>1. /\ n \in Nodes /\ IsNode(tree, n) /\ V[n] # U[n] /\ under'[n] = under[n]
    BY <1>2
  <2>2. /\ U[n] = {SprigOf(n), StarterOf(n)} \cup IF under[n] \in Nodes THEN U[under[n]] ELSE {}
        /\ V[n] = {SprigOf(n), StarterOf(n)} \cup IF under[n] \in Nodes THEN V[under[n]] ELSE {}
    BY <2>1, <1>1
  <2>3. under[n] \in Nodes
    BY <2>1, <2>2
  <2>4. V[under[n]] # U[under[n]]
    BY <2>1, <2>2
  <2> QED
    BY <2>3, <2>4, <1>3
<1>5. D = {}
  BY <1>4 DEF Shape, Forest
<1> QED
  BY <1>5 DEF U, V
Final == {"clearing", "ending", "returned", "dead"}

\* What cuts a chain off goes on doing so: links stay, exits stay, and a starter that has come to the
\* end of run_node, or died, is not run again for a node.
Keeps ==
    \A n \in Nodes :
        IsNode(tree, n) =>
            /\ IsNode(tree', n) /\ Up(under')[n] = Up(under)[n]
            /\ sprig[n] = "exited" => sprig'[n] = "exited"
            /\ starter[n] \in Final => starter'[n] \in Final

LEMMA CutStays == ASSUME Keeps, NEW d \in Nodes, Cut(d) PROVE Cut(d)'
<1>n. PICK n \in Nodes : {SprigOf(n), StarterOf(n)} \subseteq Up(under)[d] /\ Gone(n)
  BY DEF Cut
<1>1. Gone(n)'
  BY <1>n DEF Keeps, Gone, Final
<1>2. IsNode(tree', d) /\ Up(under')[d] = Up(under)[d]
  BY DEF Keeps, Cut
<1> QED
  BY <1>n, <1>1, <1>2 DEF Cut

\* So a step has to answer only for what it ends, or means to end.
LEMMA CutsStay ==
    ASSUME Shape, OnlyCutEnds, Keeps,
           \A d \in Nodes : tree'.state[d] = "ended" => tree.state[d] = "ended" \/ Cut(d)',
           \A e \in Sessions : \A d \in todo'[e] : d \in todo[e] \/ Cut(d)'
    PROVE  OnlyCutEnds'
<1>1. ASSUME NEW d \in Nodes, tree.state[d] = "ended" PROVE Cut(d)'
  BY <1>1, CutStays DEF OnlyCutEnds
<1>2. ASSUME NEW e \in Sessions, NEW d \in todo[e] PROVE Cut(d)'
  BY <1>2, CutStays DEF OnlyCutEnds, Shape, TypeOK
<1> QED
  BY <1>1, <1>2 DEF OnlyCutEnds

LEMMA NodeCuts ==
    ASSUME NEW n \in Nodes, IsNode(tree, n)', starter'[n] \in Final,
           NEW d \in Nodes, IsNode(tree, d)', {SprigOf(n), StarterOf(n)} \subseteq Up(under')[d]
    PROVE  Cut(d)'
BY DEF Cut, Gone, Final

\* A step that only moves a starter of run_node on.
LEMMA MovesCut ==
    ASSUME Shape, OnlyCutEnds, NEW s \in Nodes, NEW ph \in Phase,
           starter' = [starter EXCEPT ![s] = ph], starter[s] \in Final => ph \in Final,
           \A n \in Nodes : sprig[n] = "exited" => sprig'[n] = "exited",
           \A n \in Nodes : IsNode(tree, n) => IsNode(tree', n),
           \A n \in Nodes : tree'.state[n] = "ended" => tree.state[n] = "ended",
           UNCHANGED <<under, todo>>
    PROVE  OnlyCutEnds'
<1>1. \A n \in Nodes : starter[n] \in Final => starter'[n] \in Final
  BY NodesAre DEF Shape, TypeOK
<1>2. Keeps
  BY <1>1 DEF Keeps
<1> QED
  BY <1>2, CutsStay

LEMMA NextCut == Shape /\ OnlyCutEnds /\ [Next]_vars => OnlyCutEnds'
<1> SUFFICES ASSUME Shape, OnlyCutEnds, [Next]_vars PROVE OnlyCutEnds'
  OBVIOUS
<1> USE NodesAre
<1>0. /\ tree \in Tree /\ starter \in [Sessions -> Phase] /\ todo \in [Sessions -> SUBSET Nodes]
      /\ sprig \in [Sessions -> {"none", "alive", "exited"}]
  BY DEF Shape, TypeOK, Phase
<1>1. ASSUME NEW p \in Sessions, NEW s \in Nodes, RunStarter(p, s) PROVE OnlyCutEnds'
  <2>1. starter' = [starter EXCEPT ![s] = "proposed"] /\ UNCHANGED <<tree, sprig, todo>>
    BY <1>1 DEF RunStarter, Goes
  <2>2. ~IsNode(tree, s) /\ \A n \in Nodes : IsNode(tree, n) => Up(under')[n] = Up(under)[n]
    BY <1>1, RunStarterNodes, SameUp
  <2>3. Keeps
    BY <2>1, <2>2, <1>0 DEF Keeps
  <2> QED
    BY <2>1, <2>3, CutsStay
<1>2. ASSUME NEW s \in Nodes, Spawn(s) \/ SpawnedUnregistered(s) PROVE OnlyCutEnds'
  <2>1. /\ starter[s] = "proposed" /\ tree'.state = [tree.state EXCEPT ![s] = "running"]
        /\ \E ph \in {"spawned", "returned"} : starter' = [starter EXCEPT ![s] = ph]
    BY <1>2, SpawnShape
  <2>2. UNCHANGED <<under, sprig, todo>>
    BY <1>2 DEF Spawn, SpawnedUnregistered
  <2>3. \A n \in Nodes : /\ IsNode(tree, n) => IsNode(tree', n)
                         /\ tree'.state[n] = "ended" => tree.state[n] = "ended"
    BY <2>1, <1>0 DEF IsNode, Tree
  <2> QED
    BY <2>1, <2>2, <2>3, MovesCut DEF Phase, Final
<1>3. ASSUME NEW s \in Nodes, NotSpawned(s) PROVE OnlyCutEnds'
  <2>1. /\ starter' = [starter EXCEPT ![s] = "returned"] /\ starter[s] = "proposed"
        /\ UNCHANGED <<tree, under, sprig, todo>>
    BY <1>3 DEF NotSpawned, Works, Goes
  <2> QED
    BY <2>1, MovesCut DEF Phase, Final
<1>4. ASSUME NEW s \in Nodes, StartSprig(s) \/ StartFails(s) \/ Kill(s) \/ Killed(s) PROVE OnlyCutEnds'
  <2>1. UNCHANGED <<tree, under, todo>>
    BY <1>4 DEF StartSprig, StartFails, Kill, Killed
  <2>2. \E ph \in Phase : /\ starter' = [starter EXCEPT ![s] = ph]
                          /\ starter[s] \in Final => ph \in Final
    BY <1>4 DEF StartSprig, StartFails, Kill, Killed, Works, Goes, Phase, Final
  <2>3. \A n \in Nodes : sprig[n] = "exited" => sprig'[n] = "exited"
    BY <1>4, <1>0 DEF StartSprig, StartFails, Kill, Killed, Works, Shape, Phases
  <2> QED
    BY <2>1, <2>2, <2>3, MovesCut
<1>5. ASSUME NEW s \in Nodes, RecordGroup(s) PROVE OnlyCutEnds'
  <2>1. /\ starter' = [starter EXCEPT ![s] = "waiting"] /\ starter[s] = "started"
        /\ UNCHANGED <<under, sprig, todo>> /\ (tree' = GroupRow(tree, s, s) \/ tree' = tree)
    BY <1>5 DEF RecordGroup, Goes
  <2>2. tree'.state = tree.state
    BY <2>1, <1>0, RunAssumption, GroupRowIs
  <2> QED
    BY <2>1, <2>2, MovesCut DEF Phase, Final, IsNode
<1>6. ASSUME NEW s \in Nodes, Clear(s) PROVE OnlyCutEnds'
  <2>1. /\ starter' = [starter EXCEPT ![s] = "ending"]
        /\ todo' = [todo EXCEPT ![s] = {d \in Below(s) : Running(tree, d)}]
        /\ UNCHANGED <<tree, under, sprig>>
    BY <1>6 DEF Clear, Goes
  <2>2. Keeps
    BY <2>1, <1>0 DEF Keeps, Final
  <2>3. ASSUME NEW e \in Sessions, NEW d \in todo'[e], d \notin todo[e] PROVE Cut(d)'
    <3>1. d \in Below(s) /\ IsNode(tree, d)
      BY <2>1, <2>3, <1>0 DEF Running, IsNode
    <3>2. {SprigOf(s), StarterOf(s)} \subseteq Up(under)[d] /\ IsNode(tree, s) /\ d \in Nodes
      BY <3>1, BelowIsChain
    <3>3. starter'[s] \in Final
      BY <2>1, <1>0 DEF Final
    <3> QED
      BY <2>1, <3>1, <3>2, <3>3, NodeCuts
  <2> QED
    BY <2>1, <2>2, <2>3, CutsStay
<1>7. ASSUME NEW s \in Sessions, EndBelow(s) PROVE OnlyCutEnds'
  <2>d. PICK d \in todo[s] : tree' = Ended(d) /\ todo' = [todo EXCEPT ![s] = @ \ {d}]
                             /\ UNCHANGED <<under, starter, sprig>>
    BY <1>7 DEF EndBelow
  <2>1. d \in Nodes /\ Cut(d)
    BY <1>0 DEF OnlyCutEnds
  <2>2. /\ \A n \in Sessions : IsNode(tree', n) <=> IsNode(tree, n)
        /\ \A n \in Sessions : tree'.state[n] = "ended" => n = d \/ tree.state[n] = "ended"
    BY <2>d, <2>1, <1>0, EndedIs DEF Steady
  <2>3. Keeps
    BY <2>d, <2>2 DEF Keeps
  <2>4. Cut(d)'
    BY <2>1, <2>3, CutStays
  <2>5. \A e \in Sessions : \A n \in todo'[e] : n \in todo[e]
    BY <2>d, <1>0
  <2> QED
    BY <2>2, <2>3, <2>4, <2>5, CutsStay
<1>8. ASSUME NEW s \in Sessions, EndOwn(s) PROVE OnlyCutEnds'
  <2>1. /\ starter[s] = "ending" /\ tree' = Ended(s) /\ starter' = [starter EXCEPT ![s] = "returned"]
        /\ UNCHANGED <<under, sprig, todo>>
    BY <1>8 DEF EndOwn, Goes
  <2>2. /\ \A n \in Sessions : IsNode(tree', n) <=> IsNode(tree, n)
        /\ \A n \in Sessions : tree'.state[n] = "ended" => n = s \/ tree.state[n] = "ended"
    BY <2>1, <1>0, EndedIs DEF Steady
  <2>3. Keeps
    BY <2>1, <2>2, <1>0 DEF Keeps, Final
  <2>4. ASSUME s \in Nodes PROVE Cut(s)'
    <3>1. IsNode(tree, s) /\ starter'[s] \in Final
      BY <2>1, <2>4, <1>0 DEF Shape, Phases, Active, Final
    <3>2. {SprigOf(s), StarterOf(s)} \subseteq Up(under)[s]
      BY <2>4, UpIs
    <3>3. IsNode(tree, s)' /\ under' = under
      BY <2>1, <2>2, <3>1
    <3> QED
      BY <2>4, <3>1, <3>2, <3>3, NodeCuts
  <2> QED
    BY <2>1, <2>2, <2>3, <2>4, CutsStay
<1>9. ASSUME Sweep PROVE OnlyCutEnds'
  <2>s. PICK s \in Nodes :
           /\ starter[s] = "returned"
           /\ todo' = [todo EXCEPT ![Root] = {d \in Below(s) \cup {s} : Running(tree, d)}]
    BY <1>9 DEF Sweep
  <2>1. starter' = [starter EXCEPT ![Root] = "ending"] /\ UNCHANGED <<tree, under, sprig>>
    BY <1>9 DEF Sweep, Goes
  <2>2. Keeps
    BY <2>1, <1>0 DEF Keeps
  <2>3. ASSUME NEW e \in Sessions, NEW d \in todo'[e], d \notin todo[e] PROVE Cut(d)'
    <3>1. (d \in Below(s) \/ d = s) /\ IsNode(tree, d)
      BY <2>s, <2>3, <1>0 DEF Running, IsNode
    <3>2. {SprigOf(s), StarterOf(s)} \subseteq Up(under)[s]
      BY UpIs
    <3>3. {SprigOf(s), StarterOf(s)} \subseteq Up(under)[d] /\ IsNode(tree, s) /\ d \in Nodes
      BY <3>1, <3>2, BelowIsChain
    <3>4. starter'[s] \in Final
      BY <2>s, <2>1, <1>0 DEF Final
    <3> QED
      BY <2>1, <3>1, <3>3, <3>4, NodeCuts
  <2> QED
    BY <2>1, <2>2, <2>3, CutsStay
<1>10. ASSUME NEW s \in Nodes, SprigExits(s) \/ StarterDies(s) PROVE OnlyCutEnds'
  <2>1. UNCHANGED <<tree, under, todo>>
    BY <1>10 DEF SprigExits, StarterDies
  <2>2. \A n \in Nodes : /\ sprig[n] = "exited" => sprig'[n] = "exited"
                         /\ starter[n] \in Final => starter'[n] \in Final
    BY <1>10, <1>0 DEF SprigExits, StarterDies, Goes, Final
  <2>3. Keeps
    BY <2>1, <2>2 DEF Keeps
  <2> QED
    BY <2>1, <2>3, CutsStay
<1>11. CASE UNCHANGED vars
  <2>1. Keeps
    BY <1>11 DEF Keeps, vars
  <2> QED
    BY <1>11, <2>1, CutsStay DEF vars
<1>12. starter[Root] \in {"none", "waiting", "ending", "returned"}
  BY DEF Shape, Links
<1>13. ASSUME NEW s \in Sessions, Proceed(s) PROVE OnlyCutEnds'
  <2>1. s = Root => EndBelow(s) \/ EndOwn(s)
    BY <1>12, <1>13 DEF Proceed, StartSprig, StartFails, RecordGroup, Kill, Killed, Clear, Works
  <2> QED
    BY <1>4, <1>5, <1>6, <1>7, <1>8, <1>13, <2>1 DEF Proceed, Nodes
<1> QED
  BY <1>1, <1>2, <1>3, <1>9, <1>10, <1>11, <1>13 DEF Next

-----------------------------------------------------------------------------
(* What the executor's sweep leaves.                                       *)

\* A branch has one top, every node of the ledger is the top or below it, and a late row is there.
Tops ==
    /\ \A a, b \in Nodes : under[a] = Root /\ under[b] = Root => a = b
    /\ \A d \in Nodes : IsNode(tree, d) =>
          \E c \in Nodes : under[c] = Root /\ IsNode(tree, c) /\ (d = c \/ d \in Below(c))
    /\ \A d \in late : IsNode(tree, d)

\* Once the executor has its list, a running node is still on it or has a late row at or below it.
Listed ==
    /\ Swept => \A d \in Nodes : Running(tree, d) => d \in todo[Root] \/ HasLate(d)
    /\ starter[Root] = "returned" => todo[Root] = {}

\* The executor is done: what still runs in the ledger has a late row at or below it.
OnlyLateLeft ==
    starter[Root] = "returned" => \A s \in Nodes : Running(tree, s) => HasLate(s)

\* The ancestors of a node are its parent and those of its parent, up to the root, which has none.
LEMMA AboveNode ==
    ASSUME Shape, NEW n \in Nodes, IsNode(tree, n)
    PROVE  /\ Above(tree)[Root] = {}
           /\ under[n] \in Sessions /\ tree.parent[n] = under[n] /\ IsNode(tree, under[n])
           /\ Above(tree)[n] = {under[n]} \cup Above(tree)[under[n]]
<1>1. tree \in Tree /\ tree.parent[Root] = NoSession /\ IsNode(tree, Root)
  BY DEF Shape, TypeOK, Links
<1>2. under[n] \in Sessions /\ tree.parent[n] = under[n]
  BY DEF Shape, Links
<1>3. IsNode(tree, under[n])
  BY <1>1, <1>2 DEF Shape, Links, Nodes
<1> QED
  BY <1>1, <1>2, <1>3, AboveIs, NodesAre, RunAssumption

\* A node keeps its ancestors.
LEMMA SameAbove ==
    ASSUME Shape, Shape', \A n \in Nodes : IsNode(tree, n) => IsNode(tree, n)' /\ under'[n] = under[n]
    PROVE  \A n \in Nodes : IsNode(tree, n) => Above(tree)'[n] = Above(tree)[n]
<1> DEFINE D == {n \in Nodes : IsNode(tree, n) /\ Above(tree)'[n] # Above(tree)[n]}
<1>1. ASSUME NEW n \in D PROVE under[n] \in D
  <2>1. /\ Above(tree)[Root] = {} /\ under[n] \in Sessions /\ IsNode(tree, under[n])
        /\ Above(tree)[n] = {under[n]} \cup Above(tree)[under[n]]
    BY AboveNode
  <2>2. n \in Nodes /\ IsNode(tree, n)' /\ under'[n] = under[n]
    OBVIOUS
  <2>3. /\ Above(tree)'[Root] = {}
        /\ Above(tree)'[n] = {under'[n]} \cup Above(tree)'[under'[n]]
    <3>1. /\ tree' \in Tree /\ tree'.parent[Root] = NoSession
          /\ under'[n] \in Sessions /\ tree'.parent[n] = under'[n]
      BY <2>2 DEF Shape, TypeOK, Links
    <3> QED
      BY <2>2, <3>1, AboveIs, NodesAre, RunAssumption
  <2>4. Above(tree)'[under[n]] # Above(tree)[under[n]]
    BY <2>1, <2>2, <2>3
  <2>5. under[n] # Root
    BY <2>1, <2>3, <2>4
  <2> QED
    BY <2>1, <2>4, <2>5 DEF Nodes
<1>2. D = {}
  BY <1>1 DEF Shape, Forest
<1> QED
  BY <1>2

\* Whoever is above a session is above what is below that session.
LEMMA AboveAgain ==
    ASSUME Shape, NEW e \in Nodes, IsNode(tree, e), NEW c \in Nodes, c \in Above(tree)[e],
           NEW d \in Nodes, IsNode(tree, c), under[c] = d
    PROVE  d \in Above(tree)[e]
<1> DEFINE D == {n \in Nodes : IsNode(tree, n) /\ c \in Above(tree)[n] /\ d \notin Above(tree)[n]}
<1>1. ASSUME NEW n \in D PROVE under[n] \in D
  <2>1. /\ Above(tree)[Root] = {} /\ under[n] \in Sessions /\ IsNode(tree, under[n])
        /\ Above(tree)[n] = {under[n]} \cup Above(tree)[under[n]]
    BY AboveNode
  <2>2. d \in Above(tree)[c]
    BY AboveNode
  <2>3. under[n] # c /\ c \in Above(tree)[under[n]] /\ d \notin Above(tree)[under[n]]
    BY <2>1, <2>2
  <2> QED
    BY <2>1, <2>3 DEF Nodes
<1>2. D = {}
  BY <1>1 DEF Shape, Forest
<1> QED
  BY <1>2

LEMMA LateAbove ==
    ASSUME Shape, Tops, NEW c \in Nodes, IsNode(tree, c), HasLate(c), NEW d \in Nodes, under[c] = d
    PROVE  HasLate(d)
<1>1. PICK e \in late : e = c \/ e \in Below(c)
  BY DEF HasLate
<1>2. e \in Nodes /\ IsNode(tree, e)
  BY DEF Shape, TypeOK, Tops
<1>3. d \in Above(tree)[e]
  <2>1. CASE e = c
    BY <2>1, <1>2, AboveNode
  <2>2. CASE e \in Below(c)
    BY <2>2, <1>2, AboveAgain DEF Below
  <2> QED
    BY <1>1, <2>1, <2>2
<1> QED
  BY <1>2, <1>3, NodesAre DEF HasLate, Below

LEMMA LateStays ==
    ASSUME Shape, Shape', Tops, late \subseteq late',
           \A n \in Nodes : IsNode(tree, n) => IsNode(tree, n)' /\ under'[n] = under[n],
           NEW d \in Nodes, HasLate(d)
    PROVE  HasLate(d)'
<1>1. PICK e \in late : e = d \/ e \in Below(d)
  BY DEF HasLate
<1>2. e \in Nodes /\ IsNode(tree, e)
  BY DEF Shape, TypeOK, Tops
<1>3. Above(tree)'[e] = Above(tree)[e]
  BY <1>2, SameAbove
<1> QED
  BY <1>1, <1>3 DEF HasLate, Below

\* A step that makes no node keeps the tops.
LEMMA TopsStay ==
    ASSUME Shape, Shape', Tops, late' = late,
           \A n \in Nodes : IsNode(tree, n)' <=> IsNode(tree, n),
           \A n \in Nodes : IsNode(tree, n) => under'[n] = under[n],
           \A a, b \in Nodes : under'[a] = Root /\ under'[b] = Root => a = b
    PROVE  Tops'
<1>1. ASSUME NEW d \in Nodes, IsNode(tree, d)'
      PROVE  \E c \in Nodes : under'[c] = Root /\ IsNode(tree, c)' /\ (d = c \/ d \in Below(c)')
  <2>1. PICK c \in Nodes : under[c] = Root /\ IsNode(tree, c) /\ (d = c \/ d \in Below(c))
    BY <1>1 DEF Tops
  <2>2. Above(tree)'[d] = Above(tree)[d]
    BY <1>1, SameAbove
  <2> QED
    BY <2>1, <2>2 DEF Below
<1>2. \A d \in late' : IsNode(tree, d)'
  BY DEF Tops, Shape, TypeOK
<1> QED
  BY <1>1, <1>2 DEF Tops

\* ... and one that starts nobody and leaves the executor alone keeps what it has listed.
LEMMA ListedStays ==
    ASSUME Shape, Shape', Tops, Listed, late' = late,
           \A n \in Nodes : IsNode(tree, n) => IsNode(tree, n)' /\ under'[n] = under[n],
           \A n \in Nodes : Running(tree, n)' => Running(tree, n),
           starter'[Root] = starter[Root], todo'[Root] = todo[Root]
    PROVE  Listed'
BY LateStays DEF Listed, Swept

LEMMA EndedRuns ==
    ASSUME tree \in Tree, NEW s \in Sessions
    PROVE  /\ \A d \in Sessions : Running(Ended(s), d) => Running(tree, d)
           /\ Running(Ended(s), s) => \E c \in Children(tree, s) : Running(tree, c)
<1> DEFINE u == EndRow(tree, s, NoCount)
<1>1. \A d \in Sessions : Running(u, d) => Running(tree, d) /\ d # s
  BY DEF EndRow, Tree, Running
<1>2. Ended(s) = IF Running(tree, s) /\ \A c \in Children(tree, s) : ~Running(tree, c)
                 THEN u ELSE tree
  BY DEF Ended
<1> HIDE DEF u
<1> QED
  BY <1>1, <1>2

LEMMA SpawnTops ==
    ASSUME Shape, Shape', Tops, Listed, Executor, NEW s \in Nodes, Spawn(s) \/ SpawnedUnregistered(s)
    PROVE  Tops' /\ Listed'
<1> USE NodesAre
<1>1. /\ starter[s] = "proposed" /\ tree'.state = [tree.state EXCEPT ![s] = "running"]
      /\ starter'[Root] = starter[Root]
  <2>1. PICK ph \in {"spawned", "returned"} : starter' = [starter EXCEPT ![s] = ph]
    BY SpawnShape
  <2>2. starter'[Root] = starter[Root]
    BY <2>1
  <2> QED
    BY <2>2, SpawnShape
<1>2. /\ Running(tree, under[s]) /\ UNCHANGED <<under, todo>>
      /\ late' = IF Swept THEN late \cup {s} ELSE late
  BY DEF Spawn, SpawnedUnregistered, RowLands
<1>3. /\ ~IsNode(tree, s) /\ under[s] \in Sessions
      /\ IsNode(tree, s)' /\ tree'.state[s] = "running"
      /\ \A n \in Sessions \ {s} : tree'.state[n] = tree.state[n]
  BY <1>1 DEF Shape, TypeOK, Links, Tree, IsNode
<1>4. \A n \in Nodes : IsNode(tree, n) => IsNode(tree, n)' /\ under'[n] = under[n]
  BY <1>2, <1>3 DEF IsNode
<1>5. Tops'
  <2>1. ASSUME NEW d \in Nodes, IsNode(tree, d)
        PROVE  \E c \in Nodes : under[c] = Root /\ IsNode(tree, c)' /\ (d = c \/ c \in Above(tree)'[d])
    <3>1. PICK c \in Nodes : under[c] = Root /\ IsNode(tree, c) /\ (d = c \/ d \in Below(c))
      BY <2>1 DEF Tops
    <3> QED
      BY <2>1, <3>1, <1>4, SameAbove DEF Below
  <2>2. \E c \in Nodes : under[c] = Root /\ IsNode(tree, c)' /\ (s = c \/ c \in Above(tree)'[s])
    <3>1. CASE under[s] = Root
      BY <3>1, <1>3
    <3>2. CASE under[s] # Root
      <4>1. under[s] \in Nodes /\ IsNode(tree, under[s])
        BY <3>2, <1>2, <1>3 DEF Nodes, Running, IsNode
      <4>2. PICK c \in Nodes : /\ under[c] = Root /\ IsNode(tree, c)'
                               /\ under[s] = c \/ c \in Above(tree)'[under[s]]
        BY <4>1, <2>1
      <4>3. Above(tree)'[s] = {under[s]} \cup Above(tree)'[under[s]]
        <5>1. tree' \in Tree /\ tree'.parent[s] = under[s] /\ under[s] \in Sessions /\ s \in Sessions
          BY <1>2, <1>3 DEF Shape, TypeOK, Links
        <5>2. Above(tree')[s] = IF tree'.parent[s] = NoSession THEN {}
                                ELSE {tree'.parent[s]} \cup Above(tree')[tree'.parent[s]]
          BY <5>1, AboveIs
        <5> QED
          BY <5>1, <5>2
      <4> QED
        BY <4>2, <4>3
    <3> QED
      BY <3>1, <3>2
  <2>3. \A d \in Nodes : IsNode(tree, d)' => d = s \/ IsNode(tree, d)
    BY <1>3 DEF IsNode
  <2>4. \A d \in late' : IsNode(tree, d)'
    BY <1>2, <1>3, <1>4 DEF Tops, Shape, TypeOK
  <2>5. \A d \in Nodes : IsNode(tree, d)' =>
           \E c \in Nodes : under'[c] = Root /\ IsNode(tree, c)' /\ (d = c \/ d \in Below(c)')
    BY <2>1, <2>2, <2>3, <1>2 DEF Below
  <2> QED
    BY <2>4, <2>5, <1>2 DEF Tops
<1>6. Listed'
  <2>1. ASSUME Swept, NEW d \in Nodes, Running(tree, d)' PROVE d \in todo'[Root] \/ HasLate(d)'
    <3>1. CASE d = s
      BY <2>1, <3>1, <1>2 DEF HasLate
    <3>2. CASE d # s
      <4>1. Running(tree, d)
        BY <2>1, <3>2, <1>3 DEF Running
      <4>2. d \in todo[Root] \/ HasLate(d)
        BY <2>1, <4>1 DEF Listed
      <4>3. HasLate(d) => HasLate(d)'
        BY <1>2, <1>4, LateStays
      <4> QED
        BY <4>2, <4>3, <1>2
    <3> QED
      BY <3>1, <3>2
  <2>2. Swept' <=> Swept
    BY <1>1 DEF Swept
  <2> QED
    BY <2>1, <2>2, <1>1, <1>2 DEF Listed
<1> QED
  BY <1>5, <1>6

LEMMA NextTops ==
    ASSUME Executor
    PROVE  Shape /\ Shape' /\ Tops /\ Listed /\ [Next]_vars => Tops' /\ Listed'
<1> SUFFICES ASSUME Shape, Shape', Tops, Listed, [Next]_vars PROVE Tops' /\ Listed'
  OBVIOUS
<1> USE NodesAre
<1>0. /\ tree \in Tree /\ starter \in [Sessions -> Phase] /\ todo \in [Sessions -> SUBSET Nodes]
  BY DEF Shape, TypeOK, Phase
\* A step that changes neither the nodes nor the executor.
<1>k. ASSUME UNCHANGED <<under, late>>, \A n \in Sessions : IsNode(tree, n)' <=> IsNode(tree, n),
             \A n \in Sessions : Running(tree, n)' => Running(tree, n),
             starter'[Root] = starter[Root], todo'[Root] = todo[Root]
      PROVE  Tops' /\ Listed'
  <2>1. Tops'
    BY <1>k, TopsStay DEF Tops
  <2>2. Listed'
    BY <1>k, ListedStays
  <2> QED
    BY <2>1, <2>2
<1>1. ASSUME NEW p \in Sessions, NEW s \in Nodes, RunStarter(p, s) PROVE Tops' /\ Listed'
  <2>1. /\ under' = [under EXCEPT ![s] = p] /\ starter' = [starter EXCEPT ![s] = "proposed"]
        /\ p = Root => \A c \in Nodes : under[c] # Root
        /\ UNCHANGED <<tree, todo, late>>
    BY <1>1 DEF RunStarter, Goes
  <2>2. ~IsNode(tree, s)
    BY <1>1, RunStarterNodes
  <2>3. /\ \A n \in Nodes \ {s} : under'[n] = under[n]
        /\ under'[s] = p /\ starter'[Root] = starter[Root]
    BY <2>1, <1>0 DEF Shape, TypeOK
  <2>4. \A a, b \in Nodes : under'[a] = Root /\ under'[b] = Root => a = b
    BY <2>1, <2>3 DEF Tops
  <2>5. \A n \in Nodes : IsNode(tree, n) => under'[n] = under[n]
    BY <2>2, <2>3
  <2>6. Tops'
    BY <2>1, <2>4, <2>5, TopsStay
  <2>7. Listed'
    BY <2>1, <2>3, <2>5, ListedStays
  <2> QED
    BY <2>6, <2>7
<1>2. ASSUME NEW s \in Nodes, Spawn(s) \/ SpawnedUnregistered(s) PROVE Tops' /\ Listed'
  BY <1>2, SpawnTops
<1>3. ASSUME NEW s \in Nodes,
             \/ NotSpawned(s) \/ StartSprig(s) \/ StartFails(s) \/ Kill(s) \/ Killed(s) \/ Clear(s)
             \/ SprigExits(s) \/ StarterDies(s)
      PROVE  Tops' /\ Listed'
  <2>1. UNCHANGED <<tree, under, late>>
    BY <1>3 DEF NotSpawned, StartSprig, StartFails, Kill, Killed, Clear, SprigExits, StarterDies
  <2>2. starter'[Root] = starter[Root]
    <3>1. starter' = starter \/ \E ph \in Phase : starter' = [starter EXCEPT ![s] = ph]
      BY <1>3 DEF NotSpawned, StartSprig, StartFails, Kill, Killed, Clear, SprigExits, StarterDies,
                  Goes, Phase
    <3>2. ASSUME NEW ph, starter' = [starter EXCEPT ![s] = ph] PROVE starter'[Root] = starter[Root]
      BY <3>2, <1>0, RunAssumption
    <3> QED
      BY <3>1, <3>2
  <2>3. todo'[Root] = todo[Root]
    <3>1. todo' = todo \/ \E T : todo' = [todo EXCEPT ![s] = T]
      BY <1>3 DEF NotSpawned, StartSprig, StartFails, Kill, Killed, Clear, SprigExits, StarterDies
    <3>2. ASSUME NEW T, todo' = [todo EXCEPT ![s] = T] PROVE todo'[Root] = todo[Root]
      BY <3>2, <1>0, RunAssumption
    <3> QED
      BY <3>1, <3>2
  <2> QED
    BY <2>1, <2>2, <2>3, <1>k
<1>4. ASSUME NEW s \in Nodes, RecordGroup(s) PROVE Tops' /\ Listed'
  <2>1. /\ starter' = [starter EXCEPT ![s] = "waiting"] /\ UNCHANGED <<under, todo, late>>
        /\ (tree' = GroupRow(tree, s, s) \/ tree' = tree)
    BY <1>4 DEF RecordGroup, Goes
  <2>2. tree'.state = tree.state
    BY <2>1, <1>0, RunAssumption, GroupRowIs
  <2>3. starter'[Root] = starter[Root]
    BY <2>1, <1>0
  <2> QED
    BY <2>1, <2>2, <2>3, <1>k DEF IsNode, Running
<1>5. ASSUME NEW s \in Sessions, EndBelow(s) PROVE Tops' /\ Listed'
  <2>d. PICK d \in todo[s] : /\ \A c \in todo[s] : tree.parent[c] # d
                             /\ tree' = Ended(d) /\ todo' = [todo EXCEPT ![s] = @ \ {d}]
                             /\ starter[s] = "ending" /\ UNCHANGED <<under, starter, late>>
    BY <1>5 DEF EndBelow
  <2>1. d \in Nodes
    BY <1>0
  <2>2. /\ \A n \in Sessions : IsNode(tree, n)' <=> IsNode(tree, n)
        /\ \A n \in Sessions : Running(tree, n)' => Running(tree, n)
    BY <2>d, <2>1, <1>0, EndedIs, EndedRuns DEF Steady, IsNode, Running
  <2>3. CASE s # Root
    <3>1. todo'[Root] = todo[Root]
      BY <2>d, <2>3, <1>0
    <3> QED
      BY <2>d, <2>2, <3>1, <1>k
  <2>4. CASE s = Root
    <3>1. Tops'
      BY <2>d, <2>2, TopsStay DEF Tops
    <3>2. ASSUME NEW n \in Nodes, Running(tree, n)' PROVE n \in todo'[Root] \/ HasLate(n)'
      <4>1. n \in todo[Root] \/ HasLate(n)
        BY <2>d, <2>2, <2>4, <3>2 DEF Listed, Swept
      <4>2. n = d => HasLate(n)
        <5> SUFFICES ASSUME n = d PROVE HasLate(d)
          OBVIOUS
        <5>1. PICK c \in Children(tree, d) : Running(tree, c)
          BY <2>d, <2>1, <3>2, <1>0, EndedRuns DEF Running
        <5>2. c \in Sessions /\ IsNode(tree, c) /\ tree.parent[c] = d
          BY <5>1 DEF Children
        <5>3. c \in Nodes /\ under[c] = d
          BY <5>2, <2>1 DEF Nodes, Shape, Links
        <5>4. c \notin todo[Root]
          BY <2>d, <2>4, <5>2
        <5>5. HasLate(c)
          BY <2>d, <2>4, <5>1, <5>3, <5>4 DEF Listed, Swept
        <5> QED
          BY <2>1, <5>2, <5>3, <5>5, LateAbove
      <4>3. HasLate(n) => HasLate(n)'
        BY <2>d, <2>2, LateStays
      <4>4. todo'[Root] = todo[Root] \ {d}
        BY <2>d, <2>4, <1>0, RunAssumption
      <4> QED
        BY <4>1, <4>2, <4>3, <4>4
    <3>3. starter'[Root] # "returned"
      BY <2>d, <2>4
    <3> QED
      BY <3>1, <3>2, <3>3 DEF Listed
  <2> QED
    BY <2>3, <2>4
<1>6. ASSUME NEW s \in Sessions, EndOwn(s) PROVE Tops' /\ Listed'
  <2>1. /\ starter[s] = "ending" /\ tree' = Ended(s) /\ starter' = [starter EXCEPT ![s] = "returned"]
        /\ todo[s] = {} /\ UNCHANGED <<under, todo, late>>
    BY <1>6 DEF EndOwn, Goes
  <2>2. /\ \A n \in Sessions : IsNode(tree, n)' <=> IsNode(tree, n)
        /\ \A n \in Sessions : Running(tree, n)' => Running(tree, n)
    BY <2>1, <1>0, EndedIs, EndedRuns DEF Steady, IsNode, Running
  <2>3. CASE s # Root
    <3>1. starter'[Root] = starter[Root]
      BY <2>1, <2>3, <1>0
    <3> QED
      BY <2>1, <2>2, <3>1, <1>k
  <2>4. CASE s = Root
    <3>1. Tops'
      BY <2>1, <2>2, TopsStay DEF Tops
    <3>2. ASSUME NEW n \in Nodes, Running(tree, n)' PROVE HasLate(n)'
      <4>1. HasLate(n)
        BY <2>1, <2>2, <2>4, <3>2 DEF Listed, Swept
      <4> QED
        BY <4>1, <2>1, <2>2, LateStays
    <3> QED
      BY <2>1, <2>4, <3>1, <3>2 DEF Listed
  <2> QED
    BY <2>3, <2>4
<1>7. ASSUME Sweep PROVE Tops' /\ Listed'
  <2>s. PICK s \in Nodes :
           /\ under[s] = Root
           /\ todo' = [todo EXCEPT ![Root] = {d \in Below(s) \cup {s} : Running(tree, d)}]
    BY <1>7 DEF Sweep
  <2>1. starter' = [starter EXCEPT ![Root] = "ending"] /\ UNCHANGED <<tree, under, late>>
    BY <1>7 DEF Sweep, Goes
  <2>2. Tops'
    BY <2>1, TopsStay DEF Tops
  <2>3. ASSUME NEW d \in Nodes, Running(tree, d) PROVE d \in todo'[Root]
    <3>1. PICK c \in Nodes : under[c] = Root /\ (d = c \/ d \in Below(c))
      BY <2>3 DEF Tops, IsNode, Running
    <3>2. c = s
      BY <2>s, <3>1 DEF Tops
    <3> QED
      BY <2>s, <2>3, <3>1, <3>2, <1>0, RunAssumption
  <2>4. starter'[Root] = "ending"
    BY <2>1, <1>0, RunAssumption
  <2> QED
    BY <2>1, <2>2, <2>3, <2>4 DEF Listed, Running
<1>8. CASE UNCHANGED vars
  BY <1>8, <1>k DEF vars, IsNode, Running
<1>9. ASSUME NEW s \in Sessions, Proceed(s) PROVE Tops' /\ Listed'
  <2>1. s = Root => EndBelow(s) \/ EndOwn(s)
    BY <1>9 DEF Proceed, StartSprig, StartFails, RecordGroup, Kill, Killed, Clear, Works, Shape, Links
  <2> QED
    BY <1>3, <1>4, <1>5, <1>6, <1>9, <2>1 DEF Proceed, Nodes
<1> QED
  BY <1>1, <1>2, <1>3, <1>7, <1>8, <1>9 DEF Next

-----------------------------------------------------------------------------

LEMMA Invariant == Spec => [](Shape /\ OnlyCutEnds)
<1>1. Init => Shape /\ OnlyCutEnds
  <2> SUFFICES ASSUME Init PROVE Shape /\ OnlyCutEnds
    OBVIOUS
  <2>1. \A d \in Nodes : tree.state[d] # "ended"
    BY NodesAre DEF Init, RootRow, NewNode, IsNode, EmptyTree
  <2> QED
    BY <2>1, InitShape DEF Init, OnlyCutEnds
<1> QED
  BY <1>1, NextShape, NextCut, PTL DEF Spec

\* The ledger, the processes, the signals and the lists of what is still to end keep their types.
THEOREM RunTypes == Spec => []TypeOK
<1>1. Shape => TypeOK
  BY DEF Shape
<1> QED
  BY <1>1, Invariant, PTL

\* MX-R-13: once run_node has returned for a session, or its starter has died, every process that is left
\* of its branch is dying, however deep the branch is and whether or not its groups were recorded.
THEOREM BranchAlwaysDies == Spec => []BranchDies
BY ShapeDies, Invariant, PTL

\* No node is ended under an agent that goes on, whichever starter ends it and however old its list is.
THEOREM EndedIsAlwaysDying == Spec => []EndedIsDying
<1>1. Shape /\ OnlyCutEnds => EndedIsDying
  BY CutDies DEF OnlyCutEnds, EndedIsDying
<1> QED
  BY <1>1, Invariant, PTL

\* Under the executor, for a branch of any depth and width: once the executor's sweep is over, a node
\* that still runs in the ledger has a row at or below it that landed behind the list the sweep had read.
\* No crash, no lost group row and no refused end leaves any other node running.
THEOREM SweepLeavesOnlyLate ==
    ASSUME Executor
    PROVE  Spec => []OnlyLateLeft
<1>1. Init => Tops /\ Listed
  <2> SUFFICES ASSUME Init PROVE Tops /\ Listed
    OBVIOUS
  <2>1. \A d \in Nodes : ~IsNode(tree, d)
    BY NodesAre DEF Init, RootRow, NewNode, IsNode, EmptyTree
  <2>2. starter[Root] = "waiting"
    BY RunAssumption DEF Init
  <2>3. \A a \in Nodes : under[a] # Root
    BY NodesAre, RunAssumption DEF Init
  <2> QED
    BY <2>1, <2>2, <2>3 DEF Init, Tops, Listed, Swept
<1>2. Tops /\ Listed => OnlyLateLeft
  BY DEF Listed, OnlyLateLeft, Swept
<1> QED
  BY <1>1, <1>2, Invariant, NextTops, PTL DEF Spec
=============================================================================
