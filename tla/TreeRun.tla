------------------------------ MODULE TreeRun ------------------------------
(***************************************************************************)
(* Running a branch of the delegation tree: run_node of                    *)
(* clients/rust/src/supervise/treerun.rs, with run_group and kill_groups   *)
(* of agentic_sprig.rs and end_subtree of tree.rs.                         *)
(*                                                                         *)
(* Each node has two processes: its starter, a tree run command that waits *)
(* for it, and its sprig, the agent.  A sprig starts a child by running a  *)
(* starter, which lives in the sprig's process group; each process gets    *)
(* SIGTERM when the one that started it dies.  Starters share nothing but  *)
(* the ledger: each appends rows under the lock, and reads it without.     *)
(*                                                                         *)
(* A process that was signalled takes no step of its own any more, except  *)
(* that a row it is writing may still land.  What a spawn checks of        *)
(* envelopes and budgets is TreeLedger's; here it starts or does not.      *)
(***************************************************************************)
EXTENDS TreeFold, FiniteSets

CONSTANTS
    Root,       \* the session at the top, not a sprig of this branch
    Executor,   \* the executor runs the branch, and sweeps it when it is over
    Faults      \* the kinds of faults that may happen

Nodes == Sessions \ {Root}

ASSUME RunAssumption ==
    /\ Root \in Sessions
    /\ Executor \in BOOLEAN
    /\ Faults \subseteq {"crash", "record", "register"}
    /\ Nodes \subseteq Groups   \* a sprig's pid is its group

VARIABLES
    tree,       \* what read_tree returns
    under,      \* the session a starter was run for
    starter,    \* where run_node is
    sprig,      \* none, alive or exited
    signalled,  \* the processes with a fatal signal on its way
    targets,    \* the groups a starter has killed
    todo,       \* the nodes its end_subtree has still to end
    late        \* history: the nodes whose row landed behind the executor's list

vars == <<tree, under, starter, sprig, signalled, targets, todo, late>>

Process == {"starter", "sprig"} \X Nodes
StarterOf(s) == <<"starter", s>>
SprigOf(s) == <<"sprig", s>>

Active(s) == starter[s] \notin {"none", "returned", "dead"}
Alive == {StarterOf(s) : s \in {n \in Nodes : Active(n)}}
         \cup {SprigOf(s) : s \in {n \in Nodes : sprig[n] = "alive"}}

\* The group of a sprig holds the starters it runs; its tools have their own.
InGroup(g) == {SprigOf(g)} \cup {StarterOf(c) : c \in {n \in Nodes : under[n] = g}}

Below(s) == {d \in Sessions : s \in Above(tree)[d]}
Free(s) == starter[s] \in {"none", "returned"} /\ ~IsNode(tree, s)
Works(s, phase) == starter[s] = phase /\ StarterOf(s) \notin signalled

\* The root is made before anything is run under it.
Init ==
    /\ tree = RootRow(EmptyTree, Root, NoEnvelope, NoCount)
    /\ under = [s \in Sessions |-> NoSession]
    /\ starter = [s \in Sessions |->
                     IF s = Root /\ Executor THEN "waiting" ELSE "none"]
    /\ sprig = [s \in Sessions |-> "none"]
    /\ signalled = {}
    /\ targets = [s \in Sessions |-> {}]
    /\ todo = [s \in Sessions |-> {}]
    /\ late = {}

Goes(s, phase) == starter' = [starter EXCEPT ![s] = phase]

-----------------------------------------------------------------------------
(* Starting                                                                *)

\* The spawn tool of a sprig waits for its child; the operator may run several
\* branches, the executor one.
RunStarter(p, s) ==
    /\ Free(s)
    /\ IF p = Root THEN Executor => \A c \in Nodes : under[c] # Root
       ELSE /\ sprig[p] = "alive"
            /\ SprigOf(p) \notin signalled
            /\ \A c \in Nodes : under[c] = p => ~Active(c)
    /\ under' = [under EXCEPT ![s] = p]
    /\ Goes(s, "proposed")
    /\ signalled' = signalled \ {StarterOf(s), SprigOf(s)}
    /\ UNCHANGED <<tree, sprig, targets, todo, late>>

\* The executor has read what it will end.
Swept == starter[Root] \in {"ending", "returned"}
RowLands(s) ==
    /\ tree' = SpawnRow(tree, under[s], s, NoEnvelope, NoCount, TRUE, NoCount)
    /\ late' = IF Swept THEN late \cup {s} ELSE late

\* spawn_opts starts the node.
Spawn(s) ==
    /\ starter[s] = "proposed"
    /\ Running(tree, under[s])
    /\ RowLands(s)
    /\ Goes(s, "spawned")
    /\ UNCHANGED <<under, sprig, signalled, targets, todo>>

\* ... or refuses, asks or fails: run_node returns at once.
NotSpawned(s) ==
    /\ Works(s, "proposed")
    /\ Goes(s, "returned")
    /\ UNCHANGED <<tree, under, sprig, signalled, targets, todo, late>>

\* ... or writes the row and then cannot write the envelope.
SpawnedUnregistered(s) ==
    /\ "register" \in Faults
    /\ Works(s, "proposed")
    /\ Running(tree, under[s])
    /\ RowLands(s)
    /\ Goes(s, "returned")
    /\ UNCHANGED <<under, sprig, signalled, targets, todo>>

StartSprig(s) ==
    /\ Works(s, "spawned")
    /\ sprig' = [sprig EXCEPT ![s] = "alive"]
    /\ Goes(s, "started")
    /\ UNCHANGED <<tree, under, signalled, targets, todo, late>>

\* The program cannot be started: there is nothing to kill.
StartFails(s) ==
    /\ Works(s, "spawned")
    /\ Goes(s, "clearing")
    /\ UNCHANGED <<tree, under, sprig, signalled, targets, todo, late>>

\* on_start; an error of record_group is dropped.
RecordGroup(s) ==
    /\ starter[s] = "started"
    /\ \/ tree' = GroupRow(tree, s, s)
       \/ "record" \in Faults /\ tree' = tree
    /\ Goes(s, "waiting")
    /\ UNCHANGED <<under, sprig, signalled, targets, todo, late>>

-----------------------------------------------------------------------------
(* Killing                                                                 *)

\* branch_groups: the recorded groups of the running nodes below.
BranchGroups(s) ==
    {tree.group[d] : d \in {n \in Below(s) : Running(tree, n)}} \ {NoGroup}

\* The sprig exited, wrote too much or ran past its time: SIGTERM to the groups
\* of its branch and to its own.  Output held open after an exit brings a second
\* kill, which only kills more and is left out.
Kill(s) ==
    /\ s # Root
    /\ Works(s, "waiting")
    /\ LET groups == BranchGroups(s) \cup {s}
       IN  /\ targets' = [targets EXCEPT ![s] = groups]
           /\ signalled' = signalled \cup (Alive \cap UNION {InGroup(g) : g \in groups})
    /\ Goes(s, "killing")
    /\ UNCHANGED <<tree, under, sprig, todo, late>>

\* The groups are gone, within the grace or by SIGKILL after it, and the child is
\* reaped.
Killed(s) ==
    /\ Works(s, "killing")
    /\ sprig[s] # "alive"
    /\ Alive \cap UNION {InGroup(g) : g \in targets[s]} = {}
    /\ targets' = [targets EXCEPT ![s] = {}]
    /\ Goes(s, "clearing")
    /\ UNCHANGED <<tree, under, sprig, signalled, todo, late>>

\* Mutants: one of the two that start a process asks for no parent-death signal.
BereavedNoSprig(x) ==
    IF x[1] = "starter" THEN {}
    ELSE Alive \cap {StarterOf(c) : c \in {n \in Nodes : under[n] = x[2]}}
BereavedNoStarter(x) ==
    IF x[1] = "starter" THEN Alive \cap {SprigOf(x[2])} ELSE {}

\* The parent-death signal of what a process started.
Bereaved(x) ==
    IF x[1] = "starter" THEN Alive \cap {SprigOf(x[2])}
    ELSE Alive \cap {StarterOf(c) : c \in {n \in Nodes : under[n] = x[2]}}

\* A sprig ends by itself while no spawn tool waits, or dies of a signal or of
\* anything else.
SprigExits(s) ==
    /\ sprig[s] = "alive"
    /\ \/ SprigOf(s) \in signalled
       \/ "crash" \in Faults
       \/ \A c \in Nodes : under[c] = s => ~Active(c)
    /\ sprig' = [sprig EXCEPT ![s] = "exited"]
    /\ signalled' = (signalled \ {SprigOf(s)}) \cup Bereaved(SprigOf(s))
    /\ UNCHANGED <<tree, under, starter, targets, todo, late>>

StarterDies(s) ==
    /\ s # Root
    /\ Active(s)
    /\ StarterOf(s) \in signalled \/ "crash" \in Faults
    /\ Goes(s, "dead")
    /\ signalled' = (signalled \ {StarterOf(s)}) \cup Bereaved(StarterOf(s))
    /\ UNCHANGED <<tree, under, sprig, targets, todo, late>>

-----------------------------------------------------------------------------
(* Ending                                                                  *)

Ended(s) ==
    IF Running(tree, s) /\ \A c \in Children(tree, s) : ~Running(tree, c)
    THEN EndRow(tree, s, NoCount) ELSE tree

\* end_subtree reads the tree once, without the lock.
Clear(s) ==
    /\ Works(s, "clearing")
    /\ todo' = [todo EXCEPT ![s] = {d \in Below(s) : Running(tree, d)}]
    /\ Goes(s, "ending")
    /\ UNCHANGED <<tree, under, sprig, signalled, targets, late>>

\* The executor's, once run_node returned, takes in the top of the branch as well.
Sweep ==
    /\ starter[Root] = "waiting"
    /\ \E s \in Nodes :
          /\ under[s] = Root
          /\ starter[s] = "returned"
          /\ todo' = [todo EXCEPT ![Root] =
                         {d \in Below(s) \cup {s} : Running(tree, d)}]
    /\ Goes(Root, "ending")
    /\ UNCHANGED <<tree, under, sprig, signalled, targets, late>>

\* Mutant: in any order.
EndBelowAnyOrder(s) ==
    /\ starter[s] = "ending"
    /\ \E d \in todo[s] :
          /\ tree' = Ended(d)
          /\ todo' = [todo EXCEPT ![s] = @ \ {d}]
    /\ UNCHANGED <<under, starter, sprig, signalled, targets, late>>

\* Leaves first; an end that is refused is passed over.
EndBelow(s) ==
    /\ starter[s] = "ending"
    /\ \E d \in todo[s] :
          /\ \A c \in todo[s] : tree.parent[c] # d
          /\ tree' = Ended(d)
          /\ todo' = [todo EXCEPT ![s] = @ \ {d}]
    /\ UNCHANGED <<under, starter, sprig, signalled, targets, late>>

\* The node itself, and run_node returns, whether or not it ended.
EndOwn(s) ==
    /\ starter[s] = "ending"
    /\ todo[s] = {}
    /\ tree' = Ended(s)
    /\ Goes(s, "returned")
    /\ UNCHANGED <<under, sprig, signalled, targets, todo, late>>

-----------------------------------------------------------------------------

\* What run_node does once it has a node, and a process that dies.
Proceed(s) ==
    \/ StartSprig(s)
    \/ StartFails(s)
    \/ RecordGroup(s)
    \/ Kill(s)
    \/ Killed(s)
    \/ Clear(s)
    \/ EndBelow(s)
    \/ EndOwn(s)

Next ==
    \/ \E p \in Sessions, s \in Nodes : RunStarter(p, s)
    \/ \E s \in Nodes : Spawn(s) \/ NotSpawned(s) \/ SpawnedUnregistered(s)
    \/ \E s \in Sessions : Proceed(s)
    \/ Sweep
    \/ \E s \in Nodes : SprigExits(s) \/ StarterDies(s)

Spec == Init /\ [][Next]_vars

\* A starter goes on, kills at the latest when the time is over, and a process
\* that was signalled dies.  Nothing obliges a sprig to end, or to start anyone.
Dies(s) == SprigOf(s) \in signalled /\ SprigExits(s)
Acts(s) ==
    \/ Proceed(s)
    \/ s = Root /\ Sweep
    \/ s \in Nodes /\ (Spawn(s) \/ NotSpawned(s))
    \/ StarterOf(s) \in signalled /\ StarterDies(s)
Fairness ==
    /\ \A s \in Sessions : WF_vars(Acts(s))
    /\ \A s \in Nodes : WF_vars(Dies(s))

FairSpec == Spec /\ Fairness

-----------------------------------------------------------------------------
(* What must hold.                                                         *)

TypeOK ==
    /\ tree \in Tree
    /\ under \in [Sessions -> Sessions \cup {NoSession}]
    /\ starter \in [Sessions -> {"none", "proposed", "spawned", "started", "waiting",
                                 "killing", "clearing", "ending", "returned", "dead"}]
    /\ sprig \in [Sessions -> {"none", "alive", "exited"}]
    /\ signalled \subseteq Process
    /\ targets \in [Sessions -> SUBSET Groups]
    /\ todo \in [Sessions -> SUBSET Nodes]
    /\ late \subseteq Nodes

\* Who started a process, and so on up to the top of the branch.
StartedBy(x) == IF x[1] = "sprig" THEN StarterOf(x[2]) ELSE SprigOf(under[x[2]])
Chain(x) ==
    LET up[s \in Sessions] ==
          {SprigOf(s), StarterOf(s)}
          \cup IF under[s] \in Nodes THEN up[under[s]] ELSE {}
    IN  up[x[2]] \ (IF x[1] = "starter" THEN {SprigOf(x[2])} ELSE {})
Dying(x) == Chain(x) \cap Alive \cap signalled # {}

\* MX-R-13, the kill reaches every descendant: once run_node has returned for a
\* session, every process left of its branch is dying, by a signal of its own or
\* by the parent-death signals of those above it, whether or not its group was
\* recorded in time.
BranchDies ==
    \A s, d \in Nodes :
        starter[s] \in {"returned", "dead"} =>
            \A x \in Alive \cap {StarterOf(d), SprigOf(d)} :
                (d = s \/ StarterOf(s) \in Chain(x)) => Dying(x)

\* No node is ended under an agent that goes on: what it does after that is neither
\* charged to anyone nor let through by the gate.
EndedIsDying ==
    \A s \in Nodes :
        tree.state[s] = "ended" /\ sprig[s] = "alive" => Dying(SprigOf(s))

\* MX-R-8: no node is left running once nobody is there to end it.
NoneLeft ==
    Alive = {} => \A s \in Nodes : ~Running(tree, s)

\* A node, or one below it, was started behind the executor's list.
HasLate(s) == \E d \in late : d = s \/ d \in Below(s)

TopDied == \E c \in Nodes : under[c] = Root /\ starter[c] = "dead"

\* Under the executor a node is left running only if the starter of the top died, or for a row that
\* landed behind the list the executor had read: in the end every other node has ended, whatever its
\* sprig does, whichever starters die on the way and whichever ends are refused because a child still
\* ran.  The late row keeps its node, and all above it, running for ever, as in NoneLeft.
EveryNodeEnds ==
    []<>(TopDied \/ \A s \in Nodes : Running(tree, s) => HasLate(s))
=============================================================================
