----------------------------- MODULE MCTreeRun -----------------------------
(***************************************************************************)
(* Small instances of TreeRun.  The sessions are numbers: one is as good   *)
(* as another, so that a starter may take the least that is free.  A       *)
(* branch of more than Few nodes is a chain, in which no process crashes   *)
(* and every envelope can be written.  No bound takes away a step that     *)
(* fairness obliges.                                                       *)
(***************************************************************************)
EXTENDS TreeRun, TLC

CONSTANT Few

VARIABLE broke    \* whether a process crashed or an envelope could not be written

InOrder ==
    \A s \in Nodes : starter'[s] = "proposed" /\ starter[s] # "proposed" =>
        \A n \in Nodes : Free(n) => s <= n

Crashes ==
    \E s \in Nodes :
        \/ StarterOf(s) \notin signalled /\ starter[s] # "dead" /\ starter'[s] = "dead"
        \/ /\ SprigOf(s) \notin signalled /\ sprig[s] = "alive" /\ sprig'[s] = "exited"
           /\ \E d \in Nodes : under[d] = s /\ Active(d)

NotWritten ==
    \E s \in Nodes : starter[s] = "proposed" /\ starter'[s] = "returned" /\ tree' # tree

MCInit == Init /\ broke = FALSE

MCNext ==
    /\ Next
    /\ InOrder
    /\ broke' = (broke \/ Crashes \/ NotWritten)
    /\ LET used == {s \in Nodes : under'[s] # NoSession} IN
       Cardinality(used) > Few => ~broke' /\ \A s, n \in used : under'[s] = under'[n] => s = n

MCSpec == MCInit /\ [][MCNext]_<<vars, broke>> /\ Fairness

\* Without fairness.
MCSafeSpec == MCInit /\ [][MCNext]_<<vars, broke>>
=============================================================================
