------------------------------ MODULE MergeOrder ------------------------------
(* foreman/order.rs: the nodes of the chat's summary tree, the order in which  *)
(* they are built, and the order in which a batch merges the lines of the      *)
(* view. A node of level l covers the 2^l messages from message i * 2^l.       *)
(* MostDue and MergeAt are the rule, one merge at a time; the planner is what  *)
(* the view runs, with the candidate pairs in a heap.                          *)
EXTENDS Integers, SequencesExt

CONSTANT MaxLevel                     \* MAX_LEVEL, 62 in the code

ASSUME MaxLevelAssumption == MaxLevel \in Nat

Width[l \in 0 .. MaxLevel + 1] == IF l = 0 THEN 1 ELSE 2 * Width[l - 1]        \* 2^l

NodeId == [l : 0 .. MaxLevel, i : Nat]

Leaf(i)   == [l |-> 0, i |-> i]
FirstOf(n) == n.i * Width[n.l]
LastOf(n)  == FirstOf(n) + Width[n.l] - 1
Parent(n) == [l |-> n.l + 1, i |-> n.i \div 2]
Children(n) == {[l |-> n.l - 1, i |-> 2 * n.i], [l |-> n.l - 1, i |-> 2 * n.i + 1]}

\* Mutant: any two neighbours of one level.
SiblingsUneven(a, b) == a.l = b.l /\ b.i = a.i + 1

Siblings(a, b) == a.l = b.l /\ a.i % 2 = 0 /\ b.i = a.i + 1

(* chain: the nodes queued for message i, its own and each parent it           *)
(* completes.                                                                  *)
Chain(i) ==
    LET Up[k \in 0 .. MaxLevel] == IF k = 0 THEN Leaf(i) ELSE Parent(Up[k - 1])
        top == CHOOSE k \in 0 .. MaxLevel :
                   /\ \A j \in 0 .. k - 1 : Up[j].i % 2 = 1
                   /\ Up[k].i % 2 = 0 \/ k = MaxLevel
    IN [k \in 1 .. top + 1 |-> Up[k - 1]]

(* a / 2^la > b / 2^lb.                                                        *)
MoreDue(a, la, b, lb) == a * Width[lb] > b * Width[la]

-----------------------------------------------------------------------------
(* The rule.                                                                   *)

Mergeable(view, built) ==
    {k \in 1 .. Len(view) - 1 : Siblings(view[k], view[k + 1]) /\ Parent(view[k]) \in built}

(* most_due: the pair, by its left line, that is due by the most; the oldest   *)
(* of those that are.                                                          *)
MostDue(view, total, built) ==
    LET num(k) == total - LastOf(view[k + 1])
        more(j, k) == MoreDue(num(j), view[j].l, num(k), view[k].l) IN
    {k \in Mergeable(view, built) :
        \A j \in Mergeable(view, built) : ~ more(j, k) /\ (j < k => more(k, j))}

(* merge_at: the lines k and k + 1 become their parent.                        *)
MergeAt(view, k) ==
    [j \in 1 .. Len(view) - 1 |->
        IF j < k THEN view[j] ELSE IF j = k THEN Parent(view[k]) ELSE view[j + 1]]

-----------------------------------------------------------------------------
(* The planner. Lines sit in slots, in view order; a merge keeps the left slot *)
(* and kills the right one. An entry of the heap names a pair by its slots and *)
(* their generations. Slot 0 and slot Len(ids) + 1 stand for no slot.          *)

(* consider: the entry of the pair that starts at slot k, if it can merge.     *)
Consider(p, k, total, built) ==
    IF /\ k \in p.alive
       /\ p.next[k] <= Len(p.ids)
       /\ Siblings(p.ids[k], p.ids[p.next[k]])
       /\ Parent(p.ids[k]) \in built
    THEN {[left |-> k, right |-> p.next[k], lgen |-> p.gen[k], rgen |-> p.gen[p.next[k]],
           num |-> total - LastOf(p.ids[p.next[k]]), level |-> p.ids[k].l]}
    ELSE {}

Planner(view, total, built) ==
    LET p == [ids |-> view, alive |-> DOMAIN view, heap |-> {},
              next |-> [k \in DOMAIN view |-> k + 1], prev |-> [k \in DOMAIN view |-> k - 1],
              gen |-> [k \in DOMAIN view |-> 0]] IN
    [p EXCEPT !.heap = UNION {Consider(p, k, total, built) : k \in DOMAIN view}]

\* Mutant: among equals the newer pair comes first.
AheadNewest(e, f) ==
    \/ MoreDue(e.num, e.level, f.num, f.level)
    \/ ~ MoreDue(f.num, f.level, e.num, e.level) /\ e.left > f.left

(* The order of the heap: more due first, then the lower slot.                 *)
Ahead(e, f) ==
    \/ MoreDue(e.num, e.level, f.num, f.level)
    \/ ~ MoreDue(f.num, f.level, e.num, e.level) /\ e.left < f.left

Tops(p) == {e \in p.heap : \A f \in p.heap : ~ Ahead(f, e)}

(* pop drops an entry whose slots have changed since it was made.              *)
Fresh(p, e) ==
    /\ {e.left, e.right} \subseteq p.alive
    /\ p.gen[e.left] = e.lgen
    /\ p.gen[e.right] = e.rgen
    /\ p.next[e.left] = e.right

(* merge: slot k becomes the parent, and the pairs on both sides of it are     *)
(* looked at.                                                                  *)
Merge(p, k, total, built) ==
    LET r == p.next[k]
        n == p.next[r]
        m == [ids   |-> [p.ids EXCEPT ![k] = Parent(@)],
              alive |-> p.alive \ {r},
              heap  |-> p.heap,
              next  |-> [p.next EXCEPT ![k] = n],
              prev  |-> IF n <= Len(p.ids) THEN [p.prev EXCEPT ![n] = k] ELSE p.prev,
              gen   |-> [p.gen EXCEPT ![k] = @ + 1]] IN
    [m EXCEPT !.heap = @ \cup Consider(m, m.prev[k], total, built) \cup Consider(m, k, total, built)]

(* The members of S in the order of s: SelectSeq, written so that it can be    *)
(* proved about.                                                               *)
Only(s, S) ==
    LET Kept[k \in 0 .. Len(s)] ==
            IF k = 0 THEN <<>>
            ELSE IF s[k] \in S THEN Append(Kept[k - 1], s[k]) ELSE Kept[k - 1]
    IN Kept[Len(s)]

Lines(p) ==
    LET slots == Only([k \in DOMAIN p.ids |-> k], p.alive) IN
    [j \in DOMAIN slots |-> p.ids[slots[j]]]
=============================================================================
