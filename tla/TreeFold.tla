------------------------------ MODULE TreeFold ------------------------------
(***************************************************************************)
(* What tree::read_tree makes of tree/ledger.jsonl, one operator per kind  *)
(* of row: the tree after the row is read, given the tree before it.  A    *)
(* row the fold skips leaves the tree as it was.  The two budget axes,     *)
(* tokens and turns, are treated alike by the code and are one axis here.  *)
(***************************************************************************)
EXTENDS EdgeRule, FiniteSetsExt

CONSTANTS
    Sessions,   \* session ids
    NoSession,  \* the parent of a root
    NoCount,    \* a budget or a report left out
    MaxCount,   \* max_count: 2**53 in the code
    Groups,     \* process groups starters put their children in
    NoGroup     \* pgid 0: no group row was read

ASSUME TreeAssumption ==
    /\ NoSession \notin Sessions
    /\ NoCount \notin Nat
    /\ MaxCount \in Nat
    /\ NoGroup \notin Groups

Counts == 0..MaxCount
MaybeCount == Counts \cup {NoCount}

\* A row of kind "ask" as the fold keeps it.  ask_id hashes the parent, the
\* session, the envelope and the number of asks before it, so the row itself
\* stands for its id.
Ask == [parent : Sessions, session : Sessions, envelope : Envelope,
        tokens : MaybeCount, n : Nat,
        reasons : SUBSET (Reasons \cup {"physical", "budget"})]

\* Node and Tree, one function per field of a node.
Tree == [state   : [Sessions -> {"none", "running", "ended"}],
         parent  : [Sessions -> Sessions \cup {NoSession}],
         root    : [Sessions -> Sessions],
         env     : [Sessions -> Envelope \cup {NoEnvelope}],
         tokens  : [Sessions -> MaybeCount],
         proved  : [Sessions -> BOOLEAN],
         own     : [Sessions -> MaybeCount],
         used    : [Sessions -> MaybeCount],
         group   : [Sessions -> Groups \cup {NoGroup}],
         refused : [Sessions -> Nat],
         asks    : SUBSET Ask,
         answers : SUBSET (Ask \X {"allow", "deny"})]

EmptyTree ==
    [state   |-> [s \in Sessions |-> "none"],
     parent  |-> [s \in Sessions |-> NoSession],
     root    |-> [s \in Sessions |-> s],
     env     |-> [s \in Sessions |-> NoEnvelope],
     tokens  |-> [s \in Sessions |-> NoCount],
     proved  |-> [s \in Sessions |-> TRUE],
     own     |-> [s \in Sessions |-> NoCount],
     used    |-> [s \in Sessions |-> NoCount],
     group   |-> [s \in Sessions |-> NoGroup],
     refused |-> [s \in Sessions |-> 0],
     asks    |-> {},
     answers |-> {}]

IsNode(t, s) == t.state[s] # "none"
Running(t, s) == t.state[s] = "running"
Children(t, s) == {c \in Sessions : IsNode(t, c) /\ t.parent[c] = s}

\* The ancestors of each session.
Above(t) ==
    LET above[s \in Sessions] ==
          IF t.parent[s] = NoSession THEN {}
          ELSE {t.parent[s]} \cup above[t.parent[s]]
    IN  above

Answered(t, a) == \E v \in {"allow", "deny"} : <<a, v>> \in t.answers
\* Mutant: an ask stays open once it is answered.
OpenAsksForever(t) == t.asks

OpenAsks(t) == {a \in t.asks : ~Answered(t, a)}

-----------------------------------------------------------------------------
(* The rows.                                                               *)

\* Mutant: every child is read as proved.
NewNodeProved(t, s, parent, root, e, tokens, proved) ==
    [t EXCEPT !.state[s] = "running", !.parent[s] = parent, !.root[s] = root,
              !.env[s] = e, !.tokens[s] = tokens, !.proved[s] = TRUE]

\* root is not a field of the ledger: it is where the walk up from a node ends
\* (the loop in tree::answer), kept because a node's parent never changes.
NewNode(t, s, parent, root, e, tokens, proved) ==
    [t EXCEPT !.state[s] = "running", !.parent[s] = parent, !.root[s] = root,
              !.env[s] = e, !.tokens[s] = tokens, !.proved[s] = proved]

RootRow(t, s, e, tokens) ==
    IF IsNode(t, s) THEN t ELSE NewNode(t, s, NoSession, s, e, tokens, TRUE)

\* Mutant: the walk up stops at the parent.
SpawnRowOneStep(t, p, s, e, tokens, proved, own) ==
    IF IsNode(t, s) \/ ~Running(t, p) THEN t
    ELSE NewNode(t, s, p, p, e, tokens, proved)

SpawnRow(t, p, s, e, tokens, proved, own) ==
    IF IsNode(t, s) \/ ~Running(t, p) THEN t
    ELSE [NewNode(t, s, p, t.root[p], e, tokens, proved)
            EXCEPT !.refused[p] = 0,
                   !.own[p] = IF own = NoCount THEN @ ELSE own]

RefusedRow(t, p) ==
    IF IsNode(t, p) THEN [t EXCEPT !.refused[p] = @ + 1] ELSE t

AskRow(t, a) ==
    IF a \in t.asks \/ ~IsNode(t, a.parent) THEN t
    ELSE [t EXCEPT !.asks = @ \cup {a}]

\* Mutant: the fold does not know the row.
AnswerRowSkipped(t, a, verdict) == t

AnswerRow(t, a, verdict) ==
    IF a \notin t.asks \/ Answered(t, a) THEN t
    ELSE [t EXCEPT !.answers = @ \cup {<<a, verdict>>},
                   !.refused[a.parent] = 0]

EndRow(t, s, used) ==
    IF Running(t, s)
    THEN [t EXCEPT !.state[s] = "ended", !.used[s] = used]
    ELSE t

\* Written by a starter, not by a command of the ledger.
GroupRow(t, s, g) ==
    IF Running(t, s) THEN [t EXCEPT !.group[s] = g] ELSE t

-----------------------------------------------------------------------------
(* The budget.                                                             *)

AtLeast(a, b) == IF a >= b THEN a ELSE b
AtMost(a, b) == IF a <= b THEN a ELSE b

\* Mutant: a running node costs its reservation, whatever its children cost.
ChargeReserved(t) ==
    [s \in Sessions |-> IF t.state[s] = "ended" /\ t.used[s] # NoCount
                        THEN t.used[s]
                        ELSE IF t.tokens[s] = NoCount THEN 0 ELSE t.tokens[s]]

\* Tree::charge: what a node costs its parent, its branch total once it ended
\* with a report, else the larger of its reservation and its children's charges.
Charge(t) ==
    LET charge[s \in Sessions] ==
          LET below == MapThenSumSet(LAMBDA c : charge[c], Children(t, s))
              reserved == IF t.tokens[s] = NoCount THEN 0 ELSE t.tokens[s]
          IN  IF t.state[s] = "ended" /\ t.used[s] # NoCount
              THEN t.used[s]
              ELSE AtMost(AtLeast(reserved, below), MaxCount)
    IN  charge

ChildrenCharge(t, s) ==
    LET charge == Charge(t)
    IN  MapThenSumSet(LAMBDA c : charge[c], Children(t, s))

\* Tree::left, with own the use of its own the node has reported.
LeftWith(t, s, own) ==
    t.tokens[s] - ChildrenCharge(t, s) - (IF own = NoCount THEN 0 ELSE own)
Left(t, s) == LeftWith(t, s, t.own[s])

\* Tree::branch_total: no report of its own, no total.
BranchTotal(t, s, own) ==
    IF own = NoCount THEN NoCount
    ELSE AtMost(own + ChildrenCharge(t, s), MaxCount)

\* Mutants: the amount is held to the whole budget; or the parent's own use is not
\* taken off.
BudgetFitsWhole(t, p, own, want) ==
    t.tokens[p] # NoCount => want # NoCount /\ want <= t.tokens[p]
BudgetFitsUnused(t, p, own, want) ==
    t.tokens[p] # NoCount => want # NoCount /\ want <= LeftWith(t, p, NoCount)

\* budget_reasons: a parent with a budget gives an amount, at most what is left.
BudgetFits(t, p, own, want) ==
    t.tokens[p] # NoCount => want # NoCount /\ want <= LeftWith(t, p, own)
=============================================================================
