------------------------------ MODULE EdgeRule ------------------------------
(***************************************************************************)
(* The edge rule of the delegation tree: tree::edge_ok of                  *)
(* clients/rust/src/tree.rs.  An envelope is what the gate lets a session  *)
(* do.  A child may start under a parent only if every step its envelope   *)
(* admits is a step its parent's admits.                                   *)
(*                                                                         *)
(* The fields that are compared one pattern, host, shell head, tool or     *)
(* robot bound at a time, and the numeric caps, are one set of grants: the *)
(* code asks of each of them only whether the child's lies inside the      *)
(* parent's.  What the code orders in another way keeps a field of its     *)
(* own: stakes, the interpreter policy, the enforced rules and the         *)
(* deadline.                                                               *)
(***************************************************************************)
EXTENDS Integers

CONSTANTS
    Grants,         \* what an envelope can permit, one element per unit compared
    Interpreters,   \* the grants that are shell interpreters
    Rules,          \* invariants and postconditions, by value
    ExprRules,      \* the rules with an expression, which need a solver
    OpaqueRules,    \* the rules with neither an expression nor a known type
    NoEnvelope,     \* the value of a lookup that finds no envelope
    NoDeadline      \* the deadline field left out

ASSUME EdgeAssumption ==
    /\ Interpreters \subseteq Grants
    /\ ExprRules \subseteq Rules
    /\ OpaqueRules \subseteq Rules
    /\ NoDeadline \notin Nat

\* stakes_rank: low, medium, high, physical.
Stakes == 0..3
Physical == 3
\* policy_rank: strict, surface, allow.
Policies == 0..2
Strict == 0

Envelope == [grants : SUBSET Grants, stakes : Stakes, policy : Policies,
             keeps : SUBSET Rules, deadline : Nat \cup {NoDeadline}]

ASSUME NoEnvelopeAssumption == NoEnvelope \notin Envelope

-----------------------------------------------------------------------------

\* Mutant: a child may leave the deadline out.
EffectiveUnbounded(parent, child) == child

\* The child as it registers: one with no deadline takes the parent's.
Effective(parent, child) ==
    IF child.deadline = NoDeadline
    THEN [child EXCEPT !.deadline = parent.deadline]
    ELSE child

\* A deadline that is left out never comes.
NoLater(d, e) == e = NoDeadline \/ (d # NoDeadline /\ d <= e)

\* The order the edges are meant to keep: inner admits nothing outer refuses.
Covers(outer, inner) ==
    /\ inner.grants \subseteq outer.grants
    /\ inner.stakes >= outer.stakes
    /\ inner.policy <= outer.policy
    /\ outer.keeps \subseteq inner.keeps
    /\ NoLater(inner.deadline, outer.deadline)

\* A query goes to the solver for each pattern of the child, and for the whole
\* step when either side keeps a rule with an expression.
NeedsProof(parent, child) ==
    \/ child.grants # {}
    \/ (parent.keeps \cup child.keeps) \cap ExprRules # {}

Reasons == {"envelope", "stakes", "policy", "scope", "rules", "opaque",
            "interpreter", "deadline", "proof"}

\* The parts of edge_ok that fail.  finishes is the solver's: a proof that does
\* not finish in its time is a reason like any other.
EdgeReasons(parent, child, finishes) ==
    IF parent = NoEnvelope THEN {"envelope"}
    ELSE { why \in Reasons :
             \/ why = "stakes"   /\ child.stakes < parent.stakes
             \/ why = "policy"   /\ child.policy > parent.policy
             \/ why = "scope"    /\ ~(child.grants \subseteq parent.grants)
             \/ why = "rules"    /\ ~(parent.keeps \subseteq child.keeps)
             \/ why = "opaque"   /\ child.keeps \cap OpaqueRules # {}
             \/ why = "interpreter" /\ parent.policy = Strict
                                    /\ child.grants \cap Interpreters # {}
             \/ why = "deadline" /\ parent.deadline # NoDeadline
                                 /\ child.deadline # NoDeadline
                                 /\ child.deadline > parent.deadline
             \/ why = "proof"    /\ NeedsProof(parent, child) /\ ~finishes }

EdgeOk(parent, child, finishes) == EdgeReasons(parent, child, finishes) = {}
=============================================================================
