---------------------------- MODULE MCTreeLedger ----------------------------
(***************************************************************************)
(* Small instances of TreeLedger.                                          *)
(***************************************************************************)
EXTENDS TreeLedger, TLC

CONSTANTS s1, s2, s3, g1, g2, r1, r2   \* sessions, grants and rules

Env(grants, stakes, keeps, deadline) ==
    [grants |-> grants, stakes |-> stakes, policy |-> 1, keeps |-> keeps,
     deadline |-> deadline]

\* A root with both grants, a narrow child, one with no deadline of its own that
\* drops a rule, one that is wide but physical, and one beyond every root.
Wide     == Env({g1, g2}, 1, {r1}, 5)
Narrow   == Env({g1}, 1, {r1, r2}, NoDeadline)
Heavy    == Env({g1, g2}, 3, {r1}, 4)

Slim     == Env({g1}, 1, {}, NoDeadline)
AuthorityRoots == {Wide, Slim}
OneEnvelope == {Wide}
AuthorityProposals == {Wide, Narrow, Heavy}
Amounts == {1, 2, NoCount}
Uses == {1, NoCount}
Unlimited == {NoCount}

\* The operator's sessions are alike, and so are the others.
Symmetry == {f @@ h : f \in Permutations(Founders),
                      h \in Permutations(Sessions \ Founders)}
=============================================================================
