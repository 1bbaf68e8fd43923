-------------------------- MODULE TreeLedgerProofs --------------------------
(***************************************************************************)
(* Theorems of EdgeRule and TreeLedger, for every set of sessions and      *)
(* envelopes, every bound and every set of faults.                         *)
(***************************************************************************)
EXTENDS TreeLedger, FiniteSetTheorems, TLAPS

-----------------------------------------------------------------------------
(* The edge rule keeps an order, so authority cannot grow along a branch.  *)

\* A root lies inside itself.
LEMMA CoversIsReflexive ==
    ASSUME NEW e \in Envelope
    PROVE  Covers(e, e)
  BY EdgeAssumption DEF Covers, Envelope, Stakes, Policies, NoLater

\* The step of the induction of the yellow paper, section 5.5: what lies inside a
\* child lies inside its parent.
LEMMA CoversIsTransitive ==
    ASSUME NEW x \in Envelope, NEW y \in Envelope, NEW z \in Envelope,
           Covers(x, y), Covers(y, z)
    PROVE  Covers(x, z)
<1>1. z.grants \subseteq x.grants /\ x.keeps \subseteq z.keeps
  BY DEF Covers
<1>2. z.stakes >= x.stakes /\ z.policy <= x.policy
  BY DEF Covers, Envelope, Stakes, Policies
<1>3. NoLater(z.deadline, x.deadline)
  <2>1. NoLater(z.deadline, y.deadline) /\ NoLater(y.deadline, x.deadline)
    BY DEF Covers
  <2>2. /\ x.deadline \in Nat \cup {NoDeadline}
        /\ y.deadline \in Nat \cup {NoDeadline}
        /\ z.deadline \in Nat \cup {NoDeadline}
    BY DEF Envelope
  <2> QED
    BY <2>1, <2>2 DEF NoLater
<1> QED
  BY <1>1, <1>2, <1>3 DEF Covers

\* A child that takes its parent's deadline is still an envelope.
LEMMA EffectiveIsEnvelope ==
    ASSUME NEW parent \in Envelope, NEW child \in Envelope
    PROVE  Effective(parent, child) \in Envelope
  BY DEF Effective, Envelope

\* An edge with no reason against it names a parent, since a missing envelope is
\* a reason of its own.
LEMMA EdgeNeedsParent ==
    ASSUME NEW parent, NEW child, NEW finishes, EdgeOk(parent, child, finishes)
    PROVE  parent # NoEnvelope
  BY DEF EdgeOk, EdgeReasons, Reasons

\* What edge_ok lets through, as it registers, lies inside the parent: the rule
\* is sound, whether or not the solver had to be asked.
THEOREM EdgeIsSound ==
    ASSUME NEW parent \in Envelope, NEW child \in Envelope, NEW finishes,
           EdgeOk(parent, child, finishes)
    PROVE  Covers(parent, Effective(parent, child))
<1>1. parent # NoEnvelope
  BY EdgeNeedsParent
<1>2. /\ ~(child.stakes < parent.stakes)
      /\ ~(child.policy > parent.policy)
      /\ child.grants \subseteq parent.grants
      /\ parent.keeps \subseteq child.keeps
      /\ ~(/\ parent.deadline # NoDeadline
           /\ child.deadline # NoDeadline
           /\ child.deadline > parent.deadline)
  BY <1>1 DEF EdgeOk, EdgeReasons, Reasons
<1>3. /\ Effective(parent, child).grants = child.grants
      /\ Effective(parent, child).stakes = child.stakes
      /\ Effective(parent, child).policy = child.policy
      /\ Effective(parent, child).keeps = child.keeps
      /\ Effective(parent, child).deadline =
            IF child.deadline = NoDeadline THEN parent.deadline
            ELSE child.deadline
  BY DEF Effective, Envelope
<1>4. NoLater(Effective(parent, child).deadline, parent.deadline)
  BY <1>2, <1>3, EdgeAssumption DEF NoLater, Envelope
<1> QED
  BY <1>2, <1>3, <1>4 DEF Covers, Envelope, Stakes, Policies

\* ... and it refuses nothing that lies inside the parent, except for a proof that
\* does not finish, a rule that cannot be proved and an interpreter under a strict
\* parent.
THEOREM EdgeIsExact ==
    ASSUME NEW parent \in Envelope, NEW child \in Envelope,
           Covers(parent, Effective(parent, child)),
           child.keeps \cap OpaqueRules = {},
           parent.policy = Strict => child.grants \cap Interpreters = {}
    PROVE  EdgeOk(parent, child, TRUE)
<1>1. parent # NoEnvelope
  BY NoEnvelopeAssumption
<1>2. /\ Effective(parent, child).grants = child.grants
      /\ Effective(parent, child).stakes = child.stakes
      /\ Effective(parent, child).policy = child.policy
      /\ Effective(parent, child).keeps = child.keeps
      /\ child.deadline # NoDeadline =>
            Effective(parent, child).deadline = child.deadline
  BY DEF Effective, Envelope
<1>3. /\ ~(child.stakes < parent.stakes)
      /\ ~(child.policy > parent.policy)
      /\ child.grants \subseteq parent.grants
      /\ parent.keeps \subseteq child.keeps
  BY <1>2 DEF Covers, Envelope, Stakes, Policies
<1>4. ~(/\ parent.deadline # NoDeadline
        /\ child.deadline # NoDeadline
        /\ child.deadline > parent.deadline)
  BY <1>2, EdgeAssumption DEF Covers, NoLater, Envelope
<1> QED
  BY <1>1, <1>3, <1>4 DEF EdgeOk, EdgeReasons, Reasons

-----------------------------------------------------------------------------
(* What the rows do to the fields of the tree.                             *)

LEMMA NewNodeFields ==
    ASSUME NEW t \in Tree, NEW s \in Sessions, NEW e \in Envelope,
           NEW p \in Sessions \cup {NoSession}, NEW r \in Sessions,
           NEW tokens \in MaybeCount, NEW pr \in BOOLEAN
    PROVE  LET u == NewNode(t, s, p, r, e, tokens, pr)
           IN  /\ u \in Tree
               /\ u.state = [t.state EXCEPT ![s] = "running"]
               /\ u.parent = [t.parent EXCEPT ![s] = p]
               /\ u.root = [t.root EXCEPT ![s] = r]
               /\ u.env = [t.env EXCEPT ![s] = e]
               /\ u.proved = [t.proved EXCEPT ![s] = pr]
               /\ u.asks = t.asks
               /\ u.answers = t.answers
  BY DEF Tree, NewNode

\* A row of an ended or unknown session, or under one, changes nothing.
LEMMA SpawnRowFields ==
    ASSUME NEW t \in Tree, NEW s \in Sessions, NEW p \in Sessions,
           NEW e \in Envelope, NEW tokens \in MaybeCount, NEW pr \in BOOLEAN,
           NEW own \in MaybeCount
    PROVE  LET u == SpawnRow(t, p, s, e, tokens, pr, own)
           IN  /\ u \in Tree
               /\ u.asks = t.asks
               /\ u.answers = t.answers
               /\ IsNode(t, s) \/ ~Running(t, p) => u = t
               /\ ~IsNode(t, s) /\ Running(t, p) =>
                     /\ u.state = [t.state EXCEPT ![s] = "running"]
                     /\ u.parent = [t.parent EXCEPT ![s] = p]
                     /\ u.root = [t.root EXCEPT ![s] = t.root[p]]
                     /\ u.env = [t.env EXCEPT ![s] = e]
                     /\ u.proved = [t.proved EXCEPT ![s] = pr]
<1> DEFINE n == NewNode(t, s, p, t.root[p], e, tokens, pr)
           u == SpawnRow(t, p, s, e, tokens, pr, own)
<1>1. CASE IsNode(t, s) \/ ~Running(t, p)
  BY <1>1 DEF SpawnRow
<1>2. CASE ~IsNode(t, s) /\ Running(t, p)
  <2>1. t.root[p] \in Sessions
    BY DEF Tree
  <2>2. /\ n \in Tree
        /\ n.state = [t.state EXCEPT ![s] = "running"]
        /\ n.parent = [t.parent EXCEPT ![s] = p]
        /\ n.root = [t.root EXCEPT ![s] = t.root[p]]
        /\ n.env = [t.env EXCEPT ![s] = e]
        /\ n.proved = [t.proved EXCEPT ![s] = pr]
        /\ n.asks = t.asks
        /\ n.answers = t.answers
    BY <2>1, NewNodeFields, SMTT(40)
  <2>3. u = [n EXCEPT !.refused[p] = 0,
                      !.own[p] = IF own = NoCount THEN @ ELSE own]
    BY <1>2 DEF SpawnRow
  <2> HIDE DEF n
  <2> DEFINE o == IF own = NoCount THEN n.own[p] ELSE own
  <2>5. o \in MaybeCount
    BY <2>2 DEF Tree
  <2>6. u = [n EXCEPT !.refused[p] = 0, !.own[p] = o]
    BY <2>2, <2>3 DEF Tree
  <2> HIDE DEF o, u
  <2>4. /\ u \in Tree
        /\ u.state = n.state /\ u.parent = n.parent /\ u.root = n.root
        /\ u.env = n.env /\ u.proved = n.proved
        /\ u.asks = n.asks /\ u.answers = n.answers
    BY <2>2, <2>5, <2>6 DEF Tree
  <2> USE DEF u
  <2> QED
    BY <1>2, <2>2, <2>4
<1> QED
  BY <1>1, <1>2

\* The rows that start and end nobody leave who runs, under whom and with what.
SameShape(t, u) ==
    /\ u.state = t.state
    /\ u.parent = t.parent
    /\ u.root = t.root
    /\ u.env = t.env
    /\ u.proved = t.proved

LEMMA OtherRowFields ==
    ASSUME NEW t \in Tree
    PROVE  /\ \A p \in Sessions : /\ RefusedRow(t, p) \in Tree
                                  /\ SameShape(t, RefusedRow(t, p))
                                  /\ RefusedRow(t, p).asks = t.asks
           /\ \A a \in Ask : /\ AskRow(t, a) \in Tree
                             /\ SameShape(t, AskRow(t, a))
                             /\ AskRow(t, a).asks \in {t.asks, t.asks \cup {a}}
           /\ \A a \in Ask, v \in {"allow", "deny"} :
                 /\ AnswerRow(t, a, v) \in Tree
                 /\ SameShape(t, AnswerRow(t, a, v))
                 /\ AnswerRow(t, a, v).asks = t.asks
<1>1. ASSUME NEW p \in Sessions
      PROVE  /\ RefusedRow(t, p) \in Tree
             /\ SameShape(t, RefusedRow(t, p))
             /\ RefusedRow(t, p).asks = t.asks
  BY SMTT(40) DEF Tree, RefusedRow, SameShape
<1>2. ASSUME NEW a \in Ask
      PROVE  /\ AskRow(t, a) \in Tree
             /\ SameShape(t, AskRow(t, a))
             /\ AskRow(t, a).asks \in {t.asks, t.asks \cup {a}}
  BY DEF Tree, AskRow, SameShape
<1>3. ASSUME NEW a \in Ask, NEW v \in {"allow", "deny"}
      PROVE  /\ AnswerRow(t, a, v) \in Tree
             /\ SameShape(t, AnswerRow(t, a, v))
             /\ AnswerRow(t, a, v).asks = t.asks
  <2>1. a.parent \in Sessions /\ <<a, v>> \in Ask \X {"allow", "deny"}
    BY DEF Ask
  <2>2. CASE a \notin t.asks \/ Answered(t, a)
    BY <2>2 DEF AnswerRow, SameShape
  <2>3. CASE ~(a \notin t.asks \/ Answered(t, a))
    <3> DEFINE X == Ask \X {"allow", "deny"}
               A == t.answers \cup {<<a, v>>}
               R == [t.refused EXCEPT ![a.parent] = 0]
    <3>1. AnswerRow(t, a, v) = [t EXCEPT !.answers = A, !.refused = R]
      BY <2>1, <2>3 DEF AnswerRow, Tree
    <3>2. A \in SUBSET X
      BY <2>1 DEF Tree
    <3>3. R \in [Sessions -> Nat]
      BY <2>1 DEF Tree
    <3> HIDE DEF A, R, X
    <3>4. /\ AnswerRow(t, a, v).answers = A
          /\ AnswerRow(t, a, v).refused = R
          /\ AnswerRow(t, a, v).asks = t.asks
          /\ SameShape(t, AnswerRow(t, a, v))
      BY <3>1 DEF Tree, SameShape
    <3> QED
      BY <3>1, <3>2, <3>3, <3>4 DEF Tree, X
  <2> QED
    BY <2>2, <2>3
<1> QED
  BY <1>1, <1>2, <1>3

LEMMA EndRowFields ==
    ASSUME NEW t \in Tree, NEW s \in Sessions, NEW used \in MaybeCount
    PROVE  LET u == EndRow(t, s, used)
           IN  /\ u \in Tree
               /\ u.state = IF Running(t, s) THEN [t.state EXCEPT ![s] = "ended"]
                            ELSE t.state
               /\ u.parent = t.parent /\ u.root = t.root /\ u.env = t.env
               /\ u.proved = t.proved /\ u.asks = t.asks
  BY DEF Tree, EndRow, Running

-----------------------------------------------------------------------------
(* The inductive invariant.                                                *)

\* What every tree that read_tree returns has: parents and roots are nodes, a
\* running child has a running parent, nobody starts under physical stakes, and
\* what a node was given lies inside its root's and, if proved, its parent's.
Sound(t) ==
    \A s \in Sessions :
        LET p == t.parent[s]
        IN  /\ ~IsNode(t, s) => p = NoSession /\ t.proved[s]
            /\ IsNode(t, s) => /\ t.env[s] \in Envelope
                               /\ IsNode(t, t.root[s])
                               /\ Covers(t.env[t.root[s]], t.env[s])
            /\ p = NoSession => t.root[s] = s
            /\ p # NoSession => /\ IsNode(t, p)
                                /\ t.root[s] = t.root[p]
                                /\ Running(t, s) => Running(t, p)
                                /\ t.env[p].stakes # Physical
                                /\ t.proved[s] => Covers(t.env[p], t.env[s])

\* The lock holder's file goes to a session that runs with that envelope or, when
\* its row was lost, to one that is nothing and has no file.
HeldIsDue ==
    holder # Nobody /\ holder.op = "register" =>
        LET s == holder.session
        IN  /\ holder.env \in Envelope /\ holder.top \in Envelope
            /\ Covers(holder.top, holder.env)
            /\ \/ Running(tree, s) /\ tree.env[s] = holder.env
               \/ ~IsNode(tree, s) /\ file[s] = Absent

\* A node's file holds what the node was given.
FileIsGrant ==
    \A s \in Sessions :
        IsNode(tree, s) /\ Lookup(s) # NoEnvelope => Lookup(s) = tree.env[s]

OriginKnown ==
    \A s \in Sessions : Lookup(s) # NoEnvelope => origin[s] \in Envelope

IInv ==
    /\ TypeOK
    /\ IsFiniteSet(tree.asks)
    /\ Sound(tree)
    /\ HeldIsDue
    /\ FileIsGrant
    /\ OriginKnown
    /\ WithinRoot

-----------------------------------------------------------------------------
(* The rows keep a tree sound.                                             *)

LEMMA EmptyTreeIsSound ==
    EmptyTree \in Tree /\ Sound(EmptyTree)
  BY TreeAssumption
     DEF EmptyTree, Tree, Sound, IsNode, Running, MaybeCount

LEMMA SameShapeIsSound ==
    ASSUME NEW t \in Tree, NEW u \in Tree, SameShape(t, u), Sound(t)
    PROVE  Sound(u)
  BY DEF SameShape, Sound, IsNode, Running

LEMMA RootRowIsSound ==
    ASSUME NEW t \in Tree, Sound(t), NEW s \in Sessions, NEW e \in Envelope,
           NEW tokens \in MaybeCount, ~IsNode(t, s)
    PROVE  LET u == RootRow(t, s, e, tokens)
           IN  /\ u \in Tree /\ Sound(u) /\ u.asks = t.asks
               /\ u.state = [t.state EXCEPT ![s] = "running"]
               /\ u.parent = [t.parent EXCEPT ![s] = NoSession]
               /\ u.root = [t.root EXCEPT ![s] = s]
               /\ u.env = [t.env EXCEPT ![s] = e]
               /\ u.proved = [t.proved EXCEPT ![s] = TRUE]
<1> DEFINE u == RootRow(t, s, e, tokens)
<1>1. /\ u \in Tree
      /\ u.state = [t.state EXCEPT ![s] = "running"]
      /\ u.parent = [t.parent EXCEPT ![s] = NoSession]
      /\ u.root = [t.root EXCEPT ![s] = s]
      /\ u.env = [t.env EXCEPT ![s] = e]
      /\ u.proved = [t.proved EXCEPT ![s] = TRUE]
      /\ u.asks = t.asks
  <2>1. PICK p \in Sessions \cup {NoSession}, pr \in BOOLEAN :
          p = NoSession /\ pr = TRUE
    OBVIOUS
  <2> DEFINE n == NewNode(t, s, p, s, e, tokens, pr)
  <2>2. /\ n \in Tree
        /\ n.state = [t.state EXCEPT ![s] = "running"]
        /\ n.parent = [t.parent EXCEPT ![s] = p]
        /\ n.root = [t.root EXCEPT ![s] = s]
        /\ n.env = [t.env EXCEPT ![s] = e]
        /\ n.proved = [t.proved EXCEPT ![s] = pr]
        /\ n.asks = t.asks
    BY NewNodeFields
  <2>3. u = n
    BY <2>1 DEF RootRow
  <2> HIDE DEF n, u
  <2> QED
    BY <2>1, <2>2, <2>3
<1> HIDE DEF u
<1>2. Covers(e, e)
  BY CoversIsReflexive
<1>3. Sound(u)
  <2>1. SUFFICES ASSUME NEW c \in Sessions
                 PROVE  LET q == u.parent[c]
                        IN  /\ ~IsNode(u, c) => q = NoSession /\ u.proved[c]
                            /\ IsNode(u, c) => /\ u.env[c] \in Envelope
                                               /\ IsNode(u, u.root[c])
                                               /\ Covers(u.env[u.root[c]], u.env[c])
                            /\ q = NoSession => u.root[c] = c
                            /\ q # NoSession =>
                                  /\ IsNode(u, q)
                                  /\ u.root[c] = u.root[q]
                                  /\ Running(u, c) => Running(u, q)
                                  /\ u.env[q].stakes # Physical
                                  /\ u.proved[c] => Covers(u.env[q], u.env[c])
    BY DEF Sound
  <2>2. CASE c = s
    BY <1>1, <1>2, <2>2 DEF IsNode, Running, Tree
  <2>3. CASE c # s
    <3>1. /\ u.state[c] = t.state[c] /\ u.parent[c] = t.parent[c]
          /\ u.root[c] = t.root[c] /\ u.env[c] = t.env[c]
          /\ u.proved[c] = t.proved[c]
      BY <1>1, <2>3 DEF Tree
    <3>2. t.parent[c] # s /\ (IsNode(t, c) => t.root[c] # s)
      BY TreeAssumption DEF Sound, Tree
    <3>3. \A q \in Sessions : q # s => /\ u.state[q] = t.state[q]
                                      /\ u.root[q] = t.root[q]
                                      /\ u.env[q] = t.env[q]
      BY <1>1 DEF Tree
    <3>4. t.root[c] \in Sessions /\ t.parent[c] \in Sessions \cup {NoSession}
      BY DEF Tree
    <3> QED
      BY <3>1, <3>2, <3>3, <3>4 DEF Sound, IsNode, Running
  <2> QED
    BY <2>2, <2>3
<1> QED
  BY <1>1, <1>3 DEF u

LEMMA SpawnRowIsSound ==
    ASSUME NEW t \in Tree, Sound(t), NEW s \in Sessions, NEW p \in Sessions,
           NEW e \in Envelope, NEW tokens \in MaybeCount, NEW pr \in BOOLEAN,
           NEW own \in MaybeCount,
           ~IsNode(t, s), Running(t, p), t.env[p].stakes # Physical,
           Covers(t.env[t.root[p]], e), pr => Covers(t.env[p], e)
    PROVE  LET u == SpawnRow(t, p, s, e, tokens, pr, own)
           IN  /\ u \in Tree /\ Sound(u) /\ u.asks = t.asks
               /\ u.state = [t.state EXCEPT ![s] = "running"]
               /\ u.parent = [t.parent EXCEPT ![s] = p]
               /\ u.root = [t.root EXCEPT ![s] = t.root[p]]
               /\ u.env = [t.env EXCEPT ![s] = e]
               /\ u.proved = [t.proved EXCEPT ![s] = pr]
<1> DEFINE u == SpawnRow(t, p, s, e, tokens, pr, own)
<1>1. /\ u \in Tree
      /\ u.state = [t.state EXCEPT ![s] = "running"]
      /\ u.parent = [t.parent EXCEPT ![s] = p]
      /\ u.root = [t.root EXCEPT ![s] = t.root[p]]
      /\ u.env = [t.env EXCEPT ![s] = e]
      /\ u.proved = [t.proved EXCEPT ![s] = pr]
      /\ u.asks = t.asks
  BY SpawnRowFields
<1> HIDE DEF u
<1>2. s # p /\ t.root[p] # s /\ IsNode(t, p)
  BY DEF Sound, IsNode, Running
<1>3. Sound(u)
  <2>1. SUFFICES ASSUME NEW c \in Sessions
                 PROVE  LET q == u.parent[c]
                        IN  /\ ~IsNode(u, c) => q = NoSession /\ u.proved[c]
                            /\ IsNode(u, c) => /\ u.env[c] \in Envelope
                                               /\ IsNode(u, u.root[c])
                                               /\ Covers(u.env[u.root[c]], u.env[c])
                            /\ q = NoSession => u.root[c] = c
                            /\ q # NoSession =>
                                  /\ IsNode(u, q)
                                  /\ u.root[c] = u.root[q]
                                  /\ Running(u, c) => Running(u, q)
                                  /\ u.env[q].stakes # Physical
                                  /\ u.proved[c] => Covers(u.env[q], u.env[c])
    BY DEF Sound
  <2>2. CASE c = s
    BY <1>1, <1>2, <2>2, TreeAssumption DEF Sound, IsNode, Running, Tree
  <2>3. CASE c # s
    <3>1. /\ u.state[c] = t.state[c] /\ u.parent[c] = t.parent[c]
          /\ u.root[c] = t.root[c] /\ u.env[c] = t.env[c]
          /\ u.proved[c] = t.proved[c]
      BY <1>1, <2>3 DEF Tree
    <3>2. t.parent[c] # s /\ (IsNode(t, c) => t.root[c] # s)
      BY TreeAssumption DEF Sound, Tree
    <3>3. \A q \in Sessions : q # s => /\ u.state[q] = t.state[q]
                                      /\ u.root[q] = t.root[q]
                                      /\ u.env[q] = t.env[q]
      BY <1>1 DEF Tree
    <3>4. t.root[c] \in Sessions /\ t.parent[c] \in Sessions \cup {NoSession}
      BY DEF Tree
    <3> QED
      BY <3>1, <3>2, <3>3, <3>4 DEF Sound, IsNode, Running
  <2> QED
    BY <2>2, <2>3
<1> QED
  BY <1>1, <1>3 DEF u

LEMMA EndRowIsSound ==
    ASSUME NEW t \in Tree, Sound(t), NEW s \in Sessions,
           NEW used \in MaybeCount, Running(t, s),
           \A c \in Children(t, s) : ~Running(t, c)
    PROVE  Sound(EndRow(t, s, used))
<1> DEFINE u == EndRow(t, s, used)
<1>1. /\ u \in Tree
      /\ u.state = [t.state EXCEPT ![s] = "ended"]
      /\ u.parent = t.parent /\ u.root = t.root /\ u.env = t.env
      /\ u.proved = t.proved
  BY EndRowFields
<1> HIDE DEF u
<1>2. \A c \in Sessions : t.parent[c] = s => ~Running(t, c)
  BY DEF Children, IsNode, Running
<1>3. \A c \in Sessions : /\ IsNode(u, c) <=> IsNode(t, c)
                          /\ Running(u, c) <=> Running(t, c) /\ c # s
  BY <1>1 DEF IsNode, Running, Tree
<1>4. \A c \in Sessions : /\ t.root[c] \in Sessions
                          /\ t.parent[c] \in Sessions \cup {NoSession}
  BY DEF Tree
<1>5. Sound(u)
  BY <1>1, <1>2, <1>3, <1>4 DEF Sound
<1> QED
  BY <1>5 DEF u

-----------------------------------------------------------------------------
(* The kinds of steps.                                                     *)

\* An envelope the gate reads is an envelope, and the file itself.
LEMMA LookupFacts ==
    ASSUME TypeOK, NEW s \in Sessions
    PROVE  /\ file[s] = Absent => Lookup(s) = NoEnvelope
           /\ Lookup(s) # NoEnvelope => Lookup(s) \in Envelope /\ Lookup(s) = file[s]
  BY LedgerAssumption DEF TypeOK, Lookup

\* An append that is lost leaves the tree, and marks the session.
LEMMA AppendFacts ==
    ASSUME TypeOK, NEW u \in Tree, NEW s \in Sessions, Append(u, s)
    PROVE  /\ tree' \in {tree, u}
           /\ tree' \in Tree
           /\ torn' \in BOOLEAN
           /\ lost' \in SUBSET Sessions
  BY DEF TypeOK, Append

\* The file of a session and what the command at work will do are untouched by a
\* step that starts and ends nobody.
LEMMA SameShapeStep ==
    ASSUME IInv, tree' \in Tree, SameShape(tree, tree'), IsFiniteSet(tree'.asks),
           UNCHANGED <<file, holder, origin>>,
           torn' \in BOOLEAN, claims' \in SUBSET Claim,
           hit' \in SUBSET Sessions, lost' \in SUBSET Sessions
    PROVE  IInv'
<1>1. TypeOK'
  BY DEF IInv, TypeOK
<1>2. Sound(tree)'
  <2>1. Sound(tree) /\ tree \in Tree
    BY DEF IInv, TypeOK
  <2> QED
    BY <2>1, SameShapeIsSound
<1>3. HeldIsDue' /\ FileIsGrant' /\ OriginKnown' /\ WithinRoot'
  BY DEF IInv, HeldIsDue, FileIsGrant, OriginKnown, WithinRoot, SameShape,
         Lookup, IsNode, Running
<1> QED
  BY <1>1, <1>2, <1>3 DEF IInv

\* A step that starts s, or whose row is lost, keeps the invariant as long as the
\* file to be written holds what s was given and lies inside its root.
LEMMA StartStep ==
    ASSUME IInv, NEW s \in Sessions, NEW e \in Envelope, NEW top \in Envelope,
           NEW tells \in SUBSET Claim, Free(s), Covers(top, e),
           tree' \in Tree, Sound(tree)', IsFiniteSet(tree'.asks),
           \/ tree'.state = tree.state /\ tree'.env = tree.env
           \/ /\ tree'.state = [tree.state EXCEPT ![s] = "running"]
              /\ tree'.env = [tree.env EXCEPT ![s] = e],
           holder' = Registering(s, e, top, tells),
           UNCHANGED <<file, origin, claims, hit>>,
           torn' \in BOOLEAN, lost' \in SUBSET Sessions
    PROVE  IInv'
<1>1. TypeOK'
  <2>1. holder' \in Pending
    BY DEF Registering, Pending, MaybeEnvelope
  <2> QED
    BY <2>1 DEF IInv, TypeOK
<1>2. HeldIsDue'
  <2>1. /\ holder'.op = "register" /\ holder'.session = s
        /\ holder'.env = e /\ holder'.top = top
    BY DEF Registering
  <2>2. ~IsNode(tree, s) /\ file[s] = Absent
    BY DEF Free
  <2>3. \/ ~IsNode(tree, s)'
        \/ Running(tree, s)' /\ tree'.env[s] = e
    BY <2>2 DEF IInv, TypeOK, Tree, IsNode, Running
  <2> QED
    BY <2>1, <2>2, <2>3 DEF HeldIsDue
<1>3. FileIsGrant' /\ OriginKnown' /\ WithinRoot'
  <2>1. \A c \in Sessions : Lookup(c)' = Lookup(c)
    BY DEF Lookup
  <2>2. Lookup(s) = NoEnvelope
    BY LookupFacts DEF IInv, Free
  <2>3. \A c \in Sessions : c # s => /\ IsNode(tree, c)' <=> IsNode(tree, c)
                                    /\ tree'.env[c] = tree.env[c]
    BY DEF IInv, TypeOK, Tree, IsNode
  <2> QED
    BY <2>1, <2>2, <2>3 DEF IInv, FileIsGrant, OriginKnown, WithinRoot
<1> QED
  BY <1>1, <1>2, <1>3 DEF IInv

\* A step of the file half, or a fault, touches one file at most, which is then
\* gone or holds what its node was given.
LEMMA FileStep ==
    ASSUME IInv, NEW s \in Sessions, NEW f \in Envelope \cup {Absent, Unreadable},
           NEW o \in MaybeEnvelope, UNCHANGED tree,
           file' = [file EXCEPT ![s] = f], origin' = [origin EXCEPT ![s] = o],
           f \in Envelope => /\ o \in Envelope /\ Covers(o, f)
                             /\ IsNode(tree, s) => tree.env[s] = f,
           holder' # Nobody =>
               /\ holder' = holder
               /\ f = Absent \/ IsNode(tree, s),
           holder' \in Pending \cup {Nobody},
           torn' \in BOOLEAN, claims' \in SUBSET Claim,
           hit' \in SUBSET Sessions, lost' \in SUBSET Sessions
    PROVE  IInv'
<1>1. TypeOK'
  BY DEF IInv, TypeOK
<1>2. HeldIsDue'
  <2>1. CASE holder' = Nobody
    BY <2>1 DEF HeldIsDue
  <2>2. CASE holder' # Nobody
    BY <2>2 DEF IInv, TypeOK, HeldIsDue, IsNode, Running, Pending
  <2> QED
    BY <2>1, <2>2
<1>3. FileIsGrant' /\ OriginKnown' /\ WithinRoot'
  <2>1. \A c \in Sessions : c # s => Lookup(c)' = Lookup(c) /\ origin'[c] = origin[c]
    BY DEF IInv, TypeOK, Lookup
  <2>2. /\ Lookup(s)' # NoEnvelope => f \in Envelope /\ Lookup(s)' = f
        /\ origin'[s] = o
    BY LedgerAssumption DEF IInv, TypeOK, Lookup
  <2> QED
    BY <2>1, <2>2 DEF IInv, FileIsGrant, OriginKnown, WithinRoot, IsNode
<1> QED
  BY <1>1, <1>2, <1>3 DEF IInv

-----------------------------------------------------------------------------
(* The steps.                                                              *)

LEMMA ClaimTypes ==
    ASSUME NEW s \in Sessions, NEW tokens \in MaybeCount
    PROVE  /\ \A p \in Sessions \cup {NoSession} : Started(s, p, tokens) \in Claim
           /\ Ended(s) \in Claim
           /\ \A a \in Ask, w \in {"asked", "allow", "deny"} : About(w, a) \in Claim
  BY DEF Claim, Started, Ended, About

\* What a running node was given, and its root.
LEMMA NodeFacts ==
    ASSUME IInv, NEW p \in Sessions, IsNode(tree, p)
    PROVE  /\ tree \in Tree
           /\ tree.root[p] \in Sessions
           /\ IsNode(tree, tree.root[p])
           /\ tree.env[p] \in Envelope
           /\ tree.env[tree.root[p]] \in Envelope
           /\ Covers(tree.env[tree.root[p]], tree.env[p])
           /\ Lookup(p) # NoEnvelope => Lookup(p) = tree.env[p]
           /\ Lookup(tree.root[p]) # NoEnvelope =>
                  Lookup(tree.root[p]) = tree.env[tree.root[p]]
<1>1. tree \in Tree /\ tree.root[p] \in Sessions
  BY DEF IInv, TypeOK, Tree
<1>2. /\ IsNode(tree, tree.root[p]) /\ tree.env[p] \in Envelope
      /\ Covers(tree.env[tree.root[p]], tree.env[p])
  BY DEF IInv, Sound
<1>3. tree.env[tree.root[p]] \in Envelope
  BY <1>1, <1>2 DEF IInv, Sound
<1> QED
  BY <1>1, <1>2, <1>3 DEF IInv, FileIsGrant

\* What a started child is given lies inside its parent and inside its root.
LEMMA ProvedChild ==
    ASSUME IInv, NEW p \in Sessions, NEW e \in Envelope, NEW tokens, NEW own,
           NEW finishes, Running(tree, p),
           SpawnReasons(p, e, tokens, own, finishes) = {}
    PROVE  LET child == Effective(Lookup(p), e)
           IN  /\ child \in Envelope
               /\ tree.env[p].stakes # Physical
               /\ Covers(tree.env[p], child)
               /\ Covers(tree.env[tree.root[p]], child)
<1>1. EdgeOk(Lookup(p), e, finishes) /\ ~(Lookup(p) # NoEnvelope /\ Lookup(p).stakes = Physical)
  BY DEF SpawnReasons, EdgeOk
<1>2. Lookup(p) # NoEnvelope
  BY <1>1, EdgeNeedsParent
<1>3. IsNode(tree, p)
  BY DEF IsNode, Running
<1>4. Lookup(p) = tree.env[p] /\ tree.env[p] \in Envelope
  BY <1>2, <1>3, NodeFacts
<1>5. Covers(tree.env[p], Effective(tree.env[p], e)) /\ Effective(tree.env[p], e) \in Envelope
  BY <1>1, <1>4, EdgeIsSound, EffectiveIsEnvelope
<1>6. Covers(tree.env[tree.root[p]], Effective(tree.env[p], e))
  BY <1>3, <1>4, <1>5, NodeFacts, CoversIsTransitive
<1> QED
  BY <1>1, <1>2, <1>4, <1>5, <1>6

\* What an allowed child is given lies inside its root, and its parent is not
\* physical even when its file is gone: then the parent is the root, whose file
\* the allow needs.
LEMMA AllowedChild ==
    ASSUME IInv, NEW a \in Ask, NEW finishes, MayAllow(a, finishes)
    PROVE  LET p == a.parent
               child == Effective(Lookup(tree.root[p]), a.envelope)
           IN  /\ p \in Sessions /\ a.session \in Sessions
               /\ a.envelope \in Envelope /\ a.tokens \in MaybeCount
               /\ child \in Envelope
               /\ tree.env[p].stakes # Physical
               /\ Covers(tree.env[tree.root[p]], child)
<1> DEFINE p == a.parent
           top == tree.root[p]
<1>1. /\ p \in Sessions /\ a.session \in Sessions
      /\ a.envelope \in Envelope /\ a.tokens \in MaybeCount
  BY DEF Ask
<1>2. /\ Running(tree, p)
      /\ Lookup(p) # NoEnvelope => Lookup(p).stakes # Physical
      /\ Lookup(p) # NoEnvelope \/ p = top
      /\ EdgeOk(Lookup(top), a.envelope, finishes)
  BY DEF MayAllow, ParentLets
<1>3. Lookup(top) # NoEnvelope
  BY <1>2, EdgeNeedsParent
<1>4. IsNode(tree, p)
  BY <1>2 DEF IsNode, Running
<1>5. Lookup(top) = tree.env[top] /\ tree.env[top] \in Envelope
  BY <1>1, <1>3, <1>4, NodeFacts
<1>6. tree.env[p].stakes # Physical
  BY <1>1, <1>2, <1>3, <1>4, NodeFacts
<1>7. /\ Covers(tree.env[top], Effective(tree.env[top], a.envelope))
      /\ Effective(tree.env[top], a.envelope) \in Envelope
  BY <1>1, <1>2, <1>5, EdgeIsSound, EffectiveIsEnvelope
<1> QED
  BY <1>1, <1>5, <1>6, <1>7

LEMMA MakeRootStep ==
    ASSUME IInv, NEW s \in Sessions, NEW e \in Envelope, NEW tokens \in MaybeCount,
           MakeRoot(s, e, tokens)
    PROVE  IInv'
<1> DEFINE u == RootRow(tree, s, e, tokens)
<1>1. /\ Free(s) /\ ~IsNode(tree, s) /\ tree \in Tree /\ Sound(tree)
      /\ IsFiniteSet(tree.asks)
  BY DEF MakeRoot, Free, IInv, TypeOK
<1>2. /\ u \in Tree /\ Sound(u) /\ u.asks = tree.asks
      /\ u.state = [tree.state EXCEPT ![s] = "running"]
      /\ u.parent = [tree.parent EXCEPT ![s] = NoSession]
      /\ u.root = [tree.root EXCEPT ![s] = s]
      /\ u.env = [tree.env EXCEPT ![s] = e]
      /\ u.proved = [tree.proved EXCEPT ![s] = TRUE]
  BY <1>1, RootRowIsSound, SMTT(60)
<1>3. Append(u, s)
  BY DEF MakeRoot
<1> HIDE DEF u
<1>4. /\ tree' \in {tree, u} /\ tree' \in Tree
      /\ torn' \in BOOLEAN /\ lost' \in SUBSET Sessions
  BY <1>2, <1>3, AppendFacts DEF IInv
<1>5. Sound(tree)' /\ IsFiniteSet(tree'.asks)
  BY <1>1, <1>2, <1>4
<1>6. /\ {Started(s, NoSession, tokens)} \in SUBSET Claim
      /\ Covers(e, e)
  BY ClaimTypes, CoversIsReflexive
<1>7. /\ holder' = Registering(s, e, e, {Started(s, NoSession, tokens)})
      /\ UNCHANGED <<file, origin, claims, hit>>
  BY DEF MakeRoot
<1>8. \/ tree'.state = tree.state /\ tree'.env = tree.env
      \/ /\ tree'.state = [tree.state EXCEPT ![s] = "running"]
         /\ tree'.env = [tree.env EXCEPT ![s] = e]
  BY <1>2, <1>4
<1> QED
  BY <1>1, <1>4, <1>5, <1>6, <1>7, <1>8, StartStep

LEMMA SpawnStartedStep ==
    ASSUME IInv, NEW p \in Sessions, NEW s \in Sessions, NEW e \in Envelope,
           NEW tokens \in MaybeCount, NEW own \in MaybeCount, NEW finishes,
           SpawnStarted(p, s, e, tokens, own, finishes)
    PROVE  IInv'
<1> DEFINE child == Effective(Lookup(p), e)
           u == SpawnRow(tree, p, s, child, tokens, TRUE, own)
           top == tree.env[tree.root[p]]
           told == {Started(s, p, tokens)}
<1>1. /\ Running(tree, p) /\ Free(s) /\ ~IsNode(tree, s) /\ IsNode(tree, p)
      /\ SpawnReasons(p, e, tokens, own, finishes) = {}
      /\ tree \in Tree /\ Sound(tree) /\ IsFiniteSet(tree.asks)
  BY DEF SpawnStarted, MaySpawn, Free, IInv, TypeOK, Running, IsNode
<1>2. /\ child \in Envelope
      /\ tree.env[p].stakes # Physical
      /\ Covers(tree.env[p], child)
      /\ Covers(top, child)
  BY <1>1, ProvedChild
<1>3. /\ Append(u, s)
      /\ holder' = Registering(s, child, top, told)
      /\ UNCHANGED <<file, origin, claims, hit>>
  BY DEF SpawnStarted
<1> HIDE DEF child
<1>4. PICK pr \in BOOLEAN : pr = TRUE
  OBVIOUS
<1> DEFINE v == SpawnRow(tree, p, s, child, tokens, pr, own)
<1>5. /\ v \in Tree /\ Sound(v) /\ v.asks = tree.asks
      /\ v.state = [tree.state EXCEPT ![s] = "running"]
      /\ v.parent = [tree.parent EXCEPT ![s] = p]
      /\ v.root = [tree.root EXCEPT ![s] = tree.root[p]]
      /\ v.env = [tree.env EXCEPT ![s] = child]
      /\ v.proved = [tree.proved EXCEPT ![s] = pr]
  BY <1>1, <1>2, SpawnRowIsSound
<1>7. u = v
  BY <1>4
<1>8. top \in Envelope
  BY <1>1, NodeFacts
<1>9. told \in SUBSET Claim
  BY ClaimTypes
<1> HIDE DEF u, v, top, told
<1>10. /\ tree' \in {tree, u} /\ tree' \in Tree
       /\ torn' \in BOOLEAN /\ lost' \in SUBSET Sessions
  BY <1>3, <1>5, <1>7, AppendFacts DEF IInv
<1>11. Sound(tree)' /\ IsFiniteSet(tree'.asks)
  BY <1>1, <1>5, <1>7, <1>10
<1>12. \/ tree'.state = tree.state /\ tree'.env = tree.env
       \/ /\ tree'.state = [tree.state EXCEPT ![s] = "running"]
          /\ tree'.env = [tree.env EXCEPT ![s] = child]
  BY <1>5, <1>7, <1>10
<1> QED
  BY <1>1, <1>2, <1>3, <1>8, <1>9, <1>10, <1>11, <1>12, StartStep

LEMMA AllowStep ==
    ASSUME IInv, NEW a \in Ask, NEW finishes, Allow(a, finishes)
    PROVE  IInv'
<1> DEFINE p == a.parent
           s == a.session
           child == Effective(Lookup(tree.root[p]), a.envelope)
           top == tree.env[tree.root[p]]
           t == IF torn THEN tree ELSE AnswerRow(tree, a, "allow")
           told == {Started(s, p, a.tokens), About("allow", a)}
<1>1. /\ Running(tree, p) /\ Free(s) /\ ~IsNode(tree, s) /\ IsNode(tree, p)
      /\ tree \in Tree /\ Sound(tree) /\ IsFiniteSet(tree.asks)
      /\ MayAllow(a, finishes)
  BY DEF Allow, MayAllow, Free, IInv, TypeOK, Running, IsNode
<1>2. /\ p \in Sessions /\ s \in Sessions
      /\ child \in Envelope /\ a.tokens \in MaybeCount
      /\ tree.env[p].stakes # Physical
      /\ Covers(top, child)
  BY <1>1, AllowedChild
<1>3. /\ tree' = SpawnRow(t, p, s, child, a.tokens, FALSE, NoCount)
      /\ holder' = Registering(s, child, top, told)
      /\ lost' = IF torn THEN lost \cup {s} ELSE lost
      /\ torn' = FALSE
      /\ UNCHANGED <<file, origin, claims, hit>>
  BY DEF Allow
<1>4. /\ t \in Tree /\ SameShape(tree, t) /\ t.asks = tree.asks
  BY <1>1, OtherRowFields DEF SameShape
<1>5. top \in Envelope
  BY <1>1, <1>2, NodeFacts
<1>6. told \in SUBSET Claim
  BY <1>2, ClaimTypes
<1> HIDE DEF child, t, told, top
<1>7. PICK pr \in BOOLEAN, own \in MaybeCount : pr = FALSE /\ own = NoCount
  BY DEF MaybeCount
<1> DEFINE v == SpawnRow(t, p, s, child, a.tokens, pr, own)
<1>8. /\ Running(t, p) /\ ~IsNode(t, s)
      /\ t.env = tree.env /\ t.state = tree.state /\ t.root = tree.root
  BY <1>1, <1>4 DEF SameShape, IsNode, Running
<1>10. Sound(t)
  BY <1>1, <1>4, SameShapeIsSound
<1>11. /\ v \in Tree /\ Sound(v) /\ v.asks = t.asks
       /\ v.state = [t.state EXCEPT ![s] = "running"]
       /\ v.parent = [t.parent EXCEPT ![s] = p]
       /\ v.root = [t.root EXCEPT ![s] = t.root[p]]
       /\ v.env = [t.env EXCEPT ![s] = child]
       /\ v.proved = [t.proved EXCEPT ![s] = pr]
  <2>1. /\ t.env[p].stakes # Physical
        /\ Covers(t.env[t.root[p]], child)
        /\ pr => Covers(t.env[p], child)
    BY <1>2, <1>7, <1>8 DEF top
  <2> QED
    <3> HIDE DEF p, s
    <3> QED
      BY <1>2, <1>4, <1>8, <1>10, <2>1, SpawnRowIsSound, SMTT(40)
<1>12. tree' = v
  BY <1>3, <1>7
<1> HIDE DEF v
<1>13. lost' \in SUBSET Sessions
  BY <1>2, <1>3 DEF IInv, TypeOK
<1>14. /\ tree' \in Tree /\ Sound(tree)' /\ IsFiniteSet(tree'.asks)
       /\ tree'.state = [tree.state EXCEPT ![s] = "running"]
       /\ tree'.env = [tree.env EXCEPT ![s] = child]
  BY <1>1, <1>4, <1>8, <1>11, <1>12
<1> QED
  BY <1>1, <1>2, <1>3, <1>5, <1>6, <1>13, <1>14, StartStep

LEMMA EndStep ==
    ASSUME IInv, NEW s \in Sessions, NEW own, End(s, own)
    PROVE  IInv'
<1>1. PICK used \in MaybeCount : Append(EndRow(tree, s, used), s)
  BY DEF End
<1> DEFINE u == EndRow(tree, s, used)
<1>2. /\ Running(tree, s) /\ \A c \in Children(tree, s) : ~Running(tree, c)
      /\ holder' = Unlinking(s) /\ UNCHANGED <<file, origin, claims, hit>>
      /\ tree \in Tree /\ Sound(tree) /\ IsFiniteSet(tree.asks)
  BY DEF End, Idle, IInv, TypeOK
<1>3. /\ u \in Tree
      /\ u.state = [tree.state EXCEPT ![s] = "ended"]
      /\ u.env = tree.env /\ u.asks = tree.asks
  BY <1>2, EndRowFields
<1>4. Sound(u)
  BY <1>2, EndRowIsSound
<1>5. /\ tree' \in {tree, u} /\ tree' \in Tree
      /\ torn' \in BOOLEAN /\ lost' \in SUBSET Sessions
  BY <1>1, <1>3, AppendFacts DEF IInv
<1> HIDE DEF u
<1>6. Sound(tree)' /\ IsFiniteSet(tree'.asks)
  BY <1>2, <1>3, <1>4, <1>5
<1>7. TypeOK'
  <2>1. holder' \in Pending
    BY <1>2, ClaimTypes DEF Unlinking, Pending, MaybeEnvelope, Claim, Ended
  <2> QED
    BY <1>2, <1>5, <2>1 DEF IInv, TypeOK
<1>8. HeldIsDue'
  BY <1>2 DEF HeldIsDue, Unlinking
<1>9. FileIsGrant' /\ OriginKnown' /\ WithinRoot'
  <2>1. \A c \in Sessions : /\ Lookup(c)' = Lookup(c)
                            /\ IsNode(tree, c)' <=> IsNode(tree, c)
                            /\ tree'.env[c] = tree.env[c]
    BY <1>2, <1>3, <1>5 DEF Lookup, IsNode, Running, Tree
  <2> QED
    BY <1>2, <2>1 DEF IInv, FileIsGrant, OriginKnown, WithinRoot
<1> QED
  BY <1>6, <1>7, <1>8, <1>9 DEF IInv

\* The rows that start and end nobody, and the write that is cut.
LEMMA OtherRowStep ==
    ASSUME IInv, NEW s \in Sessions, NEW u \in Tree, SameShape(tree, u),
           IsFiniteSet(u.asks), Append(u, s),
           UNCHANGED <<file, holder, origin, hit>>, claims' \in SUBSET Claim
    PROVE  IInv'
<1>1. /\ tree' \in {tree, u} /\ tree' \in Tree
      /\ torn' \in BOOLEAN /\ lost' \in SUBSET Sessions
  BY AppendFacts DEF IInv
<1>2. SameShape(tree, tree') /\ IsFiniteSet(tree'.asks) /\ hit' \in SUBSET Sessions
  BY <1>1 DEF IInv, TypeOK, SameShape
<1> QED
  BY <1>1, <1>2, SameShapeStep

LEMMA RefusedStep ==
    ASSUME IInv, NEW p \in Sessions, NEW s \in Sessions, NEW e, NEW tokens,
           NEW own, NEW finishes, SpawnRefused(p, s, e, tokens, own, finishes)
    PROVE  IInv'
<1> DEFINE u == RefusedRow(tree, p)
<1>1. /\ Append(u, s) /\ UNCHANGED <<file, holder, origin, claims, hit>>
      /\ tree \in Tree /\ IsFiniteSet(tree.asks) /\ claims \in SUBSET Claim
  BY DEF SpawnRefused, IInv, TypeOK
<1>2. u \in Tree /\ SameShape(tree, u) /\ u.asks = tree.asks
  BY <1>1, OtherRowFields
<1> HIDE DEF u
<1>3. IsFiniteSet(u.asks) /\ claims' \in SUBSET Claim
  BY <1>1, <1>2
<1> QED
  BY <1>1, <1>2, <1>3, OtherRowStep

LEMMA AskedStep ==
    ASSUME IInv, NEW p \in Sessions, NEW s \in Sessions, NEW e \in Envelope,
           NEW tokens \in MaybeCount, NEW own, NEW finishes,
           SpawnAsked(p, s, e, tokens, own, finishes)
    PROVE  IInv'
<1> DEFINE why == SpawnReasons(p, e, tokens, own, finishes)
           n == Cardinality(tree.asks)
           a == [parent |-> p, session |-> s, envelope |-> e, tokens |-> tokens,
                 n |-> n, reasons |-> why]
           u == AskRow(tree, a)
<1>1. /\ Append(u, s) /\ UNCHANGED <<file, holder, origin, hit>>
      /\ claims' = claims \cup {About("asked", a)}
      /\ tree \in Tree /\ IsFiniteSet(tree.asks) /\ claims \in SUBSET Claim
  BY DEF SpawnAsked, IInv, TypeOK
<1>2. why \in SUBSET (Reasons \cup {"physical", "budget"})
  <2>1. \A q, r, f : EdgeReasons(q, r, f) \subseteq Reasons
    BY DEF EdgeReasons, Reasons
  <2> QED
    BY <2>1 DEF SpawnReasons
<1>3. n \in Nat
  BY <1>1, FS_CardinalityType
<1> HIDE DEF why, n
<1>4. a \in Ask
  BY <1>2, <1>3 DEF Ask
<1> HIDE DEF a
<1>5. u \in Tree /\ SameShape(tree, u) /\ u.asks \in {tree.asks, tree.asks \cup {a}}
  BY <1>1, <1>4, OtherRowFields
<1> HIDE DEF u
<1>6. IsFiniteSet(u.asks)
  BY <1>1, <1>5, FS_AddElement
<1>7. claims' \in SUBSET Claim
  BY <1>1, <1>4, ClaimTypes DEF About, Claim
<1> QED
  BY <1>1, <1>5, <1>6, <1>7, OtherRowStep

LEMMA DenyStep ==
    ASSUME IInv, NEW a \in Ask, Deny(a)
    PROVE  IInv'
<1> DEFINE u == AnswerRow(tree, a, "deny")
<1>1. /\ Append(u, a.session) /\ UNCHANGED <<file, holder, origin, hit>>
      /\ claims' = claims \cup {About("deny", a)}
      /\ tree \in Tree /\ IsFiniteSet(tree.asks) /\ claims \in SUBSET Claim
      /\ a.session \in Sessions
  BY DEF Deny, IInv, TypeOK, Ask
<1>2. u \in Tree /\ SameShape(tree, u) /\ u.asks = tree.asks
  BY <1>1, OtherRowFields
<1> HIDE DEF u
<1>3. claims' \in SUBSET Claim
  BY <1>1 DEF About, Claim
<1> QED
  BY <1>1, <1>2, <1>3, OtherRowStep

LEMMA AllowCutStep ==
    ASSUME IInv, NEW a \in Ask, NEW finishes, AllowCut(a, finishes)
    PROVE  IInv'
<1> DEFINE u == AnswerRow(tree, a, "allow")
<1>1. /\ tree' = IF torn THEN tree ELSE u
      /\ UNCHANGED <<file, holder, origin, claims, hit>>
      /\ lost' = lost \cup {a.session} /\ torn' = TRUE
      /\ tree \in Tree /\ IsFiniteSet(tree.asks)
      /\ claims \in SUBSET Claim /\ hit \in SUBSET Sessions
      /\ lost \in SUBSET Sessions /\ a.session \in Sessions
  BY DEF AllowCut, IInv, TypeOK, Ask
<1>2. u \in Tree /\ SameShape(tree, u) /\ u.asks = tree.asks
  BY <1>1, OtherRowFields
<1> HIDE DEF u
<1>3. tree' \in Tree /\ SameShape(tree, tree') /\ IsFiniteSet(tree'.asks)
  BY <1>1, <1>2 DEF SameShape
<1> QED
  BY <1>1, <1>3, SameShapeStep

-----------------------------------------------------------------------------
(* The file half and the faults.                                           *)

LEMMA RegisterStep ==
    ASSUME IInv, Register
    PROVE  IInv'
<1>1. /\ holder \in Pending /\ holder.session \in Sessions
      /\ holder.env \in Envelope /\ holder.top \in Envelope
      /\ Covers(holder.top, holder.env)
      /\ IsNode(tree, holder.session) => tree.env[holder.session] = holder.env
      /\ holder.tells \in SUBSET Claim
  BY DEF Register, IInv, TypeOK, HeldIsDue, Pending
<1>2. holder.env \in Envelope \cup {Absent, Unreadable} /\ holder.top \in MaybeEnvelope
  BY <1>1 DEF MaybeEnvelope
<1>3. /\ file' = [file EXCEPT ![holder.session] = holder.env]
      /\ origin' = [origin EXCEPT ![holder.session] = holder.top]
      /\ claims' = claims \cup holder.tells /\ holder' = Nobody
      /\ UNCHANGED <<tree, torn, hit, lost>>
  BY DEF Register
<1>4. /\ torn' \in BOOLEAN /\ claims' \in SUBSET Claim
      /\ hit' \in SUBSET Sessions /\ lost' \in SUBSET Sessions
  BY <1>1, <1>3 DEF IInv, TypeOK
<1> QED
  BY <1>1, <1>2, <1>3, <1>4, FileStep

LEMMA UnlinkStep ==
    ASSUME IInv, Unlink
    PROVE  IInv'
<1> DEFINE s == holder.session
<1>1. /\ s \in Sessions /\ holder.tells \in SUBSET Claim
      /\ origin[s] \in MaybeEnvelope /\ origin' = [origin EXCEPT ![s] = origin[s]]
  BY DEF Unlink, IInv, TypeOK, Pending
<1>2. /\ file' = [file EXCEPT ![s] = Absent] /\ holder' = Nobody
      /\ claims' = claims \cup holder.tells
      /\ UNCHANGED <<tree, torn, hit, lost>>
  BY DEF Unlink
<1>3. /\ torn' \in BOOLEAN /\ claims' \in SUBSET Claim
      /\ hit' \in SUBSET Sessions /\ lost' \in SUBSET Sessions
  BY <1>1, <1>2 DEF IInv, TypeOK
<1> QED
  BY <1>1, <1>2, <1>3, LedgerAssumption, FileStep

\* The command gives up the lock, or leaves half a line; no file changes.
LEMMA GiveUpStep ==
    ASSUME IInv, UNCHANGED <<tree, file, origin>>, holder' \in {Nobody, holder},
           torn' \in BOOLEAN, claims' \in SUBSET Claim,
           hit' \in SUBSET Sessions, lost' \in SUBSET Sessions
    PROVE  IInv'
  BY DEF IInv, TypeOK, HeldIsDue, FileIsGrant, OriginKnown, WithinRoot, Lookup

LEMMA SpoilStep ==
    ASSUME IInv, NEW s \in Sessions, NEW left \in {Absent, Unreadable},
           Spoil(s, left)
    PROVE  IInv'
<1>1. /\ file' = [file EXCEPT ![s] = left] /\ Lookup(s) # NoEnvelope
      /\ UNCHANGED <<tree, torn, holder, origin, claims>>
      /\ hit' \in SUBSET Sessions /\ lost' \in SUBSET Sessions
  BY DEF Spoil, Fault, IInv, TypeOK
<1>2. TypeOK'
  BY <1>1 DEF IInv, TypeOK
<1>3. \A c \in Sessions : Lookup(c)' \in {Lookup(c), NoEnvelope}
  BY <1>1, LedgerAssumption DEF Lookup, IInv, TypeOK
<1>4. \A c \in Sessions : file[c] = Absent => file'[c] = Absent
  BY <1>1, LookupFacts DEF IInv, TypeOK
<1>5. HeldIsDue'
  BY <1>1, <1>4 DEF IInv, TypeOK, HeldIsDue, Pending
<1> QED
  BY <1>1, <1>2, <1>3, <1>5 DEF IInv, FileIsGrant, OriginKnown, WithinRoot

LEMMA RestoreStep ==
    ASSUME IInv, NEW s \in Sessions, Restore(s)
    PROVE  IInv'
<1> DEFINE f == tree.env[s]
           o == tree.env[tree.root[s]]
<1>1. /\ Running(tree, s) /\ IsNode(tree, s)
      /\ file' = [file EXCEPT ![s] = f]
      /\ origin' = [origin EXCEPT ![s] = o]
      /\ UNCHANGED <<tree, torn, holder, claims, hit, lost>>
  BY DEF Restore, Running, IsNode
<1>2. f \in Envelope /\ o \in Envelope /\ Covers(o, f)
  BY <1>1, NodeFacts
<1>3. f \in Envelope \cup {Absent, Unreadable} /\ o \in MaybeEnvelope
  BY <1>2 DEF MaybeEnvelope
<1>4. /\ torn' \in BOOLEAN /\ claims' \in SUBSET Claim
      /\ hit' \in SUBSET Sessions /\ lost' \in SUBSET Sessions
      /\ holder' \in Pending \cup {Nobody} /\ holder' = holder
  BY <1>1 DEF IInv, TypeOK
<1> HIDE DEF f, o
<1>5. IsNode(tree, s) => tree.env[s] = f
  BY DEF f
<1> QED
  BY <1>1, <1>2, <1>3, <1>4, <1>5, FileStep

-----------------------------------------------------------------------------
(* The theorems.                                                           *)

LEMMA InitHolds == Init => IInv
<1> SUFFICES ASSUME Init PROVE IInv
  OBVIOUS
<1>1. tree \in Tree /\ Sound(tree) /\ \A s \in Sessions : ~IsNode(tree, s)
  BY EmptyTreeIsSound DEF Init, EmptyTree, IsNode
<1>2. IsFiniteSet(tree.asks)
  BY FS_EmptySet DEF Init, EmptyTree
<1>3. TypeOK
  BY <1>1 DEF Init, TypeOK, MaybeEnvelope
<1>4. HeldIsDue /\ \A s \in Sessions : Lookup(s) = NoEnvelope
  BY DEF Init, HeldIsDue, Lookup
<1> QED
  BY <1>1, <1>2, <1>3, <1>4 DEF IInv, FileIsGrant, OriginKnown, WithinRoot

\* Asks come from the ledger and inputs from their sets.
LEMMA InputTypes ==
    ASSUME IInv
    PROVE  /\ tree.asks \subseteq Ask
           /\ Founders \subseteq Sessions
           /\ RootEnvelopes \subseteq Envelope /\ Proposals \subseteq Envelope
           /\ Wants \subseteq MaybeCount /\ Reports \subseteq MaybeCount
  BY LedgerAssumption DEF IInv, TypeOK, Tree

LEMMA NextKeeps == IInv /\ [Next]_vars => IInv'
<1> SUFFICES ASSUME IInv, [Next]_vars PROVE IInv'
  OBVIOUS
<1>1. CASE UNCHANGED vars
  BY <1>1 DEF vars, IInv, TypeOK, HeldIsDue, FileIsGrant, OriginKnown, WithinRoot,
              Lookup
<1>2. ASSUME NEW s \in Founders, NEW e \in RootEnvelopes, NEW tokens \in Wants,
             MakeRoot(s, e, tokens)
      PROVE  IInv'
  BY <1>2, InputTypes, MakeRootStep
<1>3. ASSUME NEW p \in Sessions, NEW s \in Sessions, NEW e \in Proposals,
             NEW tokens \in Wants, NEW own \in Reports, NEW finishes \in BOOLEAN,
             \/ SpawnStarted(p, s, e, tokens, own, finishes)
             \/ SpawnRefused(p, s, e, tokens, own, finishes)
             \/ SpawnAsked(p, s, e, tokens, own, finishes)
      PROVE  IInv'
  BY <1>3, InputTypes, SpawnStartedStep, RefusedStep, AskedStep
<1>4. ASSUME NEW a \in tree.asks, NEW finishes,
             Deny(a) \/ Allow(a, finishes) \/ AllowCut(a, finishes)
      PROVE  IInv'
  BY <1>4, InputTypes, DenyStep, AllowStep, AllowCutStep
<1>5. ASSUME NEW s \in Sessions, NEW own, End(s, own)
      PROVE  IInv'
  BY <1>5, EndStep
<1>6. CASE UnlinkRefused
  <2>1. holder.tells \in SUBSET Claim
    BY <1>6 DEF UnlinkRefused, IInv, TypeOK, Pending
  <2>2. UNCHANGED <<tree, file, origin>> /\ holder' \in {Nobody, holder}
    BY <1>6 DEF UnlinkRefused
  <2>3. /\ torn' \in BOOLEAN /\ claims' \in SUBSET Claim
        /\ hit' \in SUBSET Sessions /\ lost' \in SUBSET Sessions
    BY <1>6, <2>1 DEF UnlinkRefused, Fault, IInv, TypeOK, Pending
  <2> QED
    BY <2>2, <2>3, GiveUpStep
<1>7. CASE Abort
  <2>1. UNCHANGED <<tree, file, origin>> /\ holder' \in {Nobody, holder}
    BY <1>7 DEF Abort
  <2>2. /\ torn' \in BOOLEAN /\ claims' \in SUBSET Claim
        /\ hit' \in SUBSET Sessions /\ lost' \in SUBSET Sessions
    BY <1>7 DEF Abort, Fault, IInv, TypeOK, Pending
  <2> QED
    BY <2>1, <2>2, GiveUpStep
<1>8. CASE AppendCut
  BY <1>8, GiveUpStep DEF AppendCut, IInv, TypeOK
<1>9. ASSUME NEW s \in Sessions, NEW left \in {Absent, Unreadable}, Spoil(s, left)
      PROVE  IInv'
  BY <1>9, SpoilStep
<1>10. ASSUME NEW s \in Sessions, Restore(s)
       PROVE  IInv'
  BY <1>10, RestoreStep
<1> QED
  BY <1>1, <1>2, <1>3, <1>4, <1>5, <1>6, <1>7, <1>8, <1>9, <1>10,
     RegisterStep, UnlinkStep DEF Next, Command, Fail

LEMMA Invariant == Spec => []IInv
  BY InitHolds, NextKeeps, PTL DEF Spec

\* Every state of the ledger and the files is well formed, with any faults.
THEOREM TypeCorrect == Spec => []TypeOK
<1>1. IInv => TypeOK
  BY DEF IInv
<1> QED
  BY <1>1, Invariant, PTL

\* The induction of the yellow paper: no envelope the gate can read passes the
\* root of its branch, however the session came to be started and whatever was
\* torn, crashed, spoiled or restored on the way.
THEOREM AuthorityStaysWithinRoot == Spec => []WithinRoot
<1>1. IInv => WithinRoot
  BY DEF IInv
<1> QED
  BY <1>1, Invariant, PTL

\* The running nodes are closed upwards, and the parents make a forest.
THEOREM ChildrenEndFirst == Spec => []ParentsRun
<1>1. IInv => ParentsRun
  BY DEF IInv, Sound, ParentsRun
<1> QED
  BY <1>1, Invariant, PTL

\* AT-5: nothing starts under physical stakes, even by an allow that finds the
\* parent's own envelope gone.
THEOREM PhysicalStartsNobody == Spec => []NoPhysicalParent
<1>1. IInv => NoPhysicalParent
  BY DEF IInv, Sound, NoPhysicalParent
<1> QED
  BY <1>1, Invariant, PTL

\* What the gate reads for a proved child lies inside what its parent was given.
THEOREM ProvedStaysWithinParent == Spec => []ProvedWithinParent
<1>1. ASSUME IInv PROVE ProvedWithinParent
  <2> SUFFICES ASSUME NEW s \in Sessions, tree.parent[s] # NoSession,
                      tree.proved[s], Lookup(s) # NoEnvelope
               PROVE  Covers(tree.env[tree.parent[s]], Lookup(s))
    BY DEF ProvedWithinParent
  <2>1. IsNode(tree, s) /\ Covers(tree.env[tree.parent[s]], tree.env[s])
    BY <1>1 DEF IInv, Sound
  <2> QED
    BY <1>1, <2>1 DEF IInv, FileIsGrant
<1> QED
  BY <1>1, Invariant, PTL

\* The only steps that touch a file.
LEMMA FileChanges ==
    ASSUME [Next]_vars
    PROVE  \/ UNCHANGED file
           \/ Register
           \/ Unlink
           \/ \E s \in Sessions, left \in {Absent, Unreadable} : Spoil(s, left)
           \/ \E s \in Sessions : Restore(s)
<1>1. CASE Command
  <2>1. \A s, e, tokens : MakeRoot(s, e, tokens) => UNCHANGED file
    BY DEF MakeRoot
  <2>2. \A p, s, e, tokens, own, finishes :
            \/ SpawnStarted(p, s, e, tokens, own, finishes)
            \/ SpawnRefused(p, s, e, tokens, own, finishes)
            \/ SpawnAsked(p, s, e, tokens, own, finishes)
            => UNCHANGED file
    <3>1. ASSUME NEW p, NEW s, NEW e, NEW tokens, NEW own, NEW finishes
          PROVE  /\ SpawnStarted(p, s, e, tokens, own, finishes)
                       => UNCHANGED <<file, origin, claims, hit>>
                 /\ SpawnRefused(p, s, e, tokens, own, finishes)
                       => UNCHANGED <<file, holder, origin, claims, hit>>
                 /\ SpawnAsked(p, s, e, tokens, own, finishes)
                       => UNCHANGED <<file, holder, origin, hit>>
      BY ZenonT(30) DEF SpawnStarted, SpawnRefused, SpawnAsked
    <3> QED
      BY <3>1
  <2>3. \A a, finishes : Deny(a) \/ Allow(a, finishes) => UNCHANGED file
    BY DEF Deny, Allow
  <2>4. \A s, own : End(s, own) => UNCHANGED file
    BY DEF End
  <2> QED
    BY <1>1, <2>1, <2>2, <2>3, <2>4 DEF Command
<1>2. CASE Fail
  BY <1>2 DEF Fail, UnlinkRefused, Abort, AppendCut, AllowCut
<1>3. CASE UNCHANGED vars
  BY <1>3 DEF vars
<1> QED
  BY <1>1, <1>2, <1>3 DEF Next

\* An envelope, once written, is never exchanged for another, and an ended
\* session whose file is gone never has one again: no order of commands, faults
\* and repairs gives a session other authority than it was started with.
THEOREM AuthorityNeverChanges == Spec => AuthorityIsFixed
<1>1. ASSUME IInv, [Next]_vars, NEW s \in Sessions
      PROVE  /\ Lookup(s) # NoEnvelope /\ Lookup(s)' # NoEnvelope
                   => Lookup(s)' = Lookup(s)
             /\ tree.state[s] = "ended" /\ file[s] = Absent
                   => file'[s] = Absent
  <2>1. CASE UNCHANGED file
    BY <2>1 DEF Lookup
  <2>2. CASE Register
    <3>1. /\ holder \in Pending /\ holder # Nobody /\ holder.op = "register"
          /\ file' = [file EXCEPT ![holder.session] = holder.env]
      BY <2>2, <1>1 DEF Register, IInv, TypeOK
    <3>2. CASE s = holder.session
      <4>1. /\ holder.env \in Envelope
            /\ \/ Running(tree, s) /\ tree.env[s] = holder.env
               \/ ~IsNode(tree, s) /\ file[s] = Absent
        BY <1>1, <3>1, <3>2 DEF IInv, HeldIsDue
      <4>2. Lookup(s)' = holder.env
        BY <1>1, <3>1, <3>2, <4>1, LedgerAssumption DEF IInv, TypeOK, Lookup
      <4>3. Lookup(s) # NoEnvelope => tree.env[s] = Lookup(s) /\ file[s] # Absent
        BY <1>1, <4>1, LookupFacts DEF IInv, FileIsGrant, IsNode, Running
      <4> QED
        BY <4>1, <4>2, <4>3 DEF IsNode, Running
    <3>3. CASE s # holder.session
      BY <1>1, <3>1, <3>3 DEF IInv, TypeOK, Lookup
    <3> QED
      BY <3>2, <3>3
  <2>3. CASE Unlink
    <3>1. file' = [file EXCEPT ![holder.session] = Absent]
      BY <2>3 DEF Unlink
    <3> QED
      BY <1>1, <3>1 DEF IInv, TypeOK, Lookup
  <2>4. ASSUME NEW c \in Sessions, NEW left \in {Absent, Unreadable}, Spoil(c, left)
        PROVE  /\ Lookup(s)' \in {NoEnvelope, Lookup(s)}
               /\ file[s] = Absent => file'[s] = Absent
    <3>1. file' = [file EXCEPT ![c] = left] /\ Lookup(c) # NoEnvelope
      BY <2>4 DEF Spoil
    <3> QED
      BY <1>1, <3>1, LookupFacts DEF IInv, TypeOK, Lookup
  <2>5. ASSUME NEW c \in Sessions, Restore(c)
        PROVE  /\ c # s => file'[s] = file[s]
               /\ Running(tree, c) /\ Lookup(c) = NoEnvelope
    BY <1>1, <2>5 DEF Restore, IInv, TypeOK
  <2>6. ASSUME NEW c \in Sessions, Restore(c)
        PROVE  /\ Lookup(s) # NoEnvelope => Lookup(s)' = Lookup(s)
               /\ tree.state[s] = "ended" /\ file[s] = Absent
                     => file'[s] = Absent
    BY <2>5, <2>6 DEF Lookup, Running
  <2> QED
    BY <1>1, <2>1, <2>2, <2>3, <2>4, <2>6, FileChanges
<1>2. IInv /\ [Next]_vars =>
        [\A s \in Sessions :
            /\ Lookup(s) # NoEnvelope /\ Lookup(s)' # NoEnvelope
                  => Lookup(s)' = Lookup(s)
            /\ tree.state[s] = "ended" /\ file[s] = Absent
                  => file'[s] = Absent]_vars
  BY <1>1
<1> QED
  BY <1>2, Invariant, PTL DEF Spec, AuthorityIsFixed
=============================================================================
