-------------------------- MODULE TreeClaimsProofs --------------------------
(***************************************************************************)
(* What the commands of TreeLedger report stays true, the ledger and the   *)
(* files agree, and a child no proof let start was allowed: for every set  *)
(* of sessions and envelopes, every bound and every set of faults. And the *)
(* ledger implements DelegationTree, while no row is torn.                 *)
(***************************************************************************)
EXTENDS TreeLedgerProofs

\* What the command at work will tell its caller is true before its file step, or its row was lost.
TellsHold ==
    holder # Nobody => \A c \in holder.tells : Subject(c) \notin lost => ClaimHolds(c)

\* The command at work writes the file of a session that runs with that envelope, or removes the file of
\* one that has ended, or its row was lost.
HeldStays ==
    holder # Nobody /\ holder.session \notin lost =>
        \/ /\ holder.op = "register"
           /\ Running(tree, holder.session) /\ tree.env[holder.session] = holder.env
        \/ holder.op = "unlink" /\ tree.state[holder.session] = "ended"

Reported ==
    /\ TellsHold /\ HeldStays
    /\ UnprovedWasAllowed /\ ClaimsHold /\ FilesFollowLedger

-----------------------------------------------------------------------------
(* How rows change the fields that claims are about.                       *)

\* Nodes stay nodes, ends stay ends, asks and answers stay, and an ask is answered once.
Grows(t, u) ==
    /\ \A s \in Sessions : /\ IsNode(t, s) => IsNode(u, s)
                           /\ t.state[s] = "ended" => u.state[s] = "ended"
    /\ t.asks \subseteq u.asks /\ t.answers \subseteq u.answers
    /\ \A a \in Ask, v \in {"allow", "deny"} :
          <<a, v>> \in u.answers /\ <<a, v>> \notin t.answers => ~Answered(t, a)

\* The row leaves what every session but s is, and the files of those that stand still.
LeavesOthers(t, u, s) ==
    \A c \in Sessions \ {s} : /\ u.state[c] = t.state[c] /\ u.env[c] = t.env[c]
                              /\ u.parent[c] = t.parent[c] /\ u.proved[c] = t.proved[c]

LEMMA ClaimsGrow ==
    ASSUME Grows(tree, tree'), NEW c \in Claim, ClaimHolds(c)
    PROVE  ClaimHolds(c)'
<1>1. CASE c.what = "started" \/ c.what = "ended"
  <2>1. c.session \in Sessions
    BY <1>1 DEF Claim
  <2> QED
    BY <1>1, <2>1 DEF ClaimHolds, Grows
<1>2. CASE c.what = "asked"
  BY <1>2 DEF ClaimHolds, Grows
<1>3. CASE c.what \in {"allow", "deny"}
  <2>1. c.ask \in Ask
    BY <1>3 DEF Claim
  <2>2. /\ <<c.ask, c.what>> \in tree.answers
        /\ \A v \in {"allow", "deny"} : <<c.ask, v>> \in tree.answers => v = c.what
    BY <1>3 DEF ClaimHolds
  <2>3. Answered(tree, c.ask)
    BY <1>3, <2>2 DEF Answered
  <2>4. /\ <<c.ask, c.what>> \in tree'.answers
        /\ \A v \in {"allow", "deny"} : <<c.ask, v>> \in tree'.answers => v = c.what
    BY <2>1, <2>2, <2>3 DEF Grows
  <2> QED
    BY <1>3, <2>4 DEF ClaimHolds
<1> QED
  BY <1>1, <1>2, <1>3 DEF Claim

LEMMA SameIsGrowing ==
    ASSUME NEW t \in Tree, NEW s \in Sessions
    PROVE  Grows(t, t) /\ LeavesOthers(t, t, s)
  BY DEF Grows, LeavesOthers

LEMMA RootRowGrows ==
    ASSUME NEW t \in Tree, NEW s \in Sessions, NEW e \in Envelope, NEW tokens \in MaybeCount,
           ~IsNode(t, s)
    PROVE  LET u == RootRow(t, s, e, tokens)
           IN  /\ Grows(t, u) /\ LeavesOthers(t, u, s)
               /\ u.state[s] = "running" /\ u.env[s] = e
               /\ u.proved = [t.proved EXCEPT ![s] = TRUE]
<1> DEFINE u == RootRow(t, s, e, tokens)
<1>1. PICK p \in Sessions \cup {NoSession}, pr \in BOOLEAN : p = NoSession /\ pr = TRUE
  OBVIOUS
<1> DEFINE n == NewNode(t, s, p, s, e, tokens, pr)
<1>2. /\ n \in Tree
      /\ n.state = [t.state EXCEPT ![s] = "running"]
      /\ n.parent = [t.parent EXCEPT ![s] = p]
      /\ n.root = [t.root EXCEPT ![s] = s]
      /\ n.env = [t.env EXCEPT ![s] = e]
      /\ n.proved = [t.proved EXCEPT ![s] = pr]
      /\ n.asks = t.asks
      /\ n.answers = t.answers
  BY NewNodeFields
<1>3. u = n
  BY <1>1 DEF RootRow
<1> HIDE DEF u, n
<1>4. Grows(t, u)
  BY <1>2, <1>3 DEF Grows, IsNode, Tree
<1>5. LeavesOthers(t, u, s)
  BY <1>2, <1>3 DEF LeavesOthers, Tree
<1>6. /\ u.state[s] = "running" /\ u.env[s] = e
      /\ u.proved = [t.proved EXCEPT ![s] = TRUE]
  BY <1>1, <1>2, <1>3 DEF Tree
<1> QED
  BY <1>4, <1>5, <1>6 DEF u

LEMMA SpawnRowGrows ==
    ASSUME NEW t \in Tree, NEW s \in Sessions, NEW p \in Sessions, NEW e \in Envelope,
           NEW tokens \in MaybeCount, NEW pr \in BOOLEAN, NEW own \in MaybeCount,
           ~IsNode(t, s), Running(t, p)
    PROVE  LET u == SpawnRow(t, p, s, e, tokens, pr, own)
           IN  /\ Grows(t, u) /\ LeavesOthers(t, u, s)
               /\ u.state[s] = "running" /\ u.env[s] = e /\ u.parent[s] = p
               /\ u.proved = [t.proved EXCEPT ![s] = pr]
               /\ u.asks = t.asks /\ u.answers = t.answers
<1> DEFINE u == SpawnRow(t, p, s, e, tokens, pr, own)
<1>1. /\ u \in Tree
      /\ u.asks = t.asks
      /\ u.answers = t.answers
      /\ u.state = [t.state EXCEPT ![s] = "running"]
      /\ u.parent = [t.parent EXCEPT ![s] = p]
      /\ u.root = [t.root EXCEPT ![s] = t.root[p]]
      /\ u.env = [t.env EXCEPT ![s] = e]
      /\ u.proved = [t.proved EXCEPT ![s] = pr]
  BY SpawnRowFields
<1> HIDE DEF u
<1>2. Grows(t, u)
  BY <1>1 DEF Grows, IsNode, Tree
<1>3. LeavesOthers(t, u, s)
  BY <1>1 DEF LeavesOthers, Tree
<1>4. u.state[s] = "running" /\ u.env[s] = e /\ u.parent[s] = p
  BY <1>1 DEF Tree
<1> QED
  BY <1>1, <1>2, <1>3, <1>4 DEF u

LEMMA OtherRowsGrow ==
    ASSUME NEW t \in Tree
    PROVE  /\ \A p \in Sessions : Grows(t, RefusedRow(t, p))
           /\ \A a \in Ask :
                 /\ Grows(t, AskRow(t, a))
                 /\ IsNode(t, a.parent) => a \in AskRow(t, a).asks
<1>1. ASSUME NEW p \in Sessions PROVE Grows(t, RefusedRow(t, p))
  <2>1. /\ RefusedRow(t, p).state = t.state
        /\ RefusedRow(t, p).asks = t.asks /\ RefusedRow(t, p).answers = t.answers
    BY DEF RefusedRow, Tree
  <2> QED
    BY <2>1 DEF Grows, IsNode
<1>2. ASSUME NEW a \in Ask
      PROVE  Grows(t, AskRow(t, a)) /\ (IsNode(t, a.parent) => a \in AskRow(t, a).asks)
  <2>1. /\ AskRow(t, a).state = t.state /\ t.asks \subseteq AskRow(t, a).asks
        /\ AskRow(t, a).answers = t.answers
        /\ IsNode(t, a.parent) => a \in AskRow(t, a).asks
    BY DEF AskRow, Tree
  <2> QED
    BY <2>1 DEF Grows, IsNode
<1> QED
  BY <1>1, <1>2

LEMMA AnswerRowGrows ==
    ASSUME NEW t \in Tree, NEW a \in Ask, a \in OpenAsks(t), NEW v \in {"allow", "deny"}
    PROVE  /\ Grows(t, AnswerRow(t, a, v))
           /\ <<a, v>> \in AnswerRow(t, a, v).answers
           /\ \A w \in {"allow", "deny"} : <<a, w>> \in AnswerRow(t, a, v).answers => w = v
<1> DEFINE u == AnswerRow(t, a, v)
<1>1. a \in t.asks /\ ~Answered(t, a) /\ a.parent \in Sessions
  BY DEF OpenAsks, Ask
<1>2. u = [t EXCEPT !.answers = @ \cup {<<a, v>>}, !.refused[a.parent] = 0]
  BY <1>1 DEF AnswerRow
<1>3. u.answers = t.answers \cup {<<a, v>>} /\ u.state = t.state /\ u.asks = t.asks
  BY <1>2 DEF Tree
<1> HIDE DEF u
<1>4. Grows(t, u)
  <2>1. \A b \in Ask, w \in {"allow", "deny"} :
            <<b, w>> \in u.answers /\ <<b, w>> \notin t.answers => b = a
    BY <1>3
  <2> QED
    BY <1>1, <1>3, <2>1 DEF Grows, IsNode
<1>5. \A w \in {"allow", "deny"} : <<a, w>> \in u.answers => w = v
  BY <1>1, <1>3 DEF Answered
<1> QED
  BY <1>3, <1>4, <1>5 DEF u

LEMMA EndRowGrows ==
    ASSUME NEW t \in Tree, NEW s \in Sessions, NEW used \in MaybeCount, Running(t, s)
    PROVE  LET u == EndRow(t, s, used)
           IN  /\ Grows(t, u) /\ LeavesOthers(t, u, s)
               /\ u.state[s] = "ended" /\ u.parent = t.parent /\ u.proved = t.proved
<1> DEFINE u == EndRow(t, s, used)
<1>1. /\ u.state = [t.state EXCEPT ![s] = "ended"]
      /\ u.parent = t.parent /\ u.env = t.env /\ u.proved = t.proved
      /\ u.asks = t.asks /\ u.answers = t.answers
  BY DEF EndRow, Running, Tree
<1> HIDE DEF u
<1>2. Grows(t, u)
  BY <1>1 DEF Grows, IsNode, Tree
<1>3. LeavesOthers(t, u, s) /\ u.state[s] = "ended"
  BY <1>1 DEF LeavesOthers, Tree
<1> QED
  BY <1>1, <1>2, <1>3 DEF u
-----------------------------------------------------------------------------
(* The commands.                                                           *)

\* What a claim says, and of whom.
LEMMA ClaimMeans ==
    /\ \A s, p, tokens : /\ Subject(Started(s, p, tokens)) = s
                         /\ ClaimHolds(Started(s, p, tokens)) <=> IsNode(tree, s)
    /\ \A s : /\ Subject(Ended(s)) = s
              /\ ClaimHolds(Ended(s)) <=> tree.state[s] = "ended"
    /\ \A a : /\ Subject(About("asked", a)) = a.session
              /\ ClaimHolds(About("asked", a)) <=> a \in tree.asks
    /\ \A a : \A v \in {"allow", "deny"} :
          /\ Subject(About(v, a)) = a.session
          /\ ClaimHolds(About(v, a)) <=>
                <<a, v>> \in tree.answers
                /\ \A w \in {"allow", "deny"} : <<a, w>> \in tree.answers => w = v
<1>1. \A s, p, tokens : /\ Subject(Started(s, p, tokens)) = s
                        /\ ClaimHolds(Started(s, p, tokens)) <=> IsNode(tree, s)
  BY DEF Subject, ClaimHolds, Started
<1>2. \A s : /\ Subject(Ended(s)) = s
             /\ ClaimHolds(Ended(s)) <=> tree.state[s] = "ended"
  BY DEF Subject, ClaimHolds, Ended
<1>3. \A a : /\ Subject(About("asked", a)) = a.session
             /\ ClaimHolds(About("asked", a)) <=> a \in tree.asks
  BY DEF Subject, ClaimHolds, About
<1>4. \A a : \A v \in {"allow", "deny"} :
          /\ Subject(About(v, a)) = a.session
          /\ ClaimHolds(About(v, a)) <=>
                <<a, v>> \in tree.answers
                /\ \A w \in {"allow", "deny"} : <<a, w>> \in tree.answers => w = v
  BY DEF Subject, ClaimHolds, About
<1> QED
  BY <1>1, <1>2, <1>3, <1>4

\* What a command says of the session its row is about is enough.
LEMMA RowStep ==
    ASSUME IInv, IInv', Reported, NEW s \in Sessions, holder = Nobody,
           Grows(tree, tree'), LeavesOthers(tree, tree', s),
           lost \subseteq lost', UNCHANGED <<file, hit>>,
           s \notin lost' => \/ holder' # Nobody /\ holder'.session = s
                             \/ tree'.state[s] = tree.state[s] /\ tree'.env[s] = tree.env[s],
           s \notin lost' => \/ /\ tree'.parent[s] = tree.parent[s]
                                /\ tree'.proved = [tree.proved EXCEPT ![s] = tree.proved[s]]
                             \/ tree'.proved = [tree.proved EXCEPT ![s] = TRUE]
                             \/ \E a \in tree'.asks : /\ a.session = s
                                                      /\ a.parent = tree'.parent[s]
                                                      /\ <<a, "allow">> \in tree'.answers,
           HeldStays', TellsHold',
           \A c \in claims' : c \in claims \/ Subject(c) \in lost' \/ ClaimHolds(c)'
    PROVE  Reported'
<1>t. tree \in Tree /\ tree' \in Tree /\ claims \subseteq Claim
  BY DEF IInv, TypeOK
<1>r. UnprovedWasAllowed /\ ClaimsHold /\ FilesFollowLedger
  BY DEF Reported
<1>1. UnprovedWasAllowed'
  <2> SUFFICES ASSUME NEW c \in Sessions, c \notin lost', ~tree'.proved[c]
               PROVE  \E a \in tree'.asks : /\ a.session = c
                                            /\ a.parent = tree'.parent[c]
                                            /\ <<a, "allow">> \in tree'.answers
    BY DEF UnprovedWasAllowed
  <2>1. ASSUME tree'.proved[c] = tree.proved[c], tree'.parent[c] = tree.parent[c]
        PROVE  \E a \in tree'.asks : /\ a.session = c
                                     /\ a.parent = tree'.parent[c]
                                     /\ <<a, "allow">> \in tree'.answers
    <3>1. ~tree.proved[c] /\ c \in Sessions \ lost
      BY <2>1
    <3>2. PICK a \in tree.asks : /\ a.session = c /\ a.parent = tree.parent[c]
                                 /\ <<a, "allow">> \in tree.answers
      BY <1>r, <3>1 DEF UnprovedWasAllowed
    <3>3. a \in tree'.asks /\ <<a, "allow">> \in tree'.answers
      BY <3>2 DEF Grows
    <3> QED
      BY <2>1, <3>2, <3>3
  <2>2. CASE c # s
    BY <2>1, <2>2 DEF LeavesOthers
  <2>3. CASE c = s
    <3>1. tree.proved \in [Sessions -> BOOLEAN]
      BY <1>t DEF Tree
    <3>2. ASSUME tree'.parent[s] = tree.parent[s],
                 tree'.proved = [tree.proved EXCEPT ![s] = tree.proved[s]]
          PROVE  \E a \in tree'.asks : /\ a.session = c
                                       /\ a.parent = tree'.parent[c]
                                       /\ <<a, "allow">> \in tree'.answers
      BY <2>1, <2>3, <3>1, <3>2
    <3>3. tree'.proved # [tree.proved EXCEPT ![s] = TRUE]
      BY <2>3, <3>1
    <3> QED
      BY <2>3, <3>2, <3>3
  <2> QED
    BY <2>2, <2>3
<1>2. ClaimsHold'
  <2> SUFFICES ASSUME NEW c \in claims', Subject(c) \notin lost' PROVE ClaimHolds(c)'
    BY DEF ClaimsHold, Subject
  <2>1. CASE c \in claims
    <3>1. c \in Claim /\ ClaimHolds(c)
      BY <1>r, <1>t, <2>1 DEF ClaimsHold
    <3> QED
      BY <3>1, ClaimsGrow
  <2> QED
    BY <2>1
<1>3. FilesFollowLedger'
  <2> SUFFICES ASSUME NEW c \in Sessions, c \notin hit, c \notin lost',
                      ~(holder' # Nobody /\ holder'.session = c)
               PROVE  Lookup(c)' = IF Running(tree, c)' THEN tree'.env[c] ELSE NoEnvelope
    BY DEF FilesFollowLedger
  <2>1. Lookup(c) = IF Running(tree, c) THEN tree.env[c] ELSE NoEnvelope
    BY <1>r DEF FilesFollowLedger
  <2>2. tree'.state[c] = tree.state[c] /\ tree'.env[c] = tree.env[c]
    BY DEF LeavesOthers
  <2>3. Lookup(c)' = Lookup(c)
    BY DEF Lookup
  <2> QED
    BY <2>1, <2>2, <2>3 DEF Running
<1> QED
  BY <1>1, <1>2, <1>3 DEF Reported
\* A command that starts s, or whose row is lost: what it will tell its caller, and that its file is due.
LEMMA StartReported ==
    ASSUME IInv, IInv', Reported, NEW s \in Sessions, holder = Nobody,
           NEW u \in Tree, Grows(tree, u), LeavesOthers(tree, u, s),
           u.state[s] = "running", NEW e \in Envelope, u.env[s] = e, NEW top \in Envelope,
           NEW told \in SUBSET Claim, holder' = Registering(s, e, top, told),
           lost' = (IF torn THEN lost \cup {s} ELSE lost), UNCHANGED <<file, hit, claims>>,
           torn => /\ tree' \in Tree /\ Grows(tree, tree') /\ LeavesOthers(tree, tree', s),
           ~torn => tree' = u,
           ~torn => \/ u.proved = [tree.proved EXCEPT ![s] = TRUE]
                    \/ \E a \in u.asks : /\ a.session = s /\ a.parent = u.parent[s]
                                         /\ <<a, "allow">> \in u.answers,
           \A c \in told : /\ Subject(c) = s
                           /\ ~torn => ClaimHolds(c)'
    PROVE  Reported'
<1>1. /\ holder'.op = "register" /\ holder'.session = s /\ holder'.env = e /\ holder'.tells = told
      /\ holder' # Nobody
  <2>1. holder' \in Pending
    BY DEF Registering, Pending, MaybeEnvelope
  <2> QED
    BY <2>1, NobodyAssumption DEF Registering
<1>2. HeldStays'
  BY <1>1 DEF HeldStays, Running
<1>3. TellsHold'
  <2> SUFFICES ASSUME NEW c \in told, Subject(c) \notin lost' PROVE ClaimHolds(c)'
    BY <1>1 DEF TellsHold, Subject
  <2> QED
    OBVIOUS
<1>4. Grows(tree, tree') /\ LeavesOthers(tree, tree', s) /\ lost \subseteq lost'
  OBVIOUS
<1>5. s \notin lost' => \/ tree'.proved = [tree.proved EXCEPT ![s] = TRUE]
                        \/ \E a \in tree'.asks : /\ a.session = s
                                                 /\ a.parent = tree'.parent[s]
                                                 /\ <<a, "allow">> \in tree'.answers
  OBVIOUS
<1> QED
  BY <1>1, <1>2, <1>3, <1>4, <1>5, RowStep

LEMMA MakeRootReported ==
    ASSUME IInv, IInv', Reported, NEW s \in Sessions, NEW e \in Envelope, NEW tokens \in MaybeCount,
           MakeRoot(s, e, tokens)
    PROVE  Reported'
<1> DEFINE u == RootRow(tree, s, e, tokens)
           told == {Started(s, NoSession, tokens)}
<1>1. /\ holder = Nobody /\ ~IsNode(tree, s) /\ Append(u, s)
      /\ holder' = Registering(s, e, e, told) /\ UNCHANGED <<file, origin, claims, hit>>
      /\ tree \in Tree /\ Sound(tree)
  BY DEF MakeRoot, Free, IInv, TypeOK
<1>2. /\ Grows(tree, u) /\ LeavesOthers(tree, u, s)
      /\ u.state[s] = "running" /\ u.env[s] = e
      /\ u.proved = [tree.proved EXCEPT ![s] = TRUE]
  BY <1>1, RootRowGrows
<1>3. u \in Tree
  BY <1>1, RootRowIsSound
<1> HIDE DEF u
<1>4. /\ tree' = (IF torn THEN tree ELSE u) /\ lost' = (IF torn THEN lost \cup {s} ELSE lost)
  BY <1>1 DEF Append
<1>5. told \in SUBSET Claim
  BY ClaimTypes
<1>6. \A c \in told : Subject(c) = s /\ (~torn => ClaimHolds(c)')
  <2>1. IsNode(tree, s)' => ClaimHolds(Started(s, NoSession, tokens))'
    BY DEF ClaimHolds, Started
  <2>2. ~torn => IsNode(tree, s)'
    BY <1>2, <1>4 DEF IsNode
  <2> QED
    BY <2>1, <2>2, ClaimMeans
<1> HIDE DEF told
<1>7. torn => tree' \in Tree /\ Grows(tree, tree') /\ LeavesOthers(tree, tree', s)
  BY <1>1, <1>4, SameIsGrowing
<1> QED
  BY <1>1, <1>2, <1>3, <1>4, <1>5, <1>6, <1>7, StartReported

LEMMA SpawnStartedReported ==
    ASSUME IInv, IInv', Reported, NEW p \in Sessions, NEW s \in Sessions, NEW e \in Envelope,
           NEW tokens \in MaybeCount, NEW own \in MaybeCount, NEW finishes,
           SpawnStarted(p, s, e, tokens, own, finishes)
    PROVE  Reported'
<1> DEFINE child == Effective(Lookup(p), e)
           u == SpawnRow(tree, p, s, child, tokens, TRUE, own)
           top == tree.env[tree.root[p]]
           told == {Started(s, p, tokens)}
<1>1. /\ holder = Nobody /\ Running(tree, p) /\ ~IsNode(tree, s) /\ IsNode(tree, p)
      /\ SpawnReasons(p, e, tokens, own, finishes) = {}
      /\ tree \in Tree
  BY DEF SpawnStarted, MaySpawn, Free, IInv, TypeOK, Running, IsNode
<1>2. child \in Envelope /\ top \in Envelope
  BY <1>1, ProvedChild, NodeFacts
<1>3. /\ Append(u, s)
      /\ holder' = Registering(s, child, top, told)
      /\ UNCHANGED <<file, origin, claims, hit>>
  BY DEF SpawnStarted
<1> HIDE DEF child
<1>4. PICK pr \in BOOLEAN : pr = TRUE
  OBVIOUS
<1> DEFINE v == SpawnRow(tree, p, s, child, tokens, pr, own)
<1>5. /\ Grows(tree, v) /\ LeavesOthers(tree, v, s)
      /\ v.state[s] = "running" /\ v.env[s] = child /\ v.parent[s] = p
      /\ v.proved = [tree.proved EXCEPT ![s] = pr]
      /\ v.asks = tree.asks /\ v.answers = tree.answers
  BY <1>1, <1>2, SpawnRowGrows
<1>6. v \in Tree
  BY <1>1, <1>2, SpawnRowFields
<1>7. u = v
  BY <1>4
<1> HIDE DEF u, v, top
<1>8. /\ tree' = (IF torn THEN tree ELSE v) /\ lost' = (IF torn THEN lost \cup {s} ELSE lost)
  BY <1>3, <1>7 DEF Append
<1>9. told \in SUBSET Claim
  BY ClaimTypes
<1>10. \A c \in told : Subject(c) = s /\ (~torn => ClaimHolds(c)')
  <2>1. IsNode(tree, s)' => ClaimHolds(Started(s, p, tokens))'
    BY DEF ClaimHolds, Started
  <2>2. ~torn => IsNode(tree, s)'
    BY <1>5, <1>8 DEF IsNode
  <2> QED
    BY <2>1, <2>2, ClaimMeans
<1> HIDE DEF told
<1>11. torn => tree' \in Tree /\ Grows(tree, tree') /\ LeavesOthers(tree, tree', s)
  BY <1>1, <1>8, SameIsGrowing
<1>12. v.proved = [tree.proved EXCEPT ![s] = TRUE]
  BY <1>4, <1>5
<1> QED
  BY <1>1, <1>2, <1>3, <1>5, <1>6, <1>8, <1>9, <1>10, <1>11, <1>12, StartReported
LEMMA GrowsOn ==
    ASSUME NEW t, NEW u, NEW v, Grows(t, u), Grows(u, v), v.answers = u.answers
    PROVE  Grows(t, v)
  BY DEF Grows

LEMMA AllowReported ==
    ASSUME IInv, IInv', Reported, NEW a \in Ask, NEW finishes, Allow(a, finishes)
    PROVE  Reported'
<1> DEFINE p == a.parent
           s == a.session
           child == Effective(Lookup(tree.root[p]), a.envelope)
           top == tree.env[tree.root[p]]
           row == AnswerRow(tree, a, "allow")
           told == {Started(s, p, a.tokens), About("allow", a)}
           tokens == a.tokens
<1>1. /\ holder = Nobody /\ Running(tree, p) /\ ~IsNode(tree, s) /\ IsNode(tree, p)
      /\ a \in OpenAsks(tree) /\ a \in tree.asks /\ tree \in Tree /\ MayAllow(a, finishes)
  BY DEF Allow, MayAllow, Free, IInv, TypeOK, Running, IsNode, OpenAsks
<1>2. /\ p \in Sessions /\ s \in Sessions /\ tokens \in MaybeCount
      /\ child \in Envelope /\ top \in Envelope
  BY <1>1, AllowedChild, NodeFacts
<1>3. /\ tree' = SpawnRow(IF torn THEN tree ELSE row, p, s, child, tokens, FALSE, NoCount)
      /\ holder' = Registering(s, child, top, told)
      /\ lost' = (IF torn THEN lost \cup {s} ELSE lost)
      /\ UNCHANGED <<file, origin, claims, hit>>
  BY DEF Allow
<1>4. /\ row \in Tree /\ SameShape(tree, row) /\ row.asks = tree.asks
  BY <1>1, OtherRowFields
<1>5. /\ Grows(tree, row) /\ <<a, "allow">> \in row.answers
      /\ \A w \in {"allow", "deny"} : <<a, w>> \in row.answers => w = "allow"
  BY <1>1, AnswerRowGrows
<1> HIDE DEF child, row, top, p, s, tokens
<1>6. PICK pr \in BOOLEAN, own \in MaybeCount : pr = FALSE /\ own = NoCount
  BY DEF MaybeCount
<1>7. ASSUME NEW t \in Tree, SameShape(tree, t), Grows(tree, t)
      PROVE  LET u == SpawnRow(t, p, s, child, tokens, pr, own)
             IN  /\ u \in Tree /\ Grows(tree, u) /\ LeavesOthers(tree, u, s)
                 /\ u.state[s] = "running" /\ u.env[s] = child /\ u.parent[s] = p
                 /\ u.asks = t.asks /\ u.answers = t.answers
  <2> DEFINE u == SpawnRow(t, p, s, child, tokens, pr, own)
  <2>1. ~IsNode(t, s) /\ Running(t, p)
    BY <1>1, <1>7 DEF SameShape, IsNode, Running
  <2>2. /\ Grows(t, u) /\ LeavesOthers(t, u, s)
        /\ u.state[s] = "running" /\ u.env[s] = child /\ u.parent[s] = p
        /\ u.proved = [t.proved EXCEPT ![s] = pr]
        /\ u.asks = t.asks /\ u.answers = t.answers
    BY <1>2, <2>1, SpawnRowGrows
  <2>3. u \in Tree
    BY <1>2, <2>1, SpawnRowFields
  <2> HIDE DEF u
  <2>4. Grows(tree, u)
    BY <1>7, <2>2, GrowsOn
  <2>5. LeavesOthers(tree, u, s)
    BY <1>7, <2>2 DEF LeavesOthers, SameShape
  <2> QED
    BY <2>2, <2>3, <2>4, <2>5 DEF u
<1> DEFINE u == SpawnRow(row, p, s, child, tokens, pr, own)
           v == SpawnRow(tree, p, s, child, tokens, pr, own)
<1>8. /\ u \in Tree /\ Grows(tree, u) /\ LeavesOthers(tree, u, s)
      /\ u.state[s] = "running" /\ u.env[s] = child /\ u.parent[s] = p
      /\ u.asks = row.asks /\ u.answers = row.answers
  BY <1>4, <1>5, <1>7
<1>9. SameShape(tree, tree) /\ Grows(tree, tree)
  BY <1>1, <1>2, SameIsGrowing DEF SameShape
<1>10. v \in Tree /\ Grows(tree, v) /\ LeavesOthers(tree, v, s)
  BY <1>1, <1>7, <1>9
<1>11. tree' = IF torn THEN v ELSE u
  BY <1>3, <1>6
<1> HIDE DEF u, v
<1>12. told \in SUBSET Claim
  BY <1>2, ClaimTypes DEF p, s, tokens
<1>13. \A c \in told : Subject(c) = s /\ (~torn => ClaimHolds(c)')
  <2>1. ~torn => ClaimHolds(Started(s, p, a.tokens))'
    BY <1>8, <1>11 DEF ClaimHolds, Started, IsNode
  <2>2. ~torn => ClaimHolds(About("allow", a))'
    BY <1>5, <1>8, <1>11 DEF ClaimHolds, About
  <2>3. Subject(Started(s, p, a.tokens)) = s /\ Subject(About("allow", a)) = s
    BY DEF Subject, Started, About, s
  <2> QED
    BY <2>1, <2>2, <2>3
<1>14. \E b \in u.asks : /\ b.session = s /\ b.parent = u.parent[s] /\ <<b, "allow">> \in u.answers
  BY <1>1, <1>4, <1>5, <1>8 DEF s, p
<1> HIDE DEF told
<1>15. /\ ~torn => tree' = u
       /\ torn => tree' \in Tree /\ Grows(tree, tree') /\ LeavesOthers(tree, tree', s)
  BY <1>10, <1>11
<1> QED
  BY <1>1, <1>2, <1>3, <1>8, <1>12, <1>13, <1>14, <1>15, StartReported

\* A row that starts and ends nobody, with what its command claims at once.
LEMMA OtherRowReported ==
    ASSUME IInv, IInv', Reported, NEW s \in Sessions, holder = Nobody,
           tree' \in Tree, SameShape(tree, tree'), Grows(tree, tree'), lost \subseteq lost',
           UNCHANGED <<file, holder, hit>>,
           \A c \in claims' : c \in claims \/ Subject(c) \in lost' \/ ClaimHolds(c)'
    PROVE  Reported'
<1>1. HeldStays' /\ TellsHold'
  BY DEF HeldStays, TellsHold
<1>2. LeavesOthers(tree, tree', s) /\ tree'.state[s] = tree.state[s] /\ tree'.env[s] = tree.env[s]
  BY DEF LeavesOthers, SameShape
<1>3. tree \in Tree /\ tree.proved \in [Sessions -> BOOLEAN]
  BY DEF IInv, TypeOK, Tree
<1>4. /\ tree'.parent[s] = tree.parent[s]
      /\ tree'.proved = [tree.proved EXCEPT ![s] = tree.proved[s]]
  BY <1>3 DEF SameShape
<1> QED
  BY <1>1, <1>2, <1>4, RowStep

LEMMA RefusedReported ==
    ASSUME IInv, IInv', Reported, NEW p \in Sessions, NEW s \in Sessions, NEW e, NEW tokens, NEW own,
           NEW finishes, SpawnRefused(p, s, e, tokens, own, finishes)
    PROVE  Reported'
<1> DEFINE u == RefusedRow(tree, p)
<1>1. /\ holder = Nobody /\ Append(u, s) /\ UNCHANGED <<file, holder, origin, claims, hit>>
      /\ tree \in Tree
  BY DEF SpawnRefused, MaySpawn, IInv, TypeOK
<1>2. u \in Tree /\ SameShape(tree, u) /\ Grows(tree, u)
  BY <1>1, OtherRowFields, OtherRowsGrow
<1> HIDE DEF u
<1>3. tree' \in Tree /\ SameShape(tree, tree') /\ Grows(tree, tree') /\ lost \subseteq lost'
  BY <1>1, <1>2, SameIsGrowing DEF Append, SameShape
<1> QED
  BY <1>1, <1>3, OtherRowReported

LEMMA AskedReported ==
    ASSUME IInv, IInv', Reported, NEW p \in Sessions, NEW s \in Sessions, NEW e \in Envelope,
           NEW tokens \in MaybeCount, NEW own, NEW finishes,
           SpawnAsked(p, s, e, tokens, own, finishes)
    PROVE  Reported'
<1> DEFINE n == Cardinality(tree.asks)
           reasons == SpawnReasons(p, e, tokens, own, finishes)
           a == [parent |-> p, session |-> s, envelope |-> e, tokens |-> tokens, n |-> n,
                 reasons |-> reasons]
           u == AskRow(tree, a)
<1>1. /\ holder = Nobody /\ IsNode(tree, p) /\ Append(u, s)
      /\ claims' = claims \cup {About("asked", a)}
      /\ UNCHANGED <<file, holder, origin, hit>> /\ tree \in Tree
  BY DEF SpawnAsked, MaySpawn, IInv, TypeOK, IsNode, Running
<1>2. n \in Nat
  BY FS_CardinalityType DEF IInv
<1>3. reasons \in SUBSET (Reasons \cup {"physical", "budget"})
  BY DEF SpawnReasons, EdgeReasons, Reasons
<1>4. a \in Ask
  <2> HIDE DEF n, reasons
  <2> QED BY <1>2, <1>3 DEF Ask
<1>5. a.parent = p /\ a.session = s
  OBVIOUS
<1> HIDE DEF a
\* The ask, which the step does not change.
<1>9. PICK b \in Ask : b = a
  BY <1>4
<1>6. u \in Tree /\ SameShape(tree, u) /\ Grows(tree, u) /\ a \in u.asks
  BY <1>1, <1>4, <1>5, OtherRowFields, OtherRowsGrow
<1> HIDE DEF u
<1>7. tree' \in Tree /\ SameShape(tree, tree') /\ Grows(tree, tree') /\ lost \subseteq lost'
  BY <1>1, <1>6, SameIsGrowing DEF Append, SameShape
<1>8. \A c \in claims' : c \in claims \/ Subject(c) \in lost' \/ ClaimHolds(c)'
  <2>1. torn => s \in lost'
    BY <1>1 DEF Append
  <2>2. ~torn => ClaimHolds(About("asked", b))'
    BY <1>1, <1>6, <1>9 DEF Append, ClaimHolds, About
  <2>3. Subject(About("asked", b)) = s
    BY <1>5, <1>9 DEF Subject, About
  <2>4. claims' = claims \cup {About("asked", b)}
    BY <1>1, <1>9
  <2> QED
    BY <2>1, <2>2, <2>3, <2>4
<1> QED
  BY <1>1, <1>7, <1>8, OtherRowReported

LEMMA DenyReported ==
    ASSUME IInv, IInv', Reported, NEW a \in Ask, Deny(a)
    PROVE  Reported'
<1> DEFINE u == AnswerRow(tree, a, "deny")
           s == a.session
<1>1. /\ holder = Nobody /\ a \in OpenAsks(tree) /\ Append(u, s)
      /\ claims' = claims \cup {About("deny", a)}
      /\ UNCHANGED <<file, holder, origin, hit>> /\ tree \in Tree /\ s \in Sessions
  BY DEF Deny, IInv, TypeOK, Ask
<1>2. u \in Tree /\ SameShape(tree, u)
  BY <1>1, OtherRowFields
<1>3. /\ Grows(tree, u) /\ <<a, "deny">> \in u.answers
      /\ \A w \in {"allow", "deny"} : <<a, w>> \in u.answers => w = "deny"
  BY <1>1, AnswerRowGrows
<1> HIDE DEF u
<1>4. tree' \in Tree /\ SameShape(tree, tree') /\ Grows(tree, tree') /\ lost \subseteq lost'
  BY <1>1, <1>2, <1>3, SameIsGrowing DEF Append, SameShape
<1>5. \A c \in claims' : c \in claims \/ Subject(c) \in lost' \/ ClaimHolds(c)'
  <2>1. torn => s \in lost'
    BY <1>1 DEF Append
  <2>2. ~torn => ClaimHolds(About("deny", a))'
    BY <1>1, <1>3 DEF Append, ClaimHolds, About
  <2>3. Subject(About("deny", a)) = s
    BY DEF Subject, About
  <2> QED
    BY <1>1, <2>1, <2>2, <2>3
<1> QED
  BY <1>1, <1>4, <1>5, OtherRowReported

LEMMA AllowCutReported ==
    ASSUME IInv, IInv', Reported, NEW a \in Ask, NEW finishes, AllowCut(a, finishes)
    PROVE  Reported'
<1> DEFINE u == AnswerRow(tree, a, "allow")
           s == a.session
<1>1. /\ holder = Nobody /\ a \in OpenAsks(tree) /\ tree' = (IF torn THEN tree ELSE u)
      /\ UNCHANGED <<file, holder, origin, claims, hit>> /\ lost' = lost \cup {s}
      /\ tree \in Tree /\ s \in Sessions
  BY DEF AllowCut, MayAllow, IInv, TypeOK, Ask
<1>2. u \in Tree /\ SameShape(tree, u) /\ Grows(tree, u)
  BY <1>1, OtherRowFields, AnswerRowGrows
<1> HIDE DEF u
<1>3. tree' \in Tree /\ SameShape(tree, tree') /\ Grows(tree, tree') /\ lost \subseteq lost'
  BY <1>1, <1>2, SameIsGrowing DEF SameShape
<1> QED
  BY <1>1, <1>3, OtherRowReported

LEMMA EndReported ==
    ASSUME IInv, IInv', Reported, NEW s \in Sessions, NEW own, End(s, own)
    PROVE  Reported'
<1>1. PICK used \in MaybeCount : Append(EndRow(tree, s, used), s)
  BY DEF End
<1> DEFINE u == EndRow(tree, s, used)
<1>2. /\ holder = Nobody /\ Running(tree, s) /\ holder' = Unlinking(s)
      /\ UNCHANGED <<file, origin, claims, hit>> /\ tree \in Tree
  BY DEF End, IInv, TypeOK
<1>3. /\ Grows(tree, u) /\ LeavesOthers(tree, u, s)
      /\ u.state[s] = "ended" /\ u.parent = tree.parent /\ u.proved = tree.proved
  BY <1>2, EndRowGrows
<1> HIDE DEF u
<1>4. /\ tree' = (IF torn THEN tree ELSE u) /\ lost' = (IF torn THEN lost \cup {s} ELSE lost)
  BY <1>1 DEF Append, u
<1>5. /\ holder'.op = "unlink" /\ holder'.session = s /\ holder'.tells = {Ended(s)}
      /\ holder' # Nobody
  <2>1. holder' \in Pending
    BY <1>2, ClaimTypes DEF Unlinking, Pending, MaybeEnvelope, Claim, Ended
  <2> QED
    BY <1>2, <2>1, NobodyAssumption DEF Unlinking
<1>6. HeldStays'
  BY <1>3, <1>4, <1>5 DEF HeldStays
<1>7. TellsHold'
  <2>1. Subject(Ended(s)) = s
    BY ClaimMeans
  <2>2. ~torn => ClaimHolds(Ended(s))'
    BY <1>3, <1>4 DEF ClaimHolds, Ended
  <2>3. TellsHold' <=> (s \notin lost' => ClaimHolds(Ended(s))')
    BY <1>5, <2>1 DEF TellsHold, Subject
  <2> QED
    BY <1>4, <2>2, <2>3
<1>8. Grows(tree, tree') /\ LeavesOthers(tree, tree', s) /\ lost \subseteq lost'
  BY <1>2, <1>3, <1>4, SameIsGrowing
<1>9. /\ tree'.parent[s] = tree.parent[s]
      /\ tree'.proved = [tree.proved EXCEPT ![s] = tree.proved[s]]
  BY <1>2, <1>3, <1>4 DEF Tree
<1> QED
  BY <1>2, <1>5, <1>6, <1>7, <1>8, <1>9, RowStep
-----------------------------------------------------------------------------
(* The file half and the faults.                                           *)

LEMMA FileReported ==
    ASSUME IInv, IInv', Reported, UNCHANGED <<tree, lost>>, hit \subseteq hit',
           holder' \in {holder, Nobody},
           \A c \in claims' : c \in claims \/ (holder # Nobody /\ c \in holder.tells),
           \A c \in Sessions : c \notin hit' /\ c \notin lost =>
               \/ ~(holder # Nobody /\ holder.session = c) /\ Lookup(c)' = Lookup(c)
               \/ holder # Nobody /\ holder.session = c /\ holder' = holder
               \/ Lookup(c)' = IF Running(tree, c) THEN tree.env[c] ELSE NoEnvelope
    PROVE  Reported'
<1>r. TellsHold /\ HeldStays /\ UnprovedWasAllowed /\ ClaimsHold /\ FilesFollowLedger
  BY DEF Reported
<1>1. HeldStays' /\ TellsHold'
  BY <1>r DEF HeldStays, TellsHold, ClaimHolds, Subject
<1>2. UnprovedWasAllowed'
  BY <1>r DEF UnprovedWasAllowed
<1>3. ClaimsHold'
  <2> SUFFICES ASSUME NEW c \in claims', Subject(c) \notin lost PROVE ClaimHolds(c)
    BY DEF ClaimsHold, ClaimHolds
  <2> QED
    BY <1>r DEF ClaimsHold, TellsHold
<1>4. FilesFollowLedger'
  <2> SUFFICES ASSUME NEW c \in Sessions, c \notin hit', c \notin lost,
                      ~(holder' # Nobody /\ holder'.session = c)
               PROVE  Lookup(c)' = IF Running(tree, c) THEN tree.env[c] ELSE NoEnvelope
    BY DEF FilesFollowLedger
  <2> QED
    BY <1>r DEF FilesFollowLedger
<1> QED
  BY <1>1, <1>2, <1>3, <1>4 DEF Reported

LEMMA RegisterReported ==
    ASSUME IInv, IInv', Reported, Register
    PROVE  Reported'
<1>0. PICK s \in Sessions, e \in Envelope : s = holder.session /\ e = holder.env
  BY DEF Register, IInv, TypeOK, HeldIsDue, Pending
<1>1. /\ holder # Nobody /\ holder.op = "register"
      /\ file' = [file EXCEPT ![s] = e] /\ claims' = claims \cup holder.tells
      /\ holder' = Nobody /\ UNCHANGED <<tree, hit, lost>>
      /\ file \in [Sessions -> Envelope \cup {Absent, Unreadable}]
  BY <1>0 DEF Register, IInv, TypeOK
<1>2. Lookup(s)' = e
  BY <1>1, LedgerAssumption DEF Lookup
<1>3. s \notin lost => Running(tree, s) /\ tree.env[s] = e
  BY <1>0, <1>1 DEF Reported, HeldStays
<1>4. \A c \in Sessions : c # s => Lookup(c)' = Lookup(c)
  BY <1>1 DEF Lookup
<1> QED
  BY <1>0, <1>1, <1>2, <1>3, <1>4, FileReported

LEMMA UnlinkReported ==
    ASSUME IInv, IInv', Reported, Unlink
    PROVE  Reported'
<1>0. PICK s \in Sessions : s = holder.session
  BY DEF Unlink, IInv, TypeOK, Pending
<1>1. /\ holder # Nobody /\ holder.op = "unlink"
      /\ file' = [file EXCEPT ![s] = Absent] /\ claims' = claims \cup holder.tells
      /\ holder' = Nobody /\ UNCHANGED <<tree, hit, lost>>
      /\ file \in [Sessions -> Envelope \cup {Absent, Unreadable}]
  BY <1>0 DEF Unlink, IInv, TypeOK
<1>2. Lookup(s)' = NoEnvelope
  BY <1>1 DEF Lookup
<1>3. s \notin lost => ~Running(tree, s)
  BY <1>0, <1>1 DEF Reported, HeldStays, Running
<1>4. \A c \in Sessions : c # s => Lookup(c)' = Lookup(c)
  BY <1>1 DEF Lookup
<1> QED
  BY <1>0, <1>1, <1>2, <1>3, <1>4, FileReported

LEMMA GiveUpReported ==
    ASSUME IInv, IInv', Reported, UnlinkRefused \/ Abort
    PROVE  Reported'
<1>1. /\ holder # Nobody /\ holder' = Nobody /\ UNCHANGED <<tree, file, lost>>
      /\ hit' = hit \cup {holder.session}
      /\ claims' \in {claims, claims \cup holder.tells}
  BY DEF UnlinkRefused, Abort, Fault
<1>2. \A c \in Sessions : Lookup(c)' = Lookup(c)
  BY <1>1 DEF Lookup
<1> QED
  BY <1>1, <1>2, FileReported

LEMMA HitReported ==
    ASSUME IInv, IInv', Reported, NEW s \in Sessions,
           Restore(s) \/ \E left \in {Absent, Unreadable} : Spoil(s, left)
    PROVE  Reported'
<1>1. /\ s \in hit' /\ hit \subseteq hit' /\ UNCHANGED <<tree, lost, holder, claims>>
      /\ \A c \in Sessions : c # s => file'[c] = file[c]
  BY DEF Restore, Spoil, Fault, IInv, TypeOK
<1>2. \A c \in Sessions : c # s => Lookup(c)' = Lookup(c)
  BY <1>1 DEF Lookup
<1> QED
  BY <1>1, <1>2, FileReported

-----------------------------------------------------------------------------
(* The theorems.                                                           *)

LEMMA InitReported == Init => Reported
<1> SUFFICES ASSUME Init PROVE Reported
  OBVIOUS
<1>1. \A s \in Sessions : ~Running(tree, s) /\ tree.proved[s] /\ Lookup(s) = NoEnvelope
  BY DEF Init, EmptyTree, Running, Lookup
<1>2. holder = Nobody /\ claims = {}
  BY DEF Init
<1> QED
  BY <1>1, <1>2 DEF Reported, TellsHold, HeldStays, UnprovedWasAllowed, ClaimsHold, FilesFollowLedger

LEMMA NextReported == IInv /\ Reported /\ [Next]_vars => Reported'
<1> SUFFICES ASSUME IInv, Reported, [Next]_vars PROVE Reported'
  OBVIOUS
<1>i. IInv'
  BY NextKeeps
<1>1. CASE UNCHANGED vars \/ AppendCut
  <2>1. UNCHANGED <<tree, file, holder, claims, hit, lost>>
    BY <1>1 DEF vars, AppendCut
  <2>2. \A c \in Sessions : Lookup(c)' = Lookup(c)
    BY <2>1 DEF Lookup
  <2> QED
    BY <1>i, <2>1, <2>2, FileReported
<1>2. ASSUME NEW s \in Founders, NEW e \in RootEnvelopes, NEW tokens \in Wants,
             MakeRoot(s, e, tokens)
      PROVE  Reported'
  BY <1>2, <1>i, InputTypes, MakeRootReported
<1>3. ASSUME NEW p \in Sessions, NEW s \in Sessions, NEW e \in Proposals,
             NEW tokens \in Wants, NEW own \in Reports, NEW finishes \in BOOLEAN,
             \/ SpawnStarted(p, s, e, tokens, own, finishes)
             \/ SpawnRefused(p, s, e, tokens, own, finishes)
             \/ SpawnAsked(p, s, e, tokens, own, finishes)
      PROVE  Reported'
  BY <1>3, <1>i, InputTypes, SpawnStartedReported, RefusedReported, AskedReported
<1>4. ASSUME NEW a \in tree.asks, NEW finishes,
             Deny(a) \/ Allow(a, finishes) \/ AllowCut(a, finishes)
      PROVE  Reported'
  BY <1>4, <1>i, InputTypes, DenyReported, AllowReported, AllowCutReported
<1>5. ASSUME NEW s \in Sessions, NEW own, End(s, own)
      PROVE  Reported'
  BY <1>5, <1>i, EndReported
<1>6. ASSUME NEW s \in Sessions, Restore(s) \/ \E left \in {Absent, Unreadable} : Spoil(s, left)
      PROVE  Reported'
  BY <1>6, <1>i, HitReported
<1> QED
  BY <1>i, <1>1, <1>2, <1>3, <1>4, <1>5, <1>6, RegisterReported, UnlinkReported, GiveUpReported
     DEF Next, Command, Fail

LEMMA AlwaysReported == Spec => []Reported
<1>1. IInv /\ Reported /\ [Next]_vars => Reported'
  BY NextReported
<1> QED
  BY <1>1, InitReported, Invariant, PTL DEF Spec

\* A child that no proof let start was asked for under that parent and allowed: the answer is in the
\* ledger, unless a torn line took a row of the child.
THEOREM UnprovedMeansAllowed == Spec => []UnprovedWasAllowed
<1>1. Reported => UnprovedWasAllowed
  BY DEF Reported
<1> QED
  BY <1>1, AlwaysReported, PTL

\* What a command that returned Ok told its caller stays true of the ledger, whatever other commands and
\* faults follow, but for a session a row was lost of.
THEOREM ClaimsStayTrue == Spec => []ClaimsHold
<1>1. Reported => ClaimsHold
  BY DEF Reported
<1> QED
  BY <1>1, AlwaysReported, PTL

\* A session no fault has hit runs with its own envelope file, and has none once it does not run.
THEOREM FilesAgree == Spec => []FilesFollowLedger
<1>1. Reported => FilesFollowLedger
  BY DEF Reported
<1> QED
  BY <1>1, AlwaysReported, PTL

-----------------------------------------------------------------------------
(* The promise: TreeLedger implements DelegationTree while no row of the   *)
(* ledger is torn.                                                         *)

\* With no torn row, the file of a start is always written for a running node.
RegistersRunning ==
    holder # Nobody /\ holder.op = "register" => Running(tree, holder.session)

RInv ==
    /\ IInv
    /\ torn = FALSE
    /\ RegistersRunning

\* What the gate reads, as one function of the sessions.
Reads == [s \in Sessions |-> Lookup(s)]

LEMMA PromiseWords ==
    /\ Promise!Envelope = Envelope
    /\ \A x, y : Promise!Covers(x, y) <=> Covers(x, y)
  BY DEF Promise!Envelope, Envelope, Promise!Stakes, Stakes, Promise!Policies,
         Policies, Promise!Covers, Covers, Promise!NoLater, NoLater

LEMMA PromiseInit == Init => Promise!DInit
<1> SUFFICES ASSUME Init PROVE Promise!DInit
  OBVIOUS
<1>1. \A s \in Sessions : Lookup(s) = NoEnvelope
  BY DEF Init, Lookup
<1> QED
  BY <1>1 DEF Init, EmptyTree, Promise!DInit

-----------------------------------------------------------------------------
(* The kinds of steps of the promise.                                      *)

LEMMA FoundStep ==
    ASSUME RInv, NEW s \in Sessions, NEW e \in Envelope, NEW tokens \in MaybeCount,
           MakeRoot(s, e, tokens)
    PROVE  Promise!Found(s) /\ torn' = FALSE /\ RegistersRunning'
<1> DEFINE u == RootRow(tree, s, e, tokens)
<1>1. /\ ~IsNode(tree, s) /\ tree \in Tree /\ Sound(tree) /\ file[s] = Absent
      /\ torn = FALSE
  BY DEF MakeRoot, Free, RInv, IInv, TypeOK
<1>2. /\ u.state = [tree.state EXCEPT ![s] = "running"]
      /\ u.parent = [tree.parent EXCEPT ![s] = NoSession]
      /\ u.root = [tree.root EXCEPT ![s] = s]
      /\ u.env = [tree.env EXCEPT ![s] = e]
      /\ u.proved = [tree.proved EXCEPT ![s] = TRUE]
  BY <1>1, RootRowIsSound
<1> HIDE DEF u
<1>3. /\ tree' = u /\ torn' = FALSE /\ file' = file
      /\ holder' = Registering(s, e, e, {Started(s, NoSession, tokens)})
  BY <1>1 DEF MakeRoot, Append, u
<1>4. tree'.env[s] = e /\ tree'.state[s] = "running"
  BY <1>1, <1>2, <1>3 DEF Tree
<1>5. Reads' = Reads /\ Reads[s] = NoEnvelope
  BY <1>1, <1>3 DEF Reads, Lookup
<1>6. Promise!Gives(s, tree'.env[s])
  BY <1>2, <1>3, <1>4, PromiseWords DEF Promise!Gives
<1>7. Promise!Found(s)
  BY <1>1, <1>2, <1>3, <1>5, <1>6 DEF Promise!Found, Reads, IsNode
<1> QED
  BY <1>3, <1>4, <1>7 DEF RegistersRunning, Registering, Running

LEMMA ProvedStep ==
    ASSUME RInv, NEW p \in Sessions, NEW s \in Sessions, NEW e \in Envelope,
           NEW tokens \in MaybeCount, NEW own \in MaybeCount, NEW finishes,
           SpawnStarted(p, s, e, tokens, own, finishes)
    PROVE  Promise!Delegate(p, s, TRUE) /\ torn' = FALSE /\ RegistersRunning'
<1> DEFINE child == Effective(Lookup(p), e)
           u == SpawnRow(tree, p, s, child, tokens, TRUE, own)
           top == tree.env[tree.root[p]]
<1>1. /\ ~IsNode(tree, s) /\ Running(tree, p) /\ tree \in Tree /\ Sound(tree)
      /\ file[s] = Absent /\ torn = FALSE /\ IInv
      /\ SpawnReasons(p, e, tokens, own, finishes) = {}
  BY DEF SpawnStarted, MaySpawn, Free, RInv, IInv, TypeOK
<1>2. /\ child \in Envelope
      /\ tree.env[p].stakes # Physical
      /\ Covers(tree.env[p], child)
      /\ Covers(top, child)
  BY <1>1, ProvedChild
<1>3. /\ tree' = u /\ torn' = FALSE /\ file' = file
      /\ holder' = Registering(s, child, top, {Started(s, p, tokens)})
  BY <1>1 DEF SpawnStarted, Append
<1> HIDE DEF child
<1>4. PICK pr \in BOOLEAN : pr = TRUE
  OBVIOUS
<1> DEFINE v == SpawnRow(tree, p, s, child, tokens, pr, own)
<1>5. /\ v \in Tree /\ Sound(v) /\ v.asks = tree.asks
      /\ v.state = [tree.state EXCEPT ![s] = "running"]
      /\ v.parent = [tree.parent EXCEPT ![s] = p]
      /\ v.root = [tree.root EXCEPT ![s] = tree.root[p]]
      /\ v.env = [tree.env EXCEPT ![s] = child]
      /\ v.proved = [tree.proved EXCEPT ![s] = pr]
  BY <1>1, <1>2, SpawnRowIsSound
<1>6. tree' = v
  BY <1>3, <1>4
<1> HIDE DEF u, v
<1>7. tree'.env[s] = child /\ tree'.state[s] = "running"
  BY <1>1, <1>5, <1>6 DEF Tree
<1>8. Reads' = Reads /\ Reads[s] = NoEnvelope
  BY <1>1, <1>3 DEF Reads, Lookup
<1>9. Promise!Gives(s, tree'.env[s])
  BY <1>2, <1>5, <1>6, <1>7, PromiseWords DEF Promise!Gives
<1>10. Promise!Delegate(p, s, TRUE)
  BY <1>1, <1>2, <1>4, <1>5, <1>6, <1>7, <1>8, <1>9, PromiseWords
     DEF Promise!Delegate, Reads, IsNode, Running
<1> QED
  BY <1>3, <1>7, <1>10 DEF RegistersRunning, Registering, Running

LEMMA AllowedStep ==
    ASSUME RInv, NEW a \in Ask, NEW finishes, Allow(a, finishes)
    PROVE  /\ Promise!Delegate(a.parent, a.session, FALSE)
           /\ torn' = FALSE /\ RegistersRunning'
<1> DEFINE p == a.parent
           s == a.session
           child == Effective(Lookup(tree.root[p]), a.envelope)
           top == tree.env[tree.root[p]]
           t == AnswerRow(tree, a, "allow")
           told == {Started(s, p, a.tokens), About("allow", a)}
<1>1. /\ ~IsNode(tree, s) /\ Running(tree, p) /\ tree \in Tree /\ Sound(tree)
      /\ file[s] = Absent /\ torn = FALSE /\ IInv /\ MayAllow(a, finishes)
  BY DEF Allow, MayAllow, Free, RInv, IInv, TypeOK
<1>2. /\ p \in Sessions /\ s \in Sessions
      /\ child \in Envelope /\ a.tokens \in MaybeCount
      /\ tree.env[p].stakes # Physical
      /\ Covers(top, child)
  BY <1>1, AllowedChild
<1>3. /\ tree' = SpawnRow(t, p, s, child, a.tokens, FALSE, NoCount)
      /\ holder' = Registering(s, child, top, told)
      /\ torn' = FALSE /\ file' = file
  BY <1>1 DEF Allow
<1>4. t \in Tree /\ SameShape(tree, t)
  BY <1>1, OtherRowFields
<1> HIDE DEF child, t, told, top
<1>5. PICK pr \in BOOLEAN, own \in MaybeCount : pr = FALSE /\ own = NoCount
  BY DEF MaybeCount
<1> DEFINE v == SpawnRow(t, p, s, child, a.tokens, pr, own)
<1>6. /\ Running(t, p) /\ ~IsNode(t, s) /\ Sound(t)
      /\ t.state = tree.state /\ t.parent = tree.parent /\ t.root = tree.root
      /\ t.env = tree.env /\ t.proved = tree.proved
  BY <1>1, <1>4, SameShapeIsSound DEF SameShape, IsNode, Running
<1>7. /\ v \in Tree /\ Sound(v) /\ v.asks = t.asks
      /\ v.state = [t.state EXCEPT ![s] = "running"]
      /\ v.parent = [t.parent EXCEPT ![s] = p]
      /\ v.root = [t.root EXCEPT ![s] = t.root[p]]
      /\ v.env = [t.env EXCEPT ![s] = child]
      /\ v.proved = [t.proved EXCEPT ![s] = pr]
  <2>1. /\ t.env[p].stakes # Physical
        /\ Covers(t.env[t.root[p]], child)
        /\ pr => Covers(t.env[p], child)
    BY <1>2, <1>5, <1>6 DEF top
  <2> QED
    <3> HIDE DEF p, s
    <3> QED
      BY <1>2, <1>4, <1>6, <2>1, SpawnRowIsSound, SMTT(40)
<1>8. tree' = v
  BY <1>3, <1>5
<1> HIDE DEF v
<1>9. tree'.env[s] = child /\ tree'.state[s] = "running"
  BY <1>2, <1>4, <1>7, <1>8 DEF Tree
<1>10. Reads' = Reads /\ Reads[s] = NoEnvelope
  BY <1>1, <1>2, <1>3 DEF Reads, Lookup
<1>11. Promise!Gives(s, tree'.env[s])
  BY <1>2, <1>6, <1>7, <1>8, <1>9, PromiseWords DEF Promise!Gives
<1>12. Promise!Delegate(p, s, FALSE)
  BY <1>1, <1>2, <1>5, <1>6, <1>7, <1>8, <1>9, <1>10, <1>11, PromiseWords
     DEF Promise!Delegate, Reads, IsNode, Running, top
<1> QED
  BY <1>2, <1>3, <1>9, <1>12 DEF RegistersRunning, Registering, Running

LEMMA FinishStep ==
    ASSUME RInv, NEW s \in Sessions, NEW own, End(s, own)
    PROVE  Promise!Finish(s) /\ torn' = FALSE /\ RegistersRunning'
<1>1. PICK used \in MaybeCount : Append(EndRow(tree, s, used), s)
  BY DEF End
<1> DEFINE u == EndRow(tree, s, used)
<1>2. /\ Running(tree, s) /\ \A c \in Children(tree, s) : ~Running(tree, c)
      /\ holder' = Unlinking(s) /\ file' = file
      /\ tree \in Tree /\ torn = FALSE
  BY DEF End, Idle, RInv, IInv, TypeOK
<1>3. /\ u.state = [tree.state EXCEPT ![s] = "ended"]
      /\ u.parent = tree.parent /\ u.root = tree.root /\ u.env = tree.env
      /\ u.proved = tree.proved
  BY <1>2, EndRowFields
<1> HIDE DEF u
<1>4. tree' = u /\ torn' = FALSE
  BY <1>1, <1>2 DEF Append, u
<1>5. Reads' = Reads
  BY <1>2 DEF Reads, Lookup
<1>6. \A c \in Sessions : tree.parent[c] = s => tree.state[c] # "running"
  BY <1>2 DEF Children, IsNode, Running
<1>7. Promise!Finish(s)
  BY <1>2, <1>3, <1>4, <1>5, <1>6 DEF Promise!Finish, Reads, Running
<1> QED
  BY <1>2, <1>4, <1>7 DEF RegistersRunning, Unlinking

\* The file half: an envelope comes to a running session or goes.
LEMMA OpenStep ==
    ASSUME RInv, Register
    PROVE  /\ Promise!Open(holder.session) /\ holder.session \in Sessions
           /\ torn' = FALSE /\ RegistersRunning'
<1> DEFINE s == holder.session
<1>1. /\ s \in Sessions /\ holder.env \in Envelope
      /\ Running(tree, s) /\ tree.env[s] = holder.env
  BY DEF Register, RInv, IInv, TypeOK, HeldIsDue, RegistersRunning, Pending,
         IsNode, Running
<1>2. /\ file' = [file EXCEPT ![s] = holder.env] /\ holder' = Nobody
      /\ UNCHANGED <<tree, torn>>
  BY DEF Register
<1>3. Reads' = [Reads EXCEPT ![s] = tree.env[s]]
  BY <1>1, <1>2, LedgerAssumption DEF RInv, IInv, TypeOK, Reads, Lookup
<1>4. Promise!Open(s)
  BY <1>1, <1>2, <1>3 DEF Promise!Open, Reads, Running
<1> QED
  BY <1>1, <1>2, <1>4 DEF RInv, RegistersRunning

LEMMA CloseStep ==
    ASSUME RInv, NEW s \in Sessions, NEW left \in {Absent, Unreadable},
           file' = [file EXCEPT ![s] = left], UNCHANGED <<tree, torn>>,
           holder' \in {Nobody, holder}
    PROVE  Promise!Close(s) /\ torn' = FALSE /\ RegistersRunning'
<1>1. Reads' = [Reads EXCEPT ![s] = NoEnvelope]
  BY DEF RInv, IInv, TypeOK, Reads, Lookup
<1>2. Promise!Close(s)
  BY <1>1 DEF Promise!Close, Reads
<1> QED
  BY <1>2 DEF RInv, RegistersRunning

LEMMA ReopenStep ==
    ASSUME RInv, NEW s \in Sessions, Restore(s)
    PROVE  Promise!Open(s) /\ torn' = FALSE /\ RegistersRunning'
<1>1. /\ Running(tree, s) /\ file' = [file EXCEPT ![s] = tree.env[s]]
      /\ UNCHANGED <<tree, torn, holder>>
  BY DEF Restore
<1>2. tree.env[s] \in Envelope
  BY <1>1, NodeFacts DEF RInv, Running, IsNode
<1>3. Reads' = [Reads EXCEPT ![s] = tree.env[s]]
  BY <1>1, <1>2, LedgerAssumption DEF RInv, IInv, TypeOK, Reads, Lookup
<1>4. Promise!Open(s)
  BY <1>1, <1>3 DEF Promise!Open, Reads, Running
<1> QED
  BY <1>1, <1>4 DEF RInv, RegistersRunning

\* Refusals, asks, denials and faults of the command at work change nothing the
\* promise speaks of.
Quiet == UNCHANGED <<tree.state, tree.parent, tree.root, tree.proved, tree.env,
                     Reads>>

LEMMA QuietRow ==
    ASSUME RInv, NEW s, NEW u, SameShape(tree, u), Append(u, s),
           UNCHANGED <<file, holder>>
    PROVE  Quiet /\ torn' = FALSE /\ RegistersRunning'
  BY DEF RInv, RegistersRunning, Quiet, Reads, Lookup, SameShape, Append, Running

LEMMA QuietStep ==
    ASSUME RInv, UNCHANGED <<tree, torn, file>>, holder' \in {Nobody, holder}
    PROVE  Quiet /\ torn' = FALSE /\ RegistersRunning'
  BY DEF RInv, RegistersRunning, Quiet, Reads, Lookup

-----------------------------------------------------------------------------

\* Every step is one of the promise's or is quiet, and what that rests on is kept.
Promised ==
    /\ Promise!DNext \/ Quiet
    /\ torn' = FALSE
    /\ RegistersRunning'

LEMMA StepKeepsPromise ==
    ASSUME "tear" \notin Faults, RInv, [Next]_vars
    PROVE  Promised
<1> USE InputTypes
<1> DEFINE Kept == torn' = FALSE /\ RegistersRunning'
<1>a. IInv /\ torn = FALSE /\ tree \in Tree
  BY DEF RInv, IInv, TypeOK
<1>1. CASE UNCHANGED vars
  BY <1>1, QuietStep DEF vars, Promised
<1>2. ASSUME NEW s \in Founders, NEW e \in RootEnvelopes, NEW tokens \in Wants,
             MakeRoot(s, e, tokens)
      PROVE  Promised
  BY <1>a, <1>2, FoundStep DEF Promise!DNext, Promised
<1>3. ASSUME NEW p \in Sessions, NEW s \in Sessions, NEW e \in Proposals,
             NEW tokens \in Wants, NEW own \in Reports, NEW finishes \in BOOLEAN,
             SpawnStarted(p, s, e, tokens, own, finishes)
      PROVE  Promised
  <2>1. Promise!Delegate(p, s, TRUE) /\ Kept
    BY <1>a, <1>3, ProvedStep
  <2> QED
    BY <2>1 DEF Promise!DNext, Promised
<1>4. ASSUME NEW p \in Sessions, NEW s, NEW e, NEW tokens, NEW own, NEW finishes,
             SpawnRefused(p, s, e, tokens, own, finishes)
      PROVE  Promised
  BY <1>a, <1>4, OtherRowFields, QuietRow
     DEF SpawnRefused, Promised
<1>5. ASSUME NEW p \in Sessions, NEW s \in Sessions, NEW e \in Proposals,
             NEW tokens \in Wants, NEW own, NEW finishes,
             SpawnAsked(p, s, e, tokens, own, finishes)
      PROVE  Promised
  <2>1. PICK a : Append(AskRow(tree, a), s) /\ UNCHANGED <<file, holder>>
    BY <1>5 DEF SpawnAsked
  <2>2. SameShape(tree, AskRow(tree, a))
    BY <1>a DEF AskRow, SameShape, Tree
  <2> QED
    BY <2>1, <2>2, QuietRow DEF Promised
<1>6. ASSUME NEW a \in tree.asks, NEW finishes,
             Deny(a) \/ Allow(a, finishes) \/ AllowCut(a, finishes)
      PROVE  Promised
  <2>1. a \in Ask /\ a.parent \in Sessions /\ a.session \in Sessions
    BY <1>a DEF Ask
  <2>2. CASE Deny(a)
    BY <1>a, <2>1, <2>2, OtherRowFields, QuietRow DEF Deny, Promised
  <2>3. CASE Allow(a, finishes)
    <3>1. Promise!Delegate(a.parent, a.session, FALSE) /\ Kept
      BY <2>1, <2>3, AllowedStep
    <3> QED
      BY <2>1, <3>1 DEF Promise!DNext, Promised
  <2>4. CASE AllowCut(a, finishes)
    BY <2>4 DEF AllowCut
  <2> QED
    BY <1>6, <2>2, <2>3, <2>4
<1>7. ASSUME NEW s \in Sessions, NEW own, End(s, own)
      PROVE  Promised
  BY <1>7, FinishStep DEF Promise!DNext, Promised
<1>8. CASE Register
  BY <1>8, OpenStep DEF Promise!DNext, Promised
<1>9. CASE Unlink
  <2>1. holder.session \in Sessions
    BY <1>a, <1>9 DEF Unlink, IInv, TypeOK, Pending
  <2>2. Promise!Close(holder.session) /\ Kept
    BY <1>9, <2>1, CloseStep DEF Unlink
  <2> QED
    BY <2>1, <2>2 DEF Promise!DNext, Promised
<1>10. CASE Fail
  <2>1. CASE UnlinkRefused \/ Abort
    BY <2>1, QuietStep DEF UnlinkRefused, Abort, Promised
  <2>2. ASSUME NEW s \in Sessions, NEW left \in {Absent, Unreadable}, Spoil(s, left)
        PROVE  Promised
    <3>1. Promise!Close(s) /\ Kept
      BY <2>2, CloseStep DEF Spoil
    <3> QED
      BY <3>1 DEF Promise!DNext, Promised
  <2>3. ~AppendCut
    BY DEF AppendCut
  <2>4. ASSUME NEW a \in tree.asks, NEW finishes \in BOOLEAN, AllowCut(a, finishes)
        PROVE  Promised
    BY <1>6, <2>4
  <2> QED
    BY <1>10, <2>1, <2>2, <2>3, <2>4 DEF Fail
<1>11. ASSUME NEW s \in Sessions, Restore(s)
       PROVE  Promised
  BY <1>11, ReopenStep DEF Promise!DNext, Promised
<1>12. CASE Command
  BY <1>2, <1>3, <1>4, <1>5, <1>6, <1>7, <1>12 DEF Command
<1> QED
  BY <1>1, <1>8, <1>9, <1>10, <1>11, <1>12 DEF Next

\* The ledger, its lock and its files do what the promise says of them: authority
\* is given once, inside the parent or by the operator inside the root, the gate
\* reads it or nothing, and a session ends after its children.  Crashes between a
\* row and its file, refused unlinks and spoiled files do not break it; a torn row
\* does, so they are left out.
THEOREM LedgerKeepsPromise ==
    ASSUME "tear" \notin Faults
    PROVE  Spec => KeepsPromise
<1>1. Init => RInv
  BY InitHolds DEF RInv, RegistersRunning, Init
<1>2. RInv /\ [Next]_vars => RInv'
  BY NextKeeps, StepKeepsPromise DEF RInv, Promised
<1>3. RInv /\ [Next]_vars =>
        [Promise!DNext]_<<tree.state, tree.parent, tree.root, tree.proved,
                          tree.env, [s \in Sessions |-> Lookup(s)]>>
  BY StepKeepsPromise DEF Promised, Quiet, Reads
<1> QED
  BY <1>1, <1>2, <1>3, PromiseInit, PTL
     DEF Spec, KeepsPromise, Promise!DSpec, Promise!dvars
=============================================================================
