----------------------------- MODULE TreeLedger -----------------------------
(***************************************************************************)
(* The delegation tree: the commands of clients/rust/src/tree.rs that      *)
(* write tree/ledger.jsonl and the envelope files the gate reads.          *)
(*                                                                         *)
(* A command holds the flock on tree/ledger.lock while it folds the        *)
(* ledger, checks, appends its row and then writes or removes one envelope *)
(* file.  The fold, the checks and the append are one step, since nothing  *)
(* else writes the ledger.  The file is a second step: the gate reads      *)
(* envelopes without the lock, and the process may die or meet an I/O      *)
(* error in between.  A command that refuses writes nothing and is a       *)
(* stuttering step.                                                        *)
(*                                                                         *)
(* An append that is cut short leaves a last line with no newline.  The    *)
(* next row is written after it on the same line, which then reads as      *)
(* neither: torn says that the next row appended will be lost.             *)
(***************************************************************************)
EXTENDS TreeFold, FiniteSets

CONSTANTS
    AskAfter,     \* ASK_AFTER: 3 in the code
    Absent,       \* no envelope file
    Unreadable,   \* an envelope file the gate refuses or cannot parse
    Nobody,       \* nobody is between the two steps of a command
    Founders,     \* the sessions the operator makes roots of
    RootEnvelopes,\* the envelopes the operator makes roots with
    Proposals,    \* the envelopes starters propose
    Wants,        \* the amounts callers ask for
    Reports,      \* the own use callers report
    Faults,       \* the kinds of faults that may happen
    MaxHit,       \* bound: how many sessions a fault hits
    MaxAsks       \* bound: how many asks are made

ASSUME LedgerAssumption ==
    /\ AskAfter \in Nat
    /\ Absent \notin Envelope /\ Unreadable \notin Envelope
    /\ Absent # Unreadable
    /\ Founders \subseteq Sessions
    /\ RootEnvelopes \subseteq Envelope
    /\ Proposals \subseteq Envelope
    /\ Wants \subseteq MaybeCount
    /\ Reports \subseteq MaybeCount
    /\ Faults \subseteq {"abort", "tear", "spoil", "unlink"}
    /\ MaxHit \in Nat
    /\ MaxAsks \in Nat

VARIABLES
    tree,     \* what read_tree returns
    torn,     \* the ledger's last line has no newline
    file,     \* envelopes/<session>.json, by session
    holder,   \* what the command that holds the lock has still to do
    origin,   \* history: the root's envelope when a session's file was written
    claims,   \* history: what commands that returned Ok told their callers
    hit,      \* history: the sessions whose file step a fault has hit
    lost      \* history: the sessions a row was lost of

vars == <<tree, torn, file, holder, origin, claims, hit, lost>>

MaybeEnvelope == Envelope \cup {NoEnvelope}

Claim == [what : {"started"}, session : Sessions, tokens : MaybeCount,
          parent : Sessions \cup {NoSession}]
         \cup [what : {"ended"}, session : Sessions]
         \cup [what : {"asked", "allow", "deny"}, ask : Ask]

\* The second half of a command: the file to write or remove, and what the
\* caller is told once that is done.
Pending == [op : {"register", "unlink"}, session : Sessions,
            env : MaybeEnvelope, top : MaybeEnvelope, tells : SUBSET Claim]

ASSUME NobodyAssumption == Nobody \notin Pending

Started(s, p, tokens) ==
    [what |-> "started", session |-> s, tokens |-> tokens, parent |-> p]
Ended(s) == [what |-> "ended", session |-> s]
About(what, a) == [what |-> what, ask |-> a]

Registering(s, e, top, tells) ==
    [op |-> "register", session |-> s, env |-> e, top |-> top, tells |-> tells]
Unlinking(s) ==
    [op |-> "unlink", session |-> s, env |-> NoEnvelope, top |-> NoEnvelope,
     tells |-> {Ended(s)}]

Init ==
    /\ tree = EmptyTree
    /\ torn = FALSE
    /\ file = [s \in Sessions |-> Absent]
    /\ holder = Nobody
    /\ origin = [s \in Sessions |-> NoEnvelope]
    /\ claims = {}
    /\ hit = {}
    /\ lost = {}

\* load_registered
Lookup(s) == IF file[s] \in {Absent, Unreadable} THEN NoEnvelope ELSE file[s]

\* Mutant: an ended session's id is free again.
FreeOnceEnded(s) == ~Running(tree, s) /\ file[s] = Absent

\* A session is taken by a node or by a file of its name, readable or not.
Free(s) == ~IsNode(tree, s) /\ file[s] = Absent

\* append of one row about s, after which the tree is t unless the row is lost
Append(t, s) ==
    /\ tree' = IF torn THEN tree ELSE t
    /\ lost' = IF torn THEN lost \cup {s} ELSE lost
    /\ torn' = FALSE

-----------------------------------------------------------------------------
(* tree root                                                               *)

MakeRoot(s, e, tokens) ==
    /\ holder = Nobody
    /\ Free(s)
    /\ Append(RootRow(tree, s, e, tokens), s)
    /\ holder' = Registering(s, e, e, {Started(s, NoSession, tokens)})
    /\ UNCHANGED <<file, origin, claims, hit>>

-----------------------------------------------------------------------------
(* tree spawn                                                              *)

MaySpawn(p, s) ==
    /\ holder = Nobody
    /\ Running(tree, p)
    /\ Free(s)
    /\ \A a \in OpenAsks(tree) : a.session # s

\* Why the child may not start.  own is the parent's use as this call reports
\* it, which the ledger keeps only if the child starts.
SpawnReasons(p, e, tokens, own, finishes) ==
    LET penv == Lookup(p)
        used == IF own = NoCount THEN tree.own[p] ELSE own
    IN  (IF penv # NoEnvelope /\ penv.stakes = Physical
         THEN {"physical"}
         ELSE EdgeReasons(penv, e, finishes))
        \cup
        (IF BudgetFits(tree, p, used, tokens) THEN {} ELSE {"budget"})

SpawnStarted(p, s, e, tokens, own, finishes) ==
    /\ MaySpawn(p, s)
    /\ SpawnReasons(p, e, tokens, own, finishes) = {}
    /\ LET child == Effective(Lookup(p), e)
       IN  /\ Append(SpawnRow(tree, p, s, child, tokens, TRUE, own), s)
           /\ holder' = Registering(s, child, tree.env[tree.root[p]],
                                     {Started(s, p, tokens)})
    /\ UNCHANGED <<file, origin, claims, hit>>

SpawnRefused(p, s, e, tokens, own, finishes) ==
    /\ MaySpawn(p, s)
    /\ SpawnReasons(p, e, tokens, own, finishes) # {}
    /\ tree.refused[p] < AskAfter
    /\ Append(RefusedRow(tree, p), s)
    /\ UNCHANGED <<file, holder, origin, claims, hit>>

SpawnAsked(p, s, e, tokens, own, finishes) ==
    /\ MaySpawn(p, s)
    /\ SpawnReasons(p, e, tokens, own, finishes) # {}
    /\ tree.refused[p] >= AskAfter
    /\ Cardinality(tree.asks) < MaxAsks
    /\ LET a == [parent |-> p, session |-> s, envelope |-> e, tokens |-> tokens,
                 n |-> Cardinality(tree.asks),
                 reasons |-> SpawnReasons(p, e, tokens, own, finishes)]
       IN  /\ Append(AskRow(tree, a), s)
           /\ claims' = claims \cup {About("asked", a)}
    /\ UNCHANGED <<file, holder, origin, hit>>

-----------------------------------------------------------------------------
(* tree answer                                                             *)

Deny(a) ==
    /\ holder = Nobody
    /\ a \in OpenAsks(tree)
    /\ Append(AnswerRow(tree, a, "deny"), a.session)
    /\ claims' = claims \cup {About("deny", a)}
    /\ UNCHANGED <<file, holder, origin, hit>>

\* Mutant: a parent with no envelope of its own lets anything start.
ParentLetsUnread(p) ==
    /\ file[p] # Unreadable
    /\ Lookup(p) # NoEnvelope => Lookup(p).stakes # Physical

\* An unreadable envelope and physical stakes stop an allow, and so does a parent
\* with no envelope at all, unless it is the root.
ParentLets(p) ==
    /\ file[p] # Unreadable
    /\ Lookup(p) # NoEnvelope => Lookup(p).stakes # Physical
    /\ Lookup(p) # NoEnvelope \/ p = tree.root[p]

\* An allow is held to the root of the branch, not to the parent.
MayAllow(a, finishes) ==
    LET p == a.parent
        top == tree.root[p]
    IN  /\ holder = Nobody
        /\ a \in OpenAsks(tree)
        /\ Running(tree, p)
        /\ Free(a.session)
        /\ BudgetFits(tree, p, tree.own[p], a.tokens)
        /\ ParentLets(p)
        /\ EdgeOk(Lookup(top), a.envelope, finishes)

\* The answer and the spawn go down in one write; a torn tail takes only the
\* first of them.
Allow(a, finishes) ==
    /\ MayAllow(a, finishes)
    /\ LET p == a.parent
           top == tree.root[p]
           child == Effective(Lookup(top), a.envelope)
           answered == IF torn THEN tree ELSE AnswerRow(tree, a, "allow")
       IN  /\ tree' = SpawnRow(answered, p, a.session, child, a.tokens, FALSE,
                               NoCount)
           /\ holder' = Registering(a.session, child, tree.env[top],
                                     {Started(a.session, p, a.tokens),
                                      About("allow", a)})
    /\ lost' = IF torn THEN lost \cup {a.session} ELSE lost
    /\ torn' = FALSE
    /\ UNCHANGED <<file, origin, claims, hit>>

-----------------------------------------------------------------------------
(* tree end                                                                *)

\* Mutant: the children are not looked at.
IdleAlways(s) == TRUE

Idle(s) == \A c \in Children(tree, s) : ~Running(tree, c)

End(s, own) ==
    /\ holder = Nobody
    /\ Running(tree, s)
    /\ Idle(s)
    /\ \E used \in MaybeCount :
          /\ used = BranchTotal(tree, s, own)
          /\ Append(EndRow(tree, s, used), s)
    /\ holder' = Unlinking(s)
    /\ UNCHANGED <<file, origin, claims, hit>>

-----------------------------------------------------------------------------
(* The second step, under the same lock                                    *)

\* The envelope goes to the gate root, and the command returns.
Register ==
    /\ holder # Nobody
    /\ holder.op = "register"
    /\ file' = [file EXCEPT ![holder.session] = holder.env]
    /\ origin' = [origin EXCEPT ![holder.session] = holder.top]
    /\ claims' = claims \cup holder.tells
    /\ holder' = Nobody
    /\ UNCHANGED <<tree, torn, hit, lost>>

\* Mutant: the file of an ended session stays.
UnlinkForgotten ==
    /\ holder # Nobody
    /\ holder.op = "unlink"
    /\ claims' = claims \cup holder.tells
    /\ holder' = Nobody
    /\ UNCHANGED <<tree, torn, file, origin, hit, lost>>

Unlink ==
    /\ holder # Nobody
    /\ holder.op = "unlink"
    /\ file' = [file EXCEPT ![holder.session] = Absent]
    /\ claims' = claims \cup holder.tells
    /\ holder' = Nobody
    /\ UNCHANGED <<tree, torn, origin, hit, lost>>

-----------------------------------------------------------------------------
(* Faults                                                                  *)

Fault(kind, s) ==
    /\ kind \in Faults
    /\ hit' = hit \cup {s}
    /\ Cardinality(hit' \cup lost) <= MaxHit
    /\ lost' = lost

\* The directory is refused: end says so on stderr and returns Ok.
UnlinkRefused ==
    /\ holder # Nobody
    /\ holder.op = "unlink"
    /\ Fault("unlink", holder.session)
    /\ claims' = claims \cup holder.tells
    /\ holder' = Nobody
    /\ UNCHANGED <<tree, torn, file, origin>>

\* The process dies after its append, or the file step returns an error; either
\* way the lock is free again and nobody is told that it worked.
Abort ==
    /\ holder # Nobody
    /\ Fault("abort", holder.session)
    /\ holder' = Nobody
    /\ UNCHANGED <<tree, torn, file, origin, claims>>

\* A full disk or a crash cuts the only row of an append.
AppendCut ==
    /\ "tear" \in Faults
    /\ holder = Nobody
    /\ ~torn
    /\ Cardinality(hit \cup lost) < MaxHit
    /\ torn' = TRUE
    /\ UNCHANGED <<tree, file, holder, origin, claims, hit, lost>>

\* ... or the second row of an allow: the answer stands and no child starts.
AllowCut(a, finishes) ==
    /\ "tear" \in Faults
    /\ MayAllow(a, finishes)
    /\ Cardinality(hit \cup lost \cup {a.session}) <= MaxHit
    /\ tree' = IF torn THEN tree ELSE AnswerRow(tree, a, "allow")
    /\ lost' = lost \cup {a.session}
    /\ torn' = TRUE
    /\ UNCHANGED <<file, holder, origin, claims, hit>>

\* A file is removed, or left in a state the gate refuses to read.
Spoil(s, left) ==
    /\ Fault("spoil", s)
    /\ Lookup(s) # NoEnvelope
    /\ file' = [file EXCEPT ![s] = left]
    /\ UNCHANGED <<tree, torn, holder, origin, claims>>

\* The operator registers a running node's own envelope again, the fix that
\* tree answer names.
Restore(s) ==
    /\ s \in hit
    /\ Running(tree, s)
    /\ Lookup(s) = NoEnvelope
    /\ file' = [file EXCEPT ![s] = tree.env[s]]
    /\ origin' = [origin EXCEPT ![s] = tree.env[tree.root[s]]]
    /\ UNCHANGED <<tree, torn, holder, claims, hit, lost>>

-----------------------------------------------------------------------------

Command ==
    \/ \E s \in Founders, e \in RootEnvelopes, tokens \in Wants :
          MakeRoot(s, e, tokens)
    \/ \E p, s \in Sessions, e \in Proposals, tokens \in Wants,
          own \in Reports, finishes \in BOOLEAN :
          \/ SpawnStarted(p, s, e, tokens, own, finishes)
          \/ SpawnRefused(p, s, e, tokens, own, finishes)
          \/ SpawnAsked(p, s, e, tokens, own, finishes)
    \/ \E a \in tree.asks : Deny(a)
    \/ \E a \in tree.asks, finishes \in BOOLEAN : Allow(a, finishes)
    \/ \E s \in Sessions, own \in Reports : End(s, own)

Fail ==
    \/ UnlinkRefused
    \/ Abort
    \/ AppendCut
    \/ \E a \in tree.asks, finishes \in BOOLEAN : AllowCut(a, finishes)
    \/ \E s \in Sessions, left \in {Absent, Unreadable} : Spoil(s, left)

Next ==
    \/ Command
    \/ Register
    \/ Unlink
    \/ Fail
    \/ \E s \in Sessions : Restore(s)

Spec == Init /\ [][Next]_vars

-----------------------------------------------------------------------------
(* What must hold.                                                         *)

TypeOK ==
    /\ tree \in Tree
    /\ torn \in BOOLEAN
    /\ file \in [Sessions -> Envelope \cup {Absent, Unreadable}]
    /\ holder \in Pending \cup {Nobody}
    /\ origin \in [Sessions -> MaybeEnvelope]
    /\ claims \subseteq Claim
    /\ hit \subseteq Sessions
    /\ lost \subseteq Sessions

\* The induction of the yellow paper, section 5.5: whatever was refused, asked,
\* allowed by the operator or cut by a fault, an envelope the gate can read lets
\* its session do nothing that the root of its branch may not.
WithinRoot ==
    \A s \in Sessions :
        Lookup(s) # NoEnvelope => Covers(origin[s], Lookup(s))

\* The parents of the nodes make a forest, and no child runs under a parent that
\* has ended: end refuses a node with running children, and nothing starts under
\* a node that does not run.
ParentsRun ==
    \A s \in Sessions :
        LET p == tree.parent[s]
        IN  /\ p # NoSession => IsNode(tree, s) /\ IsNode(tree, p)
            /\ p # NoSession => tree.root[s] = tree.root[p]
            /\ p = NoSession => tree.root[s] = s
            /\ p # NoSession /\ Running(tree, s) => Running(tree, p)

\* AT-5: a node with physical stakes starts no agent, by a proof or by an allow,
\* whatever became of its envelope file.
NoPhysicalParent ==
    \A s \in Sessions :
        tree.parent[s] # NoSession =>
            tree.env[tree.parent[s]].stakes # Physical

\* A node that is not proved against its parent is one the operator allowed: an
\* ask for that session under that parent was answered with allow.
UnprovedWasAllowed ==
    \A s \in Sessions \ lost :
        ~tree.proved[s] =>
            \E a \in tree.asks :
                /\ a.session = s
                /\ a.parent = tree.parent[s]
                /\ <<a, "allow">> \in tree.answers

\* What a command reported stays true of the ledger: a session it started or
\* ended is so, an ask it made can be answered, an answer it took is the one
\* answer the ask ever gets.  A session a row was lost of is excepted: nothing
\* tells a caller that a torn line took its row.
ClaimHolds(c) ==
    CASE c.what = "started" -> IsNode(tree, c.session)
      [] c.what = "ended"   -> tree.state[c.session] = "ended"
      [] c.what = "asked"   -> c.ask \in tree.asks
      [] OTHER              -> /\ <<c.ask, c.what>> \in tree.answers
                               /\ \A v \in {"allow", "deny"} :
                                     <<c.ask, v>> \in tree.answers => v = c.what
Subject(c) == IF c.what \in {"started", "ended"} THEN c.session ELSE c.ask.session
ClaimsHold == \A c \in claims : Subject(c) \notin lost => ClaimHolds(c)

\* What the gate can read of a child whose edge was proved lies inside what its
\* parent was given; only an allow may pass the parent.
ProvedWithinParent ==
    \A s \in Sessions :
        /\ tree.parent[s] # NoSession
        /\ tree.proved[s]
        /\ Lookup(s) # NoEnvelope
        => Covers(tree.env[tree.parent[s]], Lookup(s))

\* The ledger and the files agree on every session that no fault has hit: a
\* running node has its own envelope, and no file is left for a session that
\* does not run.  The session of the command at work is excepted.
FilesFollowLedger ==
    \A s \in Sessions \ (hit \cup lost) :
        \/ holder # Nobody /\ holder.session = s
        \/ Lookup(s) = IF Running(tree, s) THEN tree.env[s] ELSE NoEnvelope

\* MX-R-14: a node costs its parent no less than its children cost it, up to the
\* largest count, at every depth and however they ended, so an overrun reaches
\* the root.
OverrunReachesRoot ==
    \A s \in Sessions :
        IsNode(tree, s) =>
            Charge(tree)[s] >= AtMost(ChildrenCharge(tree, s), MaxCount)

\* Budgets are split, not copied: what a budgeted node has given away passes its
\* budget only when a node below it ended with more than it had reserved.  No
\* order of spawns, allows, roll-ups and unreported ends does it.
OnlyOverrunsGoNegative ==
    \A s \in Sessions :
        tree.tokens[s] # NoCount /\ Left(tree, s) < 0 =>
            \E d \in Sessions :
                /\ s \in Above(tree)[d]
                /\ tree.used[d] # NoCount /\ tree.tokens[d] # NoCount
                /\ tree.used[d] > tree.tokens[d]

\* TR-R-5: two starters cannot reserve the same budget.  The reservations of the
\* children that starters were told of under one node, and that have not ended,
\* fit its budget together.
Held(p) == {c \in claims : /\ c.what = "started"
                           /\ c.parent = p
                           /\ tree.state[c.session] # "ended"}
ReservationsFit ==
    \A p \in Sessions :
        tree.tokens[p] # NoCount =>
            MapThenSumSet(LAMBDA c : c.tokens, Held(p)) <= tree.tokens[p]
\* ... which the code keeps as long as no row was lost.
KeptReservationsFit == lost = {} => ReservationsFit

\* The authority of a session is fixed for its life: an envelope file is never
\* replaced by one with other content, and once an ended session's file is gone
\* no command brings it back.
AuthorityIsFixed ==
    [][\A s \in Sessions :
          /\ Lookup(s) # NoEnvelope /\ Lookup(s)' # NoEnvelope
                => Lookup(s)' = Lookup(s)
          /\ tree.state[s] = "ended" /\ file[s] = Absent
                => file'[s] = Absent]_vars

-----------------------------------------------------------------------------
(* What the ledger and the files implement, while no row is lost.          *)

Promise == INSTANCE DelegationTree WITH
    status <- tree.state, parent <- tree.parent, root <- tree.root,
    proved <- tree.proved, grant <- tree.env,
    access <- [s \in Sessions |-> Lookup(s)]

\* Every step of a command, of a fault or of a repair is a step of the promise
\* or changes nothing the promise speaks of.
KeepsPromise == Promise!DSpec
=============================================================================
