-------------------------- MODULE WorkerPoolProofs --------------------------
(***************************************************************************)
(* Proofs about WorkerPool for every set of labels and entries, any number *)
(* of slots, failures, edits, closes and restarts.  Most hold as long as   *)
(* no worker ends while it is frozen (~EndMeetsFreeze; the run pool_held   *)
(* shows what happens when one does); the last section, on what a restart  *)
(* finds in the two files, holds whatever the workers do.                  *)
(***************************************************************************)
EXTENDS WorkerPool, FiniteSetTheorems, WellFoundedInduction, TLAPS

-----------------------------------------------------------------------------
(* The invariant.  m stands for the table on its way through a region      *)
(* under the lock, R for the held jobs the pump still has in hand.         *)

Table ==
    [state : [Labels -> States], entry : [Labels -> Entries \cup {0}], bg : SUBSET Labels,
     fgHeld : Seq(Job), bgHeld : Seq(Job),
     pids : [Labels -> Nat], frozen : [Labels -> Nat],
     fresh : SUBSET Labels, noYield : SUBSET Labels,
     cooling : SUBSET Entries, recent : SUBSET Entries, runs : Seq(Run)]

LabelsOf(S) == {j.label : j \in S}

\* No two places of a queue hold jobs of one label.
Single(q) == \A i, k \in DOMAIN q : q[i].label = q[k].label => i = k

Waiting(m) == {l \in Labels : m.state[l] \in {"queued", "paused"}}

\* The held jobs are those that wait, each once, in the queue of its kind; only a paused one lost its brief.
HeldOnce(m, R) ==
    /\ Single(m.fgHeld) /\ Single(m.bgHeld)
    /\ LabelsOf(ToSet(m.fgHeld)) \cap m.bg = {} /\ LabelsOf(ToSet(m.bgHeld)) \subseteq m.bg
    /\ LabelsOf(R) \cap LabelsOf(ToSet(m.fgHeld)) = {}
    /\ LabelsOf(R) \cap LabelsOf(ToSet(m.bgHeld)) = {}
    /\ LabelsOf(R) \cup LabelsOf(ToSet(m.fgHeld)) \cup LabelsOf(ToSet(m.bgHeld)) = Waiting(m)
    /\ \A j \in R \cup ToSet(m.fgHeld) \cup ToSet(m.bgHeld) : m.state[j.label] = "queued" => j.full

\* A run that may still report.
Current(m, r) == m.runs[r].at \notin {"over", "gone"}

\* What a run has of a process goes with where its thread is.
Phases(m) ==
    \A r \in DOMAIN m.runs :
        /\ m.runs[r].full
        /\ m.runs[r].at = "setup" => m.runs[r].proc = "none"
        /\ m.runs[r].at = "born" => m.runs[r].proc \in {"live", "zombie"}
        /\ m.runs[r].at = "wait" => /\ m.runs[r].proc \in {"live", "stopped", "zombie"}
                                    /\ m.pids[m.runs[r].label] = r
        /\ m.runs[r].at \notin {"setup", "born", "wait"} => m.runs[r].proc \in {"none", "reaped"}

\* One run at most is current for a label, its record says so, and it waits when the record is paused.
OneCurrent(m) ==
    /\ \A r \in DOMAIN m.runs : Current(m, r) =>
          /\ m.state[m.runs[r].label] \in {"running", "paused"}
          /\ m.state[m.runs[r].label] = "paused" => m.runs[r].at = "wait"
    /\ \A r, s \in DOMAIN m.runs :
          Current(m, r) /\ Current(m, s) /\ m.runs[r].label = m.runs[s].label => r = s

\* A recorded pid is of a run of that label; what is frozen is that, of a paused job, and all that is stopped.
Recorded(m) ==
    /\ \A l \in Labels : m.pids[l] # 0 =>
          /\ m.pids[l] \in DOMAIN m.runs /\ m.runs[m.pids[l]].label = l
          /\ m.runs[m.pids[l]].at \notin {"setup", "born", "gone"}
    /\ \A l \in Labels : m.frozen[l] # 0 =>
          /\ m.frozen[l] = m.pids[l] /\ m.state[l] = "paused"
          /\ m.runs[m.pids[l]].proc = "stopped"
    /\ \A r \in DOMAIN m.runs : m.runs[r].proc = "stopped" => m.frozen[m.runs[r].label] = r

Good(m, R) == m \in Table /\ HeldOnce(m, R) /\ Phases(m) /\ OneCurrent(m) /\ Recorded(m)

\* A job that went on in place, in the run that did.
Exempt(m, l) ==
    l \in m.noYield /\ m.pids[l] # 0 /\ m.runs[m.pids[l]].at \notin {"over", "gone"}

Counted(m, e) == {l \in On(m, e) : ~Exempt(m, l)}

\* Until the close: who runs or is paused has its run, where the record says, and the slots are kept.
Live(m) ==
    /\ \A l \in Labels : m.state[l] \in {"running", "paused"} =>
          \E r \in DOMAIN m.runs : m.runs[r].label = l /\ Current(m, r)
    /\ \A l \in Labels : m.state[l] = "paused" => m.frozen[l] # 0
    /\ \A r \in DOMAIN m.runs : Current(m, r) => m.entry[m.runs[r].label] = m.runs[r].on
    /\ \A e \in Entries : Cardinality(Counted(m, e)) <= Slots

\* The runs there were, and those that may still come.
Wanting(m) == {l \in Labels : m.state[l] \in {"none", "queued"}}
Failing(m) == {r \in DOMAIN m.runs : m.runs[r].at \in {"bad", "graced", "judged"}}
Due(m) == Len(m.runs) + Cardinality(Wanting(m)) + Cardinality(Failing(m))

\* The two files agree with the table, in as far as a restart would read them.
Files ==
    /\ \A i, j \in qfile : i.label = j.label => i = j
    /\ \A j \in qfile : j.full
    /\ ~writing => \A l \in Labels :
          /\ w.state[l] # "none" => wfile[l] # "none"
          /\ w.state[l] = "queued" => wfile[l] = "queued"
          /\ w.state[l] \in Ended => l \notin LabelsOf(Restored)
    /\ mode = "open" =>
          LET queued == {l \in w.bg : w.state[l] = "queued"} IN
          IF writing THEN LabelsOf(qfile) = queued ELSE LabelsOf(Restored) = queued

Shape ==
    /\ listed \subseteq Entries /\ wfile \in [Labels -> States] /\ qfile \subseteq Job
    /\ writing \in BOOLEAN /\ mode \in {"open", "closed", "cancelled"} /\ budget \in 0 .. Budget

IInv ==
    /\ Shape
    /\ Good(w, {})
    /\ mode # "cancelled" => Live(w)
    /\ Due(w) + budget <= Cardinality(Labels) + Budget
    /\ Files

-----------------------------------------------------------------------------
(* Induction and extremes, for one set of numbers at a time.               *)

LEMMA Least ==
    ASSUME NEW S \in SUBSET Nat, S # {}
    PROVE  \E n \in S : \A m \in S : n <= m
<1> DEFINE R == OpToRel(<, Nat)
<1>1. PICK n \in S : \A y \in S : <<y, n>> \notin R
  <2>1. IsWellFoundedOn(R, Nat)
    BY NatLessThanWellFounded
  <2> HIDE DEF R
  <2> QED
    BY <2>1, WFMin
<1>2. \A m \in S : <<m, n>> \notin R => n <= m
  BY DEF OpToRel
<1> QED
  BY <1>1, <1>2

LEMMA Induct ==
    ASSUME NEW n \in Nat, NEW S, 0 \in S, \A i \in 0 .. n - 1 : i \in S => i + 1 \in S
    PROVE  0 .. n \subseteq S
<1> SUFFICES ASSUME (0 .. n) \ S # {} PROVE FALSE
  OBVIOUS
<1>0. (0 .. n) \ S \in SUBSET Nat
  OBVIOUS
<1>1. PICK k \in (0 .. n) \ S : \A m \in (0 .. n) \ S : k <= m
  BY <1>0, Least
<1>2. k # 0 /\ k - 1 \in 0 .. n - 1
  BY <1>1
<1>3. k - 1 \in S
  BY <1>1, <1>2
<1> QED
  BY <1>1, <1>2, <1>3

LEMMA MinIn ==
    ASSUME NEW S \in SUBSET Nat, S # {}
    PROVE  Min(S) \in S
BY Least DEF Min

LEMMA MaxIn ==
    ASSUME NEW n \in Nat, NEW S \in SUBSET (1 .. n), S # {}
    PROVE  Max(S) \in S /\ \A y \in S : y <= Max(S)
<1> DEFINE D == {n - x : x \in S}
<1>0. \A x \in S : x \in 1 .. n /\ n - x \in Nat
  OBVIOUS
<1>1. D \in SUBSET Nat /\ D # {}
  BY <1>0
<1>2. PICK d \in D : \A e \in D : d <= e
  BY <1>1, Least
<1>3. PICK x \in S : d = n - x
  BY <1>2
<1>4. \A y \in S : n - y \in D /\ d <= n - y
  BY <1>2
<1>5. \A y \in S : y <= x
  BY <1>0, <1>3, <1>4
<1> QED
  BY <1>3, <1>5 DEF Max

-----------------------------------------------------------------------------
(* The pump is a walk over the queue, one job after the other.             *)

IsWalk(g, b, q, c, n) ==
    g = [S \in SUBSET (1 .. n) |->
            IF S = {} THEN b ELSE Place(g[S \ {Max(S)}], q[Max(S)], c[q[Max(S)].label])]

Walk(b, q, c) == (CHOOSE g : IsWalk(g, b, q, c, Len(q)))[1 .. Len(q)]

LEMMA PumpWalks ==
    ASSUME NEW m \in Table, NEW c, mode = "open"
    PROVE  \E fg : /\ fg = Walk([m EXCEPT !.fgHeld = <<>>], m.fgHeld, c)
                   /\ DOMAIN fg.bgHeld = 1 .. Len(fg.bgHeld) =>
                         Pump(m, c) = Walk([fg EXCEPT !.bgHeld = <<>>], fg.bgHeld, c)
<1>1. DOMAIN m.fgHeld = 1 .. Len(m.fgHeld)
  BY DEF Table
<1> QED
  BY <1>1 DEF Pump, Walk, IsWalk, FoldLeft, MapThenFoldSet

LEMMA WalkExists ==
    ASSUME NEW b, NEW c, NEW q, NEW n \in Nat
    PROVE  \E g : IsWalk(g, b, q, c, n)
<1> DEFINE N == {i \in Nat : \E g : IsWalk(g, b, q, c, i)}
<1>1. 0 \in N
  <2> DEFINE g == [S \in SUBSET (1 .. 0) |-> b]
  <2>1. \A S \in SUBSET (1 .. 0) : S = {}
    OBVIOUS
  <2>2. IsWalk(g, b, q, c, 0)
    BY <2>1 DEF IsWalk
  <2> QED
    BY <2>2
<1>2. ASSUME NEW i \in 0 .. n - 1, i \in N PROVE i + 1 \in N
  <2>1. PICK g : IsWalk(g, b, q, c, i)
    BY <1>2
  <2> DEFINE h == [S \in SUBSET (1 .. i + 1) |->
                      IF i + 1 \in S THEN Place(g[S \ {i + 1}], q[i + 1], c[q[i + 1].label]) ELSE g[S]]
  <2>i. i \in Nat /\ i + 1 \in Nat
    OBVIOUS
  <2>2. ASSUME NEW S \in SUBSET (1 .. i + 1)
        PROVE  h[S] = IF S = {} THEN b ELSE Place(h[S \ {Max(S)}], q[Max(S)], c[q[Max(S)].label])
    <3>1. CASE S = {}
      BY <3>1, <2>1 DEF IsWalk
    <3>2. CASE i + 1 \in S
      <4>1. Max(S) = i + 1
        <5>1. Max(S) \in S /\ i + 1 <= Max(S)
          BY <2>i, <3>2, MaxIn
        <5>2. \A y \in S : y \in 1 .. i + 1
          OBVIOUS
        <5> HIDE DEF h
        <5>3. Max(S) \in 1 .. i + 1
          BY <5>1, <5>2
        <5> QED
          BY <2>i, <5>1, <5>3
      <4>2. h[S \ {i + 1}] = g[S \ {i + 1}] /\ S \ {i + 1} \in SUBSET (1 .. i)
        OBVIOUS
      <4> QED
        BY <3>2, <4>1, <4>2
    <3>3. CASE S # {} /\ i + 1 \notin S
      <4>1. S \in SUBSET (1 .. i)
        BY <3>3
      <4>2. Max(S) \in S
        BY <2>i, <3>3, <4>1, MaxIn
      <4>3. h[S] = g[S] /\ h[S \ {Max(S)}] = g[S \ {Max(S)}]
        BY <3>3, <4>1
      <4>4. g[S] = Place(g[S \ {Max(S)}], q[Max(S)], c[q[Max(S)].label])
        BY <2>1, <3>3, <4>1 DEF IsWalk
      <4> QED
        BY <3>3, <4>3, <4>4
    <3> QED
      BY <3>1, <3>2, <3>3
  <2>3. h = [S \in SUBSET (1 .. i + 1) |->
                IF S = {} THEN b ELSE Place(h[S \ {Max(S)}], q[Max(S)], c[q[Max(S)].label])]
    BY <2>2
  <2> HIDE DEF h
  <2>4. IsWalk(h, b, q, c, i + 1)
    BY <2>3 DEF IsWalk
  <2> QED
    BY <2>4
<1> HIDE DEF N
<1>3. n \in N
  BY <1>1, <1>2, Induct
<1> QED
  BY <1>3 DEF N

\* What holds before the first job and is kept at each holds at the end.
LEMMA WalkInduct ==
    ASSUME NEW b, NEW c, NEW q, Len(q) \in Nat, NEW I, <<0, b>> \in I,
           \A i \in 0 .. Len(q) - 1 : \A m : <<i, m>> \in I => <<i + 1, Place(m, q[i + 1], c[q[i + 1].label])>> \in I
    PROVE  <<Len(q), Walk(b, q, c)>> \in I
<1> DEFINE n == Len(q)
           g == CHOOSE g : IsWalk(g, b, q, c, n)
           N == {i \in 0 .. n : <<i, g[1 .. i]>> \in I}
<1>1. IsWalk(g, b, q, c, n)
  BY WalkExists
<1>n. n \in Nat
  OBVIOUS
<1> HIDE DEF g, n
<1>2. 0 \in N
  <2>1. (1 .. 0) = {} /\ {} \in SUBSET (1 .. n)
    OBVIOUS
  <2>2. g[{}] = b
    BY <1>1, <2>1 DEF IsWalk
  <2> QED
    BY <1>n, <2>1, <2>2
<1>3. ASSUME NEW i \in 0 .. n - 1, i \in N PROVE i + 1 \in N
  <2>0. i \in Nat /\ i + 1 \in Nat /\ i + 1 <= n
    BY <1>n
  <2>1. /\ (1 .. i + 1) \in SUBSET (1 .. n) /\ (1 .. i + 1) # {} /\ i + 1 \in 1 .. i + 1
        /\ (1 .. i + 1) \ {i + 1} = 1 .. i
    <3>1. \A k \in 1 .. i + 1 : k \in 1 .. n
      BY <1>n, <2>0
    <3>2. \A k \in Nat : k \in 1 .. i + 1 /\ k # i + 1 <=> k \in 1 .. i
      BY <2>0
    <3>3. \A k \in 1 .. i + 1 : k \in Nat
      BY <2>0
    <3>4. \A k \in 1 .. i : k \in Nat
      BY <2>0
    <3>5. i + 1 \in 1 .. i + 1
      BY <2>0
    <3> QED
      BY <3>1, <3>2, <3>3, <3>4, <3>5
  <2>2. Max(1 .. i + 1) = i + 1
    <3>1. Max(1 .. i + 1) \in 1 .. i + 1 /\ i + 1 <= Max(1 .. i + 1)
      BY <2>0, <2>1, MaxIn
    <3> QED
      BY <2>0, <3>1
  <2>3. g[1 .. i + 1] = Place(g[1 .. i], q[i + 1], c[q[i + 1].label])
    BY <1>1, <2>1, <2>2 DEF IsWalk
  <2>4. <<i + 1, Place(g[1 .. i], q[i + 1], c[q[i + 1].label])>> \in I
    BY <1>3 DEF n
  <2> QED
    BY <1>n, <2>0, <2>3, <2>4
<1> HIDE DEF N
<1>4. 0 .. n \subseteq N
  BY <1>n, <1>2, <1>3, Induct
<1>5. n \in N
  BY <1>n, <1>4
<1> QED
  BY <1>5 DEF N, g, n, Walk
-----------------------------------------------------------------------------
(* Queues of held jobs.                                                    *)

LEMMA LabelsAdd == \A S, j : LabelsOf(S \cup {j}) = LabelsOf(S) \cup {j.label}
BY DEF LabelsOf

\* A job put at the back, or at the front.
LEMMA QueueBack ==
    ASSUME NEW q \in Seq(Job), NEW j \in Job, Single(q), j.label \notin LabelsOf(ToSet(q))
    PROVE  /\ Append(q, j) \in Seq(Job) /\ Single(Append(q, j))
           /\ ToSet(Append(q, j)) = ToSet(q) \cup {j}
<1>1. /\ DOMAIN q = 1 .. Len(q) /\ DOMAIN Append(q, j) = 1 .. Len(q) + 1 /\ Len(q) \in Nat
      /\ \A i \in DOMAIN q : Append(q, j)[i] = q[i]
      /\ Append(q, j)[Len(q) + 1] = j
  OBVIOUS
<1>2. \A i \in DOMAIN q : q[i].label # j.label
  BY DEF LabelsOf, ToSet
<1>3. \A i \in DOMAIN Append(q, j) : i \in DOMAIN q \/ i = Len(q) + 1
  BY <1>1
<1>4. Single(Append(q, j))
  BY <1>1, <1>2, <1>3 DEF Single
<1>5. ToSet(Append(q, j)) = ToSet(q) \cup {j}
  <2>1. \A i \in DOMAIN q : i \in DOMAIN Append(q, j)
    BY <1>1
  <2>2. Len(q) + 1 \in DOMAIN Append(q, j)
    BY <1>1
  <2> QED
    BY <1>1, <1>3, <2>1, <2>2 DEF ToSet
<1> QED
  BY <1>4, <1>5

LEMMA QueueFront ==
    ASSUME NEW q \in Seq(Job), NEW j \in Job, Single(q), j.label \notin LabelsOf(ToSet(q))
    PROVE  /\ <<j>> \o q \in Seq(Job) /\ Single(<<j>> \o q)
           /\ ToSet(<<j>> \o q) = ToSet(q) \cup {j}
<1> DEFINE p == <<j>> \o q
<1>1. /\ DOMAIN q = 1 .. Len(q) /\ DOMAIN p = 1 .. Len(q) + 1 /\ Len(q) \in Nat
      /\ p[1] = j /\ \A i \in DOMAIN p : i # 1 => p[i] = q[i - 1]
  OBVIOUS
<1>0. p \in Seq(Job)
  OBVIOUS
<1>2. \A i \in DOMAIN q : q[i].label # j.label
  BY DEF LabelsOf, ToSet
<1> HIDE DEF p
<1>3. \A i \in DOMAIN p : i = 1 \/ i - 1 \in DOMAIN q
  BY <1>1
<1>4. Single(p)
  <2> SUFFICES ASSUME NEW i \in DOMAIN p, NEW k \in DOMAIN p, p[i].label = p[k].label PROVE i = k
    BY DEF Single
  <2>1. i \in Nat /\ k \in Nat
    BY <1>1
  <2>2. CASE i = 1 \/ k = 1
    BY <1>1, <1>2, <1>3, <2>2
  <2>3. CASE i # 1 /\ k # 1
    <3>1. i - 1 \in DOMAIN q /\ k - 1 \in DOMAIN q /\ q[i - 1].label = q[k - 1].label
      BY <1>1, <1>3, <2>3
    <3>2. i - 1 = k - 1
      BY <3>1 DEF Single
    <3> QED
      BY <2>1, <3>2
  <2> QED
    BY <2>2, <2>3
<1>5. ToSet(p) = ToSet(q) \cup {j}
  <2>1. \A i \in DOMAIN q : i + 1 \in DOMAIN p /\ p[i + 1] = q[i]
    BY <1>1
  <2>2. 1 \in DOMAIN p
    BY <1>1
  <2> QED
    BY <1>1, <1>3, <2>1, <2>2 DEF ToSet
<1> QED
  BY <1>0, <1>4, <1>5 DEF p

LEMMA EmptyQueue == Single(<<>>) /\ ToSet(<<>>) = {} /\ LabelsOf({}) = {} /\ <<>> \in Seq(Job)
BY DEF Single, ToSet, LabelsOf

\* Of the jobs R in hand, j is taken and S are left.
Takes(R, j, S) == j \in R /\ S \subseteq R /\ LabelsOf(S) = LabelsOf(R) \ {j.label}

\* A job in hand that is started, resumed or dropped.
LEMMA HandStarts ==
    ASSUME NEW m \in Table, NEW n \in Table, NEW R, NEW j, NEW S, HeldOnce(m, R), Takes(R, j, S),
           n.fgHeld = m.fgHeld, n.bgHeld = m.bgHeld, n.bg = m.bg,
           n.state[j.label] \notin {"queued", "paused"},
           \A k \in Labels : k # j.label => n.state[k] = m.state[k]
    PROVE  HeldOnce(n, S)
<1>1. /\ j.label \in LabelsOf(R) /\ j \in R /\ S \subseteq R
      /\ LabelsOf(S) = LabelsOf(R) \ {j.label}
  BY DEF LabelsOf, Takes
<1>2. m.state \in [Labels -> States] /\ j.label \in Labels
  BY <1>1 DEF Table, HeldOnce, Waiting
<1>3. Waiting(n) = Waiting(m) \ {j.label}
  BY <1>2 DEF Waiting
<1>4. \A k \in Labels : n.state[k] = "queued" => k # j.label /\ m.state[k] = "queued"
  BY <1>2
<1>5. \A i \in S \cup ToSet(m.fgHeld) \cup ToSet(m.bgHeld) : i.label \in Labels
  BY DEF HeldOnce, LabelsOf, Waiting, Takes
<1> QED
  BY <1>1, <1>3, <1>4, <1>5 DEF HeldOnce

\* A job in hand that goes on waiting.
LEMMA HandKeeps ==
    ASSUME NEW m \in Table, NEW R, NEW j \in Job, NEW S, HeldOnce(m, R), Takes(R, j, S)
    PROVE  Keep(m, j) \in Table /\ HeldOnce(Keep(m, j), S)
<1>1. /\ j.label \in LabelsOf(R) /\ j \in R /\ S \subseteq R
      /\ LabelsOf(S) = LabelsOf(R) \ {j.label}
  BY DEF LabelsOf, Takes
<1>2. j.label \notin LabelsOf(ToSet(m.fgHeld)) /\ j.label \notin LabelsOf(ToSet(m.bgHeld))
  BY <1>1 DEF HeldOnce
<1>3. m.fgHeld \in Seq(Job) /\ m.bgHeld \in Seq(Job)
  BY DEF Table
<1>4. CASE j.label \in m.bg
  <2>1. Keep(m, j) = [m EXCEPT !.bgHeld = Append(@, j)]
    BY <1>4 DEF Keep
  <2>2. /\ Append(m.bgHeld, j) \in Seq(Job) /\ Single(Append(m.bgHeld, j))
        /\ ToSet(Append(m.bgHeld, j)) = ToSet(m.bgHeld) \cup {j}
        /\ LabelsOf(ToSet(Append(m.bgHeld, j))) = LabelsOf(ToSet(m.bgHeld)) \cup {j.label}
    BY <1>2, <1>3, QueueBack, LabelsAdd DEF HeldOnce
  <2>3. Keep(m, j) \in Table /\ Waiting(Keep(m, j)) = Waiting(m)
    BY <2>1, <2>2 DEF Table, Waiting
  <2>4. /\ Keep(m, j).bgHeld = Append(m.bgHeld, j) /\ Keep(m, j).fgHeld = m.fgHeld
        /\ Keep(m, j).bg = m.bg /\ Keep(m, j).state = m.state
    BY <2>1 DEF Table
  <2> DEFINE n == Keep(m, j)
  <2> HIDE DEF n
  <2>5. \A i \in S \cup ToSet(n.fgHeld) \cup ToSet(n.bgHeld) : n.state[i.label] = "queued" => i.full
    <3>1. \A i \in R \cup ToSet(m.fgHeld) \cup ToSet(m.bgHeld) : m.state[i.label] = "queued" => i.full
      BY DEF HeldOnce
    <3> QED
      BY <2>2, <2>4, <3>1 DEF n, Takes
  <2>6. /\ LabelsOf(R) = LabelsOf(S) \cup {j.label} /\ j.label \notin LabelsOf(S)
        /\ LabelsOf(ToSet(n.bgHeld)) = LabelsOf(ToSet(m.bgHeld)) \cup {j.label}
        /\ n.fgHeld = m.fgHeld /\ n.bg = m.bg /\ Waiting(n) = Waiting(m)
        /\ Single(n.fgHeld) /\ Single(n.bgHeld)
    BY <1>1, <2>2, <2>3, <2>4, ZenonT(40) DEF n, HeldOnce
  <2>7. HeldOnce(n, S)
    BY <1>2, <1>4, <2>5, <2>6 DEF HeldOnce
  <2> QED
    BY <2>3, <2>7 DEF n
<1>5. CASE j.label \notin m.bg
  <2>1. Keep(m, j) = [m EXCEPT !.fgHeld = Append(@, j)]
    BY <1>5 DEF Keep
  <2>2. /\ Append(m.fgHeld, j) \in Seq(Job) /\ Single(Append(m.fgHeld, j))
        /\ ToSet(Append(m.fgHeld, j)) = ToSet(m.fgHeld) \cup {j}
        /\ LabelsOf(ToSet(Append(m.fgHeld, j))) = LabelsOf(ToSet(m.fgHeld)) \cup {j.label}
    BY <1>2, <1>3, QueueBack, LabelsAdd DEF HeldOnce
  <2>3. Keep(m, j) \in Table /\ Waiting(Keep(m, j)) = Waiting(m)
    BY <2>1, <2>2 DEF Table, Waiting
  <2>4. /\ Keep(m, j).fgHeld = Append(m.fgHeld, j) /\ Keep(m, j).bgHeld = m.bgHeld
        /\ Keep(m, j).bg = m.bg /\ Keep(m, j).state = m.state
    BY <2>1 DEF Table
  <2> DEFINE n == Keep(m, j)
  <2> HIDE DEF n
  <2>5. \A i \in S \cup ToSet(n.fgHeld) \cup ToSet(n.bgHeld) : n.state[i.label] = "queued" => i.full
    <3>1. \A i \in R \cup ToSet(m.fgHeld) \cup ToSet(m.bgHeld) : m.state[i.label] = "queued" => i.full
      BY DEF HeldOnce
    <3> QED
      BY <2>2, <2>4, <3>1 DEF n, Takes
  <2>6. /\ LabelsOf(R) = LabelsOf(S) \cup {j.label} /\ j.label \notin LabelsOf(S)
        /\ LabelsOf(ToSet(n.fgHeld)) = LabelsOf(ToSet(m.fgHeld)) \cup {j.label}
        /\ n.bgHeld = m.bgHeld /\ n.bg = m.bg /\ Waiting(n) = Waiting(m)
        /\ Single(n.fgHeld) /\ Single(n.bgHeld)
    BY <1>1, <2>2, <2>3, <2>4, ZenonT(40) DEF n, HeldOnce
  <2>7. HeldOnce(n, S)
    BY <1>2, <1>5, <2>5, <2>6 DEF HeldOnce
  <2> QED
    BY <2>3, <2>7 DEF n
<1> QED
  BY <1>4, <1>5
-----------------------------------------------------------------------------
(* Counts.                                                                 *)

LEMMA FewOnes ==
    ASSUME NEW m \in Table
    PROVE  /\ Len(m.runs) \in Nat /\ DOMAIN m.runs = 1 .. Len(m.runs)
           /\ IsFiniteSet(Wanting(m)) /\ Cardinality(Wanting(m)) \in Nat
           /\ IsFiniteSet(Failing(m)) /\ Cardinality(Failing(m)) \in Nat
           /\ Due(m) \in Nat
           /\ \A e : /\ IsFiniteSet(On(m, e)) /\ Cardinality(On(m, e)) \in Nat
                     /\ IsFiniteSet(Counted(m, e)) /\ Cardinality(Counted(m, e)) \in Nat
<1>1. Len(m.runs) \in Nat /\ DOMAIN m.runs = 1 .. Len(m.runs)
  BY DEF Table
<1>2. IsFiniteSet(DOMAIN m.runs)
  BY <1>1, FS_Interval
<1>3. IsFiniteSet(Wanting(m)) /\ IsFiniteSet(Failing(m))
  BY <1>2, PoolAssumption, FS_Subset DEF Wanting, Failing
<1>4. \A e : On(m, e) \in SUBSET Labels /\ Counted(m, e) \in SUBSET Labels
  BY DEF On, Counted
<1>5. \A e : IsFiniteSet(On(m, e)) /\ IsFiniteSet(Counted(m, e))
  BY <1>4, PoolAssumption, FS_Subset
<1> QED
  BY <1>1, <1>3, <1>5, FS_CardinalityType DEF Due

LEMMA RunIs ==
    ASSUME NEW m \in Table, NEW r \in DOMAIN m.runs
    PROVE  m.runs[r] \in Run /\ m.runs[r].label \in Labels /\ m.runs[r].on \in Entries
<1>1. m.runs \in Seq(Run)
  BY DEF Table
<1>2. m.runs[r] \in Run
  BY <1>1
<1> QED
  BY <1>2 DEF Run

\* Runs of the same labels, entries and threads; only their processes may differ.
SameRuns(n, m) ==
    /\ Len(n.runs) = Len(m.runs) /\ DOMAIN n.runs = DOMAIN m.runs
    /\ \A r \in DOMAIN m.runs : /\ n.runs[r].label = m.runs[r].label /\ n.runs[r].on = m.runs[r].on
                                /\ n.runs[r].full = m.runs[r].full /\ n.runs[r].at = m.runs[r].at

LEMMA SetProcIs ==
    ASSUME NEW runs \in Seq(Run), NEW T, NEW from, NEW to \in {"live", "stopped"}
    PROVE  LET p == SetProc(runs, T, from, to) IN
           /\ p \in Seq(Run) /\ Len(p) = Len(runs) /\ DOMAIN p = DOMAIN runs
           /\ \A r \in DOMAIN runs :
                 /\ p[r].label = runs[r].label /\ p[r].on = runs[r].on
                 /\ p[r].full = runs[r].full /\ p[r].at = runs[r].at
                 /\ p[r].proc = IF r \in T /\ runs[r].proc = from THEN to ELSE runs[r].proc
<1> DEFINE p == SetProc(runs, T, from, to)
<1>1. /\ p = [r \in 1 .. Len(runs) |->
                 IF r \in T /\ runs[r].proc = from THEN [runs[r] EXCEPT !.proc = to] ELSE runs[r]]
      /\ Len(runs) \in Nat /\ \A r \in 1 .. Len(runs) : runs[r] \in Run
      /\ DOMAIN runs = 1 .. Len(runs)
  BY DEF SetProc
<1> HIDE DEF p
<1>2. \A r \in 1 .. Len(runs) : [runs[r] EXCEPT !.proc = to] \in Run
  BY <1>1 DEF Run
<1>3. p \in Seq(Run) /\ Len(p) = Len(runs) /\ DOMAIN p = DOMAIN runs
  BY <1>1, <1>2
<1>4. ASSUME NEW r \in DOMAIN runs
      PROVE  /\ p[r].label = runs[r].label /\ p[r].on = runs[r].on
             /\ p[r].full = runs[r].full /\ p[r].at = runs[r].at
             /\ p[r].proc = IF r \in T /\ runs[r].proc = from THEN to ELSE runs[r].proc
  <2>1. /\ p[r] = IF r \in T /\ runs[r].proc = from THEN [runs[r] EXCEPT !.proc = to] ELSE runs[r]
        /\ runs[r] \in Run
    BY <1>1
  <2> QED
    BY <2>1 DEF Run
<1> QED
  BY <1>3, <1>4 DEF p

LEMMA ThawIs ==
    ASSUME NEW m \in Table, NEW L \in SUBSET Labels
    PROVE  LET n == Thaw(m, L) IN
           /\ n \in Table /\ SameRuns(n, m)
           /\ n.state = m.state /\ n.entry = m.entry /\ n.bg = m.bg
           /\ n.fgHeld = m.fgHeld /\ n.bgHeld = m.bgHeld /\ n.pids = m.pids
           /\ n.noYield = m.noYield /\ n.cooling = m.cooling /\ n.recent = m.recent
           /\ n.frozen = [l \in Labels |-> IF l \in L THEN 0 ELSE m.frozen[l]]
           /\ \A r \in DOMAIN m.runs :
                 n.runs[r].proc = IF /\ \E l \in L : r \in {m.frozen[l], m.pids[l]}
                                     /\ m.runs[r].proc = "stopped"
                                  THEN "live" ELSE m.runs[r].proc
<1> DEFINE n == Thaw(m, L)
           T == {m.frozen[l] : l \in L} \cup {m.pids[l] : l \in L}
           p == SetProc(m.runs, T, "stopped", "live")
           f == [l \in Labels |-> IF l \in L THEN 0 ELSE m.frozen[l]]
<1>1. /\ m.runs \in Seq(Run) /\ m.frozen \in [Labels -> Nat] /\ m.fresh \in SUBSET Labels
  BY DEF Table
<1>2. n = [m EXCEPT !.fresh = @ \cup L, !.frozen = f, !.runs = p]
  BY DEF Thaw
<1>3. /\ p \in Seq(Run) /\ Len(p) = Len(m.runs) /\ DOMAIN p = DOMAIN m.runs
      /\ \A r \in DOMAIN m.runs :
            /\ p[r].label = m.runs[r].label /\ p[r].on = m.runs[r].on
            /\ p[r].full = m.runs[r].full /\ p[r].at = m.runs[r].at
            /\ p[r].proc = IF r \in T /\ m.runs[r].proc = "stopped" THEN "live" ELSE m.runs[r].proc
  BY <1>1, SetProcIs, SMTT(40)
<1>4. f \in [Labels -> Nat]
  BY <1>1
<1>5. \A r : r \in T <=> \E l \in L : r \in {m.frozen[l], m.pids[l]}
  OBVIOUS
<1> HIDE DEF p, T, f, n
<1>6. /\ n \in Table
      /\ n.state = m.state /\ n.entry = m.entry /\ n.bg = m.bg
      /\ n.fgHeld = m.fgHeld /\ n.bgHeld = m.bgHeld /\ n.pids = m.pids
      /\ n.noYield = m.noYield /\ n.cooling = m.cooling /\ n.recent = m.recent
      /\ n.frozen = f /\ n.runs = p
  BY <1>1, <1>2, <1>3, <1>4 DEF Table
<1>7. SameRuns(n, m)
  BY <1>3, <1>6 DEF SameRuns
<1>8. \A r \in DOMAIN m.runs :
         n.runs[r].proc = IF /\ \E l \in L : r \in {m.frozen[l], m.pids[l]}
                             /\ m.runs[r].proc = "stopped"
                          THEN "live" ELSE m.runs[r].proc
  BY <1>3, <1>5, <1>6
<1> QED
  BY <1>6, <1>7, <1>8 DEF f, n

-----------------------------------------------------------------------------
(* What the pump does with one job, and what it keeps.                     *)

Mid(m, R) == Good(m, R) /\ Live(m)

\* No job but a held one is touched, none is queued anew, and the runs stay within what is due.
Follows(n, m) ==
    /\ n.bg = m.bg
    /\ \A l \in Labels : m.state[l] \in {"none"} \cup Ended => n.state[l] = m.state[l]
    /\ \A l \in Labels : n.state[l] \in {"none", "queued"} => n.state[l] = m.state[l]
    /\ Due(n) <= Due(m)

LEMMA FollowsAgain ==
    ASSUME NEW a \in Table, NEW b \in Table, NEW d \in Table, Follows(b, a), Follows(d, b)
    PROVE  Follows(d, a)
BY FewOnes DEF Follows

LEMMA FollowsSelf == \A m \in Table : Follows(m, m)
BY FewOnes DEF Follows

\* Without a new run, no more is due.
LEMMA SameDue ==
    ASSUME NEW m \in Table, NEW n \in Table, SameRuns(n, m), Wanting(n) \subseteq Wanting(m)
    PROVE  Due(n) <= Due(m)
<1>1. Failing(n) = Failing(m)
  BY DEF SameRuns, Failing
<1>2. Cardinality(Wanting(n)) <= Cardinality(Wanting(m))
  BY FewOnes, FS_Subset
<1>3. /\ Len(m.runs) \in Nat /\ Len(n.runs) = Len(m.runs) /\ Cardinality(Wanting(n)) \in Nat
      /\ Cardinality(Wanting(m)) \in Nat /\ Cardinality(Failing(m)) \in Nat
  BY FewOnes DEF SameRuns
<1> QED
  BY <1>1, <1>2, <1>3 DEF Due

\* The slots are kept when nobody is counted anew, or one is counted where there was room.
LEMMA SlotsKept ==
    ASSUME NEW m \in Table, NEW n \in Table, NEW e, NEW l,
           Cardinality(Counted(m, e)) <= Slots,
           \/ Counted(n, e) \subseteq Counted(m, e)
           \/ Counted(n, e) \subseteq On(m, e) \cup {l} /\ Cardinality(On(m, e)) < Slots
    PROVE  Cardinality(Counted(n, e)) <= Slots
<1>0. Slots \in Nat
  BY PoolAssumption
<1>1. CASE Counted(n, e) \subseteq Counted(m, e)
  <2>1. Cardinality(Counted(n, e)) <= Cardinality(Counted(m, e))
    BY <1>1, FewOnes, FS_Subset
  <2>2. Cardinality(Counted(n, e)) \in Nat /\ Cardinality(Counted(m, e)) \in Nat
    BY FewOnes
  <2> QED
    BY <1>0, <2>1, <2>2
<1>2. CASE Counted(n, e) \subseteq On(m, e) \cup {l} /\ Cardinality(On(m, e)) < Slots
  <2>1. /\ IsFiniteSet(On(m, e) \cup {l})
        /\ Cardinality(On(m, e) \cup {l}) \in {Cardinality(On(m, e)), Cardinality(On(m, e)) + 1}
    BY FewOnes, FS_AddElement
  <2>2. Cardinality(Counted(n, e)) <= Cardinality(On(m, e) \cup {l})
    BY <1>2, <2>1, FS_Subset
  <2>3. Cardinality(Counted(n, e)) \in Nat /\ Cardinality(On(m, e)) \in Nat
    BY FewOnes
  <2> QED
    BY <1>0, <1>2, <2>1, <2>2, <2>3
<1> QED
  BY <1>1, <1>2
\* A paused job goes on, where there is room or without counting from now on.
LEMMA Resumes ==
    ASSUME NEW m \in Table, NEW n \in Table, NEW R, NEW j, NEW S, Mid(m, R), Takes(R, j, S),
           m.state[j.label] = "paused",
           n.state[j.label] = "running", \A k \in Labels : k # j.label => n.state[k] = m.state[k],
           n.frozen[j.label] = 0, \A k \in Labels : k # j.label => n.frozen[k] = m.frozen[k],
           n.entry = m.entry, n.bg = m.bg,
           n.fgHeld = m.fgHeld, n.bgHeld = m.bgHeld, n.pids = m.pids,
           SameRuns(n, m),
           \A r \in DOMAIN m.runs :
              n.runs[r].proc = IF r \in {m.frozen[j.label], m.pids[j.label]} /\ m.runs[r].proc = "stopped"
                               THEN "live" ELSE m.runs[r].proc,
           m.noYield \subseteq n.noYield,
           j.label \in n.noYield \/ Cardinality(On(m, m.entry[j.label])) < Slots
    PROVE  Mid(n, S) /\ Follows(n, m)
<1>a. PICK l : l = j.label
  OBVIOUS
<1>b. l \in Labels /\ l \in Waiting(m)
  BY <1>a DEF Mid, Good, HeldOnce, LabelsOf, Waiting, Takes
<1>c. HeldOnce(m, R) /\ Phases(m) /\ OneCurrent(m) /\ Recorded(m) /\ Live(m)
  BY DEF Mid, Good
<1>d. m.state \in [Labels -> States] /\ n.state \in [Labels -> States]
  BY DEF Table
<1>e. /\ n.state[l] = "running" /\ \A k \in Labels : k # l => n.state[k] = m.state[k]
      /\ n.frozen[l] = 0 /\ \A k \in Labels : k # l => n.frozen[k] = m.frozen[k]
  BY <1>a, <1>b, <1>d
<1>r. PICK r0 \in DOMAIN m.runs : /\ r0 = m.pids[l] /\ r0 = m.frozen[l] /\ m.runs[r0].label = l
                                  /\ m.runs[r0].proc = "stopped" /\ r0 # 0
  BY <1>a, <1>b, <1>c DEF Live, Recorded
<1>f. m.runs[r0].at = "wait"
  BY <1>c, <1>r DEF Phases
<1>g. \A r \in DOMAIN m.runs :
         n.runs[r].proc = IF r = r0 THEN "live" ELSE m.runs[r].proc
  BY <1>a, <1>r
<1>h. \A r \in DOMAIN m.runs :
         /\ n.runs[r].label = m.runs[r].label /\ n.runs[r].on = m.runs[r].on
         /\ n.runs[r].full = m.runs[r].full /\ n.runs[r].at = m.runs[r].at
         /\ Current(n, r) <=> Current(m, r)
         /\ m.runs[r].label \in Labels
  BY RunIs DEF SameRuns, Current
<1>i. DOMAIN n.runs = DOMAIN m.runs
  BY DEF SameRuns
<1>1. HeldOnce(n, S)
  <2>1. n.state[j.label] \notin {"queued", "paused"}
    OBVIOUS
  <2> QED
    BY <1>c, <2>1, HandStarts
<1>2. Phases(n)
  BY <1>c, <1>f, <1>g, <1>h, <1>i DEF Phases
<1>3. OneCurrent(n)
  <2>1. \A r \in DOMAIN m.runs : Current(m, r) =>
           /\ n.state[m.runs[r].label] \in {"running", "paused"}
           /\ n.state[m.runs[r].label] = "paused" => m.runs[r].at = "wait"
    BY <1>c, <1>e, <1>h DEF OneCurrent
  <2> QED
    BY <1>c, <1>h, <1>i, <2>1 DEF OneCurrent
<1>4. Recorded(n)
  <2>1. \A k \in Labels : n.pids[k] # 0 =>
           /\ n.pids[k] \in DOMAIN n.runs /\ n.runs[n.pids[k]].label = k
           /\ n.runs[n.pids[k]].at \notin {"setup", "born", "gone"}
    BY <1>c, <1>h, <1>i DEF Recorded
  <2>2. \A k \in Labels : n.frozen[k] # 0 =>
           /\ n.frozen[k] = n.pids[k] /\ n.state[k] = "paused" /\ n.runs[n.pids[k]].proc = "stopped"
    <3> SUFFICES ASSUME NEW k \in Labels, n.frozen[k] # 0
                 PROVE  /\ n.frozen[k] = n.pids[k] /\ n.state[k] = "paused"
                        /\ n.runs[n.pids[k]].proc = "stopped"
      OBVIOUS
    <3>1. k # l /\ m.frozen[k] # 0
      BY <1>e
    <3>2. /\ m.frozen[k] = m.pids[k] /\ m.state[k] = "paused" /\ m.runs[m.pids[k]].proc = "stopped"
          /\ m.pids[k] \in DOMAIN m.runs /\ m.runs[m.pids[k]].label = k
      BY <1>c, <3>1 DEF Recorded
    <3>3. m.pids[k] # r0
      BY <1>r, <3>1, <3>2
    <3> QED
      BY <1>e, <1>g, <3>1, <3>2, <3>3
  <2>3. \A r \in DOMAIN n.runs : n.runs[r].proc = "stopped" => n.frozen[n.runs[r].label] = r
    <3> SUFFICES ASSUME NEW r \in DOMAIN m.runs, n.runs[r].proc = "stopped"
                 PROVE  n.frozen[m.runs[r].label] = r
      BY <1>h, <1>i
    <3>1. r # r0 /\ m.runs[r].proc = "stopped"
      BY <1>g
    <3>2. m.frozen[m.runs[r].label] = r
      BY <1>c, <3>1 DEF Recorded
    <3>3. m.runs[r].label # l
      BY <1>r, <3>1, <3>2
    <3> QED
      BY <1>e, <1>h, <3>2, <3>3
  <2> QED
    BY <2>1, <2>2, <2>3 DEF Recorded
<1>5. Live(n)
  <2>1. \A k \in Labels : n.state[k] \in {"running", "paused"} =>
           \E r \in DOMAIN n.runs : n.runs[r].label = k /\ Current(n, r)
    <3> SUFFICES ASSUME NEW k \in Labels, n.state[k] \in {"running", "paused"}
                 PROVE  \E r \in DOMAIN m.runs : m.runs[r].label = k /\ Current(m, r)
      BY <1>h, <1>i
    <3> QED
      BY <1>a, <1>c, <1>e DEF Live
  <2>2. \A k \in Labels : n.state[k] = "paused" => n.frozen[k] # 0
    BY <1>c, <1>e DEF Live
  <2>3. \A r \in DOMAIN n.runs : Current(n, r) => n.entry[n.runs[r].label] = n.runs[r].on
    BY <1>c, <1>h, <1>i DEF Live
  <2>4. ASSUME NEW e \in Entries PROVE Cardinality(Counted(n, e)) <= Slots
    <3>1. On(n, e) \subseteq On(m, e) \cup {l} /\ (l \in On(n, e) => e = m.entry[l])
      BY <1>e DEF On
    <3>2. \A k \in Labels : Exempt(m, k) => Exempt(n, k)
      <4> SUFFICES ASSUME NEW k \in Labels, Exempt(m, k) PROVE Exempt(n, k)
        OBVIOUS
      <4>1. m.pids[k] \in DOMAIN m.runs
        BY <1>c DEF Exempt, Recorded
      <4> QED
        BY <1>h, <4>1 DEF Exempt
    <3>3. l \in n.noYield => Exempt(n, l)
      BY <1>f, <1>h, <1>r DEF Exempt
    <3>4. Counted(n, e) \subseteq On(n, e) /\ On(n, e) \subseteq Labels
      BY DEF Counted, On
    <3>5. Counted(n, e) \ {l} \subseteq Counted(m, e)
      BY <3>1, <3>2, <3>4 DEF Counted
    <3>6. Cardinality(Counted(m, e)) <= Slots
      BY <1>c DEF Live
    <3>7. CASE l \in Counted(n, e)
      <4>1. e = m.entry[l] /\ l \notin n.noYield
        BY <3>1, <3>3, <3>7 DEF Counted
      <4>2. Cardinality(On(m, e)) < Slots
        BY <1>a, <4>1
      <4>3. Counted(n, e) \subseteq On(m, e) \cup {l}
        BY <3>1, <3>4
      <4> QED
        BY <3>6, <4>2, <4>3, SlotsKept
    <3>8. CASE l \notin Counted(n, e)
      <4>1. Counted(n, e) \subseteq Counted(m, e)
        BY <3>5, <3>8
      <4> QED
        BY <3>6, <4>1, SlotsKept
    <3> QED
      BY <3>7, <3>8
  <2> QED
    BY <2>1, <2>2, <2>3, <2>4 DEF Live
<1>6. Follows(n, m)
  <2>1. Wanting(n) \subseteq Wanting(m)
    BY <1>e DEF Wanting
  <2>2. Due(n) <= Due(m)
    BY <2>1, SameDue
  <2>3. m.state[l] = "paused"
    BY <1>a
  <2> QED
    BY <1>e, <2>2, <2>3 DEF Follows, Ended
<1> QED
  BY <1>1, <1>2, <1>3, <1>4, <1>5, <1>6 DEF Mid, Good
\* A queued job gets a run, on an entry that has room.
LEMMA Starts ==
    ASSUME NEW m \in Table, NEW n \in Table, NEW R, NEW j, NEW S, Mid(m, R), Takes(R, j, S),
           NEW e \in Entries, Cardinality(On(m, e)) < Slots, m.state[j.label] = "queued",
           n.state[j.label] = "running", \A k \in Labels : k # j.label => n.state[k] = m.state[k],
           n.entry[j.label] = e, \A k \in Labels : k # j.label => n.entry[k] = m.entry[k],
           n.bg = m.bg, n.fgHeld = m.fgHeld, n.bgHeld = m.bgHeld, n.pids = m.pids,
           n.frozen = m.frozen, n.noYield = m.noYield,
           NEW x, x = Len(m.runs) + 1, Len(n.runs) = x, DOMAIN n.runs = DOMAIN m.runs \cup {x},
           \A r \in DOMAIN m.runs : n.runs[r] = m.runs[r],
           n.runs[x].label = j.label, n.runs[x].on = e, n.runs[x].full = j.full,
           n.runs[x].at = "setup", n.runs[x].proc = "none"
    PROVE  Mid(n, S) /\ Follows(n, m)
<1>a. PICK l : l = j.label
  OBVIOUS
<1>b. l \in Labels /\ l \in Waiting(m) /\ j \in R
  BY <1>a DEF Mid, Good, HeldOnce, LabelsOf, Waiting, Takes
<1>c. HeldOnce(m, R) /\ Phases(m) /\ OneCurrent(m) /\ Recorded(m) /\ Live(m)
  BY DEF Mid, Good
<1>e. /\ m.state[l] = "queued" /\ n.state[l] = "running" /\ n.entry[l] = e
      /\ n.runs[x].label = l
      /\ \A k \in Labels : k # l => n.state[k] = m.state[k] /\ n.entry[k] = m.entry[k]
  BY <1>a
<1>f. j.full
  BY <1>b, <1>a DEF Mid, Good, HeldOnce
<1>g. /\ x \notin DOMAIN m.runs /\ x # 0
      /\ \A r \in DOMAIN n.runs : r \in DOMAIN m.runs \/ r = x
      /\ \A r \in DOMAIN m.runs : m.runs[r].label \in Labels /\ r \in DOMAIN n.runs
  BY FewOnes, RunIs
<1>h. \A r \in DOMAIN m.runs : Current(m, r) => m.runs[r].label # l
  BY <1>c, <1>e DEF OneCurrent
<1>i. /\ \A r \in DOMAIN m.runs : Current(n, r) <=> Current(m, r)
      /\ Current(n, x)
  BY DEF Current
<1>1. HeldOnce(n, S)
  <2>1. n.state[j.label] \notin {"queued", "paused"}
    OBVIOUS
  <2> QED
    BY <1>c, <2>1, HandStarts
<1>2. Phases(n)
  <2>1. \A r \in DOMAIN m.runs :
           /\ m.runs[r].full
           /\ m.runs[r].at = "setup" => m.runs[r].proc = "none"
           /\ m.runs[r].at = "born" => m.runs[r].proc \in {"live", "zombie"}
           /\ m.runs[r].at = "wait" => /\ m.runs[r].proc \in {"live", "stopped", "zombie"}
                                       /\ m.pids[m.runs[r].label] = r
           /\ m.runs[r].at \notin {"setup", "born", "wait"} => m.runs[r].proc \in {"none", "reaped"}
    BY <1>c DEF Phases
  <2> QED
    BY <1>f, <1>g, <2>1, ZenonT(40) DEF Phases
<1>3. OneCurrent(n)
  <2>1. \A r \in DOMAIN n.runs : Current(n, r) =>
           /\ n.state[n.runs[r].label] \in {"running", "paused"}
           /\ n.state[n.runs[r].label] = "paused" => n.runs[r].at = "wait"
    <3>1. ASSUME NEW r \in DOMAIN m.runs, Current(m, r)
          PROVE  /\ n.state[m.runs[r].label] \in {"running", "paused"}
                 /\ n.state[m.runs[r].label] = "paused" => m.runs[r].at = "wait"
      BY <1>c, <1>e, <1>g, <1>h, <3>1 DEF OneCurrent
    <3> QED
      BY <1>e, <1>g, <1>i, <3>1
  <2>2. \A r, s \in DOMAIN n.runs :
           Current(n, r) /\ Current(n, s) /\ n.runs[r].label = n.runs[s].label => r = s
    <3>1. \A r, s \in DOMAIN m.runs :
             Current(m, r) /\ Current(m, s) /\ m.runs[r].label = m.runs[s].label => r = s
      BY <1>c DEF OneCurrent
    <3> QED
      BY <1>e, <1>g, <1>h, <1>i, <3>1
  <2> QED
    BY <2>1, <2>2 DEF OneCurrent
<1>4. Recorded(n)
  <2>1. \A k \in Labels : m.pids[k] # 0 =>
           /\ m.pids[k] \in DOMAIN m.runs /\ m.runs[m.pids[k]].label = k
           /\ m.runs[m.pids[k]].at \notin {"setup", "born", "gone"}
    BY <1>c DEF Recorded
  <2>2. \A k \in Labels : m.frozen[k] # 0 =>
           /\ m.frozen[k] = m.pids[k] /\ m.state[k] = "paused" /\ m.runs[m.pids[k]].proc = "stopped"
    BY <1>c DEF Recorded
  <2>3. \A r \in DOMAIN m.runs : m.runs[r].proc = "stopped" => m.frozen[m.runs[r].label] = r
    BY <1>c DEF Recorded
  <2>4. \A k \in Labels : n.frozen[k] # 0 =>
           /\ n.frozen[k] = n.pids[k] /\ n.state[k] = "paused" /\ n.runs[n.pids[k]].proc = "stopped"
    BY <1>e, <2>1, <2>2
  <2>5. \A r \in DOMAIN n.runs : n.runs[r].proc = "stopped" => n.frozen[n.runs[r].label] = r
    BY <1>g, <2>3
  <2> QED
    BY <1>g, <2>1, <2>4, <2>5 DEF Recorded
<1>5. Live(n)
  <2>1. \A k \in Labels : n.state[k] \in {"running", "paused"} =>
           \E r \in DOMAIN n.runs : n.runs[r].label = k /\ Current(n, r)
    <3> SUFFICES ASSUME NEW k \in Labels, n.state[k] \in {"running", "paused"}, k # l
                 PROVE  \E r \in DOMAIN n.runs : n.runs[r].label = k /\ Current(n, r)
      BY <1>e, <1>i
    <3>1. PICK r \in DOMAIN m.runs : m.runs[r].label = k /\ Current(m, r)
      BY <1>c, <1>e DEF Live
    <3> QED
      BY <1>g, <1>i, <3>1
  <2>2. \A k \in Labels : n.state[k] = "paused" => n.frozen[k] # 0
    BY <1>c, <1>e DEF Live
  <2>3. \A r \in DOMAIN n.runs : Current(n, r) => n.entry[n.runs[r].label] = n.runs[r].on
    <3>1. \A r \in DOMAIN m.runs : Current(m, r) => m.entry[m.runs[r].label] = m.runs[r].on
      BY <1>c DEF Live
    <3> QED
      BY <1>e, <1>g, <1>h, <1>i, <3>1
  <2>4. ASSUME NEW f \in Entries PROVE Cardinality(Counted(n, f)) <= Slots
    <3>1. On(n, f) \subseteq On(m, f) \cup {l} /\ (l \in On(n, f) => f = e)
      BY <1>e DEF On
    <3>2. \A k \in Labels : Exempt(m, k) => Exempt(n, k)
      BY <1>c DEF Exempt, Recorded
    <3>3. Counted(n, f) \subseteq On(n, f) /\ On(n, f) \subseteq Labels
      BY DEF Counted, On
    <3>4. Counted(n, f) \ {l} \subseteq Counted(m, f)
      BY <3>1, <3>2, <3>3 DEF Counted
    <3>5. Cardinality(Counted(m, f)) <= Slots
      BY <1>c DEF Live
    <3>6. CASE l \in Counted(n, f)
      <4>1. f = e /\ Counted(n, f) \subseteq On(m, f) \cup {l}
        BY <3>1, <3>3, <3>6
      <4> QED
        BY <3>5, <4>1, SlotsKept
    <3>7. CASE l \notin Counted(n, f)
      <4>1. Counted(n, f) \subseteq Counted(m, f)
        BY <3>4, <3>7
      <4> QED
        BY <3>5, <4>1, SlotsKept
    <3> QED
      BY <3>6, <3>7
  <2> QED
    BY <2>1, <2>2, <2>3, <2>4 DEF Live
<1>6. Follows(n, m)
  <2>1. Wanting(n) = Wanting(m) \ {l} /\ l \in Wanting(m)
    BY <1>b, <1>e DEF Wanting
  <2>2. Failing(n) = Failing(m)
    BY <1>g DEF Failing
  <2>3. Cardinality(Wanting(n)) = Cardinality(Wanting(m)) - 1
    BY <2>1, FewOnes, FS_RemoveElement
  <2>4. /\ Len(m.runs) \in Nat /\ Cardinality(Wanting(m)) \in Nat /\ Cardinality(Failing(m)) \in Nat
    BY FewOnes
  <2>5. Due(n) <= Due(m)
    BY <2>2, <2>3, <2>4 DEF Due
  <2> QED
    BY <1>e, <2>5 DEF Follows, Ended
<1> QED
  BY <1>1, <1>2, <1>3, <1>4, <1>5, <1>6 DEF Mid, Good

\* A change of records alone that makes no current run lose its own keeps the runs in order.
LEMMA RecordsMove ==
    ASSUME NEW m \in Table, NEW n \in Table, Phases(m), OneCurrent(m), Recorded(m),
           n.runs = m.runs, n.pids = m.pids, n.frozen = m.frozen,
           \A k \in Labels : n.state[k] = m.state[k] \/ m.state[k] \notin {"running", "paused"}
    PROVE  Phases(n) /\ OneCurrent(n) /\ Recorded(n)
<1>1. \A r \in DOMAIN m.runs : m.runs[r].label \in Labels
  BY RunIs
<1>2. Phases(n)
  BY DEF Phases
<1>3. \A r \in DOMAIN m.runs : Current(n, r) <=> Current(m, r)
  BY DEF Current
<1>4. OneCurrent(n)
  <2>1. \A r \in DOMAIN m.runs : Current(m, r) =>
           /\ n.state[m.runs[r].label] \in {"running", "paused"}
           /\ n.state[m.runs[r].label] = "paused" => m.runs[r].at = "wait"
    BY <1>1 DEF OneCurrent
  <2> QED
    BY <1>3, <2>1 DEF OneCurrent
<1>5. Recorded(n)
  <2>1. \A k \in Labels : m.frozen[k] # 0 => n.state[k] = "paused"
    BY DEF Recorded
  <2> QED
    BY <2>1 DEF Recorded
<1> QED
  BY <1>2, <1>4, <1>5

\* ... and the slots, when nobody starts to run.
LEMMA RecordsLive ==
    ASSUME NEW m \in Table, NEW n \in Table, OneCurrent(m), Live(m),
           n.runs = m.runs, n.pids = m.pids, n.frozen = m.frozen, n.noYield = m.noYield,
           \A k \in Labels : \/ n.state[k] = m.state[k] /\ n.entry[k] = m.entry[k]
                             \/ /\ m.state[k] \notin {"running", "paused"}
                                /\ n.state[k] \notin {"running", "paused"}
    PROVE  Live(n)
<1>1. \A r \in DOMAIN m.runs : m.runs[r].label \in Labels
  BY RunIs
<1>3. \A r \in DOMAIN m.runs : Current(n, r) <=> Current(m, r)
  BY DEF Current
<1>4. \A r \in DOMAIN n.runs : Current(n, r) => n.entry[n.runs[r].label] = n.runs[r].on
  <2>1. \A r \in DOMAIN m.runs : Current(m, r) => m.entry[m.runs[r].label] = m.runs[r].on
    BY DEF Live
  <2>2. \A r \in DOMAIN m.runs : Current(m, r) => m.state[m.runs[r].label] \in {"running", "paused"}
    BY DEF OneCurrent
  <2> QED
    BY <1>1, <1>3, <2>1, <2>2
<1>5. ASSUME NEW e \in Entries PROVE Cardinality(Counted(n, e)) <= Slots
  <2>1. \A k : Exempt(n, k) <=> Exempt(m, k)
    BY DEF Exempt
  <2>2. Counted(n, e) \subseteq Counted(m, e)
    BY <2>1 DEF Counted, On
  <2>3. Cardinality(Counted(m, e)) <= Slots
    BY DEF Live
  <2> QED
    BY <2>2, <2>3, SlotsKept
<1>6. \A k \in Labels : n.state[k] \in {"running", "paused"} =>
         \E r \in DOMAIN n.runs : n.runs[r].label = k /\ Current(n, r)
  BY <1>3 DEF Live
<1>7. \A k \in Labels : n.state[k] = "paused" => n.frozen[k] # 0
  BY DEF Live
<1> QED
  BY <1>4, <1>5, <1>6, <1>7 DEF Live
\* A queued job that cannot be started ends.
LEMMA Drops ==
    ASSUME NEW m \in Table, NEW n \in Table, NEW R, NEW j, NEW S, Mid(m, R), Takes(R, j, S),
           m.state[j.label] = "queued", n.state[j.label] = "failed",
           \A k \in Labels : k # j.label => n.state[k] = m.state[k] /\ n.entry[k] = m.entry[k],
           n.bg = m.bg, n.fgHeld = m.fgHeld, n.bgHeld = m.bgHeld,
           n.runs = m.runs, n.pids = m.pids, n.frozen = m.frozen, n.noYield = m.noYield
    PROVE  Mid(n, S) /\ Follows(n, m)
<1>a. PICK l : l = j.label
  OBVIOUS
<1>b. l \in Labels
  BY <1>a DEF Mid, Good, HeldOnce, LabelsOf, Waiting, Takes
<1>c. HeldOnce(m, R) /\ Phases(m) /\ OneCurrent(m) /\ Recorded(m) /\ Live(m)
  BY DEF Mid, Good
<1>e. /\ m.state[l] = "queued" /\ n.state[l] = "failed"
      /\ \A k \in Labels : k # l => n.state[k] = m.state[k] /\ n.entry[k] = m.entry[k]
  BY <1>a
<1>1. HeldOnce(n, S)
  <2>1. n.state[j.label] \notin {"queued", "paused"} /\ \A k \in Labels : k # j.label => n.state[k] = m.state[k]
    OBVIOUS
  <2> QED
    BY <1>c, <2>1, HandStarts
<1>2. Phases(n) /\ OneCurrent(n) /\ Recorded(n)
  <2>1. \A k \in Labels : n.state[k] = m.state[k] \/ m.state[k] \notin {"running", "paused"}
    BY <1>e
  <2> QED
    BY <1>c, <2>1, RecordsMove
<1>3. Live(n)
  <2>1. \A k \in Labels : \/ n.state[k] = m.state[k] /\ n.entry[k] = m.entry[k]
                          \/ /\ m.state[k] \notin {"running", "paused"}
                             /\ n.state[k] \notin {"running", "paused"}
    BY <1>e
  <2> QED
    BY <1>c, <2>1, RecordsLive
<1>4. Follows(n, m)
  <2>1. Wanting(n) \subseteq Wanting(m) /\ SameRuns(n, m)
    BY <1>e DEF Wanting, SameRuns
  <2>2. Due(n) <= Due(m)
    BY <2>1, SameDue
  <2> QED
    BY <1>e, <2>2 DEF Follows, Ended
<1> QED
  BY <1>1, <1>2, <1>3, <1>4 DEF Mid, Good

\* A job in hand goes back to the queue.
LEMMA Keeps ==
    ASSUME NEW m \in Table, NEW R, NEW j \in Job, NEW S, Mid(m, R), Takes(R, j, S)
    PROVE  Keep(m, j) \in Table /\ Mid(Keep(m, j), S) /\ Follows(Keep(m, j), m)
<1> DEFINE n == Keep(m, j)
<1>1. n \in Table /\ HeldOnce(n, S)
  BY HandKeeps DEF Mid, Good
<1>2. /\ n.state = m.state /\ n.entry = m.entry /\ n.bg = m.bg /\ n.runs = m.runs
      /\ n.pids = m.pids /\ n.frozen = m.frozen /\ n.noYield = m.noYield
  BY DEF Keep, Table
<1> HIDE DEF n
<1>c. Phases(m) /\ OneCurrent(m) /\ Recorded(m) /\ Live(m)
  BY DEF Mid, Good
<1>3. Phases(n) /\ OneCurrent(n) /\ Recorded(n) /\ Live(n)
  BY <1>1, <1>2, <1>c, RecordsMove, RecordsLive
<1>4. Wanting(n) \subseteq Wanting(m) /\ SameRuns(n, m)
  BY <1>2 DEF Wanting, SameRuns
<1>5. Follows(n, m)
  BY <1>1, <1>2, <1>4, SameDue DEF Follows
<1> QED
  BY <1>1, <1>3, <1>5 DEF Mid, Good, n

\* A background worker makes room.
LEMMA Pauses ==
    ASSUME NEW m \in Table, NEW n \in Table, NEW R, Mid(m, R),
           NEW v \in m.bg, m.state[v] = "running", v \notin m.noYield,
           NEW r0, r0 = m.pids[v], r0 # 0, m.runs[r0].proc \in {"live", "stopped"},
           n.state[v] = "paused", \A k \in Labels : k # v => n.state[k] = m.state[k],
           n.frozen[v] = r0, \A k \in Labels : k # v => n.frozen[k] = m.frozen[k],
           n.entry = m.entry, n.bg = m.bg, n.fgHeld = m.fgHeld, n.pids = m.pids,
           n.noYield = m.noYield,
           NEW j, j.label = v, Single(n.bgHeld), ToSet(n.bgHeld) = ToSet(m.bgHeld) \cup {j},
           SameRuns(n, m),
           \A r \in DOMAIN m.runs :
              n.runs[r].proc = IF r = r0 /\ m.runs[r].proc = "live" THEN "stopped" ELSE m.runs[r].proc
    PROVE  Mid(n, R) /\ Follows(n, m)
<1>b. v \in Labels
  BY DEF Table
<1>c. HeldOnce(m, R) /\ Phases(m) /\ OneCurrent(m) /\ Recorded(m) /\ Live(m)
  BY DEF Mid, Good
<1>r. r0 \in DOMAIN m.runs /\ m.runs[r0].label = v /\ m.runs[r0].at \notin {"setup", "born", "gone"}
  BY <1>b, <1>c DEF Recorded
<1>f. m.runs[r0].at = "wait"
  BY <1>c, <1>r DEF Phases
<1>g. \A r \in DOMAIN m.runs : n.runs[r].proc = IF r = r0 THEN "stopped" ELSE m.runs[r].proc
  OBVIOUS
<1>h. \A r \in DOMAIN m.runs :
         /\ n.runs[r].label = m.runs[r].label /\ n.runs[r].on = m.runs[r].on
         /\ n.runs[r].full = m.runs[r].full /\ n.runs[r].at = m.runs[r].at
         /\ Current(n, r) <=> Current(m, r)
         /\ m.runs[r].label \in Labels
  BY RunIs DEF SameRuns, Current
<1>i. DOMAIN n.runs = DOMAIN m.runs
  BY DEF SameRuns
<1>1. HeldOnce(n, R)
  <2>1. v \notin LabelsOf(R) \cup LabelsOf(ToSet(m.fgHeld)) \cup LabelsOf(ToSet(m.bgHeld))
    BY <1>c DEF HeldOnce, Waiting
  <2>3. LabelsOf(ToSet(n.bgHeld)) = LabelsOf(ToSet(m.bgHeld)) \cup {v}
    BY LabelsAdd
  <2>4. Waiting(n) = Waiting(m) \cup {v}
    BY <1>b DEF Waiting
  <2>5. \A i \in R \cup ToSet(n.fgHeld) \cup ToSet(n.bgHeld) : n.state[i.label] = "queued" => i.full
    <3>1. \A i \in R \cup ToSet(m.fgHeld) \cup ToSet(m.bgHeld) : i.label \in Labels /\ i.label # v
      BY <1>c, <2>1 DEF HeldOnce, LabelsOf, Waiting
    <3>2. \A i \in R \cup ToSet(m.fgHeld) \cup ToSet(m.bgHeld) : m.state[i.label] = "queued" => i.full
      BY <1>c DEF HeldOnce
    <3>3. \A i \in R \cup ToSet(m.fgHeld) \cup ToSet(m.bgHeld) : n.state[i.label] = m.state[i.label]
      BY <3>1
    <3> QED
      BY <3>2, <3>3
  <2>6. /\ Single(m.fgHeld) /\ LabelsOf(ToSet(m.fgHeld)) \cap m.bg = {}
        /\ LabelsOf(ToSet(m.bgHeld)) \subseteq m.bg
        /\ LabelsOf(R) \cap LabelsOf(ToSet(m.fgHeld)) = {}
        /\ LabelsOf(R) \cap LabelsOf(ToSet(m.bgHeld)) = {}
        /\ LabelsOf(R) \cup LabelsOf(ToSet(m.fgHeld)) \cup LabelsOf(ToSet(m.bgHeld)) = Waiting(m)
    BY <1>c DEF HeldOnce
  <2>7. LabelsOf(R) \cap LabelsOf(ToSet(n.bgHeld)) = {} /\ LabelsOf(ToSet(n.bgHeld)) \subseteq m.bg
    <3>1. \A k : k \in LabelsOf(ToSet(n.bgHeld)) => k \in LabelsOf(ToSet(m.bgHeld)) \/ k = v
      BY <2>3
    <3>2. \A k : k \in LabelsOf(R) => k \notin LabelsOf(ToSet(m.bgHeld)) /\ k # v
      BY <2>1, <2>6
    <3>3. \A k : k \in LabelsOf(ToSet(m.bgHeld)) => k \in m.bg
      BY <2>6
    <3> QED
      BY <3>1, <3>2, <3>3, Zenon
  <2>8. LabelsOf(R) \cup LabelsOf(ToSet(m.fgHeld)) \cup LabelsOf(ToSet(n.bgHeld)) = Waiting(n)
    BY <2>3, <2>4, <2>6
  <2> QED
    BY <2>5, <2>6, <2>7, <2>8 DEF HeldOnce
<1>2. Phases(n)
  BY <1>c, <1>f, <1>g, <1>h, <1>i DEF Phases
<1>3. OneCurrent(n)
  <2>1. \A r \in DOMAIN m.runs : Current(m, r) =>
           /\ n.state[m.runs[r].label] \in {"running", "paused"}
           /\ n.state[m.runs[r].label] = "paused" => m.runs[r].at = "wait"
    <3> SUFFICES ASSUME NEW r \in DOMAIN m.runs, Current(m, r)
                 PROVE  /\ n.state[m.runs[r].label] \in {"running", "paused"}
                        /\ n.state[m.runs[r].label] = "paused" => m.runs[r].at = "wait"
      OBVIOUS
    <3>1. CASE m.runs[r].label = v
      <4>1. Current(m, r0)
        BY <1>f DEF Current
      <4>2. r = r0
        BY <1>c, <1>r, <3>1, <4>1 DEF OneCurrent
      <4> QED
        BY <1>f, <1>r, <4>2
    <3>2. CASE m.runs[r].label # v
      BY <1>c, <1>h, <3>2 DEF OneCurrent
    <3> QED
      BY <3>1, <3>2
  <2> QED
    BY <1>c, <1>h, <1>i, <2>1 DEF OneCurrent
<1>4. Recorded(n)
  <2>1. \A k \in Labels : n.pids[k] # 0 =>
           /\ n.pids[k] \in DOMAIN n.runs /\ n.runs[n.pids[k]].label = k
           /\ n.runs[n.pids[k]].at \notin {"setup", "born", "gone"}
    BY <1>c, <1>h, <1>i DEF Recorded
  <2>2. \A k \in Labels : n.frozen[k] # 0 =>
           /\ n.frozen[k] = n.pids[k] /\ n.state[k] = "paused" /\ n.runs[n.pids[k]].proc = "stopped"
    <3> SUFFICES ASSUME NEW k \in Labels, n.frozen[k] # 0
                 PROVE  /\ n.frozen[k] = n.pids[k] /\ n.state[k] = "paused"
                        /\ n.runs[n.pids[k]].proc = "stopped"
      OBVIOUS
    <3>1. CASE k = v
      BY <1>g, <1>r, <3>1
    <3>2. CASE k # v
      <4>1. /\ m.frozen[k] = m.pids[k] /\ m.state[k] = "paused" /\ m.runs[m.pids[k]].proc = "stopped"
            /\ m.pids[k] \in DOMAIN m.runs
        BY <1>c, <3>2 DEF Recorded
      <4> QED
        BY <1>g, <3>2, <4>1
    <3> QED
      BY <3>1, <3>2
  <2>3. \A r \in DOMAIN n.runs : n.runs[r].proc = "stopped" => n.frozen[n.runs[r].label] = r
    <3> SUFFICES ASSUME NEW r \in DOMAIN m.runs, n.runs[r].proc = "stopped"
                 PROVE  n.frozen[m.runs[r].label] = r
      BY <1>h, <1>i
    <3>1. CASE r = r0
      BY <1>r, <3>1
    <3>2. CASE r # r0
      <4>1. m.frozen[m.runs[r].label] = r /\ m.runs[r].proc = "stopped"
        BY <1>c, <1>g, <3>2 DEF Recorded
      <4>2. m.runs[r].label # v
        BY <1>b, <1>c, <1>h, <1>r, <3>2, <4>1, FewOnes DEF Recorded
      <4> QED
        BY <1>h, <4>1, <4>2
    <3> QED
      BY <3>1, <3>2
  <2> QED
    BY <2>1, <2>2, <2>3 DEF Recorded
<1>5. Live(n)
  <2>1. \A k \in Labels : n.state[k] \in {"running", "paused"} =>
           \E r \in DOMAIN n.runs : n.runs[r].label = k /\ Current(n, r)
    <3> SUFFICES ASSUME NEW k \in Labels, n.state[k] \in {"running", "paused"}
                 PROVE  \E r \in DOMAIN m.runs : m.runs[r].label = k /\ Current(m, r)
      BY <1>h, <1>i
    <3>1. m.state[k] \in {"running", "paused"}
      BY <1>b
    <3> QED
      BY <1>c, <3>1 DEF Live
  <2>2. \A k \in Labels : n.state[k] = "paused" => n.frozen[k] # 0
    BY <1>c DEF Live
  <2>3. \A r \in DOMAIN n.runs : Current(n, r) => n.entry[n.runs[r].label] = n.runs[r].on
    BY <1>c, <1>h, <1>i DEF Live
  <2>4. ASSUME NEW e \in Entries PROVE Cardinality(Counted(n, e)) <= Slots
    <3>1. On(n, e) \subseteq On(m, e)
      BY <1>b DEF On
    <3>2. \A k \in Labels : Exempt(m, k) => Exempt(n, k)
      <4> SUFFICES ASSUME NEW k \in Labels, Exempt(m, k) PROVE Exempt(n, k)
        OBVIOUS
      <4>1. m.pids[k] \in DOMAIN m.runs
        BY <1>c DEF Exempt, Recorded
      <4> QED
        BY <1>h, <4>1 DEF Exempt
    <3>3. Counted(n, e) \subseteq Counted(m, e)
      BY <3>1, <3>2 DEF Counted, On
    <3>4. Cardinality(Counted(m, e)) <= Slots
      BY <1>c DEF Live
    <3> QED
      BY <3>3, <3>4, SlotsKept
  <2> QED
    BY <2>1, <2>2, <2>3, <2>4 DEF Live
<1>6. Follows(n, m)
  <2>1. Wanting(n) \subseteq Wanting(m)
    BY <1>b DEF Wanting
  <2>2. Due(n) <= Due(m)
    BY <2>1, SameDue
  <2> QED
    BY <1>b, <2>2 DEF Follows, Ended
<1> QED
  BY <1>1, <1>2, <1>3, <1>4, <1>5, <1>6 DEF Mid, Good
LEMMA YieldIs ==
    ASSUME NEW m \in Table, NEW R, Mid(m, R), NEW c, ~EndMeetsFreeze
    PROVE  LET n == Yield(m, c) IN
           /\ n \in Table /\ Mid(n, R) /\ Follows(n, m) /\ n.entry = m.entry
           /\ \A k \in Waiting(m) : n.state[k] = m.state[k]
<1>0. CASE Victims(m) \cap c.stops = {}
  BY <1>0, FollowsSelf DEF Yield
<1>1. CASE Victims(m) \cap c.stops # {}
  <2>1. PICK v : v = Min(Victims(m) \cap c.stops)
    OBVIOUS
  <2>2. Victims(m) \cap c.stops \in SUBSET Nat /\ Victims(m) \subseteq m.bg
    BY PoolAssumption DEF Victims, Table
  <2>3. v \in m.bg /\ m.state[v] = "running" /\ Freezable(m, m.pids[v]) /\ v \notin m.noYield
    BY <1>1, <2>1, <2>2, MinIn DEF Victims
  <2>4. v \in Labels
    BY <2>3 DEF Table
  <2>5. m.pids[v] # 0 /\ m.runs[m.pids[v]].proc \in {"live", "stopped"}
    BY <2>3 DEF Freezable
  <2> DEFINE j == [label |-> v, full |-> FALSE]
             p == SetProc(m.runs, {m.pids[v]}, "live", "stopped")
             q == Append(m.bgHeld, j)
             n == [m EXCEPT !.frozen[v] = m.pids[v], !.state[v] = "paused", !.bgHeld = q, !.runs = p]
  <2>6. Yield(m, c) = n
    BY <1>1, <2>1 DEF Yield
  <2>7. j \in Job /\ j.label = v
    BY <2>4 DEF Job
  <2>8. m.runs \in Seq(Run) /\ m.bgHeld \in Seq(Job) /\ m.pids[v] \in Nat
    BY <2>4 DEF Table
  <2>9. /\ p \in Seq(Run) /\ Len(p) = Len(m.runs) /\ DOMAIN p = DOMAIN m.runs
        /\ \A r \in DOMAIN m.runs :
              /\ p[r].label = m.runs[r].label /\ p[r].on = m.runs[r].on
              /\ p[r].full = m.runs[r].full /\ p[r].at = m.runs[r].at
              /\ p[r].proc = IF r = m.pids[v] /\ m.runs[r].proc = "live"
                             THEN "stopped" ELSE m.runs[r].proc
    BY <2>8, SetProcIs
  <2> HIDE DEF j
  <2>10. q \in Seq(Job) /\ Single(q) /\ ToSet(q) = ToSet(m.bgHeld) \cup {j}
    <3>1. Single(m.bgHeld) /\ v \notin LabelsOf(ToSet(m.bgHeld))
      BY <2>3, <2>4 DEF Mid, Good, HeldOnce, Waiting
    <3> QED
      BY <2>7, <2>8, <3>1, QueueBack
  <2> HIDE DEF p, q
  <2>11. n \in Table
    BY <2>4, <2>8, <2>9, <2>10 DEF Table, States
  <2>12. /\ n.state[v] = "paused" /\ \A k \in Labels : k # v => n.state[k] = m.state[k]
         /\ n.frozen[v] = m.pids[v] /\ \A k \in Labels : k # v => n.frozen[k] = m.frozen[k]
    BY <2>4 DEF Table
  <2>13. /\ n.entry = m.entry /\ n.bg = m.bg /\ n.fgHeld = m.fgHeld /\ n.pids = m.pids
         /\ n.noYield = m.noYield /\ n.bgHeld = q /\ n.runs = p
    BY DEF Table
  <2> HIDE DEF n
  <2>14. SameRuns(n, m)
    BY <2>9, <2>13 DEF SameRuns
  <2>15. /\ Single(n.bgHeld) /\ ToSet(n.bgHeld) = ToSet(m.bgHeld) \cup {j}
         /\ \A r \in DOMAIN m.runs :
               n.runs[r].proc = IF r = m.pids[v] /\ m.runs[r].proc = "live"
                                THEN "stopped" ELSE m.runs[r].proc
    BY <2>9, <2>10, <2>13
  <2>16. Mid(n, R) /\ Follows(n, m)
    <3> PICK r0 : r0 = m.pids[v]
      OBVIOUS
    <3> QED
      BY <2>3, <2>5, <2>7, <2>11, <2>12, <2>13, <2>14, <2>15, Pauses
  <2>17. \A k \in Waiting(m) : n.state[k] = m.state[k]
    BY <2>3, <2>12 DEF Waiting
  <2> QED
    BY <2>6, <2>11, <2>13, <2>16, <2>17
<1> QED
  BY <1>0, <1>1

\* The clock of an entry says nothing of the jobs.
LEMMA RecentIs ==
    ASSUME NEW m \in Table, NEW R, Mid(m, R), NEW e \in Entries
    PROVE  LET n == [m EXCEPT !.recent = @ \cup {e}] IN
           /\ n \in Table /\ Mid(n, R) /\ Follows(n, m)
           /\ n.state = m.state /\ n.entry = m.entry /\ On(n, e) = On(m, e)
<1> DEFINE n == [m EXCEPT !.recent = @ \cup {e}]
<1>1. /\ n \in Table
      /\ n.state = m.state /\ n.entry = m.entry /\ n.bg = m.bg /\ n.runs = m.runs
      /\ n.pids = m.pids /\ n.frozen = m.frozen /\ n.noYield = m.noYield
      /\ n.fgHeld = m.fgHeld /\ n.bgHeld = m.bgHeld
  BY DEF Table
<1> HIDE DEF n
<1>2. HeldOnce(m, R) /\ Phases(m) /\ OneCurrent(m) /\ Recorded(m) /\ Live(m)
  BY DEF Mid, Good
<1>3. HeldOnce(n, R)
  <2>1. Waiting(n) = Waiting(m)
    BY <1>1 DEF Waiting
  <2> QED
    BY <1>1, <1>2, <2>1 DEF HeldOnce
<1>4. Phases(n) /\ OneCurrent(n) /\ Recorded(n) /\ Live(n)
  BY <1>1, <1>2, RecordsMove, RecordsLive
<1>5. Wanting(n) \subseteq Wanting(m) /\ SameRuns(n, m)
  BY <1>1 DEF Wanting, SameRuns
<1>6. Follows(n, m)
  BY <1>1, <1>5, SameDue DEF Follows
<1>7. On(n, e) = On(m, e)
  BY <1>1 DEF On
<1> QED
  BY <1>1, <1>3, <1>4, <1>6, <1>7 DEF Mid, Good, n
\* A job in hand goes where it can go.
LEMMA StartIs ==
    ASSUME NEW m \in Table, NEW R, NEW j \in Job, NEW S, NEW e \in Entries, NEW c,
           Mid(m, R), Takes(R, j, S), Cardinality(On(m, e)) < Slots,
           m.state[j.label] = "paused" => e = m.entry[j.label]
    PROVE  LET n == Start(m, j, e, c) IN n \in Table /\ Mid(n, S) /\ Follows(n, m)
<1> DEFINE l == j.label
           a == IF l \in m.bg THEN m ELSE [m EXCEPT !.recent = @ \cup {e}]
           n == Start(m, j, e, c)
<1>1. /\ a \in Table /\ Mid(a, R) /\ Follows(a, m)
      /\ a.state = m.state /\ a.entry = m.entry /\ On(a, e) = On(m, e)
  BY RecentIs, FollowsSelf
<1>2. n = CASE a.state[l] = "paused" -> [Thaw(a, {l}) EXCEPT !.state[l] = "running"]
            [] a.state[l] # "paused" /\ ~c.envelope ->
                  [a EXCEPT !.state[l] = "failed", !.entry[l] = 0]
            [] OTHER ->
                  [a EXCEPT !.state[l] = "running", !.entry[l] = e,
                            !.runs = Append(@, [label |-> l, on |-> e, full |-> j.full,
                                                at |-> "setup", proc |-> "none"])]
  BY DEF Start
<1> HIDE DEF a, n
<1>3. l \in Labels /\ a.state[l] \in {"queued", "paused"} /\ j \in R
  BY <1>1 DEF Mid, Good, HeldOnce, LabelsOf, Waiting, Takes
<1>4. n \in Table /\ Mid(n, S) /\ Follows(n, a)
  <2>1. CASE a.state[l] = "paused"
    <3> DEFINE b == Thaw(a, {l})
    <3>1. n = [b EXCEPT !.state[l] = "running"]
      BY <1>2, <2>1
    <3>2. /\ b \in Table /\ SameRuns(b, a)
          /\ b.state = a.state /\ b.entry = a.entry /\ b.bg = a.bg
          /\ b.fgHeld = a.fgHeld /\ b.bgHeld = a.bgHeld /\ b.pids = a.pids
          /\ b.noYield = a.noYield
          /\ b.frozen = [k \in Labels |-> IF k \in {l} THEN 0 ELSE a.frozen[k]]
          /\ \A r \in DOMAIN a.runs :
                b.runs[r].proc = IF /\ \E k \in {l} : r \in {a.frozen[k], a.pids[k]}
                                    /\ a.runs[r].proc = "stopped"
                                 THEN "live" ELSE a.runs[r].proc
      BY <1>1, <1>3, ThawIs
    <3> HIDE DEF b
    <3>3. /\ n \in Table /\ n.entry = b.entry /\ n.bg = b.bg /\ n.fgHeld = b.fgHeld
          /\ n.bgHeld = b.bgHeld /\ n.pids = b.pids /\ n.noYield = b.noYield
          /\ n.frozen = b.frozen /\ n.runs = b.runs
          /\ n.state[l] = "running" /\ \A k \in Labels : k # l => n.state[k] = b.state[k]
      BY <1>3, <3>1, <3>2 DEF Table, States
    <3>4. /\ n.frozen[l] = 0 /\ \A k \in Labels : k # l => n.frozen[k] = a.frozen[k]
          /\ n.entry = a.entry /\ n.bg = a.bg /\ n.fgHeld = a.fgHeld /\ n.bgHeld = a.bgHeld
          /\ n.pids = a.pids /\ a.noYield \subseteq n.noYield
          /\ \A k \in Labels : k # l => n.state[k] = a.state[k]
      BY <1>3, <3>2, <3>3
    <3>5. SameRuns(n, a)
      BY <3>2, <3>3 DEF SameRuns
    <3>6. \A r \in DOMAIN a.runs :
             n.runs[r].proc = IF r \in {a.frozen[l], a.pids[l]} /\ a.runs[r].proc = "stopped"
                              THEN "live" ELSE a.runs[r].proc
      BY <3>2, <3>3
    <3>7. Cardinality(On(a, a.entry[l])) < Slots
      BY <1>1, <2>1
    <3> QED
      BY <1>1, <2>1, <3>3, <3>4, <3>5, <3>6, <3>7, Resumes
  <2>2. CASE a.state[l] # "paused" /\ ~c.envelope
    <3>1. n = [a EXCEPT !.state[l] = "failed", !.entry[l] = 0]
      BY <1>2, <2>2
    <3>2. /\ n \in Table /\ n.bg = a.bg /\ n.fgHeld = a.fgHeld /\ n.bgHeld = a.bgHeld
          /\ n.pids = a.pids /\ n.noYield = a.noYield /\ n.frozen = a.frozen /\ n.runs = a.runs
          /\ n.state[l] = "failed"
          /\ \A k \in Labels : k # l => n.state[k] = a.state[k] /\ n.entry[k] = a.entry[k]
      BY <1>1, <1>3, <3>1 DEF Table, States, Ended
    <3>3. a.state[l] = "queued"
      BY <1>3, <2>2
    <3> QED
      BY <1>1, <3>2, <3>3, Drops
  <2>3. CASE a.state[l] # "paused" /\ c.envelope
    <3> DEFINE run == [label |-> l, on |-> e, full |-> j.full, at |-> "setup", proc |-> "none"]
               q == Append(a.runs, run)
    <3>1. n = [a EXCEPT !.state[l] = "running", !.entry[l] = e, !.runs = q]
      BY <1>2, <2>3
    <3>2. run \in Run /\ a.runs \in Seq(Run)
      BY <1>1, <1>3 DEF Run, Job, Table
    <3>3. /\ run.label = l /\ run.on = e /\ run.full = j.full
          /\ run.at = "setup" /\ run.proc = "none"
      OBVIOUS
    <3> HIDE DEF run
    <3>4. /\ q \in Seq(Run) /\ Len(q) = Len(a.runs) + 1
          /\ DOMAIN q = DOMAIN a.runs \cup {Len(a.runs) + 1}
          /\ q[Len(a.runs) + 1] = run
          /\ \A r \in DOMAIN a.runs : q[r] = a.runs[r]
      BY <3>2
    <3> HIDE DEF q
    <3>r. n.runs = q
      BY <1>1, <3>1 DEF Table
    <3>5. /\ n \in Table /\ n.bg = a.bg /\ n.fgHeld = a.fgHeld /\ n.bgHeld = a.bgHeld
          /\ n.pids = a.pids /\ n.noYield = a.noYield /\ n.frozen = a.frozen
          /\ n.state[l] = "running" /\ n.entry[l] = e
          /\ \A k \in Labels : k # l => n.state[k] = a.state[k] /\ n.entry[k] = a.entry[k]
      BY <1>1, <1>3, <3>1, <3>4 DEF Table, States
    <3>6. a.state[l] = "queued"
      BY <1>3, <2>3
    <3> PICK x : x = Len(a.runs) + 1
      OBVIOUS
    <3>7. /\ Len(n.runs) = x /\ DOMAIN n.runs = DOMAIN a.runs \cup {x}
          /\ \A r \in DOMAIN a.runs : n.runs[r] = a.runs[r]
          /\ n.runs[x].label = l /\ n.runs[x].on = e /\ n.runs[x].full = j.full
          /\ n.runs[x].at = "setup" /\ n.runs[x].proc = "none"
      BY <3>3, <3>4, <3>r
    <3>8. Cardinality(On(a, e)) < Slots
      BY <1>1
    <3> QED
      BY <1>1, <3>5, <3>6, <3>7, <3>8, Starts
  <2> QED
    BY <2>1, <2>2, <2>3
<1>5. Follows(n, m)
  BY <1>1, <1>4, FollowsAgain
<1> QED
  BY <1>4, <1>5 DEF n
\* A paused job whose entry is gone goes on in place.
LEMMA GoOnIs ==
    ASSUME NEW m \in Table, NEW R, NEW j \in Job, NEW S, Mid(m, R), Takes(R, j, S),
           m.state[j.label] = "paused"
    PROVE  LET n == GoOn(m, j.label) IN n \in Table /\ Mid(n, S) /\ Follows(n, m)
<1> DEFINE l == j.label
           b == Thaw(m, {l})
           n == [b EXCEPT !.state[l] = "running", !.noYield = @ \cup {l}]
<1>1. GoOn(m, l) = n
  BY DEF GoOn
<1>2. l \in Labels
  BY DEF Job
<1>3. /\ b \in Table /\ SameRuns(b, m)
      /\ b.state = m.state /\ b.entry = m.entry /\ b.bg = m.bg
      /\ b.fgHeld = m.fgHeld /\ b.bgHeld = m.bgHeld /\ b.pids = m.pids
      /\ b.noYield = m.noYield
      /\ b.frozen = [k \in Labels |-> IF k \in {l} THEN 0 ELSE m.frozen[k]]
      /\ \A r \in DOMAIN m.runs :
            b.runs[r].proc = IF /\ \E k \in {l} : r \in {m.frozen[k], m.pids[k]}
                                /\ m.runs[r].proc = "stopped"
                             THEN "live" ELSE m.runs[r].proc
  BY <1>2, ThawIs
<1> HIDE DEF b
<1>4. /\ n \in Table /\ n.entry = b.entry /\ n.bg = b.bg /\ n.fgHeld = b.fgHeld
      /\ n.bgHeld = b.bgHeld /\ n.pids = b.pids /\ n.noYield = b.noYield \cup {l}
      /\ n.frozen = b.frozen /\ n.runs = b.runs
      /\ n.state[l] = "running" /\ \A k \in Labels : k # l => n.state[k] = b.state[k]
  BY <1>2, <1>3 DEF Table, States
<1> HIDE DEF n
<1>5. /\ n.frozen[l] = 0 /\ \A k \in Labels : k # l => n.frozen[k] = m.frozen[k]
      /\ n.entry = m.entry /\ n.bg = m.bg /\ n.fgHeld = m.fgHeld /\ n.bgHeld = m.bgHeld
      /\ n.pids = m.pids /\ m.noYield \subseteq n.noYield /\ l \in n.noYield
      /\ \A k \in Labels : k # l => n.state[k] = m.state[k]
  BY <1>2, <1>3, <1>4
<1>6. SameRuns(n, m)
  BY <1>3, <1>4 DEF SameRuns
<1>7. \A r \in DOMAIN m.runs :
         n.runs[r].proc = IF r \in {m.frozen[l], m.pids[l]} /\ m.runs[r].proc = "stopped"
                          THEN "live" ELSE m.runs[r].proc
  BY <1>3, <1>4
<1>8. n \in Table /\ n.state[l] = "running"
  BY <1>4
<1> HIDE <1>1, <1>3, <1>4
<1>9. Mid(n, S) /\ Follows(n, m)
  BY <1>5, <1>6, <1>7, <1>8, Resumes
<1> QED
  BY <1>1, <1>8, <1>9

LEMMA PlaceOrKeepIs ==
    ASSUME NEW m \in Table, NEW R, NEW j \in Job, NEW S, NEW c, Mid(m, R), Takes(R, j, S),
           ~EndMeetsFreeze
    PROVE  LET n == PlaceOrKeep(m, j, c) IN n \in Table /\ Mid(n, S) /\ Follows(n, m)
<1> DEFINE l == j.label
           y == IF l \notin m.bg /\ Picks(m, l) = {} THEN Yield(m, c) ELSE m
           n == PlaceOrKeep(m, j, c)
<1>1. n = IF Picks(y, l) = {} THEN Keep(y, j) ELSE Start(y, j, Min(Picks(y, l)), c)
  BY DEF PlaceOrKeep
<1>2. /\ y \in Table /\ Mid(y, R) /\ Follows(y, m)
  BY YieldIs, FollowsSelf
<1> HIDE DEF y, n
<1>3. n \in Table /\ Mid(n, S) /\ Follows(n, y)
  <2>1. CASE Picks(y, l) = {}
    BY <1>1, <1>2, <2>1, Keeps
  <2>2. CASE Picks(y, l) # {}
    <3>1. PICK e : e = Min(Picks(y, l))
      OBVIOUS
    <3>2. Picks(y, l) \in SUBSET Nat /\ Picks(y, l) \subseteq Entries
      BY PoolAssumption DEF Picks
    <3>3. e \in Picks(y, l)
      BY <2>2, <3>1, <3>2, MinIn
    <3>4. e \in Entries /\ Cardinality(On(y, e)) < Slots /\ (y.state[l] = "paused" => e = y.entry[l])
      BY <3>3 DEF Picks, Free
    <3>5. n = Start(y, j, e, c)
      BY <1>1, <2>2, <3>1
    <3> QED
      BY <1>2, <3>4, <3>5, StartIs
  <2> QED
    BY <2>1, <2>2
<1> QED
  BY <1>2, <1>3, FollowsAgain DEF n

\* Each job in hand is placed, kept or dropped, and all else holds as before.
LEMMA PlaceIs ==
    ASSUME NEW m \in Table, NEW R, NEW j \in Job, NEW S, NEW c, Mid(m, R), Takes(R, j, S),
           ~EndMeetsFreeze
    PROVE  LET n == Place(m, j, c) IN n \in Table /\ Mid(n, S) /\ Follows(n, m)
<1> DEFINE l == j.label
           n == Place(m, j, c)
<1>1. CASE m.state[l] = "paused" /\ m.entry[l] \notin listed
  <2>1. n = GoOn(m, l)
    BY <1>1 DEF Place
  <2> QED
    BY <1>1, <2>1, GoOnIs
<1>2. CASE m.state[l] # "paused" /\ listed = {}
  <2>1. n = [m EXCEPT !.state[l] = "failed", !.entry[l] = 0]
    BY <1>2 DEF Place
  <2>2. l \in Labels /\ m.state[l] = "queued"
    BY <1>2 DEF Mid, Good, HeldOnce, LabelsOf, Waiting, Takes
  <2> HIDE DEF n
  <2>3. /\ n \in Table /\ n.bg = m.bg /\ n.fgHeld = m.fgHeld /\ n.bgHeld = m.bgHeld
        /\ n.pids = m.pids /\ n.noYield = m.noYield /\ n.frozen = m.frozen /\ n.runs = m.runs
        /\ n.state[l] = "failed"
        /\ \A k \in Labels : k # l => n.state[k] = m.state[k] /\ n.entry[k] = m.entry[k]
    BY <2>1, <2>2 DEF Table, States, Ended
  <2>4. Mid(n, S) /\ Follows(n, m)
    BY <2>2, <2>3, Drops
  <2> QED
    BY <2>3, <2>4 DEF n
<1>3. CASE /\ ~(m.state[l] = "paused" /\ m.entry[l] \notin listed)
           /\ ~(m.state[l] # "paused" /\ listed = {})
  <2>1. n = PlaceOrKeep(m, j, c)
    BY <1>3 DEF Place
  <2> QED
    BY <2>1, PlaceOrKeepIs
<1> QED
  BY <1>1, <1>2, <1>3
-----------------------------------------------------------------------------
(* The pump: both queues are walked with nothing lost.                     *)

Rest(q, i) == {q[k] : k \in i + 1 .. Len(q)}

LEMMA RestTakes ==
    ASSUME NEW q \in Seq(Job), Single(q)
    PROVE  /\ Rest(q, 0) = ToSet(q) /\ Rest(q, Len(q)) = {}
           /\ \A i \in 0 .. Len(q) - 1 : /\ q[i + 1] \in Job
                                         /\ Takes(Rest(q, i), q[i + 1], Rest(q, i + 1))
<1>1. DOMAIN q = 1 .. Len(q) /\ Len(q) \in Nat
  OBVIOUS
<1>2. Rest(q, 0) = ToSet(q)
  BY <1>1 DEF Rest, ToSet
<1>3. Rest(q, Len(q)) = {}
  BY <1>1 DEF Rest
<1>4. ASSUME NEW i \in 0 .. Len(q) - 1
      PROVE  q[i + 1] \in Job /\ Takes(Rest(q, i), q[i + 1], Rest(q, i + 1))
  <2>1. i + 1 \in DOMAIN q /\ q[i + 1] \in Job
    BY <1>1
  <2>2. \A k \in i + 1 .. Len(q) : k \in DOMAIN q /\ (k = i + 1 \/ k \in i + 1 + 1 .. Len(q))
    BY <1>1
  <2>3. \A k \in i + 1 + 1 .. Len(q) : k \in i + 1 .. Len(q) /\ k \in DOMAIN q /\ k # i + 1
    BY <1>1
  <2>4. i + 1 \in i + 1 .. Len(q)
    BY <1>1
  <2>5. q[i + 1] \in Rest(q, i) /\ Rest(q, i + 1) \subseteq Rest(q, i)
    BY <2>3, <2>4 DEF Rest
  <2>6. \A k \in i + 1 + 1 .. Len(q) : q[k].label # q[i + 1].label
    BY <2>1, <2>3 DEF Single
  <2>7. \A x : x \in LabelsOf(Rest(q, i)) <=> \E k \in i + 1 .. Len(q) : x = q[k].label
    BY DEF LabelsOf, Rest
  <2>8. \A x : x \in LabelsOf(Rest(q, i + 1)) <=> \E k \in i + 1 + 1 .. Len(q) : x = q[k].label
    BY DEF LabelsOf, Rest
  <2>9. LabelsOf(Rest(q, i + 1)) = LabelsOf(Rest(q, i)) \ {q[i + 1].label}
    BY <2>2, <2>3, <2>6, <2>7, <2>8
  <2> QED
    BY <2>1, <2>5, <2>9 DEF Takes
<1> QED
  BY <1>2, <1>3, <1>4

LEMMA WalkIs ==
    ASSUME NEW b \in Table, NEW q \in Seq(Job), Single(q), NEW c, Mid(b, ToSet(q)), ~EndMeetsFreeze
    PROVE  LET n == Walk(b, q, c) IN n \in Table /\ Mid(n, {}) /\ Follows(n, b)
<1> DEFINE J == {x \in (0 .. Len(q)) \X Table : Mid(x[2], Rest(q, x[1])) /\ Follows(x[2], b)}
<1>1. Len(q) \in Nat
  OBVIOUS
<1>2. <<0, b>> \in J
  BY <1>1, RestTakes, FollowsSelf
<1>3. ASSUME NEW i \in 0 .. Len(q) - 1, NEW m, <<i, m>> \in J
      PROVE  <<i + 1, Place(m, q[i + 1], c[q[i + 1].label])>> \in J
  <2>1. m \in Table /\ Mid(m, Rest(q, i)) /\ Follows(m, b)
    BY <1>3
  <2>2. i + 1 \in 0 .. Len(q)
    BY <1>1
  <2> PICK n : n = Place(m, q[i + 1], c[q[i + 1].label])
    OBVIOUS
  <2>3. n \in Table /\ Mid(n, Rest(q, i + 1)) /\ Follows(n, m)
    BY <2>1, RestTakes, PlaceIs
  <2>4. Follows(n, b)
    BY <2>1, <2>3, FollowsAgain
  <2> QED
    BY <2>2, <2>3, <2>4
<1> HIDE DEF J
<1>4. \A i \in 0 .. Len(q) - 1 : \A m : <<i, m>> \in J => <<i + 1, Place(m, q[i + 1], c[q[i + 1].label])>> \in J
  BY <1>3
<1>5. <<Len(q), Walk(b, q, c)>> \in J
  BY <1>1, <1>2, <1>4, WalkInduct
<1> QED
  BY <1>5, RestTakes DEF J

\* Both queues, one after the other, are taken in hand.
LEMMA InHand ==
    ASSUME NEW m \in Table, Mid(m, {})
    PROVE  /\ LET n == [m EXCEPT !.fgHeld = <<>>] IN
              n \in Table /\ Mid(n, ToSet(m.fgHeld)) /\ Follows(n, m)
           /\ LET n == [m EXCEPT !.bgHeld = <<>>] IN
              n \in Table /\ Mid(n, ToSet(m.bgHeld)) /\ Follows(n, m)
<1>c. HeldOnce(m, {}) /\ Phases(m) /\ OneCurrent(m) /\ Recorded(m) /\ Live(m)
  BY DEF Mid, Good
<1>1. ASSUME NEW n \in Table, n.state = m.state, n.entry = m.entry, n.bg = m.bg, n.runs = m.runs,
             n.pids = m.pids, n.frozen = m.frozen, n.noYield = m.noYield
      PROVE  /\ Phases(n) /\ OneCurrent(n) /\ Recorded(n) /\ Live(n)
             /\ Follows(n, m) /\ Waiting(n) = Waiting(m)
  <2>1. Phases(n) /\ OneCurrent(n) /\ Recorded(n) /\ Live(n)
    BY <1>1, <1>c, RecordsMove, RecordsLive
  <2>2. Wanting(n) \subseteq Wanting(m) /\ SameRuns(n, m) /\ Waiting(n) = Waiting(m)
    BY <1>1 DEF Wanting, SameRuns, Waiting
  <2> QED
    BY <1>1, <2>1, <2>2, SameDue DEF Follows
<1>2. \A l \in LabelsOf(ToSet(m.fgHeld)) : l \notin m.bg
  BY <1>c DEF HeldOnce
<1>3. LabelsOf(ToSet(m.fgHeld)) \cap LabelsOf(ToSet(m.bgHeld)) = {}
  BY <1>c, <1>2 DEF HeldOnce
<1>4. LET n == [m EXCEPT !.fgHeld = <<>>] IN
      n \in Table /\ Mid(n, ToSet(m.fgHeld)) /\ Follows(n, m)
  <2> DEFINE n == [m EXCEPT !.fgHeld = <<>>]
  <2>1. /\ n \in Table /\ n.fgHeld = <<>> /\ n.bgHeld = m.bgHeld
        /\ n.state = m.state /\ n.entry = m.entry /\ n.bg = m.bg /\ n.runs = m.runs
        /\ n.pids = m.pids /\ n.frozen = m.frozen /\ n.noYield = m.noYield
    BY EmptyQueue DEF Table
  <2> HIDE DEF n
  <2>2. HeldOnce(n, ToSet(m.fgHeld))
    BY <1>1, <1>c, <1>3, <2>1, EmptyQueue DEF HeldOnce
  <2> QED
    BY <1>1, <2>1, <2>2 DEF Mid, Good, n
<1>5. LET n == [m EXCEPT !.bgHeld = <<>>] IN
      n \in Table /\ Mid(n, ToSet(m.bgHeld)) /\ Follows(n, m)
  <2> DEFINE n == [m EXCEPT !.bgHeld = <<>>]
  <2>1. /\ n \in Table /\ n.bgHeld = <<>> /\ n.fgHeld = m.fgHeld
        /\ n.state = m.state /\ n.entry = m.entry /\ n.bg = m.bg /\ n.runs = m.runs
        /\ n.pids = m.pids /\ n.frozen = m.frozen /\ n.noYield = m.noYield
    BY EmptyQueue DEF Table
  <2> HIDE DEF n
  <2>2. HeldOnce(n, ToSet(m.bgHeld))
    BY <1>1, <1>c, <1>3, <2>1, EmptyQueue DEF HeldOnce
  <2> QED
    BY <1>1, <2>1, <2>2 DEF Mid, Good, n
<1> QED
  BY <1>4, <1>5

LEMMA PumpIs ==
    ASSUME NEW m \in Table, NEW c, Mid(m, {}), mode = "open", ~EndMeetsFreeze
    PROVE  LET n == Pump(m, c) IN n \in Table /\ Mid(n, {}) /\ Follows(n, m)
<1>1. PICK fg : /\ fg = Walk([m EXCEPT !.fgHeld = <<>>], m.fgHeld, c)
                /\ DOMAIN fg.bgHeld = 1 .. Len(fg.bgHeld) =>
                      Pump(m, c) = Walk([fg EXCEPT !.bgHeld = <<>>], fg.bgHeld, c)
  BY PumpWalks
<1>2. PICK a : a = [m EXCEPT !.fgHeld = <<>>]
  OBVIOUS
<1>3. a \in Table /\ Mid(a, ToSet(m.fgHeld)) /\ Follows(a, m)
  BY <1>2, InHand
<1>4. m.fgHeld \in Seq(Job) /\ Single(m.fgHeld)
  BY DEF Table, Mid, Good, HeldOnce
<1>5. fg \in Table /\ Mid(fg, {}) /\ Follows(fg, a)
  BY <1>1, <1>2, <1>3, <1>4, WalkIs
<1>6. PICK b : b = [fg EXCEPT !.bgHeld = <<>>]
  OBVIOUS
<1>7. b \in Table /\ Mid(b, ToSet(fg.bgHeld)) /\ Follows(b, fg)
  BY <1>5, <1>6, InHand
<1>8. fg.bgHeld \in Seq(Job) /\ Single(fg.bgHeld)
  BY <1>5 DEF Table, Mid, Good, HeldOnce
<1>9. PICK n : n = Walk(b, fg.bgHeld, c)
  OBVIOUS
<1>10. n \in Table /\ Mid(n, {}) /\ Follows(n, b)
  BY <1>7, <1>8, <1>9, WalkIs
<1>11. Follows(n, m)
  BY <1>3, <1>5, <1>7, <1>10, FollowsAgain
<1>12. DOMAIN fg.bgHeld = 1 .. Len(fg.bgHeld)
  BY <1>8
<1>13. Pump(m, c) = n
  BY <1>1, <1>6, <1>9, <1>12
<1> QED
  BY <1>10, <1>11, <1>13
-----------------------------------------------------------------------------
(* The thread of a run, and the end of a worker.                           *)

\* Runs as before but for where r is and what its process is.
OneRun(n, m, r) ==
    /\ Len(n.runs) = Len(m.runs) /\ DOMAIN n.runs = DOMAIN m.runs
    /\ \A s \in DOMAIN m.runs : /\ n.runs[s].label = m.runs[s].label /\ n.runs[s].on = m.runs[s].on
                                /\ n.runs[s].full = m.runs[s].full
    /\ \A s \in DOMAIN m.runs : s # r => n.runs[s].at = m.runs[s].at /\ n.runs[s].proc = m.runs[s].proc

SameRecords(n, m) ==
    /\ n.state = m.state /\ n.entry = m.entry /\ n.bg = m.bg
    /\ n.fgHeld = m.fgHeld /\ n.bgHeld = m.bgHeld /\ n.pids = m.pids /\ n.frozen = m.frozen
    /\ n.fresh = m.fresh /\ n.noYield = m.noYield
    /\ n.cooling = m.cooling /\ n.recent = m.recent

\* Where a run may be with what process it may have.
Phase(at, proc) ==
    /\ at = "setup" => proc = "none"
    /\ at = "born" => proc \in {"live", "zombie"}
    /\ at = "wait" => proc \in {"live", "stopped", "zombie"}
    /\ at \notin {"setup", "born", "wait"} => proc \in {"none", "reaped"}

LEMMA EditRun ==
    ASSUME NEW m \in Table, NEW r \in DOMAIN m.runs, NEW y \in Run,
           y.label = m.runs[r].label, y.on = m.runs[r].on, y.full = m.runs[r].full
    PROVE  LET n == [m EXCEPT !.runs = [m.runs EXCEPT ![r] = y]] IN
           /\ n \in Table /\ OneRun(n, m, r) /\ n.runs[r] = y
           /\ SameRecords(n, m)
<1> DEFINE p == [m.runs EXCEPT ![r] = y]
           n == [m EXCEPT !.runs = p]
<1>1. m.runs \in Seq(Run)
  BY DEF Table
<1>2. /\ p \in Seq(Run) /\ Len(p) = Len(m.runs) /\ DOMAIN p = DOMAIN m.runs /\ p[r] = y
      /\ \A s \in DOMAIN m.runs : s # r => p[s] = m.runs[s]
  BY <1>1
<1> HIDE DEF p
<1>3. /\ n \in Table /\ n.runs = p
      /\ SameRecords(n, m)
  BY <1>2 DEF Table, SameRecords
<1> HIDE DEF n
<1>4. \A s \in DOMAIN m.runs : p[s].label = m.runs[s].label /\ p[s].on = m.runs[s].on /\ p[s].full = m.runs[s].full
  BY <1>2
<1>5. OneRun(n, m, r)
  BY <1>2, <1>3, <1>4 DEF OneRun
<1> QED
  BY <1>2, <1>3, <1>5 DEF n, p

\* A run goes on, or is over, and no record moves.
LEMMA RunMoves ==
    ASSUME NEW m \in Table, NEW n \in Table, NEW R, Good(m, R), NEW r \in DOMAIN m.runs,
           OneRun(n, m, r),
           n.state = m.state, n.entry = m.entry, n.bg = m.bg,
           n.fgHeld = m.fgHeld, n.bgHeld = m.bgHeld, n.pids = m.pids, n.frozen = m.frozen,
           n.noYield = m.noYield,
           Phase(n.runs[r].at, n.runs[r].proc),
           Current(n, r) => Current(m, r),
           Current(n, r) /\ m.state[m.runs[r].label] = "paused" => n.runs[r].at = "wait",
           n.runs[r].at = "wait" => m.runs[r].at = "wait",
           n.runs[r].proc = "stopped" <=> m.runs[r].proc = "stopped",
           m.runs[r].at \notin {"setup", "born"} => n.runs[r].at \notin {"setup", "born", "gone"}
    PROVE  Good(n, R) /\ (Live(m) /\ (Current(m, r) => Current(n, r)) => Live(n))
<1>c. HeldOnce(m, R) /\ Phases(m) /\ OneCurrent(m) /\ Recorded(m)
  BY DEF Good
<1>d. DOMAIN n.runs = DOMAIN m.runs
  BY DEF OneRun
<1>l. \A s \in DOMAIN m.runs : m.runs[s].label \in Labels /\ n.runs[s].label = m.runs[s].label
  BY RunIs DEF OneRun
<1>o. \A s \in DOMAIN m.runs : s # r => (Current(n, s) <=> Current(m, s))
  BY DEF OneRun, Current
<1>1. HeldOnce(n, R)
  <2>1. Waiting(n) = Waiting(m)
    BY DEF Waiting
  <2> QED
    BY <1>c, <2>1 DEF HeldOnce
<1>2. Phases(n)
  BY <1>c, <1>d DEF Phases, OneRun, Phase
<1>3. OneCurrent(n)
  <2>1. \A s \in DOMAIN m.runs : Current(n, s) => Current(m, s)
    BY <1>o
  <2>2. \A s \in DOMAIN m.runs : Current(n, s) =>
           /\ n.state[m.runs[s].label] \in {"running", "paused"}
           /\ n.state[m.runs[s].label] = "paused" => n.runs[s].at = "wait"
    BY <1>c, <2>1 DEF OneCurrent, OneRun
  <2> QED
    BY <1>c, <1>d, <1>l, <2>1, <2>2 DEF OneCurrent
<1>4. Recorded(n)
  <2>1. \A k \in Labels : n.pids[k] # 0 =>
           /\ n.pids[k] \in DOMAIN n.runs /\ n.runs[n.pids[k]].label = k
           /\ n.runs[n.pids[k]].at \notin {"setup", "born", "gone"}
    BY <1>c, <1>d, <1>l DEF Recorded, OneRun
  <2>2. \A s \in DOMAIN m.runs : n.runs[s].proc = "stopped" <=> m.runs[s].proc = "stopped"
    BY DEF OneRun
  <2>3. \A k \in Labels : n.frozen[k] # 0 =>
           /\ n.frozen[k] = n.pids[k] /\ n.state[k] = "paused" /\ n.runs[n.pids[k]].proc = "stopped"
    BY <1>c, <2>2 DEF Recorded
  <2>4. \A s \in DOMAIN n.runs : n.runs[s].proc = "stopped" => n.frozen[n.runs[s].label] = s
    BY <1>c, <1>d, <1>l, <2>2 DEF Recorded
  <2> QED
    BY <2>1, <2>3, <2>4 DEF Recorded
<1>5. ASSUME Live(m), Current(m, r) => Current(n, r) PROVE Live(n)
  <2>1. \A s \in DOMAIN m.runs : Current(n, s) <=> Current(m, s)
    BY <1>5, <1>o
  <2>2. \A k \in Labels : n.state[k] \in {"running", "paused"} =>
           \E s \in DOMAIN n.runs : n.runs[s].label = k /\ Current(n, s)
    BY <1>5, <1>d, <1>l, <2>1 DEF Live
  <2>3. \A s \in DOMAIN n.runs : Current(n, s) => n.entry[n.runs[s].label] = n.runs[s].on
    BY <1>5, <1>d, <1>l, <2>1 DEF Live, OneRun
  <2>4. ASSUME NEW e \in Entries PROVE Cardinality(Counted(n, e)) <= Slots
    <3>1. \A k \in Labels : Exempt(m, k) => Exempt(n, k)
      BY <1>c, <2>1 DEF Exempt, Recorded, Current
    <3>2. Counted(n, e) \subseteq Counted(m, e)
      BY <3>1 DEF Counted, On
    <3>3. Cardinality(Counted(m, e)) <= Slots
      BY <1>5 DEF Live
    <3> QED
      BY <3>2, <3>3, SlotsKept
  <2>5. \A k \in Labels : n.state[k] = "paused" => n.frozen[k] # 0
    BY <1>5 DEF Live
  <2> QED
    BY <2>2, <2>3, <2>4, <2>5 DEF Live
<1> QED
  BY <1>1, <1>2, <1>3, <1>4, <1>5 DEF Good
Ats == {"setup", "born", "wait", "ran", "asked", "bad", "graced", "judged", "over", "gone"}
Procs == {"none", "live", "stopped", "zombie", "reaped"}

LEMMA EditAt ==
    ASSUME NEW m \in Table, NEW r \in DOMAIN m.runs, NEW at \in Ats
    PROVE  LET n == [m EXCEPT !.runs[r].at = at] IN
           /\ n \in Table /\ OneRun(n, m, r)
           /\ n.runs[r].at = at /\ n.runs[r].proc = m.runs[r].proc
           /\ SameRecords(n, m)
<1> DEFINE y == [m.runs[r] EXCEPT !.at = at]
<1>1. m.runs[r] \in Run
  BY RunIs
<1>2. /\ y \in Run /\ y.at = at /\ y.proc = m.runs[r].proc
      /\ y.label = m.runs[r].label /\ y.on = m.runs[r].on /\ y.full = m.runs[r].full
  BY <1>1 DEF Run, Ats
<1> HIDE DEF y
<1> DEFINE n == [m EXCEPT !.runs = [m.runs EXCEPT ![r] = y]]
<1>3. /\ n \in Table /\ OneRun(n, m, r) /\ n.runs[r] = y
      /\ SameRecords(n, m)
  BY <1>2, EditRun
<1>4. n = [m EXCEPT !.runs[r].at = at]
  BY DEF y
<1> HIDE DEF n
<1> QED
  BY <1>2, <1>3, <1>4

LEMMA EditProc ==
    ASSUME NEW m \in Table, NEW r \in DOMAIN m.runs,
           NEW proc \in Procs
    PROVE  LET n == [m EXCEPT !.runs[r].proc = proc] IN
           /\ n \in Table /\ OneRun(n, m, r)
           /\ n.runs[r].proc = proc /\ n.runs[r].at = m.runs[r].at
           /\ SameRecords(n, m)
<1> DEFINE y == [m.runs[r] EXCEPT !.proc = proc]
<1>1. m.runs[r] \in Run
  BY RunIs
<1>2. /\ y \in Run /\ y.proc = proc /\ y.at = m.runs[r].at
      /\ y.label = m.runs[r].label /\ y.on = m.runs[r].on /\ y.full = m.runs[r].full
  BY <1>1 DEF Run, Procs
<1> HIDE DEF y
<1> DEFINE n == [m EXCEPT !.runs = [m.runs EXCEPT ![r] = y]]
<1>3. /\ n \in Table /\ OneRun(n, m, r) /\ n.runs[r] = y
      /\ SameRecords(n, m)
  BY <1>2, EditRun
<1>4. n = [m EXCEPT !.runs[r].proc = proc]
  BY DEF y
<1> HIDE DEF n
<1> QED
  BY <1>2, <1>3, <1>4

LEMMA EditBoth ==
    ASSUME NEW m, NEW a, NEW n, NEW r,
           OneRun(a, m, r), SameRecords(a, m), OneRun(n, a, r), SameRecords(n, a)
    PROVE  OneRun(n, m, r) /\ SameRecords(n, m)
<1>1. OneRun(n, m, r)
  BY DEF OneRun
<1>2. SameRecords(n, m)
  BY DEF SameRecords
<1> QED
  BY <1>1, <1>2

\* A worker ends, or its job goes back: its run is over and no other is current for it.
LEMMA RunEnds ==
    ASSUME NEW m \in Table, NEW n \in Table, NEW R, Good(m, R), NEW r \in DOMAIN m.runs,
           m.runs[r].at \in {"ran", "asked", "graced", "judged"},
           OneRun(n, m, r), n.runs[r].at = "over", n.runs[r].proc = m.runs[r].proc,
           NEW l, l = m.runs[r].label, n.state[l] \notin {"running", "paused"},
           \A k \in Labels : k # l => n.state[k] = m.state[k] /\ n.entry[k] = m.entry[k],
           n.bg = m.bg, n.pids = m.pids, n.frozen = m.frozen, n.noYield = m.noYield
    PROVE  /\ l \in Labels /\ m.state[l] = "running"
           /\ Phases(n) /\ OneCurrent(n) /\ Recorded(n) /\ (Live(m) => Live(n))
<1>c. Phases(m) /\ OneCurrent(m) /\ Recorded(m)
  BY DEF Good
<1>d. DOMAIN n.runs = DOMAIN m.runs
  BY DEF OneRun
<1>l. /\ l \in Labels
      /\ \A s \in DOMAIN m.runs : m.runs[s].label \in Labels /\ n.runs[s].label = m.runs[s].label
  BY RunIs DEF OneRun
<1>r. Current(m, r) /\ ~Current(n, r) /\ m.state[l] = "running"
  BY <1>c DEF Current, OneCurrent
<1>o. \A s \in DOMAIN m.runs : (Current(n, s) <=> Current(m, s) /\ s # r)
                               /\ (Current(n, s) => m.runs[s].label # l)
  BY <1>c, <1>r DEF OneRun, Current, OneCurrent
<1>f. m.frozen[l] = 0
  BY <1>c, <1>l, <1>r DEF Recorded
<1>2. Phases(n)
  BY <1>c, <1>d DEF Phases, OneRun
<1>3. OneCurrent(n)
  <2>1. \A s \in DOMAIN m.runs : Current(n, s) =>
           /\ n.state[m.runs[s].label] \in {"running", "paused"}
           /\ n.state[m.runs[s].label] = "paused" => n.runs[s].at = "wait"
    BY <1>c, <1>o, <1>l DEF OneCurrent, OneRun
  <2> QED
    BY <1>c, <1>d, <1>l, <1>o, <2>1 DEF OneCurrent
<1>4. Recorded(n)
  <2>1. \A k \in Labels : n.pids[k] # 0 =>
           /\ n.pids[k] \in DOMAIN n.runs /\ n.runs[n.pids[k]].label = k
           /\ n.runs[n.pids[k]].at \notin {"setup", "born", "gone"}
    BY <1>c, <1>d, <1>l DEF Recorded, OneRun
  <2>2. \A s \in DOMAIN m.runs : n.runs[s].proc = m.runs[s].proc
    BY DEF OneRun
  <2>3. \A k \in Labels : n.frozen[k] # 0 =>
           /\ n.frozen[k] = n.pids[k] /\ n.state[k] = "paused" /\ n.runs[n.pids[k]].proc = "stopped"
    BY <1>c, <1>f, <2>2 DEF Recorded
  <2>4. \A s \in DOMAIN n.runs : n.runs[s].proc = "stopped" => n.frozen[n.runs[s].label] = s
    BY <1>c, <1>d, <1>l, <2>2 DEF Recorded
  <2> QED
    BY <2>1, <2>3, <2>4 DEF Recorded
<1>5. ASSUME Live(m) PROVE Live(n)
  <2>2. \A k \in Labels : n.state[k] \in {"running", "paused"} =>
           \E s \in DOMAIN n.runs : n.runs[s].label = k /\ Current(n, s)
    <3> SUFFICES ASSUME NEW k \in Labels, n.state[k] \in {"running", "paused"}
                 PROVE  \E s \in DOMAIN m.runs : n.runs[s].label = k /\ Current(n, s)
      BY <1>d
    <3>1. k # l /\ m.state[k] \in {"running", "paused"}
      OBVIOUS
    <3>2. PICK s \in DOMAIN m.runs : m.runs[s].label = k /\ Current(m, s)
      BY <1>5, <3>1 DEF Live
    <3> QED
      BY <1>l, <1>o, <3>1, <3>2
  <2>3. \A s \in DOMAIN n.runs : Current(n, s) => n.entry[n.runs[s].label] = n.runs[s].on
    BY <1>5, <1>d, <1>l, <1>o DEF Live, OneRun
  <2>4. ASSUME NEW e \in Entries PROVE Cardinality(Counted(n, e)) <= Slots
    <3>1. \A k \in Labels : k # l /\ Exempt(m, k) => Exempt(n, k)
      BY <1>c, <1>o DEF Exempt, Recorded, Current
    <3>2. Counted(n, e) \subseteq Counted(m, e)
      BY <3>1 DEF Counted, On
    <3>3. Cardinality(Counted(m, e)) <= Slots
      BY <1>5 DEF Live
    <3> QED
      BY <3>2, <3>3, SlotsKept
  <2>5. \A k \in Labels : n.state[k] = "paused" => n.frozen[k] # 0
    BY <1>5 DEF Live
  <2> QED
    BY <2>2, <2>3, <2>4, <2>5 DEF Live
<1> QED
  BY <1>l, <1>r, <1>2, <1>3, <1>4, <1>5
\* The cool-downs, the idle times and the grace of a job that went on are nothing to the order of the jobs.
LEMMA ClockMoves ==
    ASSUME NEW m \in Table, NEW n \in Table, Good(m, {}),
           n.state = m.state, n.entry = m.entry, n.bg = m.bg, n.runs = m.runs,
           n.fgHeld = m.fgHeld, n.bgHeld = m.bgHeld, n.pids = m.pids, n.frozen = m.frozen,
           n.noYield = m.noYield
    PROVE  Good(n, {}) /\ (Live(m) => Live(n)) /\ Due(n) <= Due(m)
<1>1. HeldOnce(m, {}) /\ Phases(m) /\ OneCurrent(m) /\ Recorded(m)
  BY DEF Good
<1>2. Waiting(n) = Waiting(m) /\ Wanting(n) \subseteq Wanting(m) /\ SameRuns(n, m)
  BY DEF Waiting, Wanting, SameRuns
<1>3. HeldOnce(n, {})
  BY <1>1, <1>2 DEF HeldOnce
<1>4. Phases(n) /\ OneCurrent(n) /\ Recorded(n)
  BY <1>1, RecordsMove
<1>5. Live(m) => Live(n)
  BY <1>1, RecordsLive
<1>6. Due(n) <= Due(m)
  BY <1>2, SameDue
<1> QED
  BY <1>3, <1>4, <1>5, <1>6 DEF Good

\* No more is due when the run does not begin to fail and its label does not want another.
LEMMA DueStays ==
    ASSUME NEW m \in Table, NEW n \in Table, NEW r, OneRun(n, m, r),
           r \in Failing(n) => r \in Failing(m), Wanting(n) \subseteq Wanting(m)
    PROVE  Due(n) <= Due(m)
<1>1. Failing(n) \subseteq Failing(m)
  BY DEF OneRun, Failing
<1>2. Cardinality(Failing(n)) <= Cardinality(Failing(m)) /\ Cardinality(Wanting(n)) <= Cardinality(Wanting(m))
  BY <1>1, FewOnes, FS_Subset
<1>3. /\ Len(m.runs) \in Nat /\ Len(n.runs) = Len(m.runs)
      /\ Cardinality(Wanting(n)) \in Nat /\ Cardinality(Wanting(m)) \in Nat
      /\ Cardinality(Failing(n)) \in Nat /\ Cardinality(Failing(m)) \in Nat
  BY FewOnes DEF OneRun
<1>4. \A x, b, c, d, e \in Nat : b <= c /\ d <= e => x + b + d <= x + c + e
  OBVIOUS
<1> QED
  BY <1>2, <1>3, <1>4 DEF Due

\* A worker that ended in that state; what its entry learns of it are C and D.
Done(m, r, state, C, D) ==
    [m EXCEPT !.runs[r].at = "over", !.state[m.runs[r].label] = state, !.cooling = C, !.recent = D]

LEMMA FinishIs ==
    ASSUME NEW m \in Table, Good(m, {}), NEW r \in DOMAIN m.runs,
           m.runs[r].at \in {"ran", "asked", "judged"}, NEW state \in Ended,
           NEW C \in SUBSET Entries, NEW D \in SUBSET Entries
    PROVE  LET n == Done(m, r, state, C, D) IN
           /\ n \in Table /\ Good(n, {}) /\ (Live(m) => Live(n)) /\ Due(n) <= Due(m)
           /\ n.bg = m.bg /\ \A k \in Labels : m.state[k] \in Ended => n.state[k] = m.state[k]
<1>0. PICK l : l = m.runs[r].label
  OBVIOUS
<1>1. PICK a : a = [m EXCEPT !.runs[r].at = "over"]
  OBVIOUS
<1>a. "over" \in Ats
  BY DEF Ats
<1>2. /\ a \in Table /\ OneRun(a, m, r) /\ a.runs[r].at = "over" /\ a.runs[r].proc = m.runs[r].proc
      /\ SameRecords(a, m)
  BY <1>1, <1>a, EditAt
<1>3. PICK n : n = Done(m, r, state, C, D)
  OBVIOUS
<1>4. n = [a EXCEPT !.state[l] = state, !.cooling = C, !.recent = D]
  BY <1>0, <1>1, <1>3 DEF Done
<1>l. l \in Labels
  BY <1>0, RunIs
<1>5. /\ n \in Table /\ n.runs = a.runs /\ n.entry = a.entry /\ n.bg = a.bg
      /\ n.fgHeld = a.fgHeld /\ n.bgHeld = a.bgHeld /\ n.pids = a.pids /\ n.frozen = a.frozen
      /\ n.noYield = a.noYield
      /\ n.state[l] = state /\ \A k \in Labels : k # l => n.state[k] = a.state[k]
  BY <1>2, <1>4, <1>l DEF Table, States
<1> HIDE <1>1, <1>3, <1>4
<1>6. /\ n.entry = m.entry /\ n.bg = m.bg /\ n.pids = m.pids /\ n.frozen = m.frozen
      /\ n.fgHeld = m.fgHeld /\ n.bgHeld = m.bgHeld /\ n.noYield = m.noYield
      /\ \A k \in Labels : k # l => n.state[k] = m.state[k]
      /\ state \notin {"running", "paused", "queued", "none"}
  BY <1>2, <1>5 DEF SameRecords, Ended
<1>7. OneRun(n, m, r) /\ n.runs[r].at = "over" /\ n.runs[r].proc = m.runs[r].proc
  BY <1>2, <1>5 DEF OneRun
<1>8. /\ m.state[l] = "running"
      /\ Phases(n) /\ OneCurrent(n) /\ Recorded(n) /\ (Live(m) => Live(n))
  <2>1. /\ m.runs[r].at \in {"ran", "asked", "graced", "judged"}
        /\ n.state[l] \notin {"running", "paused"}
        /\ \A k \in Labels : k # l => n.state[k] = m.state[k] /\ n.entry[k] = m.entry[k]
    BY <1>5, <1>6
  <2> HIDE <1>2, <1>5
  <2> QED
    BY <1>0, <1>5, <1>6, <1>7, <2>1, RunEnds
<1>9. Waiting(n) = Waiting(m) /\ Wanting(n) = Wanting(m)
  BY <1>5, <1>6, <1>8 DEF Waiting, Wanting
<1>10. HeldOnce(n, {})
  <2>1. HeldOnce(m, {})
    BY DEF Good
  <2>2. \A k \in Labels : n.state[k] = "queued" => m.state[k] = "queued"
    BY <1>5, <1>6
  <2>3. \A j \in {} \cup ToSet(m.fgHeld) \cup ToSet(m.bgHeld) : j.label \in Labels
    BY <2>1 DEF HeldOnce, LabelsOf, Waiting
  <2> QED
    BY <1>6, <1>9, <2>1, <2>2, <2>3 DEF HeldOnce
<1>11. Due(n) <= Due(m)
  <2>1. r \notin Failing(n)
    BY <1>7 DEF Failing
  <2> QED
    BY <1>5, <1>7, <1>9, <2>1, DueStays
<1>12. \A k \in Labels : m.state[k] \in Ended => n.state[k] = m.state[k]
  BY <1>6, <1>8 DEF Ended
<1> QED
  BY <1>3, <1>5, <1>6, <1>8, <1>10, <1>11, <1>12 DEF Good
LEMMA RequeuedIs ==
    ASSUME NEW m \in Table, Good(m, {}), NEW r \in DOMAIN m.runs,
           m.runs[r].at \in {"graced", "judged"}
    PROVE  LET n == Requeued(m, r) IN
           /\ n \in Table /\ Good(n, {}) /\ (Live(m) => Live(n)) /\ Due(n) <= Due(m)
           /\ n.bg = m.bg /\ \A k \in Labels : m.state[k] \in Ended => n.state[k] = m.state[k]
<1>0. PICK l : l = m.runs[r].label
  OBVIOUS
<1>j. PICK j : j = [label |-> l, full |-> m.runs[r].full]
  OBVIOUS
<1>1. PICK n : n = Requeued(m, r)
  OBVIOUS
<1>2. PICK a : a = [m EXCEPT !.state[l] = "queued", !.entry[l] = 0]
  OBVIOUS
<1>3. PICK b : b = [a EXCEPT !.runs[r].at = "over"]
  OBVIOUS
<1>4. n = IF l \in m.bg THEN [b EXCEPT !.bgHeld = <<j>> \o @] ELSE [b EXCEPT !.fgHeld = <<j>> \o @]
  BY <1>0, <1>j, <1>1, <1>2, <1>3 DEF Requeued
<1>c. HeldOnce(m, {}) /\ Phases(m)
  BY DEF Good
<1>l. l \in Labels /\ j \in Job /\ j.label = l /\ j.full
  BY <1>0, <1>c, <1>j, RunIs DEF Job, Phases
<1>5. /\ a \in Table /\ a.runs = m.runs /\ a.bg = m.bg
      /\ a.fgHeld = m.fgHeld /\ a.bgHeld = m.bgHeld /\ a.pids = m.pids /\ a.frozen = m.frozen
      /\ a.noYield = m.noYield /\ a.state[l] = "queued"
      /\ \A k \in Labels : k # l => a.state[k] = m.state[k] /\ a.entry[k] = m.entry[k]
  BY <1>2, <1>l DEF Table, States
<1>6. /\ b \in Table /\ OneRun(b, a, r) /\ b.runs[r].at = "over" /\ b.runs[r].proc = m.runs[r].proc
      /\ SameRecords(b, a)
  <2>1. a \in Table /\ r \in DOMAIN a.runs /\ "over" \in Ats
    BY <1>5 DEF Ats
  <2>2. /\ b \in Table /\ OneRun(b, a, r) /\ b.runs[r].at = "over" /\ b.runs[r].proc = a.runs[r].proc
        /\ SameRecords(b, a)
    BY <1>3, <2>1, EditAt
  <2> QED
    BY <1>5, <2>2
<1> HIDE <1>2, <1>3, <1>j
<1>7. /\ b.bg = m.bg /\ b.fgHeld = m.fgHeld /\ b.bgHeld = m.bgHeld /\ b.pids = m.pids
      /\ b.frozen = m.frozen /\ b.noYield = m.noYield /\ b.state[l] = "queued"
      /\ \A k \in Labels : k # l => b.state[k] = m.state[k] /\ b.entry[k] = m.entry[k]
  BY <1>5, <1>6 DEF SameRecords
<1>8. OneRun(b, m, r)
  BY <1>5, <1>6 DEF OneRun
<1>9. /\ m.state[l] = "running"
      /\ Phases(b) /\ OneCurrent(b) /\ Recorded(b) /\ (Live(m) => Live(b))
  <2>1. m.runs[r].at \in {"ran", "asked", "graced", "judged"}
    OBVIOUS
  <2>2. b.state[l] \notin {"running", "paused"}
    BY <1>7
  <2>3. b \in Table /\ b.runs[r].at = "over" /\ b.runs[r].proc = m.runs[r].proc
    BY <1>6
  <2> HIDE <1>5, <1>6, <1>4
  <2> QED
    BY <1>0, <1>7, <1>8, <2>1, <2>2, <2>3, RunEnds
<1>10. l \notin LabelsOf(ToSet(m.fgHeld)) /\ l \notin LabelsOf(ToSet(m.bgHeld))
  BY <1>9, <1>c, <1>l DEF HeldOnce, Waiting
<1>11. m.fgHeld \in Seq(Job) /\ m.bgHeld \in Seq(Job) /\ Single(m.fgHeld) /\ Single(m.bgHeld)
  BY <1>c DEF Table, HeldOnce
<1>12. PICK q : q = IF l \in m.bg THEN <<j>> \o m.bgHeld ELSE <<j>> \o m.fgHeld
  OBVIOUS
<1>13. /\ q \in Seq(Job) /\ Single(q)
       /\ ToSet(q) = IF l \in m.bg THEN ToSet(m.bgHeld) \cup {j} ELSE ToSet(m.fgHeld) \cup {j}
  BY <1>10, <1>11, <1>12, <1>l, QueueFront
<1>14. /\ n \in Table
       /\ n.state = b.state /\ n.entry = b.entry /\ n.bg = b.bg /\ n.runs = b.runs
       /\ n.pids = b.pids /\ n.frozen = b.frozen /\ n.noYield = b.noYield
       /\ n.bgHeld = IF l \in m.bg THEN q ELSE m.bgHeld
       /\ n.fgHeld = IF l \in m.bg THEN m.fgHeld ELSE q
  BY <1>4, <1>6, <1>7, <1>12, <1>13 DEF Table
<1> HIDE <1>4, <1>12
<1>15. Phases(n) /\ OneCurrent(n) /\ Recorded(n) /\ (Live(b) => Live(n))
  BY <1>6, <1>9, <1>14, RecordsMove, RecordsLive
<1>16. Waiting(n) = Waiting(m) \cup {l}
  BY <1>7, <1>14, <1>l DEF Waiting
<1>17. HeldOnce(n, {})
  <2>1. \A i \in ToSet(m.fgHeld) \cup ToSet(m.bgHeld) : i.label \in Labels /\ i.label # l
    BY <1>10, <1>c DEF HeldOnce, LabelsOf, Waiting
  <2>2. \A i \in ToSet(m.fgHeld) \cup ToSet(m.bgHeld) : n.state[i.label] = "queued" => i.full
    <3>1. \A i \in ToSet(m.fgHeld) \cup ToSet(m.bgHeld) : m.state[i.label] = "queued" => i.full
      BY <1>c DEF HeldOnce
    <3> QED
      BY <1>7, <1>14, <2>1, <3>1
  <2>3. ASSUME NEW A, NEW B
        PROVE  LabelsOf(A \cup {j}) = LabelsOf(A) \cup {l}
    BY <1>l, LabelsAdd
  <2>4. /\ LabelsOf({}) = {} /\ LabelsOf(ToSet(m.fgHeld)) \cap m.bg = {}
        /\ LabelsOf(ToSet(m.bgHeld)) \subseteq m.bg
        /\ LabelsOf(ToSet(m.fgHeld)) \cup LabelsOf(ToSet(m.bgHeld)) = Waiting(m)
    BY <1>c, EmptyQueue DEF HeldOnce
  <2>5. CASE l \in m.bg
    <3>1. ToSet(n.bgHeld) = ToSet(m.bgHeld) \cup {j} /\ n.fgHeld = m.fgHeld /\ Single(n.bgHeld)
      BY <1>13, <1>14, <2>5
    <3>2. LabelsOf(ToSet(n.bgHeld)) = LabelsOf(ToSet(m.bgHeld)) \cup {l}
      BY <2>3, <3>1
    <3>3. \A i \in {} \cup ToSet(n.fgHeld) \cup ToSet(n.bgHeld) : n.state[i.label] = "queued" => i.full
      BY <1>l, <2>2, <3>1
    <3>4. LabelsOf({}) \cup LabelsOf(ToSet(n.fgHeld)) \cup LabelsOf(ToSet(n.bgHeld)) = Waiting(n)
      BY <1>16, <2>4, <3>1, <3>2
    <3>5. LabelsOf(ToSet(n.fgHeld)) \cap n.bg = {} /\ LabelsOf(ToSet(n.bgHeld)) \subseteq n.bg
      BY <1>7, <1>14, <2>4, <2>5, <3>1, <3>2
    <3> QED
      BY <1>11, <2>4, <3>1, <3>3, <3>4, <3>5 DEF HeldOnce
  <2>6. CASE l \notin m.bg
    <3>1. ToSet(n.fgHeld) = ToSet(m.fgHeld) \cup {j} /\ n.bgHeld = m.bgHeld /\ Single(n.fgHeld)
      BY <1>13, <1>14, <2>6
    <3>2. LabelsOf(ToSet(n.fgHeld)) = LabelsOf(ToSet(m.fgHeld)) \cup {l}
      BY <2>3, <3>1
    <3>3. \A i \in {} \cup ToSet(n.fgHeld) \cup ToSet(n.bgHeld) : n.state[i.label] = "queued" => i.full
      BY <1>l, <2>2, <3>1
    <3>4. LabelsOf({}) \cup LabelsOf(ToSet(n.fgHeld)) \cup LabelsOf(ToSet(n.bgHeld)) = Waiting(n)
      BY <1>16, <2>4, <3>1, <3>2
    <3>5. LabelsOf(ToSet(n.fgHeld)) \cap n.bg = {} /\ LabelsOf(ToSet(n.bgHeld)) \subseteq n.bg
      BY <1>7, <1>14, <2>4, <2>6, <3>1, <3>2
    <3> QED
      BY <1>11, <2>4, <3>1, <3>3, <3>4, <3>5 DEF HeldOnce
  <2> QED
    BY <2>5, <2>6
<1>18. Due(n) <= Due(m)
  <2>1. Wanting(n) = Wanting(m) \cup {l} /\ l \notin Wanting(m)
    BY <1>7, <1>9, <1>14, <1>l DEF Wanting
  <2>2. Failing(n) = Failing(m) \ {r} /\ r \in Failing(m)
    BY <1>6, <1>8, <1>14 DEF Failing, OneRun
  <2>3. /\ Cardinality(Wanting(n)) = Cardinality(Wanting(m)) + 1
        /\ Cardinality(Failing(n)) = Cardinality(Failing(m)) - 1
    <3>1. IsFiniteSet(Wanting(m)) /\ IsFiniteSet(Failing(m))
      BY FewOnes
    <3>2. Cardinality(Wanting(m) \cup {l}) = Cardinality(Wanting(m)) + 1
      BY <2>1, <3>1, FS_AddElement
    <3>3. Cardinality(Failing(m) \ {r}) = Cardinality(Failing(m)) - 1
      BY <2>2, <3>1, FS_RemoveElement
    <3> QED
      BY <2>1, <2>2, <3>2, <3>3
  <2>4. Len(n.runs) = Len(m.runs)
    BY <1>8, <1>14 DEF OneRun
  <2>5. Len(m.runs) \in Nat /\ Cardinality(Wanting(m)) \in Nat /\ Cardinality(Failing(m)) \in Nat
    BY FewOnes
  <2>6. \A x, y, z \in Nat : x + (y + 1) + (z - 1) <= x + y + z
    OBVIOUS
  <2> QED
    BY <2>3, <2>4, <2>5, <2>6 DEF Due
<1>19. \A k \in Labels : m.state[k] \in Ended => n.state[k] = m.state[k]
  BY <1>7, <1>9, <1>14 DEF Ended
<1> QED
  BY <1>1, <1>7, <1>9, <1>14, <1>15, <1>17, <1>18, <1>19 DEF Good
\* A new job is held.
LEMMA SpawnedIs ==
    ASSUME NEW m \in Table, Mid(m, {}), NEW l \in Labels, m.state[l] = "none",
           NEW j \in Job, j.label = l, j.full, NEW a \in Table, a.runs = m.runs,
           \A k \in Labels : k # l => (k \in a.bg <=> k \in m.bg),
           a.fgHeld = m.fgHeld, a.bgHeld = m.bgHeld,
           a.pids = m.pids, a.frozen = m.frozen, a.noYield = m.noYield, a.state[l] = "queued",
           \A k \in Labels : k # l => a.state[k] = m.state[k] /\ a.entry[k] = m.entry[k]
    PROVE  LET n == Keep(a, j) IN
           /\ n \in Table /\ Mid(n, {}) /\ Due(n) <= Due(m)
           /\ \A k \in Labels : m.state[k] \in Ended => n.state[k] = m.state[k]
<1>2. PICK n : n = Keep(a, j)
  OBVIOUS
<1>c. HeldOnce(m, {}) /\ Phases(m) /\ OneCurrent(m) /\ Recorded(m) /\ Live(m)
  BY DEF Mid, Good
<1>4. Phases(a) /\ OneCurrent(a) /\ Recorded(a) /\ Live(a)
  <2>1. \A k \in Labels : \/ a.state[k] = m.state[k] /\ a.entry[k] = m.entry[k]
                          \/ /\ m.state[k] \notin {"running", "paused"}
                             /\ a.state[k] \notin {"running", "paused"}
    OBVIOUS
  <2>2. \A k \in Labels : a.state[k] = m.state[k] \/ m.state[k] \notin {"running", "paused"}
    OBVIOUS
  <2> QED
    BY <1>c, <2>1, <2>2, RecordsMove, RecordsLive
<1>5. HeldOnce(a, {j})
  <2>1. Waiting(a) = Waiting(m) \cup {l} /\ l \notin Waiting(m)
    BY DEF Waiting
  <2>2. LabelsOf({j}) = {l} /\ LabelsOf({}) = {}
    BY DEF LabelsOf
  <2>3. /\ l \notin LabelsOf(ToSet(m.fgHeld)) /\ l \notin LabelsOf(ToSet(m.bgHeld))
        /\ LabelsOf(ToSet(m.fgHeld)) \cup LabelsOf(ToSet(m.bgHeld)) = Waiting(m)
        /\ LabelsOf(ToSet(m.fgHeld)) \cap m.bg = {} /\ LabelsOf(ToSet(m.bgHeld)) \subseteq m.bg
    BY <1>c, <2>1, <2>2 DEF HeldOnce
  <2>4. LabelsOf(ToSet(m.fgHeld)) \cap a.bg = {} /\ LabelsOf(ToSet(m.bgHeld)) \subseteq a.bg
    BY <2>3 DEF Waiting
  <2>5. \A i \in {j} \cup ToSet(m.fgHeld) \cup ToSet(m.bgHeld) : a.state[i.label] = "queued" => i.full
    <3>1. \A i \in ToSet(m.fgHeld) \cup ToSet(m.bgHeld) : i.label \in Labels /\ i.label # l
      BY <2>3 DEF LabelsOf, Waiting
    <3>2. \A i \in ToSet(m.fgHeld) \cup ToSet(m.bgHeld) : m.state[i.label] = "queued" => i.full
      BY <1>c DEF HeldOnce
    <3> QED
      BY <3>1, <3>2
  <2>6. Single(m.fgHeld) /\ Single(m.bgHeld)
    BY <1>c DEF HeldOnce
  <2> QED
    BY <2>1, <2>2, <2>3, <2>4, <2>5, <2>6 DEF HeldOnce
<1>6. Mid(a, {j}) /\ Takes({j}, j, {})
  BY <1>4, <1>5 DEF Mid, Good, Takes, LabelsOf
<1>7. n \in Table /\ Mid(n, {}) /\ Follows(n, a)
  BY <1>2, <1>6, Keeps
<1>8. Due(n) <= Due(m)
  <2>1. Wanting(a) = Wanting(m) /\ SameRuns(a, m)
    BY DEF Wanting, SameRuns
  <2>2. Due(a) <= Due(m)
    BY <2>1, SameDue
  <2> QED
    BY <1>7, <2>2, FewOnes DEF Follows
<1>9. \A k \in Labels : m.state[k] \in Ended => n.state[k] = m.state[k]
  BY <1>7 DEF Follows, Ended
<1> QED
  BY <1>2, <1>7, <1>8, <1>9

\* The callback of a run that started records it.
Begun(m, r) == [m EXCEPT !.runs[r].at = "wait", !.pids[m.runs[r].label] = r]

LEMMA StartedIs ==
    ASSUME NEW m \in Table, Good(m, {}), NEW r \in DOMAIN m.runs, m.runs[r].at = "born"
    PROVE  LET n == Begun(m, r) IN
           /\ n \in Table /\ Good(n, {}) /\ (Live(m) => Live(n)) /\ Due(n) <= Due(m)
           /\ n.state = m.state /\ n.bg = m.bg
<1>0. PICK l : l = m.runs[r].label
  OBVIOUS
<1>1. PICK a : a = [m EXCEPT !.runs[r].at = "wait"]
  OBVIOUS
<1>a. "wait" \in Ats
  BY DEF Ats
<1>2. /\ a \in Table /\ OneRun(a, m, r) /\ a.runs[r].at = "wait" /\ a.runs[r].proc = m.runs[r].proc
      /\ SameRecords(a, m)
  BY <1>1, <1>a, EditAt
<1>3. PICK n : n = [a EXCEPT !.pids[l] = r]
  OBVIOUS
<1>l. l \in Labels /\ r \in Nat \ {0}
  BY <1>0, RunIs, FewOnes
<1>4. /\ n \in Table /\ n.runs = a.runs /\ n.state = a.state /\ n.entry = a.entry /\ n.bg = a.bg
      /\ n.fgHeld = a.fgHeld /\ n.bgHeld = a.bgHeld /\ n.frozen = a.frozen /\ n.noYield = a.noYield
      /\ n.pids[l] = r /\ \A k \in Labels : k # l => n.pids[k] = a.pids[k]
  BY <1>2, <1>3, <1>l DEF Table
<1>5. n = Begun(m, r)
  BY <1>0, <1>1, <1>3 DEF Begun
<1> HIDE <1>1, <1>3
<1>6. /\ n.state = m.state /\ n.entry = m.entry /\ n.bg = m.bg /\ n.fgHeld = m.fgHeld
      /\ n.bgHeld = m.bgHeld /\ n.frozen = m.frozen /\ n.noYield = m.noYield
      /\ \A k \in Labels : k # l => n.pids[k] = m.pids[k]
  BY <1>2, <1>4 DEF SameRecords
<1>7. /\ OneRun(n, m, r) /\ n.runs[r].at = "wait" /\ n.runs[r].proc = m.runs[r].proc
  BY <1>2, <1>4 DEF OneRun
<1> HIDE <1>2, <1>5
<1>c. HeldOnce(m, {}) /\ Phases(m) /\ OneCurrent(m) /\ Recorded(m)
  BY DEF Good
<1>d. DOMAIN n.runs = DOMAIN m.runs
  BY <1>7 DEF OneRun
<1>s. \A s \in DOMAIN m.runs : m.runs[s].label \in Labels /\ n.runs[s].label = m.runs[s].label
  BY <1>7, RunIs DEF OneRun
<1>o. /\ \A s \in DOMAIN m.runs : Current(n, s) <=> Current(m, s)
      /\ Current(m, r) /\ m.state[l] = "running"
  BY <1>0, <1>7, <1>c DEF OneRun, Current, OneCurrent
<1>f. m.frozen[l] = 0
  BY <1>c, <1>l, <1>o DEF Recorded
<1>8. HeldOnce(n, {})
  <2>1. Waiting(n) = Waiting(m)
    BY <1>6 DEF Waiting
  <2> QED
    BY <1>6, <1>c, <2>1 DEF HeldOnce
<1>9. Phases(n)
  <2>1. ASSUME NEW s \in DOMAIN m.runs, n.runs[s].at = "wait" PROVE n.pids[m.runs[s].label] = s
    <3>1. CASE s = r
      BY <1>0, <1>4, <3>1
    <3>2. CASE s # r
      <4>1. m.runs[s].at = "wait" /\ m.pids[m.runs[s].label] = s
        BY <1>7, <1>c, <2>1, <3>2 DEF OneRun, Phases
      <4>2. m.runs[s].label # l
        BY <1>0, <1>c, <1>o, <3>2, <4>1 DEF OneCurrent, Current
      <4> QED
        BY <1>6, <1>s, <4>1, <4>2
    <3> QED
      BY <3>1, <3>2
  <2> QED
    BY <1>7, <1>c, <1>d, <1>s, <2>1 DEF Phases, OneRun
<1>10. OneCurrent(n)
  <2>1. \A s \in DOMAIN m.runs : Current(m, s) =>
           /\ n.state[m.runs[s].label] \in {"running", "paused"}
           /\ n.state[m.runs[s].label] = "paused" => n.runs[s].at = "wait"
    BY <1>6, <1>7, <1>c DEF OneCurrent, OneRun
  <2>2. \A s, t \in DOMAIN m.runs :
           Current(m, s) /\ Current(m, t) /\ m.runs[s].label = m.runs[t].label => s = t
    BY <1>c DEF OneCurrent
  <2> QED
    BY <1>d, <1>s, <1>o, <2>1, <2>2 DEF OneCurrent
<1>11. Recorded(n)
  <2>1. \A k \in Labels : n.pids[k] # 0 =>
           /\ n.pids[k] \in DOMAIN n.runs /\ n.runs[n.pids[k]].label = k
           /\ n.runs[n.pids[k]].at \notin {"setup", "born", "gone"}
    <3> SUFFICES ASSUME NEW k \in Labels, n.pids[k] # 0
                 PROVE  /\ n.pids[k] \in DOMAIN m.runs /\ n.runs[n.pids[k]].label = k
                        /\ n.runs[n.pids[k]].at \notin {"setup", "born", "gone"}
      BY <1>d
    <3>1. CASE k = l
      BY <1>0, <1>4, <1>7, <1>s, <3>1
    <3>2. CASE k # l
      <4>1. /\ n.pids[k] = m.pids[k] /\ m.pids[k] \in DOMAIN m.runs /\ m.runs[m.pids[k]].label = k
            /\ m.runs[m.pids[k]].at \notin {"setup", "born", "gone"}
        BY <1>6, <1>c, <3>2 DEF Recorded
      <4> QED
        BY <1>7, <1>s, <4>1 DEF OneRun
    <3> QED
      BY <3>1, <3>2
  <2>2. \A s \in DOMAIN m.runs : n.runs[s].proc = m.runs[s].proc
    BY <1>7 DEF OneRun
  <2>3. \A k \in Labels : n.frozen[k] # 0 =>
           /\ n.frozen[k] = n.pids[k] /\ n.state[k] = "paused" /\ n.runs[n.pids[k]].proc = "stopped"
    BY <1>6, <1>c, <1>f, <2>2 DEF Recorded
  <2>4. \A s \in DOMAIN n.runs : n.runs[s].proc = "stopped" => n.frozen[n.runs[s].label] = s
    BY <1>6, <1>c, <1>d, <1>s, <2>2 DEF Recorded
  <2> QED
    BY <2>1, <2>3, <2>4 DEF Recorded
<1>12. ASSUME Live(m) PROVE Live(n)
  <2>1. \A k \in Labels : n.state[k] \in {"running", "paused"} =>
           \E s \in DOMAIN n.runs : n.runs[s].label = k /\ Current(n, s)
    BY <1>6, <1>12, <1>d, <1>s, <1>o DEF Live
  <2>2. \A s \in DOMAIN n.runs : Current(n, s) => n.entry[n.runs[s].label] = n.runs[s].on
    BY <1>6, <1>7, <1>12, <1>d, <1>s, <1>o DEF Live, OneRun
  <2>3. ASSUME NEW e \in Entries PROVE Cardinality(Counted(n, e)) <= Slots
    <3>1. ASSUME NEW k \in Labels, Exempt(m, k) PROVE Exempt(n, k)
      <4>1. CASE k = l
        BY <1>4, <1>6, <1>7, <1>l, <3>1, <4>1 DEF Exempt
      <4>2. CASE k # l
        BY <1>6, <1>c, <1>o, <3>1, <4>2 DEF Exempt, Recorded, Current
      <4> QED
        BY <4>1, <4>2
    <3>2. On(n, e) = On(m, e) /\ On(m, e) \subseteq Labels
      BY <1>6 DEF On
    <3>3. Counted(n, e) \subseteq Counted(m, e)
      BY <3>1, <3>2 DEF Counted
    <3>4. Cardinality(Counted(m, e)) <= Slots
      BY <1>12 DEF Live
    <3> QED
      BY <1>4, <3>3, <3>4, SlotsKept
  <2>4. \A k \in Labels : n.state[k] = "paused" => n.frozen[k] # 0
    BY <1>6, <1>12 DEF Live
  <2> QED
    BY <2>1, <2>2, <2>3, <2>4 DEF Live
<1>13. Due(n) <= Due(m)
  <2>1. r \notin Failing(n) /\ Wanting(n) \subseteq Wanting(m)
    BY <1>6, <1>7 DEF Failing, Wanting
  <2> QED
    BY <1>4, <1>7, <2>1, DueStays
<1> QED
  BY <1>4, <1>5, <1>6, <1>8, <1>9, <1>10, <1>11, <1>12, <1>13 DEF Good
-----------------------------------------------------------------------------
(* Regions under the lock, and the files they leave.                       *)

\* What the pump writes to queue.json names the background jobs that wait, each once, with its brief.
Written(n) == {j \in ToSet(n.bgHeld) : n.state[j.label] = "queued"}

LEMMA WrittenQueue ==
    ASSUME NEW n \in Table, HeldOnce(n, {})
    PROVE  /\ Written(n) \subseteq Job /\ \A i, j \in Written(n) : i.label = j.label => i = j
           /\ \A j \in Written(n) : j.full
           /\ LabelsOf(Written(n)) = {l \in n.bg : n.state[l] = "queued"}
<1> DEFINE Q == Written(n)
<1>0. Q = {j \in ToSet(n.bgHeld) : n.state[j.label] = "queued"}
  BY DEF Written
<1> HIDE DEF Q
<1>1. n.bgHeld \in Seq(Job) /\ n.bg \in SUBSET Labels
  BY DEF Table
<1>2. ToSet(n.bgHeld) \subseteq Job
  BY <1>1 DEF ToSet
<1>3. \A i, j \in ToSet(n.bgHeld) : i.label = j.label => i = j
  BY DEF ToSet, HeldOnce, Single
<1>4. \A j \in Q : j.full
  BY <1>0 DEF HeldOnce
<1>5. ASSUME NEW l \in n.bg, n.state[l] = "queued" PROVE l \in LabelsOf(Q)
  <2>1. l \in Waiting(n) /\ LabelsOf({}) = {}
    BY <1>1, <1>5, EmptyQueue DEF Waiting
  <2>2. l \in LabelsOf(ToSet(n.fgHeld)) \/ l \in LabelsOf(ToSet(n.bgHeld))
    BY <2>1 DEF HeldOnce
  <2>3. l \notin LabelsOf(ToSet(n.fgHeld))
    BY DEF HeldOnce
  <2>4. PICK j \in ToSet(n.bgHeld) : j.label = l
    BY <2>2, <2>3 DEF LabelsOf
  <2>5. j \in Q
    BY <1>0, <1>5, <2>4
  <2> QED
    BY <2>4, <2>5 DEF LabelsOf
<1>6. ASSUME NEW l \in LabelsOf(Q) PROVE l \in n.bg /\ n.state[l] = "queued"
  <2>1. PICK j \in ToSet(n.bgHeld) : j.label = l /\ n.state[j.label] = "queued"
    BY <1>0 DEF LabelsOf
  <2>2. l \in LabelsOf(ToSet(n.bgHeld))
    BY <2>1 DEF LabelsOf
  <2> QED
    BY <2>1, <2>2 DEF HeldOnce
<1> QED
  BY <1>0, <1>2, <1>3, <1>4, <1>5, <1>6 DEF Q

\* FinishedStays, for one step.
EndedStay == \A l \in Labels : w.state[l] \in Ended /\ ~writing => w'.state[l] \in Ended

\* A step that moves no record.
LEMMA Quietly ==
    ASSUME IInv, Good(w', {}), mode' # "cancelled" => Live(w'), w'.state = w.state, w'.bg = w.bg,
           wfile' = wfile, qfile' = qfile, writing' = writing, listed' \subseteq Entries,
           mode' \in {"open", "closed", "cancelled"}, mode' = "open" => mode = "open",
           budget' \in 0 .. Budget, Due(w') + budget' <= Cardinality(Labels) + Budget
    PROVE  IInv' /\ EndedStay
<1>1. Shape'
  BY DEF IInv, Shape
<1>2. Restored' = Restored
  BY DEF Restored
<1>3. Files'
  BY <1>2 DEF IInv, Files
<1>4. EndedStay
  BY DEF EndedStay
<1> QED
  BY <1>1, <1>3, <1>4 DEF IInv

\* A region that ends with the pump.
LEMMA Region ==
    ASSUME IInv, ~EndMeetsFreeze, NEW m, Good(m, {}), mode # "cancelled" => Live(m),
           NEW saves \in BOOLEAN, Pumps(m, saves), budget' \in 0 .. Budget,
           Due(m) + budget' <= Cardinality(Labels) + Budget,
           \A l \in Labels : w.state[l] \in Ended => m.state[l] \in Ended,
           saves \/ (m.state = w.state /\ m.bg = w.bg)
    PROVE  IInv' /\ EndedStay
<1>1. PICK c \in Chance : w' = Pump(m, c)
  BY DEF Pumps
<1>2. /\ ~writing /\ writing' = saves /\ listed' = listed /\ wfile' = wfile /\ mode' = mode
      /\ qfile' = Persisted(w')
  BY DEF Pumps, Unlocked
<1>m. m \in Table /\ Due(m) \in Nat
  BY FewOnes DEF Good
<1>3. /\ Good(w', {}) /\ (mode # "cancelled" => Live(w')) /\ Follows(w', m)
  <2>1. CASE mode = "open"
    <3>1. Mid(m, {})
      BY <2>1 DEF Mid
    <3> QED
      BY <1>1, <1>m, <2>1, <3>1, PumpIs DEF Mid
  <2>2. CASE mode # "open"
    <3>1. w' = m
      BY <1>1, <2>2 DEF Pump
    <3> QED
      BY <1>m, <3>1, FollowsSelf
  <2> QED
    BY <2>1, <2>2
<1>4. w' \in Table /\ Due(w') \in Nat /\ Due(w') <= Due(m) /\ w'.bg = m.bg
  BY <1>3, FewOnes DEF Good, Follows
<1>5. Due(w') + budget' <= Cardinality(Labels) + Budget
  <2>1. \A a, b, d \in Nat, x \in Int : a <= b /\ b + d <= x => a + d <= x
    OBVIOUS
  <2>2. budget' \in Nat /\ Cardinality(Labels) + Budget \in Int
    BY PoolAssumption, FS_CardinalityType
  <2> QED
    BY <1>m, <1>4, <2>1, <2>2
<1>s. Shape /\ Files
  BY DEF IInv
<1>q. mode = "open" => /\ qfile' \subseteq Job /\ \A i, j \in qfile' : i.label = j.label => i = j
                       /\ \A j \in qfile' : j.full
                       /\ LabelsOf(qfile') = {l \in w'.bg : w'.state[l] = "queued"}
  <2> SUFFICES ASSUME mode = "open"
               PROVE  /\ qfile' \subseteq Job /\ \A i, j \in qfile' : i.label = j.label => i = j
                      /\ \A j \in qfile' : j.full
                      /\ LabelsOf(qfile') = {l \in w'.bg : w'.state[l] = "queued"}
    OBVIOUS
  <2>1. qfile' = Written(w')
    BY <1>2 DEF Persisted, Written
  <2>2. HeldOnce(w', {})
    BY <1>3 DEF Good
  <2> QED
    BY <1>4, <2>1, <2>2, WrittenQueue
<1>o. mode # "open" => qfile' = qfile /\ w' = m
  BY <1>1, <1>2 DEF Persisted, Pump
<1>6. Shape'
  BY <1>2, <1>q, <1>o, <1>s DEF Shape
<1>r. Restored' = {j \in qfile' : wfile[j.label] = "queued" /\ j.label \in w'.bg}
  BY <1>2 DEF Restored
<1>7. Files'
  <2>1. (\A i, j \in qfile' : i.label = j.label => i = j) /\ \A j \in qfile' : j.full
    BY <1>q, <1>o, <1>s DEF Files
  <2>2. ASSUME mode = "open", ~saves
        PROVE  LabelsOf(Restored') = {l \in w'.bg : w'.state[l] = "queued"}
    <3>1. \A l \in w'.bg : w'.state[l] = "queued" => wfile[l] = "queued"
      BY <1>2, <1>3, <1>4, <1>s, <2>2 DEF Follows, Files, Table
    <3>2. \A j \in qfile' : j.label \in {l \in w'.bg : w'.state[l] = "queued"}
      BY <1>q, <2>2 DEF LabelsOf
    <3>3. Restored' = qfile'
      BY <1>r, <3>1, <3>2
    <3> QED
      BY <1>q, <2>2, <3>3
  <2>3. ASSUME ~saves, NEW l \in Labels
        PROVE  /\ w'.state[l] # "none" => wfile[l] # "none"
               /\ w'.state[l] = "queued" => wfile[l] = "queued"
               /\ w'.state[l] \in Ended => l \notin LabelsOf(Restored')
    <3>1. /\ m.state = w.state /\ m.bg = w.bg
      BY <2>3
    <3>2. /\ w.state[l] # "none" => wfile[l] # "none"
          /\ w.state[l] = "queued" => wfile[l] = "queued"
          /\ w.state[l] \in Ended => l \notin LabelsOf(Restored)
      BY <1>2, <1>s DEF Files
    <3>3. /\ w'.state[l] # "none" => wfile[l] # "none"
          /\ w'.state[l] = "queued" => wfile[l] = "queued"
      BY <1>3, <3>1, <3>2 DEF Follows
    <3>4. ASSUME w'.state[l] \in Ended PROVE l \notin LabelsOf(Restored')
      <4>1. CASE mode = "open"
        BY <2>2, <2>3, <3>4, <4>1 DEF Ended
      <4>2. CASE mode # "open"
        <5>1. Restored' = Restored /\ w'.state = w.state
          BY <1>o, <1>r, <3>1, <4>2 DEF Restored
        <5> QED
          BY <3>2, <3>4, <5>1
      <4> QED
        BY <4>1, <4>2
    <3> QED
      BY <3>3, <3>4
  <2> QED
    BY <1>2, <1>q, <2>1, <2>2, <2>3 DEF Files
<1>8. EndedStay
  BY <1>3 DEF EndedStay, Follows
<1> QED
  BY <1>2, <1>3, <1>5, <1>6, <1>7, <1>8 DEF IInv
-----------------------------------------------------------------------------
(* The steps.                                                              *)

LEMMA Steps ==
    ASSUME IInv
    PROVE  /\ w \in Table /\ Good(w, {}) /\ Phases(w) /\ OneCurrent(w) /\ Recorded(w)
           /\ HeldOnce(w, {}) /\ Due(w) \in Nat /\ budget \in 0 .. Budget /\ budget \in Nat
           /\ Cardinality(Labels) + Budget \in Nat
           /\ Due(w) + budget <= Cardinality(Labels) + Budget
           /\ \A k \in Nat : k <= Due(w) => k + budget <= Cardinality(Labels) + Budget
           /\ listed \subseteq Entries /\ mode \in {"open", "closed", "cancelled"}
           /\ mode # "cancelled" => Live(w)
<1>1. w \in Table
  BY DEF IInv, Good
<1>2. Due(w) \in Nat
  BY <1>1, FewOnes
<1>3. Cardinality(Labels) \in Nat /\ Budget \in Nat /\ budget \in 0 .. Budget
  BY PoolAssumption, FS_CardinalityType DEF IInv, Shape
<1>4. Due(w) + budget <= Cardinality(Labels) + Budget
  BY DEF IInv
<1>5. \A k \in Nat : k <= Due(w) => k + budget <= Cardinality(Labels) + Budget
  BY <1>2, <1>3, <1>4
<1> QED
  BY <1>1, <1>2, <1>3, <1>4, <1>5 DEF IInv, Good, Shape

LEMMA SpawnStep ==
    ASSUME IInv, ~EndMeetsFreeze, NEW b \in BOOLEAN, Spawn(b)
    PROVE  IInv' /\ EndedStay
<1>1. PICK l \in Labels :
        /\ w.state[l] = "none" /\ \A k \in Labels : w.state[k] = "none" => l <= k
        /\ Pumps(Keep([w EXCEPT !.state[l] = "queued", !.entry[l] = 0,
                                !.bg = IF b THEN @ \cup {l} ELSE @ \ {l}],
                      [label |-> l, full |-> TRUE]), TRUE)
  BY Zenon DEF Spawn
<1>2. mode = "open" /\ budget' = budget
  BY DEF Spawn
<1>3. PICK B : B = IF b THEN w.bg \cup {l} ELSE w.bg \ {l}
  OBVIOUS
<1>4. PICK j : j = [label |-> l, full |-> TRUE]
  OBVIOUS
<1>a. PICK a : a = [w EXCEPT !.state[l] = "queued", !.entry[l] = 0, !.bg = B]
  OBVIOUS
<1>5. PICK n : n = Keep(a, j)
  OBVIOUS
<1>6. Pumps(n, TRUE)
  BY <1>1, <1>3, <1>4, <1>5, <1>a
<1>8. w \in Table /\ Mid(w, {})
  BY <1>2, Steps DEF Mid
<1>b. B \in SUBSET Labels /\ \A k \in Labels : k # l => (k \in B <=> k \in w.bg)
  BY <1>3, <1>8 DEF Table
<1>7. /\ a \in Table /\ a.runs = w.runs /\ a.bg = B /\ a.fgHeld = w.fgHeld /\ a.bgHeld = w.bgHeld
      /\ a.pids = w.pids /\ a.frozen = w.frozen /\ a.noYield = w.noYield
      /\ a.state[l] = "queued"
      /\ \A k \in Labels : k # l => a.state[k] = w.state[k] /\ a.entry[k] = w.entry[k]
  BY <1>8, <1>a, <1>b DEF Table, States
<1>j. j \in Job /\ j.label = l /\ j.full
  BY <1>4 DEF Job
<1>9. /\ n \in Table /\ Mid(n, {}) /\ Due(n) <= Due(w)
      /\ \A k \in Labels : w.state[k] \in Ended => n.state[k] = w.state[k]
  <2>1. \A k \in Labels : k # l => (k \in a.bg <=> k \in w.bg)
    BY <1>b, <1>7
  <2> HIDE <1>3, <1>4, <1>a, <1>b
  <2> QED
    BY <1>1, <1>5, <1>7, <1>8, <1>j, <2>1, SpawnedIs
<1>10. Due(n) + budget' <= Cardinality(Labels) + Budget /\ budget' \in 0 .. Budget
  BY <1>2, <1>9, Steps, FewOnes
<1> QED
  BY <1>6, <1>9, <1>10, Region DEF Mid

LEMMA PollStep ==
    ASSUME IInv, ~EndMeetsFreeze, Poll
    PROVE  IInv' /\ EndedStay
<1>1. Pumps(w, FALSE) /\ budget' = budget
  BY DEF Poll
<1>2. PICK m : m = w
  OBVIOUS
<1>3. /\ Good(m, {}) /\ (mode # "cancelled" => Live(m)) /\ Pumps(m, FALSE) /\ budget' \in 0 .. Budget
      /\ Due(m) + budget' <= Cardinality(Labels) + Budget /\ m.state = w.state /\ m.bg = w.bg
  BY <1>1, <1>2, Steps
<1> QED
  BY <1>3, Region

LEMMA SaveWorkersStep ==
    ASSUME IInv, SaveWorkers
    PROVE  IInv' /\ EndedStay
<1>1. /\ w' = w /\ listed' = listed /\ qfile' = qfile /\ mode' = mode /\ budget' = budget
      /\ wfile' = w.state /\ writing' = FALSE /\ writing = TRUE
  BY DEF SaveWorkers, IInv, Shape
<1>2. Shape'
  BY <1>1, Steps DEF IInv, Shape, Table
<1>3. Restored' = {j \in qfile : w.state[j.label] = "queued" /\ j.label \in w.bg}
  BY <1>1 DEF Restored
<1>4. Files'
  <2>1. (\A i, j \in qfile' : i.label = j.label => i = j) /\ \A j \in qfile' : j.full
    BY <1>1 DEF IInv, Files
  <2>2. \A l \in LabelsOf(Restored') : w.state[l] = "queued"
    BY <1>3 DEF LabelsOf
  <2>3. mode = "open" => LabelsOf(Restored') = {l \in w.bg : w.state[l] = "queued"}
    <3> SUFFICES ASSUME mode = "open" PROVE LabelsOf(Restored') = {l \in w.bg : w.state[l] = "queued"}
      OBVIOUS
    <3>1. LabelsOf(qfile) = {l \in w.bg : w.state[l] = "queued"}
      BY <1>1 DEF IInv, Files
    <3>2. \A j \in qfile : j.label \in {l \in w.bg : w.state[l] = "queued"}
      BY <3>1 DEF LabelsOf
    <3>3. Restored' = qfile
      BY <1>3, <3>2
    <3> QED
      BY <3>1, <3>3
  <2>4. \A l \in Labels : w.state[l] \in Ended => l \notin LabelsOf(Restored')
    BY <2>2 DEF Ended
  <2> QED
    BY <1>1, <2>1, <2>3, <2>4 DEF Files
<1>5. Good(w', {}) /\ (mode' # "cancelled" => Live(w')) /\ Due(w') + budget' <= Cardinality(Labels) + Budget
  BY <1>1 DEF IInv
<1> QED
  BY <1>1, <1>2, <1>4, <1>5 DEF IInv, EndedStay
\* A thread moves and no record but the clock's: one more failure is paid for with the budget.
LEMMA DueFails ==
    ASSUME NEW m \in Table, NEW n \in Table, NEW r, OneRun(n, m, r), Wanting(n) \subseteq Wanting(m)
    PROVE  Due(n) <= Due(m) + 1
<1>1. Failing(n) \subseteq Failing(m) \cup {r}
  BY DEF OneRun, Failing
<1>2. IsFiniteSet(Failing(m) \cup {r}) /\ Cardinality(Failing(m) \cup {r}) <= Cardinality(Failing(m)) + 1
  <2>1. IsFiniteSet(Failing(m)) /\ Cardinality(Failing(m)) \in Nat
    BY FewOnes
  <2> QED
    BY <2>1, FS_AddElement
<1>3. Cardinality(Failing(n)) <= Cardinality(Failing(m) \cup {r}) /\ Cardinality(Wanting(n)) <= Cardinality(Wanting(m))
  BY <1>1, <1>2, FewOnes, FS_Subset
<1>4. /\ Len(m.runs) \in Nat /\ Len(n.runs) = Len(m.runs)
      /\ Cardinality(Wanting(n)) \in Nat /\ Cardinality(Wanting(m)) \in Nat
      /\ Cardinality(Failing(n)) \in Nat /\ Cardinality(Failing(m)) \in Nat
      /\ Cardinality(Failing(m) \cup {r}) \in Nat
  BY <1>2, FewOnes, FS_CardinalityType DEF OneRun
<1>5. \A x, b, c, d, e, f \in Nat : b <= c /\ d <= f /\ f <= e + 1 => x + b + d <= x + c + e + 1
  OBVIOUS
<1> QED
  BY <1>2, <1>3, <1>4, <1>5 DEF Due

LEMMA ThreadStep ==
    ASSUME IInv, NEW r \in DOMAIN w.runs, w' \in Table, OneRun(w', w, r),
           w'.state = w.state, w'.entry = w.entry, w'.bg = w.bg,
           w'.fgHeld = w.fgHeld, w'.bgHeld = w.bgHeld, w'.pids = w.pids, w'.frozen = w.frozen,
           w'.noYield = w.noYield,
           Phase(w'.runs[r].at, w'.runs[r].proc),
           Current(w', r) => Current(w, r),
           Current(w', r) /\ w.state[w.runs[r].label] = "paused" => w'.runs[r].at = "wait",
           w'.runs[r].at = "wait" => w.runs[r].at = "wait",
           w'.runs[r].proc = "stopped" <=> w.runs[r].proc = "stopped",
           w.runs[r].at \notin {"setup", "born"} => w'.runs[r].at \notin {"setup", "born", "gone"},
           mode # "cancelled" /\ Current(w, r) => Current(w', r),
           \/ budget' = budget /\ (r \in Failing(w') => r \in Failing(w))
           \/ budget > 0 /\ budget' = budget - 1,
           listed' = listed, wfile' = wfile, qfile' = qfile, writing' = writing, mode' = mode
    PROVE  IInv' /\ EndedStay
<1>1. w \in Table /\ Good(w, {}) /\ (mode # "cancelled" => Live(w)) /\ listed \subseteq Entries
      /\ mode \in {"open", "closed", "cancelled"}
  BY Steps
<1>2. Good(w', {}) /\ (Live(w) /\ (Current(w, r) => Current(w', r)) => Live(w'))
  BY <1>1, RunMoves
<1>3. Wanting(w') \subseteq Wanting(w)
  BY DEF Wanting
<1>4. Due(w) \in Nat /\ Due(w') \in Nat /\ budget \in 0 .. Budget /\ Budget \in Nat /\ Cardinality(Labels) \in Nat
      /\ Due(w) + budget <= Cardinality(Labels) + Budget
  BY <1>1, Steps, FewOnes, PoolAssumption, FS_CardinalityType
<1>5. budget' \in 0 .. Budget /\ Due(w') + budget' <= Cardinality(Labels) + Budget
  <2>1. CASE budget' = budget /\ (r \in Failing(w') => r \in Failing(w))
    <3>1. Due(w') <= Due(w)
      BY <1>1, <1>3, <2>1, DueStays
    <3> QED
      BY <1>4, <2>1, <3>1
  <2>2. CASE budget > 0 /\ budget' = budget - 1
    <3>1. Due(w') <= Due(w) + 1
      BY <1>1, <1>3, DueFails
    <3> QED
      BY <1>4, <2>2, <3>1
  <2> QED
    BY <2>1, <2>2
<1> QED
  BY <1>1, <1>2, <1>5, Quietly

LEMMA LaunchStep ==
    ASSUME IInv, NEW r, Launch(r)
    PROVE  IInv' /\ EndedStay
<1>1. /\ r \in DOMAIN w.runs /\ w.runs[r].at = "setup"
      /\ listed' = listed /\ wfile' = wfile /\ qfile' = qfile /\ writing' = writing /\ mode' = mode
  BY DEF Launch, At
<1>2. w \in Table /\ Phases(w) /\ OneCurrent(w)
  BY Steps
<1>3. w.runs[r].proc = "none" /\ w.state[w.runs[r].label] = "running"
  BY <1>1, <1>2 DEF Phases, OneCurrent, Current
<1>a. "born" \in Ats /\ "bad" \in Ats /\ "live" \in Procs
  BY DEF Ats, Procs
<1>4. CASE w' = [w EXCEPT !.runs[r].at = "born", !.runs[r].proc = "live"] /\ budget' = budget
  <2>a. PICK a : a = [w EXCEPT !.runs[r].at = "born"]
    OBVIOUS
  <2>b. w' = [a EXCEPT !.runs[r].proc = "live"]
    BY <1>4, <2>a
  <2>c. a \in Table /\ OneRun(a, w, r) /\ a.runs[r].at = "born" /\ SameRecords(a, w)
    BY <1>1, <1>2, <1>a, <2>a, EditAt
  <2>d. r \in DOMAIN a.runs
    BY <1>1, <2>c DEF OneRun
  <2>e. /\ w' \in Table /\ OneRun(w', a, r) /\ w'.runs[r].at = a.runs[r].at /\ w'.runs[r].proc = "live"
        /\ SameRecords(w', a)
    BY <1>a, <2>b, <2>c, <2>d, EditProc
  <2>1. /\ w' \in Table /\ OneRun(w', w, r) /\ w'.runs[r].at = "born" /\ w'.runs[r].proc = "live"
        /\ SameRecords(w', w)
    <3> HIDE <1>4, <2>a, <2>b
    <3> QED
      BY <2>c, <2>e, EditBoth
  <2>2. r \notin Failing(w') /\ Current(w', r) /\ budget' = budget
    BY <1>4, <2>1 DEF Failing, Current
  <2> HIDE <1>4
  <2> QED
    BY <1>1, <1>2, <1>3, <2>1, <2>2, ThreadStep DEF SameRecords, Phase, Current
<1>5. CASE budget > 0 /\ budget' = budget - 1 /\ w' = [w EXCEPT !.runs[r].at = "bad"]
  <2>1. /\ w' \in Table /\ OneRun(w', w, r) /\ w'.runs[r].at = "bad" /\ w'.runs[r].proc = w.runs[r].proc
        /\ SameRecords(w', w)
    BY <1>1, <1>2, <1>5, <1>a, EditAt
  <2>2. Current(w', r) /\ budget > 0 /\ budget' = budget - 1
    BY <1>5, <2>1 DEF Current
  <2> HIDE <1>5
  <2> QED
    BY <1>1, <1>2, <1>3, <2>1, <2>2, ThreadStep DEF SameRecords, Phase, Current
<1> QED
  BY <1>4, <1>5 DEF Launch

LEMMA ExitStep ==
    ASSUME IInv, ~EndMeetsFreeze, NEW r, Exit(r)
    PROVE  IInv' /\ EndedStay
<1>1. /\ r \in DOMAIN w.runs /\ w.runs[r].proc = "live" /\ w' = [w EXCEPT !.runs[r].proc = "zombie"]
      /\ listed' = listed /\ wfile' = wfile /\ qfile' = qfile /\ writing' = writing /\ mode' = mode
      /\ budget' = budget
  BY DEF Exit
<1>2. w \in Table /\ Phases(w) /\ OneCurrent(w)
  BY Steps
<1>a. "zombie" \in Procs
  BY DEF Procs
<1>3. /\ w' \in Table /\ OneRun(w', w, r) /\ w'.runs[r].at = w.runs[r].at /\ w'.runs[r].proc = "zombie"
      /\ SameRecords(w', w)
  BY <1>1, <1>2, <1>a, EditProc
<1>4. w.runs[r].at \in {"born", "wait"}
  BY <1>1, <1>2 DEF Phases
<1>5. /\ Current(w, r) /\ Current(w', r) /\ r \notin Failing(w')
      /\ w.state[w.runs[r].label] = "paused" => w.runs[r].at = "wait"
  BY <1>1, <1>2, <1>3, <1>4 DEF Failing, Current, OneCurrent
<1>6. /\ r \in DOMAIN w.runs /\ w.runs[r].proc = "live"
      /\ listed' = listed /\ wfile' = wfile /\ qfile' = qfile /\ writing' = writing /\ mode' = mode
      /\ budget' = budget
  BY <1>1
<1> HIDE <1>1
<1> QED
  BY <1>2, <1>3, <1>4, <1>5, <1>6, ThreadStep DEF SameRecords, Phase

LEMMA ReapStep ==
    ASSUME IInv, NEW r, Reap(r)
    PROVE  IInv' /\ EndedStay
<1>1. PICK end \in {"ran", "asked", "bad"} :
        /\ end = "bad" /\ mode # "cancelled" => budget > 0
        /\ budget' = IF end = "bad" /\ mode # "cancelled" THEN budget - 1 ELSE budget
        /\ w' = [w EXCEPT !.runs[r].proc = "reaped",
                          !.runs[r].at = IF mode = "cancelled" THEN "over" ELSE end]
  BY Zenon DEF Reap
<1>2. /\ r \in DOMAIN w.runs /\ w.runs[r].at = "wait" /\ w.runs[r].proc = "zombie"
      /\ listed' = listed /\ wfile' = wfile /\ qfile' = qfile /\ writing' = writing /\ mode' = mode
  BY DEF Reap, At
<1>3. w \in Table /\ Phases(w) /\ OneCurrent(w) /\ Recorded(w)
  BY Steps
<1>4. PICK at : at = IF mode = "cancelled" THEN "over" ELSE end
  OBVIOUS
<1>a. at \in Ats /\ "reaped" \in Procs
  BY <1>4 DEF Ats, Procs
<1>5. w' = [w EXCEPT !.runs[r].proc = "reaped", !.runs[r].at = at]
  BY <1>1, <1>4
<1>b. PICK a : a = [w EXCEPT !.runs[r].proc = "reaped"]
  OBVIOUS
<1>c. w' = [a EXCEPT !.runs[r].at = at]
  BY <1>5, <1>b
<1>d. a \in Table /\ OneRun(a, w, r) /\ a.runs[r].proc = "reaped" /\ SameRecords(a, w)
  BY <1>2, <1>3, <1>a, <1>b, EditProc
<1>e. r \in DOMAIN a.runs
  BY <1>2, <1>d DEF OneRun
<1>f. /\ w' \in Table /\ OneRun(w', a, r) /\ w'.runs[r].proc = a.runs[r].proc /\ w'.runs[r].at = at
      /\ SameRecords(w', a)
  BY <1>a, <1>c, <1>d, <1>e, EditAt
<1>6. /\ w' \in Table /\ OneRun(w', w, r) /\ w'.runs[r].at = at /\ w'.runs[r].proc = "reaped"
      /\ SameRecords(w', w)
  <2> HIDE <1>1, <1>4, <1>5, <1>b, <1>c
  <2> QED
    BY <1>d, <1>f, EditBoth
<1>7. \/ budget' = budget /\ (r \in Failing(w') => r \in Failing(w))
      \/ budget > 0 /\ budget' = budget - 1
  BY <1>1, <1>4, <1>6 DEF Failing
<1>8. at \notin {"setup", "born", "wait", "gone"} /\ (mode # "cancelled" => at # "over")
  BY <1>1, <1>4
<1>9. mode # "cancelled" => w.state[w.runs[r].label] # "paused"
  <2> SUFFICES ASSUME mode # "cancelled", w.state[w.runs[r].label] = "paused" PROVE FALSE
    OBVIOUS
  <2>1. Live(w) /\ w.runs[r].label \in Labels /\ w.pids[w.runs[r].label] = r
    BY <1>2, <1>3, Steps, RunIs DEF Phases
  <2>2. w.frozen[w.runs[r].label] # 0
    BY <2>1 DEF Live
  <2>3. w.runs[r].proc = "stopped"
    BY <1>3, <2>1, <2>2 DEF Recorded
  <2> QED
    BY <1>2, <2>3
<1>10. /\ Current(w', r) => mode # "cancelled"
       /\ w'.runs[r].at \notin {"setup", "born", "wait", "gone"} /\ (mode # "cancelled" => w'.runs[r].at # "over")
  BY <1>4, <1>6, <1>8 DEF Current
<1> HIDE <1>1, <1>4, <1>5, <1>b, <1>c
<1> QED
  BY <1>2, <1>3, <1>6, <1>7, <1>9, <1>10, ThreadStep DEF SameRecords, Phase, Current

LEMMA UnreportedStep ==
    ASSUME IInv, NEW r, Unreported(r)
    PROVE  IInv' /\ EndedStay
<1>1. /\ r \in DOMAIN w.runs /\ w.runs[r].at \in {"ran", "asked", "judged"} /\ mode = "cancelled"
      /\ listed' = listed /\ wfile' = wfile /\ qfile' = qfile /\ writing' = writing /\ mode' = mode
      /\ budget' = budget
  BY DEF Unreported, At
<1>2. w' = [w EXCEPT !.runs[r].at = "over"]
  BY DEF Unreported
<1>3. w \in Table /\ Phases(w)
  BY Steps
<1>a. "over" \in Ats
  BY DEF Ats
<1>4. /\ w' \in Table /\ OneRun(w', w, r) /\ w'.runs[r].at = "over" /\ w'.runs[r].proc = w.runs[r].proc
      /\ SameRecords(w', w)
  BY <1>1, <1>2, <1>3, <1>a, EditAt
<1>5. w.runs[r].proc \in {"none", "reaped"} /\ r \notin Failing(w') /\ ~Current(w', r)
  BY <1>1, <1>3, <1>4 DEF Phases, Failing, Current
<1> HIDE <1>2
<1> QED
  BY <1>1, <1>3, <1>4, <1>5, ThreadStep DEF SameRecords, Phase

LEMMA TakeResumedStep ==
    ASSUME IInv, NEW r, TakeResumed(r)
    PROVE  IInv' /\ EndedStay
<1>1. /\ r \in DOMAIN w.runs /\ w.runs[r].at = "bad"
      /\ listed' = listed /\ wfile' = wfile /\ qfile' = qfile /\ writing' = writing /\ mode' = mode
      /\ budget' = budget
  BY DEF TakeResumed, At
<1>2. PICK l : l = w.runs[r].label
  OBVIOUS
<1>3. w \in Table /\ Phases(w) /\ OneCurrent(w) /\ l \in Labels
  BY <1>1, <1>2, Steps, RunIs
<1>4. PICK at : at = IF mode = "cancelled" THEN "over" ELSE IF l \in w.fresh THEN "graced" ELSE "judged"
  OBVIOUS
<1>5. PICK F : F = IF mode = "cancelled" THEN w.fresh ELSE w.fresh \ {l}
  OBVIOUS
<1>6. PICK a : a = [w EXCEPT !.runs[r].at = at]
  OBVIOUS
<1>7. w' = [a EXCEPT !.fresh = F]
  <2>1. CASE mode = "cancelled"
    <3>1. w' = a /\ at = "over"
      BY <1>2, <1>4, <1>6, <2>1 DEF TakeResumed
    <3>2. "over" \in Ats
      BY DEF Ats
    <3>3. a \in Table /\ SameRecords(a, w)
      BY <1>1, <1>3, <1>6, <3>1, <3>2, EditAt
    <3>4. a = [a EXCEPT !.fresh = F]
      BY <1>5, <2>1, <3>3 DEF SameRecords, Table
    <3> QED
      BY <3>1, <3>4
  <2>2. CASE mode # "cancelled"
    BY <1>2, <1>4, <1>5, <1>6, <2>2 DEF TakeResumed
  <2> QED
    BY <2>1, <2>2
<1>a. at \in Ats /\ at \in {"over", "graced", "judged"} /\ (mode # "cancelled" => at # "over")
  BY <1>4 DEF Ats
<1>8. /\ a \in Table /\ OneRun(a, w, r) /\ a.runs[r].at = at /\ a.runs[r].proc = w.runs[r].proc
      /\ SameRecords(a, w)
  BY <1>1, <1>3, <1>6, <1>a, EditAt
<1>f. F \subseteq Labels
  BY <1>3, <1>5 DEF Table
<1>9. /\ w' \in Table /\ w'.runs = a.runs
      /\ w'.state = a.state /\ w'.entry = a.entry /\ w'.bg = a.bg
      /\ w'.fgHeld = a.fgHeld /\ w'.bgHeld = a.bgHeld /\ w'.pids = a.pids /\ w'.frozen = a.frozen
      /\ w'.noYield = a.noYield
  BY <1>7, <1>8, <1>f DEF Table
<1> HIDE <1>4, <1>5, <1>6, <1>7
<1>10. /\ OneRun(w', w, r) /\ w'.runs[r].at = at /\ w'.runs[r].proc = w.runs[r].proc
       /\ w.runs[r].proc \in {"none", "reaped"} /\ r \in Failing(w) /\ Current(w, r)
       /\ w.state[w.runs[r].label] # "paused"
  BY <1>1, <1>3, <1>8, <1>9 DEF OneRun, Phases, Failing, Current, OneCurrent
<1>11. /\ w'.state = w.state /\ w'.entry = w.entry /\ w'.bg = w.bg
       /\ w'.fgHeld = w.fgHeld /\ w'.bgHeld = w.bgHeld /\ w'.pids = w.pids /\ w'.frozen = w.frozen
       /\ w'.noYield = w.noYield
  BY <1>8, <1>9 DEF SameRecords
<1>12. mode # "cancelled" /\ Current(w, r) => Current(w', r)
  BY <1>10, <1>a DEF Current
<1> QED
  BY <1>1, <1>3, <1>9, <1>10, <1>11, <1>12, <1>a, ThreadStep DEF Phase
LEMMA StartedStep ==
    ASSUME IInv, ~EndMeetsFreeze, NEW r, Started(r)
    PROVE  IInv' /\ EndedStay
<1>1. r \in DOMAIN w.runs /\ w.runs[r].at = "born" /\ budget' = budget
  BY DEF Started, At
<1>2. PICK m : m = Begun(w, r)
  OBVIOUS
<1>3. IF m.fgHeld \o m.bgHeld = <<>> THEN w' = m /\ UNCHANGED <<listed, wfile, qfile, writing, mode>>
      ELSE Pumps(m, FALSE)
  BY <1>2 DEF Started, Begun
<1>4. w \in Table /\ Good(w, {}) /\ (mode # "cancelled" => Live(w))
  BY Steps
<1>5. /\ m \in Table /\ Good(m, {}) /\ (Live(w) => Live(m)) /\ Due(m) <= Due(w)
      /\ m.state = w.state /\ m.bg = w.bg
  BY <1>1, <1>2, <1>4, StartedIs
<1>6. Due(m) + budget' <= Cardinality(Labels) + Budget /\ budget' \in 0 .. Budget
  BY <1>1, <1>5, Steps, FewOnes
<1>7. CASE m.fgHeld \o m.bgHeld = <<>>
  <2>1. w' = m /\ listed' = listed /\ wfile' = wfile /\ qfile' = qfile /\ writing' = writing /\ mode' = mode
    BY <1>3, <1>7
  <2>2. /\ Good(w', {}) /\ (mode' # "cancelled" => Live(w')) /\ w'.state = w.state /\ w'.bg = w.bg
        /\ Due(w') + budget' <= Cardinality(Labels) + Budget
    BY <1>4, <1>5, <1>6, <2>1
  <2> HIDE <1>2
  <2> QED
    BY <1>6, <2>1, <2>2, Steps, Quietly
<1>8. CASE m.fgHeld \o m.bgHeld # <<>>
  <2>1. Pumps(m, FALSE) /\ (mode # "cancelled" => Live(m))
    BY <1>3, <1>4, <1>5, <1>8
  <2> HIDE <1>2
  <2> QED
    BY <1>5, <1>6, <2>1, Region
<1> QED
  BY <1>7, <1>8

LEMMA FinishStep ==
    ASSUME IInv, ~EndMeetsFreeze, NEW r \in DOMAIN w.runs, w.runs[r].at \in {"ran", "asked", "judged"},
           NEW state \in Ended, Finish(r, state), budget' = budget
    PROVE  IInv' /\ EndedStay
<1>1. PICK l : l = w.runs[r].label
  OBVIOUS
<1>2. w \in Table /\ Good(w, {}) /\ (mode # "cancelled" => Live(w)) /\ l \in Labels
  BY <1>1, Steps, RunIs
<1>3. PICK C : C = IF state = "ran" THEN w.cooling \ ({w.entry[l]} \ {0}) ELSE w.cooling
  OBVIOUS
<1>4. PICK D : D = IF l \in w.bg THEN w.recent ELSE w.recent \cup ({w.entry[l]} \ {0})
  OBVIOUS
<1>5. PICK m : m = Done(w, r, state, C, D)
  OBVIOUS
<1>6. Pumps(m, TRUE)
  BY <1>1, <1>3, <1>4, <1>5 DEF Finish, Done
<1>7. C \in SUBSET Entries /\ D \in SUBSET Entries
  BY <1>2, <1>3, <1>4 DEF Table
<1>8. /\ m \in Table /\ Good(m, {}) /\ (Live(w) => Live(m)) /\ Due(m) <= Due(w)
      /\ m.bg = w.bg /\ \A k \in Labels : w.state[k] \in Ended => m.state[k] = w.state[k]
  <2>1. LET n == Done(w, r, state, C, D) IN
        /\ n \in Table /\ Good(n, {}) /\ (Live(w) => Live(n)) /\ Due(n) <= Due(w)
        /\ n.bg = w.bg /\ \A k \in Labels : w.state[k] \in Ended => n.state[k] = w.state[k]
    BY <1>2, <1>7, FinishIs
  <2> QED
    BY <1>5, <2>1
<1> HIDE <1>1, <1>3, <1>4, <1>5
<1>9. Due(m) + budget' <= Cardinality(Labels) + Budget /\ budget' \in 0 .. Budget
  BY <1>8, Steps, FewOnes
<1> QED
  BY <1>2, <1>6, <1>8, <1>9, Region

LEMMA ReportStep ==
    ASSUME IInv, ~EndMeetsFreeze, NEW r, Report(r)
    PROVE  IInv' /\ EndedStay
BY FinishStep DEF Report, At, Ended

LEMMA BlameStep ==
    ASSUME IInv, ~EndMeetsFreeze, NEW r, Blame(r)
    PROVE  IInv' /\ EndedStay
<1>1. r \in DOMAIN w.runs /\ w.runs[r].at \in {"graced", "judged"} /\ budget' = budget
  BY DEF Blame, At
<1>2. w \in Table /\ Good(w, {}) /\ (mode # "cancelled" => Live(w))
  BY Steps
<1>3. ASSUME NEW m \in Table, Good(m, {}), Live(w) => Live(m), Due(m) <= Due(w),
             m.runs = w.runs, m.state = w.state, Pumps(Requeued(m, r), TRUE)
      PROVE  IInv' /\ EndedStay
  <2>1. PICK n : n = Requeued(m, r)
    OBVIOUS
  <2>2. /\ n \in Table /\ Good(n, {}) /\ (Live(m) => Live(n)) /\ Due(n) <= Due(m)
        /\ \A k \in Labels : m.state[k] \in Ended => n.state[k] = m.state[k]
    BY <1>1, <1>3, <2>1, RequeuedIs
  <2>3. Pumps(n, TRUE)
    BY <1>3, <2>1
  <2> HIDE <2>1
  <2>4. Due(n) + budget' <= Cardinality(Labels) + Budget /\ budget' \in 0 .. Budget
    <3>1. Due(n) \in Nat /\ Due(m) \in Nat /\ Due(w) \in Nat
      BY <1>2, <1>3, <2>2, FewOnes
    <3> QED
      BY <1>1, <1>3, <2>2, <3>1, Steps
  <2>5. \A k \in Labels : w.state[k] \in Ended => n.state[k] \in Ended
    BY <1>3, <2>2
  <2> QED
    BY <1>2, <1>3, <2>2, <2>3, <2>4, <2>5, Region
<1>4. CASE Pumps(Requeued(w, r), TRUE)
  <2>1. Due(w) \in Nat /\ Due(w) <= Due(w)
    BY Steps
  <2> QED
    BY <1>2, <1>3, <1>4, <2>1
<1>5. ASSUME NEW m, m = [w EXCEPT !.cooling = @ \cup ({w.entry[w.runs[r].label]} \ {0})],
             Pumps(Requeued(m, r), TRUE)
      PROVE  IInv' /\ EndedStay
  <2>1. /\ m \in Table
        /\ m.state = w.state /\ m.entry = w.entry /\ m.bg = w.bg /\ m.runs = w.runs
        /\ m.fgHeld = w.fgHeld /\ m.bgHeld = w.bgHeld /\ m.pids = w.pids /\ m.frozen = w.frozen
        /\ m.noYield = w.noYield
    BY <1>1, <1>2, <1>5, RunIs DEF Table
  <2>2. Pumps(Requeued(m, r), TRUE)
    BY <1>5
  <2> HIDE <1>5
  <2>3. Good(m, {}) /\ (Live(w) => Live(m)) /\ Due(m) <= Due(w)
    BY <1>2, <2>1, ClockMoves
  <2> QED
    BY <1>3, <2>1, <2>2, <2>3
<1>6. CASE w.runs[r].at = "judged" /\ Finish(r, "failed")
  BY <1>1, <1>6, FinishStep DEF Ended
<1> QED
  BY <1>4, <1>5, <1>6 DEF Blame, At

LEMMA ClockStep ==
    ASSUME IInv, w' \in Table,
           w'.state = w.state, w'.entry = w.entry, w'.bg = w.bg, w'.runs = w.runs,
           w'.fgHeld = w.fgHeld, w'.bgHeld = w.bgHeld, w'.pids = w.pids, w'.frozen = w.frozen,
           w'.noYield = w.noYield,
           wfile' = wfile, qfile' = qfile, writing' = writing, listed' \subseteq Entries,
           mode' \in {"open", "closed", "cancelled"}, mode' = "open" => mode = "open",
           mode' # "cancelled" => mode # "cancelled",
           budget' \in 0 .. budget
    PROVE  IInv' /\ EndedStay
<1>1. w \in Table /\ Good(w, {}) /\ (mode # "cancelled" => Live(w))
  BY Steps
<1>2. Good(w', {}) /\ (Live(w) => Live(w')) /\ Due(w') <= Due(w)
  BY <1>1, ClockMoves
<1>3. Due(w') + budget' <= Cardinality(Labels) + Budget /\ budget' \in 0 .. Budget
  <2>1. Due(w') \in Nat /\ Due(w) \in Nat /\ budget \in 0 .. Budget /\ Cardinality(Labels) \in Nat /\ Budget \in Nat
    BY <1>1, FewOnes, Steps, PoolAssumption, FS_CardinalityType
  <2> QED
    BY <1>2, <2>1, Steps
<1> QED
  BY <1>1, <1>2, <1>3, Quietly

LEMMA LapseStep ==
    ASSUME IInv,
           \/ \E e \in Entries : CoolOver(e) \/ IdleOver(e)
           \/ \E l \in Labels : GraceOver(l)
           \/ EditPools \/ Close \/ UNCHANGED vars
    PROVE  IInv' /\ EndedStay
<1>1. /\ w \in Table /\ listed \subseteq Entries /\ mode \in {"open", "closed", "cancelled"}
      /\ budget \in 0 .. Budget /\ budget \in Nat /\ Budget \in Nat
  BY Steps, PoolAssumption
<1>2. CASE \E e \in Entries : CoolOver(e) \/ IdleOver(e)
  <2>1. PICK e \in Entries : CoolOver(e) \/ IdleOver(e)
    BY <1>2
  <2>2. /\ listed' = listed /\ wfile' = wfile /\ qfile' = qfile /\ writing' = writing /\ mode' = mode
        /\ budget' = budget
    BY <2>1 DEF CoolOver, IdleOver
  <2>3. CASE w' = [w EXCEPT !.cooling = @ \ {e}]
    <3>1. /\ w' \in Table
          /\ w'.state = w.state /\ w'.entry = w.entry /\ w'.bg = w.bg /\ w'.runs = w.runs
          /\ w'.fgHeld = w.fgHeld /\ w'.bgHeld = w.bgHeld /\ w'.pids = w.pids /\ w'.frozen = w.frozen
          /\ w'.noYield = w.noYield
      BY <1>1, <2>3 DEF Table
    <3> HIDE <2>3
    <3> QED
      BY <1>1, <2>2, <3>1, ClockStep
  <2>4. CASE w' = [w EXCEPT !.recent = @ \ {e}]
    <3>1. /\ w' \in Table
          /\ w'.state = w.state /\ w'.entry = w.entry /\ w'.bg = w.bg /\ w'.runs = w.runs
          /\ w'.fgHeld = w.fgHeld /\ w'.bgHeld = w.bgHeld /\ w'.pids = w.pids /\ w'.frozen = w.frozen
          /\ w'.noYield = w.noYield
      BY <1>1, <2>4 DEF Table
    <3> HIDE <2>4
    <3> QED
      BY <1>1, <2>2, <3>1, ClockStep
  <2> QED
    BY <2>1, <2>3, <2>4 DEF CoolOver, IdleOver
<1>3. CASE \E l \in Labels : GraceOver(l)
  <2>1. PICK l \in Labels : GraceOver(l)
    BY <1>3
  <2>2. /\ listed' = listed /\ wfile' = wfile /\ qfile' = qfile /\ writing' = writing /\ mode' = mode
        /\ budget' = budget
    BY <2>1 DEF GraceOver
  <2>3. /\ w' \in Table
        /\ w'.state = w.state /\ w'.entry = w.entry /\ w'.bg = w.bg /\ w'.runs = w.runs
        /\ w'.fgHeld = w.fgHeld /\ w'.bgHeld = w.bgHeld /\ w'.pids = w.pids /\ w'.frozen = w.frozen
        /\ w'.noYield = w.noYield
    BY <1>1, <2>1 DEF Table, GraceOver
  <2> QED
    BY <1>1, <2>2, <2>3, ClockStep
<1>4. CASE EditPools \/ Close \/ UNCHANGED vars
  <2>1. /\ w' = w /\ wfile' = wfile /\ qfile' = qfile /\ writing' = writing /\ listed' \subseteq Entries
        /\ mode' \in {"open", "closed", "cancelled"} /\ (mode' = "open" => mode = "open")
        /\ (mode' # "cancelled" => mode # "cancelled") /\ budget' \in 0 .. budget
    BY <1>1, <1>4 DEF EditPools, Close, vars
  <2>2. /\ w' \in Table
        /\ w'.state = w.state /\ w'.entry = w.entry /\ w'.bg = w.bg /\ w'.runs = w.runs
        /\ w'.fgHeld = w.fgHeld /\ w'.bgHeld = w.bgHeld /\ w'.pids = w.pids /\ w'.frozen = w.frozen
        /\ w'.noYield = w.noYield
    BY <1>1, <2>1
  <2>3. /\ wfile' = wfile /\ qfile' = qfile /\ writing' = writing /\ listed' \subseteq Entries
        /\ mode' \in {"open", "closed", "cancelled"} /\ (mode' = "open" => mode = "open")
        /\ (mode' # "cancelled" => mode # "cancelled") /\ budget' \in 0 .. budget
    BY <2>1
  <2> HIDE <2>1
  <2> QED
    BY <2>2, <2>3, ClockStep
<1> QED
  BY <1>2, <1>3, <1>4
LEMMA ForgetStep ==
    ASSUME IInv, NEW r, Forget(r)
    PROVE  IInv' /\ EndedStay
<1>1. /\ r \in DOMAIN w.runs /\ w.runs[r].at = "over"
      /\ listed' = listed /\ wfile' = wfile /\ qfile' = qfile /\ writing' = writing /\ mode' = mode
      /\ budget' = budget
  BY DEF Forget, At
<1>2. PICK l : l = w.runs[r].label
  OBVIOUS
<1>3. PICK a : a = [w EXCEPT !.runs[r].at = "gone"]
  OBVIOUS
<1>4. w' = IF w.pids[l] # r THEN a
           ELSE [a EXCEPT !.pids[l] = 0, !.frozen[l] = 0, !.fresh = @ \ {l}, !.noYield = @ \ {l}]
  BY <1>2, <1>3 DEF Forget
<1>5. /\ w \in Table /\ Good(w, {}) /\ Phases(w) /\ OneCurrent(w) /\ Recorded(w)
      /\ HeldOnce(w, {}) /\ (mode # "cancelled" => Live(w)) /\ l \in Labels
  BY <1>1, <1>2, Steps, RunIs
<1>a. "gone" \in Ats
  BY DEF Ats
<1>6. /\ a \in Table /\ OneRun(a, w, r) /\ a.runs[r].at = "gone" /\ a.runs[r].proc = w.runs[r].proc
      /\ SameRecords(a, w)
  BY <1>1, <1>3, <1>5, <1>a, EditAt
<1>7. /\ w' \in Table /\ w'.runs = a.runs /\ w'.state = a.state /\ w'.entry = a.entry /\ w'.bg = a.bg
      /\ w'.fgHeld = a.fgHeld /\ w'.bgHeld = a.bgHeld
      /\ \A k \in Labels : k # l \/ w.pids[l] # r =>
            w'.pids[k] = a.pids[k] /\ w'.frozen[k] = a.frozen[k] /\ (k \in w'.noYield <=> k \in a.noYield)
      /\ w.pids[l] = r => w'.pids[l] = 0 /\ w'.frozen[l] = 0
  <2>1. CASE w.pids[l] # r
    <3>1. w' = a
      BY <1>4, <2>1
    <3> HIDE <1>3, <1>4
    <3> QED
      BY <1>6, <2>1, <3>1
  <2>2. CASE w.pids[l] = r
    <3>1. w' = [a EXCEPT !.pids[l] = 0, !.frozen[l] = 0, !.fresh = @ \ {l}, !.noYield = @ \ {l}]
      BY <1>4, <2>2
    <3> HIDE <1>3, <1>4
    <3> QED
      BY <1>5, <1>6, <2>2, <3>1 DEF Table
  <2> QED
    BY <2>1, <2>2
<1> HIDE <1>3, <1>4
<1>8. /\ w'.state = w.state /\ w'.entry = w.entry /\ w'.bg = w.bg
      /\ w'.fgHeld = w.fgHeld /\ w'.bgHeld = w.bgHeld
      /\ OneRun(w', w, r) /\ w'.runs[r].at = "gone" /\ w'.runs[r].proc = w.runs[r].proc
      /\ \A k \in Labels : k # l \/ w.pids[l] # r =>
            w'.pids[k] = w.pids[k] /\ w'.frozen[k] = w.frozen[k] /\ (k \in w'.noYield <=> k \in w.noYield)
      /\ w.pids[l] = r => w'.pids[l] = 0 /\ w'.frozen[l] = 0
  <2>1. OneRun(w', w, r) /\ w'.runs[r].at = "gone" /\ w'.runs[r].proc = w.runs[r].proc
    BY <1>6, <1>7 DEF OneRun
  <2> QED
    BY <1>6, <1>7, <2>1 DEF SameRecords
<1> HIDE <1>6, <1>7
<1>9. /\ DOMAIN w'.runs = DOMAIN w.runs /\ w.runs[r].proc \in {"none", "reaped"}
      /\ \A s \in DOMAIN w.runs : /\ w.runs[s].label \in Labels /\ w'.runs[s].label = w.runs[s].label
                                  /\ w'.runs[s].on = w.runs[s].on /\ w'.runs[s].full = w.runs[s].full
                                  /\ w'.runs[s].proc = w.runs[s].proc
                                  /\ s # r => w'.runs[s].at = w.runs[s].at
                                  /\ Current(w', s) <=> Current(w, s)
  <2>1. w.runs[r].proc \in {"none", "reaped"} /\ ~Current(w, r) /\ ~Current(w', r)
    BY <1>1, <1>5, <1>8 DEF Phases, Current
  <2> QED
    BY <1>5, <1>8, <2>1, RunIs DEF OneRun, Current
<1>10. \A k \in Labels : w.pids[k] = r => k = l
  BY <1>1, <1>2, <1>5, FewOnes DEF Recorded
<1>11. HeldOnce(w', {})
  <2>1. Waiting(w') = Waiting(w)
    BY <1>8 DEF Waiting
  <2> QED
    BY <1>5, <1>8, <2>1 DEF HeldOnce
<1>12. Phases(w')
  <2>1. ASSUME NEW s \in DOMAIN w.runs, w'.runs[s].at = "wait" PROVE w'.pids[w'.runs[s].label] = s
    <3>1. s # r /\ w.pids[w.runs[s].label] = s
      BY <1>5, <1>8, <1>9, <2>1 DEF Phases
    <3>2. w.runs[s].label # l \/ w.pids[l] # r
      BY <3>1
    <3> QED
      BY <1>8, <1>9, <3>1, <3>2
  <2> QED
    BY <1>5, <1>8, <1>9, <2>1 DEF Phases
<1>13. OneCurrent(w')
  <2>1. \A s \in DOMAIN w.runs : Current(w, s) => s # r
    BY <1>1 DEF Current
  <2> QED
    BY <1>5, <1>8, <1>9, <2>1 DEF OneCurrent
<1>14. Recorded(w')
  <2>1. \A k \in Labels : w'.pids[k] # 0 => w'.pids[k] = w.pids[k] /\ w.pids[k] # r /\ w'.frozen[k] = w.frozen[k]
    BY <1>5, <1>8, <1>10
  <2>2. \A k \in Labels : w'.pids[k] # 0 =>
           /\ w'.pids[k] \in DOMAIN w'.runs /\ w'.runs[w'.pids[k]].label = k
           /\ w'.runs[w'.pids[k]].at \notin {"setup", "born", "gone"}
    BY <1>5, <1>9, <2>1 DEF Recorded
  <2>3. \A k \in Labels : w'.frozen[k] # 0 =>
           /\ w'.frozen[k] = w'.pids[k] /\ w'.state[k] = "paused" /\ w'.runs[w'.pids[k]].proc = "stopped"
    <3> SUFFICES ASSUME NEW k \in Labels, w'.frozen[k] # 0
                 PROVE  /\ w'.frozen[k] = w'.pids[k] /\ w'.state[k] = "paused"
                        /\ w'.runs[w'.pids[k]].proc = "stopped"
      OBVIOUS
    <3>1. w'.frozen[k] = w.frozen[k] /\ w'.pids[k] = w.pids[k]
      BY <1>8
    <3>2. /\ w.frozen[k] = w.pids[k] /\ w.state[k] = "paused" /\ w.runs[w.pids[k]].proc = "stopped"
          /\ w.pids[k] \in DOMAIN w.runs
      BY <1>5, <3>1 DEF Recorded
    <3> QED
      BY <1>8, <1>9, <3>1, <3>2
  <2>4. \A s \in DOMAIN w'.runs : w'.runs[s].proc = "stopped" => w'.frozen[w'.runs[s].label] = s
    <3> SUFFICES ASSUME NEW s \in DOMAIN w.runs, w.runs[s].proc = "stopped"
                 PROVE  w'.frozen[w.runs[s].label] = s
      BY <1>9
    <3>1. s # r /\ w.frozen[w.runs[s].label] = s /\ s # 0
      BY <1>5, <1>9, FewOnes DEF Recorded
    <3>2. w.pids[w.runs[s].label] = s
      BY <1>5, <1>9, <3>1 DEF Recorded
    <3>3. w.runs[s].label # l \/ w.pids[l] # r
      BY <3>1, <3>2
    <3> QED
      BY <1>8, <1>9, <3>1, <3>3
  <2> QED
    BY <2>2, <2>3, <2>4 DEF Recorded
<1>15. ASSUME Live(w) PROVE Live(w')
  <2>1. w.pids[l] = r => w.frozen[l] = 0
    BY <1>5, <1>9 DEF Recorded
  <2>2. \A k \in Labels : w'.frozen[k] = w.frozen[k]
    BY <1>5, <1>8, <2>1
  <2>3. \A k \in Labels : w'.state[k] \in {"running", "paused"} =>
           \E s \in DOMAIN w'.runs : w'.runs[s].label = k /\ Current(w', s)
    BY <1>8, <1>9, <1>15 DEF Live
  <2>4. ASSUME NEW e \in Entries PROVE Cardinality(Counted(w', e)) <= Slots
    <3>1. \A k \in Labels : Exempt(w, k) => Exempt(w', k)
      <4> SUFFICES ASSUME NEW k \in Labels, Exempt(w, k) PROVE Exempt(w', k)
        OBVIOUS
      <4>1. w.pids[k] # 0 /\ w.pids[k] \in DOMAIN w.runs /\ w.pids[k] # r
        BY <1>1, <1>5 DEF Exempt, Recorded
      <4>2. w'.pids[k] = w.pids[k] /\ k \in w'.noYield
        BY <1>8, <4>1 DEF Exempt
      <4> QED
        BY <1>9, <4>1, <4>2 DEF Exempt
    <3>2. Counted(w', e) \subseteq Counted(w, e)
      BY <1>8, <3>1 DEF Counted, On
    <3>3. Cardinality(Counted(w, e)) <= Slots
      BY <1>15 DEF Live
    <3>4. w' \in Table
      BY <1>7
    <3> QED
      BY <1>5, <3>2, <3>3, <3>4, SlotsKept
  <2> QED
    BY <1>8, <1>9, <1>15, <2>2, <2>3, <2>4 DEF Live
<1>16. Due(w') <= Due(w) /\ w' \in Table
  <2>1. r \notin Failing(w') /\ Wanting(w') \subseteq Wanting(w)
    BY <1>8 DEF Failing, Wanting
  <2>2. w' \in Table
    BY <1>7
  <2> QED
    BY <1>5, <1>8, <2>1, <2>2, DueStays
<1>17. Good(w', {}) /\ (mode' # "cancelled" => Live(w'))
  BY <1>1, <1>5, <1>11, <1>12, <1>13, <1>14, <1>15, <1>16 DEF Good
<1>18. Due(w') + budget' <= Cardinality(Labels) + Budget
  BY <1>1, <1>16, Steps, FewOnes
<1> QED
  BY <1>1, <1>8, <1>17, <1>18, Steps, Quietly

LEMMA CancelStep ==
    ASSUME IInv, CancelWorkers
    PROVE  IInv' /\ EndedStay
<1>1. PICK L : L = {l \in Labels : w.state[l] = "paused"}
  OBVIOUS
<1>2. /\ listed' = listed /\ wfile' = wfile /\ qfile' = qfile /\ writing' = writing /\ mode' = "cancelled"
      /\ budget' = budget /\ w' = Thaw(w, L)
  BY <1>1 DEF CancelWorkers
<1>3. /\ w \in Table /\ Good(w, {}) /\ Phases(w) /\ OneCurrent(w) /\ Recorded(w) /\ HeldOnce(w, {})
      /\ L \in SUBSET Labels
  BY <1>1, Steps
<1>4. /\ w' \in Table /\ SameRuns(w', w)
      /\ w'.state = w.state /\ w'.entry = w.entry /\ w'.bg = w.bg
      /\ w'.fgHeld = w.fgHeld /\ w'.bgHeld = w.bgHeld /\ w'.pids = w.pids
      /\ w'.frozen = [l \in Labels |-> IF l \in L THEN 0 ELSE w.frozen[l]]
      /\ \A r \in DOMAIN w.runs :
            w'.runs[r].proc = IF /\ \E l \in L : r \in {w.frozen[l], w.pids[l]}
                                 /\ w.runs[r].proc = "stopped"
                              THEN "live" ELSE w.runs[r].proc
  BY <1>2, <1>3, ThawIs
<1>h. \A r \in DOMAIN w.runs :
         /\ w'.runs[r].label = w.runs[r].label /\ w'.runs[r].on = w.runs[r].on
         /\ w'.runs[r].full = w.runs[r].full /\ w'.runs[r].at = w.runs[r].at
         /\ Current(w', r) <=> Current(w, r)
         /\ w.runs[r].label \in Labels
  BY <1>3, <1>4, RunIs DEF SameRuns, Current
<1>i. DOMAIN w'.runs = DOMAIN w.runs
  BY <1>4 DEF SameRuns
<1>5. \A l \in Labels : w'.frozen[l] = 0
  BY <1>1, <1>3, <1>4 DEF Recorded
<1>6. \A r \in DOMAIN w.runs : w'.runs[r].proc # "stopped"
  <2> SUFFICES ASSUME NEW r \in DOMAIN w.runs, w.runs[r].proc = "stopped"
               PROVE  w'.runs[r].proc = "live"
    BY <1>4
  <2>1. w.frozen[w.runs[r].label] = r /\ r # 0 /\ w.runs[r].label \in Labels
    BY <1>3, <1>h, FewOnes DEF Recorded
  <2>2. w.runs[r].label \in L
    BY <1>1, <1>3, <2>1 DEF Recorded
  <2> QED
    BY <1>4, <2>1, <2>2
<1> HIDE <1>1, <1>2
<1>7. HeldOnce(w', {})
  <2>1. Waiting(w') = Waiting(w)
    BY <1>4 DEF Waiting
  <2> QED
    BY <1>3, <1>4, <2>1 DEF HeldOnce
<1>8. Phases(w')
  <2>1. \A r \in DOMAIN w.runs : \/ w'.runs[r].proc = w.runs[r].proc
                                 \/ w.runs[r].proc = "stopped" /\ w'.runs[r].proc = "live"
    BY <1>4
  <2> QED
    BY <1>3, <1>4, <1>h, <1>i, <2>1 DEF Phases
<1>9. OneCurrent(w')
  BY <1>3, <1>4, <1>h, <1>i DEF OneCurrent
<1>10. Recorded(w')
  <2>1. \A k \in Labels : w'.pids[k] # 0 =>
           /\ w'.pids[k] \in DOMAIN w'.runs /\ w'.runs[w'.pids[k]].label = k
           /\ w'.runs[w'.pids[k]].at \notin {"setup", "born", "gone"}
    BY <1>3, <1>4, <1>h, <1>i DEF Recorded
  <2> QED
    BY <1>5, <1>6, <1>i, <2>1 DEF Recorded
<1>11. Due(w') <= Due(w)
  <2>1. Wanting(w') \subseteq Wanting(w)
    BY <1>4 DEF Wanting
  <2> QED
    BY <1>3, <1>4, <2>1, SameDue
<1>12. Due(w') + budget' <= Cardinality(Labels) + Budget
  <2>1. budget' = budget
    BY <1>2
  <2> QED
    BY <1>4, <1>11, <2>1, Steps, FewOnes
<1>13. Good(w', {})
  BY <1>4, <1>7, <1>8, <1>9, <1>10 DEF Good
<1>14. /\ listed' = listed /\ wfile' = wfile /\ qfile' = qfile /\ writing' = writing /\ mode' = "cancelled"
       /\ budget' = budget
  BY <1>2
<1> QED
  BY <1>4, <1>12, <1>13, <1>14, Steps, Quietly
\* A table with no run.
Loaded(state, bg, q) == [Idle0 EXCEPT !.state = state, !.bg = bg, !.bgHeld = q]

LEMMA IdleIs ==
    /\ Idle0 \in Table /\ Idle0.state = [l \in Labels |-> "none"] /\ Idle0.bg = {} /\ Idle0.bgHeld = <<>>
    /\ Idle0.fgHeld = <<>> /\ Idle0.runs = <<>>
    /\ Idle0.pids = [l \in Labels |-> 0] /\ Idle0.frozen = [l \in Labels |-> 0]
<1>1. [l \in Labels |-> "none"] \in [Labels -> States]
  BY DEF States
<1>2. [l \in Labels |-> 0] \in [Labels -> Entries \cup {0}] /\ [l \in Labels |-> 0] \in [Labels -> Nat]
  OBVIOUS
<1>3. <<>> \in Seq(Job) /\ <<>> \in Seq(Run)
  OBVIOUS
<1>4. {} \in SUBSET Labels /\ {} \in SUBSET Entries
  OBVIOUS
<1> QED
  BY <1>1, <1>2, <1>3, <1>4 DEF Idle0, Table

\* It is in order when the held jobs are those that wait.
LEMMA Fresh ==
    ASSUME NEW state \in [Labels -> States], NEW bg \in SUBSET Labels, NEW q \in Seq(Job),
           \A l \in Labels : state[l] \notin {"running", "paused"}, Single(q),
           LabelsOf(ToSet(q)) = {l \in Labels : state[l] = "queued"}, LabelsOf(ToSet(q)) \subseteq bg,
           \A j \in ToSet(q) : j.full
    PROVE  LET n == Loaded(state, bg, q) IN
           /\ n \in Table /\ n.state = state /\ n.bg = bg
           /\ Good(n, {}) /\ Live(n) /\ Due(n) <= Cardinality(Labels)
<1>1. PICK n : n = Loaded(state, bg, q)
  OBVIOUS
<1>2. /\ n \in Table /\ n.state = state /\ n.bg = bg /\ n.bgHeld = q /\ n.fgHeld = <<>>
      /\ n.runs = <<>> /\ n.pids = [l \in Labels |-> 0] /\ n.frozen = [l \in Labels |-> 0]
  BY <1>1, IdleIs DEF Loaded, Table
<1> HIDE <1>1
<1>3. DOMAIN n.runs = {} /\ Len(n.runs) = 0
  BY <1>2
<1>4. HeldOnce(n, {})
  <2>1. Waiting(n) = {l \in Labels : state[l] = "queued"}
    BY <1>2 DEF Waiting
  <2>2. Single(n.fgHeld) /\ ToSet(n.fgHeld) = {} /\ LabelsOf({}) = {}
    BY <1>2, EmptyQueue
  <2> QED
    BY <1>2, <2>1, <2>2 DEF HeldOnce
<1>5. Phases(n) /\ OneCurrent(n) /\ Recorded(n)
  BY <1>2, <1>3 DEF Phases, OneCurrent, Recorded
<1>6. Live(n)
  <2>1. ASSUME NEW e \in Entries PROVE Cardinality(Counted(n, e)) <= Slots
    <3>1. Counted(n, e) = {}
      BY <1>2 DEF Counted, On
    <3> QED
      BY <3>1, FS_EmptySet, PoolAssumption
  <2> QED
    BY <1>2, <1>3, <2>1 DEF Live
<1>7. Due(n) <= Cardinality(Labels)
  <2>1. Failing(n) = {} /\ Wanting(n) \subseteq Labels
    BY <1>3 DEF Failing, Wanting
  <2>2. Cardinality(Failing(n)) = 0 /\ Cardinality(Wanting(n)) <= Cardinality(Labels)
    BY <2>1, FS_EmptySet, FS_Subset, PoolAssumption
  <2>3. Cardinality(Wanting(n)) \in Nat /\ Cardinality(Labels) \in Nat
    BY <1>2, FewOnes, FS_CardinalityType, PoolAssumption
  <2> QED
    BY <1>3, <2>2, <2>3 DEF Due
<1> QED
  BY <1>1, <1>2, <1>4, <1>5, <1>6, <1>7 DEF Good

\* The jobs of a queue file, in table order.
LEMMA Ordered ==
    ASSUME NEW S \in SUBSET Job, NEW q \in InTableOrder(S)
    PROVE  /\ q \in Seq(Job) /\ Single(q) /\ ToSet(q) \subseteq S
           /\ LabelsOf(ToSet(q)) = LabelsOf(S)
           /\ (\A i, j \in S : i.label = j.label => i = j) => ToSet(q) = S
<1>1. IsFiniteSet(LabelsOf(S))
  <2>1. LabelsOf(S) \subseteq Labels
    BY DEF LabelsOf, Job
  <2> QED
    BY <2>1, FS_Subset, PoolAssumption
<1>2. Cardinality(LabelsOf(S)) \in Nat
  BY <1>1, FS_CardinalityType
<1>3. /\ q \in [1 .. Cardinality(LabelsOf(S)) -> S] /\ {q[i].label : i \in DOMAIN q} = LabelsOf(S)
      /\ \A i, k \in DOMAIN q : i < k => q[i].label < q[k].label
  BY DEF InTableOrder, LabelsOf
<1>4. q \in Seq(Job)
  BY <1>2, <1>3
<1>6. ToSet(q) \subseteq S
  BY <1>3 DEF ToSet
<1>7. LabelsOf(ToSet(q)) = LabelsOf(S)
  BY <1>3 DEF LabelsOf, ToSet
<1>8. ASSUME \A i, j \in S : i.label = j.label => i = j PROVE ToSet(q) = S
  <2> SUFFICES ASSUME NEW j \in S PROVE j \in ToSet(q)
    BY <1>6
  <2>1. PICK i \in ToSet(q) : i.label = j.label
    BY <1>7 DEF LabelsOf
  <2> QED
    BY <1>6, <1>8, <2>1
<1>5. Single(q)
  <2> SUFFICES ASSUME NEW i \in DOMAIN q, NEW k \in DOMAIN q, q[i].label = q[k].label, i # k PROVE FALSE
    BY DEF Single
  <2>1. i \in Int /\ k \in Int
    BY <1>2, <1>3
  <2>2. q[i].label \in Nat /\ q[k].label \in Nat
    <3>1. q[i] \in Job /\ q[k] \in Job
      BY <1>3
    <3> QED
      BY <3>1, PoolAssumption DEF Job
  <2>3. i < k \/ k < i
    BY <2>1
  <2> QED
    BY <1>3, <2>2, <2>3
<1> QED
  BY <1>4, <1>5, <1>6, <1>7, <1>8

\* There is such an order, so a restart is never blocked for want of one.
LEMMA OrderExists ==
    ASSUME NEW S \in SUBSET Job
    PROVE  InTableOrder(S) # {}
<1> DEFINE c == Cardinality(LabelsOf(S))
           N == {n \in 0 .. c : \A T \in SUBSET S : Cardinality(LabelsOf(T)) = n => InTableOrder(T) # {}}
<1>f. \A T \in SUBSET S : LabelsOf(T) \subseteq Labels /\ IsFiniteSet(LabelsOf(T))
  <2>1. \A T \in SUBSET S : LabelsOf(T) \subseteq Labels
    BY DEF LabelsOf, Job
  <2> QED
    BY <2>1, FS_Subset, PoolAssumption
<1>0. c \in Nat
  BY <1>f, FS_CardinalityType
<1>1. 0 \in N
  <2> SUFFICES ASSUME NEW T \in SUBSET S, Cardinality(LabelsOf(T)) = 0 PROVE InTableOrder(T) # {}
    BY <1>0
  <2>1. LabelsOf(T) = {}
    BY <1>f, FS_EmptySet
  <2>2. /\ <<>> \in [1 .. Cardinality(LabelsOf(T)) -> T] /\ DOMAIN <<>> = {}
        /\ {<<>>[i].label : i \in DOMAIN <<>>} = LabelsOf(T)
    BY <2>1
  <2>3. \A i, k \in DOMAIN <<>> : i < k => <<>>[i].label < <<>>[k].label
    BY <2>2
  <2>4. <<>> \in InTableOrder(T)
    BY <2>2, <2>3 DEF InTableOrder, LabelsOf
  <2> QED
    BY <2>4
<1>2. ASSUME NEW n \in 0 .. c - 1, n \in N PROVE n + 1 \in N
  <2> SUFFICES ASSUME NEW T \in SUBSET S, Cardinality(LabelsOf(T)) = n + 1 PROVE InTableOrder(T) # {}
    BY <1>0
  <2>0. n \in Nat
    BY <1>0
  <2>1. T # {} /\ \A j \in T : j \in Job /\ j.label \in Nat
    <3>1. LabelsOf(T) # {}
      BY <2>0, FS_EmptySet
    <3> QED
      BY <3>1, PoolAssumption DEF Job, LabelsOf
  <2>2. PICK j \in T : \A i \in T : j.label <= i.label
    <3>1. {i.label : i \in T} \in SUBSET Nat /\ {i.label : i \in T} # {}
      BY <2>1
    <3>2. PICK x \in {i.label : i \in T} : \A y \in {i.label : i \in T} : x <= y
      BY <3>1, Least
    <3> QED
      BY <3>2
  <2> DEFINE U == {i \in T : i.label # j.label}
  <2>3. U \in SUBSET S /\ LabelsOf(U) = LabelsOf(T) \ {j.label} /\ Cardinality(LabelsOf(U)) = n
    <3>1. IsFiniteSet(LabelsOf(T)) /\ j.label \in LabelsOf(T)
      BY <1>f DEF LabelsOf
    <3>2. LabelsOf(U) = LabelsOf(T) \ {j.label} /\ U \in SUBSET S
      BY DEF LabelsOf
    <3>3. Cardinality(LabelsOf(T) \ {j.label}) = Cardinality(LabelsOf(T)) - 1
      BY <3>1, FS_RemoveElement
    <3> HIDE DEF U
    <3> QED
      BY <2>0, <3>2, <3>3
  <2>4. PICK q \in InTableOrder(U) : TRUE
    BY <1>2, <2>3
  <2>5. /\ q \in [1 .. n -> U] /\ {q[i].label : i \in 1 .. n} = LabelsOf(T) \ {j.label}
        /\ \A i, k \in 1 .. n : i < k => q[i].label < q[k].label
        /\ \A i \in 1 .. n : q[i] \in T /\ q[i].label # j.label
    <3>1. /\ q \in [1 .. Cardinality(LabelsOf(U)) -> U] /\ {q[i].label : i \in DOMAIN q} = LabelsOf(U)
          /\ \A i, k \in DOMAIN q : i < k => q[i].label < q[k].label
      BY <2>4 DEF InTableOrder, LabelsOf
    <3> QED
      BY <2>3, <3>1
  <2> DEFINE p == [i \in 1 .. n + 1 |-> IF i = 1 THEN j ELSE q[i - 1]]
  <2>6. /\ p[1] = j /\ 1 \in 1 .. n + 1 /\ DOMAIN p = 1 .. n + 1
        /\ \A i \in 1 .. n + 1 : i = 1 \/ (i - 1 \in 1 .. n /\ p[i] = q[i - 1])
        /\ \A i \in 1 .. n : i + 1 \in 1 .. n + 1 /\ p[i + 1] = q[i]
    BY <2>0
  <2>7. p \in [1 .. Cardinality(LabelsOf(T)) -> T]
    BY <2>5, <2>0
  <2> HIDE DEF p, U
  <2>8. {p[i].label : i \in DOMAIN p} = LabelsOf(T)
    <3>1. j.label \in LabelsOf(T)
      BY DEF LabelsOf
    <3>2. \A i \in 1 .. n : q[i].label \in LabelsOf(T)
      BY <2>5
    <3>3. \A i \in DOMAIN p : p[i].label \in LabelsOf(T)
      BY <2>6, <3>1, <3>2
    <3>4. \A x \in LabelsOf(T) : \E i \in DOMAIN p : x = p[i].label
      <4> TAKE x \in LabelsOf(T)
      <4>1. CASE x = j.label
        BY <2>6, <4>1
      <4>2. CASE x # j.label
        <5>1. PICK i \in 1 .. n : x = q[i].label
          BY <2>5, <4>2
        <5> QED
          BY <2>6, <5>1
      <4> QED
        BY <4>1, <4>2
    <3> QED
      BY <3>3, <3>4
  <2>9. ASSUME NEW i \in 1 .. n + 1, NEW k \in 1 .. n + 1, i < k PROVE p[i].label < p[k].label
    <3>1. k # 1 /\ k - 1 \in 1 .. n /\ p[k] = q[k - 1]
      BY <2>6, <2>9, <2>0
    <3>2. CASE i = 1
      <4>1. q[k - 1] \in T /\ q[k - 1].label # j.label
        BY <2>5, <3>1
      <4>2. j.label <= q[k - 1].label /\ j.label # q[k - 1].label
        BY <2>2, <4>1
      <4>3. j.label \in Nat /\ q[k - 1].label \in Nat
        BY <2>1, <4>1
      <4> QED
        BY <2>6, <3>1, <3>2, <4>2, <4>3
    <3>3. CASE i # 1
      <4>1. i - 1 \in 1 .. n /\ p[i] = q[i - 1] /\ i - 1 < k - 1
        BY <2>0, <2>6, <2>9, <3>3
      <4> QED
        BY <2>5, <3>1, <4>1
    <3> QED
      BY <3>2, <3>3
  <2>10. p \in InTableOrder(T)
    BY <2>6, <2>7, <2>8, <2>9 DEF InTableOrder, LabelsOf
  <2> QED
    BY <2>10
<1> HIDE DEF N
<1>3. c \in N
  <2>1. 0 .. c \subseteq N
    BY <1>0, <1>1, <1>2, Induct
  <2> QED
    BY <1>0, <2>1
<1> QED
  BY <1>3 DEF N

LEMMA InitInv == ASSUME Init PROVE IInv
<1>1. /\ w = Idle0 /\ listed = Entries /\ wfile = [l \in Labels |-> "none"] /\ qfile = {}
      /\ writing = FALSE /\ mode = "open" /\ budget = Budget
  BY DEF Init
<1> DEFINE state == [l \in Labels |-> "none"]
           bg == {}
           q == <<>>
<1>2. state = [l \in Labels |-> "none"] /\ state \in [Labels -> States]
  BY DEF States
<1>3. bg = {}
  OBVIOUS
<1>4. q = <<>>
  OBVIOUS
<1> HIDE DEF state, bg, q
<1>5. w = Loaded(state, bg, q)
  BY <1>1, <1>2, <1>3, <1>4, IdleIs DEF Loaded, Table
<1>6. /\ state \in [Labels -> States] /\ bg \in SUBSET Labels /\ q \in Seq(Job)
      /\ \A l \in Labels : state[l] \notin {"running", "paused"}
      /\ Single(q) /\ ToSet(q) = {}
      /\ LabelsOf(ToSet(q)) = {l \in Labels : state[l] = "queued"} /\ LabelsOf(ToSet(q)) \subseteq bg
  <2>1. {l \in Labels : state[l] = "queued"} = {}
    BY <1>2
  <2> QED
    BY <1>2, <1>3, <1>4, <2>1, EmptyQueue
<1>7. \A j \in ToSet(q) : j.full
  BY <1>6
<1>8. LET n == Loaded(state, bg, q) IN
      /\ n \in Table /\ n.state = state /\ n.bg = bg
      /\ Good(n, {}) /\ Live(n) /\ Due(n) <= Cardinality(Labels)
  BY <1>6, <1>7, Fresh
<1>9. w \in Table /\ w.state = state /\ w.bg = bg /\ Good(w, {}) /\ Live(w) /\ Due(w) <= Cardinality(Labels)
  BY <1>5, <1>8
<1>10. Due(w) + budget <= Cardinality(Labels) + Budget
  BY <1>1, <1>9, FewOnes, FS_CardinalityType, PoolAssumption
<1>11. Shape
  <2>1. wfile = state
    BY <1>1, <1>2
  <2>2. wfile \in [Labels -> States]
    BY <1>2, <2>1
  <2>3. budget \in 0 .. Budget
    BY <1>1, PoolAssumption
  <2>4. listed \subseteq Entries /\ qfile \subseteq Job /\ writing \in BOOLEAN /\ mode \in {"open", "closed", "cancelled"}
    BY <1>1
  <2> QED
    BY <2>2, <2>3, <2>4 DEF Shape
<1>12. Files
  <2>1. Restored = {} /\ {l \in w.bg : w.state[l] = "queued"} = {}
    BY <1>1, <1>3, <1>9 DEF Restored
  <2>2. \A l \in Labels : w.state[l] = "none"
    BY <1>2, <1>9
  <2> HIDE <1>5
  <2> QED
    BY <1>1, <2>1, <2>2, EmptyQueue DEF Files, Ended
<1> HIDE <1>5
<1> QED
  BY <1>1, <1>9, <1>10, <1>11, <1>12 DEF IInv
LEMMA RestartStep ==
    ASSUME IInv, Restart
    PROVE  IInv' /\ EndedStay
<1> DEFINE kept == {j.label : j \in Restored}
           after == [l \in Labels |->
                        IF \/ wfile[l] \in {"running", "paused"}
                           \/ wfile[l] = "queued" /\ l \notin kept
                        THEN "stopped" ELSE wfile[l]]
           bg == {l \in w.bg : wfile[l] # "none"}
<1>1. PICK held \in InTableOrder(Restored) :
         w' = [Idle0 EXCEPT !.state = after, !.bg = bg, !.bgHeld = held]
  BY Zenon DEF Restart
<1>2. /\ wfile' = after /\ mode' = "open" /\ writing' = FALSE /\ listed' = listed /\ qfile' = qfile
      /\ budget > 0 /\ budget' = budget - 1
  BY DEF Restart
<1>3. w' = Loaded(after, bg, held)
  BY <1>1 DEF Loaded
<1>4. /\ w \in Table /\ wfile \in [Labels -> States] /\ qfile \subseteq Job /\ Files
      /\ budget \in 0 .. Budget /\ Budget \in Nat
  BY Steps, PoolAssumption DEF IInv, Shape
<1>5. /\ kept = LabelsOf(Restored) /\ bg \in SUBSET Labels /\ after \in [Labels -> States]
      /\ \A l \in Labels : after[l] = IF \/ wfile[l] \in {"running", "paused"}
                                         \/ wfile[l] = "queued" /\ l \notin kept
                                      THEN "stopped" ELSE wfile[l]
      /\ \A l \in Labels : l \in bg <=> l \in w.bg /\ wfile[l] # "none"
  BY <1>4 DEF LabelsOf, Table, States, Ended
<1> HIDE DEF kept, after, bg
<1>6. \A l \in kept : l \in Labels /\ l \in w.bg /\ wfile[l] = "queued"
  BY <1>4, <1>5 DEF LabelsOf, Restored, Job
<1>7. Restored \in SUBSET Job /\ \A i, j \in Restored : i.label = j.label => i = j
  BY <1>4 DEF Restored, Files
<1>8. held \in Seq(Job) /\ Single(held) /\ ToSet(held) = Restored
  BY <1>7, Ordered
<1>9. /\ \A l \in Labels : after[l] \notin {"running", "paused"}
      /\ LabelsOf(ToSet(held)) = {l \in Labels : after[l] = "queued"} /\ LabelsOf(ToSet(held)) \subseteq bg
      /\ \A j \in ToSet(held) : j.full
  <2>1. {l \in Labels : after[l] = "queued"} = kept
    BY <1>5, <1>6
  <2>2. \A j \in Restored : j.full
    BY <1>4 DEF Restored, Files
  <2>3. kept \subseteq bg
    BY <1>5, <1>6
  <2> QED
    BY <1>5, <1>8, <2>1, <2>2, <2>3
<1>10. LET n == Loaded(after, bg, held) IN
       /\ n \in Table /\ n.state = after /\ n.bg = bg
       /\ Good(n, {}) /\ Live(n) /\ Due(n) <= Cardinality(Labels)
  BY <1>5, <1>8, <1>9, Fresh
<1>11. w' \in Table /\ w'.state = after /\ w'.bg = bg /\ Good(w', {}) /\ Live(w') /\ Due(w') <= Cardinality(Labels)
  BY <1>3, <1>10
<1> HIDE <1>1, <1>3
<1>12. Due(w') + budget' <= Cardinality(Labels) + Budget /\ budget' \in 0 .. Budget
  <2>1. Due(w') \in Nat /\ Cardinality(Labels) \in Nat
    BY <1>11, FewOnes, FS_CardinalityType, PoolAssumption
  <2> QED
    BY <1>2, <1>4, <1>11, <2>1
<1>13. Shape'
  BY <1>2, <1>4, <1>5, <1>12, Steps DEF Shape
<1>14. Files'
  <2>1. Restored' = {j \in qfile : after[j.label] = "queued" /\ j.label \in bg}
    BY <1>2, <1>11 DEF Restored
  <2>2. \A l \in LabelsOf(Restored') : l \in bg /\ after[l] = "queued"
    BY <2>1 DEF LabelsOf
  <2>3. ASSUME NEW l \in bg, after[l] = "queued" PROVE l \in LabelsOf(Restored')
    <3>1. l \in kept
      BY <1>5, <2>3
    <3>2. PICK j \in Restored : j.label = l
      BY <1>5, <3>1 DEF LabelsOf
    <3>3. j \in Restored'
      BY <2>1, <2>3, <3>2 DEF Restored
    <3> QED
      BY <3>2, <3>3 DEF LabelsOf
  <2>4. LabelsOf(Restored') = {l \in bg : after[l] = "queued"}
    BY <2>2, <2>3
  <2>5. \A l \in Labels : after[l] \in Ended => l \notin LabelsOf(Restored')
    BY <2>2 DEF Ended
  <2>6. (\A i, j \in qfile' : i.label = j.label => i = j) /\ \A j \in qfile' : j.full
    BY <1>2, <1>4 DEF Files
  <2> QED
    BY <1>2, <1>11, <2>4, <2>5, <2>6 DEF Files
<1>15. EndedStay
  <2> SUFFICES ASSUME NEW l \in Labels, w.state[l] \in Ended, ~writing PROVE after[l] \in Ended
    BY <1>11 DEF EndedStay
  <2>1. wfile[l] # "none" /\ l \notin kept
    BY <1>4, <1>5 DEF Files, Ended
  <2>2. wfile[l] \in States
    BY <1>4
  <2> QED
    BY <1>5, <2>1, <2>2 DEF States, Ended
<1> QED
  BY <1>2, <1>11, <1>12, <1>13, <1>14, <1>15 DEF IInv

-----------------------------------------------------------------------------
(* The theorems.                                                           *)

LEMMA NextStep ==
    ASSUME IInv, ~EndMeetsFreeze, [Next]_vars
    PROVE  IInv' /\ EndedStay
<1>1. CASE \E b \in BOOLEAN : Spawn(b)
  BY <1>1, SpawnStep
<1>2. CASE Poll
  BY <1>2, PollStep
<1>3. CASE SaveWorkers
  BY <1>3, SaveWorkersStep
<1>4. ASSUME NEW r \in RunIds, RunStep(r) PROVE IInv' /\ EndedStay
  BY <1>4, LaunchStep, StartedStep, ReapStep, ReportStep, UnreportedStep, TakeResumedStep,
     BlameStep, ForgetStep DEF RunStep
<1>5. CASE \E r \in RunIds : Exit(r)
  BY <1>5, ExitStep
<1>6. CASE \/ \E e \in Entries : CoolOver(e) \/ IdleOver(e)
           \/ \E l \in Labels : GraceOver(l)
           \/ EditPools \/ Close \/ UNCHANGED vars
  BY <1>6, LapseStep
<1>7. CASE CancelWorkers
  BY <1>7, CancelStep
<1>8. CASE Restart
  BY <1>8, RestartStep
<1> QED
  BY <1>1, <1>2, <1>3, <1>4, <1>5, <1>6, <1>7, <1>8 DEF Next

\* The invariant holds of every state of the pool, when no worker ends while it is frozen.
THEOREM Inductive ==
    ASSUME ~EndMeetsFreeze
    PROVE  Spec => []IInv
<1>1. Init => IInv
  BY InitInv
<1>2. IInv /\ [Next]_vars => IInv'
  BY NextStep
<1> QED
  BY <1>1, <1>2, PTL DEF Spec
\* Types; in particular no more runs are made than the bound on their ids allows.
THEOREM Types ==
    ASSUME ~EndMeetsFreeze
    PROVE  Spec => []TypeOK
<1>1. ASSUME IInv PROVE TypeOK
  <2>1. /\ w \in Table /\ Recorded(w) /\ Due(w) + budget <= Cardinality(Labels) + Budget
        /\ budget \in Nat /\ Cardinality(Labels) \in Nat /\ Budget \in Nat
    BY <1>1, Steps, FS_CardinalityType, PoolAssumption
  <2>2. DOMAIN w.runs \subseteq RunIds
    <3>1. /\ Len(w.runs) \in Nat /\ DOMAIN w.runs = 1 .. Len(w.runs)
          /\ Cardinality(Wanting(w)) \in Nat /\ Cardinality(Failing(w)) \in Nat
      BY <2>1, FewOnes
    <3>2. Len(w.runs) <= Cardinality(Labels) + 2 * Budget
      <4>1. \A a, b, c, d, x, y \in Nat : a + b + c + d <= x + y => a <= x + 2 * y
        OBVIOUS
      <4>2. Len(w.runs) + Cardinality(Wanting(w)) + Cardinality(Failing(w)) + budget <= Cardinality(Labels) + Budget
        BY <2>1 DEF Due
      <4> QED
        BY <2>1, <3>1, <4>1, <4>2
    <3> QED
      BY <2>1, <3>1, <3>2 DEF RunIds
  <2>3. w.pids \in [Labels -> {0} \cup RunIds] /\ w.frozen \in [Labels -> {0} \cup RunIds]
    <3>1. w.pids \in [Labels -> Nat] /\ w.frozen \in [Labels -> Nat]
      BY <2>1 DEF Table
    <3>2. \A l \in Labels : w.pids[l] \in {0} \cup RunIds /\ w.frozen[l] \in {0} \cup RunIds
      BY <2>1, <2>2 DEF Recorded
    <3> QED
      BY <3>1, <3>2
  <2>4. Shape
    BY <1>1 DEF IInv
  <2>5. /\ w.state \in [Labels -> States] /\ w.entry \in [Labels -> Entries \cup {0}]
        /\ w.bg \subseteq Labels
        /\ w.fgHeld \in Seq(Job) /\ w.bgHeld \in Seq(Job) /\ w.runs \in Seq(Run)
        /\ w.fresh \cup w.noYield \subseteq Labels /\ w.cooling \cup w.recent \subseteq Entries
    BY <2>1 DEF Table
  <2> QED
    BY <2>2, <2>3, <2>4, <2>5 DEF Shape, TypeOK
<1> QED
  BY <1>1, Inductive, PTL

LEMMA QueueCount ==
    ASSUME NEW q \in Seq(Job), Single(q), NEW l
    PROVE  Cardinality({i \in DOMAIN q : q[i].label = l}) = IF l \in LabelsOf(ToSet(q)) THEN 1 ELSE 0
<1> DEFINE S == {i \in DOMAIN q : q[i].label = l}
<1>1. CASE l \in LabelsOf(ToSet(q))
  <2>1. PICK i \in DOMAIN q : q[i].label = l
    BY <1>1 DEF LabelsOf, ToSet
  <2>2. S = {i}
    BY <2>1 DEF Single
  <2> QED
    BY <1>1, <2>2, FS_Singleton
<1>2. CASE l \notin LabelsOf(ToSet(q))
  <2>1. S = {}
    BY <1>2 DEF LabelsOf, ToSet
  <2> QED
    BY <1>2, <2>1, FS_EmptySet
<1> QED
  BY <1>1, <1>2

\* A record is queued or paused exactly when one held job stands for it: the pump, a yield, a requeue
\* and a restart lose none and hold none twice.
THEOREM HeldOnceEach ==
    ASSUME ~EndMeetsFreeze
    PROVE  Spec => []HeldWaits
<1>1. ASSUME IInv PROVE HeldWaits
  <2> SUFFICES ASSUME NEW l \in Labels
               PROVE  HeldCount(l) = IF w.state[l] \in {"queued", "paused"} THEN 1 ELSE 0
    BY DEF HeldWaits
  <2>1. w \in Table /\ HeldOnce(w, {})
    BY <1>1, Steps
  <2> DEFINE fg == Cardinality({i \in DOMAIN w.fgHeld : w.fgHeld[i].label = l})
             bg == Cardinality({i \in DOMAIN w.bgHeld : w.bgHeld[i].label = l})
  <2>2. /\ fg = IF l \in LabelsOf(ToSet(w.fgHeld)) THEN 1 ELSE 0
        /\ bg = IF l \in LabelsOf(ToSet(w.bgHeld)) THEN 1 ELSE 0
    BY <2>1, QueueCount DEF Table, HeldOnce
  <2>3. /\ l \in LabelsOf(ToSet(w.fgHeld)) => l \notin LabelsOf(ToSet(w.bgHeld))
        /\ l \in LabelsOf(ToSet(w.fgHeld)) \/ l \in LabelsOf(ToSet(w.bgHeld))
              <=> w.state[l] \in {"queued", "paused"}
    BY <2>1, EmptyQueue DEF HeldOnce, Waiting
  <2>4. HeldCount(l) = fg + bg
    BY DEF HeldCount
  <2> HIDE DEF fg, bg
  <2> QED
    BY <2>2, <2>3, <2>4
<1> QED
  BY <1>1, Inductive, PTL

\* Two workers never work in the worktree of one job at the same time.
THEOREM OneWorkerEach ==
    ASSUME ~EndMeetsFreeze
    PROVE  Spec => []OneProcess
<1>1. ASSUME IInv PROVE OneProcess
  <2> SUFFICES ASSUME NEW l \in Labels
               PROVE  Cardinality({r \in DOMAIN w.runs : w.runs[r].label = l
                                      /\ w.runs[r].proc \in {"live", "stopped"}}) <= 1
    BY DEF OneProcess
  <2> DEFINE S == {r \in DOMAIN w.runs : w.runs[r].label = l /\ w.runs[r].proc \in {"live", "stopped"}}
  <2>1. Phases(w) /\ OneCurrent(w)
    BY <1>1, Steps
  <2>2. \A r \in S : r \in DOMAIN w.runs /\ Current(w, r) /\ w.runs[r].label = l
    BY <2>1 DEF Phases, Current
  <2>3. \A r, s \in S : r = s
    BY <2>1, <2>2 DEF OneCurrent
  <2>4. S = {} \/ \E r \in S : S = {r}
    BY <2>3
  <2> QED
    BY <2>4, FS_EmptySet, FS_Singleton
<1> QED
  BY <1>1, Inductive, PTL

\* The processes that use an entry never outnumber its slots, until the close.
THEOREM SlotsAreKept ==
    ASSUME ~EndMeetsFreeze
    PROVE  Spec => []SlotsHold
<1>1. ASSUME IInv PROVE SlotsHold
  <2> SUFFICES ASSUME mode # "cancelled", NEW e \in Entries
               PROVE  Cardinality({r \in DOMAIN w.runs : /\ w.runs[r].proc = "live" /\ w.runs[r].on = e
                                                         /\ w.runs[r].label \notin w.noYield}) <= Slots
    BY DEF SlotsHold
  <2> DEFINE P == {r \in DOMAIN w.runs : /\ w.runs[r].proc = "live" /\ w.runs[r].on = e
                                         /\ w.runs[r].label \notin w.noYield}
             f == [r \in P |-> w.runs[r].label]
  <2>1. w \in Table /\ Phases(w) /\ OneCurrent(w) /\ Recorded(w) /\ Live(w)
    BY <1>1, Steps
  <2>2. ASSUME NEW r \in P PROVE w.runs[r].label \in Counted(w, e) /\ Current(w, r)
    <3>1. w.runs[r].label \in Labels
      BY <2>1, RunIs
    <3>2. w.runs[r].at \in {"born", "wait"}
      BY <2>1 DEF Phases
    <3>3. Current(w, r) /\ w.entry[w.runs[r].label] = e
      BY <2>1, <3>2 DEF Current, Live
    <3>4. w.state[w.runs[r].label] # "paused"
      <4> SUFFICES ASSUME w.state[w.runs[r].label] = "paused" PROVE FALSE
        OBVIOUS
      <4>1. w.runs[r].at = "wait"
        BY <2>1, <3>3 DEF OneCurrent
      <4>2. w.pids[w.runs[r].label] = r /\ w.frozen[w.runs[r].label] # 0
        BY <2>1, <3>1, <4>1 DEF Phases, Live
      <4>3. w.runs[r].proc = "stopped"
        BY <2>1, <3>1, <4>2 DEF Recorded
      <4> QED
        BY <4>3
    <3>5. w.state[w.runs[r].label] = "running"
      BY <2>1, <3>3, <3>4 DEF OneCurrent
    <3> QED
      BY <3>1, <3>3, <3>5 DEF Counted, On, Exempt
  <2>3. \A r, s \in P : w.runs[r].label = w.runs[s].label => r = s
    BY <2>1, <2>2 DEF OneCurrent
  <2>4. f \in Injection(P, Counted(w, e))
    BY <2>2, <2>3 DEF Injection, IsInjective
  <2>5. IsFiniteSet(Counted(w, e)) /\ Cardinality(Counted(w, e)) \in Nat /\ Cardinality(Counted(w, e)) <= Slots
    BY <2>1, FewOnes DEF Live
  <2> HIDE DEF P, f
  <2>6. IsFiniteSet(P) /\ Cardinality(P) <= Cardinality(Counted(w, e))
    BY <2>4, <2>5, FS_Injection
  <2>7. Cardinality(P) <= Slots
    BY <2>5, <2>6, FS_CardinalityType, PoolAssumption
  <2> QED
    BY <2>7 DEF P
<1> QED
  BY <1>1, Inductive, PTL

\* A stopped process belongs to a paused job that records its groups, and a paused job has one, until the close.
THEOREM StoppedArePaused ==
    ASSUME ~EndMeetsFreeze
    PROVE  Spec => []StoppedIsPaused
<1>1. ASSUME IInv PROVE StoppedIsPaused
  <2> SUFFICES ASSUME mode # "cancelled"
               PROVE  /\ \A r \in DOMAIN w.runs : w.runs[r].proc = "stopped" =>
                            LET l == w.runs[r].label IN w.state[l] = "paused" /\ w.frozen[l] = r
                      /\ \A l \in Labels : w.state[l] = "paused" =>
                            w.frozen[l] # 0 /\ w.runs[w.frozen[l]].proc = "stopped"
    BY DEF StoppedIsPaused
  <2>1. w \in Table /\ Recorded(w) /\ Live(w)
    BY <1>1, Steps
  <2>2. ASSUME NEW r \in DOMAIN w.runs, w.runs[r].proc = "stopped"
        PROVE  w.state[w.runs[r].label] = "paused" /\ w.frozen[w.runs[r].label] = r
    <3>1. w.frozen[w.runs[r].label] = r /\ r # 0 /\ w.runs[r].label \in Labels
      BY <2>1, <2>2, RunIs, FewOnes DEF Recorded
    <3> QED
      BY <2>1, <3>1 DEF Recorded
  <2>3. \A l \in Labels : w.state[l] = "paused" => w.frozen[l] # 0 /\ w.runs[w.frozen[l]].proc = "stopped"
    BY <2>1 DEF Recorded, Live
  <2> QED
    BY <2>2, <2>3
<1> QED
  BY <1>1, Inductive, PTL

\* No worker is started with the empty brief a yield holds its victim with.
THEOREM BriefsAreKept ==
    ASSUME ~EndMeetsFreeze
    PROVE  Spec => []BriefKept
<1>1. IInv => BriefKept
  BY DEF IInv, Good, Phases, BriefKept
<1> QED
  BY <1>1, Inductive, PTL

\* A worker that ended, in a table that is saved, never runs again, by a late thread,
\* a requeue or a restart, as long as no worker ends while it is frozen or is frozen as it ends.
THEOREM EndedStayEnded ==
    ASSUME ~EndMeetsFreeze
    PROVE  Spec => FinishedStays
<1>1. IInv /\ [Next]_vars =>
         [\A l \in Labels : w.state[l] \in Ended /\ ~writing => w'.state[l] \in Ended]_vars
  BY NextStep DEF EndedStay
<1> QED
  BY <1>1, Inductive, PTL DEF Spec, FinishedStays
-----------------------------------------------------------------------------
(* Whatever ends while it is frozen: a held job may then be left behind    *)
(* for a worker that is over, but no job that waits is lost.               *)

\* Nothing is queued anew and no background job leaves the queue.
Onward(n, m) ==
    /\ n \in Table /\ n.bg = m.bg
    /\ \A l \in Labels : n.state[l] = "queued" => m.state[l] = "queued"
    /\ ToSet(m.bgHeld) \subseteq ToSet(n.bgHeld)

LEMMA OnwardAgain ==
    ASSUME NEW a, NEW b, NEW d, Onward(b, a), Onward(d, b)
    PROVE  Onward(d, a)
BY DEF Onward

LEMMA PutBack ==
    ASSUME NEW q \in Seq(Job), NEW j \in Job
    PROVE  Append(q, j) \in Seq(Job) /\ ToSet(Append(q, j)) = ToSet(q) \cup {j}
<1>1. /\ DOMAIN q = 1 .. Len(q) /\ DOMAIN Append(q, j) = 1 .. Len(q) + 1 /\ Len(q) \in Nat
      /\ \A i \in DOMAIN q : Append(q, j)[i] = q[i]
      /\ Append(q, j)[Len(q) + 1] = j
  OBVIOUS
<1>2. \A i \in DOMAIN Append(q, j) : i \in DOMAIN q \/ i = Len(q) + 1
  BY <1>1
<1>3. (\A i \in DOMAIN q : i \in DOMAIN Append(q, j)) /\ Len(q) + 1 \in DOMAIN Append(q, j)
  BY <1>1
<1>4. Append(q, j) \in Seq(Job)
  OBVIOUS
<1> QED
  BY <1>1, <1>2, <1>3, <1>4 DEF ToSet

LEMMA PutFront ==
    ASSUME NEW q \in Seq(Job), NEW j \in Job
    PROVE  <<j>> \o q \in Seq(Job) /\ ToSet(<<j>> \o q) = ToSet(q) \cup {j}
<1> DEFINE p == <<j>> \o q
<1>1. /\ DOMAIN q = 1 .. Len(q) /\ DOMAIN p = 1 .. Len(q) + 1 /\ Len(q) \in Nat
      /\ p[1] = j /\ \A i \in DOMAIN p : i # 1 => p[i] = q[i - 1]
  OBVIOUS
<1>0. p \in Seq(Job)
  OBVIOUS
<1> HIDE DEF p
<1>2. \A i \in DOMAIN p : i = 1 \/ i - 1 \in DOMAIN q
  BY <1>1
<1>3. \A i \in DOMAIN q : i + 1 \in DOMAIN p /\ p[i + 1] = q[i]
  BY <1>1
<1>4. 1 \in DOMAIN p
  BY <1>1
<1>5. ToSet(p) = ToSet(q) \cup {j}
  BY <1>1, <1>2, <1>3, <1>4 DEF ToSet
<1> QED
  BY <1>0, <1>5 DEF p

LEMMA KeepOn ==
    ASSUME NEW m \in Table, NEW j \in Job
    PROVE  LET n == Keep(m, j) IN
           Onward(n, m) /\ n.state = m.state /\ (j.label \in m.bg => j \in ToSet(n.bgHeld))
<1> DEFINE n == Keep(m, j)
<1>1. m.fgHeld \in Seq(Job) /\ m.bgHeld \in Seq(Job)
  BY DEF Table
<1>2. CASE j.label \in m.bg
  <2>1. n = [m EXCEPT !.bgHeld = Append(@, j)]
    BY <1>2 DEF Keep
  <2>2. Append(m.bgHeld, j) \in Seq(Job) /\ ToSet(Append(m.bgHeld, j)) = ToSet(m.bgHeld) \cup {j}
    BY <1>1, PutBack
  <2> HIDE DEF n
  <2>3. n \in Table /\ n.bg = m.bg /\ n.state = m.state /\ n.bgHeld = Append(m.bgHeld, j)
    BY <2>1, <2>2 DEF Table
  <2> QED
    BY <2>2, <2>3 DEF Onward, n
<1>3. CASE j.label \notin m.bg
  <2>1. n = [m EXCEPT !.fgHeld = Append(@, j)]
    BY <1>3 DEF Keep
  <2>2. Append(m.fgHeld, j) \in Seq(Job)
    BY <1>1, PutBack
  <2> HIDE DEF n
  <2>3. n \in Table /\ n.bg = m.bg /\ n.state = m.state /\ n.bgHeld = m.bgHeld
    BY <2>1, <2>2 DEF Table
  <2> QED
    BY <1>3, <2>3 DEF Onward, n
<1> QED
  BY <1>2, <1>3

LEMMA YieldOn ==
    ASSUME NEW m \in Table, NEW c
    PROVE  Onward(Yield(m, c), m)
<1>0. CASE Victims(m) \cap c.stops = {}
  BY <1>0 DEF Yield, Onward
<1>1. CASE Victims(m) \cap c.stops # {}
  <2>1. PICK v : v = Min(Victims(m) \cap c.stops)
    OBVIOUS
  <2>2. Victims(m) \cap c.stops \in SUBSET Nat /\ Victims(m) \subseteq m.bg
    BY PoolAssumption DEF Victims, Table
  <2>3. v \in m.bg
    BY <1>1, <2>1, <2>2, MinIn
  <2>4. v \in Labels
    BY <2>3 DEF Table
  <2> DEFINE j == [label |-> v, full |-> FALSE]
             p == SetProc(m.runs, {m.pids[v]}, "live", "stopped")
             q == Append(m.bgHeld, j)
             n == [m EXCEPT !.frozen[v] = m.pids[v], !.state[v] = "paused", !.bgHeld = q, !.runs = p]
  <2>5. Yield(m, c) = n
    BY <1>1, <2>1 DEF Yield
  <2>6. m.runs \in Seq(Run) /\ m.bgHeld \in Seq(Job) /\ m.pids[v] \in Nat /\ j \in Job
    BY <2>4 DEF Table, Job
  <2>7. p \in Seq(Run)
    BY <2>6, SetProcIs
  <2> HIDE DEF j
  <2>8. q \in Seq(Job) /\ ToSet(q) = ToSet(m.bgHeld) \cup {j}
    BY <2>6, PutBack
  <2> HIDE DEF p, q
  <2>9. /\ n \in Table /\ n.bg = m.bg /\ n.bgHeld = q
        /\ n.state[v] = "paused" /\ \A k \in Labels : k # v => n.state[k] = m.state[k]
    BY <2>4, <2>6, <2>7, <2>8 DEF Table, States
  <2> HIDE DEF n
  <2>10. \A l \in Labels : n.state[l] = "queued" => m.state[l] = "queued"
    BY <2>9
  <2> QED
    BY <2>5, <2>8, <2>9, <2>10 DEF Onward
<1> QED
  BY <1>0, <1>1

\* Any step that sets the record of a job to something else than queued.
LEMMA MarkOn ==
    ASSUME NEW m \in Table, NEW n \in Table, NEW l \in Labels, n.bg = m.bg, n.bgHeld = m.bgHeld,
           n.state[l] # "queued", \A k \in Labels : k # l => n.state[k] = m.state[k]
    PROVE  Onward(n, m)
BY DEF Onward

LEMMA ThawOn ==
    ASSUME NEW m \in Table, NEW l \in Labels
    PROVE  LET b == Thaw(m, {l}) IN b \in Table /\ b.state = m.state /\ b.bg = m.bg /\ b.bgHeld = m.bgHeld
<1> DEFINE L == {l}
<1>1. L \in SUBSET Labels
  OBVIOUS
<1> HIDE DEF L
<1>2. /\ Thaw(m, L) \in Table /\ Thaw(m, L).state = m.state /\ Thaw(m, L).bg = m.bg
      /\ Thaw(m, L).bgHeld = m.bgHeld
  BY <1>1, ThawIs
<1> QED
  BY <1>2 DEF L

LEMMA StartOn ==
    ASSUME NEW m \in Table, NEW j \in Job, NEW e \in Entries, NEW c
    PROVE  LET n == Start(m, j, e, c) IN Onward(n, m) /\ n.state[j.label] # "queued"
<1> DEFINE l == j.label
           a == IF l \in m.bg THEN m ELSE [m EXCEPT !.recent = @ \cup {e}]
           n == Start(m, j, e, c)
<1>1. a \in Table /\ a.state = m.state /\ a.bg = m.bg /\ a.bgHeld = m.bgHeld
  BY DEF Table
<1>2. n = CASE a.state[l] = "paused" -> [Thaw(a, {l}) EXCEPT !.state[l] = "running"]
            [] a.state[l] # "paused" /\ ~c.envelope ->
                  [a EXCEPT !.state[l] = "failed", !.entry[l] = 0]
            [] OTHER ->
                  [a EXCEPT !.state[l] = "running", !.entry[l] = e,
                            !.runs = Append(@, [label |-> l, on |-> e, full |-> j.full,
                                                at |-> "setup", proc |-> "none"])]
  BY DEF Start
<1> HIDE DEF a, n
<1>3. l \in Labels
  BY DEF Job
<1>4. /\ n \in Table /\ n.bg = a.bg /\ n.bgHeld = a.bgHeld
      /\ n.state[l] # "queued" /\ \A k \in Labels : k # l => n.state[k] = a.state[k]
  <2>1. CASE a.state[l] = "paused"
    <3>1. n = [Thaw(a, {l}) EXCEPT !.state[l] = "running"]
      BY <1>2, <2>1
    <3> DEFINE b == Thaw(a, {l})
    <3>2. b \in Table /\ b.state = a.state /\ b.bg = a.bg /\ b.bgHeld = a.bgHeld
      BY <1>1, <1>3, ThawOn
    <3> HIDE DEF b
    <3>3. n = [b EXCEPT !.state[l] = "running"]
      BY <3>1 DEF b
    <3> QED
      BY <1>3, <3>2, <3>3 DEF Table, States
  <2>2. CASE a.state[l] # "paused" /\ ~c.envelope
    <3>1. n = [a EXCEPT !.state[l] = "failed", !.entry[l] = 0]
      BY <1>2, <2>2
    <3> QED
      BY <1>1, <1>3, <3>1 DEF Table, States, Ended
  <2>3. CASE a.state[l] # "paused" /\ c.envelope
    <3> DEFINE run == [label |-> l, on |-> e, full |-> j.full, at |-> "setup", proc |-> "none"]
               q == Append(a.runs, run)
    <3>1. n = [a EXCEPT !.state[l] = "running", !.entry[l] = e, !.runs = q]
      BY <1>2, <2>3
    <3>2. run \in Run /\ a.runs \in Seq(Run)
      BY <1>1, <1>3 DEF Run, Job, Table
    <3> HIDE DEF run
    <3>3. q \in Seq(Run)
      BY <3>2
    <3> HIDE DEF q
    <3> QED
      BY <1>1, <1>3, <3>1, <3>3 DEF Table, States
  <2> QED
    BY <2>1, <2>2, <2>3
<1>5. /\ n.bg = m.bg /\ n.bgHeld = m.bgHeld /\ \A k \in Labels : k # l => n.state[k] = m.state[k]
  BY <1>1, <1>4
<1>6. Onward(n, m)
  BY <1>3, <1>4, <1>5, MarkOn
<1> QED
  BY <1>4, <1>6 DEF n
\* A background job in hand that still waits was put back.
LEMMA PlaceOn ==
    ASSUME NEW m \in Table, NEW j \in Job, NEW c
    PROVE  LET n == Place(m, j, c) IN
           /\ Onward(n, m)
           /\ j.label \in m.bg /\ n.state[j.label] = "queued" => j \in ToSet(n.bgHeld)
<1> DEFINE l == j.label
           n == Place(m, j, c)
<1>l. l \in Labels
  BY DEF Job
<1>1. CASE m.state[l] = "paused" /\ m.entry[l] \notin listed
  <2> DEFINE b == Thaw(m, {l})
  <2>1. n = [b EXCEPT !.state[l] = "running", !.noYield = @ \cup {l}]
    BY <1>1 DEF Place, GoOn
  <2>2. b \in Table /\ b.state = m.state /\ b.bg = m.bg /\ b.bgHeld = m.bgHeld
    BY <1>l, ThawOn
  <2> HIDE DEF b, n
  <2>3. /\ n \in Table /\ n.bg = b.bg /\ n.bgHeld = b.bgHeld
        /\ n.state[l] = "running" /\ \A k \in Labels : k # l => n.state[k] = b.state[k]
    BY <1>l, <2>1, <2>2 DEF Table, States
  <2>4. Onward(n, m)
    BY <1>l, <2>2, <2>3, MarkOn
  <2> QED
    BY <2>3, <2>4 DEF n
<1>2. CASE m.state[l] # "paused" /\ listed = {}
  <2>1. n = [m EXCEPT !.state[l] = "failed", !.entry[l] = 0]
    BY <1>2 DEF Place
  <2> HIDE DEF n
  <2>2. /\ n \in Table /\ n.bg = m.bg /\ n.bgHeld = m.bgHeld
        /\ n.state[l] = "failed" /\ \A k \in Labels : k # l => n.state[k] = m.state[k]
    BY <1>l, <2>1 DEF Table, States, Ended
  <2>3. Onward(n, m)
    BY <1>l, <2>2, MarkOn
  <2> QED
    BY <2>2, <2>3 DEF n
<1>3. CASE /\ ~(m.state[l] = "paused" /\ m.entry[l] \notin listed)
           /\ ~(m.state[l] # "paused" /\ listed = {})
  <2> DEFINE y == IF l \notin m.bg /\ Picks(m, l) = {} THEN Yield(m, c) ELSE m
  <2>1. n = IF Picks(y, l) = {} THEN Keep(y, j) ELSE Start(y, j, Min(Picks(y, l)), c)
    BY <1>3 DEF Place, PlaceOrKeep
  <2>2. Onward(y, m)
    <3>1. Onward(m, m)
      BY DEF Onward
    <3> QED
      BY <3>1, YieldOn
  <2>3. y \in Table /\ y.bg = m.bg
    BY <2>2 DEF Onward
  <2> HIDE DEF n, y
  <2>4. Onward(n, y) /\ (l \in m.bg /\ n.state[l] = "queued" => j \in ToSet(n.bgHeld))
    <3>1. CASE Picks(y, l) = {}
      BY <2>1, <2>3, <3>1, KeepOn
    <3>2. CASE Picks(y, l) # {}
      <4>1. PICK e : e = Min(Picks(y, l))
        OBVIOUS
      <4>2. Picks(y, l) \in SUBSET Nat /\ Picks(y, l) \subseteq Entries
        BY PoolAssumption DEF Picks
      <4>3. e \in Entries
        BY <3>2, <4>1, <4>2, MinIn
      <4>4. n = Start(y, j, e, c)
        BY <2>1, <3>2, <4>1
      <4> QED
        BY <2>3, <4>3, <4>4, StartOn
    <3> QED
      BY <3>1, <3>2
  <2>5. Onward(n, m)
    BY <2>2, <2>4, OnwardAgain
  <2> QED
    BY <2>4, <2>5 DEF n
<1> QED
  BY <1>1, <1>2, <1>3

LEMMA WalkOn ==
    ASSUME NEW b \in Table, NEW q \in Seq(Job), NEW c
    PROVE  LET n == Walk(b, q, c) IN
           /\ Onward(n, b)
           /\ \A j \in ToSet(q) : j.label \in b.bg /\ n.state[j.label] = "queued" => j \in ToSet(n.bgHeld)
<1> DEFINE Back(m, i) == \A k \in 1 .. i : q[k].label \in b.bg /\ m.state[q[k].label] = "queued"
                                            => q[k] \in ToSet(m.bgHeld)
           J == {x \in (0 .. Len(q)) \X Table : Onward(x[2], b) /\ Back(x[2], x[1])}
<1>1. Len(q) \in Nat /\ DOMAIN q = 1 .. Len(q) /\ \A k \in DOMAIN q : q[k] \in Job
  OBVIOUS
<1>2. <<0, b>> \in J
  BY <1>1 DEF Onward
<1>3. ASSUME NEW i \in 0 .. Len(q) - 1, NEW m, <<i, m>> \in J
      PROVE  <<i + 1, Place(m, q[i + 1], c[q[i + 1].label])>> \in J
  <2>1. m \in Table /\ Onward(m, b) /\ Back(m, i)
    BY <1>3
  <2>2. i + 1 \in 0 .. Len(q) /\ i + 1 \in DOMAIN q /\ q[i + 1] \in Job
    BY <1>1
  <2> PICK n : n = Place(m, q[i + 1], c[q[i + 1].label])
    OBVIOUS
  <2>3. /\ Onward(n, m)
        /\ q[i + 1].label \in m.bg /\ n.state[q[i + 1].label] = "queued" => q[i + 1] \in ToSet(n.bgHeld)
    BY <2>1, <2>2, PlaceOn
  <2>4. Onward(n, b)
    BY <2>1, <2>3, OnwardAgain
  <2>5. Back(n, i + 1)
    <3> SUFFICES ASSUME NEW k \in 1 .. i + 1, q[k].label \in b.bg, n.state[q[k].label] = "queued"
                 PROVE  q[k] \in ToSet(n.bgHeld)
      OBVIOUS
    <3>1. CASE k = i + 1
      BY <2>1, <2>3, <3>1 DEF Onward
    <3>2. CASE k # i + 1
      <4>1. k \in 1 .. i /\ k \in DOMAIN q
        BY <1>1, <3>2
      <4>2. q[k].label \in Labels
        BY <1>1, <4>1 DEF Job
      <4>3. m.state[q[k].label] = "queued"
        BY <2>3, <4>2 DEF Onward
      <4>4. q[k] \in ToSet(m.bgHeld)
        BY <2>1, <4>1, <4>3
      <4> QED
        BY <2>3, <4>4 DEF Onward
    <3> QED
      BY <3>1, <3>2
  <2>6. n \in Table
    BY <2>4 DEF Onward
  <2> HIDE DEF Back
  <2> QED
    BY <2>2, <2>4, <2>5, <2>6
<1> HIDE DEF J
<1>4. \A i \in 0 .. Len(q) - 1 : \A m : <<i, m>> \in J => <<i + 1, Place(m, q[i + 1], c[q[i + 1].label])>> \in J
  BY <1>3
<1>5. <<Len(q), Walk(b, q, c)>> \in J
  BY <1>1, <1>2, <1>4, WalkInduct
<1>6. Onward(Walk(b, q, c), b) /\ Back(Walk(b, q, c), Len(q))
  BY <1>5 DEF J
<1> QED
  BY <1>1, <1>6 DEF ToSet

\* A background job that waits has a held job.
Kept(m) == \A l \in m.bg : m.state[l] = "queued" => l \in LabelsOf(ToSet(m.bgHeld))

Queued(m) == {l \in m.bg : m.state[l] = "queued"}

LEMMA PumpOn ==
    ASSUME NEW m \in Table, NEW c, Kept(m)
    PROVE  LET n == Pump(m, c) IN
           /\ n \in Table /\ n.bg = m.bg /\ Kept(n)
           /\ \A l \in Labels : n.state[l] = "queued" => m.state[l] = "queued"
<1>0. CASE mode # "open"
  BY <1>0 DEF Pump
<1>1. CASE mode = "open"
  <2>1. PICK fg : /\ fg = Walk([m EXCEPT !.fgHeld = <<>>], m.fgHeld, c)
                  /\ DOMAIN fg.bgHeld = 1 .. Len(fg.bgHeld) =>
                        Pump(m, c) = Walk([fg EXCEPT !.bgHeld = <<>>], fg.bgHeld, c)
    BY <1>1, PumpWalks
  <2>2. PICK a : a = [m EXCEPT !.fgHeld = <<>>]
    OBVIOUS
  <2>3. /\ a \in Table /\ a.bg = m.bg /\ a.state = m.state /\ a.bgHeld = m.bgHeld
        /\ m.fgHeld \in Seq(Job) /\ m.bg \subseteq Labels
    BY <2>2, EmptyQueue DEF Table
  <2>4. Onward(fg, a)
    BY <2>1, <2>2, <2>3, WalkOn
  <2>5. /\ fg \in Table /\ fg.bg = m.bg /\ fg.bgHeld \in Seq(Job) /\ ToSet(m.bgHeld) \subseteq ToSet(fg.bgHeld)
        /\ \A l \in Labels : fg.state[l] = "queued" => m.state[l] = "queued"
    BY <2>3, <2>4 DEF Onward, Table
  <2>6. PICK b : b = [fg EXCEPT !.bgHeld = <<>>]
    OBVIOUS
  <2>7. b \in Table /\ b.bg = fg.bg /\ b.state = fg.state
    BY <2>5, <2>6, EmptyQueue DEF Table
  <2>8. PICK n : n = Walk(b, fg.bgHeld, c)
    OBVIOUS
  <2>9. /\ Onward(n, b)
        /\ \A j \in ToSet(fg.bgHeld) :
              j.label \in b.bg /\ n.state[j.label] = "queued" => j \in ToSet(n.bgHeld)
    BY <2>5, <2>7, <2>8, WalkOn
  <2>10. n = Pump(m, c)
    <3>1. DOMAIN fg.bgHeld = 1 .. Len(fg.bgHeld)
      BY <2>5
    <3> QED
      BY <2>1, <2>6, <2>8, <3>1
  <2>11. /\ n \in Table /\ n.bg = m.bg
         /\ \A l \in Labels : n.state[l] = "queued" => m.state[l] = "queued"
    BY <2>5, <2>7, <2>9 DEF Onward
  <2>12. ASSUME NEW l \in n.bg, n.state[l] = "queued" PROVE l \in LabelsOf(ToSet(n.bgHeld))
    <3>1. l \in m.bg /\ l \in Labels /\ m.state[l] = "queued"
      BY <2>3, <2>11, <2>12
    <3>2. PICK j \in ToSet(m.bgHeld) : j.label = l
      BY <3>1 DEF Kept, LabelsOf
    <3>3. j \in ToSet(n.bgHeld)
      BY <2>5, <2>7, <2>9, <2>12, <3>1, <3>2
    <3> QED
      BY <3>2, <3>3 DEF LabelsOf
  <2> QED
    BY <2>10, <2>11, <2>12 DEF Kept
<1> QED
  BY <1>0, <1>1

\* What is left of the invariant then: enough for a restart to find all that waits.
QueueInv ==
    /\ w \in Table /\ Kept(w)
    /\ wfile \in [Labels -> States] /\ qfile \subseteq Job /\ writing \in BOOLEAN
    /\ mode = "open" => IF writing THEN LabelsOf(qfile) \cap w.bg = Queued(w)
                        ELSE LabelsOf(Restored) = Queued(w)

LEMMA RegionOn ==
    ASSUME QueueInv, NEW m \in Table, Kept(m), NEW saves \in BOOLEAN, Pumps(m, saves),
           saves \/ (m.state = w.state /\ m.bg = w.bg)
    PROVE  QueueInv'
<1>1. PICK c \in Chance : w' = Pump(m, c)
  BY DEF Pumps
<1>2. /\ ~writing /\ writing' = saves /\ wfile' = wfile /\ mode' = mode /\ qfile' = Persisted(w')
  BY DEF Pumps, Unlocked
<1>3. /\ w' \in Table /\ w'.bg = m.bg /\ Kept(w')
      /\ \A l \in Labels : w'.state[l] = "queued" => m.state[l] = "queued"
  BY <1>1, PumpOn
<1>4. w'.bgHeld \in Seq(Job) /\ w'.bg \subseteq Labels
  BY <1>3 DEF Table
<1>5. qfile' \subseteq Job
  <2>1. ToSet(w'.bgHeld) \subseteq Job
    BY <1>4 DEF ToSet
  <2> QED
    BY <1>2, <2>1 DEF Persisted, QueueInv
<1>6. ASSUME mode = "open"
      PROVE  IF saves THEN LabelsOf(qfile') \cap w'.bg = Queued(w') ELSE LabelsOf(Restored') = Queued(w')
  <2>1. qfile' = {j \in ToSet(w'.bgHeld) : w'.state[j.label] = "queued"}
    BY <1>2, <1>6 DEF Persisted
  <2>2. ASSUME NEW l \in Queued(w') PROVE \E j \in qfile' : j.label = l
    BY <1>3, <2>1, <2>2 DEF Kept, Queued, LabelsOf
  <2>3. LabelsOf(qfile') \cap w'.bg = Queued(w')
    BY <2>1, <2>2 DEF Queued, LabelsOf
  <2>4. ASSUME ~saves PROVE LabelsOf(Restored') = Queued(w')
    <3>1. ASSUME NEW l \in Queued(w') PROVE wfile[l] = "queued"
      <4>1. l \in Queued(w)
        BY <1>3, <1>4, <2>4, <3>1 DEF Queued
      <4>2. l \in LabelsOf(Restored)
        BY <1>2, <1>6, <4>1 DEF QueueInv
      <4> QED
        BY <4>2 DEF LabelsOf, Restored
    <3>2. Restored' = {j \in qfile' : wfile[j.label] = "queued" /\ j.label \in w'.bg}
      BY <1>2 DEF Restored
    <3>3. LabelsOf(Restored') \subseteq Queued(w')
      BY <2>1, <3>2 DEF Queued, LabelsOf
    <3>4. ASSUME NEW l \in Queued(w') PROVE l \in LabelsOf(Restored')
      <4>1. PICK j \in qfile' : j.label = l
        BY <2>2
      <4>2. j \in Restored'
        BY <3>1, <3>2, <4>1 DEF Queued
      <4> QED
        BY <4>1, <4>2 DEF LabelsOf
    <3> QED
      BY <3>3, <3>4
  <2> QED
    BY <2>3, <2>4
<1> QED
  BY <1>2, <1>3, <1>5, <1>6 DEF QueueInv

\* A step that moves no record and no held background job.
LEMMA QuietOn ==
    ASSUME QueueInv, w' \in Table, w'.state = w.state, w'.bg = w.bg, w'.bgHeld = w.bgHeld,
           wfile' = wfile, qfile' = qfile, writing' = writing, mode' = "open" => mode = "open"
    PROVE  QueueInv'
<1>1. Kept(w') /\ Queued(w') = Queued(w) /\ Restored' = Restored
  BY DEF QueueInv, Kept, Queued, Restored
<1> QED
  BY <1>1 DEF QueueInv

LEMMA SpawnOn ==
    ASSUME QueueInv, NEW b \in BOOLEAN, Spawn(b)
    PROVE  QueueInv'
<1>1. PICK l \in Labels :
        /\ w.state[l] = "none" /\ \A k \in Labels : w.state[k] = "none" => l <= k
        /\ Pumps(Keep([w EXCEPT !.state[l] = "queued", !.entry[l] = 0,
                                !.bg = IF b THEN @ \cup {l} ELSE @ \ {l}],
                      [label |-> l, full |-> TRUE]), TRUE)
  BY Zenon DEF Spawn
<1>2. PICK B : B = IF b THEN w.bg \cup {l} ELSE w.bg \ {l}
  OBVIOUS
<1>3. PICK j : j = [label |-> l, full |-> TRUE]
  OBVIOUS
<1>4. PICK a : a = [w EXCEPT !.state[l] = "queued", !.entry[l] = 0, !.bg = B]
  OBVIOUS
<1>5. PICK n : n = Keep(a, j)
  OBVIOUS
<1>6. Pumps(n, TRUE)
  BY <1>1, <1>2, <1>3, <1>4, <1>5
<1>7. w \in Table /\ Kept(w)
  BY DEF QueueInv
<1>8. B \in SUBSET Labels /\ \A k \in Labels : k # l => (k \in B <=> k \in w.bg)
  BY <1>2, <1>7 DEF Table
<1>9. j \in Job /\ j.label = l
  BY <1>3 DEF Job
<1>10. /\ a \in Table /\ a.bg = B /\ a.bgHeld = w.bgHeld
       /\ \A k \in Labels : k # l => a.state[k] = w.state[k]
  BY <1>4, <1>7, <1>8 DEF Table, States
<1>11. /\ n \in Table /\ n.bg = B /\ n.state = a.state /\ ToSet(w.bgHeld) \subseteq ToSet(n.bgHeld)
       /\ l \in B => j \in ToSet(n.bgHeld)
  BY <1>5, <1>9, <1>10, KeepOn DEF Onward
<1>12. Kept(n)
  <2> SUFFICES ASSUME NEW k \in n.bg, n.state[k] = "queued" PROVE k \in LabelsOf(ToSet(n.bgHeld))
    BY DEF Kept
  <2>1. CASE k = l
    BY <1>9, <1>11, <2>1 DEF LabelsOf
  <2>2. CASE k # l
    <3>1. k \in Labels /\ k \in w.bg /\ w.state[k] = "queued"
      BY <1>8, <1>10, <1>11, <2>2
    <3>2. PICK i \in ToSet(w.bgHeld) : i.label = k
      BY <1>7, <3>1 DEF Kept, LabelsOf
    <3> QED
      BY <1>11, <3>2 DEF LabelsOf
  <2> QED
    BY <2>1, <2>2
<1> QED
  BY <1>6, <1>11, <1>12, RegionOn

LEMMA PollOn ==
    ASSUME QueueInv, Poll
    PROVE  QueueInv'
<1>1. Pumps(w, FALSE) /\ w \in Table /\ Kept(w)
  BY DEF Poll, QueueInv
<1> QED
  BY <1>1, RegionOn

LEMMA SaveWorkersOn ==
    ASSUME QueueInv, SaveWorkers
    PROVE  QueueInv'
<1>1. /\ w' = w /\ qfile' = qfile /\ mode' = mode /\ wfile' = w.state /\ writing' = FALSE /\ writing
  BY DEF SaveWorkers
<1>2. w \in Table /\ w.state \in [Labels -> States]
  BY DEF QueueInv, Table
<1>3. mode = "open" => LabelsOf(Restored') = Queued(w)
  <2> SUFFICES ASSUME mode = "open" PROVE LabelsOf(Restored') = Queued(w)
    OBVIOUS
  <2>1. LabelsOf(qfile) \cap w.bg = Queued(w)
    BY <1>1 DEF QueueInv
  <2>2. Restored' = {j \in qfile : w.state[j.label] = "queued" /\ j.label \in w.bg}
    BY <1>1 DEF Restored
  <2> QED
    BY <2>1, <2>2 DEF LabelsOf, Queued
<1>4. Kept(w') /\ Queued(w') = Queued(w)
  BY <1>1 DEF QueueInv
<1> QED
  BY <1>1, <1>2, <1>3, <1>4 DEF QueueInv

LEMMA AtOn ==
    ASSUME NEW m \in Table, NEW r \in DOMAIN m.runs, NEW at \in Ats, NEW n, n = [m EXCEPT !.runs[r].at = at]
    PROVE  n \in Table /\ n.state = m.state /\ n.bg = m.bg /\ n.bgHeld = m.bgHeld
BY EditAt DEF SameRecords

\* The steps of a thread that move nothing but itself, the pids and the processes.
LEMMA ThreadOn ==
    ASSUME QueueInv, NEW r,
           Launch(r) \/ Exit(r) \/ Reap(r) \/ Unreported(r) \/ TakeResumed(r) \/ Forget(r)
    PROVE  QueueInv'
<1>1. /\ r \in DOMAIN w.runs /\ wfile' = wfile /\ qfile' = qfile /\ writing' = writing /\ mode' = mode
  BY DEF Launch, Exit, Reap, Unreported, TakeResumed, Forget, At
<1>2. w \in Table
  BY DEF QueueInv
<1>3. PICK l : l = w.runs[r].label
  OBVIOUS
<1>l. l \in Labels
  BY <1>1, <1>2, <1>3, RunIs
<1> DEFINE Quiet0(n) == n \in Table /\ n.state = w.state /\ n.bg = w.bg /\ n.bgHeld = w.bgHeld
<1>4. \A at \in Ats : LET n == [w EXCEPT !.runs[r].at = at] IN Quiet0(n) /\ r \in DOMAIN n.runs
  BY <1>1, <1>2, EditAt DEF SameRecords, OneRun
<1>5. \A n \in Table, proc \in Procs : Quiet0(n) /\ r \in DOMAIN n.runs => Quiet0([n EXCEPT !.runs[r].proc = proc])
  BY EditProc DEF SameRecords
<1>6. Quiet0(w')
  <2>1. CASE Launch(r)
    <3>1. CASE w' = [w EXCEPT !.runs[r].at = "born", !.runs[r].proc = "live"]
      <4> PICK a : a = [w EXCEPT !.runs[r].at = "born"]
        OBVIOUS
      <4>1. Quiet0(a) /\ r \in DOMAIN a.runs
        BY <1>4 DEF Ats
      <4>2. w' = [a EXCEPT !.runs[r].proc = "live"] /\ "live" \in Procs
        BY <3>1 DEF Procs
      <4> HIDE <3>1
      <4> QED
        BY <1>5, <4>1, <4>2
    <3>2. CASE w' = [w EXCEPT !.runs[r].at = "bad"]
      BY <1>4, <3>2 DEF Ats
    <3> QED
      BY <2>1, <3>1, <3>2 DEF Launch
  <2>2. CASE Exit(r)
    <3>1. w' = [w EXCEPT !.runs[r].proc = "zombie"] /\ "zombie" \in Procs
      BY <2>2 DEF Exit, Procs
    <3> QED
      BY <1>1, <1>2, <1>5, <3>1
  <2>3. CASE Reap(r)
    <3>1. PICK at \in Ats : w' = [w EXCEPT !.runs[r].proc = "reaped", !.runs[r].at = at]
      BY <2>3 DEF Reap, Ats
    <3> PICK a : a = [w EXCEPT !.runs[r].proc = "reaped"]
      OBVIOUS
    <3>2. Quiet0(a) /\ r \in DOMAIN a.runs
      <4>1. "reaped" \in Procs
        BY DEF Procs
      <4> QED
        BY <1>1, <1>2, <4>1, EditProc DEF SameRecords, OneRun
    <3> PICK n : n = [a EXCEPT !.runs[r].at = at]
      OBVIOUS
    <3>3. w' = n
      BY <3>1
    <3>4. a \in Table /\ r \in DOMAIN a.runs /\ n = [a EXCEPT !.runs[r].at = at]
      BY <3>2
    <3>5. n \in Table /\ n.state = a.state /\ n.bg = a.bg /\ n.bgHeld = a.bgHeld
      BY ONLY <3>4, AtOn
    <3> QED
      BY ONLY <3>2, <3>3, <3>5
  <2>4. CASE Unreported(r)
    BY <1>4, <2>4 DEF Unreported, Ats
  <2>5. CASE TakeResumed(r)
    <3>1. CASE w' = [w EXCEPT !.runs[r].at = "over"]
      BY <1>4, <3>1 DEF Ats
    <3>2. CASE w' = [w EXCEPT !.runs[r].at = IF l \in w.fresh THEN "graced" ELSE "judged", !.fresh = @ \ {l}]
      <4>1. PICK at : at = IF l \in w.fresh THEN "graced" ELSE "judged"
        OBVIOUS
      <4>2. at \in Ats
        BY <4>1 DEF Ats
      <4> PICK a : a = [w EXCEPT !.runs[r].at = at]
        OBVIOUS
      <4>3. Quiet0(a) /\ a.fresh = w.fresh
        BY <1>1, <1>2, <4>2, EditAt DEF SameRecords
      <4>4. w' = [a EXCEPT !.fresh = @ \ {l}]
        BY <3>2, <4>1
      <4> HIDE <3>2
      <4> QED
        BY <4>3, <4>4 DEF Table
    <3> QED
      BY <1>3, <2>5, <3>1, <3>2 DEF TakeResumed
  <2>6. CASE Forget(r)
    <3> PICK a : a = [w EXCEPT !.runs[r].at = "gone"]
      OBVIOUS
    <3>1. Quiet0(a)
      BY <1>4 DEF Ats
    <3>2. w' = a \/ w' = [a EXCEPT !.pids[l] = 0, !.frozen[l] = 0, !.fresh = @ \ {l}, !.noYield = @ \ {l}]
      BY <1>3, <2>6 DEF Forget
    <3> HIDE <2>6
    <3>3. CASE w' = [a EXCEPT !.pids[l] = 0, !.frozen[l] = 0, !.fresh = @ \ {l}, !.noYield = @ \ {l}]
      BY <1>l, <3>1, <3>3 DEF Table
    <3> QED
      BY <3>1, <3>2, <3>3
  <2> QED
    BY <2>1, <2>2, <2>3, <2>4, <2>5, <2>6
<1> QED
  BY <1>1, <1>6, QuietOn

LEMMA StartedOn ==
    ASSUME QueueInv, NEW r, Started(r)
    PROVE  QueueInv'
<1>1. r \in DOMAIN w.runs
  BY DEF Started, At
<1>2. PICK m : m = Begun(w, r)
  OBVIOUS
<1>3. IF m.fgHeld \o m.bgHeld = <<>> THEN w' = m /\ UNCHANGED <<listed, wfile, qfile, writing, mode>>
      ELSE Pumps(m, FALSE)
  BY <1>2 DEF Started, Begun
<1>4. w \in Table /\ Kept(w)
  BY DEF QueueInv
<1>5. m \in Table /\ m.state = w.state /\ m.bg = w.bg /\ m.bgHeld = w.bgHeld
  <2> PICK a : a = [w EXCEPT !.runs[r].at = "wait"]
    OBVIOUS
  <2>1. a \in Table /\ SameRecords(a, w)
    <3>1. "wait" \in Ats
      BY DEF Ats
    <3> QED
      BY <1>1, <1>4, <3>1, EditAt
  <2> PICK l : l = w.runs[r].label
    OBVIOUS
  <2>2. l \in Labels /\ r \in Nat
    BY <1>1, <1>4, RunIs, FewOnes
  <2>3. m = [a EXCEPT !.pids[l] = r]
    BY <1>2 DEF Begun
  <2> HIDE <1>2
  <2> QED
    BY <2>1, <2>2, <2>3 DEF Table, SameRecords
<1> HIDE <1>2
<1>6. CASE m.fgHeld \o m.bgHeld = <<>>
  <2>1. w' = m /\ wfile' = wfile /\ qfile' = qfile /\ writing' = writing /\ mode' = mode
    BY <1>3, <1>6
  <2> QED
    BY <1>5, <2>1, QuietOn
<1>7. CASE m.fgHeld \o m.bgHeld # <<>>
  <2>1. Pumps(m, FALSE)
    BY <1>3, <1>7
  <2>2. Kept(m)
    BY <1>4, <1>5 DEF Kept
  <2> QED
    BY <1>5, <2>1, <2>2, RegionOn
<1> QED
  BY <1>6, <1>7

LEMMA FinishOn ==
    ASSUME QueueInv, NEW r \in DOMAIN w.runs, NEW state \in Ended, Finish(r, state)
    PROVE  QueueInv'
<1>1. PICK l : l = w.runs[r].label
  OBVIOUS
<1>2. w \in Table /\ Kept(w)
  BY DEF QueueInv
<1>l. l \in Labels
  BY <1>1, <1>2, RunIs
<1>3. PICK C : C = IF state = "ran" THEN w.cooling \ ({w.entry[l]} \ {0}) ELSE w.cooling
  OBVIOUS
<1>4. PICK D : D = IF l \in w.bg THEN w.recent ELSE w.recent \cup ({w.entry[l]} \ {0})
  OBVIOUS
<1>5. PICK a : a = [w EXCEPT !.runs[r].at = "over"]
  OBVIOUS
<1>6. PICK m : m = [a EXCEPT !.state[l] = state, !.cooling = C, !.recent = D]
  OBVIOUS
<1>7. Pumps(m, TRUE)
  BY <1>1, <1>3, <1>4, <1>5, <1>6 DEF Finish
<1>8. C \in SUBSET Entries /\ D \in SUBSET Entries
  BY <1>2, <1>3, <1>4, <1>l DEF Table
<1>9. a \in Table /\ SameRecords(a, w)
  <2>1. "over" \in Ats
    BY DEF Ats
  <2> QED
    BY <1>2, <1>5, <2>1, EditAt
<1> HIDE <1>1, <1>3, <1>4, <1>5
<1>10. /\ m \in Table /\ m.bg = w.bg /\ m.bgHeld = w.bgHeld /\ m.state[l] = state
       /\ \A k \in Labels : k # l => m.state[k] = w.state[k]
  BY <1>6, <1>8, <1>9, <1>l DEF Table, SameRecords, States
<1>11. Kept(m)
  BY <1>2, <1>10 DEF Kept, Table, Ended
<1> QED
  BY <1>7, <1>10, <1>11, RegionOn

LEMMA RequeuedOn ==
    ASSUME QueueInv, NEW m \in Table, NEW r \in DOMAIN m.runs, Kept(m), Pumps(Requeued(m, r), TRUE)
    PROVE  QueueInv'
<1>1. PICK l : l = m.runs[r].label
  OBVIOUS
<1>2. PICK j : j = [label |-> l, full |-> m.runs[r].full]
  OBVIOUS
<1>3. PICK a : a = [m EXCEPT !.state[l] = "queued", !.entry[l] = 0]
  OBVIOUS
<1>4. PICK b : b = [a EXCEPT !.runs[r].at = "over"]
  OBVIOUS
<1>5. PICK n : n = Requeued(m, r)
  OBVIOUS
<1>6. n = IF l \in m.bg THEN [b EXCEPT !.bgHeld = <<j>> \o @] ELSE [b EXCEPT !.fgHeld = <<j>> \o @]
  BY <1>1, <1>2, <1>3, <1>4, <1>5 DEF Requeued
<1>7. l \in Labels /\ j \in Job /\ j.label = l
  BY <1>1, <1>2, RunIs DEF Job, Run
<1>8. /\ a \in Table /\ r \in DOMAIN a.runs /\ a.bg = m.bg /\ a.bgHeld = m.bgHeld /\ a.fgHeld = m.fgHeld
      /\ \A k \in Labels : k # l => a.state[k] = m.state[k]
  BY <1>3, <1>7 DEF Table, States
<1>9. b \in Table /\ SameRecords(b, a)
  <2>1. "over" \in Ats
    BY DEF Ats
  <2> HIDE <1>3
  <2> QED
    BY <1>4, <1>8, <2>1, EditAt
<1>10. Pumps(n, TRUE)
  BY <1>5
<1> HIDE <1>1, <1>2, <1>3, <1>4, <1>5
<1>11. /\ n \in Table /\ n.bg = m.bg /\ n.state = a.state /\ ToSet(m.bgHeld) \subseteq ToSet(n.bgHeld)
       /\ l \in m.bg => j \in ToSet(n.bgHeld)
  <2>1. m.fgHeld \in Seq(Job) /\ m.bgHeld \in Seq(Job)
    BY DEF Table
  <2>2. /\ b.bg = m.bg /\ b.state = a.state /\ b.bgHeld = m.bgHeld /\ b.fgHeld = m.fgHeld
    BY <1>8, <1>9 DEF SameRecords
  <2>3. /\ <<j>> \o m.bgHeld \in Seq(Job) /\ ToSet(<<j>> \o m.bgHeld) = ToSet(m.bgHeld) \cup {j}
        /\ <<j>> \o m.fgHeld \in Seq(Job)
    BY <1>7, <2>1, PutFront
  <2> PICK qb : qb = <<j>> \o m.bgHeld
    OBVIOUS
  <2> PICK qf : qf = <<j>> \o m.fgHeld
    OBVIOUS
  <2>4. n = IF l \in m.bg THEN [b EXCEPT !.bgHeld = qb] ELSE [b EXCEPT !.fgHeld = qf]
    BY <1>6, <2>2
  <2>5. qb \in Seq(Job) /\ qf \in Seq(Job) /\ ToSet(qb) = ToSet(m.bgHeld) \cup {j}
    BY <2>3
  <2> HIDE <1>6
  <2> QED
    BY <1>9, <2>2, <2>4, <2>5 DEF Table
<1>12. Kept(n)
  <2> SUFFICES ASSUME NEW k \in n.bg, n.state[k] = "queued" PROVE k \in LabelsOf(ToSet(n.bgHeld))
    BY DEF Kept
  <2>1. CASE k = l
    BY <1>7, <1>11, <2>1 DEF LabelsOf
  <2>2. CASE k # l
    <3>1. k \in Labels /\ k \in m.bg /\ m.state[k] = "queued"
      BY <1>8, <1>11, <2>2 DEF Table
    <3>2. PICK i \in ToSet(m.bgHeld) : i.label = k
      BY <3>1 DEF Kept, LabelsOf
    <3> QED
      BY <1>11, <3>2 DEF LabelsOf
  <2> QED
    BY <2>1, <2>2
<1> QED
  BY <1>10, <1>11, <1>12, RegionOn

LEMMA ReportOn ==
    ASSUME QueueInv, NEW r, Report(r) \/ Blame(r)
    PROVE  QueueInv'
<1>1. r \in DOMAIN w.runs
  BY DEF Report, Blame, At
<1>2. w \in Table /\ Kept(w)
  BY DEF QueueInv
<1>3. CASE \E state \in Ended : Finish(r, state)
  BY <1>1, <1>3, FinishOn
<1>4. CASE Pumps(Requeued(w, r), TRUE)
  BY <1>1, <1>2, <1>4, RequeuedOn
<1>5. ASSUME NEW m, m = [w EXCEPT !.cooling = @ \cup ({w.entry[w.runs[r].label]} \ {0})],
             Pumps(Requeued(m, r), TRUE)
      PROVE  QueueInv'
  <2>1. m \in Table /\ m.state = w.state /\ m.bg = w.bg /\ m.bgHeld = w.bgHeld /\ m.runs = w.runs
    BY <1>1, <1>2, <1>5, RunIs DEF Table
  <2>2. Pumps(Requeued(m, r), TRUE)
    BY <1>5
  <2> HIDE <1>5
  <2>3. Kept(m)
    BY <1>2, <2>1 DEF Kept
  <2> QED
    BY <1>1, <2>1, <2>2, <2>3, RequeuedOn
<1> QED
  BY <1>3, <1>4, <1>5 DEF Report, Blame, Ended
\* The steps that touch neither the records nor the background queue.
LEMMA LapseOn ==
    ASSUME QueueInv,
           \/ \E e \in Entries : CoolOver(e) \/ IdleOver(e)
           \/ \E l \in Labels : GraceOver(l)
           \/ EditPools \/ Close \/ CancelWorkers \/ UNCHANGED vars
    PROVE  QueueInv'
<1>1. w \in Table
  BY DEF QueueInv
<1>2. wfile' = wfile /\ qfile' = qfile /\ writing' = writing /\ (mode' = "open" => mode = "open")
  BY DEF CoolOver, IdleOver, GraceOver, EditPools, Close, CancelWorkers, vars
<1>3. CASE CancelWorkers
  <2> DEFINE L == {l \in Labels : w.state[l] = "paused"}
  <2>1. w' = Thaw(w, L) /\ L \in SUBSET Labels
    BY <1>3 DEF CancelWorkers
  <2> HIDE DEF L
  <2>2. w' \in Table /\ w'.state = w.state /\ w'.bg = w.bg /\ w'.bgHeld = w.bgHeld
    BY <1>1, <2>1, ThawIs
  <2> QED
    BY <1>2, <2>2, QuietOn
<1>4. CASE ~CancelWorkers
  <2>1. w' \in Table /\ w'.state = w.state /\ w'.bg = w.bg /\ w'.bgHeld = w.bgHeld
    BY <1>1, <1>4, ZenonT(40) DEF CoolOver, IdleOver, GraceOver, EditPools, Close, vars, Table
  <2> QED
    BY <1>2, <2>1, QuietOn
<1> QED
  BY <1>3, <1>4

LEMMA RestartOn ==
    ASSUME QueueInv, Restart
    PROVE  QueueInv'
<1> DEFINE kept == {j.label : j \in Restored}
           after == [l \in Labels |->
                        IF \/ wfile[l] \in {"running", "paused"}
                           \/ wfile[l] = "queued" /\ l \notin kept
                        THEN "stopped" ELSE wfile[l]]
           bg == {l \in w.bg : wfile[l] # "none"}
<1>1. PICK held \in InTableOrder(Restored) :
         w' = [Idle0 EXCEPT !.state = after, !.bg = bg, !.bgHeld = held]
  BY Zenon DEF Restart
<1>2. wfile' = after /\ writing' = FALSE /\ qfile' = qfile
  BY DEF Restart
<1>3. w \in Table /\ wfile \in [Labels -> States] /\ qfile \subseteq Job
  BY DEF QueueInv
<1>4. /\ kept = LabelsOf(Restored) /\ bg \in SUBSET Labels /\ after \in [Labels -> States]
      /\ \A l \in Labels : after[l] = IF \/ wfile[l] \in {"running", "paused"}
                                         \/ wfile[l] = "queued" /\ l \notin kept
                                      THEN "stopped" ELSE wfile[l]
      /\ \A l \in Labels : l \in bg <=> l \in w.bg /\ wfile[l] # "none"
  BY <1>3 DEF LabelsOf, Table, States, Ended
<1> HIDE DEF kept, after, bg
<1>5. Restored \in SUBSET Job
  BY <1>3 DEF Restored
<1>6. held \in Seq(Job) /\ LabelsOf(ToSet(held)) = kept
  BY <1>4, <1>5, Ordered
<1>7. w' \in Table /\ w'.state = after /\ w'.bg = bg /\ w'.bgHeld = held
  BY <1>1, <1>4, <1>6, IdleIs DEF Table
<1> HIDE <1>1
<1>8. \A l \in bg : after[l] = "queued" => l \in kept
  BY <1>4
<1>9. Restored' = Restored
  <2>1. Restored' = {j \in qfile : after[j.label] = "queued" /\ j.label \in bg}
    BY <1>2, <1>7 DEF Restored
  <2>2. \A j \in Restored : j.label \in kept /\ j.label \in Labels /\ j.label \in w.bg /\ wfile[j.label] = "queued"
    BY <1>4, <1>5 DEF Restored, LabelsOf, Job
  <2>3. \A j \in Restored : after[j.label] = "queued" /\ j.label \in bg
    BY <1>4, <2>2
  <2>4. ASSUME NEW j \in Restored' PROVE j \in Restored
    <3>1. j \in qfile /\ j.label \in bg /\ j.label \in Labels /\ after[j.label] = "queued"
      BY <1>3, <2>1 DEF Job
    <3>2. wfile[j.label] = "queued" /\ j.label \in w.bg
      BY <1>4, <3>1
    <3> QED
      BY <3>1, <3>2 DEF Restored
  <2> QED
    BY <2>1, <2>3, <2>4 DEF Restored
<1>10. Queued(w') = kept
  <2>1. \A l \in kept : l \in bg /\ after[l] = "queued"
    <3> SUFFICES ASSUME NEW l \in kept PROVE l \in bg /\ after[l] = "queued"
      OBVIOUS
    <3>1. l \in Labels /\ l \in w.bg /\ wfile[l] = "queued"
      BY <1>4, <1>5 DEF Restored, LabelsOf, Job
    <3> QED
      BY <1>4, <3>1
  <2> QED
    BY <1>7, <1>8, <2>1 DEF Queued
<1>11. Kept(w')
  BY <1>6, <1>7, <1>8 DEF Kept
<1> QED
  BY <1>2, <1>3, <1>4, <1>7, <1>9, <1>10, <1>11 DEF QueueInv

LEMMA InitOn == ASSUME Init PROVE QueueInv
<1>1. w = Idle0 /\ wfile = [l \in Labels |-> "none"] /\ qfile = {} /\ writing = FALSE
  BY DEF Init
<1>2. w \in Table /\ w.bg = {}
  BY <1>1, IdleIs
<1>3. Queued(w) = {} /\ LabelsOf(Restored) = {} /\ Kept(w)
  BY <1>1, <1>2 DEF Queued, Restored, Kept, LabelsOf
<1> QED
  BY <1>1, <1>2, <1>3 DEF QueueInv, States

LEMMA NextOn ==
    ASSUME QueueInv, [Next]_vars
    PROVE  QueueInv'
<1>1. CASE \E b \in BOOLEAN : Spawn(b)
  BY <1>1, SpawnOn
<1>2. CASE Poll
  BY <1>2, PollOn
<1>3. CASE SaveWorkers
  BY <1>3, SaveWorkersOn
<1>4. ASSUME NEW r \in RunIds, RunStep(r) \/ Exit(r) PROVE QueueInv'
  BY <1>4, ThreadOn, StartedOn, ReportOn DEF RunStep
<1>5. CASE \/ \E e \in Entries : CoolOver(e) \/ IdleOver(e)
           \/ \E l \in Labels : GraceOver(l)
           \/ EditPools \/ Close \/ CancelWorkers \/ UNCHANGED vars
  BY <1>5, LapseOn
<1>6. CASE Restart
  BY <1>6, RestartOn
<1> QED
  BY <1>1, <1>2, <1>3, <1>4, <1>5, <1>6 DEF Next

\* Between two regions the two files together name exactly the background jobs that wait, so that a
\* restart at that moment loses none and starts none twice; also when workers end while frozen.
THEOREM FilesNameTheQueue == Spec => []QueueOnDisk
<1>1. Init => QueueInv
  BY InitOn
<1>2. QueueInv /\ [Next]_vars => QueueInv'
  BY NextOn
<1>3. QueueInv => QueueOnDisk
  BY DEF QueueInv, QueueOnDisk, LabelsOf, Queued
<1> QED
  BY <1>1, <1>2, <1>3, PTL DEF Spec
=============================================================================
