-------------------------- MODULE TreeBudgetProofs --------------------------
(***************************************************************************)
(* The budget of the delegation tree, for every set of sessions, every     *)
(* amount up to any MaxCount and every set of faults: reservations are     *)
(* given once, an overrun reaches the root, and nothing but an overrun     *)
(* takes a node below zero.                                                *)
(*                                                                         *)
(* Sums over children and charges over the tree are recursive functions;   *)
(* what they are is derived first.                                         *)
(***************************************************************************)
EXTENDS TreeLedgerProofs, FiniteSetTheorems, WellFoundedInduction

-----------------------------------------------------------------------------
(* Induction, for one set of numbers at a time.                            *)

LEMMA Least ==
    ASSUME NEW S \in SUBSET Nat, S # {}
    PROVE  \E n \in S : \A m \in S : n <= m
<1> DEFINE R == OpToRel(<, Nat)
<1>1. PICK n \in S : \A y \in S : <<y, n>> \notin R
  <2>1. IsWellFoundedOn(R, Nat)
    BY NatLessThanWellFounded
  <2> HIDE DEF R
  <2> QED
    BY <2>1, WFMin
<1>2. \A m \in S : <<m, n>> \notin R => n <= m
  BY DEF OpToRel
<1> QED
  BY <1>1, <1>2

LEMMA Induct ==
    ASSUME NEW S, 0 \in S, \A n \in Nat : n \in S => n + 1 \in S
    PROVE  Nat \subseteq S
<1> SUFFICES ASSUME Nat \ S # {} PROVE FALSE
  OBVIOUS
<1>1. PICK n \in Nat \ S : \A m \in Nat \ S : n <= m
  BY Least
<1> QED
  BY <1>1

-----------------------------------------------------------------------------
(* Sums.                                                                   *)

Total(f, S) == MapThenSumSet(LAMBDA c : f[c], S)

Pick(T) == CHOOSE x \in T : TRUE

\* The partial sums over the subsets of S, an element picked at a time.
IsSum(g, f, S) ==
    g = [T \in SUBSET S |-> IF T = {} THEN 0 ELSE f[Pick(T)] + g[T \ {Pick(T)}]]

LEMMA TotalIs ==
    ASSUME NEW f, NEW S
    PROVE  Total(f, S) = (CHOOSE k : IsSum(k, f, S))[S]
BY DEF Total, MapThenSumSet, MapThenFoldSet, IsSum, Pick

LEMMA PickIn == ASSUME NEW T, T # {} PROVE Pick(T) \in T
BY DEF Pick

\* The subsets of up to n elements.
Small(S, n) == {T \in SUBSET S : Cardinality(T) <= n}

LEMMA SmallOnes ==
    ASSUME NEW S, IsFiniteSet(S)
    PROVE  /\ \A T \in SUBSET S : IsFiniteSet(T) /\ Cardinality(T) \in Nat
           /\ Small(S, 0) = {{}}
           /\ Small(S, Cardinality(S)) = SUBSET S
           /\ \A n \in Nat : \A T \in Small(S, n + 1) : \A x \in T : T \ {x} \in Small(S, n)
<1>1. \A T \in SUBSET S : IsFiniteSet(T) /\ Cardinality(T) \in Nat /\ Cardinality(T) <= Cardinality(S)
  BY FS_Subset, FS_CardinalityType
<1>2. Small(S, 0) = {{}}
  BY <1>1, FS_EmptySet DEF Small
<1>3. ASSUME NEW n \in Nat, NEW T \in Small(S, n + 1), NEW x \in T PROVE T \ {x} \in Small(S, n)
  <2>1. T \in SUBSET S /\ Cardinality(T) <= n + 1 /\ IsFiniteSet(T) /\ Cardinality(T) \in Nat
    BY <1>1 DEF Small
  <2>2. Cardinality(T \ {x}) = Cardinality(T) - 1
    BY <2>1, FS_RemoveElement
  <2> QED
    BY <2>1, <2>2 DEF Small
<1> QED
  BY <1>1, <1>2, <1>3 DEF Small

LEMMA SumExists ==
    ASSUME NEW f, NEW S, IsFiniteSet(S)
    PROVE  \E g : IsSum(g, f, S)
<1> DEFINE Next1(g) == [T \in SUBSET S |-> IF T = {} THEN 0 ELSE f[Pick(T)] + g[T \ {Pick(T)}]]
           Part(g, n) == \A T \in Small(S, n) : g[T] = Next1(g)[T]
           N == {n \in Nat : \E g : Part(g, n)}
<1>1. 0 \in N
  <2> DEFINE g == [T \in {{}} |-> 0]
  <2>1. Part(g, 0)
    BY SmallOnes
  <2> QED
    BY <2>1
<1>2. ASSUME NEW n \in Nat, n \in N PROVE n + 1 \in N
  <2>1. PICK g : Part(g, n)
    BY <1>2
  <2> DEFINE h == Next1(g)
  <2>2. ASSUME NEW T \in Small(S, n + 1) PROVE h[T] = Next1(h)[T]
    <3>1. T \in SUBSET S
      BY DEF Small
    <3>2. CASE T = {}
      BY <3>1, <3>2
    <3>3. CASE T # {}
      <4>1. T \ {Pick(T)} \in Small(S, n)
        BY <3>3, PickIn, SmallOnes
      <4>2. g[T \ {Pick(T)}] = h[T \ {Pick(T)}]
        BY <4>1, <2>1
      <4> QED
        BY <3>1, <3>3, <4>2
    <3> QED
      BY <3>2, <3>3
  <2>3. Part(h, n + 1)
    BY <2>2
  <2> HIDE DEF Part, h
  <2> QED
    BY <2>3
<1>3. Cardinality(S) \in Nat
  BY FS_CardinalityType
<1>4. Cardinality(S) \in N
  <2> HIDE DEF N
  <2> QED
    BY <1>1, <1>2, <1>3, Induct
<1>5. PICK g : Part(g, Cardinality(S))
  BY <1>4
<1>6. \A T \in SUBSET S : g[T] = Next1(g)[T]
  BY <1>5, SmallOnes
<1> DEFINE h == Next1(g)
<1>7. \A T \in SUBSET S : h[T] = Next1(h)[T]
  <2>1. ASSUME NEW T \in SUBSET S, T # {} PROVE T \ {Pick(T)} \in SUBSET S
    OBVIOUS
  <2> QED
    BY <2>1, <1>6
<1>8. h = Next1(h)
  BY <1>7
<1> QED
  BY <1>8 DEF IsSum

\* Two such functions, for maps that agree on S, agree on the subsets they share.
LEMMA SumUnique ==
    ASSUME NEW f, NEW S, NEW g, IsSum(g, f, S),
           NEW e, NEW R, NEW h, IsSum(h, e, R),
           NEW Q \in SUBSET (S \cap R), IsFiniteSet(Q), \A x \in Q : f[x] = e[x]
    PROVE  g[Q] = h[Q]
<1> DEFINE N == {n \in Nat : \A T \in Small(Q, n) : g[T] = h[T]}
<1>g. \A T \in SUBSET S : g[T] = IF T = {} THEN 0 ELSE f[Pick(T)] + g[T \ {Pick(T)}]
  BY DEF IsSum
<1>h. \A T \in SUBSET R : h[T] = IF T = {} THEN 0 ELSE e[Pick(T)] + h[T \ {Pick(T)}]
  BY DEF IsSum
<1>1. 0 \in N
  BY <1>g, <1>h, SmallOnes
<1>2. ASSUME NEW n \in Nat, n \in N PROVE n + 1 \in N
  <2>1. ASSUME NEW T \in Small(Q, n + 1) PROVE g[T] = h[T]
    <3>1. T \in SUBSET Q /\ T \in SUBSET S /\ T \in SUBSET R
      BY DEF Small
    <3>2. CASE T = {}
      BY <3>1, <3>2, <1>g, <1>h
    <3>3. CASE T # {}
      <4>1. T \ {Pick(T)} \in Small(Q, n) /\ Pick(T) \in Q
        BY <3>1, <3>3, PickIn, SmallOnes
      <4>2. g[T \ {Pick(T)}] = h[T \ {Pick(T)}]
        BY <4>1, <1>2
      <4> QED
        BY <3>1, <3>3, <4>1, <4>2, <1>g, <1>h
    <3> QED
      BY <3>2, <3>3
  <2> QED
    BY <2>1
<1>3. Cardinality(Q) \in N
  <2>1. Cardinality(Q) \in Nat
    BY FS_CardinalityType
  <2> HIDE DEF N
  <2> QED
    BY <1>1, <1>2, <2>1, Induct
<1>4. Q \in Small(Q, Cardinality(Q))
  BY SmallOnes
<1> QED
  BY <1>3, <1>4

\* What a total is, whatever larger set it is taken in.
LEMMA TotalUnfolds ==
    ASSUME NEW f, NEW S, IsFiniteSet(S)
    PROVE  Total(f, S) = IF S = {} THEN 0 ELSE f[Pick(S)] + Total(f, S \ {Pick(S)})
<1> DEFINE g == CHOOSE k : IsSum(k, f, S)
           R == S \ {Pick(S)}
           h == CHOOSE k : IsSum(k, f, R)
<1>1. IsFiniteSet(R) /\ R \in SUBSET (S \cap R)
  BY FS_RemoveElement
<1>2. IsSum(g, f, S) /\ IsSum(h, f, R)
  BY <1>1, SumExists
<1>3. Total(f, S) = g[S] /\ Total(f, R) = h[R]
  BY TotalIs
<1> HIDE DEF g, h
<1>4. g[R] = h[R]
  BY <1>1, <1>2, SumUnique
<1>5. g[S] = IF S = {} THEN 0 ELSE f[Pick(S)] + g[R]
  BY <1>2 DEF IsSum
<1> QED
  BY <1>3, <1>4, <1>5

\* A total is of what the map gives on the set, and of nothing else.
LEMMA TotalSame ==
    ASSUME NEW f, NEW e, NEW S, IsFiniteSet(S), \A x \in S : f[x] = e[x]
    PROVE  Total(f, S) = Total(e, S)
<1> DEFINE g == CHOOSE k : IsSum(k, f, S)
           h == CHOOSE k : IsSum(k, e, S)
<1>1. IsSum(g, f, S) /\ IsSum(h, e, S)
  BY SumExists
<1>2. Total(f, S) = g[S] /\ Total(e, S) = h[S]
  BY TotalIs
<1> HIDE DEF g, h
<1>3. S \in SUBSET (S \cap S)
  OBVIOUS
<1> QED
  BY <1>1, <1>2, <1>3, SumUnique

\* It is a number, and does not depend on the order.
LEMMA TotalRemove ==
    ASSUME NEW f, NEW S, IsFiniteSet(S), \A x \in S : f[x] \in Nat
    PROVE  /\ Total(f, S) \in Nat
           /\ \A x \in S : Total(f, S) = f[x] + Total(f, S \ {x})
<1> DEFINE Good(T) == /\ Total(f, T) \in Nat
                      /\ \A x \in T : Total(f, T) = f[x] + Total(f, T \ {x})
           N == {n \in Nat : \A T \in Small(S, n) : Good(T)}
<1>0. /\ \A T \in SUBSET S : IsFiniteSet(T) /\ Cardinality(T) \in Nat
      /\ Small(S, 0) = {{}}
      /\ Small(S, Cardinality(S)) = SUBSET S
      /\ \A n \in Nat : \A T \in Small(S, n + 1) : \A x \in T : T \ {x} \in Small(S, n)
  BY SmallOnes
<1>1. 0 \in N
  <2>1. Total(f, {}) = 0
    BY TotalUnfolds, FS_EmptySet
  <2>2. Good({})
    BY <2>1
  <2> HIDE DEF Good
  <2> QED
    BY <2>2, <1>0
<1>2. ASSUME NEW n \in Nat, n \in N PROVE n + 1 \in N
  <2>1. ASSUME NEW T \in Small(S, n + 1) PROVE Good(T)
    <3>1. T \in SUBSET S /\ IsFiniteSet(T)
      BY <1>0 DEF Small
    <3>2. CASE T = {}
      BY <3>2, <1>1, <1>0
    <3>3. CASE T # {}
      <4>y. PICK y \in T : y = Pick(T)
        BY <3>3, PickIn
      <4>1. Total(f, T) = f[y] + Total(f, T \ {y})
        BY <3>1, <3>3, <4>y, TotalUnfolds
      <4>2. Good(T \ {y}) /\ f[y] \in Nat
        BY <1>0, <1>2, <3>1
      <4>3. ASSUME NEW x \in T, x # y PROVE Total(f, T) = f[x] + Total(f, T \ {x})
        <5>1. Good(T \ {x}) /\ f[x] \in Nat
          BY <1>0, <1>2, <3>1
        <5>2. Total(f, T \ {y}) = f[x] + Total(f, (T \ {y}) \ {x})
          BY <4>2, <4>3
        <5>3. Total(f, T \ {x}) = f[y] + Total(f, (T \ {x}) \ {y})
          BY <5>1, <4>3
        <5>4. (T \ {y}) \ {x} = (T \ {x}) \ {y}
          OBVIOUS
        <5>5. T \ {y} \in Small(S, n) /\ x \in T \ {y}
          BY <1>0, <4>3
        <5>6. PICK z : z = Total(f, (T \ {x}) \ {y})
          OBVIOUS
        <5>7. Total(f, T) = f[y] + (f[x] + z) /\ Total(f, T \ {x}) = f[y] + z
          BY <4>1, <5>2, <5>3, <5>4, <5>6
        <5>8. z \in Nat
          <6>1. (T \ {x}) \ {y} \in SUBSET S /\ Cardinality((T \ {x}) \ {y}) <= n
            <7>1. Cardinality((T \ {x}) \ {y}) <= Cardinality(T \ {x})
              BY <3>1, <1>0, FS_Subset
            <7>2. Cardinality(T \ {x}) <= n /\ Cardinality(T \ {x}) \in Nat
                  /\ Cardinality((T \ {x}) \ {y}) \in Nat
              BY <1>0, <3>1 DEF Small
            <7> QED
              BY <7>1, <7>2, <3>1
          <6>2. Good((T \ {x}) \ {y})
            BY <6>1, <1>2 DEF Small
          <6> QED
            BY <6>2, <5>6
        <5> QED
          BY <5>1, <5>7, <5>8, <4>2
      <4> QED
        BY <4>1, <4>2, <4>3
    <3> QED
      BY <3>2, <3>3
  <2> QED
    BY <2>1
<1>3. Cardinality(S) \in Nat
  BY FS_CardinalityType
<1>4. Cardinality(S) \in N
  <2> HIDE DEF N
  <2> QED
    BY <1>1, <1>2, <1>3, Induct
<1> QED
  BY <1>4, <1>0

\* Totals compare when one set goes into the other, each element to one that counts at least as much.
LEMMA TotalInto ==
    ASSUME NEW f, NEW C, IsFiniteSet(C), \A c \in C : f[c] \in Nat,
           NEW g, NEW S, IsFiniteSet(S), \A s \in S : g[s] \in Nat,
           NEW q, \A c \in C : q[c] \in S /\ f[c] <= g[q[c]],
           \A c, d \in C : q[c] = q[d] => c = d
    PROVE  Total(f, C) <= Total(g, S)
<1> DEFINE Fits(T) == \A R \in SUBSET S : (\A c \in T : q[c] \in R) => Total(f, T) <= Total(g, R)
           N == {n \in Nat : \A T \in Small(C, n) : Fits(T)}
<1>0. /\ \A T \in SUBSET C : IsFiniteSet(T) /\ Cardinality(T) \in Nat
      /\ Small(C, 0) = {{}}
      /\ Small(C, Cardinality(C)) = SUBSET C
      /\ \A n \in Nat : \A T \in Small(C, n + 1) : \A x \in T : T \ {x} \in Small(C, n)
  BY SmallOnes
<1>s. \A R \in SUBSET S : IsFiniteSet(R) /\ Total(g, R) \in Nat
  BY FS_Subset, TotalRemove
<1>c. \A T \in SUBSET C : Total(f, T) \in Nat
  BY <1>0, TotalRemove
<1>1. 0 \in N
  <2>1. Total(f, {}) = 0
    BY TotalUnfolds, FS_EmptySet
  <2>2. Fits({})
    BY <2>1, <1>s
  <2> HIDE DEF Fits
  <2> QED
    BY <2>2, <1>0
<1>2. ASSUME NEW n \in Nat, n \in N PROVE n + 1 \in N
  <2>1. ASSUME NEW T \in Small(C, n + 1), NEW R \in SUBSET S, \A c \in T : q[c] \in R
        PROVE  Total(f, T) <= Total(g, R)
    <3>1. T \in SUBSET C /\ IsFiniteSet(T)
      BY <1>0 DEF Small
    <3>2. CASE T = {}
      BY <3>2, <1>1, <1>0, <2>1
    <3>3. CASE T # {}
      <4>c. PICK c \in T : TRUE
        BY <3>3
      <4> DEFINE X == T \ {c}
                 Y == R \ {q[c]}
      <4>1. X \in Small(C, n) /\ Y \in SUBSET S /\ X \in SUBSET C /\ \A d \in X : q[d] \in Y
        BY <1>0, <2>1, <3>1
      <4>2. Total(f, X) <= Total(g, Y) /\ Total(f, X) \in Nat /\ Total(g, Y) \in Nat
        BY <4>1, <1>2, <1>c, <1>s
      <4>3. Total(f, T) = f[c] + Total(f, X)
        BY <3>1, TotalRemove
      <4>4. Total(g, R) = g[q[c]] + Total(g, Y)
        BY <2>1, <1>s, TotalRemove
      <4>5. f[c] \in Nat /\ g[q[c]] \in Nat /\ f[c] <= g[q[c]]
        BY <3>1
      <4> HIDE DEF X, Y
      <4> QED
        BY <4>2, <4>3, <4>4, <4>5
    <3> QED
      BY <3>2, <3>3
  <2> QED
    BY <2>1
<1>3. Cardinality(C) \in Nat
  BY FS_CardinalityType
<1>4. Cardinality(C) \in N
  <2> HIDE DEF N
  <2> QED
    BY <1>1, <1>2, <1>3, Induct
<1> QED
  BY <1>4, <1>0

LEMMA TotalGrows ==
    ASSUME NEW f, NEW g, NEW S, IsFiniteSet(S), NEW C \in SUBSET S,
           \A c \in C : f[c] \in Nat /\ f[c] <= g[c], \A s \in S : g[s] \in Nat
    PROVE  Total(f, C) <= Total(g, S)
<1> DEFINE q == [c \in C |-> c]
<1>1. IsFiniteSet(C)
  BY FS_Subset
<1>2. (\A c \in C : q[c] \in S /\ f[c] <= g[q[c]]) /\ \A c, d \in C : q[c] = q[d] => c = d
  OBVIOUS
<1> HIDE DEF q
<1> QED
  BY <1>1, <1>2, TotalInto
-----------------------------------------------------------------------------
(* Charges.                                                                *)

\* Finitely many nodes, and none is below itself, however long the way.
FewNodes(t) == IsFiniteSet({s \in Sessions : IsNode(t, s)})
BottomOut(t) ==
    \A D \in SUBSET Sessions : (\A d \in D : \E c \in D : c \in Children(t, d)) => D = {}

\* What a node is charged when its children cost it so much.
Owed(t, s, below) ==
    IF t.state[s] = "ended" /\ t.used[s] # NoCount THEN t.used[s]
    ELSE AtMost(AtLeast(IF t.tokens[s] = NoCount THEN 0 ELSE t.tokens[s], below), MaxCount)

IsCharge(g, t) == g = [s \in Sessions |-> Owed(t, s, Total(g, Children(t, s)))]

LEMMA ChargeChosen == ASSUME NEW t PROVE Charge(t) = CHOOSE g : IsCharge(g, t)
BY DEF Charge, IsCharge, Owed, Total, MapThenSumSet, MapThenFoldSet

LEMMA ChildrenChargeIs ==
    ASSUME NEW t, NEW s PROVE ChildrenCharge(t, s) = Total(Charge(t), Children(t, s))
BY DEF ChildrenCharge, Total, MapThenSumSet, MapThenFoldSet

LEMMA FewChildren ==
    ASSUME NEW t, FewNodes(t), NEW s
    PROVE  IsFiniteSet(Children(t, s)) /\ Children(t, s) \subseteq Sessions
BY FS_Subset DEF FewNodes, Children

LEMMA OwedIs ==
    ASSUME NEW t \in Tree, NEW s \in Sessions
    PROVE  /\ \A n \in Nat : Owed(t, s, n) \in Counts
           /\ \A m, n \in Nat : m <= n => Owed(t, s, m) <= Owed(t, s, n)
<1>1. /\ t.used[s] \in Counts \cup {NoCount} /\ t.tokens[s] \in Counts \cup {NoCount}
      /\ MaxCount \in Nat /\ Counts = 0 .. MaxCount
  BY TreeAssumption DEF Tree, MaybeCount, Counts
<1> QED
  BY <1>1 DEF Owed, AtMost, AtLeast

\* The smallest map that charges every node at least what it owes is a solution of the recursion.
LEMMA ChargeExists ==
    ASSUME NEW t \in Tree, FewNodes(t)
    PROVE  \E g \in [Sessions -> Counts] : IsCharge(g, t)
<1> DEFINE Kids(s) == Children(t, s)
           F(g) == [s \in Sessions |-> Owed(t, s, Total(g, Kids(s)))]
           P == {g \in [Sessions -> Counts] : \A s \in Sessions : F(g)[s] <= g[s]}
           At(s) == {g[s] : g \in P}
           m == [s \in Sessions |-> CHOOSE n \in At(s) : \A k \in At(s) : n <= k]
<1>0. MaxCount \in Nat /\ Counts = 0 .. MaxCount /\ Counts \subseteq Nat
  BY TreeAssumption DEF Counts
<1>1. \A g \in [Sessions -> Counts], s \in Sessions : Total(g, Kids(s)) \in Nat
  <2>1. ASSUME NEW g \in [Sessions -> Counts], NEW s \in Sessions PROVE Total(g, Kids(s)) \in Nat
    <3>1. IsFiniteSet(Kids(s)) /\ \A x \in Kids(s) : g[x] \in Nat
      BY <1>0, FewChildren
    <3> HIDE DEF Kids
    <3> QED
      BY <3>1, TotalRemove
  <2> QED
    BY <2>1
<1>2. \A g \in [Sessions -> Counts] : F(g) \in [Sessions -> Counts]
  BY <1>1, OwedIs
<1>3. \A g, h \in [Sessions -> Counts] :
         (\A s \in Sessions : g[s] <= h[s]) => \A s \in Sessions : F(g)[s] <= F(h)[s]
  <2>1. ASSUME NEW g \in [Sessions -> Counts], NEW h \in [Sessions -> Counts],
               \A s \in Sessions : g[s] <= h[s], NEW s \in Sessions
        PROVE  F(g)[s] <= F(h)[s]
    <3>1. IsFiniteSet(Kids(s)) /\ Kids(s) \in SUBSET Kids(s)
          /\ (\A c \in Kids(s) : g[c] \in Nat /\ g[c] <= h[c]) /\ \A c \in Kids(s) : h[c] \in Nat
      BY <1>0, <2>1, FewChildren
    <3>2. Total(g, Kids(s)) <= Total(h, Kids(s))
      <4> HIDE DEF Kids
      <4> QED
        BY <3>1, TotalGrows
    <3>3. Total(g, Kids(s)) \in Nat /\ Total(h, Kids(s)) \in Nat
      BY <1>1
    <3> HIDE DEF Kids
    <3> QED
      BY <3>2, <3>3, OwedIs
  <2> QED
    BY <2>1
<1> HIDE DEF F
<1>4. [s \in Sessions |-> MaxCount] \in P
  <2> DEFINE top == [s \in Sessions |-> MaxCount]
  <2>1. top \in [Sessions -> Counts]
    BY <1>0
  <2>2. \A s \in Sessions : F(top)[s] \in Counts /\ top[s] = MaxCount
    BY <2>1, <1>2
  <2> HIDE DEF top
  <2>3. top \in P
    BY <1>0, <2>1, <2>2
  <2> QED
    BY <2>3 DEF top
<1>5. \A s \in Sessions : At(s) \in SUBSET Counts /\ At(s) # {}
  BY <1>4
<1>6. \A s \in Sessions : m[s] \in At(s) /\ \A k \in At(s) : m[s] <= k
  <2> HIDE DEF At
  <2>1. ASSUME NEW s \in Sessions PROVE \E n \in At(s) : \A k \in At(s) : n <= k
    <3>1. At(s) \in SUBSET Nat /\ At(s) # {}
      BY <1>0, <1>5
    <3> QED
      BY <3>1, Least
  <2> QED
    BY <2>1
<1>7. m \in [Sessions -> Counts]
  <2>1. \A s \in Sessions : m[s] \in Counts
    BY <1>5, <1>6
  <2>2. m = [s \in Sessions |-> m[s]]
    OBVIOUS
  <2> HIDE DEF m, At, P
  <2> QED
    BY <2>1, <2>2
<1> HIDE DEF m
<1>8. \A g \in P : \A s \in Sessions : m[s] <= g[s]
  <2>1. ASSUME NEW g \in P, NEW s \in Sessions PROVE m[s] <= g[s]
    <3>1. g[s] \in At(s)
      OBVIOUS
    <3> HIDE DEF At
    <3> QED
      BY <3>1, <1>6
  <2> QED
    BY <2>1
<1>9. \A s \in Sessions : F(m)[s] <= m[s]
  <2>1. ASSUME NEW g \in P, NEW s \in Sessions PROVE F(m)[s] <= g[s]
    <3>1. g \in [Sessions -> Counts] /\ F(g)[s] <= g[s]
      OBVIOUS
    <3>2. F(m)[s] <= F(g)[s]
      BY <1>3, <1>7, <1>8, <3>1
    <3>3. F(m)[s] \in Nat /\ F(g)[s] \in Nat /\ g[s] \in Nat
      BY <1>0, <1>2, <1>7, <3>1
    <3> QED
      BY <3>1, <3>2, <3>3
  <2>2. \A s \in Sessions : \E g \in P : m[s] = g[s]
    BY <1>6
  <2> QED
    BY <2>1, <2>2
<1>10. F(m) \in P
  <2>1. F(m) \in [Sessions -> Counts]
    BY <1>2, <1>7
  <2>2. \A s \in Sessions : F(F(m))[s] <= F(m)[s]
    BY <1>3, <1>7, <1>9, <2>1
  <2> QED
    BY <2>1, <2>2
<1>11. \A s \in Sessions : F(m)[s] = m[s]
  <2>1. \A s \in Sessions : m[s] <= F(m)[s] /\ F(m)[s] <= m[s]
    BY <1>8, <1>9, <1>10
  <2>2. \A s \in Sessions : m[s] \in Nat /\ F(m)[s] \in Nat
    BY <1>0, <1>2, <1>7
  <2> QED
    BY <2>1, <2>2
<1>12. m = F(m)
  BY <1>2, <1>7, <1>11
<1> QED
  BY <1>7, <1>12 DEF F, IsCharge

\* Charges of nodes that stand still, with all that is below them, are the same.
LEMMA SameCharges ==
    ASSUME NEW t, NEW u, FewNodes(t), BottomOut(t),
           NEW g, IsCharge(g, t), NEW h, IsCharge(h, u), NEW X \in SUBSET Sessions,
           \A d \in X : /\ Children(t, d) \subseteq X /\ Children(u, d) = Children(t, d)
                        /\ u.state[d] = t.state[d] /\ u.used[d] = t.used[d]
                        /\ u.tokens[d] = t.tokens[d]
    PROVE  \A d \in X : g[d] = h[d]
<1> DEFINE D == {d \in X : g[d] # h[d]}
<1>1. ASSUME NEW d \in D PROVE \E c \in D : c \in Children(t, d)
  <2> SUFFICES ASSUME \A c \in Children(t, d) : g[c] = h[c] PROVE FALSE
    OBVIOUS
  <2>1. IsFiniteSet(Children(t, d))
    BY FewChildren
  <2>2. Total(g, Children(t, d)) = Total(h, Children(t, d))
    BY <2>1, TotalSame
  <2>3. g[d] = Owed(t, d, Total(g, Children(t, d))) /\ h[d] = Owed(u, d, Total(h, Children(u, d)))
    BY DEF IsCharge
  <2>4. \A n : Owed(t, d, n) = Owed(u, d, n)
    BY DEF Owed
  <2> QED
    BY <2>2, <2>3, <2>4
<1>2. D = {}
  BY <1>1 DEF BottomOut
<1> QED
  BY <1>2

LEMMA ChargeIs ==
    ASSUME NEW t \in Tree, FewNodes(t), BottomOut(t)
    PROVE  /\ IsCharge(Charge(t), t) /\ Charge(t) \in [Sessions -> Counts]
           /\ \A s \in Sessions :
                 /\ ChildrenCharge(t, s) \in Nat
                 /\ Charge(t)[s] = Owed(t, s, ChildrenCharge(t, s))
<1>g. PICK g \in [Sessions -> Counts] : IsCharge(g, t)
  BY ChargeExists
<1>1. IsCharge(Charge(t), t)
  BY <1>g, ChargeChosen
<1>2. \A d \in Sessions : Charge(t)[d] = g[d]
  <2>1. \A d \in Sessions : Children(t, d) \subseteq Sessions
    BY DEF Children
  <2> QED
    BY <2>1, <1>g, <1>1, SameCharges
<1>3. Charge(t) \in [Sessions -> Counts]
  BY <1>1, <1>2 DEF IsCharge
<1>4. \A s \in Sessions : ChildrenCharge(t, s) = Total(Charge(t), Children(t, s))
  BY ChildrenChargeIs
<1>5. ASSUME NEW s \in Sessions PROVE Total(Charge(t), Children(t, s)) \in Nat
  <2>1. IsFiniteSet(Children(t, s)) /\ \A c \in Children(t, s) : Charge(t)[c] \in Nat
    BY <1>3, FewChildren, TreeAssumption DEF Counts
  <2> QED
    BY <2>1, TotalRemove
<1>6. \A s \in Sessions : Charge(t)[s] = Owed(t, s, Total(Charge(t), Children(t, s)))
  BY <1>1 DEF IsCharge
<1> QED
  BY <1>1, <1>3, <1>4, <1>5, <1>6

-----------------------------------------------------------------------------
(* What rows do to the budget.                                             *)

\* No row of the budget.
Inert(t, u) ==
    /\ u \in Tree /\ u.state = t.state /\ u.parent = t.parent
    /\ u.tokens = t.tokens /\ u.own = t.own /\ u.used = t.used

\* A new node s under p with so many tokens; p's own use is then so much.
Adds(t, u, s, p, tokens, own) ==
    /\ u \in Tree /\ ~IsNode(t, s)
    /\ u.state = [t.state EXCEPT ![s] = "running"]
    /\ u.parent = [t.parent EXCEPT ![s] = p]
    /\ u.tokens = [t.tokens EXCEPT ![s] = tokens]
    /\ u.used = t.used
    /\ p \in Sessions => Running(t, p) /\ u.own = [t.own EXCEPT ![p] = own]
    /\ p \notin Sessions => u.own = t.own

\* ... and p's budget has room for them.
Reserves(t, u, s, p, tokens, own) ==
    /\ Adds(t, u, s, p, tokens, own)
    /\ p \in Sessions => BudgetFits(t, p, own, tokens)

Ends(t, u, s, used) ==
    /\ u \in Tree /\ Running(t, s)
    /\ \A c \in Children(t, s) : ~Running(t, c)
    /\ u.state = [t.state EXCEPT ![s] = "ended"]
    /\ u.used = [t.used EXCEPT ![s] = used]
    /\ u.parent = t.parent /\ u.tokens = t.tokens /\ u.own = t.own

LEMMA InertRows ==
    ASSUME NEW t \in Tree
    PROVE  /\ Inert(t, t)
           /\ \A p \in Sessions : Inert(t, RefusedRow(t, p))
           /\ \A a \in Ask : Inert(t, AskRow(t, a))
           /\ \A a \in Ask, v \in {"allow", "deny"} : Inert(t, AnswerRow(t, a, v))
<1>1. Inert(t, t)
  BY DEF Inert
<1>2. ASSUME NEW p \in Sessions PROVE Inert(t, RefusedRow(t, p))
  <2>1. RefusedRow(t, p) \in Tree
    BY OtherRowFields
  <2>2. RefusedRow(t, p) = t \/ RefusedRow(t, p) = [t EXCEPT !.refused = [t.refused EXCEPT ![p] = @ + 1]]
    BY DEF RefusedRow
  <2> QED
    BY <2>1, <2>2 DEF Inert, Tree
<1>3. ASSUME NEW a \in Ask PROVE Inert(t, AskRow(t, a))
  <2>1. AskRow(t, a) \in Tree
    BY OtherRowFields
  <2>2. AskRow(t, a) = t \/ AskRow(t, a) = [t EXCEPT !.asks = t.asks \cup {a}]
    BY DEF AskRow
  <2> QED
    BY <2>1, <2>2 DEF Inert, Tree
<1>4. ASSUME NEW a \in Ask, NEW v \in {"allow", "deny"} PROVE Inert(t, AnswerRow(t, a, v))
  <2>1. AnswerRow(t, a, v) \in Tree
    BY OtherRowFields
  <2>2. \/ AnswerRow(t, a, v) = t
        \/ AnswerRow(t, a, v) = [t EXCEPT !.answers = t.answers \cup {<<a, v>>},
                                          !.refused = [t.refused EXCEPT ![a.parent] = 0]]
    BY DEF AnswerRow
  <2> QED
    BY <2>1, <2>2 DEF Inert, Tree
<1> QED
  BY <1>1, <1>2, <1>3, <1>4
LEMMA NewNodeAdds ==
    ASSUME NEW t \in Tree, NEW s \in Sessions, NEW e \in Envelope,
           NEW p \in Sessions \cup {NoSession}, NEW r \in Sessions,
           NEW tokens \in MaybeCount, NEW pr \in BOOLEAN
    PROVE  LET n == NewNode(t, s, p, r, e, tokens, pr)
           IN  /\ n \in Tree
               /\ n.state = [t.state EXCEPT ![s] = "running"]
               /\ n.parent = [t.parent EXCEPT ![s] = p]
               /\ n.tokens = [t.tokens EXCEPT ![s] = tokens]
               /\ n.own = t.own /\ n.used = t.used
  BY DEF Tree, NewNode

LEMMA RootAdds ==
    ASSUME NEW t \in Tree, NEW s \in Sessions, NEW e \in Envelope, NEW tokens \in MaybeCount,
           ~IsNode(t, s), NEW own
    PROVE  Adds(t, RootRow(t, s, e, tokens), s, NoSession, tokens, own)
<1>1. PICK p \in Sessions \cup {NoSession}, pr \in BOOLEAN : p = NoSession /\ pr = TRUE
  OBVIOUS
<1> DEFINE n == NewNode(t, s, p, s, e, tokens, pr)
<1>2. /\ n \in Tree
      /\ n.state = [t.state EXCEPT ![s] = "running"]
      /\ n.parent = [t.parent EXCEPT ![s] = p]
      /\ n.tokens = [t.tokens EXCEPT ![s] = tokens]
      /\ n.own = t.own /\ n.used = t.used
  BY NewNodeAdds
<1>3. RootRow(t, s, e, tokens) = n
  BY <1>1 DEF RootRow
<1> HIDE DEF n
<1>4. NoSession \notin Sessions
  BY TreeAssumption
<1> QED
  BY <1>1, <1>2, <1>3, <1>4 DEF Adds

LEMMA SpawnAdds ==
    ASSUME NEW t \in Tree, NEW s \in Sessions, NEW p \in Sessions, NEW e \in Envelope,
           NEW tokens \in MaybeCount, NEW pr \in BOOLEAN, NEW own \in MaybeCount,
           ~IsNode(t, s), Running(t, p), NEW o, o = (IF own = NoCount THEN t.own[p] ELSE own)
    PROVE  Adds(t, SpawnRow(t, p, s, e, tokens, pr, own), s, p, tokens, o)
<1> DEFINE n == NewNode(t, s, p, t.root[p], e, tokens, pr)
           u == SpawnRow(t, p, s, e, tokens, pr, own)
<1>1. t.root[p] \in Sessions
  BY DEF Tree
<1>2. /\ n \in Tree
      /\ n.state = [t.state EXCEPT ![s] = "running"]
      /\ n.parent = [t.parent EXCEPT ![s] = p]
      /\ n.tokens = [t.tokens EXCEPT ![s] = tokens]
      /\ n.own = t.own /\ n.used = t.used
  BY <1>1, NewNodeAdds
<1>3. u = [n EXCEPT !.refused[p] = 0,
                    !.own[p] = IF own = NoCount THEN @ ELSE own]
  BY DEF SpawnRow
<1>u. u \in Tree
  BY SpawnRowFields
<1> HIDE DEF n
<1>4. u = [n EXCEPT !.refused[p] = 0, !.own[p] = o]
  BY <1>2, <1>3 DEF Tree
<1> HIDE DEF u
<1>5. /\ u.state = n.state /\ u.parent = n.parent /\ u.tokens = n.tokens /\ u.used = n.used
      /\ u.own = [n.own EXCEPT ![p] = o]
  BY <1>2, <1>4 DEF Tree
<1>6. Adds(t, u, s, p, tokens, o)
  BY <1>2, <1>5, <1>u DEF Adds
<1> QED
  BY <1>6 DEF u

LEMMA EndRowEnds ==
    ASSUME NEW t \in Tree, NEW s \in Sessions, NEW used \in MaybeCount, Running(t, s),
           \A c \in Children(t, s) : ~Running(t, c)
    PROVE  Ends(t, EndRow(t, s, used), s, used)
<1> DEFINE u == EndRow(t, s, used)
<1>1. u \in Tree
  BY EndRowFields
<1>2. u = [t EXCEPT !.state[s] = "ended", !.used[s] = used]
  BY DEF EndRow
<1> HIDE DEF u
<1>3. /\ u.state = [t.state EXCEPT ![s] = "ended"]
      /\ u.used = [t.used EXCEPT ![s] = used]
      /\ u.parent = t.parent /\ u.tokens = t.tokens /\ u.own = t.own
  BY <1>2 DEF Tree
<1>4. Ends(t, u, s, used)
  BY <1>1, <1>3 DEF Ends
<1> QED
  BY <1>4 DEF u

LEMMA AddsAfterInert ==
    ASSUME NEW t, NEW v, Inert(t, v), NEW u, NEW s, NEW p, NEW tokens, NEW own,
           Adds(v, u, s, p, tokens, own)
    PROVE  Adds(t, u, s, p, tokens, own)
  BY DEF Inert, Adds, IsNode, Running
-----------------------------------------------------------------------------
(* The steps, as the budget sees them.                                     *)

\* What starters were told they had started, and what one is about to be told.
Starts == {c \in claims \cup (IF holder = Nobody THEN {} ELSE holder.tells) : c.what = "started"}

StandsStill == Inert(tree, tree') /\ (lost' = {} => Starts' \subseteq Starts)

StartsOne(s, p, tokens, own) ==
    /\ Reserves(tree, tree', s, p, tokens, own)
    /\ lost' = {} => Starts' \subseteq Starts \cup {Started(s, p, tokens)}

EndsOne(s, own, used) ==
    /\ used = BranchTotal(tree, s, own)
    /\ Ends(tree, tree', s, used)
    /\ lost' = {} => Starts' \subseteq Starts

BudgetStep ==
    /\ lost' = {} => lost = {}
    /\ \/ StandsStill
       \/ \E s \in Sessions, p \in Sessions \cup {NoSession}, tokens, own \in MaybeCount :
             StartsOne(s, p, tokens, own)
       \/ \E s \in Sessions, own, used \in MaybeCount : EndsOne(s, own, used)

\* A command takes the lock with what it will tell.
LEMMA TakesTheLock ==
    ASSUME holder = Nobody, claims' = claims, NEW h \in Pending, holder' = h
    PROVE  Starts' = Starts \cup {c \in h.tells : c.what = "started"}
<1>1. holder' # Nobody
  BY NobodyAssumption
<1> QED
  BY <1>1 DEF Starts

LEMMA StartedIs ==
    ASSUME NEW s, NEW p, NEW tokens PROVE Started(s, p, tokens).what = "started"
  BY DEF Started

LEMMA MakeRootBudget ==
    ASSUME IInv, NEW s \in Sessions, NEW e \in Envelope, NEW tokens \in MaybeCount,
           MakeRoot(s, e, tokens)
    PROVE  BudgetStep
<1> DEFINE u == RootRow(tree, s, e, tokens)
           told == {Started(s, NoSession, tokens)}
           h == Registering(s, e, e, told)
<1>1. /\ holder = Nobody /\ ~IsNode(tree, s) /\ tree \in Tree /\ Append(u, s)
      /\ holder' = h /\ claims' = claims
  BY DEF MakeRoot, Free, IInv, TypeOK
<1>2. PICK own \in MaybeCount : own = NoCount
  BY DEF MaybeCount
<1>3. Adds(tree, u, s, NoSession, tokens, own)
  BY <1>1, RootAdds
<1>4. Inert(tree, tree)
  BY <1>1, InertRows
<1> HIDE DEF u
<1>5. tree' = (IF torn THEN tree ELSE u) /\ lost' = (IF torn THEN lost \cup {s} ELSE lost)
  BY <1>1 DEF Append
<1>6. told \in SUBSET Claim
  BY ClaimTypes
<1>7. h \in Pending /\ h.tells = told
  <2> HIDE DEF told
  <2> QED
    BY <1>6 DEF Registering, Pending, MaybeEnvelope
<1> HIDE DEF h
<1>8. Starts' \subseteq Starts \cup {Started(s, NoSession, tokens)}
  BY <1>1, <1>7, TakesTheLock
<1>9. NoSession \notin Sessions
  BY TreeAssumption
<1>10. CASE torn
  <2>1. StandsStill
    BY <1>4, <1>5, <1>10 DEF StandsStill
  <2> QED
    BY <2>1, <1>5, <1>10 DEF BudgetStep
<1>11. CASE ~torn
  <2>1. StartsOne(s, NoSession, tokens, own)
    BY <1>3, <1>5, <1>8, <1>9, <1>11 DEF StartsOne, Reserves
  <2> QED
    BY <2>1, <1>5, <1>11 DEF BudgetStep
<1> QED
  BY <1>10, <1>11

LEMMA SpawnStartedBudget ==
    ASSUME IInv, NEW p \in Sessions, NEW s \in Sessions, NEW e \in Envelope,
           NEW tokens \in MaybeCount, NEW own \in MaybeCount, NEW finishes,
           SpawnStarted(p, s, e, tokens, own, finishes)
    PROVE  BudgetStep
<1> DEFINE child == Effective(Lookup(p), e)
           top == tree.env[tree.root[p]]
           told == {Started(s, p, tokens)}
           h == Registering(s, child, top, told)
           o == IF own = NoCount THEN tree.own[p] ELSE own
<1>1. /\ holder = Nobody /\ Running(tree, p) /\ IsNode(tree, p) /\ ~IsNode(tree, s)
      /\ SpawnReasons(p, e, tokens, own, finishes) = {}
      /\ tree \in Tree
  BY DEF SpawnStarted, MaySpawn, Free, IInv, TypeOK, Running, IsNode
<1>2. child \in Envelope /\ top \in Envelope
  BY <1>1, ProvedChild, NodeFacts
<1>3. /\ Append(SpawnRow(tree, p, s, child, tokens, TRUE, own), s)
      /\ holder' = h /\ claims' = claims
  BY DEF SpawnStarted
<1>4. BudgetFits(tree, p, o, tokens)
  BY <1>1 DEF SpawnReasons
<1>5. o \in MaybeCount
  BY <1>1 DEF Tree
<1> HIDE DEF child, top
<1>6. PICK pr \in BOOLEAN : pr = TRUE
  OBVIOUS
<1> DEFINE u == SpawnRow(tree, p, s, child, tokens, pr, own)
<1>7. Adds(tree, u, s, p, tokens, o)
  BY <1>1, <1>2, SpawnAdds
<1>8. Inert(tree, tree)
  BY <1>1, InertRows
<1>9. Append(u, s)
  BY <1>3, <1>6
<1> HIDE DEF u, o
<1>10. tree' = (IF torn THEN tree ELSE u) /\ lost' = (IF torn THEN lost \cup {s} ELSE lost)
  BY <1>9 DEF Append
<1>11. told \in SUBSET Claim
  BY ClaimTypes
<1>12. h \in Pending /\ h.tells = told
  <2> HIDE DEF told
  <2> QED
    BY <1>2, <1>11 DEF Registering, Pending, MaybeEnvelope
<1> HIDE DEF h
<1>13. Starts' \subseteq Starts \cup {Started(s, p, tokens)}
  BY <1>1, <1>3, <1>12, TakesTheLock
<1>14. CASE torn
  <2>1. StandsStill
    BY <1>8, <1>10, <1>14 DEF StandsStill
  <2> QED
    BY <2>1, <1>10, <1>14 DEF BudgetStep
<1>15. CASE ~torn
  <2>1. StartsOne(s, p, tokens, o)
    BY <1>4, <1>7, <1>10, <1>13, <1>15 DEF StartsOne, Reserves
  <2> QED
    BY <2>1, <1>5, <1>10, <1>15 DEF BudgetStep
<1> QED
  BY <1>14, <1>15

LEMMA AllowBudget ==
    ASSUME IInv, NEW a \in Ask, NEW finishes, Allow(a, finishes)
    PROVE  BudgetStep
<1> DEFINE p == a.parent
           s == a.session
           child == Effective(Lookup(tree.root[p]), a.envelope)
           top == tree.env[tree.root[p]]
           t == IF torn THEN tree ELSE AnswerRow(tree, a, "allow")
           told == {Started(s, p, a.tokens), About("allow", a)}
           h == Registering(s, child, top, told)
           o == tree.own[p]
<1>1. /\ holder = Nobody /\ Running(tree, p) /\ IsNode(tree, p) /\ ~IsNode(tree, s)
      /\ tree \in Tree /\ MayAllow(a, finishes) /\ BudgetFits(tree, p, o, a.tokens)
  BY DEF Allow, MayAllow, Free, IInv, TypeOK, Running, IsNode
<1>2. /\ p \in Sessions /\ s \in Sessions /\ a.tokens \in MaybeCount
      /\ child \in Envelope /\ top \in Envelope
  BY <1>1, AllowedChild, NodeFacts
<1>3. /\ tree' = SpawnRow(t, p, s, child, a.tokens, FALSE, NoCount)
      /\ holder' = h /\ claims' = claims
      /\ lost' = IF torn THEN lost \cup {s} ELSE lost
  BY DEF Allow
<1>4. Inert(tree, t) /\ t \in Tree
  BY <1>1, InertRows DEF Inert
<1> HIDE DEF child, top, t, p, s
<1>5. PICK pr \in BOOLEAN, own \in MaybeCount : pr = FALSE /\ own = NoCount
  BY DEF MaybeCount
<1>6. /\ ~IsNode(t, s) /\ Running(t, p) /\ o \in MaybeCount
      /\ o = (IF own = NoCount THEN t.own[p] ELSE own)
  BY <1>1, <1>2, <1>4, <1>5 DEF Inert, IsNode, Running, Tree
<1> DEFINE u == SpawnRow(t, p, s, child, a.tokens, pr, own)
<1>7. Adds(t, u, s, p, a.tokens, o)
  BY <1>2, <1>4, <1>6, SpawnAdds
<1>8. tree' = u
  BY <1>3, <1>5
<1> HIDE DEF u
<1>9. Adds(tree, u, s, p, a.tokens, o)
  BY <1>4, <1>7, AddsAfterInert
<1>10. told \in SUBSET Claim
  BY <1>2, ClaimTypes DEF p, s
<1>11. h \in Pending /\ h.tells = told
  <2> HIDE DEF told
  <2> QED
    BY <1>2, <1>10 DEF Registering, Pending, MaybeEnvelope
<1> HIDE DEF h
<1>12. Starts' \subseteq Starts \cup {Started(s, p, a.tokens)}
  <2>1. About("allow", a).what # "started"
    BY DEF About
  <2> QED
    BY <1>1, <1>3, <1>11, <2>1, TakesTheLock
<1>13. StartsOne(s, p, a.tokens, o)
  BY <1>1, <1>8, <1>9, <1>12 DEF StartsOne, Reserves
<1>14. lost' = {} => lost = {}
  BY <1>3
<1> HIDE DEF o
<1> QED
  BY <1>2, <1>6, <1>13, <1>14 DEF BudgetStep

LEMMA EndBudget ==
    ASSUME IInv, NEW s \in Sessions, NEW own \in MaybeCount, End(s, own)
    PROVE  BudgetStep
<1>1. PICK used \in MaybeCount : used = BranchTotal(tree, s, own) /\ Append(EndRow(tree, s, used), s)
  BY DEF End
<1> DEFINE u == EndRow(tree, s, used)
           h == Unlinking(s)
<1>2. /\ holder = Nobody /\ Running(tree, s) /\ \A c \in Children(tree, s) : ~Running(tree, c)
      /\ tree \in Tree /\ holder' = h /\ claims' = claims
  BY DEF End, Idle, IInv, TypeOK
<1>3. Ends(tree, u, s, used)
  BY <1>2, EndRowEnds
<1>4. Inert(tree, tree)
  BY <1>2, InertRows
<1> HIDE DEF u
<1>5. tree' = (IF torn THEN tree ELSE u) /\ lost' = (IF torn THEN lost \cup {s} ELSE lost)
  BY <1>1 DEF Append, u
<1>6. h \in Pending /\ h.tells = {Ended(s)}
  BY ClaimTypes DEF Unlinking, Pending, MaybeEnvelope, Claim, Ended
<1>7. Starts' \subseteq Starts
  <2>1. Ended(s).what # "started"
    BY DEF Ended
  <2> HIDE DEF h
  <2> QED
    BY <1>2, <1>6, <2>1, TakesTheLock
<1>8. CASE torn
  <2>1. StandsStill
    BY <1>4, <1>5, <1>8 DEF StandsStill
  <2> QED
    BY <2>1, <1>5, <1>8 DEF BudgetStep
<1>9. CASE ~torn
  <2>1. EndsOne(s, own, used)
    BY <1>1, <1>3, <1>5, <1>7, <1>9 DEF EndsOne
  <2> QED
    BY <2>1, <1>5, <1>9 DEF BudgetStep
<1> QED
  BY <1>8, <1>9

\* The rows that say nothing of the budget, with what their commands claim at once.
LEMMA InertAppend ==
    ASSUME IInv, NEW s \in Sessions, NEW u, Inert(tree, u), Append(u, s),
           holder' = holder, \A c \in claims' : c \in claims \/ c.what # "started"
    PROVE  BudgetStep
<1>1. Inert(tree, tree)
  BY InertRows DEF IInv, TypeOK
<1>2. Inert(tree, tree') /\ (lost' = {} => lost = {})
  BY <1>1 DEF Append
<1>3. Starts' \subseteq Starts
  BY DEF Starts
<1> QED
  BY <1>2, <1>3 DEF BudgetStep, StandsStill
LEMMA OtherBudget ==
    ASSUME IInv, NEW s \in Sessions, NEW p \in Sessions, NEW e \in Envelope,
           NEW tokens \in MaybeCount, NEW own, NEW finishes,
           \/ SpawnRefused(p, s, e, tokens, own, finishes)
           \/ SpawnAsked(p, s, e, tokens, own, finishes)
    PROVE  BudgetStep
<1>t. tree \in Tree
  BY DEF IInv, TypeOK
<1>1. CASE SpawnRefused(p, s, e, tokens, own, finishes)
  <2>1. Append(RefusedRow(tree, p), s) /\ holder' = holder /\ claims' = claims
    BY <1>1 DEF SpawnRefused
  <2>2. Inert(tree, RefusedRow(tree, p))
    BY <1>t, InertRows
  <2> QED
    BY <2>1, <2>2, InertAppend
<1>2. CASE SpawnAsked(p, s, e, tokens, own, finishes)
  <2> DEFINE n == Cardinality(tree.asks)
             reasons == SpawnReasons(p, e, tokens, own, finishes)
             a == [parent |-> p, session |-> s, envelope |-> e, tokens |-> tokens, n |-> n,
                   reasons |-> reasons]
  <2>1. /\ Append(AskRow(tree, a), s) /\ holder' = holder
        /\ claims' = claims \cup {About("asked", a)}
    BY <1>2 DEF SpawnAsked
  <2>2. n \in Nat
    BY FS_CardinalityType DEF IInv
  <2>3. reasons \in SUBSET (Reasons \cup {"physical", "budget"})
    BY DEF SpawnReasons, EdgeReasons, Reasons
  <2>4. a \in Ask
    <3> HIDE DEF n, reasons
    <3> QED BY <2>2, <2>3 DEF Ask
  <2> HIDE DEF a
  <2>5. Inert(tree, AskRow(tree, a))
    BY <1>t, <2>4, InertRows
  <2>6. \A c \in claims' : c \in claims \/ c.what # "started"
    BY <2>1 DEF About
  <2> QED
    BY <2>1, <2>5, <2>6, InertAppend
<1> QED
  BY <1>1, <1>2

LEMMA DenyBudget == ASSUME IInv, NEW a \in Ask, Deny(a) PROVE BudgetStep
<1>1. tree \in Tree /\ a.session \in Sessions
  BY DEF IInv, TypeOK, Ask
<1>2. /\ Append(AnswerRow(tree, a, "deny"), a.session) /\ holder' = holder
      /\ claims' = claims \cup {About("deny", a)}
  BY DEF Deny
<1>3. Inert(tree, AnswerRow(tree, a, "deny"))
  BY <1>1, InertRows
<1>4. \A c \in claims' : c \in claims \/ c.what # "started"
  BY <1>2 DEF About
<1> QED
  BY <1>1, <1>2, <1>3, <1>4, InertAppend

LEMMA AllowCutBudget ==
    ASSUME IInv, NEW a \in Ask, NEW finishes, AllowCut(a, finishes) PROVE BudgetStep
<1>1. /\ tree' = (IF torn THEN tree ELSE AnswerRow(tree, a, "allow")) /\ lost' = lost \cup {a.session}
      /\ tree \in Tree
  BY DEF AllowCut, IInv, TypeOK
<1>2. Inert(tree, tree')
  BY <1>1, InertRows
<1> QED
  BY <1>1, <1>2 DEF BudgetStep, StandsStill

\* The file half and the faults write no row.
LEMMA RowlessBudget ==
    ASSUME IInv, UNCHANGED <<tree, lost>>, holder' \in {holder, Nobody},
           claims' \in {claims, claims \cup holder.tells},
           holder = Nobody => claims' = claims
    PROVE  BudgetStep
<1>1. Inert(tree, tree')
  BY InertRows DEF IInv, TypeOK
<1>2. Starts' \subseteq Starts
  BY DEF Starts
<1> QED
  BY <1>1, <1>2 DEF BudgetStep, StandsStill

LEMMA NextIsBudgetStep == ASSUME IInv, [Next]_vars PROVE BudgetStep
<1>1. CASE UNCHANGED vars
  BY <1>1, RowlessBudget DEF vars
<1>2. ASSUME NEW s \in Founders, NEW e \in RootEnvelopes, NEW tokens \in Wants,
             MakeRoot(s, e, tokens)
      PROVE  BudgetStep
  BY <1>2, InputTypes, MakeRootBudget
<1>3. ASSUME NEW p \in Sessions, NEW s \in Sessions, NEW e \in Proposals,
             NEW tokens \in Wants, NEW own \in Reports, NEW finishes \in BOOLEAN,
             \/ SpawnStarted(p, s, e, tokens, own, finishes)
             \/ SpawnRefused(p, s, e, tokens, own, finishes)
             \/ SpawnAsked(p, s, e, tokens, own, finishes)
      PROVE  BudgetStep
  BY <1>3, InputTypes, SpawnStartedBudget, OtherBudget
<1>4. ASSUME NEW a \in tree.asks, NEW finishes,
             Deny(a) \/ Allow(a, finishes) \/ AllowCut(a, finishes)
      PROVE  BudgetStep
  BY <1>4, InputTypes, DenyBudget, AllowBudget, AllowCutBudget
<1>5. ASSUME NEW s \in Sessions, NEW own \in Reports, End(s, own)
      PROVE  BudgetStep
  BY <1>5, InputTypes, EndBudget
<1>6. CASE Register \/ Unlink
  BY <1>6, RowlessBudget DEF Register, Unlink
<1>7. CASE UnlinkRefused \/ Abort
  BY <1>7, RowlessBudget DEF UnlinkRefused, Abort, Fault
<1>8. CASE AppendCut
  BY <1>8, RowlessBudget DEF AppendCut
<1>9. ASSUME NEW s, NEW left, Spoil(s, left) PROVE BudgetStep
  BY <1>9, RowlessBudget DEF Spoil, Fault
<1>10. ASSUME NEW s, Restore(s) PROVE BudgetStep
  BY <1>10, RowlessBudget DEF Restore
<1> QED
  BY <1>1, <1>2, <1>3, <1>4, <1>5, <1>6, <1>7, <1>8, <1>9, <1>10 DEF Next, Command, Fail
-----------------------------------------------------------------------------
(* The invariant of the budget.                                            *)

\* What a node costs its parent at least: what it used, or what it reserved.
Cost(t) ==
    [c \in Sessions |-> IF t.state[c] = "ended" /\ t.used[c] # NoCount THEN t.used[c]
                        ELSE IF t.tokens[c] = NoCount THEN 0 ELSE t.tokens[c]]

OwnUse(t, s) == IF t.own[s] = NoCount THEN 0 ELSE t.own[s]

Overran(t, d) == t.used[d] # NoCount /\ t.tokens[d] # NoCount /\ t.used[d] > t.tokens[d]

RunKids(t, s) == {c \in Children(t, s) : Running(t, c)}

\* No counts but where a row put them.
Blank(t) ==
    \A s \in Sessions : /\ ~IsNode(t, s) => t.tokens[s] = NoCount /\ t.own[s] = NoCount
                        /\ t.state[s] # "ended" => t.used[s] = NoCount

\* Under a budget every child reserves an amount.
Priced(t) ==
    \A s \in Sessions : t.tokens[s] # NoCount =>
        \A c \in Children(t, s) : t.tokens[c] # NoCount

\* What a node reports and what its children cost it fit its budget, unless one of them overran.
Split(t) ==
    \A s \in Sessions : t.tokens[s] # NoCount =>
        \/ Total(Cost(t), Children(t, s)) + OwnUse(t, s) <= t.tokens[s]
        \/ \E c \in Children(t, s) : Overran(t, c)

\* What its running children hold fits its budget.
RunFit(t) ==
    \A s \in Sessions : t.tokens[s] # NoCount => Total(t.tokens, RunKids(t, s)) <= t.tokens[s]

\* Who ended with a total counted what its children cost it.
Rolled(t) ==
    \A s \in Sessions : t.state[s] = "ended" /\ t.used[s] # NoCount =>
        t.used[s] >= AtMost(ChildrenCharge(t, s), MaxCount)

Budgeted(t) ==
    /\ FewNodes(t) /\ BottomOut(t)
    /\ Blank(t) /\ Priced(t) /\ Split(t) /\ RunFit(t) /\ Rolled(t)

\* Who was told of a child: it is a node with that reservation under that parent.
Told == lost = {} => \A c \in Starts : /\ IsNode(tree, c.session)
                                       /\ tree.tokens[c.session] = c.tokens
                                       /\ tree.parent[c.session] = c.parent

-----------------------------------------------------------------------------
(* What a node is charged never falls short of its cost.                   *)

LEMMA ChargeCovers ==
    ASSUME NEW t \in Tree, FewNodes(t), BottomOut(t)
    PROVE  \A s \in Sessions : /\ Cost(t)[s] \in Nat /\ Charge(t)[s] \in Nat
                               /\ Cost(t)[s] <= Charge(t)[s]
<1> SUFFICES ASSUME NEW s \in Sessions
             PROVE  /\ Cost(t)[s] \in Nat /\ Charge(t)[s] \in Nat
                    /\ Cost(t)[s] <= Charge(t)[s]
  OBVIOUS
<1>1. /\ t.used[s] \in Counts \cup {NoCount} /\ t.tokens[s] \in Counts \cup {NoCount}
      /\ MaxCount \in Nat /\ Counts = 0 .. MaxCount
  BY TreeAssumption DEF Tree, MaybeCount, Counts
<1>2. PICK n \in Nat : Charge(t)[s] = Owed(t, s, n)
  BY ChargeIs
<1> QED
  BY <1>1, <1>2 DEF Cost, Owed, AtMost, AtLeast

LEMMA ChildrenCost ==
    ASSUME NEW t \in Tree, FewNodes(t), BottomOut(t), NEW s \in Sessions
    PROVE  /\ Total(Cost(t), Children(t, s)) \in Nat
           /\ ChildrenCharge(t, s) \in Nat
           /\ Total(Cost(t), Children(t, s)) <= ChildrenCharge(t, s)
<1>1. IsFiniteSet(Children(t, s)) /\ Children(t, s) \in SUBSET Sessions
      /\ Children(t, s) \in SUBSET Children(t, s)
  BY FewChildren
<1>2. \A c \in Children(t, s) : /\ Cost(t)[c] \in Nat /\ Charge(t)[c] \in Nat
                                /\ Cost(t)[c] <= Charge(t)[c]
  BY <1>1, ChargeCovers
<1>3. Total(Cost(t), Children(t, s)) <= Total(Charge(t), Children(t, s))
  BY <1>1, <1>2, TotalGrows
<1>4. Total(Cost(t), Children(t, s)) \in Nat
  BY <1>1, <1>2, TotalRemove
<1>5. ChildrenCharge(t, s) \in Nat
  BY ChargeIs
<1> QED
  BY <1>3, <1>4, <1>5, ChildrenChargeIs

-----------------------------------------------------------------------------
(* A new node.                                                             *)

\* Field by field.
Added(t, u, s, p, tokens, own) ==
    /\ u \in Tree /\ p # s /\ ~IsNode(t, s)
    /\ u.state[s] = "running" /\ u.parent[s] = p /\ u.tokens[s] = tokens
    /\ \A c \in Sessions : c # s => /\ u.state[c] = t.state[c] /\ u.parent[c] = t.parent[c]
                                    /\ u.tokens[c] = t.tokens[c]
    /\ u.used = t.used
    /\ \A c \in Sessions : c # p => u.own[c] = t.own[c]
    /\ p \in Sessions => u.own[p] = own /\ Running(t, p)

LEMMA AddsFields ==
    ASSUME NEW t \in Tree, NEW s \in Sessions, NEW p \in Sessions \cup {NoSession},
           NEW tokens, NEW own, NEW u, Adds(t, u, s, p, tokens, own)
    PROVE  Added(t, u, s, p, tokens, own)
<1>1. p # s
  BY TreeAssumption DEF Adds, IsNode, Running
<1>2. /\ t.state \in [Sessions -> {"none", "running", "ended"}]
      /\ t.parent \in [Sessions -> Sessions \cup {NoSession}]
      /\ t.tokens \in [Sessions -> MaybeCount] /\ t.own \in [Sessions -> MaybeCount]
  BY DEF Tree
<1>3. CASE p \in Sessions
  BY <1>1, <1>2, <1>3 DEF Adds, Added
<1>4. CASE p \notin Sessions
  BY <1>1, <1>2, <1>4 DEF Adds, Added
<1> QED
  BY <1>3, <1>4

LEMMA AddsChildren ==
    ASSUME NEW t \in Tree, Sound(t), NEW s \in Sessions, NEW p \in Sessions \cup {NoSession},
           NEW tokens, NEW own, NEW u, Adds(t, u, s, p, tokens, own)
    PROVE  /\ Children(u, s) = {}
           /\ \A d \in Sessions : /\ s \notin Children(t, d)
                                  /\ d # p => Children(u, d) = Children(t, d)
                                  /\ d = p => Children(u, d) = Children(t, d) \cup {s}
<1>1. /\ p # s /\ u.state[s] = "running" /\ u.parent[s] = p
      /\ \A c \in Sessions : c # s => u.state[c] = t.state[c] /\ u.parent[c] = t.parent[c]
  BY AddsFields DEF Added
<1>2. ~IsNode(t, s)
  BY DEF Adds
<1>3. \A c \in Sessions : IsNode(t, c) => t.parent[c] # s
  BY <1>2, TreeAssumption DEF Sound
<1>4. Children(u, s) = {}
  BY <1>1, <1>3 DEF Children, IsNode
<1>5. ASSUME NEW d \in Sessions
      PROVE  /\ s \notin Children(t, d)
             /\ d # p => Children(u, d) = Children(t, d)
             /\ d = p => Children(u, d) = Children(t, d) \cup {s}
  BY <1>1, <1>2 DEF Children, IsNode
<1> QED
  BY <1>4, <1>5

LEMMA AddsForest ==
    ASSUME NEW t \in Tree, Sound(t), FewNodes(t), BottomOut(t),
           NEW s \in Sessions, NEW p \in Sessions \cup {NoSession},
           NEW tokens, NEW own, NEW u, Adds(t, u, s, p, tokens, own)
    PROVE  FewNodes(u) /\ BottomOut(u)
<1>1. FewNodes(u)
  <2>1. {c \in Sessions : IsNode(u, c)} = {c \in Sessions : IsNode(t, c)} \cup {s}
    BY AddsFields DEF Added, IsNode
  <2> QED
    BY <2>1, FS_AddElement DEF FewNodes
<1>2. BottomOut(u)
  <2> SUFFICES ASSUME NEW D \in SUBSET Sessions, \A d \in D : \E c \in D : c \in Children(u, d)
               PROVE  D = {}
    BY DEF BottomOut
  <2>0. /\ Children(u, s) = {}
        /\ \A d \in Sessions : Children(u, d) \subseteq Children(t, d) \cup {s}
    <3>1. /\ Children(u, s) = {}
          /\ \A d \in Sessions : /\ s \notin Children(t, d)
                                 /\ d # p => Children(u, d) = Children(t, d)
                                 /\ d = p => Children(u, d) = Children(t, d) \cup {s}
      BY AddsChildren
    <3> QED
      BY <3>1
  <2>1. s \notin D
    BY <2>0
  <2>2. \A d \in D : \E c \in D : c \in Children(t, d)
    BY <2>0, <2>1
  <2> QED
    BY <2>2 DEF BottomOut
<1> QED
  BY <1>1, <1>2

\* What the parent of a new node can spare.
LEMMA Room ==
    ASSUME NEW t \in Tree, FewNodes(t), BottomOut(t),
           NEW p \in Sessions, NEW tokens \in MaybeCount, NEW own \in MaybeCount,
           BudgetFits(t, p, own, tokens), t.tokens[p] # NoCount,
           NEW o, o = (IF own = NoCount THEN 0 ELSE own)
    PROVE  /\ tokens \in Nat /\ t.tokens[p] \in Nat /\ o \in Nat
           /\ ChildrenCharge(t, p) \in Nat
           /\ tokens + ChildrenCharge(t, p) + o <= t.tokens[p]
<1>1. /\ \A n \in MaybeCount : n # NoCount => n \in Nat
      /\ t.tokens[p] \in MaybeCount
  BY TreeAssumption DEF MaybeCount, Counts, Tree
<1>2. ChildrenCharge(t, p) \in Nat
  BY ChargeIs
<1>3. tokens # NoCount /\ tokens <= t.tokens[p] - ChildrenCharge(t, p) - o
  BY DEF BudgetFits, LeftWith
<1> QED
  BY <1>1, <1>2, <1>3

LEMMA AddsBlank ==
    ASSUME NEW t \in Tree, NEW s \in Sessions, NEW p \in Sessions \cup {NoSession},
           NEW tokens, NEW own, NEW u, Adds(t, u, s, p, tokens, own), Blank(t)
    PROVE  Blank(u)
<1>1. Added(t, u, s, p, tokens, own)
  BY AddsFields
<1> QED
  BY <1>1 DEF Added, Blank, IsNode, Running

LEMMA ReservesPriced ==
    ASSUME NEW t \in Tree, Sound(t), NEW s \in Sessions, NEW p \in Sessions \cup {NoSession},
           NEW tokens, NEW own, NEW u, Reserves(t, u, s, p, tokens, own), Priced(t)
    PROVE  Priced(u)
<1>0. Adds(t, u, s, p, tokens, own)
  BY DEF Reserves
<1>1. Added(t, u, s, p, tokens, own)
  BY <1>0, AddsFields
<1>2. /\ Children(u, s) = {}
      /\ \A d \in Sessions : /\ s \notin Children(t, d)
                             /\ d # p => Children(u, d) = Children(t, d)
                             /\ d = p => Children(u, d) = Children(t, d) \cup {s}
  BY <1>0, AddsChildren
<1> SUFFICES ASSUME NEW d \in Sessions, u.tokens[d] # NoCount, NEW c \in Children(u, d)
             PROVE  u.tokens[c] # NoCount
  BY DEF Priced
<1>3. d # s /\ c \in Sessions /\ t.tokens[d] # NoCount
  BY <1>1, <1>2 DEF Added, Children
<1>4. CASE c = s
  <2>1. d = p /\ BudgetFits(t, p, own, tokens)
    BY <1>2, <1>4 DEF Reserves
  <2> QED
    BY <1>1, <1>3, <1>4, <2>1 DEF BudgetFits, Added
<1>5. CASE c # s
  <2>1. c \in Children(t, d)
    BY <1>2, <1>5
  <2> QED
    BY <1>1, <1>3, <1>5, <2>1 DEF Priced, Added
<1> QED
  BY <1>4, <1>5

\* A total over a set with one more element.
LEMMA TotalAdds ==
    ASSUME NEW f, NEW g, NEW S, IsFiniteSet(S), NEW x, x \notin S, g[x] \in Nat,
           \A c \in S : f[c] \in Nat /\ g[c] = f[c]
    PROVE  Total(g, S \cup {x}) = g[x] + Total(f, S) /\ Total(f, S) \in Nat
<1>1. IsFiniteSet(S \cup {x}) /\ (S \cup {x}) \ {x} = S
  BY FS_AddElement
<1>2. \A c \in S \cup {x} : g[c] \in Nat
  OBVIOUS
<1>3. Total(g, S \cup {x}) = g[x] + Total(g, S)
  BY <1>1, <1>2, TotalRemove
<1>4. Total(g, S) = Total(f, S)
  BY TotalSame
<1>5. Total(f, S) \in Nat
  BY TotalRemove
<1> QED
  BY <1>3, <1>4, <1>5

LEMMA ReservesSplit ==
    ASSUME NEW t \in Tree, Sound(t), FewNodes(t), BottomOut(t), Blank(t), Split(t),
           NEW s \in Sessions, NEW p \in Sessions \cup {NoSession},
           NEW tokens \in MaybeCount, NEW own \in MaybeCount, NEW u,
           Reserves(t, u, s, p, tokens, own)
    PROVE  Split(u)
<1>0. Adds(t, u, s, p, tokens, own)
  BY DEF Reserves
<1>1. Added(t, u, s, p, tokens, own)
  BY <1>0, AddsFields
<1>2. /\ Children(u, s) = {}
      /\ \A d \in Sessions : /\ s \notin Children(t, d)
                             /\ d # p => Children(u, d) = Children(t, d)
                             /\ d = p => Children(u, d) = Children(t, d) \cup {s}
  BY <1>0, AddsChildren
<1>3. \A c \in Sessions : c # s => Cost(u)[c] = Cost(t)[c]
  BY <1>1 DEF Added, Cost
<1>4. \A d \in Sessions : IsFiniteSet(Children(t, d)) /\ Children(t, d) \subseteq Sessions
  BY FewChildren
<1> SUFFICES ASSUME NEW d \in Sessions, u.tokens[d] # NoCount
             PROVE  \/ Total(Cost(u), Children(u, d)) + OwnUse(u, d) <= u.tokens[d]
                    \/ \E c \in Children(u, d) : Overran(u, c)
  BY DEF Split
<1>5. u.tokens[d] \in Nat
  BY <1>1, TreeAssumption DEF Added, Tree, MaybeCount, Counts
<1>6. CASE d = s
  <2>1. Total(Cost(u), Children(u, d)) = 0
    BY <1>2, <1>6, TotalUnfolds, FS_EmptySet
  <2>2. t.own[s] = NoCount /\ u.own[s] = t.own[s]
    BY <1>0, <1>1 DEF Adds, Added, Blank
  <2>3. OwnUse(u, d) = 0
    BY <2>2, <1>6 DEF OwnUse
  <2> QED
    BY <2>1, <2>3, <1>5
<1>7. CASE d # s /\ d # p
  <2>1. /\ Children(u, d) = Children(t, d) /\ u.tokens[d] = t.tokens[d] /\ u.own[d] = t.own[d]
        /\ \A c \in Children(t, d) : c # s /\ c \in Sessions
    BY <1>1, <1>2, <1>4, <1>7 DEF Added
  <2>2. Total(Cost(t), Children(t, d)) = Total(Cost(u), Children(t, d))
    BY <1>3, <1>4, <2>1, TotalSame
  <2>3. OwnUse(u, d) = OwnUse(t, d)
    BY <2>1 DEF OwnUse
  <2>4. \A c \in Children(t, d) : Overran(t, c) => Overran(u, c)
    BY <1>1, <2>1 DEF Overran, Added
  <2>5. \/ Total(Cost(t), Children(t, d)) + OwnUse(t, d) <= t.tokens[d]
        \/ \E c \in Children(t, d) : Overran(t, c)
    BY <2>1 DEF Split
  <2> QED
    BY <2>1, <2>2, <2>3, <2>4, <2>5
<1>8. CASE d = p
  <2>1. /\ d # s /\ u.tokens[d] = t.tokens[d] /\ u.own[d] = own /\ d \in Sessions
        /\ BudgetFits(t, d, own, tokens)
    BY <1>1, <1>8 DEF Added, Reserves
  <2>o. PICK o : o = IF own = NoCount THEN 0 ELSE own
    OBVIOUS
  <2>2. /\ tokens \in Nat /\ t.tokens[d] \in Nat /\ o \in Nat
        /\ ChildrenCharge(t, d) \in Nat
        /\ tokens + ChildrenCharge(t, d) + o <= t.tokens[d]
    BY <2>1, <2>o, Room
  <2>3. OwnUse(u, d) = o
    BY <2>1, <2>o DEF OwnUse
  <2>4. Cost(u)[s] = tokens
    BY <1>1, <2>2, TreeAssumption DEF Cost, Added
  <2>5. /\ Total(Cost(t), Children(t, d)) \in Nat
        /\ Total(Cost(t), Children(t, d)) <= ChildrenCharge(t, d)
    BY ChildrenCost
  <2>6. \A c \in Children(t, d) : Cost(t)[c] \in Nat /\ Cost(u)[c] = Cost(t)[c]
    BY <1>2, <1>3, <1>4, ChargeCovers
  <2>7. Total(Cost(u), Children(t, d) \cup {s}) = Cost(u)[s] + Total(Cost(t), Children(t, d))
    BY <1>2, <1>4, <2>2, <2>4, <2>6, TotalAdds
  <2>8. Total(Cost(u), Children(u, d)) = tokens + Total(Cost(t), Children(t, d))
    BY <1>2, <1>8, <2>4, <2>7
  <2>9. tokens + Total(Cost(t), Children(t, d)) + o <= t.tokens[d]
    BY <2>2, <2>5
  <2> QED
    BY <2>1, <2>3, <2>8, <2>9
<1> QED
  BY <1>6, <1>7, <1>8

\* What the running children reserve is no more than what the children are charged.
LEMMA RunningCost ==
    ASSUME NEW t \in Tree, FewNodes(t), BottomOut(t), Priced(t), NEW d \in Sessions,
           t.tokens[d] # NoCount
    PROVE  /\ IsFiniteSet(RunKids(t, d)) /\ RunKids(t, d) \subseteq Sessions
           /\ \A c \in RunKids(t, d) : t.tokens[c] \in Nat
           /\ Total(t.tokens, RunKids(t, d)) \in Nat
           /\ Total(t.tokens, RunKids(t, d)) <= ChildrenCharge(t, d)
<1>1. /\ IsFiniteSet(Children(t, d)) /\ Children(t, d) \subseteq Sessions
      /\ RunKids(t, d) \in SUBSET Children(t, d)
  BY FewChildren DEF RunKids
<1>2. IsFiniteSet(RunKids(t, d))
  BY <1>1, FS_Subset
<1>3. \A c \in RunKids(t, d) : t.tokens[c] # NoCount /\ Running(t, c)
  BY <1>1 DEF Priced, RunKids
<1>4. \A c \in RunKids(t, d) : t.tokens[c] \in Nat
  BY <1>1, <1>3, TreeAssumption DEF Tree, MaybeCount, Counts
<1>5. \A c \in RunKids(t, d) : t.tokens[c] = Cost(t)[c]
  BY <1>1, <1>3 DEF Cost, Running
<1>6. \A c \in Children(t, d) : Charge(t)[c] \in Nat /\ Cost(t)[c] <= Charge(t)[c]
  BY <1>1, ChargeCovers
<1>7. Total(t.tokens, RunKids(t, d)) <= Total(Charge(t), Children(t, d))
  <2>1. \A c \in RunKids(t, d) : t.tokens[c] \in Nat /\ t.tokens[c] <= Charge(t)[c]
    BY <1>1, <1>4, <1>5, <1>6
  <2> QED
    BY <1>1, <1>6, <2>1, TotalGrows
<1>8. Total(t.tokens, RunKids(t, d)) \in Nat
  BY <1>2, <1>4, TotalRemove
<1> QED
  BY <1>1, <1>2, <1>4, <1>7, <1>8, ChildrenChargeIs

LEMMA ReservesRunFit ==
    ASSUME NEW t \in Tree, Sound(t), FewNodes(t), BottomOut(t), Priced(t), RunFit(t),
           NEW s \in Sessions, NEW p \in Sessions \cup {NoSession},
           NEW tokens \in MaybeCount, NEW own \in MaybeCount, NEW u,
           Reserves(t, u, s, p, tokens, own)
    PROVE  RunFit(u)
<1>0. Adds(t, u, s, p, tokens, own)
  BY DEF Reserves
<1>1. Added(t, u, s, p, tokens, own)
  BY <1>0, AddsFields
<1>2. /\ Children(u, s) = {}
      /\ \A d \in Sessions : /\ s \notin Children(t, d)
                             /\ d # p => Children(u, d) = Children(t, d)
                             /\ d = p => Children(u, d) = Children(t, d) \cup {s}
  BY <1>0, AddsChildren
<1>4. \A d \in Sessions : Children(t, d) \subseteq Sessions
  BY FewChildren
<1> SUFFICES ASSUME NEW d \in Sessions, u.tokens[d] # NoCount
             PROVE  Total(u.tokens, RunKids(u, d)) <= u.tokens[d]
  BY DEF RunFit
<1>5. u.tokens[d] \in Nat
  BY <1>1, TreeAssumption DEF Added, Tree, MaybeCount, Counts
<1>6. CASE d = s
  <2>1. RunKids(u, d) = {}
    BY <1>2, <1>6 DEF RunKids
  <2>2. Total(u.tokens, RunKids(u, d)) = 0
    BY <2>1, TotalUnfolds, FS_EmptySet
  <2> QED
    BY <2>2, <1>5
<1>7. ASSUME d # s PROVE /\ u.tokens[d] = t.tokens[d] /\ s \notin RunKids(t, d)
                         /\ \A c \in RunKids(t, d) : c # s /\ c \in Sessions /\ u.tokens[c] = t.tokens[c]
                         /\ IsFiniteSet(RunKids(t, d)) /\ \A c \in RunKids(t, d) : t.tokens[c] \in Nat
                         /\ Total(t.tokens, RunKids(t, d)) \in Nat
                         /\ Total(t.tokens, RunKids(t, d)) <= ChildrenCharge(t, d)
  <2>1. u.tokens[d] = t.tokens[d] /\ s \notin RunKids(t, d)
    BY <1>1, <1>2, <1>7 DEF Added, RunKids
  <2>2. /\ IsFiniteSet(RunKids(t, d)) /\ RunKids(t, d) \subseteq Sessions
        /\ \A c \in RunKids(t, d) : t.tokens[c] \in Nat
        /\ Total(t.tokens, RunKids(t, d)) \in Nat
        /\ Total(t.tokens, RunKids(t, d)) <= ChildrenCharge(t, d)
    BY <2>1, RunningCost
  <2>3. \A c \in RunKids(t, d) : c # s /\ c \in Sessions /\ u.tokens[c] = t.tokens[c]
    BY <1>1, <2>1, <2>2 DEF Added
  <2> QED
    BY <2>1, <2>2, <2>3
<1>8. CASE d # s /\ d # p
  <2>1. RunKids(u, d) = RunKids(t, d)
    BY <1>1, <1>2, <1>4, <1>8 DEF RunKids, Running, Added
  <2>2. Total(t.tokens, RunKids(t, d)) = Total(u.tokens, RunKids(t, d))
    BY <1>7, <1>8, TotalSame
  <2>3. Total(t.tokens, RunKids(t, d)) <= t.tokens[d]
    BY <1>7, <1>8 DEF RunFit
  <2> QED
    BY <1>7, <1>8, <2>1, <2>2, <2>3
<1>9. CASE d = p
  <2>1. d # s /\ u.tokens[s] = tokens /\ BudgetFits(t, d, own, tokens) /\ t.tokens[d] # NoCount
    BY <1>1, <1>9 DEF Added, Reserves
  <2>o. PICK o : o = IF own = NoCount THEN 0 ELSE own
    OBVIOUS
  <2>2. /\ tokens \in Nat /\ t.tokens[d] \in Nat /\ o \in Nat
        /\ ChildrenCharge(t, d) \in Nat
        /\ tokens + ChildrenCharge(t, d) + o <= t.tokens[d]
    BY <2>1, <2>o, Room
  <2>3. RunKids(u, d) = RunKids(t, d) \cup {s}
    BY <1>1, <1>2, <1>4, <1>9 DEF RunKids, Running, Added
  <2>4. Total(u.tokens, RunKids(t, d) \cup {s}) = u.tokens[s] + Total(t.tokens, RunKids(t, d))
    BY <1>7, <2>1, <2>2, TotalAdds
  <2> QED
    BY <1>7, <2>1, <2>2, <2>3, <2>4
<1> QED
  BY <1>6, <1>8, <1>9

-----------------------------------------------------------------------------
(* What ended counted what is below it, and that stands still.             *)

\* Below a node that ended everything has ended.
LEMMA EndedBelow ==
    ASSUME NEW t \in Tree, Sound(t), NEW d \in Sessions, t.state[d] = "ended"
    PROVE  \A c \in Children(t, d) : c \in Sessions /\ t.state[c] = "ended"
<1>1. \A c \in Sessions : t.state[c] \in {"none", "running", "ended"}
  BY DEF Tree
<1>2. d # NoSession
  BY TreeAssumption
<1> QED
  BY <1>1, <1>2 DEF Children, Sound, IsNode, Running

\* A row may touch anything but what had ended.
EndedStands(t, u) ==
    \A d \in Sessions : t.state[d] = "ended" =>
        /\ Children(u, d) = Children(t, d)
        /\ u.state[d] = t.state[d] /\ u.used[d] = t.used[d] /\ u.tokens[d] = t.tokens[d]

LEMMA ChargesStand ==
    ASSUME NEW t \in Tree, Sound(t), FewNodes(t), BottomOut(t),
           NEW u \in Tree, FewNodes(u), BottomOut(u), EndedStands(t, u),
           NEW d \in Sessions, \A c \in Children(t, d) : t.state[c] = "ended",
           Children(u, d) = Children(t, d)
    PROVE  ChildrenCharge(u, d) = ChildrenCharge(t, d)
<1> DEFINE X == {c \in Sessions : t.state[c] = "ended"}
<1>1. IsCharge(Charge(t), t) /\ IsCharge(Charge(u), u)
  BY ChargeIs
<1>2. \A c \in X : /\ Children(t, c) \subseteq X /\ Children(u, c) = Children(t, c)
                   /\ u.state[c] = t.state[c] /\ u.used[c] = t.used[c]
                   /\ u.tokens[c] = t.tokens[c]
  BY EndedBelow DEF EndedStands
<1>3. X \in SUBSET Sessions
  OBVIOUS
<1>4. IsFiniteSet(Children(t, d)) /\ \A c \in Children(t, d) : c \in X
  BY FewChildren
<1> HIDE DEF X
<1>5. \A c \in X : Charge(t)[c] = Charge(u)[c]
  BY <1>1, <1>2, <1>3, SameCharges
<1>6. Total(Charge(t), Children(t, d)) = Total(Charge(u), Children(t, d))
  BY <1>4, <1>5, TotalSame
<1> QED
  BY <1>6, ChildrenChargeIs

LEMMA RolledStands ==
    ASSUME NEW t \in Tree, Sound(t), FewNodes(t), BottomOut(t), Rolled(t),
           NEW u \in Tree, FewNodes(u), BottomOut(u), EndedStands(t, u),
           NEW d \in Sessions, t.state[d] = "ended", u.used[d] # NoCount
    PROVE  u.used[d] >= AtMost(ChildrenCharge(u, d), MaxCount)
<1>1. u.used[d] = t.used[d] /\ Children(u, d) = Children(t, d)
  BY DEF EndedStands
<1>2. \A c \in Children(t, d) : t.state[c] = "ended"
  BY EndedBelow
<1>3. ChildrenCharge(u, d) = ChildrenCharge(t, d)
  BY <1>1, <1>2, ChargesStand
<1> QED
  BY <1>1, <1>3 DEF Rolled

LEMMA ReservesRolled ==
    ASSUME NEW t \in Tree, Sound(t), FewNodes(t), BottomOut(t), Rolled(t),
           NEW s \in Sessions, NEW p \in Sessions \cup {NoSession},
           NEW tokens, NEW own, NEW u, Adds(t, u, s, p, tokens, own)
    PROVE  Rolled(u)
<1>1. Added(t, u, s, p, tokens, own)
  BY AddsFields
<1>2. /\ Children(u, s) = {}
      /\ \A d \in Sessions : /\ s \notin Children(t, d)
                             /\ d # p => Children(u, d) = Children(t, d)
                             /\ d = p => Children(u, d) = Children(t, d) \cup {s}
  BY AddsChildren
<1>3. EndedStands(t, u)
  BY <1>1, <1>2 DEF EndedStands, Added, Running, IsNode
<1>4. u \in Tree /\ FewNodes(u) /\ BottomOut(u)
  BY <1>1, AddsForest DEF Added
<1>5. \A d \in Sessions : u.state[d] = "ended" => t.state[d] = "ended"
  BY <1>1 DEF Added
<1> QED
  BY <1>3, <1>4, <1>5, RolledStands DEF Rolled
-----------------------------------------------------------------------------
(* A node that ends.                                                       *)

LEMMA EndsFields ==
    ASSUME NEW t \in Tree, NEW s \in Sessions, NEW used, NEW u, Ends(t, u, s, used)
    PROVE  /\ u \in Tree /\ t.state[s] = "running" /\ u.state[s] = "ended" /\ u.used[s] = used
           /\ \A c \in Sessions : c # s => u.state[c] = t.state[c] /\ u.used[c] = t.used[c]
           /\ u.parent = t.parent /\ u.tokens = t.tokens /\ u.own = t.own
           /\ \A d \in Sessions : IsNode(u, d) <=> IsNode(t, d)
           /\ \A d : Children(u, d) = Children(t, d)
<1>1. /\ u \in Tree /\ t.state[s] = "running" /\ u.state[s] = "ended" /\ u.used[s] = used
      /\ \A c \in Sessions : c # s => u.state[c] = t.state[c] /\ u.used[c] = t.used[c]
      /\ u.parent = t.parent /\ u.tokens = t.tokens /\ u.own = t.own
  BY DEF Ends, Tree, Running
<1>2. \A d \in Sessions : IsNode(u, d) <=> IsNode(t, d)
  BY <1>1 DEF IsNode
<1>3. \A d : Children(u, d) = Children(t, d)
  BY <1>1, <1>2 DEF Children
<1> QED
  BY <1>1, <1>2, <1>3

LEMMA EndsForest ==
    ASSUME NEW t \in Tree, NEW s \in Sessions, NEW used, NEW u, Ends(t, u, s, used),
           FewNodes(t), BottomOut(t), Blank(t), Priced(t)
    PROVE  FewNodes(u) /\ BottomOut(u) /\ Blank(u) /\ Priced(u)
<1>1. /\ u \in Tree /\ t.state[s] = "running" /\ u.state[s] = "ended" /\ u.used[s] = used
      /\ \A c \in Sessions : c # s => u.state[c] = t.state[c] /\ u.used[c] = t.used[c]
      /\ u.parent = t.parent /\ u.tokens = t.tokens /\ u.own = t.own
      /\ \A d \in Sessions : IsNode(u, d) <=> IsNode(t, d)
      /\ \A d : Children(u, d) = Children(t, d)
  BY EndsFields
<1>2. FewNodes(u)
  <2>1. {d \in Sessions : IsNode(u, d)} = {d \in Sessions : IsNode(t, d)}
    BY <1>1
  <2> QED
    BY <2>1 DEF FewNodes
<1>3. BottomOut(u)
  BY <1>1 DEF BottomOut
<1>4. Blank(u)
  BY <1>1 DEF Blank
<1>5. Priced(u)
  BY <1>1 DEF Priced
<1> QED
  BY <1>2, <1>3, <1>4, <1>5

LEMMA EndsSplit ==
    ASSUME NEW t \in Tree, NEW s \in Sessions, NEW used \in MaybeCount, NEW u, Ends(t, u, s, used),
           FewNodes(t), BottomOut(t), Blank(t), Priced(t), Split(t)
    PROVE  Split(u)
<1>1. /\ u \in Tree /\ t.state[s] = "running" /\ u.state[s] = "ended" /\ u.used[s] = used
      /\ \A c \in Sessions : c # s => u.state[c] = t.state[c] /\ u.used[c] = t.used[c]
      /\ u.parent = t.parent /\ u.tokens = t.tokens /\ u.own = t.own
      /\ \A d : Children(u, d) = Children(t, d)
  BY EndsFields
<1>2. FewNodes(u) /\ BottomOut(u)
  BY EndsForest
<1> SUFFICES ASSUME NEW d \in Sessions, t.tokens[d] # NoCount,
                    \A c \in Children(t, d) : ~Overran(u, c)
             PROVE  Total(Cost(u), Children(t, d)) + OwnUse(t, d) <= t.tokens[d]
  BY <1>1 DEF Split, OwnUse
<1>3. IsFiniteSet(Children(t, d)) /\ Children(t, d) \in SUBSET Sessions
      /\ Children(t, d) \in SUBSET Children(t, d)
  BY FewChildren
<1>4. \A c \in Children(t, d) : ~Overran(t, c)
  <2>1. t.used[s] = NoCount
    BY <1>1 DEF Blank
  <2> QED
    BY <1>1, <1>3, <2>1 DEF Overran
<1>5. Total(Cost(t), Children(t, d)) + OwnUse(t, d) <= t.tokens[d]
  BY <1>4 DEF Split
<1>6. \A c \in Children(t, d) : Cost(u)[c] \in Nat /\ Cost(t)[c] \in Nat
  BY <1>1, <1>2, <1>3, ChargeCovers
<1>7. \A c \in Children(t, d) : Cost(u)[c] <= Cost(t)[c]
  <2> SUFFICES ASSUME NEW c \in Children(t, d) PROVE Cost(u)[c] <= Cost(t)[c]
    OBVIOUS
  <2>1. CASE c # s
    <3>1. Cost(u)[c] = Cost(t)[c]
      BY <1>1, <1>3, <2>1 DEF Cost
    <3> QED
      BY <3>1, <1>6
  <2>2. CASE c = s
    <3>1. t.tokens[s] # NoCount /\ ~Overran(u, s)
      BY <2>2 DEF Priced
    <3>2. t.tokens[s] \in Nat /\ (used # NoCount => used \in Nat)
      BY <3>1, TreeAssumption DEF Tree, MaybeCount, Counts
    <3>3. Cost(t)[s] = t.tokens[s]
      BY <1>1, <3>1 DEF Cost
    <3>4. Cost(u)[s] = IF used # NoCount THEN used ELSE t.tokens[s]
      BY <1>1, <3>1 DEF Cost
    <3> QED
      BY <1>1, <2>2, <3>1, <3>2, <3>3, <3>4 DEF Overran
  <2> QED
    BY <2>1, <2>2
<1>8. Total(Cost(u), Children(t, d)) <= Total(Cost(t), Children(t, d))
  BY <1>3, <1>6, <1>7, TotalGrows
<1>9. Total(Cost(u), Children(t, d)) \in Nat /\ Total(Cost(t), Children(t, d)) \in Nat
  BY <1>3, <1>6, TotalRemove
<1>10. t.tokens[d] \in Nat /\ OwnUse(t, d) \in Nat
  BY TreeAssumption DEF Tree, MaybeCount, Counts, OwnUse
<1> QED
  BY <1>5, <1>8, <1>9, <1>10

LEMMA EndsRunFit ==
    ASSUME NEW t \in Tree, NEW s \in Sessions, NEW used, NEW u, Ends(t, u, s, used),
           FewNodes(t), BottomOut(t), Priced(t), RunFit(t)
    PROVE  RunFit(u)
<1>1. /\ u \in Tree /\ t.state[s] = "running" /\ u.state[s] = "ended"
      /\ \A c \in Sessions : c # s => u.state[c] = t.state[c]
      /\ u.tokens = t.tokens
      /\ \A d : Children(u, d) = Children(t, d)
  BY EndsFields
<1> SUFFICES ASSUME NEW d \in Sessions, t.tokens[d] # NoCount
             PROVE  Total(t.tokens, RunKids(u, d)) <= t.tokens[d]
  BY <1>1 DEF RunFit
<1>2. /\ IsFiniteSet(RunKids(t, d)) /\ RunKids(t, d) \subseteq Sessions
      /\ \A c \in RunKids(t, d) : t.tokens[c] \in Nat
      /\ Total(t.tokens, RunKids(t, d)) \in Nat
  BY RunningCost
<1>3. RunKids(u, d) \in SUBSET RunKids(t, d)
  <2>1. Children(t, d) \subseteq Sessions
    BY FewChildren
  <2> QED
    BY <1>1, <2>1 DEF RunKids, Running
<1>4. Total(t.tokens, RunKids(u, d)) <= Total(t.tokens, RunKids(t, d))
  BY <1>2, <1>3, TotalGrows
<1>5. Total(t.tokens, RunKids(u, d)) \in Nat
  <2>1. IsFiniteSet(RunKids(u, d)) /\ \A c \in RunKids(u, d) : t.tokens[c] \in Nat
    BY <1>2, <1>3, FS_Subset
  <2> QED
    BY <2>1, TotalRemove
<1>6. Total(t.tokens, RunKids(t, d)) <= t.tokens[d]
  BY DEF RunFit
<1>7. t.tokens[d] \in Nat
  BY TreeAssumption DEF Tree, MaybeCount, Counts
<1> QED
  BY <1>2, <1>4, <1>5, <1>6, <1>7

LEMMA EndsRolled ==
    ASSUME NEW t \in Tree, Sound(t), FewNodes(t), BottomOut(t), Blank(t), Priced(t), Rolled(t),
           NEW s \in Sessions, NEW own \in MaybeCount, NEW used, used = BranchTotal(t, s, own),
           NEW u, Ends(t, u, s, used)
    PROVE  Rolled(u)
<1>1. /\ u \in Tree /\ t.state[s] = "running" /\ u.state[s] = "ended" /\ u.used[s] = used
      /\ \A c \in Sessions : c # s => u.state[c] = t.state[c] /\ u.used[c] = t.used[c]
      /\ u.tokens = t.tokens
      /\ \A d : Children(u, d) = Children(t, d)
  BY EndsFields
<1>2. FewNodes(u) /\ BottomOut(u)
  BY EndsForest
<1>3. EndedStands(t, u)
  BY <1>1 DEF EndedStands
<1>4. \A c \in Children(t, s) : t.state[c] = "ended"
  <2>1. \A c \in Children(t, s) : c \in Sessions /\ IsNode(t, c) /\ ~Running(t, c)
    BY DEF Ends, Children
  <2> QED
    BY <2>1 DEF Tree, IsNode, Running
<1>5. ChildrenCharge(u, s) = ChildrenCharge(t, s) /\ ChildrenCharge(t, s) \in Nat
  BY <1>1, <1>2, <1>3, <1>4, ChargesStand, ChargeIs
<1>6. used # NoCount => used >= AtMost(ChildrenCharge(u, s), MaxCount)
  <2>1. own # NoCount => own \in Nat
    BY DEF MaybeCount, Counts
  <2> QED
    BY <1>5, <2>1, TreeAssumption DEF BranchTotal, AtMost
<1>7. ASSUME NEW d \in Sessions, d # s, u.state[d] = "ended", u.used[d] # NoCount
      PROVE  u.used[d] >= AtMost(ChildrenCharge(u, d), MaxCount)
  <2>1. t.state[d] = "ended"
    BY <1>1, <1>7
  <2> QED
    BY <1>1, <1>2, <1>3, <1>7, <2>1, RolledStands
<1> QED
  BY <1>1, <1>6, <1>7 DEF Rolled

-----------------------------------------------------------------------------
(* The invariant.                                                          *)

LEMMA InertBudgeted ==
    ASSUME NEW t \in Tree, Sound(t), Budgeted(t), NEW u, Inert(t, u)
    PROVE  Budgeted(u)
<1>1. /\ u \in Tree /\ u.state = t.state /\ u.parent = t.parent
      /\ u.tokens = t.tokens /\ u.own = t.own /\ u.used = t.used
      /\ FewNodes(t) /\ BottomOut(t) /\ Blank(t) /\ Priced(t) /\ Split(t) /\ RunFit(t) /\ Rolled(t)
  BY DEF Inert, Budgeted
<1>2. \A d : Children(u, d) = Children(t, d)
  BY <1>1 DEF Children, IsNode
<1>3. \A d : RunKids(u, d) = RunKids(t, d)
  BY <1>1, <1>2 DEF RunKids, Running
<1>4. FewNodes(u) /\ BottomOut(u)
  BY <1>1, <1>2 DEF FewNodes, BottomOut, IsNode
<1>5. Blank(u) /\ Priced(u)
  BY <1>1, <1>2 DEF Blank, Priced, IsNode
<1>6. Split(u)
  <2>1. Cost(u) = Cost(t)
    BY <1>1 DEF Cost
  <2> QED
    BY <1>1, <1>2, <2>1 DEF Split, OwnUse, Overran
<1>7. RunFit(u)
  BY <1>1, <1>3 DEF RunFit
<1>8. Rolled(u)
  <2>1. EndedStands(t, u)
    BY <1>1, <1>2 DEF EndedStands
  <2> QED
    BY <1>1, <1>4, <2>1, RolledStands DEF Rolled
<1> QED
  BY <1>4, <1>5, <1>6, <1>7, <1>8 DEF Budgeted

LEMMA ReservesBudgeted ==
    ASSUME NEW t \in Tree, Sound(t), Budgeted(t),
           NEW s \in Sessions, NEW p \in Sessions \cup {NoSession},
           NEW tokens \in MaybeCount, NEW own \in MaybeCount, NEW u,
           Reserves(t, u, s, p, tokens, own)
    PROVE  Budgeted(u)
<1>1. /\ FewNodes(t) /\ BottomOut(t) /\ Blank(t) /\ Priced(t) /\ Split(t) /\ RunFit(t) /\ Rolled(t)
      /\ Adds(t, u, s, p, tokens, own)
  BY DEF Budgeted, Reserves
<1>2. FewNodes(u) /\ BottomOut(u)
  BY <1>1, AddsForest
<1>3. Blank(u) /\ Priced(u)
  BY <1>1, AddsBlank, ReservesPriced
<1>4. Split(u)
  BY <1>1, ReservesSplit
<1>5. RunFit(u)
  BY <1>1, ReservesRunFit
<1>6. Rolled(u)
  BY <1>1, ReservesRolled
<1> QED
  BY <1>2, <1>3, <1>4, <1>5, <1>6 DEF Budgeted

LEMMA EndsBudgeted ==
    ASSUME NEW t \in Tree, Sound(t), Budgeted(t), NEW s \in Sessions, NEW own \in MaybeCount,
           NEW used \in MaybeCount, used = BranchTotal(t, s, own), NEW u, Ends(t, u, s, used)
    PROVE  Budgeted(u)
<1>1. FewNodes(t) /\ BottomOut(t) /\ Blank(t) /\ Priced(t) /\ Split(t) /\ RunFit(t) /\ Rolled(t)
  BY DEF Budgeted
<1>2. FewNodes(u) /\ BottomOut(u) /\ Blank(u) /\ Priced(u)
  BY <1>1, EndsForest
<1>3. Split(u)
  BY <1>1, EndsSplit
<1>4. RunFit(u)
  BY <1>1, EndsRunFit
<1>5. Rolled(u)
  BY <1>1, EndsRolled
<1> QED
  BY <1>2, <1>3, <1>4, <1>5 DEF Budgeted
BudgetInv == Budgeted(tree) /\ Told

LEMMA StartsAreClaims ==
    ASSUME IInv, NEW c \in Starts
    PROVE  c.what = "started" /\ c.session \in Sessions
<1>1. c \in Claim /\ c.what = "started"
  BY DEF Starts, IInv, TypeOK, Pending
<1> QED
  BY <1>1 DEF Claim

LEMMA InitBudget == Init => BudgetInv
<1> SUFFICES ASSUME Init PROVE BudgetInv
  OBVIOUS
<1>1. /\ \A s \in Sessions : /\ ~IsNode(tree, s) /\ tree.state[s] = "none"
                             /\ tree.tokens[s] = NoCount /\ tree.own[s] = NoCount
                             /\ tree.used[s] = NoCount
      /\ claims = {} /\ holder = Nobody
  BY DEF Init, EmptyTree, IsNode
<1>2. FewNodes(tree)
  <2>1. {s \in Sessions : IsNode(tree, s)} = {}
    BY <1>1
  <2> QED
    BY <2>1, FS_EmptySet DEF FewNodes
<1>3. BottomOut(tree)
  BY <1>1 DEF BottomOut, Children
<1>4. Blank(tree) /\ Priced(tree) /\ Split(tree) /\ RunFit(tree) /\ Rolled(tree)
  BY <1>1 DEF Blank, Priced, Split, RunFit, Rolled
<1>5. Told
  BY <1>1 DEF Told, Starts
<1> QED
  BY <1>2, <1>3, <1>4, <1>5 DEF BudgetInv, Budgeted

LEMMA NextBudget == IInv /\ BudgetInv /\ [Next]_vars => BudgetInv'
<1> SUFFICES ASSUME IInv, BudgetInv, [Next]_vars PROVE BudgetInv'
  OBVIOUS
<1>0. /\ tree \in Tree /\ Sound(tree) /\ Budgeted(tree) /\ Told
  BY DEF IInv, TypeOK, BudgetInv
<1>i. IInv'
  BY NextKeeps
<1>b. BudgetStep
  BY NextIsBudgetStep
<1> SUFFICES Budgeted(tree') /\ Told'
  BY DEF BudgetInv
<1>1. CASE StandsStill
  <2>1. Inert(tree, tree') /\ (lost' = {} => Starts' \subseteq Starts)
    BY <1>1 DEF StandsStill
  <2>2. Budgeted(tree')
    BY <1>0, <2>1, InertBudgeted
  <2>3. \A d \in Sessions : IsNode(tree, d) =>
               /\ IsNode(tree', d) /\ tree'.tokens[d] = tree.tokens[d]
               /\ tree'.parent[d] = tree.parent[d]
    BY <2>1 DEF Inert, IsNode
  <2>4. Told'
    BY <1>0, <1>b, <2>1, <2>3, StartsAreClaims DEF Told, BudgetStep
  <2> QED
    BY <2>2, <2>4
<1>2. ASSUME NEW s \in Sessions, NEW p \in Sessions \cup {NoSession},
             NEW tokens \in MaybeCount, NEW own \in MaybeCount, StartsOne(s, p, tokens, own)
      PROVE  Budgeted(tree') /\ Told'
  <2>1. /\ Reserves(tree, tree', s, p, tokens, own) /\ Adds(tree, tree', s, p, tokens, own)
        /\ lost' = {} => Starts' \subseteq Starts \cup {Started(s, p, tokens)}
    BY <1>2 DEF StartsOne, Reserves
  <2>2. Budgeted(tree')
    BY <1>0, <2>1, ReservesBudgeted
  <2>3. Added(tree, tree', s, p, tokens, own)
    BY <1>0, <2>1, AddsFields
  <2>4. /\ \A d \in Sessions : IsNode(tree, d) =>
              /\ IsNode(tree', d) /\ tree'.tokens[d] = tree.tokens[d]
              /\ tree'.parent[d] = tree.parent[d]
        /\ IsNode(tree', s) /\ tree'.tokens[s] = tokens /\ tree'.parent[s] = p
    BY <2>3 DEF Added, IsNode
  <2>5. LET n == Started(s, p, tokens) IN n.session = s /\ n.tokens = tokens /\ n.parent = p
    BY DEF Started
  <2>6. Told'
    <3> SUFFICES ASSUME lost' = {}, NEW c \in Starts'
                 PROVE  /\ IsNode(tree', c.session) /\ tree'.tokens[c.session] = c.tokens
                        /\ tree'.parent[c.session] = c.parent
      BY DEF Told
    <3>1. CASE c \in Starts
      BY <1>0, <1>b, <2>4, <3>1, StartsAreClaims DEF Told, BudgetStep
    <3>2. CASE c = Started(s, p, tokens)
      BY <2>4, <2>5, <3>2
    <3> QED
      BY <2>1, <3>1, <3>2
  <2> QED
    BY <2>2, <2>6
<1>3. ASSUME NEW s \in Sessions, NEW own \in MaybeCount, NEW used \in MaybeCount,
             EndsOne(s, own, used)
      PROVE  Budgeted(tree') /\ Told'
  <2>1. /\ Ends(tree, tree', s, used) /\ used = BranchTotal(tree, s, own)
        /\ lost' = {} => Starts' \subseteq Starts
    BY <1>3 DEF EndsOne
  <2>2. Budgeted(tree')
    BY <1>0, <2>1, EndsBudgeted
  <2>3. /\ tree'.parent = tree.parent /\ tree'.tokens = tree.tokens
        /\ \A d \in Sessions : IsNode(tree', d) <=> IsNode(tree, d)
    BY <1>0, <2>1, EndsFields
  <2>4. Told'
    BY <1>0, <1>b, <2>1, <2>3, StartsAreClaims DEF Told, BudgetStep
  <2> QED
    BY <2>2, <2>4
<1> QED
  BY <1>b, <1>1, <1>2, <1>3 DEF BudgetStep

LEMMA AlwaysBudgeted == Spec => []BudgetInv
<1>1. IInv /\ BudgetInv /\ [Next]_vars => BudgetInv'
  BY NextBudget
<1> QED
  BY <1>1, InitBudget, Invariant, PTL DEF Spec

-----------------------------------------------------------------------------
(* The theorems.                                                           *)

\* MX-R-14: what is spent below a node is charged to it, at every depth and however its nodes ended, so
\* an overrun is seen at the root.
THEOREM OverrunIsSeen == Spec => []OverrunReachesRoot
<1>1. ASSUME IInv, BudgetInv PROVE OverrunReachesRoot
  <2>1. tree \in Tree /\ FewNodes(tree) /\ BottomOut(tree) /\ Rolled(tree)
    BY <1>1 DEF IInv, TypeOK, BudgetInv, Budgeted
  <2> SUFFICES ASSUME NEW s \in Sessions
               PROVE  Charge(tree)[s] >= AtMost(ChildrenCharge(tree, s), MaxCount)
    BY DEF OverrunReachesRoot
  <2>2. /\ ChildrenCharge(tree, s) \in Nat
        /\ Charge(tree)[s] = Owed(tree, s, ChildrenCharge(tree, s))
    BY <2>1, ChargeIs
  <2>3. CASE tree.state[s] = "ended" /\ tree.used[s] # NoCount
    BY <2>1, <2>2, <2>3 DEF Rolled, Owed
  <2>4. CASE ~(tree.state[s] = "ended" /\ tree.used[s] # NoCount)
    <3>1. tree.tokens[s] # NoCount => tree.tokens[s] \in Nat
      BY <2>1, TreeAssumption DEF Tree, MaybeCount, Counts
    <3> QED
      BY <2>2, <2>4, <3>1, TreeAssumption DEF Owed, AtMost, AtLeast
  <2> QED
    BY <2>3, <2>4
<1> QED
  BY <1>1, Invariant, AlwaysBudgeted, PTL
-----------------------------------------------------------------------------
(* Nothing but an overrun takes a node below zero.                         *)

\* The ancestors are what their recursion says: the least sets that hold the parent and theirs.
LEMMA AboveIs ==
    ASSUME NEW t \in Tree
    PROVE  \A s \in Sessions :
              Above(t)[s] = IF t.parent[s] = NoSession THEN {}
                            ELSE {t.parent[s]} \cup Above(t)[t.parent[s]]
<1> DEFINE q == t.parent
           Shut(X) == \A m \in X : q[m] # NoSession => q[m] \in X
           Reach(s) == {n \in Sessions :
                           \A X \in SUBSET Sessions : q[s] \in X /\ Shut(X) => n \in X}
           f == [s \in Sessions |-> IF q[s] = NoSession THEN {} ELSE Reach(s)]
<1>1. \A s \in Sessions : q[s] \in Sessions \cup {NoSession}
    BY DEF Tree
<1> HIDE DEF q
<1>2. ASSUME NEW s \in Sessions, q[s] # NoSession
      PROVE  Reach(s) = {q[s]} \cup IF q[q[s]] = NoSession THEN {} ELSE Reach(q[s])
  <2>1. q[s] \in Reach(s) /\ Shut(Reach(s))
    BY <1>1, <1>2
  <2>2. CASE q[q[s]] = NoSession
    <3>1. {q[s]} \in SUBSET Sessions /\ q[s] \in {q[s]} /\ Shut({q[s]})
      BY <1>1, <1>2, <2>2
    <3> QED
      BY <3>1, <2>1, <2>2
  <2>3. CASE q[q[s]] # NoSession
    <3> DEFINE X == {q[s]} \cup Reach(q[s])
    <3>1. q[q[s]] \in Reach(q[s]) /\ Shut(Reach(q[s]))
      BY <1>1, <1>2, <2>3
    <3>2. X \in SUBSET Sessions /\ q[s] \in X /\ Shut(X)
      BY <1>1, <1>2, <3>1
    <3>3. Reach(s) \subseteq X
      BY <3>2
    <3>4. \A n \in Reach(q[s]) : n \in Reach(s)
      BY <1>1, <1>2, <2>3
    <3> QED
      BY <3>3, <3>4, <2>1, <2>3
  <2> QED
    BY <2>2, <2>3
<1>3. f = [s \in Sessions |-> IF q[s] = NoSession THEN {} ELSE {q[s]} \cup f[q[s]]]
  <2> HIDE DEF Reach
  <2> QED
    BY <1>1, <1>2
<1>4. Above(t) = CHOOSE g : g = [s \in Sessions |-> IF t.parent[s] = NoSession THEN {}
                                                    ELSE {t.parent[s]} \cup g[t.parent[s]]]
  BY DEF Above
<1> HIDE DEF f
<1>5. Above(t) = [s \in Sessions |-> IF t.parent[s] = NoSession THEN {}
                                     ELSE {t.parent[s]} \cup Above(t)[t.parent[s]]]
  BY <1>3, <1>4 DEF q
<1> QED
  BY <1>5

\* When what the children are charged passes a node's budget though none of them overran, one of them is

\* charged more than its own cost: the excess comes from further below.
LEMMA ChargedMore ==
    ASSUME NEW t \in Tree, FewNodes(t), BottomOut(t), Split(t), NEW d \in Sessions,
           t.tokens[d] # NoCount, \A c \in Children(t, d) : ~Overran(t, c),
           ChildrenCharge(t, d) + OwnUse(t, d) > t.tokens[d]
    PROVE  \E c \in Children(t, d) : Charge(t)[c] > Cost(t)[c]
<1> SUFFICES ASSUME \A c \in Children(t, d) : ~(Charge(t)[c] > Cost(t)[c]) PROVE FALSE
  OBVIOUS
<1>1. IsFiniteSet(Children(t, d)) /\ Children(t, d) \in SUBSET Sessions
      /\ Children(t, d) \in SUBSET Children(t, d)
  BY FewChildren
<1>2. \A c \in Children(t, d) : /\ Charge(t)[c] \in Nat /\ Cost(t)[c] \in Nat
                                /\ Charge(t)[c] <= Cost(t)[c]
  BY <1>1, ChargeCovers
<1>3. Total(Charge(t), Children(t, d)) <= Total(Cost(t), Children(t, d))
  BY <1>1, <1>2, TotalGrows
<1>4. ChildrenCharge(t, d) \in Nat /\ Total(Cost(t), Children(t, d)) \in Nat
  BY ChildrenCost
<1>5. OwnUse(t, d) \in Nat /\ t.tokens[d] \in Nat
  BY TreeAssumption DEF Tree, MaybeCount, Counts, OwnUse
<1>6. Total(Cost(t), Children(t, d)) + OwnUse(t, d) <= t.tokens[d]
  BY DEF Split
<1>7. ChildrenCharge(t, d) <= Total(Cost(t), Children(t, d))
  BY <1>3, ChildrenChargeIs
<1> QED
  BY <1>4, <1>5, <1>6, <1>7

\* Budgets are split, not copied: what a node has given away passes its budget only when a node below it
\* ended with more than it had reserved, whatever was spawned, allowed, rolled up or left unreported.
THEOREM OnlyOverrunsOverspend == Spec => []OnlyOverrunsGoNegative
<1>1. ASSUME IInv, BudgetInv PROVE OnlyOverrunsGoNegative
  <2>t. PICK t : t = tree
    OBVIOUS
  <2>1. t \in Tree /\ FewNodes(t) /\ BottomOut(t) /\ Split(t) /\ Priced(t)
    BY <1>1, <2>t DEF IInv, TypeOK, BudgetInv, Budgeted
  <2> SUFFICES ASSUME NEW s \in Sessions, t.tokens[s] # NoCount, Left(t, s) < 0,
                      \A d \in Sessions : s \in Above(t)[d] => ~Overran(t, d)
               PROVE  FALSE
    BY <2>t DEF OnlyOverrunsGoNegative, Overran
  <2> DEFINE B == {d \in Sessions : s \in Above(t)[d]}
             D == {c \in B : \E d \in Sessions : /\ c \in Children(t, d) /\ t.tokens[d] # NoCount
                                               /\ Charge(t)[c] > Cost(t)[c]}
  <2>2. \A d \in Sessions : \A c \in Children(t, d) : d = s \/ d \in B => c \in B
    <3> SUFFICES ASSUME NEW d \in Sessions, NEW c \in Children(t, d), d = s \/ d \in B
                 PROVE  s \in Above(t)[c] /\ c \in Sessions
      OBVIOUS
    <3>1. c \in Sessions /\ t.parent[c] = d /\ d # NoSession
      BY TreeAssumption DEF Children
    <3>2. Above(t)[c] = {d} \cup Above(t)[d]
      BY <2>1, <3>1, AboveIs
    <3> QED
      BY <3>1, <3>2
  <2>3. \A d \in B : ~Overran(t, d)
    OBVIOUS
  <2> HIDE DEF B
  <2>4. ASSUME NEW c \in D PROVE \E e \in D : e \in Children(t, c)
    <3>1. PICK d \in Sessions : c \in Children(t, d) /\ t.tokens[d] # NoCount
                               /\ Charge(t)[c] > Cost(t)[c]
      OBVIOUS
    <3>2. c \in B /\ c \in Sessions /\ t.tokens[c] # NoCount
      BY <2>1, <3>1 DEF Priced, Children
    <3>3. /\ Charge(t)[c] = Owed(t, c, ChildrenCharge(t, c)) /\ ChildrenCharge(t, c) \in Nat
      BY <2>1, <3>2, ChargeIs
    <3>4. OwnUse(t, c) \in Nat /\ t.tokens[c] \in Nat /\ t.tokens[c] <= MaxCount /\ MaxCount \in Nat
      BY <2>1, <3>2, TreeAssumption DEF Tree, MaybeCount, Counts, OwnUse
    <3>5. ~(t.state[c] = "ended" /\ t.used[c] # NoCount)
      <4> SUFFICES ASSUME t.state[c] = "ended" /\ t.used[c] # NoCount PROVE FALSE
        OBVIOUS
      <4>1. Charge(t)[c] = Cost(t)[c]
        BY <3>2, <3>3 DEF Owed, Cost
      <4>2. Charge(t)[c] \in Nat /\ Cost(t)[c] \in Nat
        BY <2>1, <3>2, ChargeCovers
      <4> QED
        BY <3>1, <4>1, <4>2
    <3>6. Cost(t)[c] = t.tokens[c]
      BY <3>2, <3>5 DEF Cost
    <3>7. ChildrenCharge(t, c) > t.tokens[c]
      BY <3>1, <3>2, <3>3, <3>4, <3>5, <3>6 DEF Owed, AtMost, AtLeast
    <3>8. \A e \in Children(t, c) : ~Overran(t, e) /\ e \in B
      BY <2>2, <2>3, <3>2
    <3>9. ChildrenCharge(t, c) + OwnUse(t, c) > t.tokens[c]
      BY <3>3, <3>4, <3>7
    <3>10. \E e \in Children(t, c) : Charge(t)[e] > Cost(t)[e]
      BY <2>1, <3>2, <3>8, <3>9, ChargedMore
    <3> QED
      BY <3>2, <3>8, <3>10
  <2>5. D = {}
    <3>1. D \in SUBSET Sessions
      BY DEF B
    <3> HIDE DEF D
    <3> QED
      BY <2>1, <2>4, <3>1 DEF BottomOut
  <2>6. \A c \in Children(t, s) : c \in B /\ ~Overran(t, c)
    BY <2>2, <2>3
  <2>7. ChildrenCharge(t, s) + OwnUse(t, s) > t.tokens[s]
    <3>1. ChildrenCharge(t, s) \in Nat /\ OwnUse(t, s) \in Nat /\ t.tokens[s] \in Nat
      BY <2>1, ChargeIs, TreeAssumption DEF Tree, MaybeCount, Counts, OwnUse
    <3>2. t.tokens[s] - ChildrenCharge(t, s) - OwnUse(t, s) < 0
      BY DEF Left, LeftWith, OwnUse
    <3> QED
      BY <3>1, <3>2
  <2>8. \E c \in Children(t, s) : Charge(t)[c] > Cost(t)[c]
    BY <2>1, <2>6, <2>7, ChargedMore
  <2> QED
    BY <2>5, <2>6, <2>8
<1> QED
  BY <1>1, Invariant, AlwaysBudgeted, PTL
-----------------------------------------------------------------------------
(* Reservations are given once.                                            *)

\* The sum of what claims say was reserved is a total over them.
LEMMA SumOfClaims ==
    ASSUME NEW H, IsFiniteSet(H)
    PROVE  MapThenSumSet(LAMBDA c : c.tokens, H) = Total([c \in H |-> c.tokens], H)
<1> DEFINE f == [c \in H |-> c.tokens]
           Adding(g) == g = [T \in SUBSET H |-> IF T = {} THEN 0
                                                ELSE Pick(T).tokens + g[T \ {Pick(T)}]]
           g == CHOOSE g : Adding(g)
           h == CHOOSE h : IsSum(h, f, H)
<1>1. MapThenSumSet(LAMBDA c : c.tokens, H) = g[H]
  BY DEF MapThenSumSet, MapThenFoldSet, Pick
<1>2. ASSUME NEW k PROVE Adding(k) <=> IsSum(k, f, H)
  <2>1. \A T \in SUBSET H : T # {} => f[Pick(T)] = Pick(T).tokens
    BY PickIn
  <2> HIDE DEF f
  <2>2. [T \in SUBSET H |-> IF T = {} THEN 0 ELSE Pick(T).tokens + k[T \ {Pick(T)}]]
        = [T \in SUBSET H |-> IF T = {} THEN 0 ELSE f[Pick(T)] + k[T \ {Pick(T)}]]
    BY <2>1
  <2> QED
    BY <2>2 DEF IsSum
<1>3. IsSum(h, f, H)
  BY SumExists
<1>4. Adding(g)
  <2> HIDE DEF Adding, f, h
  <2>1. \E k : Adding(k)
    BY <1>2, <1>3
  <2> QED
    BY <2>1
<1>5. Total(f, H) = h[H]
  BY TotalIs
<1> HIDE DEF Adding, f, g, h
<1>6. IsSum(g, f, H)
  BY <1>2, <1>4
<1>7. g[H] = h[H]
  <2>1. H \in SUBSET (H \cap H)
    OBVIOUS
  <2> QED
    BY <1>3, <1>6, <2>1, SumUnique
<1> QED
  BY <1>1, <1>5, <1>7 DEF f

\* TR-R-5: what starters were told they may hold under one node, and hold still, fits its budget together,
\* as long as no row was lost: two starters cannot reserve the same budget.
THEOREM BudgetIsReservedOnce == Spec => []KeptReservationsFit
<1>1. ASSUME IInv, BudgetInv PROVE KeptReservationsFit
  <2>t. PICK t : t = tree
    OBVIOUS
  <2>1. /\ t \in Tree /\ FewNodes(t) /\ BottomOut(t) /\ Priced(t) /\ RunFit(t) /\ Told
        /\ claims \subseteq Claim
    BY <1>1, <2>t DEF IInv, TypeOK, BudgetInv, Budgeted
  <2> SUFFICES ASSUME lost = {}, NEW p \in Sessions, t.tokens[p] # NoCount
               PROVE  MapThenSumSet(LAMBDA c : c.tokens, Held(p)) <= t.tokens[p]
    BY <2>t DEF KeptReservationsFit, ReservationsFit
  <2>h. PICK H : H = Held(p)
    OBVIOUS
  <2>2. /\ IsFiniteSet(RunKids(t, p)) /\ RunKids(t, p) \subseteq Sessions
        /\ \A c \in RunKids(t, p) : t.tokens[c] \in Nat
    BY <2>1, RunningCost
  <2>3. \A c \in H : c \in Claim /\ c.what = "started" /\ c.parent = p /\ t.state[c.session] # "ended"
    BY <2>1, <2>h, <2>t DEF Held
  <2>4. \A c \in H : /\ c.session \in Sessions /\ IsNode(t, c.session)
                     /\ t.tokens[c.session] = c.tokens /\ t.parent[c.session] = p
    <3>1. \A c \in H : c \in Starts
      BY <2>3, <2>h DEF Starts, Held
    <3>2. \A c \in Starts : /\ IsNode(tree, c.session) /\ tree.tokens[c.session] = c.tokens
                            /\ tree.parent[c.session] = c.parent
      BY <2>1 DEF Told
    <3> QED
      BY <1>1, <2>3, <2>t, <3>1, <3>2, StartsAreClaims
  <2>5. \A c \in H : c.session \in RunKids(t, p)
    <3> SUFFICES ASSUME NEW c \in H PROVE c.session \in RunKids(t, p)
      OBVIOUS
    <3>1. /\ c.session \in Sessions /\ IsNode(t, c.session) /\ t.parent[c.session] = p
          /\ t.state[c.session] # "ended"
      BY <2>3, <2>4
    <3>2. t.state[c.session] \in {"none", "running", "ended"}
      BY <2>1, <3>1 DEF Tree
    <3> QED
      BY <3>1, <3>2 DEF RunKids, Children, IsNode, Running
  <2>6. \A c, d \in H : c.session = d.session => c = d
    <3> SUFFICES ASSUME NEW c \in H, NEW d \in H, c.session = d.session PROVE c = d
      OBVIOUS
    <3>1. c.tokens = d.tokens /\ c.parent = d.parent /\ c.what = "started" /\ d.what = "started"
      BY <2>3, <2>4
    <3>2. \A x \in Claim : x.what = "started" =>
              x \in [what : {"started"}, session : Sessions, tokens : MaybeCount,
                     parent : Sessions \cup {NoSession}]
      BY DEF Claim
    <3>3. \A x, y \in [what : {"started"}, session : Sessions, tokens : MaybeCount,
                       parent : Sessions \cup {NoSession}] :
              x.session = y.session /\ x.tokens = y.tokens /\ x.parent = y.parent => x = y
      OBVIOUS
    <3> QED
      BY <2>3, <3>1, <3>2, <3>3
  <2> DEFINE q == [c \in H |-> c.session]
             f == [c \in H |-> c.tokens]
  <2>7. IsFiniteSet(H)
    <3>1. q \in Injection(H, RunKids(t, p))
      BY <2>5, <2>6 DEF Injection, IsInjective
    <3> HIDE DEF q
    <3> QED
      BY <2>2, <3>1, FS_Injection
  <2>8. /\ \A c \in H : f[c] \in Nat /\ q[c] \in RunKids(t, p) /\ f[c] = t.tokens[q[c]]
        /\ \A c, d \in H : q[c] = q[d] => c = d
    BY <2>2, <2>4, <2>5, <2>6
  <2>9. MapThenSumSet(LAMBDA c : c.tokens, H) = Total(f, H)
    BY <2>7, SumOfClaims
  <2> HIDE DEF q, f
  <2>10. Total(f, H) <= Total(t.tokens, RunKids(t, p))
    <3>1. \A c \in H : q[c] \in RunKids(t, p) /\ f[c] <= t.tokens[q[c]]
      BY <2>2, <2>8
    <3> QED
      BY <2>2, <2>7, <2>8, <3>1, TotalInto
  <2>11. Total(t.tokens, RunKids(t, p)) <= t.tokens[p]
    BY <2>1 DEF RunFit
  <2>12. /\ Total(f, H) \in Nat /\ Total(t.tokens, RunKids(t, p)) \in Nat /\ t.tokens[p] \in Nat
    BY <2>1, <2>2, <2>7, <2>8, TotalRemove, TreeAssumption DEF Tree, MaybeCount, Counts
  <2> QED
    BY <2>h, <2>9, <2>10, <2>11, <2>12
<1> QED
  BY <1>1, Invariant, AlwaysBudgeted, PTL
=============================================================================
