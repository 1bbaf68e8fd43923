---------------------------- MODULE ChatTreeProofs ----------------------------
(* Theorems about ChatTree, for any messages, sizes, answers and bounds, with  *)
(* any number of stops, crashes, failed writes and spoiled files.              *)
EXTENDS ChatTree, WellFoundedInduction, SequenceTheorems, TLAPS

-----------------------------------------------------------------------------
(* Numbers, and functions that are defined by recursion over a range.          *)

\* A set of numbers that is not empty has a least one.
LEMMA Least ==
    ASSUME NEW S \in SUBSET Nat, S # {}
    PROVE  \E n \in S : \A m \in S : n <= m
<1> DEFINE R == OpToRel(<, Nat)
<1>1. IsWellFoundedOn(R, Nat)
  BY NatLessThanWellFounded
<1>2. PICK n \in S : \A y \in S : <<y, n>> \notin R
  <2> HIDE DEF R
  <2> QED
    BY <1>1, WFMin
<1>3. \A m \in S : <<m, n>> \notin R => n <= m
  BY DEF OpToRel
<1> QED
  BY <1>2, <1>3

\* Induction along 0 .. n, for one set.
LEMMA Induct ==
    ASSUME NEW n \in Nat, NEW S, 0 \in S, \A i \in 0 .. n - 1 : i \in S => i + 1 \in S
    PROVE  0 .. n \subseteq S
<1> SUFFICES ASSUME (0 .. n) \ S # {} PROVE FALSE
  OBVIOUS
<1>0. (0 .. n) \ S \in SUBSET Nat
  OBVIOUS
<1>1. PICK k \in (0 .. n) \ S : \A m \in (0 .. n) \ S : k <= m
  BY <1>0, Least
<1>2. k # 0 /\ k - 1 \in 0 .. n - 1
  BY <1>1
<1>3. k - 1 \in S
  BY <1>1, <1>2
<1> QED
  BY <1>1, <1>2, <1>3

\* g starts at b, and goes on by F, up to n.
Iterates(g, n, X, b, F) ==
    g \in [0 .. n -> X] /\ g[0] = b /\ \A k \in 1 .. n : g[k] = F[<<k, g[k - 1]>>]

\* A recursion along 1 .. n has a solution.
LEMMA Recursion ==
    ASSUME NEW n \in Nat, NEW X, NEW b \in X, NEW F \in [(1 .. n) \X X -> X]
    PROVE  \E g : Iterates(g, n, X, b, F)
<1> DEFINE Upto(m, g) == g \in [0 .. m -> X] /\ g[0] = b /\ \A k \in 1 .. m : g[k] = F[<<k, g[k - 1]>>]
           S == {m \in 0 .. n : \E g : Upto(m, g)}
<1>1. 0 \in S
  <2>1. Upto(0, [k \in 0 .. 0 |-> b])
    OBVIOUS
  <2> HIDE DEF Upto
  <2>2. 0 \in 0 .. n /\ \E g : Upto(0, g)
    BY <2>1
  <2> QED
    BY <2>2
<1>2. ASSUME NEW m \in 0 .. n - 1, m \in S PROVE m + 1 \in S
  <2>1. PICK g : Upto(m, g)
    BY <1>2
  <2> DEFINE h == [k \in 0 .. m + 1 |-> IF k = m + 1 THEN F[<<k, g[m]>>] ELSE g[k]]
  <2>2. m + 1 \in 1 .. n /\ m \in 0 .. m /\ g[m] \in X
    BY <2>1
  <2>3. h \in [0 .. m + 1 -> X]
    BY <2>1, <2>2
  <2>4. \A k \in 1 .. m + 1 : h[k] = F[<<k, h[k - 1]>>]
    BY <2>1, <2>2
  <2>5. h[0] = b
    BY <2>1
  <2> HIDE DEF h
  <2> QED
    BY <2>2, <2>3, <2>4, <2>5
<1> HIDE DEF S
<1>3. n \in S
  BY <1>1, <1>2, Induct
<1> QED
  BY <1>3 DEF S, Iterates

-----------------------------------------------------------------------------
(* The sizes of nodes.                                                         *)

\* Widths double from level to level.
LEMMA WidthIs ==
    /\ Width[0] = 1
    /\ \A l \in 0 .. MaxLevel + 1 : Width[l] \in Nat \ {0}
    /\ \A l \in 0 .. MaxLevel : Width[l + 1] = 2 * Width[l]
<1> DEFINE Is(g) == g = [l \in 0 .. MaxLevel + 1 |-> IF l = 0 THEN 1 ELSE 2 * g[l - 1]]
           F == [p \in (1 .. MaxLevel + 1) \X (Nat \ {0}) |-> 2 * p[2]]
<1>0. MaxLevel \in Nat
  BY MaxLevelAssumption
<1>1. F \in [(1 .. MaxLevel + 1) \X (Nat \ {0}) -> Nat \ {0}]
  OBVIOUS
<1> HIDE DEF F
<1>a. MaxLevel + 1 \in Nat /\ 1 \in Nat \ {0}
  BY <1>0
<1>2. PICK g \in [0 .. MaxLevel + 1 -> Nat \ {0}] :
          g[0] = 1 /\ \A k \in 1 .. MaxLevel + 1 : g[k] = F[<<k, g[k - 1]>>]
  <2>1. \E g : Iterates(g, MaxLevel + 1, Nat \ {0}, 1, F)
    BY <1>a, <1>1, Recursion
  <2> QED
    BY <2>1 DEF Iterates
<1>3. ASSUME NEW k \in 1 .. MaxLevel + 1 PROVE g[k] = 2 * g[k - 1]
  <2>1. k - 1 \in 0 .. MaxLevel + 1
    BY <1>0
  <2>2. g[k - 1] \in Nat \ {0}
    BY <1>2, <2>1
  <2>3. F[<<k, g[k - 1]>>] = 2 * g[k - 1]
    BY <2>2 DEF F
  <2> QED
    BY <1>2, <2>3
<1>4. Is(g)
  BY <1>0, <1>2, <1>3
<1>5. Is(Width)
  <2> HIDE DEF Is
  <2>1. Width = CHOOSE w : Is(w)
    BY DEF Width, Is
  <2> QED
    BY <1>4, <2>1
<1>6. \A l \in 0 .. MaxLevel + 1 : Width[l] = IF l = 0 THEN 1 ELSE 2 * Width[l - 1]
  BY <1>5
<1>7. \A l \in 0 .. MaxLevel : Width[l + 1] = 2 * Width[l]
  BY <1>0, <1>6
<1> DEFINE S == {l \in 0 .. MaxLevel + 1 : Width[l] \in Nat \ {0}}
<1>8. 0 \in S
  BY <1>0, <1>6
<1>9. \A l \in 0 .. (MaxLevel + 1) - 1 : l \in S => l + 1 \in S
  BY <1>0, <1>7
<1> HIDE DEF S
<1>10. 0 .. MaxLevel + 1 \subseteq S
  BY <1>a, <1>8, <1>9, Induct
<1> QED
  BY <1>0, <1>6, <1>7, <1>10 DEF S
-----------------------------------------------------------------------------
(* The nodes that are queued for a message.                                    *)

Above(g, i) == g = [k \in 0 .. MaxLevel |-> IF k = 0 THEN Leaf(i) ELSE Parent(g[k - 1])]

Up(i)  == CHOOSE g : Above(g, i)
Top(i) == CHOOSE k \in 0 .. MaxLevel :
              /\ \A j \in 0 .. k - 1 : Up(i)[j].i % 2 = 1
              /\ Up(i)[k].i % 2 = 0 \/ k = MaxLevel

LEMMA ChainDef == \A i : Chain(i) = [k \in 1 .. Top(i) + 1 |-> Up(i)[k - 1]]
BY DEF Chain, Up, Top, Above

\* The nodes above a leaf, level by level.
LEMMA UpIs ==
    ASSUME NEW i \in Nat
    PROVE  /\ Up(i)[0] = Leaf(i)
           /\ \A k \in 1 .. MaxLevel : Up(i)[k] = Parent(Up(i)[k - 1])
           /\ \A k \in 0 .. MaxLevel : Up(i)[k] \in NodeId /\ Up(i)[k].l = k
<1> DEFINE X == [l : Nat, i : Nat]
           F == [p \in (1 .. MaxLevel) \X X |-> Parent(p[2])]
<1>0. MaxLevel \in Nat
  BY MaxLevelAssumption
<1>1. Leaf(i) \in X /\ \A n \in X : Parent(n) \in X
  BY DEF Leaf, Parent
<1>2. F \in [(1 .. MaxLevel) \X X -> X]
  <2> HIDE DEF X
  <2> QED
    BY <1>1
<1> HIDE DEF F
<1>3. PICK g : Iterates(g, MaxLevel, X, Leaf(i), F)
  <2> HIDE DEF X
  <2> QED
    BY <1>0, <1>1, <1>2, Recursion
<1>4. \A k \in 1 .. MaxLevel : g[k] = Parent(g[k - 1])
  <2> HIDE DEF X
  <2>1. ASSUME NEW k \in 1 .. MaxLevel PROVE g[k] = Parent(g[k - 1])
    <3>1. g[k - 1] \in X
      BY <1>0, <1>3 DEF Iterates
    <3>2. F[<<k, g[k - 1]>>] = Parent(g[k - 1])
      BY <3>1 DEF F
    <3> QED
      BY <1>3, <3>2 DEF Iterates
  <2> QED
    BY <2>1
<1>5. Above(g, i)
  <2> HIDE DEF X
  <2> QED
    BY <1>0, <1>3, <1>4 DEF Above, Iterates
<1>6. Above(Up(i), i)
  BY <1>5 DEF Up
<1>7. /\ Up(i)[0] = Leaf(i)
      /\ \A k \in 1 .. MaxLevel : Up(i)[k] = Parent(Up(i)[k - 1])
  BY <1>0, <1>6 DEF Above
<1> DEFINE S == {k \in 0 .. MaxLevel : Up(i)[k] \in NodeId /\ Up(i)[k].l = k}
<1>8. 0 \in S
  BY <1>0, <1>7 DEF Leaf, NodeId
<1>9. ASSUME NEW k \in 0 .. MaxLevel - 1, k \in S PROVE k + 1 \in S
  <2>1. Up(i)[k] \in NodeId /\ Up(i)[k].l = k /\ k + 1 \in 1 .. MaxLevel
    BY <1>0, <1>9
  <2>2. Up(i)[k + 1] = Parent(Up(i)[k])
    BY <1>0, <1>7, <2>1
  <2>3. Parent(Up(i)[k]) \in NodeId /\ Parent(Up(i)[k]).l = k + 1
    BY <1>0, <2>1 DEF Parent, NodeId
  <2> QED
    BY <1>0, <2>2, <2>3
<1> HIDE DEF S
<1>10. 0 .. MaxLevel \subseteq S
  BY <1>0, <1>8, <1>9, Induct
<1> QED
  BY <1>7, <1>10 DEF S

\* The chain of a message ends at its first left node, or at the last level.
LEMMA TopIs ==
    ASSUME NEW i \in Nat
    PROVE  /\ Top(i) \in 0 .. MaxLevel
           /\ \A j \in 0 .. Top(i) - 1 : Up(i)[j].i % 2 = 1
           /\ Up(i)[Top(i)].i % 2 = 0 \/ Top(i) = MaxLevel
<1> DEFINE S == {k \in 0 .. MaxLevel : Up(i)[k].i % 2 = 0 \/ k = MaxLevel}
<1>0. MaxLevel \in Nat
  BY MaxLevelAssumption
<1>1. MaxLevel \in S /\ S \in SUBSET Nat
  BY <1>0
<1>2. PICK k \in S : \A m \in S : k <= m
  <2> HIDE DEF S
  <2> QED
    BY <1>1, Least
<1>3. ASSUME NEW j \in 0 .. k - 1 PROVE Up(i)[j].i % 2 = 1
  <2>1. j \notin S /\ j \in 0 .. MaxLevel
    BY <1>0, <1>2
  <2>2. Up(i)[j].i \in Nat
    BY <2>1, UpIs DEF NodeId
  <2> QED
    BY <2>1, <2>2
<1> QED
  BY <1>2, <1>3 DEF Top

\* A chain goes up one level at a time, through odd nodes to an even one.
LEMMA ChainIs ==
    ASSUME NEW i \in Nat
    PROVE  /\ Chain(i) \in Seq(NodeId)
           /\ Len(Chain(i)) \in 1 .. MaxLevel + 1
           /\ Chain(i)[1] = Leaf(i)
           /\ \A k \in 1 .. Len(Chain(i)) : Chain(i)[k] \in NodeId /\ Chain(i)[k].l = k - 1
           /\ \A k \in 1 .. Len(Chain(i)) - 1 :
                  Chain(i)[k].i % 2 = 1 /\ Chain(i)[k + 1] = Parent(Chain(i)[k])
           /\ Chain(i)[Len(Chain(i))].i % 2 = 0 \/ Len(Chain(i)) = MaxLevel + 1
<1>0. MaxLevel \in Nat
  BY MaxLevelAssumption
<1>1. Top(i) \in 0 .. MaxLevel
  BY TopIs
<1>2. Chain(i) = [k \in 1 .. Top(i) + 1 |-> Up(i)[k - 1]]
  BY ChainDef
<1>3. \A k \in 1 .. Top(i) + 1 : Up(i)[k - 1] \in NodeId /\ Up(i)[k - 1].l = k - 1
  BY <1>0, <1>1, UpIs
<1>4. Chain(i) \in Seq(NodeId) /\ Len(Chain(i)) = Top(i) + 1
  BY <1>0, <1>1, <1>2, <1>3
<1>5. \A k \in 1 .. Top(i) + 1 : Chain(i)[k] = Up(i)[k - 1]
  BY <1>2
<1>6. Chain(i)[1] = Leaf(i)
  BY <1>1, <1>5, UpIs
<1>7. ASSUME NEW k \in 1 .. Top(i)
      PROVE  Chain(i)[k].i % 2 = 1 /\ Chain(i)[k + 1] = Parent(Chain(i)[k])
  <2>1. k \in 1 .. MaxLevel /\ k - 1 \in 0 .. Top(i) - 1 /\ k + 1 \in 1 .. Top(i) + 1 /\ k \in 1 .. Top(i) + 1
    BY <1>0, <1>1
  <2>2. Chain(i)[k] = Up(i)[k - 1] /\ Chain(i)[k + 1] = Up(i)[(k + 1) - 1] /\ (k + 1) - 1 = k
    BY <1>5, <2>1
  <2>3. Up(i)[k] = Parent(Up(i)[k - 1]) /\ Up(i)[k - 1].i % 2 = 1
    BY <2>1, UpIs, TopIs
  <2> QED
    BY <2>2, <2>3
<1>8. Chain(i)[Top(i) + 1].i % 2 = 0 \/ Top(i) = MaxLevel
  <2>1. Top(i) + 1 \in 1 .. Top(i) + 1 /\ (Top(i) + 1) - 1 = Top(i)
    BY <1>1
  <2>2. Chain(i)[Top(i) + 1] = Up(i)[Top(i)]
    BY <1>5, <2>1
  <2> QED
    BY <2>2, TopIs
<1> QED
  BY <1>0, <1>1, <1>3, <1>4, <1>5, <1>6, <1>7, <1>8
-----------------------------------------------------------------------------
(* The messages that a node covers.                                            *)

\* Halves, and what is left over.
LEMMA Halves ==
    ASSUME NEW x \in Nat
    PROVE  /\ x \div 2 \in Nat
           /\ x % 2 = 0 => x = 2 * (x \div 2)
           /\ x % 2 = 1 => x = 2 * (x \div 2) + 1
           /\ x % 2 \in {0, 1}
OBVIOUS

\* The arithmetic of a node and its halves.
LEMMA Doubles ==
    ASSUME NEW q \in Nat, NEW w \in Nat
    PROVE  /\ (2 * q) * w = q * (2 * w)
           /\ (2 * q + 1) * w + w = q * (2 * w) + 2 * w
           /\ q * w \in Nat
OBVIOUS

\* A node covers at least one message.
LEMMA Spans ==
    ASSUME NEW n \in NodeId
    PROVE  FirstOf(n) \in Nat /\ LastOf(n) \in Nat /\ FirstOf(n) <= LastOf(n)
<1>1. n.i \in Nat /\ Width[n.l] \in Nat \ {0}
  BY MaxLevelAssumption, WidthIs DEF NodeId
<1>2. n.i * Width[n.l] \in Nat
  BY <1>1, Doubles
<1> QED
  BY <1>1, <1>2 DEF FirstOf, LastOf

\* A leaf covers its message.
LEMMA LeafSpan ==
    ASSUME NEW i \in Nat
    PROVE  Leaf(i) \in NodeId /\ FirstOf(Leaf(i)) = i /\ LastOf(Leaf(i)) = i
BY MaxLevelAssumption, WidthIs DEF Leaf, NodeId, FirstOf, LastOf

\* A parent begins where its left child does and ends where its right one does.
LEMMA ParentSpan ==
    ASSUME NEW n \in NodeId
    PROVE  /\ n.i % 2 = 0 => FirstOf(Parent(n)) = FirstOf(n)
           /\ n.i % 2 = 1 => LastOf(Parent(n)) = LastOf(n)
<1> DEFINE q == n.i \div 2  w == Width[n.l]
<1>1. n.l \in 0 .. MaxLevel /\ n.i \in Nat /\ q \in Nat /\ w \in Nat
  BY MaxLevelAssumption, WidthIs, Halves DEF NodeId
<1>2. Parent(n).l = n.l + 1 /\ Parent(n).i = q /\ Width[n.l + 1] = 2 * w
  BY <1>1, WidthIs DEF Parent
<1>3. FirstOf(Parent(n)) = q * (2 * w) /\ LastOf(Parent(n)) = q * (2 * w) + 2 * w - 1
  BY <1>2 DEF FirstOf, LastOf
<1>4. FirstOf(n) = n.i * w /\ LastOf(n) = n.i * w + w - 1
  BY DEF FirstOf, LastOf
<1>5. (n.i % 2 = 0 => n.i = 2 * q) /\ (n.i % 2 = 1 => n.i = 2 * q + 1)
  BY <1>1, Halves
<1>6. /\ (2 * q) * w = q * (2 * w)
      /\ (2 * q + 1) * w + w = q * (2 * w) + 2 * w
      /\ q * w \in Nat /\ n.i * w \in Nat /\ q * (2 * w) \in Nat
  BY <1>1, Doubles
<1> HIDE DEF q, w
<1>7. ASSUME n.i % 2 = 0 PROVE FirstOf(Parent(n)) = FirstOf(n)
  BY <1>3, <1>4, <1>5, <1>6, <1>7
<1>8. ASSUME n.i % 2 = 1 PROVE LastOf(Parent(n)) = LastOf(n)
  <2>1. n.i * w + w = q * (2 * w) + 2 * w
    BY <1>5, <1>6, <1>8
  <2> QED
    BY <1>1, <1>3, <1>4, <1>6, <2>1
<1> QED
  BY <1>7, <1>8

\* All the nodes of a chain end with its message.
LEMMA ChainLast ==
    ASSUME NEW i \in Nat, NEW k \in 1 .. Len(Chain(i))
    PROVE  LastOf(Chain(i)[k]) = i
<1> DEFINE n == Len(Chain(i)) - 1
           S == {j \in 0 .. n : LastOf(Chain(i)[j + 1]) = i}
<1>1. n \in Nat /\ MaxLevel \in Nat
  BY MaxLevelAssumption, ChainIs
<1>2. 0 \in S
  <2>1. Chain(i)[1] = Leaf(i) /\ LastOf(Leaf(i)) = i
    BY ChainIs, LeafSpan
  <2>2. 0 \in 0 .. n /\ 0 + 1 = 1
    BY <1>1
  <2> HIDE DEF n
  <2> QED
    BY <2>1, <2>2
<1>3. ASSUME NEW j \in 0 .. n - 1, j \in S PROVE j + 1 \in S
  <2>1. j + 1 \in 1 .. Len(Chain(i)) - 1 /\ j + 1 \in 1 .. Len(Chain(i))
    BY <1>1
  <2>2. /\ Chain(i)[j + 1] \in NodeId /\ Chain(i)[j + 1].i % 2 = 1
        /\ Chain(i)[(j + 1) + 1] = Parent(Chain(i)[j + 1])
    BY <2>1, ChainIs
  <2>3. LastOf(Parent(Chain(i)[j + 1])) = i
    BY <1>3, <2>2, ParentSpan
  <2> QED
    BY <1>1, <2>2, <2>3
<1> HIDE DEF S
<1>4. 0 .. n \subseteq S
  BY <1>1, <1>2, <1>3, Induct
<1>5. k - 1 \in S
  BY <1>1, <1>4
<1>6. (k - 1) + 1 = k
  OBVIOUS
<1> QED
  BY <1>5, <1>6 DEF S

\* And every node that ends with a message is in its chain, at its level.
LEMMA InChain ==
    ASSUME NEW n \in NodeId
    PROVE  n.l + 1 \in 1 .. Len(Chain(LastOf(n))) /\ Chain(LastOf(n))[n.l + 1] = n
<1> DEFINE In(m) == m.l + 1 \in 1 .. Len(Chain(LastOf(m))) /\ Chain(LastOf(m))[m.l + 1] = m
           S == {l \in 0 .. MaxLevel : \A i \in Nat : In([l |-> l, i |-> i])}
<1>0. MaxLevel \in Nat
  BY MaxLevelAssumption
<1>1. 0 \in S
  <2>1. ASSUME NEW i \in Nat PROVE In(Leaf(i))
    <3>1. LastOf(Leaf(i)) = i /\ Leaf(i).l = 0
      BY LeafSpan DEF Leaf
    <3> QED
      BY <3>1, ChainIs
  <2> HIDE DEF In
  <2> QED
    BY <1>0, <2>1 DEF Leaf
<1>2. ASSUME NEW l \in 0 .. MaxLevel - 1, l \in S PROVE l + 1 \in S
  <2>1. ASSUME NEW i \in Nat PROVE In([l |-> l + 1, i |-> i])
    <3> DEFINE m == [l |-> l + 1, i |-> i]  r == [l |-> l, i |-> 2 * i + 1]  j == LastOf(r)
    <3>1. r \in NodeId /\ r.i % 2 = 1 /\ Parent(r) = m /\ r.l = l /\ 2 * i + 1 \in Nat
      BY <1>0 DEF NodeId, Parent
    <3>2. In(r)
      BY <1>2, <3>1
    <3>3. j \in Nat /\ LastOf(m) = j
      BY <3>1, Spans, ParentSpan
    <3>4. l + 1 \in 1 .. Len(Chain(j)) /\ Chain(j)[l + 1] = r
      BY <3>1, <3>2
    <3> HIDE DEF r, j, m
    <3>5. l + 1 # Len(Chain(j))
      <4>1. Chain(j)[Len(Chain(j))].i % 2 = 0 \/ Len(Chain(j)) = MaxLevel + 1
        BY <3>3, ChainIs
      <4> QED
        BY <1>0, <3>1, <3>4, <4>1
    <3>6. Len(Chain(j)) \in Nat
      BY <3>3, ChainIs, <1>0
    <3>7. l + 1 \in 1 .. Len(Chain(j)) - 1 /\ (l + 1) + 1 \in 1 .. Len(Chain(j))
      BY <1>0, <3>4, <3>5, <3>6
    <3>8. Chain(j)[(l + 1) + 1] = Parent(r)
      BY <3>3, <3>4, <3>7, ChainIs
    <3>9. m.l = l + 1
      BY DEF m
    <3>10. In(m)
      BY <3>1, <3>3, <3>7, <3>8, <3>9
    <3> QED
      BY <3>10 DEF m
  <2> HIDE DEF In
  <2> QED
    BY <1>0, <2>1
<1> HIDE DEF S
<1>3. 0 .. MaxLevel \subseteq S
  BY <1>0, <1>1, <1>2, Induct
<1>4. n.l \in S /\ n.i \in Nat /\ n = [l |-> n.l, i |-> n.i]
  BY <1>3 DEF NodeId
<1>5. In([l |-> n.l, i |-> n.i])
  BY <1>4 DEF S
<1> QED
  BY <1>4, <1>5

\* The chain of message i is every node whose last message is i.
LEMMA ChainSet ==
    ASSUME NEW i \in Nat
    PROVE  Range(Chain(i)) = {m \in NodeId : LastOf(m) = i}
<1>1. Chain(i) \in Seq(NodeId)
  BY ChainIs
<1>2. ASSUME NEW m \in Range(Chain(i)) PROVE m \in NodeId /\ LastOf(m) = i
  <2>1. PICK k \in 1 .. Len(Chain(i)) : m = Chain(i)[k]
    BY <1>1 DEF Range
  <2> QED
    BY <2>1, ChainIs, ChainLast
<1>3. ASSUME NEW m \in NodeId, LastOf(m) = i PROVE m \in Range(Chain(i))
  BY <1>1, <1>3, InChain DEF Range
<1> QED
  BY <1>2, <1>3

\* A log of n messages has every node that ends before n.
LEMMA NodesAre ==
    ASSUME NEW n \in Nat
    PROVE  NodesOf(n) = {m \in NodeId : LastOf(m) < n}
<1>1. ASSUME NEW m \in NodesOf(n) PROVE m \in NodeId /\ LastOf(m) < n
  <2>1. PICK i \in 0 .. n - 1 : m \in Range(Chain(i))
    BY DEF NodesOf
  <2>2. i \in Nat /\ i < n
    OBVIOUS
  <2> QED
    BY <2>1, <2>2, ChainSet
<1>2. ASSUME NEW m \in NodeId, LastOf(m) < n PROVE m \in NodesOf(n)
  <2>1. LastOf(m) \in 0 .. n - 1 /\ LastOf(m) \in Nat
    BY <1>2, Spans
  <2>2. m \in Range(Chain(LastOf(m)))
    BY <2>1, ChainSet
  <2> QED
    BY <2>1, <2>2 DEF NodesOf
<1> QED
  BY <1>1, <1>2

\* The inputs of a node end no later than it does.
LEMMA InputsEnd ==
    ASSUME NEW n \in NodeId, NEW c \in Inputs(n)
    PROVE  c \in NodeId /\ LastOf(c) <= LastOf(n) /\ c.l = n.l - 1
<1> DEFINE l == n.l - 1  a == [l |-> l, i |-> 2 * n.i]  b == [l |-> l, i |-> 2 * n.i + 1]
<1>0. n.l \in 0 .. MaxLevel /\ n.i \in Nat /\ MaxLevel \in Nat
  BY MaxLevelAssumption DEF NodeId
<1>1. n.l # 0 /\ c \in {a, b}
  BY DEF Inputs, Children
<1>2. a \in NodeId /\ b \in NodeId
  BY <1>0, <1>1 DEF NodeId
<1>3. Parent(b) = n /\ b.i % 2 = 1
  BY <1>0, <1>1 DEF NodeId, Parent
<1>4. LastOf(b) = LastOf(n)
  BY <1>2, <1>3, ParentSpan
<1>5. LastOf(a) <= LastOf(b)
  <2> DEFINE w == Width[l]
  <2>1. w \in Nat
    BY <1>0, <1>1, WidthIs
  <2>2. LastOf(a) = (2 * n.i) * w + w - 1 /\ LastOf(b) = (2 * n.i + 1) * w + w - 1
    BY DEF LastOf, FirstOf
  <2> HIDE DEF w
  <2>3. (2 * n.i) * w <= (2 * n.i + 1) * w /\ (2 * n.i) * w \in Nat /\ (2 * n.i + 1) * w \in Nat
    BY <1>0, <2>1
  <2> QED
    BY <2>1, <2>2, <2>3
<1> QED
  BY <1>1, <1>2, <1>4, <1>5, Spans
-----------------------------------------------------------------------------
(* Only: the members of a set, in the order of a sequence.                     *)

More(t, x, S) == IF x \in S THEN Append(t, x) ELSE t

IsKept(g, s, S) == g = [k \in 0 .. Len(s) |-> IF k = 0 THEN <<>> ELSE More(g[k - 1], s[k], S)]

KeptUpTo(s, S) == CHOOSE g : IsKept(g, s, S)

LEMMA OnlyDef == \A s, S : Only(s, S) = KeptUpTo(s, S)[Len(s)]
BY DEF Only, KeptUpTo, IsKept, More

\* What Only has kept of the first k members of s.
LEMMA KeptIs ==
    ASSUME NEW X, NEW s \in Seq(X), NEW S
    PROVE  /\ KeptUpTo(s, S)[0] = <<>>
           /\ \A k \in 0 .. Len(s) : KeptUpTo(s, S)[k] \in Seq(X)
           /\ \A k \in 1 .. Len(s) : KeptUpTo(s, S)[k] = More(KeptUpTo(s, S)[k - 1], s[k], S)
<1> DEFINE n == Len(s)
           F == [p \in (1 .. n) \X Seq(X) |-> More(p[2], s[p[1]], S)]
<1>0. n \in Nat /\ <<>> \in Seq(X) /\ \A k \in 1 .. n : s[k] \in X
  OBVIOUS
<1>a. \A t \in Seq(X), x \in X : More(t, x, S) \in Seq(X)
  BY DEF More
<1>1. F \in [(1 .. n) \X Seq(X) -> Seq(X)]
  <2>1. ASSUME NEW p \in (1 .. n) \X Seq(X)
        PROVE  More(p[2], s[p[1]], S) \in Seq(X)
    <3>1. p[1] \in 1 .. n /\ p[2] \in Seq(X)
      OBVIOUS
    <3>2. s[p[1]] \in X
      BY <1>0, <3>1
    <3> QED
      BY <1>a, <3>1, <3>2
  <2> QED
    BY <2>1
<1> HIDE DEF F
<1>2. PICK g : Iterates(g, n, Seq(X), <<>>, F)
  <2> HIDE DEF n
  <2> QED
    BY <1>0, <1>1, Recursion
<1>3. ASSUME NEW k \in 1 .. n
      PROVE  g[k] = More(g[k - 1], s[k], S)
  <2>1. k - 1 \in 0 .. n
    BY <1>0
  <2>2. g[k - 1] \in Seq(X)
    BY <1>2, <2>1 DEF Iterates
  <2>3. F[<<k, g[k - 1]>>] = More(g[k - 1], s[k], S)
    BY <2>2 DEF F
  <2> QED
    BY <1>2, <2>3 DEF Iterates
<1> HIDE DEF n
<1>4. IsKept(g, s, S)
  BY <1>0, <1>2, <1>3 DEF IsKept, Iterates, n
<1> DEFINE h == KeptUpTo(s, S)
<1>5. IsKept(h, s, S)
  BY <1>4 DEF KeptUpTo
<1> HIDE DEF h
<1>6. h[0] = <<>> /\ \A k \in 1 .. n : h[k] = More(h[k - 1], s[k], S)
  BY <1>0, <1>5 DEF IsKept, n
<1> DEFINE R == {k \in 0 .. n : h[k] \in Seq(X)}
<1>7. 0 \in R
  <2>1. 0 \in 0 .. n
    BY <1>0
  <2>2. h[0] \in Seq(X)
    BY <1>0, <1>6, Zenon
  <2> QED
    BY <2>1, <2>2
<1>8. ASSUME NEW k \in 0 .. n - 1, k \in R PROVE k + 1 \in R
  <2>1. k + 1 \in 1 .. n /\ (k + 1) - 1 = k /\ h[k] \in Seq(X) /\ s[k + 1] \in X
    BY <1>0, <1>8
  <2>2. h[k + 1] = More(h[k], s[k + 1], S)
    BY <1>6, <2>1
  <2>3. h[k + 1] \in Seq(X)
    BY <1>a, <2>1, <2>2
  <2> QED
    BY <2>1, <2>3
<1> HIDE DEF R
<1>9. 0 .. n \subseteq R
  BY <1>0, <1>7, <1>8, Induct
<1> QED
  BY <1>6, <1>9 DEF R, h, n

\* e lists the places of I from the first to the last.
Lists(e, n, I) ==
    /\ e \in [1 .. n -> I]
    /\ \A i, j \in 1 .. n : i < j => e[i] < e[j]
    /\ \A x \in I : \E j \in 1 .. n : e[j] = x

\* A list in rising order goes on with a larger number.
LEMMA ListsMore ==
    ASSUME NEW n \in Nat, NEW I \in SUBSET Nat, NEW e, Lists(e, n, I),
           NEW x \in Nat, \A y \in I : y < x
    PROVE  Lists([j \in 1 .. n + 1 |-> IF j = n + 1 THEN x ELSE e[j]], n + 1, I \cup {x})
<1> DEFINE f == [j \in 1 .. n + 1 |-> IF j = n + 1 THEN x ELSE e[j]]
<1>1. f \in [1 .. n + 1 -> I \cup {x}]
  BY DEF Lists
<1>2. ASSUME NEW i \in 1 .. n + 1, NEW j \in 1 .. n + 1, i < j PROVE f[i] < f[j]
  <2>1. i \in 1 .. n /\ f[i] = e[i] /\ e[i] \in I
    BY <1>2 DEF Lists
  <2>2. CASE j = n + 1
    BY <2>1, <2>2
  <2>3. CASE j # n + 1
    <3>1. j \in 1 .. n /\ f[j] = e[j]
      BY <2>3
    <3> QED
      BY <1>2, <2>1, <3>1 DEF Lists
  <2> QED
    BY <2>2, <2>3
<1>3. ASSUME NEW y \in I \cup {x} PROVE \E j \in 1 .. n + 1 : f[j] = y
  <2>1. CASE y = x
    <3>1. n + 1 \in 1 .. n + 1 /\ f[n + 1] = x
      OBVIOUS
    <3> QED
      BY <2>1, <3>1
  <2>2. CASE y # x
    <3>1. PICK j \in 1 .. n : e[j] = y
      BY <2>2 DEF Lists
    <3>2. j \in 1 .. n + 1 /\ f[j] = y
      BY <3>1
    <3> QED
      BY <3>2
  <2> QED
    BY <2>1, <2>2
<1> HIDE DEF f
<1>4. Lists(f, n + 1, I \cup {x})
  BY <1>1, <1>2, <1>3 DEF Lists
<1> QED
  BY <1>4 DEF f

\* t is what s has of S among its first k.
Picks(t, s, S, k) ==
    \E e : /\ Lists(e, Len(t), {i \in 1 .. k : s[i] \in S})
           /\ \A j \in 1 .. Len(t) : t[j] = s[e[j]]

\* Only picks the members that are in S, in the order of s.
LEMMA OnlyIs ==
    ASSUME NEW X, NEW s \in Seq(X), NEW S
    PROVE  /\ Only(s, S) \in Seq(X)
           /\ Picks(Only(s, S), s, S, Len(s))
<1> DEFINE h == KeptUpTo(s, S)
           n == Len(s)
           R == {k \in 0 .. n : Picks(h[k], s, S, k)}
<1>0. n \in Nat
  OBVIOUS
<1>1. /\ h[0] = <<>>
      /\ \A k \in 0 .. n : h[k] \in Seq(X)
      /\ \A k \in 1 .. n : h[k] = IF s[k] \in S THEN Append(h[k - 1], s[k]) ELSE h[k - 1]
  BY KeptIs DEF More
<1> HIDE DEF h
<1>2. 0 \in R
  <2>1. Lists(<<>>, 0, {i \in 1 .. 0 : s[i] \in S})
    BY DEF Lists
  <2>2. Len(h[0]) = 0
    BY <1>1
  <2>3. Picks(h[0], s, S, 0)
    BY <2>1, <2>2 DEF Picks
  <2> QED
    BY <1>0, <2>3
<1>3. ASSUME NEW k \in 0 .. n - 1, k \in R PROVE k + 1 \in R
  <2>1. k + 1 \in 1 .. n /\ (k + 1) - 1 = k /\ k \in 0 .. n /\ k \in Nat
    BY <1>0
  <2> DEFINE I == {i \in 1 .. k : s[i] \in S}
             m == Len(h[k])
  <2>2. h[k] \in Seq(X) /\ m \in Nat
    BY <1>1, <2>1
  <2>3. PICK e : Lists(e, m, I) /\ \A j \in 1 .. m : h[k][j] = s[e[j]]
    BY <1>3 DEF Picks
  <2>4. CASE s[k + 1] \in S
    <3>1. h[k + 1] = Append(h[k], s[k + 1])
      BY <1>1, <2>1, <2>4
    <3>2. Len(h[k + 1]) = m + 1 /\ h[k + 1][m + 1] = s[k + 1] /\ \A j \in 1 .. m : h[k + 1][j] = h[k][j]
      BY <2>2, <3>1
    <3>3. {i \in 1 .. k + 1 : s[i] \in S} = I \cup {k + 1}
      BY <2>1, <2>4
    <3> DEFINE f == [j \in 1 .. m + 1 |-> IF j = m + 1 THEN k + 1 ELSE e[j]]
    <3>4. I \in SUBSET Nat /\ (\A y \in I : y < k + 1) /\ k + 1 \in Nat
      BY <2>1
    <3>5. Lists(f, m + 1, I \cup {k + 1})
      <4> HIDE DEF I, m
      <4> QED
        BY <2>2, <2>3, <3>4, ListsMore
    <3>6. \A j \in 1 .. m + 1 : h[k + 1][j] = s[f[j]]
      BY <2>2, <2>3, <3>2, SMTT(40)
    <3> HIDE DEF f, I, m
    <3>7. Picks(h[k + 1], s, S, k + 1)
      BY <3>2, <3>3, <3>5, <3>6 DEF Picks
    <3> QED
      BY <1>0, <2>1, <3>7
  <2>5. CASE s[k + 1] \notin S
    <3>1. h[k + 1] = h[k]
      BY <1>1, <2>1, <2>5
    <3>2. {i \in 1 .. k + 1 : s[i] \in S} = I
      BY <2>1, <2>5
    <3> HIDE DEF I
    <3>3. Picks(h[k + 1], s, S, k + 1)
      BY <2>3, <3>1, <3>2 DEF Picks
    <3> QED
      BY <1>0, <2>1, <3>3
  <2> QED
    BY <2>4, <2>5
<1> HIDE DEF R, n
<1>4. 0 .. n \subseteq R
  BY <1>0, <1>2, <1>3, Induct
<1>5. n \in 0 .. n
  BY <1>0
<1>6. Only(s, S) = h[n]
  BY OnlyDef DEF h, n
<1>7. h[n] \in Seq(X)
  BY <1>1, <1>5 DEF n
<1> QED
  BY <1>4, <1>5, <1>6, <1>7 DEF R, n

\* The members of a sequence.
LEMMA RangeIs ==
    ASSUME NEW X, NEW s \in Seq(X)
    PROVE  Range(s) = {s[k] : k \in 1 .. Len(s)} /\ DOMAIN s = 1 .. Len(s)
BY DEF Range

\* Only keeps what s and S share.
LEMMA OnlySet ==
    ASSUME NEW X, NEW s \in Seq(X), NEW S
    PROVE  Range(Only(s, S)) = Range(s) \cap S
<1> DEFINE t == Only(s, S)  I == {i \in 1 .. Len(s) : s[i] \in S}
<1>1. t \in Seq(X)
  BY OnlyIs
<1>2. PICK e : Lists(e, Len(t), I) /\ \A j \in 1 .. Len(t) : t[j] = s[e[j]]
  <2>1. Picks(t, s, S, Len(s))
    BY OnlyIs
  <2> QED
    BY <2>1 DEF Picks
<1>3. Range(t) = {t[j] : j \in 1 .. Len(t)} /\ Range(s) = {s[k] : k \in 1 .. Len(s)}
  <2> HIDE DEF t
  <2> QED
    BY <1>1, RangeIs
<1> HIDE DEF t
<1>4. ASSUME NEW j \in 1 .. Len(t) PROVE t[j] \in Range(s) \cap S
  BY <1>2, <1>3 DEF Lists
<1>5. ASSUME NEW k \in 1 .. Len(s), s[k] \in S PROVE \E j \in 1 .. Len(t) : t[j] = s[k]
  <2>1. k \in I
    BY <1>5
  <2>2. PICK j \in 1 .. Len(t) : e[j] = k
    BY <1>2, <2>1 DEF Lists
  <2> QED
    BY <1>2, <2>2
<1>6. Range(t) = Range(s) \cap S
  BY <1>3, <1>4, <1>5
<1> QED
  BY <1>6 DEF t

\* No node twice.
Once(q) == \A k \in 1 .. Len(q) : \A j \in 1 .. k - 1 : q[j] # q[k]

\* Every place of t has a place of s, with what s has of S before it.
SameOrder(t, s, S) ==
    \A k \in 1 .. Len(t) : \E b \in 1 .. Len(s) :
        /\ t[k] = s[b] /\ s[b] \in S
        /\ \A a \in 1 .. b - 1 : s[a] \in S => \E j \in 1 .. k - 1 : t[j] = s[a]

\* Only keeps order, and repeats nothing that s does not repeat.
LEMMA OnlyOrder ==
    ASSUME NEW X, NEW s \in Seq(X), NEW S, Once(s)
    PROVE  Once(Only(s, S)) /\ SameOrder(Only(s, S), s, S)
<1> DEFINE t == Only(s, S)  I == {i \in 1 .. Len(s) : s[i] \in S}
<1>1. t \in Seq(X) /\ Len(t) \in Nat /\ Len(s) \in Nat
  BY OnlyIs
<1>2. PICK e : Lists(e, Len(t), I) /\ \A j \in 1 .. Len(t) : t[j] = s[e[j]]
  <2>1. Picks(t, s, S, Len(s))
    BY OnlyIs
  <2> QED
    BY <2>1 DEF Picks
<1> HIDE DEF t
<1>3. \A j \in 1 .. Len(t) : e[j] \in 1 .. Len(s) /\ s[e[j]] \in S
  BY <1>2 DEF Lists
<1> HIDE DEF I
<1>4. ASSUME NEW k \in 1 .. Len(t), NEW j \in 1 .. k - 1 PROVE t[j] # t[k]
  <2>1. j \in 1 .. Len(t) /\ j < k
    BY <1>1
  <2>2. e[j] < e[k] /\ e[j] \in 1 .. Len(s) /\ e[k] \in 1 .. Len(s)
    BY <1>2, <1>3, <2>1 DEF Lists
  <2>3. s[e[j]] # s[e[k]]
    BY <2>2 DEF Once
  <2> QED
    BY <1>2, <2>1, <2>3
<1>5. ASSUME NEW k \in 1 .. Len(t), NEW a \in 1 .. e[k] - 1, s[a] \in S
      PROVE  \E j \in 1 .. k - 1 : t[j] = s[a]
  <2>1. a \in I /\ a < e[k]
    BY <1>3, <1>5 DEF I
  <2>2. PICK j \in 1 .. Len(t) : e[j] = a
    BY <1>2, <2>1 DEF Lists
  <2>3. j < k
    <3> SUFFICES ASSUME ~ (j < k) PROVE FALSE
      OBVIOUS
    <3>1. j = k \/ k < j
      BY <1>1
    <3>2. e[k] <= e[j]
      BY <1>2, <1>3, <3>1 DEF Lists
    <3>3. e[k] \in 1 .. Len(s)
      BY <1>3
    <3> QED
      BY <2>1, <2>2, <3>2, <3>3
  <2> QED
    BY <1>2, <2>2, <2>3
<1>6. Once(t)
  BY <1>4 DEF Once
<1>7. SameOrder(t, s, S)
  BY <1>2, <1>3, <1>5 DEF SameOrder
<1> QED
  BY <1>6, <1>7 DEF t
-----------------------------------------------------------------------------
(* A queue for the nodes of n messages, when those of T are built.             *)

Ordered(q, T) ==
    \A k \in 1 .. Len(q) : \A c \in Inputs(q[k]) \ T : \E j \in 1 .. k - 1 : q[j] = c

Good(q, n, T) ==
    /\ q \in Seq(NodeId)
    /\ Range(q) = NodesOf(n) \ T
    /\ Once(q)
    /\ Ordered(q, T)

\* Where the members of a joined sequence are.
LEMMA JoinedSeq ==
    ASSUME NEW X, NEW p \in Seq(X), NEW q \in Seq(X)
    PROVE  /\ p \o q \in Seq(X)
           /\ Len(p \o q) = Len(p) + Len(q)
           /\ \A k \in 1 .. Len(p) : (p \o q)[k] = p[k]
           /\ \A k \in 1 .. Len(q) : (p \o q)[Len(p) + k] = q[k]
           /\ Range(p \o q) = Range(p) \cup Range(q)
<1>1. /\ p \o q \in Seq(X) /\ Len(p \o q) = Len(p) + Len(q)
      /\ \A k \in 1 .. Len(p) : (p \o q)[k] = p[k]
      /\ \A k \in 1 .. Len(q) : (p \o q)[Len(p) + k] = q[k]
      /\ Len(p) \in Nat /\ Len(q) \in Nat
  OBVIOUS
<1>2. /\ Range(p) = {p[k] : k \in 1 .. Len(p)} /\ Range(q) = {q[k] : k \in 1 .. Len(q)}
      /\ Range(p \o q) = {(p \o q)[k] : k \in 1 .. Len(p) + Len(q)}
  BY <1>1, RangeIs
<1>3. ASSUME NEW k \in 1 .. Len(p) + Len(q) PROVE (p \o q)[k] \in Range(p) \cup Range(q)
  <2>1. CASE k <= Len(p)
    BY <1>1, <1>2, <2>1
  <2>2. CASE k > Len(p)
    <3>1. k - Len(p) \in 1 .. Len(q) /\ Len(p) + (k - Len(p)) = k
      BY <1>1, <2>2
    <3>2. (p \o q)[Len(p) + (k - Len(p))] = q[k - Len(p)]
      BY <1>1, <3>1
    <3> QED
      BY <1>2, <3>1, <3>2
  <2> QED
    BY <1>1, <2>1, <2>2
<1>4. \A k \in 1 .. Len(p) : k \in 1 .. Len(p) + Len(q)
  BY <1>1
<1>5. \A k \in 1 .. Len(q) : Len(p) + k \in 1 .. Len(p) + Len(q)
  BY <1>1
<1>6. Range(p) \cup Range(q) \subseteq Range(p \o q)
  BY <1>1, <1>2, <1>4, <1>5
<1> QED
  BY <1>1, <1>2, <1>3, <1>6, SMTT(40)

\* What is before a place of q stays before it when q follows p.
LEMMA JoinedOrder ==
    ASSUME NEW X, NEW p \in Seq(X), NEW q \in Seq(X), Once(p), Once(q),
           Range(p) \cap Range(q) = {}
    PROVE  Once(p \o q)
<1>0. Len(p) \in Nat /\ Len(q) \in Nat
  OBVIOUS
<1>1. /\ Range(p) = {p[k] : k \in 1 .. Len(p)} /\ Range(q) = {q[k] : k \in 1 .. Len(q)}
  BY RangeIs
<1> DEFINE r == p \o q
<1>2. /\ Len(r) = Len(p) + Len(q)
      /\ \A k \in 1 .. Len(p) : r[k] = p[k]
      /\ \A k \in 1 .. Len(q) : r[Len(p) + k] = q[k]
  BY JoinedSeq
<1> HIDE DEF r
<1>3. ASSUME NEW k \in 1 .. Len(r), NEW j \in 1 .. k - 1 PROVE r[j] # r[k]
  <2>1. CASE k <= Len(p)
    <3>1. k \in 1 .. Len(p) /\ j \in 1 .. Len(p)
      BY <1>0, <2>1
    <3> QED
      BY <1>2, <3>1 DEF Once
  <2>2. CASE k > Len(p) /\ j <= Len(p)
    <3>1. k - Len(p) \in 1 .. Len(q) /\ Len(p) + (k - Len(p)) = k /\ j \in 1 .. Len(p)
      BY <1>0, <1>2, <2>2
    <3>2. r[k] = q[k - Len(p)] /\ r[j] = p[j]
      BY <1>2, <3>1
    <3> QED
      BY <1>1, <3>1, <3>2
  <2>3. CASE j > Len(p)
    <3>1. /\ k - Len(p) \in 1 .. Len(q) /\ Len(p) + (k - Len(p)) = k
          /\ j - Len(p) \in 1 .. (k - Len(p)) - 1 /\ Len(p) + (j - Len(p)) = j
          /\ j - Len(p) \in 1 .. Len(q)
      <4>1. k \in Int /\ j \in Int /\ j < k /\ k <= Len(p) + Len(q) /\ j > Len(p)
        BY <1>0, <1>2, <2>3
      <4> QED
        BY <1>0, <4>1
    <3>2. r[k] = q[k - Len(p)] /\ r[j] = q[j - Len(p)]
      BY <1>2, <3>1
    <3> QED
      BY <3>1, <3>2 DEF Once
  <2> QED
    BY <1>0, <1>2, <2>1, <2>2, <2>3
<1> QED
  BY <1>3 DEF Once, r

\* A queue stays ordered when one comes behind whose inputs are in it or before them.
LEMMA JoinedOrdered ==
    ASSUME NEW p \in Seq(NodeId), NEW q \in Seq(NodeId), NEW T, Ordered(p, T),
           \A k \in 1 .. Len(q) : \A c \in Inputs(q[k]) \ T :
               c \in Range(p) \/ \E j \in 1 .. k - 1 : q[j] = c
    PROVE  Ordered(p \o q, T)
<1>0. Len(p) \in Nat /\ Len(q) \in Nat
  OBVIOUS
<1>1. Range(p) = {p[k] : k \in 1 .. Len(p)}
  BY RangeIs
<1> DEFINE r == p \o q
<1>2. /\ Len(r) = Len(p) + Len(q)
      /\ \A k \in 1 .. Len(p) : r[k] = p[k]
      /\ \A k \in 1 .. Len(q) : r[Len(p) + k] = q[k]
  BY JoinedSeq
<1> HIDE DEF r
<1>3. ASSUME NEW k \in 1 .. Len(r), NEW c \in Inputs(r[k]) \ T
      PROVE  \E j \in 1 .. k - 1 : r[j] = c
  <2>1. CASE k <= Len(p)
    <3>1. k \in 1 .. Len(p) /\ r[k] = p[k]
      BY <1>0, <1>2, <2>1
    <3>2. PICK j \in 1 .. k - 1 : p[j] = c
      BY <3>1 DEF Ordered
    <3>3. j \in 1 .. Len(p)
      BY <1>0, <3>1
    <3> QED
      BY <1>2, <3>2, <3>3
  <2>2. CASE k > Len(p)
    <3> DEFINE m == k - Len(p)
    <3>1. m \in 1 .. Len(q) /\ k = Len(p) + m
      BY <1>0, <1>2, <2>2
    <3>2. r[k] = q[m]
      BY <1>2, <3>1
    <3> HIDE DEF m
    <3>3. c \in Range(p) \/ \E j \in 1 .. m - 1 : q[j] = c
      BY <3>1, <3>2
    <3>4. CASE c \in Range(p)
      <4>1. PICK j \in 1 .. Len(p) : p[j] = c
        BY <1>1, <3>4
      <4>2. j \in 1 .. k - 1
        BY <1>0, <3>1
      <4> QED
        BY <1>2, <4>1, <4>2
    <3>5. CASE \E j \in 1 .. m - 1 : q[j] = c
      <4>1. PICK j \in 1 .. m - 1 : q[j] = c
        BY <3>5
      <4>2. j \in 1 .. Len(q) /\ Len(p) + j \in 1 .. k - 1
        BY <1>0, <3>1
      <4> QED
        BY <1>2, <4>1, <4>2
    <3> QED
      BY <3>3, <3>4, <3>5
  <2> QED
    BY <1>0, <1>2, <2>1, <2>2
<1>4. Ordered(r, T)
  BY <1>3 DEF Ordered
<1> QED
  BY <1>4 DEF r

\* A chain repeats no node.
LEMMA ChainOnce ==
    ASSUME NEW i \in Nat
    PROVE  Once(Chain(i))
<1>1. ASSUME NEW k \in 1 .. Len(Chain(i)), NEW j \in 1 .. k - 1
      PROVE  Chain(i)[j] # Chain(i)[k]
  <2>0. Len(Chain(i)) \in Nat
    BY ChainIs, MaxLevelAssumption
  <2>1. j \in 1 .. Len(Chain(i)) /\ j # k
    BY <2>0
  <2>2. Chain(i)[k].l = k - 1 /\ Chain(i)[j].l = j - 1
    BY <2>1, ChainIs
  <2> QED
    BY <2>1, <2>2
<1> QED
  BY <1>1 DEF Once

\* An input is of an older message, or just before its parent in the chain.
LEMMA ChainInputs ==
    ASSUME NEW i \in Nat, NEW k \in 1 .. Len(Chain(i)), NEW c \in Inputs(Chain(i)[k])
    PROVE  /\ c \in NodeId
           /\ LastOf(c) \in Nat
           /\ LastOf(c) < i \/ (k - 1 \in 1 .. k - 1 /\ Chain(i)[k - 1] = c)
<1>1. Chain(i)[k] \in NodeId /\ Chain(i)[k].l = k - 1 /\ LastOf(Chain(i)[k]) = i
  BY ChainIs, ChainLast
<1>2. c \in NodeId /\ LastOf(c) <= i /\ c.l = k - 2 /\ LastOf(c) \in Nat /\ c.l \in Nat
  BY <1>1, InputsEnd, Spans, MaxLevelAssumption DEF NodeId
<1>3. LastOf(c) = i => c.l + 1 = k - 1 /\ k - 1 \in 1 .. k - 1 /\ Chain(i)[c.l + 1] = c
  BY <1>2, InChain
<1> QED
  BY <1>2, <1>3

\* Queueing what is missing of the next chain keeps a queue good.
LEMMA GoodMore ==
    ASSUME NEW i \in Nat, NEW T, NEW q, Good(q, i, T)
    PROVE  Good(q \o Only(Chain(i), Range(Chain(i)) \ T), i + 1, T)
<1> DEFINE s == Chain(i)  S == Range(s) \ T  t == Only(s, S)
<1>1. q \in Seq(NodeId) /\ Range(q) = NodesOf(i) \ T /\ Once(q) /\ Ordered(q, T)
  BY DEF Good
<1>2. s \in Seq(NodeId) /\ Once(s) /\ Range(s) = {m \in NodeId : LastOf(m) = i}
  BY ChainIs, ChainOnce, ChainSet
<1>3. t \in Seq(NodeId) /\ Range(t) = S /\ Once(t) /\ SameOrder(t, s, S)
  <2> HIDE DEF s
  <2>1. t \in Seq(NodeId)
    BY <1>2, OnlyIs
  <2>2. Range(t) = Range(s) \cap S
    BY <1>2, OnlySet
  <2>3. Once(t) /\ SameOrder(t, s, S)
    BY <1>2, OnlyOrder
  <2> QED
    BY <2>1, <2>2, <2>3
<1>4. NodesOf(i) = {m \in NodeId : LastOf(m) < i} /\ NodesOf(i + 1) = {m \in NodeId : LastOf(m) < i + 1}
  BY NodesAre
<1>5. \A m \in NodeId : LastOf(m) \in Nat
  BY Spans
<1>6. NodesOf(i + 1) = NodesOf(i) \cup Range(s) /\ NodesOf(i) \cap Range(s) = {}
  BY <1>2, <1>4, <1>5
<1> HIDE DEF t
<1>7. q \o t \in Seq(NodeId) /\ Range(q \o t) = NodesOf(i + 1) \ T
  BY <1>1, <1>3, <1>6, JoinedSeq
<1>8. Once(q \o t)
  BY <1>1, <1>3, <1>6, JoinedOrder
<1>9. ASSUME NEW k \in 1 .. Len(t), NEW c \in Inputs(t[k]) \ T
      PROVE  c \in Range(q) \/ \E j \in 1 .. k - 1 : t[j] = c
  <2>1. PICK b \in 1 .. Len(s) :
             /\ t[k] = s[b] /\ s[b] \in S
             /\ \A a \in 1 .. b - 1 : s[a] \in S => \E j \in 1 .. k - 1 : t[j] = s[a]
    BY <1>3 DEF SameOrder
  <2>2. /\ c \in NodeId /\ LastOf(c) \in Nat
        /\ LastOf(c) < i \/ (b - 1 \in 1 .. b - 1 /\ s[b - 1] = c)
    BY <2>1, ChainInputs
  <2>3. CASE LastOf(c) < i
    BY <1>1, <1>4, <2>2, <2>3
  <2>4. CASE ~ (LastOf(c) < i)
    <3>1. b - 1 \in 1 .. b - 1 /\ s[b - 1] = c /\ b - 1 \in 1 .. Len(s)
      BY <2>2, <2>4
    <3>2. s[b - 1] \in Range(s)
      BY <1>2, <3>1, RangeIs
    <3> QED
      BY <2>1, <3>1, <3>2
  <2> QED
    BY <2>3, <2>4
<1> HIDE DEF s
<1>10. Ordered(q \o t, T)
  BY <1>1, <1>3, <1>9, JoinedOrdered
<1> QED
  BY <1>7, <1>8, <1>10 DEF Good, t, s

\* The front of a good queue can be built, and leaves a good queue.
LEMMA GoodTail ==
    ASSUME NEW n \in Nat, NEW T, NEW q, Good(q, n, T), q # <<>>
    PROVE  /\ Head(q) \in NodesOf(n) \ T
           /\ Inputs(Head(q)) \subseteq T
           /\ Good(Tail(q), n, T \cup {Head(q)})
<1>1. q \in Seq(NodeId) /\ Range(q) = NodesOf(n) \ T /\ Once(q) /\ Ordered(q, T)
  BY DEF Good
<1> DEFINE t == Tail(q)
<1>2. /\ t \in Seq(NodeId) /\ Len(t) = Len(q) - 1 /\ Len(q) \in Nat \ {0} /\ Head(q) = q[1]
      /\ \A k \in 1 .. Len(t) : t[k] = q[k + 1]
  BY <1>1
<1> HIDE DEF t
<1>3. Range(q) = {q[k] : k \in 1 .. Len(q)} /\ Range(t) = {t[k] : k \in 1 .. Len(t)}
  BY <1>1, <1>2, RangeIs
<1>4. \A k \in 1 .. Len(t) : k + 1 \in 1 .. Len(q) /\ 1 \in 1 .. (k + 1) - 1 /\ t[k] # q[1]
  BY <1>1, <1>2 DEF Once
<1>5. \A k \in 1 .. Len(q) : k # 1 => k - 1 \in 1 .. Len(t) /\ t[k - 1] = q[k]
  BY <1>2
<1>6. Range(t) = Range(q) \ {q[1]}
  BY <1>2, <1>3, <1>4, <1>5
<1>7. 1 \in 1 .. Len(q)
  BY <1>2
<1>8. Head(q) \in NodesOf(n) \ T
  BY <1>1, <1>2, <1>3, <1>7
<1>9. Inputs(Head(q)) \subseteq T
  BY <1>1, <1>2, <1>7 DEF Ordered
<1>10. Once(t)
  <2>1. ASSUME NEW k \in 1 .. Len(t), NEW j \in 1 .. k - 1 PROVE t[j] # t[k]
    <3>1. /\ k + 1 \in 1 .. Len(q) /\ j + 1 \in 1 .. (k + 1) - 1 /\ j \in 1 .. Len(t)
      BY <1>2
    <3> QED
      BY <1>1, <1>2, <3>1 DEF Once
  <2> QED
    BY <2>1 DEF Once
<1>11. Ordered(t, T \cup {Head(q)})
  <2>1. ASSUME NEW k \in 1 .. Len(t), NEW c \in Inputs(t[k]) \ (T \cup {Head(q)})
        PROVE  \E j \in 1 .. k - 1 : t[j] = c
    <3>1. k + 1 \in 1 .. Len(q) /\ t[k] = q[k + 1]
      BY <1>2
    <3>2. PICK j \in 1 .. (k + 1) - 1 : q[j] = c
      BY <1>1, <3>1 DEF Ordered
    <3>3. j # 1
      BY <1>2, <3>2
    <3>4. j - 1 \in 1 .. k - 1 /\ j \in 1 .. Len(q)
      BY <3>1, <3>3
    <3> QED
      BY <1>5, <3>2, <3>3, <3>4
  <2> QED
    BY <2>1 DEF Ordered
<1>12. Range(t) = NodesOf(n) \ (T \cup {Head(q)})
  BY <1>1, <1>2, <1>6
<1> QED
  BY <1>2, <1>8, <1>9, <1>10, <1>11, <1>12 DEF Good, t
Piece(i) == Only(Chain(i), Range(Chain(i)) \ DOMAIN tree)

WithPiece(q, i) == q \o Piece(i)

IsQueue(g, a, b) == g = [i \in a .. b |-> IF i = a THEN <<>> ELSE WithPiece(g[i - 1], i - 1)]

Queued(a, b) == CHOOSE g : IsQueue(g, a, b)

LEMMA QueueDef == \A a, b : QueueFor(a, b) = Queued(a, b)[b]
BY DEF QueueFor, Queued, IsQueue, WithPiece, Piece

\* queue_for, message after message, keeps a queue good.
LEMMA QueueIs ==
    ASSUME NEW a \in Nat, NEW b \in Nat, a <= b, NEW q, Good(q, a, DOMAIN tree)
    PROVE  QueueFor(a, b) \in Seq(NodeId) /\ Good(q \o QueueFor(a, b), b, DOMAIN tree)
<1> DEFINE n == b - a
           F == [p \in (1 .. n) \X Seq(NodeId) |-> p[2] \o Piece(a + p[1] - 1)]
<1>1. n \in Nat /\ b = a + n
  OBVIOUS
<1>2. \A i \in Nat : Piece(i) \in Seq(NodeId)
  BY ChainIs, OnlyIs DEF Piece
<1>3. F \in [(1 .. n) \X Seq(NodeId) -> Seq(NodeId)]
  <2>1. ASSUME NEW p \in (1 .. n) \X Seq(NodeId) PROVE p[2] \o Piece(a + p[1] - 1) \in Seq(NodeId)
    <3>1. p[2] \in Seq(NodeId) /\ a + p[1] - 1 \in Nat
      OBVIOUS
    <3>2. Piece(a + p[1] - 1) \in Seq(NodeId)
      BY <1>2, <3>1
    <3> QED
      BY <3>1, <3>2
  <2> QED
    BY <2>1
<1> HIDE DEF F
<1>4. PICK g : Iterates(g, n, Seq(NodeId), <<>>, F)
  <2> HIDE DEF n
  <2>1. <<>> \in Seq(NodeId)
    OBVIOUS
  <2> QED
    BY <1>1, <1>3, <2>1, Recursion
<1> DEFINE h == [i \in a .. b |-> g[i - a]]
<1>5. IsQueue(h, a, b)
  <2>1. ASSUME NEW i \in a .. b PROVE h[i] = IF i = a THEN <<>> ELSE WithPiece(h[i - 1], i - 1)
    <3>1. CASE i = a
      BY <1>4, <3>1 DEF Iterates
    <3>2. CASE i # a
      <4>1. i - a \in 1 .. n /\ (i - a) - 1 \in 0 .. n /\ i - 1 \in a .. b /\ (i - 1) - a = (i - a) - 1
            /\ a + (i - a) - 1 = i - 1
        BY <3>2
      <4>2. g[(i - a) - 1] \in Seq(NodeId) /\ g[i - a] = F[<<i - a, g[(i - a) - 1]>>]
        BY <1>4, <4>1 DEF Iterates
      <4>3. F[<<i - a, g[(i - a) - 1]>>] = g[(i - a) - 1] \o Piece(i - 1)
        BY <4>1, <4>2 DEF F
      <4> QED
        BY <3>2, <4>1, <4>2, <4>3 DEF WithPiece
    <3> QED
      BY <3>1, <3>2
  <2> QED
    BY <2>1 DEF IsQueue
<1> DEFINE r == Queued(a, b)
<1> HIDE DEF h
<1>6. IsQueue(r, a, b)
  BY <1>5 DEF Queued
<1> HIDE DEF r
<1>7. r[a] = <<>> /\ \A i \in a + 1 .. b : r[i] = WithPiece(r[i - 1], i - 1)
  BY <1>6 DEF IsQueue
<1> DEFINE S == {k \in 0 .. n : r[a + k] \in Seq(NodeId) /\ Good(q \o r[a + k], a + k, DOMAIN tree)}
<1>8. q \in Seq(NodeId)
  BY DEF Good
<1>9. 0 \in S
  <2>1. a + 0 = a /\ 0 \in 0 .. n /\ q \o r[a] = q /\ r[a] \in Seq(NodeId)
    BY <1>1, <1>7, <1>8
  <2> QED
    BY <2>1
<1>10. ASSUME NEW k \in 0 .. n - 1, k \in S PROVE k + 1 \in S
  <2>1. /\ k + 1 \in 0 .. n /\ a + (k + 1) \in a + 1 .. b /\ (a + (k + 1)) - 1 = a + k
        /\ a + k \in Nat /\ (a + k) + 1 = a + (k + 1)
    BY <1>1
  <2>2. r[a + k] \in Seq(NodeId) /\ Good(q \o r[a + k], a + k, DOMAIN tree)
    BY <1>10
  <2>3. r[a + (k + 1)] = r[a + k] \o Piece(a + k) /\ Piece(a + k) \in Seq(NodeId)
    BY <1>2, <1>7, <2>1 DEF WithPiece
  <2>4. Good((q \o r[a + k]) \o Piece(a + k), (a + k) + 1, DOMAIN tree)
    BY <2>1, <2>2, GoodMore DEF Piece
  <2>5. q \o (r[a + k] \o Piece(a + k)) = (q \o r[a + k]) \o Piece(a + k)
    <3> DEFINE t == r[a + k]  u == Piece(a + k)
    <3>1. t \in Seq(NodeId) /\ u \in Seq(NodeId)
      BY <2>2, <2>3
    <3> HIDE DEF t, u
    <3>2. q \o (t \o u) = (q \o t) \o u
      BY <1>8, <3>1, ConcatAssociative, SMTT(40)
    <3> QED
      BY <3>2 DEF t, u
  <2>6. r[a + k] \o Piece(a + k) \in Seq(NodeId)
    BY <2>2, <2>3
  <2> QED
    BY <2>1, <2>3, <2>4, <2>5, <2>6
<1> HIDE DEF S, n
<1>11. 0 .. n \subseteq S
  BY <1>1, <1>9, <1>10, Induct
<1>12. n \in S
  BY <1>1, <1>11
<1>13. r[b] \in Seq(NodeId) /\ Good(q \o r[b], b, DOMAIN tree)
  BY <1>1, <1>12 DEF S
<1> QED
  BY <1>13, QueueDef DEF r

\* queue_missing makes a good queue.
LEMMA NewQueue ==
    ASSUME NEW n \in Nat
    PROVE  Good(QueueFor(0, n), n, DOMAIN tree)
<1>1. NodesOf(0) = {}
  BY DEF NodesOf
<1>2. <<>> \in Seq(NodeId) /\ Len(<<>>) = 0 /\ Range(<<>>) = {}
  BY DEF Range
<1>3. Good(<<>>, 0, DOMAIN tree)
  BY <1>1, <1>2 DEF Good, Once, Ordered
<1>a. 0 \in Nat /\ 0 <= n
  OBVIOUS
<1>4. QueueFor(0, n) \in Seq(NodeId) /\ Good(<<>> \o QueueFor(0, n), n, DOMAIN tree)
  BY <1>3, <1>a, QueueIs, Zenon
<1>5. <<>> \o QueueFor(0, n) = QueueFor(0, n)
  BY <1>4
<1> QED
  BY <1>4, <1>5

\* From the place f on, those of `live` come first.
Moved(q, f, live) ==
    LET rest == SubSeq(q, f, Len(q)) IN
    SubSeq(q, 1, f - 1) \o Only(rest, live) \o Only(rest, Range(rest) \ live)

\* A queue stays good when nodes whose inputs are built move up.
LEMMA GoodMoved ==
    ASSUME NEW n \in Nat, NEW T, NEW q, Good(q, n, T), NEW f \in 1 .. Len(q),
           NEW live, \A m \in live : Inputs(m) \subseteq T
    PROVE  Good(Moved(q, f, live), n, T)
<1> DEFINE A == SubSeq(q, 1, f - 1)  s == SubSeq(q, f, Len(q))
           L == Only(s, live)  R == Only(s, Range(s) \ live)
<1>1. q \in Seq(NodeId) /\ Range(q) = NodesOf(n) \ T /\ Once(q) /\ Ordered(q, T)
  BY DEF Good
<1>2. /\ A \in Seq(NodeId) /\ Len(A) = f - 1 /\ \A k \in 1 .. f - 1 : A[k] = q[k]
      /\ s \in Seq(NodeId) /\ Len(s) = Len(q) - f + 1
      /\ \A k \in 1 .. Len(q) - f + 1 : s[k] = q[(f - 1) + k]
      /\ Len(q) \in Nat
  BY <1>1
<1> HIDE DEF A, s
<1>3. Range(q) = {q[k] : k \in 1 .. Len(q)} /\ Range(A) = {A[k] : k \in 1 .. f - 1}
      /\ Range(s) = {s[k] : k \in 1 .. Len(s)}
  BY <1>1, <1>2, RangeIs
<1>4. ASSUME NEW k \in 1 .. Len(q) PROVE q[k] \in Range(A) \/ (k - f + 1 \in 1 .. Len(s) /\ s[k - f + 1] = q[k])
  <2>1. CASE k < f
    <3>1. k \in 1 .. f - 1
      BY <1>2, <2>1
    <3> QED
      BY <1>2, <1>3, <3>1
  <2>2. CASE ~ (k < f)
    <3>1. k - f + 1 \in 1 .. Len(q) - f + 1 /\ (f - 1) + (k - f + 1) = k
      BY <1>2, <2>2
    <3> QED
      BY <1>2, <3>1
  <2> QED
    BY <2>1, <2>2
<1>5. \A k \in 1 .. f - 1 : k \in 1 .. Len(q) /\ A[k] = q[k]
  BY <1>2
<1>6. \A k \in 1 .. Len(s) : (f - 1) + k \in 1 .. Len(q) /\ s[k] = q[(f - 1) + k]
  BY <1>2
<1>7. Range(q) = Range(A) \cup Range(s)
  <2>1. Range(q) \subseteq Range(A) \cup Range(s)
    BY <1>3, <1>4
  <2>2. Range(A) \subseteq Range(q)
    BY <1>3, <1>5
  <2>3. Range(s) \subseteq Range(q)
    BY <1>3, <1>6
  <2> QED
    BY <2>1, <2>2, <2>3
<1>8. Range(A) \cap Range(s) = {}
  <2>1. ASSUME NEW j \in 1 .. f - 1, NEW k \in 1 .. Len(s) PROVE A[j] # s[k]
    <3>1. (f - 1) + k \in 1 .. Len(q) /\ j \in 1 .. ((f - 1) + k) - 1
      BY <1>2
    <3> QED
      BY <1>1, <1>5, <1>6, <3>1 DEF Once
  <2> QED
    BY <1>3, <2>1
<1>9. Once(A)
  BY <1>1, <1>2, <1>5 DEF Once
<1>10. Once(s)
  <2>1. ASSUME NEW k \in 1 .. Len(s), NEW j \in 1 .. k - 1 PROVE s[j] # s[k]
    <3>1. /\ (f - 1) + k \in 1 .. Len(q) /\ (f - 1) + j \in 1 .. ((f - 1) + k) - 1
          /\ j \in 1 .. Len(s)
      BY <1>2
    <3> QED
      BY <1>1, <1>6, <3>1 DEF Once
  <2> QED
    BY <2>1 DEF Once
<1>11. Ordered(A, T)
  <2>1. ASSUME NEW k \in 1 .. Len(A), NEW c \in Inputs(A[k]) \ T PROVE \E j \in 1 .. k - 1 : A[j] = c
    <3>1. k \in 1 .. Len(q) /\ A[k] = q[k]
      BY <1>2
    <3>2. PICK j \in 1 .. k - 1 : q[j] = c
      BY <1>1, <3>1 DEF Ordered
    <3>3. j \in 1 .. f - 1
      BY <1>2
    <3> QED
      BY <1>2, <3>2, <3>3
  <2> QED
    BY <2>1 DEF Ordered
<1>12. L \in Seq(NodeId) /\ Range(L) = Range(s) \cap live /\ Once(L)
  BY <1>2, <1>10, OnlyIs, OnlySet, OnlyOrder
<1>13. R \in Seq(NodeId) /\ Range(R) = Range(s) \ live /\ Once(R) /\ SameOrder(R, s, Range(s) \ live)
  <2>1. Range(R) = Range(s) \cap (Range(s) \ live)
    BY <1>2, OnlySet
  <2> QED
    BY <1>2, <1>10, <2>1, OnlyIs, OnlyOrder
<1> HIDE DEF L, R
<1>14. Range(L) = {L[k] : k \in 1 .. Len(L)} /\ Range(R) = {R[k] : k \in 1 .. Len(R)}
  BY <1>12, <1>13, RangeIs
<1> DEFINE AL == A \o L
<1>15. AL \in Seq(NodeId) /\ Range(AL) = Range(A) \cup (Range(s) \cap live) /\ Once(AL)
  BY <1>2, <1>8, <1>9, <1>12, JoinedSeq, JoinedOrder
<1>16. Ordered(AL, T)
  <2>1. \A k \in 1 .. Len(L) : Inputs(L[k]) \subseteq T
    BY <1>12, <1>14
  <2> QED
    BY <1>2, <1>11, <1>12, <2>1, JoinedOrdered
<1> HIDE DEF AL
<1>17. AL \o R \in Seq(NodeId) /\ Range(AL \o R) = Range(q)
  BY <1>7, <1>13, <1>15, JoinedSeq
<1>18. Once(AL \o R)
  <2>1. Range(AL) \cap Range(R) = {}
    BY <1>8, <1>13, <1>15
  <2> QED
    BY <1>13, <1>15, <2>1, JoinedOrder
<1>19. ASSUME NEW k \in 1 .. Len(R), NEW c \in Inputs(R[k]) \ T
       PROVE  c \in Range(AL) \/ \E j \in 1 .. k - 1 : R[j] = c
  <2>1. PICK b \in 1 .. Len(s) :
            /\ R[k] = s[b] /\ s[b] \in Range(s) \ live
            /\ \A a \in 1 .. b - 1 : s[a] \in Range(s) \ live => \E j \in 1 .. k - 1 : R[j] = s[a]
    BY <1>13 DEF SameOrder
  <2>2. (f - 1) + b \in 1 .. Len(q) /\ s[b] = q[(f - 1) + b]
    BY <1>6
  <2>3. PICK j \in 1 .. ((f - 1) + b) - 1 : q[j] = c
    BY <1>1, <2>1, <2>2 DEF Ordered
  <2>4. j \in 1 .. Len(q)
    BY <2>2
  <2>5. c \in Range(A) \/ (j - f + 1 \in 1 .. Len(s) /\ s[j - f + 1] = c)
    BY <1>4, <2>3, <2>4
  <2>6. CASE c \in Range(A)
    BY <1>15, <2>6
  <2>7. CASE j - f + 1 \in 1 .. Len(s) /\ s[j - f + 1] = c
    <3>1. j - f + 1 \in 1 .. b - 1
      BY <2>2, <2>7
    <3>2. c \in Range(s)
      BY <1>3, <2>7
    <3>3. c \in live => c \in Range(AL)
      BY <1>15, <3>2
    <3>4. c \notin live => \E i \in 1 .. k - 1 : R[i] = c
      BY <2>1, <2>7, <3>1, <3>2
    <3> QED
      BY <3>3, <3>4
  <2> QED
    BY <2>5, <2>6, <2>7
<1>20. Ordered(AL \o R, T)
  BY <1>13, <1>15, <1>16, <1>19, JoinedOrdered
<1>21. Good(AL \o R, n, T)
  BY <1>1, <1>17, <1>18, <1>20 DEF Good
<1> QED
  BY <1>21 DEF Moved, AL, A, L, R, s

\* prioritize keeps the queue good.
LEMMA GoodPrioritized ==
    ASSUME NEW n \in Nat, Good(pending, n, DOMAIN tree)
    PROVE  Good(Prioritized, n, DOMAIN tree)
<1>1. CASE held # {} \/ \A k \in DOMAIN pending : ~ ImportNode(pending[k])
  <2>1. Prioritized = pending
    BY <1>1 DEF Prioritized
  <2> QED
    BY <2>1
<1>2. CASE ~ (held # {} \/ \A k \in DOMAIN pending : ~ ImportNode(pending[k]))
  <2> DEFINE live == {m \in Range(pending) : ~ ImportNode(m) /\ Inputs(m) \subseteq DOMAIN tree}
             S == {k \in DOMAIN pending : ImportNode(pending[k])}
  <2>1. pending \in Seq(NodeId) /\ DOMAIN pending = 1 .. Len(pending)
    BY DEF Good
  <2>2. S # {} /\ S \in SUBSET Nat
    BY <1>2, <2>1
  <2>3. PICK k \in S : \A m \in S : k <= m
    <3> HIDE DEF S
    <3> QED
      BY <2>2, Least
  <2>4. k \in DOMAIN pending /\ ImportNode(pending[k]) /\ \A j \in 1 .. k - 1 : ~ ImportNode(pending[j])
    <3>1. ASSUME NEW j \in 1 .. k - 1, ImportNode(pending[j]) PROVE FALSE
      <4>1. j \in S
        BY <2>1, <3>1
      <4> QED
        BY <2>1, <2>3, <4>1
    <3> QED
      BY <3>1
  <2>5. FirstImport \in 1 .. Len(pending)
    BY <2>1, <2>4 DEF FirstImport
  <2>6. Prioritized = Moved(pending, FirstImport, live)
    BY <1>2 DEF Prioritized, LiveFirst, Moved
  <2>7. \A m \in live : Inputs(m) \subseteq DOMAIN tree
    OBVIOUS
  <2> HIDE DEF live
  <2> QED
    BY <2>5, <2>6, <2>7, GoodMoved
<1> QED
  BY <1>1, <1>2
-----------------------------------------------------------------------------
(* The planner.                                                                *)

Agree(e, f, m) == \A j \in 1 .. m : e[j] = f[j]

\* A set of numbers has one list in rising order.
LEMMA ListsOnce ==
    ASSUME NEW m \in Nat, NEW n \in Nat, NEW I \in SUBSET Nat, NEW e, NEW f,
           Lists(e, m, I), Lists(f, n, I)
    PROVE  m = n /\ Agree(e, f, m)
<1>1. ASSUME NEW j \in Nat, j \in 1 .. m, j \in 1 .. n,
             \A i \in 1 .. j - 1 : e[i] = f[i]
      PROVE  e[j] = f[j]
  <2>0. e[j] \in I /\ f[j] \in I /\ e[j] \in Nat /\ f[j] \in Nat
    BY <1>1 DEF Lists
  <2>1. ~ (e[j] < f[j])
    <3> SUFFICES ASSUME e[j] < f[j] PROVE FALSE
      OBVIOUS
    <3>1. PICK i \in 1 .. n : f[i] = e[j]
      BY <2>0 DEF Lists
    <3>2. i < j
      <4> SUFFICES ASSUME ~ (i < j) PROVE FALSE
        OBVIOUS
      <4>1. i = j \/ j < i
        BY <1>1
      <4>2. j < i => f[j] < f[i]
        BY <1>1 DEF Lists
      <4> QED
        BY <2>0, <3>1, <4>1, <4>2
    <3>3. i \in 1 .. j - 1 /\ i \in 1 .. m /\ e[i] = f[i]
      BY <1>1, <3>2
    <3>4. e[i] < e[j]
      BY <1>1, <3>2, <3>3 DEF Lists
    <3> QED
      BY <2>0, <3>1, <3>3, <3>4
  <2>2. ~ (f[j] < e[j])
    <3> SUFFICES ASSUME f[j] < e[j] PROVE FALSE
      OBVIOUS
    <3>1. PICK i \in 1 .. m : e[i] = f[j]
      BY <2>0 DEF Lists
    <3>2. i < j
      <4> SUFFICES ASSUME ~ (i < j) PROVE FALSE
        OBVIOUS
      <4>1. i = j \/ j < i
        BY <1>1
      <4>2. j < i => e[j] < e[i]
        BY <1>1 DEF Lists
      <4> QED
        BY <2>0, <3>1, <4>1, <4>2
    <3>3. i \in 1 .. j - 1 /\ i \in 1 .. n /\ e[i] = f[i]
      BY <1>1, <3>2
    <3>4. f[i] < f[j]
      BY <1>1, <3>2, <3>3 DEF Lists
    <3> QED
      BY <2>0, <3>1, <3>3, <3>4
  <2> QED
    BY <2>0, <2>1, <2>2
<1> DEFINE D == {j \in 1 .. m : j \in 1 .. n /\ e[j] # f[j]}
<1>2. D = {}
  <2> SUFFICES ASSUME D # {} PROVE FALSE
    OBVIOUS
  <2>1. D \in SUBSET Nat
    OBVIOUS
  <2>2. PICK j \in D : \A i \in D : j <= i
    <3> HIDE DEF D
    <3> QED
      BY <2>1, Least
  <2>3. \A i \in 1 .. j - 1 : e[i] = f[i]
    <3>1. ASSUME NEW i \in 1 .. j - 1, e[i] # f[i] PROVE FALSE
      <4>1. i \in D
        BY <2>2, <3>1
      <4> QED
        BY <2>2, <4>1
    <3> QED
      BY <3>1
  <2> QED
    BY <1>1, <2>2, <2>3
<1>3. ~ (m < n)
  <2> SUFFICES ASSUME m < n PROVE FALSE
    OBVIOUS
  <2>1. m + 1 \in 1 .. n
    OBVIOUS
  <2>2. f[m + 1] \in I
    BY <2>1 DEF Lists
  <2>3. PICK i \in 1 .. m : e[i] = f[m + 1]
    BY <2>2 DEF Lists
  <2>4. i \in 1 .. n /\ i < m + 1 /\ f[i] = e[i]
    BY <1>2
  <2>5. f[i] < f[m + 1]
    BY <2>1, <2>4 DEF Lists
  <2>6. f[m + 1] \in Nat
    BY <2>2
  <2> QED
    BY <2>3, <2>4, <2>5, <2>6
<1>4. ~ (n < m)
  <2> SUFFICES ASSUME n < m PROVE FALSE
    OBVIOUS
  <2>1. n + 1 \in 1 .. m
    OBVIOUS
  <2>2. e[n + 1] \in I
    BY <2>1 DEF Lists
  <2>3. PICK i \in 1 .. n : f[i] = e[n + 1]
    BY <2>2 DEF Lists
  <2>4. i \in 1 .. m /\ i < n + 1 /\ f[i] = e[i]
    BY <1>2
  <2>5. e[i] < e[n + 1]
    BY <2>1, <2>4 DEF Lists
  <2>6. e[n + 1] \in Nat
    BY <2>2
  <2> QED
    BY <2>3, <2>4, <2>5, <2>6
<1>5. m = n /\ \A j \in 1 .. m : e[j] = f[j]
  BY <1>2, <1>3, <1>4
<1> QED
  BY <1>5 DEF Agree

\* The slots that hold a line, in order.
SlotsOf(p) == Only([k \in DOMAIN p.ids |-> k], p.alive)

LEMMA LinesDef == \A p : Lines(p) = [j \in DOMAIN SlotsOf(p) |-> p.ids[SlotsOf(p)[j]]]
BY DEF Lines, SlotsOf

\* The live slots, in rising order.
LEMMA SlotsIs ==
    ASSUME NEW p, p.ids \in Seq(NodeId), p.alive \subseteq 1 .. Len(p.ids)
    PROVE  /\ SlotsOf(p) \in Seq(Nat)
           /\ Lists(SlotsOf(p), Len(SlotsOf(p)), p.alive)
           /\ DOMAIN SlotsOf(p) = 1 .. Len(SlotsOf(p))
<1> DEFINE s == [k \in DOMAIN p.ids |-> k]  t == SlotsOf(p)
<1>1. s \in Seq(Nat) /\ Len(s) = Len(p.ids) /\ \A k \in 1 .. Len(s) : s[k] = k
  OBVIOUS
<1>2. t \in Seq(Nat) /\ Picks(t, s, p.alive, Len(s))
  <2> HIDE DEF s
  <2>1. t = Only(s, p.alive)
    BY DEF SlotsOf, s
  <2> HIDE DEF t
  <2> QED
    BY <1>1, <2>1, OnlyIs
<1> HIDE DEF t, s
<1> DEFINE I == {i \in 1 .. Len(s) : s[i] \in p.alive}
<1>3. I = p.alive
  BY <1>1
<1>a. PICK e : Lists(e, Len(t), I) /\ \A j \in 1 .. Len(t) : t[j] = s[e[j]]
  BY <1>2 DEF Picks
<1> HIDE DEF I
<1>4. Lists(e, Len(t), p.alive) /\ \A j \in 1 .. Len(t) : t[j] = s[e[j]]
  BY <1>3, <1>a
<1>5. \A j \in 1 .. Len(t) : t[j] = e[j]
  BY <1>1, <1>4 DEF Lists
<1>6. Len(t) \in Nat /\ DOMAIN t = 1 .. Len(t)
  BY <1>2
<1>7. t \in [1 .. Len(t) -> p.alive]
  <2>1. t = [j \in 1 .. Len(t) |-> t[j]]
    BY <1>2, <1>6
  <2>2. \A j \in 1 .. Len(t) : t[j] \in p.alive
    BY <1>4, <1>5 DEF Lists
  <2> QED
    BY <2>1, <2>2
<1>8. Lists(t, Len(t), p.alive)
  BY <1>4, <1>5, <1>7 DEF Lists
<1> QED
  BY <1>2, <1>6, <1>8 DEF t

\* The pair that starts at slot k can merge, and its entry.
Pair(p, k, built) ==
    /\ k \in p.alive
    /\ p.next[k] <= Len(p.ids)
    /\ Siblings(p.ids[k], p.ids[p.next[k]])
    /\ Parent(p.ids[k]) \in built

Entry(p, k, total) ==
    [left |-> k, right |-> p.next[k], lgen |-> p.gen[k], rgen |-> p.gen[p.next[k]],
     num |-> total - LastOf(p.ids[p.next[k]]), level |-> p.ids[k].l]

\* consider puts in the entry of a pair that can merge.
LEMMA ConsiderIs ==
    \A p, k, total, built :
        Consider(p, k, total, built) = IF Pair(p, k, built) THEN {Entry(p, k, total)} ELSE {}
BY DEF Consider, Pair, Entry

\* The slots are linked, and the heap has the entry of each pair and no other.
Linked(p) ==
    /\ p.ids \in Seq(NodeId) /\ p.alive \subseteq 1 .. Len(p.ids)
    /\ p.next \in [1 .. Len(p.ids) -> Nat] /\ p.prev \in [1 .. Len(p.ids) -> Nat]
    /\ p.gen \in [1 .. Len(p.ids) -> Nat]
    /\ \A k \in p.alive :
        /\ p.next[k] \in k + 1 .. Len(p.ids) + 1
        /\ p.next[k] <= Len(p.ids) => p.next[k] \in p.alive /\ p.prev[p.next[k]] = k
        /\ \A j \in p.alive : j <= k \/ p.next[k] <= j

HeapIs(p, total, built) ==
    p.heap = {Entry(p, k, total) : k \in {x \in 1 .. Len(p.ids) : Pair(p, x, built)}}

Sound(p, total, built) == p \in Plans /\ Linked(p) /\ HeapIs(p, total, built)

\* A new planner is sound, and its lines are the view.
LEMMA PlannerSound ==
    ASSUME NEW lines \in Seq(NodeId), NEW total \in Nat, NEW built
    PROVE  Sound(Planner(lines, total, built), total, built) /\ Lines(Planner(lines, total, built)) = lines
<1> DEFINE N == Len(lines)  p == Planner(lines, total, built)
           o == [ids |-> lines, alive |-> DOMAIN lines, heap |-> {},
                 next |-> [k \in DOMAIN lines |-> k + 1], prev |-> [k \in DOMAIN lines |-> k - 1],
                 gen |-> [k \in DOMAIN lines |-> 0]]
           H == UNION {Consider(o, k, total, built) : k \in DOMAIN lines}
<1>1. N \in Nat /\ DOMAIN lines = 1 .. N
  OBVIOUS
<1>2. p = [o EXCEPT !.heap = H]
  BY DEF Planner
<1>3. /\ p.ids = lines /\ p.alive = 1 .. N /\ p.heap = H /\ DOMAIN p.ids = 1 .. N
      /\ p.next = [k \in 1 .. N |-> k + 1] /\ p.prev = [k \in 1 .. N |-> k - 1]
      /\ p.gen = [k \in 1 .. N |-> 0]
      /\ p = [ids |-> p.ids, alive |-> p.alive, heap |-> p.heap, next |-> p.next, prev |-> p.prev, gen |-> p.gen]
  <2> HIDE DEF H
  <2> QED
    BY <1>1, <1>2
<1>4. \A k : Pair(o, k, built) <=> Pair(p, k, built)
  <2>1. o.ids = p.ids /\ o.alive = p.alive /\ o.next = p.next
    BY <1>1, <1>3
  <2> HIDE DEF o, p
  <2> QED
    BY <2>1 DEF Pair
<1>5. \A k : Entry(o, k, total) = Entry(p, k, total)
  <2>1. o.ids = p.ids /\ o.gen = p.gen /\ o.next = p.next
    BY <1>1, <1>3
  <2> HIDE DEF o, p
  <2> QED
    BY <2>1 DEF Entry
<1> HIDE DEF o, p
<1>6. HeapIs(p, total, built)
  <2>1. \A k \in 1 .. N : Consider(o, k, total, built) = IF Pair(p, k, built) THEN {Entry(p, k, total)} ELSE {}
    BY <1>4, <1>5, ConsiderIs
  <2>2. H = {Entry(p, k, total) : k \in {x \in 1 .. N : Pair(p, x, built)}}
    BY <1>1, <2>1
  <2> QED
    BY <1>3, <2>2 DEF HeapIs
<1>7. Linked(p)
  BY <1>1, <1>3 DEF Linked
<1>8. p.heap \subseteq Entries
  <2>1. ASSUME NEW k \in 1 .. N, Pair(p, k, built) PROVE Entry(p, k, total) \in Entries
    <3>1. k \in Nat /\ p.next[k] = k + 1 /\ k + 1 \in 1 .. N /\ p.ids[k] \in NodeId /\ p.ids[k + 1] \in NodeId
      BY <1>1, <1>3, <2>1 DEF Pair
    <3>2. LastOf(p.ids[k + 1]) \in Nat
      BY <3>1, Spans
    <3>a. p.ids[k].l \in Nat
      BY <3>1, MaxLevelAssumption DEF NodeId
    <3>3. p.gen[k] = 0 /\ p.gen[k + 1] = 0
      BY <1>3, <3>1
    <3> QED
      BY <3>1, <3>2, <3>3, <3>a DEF Entry, Entries
  <2>2. ASSUME NEW f \in p.heap PROVE f \in Entries
    <3>1. Len(p.ids) = N
      BY <1>3
    <3>2. PICK k \in 1 .. N : Pair(p, k, built) /\ f = Entry(p, k, total)
      BY <1>6, <3>1 DEF HeapIs
    <3> QED
      BY <2>1, <3>2
  <2> QED
    BY <2>2
<1>9. p \in Plans
  <2>1. p.ids \in Seq(NodeId) /\ p.alive \in SUBSET Nat /\ p.heap \in SUBSET Entries
    BY <1>3, <1>8
  <2>2. p.next \in Seq(Nat) /\ p.prev \in Seq(Nat) /\ p.gen \in Seq(Nat)
    BY <1>1, <1>3
  <2> QED
    BY <1>3, <2>1, <2>2 DEF Plans
<1>10. Lines(p) = lines
  <2> DEFINE s == SlotsOf(p)
  <2>1. s \in Seq(Nat) /\ Lists(s, Len(s), 1 .. N) /\ DOMAIN s = 1 .. Len(s)
    BY <1>3, <1>7, SlotsIs DEF Linked
  <2>2. Lists([k \in 1 .. N |-> k], N, 1 .. N)
    BY <1>1 DEF Lists
  <2> HIDE DEF s
  <2>3. Len(s) = N /\ \A j \in 1 .. N : s[j] = [k \in 1 .. N |-> k][j]
    <3> DEFINE f == [k \in 1 .. N |-> k]
    <3> DEFINE I == 1 .. N  m == Len(s)
    <3>1. Lists(f, N, I) /\ Lists(s, m, I)
      BY <2>1, <2>2
    <3>2. N \in Nat /\ m \in Nat /\ I \in SUBSET Nat
      BY <1>1, <2>1
    <3> HIDE DEF f, N, I, m
    <3>3. m = N /\ Agree(s, f, m)
      BY <3>1, <3>2, ListsOnce
    <3> QED
      BY <3>3 DEF Agree, f, m
  <2>4. Lines(p) = [j \in 1 .. N |-> p.ids[s[j]]]
    BY <2>1, <2>3, LinesDef DEF s
  <2>5. \A j \in 1 .. N : p.ids[s[j]] = lines[j]
    BY <1>3, <2>3
  <2>6. lines = [j \in 1 .. N |-> lines[j]]
    BY <1>1
  <2> QED
    BY <2>4, <2>5, <2>6
<1> QED
  BY <1>6, <1>7, <1>9, <1>10 DEF Sound, p

\* The planner of no batch is a planner.
LEMMA EmptyPlanIs == EmptyPlan \in Plans
<1>1. <<>> \in Seq(NodeId) /\ 0 \in Nat
  OBVIOUS
<1>2. Sound(Planner(<<>>, 0, {}), 0, {})
  BY <1>1, PlannerSound
<1> QED
  BY <1>2 DEF Sound, EmptyPlan

\* The slots, taken in order, are linked one to the next.
LEMMA NextSlot ==
    ASSUME NEW p, Linked(p), NEW j \in 1 .. Len(SlotsOf(p))
    PROVE  /\ SlotsOf(p)[j] \in p.alive
           /\ p.next[SlotsOf(p)[j]] =
                  IF j < Len(SlotsOf(p)) THEN SlotsOf(p)[j + 1] ELSE Len(p.ids) + 1
<1> DEFINE s == SlotsOf(p)  n == Len(s)  N == Len(p.ids)
<1>1. s \in Seq(Nat) /\ Lists(s, n, p.alive)
  BY SlotsIs DEF Linked
<1>2. n \in Nat /\ N \in Nat /\ p.alive \subseteq 1 .. N
  BY <1>1 DEF Linked
<1>a. \A x \in p.alive : x \in Nat /\ x <= N
  BY <1>2
<1> HIDE DEF s
<1>3. s[j] \in p.alive
  BY <1>1 DEF Lists, s
<1>4. /\ p.next[s[j]] \in s[j] + 1 .. N + 1
      /\ p.next[s[j]] <= N => p.next[s[j]] \in p.alive
      /\ \A x \in p.alive : x <= s[j] \/ p.next[s[j]] <= x
  BY <1>3 DEF Linked
<1>5. CASE p.next[s[j]] <= N
  <2>1. PICK i \in 1 .. n : s[i] = p.next[s[j]]
    BY <1>1, <1>4, <1>5 DEF Lists
  <2>2. s[i] \in Nat /\ s[j] \in Nat /\ s[j] < s[i]
    <3>1. s[j] \in Nat /\ s[i] \in p.alive /\ s[i] \in s[j] + 1 .. N + 1
      BY <1>3, <1>4, <1>5, <1>a, <2>1
    <3> QED
      BY <1>2, <3>1
  <2>3. j < i
    <3> SUFFICES ASSUME ~ (j < i) PROVE FALSE
      OBVIOUS
    <3>1. i = j \/ i < j
      BY <1>2
    <3>2. s[i] <= s[j]
      BY <1>1, <2>2, <3>1 DEF Lists, s
    <3> QED
      BY <2>2, <3>2
  <2>4. j + 1 \in 1 .. n /\ j < n
    BY <1>2, <2>3 DEF s
  <2>5. s[j + 1] \in p.alive /\ s[j] < s[j + 1]
    BY <1>1, <2>4 DEF Lists, s
  <2>6. s[i] <= s[j + 1] /\ s[j + 1] \in Nat
    <3>1. s[j + 1] \in Nat /\ (s[j + 1] <= s[j] \/ s[i] <= s[j + 1])
      BY <1>4, <1>a, <2>1, <2>5
    <3> QED
      BY <2>2, <2>5, <3>1
  <2>7. i = j + 1
    <3> SUFFICES ASSUME j + 1 < i PROVE FALSE
      BY <2>3
    <3>1. s[j + 1] < s[i]
      BY <1>1, <2>4 DEF Lists
    <3> QED
      BY <2>2, <2>6, <3>1
  <2> QED
    BY <1>3, <2>1, <2>4, <2>7 DEF s
<1>6. CASE ~ (p.next[s[j]] <= N)
  <2>1. p.next[s[j]] = N + 1
    BY <1>2, <1>3, <1>4, <1>6
  <2>2. ~ (j < n)
    <3> SUFFICES ASSUME j < n PROVE FALSE
      OBVIOUS
    <3>1. j + 1 \in 1 .. n /\ j \in 1 .. n
      BY <1>2 DEF s
    <3>2. s[j + 1] \in p.alive /\ s[j] < s[j + 1]
      BY <1>1, <3>1 DEF Lists
    <3> QED
      BY <1>2, <1>3, <1>4, <2>1, <3>2
  <2> QED
    BY <1>3, <2>1, <2>2 DEF s
<1> QED
  BY <1>5, <1>6
\* What pop leaves, and the slots after a merge.
Popped(p, e) == [p EXCEPT !.heap = @ \ {e}]

Joins(m, p, k) ==
    /\ m.ids = [p.ids EXCEPT ![k] = Parent(p.ids[k])]
    /\ m.alive = p.alive \ {p.next[k]}
    /\ m.next = [p.next EXCEPT ![k] = p.next[p.next[k]]]
    /\ m.prev = IF p.next[p.next[k]] <= Len(p.ids) THEN [p.prev EXCEPT ![p.next[p.next[k]]] = k] ELSE p.prev
    /\ m.gen = [p.gen EXCEPT ![k] = @ + 1]

\* What a pair that can merge is.
LEMMA PairIs ==
    ASSUME NEW p, NEW built, Linked(p), NEW k, Pair(p, k, built)
    PROVE  /\ k \in p.alive /\ p.next[k] \in p.alive /\ k < p.next[k]
           /\ k \in 1 .. Len(p.ids) /\ p.next[k] \in 1 .. Len(p.ids)
           /\ p.ids[k] \in NodeId /\ p.ids[p.next[k]] \in NodeId
           /\ p.ids[k].i % 2 = 0 /\ p.ids[p.next[k]].i % 2 = 1
           /\ p.ids[k].l = p.ids[p.next[k]].l
           /\ Parent(p.ids[k]) \in built /\ Parent(p.ids[k]) = Parent(p.ids[p.next[k]])
<1>1. k \in p.alive /\ p.next[k] <= Len(p.ids) /\ Siblings(p.ids[k], p.ids[p.next[k]]) /\ Parent(p.ids[k]) \in built
  BY DEF Pair
<1>2. /\ p.alive \subseteq 1 .. Len(p.ids) /\ p.next[k] \in k + 1 .. Len(p.ids) + 1
      /\ p.next[k] \in p.alive /\ p.ids \in Seq(NodeId) /\ Len(p.ids) \in Nat
  BY <1>1 DEF Linked
<1>3. /\ k \in 1 .. Len(p.ids) /\ p.next[k] \in 1 .. Len(p.ids) /\ k < p.next[k]
  BY <1>1, <1>2
<1>4. p.ids[k] \in NodeId /\ p.ids[p.next[k]] \in NodeId
  BY <1>2, <1>3
<1> DEFINE a == p.ids[k]  b == p.ids[p.next[k]]
<1>5. a.l = b.l /\ a.i % 2 = 0 /\ b.i = a.i + 1 /\ a.i \in Nat
  BY <1>1, <1>4 DEF Siblings, NodeId
<1> HIDE DEF a, b
<1>6. b.i % 2 = 1 /\ a.i \div 2 = b.i \div 2
  <2>1. \A x \in Nat : x % 2 = 0 => (x + 1) % 2 = 1 /\ x \div 2 = (x + 1) \div 2
    OBVIOUS
  <2> QED
    BY <1>5, <2>1
<1>7. Parent(a) = Parent(b)
  BY <1>5, <1>6 DEF Parent
<1> QED
  BY <1>1, <1>2, <1>3, <1>4, <1>5, <1>6, <1>7 DEF a, b

\* A function on 1 .. N is a sequence.
LEMMA AsSeq ==
    ASSUME NEW N \in Nat, NEW f \in [1 .. N -> Nat]
    PROVE  f \in Seq(Nat)
OBVIOUS

\* A merge leaves the live slots linked in order.
LEMMA JoinsLinked ==
    ASSUME NEW p, NEW built \in SUBSET NodeId, Linked(p), NEW k, Pair(p, k, built),
           NEW m, Joins(m, p, k)
    PROVE  Linked(m) /\ Len(m.ids) = Len(p.ids)
<1> DEFINE N == Len(p.ids)  r == p.next[k]  n == p.next[r]
<1>1. /\ k \in p.alive /\ r \in p.alive /\ k < r /\ k \in 1 .. N /\ r \in 1 .. N
      /\ Parent(p.ids[k]) \in NodeId
  BY PairIs
<1>2. /\ p.ids \in Seq(NodeId) /\ p.alive \subseteq 1 .. N /\ N \in Nat
      /\ p.next \in [1 .. N -> Nat] /\ p.prev \in [1 .. N -> Nat] /\ p.gen \in [1 .. N -> Nat]
  BY DEF Linked
<1>3. n \in r + 1 .. N + 1 /\ (n <= N => n \in p.alive)
  BY <1>1 DEF Linked
<1>a. \A x \in p.alive : x \in Nat /\ 1 <= x /\ x <= N
  BY <1>2
<1> HIDE DEF r, n
<1>4. m.ids \in Seq(NodeId) /\ Len(m.ids) = N
  BY <1>1, <1>2 DEF Joins
<1> HIDE DEF N
<1>5. m.alive \subseteq 1 .. N /\ m.alive = p.alive \ {r}
  BY <1>2 DEF Joins, r
<1>6. /\ m.next \in [1 .. N -> Nat] /\ m.gen \in [1 .. N -> Nat]
      /\ m.next[k] = n /\ \A x \in 1 .. N : x # k => m.next[x] = p.next[x]
  <2>1. n \in Nat /\ k \in Nat
    BY <1>1, <1>2, <1>3
  <2>2. m.next = [p.next EXCEPT ![k] = n] /\ m.gen = [p.gen EXCEPT ![k] = @ + 1]
    BY DEF Joins, n, r
  <2>3. m.next \in [1 .. N -> Nat] /\ m.next[k] = n /\ \A x \in 1 .. N : x # k => m.next[x] = p.next[x]
    BY <1>1, <1>2, <2>1, <2>2
  <2>4. m.gen \in [1 .. N -> Nat]
    <3>a. p.gen[k] \in Nat
      BY <1>1, <1>2
    <3>1. p.gen[k] + 1 \in Nat
      BY <3>a
    <3> QED
      BY <1>2, <2>2, <3>1
  <2> QED
    BY <2>3, <2>4
<1>7. /\ m.prev \in [1 .. N -> Nat] /\ (n <= N => m.prev[n] = k)
      /\ \A x \in 1 .. N : x # n => m.prev[x] = p.prev[x]
  <2>1. m.prev = IF n <= N THEN [p.prev EXCEPT ![n] = k] ELSE p.prev
    BY DEF Joins, n, r, N
  <2>2. CASE n <= N
    <3>1. m.prev = [p.prev EXCEPT ![n] = k] /\ n \in 1 .. N /\ k \in Nat
      BY <1>2, <1>3, <1>a, <1>1, <2>1, <2>2
    <3> QED
      BY <1>2, <3>1
  <2>3. CASE ~ (n <= N)
    BY <1>2, <2>1, <2>3
  <2> QED
    BY <2>2, <2>3
<1>8. ASSUME NEW x \in m.alive
      PROVE  /\ m.next[x] \in x + 1 .. N + 1
             /\ m.next[x] <= N => m.next[x] \in m.alive /\ m.prev[m.next[x]] = x
             /\ \A j \in m.alive : j <= x \/ m.next[x] <= j
  <2>1. x \in p.alive /\ x # r /\ x \in 1 .. N
    BY <1>2, <1>5
  <2>2. CASE x = k
    <3>1. n \in x + 1 .. N + 1
      BY <1>1, <1>2, <1>3, <2>2
    <3>2. n <= N => n \in m.alive /\ m.prev[n] = x
      BY <1>1, <1>3, <1>5, <1>7, <1>a, <2>2
    <3>3. ASSUME NEW j \in m.alive PROVE j <= x \/ n <= j
      <4>1. j \in p.alive /\ j # r
        BY <1>5
      <4>2. j <= k \/ r <= j
        BY <1>1, <4>1 DEF Linked, r
      <4>3. j <= r \/ n <= j
        BY <1>1, <4>1 DEF Linked, n
      <4> QED
        BY <1>a, <1>1, <2>2, <4>1, <4>2, <4>3
    <3> QED
      BY <1>6, <2>2, <3>1, <3>2, <3>3
  <2>3. CASE x # k
    <3>1. /\ p.next[x] \in x + 1 .. N + 1
          /\ p.next[x] <= N => p.next[x] \in p.alive /\ p.prev[p.next[x]] = x
          /\ \A j \in p.alive : j <= x \/ p.next[x] <= j
      BY <2>1 DEF Linked, N
    <3>2. p.next[x] # r
      <4>1. p.prev[r] = k
        BY <1>1, <1>2 DEF Linked, r, N
      <4> QED
        BY <1>1, <1>a, <2>3, <3>1, <4>1
    <3>3. p.next[x] # n \/ n = N + 1
      <4>1. n <= N => p.prev[n] = r
        BY <1>1 DEF Linked, n, N
      <4>2. p.next[x] = n /\ n <= N => x = r
        BY <3>1, <4>1
      <4>3. r \in Nat /\ N \in Nat /\ n \in r + 1 .. N + 1
        BY <1>1, <1>2, <1>3
      <4>4. n <= N \/ n = N + 1
        BY <4>3
      <4> QED
        BY <2>1, <4>2, <4>4
    <3>4. p.next[x] <= N => p.next[x] \in m.alive /\ m.prev[p.next[x]] = x
      <4> SUFFICES ASSUME p.next[x] <= N PROVE p.next[x] \in m.alive /\ m.prev[p.next[x]] = x
        OBVIOUS
      <4>1. p.next[x] \in p.alive /\ p.prev[p.next[x]] = x /\ p.next[x] \in 1 .. N
        BY <1>2, <3>1
      <4>2. p.next[x] # n
        BY <1>2, <3>3
      <4> QED
        BY <1>5, <1>7, <3>2, <4>1, <4>2
    <3> QED
      BY <1>5, <1>6, <2>1, <2>3, <3>1, <3>4
  <2> QED
    BY <2>2, <2>3
<1>9. Linked(m)
  BY <1>2, <1>4, <1>5, <1>6, <1>7, <1>8 DEF Linked
<1> QED
  BY <1>4, <1>9 DEF N

\* The entry of a pair has its type.
LEMMA EntryIs ==
    ASSUME NEW p, NEW total \in Nat, NEW built, Linked(p), NEW k, Pair(p, k, built)
    PROVE  Entry(p, k, total) \in Entries
<1>1. /\ k \in Nat /\ p.next[k] \in Nat /\ k \in 1 .. Len(p.ids) /\ p.next[k] \in 1 .. Len(p.ids)
      /\ p.ids[k] \in NodeId /\ p.ids[p.next[k]] \in NodeId
  BY PairIs
<1>2. p.gen[k] \in Nat /\ p.gen[p.next[k]] \in Nat
  BY <1>1 DEF Linked
<1>3. LastOf(p.ids[p.next[k]]) \in Nat
  BY <1>1, Spans
<1>4. p.ids[k].l \in Nat
  BY <1>1, MaxLevelAssumption DEF NodeId
<1> QED
  BY <1>1, <1>2, <1>3, <1>4 DEF Entry, Entries

\* A pop changes the heap only.
LEMMA PoppedIs ==
    ASSUME NEW p \in Plans, NEW e
    PROVE  /\ Popped(p, e) \in Plans /\ Popped(p, e).heap = p.heap \ {e}
           /\ Popped(p, e).ids = p.ids /\ Popped(p, e).alive = p.alive
           /\ Popped(p, e).next = p.next /\ Popped(p, e).prev = p.prev /\ Popped(p, e).gen = p.gen
<1>1. /\ Popped(p, e).heap = p.heap \ {e}
      /\ Popped(p, e).ids = p.ids /\ Popped(p, e).alive = p.alive
      /\ Popped(p, e).next = p.next /\ Popped(p, e).prev = p.prev /\ Popped(p, e).gen = p.gen
  BY DEF Plans, Popped
<1>2. Popped(p, e) \in Plans
  BY DEF Plans, Popped
<1> QED
  BY <1>1, <1>2

\* A merge joins two slots and looks at the pairs on both sides.
LEMMA MergeIs ==
    ASSUME NEW p \in Plans, NEW built \in SUBSET NodeId, NEW total \in Nat, NEW e,
           Linked(p), NEW k, Pair(p, k, built)
    PROVE  LET m == Merge(Popped(p, e), k, total, built) IN
           /\ Joins(m, p, k) /\ Linked(m)
           /\ m.heap = (p.heap \ {e}) \cup Consider(m, m.prev[k], total, built) \cup Consider(m, k, total, built)
           /\ m \in Plans
<1> DEFINE q == Popped(p, e)
           r == q.next[k]
           n == q.next[r]
           o == [ids   |-> [q.ids EXCEPT ![k] = Parent(q.ids[k])],
                 alive |-> q.alive \ {r},
                 heap  |-> q.heap,
                 next  |-> [q.next EXCEPT ![k] = n],
                 prev  |-> IF n <= Len(q.ids) THEN [q.prev EXCEPT ![n] = k] ELSE q.prev,
                 gen   |-> [q.gen EXCEPT ![k] = q.gen[k] + 1]]
           H == o.heap \cup Consider(o, o.prev[k], total, built) \cup Consider(o, k, total, built)
           m == Merge(Popped(p, e), k, total, built)
<1>1. m = [o EXCEPT !.heap = H]
  BY DEF Merge
<1>2. /\ q.ids = p.ids /\ q.alive = p.alive /\ q.next = p.next /\ q.prev = p.prev /\ q.gen = p.gen
      /\ q.heap = p.heap \ {e} /\ q \in Plans
  BY PoppedIs
<1> HIDE DEF q
<1>3. /\ Joins(o, p, k) /\ o.heap = p.heap \ {e}
  BY <1>2 DEF Joins
<1>4. Linked(o)
  BY <1>3, JoinsLinked
<1>5. o \in Plans
  <2>1. /\ o.ids \in Seq(NodeId) /\ o.alive \subseteq Nat /\ o.heap \subseteq Entries
        /\ o.next \in Seq(Nat) /\ o.prev \in Seq(Nat) /\ o.gen \in Seq(Nat)
    <3>1. o.heap \subseteq Entries
      BY <1>2 DEF Plans
    <3> HIDE DEF o
    <3>2. Len(o.ids) \in Nat
      BY <1>4 DEF Linked
    <3>3. o.next \in Seq(Nat) /\ o.prev \in Seq(Nat) /\ o.gen \in Seq(Nat)
      BY <1>4, <3>2, AsSeq DEF Linked
    <3>4. o.ids \in Seq(NodeId) /\ o.alive \subseteq Nat
      BY <1>4, <3>2 DEF Linked
    <3> QED
      BY <3>1, <3>3, <3>4
  <2> QED
    BY <2>1 DEF Plans
<1> HIDE DEF o
<1>6. H \subseteq Entries
  <2>1. \A x : Consider(o, x, total, built) \subseteq Entries
    BY <1>4, ConsiderIs, EntryIs
  <2> QED
    BY <1>5, <2>1 DEF Plans
<1>7. /\ m.ids = o.ids /\ m.alive = o.alive /\ m.next = o.next /\ m.prev = o.prev /\ m.gen = o.gen
      /\ m.heap = H
  <2> HIDE DEF m, H
  <2> QED
    BY <1>1, <1>5 DEF Plans
<1>8. m \in Plans
  <2> HIDE DEF m, H
  <2> QED
    BY <1>1, <1>5, <1>6 DEF Plans
<1> HIDE DEF m
<1>9. \A x : Consider(m, x, total, built) = Consider(o, x, total, built)
  BY <1>7 DEF Consider
<1>10. Joins(m, p, k) /\ Linked(m)
  BY <1>3, <1>4, <1>7 DEF Joins, Linked
<1>11. m.heap = (p.heap \ {e}) \cup Consider(m, m.prev[k], total, built) \cup Consider(m, k, total, built)
  BY <1>3, <1>7, <1>9
<1> QED
  BY <1>8, <1>10, <1>11 DEF m

\* Other pairs are as they were, but the one that ends at the merged slot.
LEMMA JoinsPairs ==
    ASSUME NEW p, NEW built \in SUBSET NodeId, NEW total, Linked(p), NEW k, Pair(p, k, built),
           NEW m, Joins(m, p, k), NEW x \in 1 .. Len(p.ids), x # k
    PROVE  /\ Pair(p, x, built) => Pair(m, x, built) /\ Entry(p, x, total) = Entry(m, x, total)
           /\ Pair(m, x, built) => x = m.prev[k] \/ (Pair(p, x, built) /\ Entry(p, x, total) = Entry(m, x, total))
<1> DEFINE N == Len(p.ids)  r == p.next[k]  n == p.next[r]
<1>1. /\ k \in p.alive /\ r \in p.alive /\ k < r /\ k \in 1 .. N /\ r \in 1 .. N
      /\ p.ids[k].i % 2 = 0 /\ p.ids[r].i % 2 = 1 /\ Parent(p.ids[k]) \in NodeId
  BY PairIs
<1>2. /\ p.ids \in Seq(NodeId) /\ p.alive \subseteq 1 .. N /\ N \in Nat
      /\ p.next \in [1 .. N -> Nat] /\ p.prev \in [1 .. N -> Nat] /\ p.gen \in [1 .. N -> Nat]
  BY DEF Linked
<1>3. n \in r + 1 .. N + 1 /\ p.prev[r] = k
  BY <1>1, <1>2, SMTT(40) DEF Linked
<1> HIDE DEF r, n, N
<1>4. Len(m.ids) = N /\ Linked(m)
  BY JoinsLinked DEF N
<1>5. m.alive = p.alive \ {r} /\ \A y \in 1 .. N : y # k => m.ids[y] = p.ids[y] /\ m.gen[y] = p.gen[y] /\ m.next[y] = p.next[y]
  <2>1. /\ m.ids = [p.ids EXCEPT ![k] = Parent(p.ids[k])] /\ m.next = [p.next EXCEPT ![k] = n]
        /\ m.gen = [p.gen EXCEPT ![k] = p.gen[k] + 1] /\ m.alive = p.alive \ {r}
    BY DEF Joins, r, n
  <2>2. DOMAIN p.ids = 1 .. N
    BY <1>2 DEF N
  <2> QED
    BY <1>2, <2>1, <2>2
<1>6. m.prev[k] = p.prev[k]
  <2>1. k # n
    BY <1>1, <1>2, <1>3
  <2>2. m.prev = IF n <= N THEN [p.prev EXCEPT ![n] = k] ELSE p.prev
    BY DEF Joins, r, n, N
  <2> QED
    BY <1>1, <1>2, <2>1, <2>2
\* A slot that is alive and links elsewhere than to k or r.
<1>7. ASSUME x \in p.alive, p.next[x] <= N, p.next[x] # k, x # r
      PROVE  /\ x \in m.alive /\ m.next[x] = p.next[x] /\ m.ids[x] = p.ids[x] /\ m.gen[x] = p.gen[x]
             /\ p.next[x] \in 1 .. N /\ m.ids[p.next[x]] = p.ids[p.next[x]] /\ m.gen[p.next[x]] = p.gen[p.next[x]]
  <2>1. p.next[x] \in p.alive
    BY <1>7 DEF Linked, N
  <2> QED
    BY <1>2, <1>5, <1>7, <2>1 DEF N
<1>8. ASSUME Pair(p, x, built) PROVE Pair(m, x, built) /\ Entry(p, x, total) = Entry(m, x, total)
  <2>1. x \in p.alive /\ p.next[x] <= N /\ Siblings(p.ids[x], p.ids[p.next[x]]) /\ Parent(p.ids[x]) \in built
    BY <1>8 DEF Pair, N
  <2>2. p.ids[x].i % 2 = 0 /\ p.ids[p.next[x]].i % 2 = 1
    BY <1>8, PairIs
  <2>3. x # r /\ p.next[x] # k
    BY <1>1, <2>2
  <2>4. /\ x \in m.alive /\ m.next[x] = p.next[x] /\ m.ids[x] = p.ids[x] /\ m.gen[x] = p.gen[x]
        /\ p.next[x] \in 1 .. N /\ m.ids[p.next[x]] = p.ids[p.next[x]] /\ m.gen[p.next[x]] = p.gen[p.next[x]]
    BY <1>7, <2>1, <2>3
  <2>5. Pair(m, x, built)
    BY <1>4, <2>1, <2>4 DEF Pair
  <2>6. Entry(p, x, total) = Entry(m, x, total)
    BY <2>4 DEF Entry
  <2> QED
    BY <2>5, <2>6
<1>9. ASSUME Pair(m, x, built), x # m.prev[k] PROVE Pair(p, x, built) /\ Entry(p, x, total) = Entry(m, x, total)
  <2>1. x \in m.alive /\ m.next[x] <= N /\ Siblings(m.ids[x], m.ids[m.next[x]]) /\ Parent(m.ids[x]) \in built
    BY <1>4, <1>9 DEF Pair
  <2>2. x \in p.alive /\ x # r /\ p.next[x] = m.next[x] /\ x \in 1 .. N
    BY <1>5, <2>1 DEF N
  <2>3. p.next[x] # k
    <3> SUFFICES ASSUME p.next[x] = k PROVE FALSE
      OBVIOUS
    <3>1. p.prev[k] = x
      BY <2>1, <2>2 DEF Linked, N
    <3> QED
      BY <1>6, <1>9, <3>1
  <2>4. /\ x \in m.alive /\ m.next[x] = p.next[x] /\ m.ids[x] = p.ids[x] /\ m.gen[x] = p.gen[x]
        /\ p.next[x] \in 1 .. N /\ m.ids[p.next[x]] = p.ids[p.next[x]] /\ m.gen[p.next[x]] = p.gen[p.next[x]]
    BY <1>7, <2>1, <2>2, <2>3
  <2>5. Pair(p, x, built)
    BY <2>1, <2>2, <2>4 DEF Pair, N
  <2>6. Entry(p, x, total) = Entry(m, x, total)
    BY <2>4 DEF Entry
  <2> QED
    BY <2>5, <2>6
<1> QED
  BY <1>8, <1>9

\* ... and that is enough: the heap has the entry of each pair again.
LEMMA MergeSound ==
    ASSUME NEW p, NEW built \in SUBSET NodeId, NEW total \in Nat, Sound(p, total, built),
           NEW k, Pair(p, k, built)
    PROVE  LET m == Merge(Popped(p, Entry(p, k, total)), k, total, built) IN
           Sound(m, total, built) /\ Joins(m, p, k)
<1> DEFINE e == Entry(p, k, total)  m == Merge(Popped(p, e), k, total, built)  N == Len(p.ids)
<1>1. p \in Plans /\ Linked(p) /\ HeapIs(p, total, built)
  BY DEF Sound
<1>2. /\ Joins(m, p, k) /\ Linked(m) /\ m \in Plans
      /\ m.heap = (p.heap \ {e}) \cup Consider(m, m.prev[k], total, built) \cup Consider(m, k, total, built)
  BY <1>1, MergeIs
<1> HIDE DEF m, e
<1>3. Len(m.ids) = N /\ k \in 1 .. N /\ m.alive \subseteq 1 .. N
  <2>1. Len(m.ids) = N
    BY <1>1, <1>2, JoinsLinked
  <2> QED
    BY <1>1, <1>2, <2>1, PairIs DEF Linked
<1>4. \A f \in m.heap : \E x \in 1 .. N : Pair(m, x, built) /\ f = Entry(m, x, total)
  <2>1. ASSUME NEW f \in p.heap \ {e} PROVE \E x \in 1 .. N : Pair(m, x, built) /\ f = Entry(m, x, total)
    <3>1. PICK x \in 1 .. N : Pair(p, x, built) /\ f = Entry(p, x, total)
      BY <1>1 DEF HeapIs
    <3>2. x # k
      BY <3>1 DEF e
    <3>3. Pair(m, x, built) /\ Entry(p, x, total) = Entry(m, x, total)
      BY <1>1, <1>2, <3>1, <3>2, JoinsPairs
    <3> QED
      BY <3>1, <3>3
  <2>2. ASSUME NEW y, NEW f \in Consider(m, y, total, built)
        PROVE  \E x \in 1 .. N : Pair(m, x, built) /\ f = Entry(m, x, total)
    <3>1. Pair(m, y, built) /\ f = Entry(m, y, total)
      BY ConsiderIs
    <3>2. y \in 1 .. N
      BY <1>3, <3>1 DEF Pair
    <3> QED
      BY <3>1, <3>2
  <2> QED
    BY <1>2, <2>1, <2>2
<1>5. ASSUME NEW x \in 1 .. N, Pair(m, x, built) PROVE Entry(m, x, total) \in m.heap
  <2>1. CASE x = k \/ x = m.prev[k]
    <3>1. Entry(m, x, total) \in Consider(m, x, total, built)
      BY <1>5, ConsiderIs
    <3> QED
      BY <1>2, <2>1, <3>1
  <2>2. CASE x # k /\ x # m.prev[k]
    <3>a. Pair(m, x, built) => x = m.prev[k] \/ (Pair(p, x, built) /\ Entry(p, x, total) = Entry(m, x, total))
      BY <1>1, <1>2, <2>2, JoinsPairs
    <3>1. Pair(p, x, built) /\ Entry(p, x, total) = Entry(m, x, total)
      BY <1>5, <2>2, <3>a
    <3>2. Entry(p, x, total) \in p.heap
      BY <1>1, <3>1 DEF HeapIs
    <3>3. Entry(p, x, total).left = x /\ e.left = k
      BY DEF Entry, e
    <3> QED
      BY <1>2, <2>2, <3>1, <3>2, <3>3
  <2> QED
    BY <2>1, <2>2
<1>6. HeapIs(m, total, built)
  <2>1. m.heap = {Entry(m, x, total) : x \in {y \in 1 .. N : Pair(m, y, built)}}
    BY <1>4, <1>5
  <2> QED
    BY <1>3, <2>1 DEF HeapIs
<1> QED
  BY <1>2, <1>6 DEF Sound, m, e
-----------------------------------------------------------------------------
(* The planner's lines, and the rule on them.                                  *)

\* The lines are the nodes of the live slots.
LEMMA LinesAre ==
    ASSUME NEW p, Linked(p)
    PROVE  /\ Lines(p) \in Seq(NodeId)
           /\ Len(Lines(p)) = Len(SlotsOf(p))
           /\ \A j \in 1 .. Len(SlotsOf(p)) : Lines(p)[j] = p.ids[SlotsOf(p)[j]]
<1> DEFINE s == SlotsOf(p)
<1>1. /\ s \in Seq(Nat) /\ Lists(s, Len(s), p.alive) /\ DOMAIN s = 1 .. Len(s)
      /\ p.ids \in Seq(NodeId) /\ p.alive \subseteq 1 .. Len(p.ids)
  BY SlotsIs DEF Linked
<1>a. Lines(p) = [j \in DOMAIN s |-> p.ids[s[j]]]
  BY LinesDef
<1>2. Len(s) \in Nat /\ Lines(p) = [j \in 1 .. Len(s) |-> p.ids[s[j]]]
  <2> HIDE DEF s
  <2> QED
    BY <1>1, <1>a
<1>3. \A j \in 1 .. Len(s) : p.ids[s[j]] \in NodeId
  BY <1>1 DEF Lists
<1> HIDE DEF s
<1>4. Lines(p) \in Seq(NodeId) /\ Len(Lines(p)) = Len(s)
  BY <1>2, <1>3
<1> QED
  BY <1>2, <1>4 DEF s

\* The pairs of slots are the pairs of lines that can merge.
LEMMA PairsAre ==
    ASSUME NEW p, Linked(p), NEW built
    PROVE  /\ \A j \in 1 .. Len(SlotsOf(p)) :
                  j \in Mergeable(Lines(p), built) <=> Pair(p, SlotsOf(p)[j], built)
           /\ \A j \in Mergeable(Lines(p), built) :
                  /\ j \in 1 .. Len(SlotsOf(p)) - 1
                  /\ p.next[SlotsOf(p)[j]] = SlotsOf(p)[j + 1]
<1> DEFINE s == SlotsOf(p)  n == Len(s)  v == Lines(p)
<1>1. n \in Nat /\ Len(v) = n /\ \A j \in 1 .. n : v[j] = p.ids[s[j]]
  BY LinesAre, SlotsIs DEF Linked
<1>2. \A j \in 1 .. n : s[j] \in p.alive /\ p.next[s[j]] = IF j < n THEN s[j + 1] ELSE Len(p.ids) + 1
  BY NextSlot
<1>3. p.alive \subseteq 1 .. Len(p.ids) /\ Len(p.ids) \in Nat
  BY DEF Linked
<1> HIDE DEF s, v
<1>4. ASSUME NEW j \in 1 .. n, j < n
      PROVE  j \in Mergeable(v, built) <=> Pair(p, s[j], built)
  <2>1. /\ j \in 1 .. n - 1 /\ j + 1 \in 1 .. n /\ p.next[s[j]] = s[j + 1] /\ s[j] \in p.alive
        /\ v[j] = p.ids[s[j]] /\ v[j + 1] = p.ids[s[j + 1]] /\ s[j + 1] \in p.alive
    BY <1>1, <1>2, <1>4
  <2>2. p.next[s[j]] <= Len(p.ids)
    BY <1>3, <2>1
  <2> QED
    BY <1>1, <2>1, <2>2 DEF Mergeable, Pair
<1>5. ASSUME NEW j \in 1 .. n, ~ (j < n)
      PROVE  j \notin Mergeable(v, built) /\ ~ Pair(p, s[j], built)
  <2>1. p.next[s[j]] = Len(p.ids) + 1
    BY <1>2, <1>5
  <2>2. ~ Pair(p, s[j], built)
    BY <1>3, <2>1 DEF Pair
  <2>3. j \notin 1 .. n - 1
    BY <1>1, <1>5
  <2> QED
    BY <1>1, <2>2, <2>3 DEF Mergeable
<1>6. \A j \in Mergeable(v, built) : j \in 1 .. n - 1 /\ j \in 1 .. n /\ j < n
  BY <1>1 DEF Mergeable
<1> QED
  BY <1>2, <1>4, <1>5, <1>6 DEF s, v

\* The top of the heap is the pair that is due by the most.
LEMMA TopIsMostDue ==
    ASSUME NEW p, NEW total \in Nat, NEW built, Sound(p, total, built), NEW e \in Tops(p)
    PROVE  \E j \in MostDue(Lines(p), total, built) :
               e = Entry(p, SlotsOf(p)[j], total) /\ Pair(p, SlotsOf(p)[j], built)
<1> DEFINE s == SlotsOf(p)  n == Len(s)  v == Lines(p)  M == Mergeable(v, built)
           num(j) == total - LastOf(v[j + 1])
<1>1. Linked(p) /\ HeapIs(p, total, built)
  BY DEF Sound
<1>2. /\ n \in Nat /\ Len(v) = n /\ \A j \in 1 .. n : v[j] = p.ids[s[j]]
      /\ Lists(s, n, p.alive) /\ p.alive \subseteq 1 .. Len(p.ids)
  BY <1>1, LinesAre, SlotsIs, SMTT(40) DEF Linked
<1>3. /\ \A j \in 1 .. n : j \in M <=> Pair(p, s[j], built)
      /\ \A j \in M : j \in 1 .. n - 1 /\ p.next[s[j]] = s[j + 1]
  BY <1>1, PairsAre
<1> HIDE DEF s, v, M
<1>4. e \in p.heap /\ \A f \in p.heap : ~ Ahead(f, e)
  BY DEF Tops
<1>5. PICK x \in 1 .. Len(p.ids) : Pair(p, x, built) /\ e = Entry(p, x, total)
  BY <1>1, <1>4 DEF HeapIs
<1>6. PICK k \in 1 .. n : s[k] = x
  BY <1>2, <1>5 DEF Lists, Pair
<1>7. k \in M
  BY <1>3, <1>5, <1>6
<1>8. \A j \in M : /\ Entry(p, s[j], total) \in p.heap /\ j \in 1 .. n
                   /\ Entry(p, s[j], total).num = num(j)
                   /\ Entry(p, s[j], total).level = v[j].l
                   /\ Entry(p, s[j], total).left = s[j]
  <2>1. ASSUME NEW j \in M
        PROVE  /\ Entry(p, s[j], total) \in p.heap /\ j \in 1 .. n
               /\ Entry(p, s[j], total).num = num(j)
               /\ Entry(p, s[j], total).level = v[j].l
               /\ Entry(p, s[j], total).left = s[j]
    <3>1. j \in 1 .. n /\ j + 1 \in 1 .. n /\ p.next[s[j]] = s[j + 1]
      BY <1>2, <1>3
    <3>2. Pair(p, s[j], built) /\ s[j] \in 1 .. Len(p.ids)
      BY <1>2, <1>3, <3>1 DEF Pair
    <3>3. v[j] = p.ids[s[j]] /\ v[j + 1] = p.ids[s[j + 1]]
      BY <1>2, <3>1
    <3>4. Entry(p, s[j], total) \in p.heap
      BY <1>1, <3>2 DEF HeapIs
    <3> QED
      BY <3>1, <3>3, <3>4 DEF Entry
  <2> QED
    BY <2>1
<1>9. ASSUME NEW j \in M
      PROVE  /\ ~ MoreDue(num(j), v[j].l, num(k), v[k].l)
             /\ j < k => MoreDue(num(k), v[k].l, num(j), v[j].l)
  <2>1. ~ Ahead(Entry(p, s[j], total), e)
    BY <1>4, <1>8
  <2>2. e.num = num(k) /\ e.level = v[k].l /\ e.left = s[k]
    BY <1>5, <1>6, <1>7, <1>8
  <2>3. /\ ~ MoreDue(num(j), v[j].l, num(k), v[k].l)
        /\ s[j] < s[k] => MoreDue(num(k), v[k].l, num(j), v[j].l)
    <3> HIDE DEF num
    <3> QED
      BY <1>8, <2>1, <2>2 DEF Ahead
  <2>4. j < k => s[j] < s[k]
    BY <1>2, <1>8 DEF Lists
  <2> QED
    BY <2>3, <2>4
<1>10. k \in MostDue(v, total, built)
  BY <1>7, <1>9 DEF MostDue, M
<1> QED
  BY <1>5, <1>6, <1>10 DEF s, v

\* With an empty heap no lines can merge.
LEMMA NoPairNoEntry ==
    ASSUME NEW p, NEW total \in Nat, NEW built, Sound(p, total, built), p.heap = {}
    PROVE  MostDue(Lines(p), total, built) = {}
<1>1. Linked(p) /\ HeapIs(p, total, built)
  BY DEF Sound
<1>2. ASSUME NEW j \in Mergeable(Lines(p), built) PROVE FALSE
  <2>1. j \in 1 .. Len(SlotsOf(p)) /\ Pair(p, SlotsOf(p)[j], built)
    BY <1>1, PairsAre, SlotsIs DEF Linked
  <2>2. SlotsOf(p)[j] \in 1 .. Len(p.ids)
    BY <1>1, <2>1 DEF Pair, Linked
  <2>3. Entry(p, SlotsOf(p)[j], total) \in p.heap
    BY <1>1, <2>1, <2>2 DEF HeapIs
  <2> QED
    BY <2>3
<1> QED
  BY <1>2 DEF MostDue

\* An entry of a sound heap is never stale.
LEMMA AlwaysFresh ==
    ASSUME NEW p, NEW total \in Nat, NEW built, Sound(p, total, built),
           NEW k, Pair(p, k, built), NEW e, e = Entry(p, k, total)
    PROVE  e.left = k /\ Fresh(Popped(p, e), e)
<1>1. p \in Plans /\ Linked(p)
  BY DEF Sound
<1>2. k \in p.alive /\ p.next[k] \in p.alive
  BY <1>1, PairIs
<1>3. e.left = k /\ e.right = p.next[k] /\ e.lgen = p.gen[k] /\ e.rgen = p.gen[p.next[k]]
  BY DEF Entry
<1> QED
  BY <1>1, <1>2, <1>3, PoppedIs DEF Fresh
\* A merge of slots is a merge of lines.
LEMMA JoinsLines ==
    ASSUME NEW p, NEW built \in SUBSET NodeId, Linked(p), NEW m,
           NEW a \in 1 .. Len(SlotsOf(p)), Pair(p, SlotsOf(p)[a], built), Joins(m, p, SlotsOf(p)[a])
    PROVE  Lines(m) = MergeAt(Lines(p), a)
<1> DEFINE s == SlotsOf(p)  n == Len(s)  k == s[a]  t == SlotsOf(m)
           f == [j \in 1 .. n - 1 |-> IF j <= a THEN s[j] ELSE s[j + 1]]
<1>1. Linked(m) /\ Len(m.ids) = Len(p.ids)
  BY JoinsLinked
<1>2. /\ s \in Seq(Nat) /\ Lists(s, n, p.alive) /\ t \in Seq(Nat) /\ Lists(t, Len(t), m.alive)
      /\ p.alive \subseteq 1 .. Len(p.ids)
  BY <1>1, SlotsIs DEF Linked
<1>3. n \in Nat /\ Len(t) \in Nat
  BY <1>2
<1>4. a < n /\ p.next[k] = s[a + 1]
  <2>1. p.next[k] <= Len(p.ids) /\ Len(p.ids) \in Nat
    BY DEF Pair, Linked
  <2>2. p.next[k] = IF a < n THEN s[a + 1] ELSE Len(p.ids) + 1
    BY NextSlot
  <2> QED
    BY <2>1, <2>2
<1> HIDE DEF s, t
<1>5. m.alive = p.alive \ {s[a + 1]} /\ m.ids = [p.ids EXCEPT ![s[a]] = Parent(p.ids[s[a]])]
  BY <1>4 DEF Joins, s
<1> HIDE DEF n
<1>6. a \in 1 .. n /\ a + 1 \in 1 .. n /\ a \in 1 .. n - 1
  BY <1>3, <1>4 DEF n, s
<1>b. \A x \in 1 .. n : s[x] \in p.alive
  BY <1>2 DEF Lists
<1>c. p.alive \subseteq Nat /\ p.alive \subseteq DOMAIN p.ids
  BY <1>2 DEF Linked
<1>7. \A i, j \in 1 .. n : i # j => s[i] # s[j]
  <2>1. ASSUME NEW i \in 1 .. n, NEW j \in 1 .. n, i # j PROVE s[i] # s[j]
    <3>1. i < j \/ j < i
      BY <1>3, <2>1
    <3>2. s[i] < s[j] \/ s[j] < s[i]
      BY <1>2, <3>1 DEF Lists
    <3>3. s[i] \in Nat /\ s[j] \in Nat
      BY <1>b, <1>c
    <3> QED
      BY <3>2, <3>3
  <2> QED
    BY <2>1
<1>8. \A j \in 1 .. n - 1 : /\ j <= a => j \in 1 .. n /\ j # a + 1 /\ f[j] = s[j]
                            /\ ~ (j <= a) => j + 1 \in 1 .. n /\ j + 1 # a + 1 /\ f[j] = s[j + 1]
  BY <1>3, <1>6
<1>9. Lists(f, n - 1, m.alive)
  <2>1. f \in [1 .. n - 1 -> m.alive]
    <3>1. \A j \in 1 .. n : s[j] \in p.alive
      BY <1>2 DEF Lists
    <3>2. \A j \in 1 .. n - 1 : f[j] \in m.alive
      BY <1>5, <1>6, <1>7, <1>8, <3>1
    <3>3. f = [j \in 1 .. n - 1 |-> f[j]]
      OBVIOUS
    <3> HIDE DEF f
    <3> QED
      BY <3>2, <3>3
  <2>2. ASSUME NEW i \in 1 .. n - 1, NEW j \in 1 .. n - 1, i < j PROVE f[i] < f[j]
    <3> DEFINE x == IF i <= a THEN i ELSE i + 1  y == IF j <= a THEN j ELSE j + 1
    <3>1. x \in 1 .. n /\ y \in 1 .. n /\ x < y
      BY <1>3, <1>6, <2>2
    <3>2. f[i] = s[x] /\ f[j] = s[y]
      OBVIOUS
    <3> HIDE DEF x, y, f
    <3> QED
      BY <1>2, <3>1, <3>2 DEF Lists
  <2>3. ASSUME NEW z \in m.alive PROVE \E j \in 1 .. n - 1 : f[j] = z
    <3>1. PICK i \in 1 .. n : s[i] = z
      BY <1>2, <1>5 DEF Lists
    <3>2. i # a + 1
      BY <1>5, <3>1
    <3>3. CASE i <= a
      <4>1. i \in 1 .. n - 1 /\ f[i] = s[i]
        BY <1>3, <1>6, <3>3
      <4> QED
        BY <3>1, <4>1
    <3>4. CASE ~ (i <= a)
      <4>1. i - 1 \in 1 .. n - 1 /\ ~ (i - 1 <= a) /\ (i - 1) + 1 = i
        BY <1>3, <1>6, <3>2, <3>4
      <4>2. f[i - 1] = s[i]
        BY <4>1
      <4> QED
        BY <3>1, <4>1, <4>2
    <3> QED
      BY <3>3, <3>4
  <2> HIDE DEF f
  <2> QED
    BY <2>1, <2>2, <2>3 DEF Lists
<1> HIDE DEF f
<1>10. Len(t) = n - 1 /\ Agree(t, f, Len(t))
  <2>1. n - 1 \in Nat /\ m.alive \in SUBSET Nat
    BY <1>2, <1>3, <1>5, <1>6
  <2> QED
    BY <1>2, <1>3, <1>9, <2>1, ListsOnce
<1>11. /\ Lines(m) \in Seq(NodeId) /\ Len(Lines(m)) = n - 1
       /\ \A j \in 1 .. n - 1 : Lines(m)[j] = m.ids[f[j]]
  BY <1>1, <1>10, LinesAre DEF Agree, t
<1>12. Len(Lines(p)) = n /\ \A j \in 1 .. n : Lines(p)[j] = p.ids[s[j]]
  BY LinesAre DEF n, s
<1>13. ASSUME NEW j \in 1 .. n - 1
       PROVE  Lines(m)[j] = IF j < a THEN Lines(p)[j]
                            ELSE IF j = a THEN Parent(Lines(p)[a]) ELSE Lines(p)[j + 1]
  <2>0. \A x \in 1 .. n : s[x] \in DOMAIN p.ids
    BY <1>b, <1>c
  <2>1. CASE j < a
    <3>1. j \in 1 .. n /\ f[j] = s[j] /\ s[j] # s[a]
      BY <1>3, <1>6, <1>7, <1>8, <2>1
    <3> QED
      BY <1>5, <1>11, <1>12, <2>0, <2>1, <3>1
  <2>2. CASE j = a
    <3>1. f[j] = s[a]
      BY <1>3, <1>6, <1>8, <2>2
    <3> QED
      BY <1>5, <1>6, <1>11, <1>12, <2>0, <2>2, <3>1
  <2>3. CASE j > a
    <3>1. j + 1 \in 1 .. n /\ f[j] = s[j + 1] /\ s[j + 1] # s[a] /\ ~ (j < a) /\ j # a
      BY <1>3, <1>6, <1>7, <1>8, <2>3
    <3> QED
      BY <1>5, <1>11, <1>12, <2>0, <3>1
  <2> QED
    BY <1>3, <1>6, <2>1, <2>2, <2>3
<1>14. Lines(m) = [j \in 1 .. n - 1 |-> Lines(m)[j]]
  BY <1>3, <1>11
<1>15. MergeAt(Lines(p), a) =
         [j \in 1 .. n - 1 |-> IF j < a THEN Lines(p)[j]
                               ELSE IF j = a THEN Parent(Lines(p)[a]) ELSE Lines(p)[j + 1]]
  BY <1>12 DEF MergeAt
<1> QED
  BY <1>13, <1>14, <1>15
-----------------------------------------------------------------------------
(* Lines without a gap.                                                        *)

Covers(lines, count) ==
    /\ IF lines = <<>>
       THEN count = 0
       ELSE FirstOf(lines[1]) = 0 /\ LastOf(lines[Len(lines)]) = count - 1
    /\ \A k \in 1 .. Len(lines) - 1 : FirstOf(lines[k + 1]) = LastOf(lines[k]) + 1

\* apply_view accepts just the views that cover a prefix of the log.
LEMMA UsableIs == \A v, n : Usable(v, n) <=> v.count <= n /\ Covers(v.lines, v.count)
BY DEF Usable, Covers

\* Lines that cover go on with the next message.
LEMMA CoversMore ==
    ASSUME NEW lines \in Seq(NodeId), NEW count \in Nat, Covers(lines, count)
    PROVE  /\ Append(lines, Leaf(count)) \in Seq(NodeId)
           /\ Covers(Append(lines, Leaf(count)), count + 1)
<1> DEFINE n == Len(lines)  x == Leaf(count)  r == Append(lines, x)
<1>1. x \in NodeId /\ FirstOf(x) = count /\ LastOf(x) = count
  BY LeafSpan
<1> HIDE DEF x
<1>2. /\ r \in Seq(NodeId) /\ Len(r) = n + 1 /\ n \in Nat /\ r[n + 1] = x
      /\ \A k \in 1 .. n : r[k] = lines[k]
  BY <1>1
<1>3. r # <<>>
  BY <1>2
<1> HIDE DEF r
<1>4. n = 0 => count = 0
  BY DEF Covers
<1>5. n # 0 => FirstOf(lines[1]) = 0 /\ LastOf(lines[n]) = count - 1
  BY DEF Covers
<1>6. \A k \in 1 .. n - 1 : FirstOf(lines[k + 1]) = LastOf(lines[k]) + 1
  BY DEF Covers
<1>7. FirstOf(r[1]) = 0
  <2>1. CASE n = 0
    BY <1>1, <1>2, <1>4, <2>1
  <2>2. CASE n # 0
    <3>1. 1 \in 1 .. n
      BY <1>2, <2>2
    <3> QED
      BY <1>2, <1>5, <2>2, <3>1
  <2> QED
    BY <2>1, <2>2
<1>8. LastOf(r[Len(r)]) = (count + 1) - 1
  BY <1>1, <1>2
<1>9. ASSUME NEW k \in 1 .. Len(r) - 1 PROVE FirstOf(r[k + 1]) = LastOf(r[k]) + 1
  <2>1. k \in 1 .. n /\ r[k] = lines[k]
    BY <1>2
  <2>2. CASE k = n
    <3>1. r[k + 1] = x /\ n # 0
      BY <1>2, <2>1, <2>2
    <3> QED
      BY <1>1, <1>5, <2>1, <2>2, <3>1
  <2>3. CASE k # n
    <3>1. k \in 1 .. n - 1 /\ k + 1 \in 1 .. n
      BY <1>2, <2>1, <2>3
    <3> QED
      BY <1>2, <1>6, <2>1, <3>1
  <2> QED
    BY <2>2, <2>3
<1>10. Covers(r, count + 1)
  BY <1>3, <1>7, <1>8, <1>9 DEF Covers
<1> QED
  BY <1>2, <1>10 DEF r, x

\* Lines that cover do so after a merge of siblings.
LEMMA CoversMerge ==
    ASSUME NEW v \in Seq(NodeId), NEW count \in Nat, Covers(v, count),
           NEW j \in 1 .. Len(v) - 1, Siblings(v[j], v[j + 1]), Parent(v[j]) \in NodeId
    PROVE  Covers(MergeAt(v, j), count)
<1> DEFINE n == Len(v)  r == MergeAt(v, j)  y == Parent(v[j])
<1>1. /\ n \in Nat /\ r = [k \in 1 .. n - 1 |-> IF k < j THEN v[k] ELSE IF k = j THEN y ELSE v[k + 1]]
      /\ \A k \in 1 .. n : v[k] \in NodeId
  BY DEF MergeAt
<1>2. /\ j \in 1 .. n /\ j + 1 \in 1 .. n /\ n - 1 \in Nat
      /\ v[j] \in NodeId /\ v[j + 1] \in NodeId
  BY <1>1
<1>3. FirstOf(y) = FirstOf(v[j]) /\ LastOf(y) = LastOf(v[j + 1])
  <2> DEFINE a == v[j]  b == v[j + 1]
  <2>1. a \in NodeId /\ b \in NodeId /\ a.l = b.l /\ a.i % 2 = 0 /\ b.i = a.i + 1 /\ a.i \in Nat
    BY <1>2 DEF Siblings, NodeId
  <2> HIDE DEF a, b
  <2>2. b.i % 2 = 1 /\ a.i \div 2 = b.i \div 2
    <3>1. \A x \in Nat : x % 2 = 0 => (x + 1) % 2 = 1 /\ x \div 2 = (x + 1) \div 2
      OBVIOUS
    <3> QED
      BY <2>1, <3>1
  <2>3. Parent(a) = Parent(b)
    BY <2>1, <2>2 DEF Parent
  <2>4. FirstOf(Parent(a)) = FirstOf(a) /\ LastOf(Parent(b)) = LastOf(b)
    BY <2>1, <2>2, ParentSpan
  <2> QED
    BY <2>3, <2>4 DEF a, b
<1> HIDE DEF y
<1>4. r \in Seq(NodeId) /\ Len(r) = n - 1
  <2>1. \A k \in 1 .. n - 1 : (IF k < j THEN v[k] ELSE IF k = j THEN y ELSE v[k + 1]) \in NodeId
    BY <1>1 DEF y
  <2> QED
    BY <1>1, <1>2, <2>1
<1>5. /\ \A k \in 1 .. j - 1 : r[k] = v[k]
      /\ r[j] = y
      /\ \A k \in j + 1 .. n - 1 : r[k] = v[k + 1]
  BY <1>1, <1>2
<1> HIDE DEF r, n
<1>6. n # 0 /\ v # <<>> /\ r # <<>>
  BY <1>2, <1>4, <1>1 DEF n
<1>7. FirstOf(v[1]) = 0 /\ LastOf(v[n]) = count - 1 /\ \A k \in 1 .. n - 1 : FirstOf(v[k + 1]) = LastOf(v[k]) + 1
  BY <1>6 DEF Covers, n
<1>8. FirstOf(r[1]) = 0
  <2>1. CASE j = 1
    BY <1>3, <1>5, <1>7, <2>1
  <2>2. CASE j # 1
    <3>1. 1 \in 1 .. j - 1
      BY <1>2, <2>2
    <3> QED
      BY <1>5, <1>7, <3>1
  <2> QED
    BY <2>1, <2>2
<1>9. LastOf(r[Len(r)]) = count - 1
  <2>1. CASE j = n - 1
    <3>1. j + 1 = n
      BY <1>1, <2>1
    <3> QED
      BY <1>3, <1>4, <1>5, <1>7, <2>1, <3>1
  <2>2. CASE j # n - 1
    <3>1. n - 1 \in j + 1 .. n - 1 /\ (n - 1) + 1 = n
      BY <1>1, <1>2, <2>2 DEF n
    <3> QED
      BY <1>4, <1>5, <1>7, <3>1
  <2> QED
    BY <2>1, <2>2
<1>10. ASSUME NEW k \in 1 .. Len(r) - 1 PROVE FirstOf(r[k + 1]) = LastOf(r[k]) + 1
  <2>1. k \in Nat /\ 1 <= k /\ k <= n - 2
    BY <1>1, <1>4
  <2>2. CASE k + 1 < j
    <3>1. k \in 1 .. j - 1 /\ k + 1 \in 1 .. j - 1 /\ k \in 1 .. n - 1
      BY <1>1, <1>2, <2>1, <2>2
    <3> QED
      BY <1>5, <1>7, <3>1
  <2>3. CASE k + 1 = j
    <3>1. k \in 1 .. j - 1 /\ k \in 1 .. n - 1
      BY <1>1, <1>2, <2>1, <2>3
    <3>2. r[k] = v[k] /\ r[k + 1] = y
      BY <1>5, <2>3, <3>1
    <3> QED
      BY <1>3, <1>7, <2>3, <3>1, <3>2
  <2>4. CASE k = j
    <3>1. k + 1 \in j + 1 .. n - 1 /\ j + 1 \in 1 .. n - 1 /\ (k + 1) + 1 = (j + 1) + 1
      BY <1>1, <1>2, <2>1, <2>4
    <3>2. r[k + 1] = v[(j + 1) + 1] /\ r[k] = y
      BY <1>5, <2>4, <3>1
    <3>3. FirstOf(v[(j + 1) + 1]) = LastOf(v[j + 1]) + 1
      BY <1>7, <3>1
    <3> QED
      BY <1>3, <3>2, <3>3
  <2>5. CASE k > j
    <3>1. k \in j + 1 .. n - 1 /\ k + 1 \in j + 1 .. n - 1 /\ k + 1 \in 1 .. n - 1
      BY <1>1, <1>2, <2>1, <2>5
    <3> QED
      BY <1>5, <1>7, <3>1
  <2> QED
    BY <1>2, <2>1, <2>2, <2>3, <2>4, <2>5
<1>11. Covers(r, count)
  BY <1>6, <1>8, <1>9, <1>10 DEF Covers
<1> QED
  BY <1>11 DEF r
-----------------------------------------------------------------------------
(* The inductive invariant.                                                    *)

\* A node whose inputs are built and do not fit: one the model is asked for.
Asked(n) == Inputs(n) \subseteq DOMAIN tree /\ Joined(n) > NodeBytes

\* The queue is in order; a job and a kept line are for its front, never both, and so
\* is the job that next is about to return.
Queues ==
    /\ pc # "closed" => Good(pending, Len(log), DOMAIN tree)
    /\ \A n \in job : pending # <<>> /\ Head(pending) = n /\ Asked(n)
    /\ \A h \in held : pending # <<>> /\ Head(pending) = h.id
    /\ job = {} \/ held = {}
    /\ pc \in {"view", "batch"} /\ err = "none" /\ pending # <<>> => Asked(Head(pending)) /\ held = {}

\* A closed chat has nothing in memory; no open runs while a job or a kept line is there.
Callers ==
    /\ pc = "closed" => /\ pending = <<>> /\ wait = {} /\ held = {} /\ skip = {}
                        /\ view = EmptyView /\ job = {}
    /\ pc \in {"closed", "free"} => caller = "none"
    /\ caller = "open" => job = {} /\ held = {}

\* The tree and the view file fit the log.
Files ==
    /\ DOMAIN tree \subseteq NodesOf(Len(log))
    /\ file.kind = "view" => Usable(file.view, Len(log))

\* The view fits the log; in a batch the planner is sound and its lines cover the view.
Viewed ==
    /\ pc \notin {"closed", "batch"} => Usable(view, Len(log))
    /\ pc = "batch" => /\ view.count <= Len(log)
                       /\ Sound(plan, view.count, DOMAIN tree)
                       /\ Covers(Lines(plan), view.count)

Inv == TypeOK /\ Queues /\ Callers /\ Files /\ Viewed

Messages == [past : BOOLEAN, size : Nat]

\* The parts of TypeOK.
DiskType   == /\ log \in Seq(Messages)
              /\ DOMAIN tree \subseteq NodeId /\ tree \in [DOMAIN tree -> 0 .. NodeBytes]
              /\ stray \subseteq Messages
FileType   == file \in [kind : {"none", "bad", "view"}, view : Views]
QueueType  == /\ pending \in Seq(NodeId)
              /\ wait \subseteq [id : NodeId, due : BOOLEAN]
              /\ held \subseteq [id : NodeId, size : 0 .. NodeBytes]
NodesType  == skip \cup job \cup lost \cup skipped \subseteq NodeId
CallType   == /\ pc \in {"closed", "free", "build", "view", "batch"}
              /\ caller \in {"none", "open", "settle", "drain"}
              /\ err \in {"none", "wait", "input", "tree"}
MovedType  == moved \in BOOLEAN
ViewType   == view \in Views
PlanType   == plan \in Plans
FaultsType == faults \in 0 .. MaxFaults

\* TypeOK is the types of its parts,
LEMMA TypesAre ==
    TypeOK <=> /\ DiskType /\ FileType /\ QueueType /\ NodesType
               /\ CallType /\ MovedType /\ ViewType /\ PlanType /\ FaultsType
BY Zenon DEF TypeOK, Messages, DiskType, FileType, QueueType, NodesType, CallType, MovedType, ViewType,
             PlanType, FaultsType

\* ... and after a step as well.
LEMMA TypesAreNext ==
    TypeOK' <=> /\ DiskType' /\ FileType' /\ QueueType' /\ NodesType'
                /\ CallType' /\ MovedType' /\ ViewType' /\ PlanType' /\ FaultsType'
BY Zenon DEF TypeOK, Messages, DiskType, FileType, QueueType, NodesType, CallType, MovedType, ViewType,
             PlanType, FaultsType

\* The types of the constants.
LEMMA Bounds ==
    /\ NodeBytes \in Nat /\ MaxFaults \in Nat /\ MaxParts \in Nat /\ Sizes \subseteq Nat
    /\ Older \subseteq Nat /\ Answers \subseteq 0 .. NodeBytes
BY SizesAssumption

\* A longer log has more nodes.
LEMMA NodesMono ==
    ASSUME NEW m \in Nat, NEW n \in Nat, m <= n
    PROVE  NodesOf(m) \subseteq NodesOf(n) /\ NodesOf(n) \subseteq NodeId
<1>1. NodesOf(m) = {x \in NodeId : LastOf(x) < m} /\ NodesOf(n) = {x \in NodeId : LastOf(x) < n}
  BY NodesAre
<1>2. \A x \in NodeId : LastOf(x) \in Nat
  BY Spans
<1> QED
  BY <1>1, <1>2

\* A view that fits a log fits a longer one.
LEMMA UsableMore ==
    ASSUME NEW v \in Views, NEW m \in Nat, NEW n \in Nat, m <= n, Usable(v, m)
    PROVE  Usable(v, n)
BY UsableIs DEF Views

\* The empty view fits every log.
LEMMA NoView ==
    ASSUME NEW n \in Nat
    PROVE  EmptyView \in Views /\ Usable(EmptyView, n)
<1>1. <<>> \in Seq(NodeId) /\ Len(<<>>) = 0
  OBVIOUS
<1>2. EmptyView \in Views
  BY <1>1 DEF EmptyView, Views
<1>3. Covers(<<>>, 0)
  BY <1>1 DEF Covers
<1> QED
  BY <1>2, <1>3, UsableIs DEF EmptyView

\* The leaf of a logged message is its message's.
LEMMA LeafLogged ==
    ASSUME NEW n \in NodeId, n.l = 0, NEW N \in Nat, LastOf(n) < N
    PROVE  n.i + 1 \in 1 .. N
<1>1. n.i \in Nat /\ Width[0] = 1 /\ n.l = 0
  BY WidthIs DEF NodeId
<1>2. LastOf(n) = n.i
  BY <1>1 DEF LastOf, FirstOf
<1> QED
  BY <1>1, <1>2

\* The size of joined inputs is a number.
LEMMA JoinedIs ==
    ASSUME DiskType, NEW n \in NodesOf(Len(log)), Inputs(n) \subseteq DOMAIN tree
    PROVE  Joined(n) \in Nat
<1>1. /\ Len(log) \in Nat /\ log \in Seq(Messages)
      /\ tree \in [DOMAIN tree -> 0 .. NodeBytes] /\ NodeBytes \in Nat
  BY Bounds DEF DiskType
<1>2. n \in NodeId /\ LastOf(n) < Len(log)
  BY <1>1, NodesAre
<1>3. CASE n.l = 0
  <2>1. n.i + 1 \in 1 .. Len(log)
    BY <1>1, <1>2, <1>3, LeafLogged
  <2>2. log[n.i + 1] \in Messages
    BY <1>1, <2>1
  <2> QED
    BY <1>3, <2>2 DEF Joined, Messages
<1>4. CASE n.l # 0
  <2> DEFINE a == [l |-> n.l - 1, i |-> 2 * n.i]  b == [l |-> n.l - 1, i |-> 2 * n.i + 1]
  <2>1. a \in DOMAIN tree /\ b \in DOMAIN tree
    BY <1>4 DEF Inputs, Children
  <2>2. Joined(n) = tree[a] + 1 + tree[b]
    BY <1>4 DEF Joined
  <2> HIDE DEF a, b
  <2>3. tree[a] \in Nat /\ tree[b] \in Nat
    BY <1>1, <2>1
  <2> QED
    BY <2>2, <2>3
<1> QED
  BY <1>3, <1>4

(* The invariant holds of a log that was summarised and has lost its view.     *)
THEOREM InitInv == Init => Inv
<1> SUFFICES ASSUME Init PROVE Inv
  OBVIOUS
<1>1. PICK n \in Older : /\ log = [k \in 1 .. n |-> [past |-> FALSE, size |-> NodeBytes]]
                         /\ tree = [m \in NodesOf(n) |-> NodeBytes]
  BY Zenon DEF Init
<1>2. n \in Nat /\ NodeBytes \in Nat /\ MaxFaults \in Nat
  BY Bounds
<1>3. log \in Seq(Messages) /\ Len(log) = n
  BY <1>1, <1>2 DEF Messages
<1>4. DOMAIN tree = NodesOf(n) /\ NodesOf(n) \subseteq NodeId /\ tree \in [DOMAIN tree -> 0 .. NodeBytes]
  BY <1>1, <1>2, NodesMono
<1>5. /\ file = NoFile /\ stray = {}
      /\ pending = <<>> /\ wait = {} /\ held = {} /\ skip = {} /\ view = EmptyView /\ job = {}
      /\ pc = "closed" /\ caller = "none" /\ err = "none" /\ plan = EmptyPlan
      /\ faults = 0 /\ lost = {} /\ skipped = {}
  BY Zenon DEF Init
<1>6. EmptyView \in Views /\ EmptyPlan \in Plans /\ <<>> \in Seq(NodeId)
  BY NoView, EmptyPlanIs
<1>7. file \in [kind : {"none", "bad", "view"}, view : Views] /\ file.kind # "view"
  BY <1>5, <1>6 DEF NoFile
<1>8. DiskType
  BY <1>3, <1>4, <1>5 DEF DiskType
<1>9. QueueType
  BY <1>5, <1>6 DEF QueueType
<1>10. FileType /\ ViewType /\ PlanType
  BY <1>5, <1>6, <1>7 DEF FileType, ViewType, PlanType
<1>11. NodesType /\ CallType /\ FaultsType
  BY <1>2, <1>5 DEF NodesType, CallType, FaultsType
<1>15. MovedType
  BY Zenon DEF Init, MovedType
<1>12. Queues
  BY <1>5 DEF Queues
<1>13. Callers
  BY <1>5 DEF Callers
<1>14. Files /\ Viewed
  BY <1>3, <1>4, <1>5, <1>7 DEF Files, Viewed
<1> QED
  BY <1>8, <1>9, <1>10, <1>11, <1>12, <1>13, <1>14, <1>15, TypesAre DEF Inv

\* One lemma per action from here on.
LEMMA OpenInv == ASSUME Inv, Open PROVE Inv'
<1>1. /\ DiskType /\ FileType /\ QueueType /\ NodesType /\ CallType /\ MovedType /\ PlanType
      /\ FaultsType /\ Callers /\ Files /\ pc = "closed"
  BY TypesAre DEF Inv, Open
<1>2. PICK more \in {<<>>} \cup {<<m>> : m \in stray} :
        LET n    == Len(log \o more)
            good == file.kind = "view" /\ Usable(file.view, n) IN
        /\ log' = log \o more
        /\ file' = IF file.kind = "view" /\ ~ good THEN BadFile ELSE file
        /\ view' = IF good THEN file.view ELSE EmptyView
        /\ skip' = IF good THEN {} ELSE CutNodes(n)
        /\ pending' = QueueFor(0, n)
  BY DEF Open
<1>3. /\ stray' = {} /\ pc' = "build" /\ caller' = "open" /\ tree' = tree
      /\ wait' = wait /\ held' = held /\ job' = job /\ err' = err /\ plan' = plan
      /\ faults' = faults /\ lost' = lost /\ skipped' = skipped
  BY Zenon DEF Open, ghosts
<1> DEFINE n == Len(log \o more)
<1>4. log \in Seq(Messages) /\ more \in Seq(Messages)
  <2>1. stray \subseteq Messages /\ log \in Seq(Messages)
    BY <1>1 DEF DiskType
  <2>2. \A m \in Messages : <<m>> \in Seq(Messages)
    OBVIOUS
  <2>3. <<>> \in Seq(Messages)
    OBVIOUS
  <2>4. more = <<>> \/ \E m \in stray : more = <<m>>
    BY <1>2
  <2> QED
    BY <2>1, <2>2, <2>3, <2>4
<1>5. log' \in Seq(Messages) /\ Len(log') = n /\ n \in Nat /\ Len(log) \in Nat /\ Len(log) <= n
  BY <1>2, <1>4
<1> DEFINE good == file.kind = "view" /\ Usable(file.view, n)
<1>6. /\ file' = IF file.kind = "view" /\ ~ good THEN BadFile ELSE file
      /\ view' = IF good THEN file.view ELSE EmptyView
      /\ skip' = IF good THEN {} ELSE CutNodes(n)
      /\ pending' = QueueFor(0, n)
  BY <1>2
<1> HIDE DEF n
<1>7. Good(pending', Len(log'), DOMAIN tree')
  BY <1>3, <1>5, <1>6, NewQueue
<1>8. /\ pending = <<>> /\ wait = {} /\ held = {} /\ job = {}
  BY <1>1 DEF Callers
<1>9. CutNodes(n) \subseteq NodeId
  BY <1>5, NodesMono DEF CutNodes
<1>10. /\ EmptyView \in Views /\ Usable(EmptyView, n)
       /\ file \in [kind : {"none", "bad", "view"}, view : Views]
       /\ BadFile \in [kind : {"none", "bad", "view"}, view : Views] /\ BadFile.kind # "view"
  BY <1>1, <1>5, NoView DEF FileType, BadFile
<1>11. /\ view' \in Views /\ Usable(view', n) /\ skip' \subseteq NodeId
       /\ file' \in [kind : {"none", "bad", "view"}, view : Views]
       /\ file'.kind = "view" => Usable(file'.view, n)
  BY <1>6, <1>9, <1>10
<1> HIDE DEF good
<1>12. pending' \in Seq(NodeId)
  BY <1>7 DEF Good
<1>13. DiskType' /\ FileType' /\ ViewType'
  BY <1>1, <1>3, <1>5, <1>11 DEF DiskType, FileType, ViewType
<1>18. QueueType' /\ CallType'
  BY <1>1, <1>3, <1>12 DEF QueueType, CallType
<1>20. MovedType'
  BY <1>1, Zenon DEF Open, MovedType
<1>19. NodesType' /\ PlanType' /\ FaultsType'
  BY <1>1, <1>3, <1>11 DEF NodesType, PlanType, FaultsType
<1>14. Queues'
  BY <1>3, <1>7, <1>8 DEF Queues
<1>15. Callers'
  BY <1>3, <1>8 DEF Callers
<1>16. Files'
  BY <1>1, <1>3, <1>5, <1>11, NodesMono DEF Files
<1>17. Viewed'
  BY <1>3, <1>5, <1>11 DEF Viewed
<1> QED
  BY <1>13, <1>14, <1>15, <1>16, <1>17, <1>18, <1>19, <1>20, TypesAreNext DEF Inv

\* What the model is asked for depends on the log and the tree.
LEMMA AskedSame ==
    ASSUME tree' = tree, log' = log
    PROVE  \A n : Asked(n)' <=> Asked(n)
BY DEF Asked, Joined, Inputs, Children

\* A step that leaves the disk alone keeps what is said of it.
LEMMA DiskSame ==
    ASSUME Inv, UNCHANGED disk
    PROVE  DiskType' /\ FileType' /\ Files'
<1>1. DiskType /\ FileType /\ Files
  BY TypesAre DEF Inv
<1>2. log' = log /\ tree' = tree /\ file' = file /\ stray' = stray
  BY DEF disk
<1>3. DiskType' /\ FileType'
  BY <1>1, <1>2 DEF DiskType, FileType
<1>4. NodesOf(Len(log))' = NodesOf(Len(log))
  BY <1>2 DEF NodesOf
<1>5. Usable(file.view, Len(log))' <=> Usable(file.view, Len(log))
  BY <1>2 DEF Usable
<1> QED
  BY <1>1, <1>2, <1>3, <1>4, <1>5 DEF Files

LEMMA BuildWriteInv == ASSUME Inv, BuildWrite PROVE Inv'
<1> DEFINE n == Head(pending)  T == DOMAIN tree
<1>1. /\ DiskType /\ FileType /\ QueueType /\ NodesType /\ CallType /\ MovedType /\ ViewType /\ PlanType
      /\ FaultsType /\ Queues /\ Callers /\ Files /\ Viewed
  BY TypesAre DEF Inv
<1>2. /\ pc = "build" /\ pending # <<>> /\ pending' = Tail(pending)
      /\ \E size : /\ tree' = [m \in T \cup {n} |-> IF m = n THEN size ELSE tree[m]]
                   /\ \/ \E h \in Kept(n) : size = h.size /\ held' = {}
                      \/ Kept(n) = {} /\ Inputs(n) \subseteq T /\ Joined(n) <= NodeBytes
                         /\ size = Joined(n) /\ held' = held
  BY DEF BuildWrite, Write
<1>3. /\ log' = log /\ file' = file /\ stray' = stray /\ wait' = wait /\ skip' = skip /\ view' = view
      /\ job' = job /\ pc' = pc /\ caller' = caller /\ err' = err /\ plan' = plan
      /\ faults' = faults /\ lost' = lost /\ skipped' = skipped
  BY Zenon DEF BuildWrite, call, ghosts
<1>4. Good(pending, Len(log), T) /\ Len(log) \in Nat
  BY <1>1, <1>2 DEF Queues, DiskType
<1>5. n \in NodesOf(Len(log)) \ T /\ Inputs(n) \subseteq T /\ Good(Tail(pending), Len(log), T \cup {n})
  BY <1>2, <1>4, GoodTail
<1>6. n \in NodeId /\ NodesOf(Len(log)) \subseteq NodeId
  BY <1>4, <1>5, NodesMono
<1>7. PICK size : /\ tree' = [m \in T \cup {n} |-> IF m = n THEN size ELSE tree[m]]
                  /\ \/ \E h \in Kept(n) : size = h.size /\ held' = {}
                     \/ Kept(n) = {} /\ Inputs(n) \subseteq T /\ Joined(n) <= NodeBytes
                        /\ size = Joined(n) /\ held' = held
  BY <1>2
<1>8. size \in 0 .. NodeBytes
  <2>1. \A h \in held : h.size \in 0 .. NodeBytes
    BY <1>1 DEF QueueType
  <2>2. Joined(n) \in Nat
    BY <1>1, <1>5, JoinedIs
  <2> QED
    BY <1>7, <2>1, <2>2, Bounds DEF Kept
<1>9. held' = {} /\ job' = {}
  <2>1. \A h \in held : h.id = n
    BY <1>1 DEF Queues
  <2>2. job # {} => held = {} /\ Joined(n) > NodeBytes
    BY <1>1 DEF Queues, Asked
  <2>3. Joined(n) \in Nat /\ NodeBytes \in Nat
    BY <1>1, <1>5, JoinedIs, Bounds
  <2> QED
    BY <1>3, <1>7, <2>1, <2>2, <2>3 DEF Kept
<1>10. DOMAIN tree' = T \cup {n}
  BY <1>7
<1> HIDE DEF n
<1>11. DiskType'
  <2>1. log' \in Seq(Messages) /\ stray' \subseteq Messages
    BY <1>1, <1>3 DEF DiskType
  <2>2. tree \in [T -> 0 .. NodeBytes] /\ T \subseteq NodeId
    BY <1>1 DEF DiskType
  <2>3. tree' \in [T \cup {n} -> 0 .. NodeBytes]
    BY <1>7, <1>8, <2>2
  <2> QED
    BY <1>6, <1>10, <2>1, <2>2, <2>3 DEF DiskType
<1>12. QueueType'
  <2>1. pending' \in Seq(NodeId)
    BY <1>2, <1>5 DEF Good
  <2> QED
    BY <1>1, <1>3, <1>9, <2>1 DEF QueueType
<1>13. FileType' /\ NodesType' /\ CallType' /\ ViewType' /\ PlanType' /\ FaultsType'
  BY <1>1, <1>3 DEF FileType, NodesType, CallType, ViewType, PlanType, FaultsType
<1>14. MovedType'
  BY <1>1, Zenon DEF BuildWrite, call, MovedType
<1>15. Queues'
  BY <1>2, <1>3, <1>5, <1>9, <1>10 DEF Queues
<1>16. Callers'
  BY <1>1, <1>2, <1>3, <1>9 DEF Callers
<1>17. Files'
  BY <1>1, <1>3, <1>5, <1>10 DEF Files, NodesOf, Usable
<1>18. Viewed'
  BY <1>1, <1>2, <1>3 DEF Viewed, Usable
<1> QED
  BY <1>11, <1>12, <1>13, <1>14, <1>15, <1>16, <1>17, <1>18, TypesAreNext DEF Inv

\* The loop of next ends.
LEMMA StopsInv ==
    ASSUME Inv, pc = "build", NEW e \in {"none", "wait", "input", "tree"}, Stops(e),
           e = "none" /\ pending # <<>> => Asked(Head(pending)) /\ held = {},
           lost' = lost, skipped' = skipped, FaultsType'
    PROVE  Inv'
<1>1. /\ QueueType /\ NodesType /\ CallType /\ MovedType /\ ViewType /\ PlanType
      /\ Queues /\ Callers /\ Viewed
  BY TypesAre DEF Inv
<1>2. /\ UNCHANGED disk /\ log' = log /\ tree' = tree
      /\ pending' = pending /\ wait' = wait /\ held' = held /\ skip' = skip /\ view' = view /\ job' = job
      /\ caller' = caller /\ plan' = plan /\ pc' = "view" /\ err' = e
  BY Zenon DEF Stops, disk, memory
<1>3. DiskType' /\ FileType' /\ Files'
  BY <1>2, DiskSame
<1>4. QueueType' /\ NodesType' /\ CallType' /\ ViewType' /\ PlanType'
  BY <1>1, <1>2 DEF QueueType, NodesType, CallType, ViewType, PlanType
<1>5. MovedType'
  BY <1>1, Zenon DEF Stops, MovedType
<1>6. Queues'
  BY <1>1, <1>2, AskedSame DEF Queues
<1>7. Callers' /\ Viewed'
  BY <1>1, <1>2 DEF Callers, Viewed, Usable
<1> QED
  BY <1>3, <1>4, <1>5, <1>6, <1>7, TypesAreNext DEF Inv

LEMMA BuildFailsInv == ASSUME Inv, BuildFails PROVE Inv'
<1>1. /\ pc = "build" /\ Stops("tree") /\ faults < MaxFaults /\ faults' = faults + 1
      /\ lost' = lost /\ skipped' = skipped
  BY DEF BuildFails
<1>2. FaultsType'
  BY <1>1, TypesAre, Bounds DEF Inv, FaultsType
<1> QED
  BY <1>1, <1>2, StopsInv

LEMMA BuildEndsInv == ASSUME Inv, BuildEnds PROVE Inv'
<1>1. pc = "build" /\ faults' = faults /\ lost' = lost /\ skipped' = skipped
  BY DEF BuildEnds, ghosts
<1>2. FaultsType'
  BY <1>1, TypesAre DEF Inv, FaultsType
<1>3. CASE pending = <<>>
  <2>1. Stops("none")
    BY <1>3 DEF BuildEnds
  <2> QED
    BY <1>1, <1>2, <1>3, <2>1, StopsInv
<1>4. CASE pending # <<>>
  <2> DEFINE n == Head(pending)
  <2>1. \/ Stops("wait")
        \/ Kept(n) = {} /\ Inputs(n) \subseteq DOMAIN tree /\ Joined(n) > NodeBytes /\ Stops("none")
        \/ Stops("input")
    BY <1>4 DEF BuildEnds
  <2>2. CASE Stops("wait") \/ Stops("input")
    <3>1. CASE Stops("wait")
      BY <1>1, <1>2, <3>1, StopsInv
    <3>2. CASE Stops("input")
      BY <1>1, <1>2, <3>2, StopsInv
    <3> QED
      BY <2>2, <3>1, <3>2
  <2>3. CASE Kept(n) = {} /\ Inputs(n) \subseteq DOMAIN tree /\ Joined(n) > NodeBytes /\ Stops("none")
    <3>1. Queues
      BY DEF Inv
    <3>2. held = {}
      BY <2>3, <3>1 DEF Queues, Kept
    <3>3. Asked(n)
      BY <2>3 DEF Asked
    <3> QED
      BY <1>1, <1>2, <2>3, <3>2, <3>3, StopsInv
  <2> QED
    BY <2>1, <2>2, <2>3
<1> QED
  BY <1>3, <1>4

LEMMA ViewStepInv == ASSUME Inv, ViewStep PROVE Inv'
<1> DEFINE lines == Append(view.lines, Leaf(view.count))
           batch == view.batch \/ ViewSize(lines) > ViewMax
           T == DOMAIN tree
<1>1. /\ DiskType /\ QueueType /\ NodesType /\ CallType /\ ViewType /\ PlanType /\ FaultsType
      /\ Queues /\ Callers /\ Viewed
  BY TypesAre DEF Inv
<1>2. /\ pc = "view" /\ view.count < Len(log)
      /\ view' = [count |-> view.count + 1, batch |-> batch, lines |-> lines]
      /\ IF batch THEN pc' = "batch" /\ plan' = Planner(lines, view.count + 1, T)
                  ELSE pc' = pc /\ plan' = plan
      /\ skipped' = skipped \cup (Range(Chain(view.count)) \ T)
  BY DEF ViewStep
<1>3. moved' = TRUE
  BY Zenon DEF ViewStep
<1>4. /\ UNCHANGED disk /\ log' = log /\ tree' = tree
      /\ pending' = pending /\ wait' = wait /\ held' = held /\ skip' = skip /\ job' = job
      /\ caller' = caller /\ err' = err /\ faults' = faults /\ lost' = lost
  BY Zenon DEF ViewStep, disk
<1>5. /\ view.count \in Nat /\ view.lines \in Seq(NodeId)
      /\ view = [count |-> view.count, batch |-> view.batch, lines |-> view.lines]
      /\ Len(log) \in Nat
  BY <1>1 DEF ViewType, Views, DiskType
<1>6. Covers(view.lines, view.count)
  BY <1>1, <1>2, UsableIs DEF Viewed
<1>7. lines \in Seq(NodeId) /\ Covers(lines, view.count + 1)
  BY <1>5, <1>6, CoversMore
<1>8. batch \in BOOLEAN
  OBVIOUS
<1>9. Range(Chain(view.count)) \subseteq NodeId
  BY <1>5, ChainSet
<1> HIDE DEF lines, batch, T
<1>10. /\ view' \in Views /\ view'.count = view.count + 1 /\ view'.lines = lines
       /\ view.count + 1 \in Nat /\ view.count + 1 <= Len(log)
  BY <1>2, <1>5, <1>7, <1>8 DEF Views
<1>11. ViewType'
  BY <1>10 DEF ViewType
<1>12. batch => plan' \in Plans /\ Sound(plan', view.count + 1, T) /\ Lines(plan') = lines
  BY <1>2, <1>5, <1>7, <1>10, PlannerSound DEF Sound
<1>13. PlanType'
  BY <1>1, <1>2, <1>12 DEF PlanType
<1>14. NodesType' /\ FaultsType' /\ QueueType'
  BY <1>1, <1>2, <1>4, <1>9 DEF NodesType, FaultsType, QueueType
<1>15. CallType'
  BY <1>1, <1>2, <1>4 DEF CallType
<1>16. MovedType'
  BY <1>3, Zenon DEF MovedType
<1>17. DiskType' /\ FileType' /\ Files'
  BY <1>4, DiskSame
<1>18. pc' \in {"view", "batch"}
  BY <1>2
<1>19. Queues'
  BY <1>1, <1>2, <1>4, <1>18, AskedSame DEF Queues
<1>20. Callers'
  BY <1>1, <1>2, <1>4, <1>18 DEF Callers
<1>21. Viewed'
  <2>1. CASE batch
    <3>1. pc' = "batch"
      BY <1>2, <2>1
    <3> QED
      BY <1>4, <1>7, <1>10, <1>12, <2>1, <3>1 DEF Viewed, T
  <2>2. CASE ~ batch
    <3>1. Usable(view', Len(log))
      BY <1>7, <1>10, UsableIs
    <3>2. pc' = "view" /\ Len(log') = Len(log)
      BY <1>2, <1>4, <2>2
    <3>3. Usable(view, Len(log))'
      BY <3>1, <3>2 DEF Usable
    <3> QED
      BY <3>2, <3>3 DEF Viewed
  <2> QED
    BY <2>1, <2>2
<1> QED
  BY <1>11, <1>13, <1>14, <1>15, <1>16, <1>17, <1>19, <1>20, <1>21, TypesAreNext DEF Inv
\* A step of the batch makes a merge that the rule picks.
LEMMA BatchMerges ==
    ASSUME Inv, BatchStep
    PROVE  /\ Sound(plan', view.count, DOMAIN tree)
           /\ \E j \in MostDue(Lines(plan), view.count, DOMAIN tree) :
                  /\ j \in 1 .. Len(Lines(plan)) - 1
                  /\ Siblings(Lines(plan)[j], Lines(plan)[j + 1])
                  /\ Parent(Lines(plan)[j]) \in DOMAIN tree
                  /\ Lines(plan') = MergeAt(Lines(plan), j)
<1> DEFINE T == DOMAIN tree  total == view.count  p == plan
<1>1. DiskType /\ ViewType /\ Viewed /\ PlanType
  BY TypesAre DEF Inv
<1>2. /\ pc = "batch"
      /\ \E e \in Tops(plan) :
          plan' = IF Fresh(Popped(plan, e), e) THEN Merge(Popped(plan, e), e.left, view.count, DOMAIN tree)
                  ELSE Popped(plan, e)
  BY DEF BatchStep, Popped
<1>3. PICK e \in Tops(p) :
          plan' = IF Fresh(Popped(p, e), e) THEN Merge(Popped(p, e), e.left, total, T) ELSE Popped(p, e)
  BY <1>2
<1>4. T \in SUBSET NodeId /\ total \in Nat
  BY <1>1 DEF DiskType, ViewType, Views
<1>5. Sound(p, total, T)
  BY <1>1, <1>2 DEF Viewed
<1> HIDE DEF T, total, p
<1>6. PICK j \in MostDue(Lines(p), total, T) :
          e = Entry(p, SlotsOf(p)[j], total) /\ Pair(p, SlotsOf(p)[j], T)
  BY <1>3, <1>4, <1>5, TopIsMostDue
<1> DEFINE k == SlotsOf(p)[j]
<1>7. e.left = k /\ Fresh(Popped(p, e), e)
  BY <1>4, <1>5, <1>6, AlwaysFresh
<1>8. plan' = Merge(Popped(p, Entry(p, k, total)), k, total, T)
  BY <1>3, <1>6, <1>7
<1>9. Linked(p)
  BY <1>5 DEF Sound
<1>10. Sound(plan', total, T) /\ Joins(plan', p, k)
  BY <1>4, <1>5, <1>6, <1>8, MergeSound
<1>11. j \in Mergeable(Lines(p), T)
  BY <1>6 DEF MostDue
<1>12. j \in 1 .. Len(SlotsOf(p)) - 1
  BY <1>9, <1>11, PairsAre
<1>13. Len(SlotsOf(p)) \in Nat /\ Len(Lines(p)) = Len(SlotsOf(p))
  BY <1>9, LinesAre, SlotsIs DEF Linked
<1>14. j \in 1 .. Len(SlotsOf(p))
  BY <1>12, <1>13
<1>15. Lines(plan') = MergeAt(Lines(p), j)
  BY <1>4, <1>6, <1>9, <1>10, <1>14, JoinsLines
<1>16. Siblings(Lines(p)[j], Lines(p)[j + 1]) /\ Parent(Lines(p)[j]) \in T
  BY <1>11 DEF Mergeable
<1> QED
  BY <1>6, <1>10, <1>12, <1>13, <1>15, <1>16 DEF T, total, p

LEMMA BatchStepInv == ASSUME Inv, BatchStep PROVE Inv'
<1>1. /\ DiskType /\ QueueType /\ NodesType /\ CallType /\ MovedType /\ ViewType /\ FaultsType
      /\ Queues /\ Callers /\ Viewed
  BY TypesAre DEF Inv
<1>2. pc = "batch"
  BY DEF BatchStep
<1>3. /\ UNCHANGED disk /\ log' = log /\ tree' = tree
      /\ pending' = pending /\ wait' = wait /\ held' = held /\ skip' = skip /\ view' = view /\ job' = job
      /\ pc' = pc /\ caller' = caller /\ err' = err /\ faults' = faults /\ lost' = lost /\ skipped' = skipped
  BY Zenon DEF BatchStep, disk, memory, ghosts
<1>4. MovedType'
  BY <1>1, Zenon DEF BatchStep, MovedType
<1>5. DiskType' /\ FileType' /\ Files'
  BY <1>3, DiskSame
<1>6. QueueType' /\ NodesType' /\ CallType' /\ ViewType' /\ FaultsType'
  BY <1>1, <1>3 DEF QueueType, NodesType, CallType, ViewType, FaultsType
<1>7. Sound(plan', view.count, DOMAIN tree)
  BY BatchMerges
<1>8. PlanType'
  BY <1>7 DEF PlanType, Sound
<1>9. Queues'
  BY <1>1, <1>3, AskedSame DEF Queues
<1>10. Callers'
  BY <1>1, <1>3 DEF Callers
<1>11. Covers(Lines(plan'), view.count)
  <2>1. PICK j \in MostDue(Lines(plan), view.count, DOMAIN tree) :
            /\ j \in 1 .. Len(Lines(plan)) - 1
            /\ Siblings(Lines(plan)[j], Lines(plan)[j + 1])
            /\ Parent(Lines(plan)[j]) \in DOMAIN tree
            /\ Lines(plan') = MergeAt(Lines(plan), j)
    BY BatchMerges
  <2>2. /\ Covers(Lines(plan), view.count) /\ Lines(plan) \in Seq(NodeId)
        /\ view.count \in Nat /\ DOMAIN tree \subseteq NodeId
    BY <1>1, <1>2, LinesAre DEF Viewed, Sound, ViewType, Views, DiskType
  <2>3. Parent(Lines(plan)[j]) \in NodeId
    BY <2>1, <2>2
  <2> QED
    BY <2>1, <2>2, <2>3, CoversMerge
<1>12. Viewed'
  BY <1>1, <1>2, <1>3, <1>7, <1>11 DEF Viewed
<1> QED
  BY <1>4, <1>5, <1>6, <1>8, <1>9, <1>10, <1>12, TypesAreNext DEF Inv

LEMMA BatchEndsInv == ASSUME Inv, BatchEnds PROVE Inv'
<1>1. /\ DiskType /\ QueueType /\ NodesType /\ CallType /\ MovedType /\ ViewType /\ FaultsType
      /\ Queues /\ Callers /\ Viewed
  BY TypesAre DEF Inv
<1>2. /\ pc = "batch" /\ pc' = "view" /\ plan' = EmptyPlan
      /\ \E small \in BOOLEAN : view' = [count |-> view.count, batch |-> view.batch /\ ~ small, lines |-> Lines(plan)]
  BY DEF BatchEnds
<1>3. /\ UNCHANGED disk /\ log' = log /\ tree' = tree
      /\ pending' = pending /\ wait' = wait /\ held' = held /\ skip' = skip /\ job' = job
      /\ caller' = caller /\ err' = err /\ faults' = faults /\ lost' = lost /\ skipped' = skipped
  BY Zenon DEF BatchEnds, disk, ghosts
<1>4. MovedType'
  BY <1>1, Zenon DEF BatchEnds, MovedType
<1>5. DiskType' /\ FileType' /\ Files'
  BY <1>3, DiskSame
<1>6. QueueType' /\ NodesType' /\ CallType' /\ FaultsType'
  BY <1>1, <1>2, <1>3 DEF QueueType, NodesType, CallType, FaultsType
<1>7. PlanType'
  BY <1>2, EmptyPlanIs DEF PlanType
<1>8. /\ view \in Views /\ view.count <= Len(log)
      /\ Lines(plan) \in Seq(NodeId) /\ Covers(Lines(plan), view.count)
  BY <1>1, <1>2, LinesAre DEF Viewed, Sound, ViewType
<1>9. view' \in Views /\ view'.count = view.count /\ view'.lines = Lines(plan)
  <2>1. PICK small \in BOOLEAN : view' = [count |-> view.count, batch |-> view.batch /\ ~ small, lines |-> Lines(plan)]
    BY <1>2
  <2> DEFINE L == Lines(plan)  b == view.batch /\ ~ small
  <2>2. view' = [count |-> view.count, batch |-> b, lines |-> L]
    BY <2>1
  <2>3. L \in Seq(NodeId) /\ b \in BOOLEAN
    BY <1>8 DEF Views
  <2> HIDE DEF L, b
  <2>4. view' \in Views /\ view'.count = view.count /\ view'.lines = L
    BY <1>8, <2>2, <2>3 DEF Views
  <2> QED
    BY <2>4 DEF L
<1>10. Usable(view, Len(log))'
  <2>1. Usable(view', Len(log))
    BY <1>8, <1>9, UsableIs
  <2> QED
    BY <1>3, <2>1 DEF Usable
<1>11. Queues'
  BY <1>1, <1>2, <1>3, AskedSame DEF Queues
<1>12. Callers'
  BY <1>1, <1>2, <1>3 DEF Callers
<1>13. Viewed' /\ ViewType'
  BY <1>2, <1>9, <1>10 DEF Viewed, ViewType
<1> QED
  BY <1>4, <1>5, <1>6, <1>7, <1>11, <1>12, <1>13, TypesAreNext DEF Inv
ViewFile == [kind |-> "view", view |-> view]

\* What save_view writes, if it writes, fits the log.
LEMMA ViewFileIs ==
    ASSUME Inv, pc = "view"
    PROVE  /\ ViewFile \in [kind : {"none", "bad", "view"}, view : Views]
           /\ \A f \in {file, ViewFile} : f.kind = "view" => Usable(f.view, Len(log))
           /\ file' \in {file, NewFile} => file' \in {file, ViewFile}
<1>1. ViewType /\ Viewed /\ Files
  BY TypesAre DEF Inv
<1>2. ViewFile \in [kind : {"none", "bad", "view"}, view : Views] /\ ViewFile.view = view
  BY <1>1 DEF ViewType, ViewFile
<1>3. NewFile \in {file, ViewFile}
  BY Zenon DEF NewFile, ViewFile
<1>4. Usable(view, Len(log))
  BY <1>1 DEF Viewed
<1> QED
  BY <1>1, <1>2, <1>3, <1>4 DEF Files

\* What is in memory goes.
LEMMA CloseInv ==
    ASSUME Inv, Close, log' = log, tree' = tree, stray' = stray, FileType', FaultsType',
           file'.kind = "view" => Usable(file'.view, Len(log)), lost' = lost, skipped' = skipped
    PROVE  Inv'
<1>1. DiskType /\ NodesType /\ Files
  BY TypesAre DEF Inv
<1>2. /\ pc' = "closed" /\ caller' = "none" /\ err' = "none" /\ plan' = EmptyPlan
      /\ pending' = <<>> /\ wait' = {} /\ held' = {} /\ skip' = {} /\ job' = {} /\ view' = EmptyView
  BY Zenon DEF Close, Idle
<1>3. MovedType'
  BY Zenon DEF Close, Idle, MovedType
<1>4. EmptyView \in Views /\ EmptyPlan \in Plans /\ <<>> \in Seq(NodeId)
  BY NoView, EmptyPlanIs
<1>5. DiskType' /\ NodesType'
  BY <1>1, <1>2 DEF DiskType, NodesType
<1>6. QueueType' /\ CallType'
  BY <1>2, <1>4 DEF QueueType, CallType
<1>7. ViewType' /\ PlanType'
  BY <1>2, <1>4 DEF ViewType, PlanType
<1>8. Queues' /\ Callers' /\ Viewed'
  BY <1>2 DEF Queues, Callers, Viewed
<1>9. Files'
  BY <1>1 DEF Files, NodesOf, Usable
<1> QED
  BY <1>3, <1>5, <1>6, <1>7, <1>8, <1>9, TypesAreNext DEF Inv

\* next returns to its caller.
LEMMA ReturnInv ==
    ASSUME Inv, pc = "view", NEW e, e = "none" => err = "none", Return(e),
           file' \in {file, NewFile}, FaultsType'
    PROVE  Inv'
<1>1. /\ DiskType /\ FileType /\ QueueType /\ NodesType /\ CallType /\ ViewType /\ PlanType
      /\ Queues /\ Callers /\ Files /\ Viewed
  BY TypesAre DEF Inv
<1>2. /\ pc' = "free" /\ caller' = "none" /\ err' = "none" /\ skip' = {}
      /\ job' = IF caller = "drain" /\ e = "none" /\ pending # <<>> THEN {Head(pending)} ELSE job
      /\ log' = log /\ tree' = tree /\ stray' = stray /\ pending' = pending /\ wait' = wait
      /\ held' = held /\ view' = view /\ plan' = plan /\ lost' = lost /\ skipped' = skipped
  BY Zenon DEF Return, Idle
<1>3. MovedType'
  BY Zenon DEF Return, Idle, MovedType
<1>4. FileType' /\ (file'.kind = "view" => Usable(file'.view, Len(log)))
  BY <1>1, ViewFileIs DEF FileType
<1>5. DiskType' /\ QueueType' /\ ViewType' /\ PlanType'
  BY <1>1, <1>2 DEF DiskType, QueueType, ViewType, PlanType
<1>6. CallType'
  BY <1>2 DEF CallType
<1>7. pending # <<>> => Head(pending) \in NodeId
  BY <1>1 DEF QueueType
<1>8. NodesType'
  BY <1>1, <1>2, <1>7 DEF NodesType
<1>11. Queues'
  <2>1. CASE caller = "drain" /\ e = "none" /\ pending # <<>>
    <3>1. job' = {Head(pending)} /\ Asked(Head(pending)) /\ held = {}
      BY <1>1, <1>2, <2>1 DEF Queues
    <3> QED
      BY <1>1, <1>2, <3>1, AskedSame DEF Queues
  <2>2. CASE ~ (caller = "drain" /\ e = "none" /\ pending # <<>>)
    <3>1. job' = job
      BY <1>2, <2>2
    <3> QED
      BY <1>1, <1>2, <3>1, AskedSame DEF Queues
  <2> QED
    BY <2>1, <2>2
<1>12. Callers' /\ Viewed'
  BY <1>1, <1>2 DEF Callers, Viewed, Usable
<1>13. Files'
  BY <1>1, <1>2, <1>4 DEF Files, NodesOf, Usable
<1> QED
  BY <1>3, <1>4, <1>5, <1>6, <1>8, <1>11, <1>12, <1>13, TypesAreNext DEF Inv

\* An empty chat in place of the history.
LEMMA MoveAsideInv ==
    ASSUME Inv, caller = "open", MoveAside, FaultsType'
    PROVE  Inv'
<1>1. /\ DiskType /\ QueueType /\ PlanType /\ Callers
  BY TypesAre DEF Inv
<1>2. /\ log' = <<>> /\ tree' = <<>> /\ file' = NoFile /\ pending' = <<>> /\ skip' = {} /\ view' = EmptyView
      /\ pc' = "free" /\ caller' = "none" /\ err' = "none" /\ lost' = {} /\ skipped' = {}
      /\ stray' = stray /\ wait' = wait /\ held' = held /\ job' = job /\ plan' = plan
  BY Zenon DEF MoveAside, Idle
<1>3. MovedType'
  BY Zenon DEF MoveAside, Idle, MovedType
<1>4. job' = {} /\ held' = {}
  BY <1>1, <1>2 DEF Callers
<1>5. /\ EmptyView \in Views /\ Usable(EmptyView, 0)
  BY NoView
<1>6. /\ <<>> \in Seq(NodeId) /\ <<>> \in Seq(Messages) /\ DOMAIN <<>> = {} /\ Len(<<>>) = 0
      /\ <<>> \in [{} -> 0 .. NodeBytes]
  OBVIOUS
<1>7. DiskType'
  BY <1>1, <1>2, <1>6 DEF DiskType
<1>8. FileType' /\ ViewType' /\ file'.kind # "view"
  BY <1>2, <1>5 DEF FileType, ViewType, NoFile
<1>9. QueueType' /\ CallType' /\ NodesType' /\ PlanType'
  BY <1>1, <1>2, <1>4, <1>6 DEF QueueType, CallType, NodesType, PlanType
<1>10. Good(<<>>, 0, {})
  <2>1. NodesOf(0) = {}
    BY NodesAre, Spans
  <2>2. Range(<<>>) = {}
    BY <1>6, RangeIs
  <2> QED
    BY <1>6, <2>1, <2>2 DEF Good, Once, Ordered
<1>11. Queues'
  BY <1>2, <1>4, <1>6, <1>10 DEF Queues
<1>12. Callers'
  BY <1>2, <1>4 DEF Callers
<1>13. Files'
  BY <1>2, <1>6, <1>8 DEF Files
<1>14. Viewed'
  BY <1>2, <1>5, <1>6 DEF Viewed
<1> QED
  BY <1>3, <1>7, <1>8, <1>9, <1>11, <1>12, <1>13, <1>14, TypesAreNext DEF Inv

LEMMA SaveViewInv == ASSUME Inv, SaveView PROVE Inv'
<1>1. pc = "view" /\ file' = NewFile /\ faults' = faults
  BY DEF SaveView, Advanced
<1>2. FaultsType'
  BY <1>1, TypesAre DEF Inv, FaultsType
<1>3. file' \in {file, NewFile}
  BY <1>1
<1>5. FileType'
  BY <1>1, <1>3, ViewFileIs, TypesAre DEF Inv, FileType
<1>6. file'.kind = "view" => Usable(file'.view, Len(log))
  BY <1>1, <1>3, ViewFileIs
<1>7. CASE NotOpened
  <2>1. Close /\ log' = log /\ tree' = tree /\ stray' = stray /\ lost' = lost /\ skipped' = skipped
    BY <1>7 DEF NotOpened
  <2> QED
    BY <1>2, <1>5, <1>6, <2>1, CloseInv
<1>8. CASE Return(err)
  BY <1>1, <1>2, <1>3, <1>8, ReturnInv
<1> QED
  BY <1>7, <1>8 DEF SaveView

LEMMA SaveFailsInv == ASSUME Inv, SaveFails PROVE Inv'
<1>1. pc = "view" /\ faults < MaxFaults /\ faults' = faults + 1
  BY DEF SaveFails, Advanced
<1>2. FaultsType'
  BY <1>1, TypesAre, Bounds DEF Inv, FaultsType
<1>3. CASE caller = "open" /\ MoveAside
  BY <1>2, <1>3, MoveAsideInv
<1>4. CASE file' \in {file, NewFile} /\ NotOpened
  <2>1. Close /\ log' = log /\ tree' = tree /\ stray' = stray /\ lost' = lost /\ skipped' = skipped
    BY <1>4 DEF NotOpened
  <2>2. FileType' /\ (file'.kind = "view" => Usable(file'.view, Len(log)))
    BY <1>1, <1>4, ViewFileIs, TypesAre DEF Inv, FileType
  <2> QED
    BY <1>2, <2>1, <2>2, CloseInv
<1>5. CASE file' \in {file, NewFile} /\ Return(IF err = "none" THEN "view" ELSE err)
  <2> DEFINE e == IF err = "none" THEN "view" ELSE err
  <2>1. e # "none" /\ Return(e)
    BY <1>5
  <2> HIDE DEF e
  <2> QED
    BY <1>1, <1>2, <1>5, <2>1, ReturnInv
<1> QED
  BY <1>3, <1>4, <1>5 DEF SaveFails

\* The parts of a text are messages.
LEMMA TextsAre ==
    ASSUME NEW parts \in Texts
    PROVE  /\ parts \in Seq(Messages)
           /\ \A n \in 0 .. Len(parts) - 1 : SubSeq(parts, 1, n) \in Seq(Messages) /\ parts[n + 1] \in Messages
<1>1. PICK n \in 1 .. MaxParts : parts \in [1 .. n -> [past : BOOLEAN, size : Sizes]]
  BY DEF Texts
<1>2. n \in Nat /\ Sizes \subseteq Nat
  BY Bounds
<1>3. \A k \in 1 .. n : parts[k] \in Messages
  BY <1>1, <1>2 DEF Messages
<1>4. parts \in [1 .. n -> Messages]
  BY <1>1, <1>3
<1>5. parts \in Seq(Messages)
  BY <1>2, <1>4
<1> QED
  BY <1>5

\* A wait that is over is a wait.
LEMMA WaitLapses ==
    ASSUME NEW w0, w0 \subseteq [id : NodeId, due : BOOLEAN]
    PROVE  {[w EXCEPT !.due = TRUE] : w \in w0} \subseteq [id : NodeId, due : BOOLEAN]
OBVIOUS

\* Messages are logged and queued.
LEMMA LogInv ==
    ASSUME Inv, pc = "free", NEW more \in Seq(Messages), Log(more), Settle,
           tree' = tree, file' = file, stray' \subseteq Messages, held' = held, skip' = skip,
           view' = view, job' = job, lost' = lost, skipped' = skipped, FaultsType'
    PROVE  Inv'
<1> DEFINE q == QueueFor(Len(log), Len(log \o more))
<1>1. /\ DiskType /\ FileType /\ QueueType /\ NodesType /\ CallType /\ MovedType /\ ViewType /\ PlanType
      /\ Queues /\ Callers /\ Files /\ Viewed
  BY TypesAre DEF Inv
<1>2. /\ log' = log \o more /\ pending' = pending \o q
      /\ wait' = {[w EXCEPT !.due = TRUE] : w \in wait}
      /\ pc' = "build" /\ caller' = "settle" /\ err' = err /\ plan' = plan
  BY Zenon DEF Log, Settle
<1>3. MovedType'
  BY <1>1, Zenon DEF Settle, MovedType
<1>4. /\ log \in Seq(Messages) /\ Len(log) \in Nat
      /\ log' \in Seq(Messages) /\ Len(log') \in Nat /\ Len(log) <= Len(log') /\ Len(log') = Len(log \o more)
      /\ \A k \in 1 .. Len(log) : log'[k] = log[k]
  <2>1. log \in Seq(Messages)
    BY <1>1 DEF DiskType
  <2> QED
    BY <1>2, <2>1
<1>5. Good(pending, Len(log), DOMAIN tree)
  BY <1>1 DEF Queues
<1>6. q \in Seq(NodeId) /\ Good(pending', Len(log'), DOMAIN tree)
  BY <1>2, <1>4, <1>5, QueueIs
<1> HIDE DEF q
<1>7. pending # <<>> => pending' # <<>> /\ Head(pending') = Head(pending)
  <2>1. pending \in Seq(NodeId)
    BY <1>1 DEF QueueType
  <2> QED
    BY <1>2, <1>6, <2>1
<1>8. ASSUME NEW n \in job PROVE Asked(n)'
  <2>1. n = Head(pending) /\ Asked(n) /\ pending # <<>>
    BY <1>1, <1>8 DEF Queues
  <2>2. n \in NodesOf(Len(log))
    BY <1>4, <1>5, <2>1, GoodTail
  <2>3. n \in NodeId /\ LastOf(n) < Len(log)
    BY <1>4, <2>2, NodesAre
  <2>4. Joined(n)' = Joined(n)
    <3>1. CASE n.l = 0
      <4>1. n.i + 1 \in 1 .. Len(log)
        BY <1>4, <2>3, <3>1, LeafLogged
      <4> QED
        BY <1>4, <3>1, <4>1 DEF Joined
    <3>2. CASE n.l # 0
      BY <3>2 DEF Joined
    <3> QED
      BY <3>1, <3>2
  <2> QED
    BY <2>1, <2>4 DEF Asked, Inputs, Children
<1>9. DiskType' /\ FileType'
  BY <1>1, <1>4 DEF DiskType, FileType
<1>10. QueueType'
  <2>1. wait' \subseteq [id : NodeId, due : BOOLEAN]
    BY <1>1, <1>2, WaitLapses DEF QueueType
  <2>2. pending' \in Seq(NodeId)
    BY <1>6 DEF Good
  <2> QED
    BY <1>1, <2>1, <2>2 DEF QueueType
<1>11. NodesType' /\ CallType' /\ ViewType' /\ PlanType'
  BY <1>1, <1>2 DEF NodesType, CallType, ViewType, PlanType
<1>12. Queues'
  BY <1>1, <1>2, <1>6, <1>7, <1>8 DEF Queues
<1>13. Callers'
  BY <1>2 DEF Callers
<1>14. Files'
  <2>1. NodesOf(Len(log)) \subseteq NodesOf(Len(log'))
    BY <1>4, NodesMono
  <2>2. file.kind = "view" => Usable(file.view, Len(log'))
    <3>1. file.view \in Views
      BY <1>1 DEF FileType
    <3> QED
      BY <1>1, <1>4, <3>1, UsableMore DEF Files
  <2>3. NodesOf(Len(log))' = NodesOf(Len(log'))
    BY DEF NodesOf
  <2>4. Usable(file.view, Len(log))' <=> Usable(file.view, Len(log'))
    BY DEF Usable
  <2> QED
    BY <1>1, <2>1, <2>2, <2>3, <2>4 DEF Files
<1>15. Viewed'
  <2>1. Usable(view, Len(log')) 
    <3>1. view \in Views /\ Usable(view, Len(log))
      BY <1>1 DEF Viewed, ViewType
    <3> QED
      BY <1>4, <3>1, UsableMore
  <2>2. Usable(view, Len(log))' <=> Usable(view, Len(log'))
    BY DEF Usable
  <2> QED
    BY <1>2, <2>1, <2>2 DEF Viewed
<1> QED
  BY <1>3, <1>9, <1>10, <1>11, <1>12, <1>13, <1>14, <1>15, TypesAreNext DEF Inv

LEMMA AppendActInv == ASSUME Inv, NEW parts \in Texts, AppendAct(parts) PROVE Inv'
<1>1. /\ pc = "free" /\ stray = {} /\ Log(parts) /\ Settle
      /\ tree' = tree /\ file' = file /\ stray' = stray /\ held' = held /\ skip' = skip
      /\ view' = view /\ job' = job /\ faults' = faults /\ lost' = lost /\ skipped' = skipped
  BY Zenon DEF AppendAct, MayLog, ghosts
<1>2. FaultsType'
  BY <1>1, TypesAre DEF Inv, FaultsType
<1>3. parts \in Seq(Messages) /\ stray' \subseteq Messages
  BY <1>1, TextsAre
<1> QED
  BY <1>1, <1>2, <1>3, LogInv

LEMMA AppendActFailsInv == ASSUME Inv, NEW parts \in Texts, AppendActFails(parts) PROVE Inv'
<1>1. /\ pc = "free" /\ stray = {} /\ faults < MaxFaults /\ faults' = faults + 1
      /\ \E n \in 0 .. Len(parts) - 1 :
            /\ stray' \in {{}, {parts[n + 1]}}
            /\ \/ UNCHANGED <<log, pending, wait, call>>
               \/ Log(SubSeq(parts, 1, n)) /\ Settle
      /\ tree' = tree /\ file' = file /\ held' = held /\ skip' = skip /\ view' = view /\ job' = job
      /\ lost' = lost /\ skipped' = skipped
  BY DEF AppendActFails, MayLog
<1>2. FaultsType'
  BY <1>1, TypesAre, Bounds DEF Inv, FaultsType
<1>3. PICK n \in 0 .. Len(parts) - 1 :
            /\ stray' \in {{}, {parts[n + 1]}}
            /\ \/ UNCHANGED <<log, pending, wait, call>>
               \/ Log(SubSeq(parts, 1, n)) /\ Settle
  BY <1>1
<1>4. /\ SubSeq(parts, 1, n) \in Seq(Messages) /\ stray' \subseteq Messages
  BY <1>3, TextsAre
<1>5. CASE Log(SubSeq(parts, 1, n)) /\ Settle
  BY <1>1, <1>2, <1>4, <1>5, LogInv
<1>6. CASE UNCHANGED <<log, pending, wait, call>>
  <2>1. /\ DiskType /\ FileType /\ QueueType /\ NodesType /\ CallType /\ MovedType /\ ViewType /\ PlanType
        /\ Queues /\ Callers /\ Files /\ Viewed
    BY TypesAre DEF Inv
  <2>2. /\ log' = log /\ pending' = pending /\ wait' = wait /\ pc' = pc /\ caller' = caller /\ err' = err
        /\ plan' = plan
    BY <1>6, Zenon DEF call
  <2>3. MovedType'
    BY <1>6, <2>1, Zenon DEF call, MovedType
  <2>4. DiskType' /\ FileType' /\ QueueType' /\ NodesType' /\ CallType' /\ ViewType' /\ PlanType'
    BY <1>1, <1>4, <2>1, <2>2 DEF DiskType, FileType, QueueType, NodesType, CallType, ViewType, PlanType
  <2>5. Queues'
    BY <1>1, <2>1, <2>2, AskedSame DEF Queues
  <2>6. Callers' /\ Files' /\ Viewed'
    BY <1>1, <2>1, <2>2 DEF Callers, Files, Viewed, NodesOf, Usable
  <2> QED
    BY <1>2, <2>3, <2>4, <2>5, <2>6, TypesAreNext DEF Inv
<1> QED
  BY <1>3, <1>5, <1>6
LEMMA DrainInv == ASSUME Inv, Drain PROVE Inv'
<1>1. /\ QueueType /\ NodesType /\ CallType /\ MovedType /\ ViewType /\ PlanType /\ FaultsType
      /\ Queues /\ Callers /\ Viewed /\ DiskType
  BY TypesAre DEF Inv
<1>2. /\ pc = "free" /\ job = {} /\ pending # <<>> /\ pending' = Prioritized
      /\ pc' = "build" /\ caller' = "drain"
      /\ UNCHANGED disk /\ log' = log /\ tree' = tree /\ wait' = wait /\ held' = held /\ skip' = skip
      /\ view' = view /\ job' = job /\ err' = err /\ plan' = plan
      /\ faults' = faults /\ lost' = lost /\ skipped' = skipped
  BY Zenon DEF Drain, disk, ghosts
<1>3. MovedType'
  BY <1>1, Zenon DEF Drain, MovedType
<1>4. DiskType' /\ FileType' /\ Files'
  BY <1>2, DiskSame
<1>5. Len(log) \in Nat
  BY <1>1 DEF DiskType
<1>6. Good(pending', Len(log), DOMAIN tree)
  BY <1>1, <1>2, <1>5, GoodPrioritized DEF Queues
<1>7. pending' \in Seq(NodeId)
  BY <1>6 DEF Good
<1>8. held # {} => pending' = pending
  BY <1>2 DEF Prioritized
<1>9. QueueType' /\ NodesType' /\ CallType' /\ ViewType' /\ PlanType' /\ FaultsType'
  BY <1>1, <1>2, <1>7 DEF QueueType, NodesType, CallType, ViewType, PlanType, FaultsType
<1>10. Queues'
  BY <1>1, <1>2, <1>6, <1>8 DEF Queues
<1>11. Callers' /\ Viewed'
  BY <1>1, <1>2 DEF Callers, Viewed, Usable
<1> QED
  BY <1>3, <1>4, <1>9, <1>10, <1>11, TypesAreNext DEF Inv

LEMMA CommitInv == ASSUME Inv, NEW size \in Answers, Commit(size) PROVE Inv'
<1> DEFINE n == Head(pending)  T == DOMAIN tree
<1>1. /\ DiskType /\ FileType /\ QueueType /\ NodesType /\ CallType /\ MovedType /\ ViewType /\ PlanType
      /\ FaultsType /\ Queues /\ Callers /\ Files /\ Viewed
  BY TypesAre DEF Inv
<1>2. /\ pc = "free" /\ pc' = "build" /\ caller' = "settle" /\ job' = {}
      /\ log' = log /\ file' = file /\ stray' = stray /\ held' = held /\ skip' = skip /\ view' = view
      /\ err' = err /\ plan' = plan /\ faults' = faults /\ lost' = lost /\ skipped' = skipped
  BY Zenon DEF Commit, Settle, ghosts
<1>3. MovedType'
  BY <1>1, Zenon DEF Commit, Settle, MovedType
<1>4. /\ job # {} /\ pending # <<>>
      /\ tree' = [m \in T \cup {n} |-> IF m = n THEN size ELSE tree[m]]
      /\ pending' = Tail(pending) /\ wait' \subseteq wait
  <2>1. PICK x \in job : IF pending # <<>> /\ Head(pending) = x
                         THEN Write(x, size) /\ wait' = {w \in wait : w.id # x}
                         ELSE UNCHANGED <<tree, pending, wait>>
    BY DEF Commit
  <2>2. pending # <<>> /\ Head(pending) = x
    BY <1>1, <2>1 DEF Queues
  <2> QED
    BY <2>1, <2>2 DEF Write
<1>5. held = {}
  BY <1>1, <1>4 DEF Queues
<1>6. Good(pending, Len(log), T) /\ Len(log) \in Nat
  BY <1>1, <1>2 DEF Queues, DiskType
<1>7. n \in NodesOf(Len(log)) \ T /\ Good(Tail(pending), Len(log), T \cup {n})
  BY <1>4, <1>6, GoodTail
<1>8. n \in NodeId /\ NodesOf(Len(log)) \subseteq NodeId
  BY <1>6, <1>7, NodesMono
<1>9. size \in 0 .. NodeBytes
  BY Bounds
<1>10. DOMAIN tree' = T \cup {n}
  BY <1>4
<1> HIDE DEF n
<1>11. DiskType'
  <2>1. log' \in Seq(Messages) /\ stray' \subseteq Messages
    BY <1>1, <1>2 DEF DiskType
  <2>2. tree \in [T -> 0 .. NodeBytes] /\ T \subseteq NodeId
    BY <1>1 DEF DiskType
  <2>3. tree' \in [T \cup {n} -> 0 .. NodeBytes]
    BY <1>4, <1>9, <2>2
  <2> QED
    BY <1>8, <1>10, <2>1, <2>2, <2>3 DEF DiskType
<1>12. QueueType'
  <2>1. pending' \in Seq(NodeId)
    BY <1>4, <1>7 DEF Good
  <2> QED
    BY <1>1, <1>2, <1>4, <1>5, <2>1 DEF QueueType
<1>13. FileType' /\ NodesType' /\ CallType' /\ ViewType' /\ PlanType' /\ FaultsType'
  BY <1>1, <1>2 DEF FileType, NodesType, CallType, ViewType, PlanType, FaultsType
<1>14. Queues'
  BY <1>2, <1>4, <1>5, <1>7, <1>10 DEF Queues
<1>15. Callers'
  BY <1>2 DEF Callers
<1>16. Files'
  BY <1>1, <1>2, <1>7, <1>10 DEF Files, NodesOf, Usable
<1>17. Viewed'
  BY <1>1, <1>2 DEF Viewed, Usable
<1> QED
  BY <1>3, <1>11, <1>12, <1>13, <1>14, <1>15, <1>16, <1>17, TypesAreNext DEF Inv

\* What changes only the retry state, the held line and the job.
LEMMA MemoryInv ==
    ASSUME Inv, pc # "closed", UNCHANGED disk, pending' = pending, skip' = skip, view' = view, UNCHANGED call,
           lost' = lost, skipped' = skipped, FaultsType',
           wait' \subseteq [id : NodeId, due : BOOLEAN],
           job' \subseteq job,
           \/ held' = held
           \/ /\ pc = "free" /\ job' = {}
              /\ held' \subseteq [id : NodeId, size : 0 .. NodeBytes]
              /\ \A h \in held' : pending # <<>> /\ Head(pending) = h.id
    PROVE  Inv'
<1>1. /\ QueueType /\ NodesType /\ CallType /\ MovedType /\ ViewType /\ PlanType
      /\ Queues /\ Callers /\ Viewed
  BY TypesAre DEF Inv
<1>2. /\ log' = log /\ tree' = tree /\ pc' = pc /\ caller' = caller /\ err' = err /\ plan' = plan
  BY Zenon DEF disk, call
<1>3. MovedType'
  BY <1>1, Zenon DEF call, MovedType
<1>4. DiskType' /\ FileType' /\ Files'
  BY DiskSame
<1>5. QueueType' /\ NodesType'
  BY <1>1, <1>2 DEF QueueType, NodesType
<1>6. CallType' /\ ViewType' /\ PlanType'
  BY <1>1, <1>2 DEF CallType, ViewType, PlanType
<1>7. Queues'
  <2>1. CASE held' = held
    BY <1>1, <1>2, <2>1, AskedSame DEF Queues
  <2>2. CASE pc = "free" /\ job' = {} /\ \A h \in held' : pending # <<>> /\ Head(pending) = h.id
    BY <1>1, <1>2, <2>2 DEF Queues
  <2> QED
    BY <2>1, <2>2
<1>8. Callers'
  BY <1>1, <1>2 DEF Callers
<1>9. Viewed'
  BY <1>1, <1>2 DEF Viewed, Usable
<1> QED
  BY <1>3, <1>4, <1>5, <1>6, <1>7, <1>8, <1>9, TypesAreNext DEF Inv

LEMMA CommitFailsInv == ASSUME Inv, NEW size \in Answers, CommitFails(size) PROVE Inv'
<1>1. /\ pc = "free" /\ UNCHANGED disk /\ UNCHANGED call /\ faults < MaxFaults /\ faults' = faults + 1
      /\ pending' = pending /\ skip' = skip /\ view' = view /\ lost' = lost /\ skipped' = skipped
      /\ job' = {}
      /\ \E n \in job : /\ pending # <<>> /\ Head(pending) = n
                        /\ held' = {[id |-> n, size |-> size]}
                        /\ wait' = {w \in wait : w.id # n}
  BY Zenon DEF CommitFails
<1>2. QueueType /\ FaultsType /\ NodesType
  BY TypesAre DEF Inv
<1>3. FaultsType'
  BY <1>1, <1>2, Bounds DEF FaultsType
<1>4. /\ wait' \subseteq [id : NodeId, due : BOOLEAN]
      /\ held' \subseteq [id : NodeId, size : 0 .. NodeBytes]
      /\ \A h \in held' : pending # <<>> /\ Head(pending) = h.id
  BY <1>1, <1>2, Bounds DEF QueueType, NodesType
<1> QED
  BY <1>1, <1>3, <1>4, MemoryInv

LEMMA CallFailsInv == ASSUME Inv, CallFails PROVE Inv'
<1>1. /\ pc = "free" /\ UNCHANGED disk /\ UNCHANGED call /\ faults' = faults /\ held' = held
      /\ pending' = pending /\ skip' = skip /\ view' = view /\ lost' = lost /\ skipped' = skipped
      /\ job' = {} /\ \E n \in job : wait' = {[id |-> n, due |-> FALSE]}
  BY Zenon DEF CallFails, ghosts
<1>2. NodesType /\ FaultsType
  BY TypesAre DEF Inv
<1>3. FaultsType'
  BY <1>1, <1>2 DEF FaultsType
<1>4. wait' \subseteq [id : NodeId, due : BOOLEAN]
  BY <1>1, <1>2 DEF NodesType
<1> QED
  BY <1>1, <1>3, <1>4, MemoryInv

LEMMA HoldBackInv == ASSUME Inv, HoldBack PROVE Inv'
<1>1. /\ pc = "free" /\ UNCHANGED disk /\ UNCHANGED call /\ faults' = faults /\ held' = held
      /\ pending' = pending /\ skip' = skip /\ view' = view /\ lost' = lost /\ skipped' = skipped
      /\ job' = {} /\ wait' = wait
  BY Zenon DEF HoldBack, ghosts
<1>2. QueueType /\ FaultsType
  BY TypesAre DEF Inv
<1>3. FaultsType' /\ wait' \subseteq [id : NodeId, due : BOOLEAN]
  BY <1>1, <1>2 DEF FaultsType, QueueType
<1> QED
  BY <1>1, <1>3, MemoryInv

LEMMA LapseInv == ASSUME Inv, Lapse PROVE Inv'
<1>1. /\ wait # {} /\ UNCHANGED disk /\ UNCHANGED call /\ faults' = faults /\ held' = held
      /\ pending' = pending /\ skip' = skip /\ view' = view /\ lost' = lost /\ skipped' = skipped
      /\ job' = job /\ wait' = {[w EXCEPT !.due = TRUE] : w \in wait}
  BY Zenon DEF Lapse, ghosts
<1>2. QueueType /\ FaultsType /\ Callers
  BY TypesAre DEF Inv
<1>3. wait' \subseteq [id : NodeId, due : BOOLEAN]
  BY <1>1, <1>2, WaitLapses DEF QueueType
<1>4. FaultsType' /\ pc # "closed"
  BY <1>1, <1>2 DEF FaultsType, Callers
<1> QED
  BY <1>1, <1>3, <1>4, MemoryInv

LEMMA CrashInv == ASSUME Inv, Crash PROVE Inv'
<1>1. /\ Close /\ log' = log /\ tree' = tree /\ stray' = stray /\ file' = file
      /\ lost' = lost /\ skipped' = skipped /\ faults < MaxFaults /\ faults' = faults + 1
  BY Zenon DEF Crash, disk
<1>2. FileType /\ FaultsType /\ Files
  BY TypesAre DEF Inv
<1>3. FileType' /\ FaultsType' /\ (file'.kind = "view" => Usable(file'.view, Len(log)))
  BY <1>1, <1>2, Bounds DEF FileType, FaultsType, Files
<1> QED
  BY <1>1, <1>3, CloseInv

\* What changes only the files of a chat that is closed.
LEMMA SpoilInv ==
    ASSUME Inv, pc = "closed", UNCHANGED memory, UNCHANGED call, log' = log, stray' = stray,
           DOMAIN tree' \subseteq DOMAIN tree, tree' \in [DOMAIN tree' -> 0 .. NodeBytes],
           FileType', file'.kind = "view" => file' = file, lost' \subseteq NodeId, skipped' = skipped,
           FaultsType'
    PROVE  Inv'
<1>1. /\ DiskType /\ QueueType /\ NodesType /\ CallType /\ MovedType /\ ViewType /\ PlanType
      /\ Callers /\ Files
  BY TypesAre DEF Inv
<1>2. /\ pending' = pending /\ wait' = wait /\ held' = held /\ skip' = skip /\ view' = view /\ job' = job
      /\ pc' = pc /\ caller' = caller /\ err' = err /\ plan' = plan
  BY Zenon DEF memory, call
<1>3. MovedType'
  BY <1>1, Zenon DEF call, MovedType
<1>4. DiskType'
  BY <1>1 DEF DiskType
<1>5. QueueType' /\ NodesType' /\ CallType' /\ ViewType' /\ PlanType'
  BY <1>1, <1>2 DEF QueueType, NodesType, CallType, ViewType, PlanType
<1>6. pending' = <<>> /\ held' = {} /\ job' = {} /\ pc' = "closed"
  BY <1>1, <1>2 DEF Callers
<1>7. Queues' /\ Viewed'
  BY <1>6 DEF Queues, Viewed
<1>8. Callers'
  BY <1>1, <1>2 DEF Callers, EmptyView
<1>9. Files'
  BY <1>1 DEF Files, NodesOf, Usable
<1> QED
  BY <1>3, <1>4, <1>5, <1>7, <1>8, <1>9, TypesAreNext DEF Inv

LEMMA SpoilTreeInv == ASSUME Inv, NEW n \in DOMAIN tree, SpoilTree(n) PROVE Inv'
<1>1. /\ pc = "closed" /\ UNCHANGED memory /\ UNCHANGED call /\ log' = log /\ stray' = stray /\ file' = file
      /\ skipped' = skipped /\ faults < MaxFaults /\ faults' = faults + 1 /\ lost' = lost \cup {n}
      /\ tree' = [m \in DOMAIN tree \ {n} |-> tree[m]]
  BY Zenon DEF SpoilTree
<1>2. DiskType /\ FileType /\ FaultsType /\ NodesType
  BY TypesAre DEF Inv
<1>3. /\ DOMAIN tree' \subseteq DOMAIN tree /\ tree' \in [DOMAIN tree' -> 0 .. NodeBytes]
      /\ lost' \subseteq NodeId
  BY <1>1, <1>2 DEF DiskType, NodesType
<1>4. FileType' /\ FaultsType'
  BY <1>1, <1>2, Bounds DEF FileType, FaultsType
<1> QED
  BY <1>1, <1>3, <1>4, SpoilInv

LEMMA SpoilViewInv == ASSUME Inv, SpoilView PROVE Inv'
<1>1. /\ pc = "closed" /\ UNCHANGED memory /\ UNCHANGED call /\ log' = log /\ stray' = stray /\ tree' = tree
      /\ skipped' = skipped /\ faults < MaxFaults /\ faults' = faults + 1 /\ lost' = lost
      /\ file' \in {NoFile, BadFile}
  BY Zenon DEF SpoilView
<1>2. DiskType /\ FaultsType /\ NodesType
  BY TypesAre DEF Inv
<1>3. /\ DOMAIN tree' \subseteq DOMAIN tree /\ tree' \in [DOMAIN tree' -> 0 .. NodeBytes]
      /\ lost' \subseteq NodeId
  BY <1>1, <1>2 DEF DiskType, NodesType
<1>4. FileType' /\ FaultsType' /\ file'.kind # "view"
  BY <1>1, <1>2, Bounds, NoView DEF FileType, FaultsType, NoFile, BadFile
<1> QED
  BY <1>1, <1>3, <1>4, SpoilInv

LEMMA StutterInv == ASSUME Inv, UNCHANGED vars PROVE Inv'
<1>1. /\ DiskType /\ FileType /\ QueueType /\ NodesType /\ CallType /\ MovedType /\ ViewType /\ PlanType
      /\ FaultsType /\ Queues /\ Callers /\ Files /\ Viewed
  BY TypesAre DEF Inv
<1>2. /\ UNCHANGED disk /\ log' = log /\ tree' = tree /\ pending' = pending /\ wait' = wait /\ held' = held
      /\ skip' = skip /\ view' = view /\ job' = job /\ pc' = pc /\ caller' = caller /\ err' = err
      /\ plan' = plan /\ faults' = faults /\ lost' = lost /\ skipped' = skipped
  BY Zenon DEF vars, disk, memory, call, ghosts
<1>3. MovedType'
  BY <1>1, Zenon DEF vars, call, MovedType
<1>4. DiskType' /\ FileType' /\ Files'
  BY <1>2, DiskSame
<1>5. QueueType' /\ NodesType' /\ CallType' /\ ViewType' /\ PlanType' /\ FaultsType'
  BY <1>1, <1>2 DEF QueueType, NodesType, CallType, ViewType, PlanType, FaultsType
<1>6. Queues'
  BY <1>1, <1>2, AskedSame DEF Queues
<1>7. Callers' /\ Viewed'
  BY <1>1, <1>2 DEF Callers, Viewed, Usable
<1> QED
  BY <1>3, <1>4, <1>5, <1>6, <1>7, TypesAreNext DEF Inv

\* Every step keeps the invariant,
LEMMA NextInv == ASSUME Inv, Next PROVE Inv'
<1>1. CASE Open
  BY <1>1, OpenInv
<1>2. CASE Proceed
  BY <1>2, BuildWriteInv, BuildEndsInv, ViewStepInv, BatchStepInv, BatchEndsInv, SaveViewInv DEF Proceed
<1>3. CASE BuildFails \/ SaveFails
  BY <1>3, BuildFailsInv, SaveFailsInv
<1>4. CASE \E parts \in Texts : AppendAct(parts) \/ AppendActFails(parts)
  BY <1>4, AppendActInv, AppendActFailsInv
<1>5. CASE Drain
  BY <1>5, DrainInv
<1>6. CASE \E size \in Answers : Commit(size) \/ CommitFails(size)
  BY <1>6, CommitInv, CommitFailsInv
<1>7. CASE CallFails \/ HoldBack \/ Lapse
  BY <1>7, CallFailsInv, HoldBackInv, LapseInv
<1>8. CASE Crash
  BY <1>8, CrashInv
<1>9. CASE (\E n \in DOMAIN tree : SpoilTree(n)) \/ SpoilView
  BY <1>9, SpoilTreeInv, SpoilViewInv
<1> QED
  BY <1>1, <1>2, <1>3, <1>4, <1>5, <1>6, <1>7, <1>8, <1>9 DEF Next

\* ... so that it holds always.
LEMMA AlwaysInv == Spec => []Inv
<1>1. Inv /\ [Next]_vars => Inv'
  BY NextInv, StutterInv
<1> QED
  BY <1>1, InitInv, PTL DEF Spec

-----------------------------------------------------------------------------
(* What the runs check.                                                        *)

(* Every variable keeps to its type: no step of the compactor, of a caller or  *)
(* of a crash leaves the chat in a state that has no meaning.                  *)
THEOREM TypeCorrect == Spec => []TypeOK
<1>1. Inv => TypeOK
  BY DEF Inv
<1> QED
  BY <1>1, AlwaysInv, PTL

(* The queue is the missing nodes, each once and behind its inputs, and the    *)
(* node that a model was asked for stays in front of it until it is written,   *)
(* whatever is logged, put first, failed or lost meanwhile.                    *)
THEOREM QueueStaysInOrder == Spec => []QueueInOrder
<1>1. ASSUME Inv PROVE QueueInOrder
  <2> SUFFICES ASSUME pc # "closed"
               PROVE  /\ Range(pending) = NodesOf(Len(log)) \ DOMAIN tree
                      /\ \A k \in DOMAIN pending :
                          /\ \A j \in 1 .. k - 1 : pending[j] # pending[k]
                          /\ \A c \in Inputs(pending[k]) \ DOMAIN tree : \E j \in 1 .. k - 1 : pending[j] = c
                      /\ \A n \in job \cup {h.id : h \in held} : pending # <<>> /\ Head(pending) = n
    BY DEF QueueInOrder
  <2>1. Queues
    BY <1>1 DEF Inv
  <2>2. Good(pending, Len(log), DOMAIN tree)
    BY <2>1 DEF Queues
  <2>3. DOMAIN pending = 1 .. Len(pending)
    BY <2>2 DEF Good
  <2>4. \A n \in job \cup {h.id : h \in held} : pending # <<>> /\ Head(pending) = n
    BY <2>1 DEF Queues
  <2> QED
    BY <2>2, <2>3, <2>4 DEF Good, Once, Ordered
<1> QED
  BY <1>1, AlwaysInv, PTL

(* The files on disk are ones that the next open can use, after every step and *)
(* so after a crash between any two.                                           *)
THEOREM OwnFilesStayUsable == Spec => []OwnFilesUsable
<1>1. Inv => OwnFilesUsable
  BY DEF Inv, Files, OwnFilesUsable
<1> QED
  BY <1>1, AlwaysInv, PTL

\* The action of TakesMostDue.
BatchFollowsRule ==
    pc = "batch" /\ pc' # "closed" =>
        LET before == Lines(plan)
            due    == MostDue(before, view.count, DOMAIN tree) IN
        IF pc' = "batch"
        THEN \E k \in due : Lines(plan') = MergeAt(before, k)
        ELSE /\ view'.lines = before
             /\ ViewSize(before) <= ViewMin \/ due = {}

\* A batch ends where the rule ends it.
LEMMA BatchEndsByRule == ASSUME Inv, BatchEnds PROVE BatchFollowsRule
<1>1. /\ pc = "batch" /\ pc' = "view"
      /\ view' = [count |-> view.count, batch |-> view.batch /\ ~ (ViewSize(Lines(plan)) <= ViewMin),
                  lines |-> Lines(plan)]
      /\ ViewSize(Lines(plan)) <= ViewMin \/ plan.heap = {}
  BY DEF BatchEnds
<1>2. Sound(plan, view.count, DOMAIN tree) /\ view.count \in Nat
  BY <1>1, TypesAre DEF Inv, Viewed, ViewType, Views
<1>3. plan.heap = {} => MostDue(Lines(plan), view.count, DOMAIN tree) = {}
  BY <1>2, NoPairNoEntry
<1>4. view'.lines = Lines(plan)
  BY <1>1
<1> QED
  BY <1>1, <1>3, <1>4 DEF BatchFollowsRule

\* Every step of a batch is one of the rule.
LEMMA NextByRule == ASSUME Inv, [Next]_vars, <<pc, plan>>' # <<pc, plan>> PROVE BatchFollowsRule
<1> SUFFICES ASSUME pc = "batch", pc' # "closed" PROVE BatchFollowsRule
  BY DEF BatchFollowsRule
<1>1. pc' # pc \/ plan' # plan
  OBVIOUS
<1>2. BatchStep \/ BatchEnds
  <2>1. ~ UNCHANGED vars
    BY <1>1, Zenon DEF vars, call
  <2>2. Next
    BY <2>1
  <2>3. ~ Lapse
    BY <1>1, Zenon DEF Lapse, call
  <2>4. ~ Crash
    BY DEF Crash, Close
  <2>5. ~ Open /\ ~ BuildWrite /\ ~ BuildEnds /\ ~ ViewStep /\ ~ BuildFails
    BY DEF Open, BuildWrite, BuildEnds, ViewStep, BuildFails
  <2>6. ~ SaveView /\ ~ SaveFails
    BY DEF SaveView, SaveFails, Advanced
  <2>7. \A parts : ~ AppendAct(parts) /\ ~ AppendActFails(parts)
    BY DEF AppendAct, AppendActFails, MayLog
  <2>8. ~ Drain /\ ~ CallFails /\ ~ HoldBack /\ \A size : ~ Commit(size) /\ ~ CommitFails(size)
    BY DEF Drain, CallFails, HoldBack, Commit, CommitFails
  <2>9. ~ SpoilView /\ \A n : ~ SpoilTree(n)
    BY DEF SpoilView, SpoilTree
  <2> QED
    BY <2>2, <2>3, <2>4, <2>5, <2>6, <2>7, <2>8, <2>9 DEF Next, Proceed
<1>3. CASE BatchStep
  <2>1. pc' = "batch"
    BY <1>3 DEF BatchStep
  <2>2. \E k \in MostDue(Lines(plan), view.count, DOMAIN tree) : Lines(plan') = MergeAt(Lines(plan), k)
    BY <1>3, BatchMerges
  <2> QED
    BY <2>1, <2>2 DEF BatchFollowsRule
<1> QED
  BY <1>2, <1>3, BatchEndsByRule

(* The heap of the planner makes the merges that the rule makes on the lines,  *)
(* in its order, and stops where the rule stops: for any number of levels and  *)
(* of lines, whichever nodes are built.                                        *)
THEOREM PlannerTakesMostDue == Spec => TakesMostDue
<1>1. ASSUME Inv, [Next]_vars PROVE [BatchFollowsRule]_<<pc, plan>>
  BY <1>1, NextByRule
<1>2. TakesMostDue <=> [][BatchFollowsRule]_<<pc, plan>>
  BY DEF TakesMostDue, BatchFollowsRule
<1> QED
  BY <1>1, <1>2, AlwaysInv, PTL DEF Spec
=============================================================================
