---------------------------- MODULE GateAskProofs ----------------------------
(***************************************************************************)
(* Proofs about GateAsk for every set of gates, names and operators, every *)
(* timeout and every bound of the clock: the types, that a finished gate   *)
(* leaves no ask behind, that the ask and the answer of a gate whose name  *)
(* no other has used stay until they are due, and, as long as no two gates *)
(* wait under one name at once, that a gate takes its own answer only and  *)
(* that a permanent call is allowed only by an operator who typed the      *)
(* name.                                                                   *)
(***************************************************************************)
EXTENDS GateAsk, TLAPS

\* A gate that has begun has a name; so has an operator that has looked, who has the nonce to write.
Named ==
    /\ \A g \in Gates : gate[g].at # "idle" => gate[g].name \in Names
    /\ \A o \in Operators : operator[o].at # "idle" => operator[o].name \in Names
    /\ \A o \in Operators : operator[o].at = "write" => operator[o].nonce \in Gates

IType == TypeOK /\ Named

GateRecord ==
    [at : Steps, name : Names \cup {None}, deadline : 0 .. MaxNow + Timeout, swept : Times,
     todo : SUBSET Names, cur : Names \cup {None}, expected : Gates \cup {None},
     asked : Times \cup {None}, verdict : Answer \cup {None}]

OperatorRecord ==
    [at : {"idle", "shown", "write", "wrote"}, name : Names \cup {None},
     shown : BOOLEAN, nonce : Gates \cup {None}, allow : BOOLEAN]

\* A step of one gate that leaves the gate in its type, named once it has begun, keeps the types.
LEMMA OneGate ==
    ASSUME IType, NEW g \in Gates, NEW r \in GateRecord, r.at # "idle" => r.name \in Names,
           gate' = [gate EXCEPT ![g] = r], UNCHANGED <<asks, operator, now>>,
           answers' \in [Names -> Answer \cup {None}]
    PROVE  IType'
BY DEF IType, TypeOK, GateRecord, Named

\* The types hold at the start.
LEMMA InitType == Init => IType
BY AskAssumption DEF Init, IType, TypeOK, Named, Rest, Off, Times, Steps

\* Every step keeps the types.
LEMMA NextType == IType /\ [Next]_vars => IType'
<1> SUFFICES ASSUME IType, [Next]_vars PROVE IType'
    OBVIOUS
<1>t. TypeOK /\ Named
    BY DEF IType
<1>g. /\ gate \in [Gates -> GateRecord] /\ asks \in [Names -> Ask \cup {None}]
      /\ answers \in [Names -> Answer \cup {None}] /\ now \in Times
    BY <1>t DEF TypeOK, GateRecord
<1>r. \A g \in Gates : gate[g] \in GateRecord
    BY <1>g
<1>s. Rest \in GateRecord
    BY AskAssumption DEF Rest, GateRecord, Times, Steps
<1>1. ASSUME NEW g \in Gates, Begin(g) PROVE IType'
  <2>1. PICK n \in Names :
            gate' = [gate EXCEPT ![g].at = "sweepAsks", ![g].name = n, ![g].deadline = now + Timeout,
                                 ![g].swept = now, ![g].todo = Present(asks)]
    BY <1>1 DEF Begin
  <2> DEFINE deadline == now + Timeout
             todo == Present(asks)
             r == [gate[g] EXCEPT !.at = "sweepAsks", !.name = n, !.deadline = deadline,
                                  !.swept = now, !.todo = todo]
  <2>0. /\ deadline \in 0 .. MaxNow + Timeout /\ todo \in SUBSET Names
        /\ now \in Times /\ "sweepAsks" \in Steps
    BY <1>g, AskAssumption DEF Times, Present, Steps
  <2>2. r \in GateRecord /\ r.name \in Names
    <3> HIDE DEF deadline, todo
    <3> QED BY <1>r, <2>0 DEF GateRecord
  <2>3. gate' = [gate EXCEPT ![g] = r]
    BY <1>g, <2>1
  <2> QED
    BY <1>1, <1>g, <2>2, <2>3, OneGate DEF Begin
<1>2. ASSUME NEW g \in Gates, SweepAsk(g) PROVE IType'
  <2>1. CASE \E n \in gate[g].todo :
                gate' = [gate EXCEPT ![g].todo = @ \ {n},
                                     ![g].cur = IF Expired(g, n) THEN n ELSE None,
                                     ![g].at = IF Expired(g, n) THEN "dropAsk" ELSE "sweepAsks"]
    <3>1. PICK n \in gate[g].todo :
                gate' = [gate EXCEPT ![g].todo = @ \ {n},
                                     ![g].cur = IF Expired(g, n) THEN n ELSE None,
                                     ![g].at = IF Expired(g, n) THEN "dropAsk" ELSE "sweepAsks"]
      BY <2>1
    <3> DEFINE todo == gate[g].todo \ {n}
               cur == IF Expired(g, n) THEN n ELSE None
               at == IF Expired(g, n) THEN "dropAsk" ELSE "sweepAsks"
               r == [gate[g] EXCEPT !.todo = todo, !.cur = cur, !.at = at]
    <3>0. gate[g].at = "sweepAsks" /\ gate[g].name \in Names /\ n \in Names
      BY <1>2, <1>g, <1>t DEF GateRecord, Named, SweepAsk
    <3>4. todo \in SUBSET Names /\ cur \in Names \cup {None} /\ at \in Steps
      BY <1>g, <3>0 DEF GateRecord, Steps
    <3>2. r \in GateRecord /\ r.name \in Names
      <4> HIDE DEF todo, cur, at
      <4> QED BY <1>r, <3>0, <3>4 DEF GateRecord
    <3>3. gate' = [gate EXCEPT ![g] = r]
      BY <1>g, <3>1
    <3> QED
      BY <1>2, <1>g, <3>2, <3>3, OneGate DEF SweepAsk
  <2>2. CASE gate' = [gate EXCEPT ![g].at = "sweepAnswers", ![g].todo = Present(answers)]
    <3> DEFINE todo == Present(answers)
               r == [gate[g] EXCEPT !.at = "sweepAnswers", !.todo = todo]
    <3>0. gate[g].at = "sweepAsks" /\ gate[g].name \in Names
      BY <1>2, <1>g, <1>t DEF GateRecord, Named, SweepAsk
    <3>4. todo \in SUBSET Names /\ "sweepAnswers" \in Steps
      BY DEF Present, Steps
    <3>2. r \in GateRecord /\ r.name \in Names
      <4> HIDE DEF todo
      <4> QED BY <1>r, <3>0, <3>4 DEF GateRecord
    <3>3. gate' = [gate EXCEPT ![g] = r]
      BY <1>g, <2>2
    <3> QED
      BY <1>2, <1>g, <3>2, <3>3, OneGate DEF SweepAsk
  <2> QED
    BY <1>2, <2>1, <2>2 DEF SweepAsk
<1>3. ASSUME NEW g \in Gates, SweepDropAsk(g) \/ SweepDropAnswer(g) \/ DropOrphan(g) PROVE IType'
    BY <1>3, <1>t DEF SweepDropAsk, SweepDropAnswer, DropOrphan, IType, TypeOK, Named, Times, Steps
<1>4. ASSUME NEW g \in Gates, SweepAnswer(g) PROVE IType'
  <2>1. CASE \E n \in gate[g].todo :
                gate' = [gate EXCEPT ![g].todo = @ \ {n},
                                     ![g].cur = IF Orphan(g, n) THEN n ELSE None,
                                     ![g].at = IF Orphan(g, n) THEN "dropOrphan" ELSE "sweepAnswers"]
    <3>1. PICK n \in gate[g].todo :
                gate' = [gate EXCEPT ![g].todo = @ \ {n},
                                     ![g].cur = IF Orphan(g, n) THEN n ELSE None,
                                     ![g].at = IF Orphan(g, n) THEN "dropOrphan" ELSE "sweepAnswers"]
      BY <2>1
    <3> DEFINE todo == gate[g].todo \ {n}
               cur == IF Orphan(g, n) THEN n ELSE None
               at == IF Orphan(g, n) THEN "dropOrphan" ELSE "sweepAnswers"
               r == [gate[g] EXCEPT !.todo = todo, !.cur = cur, !.at = at]
    <3>0. gate[g].at = "sweepAnswers" /\ gate[g].name \in Names /\ n \in Names
      BY <1>4, <1>g, <1>t DEF GateRecord, Named, SweepAnswer
    <3>4. todo \in SUBSET Names /\ cur \in Names \cup {None} /\ at \in Steps
      BY <1>g, <3>0 DEF GateRecord, Steps
    <3>2. r \in GateRecord /\ r.name \in Names
      <4> HIDE DEF todo, cur, at
      <4> QED BY <1>r, <3>0, <3>4 DEF GateRecord
    <3>3. gate' = [gate EXCEPT ![g] = r]
      BY <1>g, <3>1
    <3> QED
      BY <1>4, <1>g, <3>2, <3>3, OneGate DEF SweepAnswer
  <2>2. CASE gate' = [gate EXCEPT ![g].at = "post"]
    <3> DEFINE r == [gate[g] EXCEPT !.at = "post"]
    <3>0. gate[g].name \in Names
      BY <1>4, <1>g, <1>t DEF GateRecord, Named, SweepAnswer
    <3>2. r \in GateRecord /\ r.name \in Names
      BY <1>g, <3>0 DEF GateRecord, Steps
    <3>3. gate' = [gate EXCEPT ![g] = r]
      BY <1>g, <2>2
    <3> QED
      BY <1>4, <1>g, <3>2, <3>3, OneGate DEF SweepAnswer
  <2> QED
    BY <1>4, <2>1, <2>2 DEF SweepAnswer
<1>5. ASSUME NEW g \in Gates, Post(g) PROVE IType'
    BY <1>5, <1>t DEF Post, IType, TypeOK, Named, Times, Steps, Ask
<1>6. ASSUME NEW g \in Gates, ReadBack(g) PROVE IType'
  <2> DEFINE a == asks[gate[g].name]
             expected == IF a = None THEN None ELSE a.nonce
             asked == IF a = None THEN None ELSE a.mtime
             r == [gate[g] EXCEPT !.at = "wait", !.expected = expected, !.asked = asked]
  <2>1. gate[g].name \in Names /\ a \in Ask \cup {None}
    BY <1>6, <1>g, <1>t DEF ReadBack, Named
  <2>0. expected \in Gates \cup {None} /\ asked \in Times \cup {None} /\ "wait" \in Steps
    BY <2>1 DEF Ask, Steps
  <2>2. r \in GateRecord /\ r.name \in Names
    <3> HIDE DEF expected, asked
    <3> QED BY <1>r, <2>0, <2>1 DEF GateRecord
  <2>3. gate' = [gate EXCEPT ![g] = r]
    BY <1>6, <1>g DEF ReadBack
  <2>4. answers' \in [Names -> Answer \cup {None}] /\ UNCHANGED <<asks, operator, now>>
    BY <1>6, <1>g DEF ReadBack
  <2> HIDE DEF r
  <2> QED
    BY <2>2, <2>3, <2>4, OneGate
<1>7. ASSUME NEW g \in Gates, TakeAnswer(g) PROVE IType'
  <2> DEFINE a == answers[gate[g].name]
             verdict == IF Valid(g, a) THEN a ELSE None
             r == [gate[g] EXCEPT !.at = "consumeAsk", !.verdict = verdict]
  <2>1. gate[g].name \in Names /\ a \in Answer \cup {None}
    BY <1>7, <1>g, <1>t DEF TakeAnswer, Named
  <2>0. verdict \in Answer \cup {None} /\ "consumeAsk" \in Steps
    BY <2>1 DEF Steps
  <2>2. r \in GateRecord /\ r.name \in Names
    <3> HIDE DEF verdict
    <3> QED BY <1>r, <2>0, <2>1 DEF GateRecord
  <2>3. gate' = [gate EXCEPT ![g] = r]
    BY <1>7, <1>g DEF TakeAnswer
  <2> QED
    BY <1>7, <1>g, <2>2, <2>3, OneGate DEF TakeAnswer
<1>8. ASSUME NEW g \in Gates, GiveUp(g) PROVE IType'
    BY <1>8, <1>t DEF GiveUp, IType, TypeOK, Named, Steps
<1>9. ASSUME NEW g \in Gates, ConsumeAsk(g) PROVE IType'
    BY <1>9, <1>t DEF ConsumeAsk, IType, TypeOK, Named, Steps
<1>10. ASSUME NEW g \in Gates, ConsumeAnswer(g) PROVE IType'
  <2>1. Ending(g, "done") \in GateRecord /\ Ending(g, "done").name \in Names
    BY <1>10, <1>g, <1>s, <1>t DEF ConsumeAnswer, Ending, Named, GateRecord, Rest, Steps
  <2>2. answers' \in [Names -> Answer \cup {None}]
    BY <1>10, <1>g DEF ConsumeAnswer
  <2> QED
    BY <1>10, <2>1, <2>2, OneGate DEF ConsumeAnswer
<1>11. ASSUME NEW g \in Gates, Killed(g) PROVE IType'
  <2>1. Ending(g, "dead") \in GateRecord /\ Ending(g, "dead").name \in Names
    BY <1>11, <1>g, <1>s, <1>t DEF Killed, Waits, Ending, Named, GateRecord, Rest, Steps
  <2> QED
    BY <1>11, <1>g, <2>1, OneGate DEF Killed
<1>12. ASSUME NEW o \in Operators, Show(o) PROVE IType'
    BY <1>12, <1>t DEF Show, Present, IType, TypeOK, Named, Ask
<1>13. ASSUME NEW o \in Operators, ReadAsk(o) PROVE IType'
  <2>0. operator \in [Operators -> OperatorRecord] /\ Off \in OperatorRecord
    BY <1>t DEF TypeOK, OperatorRecord, Off
  <2>1. CASE operator' = [operator EXCEPT ![o] = Off]
    BY <1>13, <1>t, <2>1 DEF ReadAsk, Off, IType, TypeOK, Named
  <2>2. CASE asks[operator[o].name] # None /\ \E allow \in BOOLEAN :
                operator' = [operator EXCEPT ![o].at = "write", ![o].nonce = asks[operator[o].name].nonce,
                                             ![o].allow = allow]
    <3>1. operator[o].name \in Names
      BY <1>13, <1>t DEF ReadAsk, Named
    <3>2. asks[operator[o].name].nonce \in Gates
      BY <1>g, <2>2, <3>1 DEF Ask
    <3>3. PICK allow \in BOOLEAN :
                operator' = [operator EXCEPT ![o].at = "write", ![o].nonce = asks[operator[o].name].nonce,
                                             ![o].allow = allow]
      BY <2>2
    <3> DEFINE nonce == asks[operator[o].name].nonce
               r == [operator[o] EXCEPT !.at = "write", !.nonce = nonce, !.allow = allow]
    <3>4. operator' = [operator EXCEPT ![o] = r]
      BY <2>0, <3>3
    <3>5. r \in OperatorRecord /\ r.name \in Names /\ r.nonce \in Gates
      <4> HIDE DEF nonce
      <4> QED BY <2>0, <3>1, <3>2 DEF OperatorRecord, nonce
    <3> HIDE DEF r
    <3> QED
      BY <1>13, <1>t, <2>0, <3>4, <3>5 DEF ReadAsk, IType, TypeOK, Named, OperatorRecord
  <2> QED
    BY <1>13, <2>1, <2>2 DEF ReadAsk
<1>14. ASSUME NEW o \in Operators, WriteAnswer(o) PROVE IType'
    BY <1>14, <1>t DEF WriteAnswer, Off, IType, TypeOK, Named, Answer
<1>15. ASSUME NEW o \in Operators, Again(o) PROVE IType'
    BY <1>15, <1>t DEF Again, Off, IType, TypeOK, Named
<1>16. ASSUME Tick PROVE IType'
    BY <1>16, <1>t, AskAssumption DEF Tick, IType, TypeOK, Named, Times
<1>17. ASSUME UNCHANGED vars PROVE IType'
    BY <1>17, <1>t DEF vars, IType, TypeOK, Named
<1> QED
    BY <1>1, <1>2, <1>3, <1>4, <1>5, <1>6, <1>7, <1>8, <1>9, <1>10, <1>11, <1>12, <1>13, <1>14,
       <1>15, <1>16, <1>17 DEF Next, GateStep, OperatorStep

\* The files, the gates and the operators keep their types (gate/ask.rs, server/ask.rs).
THEOREM AskTypes == Spec => []TypeOK
<1>1. IType => TypeOK
    BY DEF IType
<1> QED
    BY <1>1, InitType, NextType, PTL DEF Spec

-----------------------------------------------------------------------------
(* What the steps with several assignments change of what matters below.   *)

\* The step of g leaves the other gates, and what its own gate knows of its answer.
OnlyStep(g) ==
    /\ \A h \in Gates : h # g => gate'[h] = gate[h]
    /\ gate'[g].expected = gate[g].expected /\ gate'[g].verdict = gate[g].verdict

LEMMA Begun ==
    ASSUME IType, NEW g \in Gates, Begin(g)
    PROVE  /\ gate'[g].at = "sweepAsks" /\ OnlyStep(g)
           /\ Shared \/ \A h \in Gates : Waits(h) => gate[h].name # gate'[g].name
<1>1. PICK n \in Names :
          /\ Shared \/ \A h \in Gates : Waits(h) => gate[h].name # n
          /\ gate' = [gate EXCEPT ![g].at = "sweepAsks", ![g].name = n, ![g].deadline = now + Timeout,
                                  ![g].swept = now, ![g].todo = Present(asks)]
    BY DEF Begin
<1> DEFINE deadline == now + Timeout
           todo == Present(asks)
           r == [gate[g] EXCEPT !.at = "sweepAsks", !.name = n, !.deadline = deadline, !.swept = now,
                                !.todo = todo]
<1>t. gate \in [Gates -> GateRecord]
    BY DEF IType, TypeOK, GateRecord
<1>2. gate'[g] = r /\ \A h \in Gates : h # g => gate'[h] = gate[h]
    BY <1>t, <1>1
<1>3. gate[g] \in GateRecord
    BY <1>t
<1>4. r.at = "sweepAsks" /\ r.name = n /\ r.expected = gate[g].expected /\ r.verdict = gate[g].verdict
  <2> HIDE DEF deadline, todo
  <2> QED BY <1>3 DEF GateRecord
<1> QED
    BY <1>1, <1>2, <1>4 DEF OnlyStep

LEMMA Swept ==
    ASSUME IType, NEW g \in Gates, SweepAsk(g) \/ SweepAnswer(g)
    PROVE  /\ gate'[g].at \in {"sweepAsks", "dropAsk", "sweepAnswers", "dropOrphan", "post"}
           /\ gate'[g].name = gate[g].name /\ OnlyStep(g)
<1>t. gate \in [Gates -> GateRecord] /\ gate[g] \in GateRecord
    BY DEF IType, TypeOK, GateRecord
<1>1. ASSUME NEW todo, NEW cur, NEW at \in {"sweepAsks", "dropAsk", "sweepAnswers", "dropOrphan"},
             gate' = [gate EXCEPT ![g].todo = todo, ![g].cur = cur, ![g].at = at]
      PROVE  gate'[g].at = at /\ gate'[g].name = gate[g].name /\ OnlyStep(g)
  <2> DEFINE r == [gate[g] EXCEPT !.todo = todo, !.cur = cur, !.at = at]
  <2>1. r.at = at /\ r.name = gate[g].name /\ r.expected = gate[g].expected /\ r.verdict = gate[g].verdict
    BY <1>t DEF GateRecord
  <2>2. gate'[g] = r /\ \A h \in Gates : h # g => gate'[h] = gate[h]
    BY <1>t, <1>1
  <2> QED
    BY <2>1, <2>2 DEF OnlyStep
<1>2. ASSUME NEW todo, gate' = [gate EXCEPT ![g].at = "sweepAnswers", ![g].todo = todo]
      PROVE  gate'[g].at = "sweepAnswers" /\ gate'[g].name = gate[g].name /\ OnlyStep(g)
  <2> DEFINE r == [gate[g] EXCEPT !.at = "sweepAnswers", !.todo = todo]
  <2>1. /\ r.at = "sweepAnswers" /\ r.name = gate[g].name
        /\ r.expected = gate[g].expected /\ r.verdict = gate[g].verdict
    BY <1>t DEF GateRecord
  <2>2. gate'[g] = r /\ \A h \in Gates : h # g => gate'[h] = gate[h]
    BY <1>t, <1>2
  <2> QED
    BY <2>1, <2>2 DEF OnlyStep
<1>3. CASE \E n \in gate[g].todo :
              gate' = [gate EXCEPT ![g].todo = @ \ {n}, ![g].cur = IF Expired(g, n) THEN n ELSE None,
                                   ![g].at = IF Expired(g, n) THEN "dropAsk" ELSE "sweepAsks"]
  <2>1. PICK n \in gate[g].todo :
              gate' = [gate EXCEPT ![g].todo = @ \ {n}, ![g].cur = IF Expired(g, n) THEN n ELSE None,
                                   ![g].at = IF Expired(g, n) THEN "dropAsk" ELSE "sweepAsks"]
    BY <1>3
  <2> QED
    BY <1>1, <2>1
<1>4. CASE \E n \in gate[g].todo :
              gate' = [gate EXCEPT ![g].todo = @ \ {n}, ![g].cur = IF Orphan(g, n) THEN n ELSE None,
                                   ![g].at = IF Orphan(g, n) THEN "dropOrphan" ELSE "sweepAnswers"]
  <2>1. PICK n \in gate[g].todo :
              gate' = [gate EXCEPT ![g].todo = @ \ {n}, ![g].cur = IF Orphan(g, n) THEN n ELSE None,
                                   ![g].at = IF Orphan(g, n) THEN "dropOrphan" ELSE "sweepAnswers"]
    BY <1>4
  <2> QED
    BY <1>1, <2>1
<1>5. CASE gate' = [gate EXCEPT ![g].at = "sweepAnswers", ![g].todo = Present(answers)]
    BY <1>2, <1>5
<1>6. CASE gate' = [gate EXCEPT ![g].at = "post"]
    BY <1>t, <1>6 DEF GateRecord, OnlyStep
<1> QED
    BY <1>3, <1>4, <1>5, <1>6 DEF SweepAsk, SweepAnswer

-----------------------------------------------------------------------------
(* An ask is gone once its gate has answered its call.                     *)

\* An ask lies under the name of the gate that posted it, which has not yet retired it.
Placed ==
    \A g \in Gates, n \in Names : asks[n] # None /\ asks[n].nonce = g =>
        gate[g].name = n /\ gate[g].at \in {"read", "wait", "consumeAsk", "dead"}

LEMMA InitPlaced == Init => Placed
BY DEF Init, Placed

LEMMA NextPlaced == IType /\ Placed /\ [Next]_vars => Placed'
<1> SUFFICES ASSUME IType, Placed, [Next]_vars PROVE Placed'
    OBVIOUS
<1>t. /\ asks \in [Names -> Ask \cup {None}]
      /\ gate \in [Gates -> GateRecord]
      /\ \A g \in Gates : gate[g].at # "idle" => gate[g].name \in Names
    BY DEF IType, TypeOK, Named, GateRecord
<1> USE <1>t DEF Placed
<1>1. ASSUME NEW g \in Gates, Begin(g) PROVE Placed'
  <2>1. gate[g].at = "idle" /\ asks' = asks /\ OnlyStep(g)
    BY <1>1, Begun DEF Begin
  <2> QED
    BY <2>1 DEF OnlyStep
<1>2. ASSUME NEW g \in Gates, SweepAsk(g) \/ SweepAnswer(g) PROVE Placed'
  <2>1. gate[g].at \in {"sweepAsks", "sweepAnswers"} /\ asks' = asks /\ OnlyStep(g)
    BY <1>2, Swept DEF SweepAsk, SweepAnswer
  <2> QED
    BY <2>1 DEF OnlyStep
<1>3. ASSUME NEW g \in Gates, SweepDropAsk(g) PROVE Placed'
    BY <1>3 DEF SweepDropAsk, GateRecord
<1>4. ASSUME NEW g \in Gates, SweepDropAnswer(g) \/ DropOrphan(g) PROVE Placed'
    BY <1>4 DEF SweepDropAnswer, DropOrphan, GateRecord
<1>5. ASSUME NEW g \in Gates, Post(g) PROVE Placed'
    BY <1>5 DEF Post, GateRecord
<1>6. ASSUME NEW g \in Gates, ReadBack(g) \/ TakeAnswer(g) \/ GiveUp(g) PROVE Placed'
    BY <1>6 DEF ReadBack, TakeAnswer, GiveUp, GateRecord
<1>7. ASSUME NEW g \in Gates, ConsumeAsk(g) PROVE Placed'
    BY <1>7 DEF ConsumeAsk, GateRecord
<1>8. ASSUME NEW g \in Gates, ConsumeAnswer(g) PROVE Placed'
    BY <1>8 DEF ConsumeAnswer
<1>9. ASSUME NEW g \in Gates, Killed(g) PROVE Placed'
  <2>1. Ending(g, "dead").at = "dead" /\ Ending(g, "dead").name = gate[g].name
    BY DEF Ending, Rest
  <2> QED
    BY <1>9, <2>1 DEF Killed, Waits
<1>10. ASSUME UNCHANGED <<asks, gate>> PROVE Placed'
    BY <1>10
<1> QED
    BY <1>1, <1>2, <1>3, <1>4, <1>5, <1>6, <1>7, <1>8, <1>9, <1>10
    DEF Next, GateStep, OperatorStep, Show, ReadAsk, WriteAnswer, Again, Tick, vars

\* A gate that has answered its call has left no ask of its own (consume, at the end of wait_answer),
\* also when gates share a name or are killed.
THEOREM AskIsRetired == Spec => []AskRetired
<1>1. Placed => AskRetired
    BY DEF Placed, AskRetired
<1> QED
    BY <1>1, InitType, NextType, InitPlaced, NextPlaced, PTL DEF Spec

-----------------------------------------------------------------------------
(* A gate takes the answer to its own ask, as long as no name is shared.   *)

\* No two gates wait under one name.
Apart ==
    \A g, h \in Gates : Waits(g) /\ Waits(h) /\ gate[g].name = gate[h].name => g = h

\* While a gate reads its ask back and waits, no ask but its own lies under its name; so the nonce it
\* expects, and the nonce of the answer it takes, is its own.
Mine ==
    \A g \in Gates :
        /\ gate[g].at \in {"read", "wait"} /\ asks[gate[g].name] # None => asks[gate[g].name].nonce = g
        /\ gate[g].expected \in {None, g}
        /\ gate[g].verdict # None => gate[g].verdict.nonce = g

Own == Apart /\ Mine

LEMMA InitOwn == Init => Own
BY DEF Init, Own, Apart, Mine, Waits, Rest

LEMMA NextOwn ==
    ASSUME ~Shared
    PROVE  IType /\ Own /\ [Next]_vars => Own'
<1> SUFFICES ASSUME IType, Own, [Next]_vars PROVE Own'
    OBVIOUS
<1>t. /\ asks \in [Names -> Ask \cup {None}]
      /\ gate \in [Gates -> GateRecord]
      /\ \A g \in Gates : gate[g].at # "idle" => gate[g].name \in Names
    BY DEF IType, TypeOK, Named, GateRecord
<1>o. Apart /\ Mine
    BY DEF Own
<1>1. ASSUME NEW g \in Gates, Begin(g) PROVE Own'
  <2>1. /\ ~Waits(g) /\ gate'[g].at = "sweepAsks" /\ OnlyStep(g) /\ asks' = asks
        /\ \A h \in Gates : Waits(h) => gate[h].name # gate'[g].name
    BY <1>1, Begun DEF Begin, Waits
  <2>2. Apart'
    BY <1>o, <2>1 DEF Apart, Waits, OnlyStep
  <2>3. Mine'
    BY <1>o, <2>1 DEF Mine, OnlyStep
  <2> QED
    BY <2>2, <2>3 DEF Own
<1>2. ASSUME NEW g \in Gates, SweepAsk(g) \/ SweepAnswer(g) PROVE Own'
  <2>1. /\ Waits(g) /\ gate'[g].at \in {"sweepAsks", "dropAsk", "sweepAnswers", "dropOrphan", "post"}
        /\ gate'[g].name = gate[g].name /\ OnlyStep(g) /\ asks' = asks
    BY <1>2, Swept DEF SweepAsk, SweepAnswer, Waits
  <2> QED
    BY <1>o, <2>1 DEF Own, Apart, Mine, Waits, OnlyStep
<1>3. ASSUME NEW g \in Gates, SweepDropAsk(g) PROVE Own'
  <2>1. /\ Waits(g) /\ gate'[g].at = "dropAnswer" /\ gate'[g].name = gate[g].name
        /\ gate'[g].expected = gate[g].expected /\ gate'[g].verdict = gate[g].verdict
        /\ \A h \in Gates : h # g => gate'[h] = gate[h]
        /\ \A n \in Names : asks'[n] # None => asks'[n] = asks[n]
    BY <1>3, <1>t DEF SweepDropAsk, Waits, GateRecord
  <2> QED
    BY <1>o, <1>t, <2>1 DEF Own, Apart, Mine, Waits
<1>4. ASSUME NEW g \in Gates, SweepDropAnswer(g) \/ DropOrphan(g) PROVE Own'
  <2>1. /\ Waits(g) /\ gate'[g].at \in {"sweepAsks", "sweepAnswers"} /\ gate'[g].name = gate[g].name
        /\ gate'[g].expected = gate[g].expected /\ gate'[g].verdict = gate[g].verdict
        /\ \A h \in Gates : h # g => gate'[h] = gate[h]
        /\ asks' = asks
    BY <1>4, <1>t DEF SweepDropAnswer, DropOrphan, Waits, GateRecord
  <2> QED
    BY <1>o, <2>1 DEF Own, Apart, Mine, Waits
<1>5. ASSUME NEW g \in Gates, Post(g) PROVE Own'
  <2>1. /\ Waits(g) /\ gate'[g].at = "read" /\ gate'[g].name = gate[g].name
        /\ gate'[g].expected = gate[g].expected /\ gate'[g].verdict = gate[g].verdict
        /\ \A h \in Gates : h # g => gate'[h] = gate[h]
        /\ gate[g].name \in Names /\ asks'[gate[g].name].nonce = g
        /\ \A n \in Names : n # gate[g].name => asks'[n] = asks[n]
    BY <1>5, <1>t DEF Post, Waits, GateRecord
  <2> QED
    BY <1>o, <1>t, <2>1 DEF Own, Apart, Mine, Waits
<1>6. ASSUME NEW g \in Gates, ReadBack(g) PROVE Own'
  <2>1. /\ gate[g].at = "read" /\ gate'[g].at = "wait" /\ gate'[g].name = gate[g].name
        /\ gate'[g].expected = IF asks[gate[g].name] = None THEN None ELSE asks[gate[g].name].nonce
        /\ gate'[g].verdict = gate[g].verdict
        /\ \A h \in Gates : h # g => gate'[h] = gate[h]
        /\ asks' = asks
    BY <1>6, <1>t DEF ReadBack, GateRecord
  <2> QED
    BY <1>o, <2>1 DEF Own, Apart, Mine, Waits
<1>7. ASSUME NEW g \in Gates, TakeAnswer(g) PROVE Own'
  <2>1. /\ gate[g].at = "wait" /\ gate'[g].at = "consumeAsk" /\ gate'[g].name = gate[g].name
        /\ gate'[g].expected = gate[g].expected
        /\ gate'[g].verdict # None => gate'[g].verdict.nonce = gate[g].expected /\ gate[g].expected # None
        /\ \A h \in Gates : h # g => gate'[h] = gate[h]
        /\ asks' = asks
    BY <1>7, <1>t DEF TakeAnswer, Valid, GateRecord
  <2> QED
    BY <1>o, <2>1 DEF Own, Apart, Mine, Waits
<1>8. ASSUME NEW g \in Gates, GiveUp(g) PROVE Own'
  <2>1. /\ gate[g].at = "wait" /\ gate'[g].at = "consumeAsk" /\ gate'[g].name = gate[g].name
        /\ gate'[g].expected = gate[g].expected /\ gate'[g].verdict = gate[g].verdict
        /\ \A h \in Gates : h # g => gate'[h] = gate[h]
        /\ asks' = asks
    BY <1>8, <1>t DEF GiveUp, GateRecord
  <2> QED
    BY <1>o, <2>1 DEF Own, Apart, Mine, Waits
<1>9. ASSUME NEW g \in Gates, ConsumeAsk(g) PROVE Own'
  <2>1. /\ gate[g].at = "consumeAsk" /\ gate'[g].at = "consumeAnswer" /\ gate'[g].name = gate[g].name
        /\ gate'[g].expected = gate[g].expected /\ gate'[g].verdict = gate[g].verdict
        /\ \A h \in Gates : h # g => gate'[h] = gate[h]
        /\ \A n \in Names : asks'[n] # None => asks'[n] = asks[n]
    BY <1>9, <1>t DEF ConsumeAsk, GateRecord
  <2> QED
    BY <1>o, <1>t, <2>1 DEF Own, Apart, Mine, Waits
<1>10. ASSUME NEW g \in Gates, ConsumeAnswer(g) \/ Killed(g) PROVE Own'
  <2>1. PICK how \in {"done", "dead"} : gate' = [gate EXCEPT ![g] = Ending(g, how)]
    BY <1>10 DEF ConsumeAnswer, Killed
  <2>2. /\ gate'[g].at \in {"done", "dead"} /\ gate'[g].expected = None
        /\ gate'[g].verdict = gate[g].verdict
        /\ \A h \in Gates : h # g => gate'[h] = gate[h]
        /\ asks' = asks
    BY <1>10, <1>t, <2>1 DEF ConsumeAnswer, Killed, Ending, Rest
  <2> QED
    BY <1>o, <2>2 DEF Own, Apart, Mine, Waits
<1>11. ASSUME UNCHANGED <<asks, gate>> PROVE Own'
    BY <1>11, <1>o DEF Own, Apart, Mine, Waits
<1> QED
    BY <1>1, <1>2, <1>3, <1>4, <1>5, <1>6, <1>7, <1>8, <1>9, <1>10, <1>11
    DEF Next, GateStep, OperatorStep, Show, ReadAsk, WriteAnswer, Again, Tick, vars

\* "Only an answer that echoes this ask's nonce" (ask.rs): it holds of gates that do not wait under one
\* name at once, however many gates use the name one after the other and whatever they leave there.
THEOREM AnswerIsOwn ==
    ASSUME ~Shared
    PROVE  Spec => []OwnAnswer
<1>1. Own => OwnAnswer
    BY DEF Own, Mine, OwnAnswer
<1>2. IType /\ Own /\ [Next]_vars => Own'
    BY NextOwn
<1> QED
    BY <1>1, <1>2, InitType, NextType, InitOwn, PTL DEF Spec

-----------------------------------------------------------------------------
(* A permanent call is allowed only by an operator who typed the name.     *)

Permitted(nonce, allow, confirm) == nonce \in Permanent /\ allow => confirm

\* An ask says whether its call is permanent, and the rule holds of what an operator is about to write,
\* of every answer written, and of every answer taken.
Confirmed ==
    /\ \A n \in Names : asks[n] # None => (asks[n].permanent <=> asks[n].nonce \in Permanent)
    /\ \A o \in Operators : operator[o].at = "write" =>
          Permitted(operator[o].nonce, operator[o].allow, operator[o].shown)
    /\ \A n \in Names : answers[n] # None =>
          Permitted(answers[n].nonce, answers[n].allow, answers[n].confirm)
    /\ \A g \in Gates : gate[g].verdict # None =>
          Permitted(gate[g].verdict.nonce, gate[g].verdict.allow, gate[g].verdict.confirm)

LEMMA InitConfirmed == Init => Confirmed
BY DEF Init, Confirmed, Rest, Off

LEMMA NextConfirmed == IType /\ Confirmed /\ [Next]_vars => Confirmed'
<1> SUFFICES ASSUME IType, Confirmed, [Next]_vars PROVE Confirmed'
    OBVIOUS
<1>t. /\ asks \in [Names -> Ask \cup {None}] /\ answers \in [Names -> Answer \cup {None}]
      /\ gate \in [Gates -> GateRecord] /\ operator \in [Operators -> OperatorRecord]
    BY DEF IType, TypeOK, Named, GateRecord, OperatorRecord
<1>n. /\ \A g \in Gates : gate[g].at # "idle" => gate[g].name \in Names
      /\ \A o \in Operators : operator[o].at # "idle" => operator[o].name \in Names
    BY DEF IType, Named
<1> USE DEF Confirmed
<1>1. ASSUME NEW g \in Gates, Begin(g) \/ SweepAsk(g) \/ SweepAnswer(g) PROVE Confirmed'
  <2>1. UNCHANGED <<asks, answers, operator>> /\ OnlyStep(g)
    BY <1>1, Begun, Swept DEF Begin, SweepAsk, SweepAnswer
  <2> QED
    BY <2>1 DEF OnlyStep
<1>9. ASSUME NEW g \in Gates, ReadBack(g) \/ GiveUp(g) PROVE Confirmed'
  <2>1. UNCHANGED <<asks, answers, operator>> /\ \A h \in Gates : gate'[h].verdict = gate[h].verdict
    BY <1>9, <1>t DEF ReadBack, GiveUp, GateRecord
  <2> QED
    BY <2>1
<1>10. ASSUME NEW g \in Gates, Killed(g) \/ ConsumeAnswer(g) PROVE Confirmed'
  <2>1. PICK how \in {"done", "dead"} : gate' = [gate EXCEPT ![g] = Ending(g, how)]
    BY <1>10 DEF ConsumeAnswer, Killed
  <2>2. Ending(g, how).verdict = gate[g].verdict
    BY DEF Ending, Rest
  <2>3. \A h \in Gates : gate'[h].verdict = gate[h].verdict
    BY <1>t, <2>1, <2>2
  <2>4. /\ UNCHANGED <<asks, operator>>
        /\ \A n \in Names : answers'[n] # None => answers'[n] = answers[n]
    BY <1>10, <1>t DEF Killed, ConsumeAnswer
  <2> QED
    BY <2>3, <2>4
<1>2. ASSUME NEW g \in Gates,
             SweepDropAsk(g) \/ SweepDropAnswer(g) \/ DropOrphan(g) \/ ConsumeAsk(g)
      PROVE  Confirmed'
  <2>1. /\ operator' = operator
        /\ \A n \in Names : asks'[n] # None => asks'[n] = asks[n]
        /\ \A n \in Names : answers'[n] # None => answers'[n] = answers[n]
    BY <1>2, <1>t DEF SweepDropAsk, SweepDropAnswer, DropOrphan, ConsumeAsk
  <2>2. \A h \in Gates : gate'[h].verdict = gate[h].verdict
    BY <1>2, <1>t DEF SweepDropAsk, SweepDropAnswer, DropOrphan, ConsumeAsk, GateRecord
  <2> QED
    BY <2>1, <2>2
<1>3. ASSUME NEW g \in Gates, Post(g) PROVE Confirmed'
  <2>1. /\ UNCHANGED <<answers, operator>> /\ \A h \in Gates : gate'[h].verdict = gate[h].verdict
        /\ \A n \in Names : \/ asks'[n] = asks[n]
                            \/ asks'[n].nonce = g /\ asks'[n].permanent = (g \in Permanent)
    BY <1>3, <1>t DEF Post, GateRecord
  <2> QED
    BY <2>1
<1>4. ASSUME NEW g \in Gates, TakeAnswer(g) PROVE Confirmed'
  <2>1. /\ UNCHANGED <<asks, answers, operator>>
        /\ gate'[g].verdict # None =>
              gate'[g].verdict = answers[gate[g].name] /\ answers[gate[g].name] # None
        /\ \A h \in Gates : h # g => gate'[h] = gate[h]
    BY <1>4, <1>t DEF TakeAnswer, GateRecord
  <2>2. gate[g].name \in Names
    BY <1>4, <1>n DEF TakeAnswer
  <2> QED
    BY <2>1, <2>2
<1>5. ASSUME NEW o \in Operators, Show(o) \/ Again(o) PROVE Confirmed'
  <2>1. /\ UNCHANGED <<asks, answers, gate>>
        /\ operator'[o].at # "write" /\ \A p \in Operators : p # o => operator'[p] = operator[p]
    BY <1>5, <1>t DEF Show, Again, Off
  <2> QED
    BY <2>1
<1>6. ASSUME NEW o \in Operators, ReadAsk(o) PROVE Confirmed'
  <2> DEFINE a == asks[operator[o].name]
  <2>1. operator[o].name \in Names /\ UNCHANGED <<asks, answers, gate>>
    BY <1>6, <1>n DEF ReadAsk
  <2>2. CASE operator' = [operator EXCEPT ![o] = Off]
    BY <1>t, <2>1, <2>2 DEF Off
  <2>3. CASE a # None /\ \E allow \in BOOLEAN :
                /\ ~(allow /\ ~CheckAllow(operator[o].shown, a))
                /\ operator' = [operator EXCEPT ![o].at = "write", ![o].nonce = a.nonce, ![o].allow = allow]
    <3>1. PICK allow \in BOOLEAN :
                /\ ~(allow /\ ~CheckAllow(operator[o].shown, a))
                /\ operator' = [operator EXCEPT ![o].at = "write", ![o].nonce = a.nonce, ![o].allow = allow]
      BY <2>3
    <3>2. /\ operator'[o].nonce = a.nonce /\ operator'[o].allow = allow
          /\ operator'[o].shown = operator[o].shown
          /\ \A p \in Operators : p # o => operator'[p] = operator[p]
      BY <1>t, <3>1 DEF OperatorRecord
    <3>3. Permitted(a.nonce, allow, operator[o].shown)
      BY <2>1, <2>3, <3>1 DEF CheckAllow, Permitted
    <3> QED
      BY <2>1, <3>2, <3>3
  <2> QED
    BY <1>6, <2>2, <2>3 DEF ReadAsk
<1>7. ASSUME NEW o \in Operators, WriteAnswer(o) PROVE Confirmed'
  <2>1. /\ operator[o].at = "write" /\ operator[o].name \in Names
        /\ UNCHANGED <<asks, gate>> /\ operator'[o].at = "wrote"
        /\ \A p \in Operators : p # o => operator'[p] = operator[p]
        /\ \A n \in Names : n # operator[o].name => answers'[n] = answers[n]
        /\ answers'[operator[o].name] = [nonce |-> operator[o].nonce, allow |-> operator[o].allow,
                                         confirm |-> operator[o].shown, mtime |-> now]
    BY <1>7, <1>t, <1>n DEF WriteAnswer, Off
  <2> QED
    BY <2>1
<1>8. ASSUME UNCHANGED <<asks, answers, gate, operator>> PROVE Confirmed'
    BY <1>8
<1> QED
    BY <1>1, <1>2, <1>3, <1>4, <1>5, <1>6, <1>7, <1>8, <1>9, <1>10
    DEF Next, GateStep, OperatorStep, Tick, vars

\* GR-R-15: a permanent call is allowed only when the operator typed the name, also when its ask took the
\* place of an undoable one between the look and the answer; again while no two gates share a name.
THEOREM PermanentIsConfirmed ==
    ASSUME ~Shared
    PROVE  Spec => []PermanentConfirmed
<1>1. Own /\ Confirmed => PermanentConfirmed
    BY AskAssumption DEF Own, Mine, Confirmed, Permitted, PermanentConfirmed
<1>2. IType /\ Own /\ [Next]_vars => Own'
    BY NextOwn
<1> QED
    BY <1>1, <1>2, InitType, NextType, InitOwn, InitConfirmed, NextConfirmed, PTL DEF Spec
-----------------------------------------------------------------------------
(* An ask stays until its deadline, and the answer written to it until the *)
(* gate takes it.  Names may be shared here: what is said is said of the   *)
(* gates whose name no other gate has used.                                *)

\* Nothing lies under the name, no sweep has listed it, no operator was shown it.
Clear(n) ==
    /\ asks[n] = None /\ answers[n] = None
    /\ \A h \in Gates : n \notin gate[h].todo /\ gate[h].cur # n
    /\ \A o \in Operators : operator[o].name # n

BeforePost == {"sweepAsks", "dropAsk", "dropAnswer", "sweepAnswers", "dropOrphan", "post"}

InTime(g) == gate[g].at \in {"read", "wait"} /\ now < gate[g].deadline /\ Fresh(g)

\* A name no gate has, and the name of a gate that has yet to post, is clear.
Unused ==
    /\ \A n \in Names : (\A g \in Gates : gate[g].name # n) => Clear(n)
    /\ \A g \in Gates : gate[g].at \in BeforePost /\ Fresh(g) => Clear(gate[g].name)

\* The ask of a gate in time is there with its deadline, and no sweep is about to remove what lies there.
AskKept ==
    \A g \in Gates : InTime(g) =>
        /\ asks[gate[g].name] # None /\ asks[gate[g].name].nonce = g
        /\ asks[gate[g].name].deadline = gate[g].deadline
        /\ \A h \in Gates : gate[h].cur # gate[g].name

\* An operator who has a nonce has it from an ask under the name the operator was shown.
Aimed ==
    \A o \in Operators, g \in Gates : operator[o].nonce = g =>
        gate[g].at \notin BeforePost \cup {"idle"} /\ operator[o].name = gate[g].name

AnswerKept ==
    \A o \in Operators, g \in Gates :
        operator[o].at = "wrote" /\ operator[o].nonce = g /\ InTime(g) => answers[gate[g].name] # None

Begins ==
    /\ \A g \in Gates : gate[g].at = "idle" => gate[g].name = None
    /\ \A g \in Gates : gate[g].swept <= now

Stays == Unused /\ AskKept /\ Aimed /\ AnswerKept /\ Begins

LEMMA InitStays == Init => Stays
<1> SUFFICES ASSUME Init PROVE Stays
    OBVIOUS
<1>1. /\ \A g \in Gates : gate[g] = Rest
      /\ \A o \in Operators : operator[o] = Off
      /\ \A n \in Names : asks[n] = None /\ answers[n] = None
      /\ now = 0
    BY DEF Init
<1>2. /\ Rest.at = "idle" /\ Rest.name = None /\ Rest.todo = {} /\ Rest.cur = None /\ Rest.swept = 0
      /\ Off.at = "idle" /\ Off.name = None /\ Off.nonce = None
    BY DEF Rest, Off
<1>3. None \notin Names /\ None \notin Gates
    BY AskAssumption
<1> QED
    BY <1>1, <1>2, <1>3 DEF Stays, Unused, AskKept, Aimed, AnswerKept, Begins, Clear, InTime, BeforePost

\* A step of a gate that posts nothing: it lists files that are there, picks a listed ask that it found
\* gone or expired at the start of its sweep, and removes what lies under what it picked, or under its
\* own name when it no longer waits.
Moves(g) ==
    /\ \A h \in Gates : h # g => gate'[h] = gate[h]
    /\ gate'[g].name = gate[g].name /\ gate[g].at # "idle" /\ gate'[g].at # "idle"
    /\ gate'[g].at \in BeforePost => gate[g].at \in BeforePost
    /\ gate'[g].at \in {"read", "wait"} =>
          gate[g].at \in {"read", "wait"} /\ gate'[g].deadline = gate[g].deadline
    /\ gate'[g].swept \in {0, gate[g].swept}
    /\ \A n \in gate'[g].todo : n \in gate[g].todo \/ asks[n] # None \/ answers[n] # None
    /\ \/ gate'[g].cur \in {None, gate[g].cur}
       \/ /\ gate'[g].cur \in gate[g].todo
          /\ asks[gate'[g].cur] = None \/ asks[gate'[g].cur].deadline <= gate[g].swept
    /\ \A n \in Names :
          /\ asks'[n] # asks[n] \/ answers'[n] # answers[n] =>
                n = gate[g].cur \/ (n = gate[g].name /\ gate'[g].at \notin {"read", "wait"})
          /\ asks'[n] \in {None, asks[n]} /\ answers'[n] \in {None, answers[n]}
    /\ UNCHANGED <<operator, now>>

LEMMA MovesKeep ==
    ASSUME IType, Stays, NEW g \in Gates, Moves(g)
    PROVE  Stays'
<1>t. /\ gate \in [Gates -> GateRecord] /\ now \in Nat
      /\ \A h \in Gates : gate[h].at # "idle" => gate[h].name \in Names
      /\ \A h \in Gates : gate[h].todo \subseteq Names /\ gate[h].swept \in Nat /\ gate[h].deadline \in Int
      /\ None \notin Names
    BY AskAssumption DEF IType, TypeOK, Named, GateRecord, Times
<1>s. Unused /\ AskKept /\ Aimed /\ AnswerKept /\ Begins
    BY DEF Stays
<1>m. Moves(g)
    OBVIOUS
<1>1. \A h \in Gates : gate'[h].name = gate[h].name /\ (Fresh(h)' <=> Fresh(h))
    BY <1>m DEF Moves, Fresh
<1>2. \A h \in Gates : gate'[h].at \in BeforePost => gate[h].at \in BeforePost
    BY <1>m DEF Moves
<1>3. \A h \in Gates : InTime(h)' => InTime(h) /\ gate'[h].deadline = gate[h].deadline
    BY <1>m, <1>1 DEF Moves, InTime
<1>4. \A n \in Names : Clear(n) => Clear(n)'
  <2> SUFFICES ASSUME NEW n \in Names, Clear(n) PROVE Clear(n)'
      OBVIOUS
  <2>1. asks'[n] = None /\ answers'[n] = None /\ operator' = operator
    BY <1>m DEF Moves, Clear
  <2>2. \A h \in Gates : n \notin gate'[h].todo /\ gate'[h].cur # n
    BY <1>m, <1>t DEF Moves, Clear
  <2> QED
    BY <2>1, <2>2 DEF Clear
<1>5. Unused'
  <2>1. \A n \in Names : (\A h \in Gates : gate'[h].name # n) => Clear(n)'
    BY <1>s, <1>1, <1>4 DEF Unused
  <2>2. \A h \in Gates : gate'[h].at \in BeforePost /\ Fresh(h)' => Clear(gate[h].name)'
    <3> SUFFICES ASSUME NEW h \in Gates, gate'[h].at \in BeforePost, Fresh(h)' PROVE Clear(gate[h].name)'
        OBVIOUS
    <3>1. gate[h].at \in BeforePost /\ Fresh(h) /\ gate[h].name \in Names
      BY <1>1, <1>2, <1>t DEF BeforePost
    <3> DEFINE n == gate[h].name
    <3>2. Clear(n)
      BY <1>s, <3>1 DEF Unused
    <3>3. n \in Names
      BY <3>1
    <3>4. asks'[n] = None /\ answers'[n] = None /\ operator' = operator
      BY <1>m, <3>2, <3>3 DEF Moves, Clear
    <3>5. \A k \in Gates : n \notin gate'[k].todo /\ gate'[k].cur # n
      BY <1>m, <1>t, <3>2, <3>3 DEF Moves, Clear
    <3> QED
      BY <1>1, <3>2, <3>4, <3>5 DEF Clear
  <2> QED
    BY <1>1, <2>1, <2>2 DEF Unused, Clear
<1>6. AskKept'
  <2> SUFFICES ASSUME NEW h \in Gates, InTime(h)'
               PROVE  /\ asks'[gate'[h].name] # None /\ asks'[gate'[h].name].nonce = h
                      /\ asks'[gate'[h].name].deadline = gate'[h].deadline
                      /\ \A k \in Gates : gate'[k].cur # gate'[h].name
      BY DEF AskKept
  <2> DEFINE n == gate[h].name
  <2>1. /\ InTime(h) /\ gate'[h].deadline = gate[h].deadline /\ gate'[h].name = n
        /\ gate[h].at \in {"read", "wait"} /\ n \in Names /\ now < gate[h].deadline
    BY <1>1, <1>3, <1>t DEF InTime
  <2>2. /\ asks[n] # None /\ asks[n].nonce = h /\ asks[n].deadline = gate[h].deadline
        /\ \A k \in Gates : gate[k].cur # n
    BY <1>s, <2>1 DEF AskKept
  <2>3. ~(n = gate[g].name /\ gate'[g].at \notin {"read", "wait"})
    BY <2>1, <1>m, InTime(h)' DEF InTime, Fresh
  <2>4. asks'[n] = asks[n]
    BY <1>m, <2>1, <2>2, <2>3 DEF Moves
  <2>5. \A k \in Gates : gate'[k].cur # n
    <3>1. gate[g].swept <= now /\ gate[g].swept \in Nat /\ gate[h].deadline \in Int
      BY <1>s, <1>t DEF Begins
    <3>2. ~(asks[n].deadline <= gate[g].swept)
      BY <1>t, <2>1, <2>2, <3>1
    <3>3. n # None
      BY <1>t, <2>1
    <3> QED
      BY <1>m, <2>2, <3>2, <3>3 DEF Moves
  <2> QED
    BY <2>1, <2>2, <2>4, <2>5
<1>7. Aimed'
  <2>1. \A h \in Gates : gate[h].at \notin BeforePost \cup {"idle"} => gate'[h].at \notin BeforePost \cup {"idle"}
    BY <1>m DEF Moves
  <2> QED
    BY <1>s, <1>1, <1>m, <2>1 DEF Aimed, Moves
<1>8. AnswerKept'
  <2> SUFFICES ASSUME NEW o \in Operators, NEW h \in Gates, InTime(h)',
                      operator'[o].at = "wrote", operator'[o].nonce = h
               PROVE  answers'[gate'[h].name] # None
      BY DEF AnswerKept
  <2> DEFINE n == gate[h].name
  <2>1. InTime(h) /\ gate'[h].name = n /\ gate[h].at \in {"read", "wait"} /\ n \in Names
    BY <1>1, <1>3, <1>t DEF InTime
  <2>2. answers[n] # None /\ \A k \in Gates : gate[k].cur # n
    BY <1>s, <1>m, <2>1 DEF AskKept, AnswerKept, Moves
  <2>3. ~(n = gate[g].name /\ gate'[g].at \notin {"read", "wait"})
    BY <2>1, <1>m, InTime(h)' DEF InTime, Fresh
  <2>4. answers'[n] = answers[n]
    BY <1>m, <2>1, <2>2, <2>3 DEF Moves
  <2> QED
    BY <2>1, <2>2, <2>4
<1>9. Begins'
    BY <1>s, <1>m, <1>1, <1>t DEF Begins, Moves
<1> QED
    BY <1>5, <1>6, <1>7, <1>8, <1>9 DEF Stays
LEMMA GateMoves ==
    ASSUME IType, NEW g \in Gates,
           \/ SweepAsk(g) \/ SweepDropAsk(g) \/ SweepDropAnswer(g) \/ SweepAnswer(g) \/ DropOrphan(g)
           \/ ReadBack(g) \/ TakeAnswer(g) \/ GiveUp(g) \/ ConsumeAsk(g) \/ ConsumeAnswer(g) \/ Killed(g)
    PROVE  Moves(g)
<1>t. /\ gate \in [Gates -> GateRecord] /\ gate[g] \in GateRecord
      /\ asks \in [Names -> Ask \cup {None}] /\ answers \in [Names -> Answer \cup {None}]
      /\ gate[g].at # "idle" => gate[g].name \in Names
    BY DEF IType, TypeOK, Named, GateRecord
<1>1. ASSUME NEW todo \in SUBSET gate[g].todo, NEW cur, NEW at \in BeforePost,
             gate[g].at \in BeforePost, cur = None \/ cur \in gate[g].todo,
             cur # None => asks[cur] = None \/ asks[cur].deadline <= gate[g].swept,
             gate' = [gate EXCEPT ![g].todo = todo, ![g].cur = cur, ![g].at = at],
             UNCHANGED <<asks, answers, operator, now>>
      PROVE  Moves(g)
  <2> DEFINE r == [gate[g] EXCEPT !.todo = todo, !.cur = cur, !.at = at]
  <2>1. r.at = at /\ r.name = gate[g].name /\ r.todo = todo /\ r.cur = cur /\ r.swept = gate[g].swept
    BY <1>t DEF GateRecord
  <2>2. gate'[g] = r /\ \A h \in Gates : h # g => gate'[h] = gate[h]
    BY <1>t, <1>1
  <2> HIDE DEF r
  <2> QED
    BY <1>1, <2>1, <2>2 DEF Moves, BeforePost
<1>2. ASSUME SweepAsk(g) PROVE Moves(g)
  <2>1. CASE \E n \in gate[g].todo :
                gate' = [gate EXCEPT ![g].todo = @ \ {n}, ![g].cur = IF Expired(g, n) THEN n ELSE None,
                                     ![g].at = IF Expired(g, n) THEN "dropAsk" ELSE "sweepAsks"]
    <3>1. PICK n \in gate[g].todo :
                gate' = [gate EXCEPT ![g].todo = @ \ {n}, ![g].cur = IF Expired(g, n) THEN n ELSE None,
                                     ![g].at = IF Expired(g, n) THEN "dropAsk" ELSE "sweepAsks"]
      BY <2>1
    <3> DEFINE todo == gate[g].todo \ {n}
               cur == IF Expired(g, n) THEN n ELSE None
               at == IF Expired(g, n) THEN "dropAsk" ELSE "sweepAsks"
    <3>2. /\ cur = None \/ cur \in gate[g].todo
          /\ cur # None => asks[cur] = None \/ asks[cur].deadline <= gate[g].swept
          /\ at \in BeforePost /\ gate[g].at \in BeforePost
      BY <1>2 DEF Expired, SweepAsk, BeforePost
    <3>3. UNCHANGED <<asks, answers, operator, now>> /\ todo \in SUBSET gate[g].todo
      BY <1>2 DEF SweepAsk
    <3>4. gate' = [gate EXCEPT ![g].todo = todo, ![g].cur = cur, ![g].at = at]
      BY <3>1
    <3> HIDE DEF todo, cur, at
    <3> QED
      BY <1>1, <3>2, <3>3, <3>4
  <2>2. CASE gate' = [gate EXCEPT ![g].at = "sweepAnswers", ![g].todo = Present(answers)]
    <3> DEFINE r == [gate[g] EXCEPT !.at = "sweepAnswers", !.todo = Present(answers)]
    <3>1. /\ r.at = "sweepAnswers" /\ r.name = gate[g].name /\ r.todo = Present(answers)
          /\ r.cur = gate[g].cur /\ r.swept = gate[g].swept
      BY <1>t DEF GateRecord
    <3>2. gate'[g] = r /\ \A h \in Gates : h # g => gate'[h] = gate[h]
      BY <1>t, <2>2
    <3>3. gate[g].at = "sweepAsks" /\ UNCHANGED <<asks, answers, operator, now>>
      BY <1>2 DEF SweepAsk
    <3> HIDE DEF r
    <3> QED
      BY <3>1, <3>2, <3>3 DEF Moves, BeforePost, Present
  <2> QED
    BY <1>2, <2>1, <2>2 DEF SweepAsk
<1>3. ASSUME SweepAnswer(g) PROVE Moves(g)
  <2>1. CASE \E n \in gate[g].todo :
                gate' = [gate EXCEPT ![g].todo = @ \ {n}, ![g].cur = IF Orphan(g, n) THEN n ELSE None,
                                     ![g].at = IF Orphan(g, n) THEN "dropOrphan" ELSE "sweepAnswers"]
    <3>1. PICK n \in gate[g].todo :
                gate' = [gate EXCEPT ![g].todo = @ \ {n}, ![g].cur = IF Orphan(g, n) THEN n ELSE None,
                                     ![g].at = IF Orphan(g, n) THEN "dropOrphan" ELSE "sweepAnswers"]
      BY <2>1
    <3> DEFINE todo == gate[g].todo \ {n}
               cur == IF Orphan(g, n) THEN n ELSE None
               at == IF Orphan(g, n) THEN "dropOrphan" ELSE "sweepAnswers"
    <3>2. /\ cur = None \/ cur \in gate[g].todo
          /\ cur # None => asks[cur] = None \/ asks[cur].deadline <= gate[g].swept
          /\ at \in BeforePost /\ gate[g].at \in BeforePost
      BY <1>3 DEF Orphan, SweepAnswer, BeforePost
    <3>3. UNCHANGED <<asks, answers, operator, now>> /\ todo \in SUBSET gate[g].todo
      BY <1>3 DEF SweepAnswer
    <3>4. gate' = [gate EXCEPT ![g].todo = todo, ![g].cur = cur, ![g].at = at]
      BY <3>1
    <3> HIDE DEF todo, cur, at
    <3> QED
      BY <1>1, <3>2, <3>3, <3>4
  <2>2. CASE gate' = [gate EXCEPT ![g].at = "post"]
    <3>1. /\ gate'[g].at = "post" /\ gate'[g].name = gate[g].name /\ gate'[g].todo = gate[g].todo
          /\ gate'[g].cur = gate[g].cur /\ gate'[g].swept = gate[g].swept
          /\ \A h \in Gates : h # g => gate'[h] = gate[h]
      BY <1>t, <2>2 DEF GateRecord
    <3>2. gate[g].at = "sweepAnswers" /\ UNCHANGED <<asks, answers, operator, now>>
      BY <1>3 DEF SweepAnswer
    <3> QED
      BY <3>1, <3>2 DEF Moves, BeforePost
  <2> QED
    BY <1>3, <2>1, <2>2 DEF SweepAnswer
<1>4. ASSUME SweepDropAsk(g) PROVE Moves(g)
  <2>1. /\ gate[g].at = "dropAsk" /\ gate'[g].at = "dropAnswer" /\ gate'[g].name = gate[g].name
        /\ gate'[g].todo = gate[g].todo /\ gate'[g].cur = gate[g].cur /\ gate'[g].swept = gate[g].swept
        /\ \A h \in Gates : h # g => gate'[h] = gate[h]
    BY <1>4, <1>t DEF SweepDropAsk, GateRecord
  <2>2. /\ UNCHANGED <<answers, operator, now>>
        /\ \A n \in Names : asks'[n] = IF n = gate[g].cur THEN None ELSE asks[n]
    BY <1>4, <1>t DEF SweepDropAsk
  <2> QED
    BY <2>1, <2>2 DEF Moves, BeforePost
<1>5. ASSUME SweepDropAnswer(g) \/ DropOrphan(g) PROVE Moves(g)
  <2>1. /\ gate[g].at \in {"dropAnswer", "dropOrphan"} /\ gate'[g].at \in {"sweepAsks", "sweepAnswers"}
        /\ gate'[g].name = gate[g].name
        /\ gate'[g].todo = gate[g].todo /\ gate'[g].cur = None /\ gate'[g].swept = gate[g].swept
        /\ \A h \in Gates : h # g => gate'[h] = gate[h]
    BY <1>5, <1>t DEF SweepDropAnswer, DropOrphan, GateRecord
  <2>2. /\ UNCHANGED <<asks, operator, now>>
        /\ \A n \in Names : answers'[n] = IF n = gate[g].cur THEN None ELSE answers[n]
    BY <1>5, <1>t DEF SweepDropAnswer, DropOrphan
  <2> QED
    BY <2>1, <2>2 DEF Moves, BeforePost
<1>6. ASSUME ReadBack(g) PROVE Moves(g)
  <2> DEFINE expected == IF asks[gate[g].name] = None THEN None ELSE asks[gate[g].name].nonce
             asked == IF asks[gate[g].name] = None THEN None ELSE asks[gate[g].name].mtime
             r == [gate[g] EXCEPT !.at = "wait", !.expected = expected, !.asked = asked]
  <2>1. /\ r.at = "wait" /\ r.name = gate[g].name /\ r.todo = gate[g].todo /\ r.cur = gate[g].cur
        /\ r.swept = gate[g].swept /\ r.deadline = gate[g].deadline
    <3> HIDE DEF expected, asked
    <3> QED BY <1>t DEF GateRecord
  <2>2. /\ gate'[g] = r /\ \A h \in Gates : h # g => gate'[h] = gate[h]
        /\ gate[g].at = "read" /\ UNCHANGED <<asks, answers, operator, now>>
    BY <1>6, <1>t DEF ReadBack
  <2> HIDE DEF r
  <2> QED
    BY <2>1, <2>2 DEF Moves, BeforePost
<1>7. ASSUME TakeAnswer(g) PROVE Moves(g)
  <2> DEFINE verdict == IF Valid(g, answers[gate[g].name]) THEN answers[gate[g].name] ELSE None
             r == [gate[g] EXCEPT !.at = "consumeAsk", !.verdict = verdict]
  <2>1. /\ r.at = "consumeAsk" /\ r.name = gate[g].name /\ r.todo = gate[g].todo /\ r.cur = gate[g].cur
        /\ r.swept = gate[g].swept /\ r.deadline = gate[g].deadline
    <3> HIDE DEF verdict
    <3> QED BY <1>t DEF GateRecord
  <2>2. /\ gate'[g] = r /\ \A h \in Gates : h # g => gate'[h] = gate[h]
        /\ gate[g].at = "wait" /\ UNCHANGED <<asks, answers, operator, now>>
    BY <1>7, <1>t DEF TakeAnswer
  <2> HIDE DEF r
  <2> QED
    BY <2>1, <2>2 DEF Moves, BeforePost
<1>8. ASSUME GiveUp(g) PROVE Moves(g)
  <2>1. /\ gate[g].at = "wait" /\ gate'[g].at = "consumeAsk" /\ gate'[g].name = gate[g].name
        /\ gate'[g].todo = gate[g].todo /\ gate'[g].cur = gate[g].cur /\ gate'[g].swept = gate[g].swept
        /\ \A h \in Gates : h # g => gate'[h] = gate[h]
        /\ UNCHANGED <<asks, answers, operator, now>>
    BY <1>8, <1>t DEF GiveUp, GateRecord
  <2> QED
    BY <2>1 DEF Moves, BeforePost
<1>9. ASSUME ConsumeAsk(g) PROVE Moves(g)
  <2>1. /\ gate[g].at = "consumeAsk" /\ gate'[g].at = "consumeAnswer" /\ gate'[g].name = gate[g].name
        /\ gate'[g].todo = gate[g].todo /\ gate'[g].cur = gate[g].cur /\ gate'[g].swept = gate[g].swept
        /\ \A h \in Gates : h # g => gate'[h] = gate[h]
    BY <1>9, <1>t DEF ConsumeAsk, GateRecord
  <2>2. /\ UNCHANGED <<answers, operator, now>>
        /\ \A n \in Names : asks'[n] = IF n = gate[g].name THEN None ELSE asks[n]
    BY <1>9, <1>t DEF ConsumeAsk
  <2> QED
    BY <2>1, <2>2 DEF Moves, BeforePost
<1>10. ASSUME ConsumeAnswer(g) \/ Killed(g) PROVE Moves(g)
  <2>1. PICK how \in {"done", "dead"} : gate' = [gate EXCEPT ![g] = Ending(g, how)]
    BY <1>10 DEF ConsumeAnswer, Killed
  <2>2. /\ Ending(g, how).at = how /\ Ending(g, how).name = gate[g].name
        /\ Ending(g, how).todo = {} /\ Ending(g, how).cur = None /\ Ending(g, how).swept = 0
    BY DEF Ending, Rest
  <2>3. gate'[g] = Ending(g, how) /\ \A h \in Gates : h # g => gate'[h] = gate[h]
    BY <1>t, <2>1
  <2>4. /\ gate[g].at # "idle" /\ UNCHANGED <<asks, operator, now>>
        /\ \A n \in Names : answers'[n] = answers[n] \/ (answers'[n] = None /\ n = gate[g].name)
    BY <1>10, <1>t DEF ConsumeAnswer, Killed, Waits
  <2> QED
    BY <2>2, <2>3, <2>4 DEF Moves, BeforePost
<1> QED
    BY <1>2, <1>3, <1>4, <1>5, <1>6, <1>7, <1>8, <1>9, <1>10

LEMMA BeginStays ==
    ASSUME IType, Stays, NEW g \in Gates, Begin(g)
    PROVE  Stays'
<1>t. /\ gate \in [Gates -> GateRecord] /\ gate[g] \in GateRecord /\ now \in Nat
      /\ \A h \in Gates : gate[h].at # "idle" => gate[h].name \in Names
      /\ None \notin Names
    BY AskAssumption DEF IType, TypeOK, Named, GateRecord, Times
<1>s. Unused /\ AskKept /\ Aimed /\ AnswerKept /\ Begins
    BY DEF Stays
<1>1. PICK n \in Names :
          gate' = [gate EXCEPT ![g].at = "sweepAsks", ![g].name = n, ![g].deadline = now + Timeout,
                               ![g].swept = now, ![g].todo = Present(asks)]
    BY DEF Begin
<1> DEFINE deadline == now + Timeout
           r == [gate[g] EXCEPT !.at = "sweepAsks", !.name = n, !.deadline = deadline, !.swept = now,
                                !.todo = Present(asks)]
<1>2. gate'[g] = r /\ \A h \in Gates : h # g => gate'[h] = gate[h]
    BY <1>t, <1>1
<1>3. /\ r.at = "sweepAsks" /\ r.name = n /\ r.swept = now /\ r.todo = Present(asks)
      /\ r.cur = gate[g].cur
  <2> HIDE DEF deadline
  <2> QED BY <1>t DEF GateRecord
<1> HIDE DEF r
<1>4. /\ gate[g].at = "idle" /\ gate[g].name = None /\ UNCHANGED <<asks, answers, operator, now>>
    BY <1>s DEF Begin, Begins
<1>5. \A m \in Names : Clear(m) => Clear(m)'
    BY <1>2, <1>3, <1>4 DEF Clear, Present
<1>6. \A h \in Gates : h # g /\ gate[h].at # "idle" /\ Fresh(h)' => Fresh(h) /\ gate'[h] = gate[h]
    BY <1>2, <1>4, <1>t DEF Fresh
<1>7. Unused'
  <2>1. \A m \in Names : (\A h \in Gates : gate'[h].name # m) => Clear(m)'
    <3> SUFFICES ASSUME NEW m \in Names, \A h \in Gates : gate'[h].name # m PROVE Clear(m)'
        OBVIOUS
    <3>1. \A h \in Gates : gate[h].name # m
      BY <1>2, <1>4, <1>t
    <3> QED
      BY <1>5, <1>s, <3>1 DEF Unused
  <2>2. \A h \in Gates : gate'[h].at \in BeforePost /\ Fresh(h)' => Clear(gate[h].name)'
    <3> SUFFICES ASSUME NEW h \in Gates, gate'[h].at \in BeforePost, Fresh(h)'
                 PROVE  Clear(gate[h].name)'
        OBVIOUS
    <3>0. ASSUME NEW m \in Names, m = gate'[h].name, Clear(m) PROVE Clear(gate[h].name)'
        BY <3>0, <1>5 DEF Clear
    <3>1. CASE h = g
      <4>1. \A k \in Gates : gate[k].name # n
        BY <1>2, <1>3, <1>4, <1>t, <3>1 DEF Fresh
      <4> QED
        BY <4>1, <1>s, <1>2, <1>3, <3>0, <3>1 DEF Unused
    <3>2. CASE h # g
      <4>1. gate[h].at \in BeforePost /\ gate[h].at # "idle"
        BY <1>2, <3>2 DEF BeforePost
      <4> QED
        BY <4>1, <1>s, <1>6, <1>t, <3>0, <3>2 DEF Unused
    <3> QED
      BY <3>1, <3>2
  <2> QED
    BY <2>1, <2>2 DEF Unused, Clear
<1>8. \A h \in Gates : InTime(h)' => h # g /\ gate[h].at # "idle" /\ gate'[h] = gate[h] /\ InTime(h)
    BY <1>2, <1>3, <1>4, <1>6 DEF InTime
<1>9. AskKept'
  <2>1. \A k \in Gates : gate'[k].cur = gate[k].cur
    BY <1>2, <1>3
  <2> QED
    BY <1>s, <1>4, <1>8, <2>1 DEF AskKept
<1>10. AnswerKept'
    BY <1>s, <1>4, <1>8 DEF AnswerKept
<1>11. Aimed'
    BY <1>s, <1>2, <1>4 DEF Aimed
<1>12. Begins'
    BY <1>s, <1>2, <1>3, <1>4, <1>t DEF Begins
<1> QED
    BY <1>7, <1>9, <1>10, <1>11, <1>12 DEF Stays

LEMMA PostStays ==
    ASSUME IType, Stays, NEW g \in Gates, Post(g)
    PROVE  Stays'
<1>t. /\ gate \in [Gates -> GateRecord] /\ gate[g] \in GateRecord /\ now \in Times
      /\ asks \in [Names -> Ask \cup {None}]
      /\ \A h \in Gates : gate[h].at # "idle" => gate[h].name \in Names
      /\ None \notin Names
    BY AskAssumption DEF IType, TypeOK, Named, GateRecord, Times
<1>s. Unused /\ AskKept /\ Aimed /\ AnswerKept /\ Begins
    BY DEF Stays
<1> DEFINE n == gate[g].name
           a == [nonce |-> g, deadline |-> gate[g].deadline, permanent |-> g \in Permanent, mtime |-> now]
<1>1. /\ gate[g].at = "post" /\ n \in Names /\ UNCHANGED <<answers, operator, now>>
      /\ gate'[g].at = "read" /\ gate'[g].name = n /\ gate'[g].deadline = gate[g].deadline
      /\ gate'[g].cur = gate[g].cur /\ gate'[g].todo = gate[g].todo /\ gate'[g].swept = gate[g].swept
      /\ \A h \in Gates : h # g => gate'[h] = gate[h]
    BY <1>t DEF Post, GateRecord
<1>2. /\ asks'[n] = a /\ \A m \in Names : m # n => asks'[m] = asks[m]
    BY <1>1, <1>t DEF Post
<1>3. a # None /\ a.nonce = g /\ a.deadline = gate[g].deadline
  <2>1. a.nonce = g /\ a.deadline = gate[g].deadline
    OBVIOUS
  <2>2. a # None
    <3>1. a \in Ask
      <4>1. gate[g].deadline \in 0 .. MaxNow + Timeout
        BY <1>t DEF GateRecord
      <4> QED BY <4>1, <1>t DEF Ask
    <3> QED
      BY <3>1, NoneAssumption
  <2> QED
    BY <2>1, <2>2
<1> HIDE DEF a
<1>4. \A h \in Gates : gate'[h].name = gate[h].name /\ gate'[h].cur = gate[h].cur /\ (Fresh(h)' <=> Fresh(h))
    BY <1>1 DEF Fresh
<1>5. Unused'
  <2>1. \A m \in Names : m # n /\ Clear(m) => Clear(m)'
    BY <1>1, <1>2, <1>4 DEF Clear
  <2>2. \A m \in Names : (\A h \in Gates : gate'[h].name # m) => Clear(m)'
    BY <2>1, <1>1, <1>4, <1>s DEF Unused
  <2>3. \A h \in Gates : gate'[h].at \in BeforePost /\ Fresh(h)' => Clear(gate[h].name)'
    <3> SUFFICES ASSUME NEW h \in Gates, gate'[h].at \in BeforePost, Fresh(h)' PROVE Clear(gate[h].name)'
        OBVIOUS
    <3>1. h # g /\ gate[h].at \in BeforePost /\ Fresh(h) /\ gate[h].name \in Names /\ gate[h].name # n
      BY <1>1, <1>4, <1>t DEF BeforePost, Fresh
    <3>2. Clear(gate[h].name)
      BY <3>1, <1>s DEF Unused
    <3> QED
      BY <3>1, <3>2, <1>1, <1>2, <1>4 DEF Clear
  <2> QED
    BY <2>2, <2>3 DEF Unused, Clear
<1>6. Fresh(g) => Clear(n)
    BY <1>1, <1>s DEF Unused, BeforePost
<1>7. \A h \in Gates : h # g /\ InTime(h)' => InTime(h) /\ gate'[h] = gate[h] /\ gate[h].name \in Names \ {n}
    BY <1>1, <1>4, <1>t DEF InTime, Fresh
<1>8. AskKept'
    BY <1>1, <1>2, <1>3, <1>4, <1>6, <1>7, <1>s DEF AskKept, InTime, Clear
<1>9. Aimed'
    BY <1>1, <1>4, <1>s DEF Aimed, BeforePost
<1>10. AnswerKept'
  <2>1. \A o \in Operators : operator[o].nonce # g
    BY <1>1, <1>s DEF Aimed, BeforePost
  <2> QED
    BY <2>1, <1>1, <1>7, <1>s DEF AnswerKept
<1>11. Begins'
    BY <1>1, <1>s DEF Begins
<1> QED
    BY <1>5, <1>8, <1>9, <1>10, <1>11 DEF Stays
LEMMA OperatorStays ==
    ASSUME IType, Placed, Stays, NEW o \in Operators, OperatorStep(o)
    PROVE  Stays'
<1>t. /\ operator \in [Operators -> OperatorRecord] /\ operator[o] \in OperatorRecord
      /\ asks \in [Names -> Ask \cup {None}] /\ answers \in [Names -> Answer \cup {None}]
      /\ operator[o].at # "idle" => operator[o].name \in Names
      /\ operator[o].at = "write" => operator[o].nonce \in Gates
      /\ None \notin Names /\ None \notin Gates /\ now \in Times
    BY AskAssumption DEF IType, TypeOK, Named, OperatorRecord
<1>s. Unused /\ AskKept /\ Aimed /\ AnswerKept /\ Begins
    BY DEF Stays
<1>o. Off.at = "idle" /\ Off.name = None /\ Off.nonce = None
    BY DEF Off
\* What each step of an operator comes to.
<1>1. ASSUME UNCHANGED <<asks, gate, now>>,
             \A p \in Operators : p # o => operator'[p] = operator[p],
             operator'[o].name \in {None, operator[o].name} \/ asks[operator'[o].name] # None,
             \A g \in Gates : operator'[o].nonce = g =>
                 gate[g].at \notin BeforePost \cup {"idle"} /\ operator'[o].name = gate[g].name,
             \A n \in Names : answers'[n] = answers[n] \/ (answers'[n] # None /\ n = operator[o].name),
             operator'[o].at = "wrote" => answers'[operator'[o].name] # None
      PROVE  Stays'
  <2>1. \A n \in Names : Clear(n) => Clear(n)'
    BY <1>1, <1>t DEF Clear
  <2>2. \A g \in Gates : (Fresh(g)' <=> Fresh(g)) /\ (InTime(g)' <=> InTime(g))
    BY <1>1 DEF Fresh, InTime
  <2>3. Unused'
    <3>1. \A n \in Names : (\A g \in Gates : gate'[g].name # n) => Clear(n)'
      BY <1>1, <1>s, <2>1 DEF Unused
    <3>2. \A g \in Gates : gate'[g].at \in BeforePost /\ Fresh(g)' => Clear(gate[g].name)'
      <4> SUFFICES ASSUME NEW g \in Gates, gate'[g].at \in BeforePost, Fresh(g)' PROVE Clear(gate[g].name)'
          OBVIOUS
      <4>1. gate[g].name \in Names
        BY <1>1 DEF IType, Named, BeforePost
      <4>2. Clear(gate[g].name)
        BY <1>1, <1>s, <2>2 DEF Unused
      <4> QED
        BY <4>1, <4>2, <1>1, <1>t DEF Clear
    <3> QED
      BY <3>1, <3>2 DEF Unused, Clear
  <2>4. AskKept'
    BY <1>1, <1>s, <2>2 DEF AskKept
  <2>5. Aimed'
    BY <1>1, <1>s DEF Aimed
  <2>6. AnswerKept'
    <3> SUFFICES ASSUME NEW p \in Operators, NEW g \in Gates, operator'[p].at = "wrote",
                        operator'[p].nonce = g, InTime(g)'
                 PROVE  answers'[gate[g].name] # None
        BY <1>1 DEF AnswerKept
    <3>1. CASE p = o
      BY <1>1, <3>1
    <3>2. CASE p # o
      <4>1. answers[gate[g].name] # None
        BY <1>1, <1>s, <2>2, <3>2 DEF AnswerKept
      <4>2. gate[g].name \in Names
        BY <1>1, <2>2 DEF IType, Named, InTime
      <4> QED
        BY <1>1, <4>1, <4>2
    <3> QED
      BY <3>1, <3>2
  <2>7. Begins'
    BY <1>1, <1>s DEF Begins
  <2> QED
    BY <2>3, <2>4, <2>5, <2>6, <2>7 DEF Stays
<1>2. CASE Show(o)
  <2>1. PICK n \in Present(asks) :
            operator' = [operator EXCEPT ![o] = [at |-> "shown", name |-> n, shown |-> asks[n].permanent,
                                                 nonce |-> None, allow |-> FALSE]]
    BY <1>2 DEF Show
  <2>2. /\ operator'[o].name = n /\ operator'[o].nonce = None /\ operator'[o].at = "shown"
        /\ asks[n] # None /\ n \in Names
        /\ \A p \in Operators : p # o => operator'[p] = operator[p]
    BY <1>t, <2>1 DEF Present
  <2>3. UNCHANGED <<asks, answers, gate, now>>
    BY <1>2 DEF Show
  <2> QED
    BY <1>1, <1>t, <2>2, <2>3
<1>3. CASE operator' = [operator EXCEPT ![o] = Off] /\ UNCHANGED <<asks, answers, gate, now>>
  <2>1. operator'[o] = Off /\ \A p \in Operators : p # o => operator'[p] = operator[p]
    BY <1>t, <1>3
  <2> QED
    BY <1>1, <1>3, <1>o, <1>t, <2>1
<1>4. CASE ReadAsk(o) /\ operator' # [operator EXCEPT ![o] = Off]
  <2> DEFINE n == operator[o].name
             a == asks[n]
  <2>1. PICK allow \in BOOLEAN : /\ a # None
                                 /\ operator' = [operator EXCEPT ![o].at = "write", ![o].nonce = a.nonce,
                                                                 ![o].allow = allow]
    BY <1>4 DEF ReadAsk
  <2>2. operator[o].at = "shown" /\ n \in Names /\ UNCHANGED <<asks, answers, gate, now>>
    BY <1>4, <1>t DEF ReadAsk
  <2>3. a.nonce \in Gates
    BY <1>t, <2>1, <2>2 DEF Ask
  <2>4. gate[a.nonce].name = n /\ gate[a.nonce].at \in {"read", "wait", "consumeAsk", "dead"}
    BY <2>1, <2>2, <2>3 DEF Placed
  <2> DEFINE nonce == a.nonce
             r == [operator[o] EXCEPT !.at = "write", !.nonce = nonce, !.allow = allow]
  <2>5. r.at = "write" /\ r.name = n /\ r.nonce = nonce
    <3> HIDE DEF nonce
    <3> QED BY <1>t DEF OperatorRecord
  <2>6. operator'[o] = r /\ \A p \in Operators : p # o => operator'[p] = operator[p]
    BY <1>t, <2>1
  <2> HIDE DEF r
  <2> QED
    BY <1>1, <2>2, <2>4, <2>5, <2>6 DEF BeforePost
<1>5. CASE WriteAnswer(o)
  <2> DEFINE n == operator[o].name
             b == [nonce |-> operator[o].nonce, allow |-> operator[o].allow,
                   confirm |-> operator[o].shown, mtime |-> now]
  <2>1. /\ operator[o].at = "write" /\ n \in Names /\ operator[o].nonce \in Gates
        /\ UNCHANGED <<asks, gate, now>>
        /\ operator'[o].at = "wrote" /\ operator'[o].name = n /\ operator'[o].nonce = operator[o].nonce
        /\ \A p \in Operators : p # o => operator'[p] = operator[p]
    BY <1>5, <1>t DEF WriteAnswer, Off
  <2>2. answers'[n] = b /\ \A m \in Names : m # n => answers'[m] = answers[m]
    BY <1>5, <1>t, <2>1 DEF WriteAnswer
  <2>3. b \in Answer
    <3>1. operator[o].allow \in BOOLEAN /\ operator[o].shown \in BOOLEAN
      BY <1>t DEF OperatorRecord
    <3> QED BY <1>t, <2>1, <3>1 DEF Answer
  <2>4. answers'[n] # None
    BY <2>2, <2>3, NoneAssumption
  <2> HIDE DEF b
  <2>5. \A g \in Gates : operator'[o].nonce = g =>
            gate[g].at \notin BeforePost \cup {"idle"} /\ operator'[o].name = gate[g].name
    BY <1>s, <2>1 DEF Aimed
  <2> QED
    BY <1>1, <2>1, <2>2, <2>4, <2>5
<1> QED
    BY <1>2, <1>3, <1>4, <1>5 DEF OperatorStep, ReadAsk, Again

LEMMA NextStays == IType /\ Placed /\ Stays /\ [Next]_vars => Stays'
<1> SUFFICES ASSUME IType, Placed, Stays, [Next]_vars PROVE Stays'
    OBVIOUS
<1>1. ASSUME NEW g \in Gates, Begin(g) PROVE Stays'
    BY <1>1, BeginStays
<1>2. ASSUME NEW g \in Gates, GateStep(g) \/ Killed(g) PROVE Stays'
    BY <1>2, PostStays, GateMoves, MovesKeep DEF GateStep
<1>3. ASSUME NEW o \in Operators, OperatorStep(o) PROVE Stays'
    BY <1>3, OperatorStays
<1>4. ASSUME UNCHANGED <<asks, answers, gate, operator>>, now' \in {now, now + 1} PROVE Stays'
  <2>1. now \in Nat /\ \A g \in Gates : gate[g].swept \in Nat /\ gate[g].deadline \in Int
    BY AskAssumption DEF IType, TypeOK, Times
  <2>2. \A g \in Gates : (Fresh(g)' <=> Fresh(g)) /\ (InTime(g)' => InTime(g))
    BY <1>4, <2>1 DEF Fresh, InTime
  <2>3. Unused'
    BY <1>4, <2>2 DEF Stays, Unused, Clear, Fresh
  <2>4. AskKept' /\ AnswerKept' /\ Aimed'
    BY <1>4, <2>2 DEF Stays, AskKept, AnswerKept, Aimed
  <2>5. Begins'
    BY <1>4, <2>1 DEF Stays, Begins
  <2> QED
    BY <2>3, <2>4, <2>5 DEF Stays
<1> QED
    BY <1>1, <1>2, <1>3, <1>4 DEF Next, Tick, vars

\* Nobody removes an ask before its deadline while its gate waits (sweep_stale removes what had expired
\* when the sweep began): for a gate whose name no other gate has used.
THEOREM AskStaysThere == Spec => []AskStays
<1>1. Stays => AskStays
    BY DEF Stays, AskKept, AskStays, InTime
<1> QED
    BY <1>1, InitType, NextType, InitPlaced, NextPlaced, InitStays, NextStays, PTL DEF Spec

\* The answer written to a gate that waits is there until the gate takes it, though the sweeps of other
\* gates look at the asks and at the answers at different times: for the same gates.
THEOREM AnswerStaysThere == Spec => []AnswerStays
<1>1. Stays => AnswerStays
    BY DEF Stays, AnswerKept, AnswerStays, InTime
<1> QED
    BY <1>1, InitType, NextType, InitPlaced, NextPlaced, InitStays, NextStays, PTL DEF Spec
=============================================================================
