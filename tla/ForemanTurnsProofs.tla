-------------------------- MODULE ForemanTurnsProofs --------------------------
(***************************************************************************)
(* Theorems about ForemanTurns, for any sentences, accounts, callers and   *)
(* bounds, with any number of crashes, stops and file faults.              *)
(***************************************************************************)
EXTENDS ForemanTurns, WellFoundedInduction, SequenceTheorems, FiniteSetTheorems, TLAPS

-----------------------------------------------------------------------------
(* Numbers: the least number of a set, and induction over a set.           *)

LEMMA LeastNat ==
    ASSUME NEW S \in SUBSET Nat, S # {}
    PROVE  \E n \in S : \A m \in S : n <= m
<1> DEFINE R == OpToRel(<, Nat)
<1>1. IsWellFoundedOn(R, Nat)
    BY NatLessThanWellFounded
<1>2. PICK n \in S : \A y \in S : <<y, n>> \notin R
  <2> HIDE DEF R
  <2> QED
    BY <1>1, WFMin
<1>3. \A m \in S : <<m, n>> \notin R => n <= m
    BY DEF OpToRel
<1> QED
    BY <1>2, <1>3

LEMMA NatSet ==
    ASSUME NEW S, 0 \in S, \A n \in Nat : n \in S => n + 1 \in S
    PROVE  Nat \subseteq S
<1> SUFFICES ASSUME Nat \ S # {} PROVE FALSE
    OBVIOUS
<1>1. PICK n \in Nat \ S : \A m \in Nat \ S : n <= m
    BY LeastNat
<1> QED
    BY <1>1

LEMMA GreatestNat ==
    ASSUME NEW N \in Nat, NEW S \in SUBSET (0 .. N), S # {}
    PROVE  Max(S) \in S /\ \A m \in S : m <= Max(S)
<1>1. DEFINE B == {n \in Nat : \A m \in S : m <= n}
<1>2. N \in B
    OBVIOUS
<1>3. PICK n \in B : \A m \in B : n <= m
    BY <1>2, LeastNat
<1>4. n \in S
  <2> SUFFICES ASSUME n \notin S PROVE FALSE
    OBVIOUS
  <2>1. \A m \in S : m < n
    BY <1>3
  <2>2. n # 0
    <3>1. PICK m \in S : m \in 0 .. N
        OBVIOUS
    <3> QED
        BY <2>1, <3>1
  <2>3. n - 1 \in B
    BY <2>1, <2>2
  <2> QED
    BY <1>3, <2>3
<1>5. \A m \in S : n >= m
    BY <1>3
<1>6. Max(S) \in S /\ \A m \in S : Max(S) >= m
    BY <1>4, <1>5 DEF Max
<1> QED
    BY <1>6

-----------------------------------------------------------------------------
(* What a partition of a sequence keeps.                                   *)

Distinct(s) == \A i, j \in DOMAIN s : s[i] = s[j] => i = j

IsKept(f, s, P, n) ==
    f = [i \in 0 .. n |->
            IF i = 0 THEN <<>> ELSE IF s[i] \in P THEN Append(f[i - 1], s[i]) ELSE f[i - 1]]

\* The recursive function exists.
LEMMA KeptExists ==
    ASSUME NEW s, NEW P
    PROVE  \A n \in Nat : \E f : IsKept(f, s, P, n)
<1> DEFINE S == {n \in Nat : \E f : IsKept(f, s, P, n)}
<1>1. 0 \in S
  <2>1. IsKept([i \in 0 .. 0 |-> <<>>], s, P, 0)
    BY DEF IsKept
  <2> QED
    BY <2>1
<1>2. ASSUME NEW n \in Nat, n \in S PROVE n + 1 \in S
  <2>1. PICK f : IsKept(f, s, P, n)
    BY <1>2
  <2> DEFINE last == IF s[n + 1] \in P THEN Append(f[n], s[n + 1]) ELSE f[n]
             g == [i \in 0 .. n + 1 |-> IF i = n + 1 THEN last ELSE f[i]]
  <2>2. \A i \in 0 .. n : g[i] = f[i]
    OBVIOUS
  <2>3. g[n + 1] = last
    OBVIOUS
  <2>4. \A i \in 0 .. n : f[i] = IF i = 0 THEN <<>>
                                ELSE IF s[i] \in P THEN Append(f[i - 1], s[i]) ELSE f[i - 1]
    BY <2>1 DEF IsKept
  <2>5. DOMAIN g = 0 .. n + 1
    OBVIOUS
  <2> HIDE DEF g
  <2>6. \A i \in 0 .. n + 1 : g[i] = IF i = 0 THEN <<>>
                                    ELSE IF s[i] \in P THEN Append(g[i - 1], s[i]) ELSE g[i - 1]
    <3> TAKE i \in 0 .. n + 1
    <3>1. CASE i = n + 1
      <4>1. i - 1 = n /\ n \in 0 .. n /\ i # 0
        BY <3>1
      <4> QED
        BY <3>1, <4>1, <2>2, <2>3
    <3>2. CASE i = 0
        BY <3>2, <2>2, <2>4
    <3>3. CASE i \in 1 .. n
      <4>1. i - 1 \in 0 .. n /\ i \in 0 .. n /\ i # 0
        BY <3>3
      <4> QED
        BY <4>1, <2>2, <2>4
    <3> QED
        BY <3>1, <3>2, <3>3
  <2>7. g = [i \in 0 .. n + 1 |-> g[i]]
    BY <2>5 DEF g
  <2>8. IsKept(g, s, P, n + 1)
    BY <2>6, <2>7 DEF IsKept
  <2> QED
    BY <2>8
<1> HIDE DEF S
<1>3. Nat \subseteq S
    BY <1>1, <1>2, NatSet
<1> QED
    BY <1>3 DEF S

\* It keeps elements of s that are in P, and none of them twice unless s has it twice.
LEMMA KeptPart ==
    ASSUME NEW T, NEW s \in Seq(T), NEW P
    PROVE  /\ Kept(s, P) \in Seq(T)
           /\ \A j \in DOMAIN Kept(s, P) :
                 Kept(s, P)[j] \in P /\ \E i \in DOMAIN s : s[i] = Kept(s, P)[j]
           /\ Distinct(s) => Distinct(Kept(s, P))
<1> DEFINE kept == CHOOSE f : IsKept(f, s, P, Len(s))
           Good(k, i) == /\ k \in Seq(T)
                         /\ \A j \in DOMAIN k : k[j] \in P /\ \E m \in 1 .. i : s[m] = k[j]
                         /\ Distinct(s) => Distinct(k)
           S == {i \in Nat : i <= Len(s) => Good(kept[i], i)}
<1>1. Len(s) \in Nat /\ DOMAIN s = 1 .. Len(s) /\ \A m \in 1 .. Len(s) : s[m] \in T
    OBVIOUS
<1>2. IsKept(kept, s, P, Len(s))
    BY <1>1, KeptExists
<1>3. Kept(s, P) = kept[Len(s)]
    BY DEF Kept, IsKept
<1>4. /\ kept[0] = <<>>
      /\ \A i \in 0 .. Len(s) - 1 :
            kept[i + 1] = IF s[i + 1] \in P THEN Append(kept[i], s[i + 1]) ELSE kept[i]
  <2> HIDE DEF kept
  <2>1. kept[0] = <<>>
    BY <1>1, <1>2 DEF IsKept
  <2>2. ASSUME NEW i \in 0 .. Len(s) - 1
        PROVE  kept[i + 1] = IF s[i + 1] \in P THEN Append(kept[i], s[i + 1]) ELSE kept[i]
    <3>1. i + 1 \in 0 .. Len(s) /\ i + 1 # 0 /\ (i + 1) - 1 = i
        BY <1>1
    <3> QED
        BY <1>2, <3>1 DEF IsKept
  <2> QED
    BY <2>1, <2>2
<1> HIDE DEF kept
<1>5. 0 \in S
  <2>1. <<>> \in Seq(T) /\ DOMAIN <<>> = {}
    BY EmptySeq
  <2>2. Good(<<>>, 0)
    BY <2>1 DEF Distinct
  <2> QED
    BY <1>4, <2>2
<1>6. ASSUME NEW i \in Nat, i \in S PROVE i + 1 \in S
  <2> SUFFICES ASSUME i + 1 <= Len(s) PROVE Good(kept[i + 1], i + 1)
    OBVIOUS
  <2>1. Good(kept[i], i) /\ i \in 0 .. Len(s) - 1 /\ i + 1 \in 1 .. Len(s)
    BY <1>1, <1>6
  <2>2. CASE s[i + 1] \notin P
    <3>1. kept[i + 1] = kept[i]
        BY <1>4, <2>1, <2>2
    <3> QED
        BY <2>1, <3>1
  <2>3. CASE s[i + 1] \in P
    <3> DEFINE k == kept[i]
               x == s[i + 1]
    <3>1. kept[i + 1] = Append(k, x)
        BY <1>4, <2>1, <2>3
    <3>2. Good(k, i) /\ x \in T
        BY <1>1, <2>1
    <3> HIDE DEF k, x
    <3>3. /\ Append(k, x) \in Seq(T) /\ DOMAIN Append(k, x) = 1 .. Len(k) + 1
          /\ Len(k) \in Nat /\ DOMAIN k = 1 .. Len(k)
          /\ Append(k, x)[Len(k) + 1] = x
          /\ \A j \in 1 .. Len(k) : Append(k, x)[j] = k[j]
        BY <3>2
    <3>4. \A j \in DOMAIN Append(k, x) :
             Append(k, x)[j] \in P /\ \E m \in 1 .. i + 1 : s[m] = Append(k, x)[j]
        BY <2>1, <2>3, <3>2, <3>3 DEF x
    <3>5. ASSUME Distinct(s) PROVE Distinct(Append(k, x))
      <4>1. \A j \in 1 .. Len(k) : k[j] # x
        <5> TAKE j \in 1 .. Len(k)
        <5>1. PICK m \in 1 .. i : s[m] = k[j]
            BY <3>2, <3>3
        <5>2. m \in DOMAIN s /\ i + 1 \in DOMAIN s /\ m # i + 1
            BY <1>1, <2>1
        <5> QED
            BY <3>5, <5>1, <5>2 DEF Distinct, x
      <4>2. Distinct(k)
        BY <3>2, <3>5
      <4> HIDE DEF Good
      <4>3. \A a, b \in 1 .. Len(k) + 1 : Append(k, x)[a] = Append(k, x)[b] => a = b
        <5> TAKE a, b \in 1 .. Len(k) + 1
        <5>1. CASE a \in 1 .. Len(k) /\ b \in 1 .. Len(k)
            BY <3>3, <4>2, <5>1 DEF Distinct
        <5>2. CASE a = Len(k) + 1 \/ b = Len(k) + 1
            BY <3>3, <4>1, <5>2
        <5> QED
            BY <3>3, <5>1, <5>2
      <4> QED
        BY <3>3, <4>3 DEF Distinct
    <3> QED
        BY <3>1, <3>3, <3>4, <3>5
  <2> QED
    BY <2>2, <2>3
<1> HIDE DEF S
<1>7. Nat \subseteq S
    BY <1>5, <1>6, NatSet
<1>8. Good(kept[Len(s)], Len(s))
  <2>1. Len(s) \in S
    BY <1>1, <1>7
  <2> QED
    BY <1>1, <2>1 DEF S
<1> QED
    BY <1>1, <1>3, <1>8

-----------------------------------------------------------------------------
(* Types, and who is there when: a call needs its turn, a turn its thread, *)
(* and both a server that is up.                                           *)

Said == DOMAIN log

CallLines == [turn : Ids, n : Nat, phase : {"start", "end"}, outcome : {"none", "known", "unknown"}]

TurnLines == [msg : Ids, status : {"running", "ok", "failed"}, mid : SUBSET Ids]

Effects == [turn : Ids, n : Nat, account : 1 .. Accounts, past : BOOLEAN]

OpeningOf == [todo : SUBSET CallLines,
              started : SUBSET Ids, unknown : SUBSET (Ids \X Nat), unread : BOOLEAN, last : Nat,
              dangling : SUBSET TurnLines,
              closed : SUBSET Ids, blind : BOOLEAN, broken : BOOLEAN]

FileTypes ==
    /\ log \in Seq(Sentences) /\ Len(log) <= Cardinality(Sentences)
    /\ notes \subseteq [on : (Ids \cup {0}) \X Nat, says : Says]
    /\ turns \subseteq TurnLines
    /\ calls \subseteq CallLines
    /\ torn \subseteq {"calls", "turns"}
    /\ mishaps \in 0 .. Mishaps
    /\ heard \in [Ids -> Nat]
    /\ effects \subseteq Effects
    /\ unsaid \subseteq (Ids \cup {0}) \X Nat

ServerTypes ==
    /\ up \in Phases /\ opening \in OpeningOf /\ acts \subseteq Sentences
    /\ running \in BOOLEAN
    /\ queue \in Seq(Said)
    /\ turn # None => turn \in TurnOf /\ turn.msg \in Said
    /\ call \in [Callers -> CallOf \cup {None}]
    /\ \A k \in Callers : call[k] # None => call[k].took \in Seq(Said)

Presence ==
    /\ up \notin {"up", "stop"} => turn = None /\ queue = <<>> /\ ~running
    /\ turn # None => running
    /\ turn # None /\ turn.at \in {"start", "run", "over"} => turn.account \in 1 .. Accounts
    /\ queue # <<>> /\ up = "up" => running
    /\ up = "record" => Newest # 0
    /\ \A k \in Callers : call[k] # None => turn # None /\ turn.at \notin {"closed", "noted"}

Typed == FileTypes /\ ServerTypes /\ Presence

-----------------------------------------------------------------------------
(* A message is in one place, and until a model was given it nothing was   *)
(* done about it.                                                          *)

Took(k) == IF call[k] = None THEN <<>> ELSE call[k].took

\* The message waits, in the queue or in a result that is being written.
Waits(m) == m \in ToSet(queue) \/ \E k \in Callers : m \in ToSet(Took(k))

OnePlace ==
    /\ Distinct(queue) /\ \A k \in Callers : Distinct(Took(k))
    /\ \A k \in Callers : ToSet(Took(k)) \cap ToSet(queue) = {}
    /\ \A k, l \in Callers : k # l => ToSet(Took(k)) \cap ToSet(Took(l)) = {}
    /\ turn # None => ~Waits(turn.msg)

Invited(m) == \E x \in notes : x.says = "unanswered" /\ x.on[1] = m
Acted(m) == \E e \in effects : e.turn = m

Untouched ==
    /\ \A m \in Ids : Waits(m) \/ m \notin Said => heard[m] = 0 /\ ~Acted(m) /\ ~Invited(m)
    /\ turn # None => ~Invited(turn.msg) /\ (~turn.given => heard[turn.msg] = 0)
    /\ HeardOnce

-----------------------------------------------------------------------------

\* The calls and the effects of the turn come from the account it is on, and it has none before it
\* has accepted one; an account that has accepted none may be left.
OnAccountNow ==
    /\ turn # None =>
        /\ turn.before = 0 /\ (turn.at \in {"begun", "start", "paused"} => turn.accepted = 0)
        /\ turn.accepted = 0 => (\A k \in Callers : call[k] = None) /\ ~Acted(turn.msg)
        /\ \A k \in Callers : call[k] # None => call[k].account = turn.account
        /\ \A e \in effects : e.turn = turn.msg => e.account = turn.account
    /\ OneAccount

\* A log that takes no more may hold a sentence the chat does not know.
KnownSentences ==
    /\ LoggedOnce
    /\ up # "down" /\ ~opening.broken => acts = ToSet(log)

Intent ==
    /\ IntentFirst
    /\ \A k \in Callers : Doing(k, "effect") =>
          \E c \in Starts : c.turn = turn.msg /\ c.n = call[k].n

\* It has its note, or the note could not be written.
Told(p) == (\E x \in notes : x.on = p) \/ p \in unsaid

HasOutcome(e) == \E c \in calls : c.turn = e.turn /\ c.n = e.n /\ c.outcome = "known"

ToSettle(e) == up \in {"settle", "told"} /\ \E c \in opening.todo : c.turn = e.turn /\ c.n = e.n

Settled ==
    /\ \A c \in calls : c.phase = "end" => c.outcome = "known" \/ Told(<<c.turn, c.n>>)
    /\ \A u \in opening.unknown : Told(u)
    /\ \A e \in effects : e.past =>
          \/ HasOutcome(e) \/ Told(<<e.turn, e.n>>)
          \/ up = "down" \/ opening.unread \/ ToSettle(e)

Remembered ==
    up \in {"settle", "told", "turns", "close", "note"} /\ ~opening.unread =>
        \A c \in Starts : c.turn \in opening.started

RunningHeardNone(R) == \A r \in R : r.status = "running" => r.mid = {}

Answers ==
    /\ RunningHeardNone(turns)
    /\ \A r \in opening.dangling : r.status = "running" /\ r.mid = {}
    /\ up \in {"close", "note"} /\ ~opening.blind =>
          \A r \in turns : r.status # "running" =>
              (\A m \in r.mid : m <= opening.last) /\ (r.status = "ok" => r.msg <= opening.last)

-----------------------------------------------------------------------------
LEMMA Numbers ==
    /\ Cardinality(Sentences) \in Nat /\ Mishaps \in Nat /\ MaxPauses \in Nat
    /\ Accounts \in Nat /\ Accounts > 0
    /\ Ids \subseteq Nat \ {0}
BY TurnsAssumption, FS_CardinalityType DEF Ids

LEMMA SaidIds ==
    ASSUME FileTypes
    PROVE  /\ Len(log) \in Nat /\ Said = 1 .. Len(log) /\ Said \subseteq Ids
           /\ \A i \in Said : log[i] \in Sentences
BY Numbers DEF FileTypes, Said, Ids

LEMMA InitTyped == Init => Typed
<1> SUFFICES ASSUME Init PROVE Typed
    OBVIOUS
<1>1. FileTypes
    BY Numbers, EmptySeq DEF Init, FileTypes, Ids
<1>2. ServerTypes
    BY Numbers, EmptySeq DEF Init, ServerTypes, NothingRead, OpeningOf, Phases
<1>3. Presence
    BY DEF Init, Presence
<1> QED
    BY <1>1, <1>2, <1>3 DEF Typed

LEMMA LineTypes ==
    ASSUME NEW t \in Ids, NEW n \in Nat, NEW phase \in {"start", "end"},
           NEW outcome \in {"none", "known", "unknown"}
    PROVE  Line(t, n, phase, outcome) \in CallLines
BY DEF Line, CallLines

LEMMA RecordTypes ==
    ASSUME NEW t \in Ids, NEW status \in {"running", "ok", "failed"}, NEW mid \in SUBSET Ids
    PROVE  Record(t, status, mid) \in TurnLines
BY DEF Record, TurnLines

LEMMA TurnTypes ==
    ASSUME NEW t \in TurnOf, NEW account \in 0 .. Accounts, NEW pauses \in 0 .. MaxPauses,
           NEW ran \in BOOLEAN
    PROVE  /\ [t EXCEPT !.at = "start", !.account = account] \in TurnOf
           /\ [t EXCEPT !.at = "start", !.account = account, !.pauses = pauses] \in TurnOf
           /\ [t EXCEPT !.at = "ending", !.result = "bad", !.ran = ran] \in TurnOf
BY DEF TurnOf

\* The turn moves on, and nothing else does.
Shift ==
    /\ turn # None /\ turn' \in TurnOf
    /\ turn'.msg = turn.msg /\ turn'.given = turn.given /\ turn'.mid = turn.mid
    /\ turn'.accepted = turn.accepted /\ turn'.before = turn.before
    /\ turn'.at \in {"start", "over", "paused", "ending", "closed"}
    /\ turn'.at = "closed" => CallsDone
    /\ turn'.at = "start" => turn'.account \in 1 .. Accounts
    /\ turn'.at = "over" => turn.at = "run" /\ turn'.account = turn.account
    /\ turn'.at \in {"start", "paused"} \/ turn'.account # turn.account =>
          turn.at \in {"begun", "start", "paused"} \/ turn.accepted <= turn.before
    /\ UNCHANGED <<disk, up, opening, acts, queue, running, call, mishaps, history>>

LEMMA Shifts ==
    ASSUME Typed, Prepare \/ ProcessEnds \/ Judge \/ PauseEnds \/ CloseSocket
    PROVE  Shift
<1>1. turn # None /\ turn \in TurnOf
    BY DEF Typed, ServerTypes, Prepare, ProcessEnds, Judge, PauseEnds, CloseSocket, InTurn
<1>2. ASSUME NEW a \in 0 .. Accounts, Onward(a),
             turn.at \in {"begun", "paused"} \/ turn.accepted <= turn.before
      PROVE  Shift
  <2>1. CASE Moves([turn EXCEPT !.at = "paused"])
    BY <1>1, <1>2, <2>1 DEF Shift, Moves, TurnOf
  <2>2. ASSUME NEW b \in a + 1 .. Accounts, Moves(OnAccount(b)) PROVE Shift
    <3>b. b \in 0 .. Accounts /\ 0 \in 0 .. MaxPauses
        BY Numbers
    <3>1. OnAccount(b) \in TurnOf
        BY <1>1, <3>b, TurnTypes DEF OnAccount
    <3>2. turn' = OnAccount(b) /\ OnAccount(b) = [turn EXCEPT !.at = "start", !.account = b]
        BY <2>2 DEF Moves, OnAccount
    <3> QED
        BY <1>1, <1>2, <2>2, <3>1, <3>2 DEF Shift, Moves, TurnOf
  <2> QED
    BY <1>2, <2>1, <2>2 DEF Onward
<1>f. ASSUME Moves(Failing) PROVE Shift
  <2>b. MaxPauses \in Nat /\ 0 \in 0 .. Accounts /\ 0 \in 0 .. MaxPauses /\ (turn.seq > 0) \in BOOLEAN
    BY Numbers
  <2>1. Failing \in TurnOf
    BY <1>1, <2>b, TurnTypes DEF Failing
  <2> QED
    BY <1>1, <1>f, <2>1 DEF Shift, Moves, TurnOf, Failing
<1>3. CASE Prepare
  <2>1. CASE Moves([turn EXCEPT !.at = "ending", !.result = "bad"])
    BY <1>1, <2>1 DEF Shift, Moves, TurnOf
  <2> QED
    BY <1>2, <1>3, <2>1, Numbers DEF Prepare, InTurn
<1>4. CASE ProcessEnds
  <2>1. turn.at = "run"
    BY <1>4 DEF ProcessEnds, InTurn
  <2> QED
    BY <1>1, <1>4, <2>1 DEF ProcessEnds, Shift, Moves, TurnOf
<1>5. CASE Judge
  <2>1. CASE Moves([turn EXCEPT !.at = "ending"])
    BY <1>1, <2>1 DEF Shift, Moves, TurnOf
  <2>2. CASE ~UsedTools /\ Onward(turn.account)
    <3>1. turn.account \in 0 .. Accounts /\ turn.accepted <= turn.before
        BY <1>1, <2>2 DEF UsedTools, TurnOf
    <3> QED
        BY <1>2, <2>2, <3>1
  <2> QED
    BY <1>5, <1>f, <2>1, <2>2 DEF Judge
<1>6. CASE PauseEnds
  <2>1. ASSUME turn.pauses < MaxPauses, NEW a \in 1 .. Accounts,
               Moves([turn EXCEPT !.at = "start", !.account = a, !.pauses = @ + 1])
        PROVE  Shift
    <3>1. turn.pauses + 1 \in 0 .. MaxPauses /\ a \in 0 .. Accounts
        BY <1>1, <2>1, Numbers DEF TurnOf
    <3>2. [turn EXCEPT !.at = "start", !.account = a, !.pauses = @ + 1] \in TurnOf
        BY <1>1, <3>1, TurnTypes
    <3> QED
        BY <1>1, <1>6, <2>1, <3>2 DEF Shift, Moves, TurnOf, PauseEnds, InTurn
  <2> QED
    BY <1>6, <1>f, <2>1 DEF PauseEnds
<1>7. CASE CloseSocket
    BY <1>1, <1>7 DEF CloseSocket, Shift, Moves, TurnOf, InTurn
<1> QED
    BY <1>3, <1>4, <1>5, <1>6, <1>7

-----------------------------------------------------------------------------
(* Each step keeps the types.                                              *)

LEMMA AppendTypes ==
    ASSUME NEW line \in CallLines,
           FileTypes, Appended(line) \/ NotAppended(line)
    PROVE  /\ calls' \subseteq CallLines
           /\ torn' \subseteq {"calls", "turns"} /\ mishaps' \in 0 .. Mishaps
<1>1. calls' \subseteq CallLines /\ torn' \subseteq {"calls", "turns"}
    BY DEF FileTypes, Appended, NotAppended
<1>2. mishaps' \in 0 .. Mishaps
    BY Numbers DEF FileTypes, Appended, NotAppended, Mishap, NoMishap
<1> QED
    BY <1>1, <1>2

LEMMA AppendTurnTypes ==
    ASSUME NEW r \in TurnLines,
           FileTypes, AppendTurn(r)
    PROVE  /\ turns' \subseteq TurnLines
           /\ torn' \subseteq {"calls", "turns"} /\ mishaps' \in 0 .. Mishaps
<1>1. turns' \subseteq TurnLines /\ torn' \subseteq {"calls", "turns"}
    BY DEF FileTypes, AppendTurn
<1>2. mishaps' \in 0 .. Mishaps
    BY Numbers DEF FileTypes, AppendTurn, Mishap, NoMishap
<1> QED
    BY <1>1, <1>2

LEMMA NoteTypes ==
    ASSUME NEW m \in Ids \cup {0}, NEW n \in Nat, NEW says \in Says, FileTypes, Note(m, n, says)
    PROVE  /\ notes' \subseteq [on : (Ids \cup {0}) \X Nat, says : Says] /\ notes \subseteq notes'
           /\ unsaid' \subseteq (Ids \cup {0}) \X Nat
           /\ mishaps' \in 0 .. Mishaps
<1>1. notes' \subseteq [on : (Ids \cup {0}) \X Nat, says : Says] /\ notes \subseteq notes'
    BY DEF FileTypes, Note, With
<1>2. unsaid' \subseteq (Ids \cup {0}) \X Nat
    BY DEF FileTypes, Note
<1>3. mishaps' \in 0 .. Mishaps
    BY Numbers DEF FileTypes, Note, Mishap, NoMishap
<1> QED
    BY <1>1, <1>2, <1>3

\* The log breaks, and a sentence may be left in it.
LEMMA BreakFrame ==
    ASSUME Typed, LogBreaks \/ \E s \in Sentences : TalkLeft(s)
    PROVE  /\ opening' = [opening EXCEPT !.broken = TRUE] /\ up # "down"
           /\ opening' \in OpeningOf
           /\ UNCHANGED <<notes, turns, calls, torn, up, acts, queue, running, turn, call, heard, effects,
                         unsaid>>
           /\ mishaps' \in 0 .. Mishaps
<1>1. /\ opening' = [opening EXCEPT !.broken = TRUE] /\ up # "down"
      /\ UNCHANGED <<notes, turns, calls, torn, up, acts, queue, running, turn, call, heard, effects,
                    unsaid>>
    BY DEF LogBreaks, TalkLeft, Broken, disk, history
<1>2. opening' \in OpeningOf
    BY <1>1 DEF Typed, ServerTypes, OpeningOf
<1>3. mishaps' \in 0 .. Mishaps
    BY Numbers DEF LogBreaks, TalkLeft, Mishap, Typed, FileTypes
<1> QED
    BY <1>1, <1>2, <1>3

LEMMA BreakParts ==
    ASSUME Typed, LogBreaks \/ \E s \in Sentences : TalkLeft(s)
    PROVE  /\ opening'.broken
           /\ opening'.todo = opening.todo /\ opening'.started = opening.started
           /\ opening'.unknown = opening.unknown /\ opening'.unread = opening.unread
           /\ opening'.last = opening.last /\ opening'.dangling = opening.dangling
           /\ opening'.closed = opening.closed /\ opening'.blind = opening.blind
BY BreakFrame DEF Typed, ServerTypes, OpeningOf

LEMMA TypedLogBreaks == ASSUME Typed, LogBreaks PROVE Typed'
<1>1. log' = log
    BY DEF LogBreaks, disk
<1>2. FileTypes'
    BY <1>1, BreakFrame DEF Typed, FileTypes
<1>3. ServerTypes'
    BY <1>1, BreakFrame DEF Typed, ServerTypes, Said
<1>4. Presence'
    BY <1>1, BreakFrame DEF Typed, Presence, Newest
<1> QED
    BY <1>2, <1>3, <1>4 DEF Typed

LEMMA TypedTalkLeft == ASSUME Typed, NEW s \in Sentences, TalkLeft(s) PROVE Typed'
<1>1. /\ log \in Seq(Sentences) /\ Len(log) + 1 <= Cardinality(Sentences)
      /\ Len(log) \in Nat /\ Cardinality(Sentences) \in Nat
    BY Numbers DEF Typed, FileTypes, TalkLeft
<1>2. log' = Append(log, s) /\ Said' = 1 .. Len(log) + 1 /\ Len(log') = Len(log) + 1
    BY <1>1 DEF TalkLeft, Said
<1>3. FileTypes'
    BY <1>1, <1>2, BreakFrame DEF Typed, FileTypes
<1>4. Said \subseteq Said'
    BY <1>1, <1>2 DEF Said
<1>5. queue' \in Seq(Said')
    BY <1>4, BreakFrame, SeqMonotonic DEF Typed, ServerTypes
<1>6. \A k \in Callers : call[k] # None => call[k].took \in Seq(Said')
    BY <1>4, SeqMonotonic DEF Typed, ServerTypes
<1>7. ServerTypes'
    BY <1>4, <1>5, <1>6, BreakFrame DEF Typed, ServerTypes
<1>8. Presence'
    BY <1>1, <1>2, BreakFrame DEF Typed, Presence, Newest
<1> QED
    BY <1>3, <1>7, <1>8 DEF Typed

LEMMA TypedTalk == ASSUME Typed, NEW s \in Sentences, Talk(s) PROVE Typed'
<1>1. /\ log \in Seq(Sentences) /\ Len(log) + 1 <= Cardinality(Sentences)
      /\ Len(log) \in Nat /\ Cardinality(Sentences) \in Nat
    BY Numbers DEF Typed, FileTypes, Talk
<1>2. log' = Append(log, s) /\ Said' = 1 .. Len(log) + 1 /\ Len(log') = Len(log) + 1
    BY <1>1 DEF Talk, Said
<1>3. FileTypes'
    BY <1>1, <1>2 DEF Typed, FileTypes, Talk, history
<1>4. Said \subseteq Said' /\ Len(log) + 1 \in Said'
    BY <1>1, <1>2 DEF Said
<1>5. queue' \in Seq(Said')
    BY <1>4, SeqMonotonic, AppendProperties DEF Typed, ServerTypes, Talk
<1>6. \A k \in Callers : call[k] # None => call[k].took \in Seq(Said')
    BY <1>4, SeqMonotonic DEF Typed, ServerTypes
<1>7. ServerTypes'
    BY <1>4, <1>5, <1>6 DEF Typed, ServerTypes, Talk
<1>8. Presence'
    BY DEF Typed, Presence, Talk
<1> QED
    BY <1>3, <1>7, <1>8 DEF Typed

LEMMA FreshTypes ==
    ASSUME NEW m \in Ids PROVE Fresh(m) \in TurnOf /\ Fresh(m) # None /\ Fresh(m).msg = m /\ Fresh(m).at = "begun"
<1>1. Fresh(m) \in TurnOf
    BY Numbers DEF Fresh, TurnOf
<1> QED
    BY <1>1, NoneAssumption DEF Fresh

LEMMA TypedTakeTurn == ASSUME Typed, TakeTurn PROVE Typed'
<1>1. CASE queue # <<>> /\ up = "up"
  <2>1. /\ Head(queue) \in Said /\ Tail(queue) \in Seq(Said) /\ Head(queue) \in Ids
        /\ AppendTurn(Record(Head(queue), "running", {}))
        /\ turn' = Fresh(Head(queue)) /\ queue' = Tail(queue) /\ running' = TRUE
    BY <1>1, SaidIds DEF Typed, ServerTypes, TakeTurn
  <2>2. Record(Head(queue), "running", {}) \in TurnLines
    BY <2>1, RecordTypes
  <2>3. FileTypes'
    BY <2>1, <2>2, AppendTurnTypes DEF Typed, FileTypes, TakeTurn, history
  <2>4. ServerTypes'
    BY <2>1, FreshTypes DEF Typed, ServerTypes, TakeTurn, Said
  <2>5. Presence'
    BY <1>1, <2>1, FreshTypes DEF Typed, Presence, TakeTurn
  <2> QED
    BY <2>3, <2>4, <2>5 DEF Typed
<1>2. CASE ~(queue # <<>> /\ up = "up")
  <2>1. /\ queue' = IF queue = <<>> THEN queue ELSE Tail(queue)
        /\ running' = FALSE /\ UNCHANGED <<turns, torn, turn, mishaps>>
    BY <1>2 DEF TakeTurn
  <2>2. FileTypes'
    BY <2>1 DEF Typed, FileTypes, TakeTurn, history
  <2>3. queue' \in Seq(Said)
    BY <2>1 DEF Typed, ServerTypes
  <2>4. ServerTypes'
    BY <2>1, <2>3 DEF Typed, ServerTypes, TakeTurn, Said
  <2>5. Presence'
    BY <1>2, <2>1 DEF Typed, Presence, TakeTurn
  <2> QED
    BY <2>2, <2>4, <2>5 DEF Typed
<1> QED
    BY <1>1, <1>2

LEMMA TypedShift == ASSUME Typed, Shift PROVE Typed'
<1>1. FileTypes'
    BY DEF Typed, FileTypes, Shift, disk, history
<1>2. ServerTypes'
    BY DEF Typed, ServerTypes, Shift, disk, Said
<1>3. Presence'
    BY NoneAssumption DEF Typed, Presence, Shift, CallsDone
<1> QED
    BY <1>1, <1>2, <1>3 DEF Typed

LEMMA TypedStartAccount == ASSUME Typed, StartAccount PROVE Typed'
<1>1. turn \in TurnOf /\ turn # None /\ turn.msg \in Ids
    BY SaidIds DEF Typed, ServerTypes, StartAccount, InTurn
<1>2. /\ turn' \in TurnOf /\ turn'.msg = turn.msg /\ turn' # None
      /\ turn'.at = "run" /\ turn.at = "start" /\ turn'.account = turn.account
    BY <1>1, NoneAssumption, ZenonT(40) DEF StartAccount, TurnOf, InTurn
<1>3. heard' \in [Ids -> Nat]
    BY <1>1 DEF StartAccount, Typed, FileTypes
<1>4. FileTypes'
    BY <1>3 DEF Typed, FileTypes, StartAccount, disk
<1>5. ServerTypes'
    BY <1>1, <1>2 DEF Typed, ServerTypes, StartAccount, disk, Said
<1>6. Presence'
    BY <1>1, <1>2 DEF Typed, Presence, StartAccount
<1> QED
    BY <1>4, <1>5, <1>6 DEF Typed

LEMMA TypedSayEnd == ASSUME Typed, SayEnd PROVE Typed'
<1>1. turn \in TurnOf /\ turn # None /\ turn.msg \in Ids
    BY SaidIds DEF Typed, ServerTypes, SayEnd, InTurn
<1>2. turn' \in TurnOf /\ turn'.msg = turn.msg /\ turn' # None
    BY <1>1, NoneAssumption DEF SayEnd, TurnOf
<1>3. /\ notes' \subseteq [on : (Ids \cup {0}) \X Nat, says : Says]
      /\ unsaid' \subseteq (Ids \cup {0}) \X Nat /\ mishaps' \in 0 .. Mishaps
  <2>1. CASE notes' = notes /\ unsaid' = unsaid /\ NoMishap
    BY <2>1 DEF Typed, FileTypes, NoMishap
  <2>2. ASSUME NEW says \in {"ran", "again"}, Note(turn.msg, 0, says)
        PROVE  /\ notes' \subseteq [on : (Ids \cup {0}) \X Nat, says : Says]
               /\ unsaid' \subseteq (Ids \cup {0}) \X Nat /\ mishaps' \in 0 .. Mishaps
    <3>1. says \in Says
        BY DEF Says
    <3> QED
        BY <1>1, <2>2, <3>1, NoteTypes DEF Typed
  <2> QED
    BY <2>1, <2>2 DEF SayEnd
<1>4. FileTypes'
    BY <1>3 DEF Typed, FileTypes, SayEnd
<1>5. ServerTypes'
    BY <1>1, <1>2 DEF Typed, ServerTypes, SayEnd, Said
<1>6. Presence'
    BY <1>1, <1>2 DEF Typed, Presence, SayEnd, InTurn
<1> QED
    BY <1>4, <1>5, <1>6 DEF Typed

LEMMA TypedRecordEnd == ASSUME Typed, RecordEnd PROVE Typed'
<1>1. turn \in TurnOf /\ turn # None /\ turn.msg \in Ids /\ turn.mid \in SUBSET Ids
    BY SaidIds DEF Typed, ServerTypes, RecordEnd, InTurn, TurnOf
<1> DEFINE r == Record(turn.msg, IF turn.result = "ok" THEN "ok" ELSE "failed", turn.mid)
<1>2. r \in TurnLines
    BY <1>1, RecordTypes
<1>3. AppendTurn(r)
    BY DEF RecordEnd
<1> HIDE DEF r
<1>4. FileTypes'
    BY <1>2, <1>3, AppendTurnTypes DEF Typed, FileTypes, RecordEnd, history
<1>5. ServerTypes'
    BY DEF Typed, ServerTypes, RecordEnd, Said
<1>6. Presence'
    BY <1>1 DEF Typed, Presence, RecordEnd, InTurn
<1> QED
    BY <1>4, <1>5, <1>6 DEF Typed

\* A step that changes one call in flight.
OneCall(k, x) ==
    /\ call' = [call EXCEPT ![k] = x]
    /\ x = None \/ (x \in CallOf /\ x.took \in Seq(Said))

LEMMA OneCallTypes ==
    ASSUME Typed, NEW k \in Callers, NEW x, OneCall(k, x)
    PROVE  /\ call' \in [Callers -> CallOf \cup {None}]
           /\ \A j \in Callers : call'[j] # None => call'[j].took \in Seq(Said)
           /\ call'[k] = x /\ \A j \in Callers \ {k} : call'[j] = call[j]
BY DEF OneCall, Typed, ServerTypes

\* The call at hand, and the turn it is of.
LEMMA CallAtHand ==
    ASSUME Typed, NEW k \in Callers, NEW at, Doing(k, at)
    PROVE  /\ call[k] # None /\ call[k].at = at /\ call[k] \in CallOf /\ call[k].took \in Seq(Said)
           /\ call[k].n \in Nat /\ call[k].account \in 1 .. Accounts
           /\ turn # None /\ turn \in TurnOf /\ turn.msg \in Said /\ turn.msg \in Ids
           /\ turn.at \notin {"closed", "noted"} /\ running /\ up \in {"up", "stop"}
<1>1. call[k] # None /\ call[k].at = at /\ call[k] \in CallOf /\ call[k].took \in Seq(Said)
    BY DEF Doing, Typed, ServerTypes
<1>2. call[k].n \in Nat /\ call[k].account \in 1 .. Accounts
    BY <1>1 DEF CallOf
<1>3. turn # None /\ turn.at \notin {"closed", "noted"} /\ running /\ up \in {"up", "stop"}
    BY <1>1 DEF Typed, Presence
<1>4. turn \in TurnOf /\ turn.msg \in Said /\ turn.msg \in Ids
    BY <1>3, SaidIds DEF Typed, ServerTypes
<1> QED
    BY <1>1, <1>2, <1>3, <1>4

CallAts == {"accepted", "line", "refused", "effect", "end", "deliver", "write"}

LEMMA CallAt ==
    ASSUME NEW c \in CallOf, NEW at \in CallAts
    PROVE  LET x == [c EXCEPT !.at = at] IN
           x \in CallOf /\ x.at = at /\ x.n = c.n /\ x.account = c.account /\ x.took = c.took
BY DEF CallOf, CallAts

LEMMA CallTaking ==
    ASSUME NEW c \in CallOf, NEW took \in Seq(Ids)
    PROVE  LET x == [c EXCEPT !.took = took, !.at = "write"] IN
           x \in CallOf /\ x.at = "write" /\ x.n = c.n /\ x.account = c.account /\ x.took = took
BY DEF CallOf

LEMMA TypedAccept == ASSUME Typed, NEW k \in Callers, Accept(k) PROVE Typed'
<1>1. turn \in TurnOf /\ turn # None /\ turn.msg \in Said /\ turn.at \in {"run", "over"}
    BY DEF Typed, ServerTypes, Accept, InTurn
<1>2. turn' \in TurnOf /\ turn'.msg = turn.msg /\ turn' # None /\ turn'.at = turn.at
    BY <1>1, NoneAssumption DEF Accept, TurnOf
<1> DEFINE x == [at |-> "accepted", account |-> turn.account, n |-> 0, took |-> <<>>]
<1>3. x \in CallOf /\ x.took \in Seq(Said)
  <2>1. turn.account \in 1 .. Accounts
    BY <1>1 DEF Typed, Presence
  <2> QED
    BY <2>1, EmptySeq DEF CallOf
<1>4. OneCall(k, x)
    BY <1>3 DEF OneCall, Accept
<1> HIDE DEF x
<1>5. FileTypes'
    BY DEF Typed, FileTypes, Accept, disk, history
<1>6. ServerTypes'
    BY <1>1, <1>2, <1>4, OneCallTypes DEF Typed, ServerTypes, Accept, disk, Said
<1>7. Presence'
    BY <1>1, <1>2, <1>4, OneCallTypes DEF Typed, Presence, Accept
<1> QED
    BY <1>5, <1>6, <1>7 DEF Typed

LEMMA TypedReadRequest == ASSUME Typed, NEW k \in Callers, ReadRequest(k) PROVE Typed'
<1>1. call[k] # None /\ call[k] \in CallOf /\ call[k].took \in Seq(Said)
    BY CallAtHand DEF ReadRequest
<1>2. PICK x : /\ call' = [call EXCEPT ![k] = x]
               /\ x \in {None, [call[k] EXCEPT !.at = "line"], [call[k] EXCEPT !.at = "deliver"]}
    BY DEF ReadRequest
<1>t. ASSUME NEW at \in {"line", "deliver"}
      PROVE  LET c == [call[k] EXCEPT !.at = at] IN c \in CallOf /\ c.took = call[k].took
  <2>1. at \in CallAts
    BY DEF CallAts
  <2> QED
    BY <1>1, <2>1, CallAt
<1>3. OneCall(k, x)
    BY <1>1, <1>2, <1>t DEF OneCall
<1>4. FileTypes'
    BY DEF Typed, FileTypes, ReadRequest, disk, history
<1>5. ServerTypes'
    BY <1>3, OneCallTypes DEF Typed, ServerTypes, ReadRequest, disk, Said
<1>6. Presence'
    BY <1>1, <1>3, OneCallTypes DEF Typed, Presence, ReadRequest
<1> QED
    BY <1>4, <1>5, <1>6 DEF Typed

LEMMA TypedStartCall == ASSUME Typed, NEW k \in Callers, StartCall(k) PROVE Typed'
<1>1. /\ call[k] # None /\ call[k] \in CallOf /\ call[k].took \in Seq(Said)
      /\ turn # None /\ turn \in TurnOf /\ turn.msg \in Ids /\ turn.at \notin {"closed", "noted"}
    BY CallAtHand DEF StartCall
<1> DEFINE n == turn.seq + 1
           line == Line(turn.msg, n, "start", "none")
<1>2. n \in Nat
    BY <1>1 DEF TurnOf
<1>3. line \in CallLines /\ line.n = n
  <2> HIDE DEF n
  <2> QED
    BY <1>1, <1>2, LineTypes DEF Line
<1>4. /\ Appended(line) \/ NotAppended(line)
      /\ \E at \in {"effect", "refused"} : call' = [call EXCEPT ![k].at = at, ![k].n = n]
    BY <1>3 DEF StartCall, StartLine
<1>5. /\ turn' \in TurnOf /\ turn'.msg = turn.msg /\ turn' # None /\ turn'.at = turn.at
      /\ turn'.account = turn.account
    BY <1>1, NoneAssumption DEF StartCall, TurnOf
<1> HIDE DEF line, n
<1>6. PICK at \in {"effect", "refused"} : call' = [call EXCEPT ![k] = [call[k] EXCEPT !.at = at, !.n = n]]
    BY <1>1, <1>4 DEF CallOf
<1>t. LET c == [call[k] EXCEPT !.at = at, !.n = n] IN c \in CallOf /\ c.took = call[k].took
  <2>1. at \in CallAts
    BY DEF CallAts
  <2> QED
    BY <1>1, <1>2, <2>1 DEF CallOf, CallAts
<1>7. OneCall(k, [call[k] EXCEPT !.at = at, !.n = n])
    BY <1>1, <1>6, <1>t DEF OneCall
<1>8. FileTypes'
    BY <1>3, <1>4, AppendTypes DEF Typed, FileTypes, StartCall, history
<1>9. ServerTypes'
    BY <1>1, <1>5, <1>7, OneCallTypes DEF Typed, ServerTypes, StartCall, Said
<1>10. Presence'
    BY <1>1, <1>5, <1>7, OneCallTypes DEF Typed, Presence, StartCall
<1> QED
    BY <1>8, <1>9, <1>10 DEF Typed

LEMMA TypedEnds == ASSUME Typed, NEW k \in Callers, Refuse(k) \/ EndCall(k) PROVE Typed'
<1>1. /\ call[k] # None /\ call[k] \in CallOf /\ call[k].took \in Seq(Said) /\ call[k].n \in Nat
      /\ turn # None /\ turn.msg \in Ids
    BY CallAtHand DEF Refuse, EndCall
<1> DEFINE line == Line(turn.msg, call[k].n, "end", "known")
<1>2. line \in CallLines
    BY <1>1, LineTypes
<1>3. /\ Appended(line) \/ NotAppended(line)
      /\ UNCHANGED <<log, notes, turns, up, opening, acts, queue, running, turn, history>>
    BY DEF Refuse, EndCall, EndLine
<1> HIDE DEF line
<1>4. PICK x : call' = [call EXCEPT ![k] = x] /\ x \in {None, [call[k] EXCEPT !.at = "deliver"]}
    BY DEF Refuse, EndCall
<1>t. LET c == [call[k] EXCEPT !.at = "deliver"] IN c \in CallOf /\ c.took = call[k].took
    BY <1>1, CallAt DEF CallAts
<1>5. OneCall(k, x)
    BY <1>1, <1>4, <1>t DEF OneCall
<1>6. FileTypes'
    BY <1>2, <1>3, AppendTypes DEF Typed, FileTypes, history
<1>7. ServerTypes'
    BY <1>3, <1>5, OneCallTypes DEF Typed, ServerTypes, Said
<1>8. Presence'
    BY <1>1, <1>3, <1>5, OneCallTypes DEF Typed, Presence
<1> QED
    BY <1>6, <1>7, <1>8 DEF Typed

LEMMA TypedEffect == ASSUME Typed, NEW k \in Callers, Effect(k) PROVE Typed'
<1>1. /\ call[k] # None /\ call[k] \in CallOf /\ call[k].took \in Seq(Said) /\ call[k].n \in Nat
      /\ call[k].account \in 1 .. Accounts /\ turn # None /\ turn.msg \in Ids
    BY CallAtHand DEF Effect
<1>t. LET c == [call[k] EXCEPT !.at = "end"] IN c \in CallOf /\ c.took = call[k].took
    BY <1>1, CallAt DEF CallAts
<1>2. OneCall(k, [call[k] EXCEPT !.at = "end"])
    BY <1>1, <1>t DEF OneCall, Effect
<1> DEFINE e == [turn |-> turn.msg, n |-> call[k].n, account |-> call[k].account, past |-> FALSE]
<1>e. e \in Effects
    BY <1>1 DEF Effects
<1>f. effects' \in {effects, effects \cup {e}}
    BY DEF Effect
<1> HIDE DEF e
<1>3. effects' \subseteq Effects
    BY <1>e, <1>f DEF Typed, FileTypes
<1>4. FileTypes'
    BY <1>3 DEF Typed, FileTypes, Effect, disk
<1>5. ServerTypes'
    BY <1>2, OneCallTypes DEF Typed, ServerTypes, Effect, disk, Said
<1>6. Presence'
    BY <1>1, <1>2, OneCallTypes DEF Typed, Presence, Effect
<1> QED
    BY <1>4, <1>5, <1>6 DEF Typed

\* The queue split at the turn.
LEMMA DeliverParts ==
    ASSUME Typed, NEW k \in Callers, Deliver(k)
    PROVE  /\ OneCall(k, [call[k] EXCEPT !.took = Kept(queue, Ids \ 1 .. turn.msg), !.at = "write"])
           /\ queue' = Kept(queue, 1 .. turn.msg)
           /\ queue' \in Seq(Said) /\ Kept(queue, Ids \ 1 .. turn.msg) \in Seq(Said)
           /\ Kept(queue, Ids \ 1 .. turn.msg) \in Seq(Ids)
<1>1. call[k] # None /\ call[k] \in CallOf
    BY CallAtHand DEF Deliver
<1> DEFINE took == Kept(queue, Ids \ 1 .. turn.msg)
<1>2. call' = [call EXCEPT ![k].took = took, ![k].at = "write"] /\ queue' = Kept(queue, 1 .. turn.msg)
    BY DEF Deliver, StaysQueued
<1>3. queue' \in Seq(Said) /\ took \in Seq(Said)
    BY <1>2, KeptPart DEF Typed, ServerTypes
<1> HIDE DEF took
<1>4. took \in Seq(Ids)
    BY <1>3, SaidIds, SeqMonotonic DEF Typed
<1>5. call' = [call EXCEPT ![k] = [call[k] EXCEPT !.took = took, !.at = "write"]]
    BY <1>1, <1>2 DEF CallOf
<1>t. LET c == [call[k] EXCEPT !.took = took, !.at = "write"] IN c \in CallOf /\ c.took = took
    BY <1>1, <1>4, CallTaking
<1>6. OneCall(k, [call[k] EXCEPT !.took = took, !.at = "write"])
    BY <1>1, <1>3, <1>5, <1>t DEF OneCall
<1> QED
    BY <1>2, <1>3, <1>4, <1>6 DEF took

LEMMA TypedDeliver == ASSUME Typed, NEW k \in Callers, Deliver(k) PROVE Typed'
<1>1. call[k] # None /\ turn # None /\ running
    BY CallAtHand DEF Deliver
<1>2. PICK x : OneCall(k, x)
    BY DeliverParts
<1>3. queue' \in Seq(Said)
    BY DeliverParts
<1>4. FileTypes'
    BY DEF Typed, FileTypes, Deliver, disk, history
<1>5. ServerTypes'
    BY <1>2, <1>3, OneCallTypes DEF Typed, ServerTypes, Deliver, disk, Said
<1>6. Presence'
    BY <1>1, <1>2, OneCallTypes DEF Typed, Presence, Deliver
<1> QED
    BY <1>4, <1>5, <1>6 DEF Typed

LEMMA TypedWriteResult == ASSUME Typed, NEW k \in Callers, WriteResult(k) PROVE Typed'
<1>1. /\ call[k] # None /\ call[k].took \in Seq(Said) /\ turn # None /\ turn \in TurnOf
      /\ turn.msg \in Said /\ turn.at \notin {"closed", "noted"} /\ running
    BY CallAtHand DEF WriteResult
<1>2. OneCall(k, None)
    BY DEF OneCall, WriteResult
<1>3. ToSet(call[k].took) \subseteq Ids
    BY <1>1, SaidIds DEF ToSet, Typed
<1>4. CASE turn' = [turn EXCEPT !.mid = @ \cup ToSet(call[k].took)] /\ queue' = queue
  <2>1. turn' \in TurnOf /\ turn'.msg = turn.msg /\ turn' # None /\ turn'.at = turn.at /\ turn'.account = turn.account
    <3> DEFINE took == ToSet(call[k].took)
    <3>1. took \subseteq Ids
        BY <1>3
    <3> HIDE DEF took
    <3>2. turn.mid \cup took \in SUBSET Ids
        BY <1>1, <3>1 DEF TurnOf
    <3>3. turn' = [turn EXCEPT !.mid = turn.mid \cup took]
        BY <1>4 DEF took
    <3> QED
        BY <1>1, <3>2, <3>3, NoneAssumption DEF TurnOf
  <2>2. heard' \in [Ids -> Nat]
    <3>1. CASE heard' = heard
        BY <3>1 DEF Typed, FileTypes
    <3>2. CASE heard' # heard
      <4>1. heard' = [m \in Ids |-> IF FromLiveTree(k) /\ m \in ToSet(call[k].took) THEN heard[m] + 1 ELSE heard[m]]
        BY <3>2 DEF WriteResult
      <4>2. \A m \in Ids : heard[m] \in Nat
        BY DEF Typed, FileTypes
      <4> QED
        BY <4>1, <4>2
    <3> QED
        BY <3>1, <3>2
  <2>3. FileTypes'
    BY <2>2 DEF Typed, FileTypes, WriteResult, disk
  <2>4. ServerTypes'
    BY <1>1, <1>2, <1>4, <2>1, OneCallTypes DEF Typed, ServerTypes, WriteResult, disk, Said
  <2>5. Presence'
    BY <1>1, <1>2, <1>4, <2>1, OneCallTypes DEF Typed, Presence, WriteResult
  <2> QED
    BY <2>3, <2>4, <2>5 DEF Typed
<1>5. CASE queue' = call[k].took \o queue /\ UNCHANGED <<turn, heard>>
  <2>1. queue' \in Seq(Said)
    BY <1>1, <1>5, ConcatProperties DEF Typed, ServerTypes
  <2>3. FileTypes'
    BY <1>5 DEF Typed, FileTypes, WriteResult, disk
  <2>4. ServerTypes'
    BY <1>2, <1>5, <2>1, OneCallTypes DEF Typed, ServerTypes, WriteResult, disk, Said
  <2>5. Presence'
    BY <1>1, <1>2, <1>5, OneCallTypes DEF Typed, Presence, WriteResult
  <2> QED
    BY <2>3, <2>4, <2>5 DEF Typed
<1> QED
    BY <1>4, <1>5 DEF WriteResult

\* What is left when the server is gone.
LEMMA GoneTypes ==
    ASSUME Typed, Gone
    PROVE  /\ (Said' = Said => ServerTypes') /\ Presence'
           /\ effects' \subseteq Effects
<1>1. opening' \in OpeningOf /\ up' \in Phases
    BY DEF Gone, NothingRead, OpeningOf, Phases
<1>2. Said' = Said => ServerTypes'
    BY <1>1, EmptySeq DEF Gone, Typed, ServerTypes
<1>3. Presence'
    BY DEF Gone, Presence
<1>4. \A e \in Effects : [e EXCEPT !.past = TRUE] \in Effects
    BY DEF Effects
<1>5. effects' \subseteq Effects
    BY <1>4 DEF Gone, Typed, FileTypes
<1> QED
    BY <1>2, <1>3, <1>5

LEMMA TypedStops == ASSUME Typed, Stop \/ Stopped \/ Crash PROVE Typed'
<1>1. CASE Stop
  <2>1. FileTypes'
    BY <1>1, Numbers DEF Typed, FileTypes, Stop, Mishap, disk, history
  <2>2. ServerTypes'
    BY <1>1 DEF Typed, ServerTypes, Stop, disk, Said, Phases
  <2>3. Presence'
    BY <1>1 DEF Typed, Presence, Stop
  <2> QED
    BY <2>1, <2>2, <2>3 DEF Typed
<1>2. CASE Stopped
  <2>1. Gone /\ UNCHANGED <<disk, mishaps, heard, unsaid>>
    BY <1>2 DEF Stopped
  <2>2. FileTypes'
    BY <2>1, GoneTypes DEF Typed, FileTypes, disk
  <2> QED
    BY <2>1, <2>2, GoneTypes DEF Typed, disk, Said
<1>3. CASE Crash
  <2>1. /\ Gone /\ Mishap /\ UNCHANGED <<log, notes, turns, calls, heard, unsaid>>
        /\ torn' \subseteq {"calls", "turns"}
    BY <1>3 DEF Crash, Writing, Typed, FileTypes
  <2>m. mishaps' \in 0 .. Mishaps
    BY <2>1, Numbers DEF Typed, FileTypes, Mishap
  <2>2. FileTypes'
    BY <2>1, <2>m, GoneTypes DEF Typed, FileTypes
  <2> QED
    BY <2>1, <2>2, GoneTypes DEF Typed, Said
<1> QED
    BY <1>1, <1>2, <1>3

\* Before a step of the open nothing is in memory.
LEMMA OpenQuiet ==
    ASSUME Typed, up \notin {"up", "stop"}
    PROVE  turn = None /\ queue = <<>> /\ ~running /\ \A k \in Callers : call[k] = None
BY DEF Typed, Presence

\* A step of the open keeps the rest of the types.
LEMMA OpenTypes ==
    ASSUME Typed, up \notin {"up", "stop"}, up' \in Phases, opening' \in OpeningOf,
           acts' \subseteq Sentences, UNCHANGED <<log, queue, running, turn, call>>, FileTypes',
           up' = "record" => Newest # 0
    PROVE  Typed'
<1>1. ServerTypes'
    BY DEF Typed, ServerTypes, Said
<1>2. Presence'
    BY OpenQuiet DEF Typed, Presence, Newest
<1> QED
    BY <1>1, <1>2 DEF Typed

LEMMA TypedReadCalls == ASSUME Typed, ReadCalls PROVE Typed'
<1>1. /\ up \notin {"up", "stop"} /\ up' \in Phases
      /\ UNCHANGED <<log, turns, calls, queue, running, turn, call, history>>
    BY DEF ReadCalls, Phases
<1>r. up' # "record"
    BY DEF ReadCalls
<1>2. acts' \subseteq Sentences
    BY SaidIds DEF ReadCalls, ToSet, Typed, Said
<1>3. DanglingCalls \subseteq CallLines /\ TurnsStarted \subseteq Ids
    BY DEF Typed, FileTypes, DanglingCalls, TurnsStarted, Starts, CallLines
<1>4. opening' \in OpeningOf
  <2>1. CASE opening' = [NothingRead EXCEPT !.todo = DanglingCalls, !.started = TurnsStarted]
    BY <1>3, <2>1 DEF NothingRead, OpeningOf
  <2>2. CASE opening' = [NothingRead EXCEPT !.unread = TRUE]
    BY <2>2 DEF NothingRead, OpeningOf
  <2> QED
    BY <2>1, <2>2 DEF ReadCalls
<1>5. notes' \subseteq [on : (Ids \cup {0}) \X Nat, says : Says]
  <2>1. CASE notes' = notes
    BY <2>1 DEF Typed, FileTypes
  <2>2. CASE notes' = With(0, 0, "unread")
    <3>1. [on |-> <<0, 0>>, says |-> "unread"] \in [on : (Ids \cup {0}) \X Nat, says : Says]
        BY DEF Says
    <3> QED
        BY <2>2, <3>1 DEF Typed, FileTypes, With
  <2> QED
    BY <2>1, <2>2 DEF ReadCalls
<1>6. torn' \subseteq {"calls", "turns"}
    BY DEF ReadCalls, Typed, FileTypes
<1>7. mishaps' \in 0 .. Mishaps
    BY Numbers DEF ReadCalls, Typed, FileTypes, Mishap, NoMishap
<1>8. FileTypes'
    BY <1>1, <1>5, <1>6, <1>7 DEF Typed, FileTypes, history
<1> QED
    BY <1>1, <1>r, <1>2, <1>4, <1>8, OpenTypes

\* The two steps of a call that is settled.
LEMMA SettleSteps ==
    ASSUME Settle
    PROVE  /\ UNCHANGED <<log, turns, acts, queue, running, turn, call, heard, effects>>
           /\ \/ up = "settle" /\ up' = "turns" /\ opening.todo = {}
                 /\ UNCHANGED <<notes, calls, torn, mishaps, opening, unsaid>>
              \/ up = "settle" /\ up' = "told"
                 /\ \E c \in opening.todo :
                       /\ Note(c.turn, c.n, "unknown") /\ UNCHANGED <<calls, torn>>
                       /\ opening' = [opening EXCEPT !.unknown = @ \cup {NumberOf(c)}]
              \/ up = "told" /\ up' = "settle"
                 /\ \E c \in opening.todo :
                       /\ NumberOf(c) \in opening.unknown
                       /\ \/ Appended(Line(c.turn, c.n, "end", "unknown"))
                          \/ NotAppended(Line(c.turn, c.n, "end", "unknown"))
                       /\ notes' = notes /\ unsaid' = unsaid
                       /\ opening' = [opening EXCEPT !.todo = @ \ {c}]
BY DEF Settle, SettleCall, Tell, EndUnknown

LEMMA TypedSettle == ASSUME Typed, Settle PROVE Typed'
<1>1. /\ up \notin {"up", "stop"} /\ up' \in Phases /\ up' # "record" /\ opening \in OpeningOf
      /\ UNCHANGED <<log, turns, acts, queue, running, turn, call, heard, effects>>
    BY SettleSteps DEF Phases, Typed, ServerTypes
<1>2. \A c \in opening.todo : c.turn \in Ids /\ c.n \in Nat
    BY <1>1 DEF OpeningOf, CallLines
<1>3. opening' \in OpeningOf /\ FileTypes'
  <2>1. CASE UNCHANGED <<notes, calls, torn, mishaps, opening, unsaid>>
    BY <1>1, <2>1 DEF Typed, FileTypes
  <2>2. ASSUME NEW c \in opening.todo, Note(c.turn, c.n, "unknown"), UNCHANGED <<calls, torn>>,
               opening' = [opening EXCEPT !.unknown = @ \cup {NumberOf(c)}]
        PROVE  opening' \in OpeningOf /\ FileTypes'
    <3>1. NumberOf(c) \in Ids \X Nat
        BY <1>2 DEF NumberOf
    <3>2. opening' \in OpeningOf
        BY <1>1, <2>2, <3>1 DEF OpeningOf
    <3>3. "unknown" \in Says
        BY DEF Says
    <3>4. /\ notes' \subseteq [on : (Ids \cup {0}) \X Nat, says : Says]
          /\ unsaid' \subseteq (Ids \cup {0}) \X Nat /\ mishaps' \in 0 .. Mishaps
        BY <1>2, <2>2, <3>3, NoteTypes DEF Typed
    <3> QED
        BY <1>1, <2>2, <3>2, <3>4 DEF Typed, FileTypes
  <2>3. ASSUME NEW c \in opening.todo, notes' = notes, unsaid' = unsaid,
               Appended(Line(c.turn, c.n, "end", "unknown")) \/ NotAppended(Line(c.turn, c.n, "end", "unknown")),
               opening' = [opening EXCEPT !.todo = @ \ {c}]
        PROVE  opening' \in OpeningOf /\ FileTypes'
    <3>1. opening' \in OpeningOf
        BY <1>1, <2>3 DEF OpeningOf
    <3>2. Line(c.turn, c.n, "end", "unknown") \in CallLines
        BY <1>2, LineTypes
    <3> QED
        BY <1>1, <2>3, <3>1, <3>2, AppendTypes DEF Typed, FileTypes
  <2> QED
    BY <2>1, <2>2, <2>3, SettleSteps
<1> QED
    BY <1>1, <1>3, OpenTypes DEF Typed, ServerTypes

\* The greatest message that is done with.
LEMMA LastDone ==
    ASSUME FileTypes
    PROVE  /\ Max(DoneMessages \cup {0}) \in Nat
           /\ \A m \in DoneMessages : m <= Max(DoneMessages \cup {0})
<1> DEFINE S == DoneMessages \cup {0}
<1>1. DoneMessages \subseteq Ids
    BY DEF FileTypes, TurnLines, DoneMessages, DoneByTurn
<1>2. S \in SUBSET (0 .. Cardinality(Sentences)) /\ S # {} /\ DoneMessages \subseteq S
    BY <1>1, Numbers DEF Ids
<1> HIDE DEF S
<1>3. Max(S) \in S /\ \A m \in S : m <= Max(S)
    BY <1>2, Numbers, GreatestNat
<1>s. S \subseteq Nat
    BY <1>2, Numbers
<1>4. Max(S) \in Nat
    BY <1>3, <1>s
<1>5. \A m \in DoneMessages : m <= Max(S)
    BY <1>2, <1>3
<1> QED
    BY <1>4, <1>5 DEF S

LEMMA TypedReadTurns == ASSUME Typed, ReadTurns PROVE Typed'
<1>1. /\ up \notin {"up", "stop"} /\ up' \in Phases /\ up' # "record" /\ opening \in OpeningOf
      /\ UNCHANGED <<disk, acts, queue, running, turn, call, history>>
    BY DEF ReadTurns, Phases, Typed, ServerTypes
<1>2. opening' \in OpeningOf
  <2> DEFINE last == Max(DoneMessages \cup {0})
             dangling == {r \in turns : r.status = "running" /\ r.msg \notin DoneByTurn}
  <2>1. last \in Nat /\ dangling \subseteq TurnLines
    BY LastDone DEF Typed, FileTypes
  <2>2. opening' = [opening EXCEPT !.last = last, !.dangling = dangling] \/ opening' = [opening EXCEPT !.blind = TRUE]
    BY DEF ReadTurns
  <2> HIDE DEF last, dangling
  <2> QED
    BY <1>1, <2>1, <2>2 DEF OpeningOf
<1>3. mishaps' \in 0 .. Mishaps
    BY Numbers DEF ReadTurns, Typed, FileTypes, Mishap, NoMishap
<1>4. FileTypes'
    BY <1>1, <1>3 DEF Typed, FileTypes, disk, history
<1> QED
    BY <1>1, <1>2, <1>4, OpenTypes DEF Typed, ServerTypes, disk

\* The turn that is closed next, and its record.
LEMMA ClosedTurn ==
    ASSUME Typed, CloseTurns, opening.dangling # {}
    PROVE  \E r \in opening.dangling :
              /\ AppendTurn([r EXCEPT !.status = "failed"]) /\ r \in TurnLines
              /\ opening' = [opening EXCEPT !.dangling = @ \ {r}, !.closed = @ \cup {r.msg}]
              /\ up' = up
<1> DEFINE D == opening.dangling
<1>1. D \subseteq TurnLines /\ D # {}
    BY DEF Typed, ServerTypes, OpeningOf
<1> HIDE DEF D
<1>2. {r.msg : r \in D} \in SUBSET Nat /\ {r.msg : r \in D} # {}
    BY <1>1, Numbers DEF TurnLines
<1>n. PICK n \in {r.msg : r \in D} : \A m \in {r.msg : r \in D} : n <= m
    BY <1>2, LeastNat
<1>3. \E r \in D : \A q \in D : r.msg <= q.msg
    BY <1>n
<1> DEFINE r == CHOOSE r \in D : \A q \in D : r.msg <= q.msg
<1>4. r \in D
    BY <1>3
<1>5. /\ AppendTurn([r EXCEPT !.status = "failed"]) /\ up' = up
      /\ opening' = [opening EXCEPT !.dangling = @ \ {r}, !.closed = @ \cup {r.msg}]
    BY DEF CloseTurns, D
<1> HIDE DEF r
<1> QED
    BY <1>1, <1>4, <1>5 DEF D

LEMMA TypedCloseTurns == ASSUME Typed, CloseTurns PROVE Typed'
<1>1. /\ up \notin {"up", "stop"} /\ up' # "record" /\ opening \in OpeningOf
      /\ UNCHANGED <<log, notes, calls, acts, queue, running, turn, call, history>>
    BY DEF CloseTurns, Typed, ServerTypes
<1>2. CASE opening.dangling = {}
  <2>1. up' \in Phases /\ UNCHANGED <<turns, torn, mishaps, opening>>
    BY <1>2 DEF CloseTurns, Phases
  <2>2. FileTypes'
    BY <1>1, <2>1 DEF Typed, FileTypes, history
  <2> QED
    BY <1>1, <2>1, <2>2, OpenTypes DEF Typed, ServerTypes
<1>3. CASE opening.dangling # {}
  <2>1. PICK r \in opening.dangling :
            /\ AppendTurn([r EXCEPT !.status = "failed"]) /\ r \in TurnLines
            /\ opening' = [opening EXCEPT !.dangling = @ \ {r}, !.closed = @ \cup {r.msg}]
            /\ up' = up
    BY <1>3, ClosedTurn
  <2>2. [r EXCEPT !.status = "failed"] \in TurnLines /\ r.msg \in Ids
    BY <2>1 DEF TurnLines
  <2>3. opening' \in OpeningOf
    BY <1>1, <2>1, <2>2 DEF OpeningOf
  <2>4. FileTypes'
    BY <1>1, <2>1, <2>2, AppendTurnTypes DEF Typed, FileTypes, history
  <2> QED
    BY <1>1, <2>1, <2>3, <2>4, OpenTypes DEF Typed, ServerTypes
<1> QED
    BY <1>2, <1>3

LEMMA NewestSaid ==
    ASSUME Typed, Newest > opening.last
    PROVE  Newest \in Said /\ Newest \in Ids
BY SaidIds DEF Typed, ServerTypes, OpeningOf, Newest

LEMMA TypedNoteNewest == ASSUME Typed, NoteNewest PROVE Typed'
<1>r. up' = "record" => Newest # 0
    BY NewestSaid, Numbers DEF NoteNewest
<1>1. /\ up \notin {"up", "stop"} /\ up' \in Phases
      /\ UNCHANGED <<log, turns, calls, torn, opening, acts, queue, running, turn, call, heard, effects>>
    BY DEF NoteNewest, Phases
<1>2. /\ notes' \subseteq [on : (Ids \cup {0}) \X Nat, says : Says]
      /\ unsaid' \subseteq (Ids \cup {0}) \X Nat /\ mishaps' \in 0 .. Mishaps
  <2>1. CASE Newest > opening.last /\ Note(Newest, 0, Telling(Newest))
    <3>1. Telling(Newest) \in Says
        BY DEF Telling, Says
    <3> QED
        BY <2>1, <3>1, NewestSaid, NoteTypes DEF Typed
  <2>2. CASE notes' = notes /\ unsaid' = unsaid /\ NoMishap
    BY <2>2 DEF Typed, FileTypes, NoMishap
  <2> QED
    BY <2>1, <2>2 DEF NoteNewest
<1>3. FileTypes'
    BY <1>1, <1>2 DEF Typed, FileTypes
<1> QED
    BY <1>1, <1>r, <1>3, OpenTypes DEF Typed, ServerTypes

LEMMA TypedRecordNewest == ASSUME Typed, RecordNewest PROVE Typed'
<1>1. /\ up \notin {"up", "stop"} /\ up' \in Phases /\ up = "record" /\ up' = "up"
      /\ UNCHANGED <<log, notes, calls, opening, acts, queue, running, turn, call, history>>
    BY DEF RecordNewest, Phases
<1>2. FileTypes'
  <2>1. CASE UNCHANGED <<turns, torn, mishaps>>
    BY <1>1, <2>1 DEF Typed, FileTypes, history
  <2>2. CASE AppendTurn(Record(Newest, "failed", {}))
    <3>n. Newest \in Ids
        BY <1>1, SaidIds DEF Typed, Presence, Newest
    <3>1. Record(Newest, "failed", {}) \in TurnLines
        BY <3>n, RecordTypes
    <3> QED
        BY <1>1, <2>2, <3>1, AppendTurnTypes DEF Typed, FileTypes, history
  <2> QED
    BY <2>1, <2>2 DEF RecordNewest
<1> QED
    BY <1>1, <1>2, OpenTypes DEF Typed, ServerTypes

LEMMA NextTyped == Typed /\ [Next]_vars => Typed'
<1> SUFFICES ASSUME Typed, [Next]_vars PROVE Typed'
    OBVIOUS
<1>1. ASSUME NEW s \in Sentences, Talk(s) PROVE Typed'
    BY <1>1, TypedTalk
<1>2. CASE Runner
    BY <1>2, TypedTakeTurn, Shifts, TypedShift, TypedStartAccount, TypedSayEnd, TypedRecordEnd DEF Runner
<1>3. ASSUME NEW k \in Callers, Accept(k) \/ Serve(k) PROVE Typed'
    BY <1>3, TypedAccept, TypedReadRequest, TypedStartCall, TypedEnds, TypedEffect, TypedDeliver,
       TypedWriteResult DEF Serve
<1>4. CASE Stop \/ Stopped \/ Crash
    BY <1>4, TypedStops
<1>5. CASE Open
    BY <1>5, TypedReadCalls, TypedSettle, TypedReadTurns, TypedCloseTurns, TypedNoteNewest,
       TypedRecordNewest DEF Open
<1>6. CASE UNCHANGED vars
  <2>1. FileTypes'
    BY <1>6 DEF Typed, FileTypes, vars, disk, memory, history
  <2>2. ServerTypes'
    BY <1>6 DEF Typed, ServerTypes, vars, disk, memory, history, Said
  <2>3. Presence'
    BY <1>6 DEF Typed, Presence, vars, disk, memory, history, Newest
  <2> QED
    BY <2>1, <2>2, <2>3 DEF Typed
<1>7. ASSUME NEW s \in Sentences, TalkLeft(s) PROVE Typed'
    BY <1>7, TypedTalkLeft
<1> QED
    BY <1>1, <1>2, <1>3, <1>4, <1>5, <1>6, <1>7, TypedLogBreaks DEF Next

\* Every value of a run has the type the model declares for it, and a turn, a call and a waiting
\* message have the thread that serves them.
THEOREM TurnTypesHold == Spec => []TypeOK
<1>1. ASSUME Typed PROVE TypeOK
  <2>1. queue \in Seq(Ids)
    BY <1>1, SaidIds, SeqMonotonic DEF Typed, ServerTypes
  <2>2. \A m \in Ids : heard[m] \in Nat
    BY <1>1 DEF Typed, FileTypes
  <2> QED
    BY <1>1, <2>1, <2>2 DEF Typed, FileTypes, ServerTypes, Presence, TypeOK, CallLines, TurnLines, Effects, Said
<1> QED
    BY <1>1, InitTyped, NextTyped, PTL DEF Spec

-----------------------------------------------------------------------------
(* What each part of a step leaves alone.                                  *)

LEMMA RunnerFrame ==
    ASSUME Typed, Runner
    PROVE  /\ UNCHANGED <<log, calls, up, opening, acts, call, effects>>
           /\ TakeTurn \/ Shift \/ StartAccount \/ SayEnd \/ RecordEnd
<1>1. TakeTurn \/ Shift \/ StartAccount \/ SayEnd \/ RecordEnd
    BY Shifts DEF Runner
<1>2. ASSUME Shift \/ StartAccount PROVE UNCHANGED <<log, calls, up, opening, acts, call, effects>>
    BY <1>2 DEF Shift, StartAccount, disk, history
<1>3. ASSUME TakeTurn \/ SayEnd \/ RecordEnd PROVE UNCHANGED <<log, calls, up, opening, acts, call, effects>>
    BY <1>3 DEF TakeTurn, SayEnd, RecordEnd, disk, history
<1> QED
    BY <1>1, <1>2, <1>3

\* The turn that serves a call stays the same turn.
LEMMA RunnerTurn ==
    ASSUME Typed, Runner, NEW k \in Callers, call[k] # None
    PROVE  turn'.msg = turn.msg
<1>1. turn # None /\ turn \in TurnOf /\ turn.at # "noted"
    BY DEF Typed, Presence, ServerTypes
<1>2. ~TakeTurn /\ ~RecordEnd
    BY <1>1 DEF TakeTurn, RecordEnd, InTurn
<1>3. CASE Shift
    BY <1>3 DEF Shift
<1>4. CASE StartAccount \/ SayEnd
    BY <1>1, <1>4 DEF StartAccount, SayEnd, TurnOf
<1> QED
    BY <1>2, <1>3, <1>4, RunnerFrame

LEMMA ServeFrame ==
    ASSUME NEW k \in Callers, Accept(k) \/ Serve(k)
    PROVE  /\ UNCHANGED <<log, notes, turns, up, opening, acts, running, unsaid>>
           /\ calls \subseteq calls'
<1>1. ASSUME StartCall(k) \/ Refuse(k) \/ EndCall(k)
      PROVE  UNCHANGED <<log, notes, turns, up, opening, acts, running, unsaid>> /\ calls \subseteq calls'
    BY <1>1 DEF StartCall, StartLine, Refuse, EndCall, EndLine, Appended, NotAppended, history
<1>2. ASSUME Accept(k) \/ ReadRequest(k) \/ Effect(k) \/ Deliver(k) \/ WriteResult(k)
      PROVE  UNCHANGED <<log, notes, turns, up, opening, acts, running, unsaid>> /\ calls \subseteq calls'
    BY <1>2 DEF Accept, ReadRequest, Effect, Deliver, WriteResult, disk, history
<1> QED
    BY <1>1, <1>2 DEF Serve

LEMMA ServeTurn ==
    ASSUME Typed, NEW k \in Callers, Accept(k) \/ Serve(k)
    PROVE  /\ turn # None /\ turn \in TurnOf /\ turn.msg \in Said /\ turn' # None
           /\ turn'.msg = turn.msg /\ turn'.at = turn.at /\ turn'.account = turn.account
           /\ turn'.given = turn.given /\ turn'.before = turn.before
           /\ turn'.accepted = IF Accept(k) THEN turn.accepted + 1 ELSE turn.accepted
           /\ \A j \in Callers \ {k} : call'[j] = call[j]
<1>1. turn # None /\ turn \in TurnOf /\ turn.msg \in Said
  <2>1. turn # None
    BY CallAtHand DEF Accept, Serve, InTurn, ReadRequest, StartCall, Refuse, Effect, EndCall, Deliver,
                      WriteResult
  <2> QED
    BY <2>1 DEF Typed, ServerTypes
<1>2. \A j \in Callers \ {k} : call'[j] = call[j]
    BY DEF Accept, Serve, ReadRequest, StartCall, StartLine, Refuse, Effect, EndCall, Deliver, WriteResult,
           Typed, ServerTypes
<1>3. CASE Accept(k)
    BY <1>1, <1>2, <1>3, NoneAssumption DEF Accept, TurnOf
<1>n. ASSUME Serve(k) PROVE ~Accept(k)
    BY <1>n DEF Serve, Accept, ReadRequest, StartCall, Refuse, Effect, EndCall, Deliver, WriteResult, Doing
<1>4. CASE ReadRequest(k) \/ Refuse(k) \/ Effect(k) \/ EndCall(k) \/ Deliver(k)
  <2>1. turn' = turn
    BY <1>4 DEF ReadRequest, Refuse, Effect, EndCall, Deliver
  <2> QED
    BY <1>1, <1>2, <1>4, <1>n, <2>1 DEF Serve
<1>5. CASE StartCall(k)
  <2>1. turn' = [turn EXCEPT !.seq = turn.seq + 1]
    BY <1>5 DEF StartCall
  <2> QED
    BY <1>1, <1>2, <1>5, <1>n, <2>1, NoneAssumption DEF TurnOf, Serve
<1>6. CASE WriteResult(k)
  <2> DEFINE took == ToSet(call[k].took)
  <2>1. took \subseteq Ids
    BY <1>6, CallAtHand, SaidIds DEF WriteResult, ToSet, Typed
  <2> HIDE DEF took
  <2>2. turn' = turn \/ turn' = [turn EXCEPT !.mid = turn.mid \cup took]
    BY <1>6 DEF WriteResult, took
  <2>3. turn.mid \cup took \in SUBSET Ids
    BY <1>1, <2>1 DEF TurnOf
  <2>4. /\ turn' # None /\ turn'.msg = turn.msg /\ turn'.at = turn.at /\ turn'.account = turn.account
        /\ turn'.given = turn.given /\ turn'.before = turn.before /\ turn'.accepted = turn.accepted
    BY <1>1, <2>2, <2>3, NoneAssumption DEF TurnOf
  <2> QED
    BY <1>1, <1>2, <1>6, <1>n, <2>4 DEF Serve
<1> QED
    BY <1>3, <1>4, <1>5, <1>6 DEF Serve

LEMMA OpenFrame ==
    ASSUME Open
    PROVE  /\ UNCHANGED <<log, queue, running, turn, call, heard, effects>> /\ up \notin {"up", "stop"}
           /\ acts' = IF up = "down" THEN ToSet(log) ELSE acts
           /\ up' # "down" /\ calls \subseteq calls' /\ notes \subseteq notes' /\ unsaid \subseteq unsaid'
<1>1. CASE ReadCalls
    BY <1>1 DEF ReadCalls, With, history
<1>2. CASE Settle
    BY <1>2, SettleSteps DEF Note, With, Appended, NotAppended
<1>3. CASE ReadTurns \/ CloseTurns
    BY <1>3 DEF ReadTurns, CloseTurns, disk, history
<1>4. CASE NoteNewest \/ RecordNewest
    BY <1>4 DEF NoteNewest, RecordNewest, Note, With, history
<1> QED
    BY <1>1, <1>2, <1>3, <1>4 DEF Open

\* A log that takes no more stays so while the chat is opened.
LEMMA OpenBroken ==
    ASSUME Typed, Open, up # "down"
    PROVE  opening'.broken = opening.broken
<1>1. opening \in OpeningOf /\ ~ReadCalls
    BY DEF Typed, ServerTypes, ReadCalls
<1>2. CASE Settle
    BY <1>1, <1>2, SettleSteps DEF OpeningOf
<1>3. CASE ReadTurns \/ CloseTurns
    BY <1>1, <1>3 DEF ReadTurns, CloseTurns, OpeningOf
<1>4. CASE NoteNewest \/ RecordNewest
    BY <1>4 DEF NoteNewest, RecordNewest
<1> QED
    BY <1>1, <1>2, <1>3, <1>4 DEF Open

LEMMA StopsFrame ==
    ASSUME Stop \/ Stopped \/ Crash
    PROVE  /\ UNCHANGED <<log, notes, turns, calls, heard, unsaid>>
           /\ \/ up = "up" /\ up' = "stop"
                 /\ UNCHANGED <<opening, acts, queue, running, turn, call, effects>>
              \/ Gone
BY DEF Stop, Stopped, Crash, disk, history

-----------------------------------------------------------------------------
(* A sentence is logged once.                                              *)

LEMMA InitKnown == Init => KnownSentences
BY DEF Init, KnownSentences, LoggedOnce

LEMMA NextKnown == Typed /\ KnownSentences /\ [Next]_vars => KnownSentences'
<1> SUFFICES ASSUME Typed, KnownSentences, [Next]_vars PROVE KnownSentences'
    OBVIOUS
<1>1. ASSUME NEW s \in Sentences, Talk(s) \/ TalkLeft(s)
      PROVE  LoggedOnce' /\ (acts' = acts \cup {s} => acts' = ToSet(log'))
  <2>1. log' = Append(log, s) /\ s \notin acts /\ up = "up" /\ ~opening.broken /\ log \in Seq(Sentences)
    BY <1>1 DEF Talk, TalkLeft, Known, Typed, FileTypes
  <2>2. acts = {log[i] : i \in DOMAIN log}
    BY <2>1 DEF KnownSentences, ToSet
  <2>3. /\ DOMAIN log' = 1 .. Len(log) + 1 /\ DOMAIN log = 1 .. Len(log) /\ Len(log) \in Nat
        /\ log'[Len(log) + 1] = s /\ \A i \in 1 .. Len(log) : log'[i] = log[i]
    BY <2>1
  <2>4. LoggedOnce'
    <3>1. \A i \in DOMAIN log : log[i] # s
        BY <2>1, <2>2
    <3>2. ASSUME NEW i \in 1 .. Len(log) + 1, NEW j \in 1 .. Len(log) + 1, log'[i] = log'[j] PROVE i = j
      <4>1. CASE i \in 1 .. Len(log) /\ j \in 1 .. Len(log)
        BY <2>3, <3>2, <4>1 DEF KnownSentences, LoggedOnce
      <4>2. CASE i = Len(log) + 1 \/ j = Len(log) + 1
        BY <2>3, <3>1, <3>2, <4>2
      <4> QED
        BY <2>3, <4>1, <4>2
    <3> QED
        BY <2>3, <3>2 DEF LoggedOnce
  <2>5. acts' = acts \cup {s} => acts' = {log'[i] : i \in DOMAIN log'}
    BY <2>1, <2>2, <2>3
  <2> QED
    BY <2>4, <2>5 DEF ToSet
<1>t. ASSUME NEW s \in Sentences, Talk(s) PROVE KnownSentences'
    BY <1>1, <1>t DEF KnownSentences, Talk
<1>l. ASSUME NEW s \in Sentences, TalkLeft(s) PROVE KnownSentences'
    BY <1>1, <1>l, BreakParts DEF KnownSentences
<1>b. ASSUME LogBreaks PROVE KnownSentences'
    BY <1>b, BreakParts DEF KnownSentences, LoggedOnce, LogBreaks, disk
<1>2. ASSUME UNCHANGED <<log, up, opening, acts>> PROVE KnownSentences'
    BY <1>2 DEF KnownSentences, LoggedOnce, ToSet
<1>3. CASE Stop \/ Stopped \/ Crash
    BY <1>3, StopsFrame DEF KnownSentences, LoggedOnce, ToSet, Gone
<1>4. CASE Open
    BY <1>4, OpenFrame, OpenBroken DEF KnownSentences, LoggedOnce, ToSet
<1>5. ASSUME UNCHANGED vars PROVE KnownSentences'
    BY <1>2, <1>5 DEF vars, disk, memory
<1> QED
    BY <1>t, <1>l, <1>b, <1>2, <1>3, <1>4, <1>5, RunnerFrame, ServeFrame DEF Next

\* However often a sentence is sent, over crashes and restarts, the log has it once (FM-R-65).
THEOREM SentencesLoggedOnce == Spec => []LoggedOnce
<1>1. KnownSentences => LoggedOnce
    BY DEF KnownSentences
<1> QED
    BY <1>1, InitTyped, NextTyped, InitKnown, NextKnown, PTL DEF Spec

-----------------------------------------------------------------------------
(* An effect has its start line on disk.                                   *)

LEMMA IntentStays ==
    ASSUME Intent, calls \subseteq calls',
           \A e \in effects' : \E f \in effects : f.turn = e.turn /\ f.n = e.n,
           \A k \in Callers : Doing(k, "effect")' =>
              Doing(k, "effect") /\ call'[k].n = call[k].n /\ turn'.msg = turn.msg
    PROVE  Intent'
<1>1. Starts \subseteq Starts'
    BY DEF Starts
<1>2. IntentFirst'
    BY <1>1 DEF Intent, IntentFirst
<1>3. ASSUME NEW k \in Callers, Doing(k, "effect")'
      PROVE  \E c \in Starts' : c.turn = turn'.msg /\ c.n = call'[k].n
    BY <1>1, <1>3 DEF Intent
<1> QED
    BY <1>2, <1>3 DEF Intent

\* What has happened stays, and is of the past when the server is gone.
LEMMA PastEffects ==
    ASSUME Typed, Gone
    PROVE  /\ \A e \in effects' : e.past /\ \E f \in effects : f.turn = e.turn /\ f.n = e.n /\ f.account = e.account
           /\ \A k \in Callers : call'[k] = None
<1>1. \A f \in Effects : [f EXCEPT !.past = TRUE].turn = f.turn /\ [f EXCEPT !.past = TRUE].n = f.n
                         /\ [f EXCEPT !.past = TRUE].account = f.account /\ [f EXCEPT !.past = TRUE].past
    BY DEF Effects
<1>2. effects \subseteq Effects /\ effects' = {[e EXCEPT !.past = TRUE] : e \in effects}
    BY DEF Gone, Typed, FileTypes
<1>3. \A e \in effects' : e.past /\ \E f \in effects : f.turn = e.turn /\ f.n = e.n /\ f.account = e.account
  <2> TAKE e \in effects'
  <2>1. PICK f \in effects : e = [f EXCEPT !.past = TRUE]
    BY <1>2
  <2>2. f \in Effects
    BY <1>2
  <2> QED
    BY <1>1, <2>1, <2>2
<1> QED
    BY <1>3 DEF Gone

\* A call that only moves on.
LEMMA CallMoves ==
    ASSUME Typed, NEW k \in Callers, call[k] # None, NEW at \in CallAts, call' = [call EXCEPT ![k].at = at]
    PROVE  /\ call'[k] # None /\ call'[k].at = at
           /\ call'[k].took = call[k].took /\ call'[k].account = call[k].account
<1> DEFINE x == [call[k] EXCEPT !.at = at]
<1>1. call'[k] = x /\ call[k] \in CallOf
    BY DEF Typed, ServerTypes
<1>2. x \in CallOf /\ x.at = at /\ x.took = call[k].took /\ x.account = call[k].account
    BY <1>1 DEF CallOf, CallAts
<1> HIDE DEF x
<1> QED
    BY <1>1, <1>2, NoneAssumption

\* A step of a call that has no effect and does not come to have one.
LEMMA OtherCallSteps ==
    ASSUME Typed, NEW k \in Callers,
           Accept(k) \/ ReadRequest(k) \/ Refuse(k) \/ EndCall(k) \/ Deliver(k) \/ WriteResult(k)
    PROVE  /\ effects' = effects /\ ~Doing(k, "effect")'
<1>1. CASE Accept(k)
    BY <1>1, NoneAssumption DEF Accept, Doing, history, Typed, ServerTypes
<1>2. CASE Refuse(k) \/ WriteResult(k)
    BY <1>2 DEF Refuse, WriteResult, Doing, history, Typed, ServerTypes
<1>3. ASSUME NEW at \in CallAts \ {"effect"}, Doing(k, "accepted") \/ Doing(k, "end"),
             call' = [call EXCEPT ![k].at = at]
      PROVE  ~Doing(k, "effect")'
    BY <1>3, CallMoves DEF Doing
<1>4. CASE ReadRequest(k)
  <2>1. CASE call' = [call EXCEPT ![k] = None]
    BY <1>4, <2>1 DEF ReadRequest, Doing, history, Typed, ServerTypes
  <2>2. CASE call' = [call EXCEPT ![k].at = "line"] \/ call' = [call EXCEPT ![k].at = "deliver"]
    BY <1>3, <1>4, <2>2 DEF ReadRequest, history, CallAts
  <2> QED
    BY <1>4, <2>1, <2>2 DEF ReadRequest
<1>5. CASE EndCall(k)
    BY <1>3, <1>5 DEF EndCall, history, CallAts
<1>6. CASE Deliver(k)
  <2>1. call[k] \in CallOf
    BY <1>6, CallAtHand DEF Deliver
  <2> DEFINE took == Kept(queue, Ids \ 1 .. turn.msg)
  <2>2. took \in Seq(Ids) /\ OneCall(k, [call[k] EXCEPT !.took = took, !.at = "write"])
    BY <1>6, DeliverParts
  <2> HIDE DEF took
  <2> DEFINE x == [call[k] EXCEPT !.took = took, !.at = "write"]
  <2>3. x.at = "write"
    BY <2>1, <2>2, CallTaking
  <2>4. OneCall(k, x)
    BY <2>2
  <2> HIDE DEF x
  <2>5. call'[k] = x
    BY <2>4, OneCallTypes
  <2> QED
    BY <1>6, <2>3, <2>5 DEF Deliver, Doing, history
<1> QED
    BY <1>1, <1>2, <1>4, <1>5, <1>6

LEMMA StartedCall ==
    ASSUME Typed, NEW k \in Callers, StartCall(k)
    PROVE  /\ effects' = effects /\ call'[k] # None /\ call'[k].n \in Nat
           /\ call'[k].took = call[k].took /\ call'[k].account = call[k].account
           /\ Doing(k, "effect")' => Line(turn.msg, call'[k].n, "start", "none") \in calls'
<1> DEFINE n == turn.seq + 1
           line == Line(turn.msg, n, "start", "none")
<1>1. call[k] \in CallOf /\ n \in Nat
    BY CallAtHand DEF StartCall, TurnOf
<1>2. /\ effects' = effects /\ line.n = n
      /\ \/ Appended(line) /\ call' = [call EXCEPT ![k].at = "effect", ![k].n = n]
         \/ NotAppended(line) /\ call' = [call EXCEPT ![k].at = "refused", ![k].n = n]
    BY DEF StartCall, StartLine, Line, history
<1> HIDE DEF n
<1>3. ASSUME NEW at \in CallAts, call' = [call EXCEPT ![k].at = at, ![k].n = n]
      PROVE  call'[k] # None /\ call'[k].at = at /\ call'[k].n = n /\ call'[k].took = call[k].took
             /\ call'[k].account = call[k].account
  <2> DEFINE x == [call[k] EXCEPT !.at = at, !.n = n]
  <2>1. call'[k] = x
    BY <1>3 DEF Typed, ServerTypes
  <2>2. x \in CallOf /\ x.at = at /\ x.n = n /\ x.took = call[k].took /\ x.account = call[k].account
    BY <1>1 DEF CallOf, CallAts
  <2> HIDE DEF x
  <2> QED
    BY <2>1, <2>2, NoneAssumption
<1>4. "effect" \in CallAts /\ "refused" \in CallAts
    BY DEF CallAts
<1> QED
    BY <1>1, <1>2, <1>3, <1>4 DEF Doing, Appended

LEMMA EffectOfCall ==
    ASSUME Typed, NEW k \in Callers, Effect(k)
    PROVE  /\ Doing(k, "effect") /\ call'[k] # None /\ call'[k].at = "end"
           /\ call'[k].took = call[k].took /\ call'[k].account = call[k].account
           /\ UNCHANGED <<calls, notes, turn, queue, heard>>
           /\ \A e \in effects' : e \in effects \/
                 (e.turn = turn.msg /\ e.n = call[k].n /\ e.account = call[k].account /\ ~e.past)
<1>1. call[k] \in CallOf
    BY CallAtHand DEF Effect
<1> DEFINE x == [call[k] EXCEPT !.at = "end"]
<1>2. call'[k] = x
    BY DEF Effect, Typed, ServerTypes
<1>a. "end" \in CallAts
    BY DEF CallAts
<1>b. x \in CallOf /\ x.at = "end" /\ x.took = call[k].took /\ x.account = call[k].account
    BY <1>1, <1>a, CallAt
<1> HIDE DEF x
<1>3. call'[k].at = "end" /\ call'[k] # None /\ call'[k].took = call[k].took /\ call'[k].account = call[k].account
    BY <1>2, <1>b, NoneAssumption
<1> QED
    BY <1>3 DEF Effect, disk

LEMMA InitIntent == Init => Intent
BY DEF Init, Intent, IntentFirst, Doing

LEMMA NextIntent == Typed /\ Intent /\ [Next]_vars => Intent'
<1> SUFFICES ASSUME Typed, Intent, [Next]_vars PROVE Intent'
    OBVIOUS
<1>1. ASSUME UNCHANGED <<turn, call, effects>>, calls \subseteq calls' PROVE Intent'
  <2>1. \A k \in Callers : Doing(k, "effect")' => Doing(k, "effect")
    BY <1>1 DEF Doing
  <2> QED
    BY <1>1, <2>1, IntentStays
<1>2. CASE Runner
  <2>1. \A k \in Callers : Doing(k, "effect")' =>
           Doing(k, "effect") /\ call'[k].n = call[k].n /\ turn'.msg = turn.msg
    BY <1>2, RunnerFrame, RunnerTurn DEF Doing
  <2> QED
    BY <1>2, <2>1, RunnerFrame, IntentStays
<1>3. ASSUME NEW k \in Callers, Accept(k) \/ Serve(k) PROVE Intent'
  <2>1. calls \subseteq calls' /\ turn'.msg = turn.msg /\ \A j \in Callers \ {k} : call'[j] = call[j]
    BY <1>3, ServeFrame, ServeTurn
  <2>2. \A j \in Callers \ {k} : Doing(j, "effect")' => Doing(j, "effect") /\ call'[j].n = call[j].n
    BY <2>1 DEF Doing
  <2>3. CASE StartCall(k)
    <3>1. IntentFirst'
        BY <2>1, <2>3, StartedCall DEF Intent, IntentFirst, Starts
    <3>2. ASSUME NEW j \in Callers, Doing(j, "effect")'
          PROVE  \E c \in Starts' : c.turn = turn'.msg /\ c.n = call'[j].n
      <4>1. CASE j # k
        BY <2>1, <2>2, <3>2, <4>1 DEF Intent, Starts
      <4>2. CASE j = k
        <5>1. Line(turn.msg, call'[k].n, "start", "none") \in calls'
            BY <2>3, <3>2, <4>2, StartedCall
        <5> QED
            BY <2>1, <4>2, <5>1 DEF Line, Starts
      <4> QED
        BY <4>1, <4>2
    <3> QED
        BY <3>1, <3>2 DEF Intent
  <2>4. CASE Effect(k)
    <3>1. Starts' = Starts
        BY <2>4, EffectOfCall DEF Starts
    <3>2. \E c \in Starts : c.turn = turn.msg /\ c.n = call[k].n
        BY <2>4, EffectOfCall DEF Intent
    <3>3. IntentFirst'
        BY <2>4, <3>1, <3>2, EffectOfCall DEF Intent, IntentFirst
    <3>4. ~Doing(k, "effect")'
        BY <2>4, EffectOfCall DEF Doing
    <3> QED
        BY <2>1, <2>2, <3>1, <3>3, <3>4 DEF Intent
  <2>5. CASE Accept(k) \/ ReadRequest(k) \/ Refuse(k) \/ EndCall(k) \/ Deliver(k) \/ WriteResult(k)
    <3>1. effects' = effects /\ ~Doing(k, "effect")'
        BY <2>5, OtherCallSteps
    <3> QED
        BY <2>1, <2>2, <3>1, IntentStays
  <2> QED
    BY <1>3, <2>3, <2>4, <2>5 DEF Serve
<1>4. CASE Stop \/ Stopped \/ Crash
  <2>1. calls' = calls
    BY <1>4, StopsFrame
  <2>2. CASE Gone
    BY <2>1, <2>2, PastEffects, IntentStays DEF Doing
  <2> QED
    BY <1>1, <1>4, <2>1, <2>2, StopsFrame
<1>5. CASE Open
    BY <1>1, <1>5, OpenFrame DEF history
<1>6. ASSUME NEW s \in Sentences, Talk(s) PROVE Intent'
    BY <1>1, <1>6 DEF Talk, history
<1>7. CASE UNCHANGED vars
    BY <1>1, <1>7 DEF vars, disk, memory, history
<1>8. CASE LogBreaks \/ \E s \in Sentences : TalkLeft(s)
    BY <1>1, <1>8, BreakFrame
<1> QED
    BY <1>2, <1>3, <1>4, <1>5, <1>6, <1>7, <1>8 DEF Next

\* No tool effect happens whose start line is not on disk, whatever appends fail or are torn (FM-R-66).
THEOREM IntentIsFirst == Spec => []IntentFirst
<1>1. Intent => IntentFirst
    BY DEF Intent
<1> QED
    BY <1>1, InitTyped, NextTyped, InitIntent, NextIntent, PTL DEF Spec

-----------------------------------------------------------------------------
(* What is not known of an effect is told.                                 *)

LEMMA SettledStays ==
    ASSUME Settled, notes \subseteq notes', unsaid \subseteq unsaid', calls \subseteq calls', up' = up,
           opening'.todo = opening.todo, opening'.unknown = opening.unknown,
           opening'.unread = opening.unread,
           \A c \in calls' \ calls : c.phase = "end" => c.outcome = "known",
           \A e \in effects' : e.past => e \in effects
    PROVE  Settled'
<1>1. \A p : Told(p) => Told(p)'
    BY DEF Told
<1>2. \A e : HasOutcome(e) => HasOutcome(e)'
    BY DEF HasOutcome
<1>3. \A e : ToSettle(e) => ToSettle(e)'
    BY DEF ToSettle
<1>4. \A c \in calls' : c.phase = "end" => c.outcome = "known" \/ Told(<<c.turn, c.n>>)'
    BY <1>1 DEF Settled
<1>5. \A u \in opening'.unknown : Told(u)'
    BY <1>1 DEF Settled
<1>6. \A e \in effects' : e.past =>
         \/ HasOutcome(e)' \/ Told(<<e.turn, e.n>>)'
         \/ up' = "down" \/ opening'.unread \/ ToSettle(e)'
    BY <1>1, <1>2, <1>3 DEF Settled
<1> QED
    BY <1>4, <1>5, <1>6 DEF Settled

\* The lines of a call that is served tell its outcome.
LEMMA ServeLines ==
    ASSUME NEW k \in Callers, Accept(k) \/ Serve(k)
    PROVE  \A c \in calls' \ calls : c.phase = "end" => c.outcome = "known"
<1>1. CASE StartCall(k)
    BY <1>1 DEF StartCall, StartLine, Appended, NotAppended, Line
<1>2. CASE Refuse(k) \/ EndCall(k)
    BY <1>2 DEF Refuse, EndCall, EndLine, Appended, NotAppended, Line
<1>3. CASE Accept(k) \/ ReadRequest(k) \/ Effect(k) \/ Deliver(k) \/ WriteResult(k)
    BY <1>3 DEF Accept, ReadRequest, Effect, Deliver, WriteResult, disk
<1> QED
    BY <1>1, <1>2, <1>3 DEF Serve

LEMMA RunnerNotes ==
    ASSUME Typed, Runner
    PROVE  /\ notes \subseteq notes' /\ unsaid \subseteq unsaid'
           /\ \A x \in notes' \ notes : x.says \in {"again", "ran"}
<1>1. CASE SayEnd
    BY <1>1 DEF SayEnd, Note, With
<1>2. CASE TakeTurn \/ StartAccount \/ RecordEnd
    BY <1>2 DEF TakeTurn, StartAccount, RecordEnd, disk, history
<1>3. CASE Shift
    BY <1>3 DEF Shift, disk, history
<1> QED
    BY <1>1, <1>2, <1>3, RunnerFrame

\* What the open has read of an effect does not change until the next crash.
LEMMA LaterSteps ==
    ASSUME Typed, ReadTurns \/ CloseTurns \/ NoteNewest \/ RecordNewest
    PROVE  /\ notes \subseteq notes' /\ unsaid \subseteq unsaid' /\ calls' = calls /\ effects' = effects
           /\ opening'.unknown = opening.unknown /\ opening'.unread = opening.unread
           /\ up \notin {"down", "settle", "told"}
<1>1. opening \in OpeningOf
    BY DEF Typed, ServerTypes
<1>2. CASE ReadTurns
    BY <1>1, <1>2 DEF ReadTurns, OpeningOf, disk, history
<1>3. CASE CloseTurns
  <2>1. opening' = opening \/ \E r \in opening.dangling :
           opening' = [opening EXCEPT !.dangling = @ \ {r}, !.closed = @ \cup {r.msg}]
    BY <1>3, ClosedTurn DEF CloseTurns
  <2>2. opening'.unknown = opening.unknown /\ opening'.unread = opening.unread
    BY <1>1, <2>1 DEF OpeningOf
  <2> QED
    BY <1>3, <2>2 DEF CloseTurns, history
<1>4. CASE NoteNewest \/ RecordNewest
    BY <1>4 DEF NoteNewest, RecordNewest, Note, With, history
<1> QED
    BY <1>2, <1>3, <1>4

LEMMA SettledReadCalls == ASSUME Typed, Intent, Settled, ReadCalls PROVE Settled'
<1>1. /\ up = "down" /\ notes \subseteq notes' /\ UNCHANGED <<calls, effects, unsaid>>
      /\ \/ opening'.unread = TRUE /\ opening'.unknown = {}
         \/ up' = "settle" /\ opening'.todo = DanglingCalls /\ opening'.unknown = {}
    BY DEF ReadCalls, With, NothingRead, history
<1>2. \A p : Told(p) => Told(p)'
    BY <1>1 DEF Told
<1>3. ASSUME NEW e \in effects, up' = "settle", opening'.todo = DanglingCalls
      PROVE  HasOutcome(e)' \/ Told(<<e.turn, e.n>>)' \/ ToSettle(e)'
  <2>1. PICK c \in Starts : c.turn = e.turn /\ c.n = e.n
    BY DEF Intent, IntentFirst
  <2>2. CASE c \in DanglingCalls
    BY <1>3, <2>1, <2>2 DEF ToSettle
  <2>3. CASE Ended(c)
    <3>1. PICK d \in calls : d.phase = "end" /\ d.turn = e.turn /\ d.n = e.n
        BY <2>1, <2>3 DEF Ended
    <3>2. d.outcome = "known" \/ Told(<<e.turn, e.n>>)
        BY <3>1 DEF Settled
    <3> QED
        BY <1>1, <1>2, <3>1, <3>2 DEF HasOutcome
  <2> QED
    BY <2>1, <2>2, <2>3 DEF DanglingCalls
<1> QED
    BY <1>1, <1>2, <1>3 DEF Settled

LEMMA SettledSettle == ASSUME Typed, Settled, Settle PROVE Settled'
<1>1. opening \in OpeningOf /\ effects' = effects
    BY SettleSteps DEF Typed, ServerTypes
<1>2. CASE up = "settle" /\ opening.todo = {} /\ UNCHANGED <<notes, calls, opening, unsaid>>
    BY <1>1, <1>2 DEF Settled, Told, HasOutcome, ToSettle
<1>3. ASSUME NEW c \in opening.todo, up' = "told", Note(c.turn, c.n, "unknown"), calls' = calls,
             opening' = [opening EXCEPT !.unknown = @ \cup {NumberOf(c)}], up = "settle"
      PROVE  Settled'
  <2>1. opening'.unknown = opening.unknown \cup {NumberOf(c)} /\ opening'.unread = opening.unread
        /\ opening'.todo = opening.todo
    BY <1>1, <1>3 DEF OpeningOf
  <2>2. Told(NumberOf(c))' /\ \A p : Told(p) => Told(p)'
    <3> DEFINE x == [on |-> <<c.turn, c.n>>, says |-> "unknown"]
    <3>1. /\ x.on = NumberOf(c) /\ notes \subseteq notes' /\ unsaid \subseteq unsaid'
          /\ x \in notes' \/ NumberOf(c) \in unsaid'
        BY <1>3 DEF Note, With, NumberOf
    <3> HIDE DEF x
    <3> QED
        BY <3>1 DEF Told
  <2> QED
    BY <1>1, <1>3, <2>1, <2>2 DEF Settled, HasOutcome, ToSettle
<1>4. ASSUME NEW c \in opening.todo, up' = "settle", NumberOf(c) \in opening.unknown, notes' = notes,
             unsaid' = unsaid,
             Appended(Line(c.turn, c.n, "end", "unknown")) \/ NotAppended(Line(c.turn, c.n, "end", "unknown")),
             opening' = [opening EXCEPT !.todo = @ \ {c}], up = "told"
      PROVE  Settled'
  <2>1. opening'.unknown = opening.unknown /\ opening'.unread = opening.unread
        /\ opening'.todo = opening.todo \ {c}
    BY <1>1, <1>4 DEF OpeningOf
  <2>2. calls \subseteq calls' /\ calls' \subseteq calls \cup {Line(c.turn, c.n, "end", "unknown")}
    BY <1>4 DEF Appended, NotAppended
  <2>3. Told(<<c.turn, c.n>>) /\ \A p : Told(p)' = Told(p)
    BY <1>4 DEF Told, Settled, NumberOf
  <2>4. \A d \in calls' : d.phase = "end" => d.outcome = "known" \/ Told(<<d.turn, d.n>>)
    BY <2>2, <2>3 DEF Settled, Line
  <2>5. ASSUME NEW e \in effects, e.past
        PROVE  HasOutcome(e)' \/ Told(<<e.turn, e.n>>) \/ opening.unread \/ ToSettle(e)'
    <3>1. HasOutcome(e) => HasOutcome(e)'
        BY <2>2 DEF HasOutcome
    <3>2. ToSettle(e) => ToSettle(e)' \/ Told(<<e.turn, e.n>>)
        BY <1>4, <2>1, <2>3 DEF ToSettle
    <3> QED
        BY <1>4, <2>5, <3>1, <3>2 DEF Settled
  <2> QED
    BY <1>1, <1>4, <2>1, <2>3, <2>4, <2>5 DEF Settled
<1> QED
    BY <1>2, <1>3, <1>4, SettleSteps

LEMMA InitSettled == Init => Settled
BY DEF Init, Settled, NothingRead

LEMMA NextSettled == Typed /\ Intent /\ Settled /\ [Next]_vars => Settled'
<1> SUFFICES ASSUME Typed, Intent, Settled, [Next]_vars PROVE Settled'
    OBVIOUS
<1>1. ASSUME UNCHANGED <<notes, calls, effects, up, opening, unsaid>> PROVE Settled'
    BY <1>1, SettledStays
<1>2. CASE Runner
    BY <1>2, RunnerFrame, RunnerNotes, SettledStays
<1>3. ASSUME NEW k \in Callers, Accept(k) \/ Serve(k) PROVE Settled'
  <2>1. \A e \in effects' : e.past => e \in effects
    BY <1>3, EffectOfCall, OtherCallSteps, StartedCall DEF Serve
  <2> QED
    BY <1>3, <2>1, ServeFrame, ServeLines, SettledStays
<1>4. CASE Stop \/ Stopped \/ Crash
  <2>1. CASE up = "up" /\ up' = "stop" /\ UNCHANGED <<notes, calls, opening, effects, unsaid>>
    BY <2>1 DEF Settled, Told, HasOutcome, ToSettle
  <2>2. CASE Gone /\ UNCHANGED <<notes, calls, unsaid>>
    BY <2>2 DEF Gone, NothingRead, Settled, Told
  <2> QED
    BY <1>4, <2>1, <2>2, StopsFrame
<1>5. CASE ReadTurns \/ CloseTurns \/ NoteNewest \/ RecordNewest
  <2>1. \A e : Told(e) => Told(e)'
    BY <1>5, LaterSteps DEF Told
  <2> QED
    BY <1>5, <2>1, LaterSteps DEF Settled, HasOutcome, ToSettle
<1>6. ASSUME NEW s \in Sentences, Talk(s) PROVE Settled'
    BY <1>1, <1>6 DEF Talk, history
<1>7. CASE UNCHANGED vars
    BY <1>1, <1>7 DEF vars, disk, memory, history
<1>8. CASE LogBreaks \/ \E s \in Sentences : TalkLeft(s)
    BY <1>8, BreakFrame, BreakParts, SettledStays
<1> QED
    BY <1>2, <1>3, <1>4, <1>5, <1>6, <1>7, <1>8, SettledReadCalls, SettledSettle DEF Next, Open

\* Once the chat is open again, an effect of an earlier run whose outcome is on disk nowhere has its
\* note, over any number of crashes, failed appends and torn lines in any order, unless that very note
\* could not be written (the open drops the error and ends the call) or calls.jsonl could not be read:
\* it is the order of the note and the end line that no crash can break (FM-R-66).
THEOREM UnknownEffectsTold == Spec => []UnknownTold
<1>1. Settled => UnknownTold
    BY DEF Settled, UnknownTold, HasOutcome, Told, ToSettle
<1> QED
    BY <1>1, InitTyped, NextTyped, InitIntent, NextIntent, InitSettled, NextSettled, PTL DEF Spec

-----------------------------------------------------------------------------
(* What turns.jsonl answers is not said to be unanswered.                  *)

LEMMA AppendedTurn ==
    ASSUME NEW r, AppendTurn(r)
    PROVE  turns' \subseteq turns \cup {r}
BY DEF AppendTurn

\* While the server is up only the records matter.
LEMMA AnswersUp ==
    ASSUME Answers, up' \notin {"close", "note"}, opening'.dangling = opening.dangling,
           \A r \in turns' \ turns : r.status = "running" => r.mid = {}
    PROVE  Answers'
BY DEF Answers, RunningHeardNone

LEMMA AnswersRunner == ASSUME Typed, Answers, Runner PROVE Answers'
<1>1. up' = up /\ opening' = opening
    BY RunnerFrame
<1>2. up \in {"up", "stop"}
    BY RunnerFrame DEF Typed, Presence, TakeTurn, Shift, StartAccount, SayEnd, RecordEnd, InTurn
<1>3. \A r \in turns' \ turns : r.status = "running" => r.mid = {}
  <2>1. CASE TakeTurn
    <3>1. turns' = turns \/ AppendTurn(Record(Head(queue), "running", {}))
        BY <2>1 DEF TakeTurn
    <3> QED
        BY <3>1, AppendedTurn DEF Record
  <2>2. CASE RecordEnd
    BY <2>2, AppendedTurn DEF RecordEnd, Record
  <2>3. CASE Shift \/ StartAccount \/ SayEnd
    BY <2>3 DEF Shift, StartAccount, SayEnd, disk
  <2> QED
    BY <2>1, <2>2, <2>3, RunnerFrame
<1> QED
    BY <1>1, <1>2, <1>3, AnswersUp

LEMMA AnswersReadTurns == ASSUME Typed, Answers, ReadTurns PROVE Answers'
<1>1. opening \in OpeningOf /\ turns' = turns
    BY DEF Typed, ServerTypes, ReadTurns, disk
<1>2. CASE opening' = [opening EXCEPT !.blind = TRUE]
  <2>1. opening'.blind /\ opening'.dangling = opening.dangling
    BY <1>1, <1>2 DEF OpeningOf
  <2> QED
    BY <1>1, <2>1 DEF Answers, RunningHeardNone
<1>3. CASE opening' = [opening EXCEPT
               !.last = Max(DoneMessages \cup {0}),
               !.dangling = {r \in turns : r.status = "running" /\ r.msg \notin DoneByTurn}]
  <2>1. /\ opening'.last = Max(DoneMessages \cup {0})
        /\ opening'.dangling = {r \in turns : r.status = "running" /\ r.msg \notin DoneByTurn}
    BY <1>1, <1>3 DEF OpeningOf
  <2>2. \A r \in turns : r.status # "running" => r.msg \in DoneMessages /\ r.mid \subseteq DoneMessages
    BY DEF DoneMessages, DoneByTurn
  <2>3. \A m \in DoneMessages : m <= opening'.last
    BY <2>1, LastDone DEF Typed
  <2> QED
    BY <1>1, <2>1, <2>2, <2>3 DEF Answers, RunningHeardNone
<1> QED
    BY <1>2, <1>3 DEF ReadTurns

LEMMA AnswersCloseTurns == ASSUME Typed, Answers, CloseTurns PROVE Answers'
<1>1. opening \in OpeningOf /\ up = "close"
    BY DEF Typed, ServerTypes, CloseTurns
<1>2. CASE opening.dangling = {}
    BY <1>1, <1>2 DEF CloseTurns, Answers, RunningHeardNone
<1>3. CASE opening.dangling # {}
  <2>1. PICK r \in opening.dangling :
            /\ AppendTurn([r EXCEPT !.status = "failed"]) /\ r \in TurnLines
            /\ opening' = [opening EXCEPT !.dangling = @ \ {r}, !.closed = @ \cup {r.msg}]
            /\ up' = up
    BY <1>3, ClosedTurn
  <2> DEFINE closed == [r EXCEPT !.status = "failed"]
  <2>2. closed.status = "failed" /\ closed.mid = {}
    BY <2>1 DEF TurnLines, Answers
  <2>3. turns' \subseteq turns \cup {closed}
    BY <2>1, AppendedTurn
  <2> HIDE DEF closed
  <2>4. /\ opening'.dangling \subseteq opening.dangling /\ opening'.last = opening.last
        /\ opening'.blind = opening.blind
    BY <1>1, <2>1 DEF OpeningOf
  <2> QED
    BY <1>1, <2>1, <2>2, <2>3, <2>4 DEF Answers, RunningHeardNone
<1> QED
    BY <1>2, <1>3

LEMMA AnswersOpen == ASSUME Typed, Answers, Open PROVE Answers'
<1>1. CASE ReadCalls
    BY <1>1 DEF ReadCalls, NothingRead, Answers, RunningHeardNone
<1>2. CASE Settle
  <2>1. opening'.dangling = opening.dangling /\ up' \notin {"close", "note"} /\ turns' = turns
    BY <1>2, SettleSteps DEF Typed, ServerTypes, OpeningOf
  <2> QED
    BY <2>1 DEF Answers, RunningHeardNone
<1>3. CASE NoteNewest
    BY <1>3, AnswersUp DEF NoteNewest
<1>4. CASE RecordNewest
  <2>1. \A r \in turns' \ turns : r.status = "running" => r.mid = {}
    BY <1>4, AppendedTurn DEF RecordNewest, Record
  <2> QED
    BY <1>4, <2>1, AnswersUp DEF RecordNewest
<1> QED
    BY <1>1, <1>2, <1>3, <1>4, AnswersReadTurns, AnswersCloseTurns DEF Open

LEMMA InitAnswers == Init => Answers
BY DEF Init, Answers, RunningHeardNone, NothingRead

LEMMA NextAnswers == Typed /\ Answers /\ [Next]_vars => Answers'
<1> SUFFICES ASSUME Typed, Answers, [Next]_vars PROVE Answers'
    OBVIOUS
<1>1. ASSUME UNCHANGED <<turns, up, opening>> PROVE Answers'
    BY <1>1 DEF Answers, RunningHeardNone
<1>2. ASSUME NEW k \in Callers, Accept(k) \/ Serve(k) PROVE Answers'
    BY <1>1, <1>2, ServeFrame
<1>3. CASE Stop \/ Stopped \/ Crash
  <2>1. CASE up' = "stop" /\ UNCHANGED <<turns, opening>>
    BY <2>1, AnswersUp
  <2>2. CASE Gone /\ turns' = turns
    BY <2>2 DEF Gone, NothingRead, Answers, RunningHeardNone
  <2> QED
    BY <1>3, <2>1, <2>2, StopsFrame
<1>4. ASSUME NEW s \in Sentences, Talk(s) PROVE Answers'
    BY <1>1, <1>4 DEF Talk
<1>5. CASE UNCHANGED vars
    BY <1>1, <1>5 DEF vars, disk, memory
<1>6. CASE LogBreaks \/ \E s \in Sentences : TalkLeft(s)
    BY <1>6, BreakFrame, BreakParts DEF Answers, RunningHeardNone
<1> QED
    BY <1>2, <1>3, <1>4, <1>5, <1>6, AnswersRunner, AnswersOpen DEF Next

\* While the newest message is looked at, nothing else writes a note.
LEMMA OnlyTheOpenTells ==
    ASSUME Typed, up = "note", notes' # notes, [Next]_vars
    PROVE  NoteNewest
<1>1. turn = None /\ ~running /\ \A k \in Callers : call[k] = None
    BY OpenQuiet
<1>2. ~Runner
    BY <1>1 DEF Runner, TakeTurn, Prepare, StartAccount, ProcessEnds, Judge, PauseEnds, CloseSocket, SayEnd,
                RecordEnd, InTurn
<1>3. ASSUME NEW s \in Sentences PROVE ~Talk(s) /\ ~TalkLeft(s)
    BY DEF Talk, TalkLeft
<1>4. ASSUME NEW k \in Callers PROVE ~(Accept(k) \/ Serve(k))
    BY ServeFrame
<1>5. ~(Stop \/ Stopped \/ Crash)
    BY StopsFrame
<1>6. ~(UNCHANGED vars)
    BY DEF vars, disk
<1>8. ~LogBreaks
    BY DEF LogBreaks, disk
<1>7. Open => NoteNewest
    BY DEF Open, ReadCalls, Settle, ReadTurns, CloseTurns, RecordNewest
<1> QED
    BY <1>2, <1>3, <1>4, <1>5, <1>6, <1>7, <1>8 DEF Next

\* An open that read turns.jsonl never tells of a message that it is unanswered when the file has its
\* answer, or the turn that heard it at a tool call, whatever was written and lost since the last open
\* (FM-R-113).
THEOREM AnswerIsNotDenied == Spec => HeardIsNotDenied
<1> DEFINE Denies == up = "note" /\ notes' # notes /\ ~opening.blind
           Unheard == \A r \in turns : Newest \notin r.mid /\ (r.msg = Newest => r.status # "ok")
<1>1. ASSUME Typed, Answers, [Next]_vars, Denies PROVE Unheard
  <2>1. NoteNewest
    BY <1>1, OnlyTheOpenTells
  <2>2. Newest > opening.last
    BY <1>1, <2>1 DEF NoteNewest
  <2>3. opening.last \in Nat /\ Newest \in Nat
    BY <1>1, SaidIds DEF Typed, ServerTypes, OpeningOf, Newest
  <2>4. ASSUME NEW r \in turns PROVE Newest \notin r.mid /\ (r.msg = Newest => r.status # "ok")
    <3>1. CASE r.status = "running"
        BY <1>1, <3>1 DEF Answers, RunningHeardNone
    <3>2. CASE r.status # "running"
      <4>1. (\A m \in r.mid : m <= opening.last) /\ (r.status = "ok" => r.msg <= opening.last)
        BY <1>1, <3>2 DEF Answers
      <4> QED
        BY <2>2, <2>3, <4>1
    <3> QED
        BY <3>1, <3>2
  <2> QED
    BY <2>4
<1>2. Typed /\ Answers /\ [Next]_vars => [Denies => Unheard]_vars
    BY <1>1
<1> QED
    BY <1>2, InitTyped, NextTyped, InitAnswers, NextAnswers, PTL DEF Spec, HeardIsNotDenied

-----------------------------------------------------------------------------
(* Every message waits in one place.                                       *)

LEMMA EmptySet == Distinct(<<>>) /\ ToSet(<<>>) = {}
BY DEF Distinct, ToSet

LEMMA TailSet ==
    ASSUME NEW T, NEW s \in Seq(T), s # <<>>, Distinct(s)
    PROVE  /\ Distinct(Tail(s)) /\ ToSet(Tail(s)) \subseteq ToSet(s)
           /\ Head(s) \in ToSet(s) /\ Head(s) \notin ToSet(Tail(s))
<1>1. /\ Tail(s) \in Seq(T) /\ Len(Tail(s)) = Len(s) - 1 /\ Len(s) \in Nat \ {0}
      /\ \A i \in 1 .. Len(Tail(s)) : Tail(s)[i] = s[i + 1]
      /\ Head(s) = s[1]
    BY HeadTailProperties, EmptySeq
<1>2. DOMAIN s = 1 .. Len(s) /\ DOMAIN Tail(s) = 1 .. Len(s) - 1
    BY <1>1
<1>3. \A i \in DOMAIN Tail(s) : i + 1 \in DOMAIN s /\ i + 1 # 1 /\ Tail(s)[i] = s[i + 1]
    BY <1>1, <1>2
<1>4. Distinct(Tail(s))
    BY <1>2, <1>3 DEF Distinct
<1>5. ToSet(Tail(s)) \subseteq ToSet(s)
    BY <1>3 DEF ToSet
<1>6. 1 \in DOMAIN s
    BY <1>1, <1>2
<1> QED
    BY <1>1, <1>3, <1>4, <1>5, <1>6 DEF Distinct, ToSet

LEMMA AppendSet ==
    ASSUME NEW T, NEW s \in Seq(T), NEW x \in T
    PROVE  /\ ToSet(Append(s, x)) = ToSet(s) \cup {x}
           /\ Distinct(s) /\ x \notin ToSet(s) => Distinct(Append(s, x))
<1>1. /\ DOMAIN Append(s, x) = 1 .. Len(s) + 1 /\ DOMAIN s = 1 .. Len(s) /\ Len(s) \in Nat
      /\ Append(s, x)[Len(s) + 1] = x /\ \A i \in 1 .. Len(s) : Append(s, x)[i] = s[i]
    OBVIOUS
<1>2. ToSet(Append(s, x)) = ToSet(s) \cup {x}
    BY <1>1 DEF ToSet
<1>3. ASSUME Distinct(s), x \notin ToSet(s), NEW i \in 1 .. Len(s) + 1, NEW j \in 1 .. Len(s) + 1,
             Append(s, x)[i] = Append(s, x)[j]
      PROVE  i = j
  <2>1. CASE i \in 1 .. Len(s) /\ j \in 1 .. Len(s)
    BY <1>1, <1>3, <2>1 DEF Distinct
  <2>2. CASE i = Len(s) + 1 \/ j = Len(s) + 1
    BY <1>1, <1>3, <2>2 DEF ToSet
  <2> QED
    BY <1>1, <2>1, <2>2
<1> QED
    BY <1>1, <1>2, <1>3 DEF Distinct

LEMMA ConcatSet ==
    ASSUME NEW T, NEW s \in Seq(T), NEW t \in Seq(T)
    PROVE  /\ ToSet(s \o t) \subseteq ToSet(s) \cup ToSet(t)
           /\ Distinct(s) /\ Distinct(t) /\ ToSet(s) \cap ToSet(t) = {} => Distinct(s \o t)
<1> DEFINE u == s \o t
<1>1. /\ Len(s) \in Nat /\ Len(t) \in Nat /\ DOMAIN s = 1 .. Len(s) /\ DOMAIN t = 1 .. Len(t)
      /\ DOMAIN u = 1 .. Len(s) + Len(t)
      /\ \A i \in 1 .. Len(s) + Len(t) : u[i] = IF i <= Len(s) THEN s[i] ELSE t[i - Len(s)]
    BY ConcatProperties
<1> HIDE DEF u
<1>2. ASSUME NEW i \in DOMAIN u
      PROVE  \/ i \in DOMAIN s /\ u[i] = s[i]
             \/ i - Len(s) \in DOMAIN t /\ u[i] = t[i - Len(s)]
  <2>1. CASE i <= Len(s)
    BY <1>1, <2>1
  <2>2. CASE i > Len(s)
    BY <1>1, <2>2
  <2> QED
    BY <1>1, <2>1, <2>2
<1>3. ToSet(u) \subseteq ToSet(s) \cup ToSet(t)
    BY <1>2 DEF ToSet
<1>4. ASSUME Distinct(s), Distinct(t), ToSet(s) \cap ToSet(t) = {},
             NEW i \in DOMAIN u, NEW j \in DOMAIN u, u[i] = u[j]
      PROVE  i = j
  <2>1. \A a \in DOMAIN s, b \in DOMAIN t : s[a] # t[b]
    BY <1>4 DEF ToSet
  <2>2. CASE i \in DOMAIN s /\ u[i] = s[i] /\ j \in DOMAIN s /\ u[j] = s[j]
    BY <1>4, <2>2 DEF Distinct
  <2>3. CASE i - Len(s) \in DOMAIN t /\ u[i] = t[i - Len(s)] /\ j - Len(s) \in DOMAIN t /\ u[j] = t[j - Len(s)]
    <3>1. i - Len(s) = j - Len(s)
        BY <1>4, <2>3 DEF Distinct
    <3> QED
        BY <1>1, <3>1
  <2> QED
    BY <1>2, <1>4, <2>1, <2>2, <2>3
<1> QED
    BY <1>3, <1>4 DEF Distinct, u

LEMMA KeptSet ==
    ASSUME NEW T, NEW s \in Seq(T), NEW P, Distinct(s)
    PROVE  Distinct(Kept(s, P)) /\ ToSet(Kept(s, P)) \subseteq ToSet(s) /\ ToSet(Kept(s, P)) \subseteq P
<1> DEFINE k == Kept(s, P)
<1>1. Distinct(k) /\ \A j \in DOMAIN k : k[j] \in P /\ \E i \in DOMAIN s : s[i] = k[j]
    BY KeptPart
<1> HIDE DEF k
<1>2. ToSet(k) \subseteq ToSet(s) /\ ToSet(k) \subseteq P
    BY <1>1 DEF ToSet
<1> QED
    BY <1>1, <1>2 DEF k

LEMMA WaitingIsSaid == ASSUME Typed PROVE \A m : Waits(m) => m \in Said
<1>1. queue \in Seq(Said) /\ \A k \in Callers : Took(k) \in Seq(Said)
    BY EmptySeq DEF Typed, ServerTypes, Took
<1> QED
    BY <1>1 DEF Waits, ToSet

\* Messages that only leave.
LEMMA PlacesStay ==
    ASSUME OnePlace, Distinct(queue'), ToSet(queue') \subseteq ToSet(queue),
           \A k \in Callers : Distinct(Took(k)') /\ ToSet(Took(k)') \subseteq ToSet(Took(k)),
           turn' # None => ~Waits(turn'.msg)
    PROVE  OnePlace' /\ \A m : Waits(m)' => Waits(m)
<1>1. \A m : Waits(m)' => Waits(m)
    BY DEF Waits
<1>2. (turn # None => ~Waits(turn.msg))'
    BY <1>1
<1>3. \A k, l \in Callers : k # l => ToSet(Took(k)') \cap ToSet(Took(l)') = {}
    BY DEF OnePlace
<1>4. \A k \in Callers : ToSet(Took(k)') \cap ToSet(queue') = {}
    BY DEF OnePlace
<1> QED
    BY <1>1, <1>2, <1>3, <1>4 DEF OnePlace

\* A call that moves on keeps what it took and its account.
LEMMA CallKeeps ==
    ASSUME Typed, NEW k \in Callers, ReadRequest(k) \/ StartCall(k) \/ Refuse(k) \/ Effect(k) \/ EndCall(k)
    PROVE  /\ call[k] # None
           /\ call'[k] # None => call'[k].took = call[k].took /\ call'[k].account = call[k].account
           /\ UNCHANGED <<queue, heard, notes>>
<1>1. call[k] # None /\ UNCHANGED <<queue, heard, notes>>
    BY DEF ReadRequest, StartCall, Refuse, Effect, EndCall, Doing, disk, history
<1>2. ASSUME NEW at \in CallAts, call' = [call EXCEPT ![k].at = at]
      PROVE  call'[k].took = call[k].took /\ call'[k].account = call[k].account
    BY <1>1, <1>2, CallMoves
<1>3. CASE call' = [call EXCEPT ![k] = None]
    BY <1>1, <1>3 DEF Typed, ServerTypes
<1>4. CASE ReadRequest(k) \/ Refuse(k)
    BY <1>1, <1>2, <1>3, <1>4 DEF ReadRequest, Refuse, CallAts
<1>5. CASE Effect(k) \/ EndCall(k)
    BY <1>1, <1>2, <1>5 DEF Effect, EndCall, CallAts
<1>6. CASE StartCall(k)
    BY <1>1, <1>6, StartedCall
<1> QED
    BY <1>4, <1>5, <1>6

-----------------------------------------------------------------------------
(* No sentence is heard twice.                                             *)

LEMMA UntouchedStays ==
    ASSUME Typed, Untouched, \A m : Waits(m)' => Waits(m), UNCHANGED <<log, heard>>,
           \A m : Acted(m)' => Acted(m), \A m : Invited(m)' => Invited(m),
           turn' # None => turn # None /\ turn'.msg = turn.msg /\ turn'.given = turn.given
    PROVE  Untouched'
<1>1. Said' = Said
    BY DEF Said
<1>2. (\A m \in Ids : Waits(m) \/ m \notin Said => heard[m] = 0 /\ ~Acted(m) /\ ~Invited(m))'
    BY <1>1 DEF Untouched
<1>3. (turn # None => ~Invited(turn.msg) /\ (~turn.given => heard[turn.msg] = 0))'
    BY DEF Untouched
<1> QED
    BY <1>2, <1>3 DEF Untouched, HeardOnce

\* A step that moves no message.
LEMMA QuietStep ==
    ASSUME Typed, OnePlace, Untouched, UNCHANGED <<log, heard, queue, call>>,
           \A m : Acted(m)' => Acted(m), \A m : Invited(m)' => Invited(m),
           turn' # None => turn # None /\ turn'.msg = turn.msg /\ turn'.given = turn.given
    PROVE  OnePlace' /\ Untouched'
<1>1. \A k : Took(k)' = Took(k)
    BY DEF Took
<1>2. OnePlace' /\ \A m : Waits(m)' => Waits(m)
    BY <1>1, PlacesStay DEF OnePlace
<1> QED
    BY <1>2, UntouchedStays

LEMMA TalkPlaces ==
    ASSUME Typed, OnePlace, Untouched, NEW s \in Sentences, Talk(s) PROVE OnePlace' /\ Untouched'
<1> DEFINE n == Len(log) + 1
<1>1. /\ queue' = Append(queue, n) /\ Said' = Said \cup {n} /\ n \notin Said
      /\ queue \in Seq(Said') /\ n \in Said'
      /\ UNCHANGED <<notes, turn, call, heard, effects>>
  <2>1. /\ queue' = Append(queue, n) /\ log' = Append(log, s) /\ log \in Seq(Sentences)
        /\ UNCHANGED <<notes, turn, call, heard, effects>>
    BY DEF Talk, history, Typed, FileTypes
  <2>2. Said' = Said \cup {n} /\ n \notin Said
    BY <2>1 DEF Said
  <2> HIDE DEF n
  <2>3. queue \in Seq(Said')
    BY <2>2, SeqMonotonic DEF Typed, ServerTypes
  <2> QED
    BY <2>1, <2>2, <2>3
<1> HIDE DEF n
<1>2. ToSet(queue') = ToSet(queue) \cup {n} /\ (n \notin ToSet(queue) => Distinct(queue'))
    BY <1>1, AppendSet DEF OnePlace
<1>3. ~Waits(n)
    BY <1>1, WaitingIsSaid
<1>4. \A k : Took(k)' = Took(k)
    BY <1>1 DEF Took
<1>5. \A m : Waits(m)' => Waits(m) \/ m = n
    BY <1>2, <1>4 DEF Waits
<1>6. turn # None => turn.msg # n
    BY <1>1 DEF Typed, ServerTypes
<1>7. OnePlace'
  <2>1. Distinct(queue')
    BY <1>2, <1>3 DEF Waits
  <2>2. \A k \in Callers : ToSet(Took(k)') \cap ToSet(queue') = {}
    BY <1>2, <1>3, <1>4 DEF Waits, OnePlace
  <2>3. (turn # None => ~Waits(turn.msg))'
    BY <1>1, <1>5, <1>6 DEF OnePlace
  <2> QED
    BY <1>4, <2>1, <2>2, <2>3 DEF OnePlace
<1>8. Untouched'
  <2>1. \A m : Acted(m)' = Acted(m) /\ Invited(m)' = Invited(m)
    BY <1>1 DEF Acted, Invited
  <2>2. ASSUME NEW m \in Ids, Waits(m)' \/ m \notin Said' PROVE Waits(m) \/ m \notin Said
    BY <1>1, <1>5, <2>2
  <2>3. (\A m \in Ids : Waits(m) \/ m \notin Said => heard[m] = 0 /\ ~Acted(m) /\ ~Invited(m))'
    BY <1>1, <2>1, <2>2 DEF Untouched
  <2> QED
    BY <1>1, <2>1, <2>3 DEF Untouched, HeardOnce
<1> QED
    BY <1>7, <1>8

LEMMA TakePlaces ==
    ASSUME Typed, OnePlace, Untouched, TakeTurn PROVE OnePlace' /\ Untouched'
<1>1. /\ turn = None /\ UNCHANGED <<log, notes, call, heard, effects>> /\ queue \in Seq(Said)
      /\ \/ queue # <<>> /\ queue' = Tail(queue) /\ turn' = Fresh(Head(queue))
         \/ queue # <<>> /\ queue' = Tail(queue) /\ turn' = None
         \/ queue' = queue /\ turn' = None
    BY DEF TakeTurn, history, Typed, ServerTypes
<1>2. \A k : Took(k)' = Took(k)
    BY <1>1 DEF Took
<1>3. \A m : Acted(m)' = Acted(m) /\ Invited(m)' = Invited(m)
    BY <1>1 DEF Acted, Invited
<1>4. CASE queue' = queue /\ turn' = None
    BY <1>1, <1>3, <1>4, QuietStep
<1>5. ASSUME queue # <<>>, queue' = Tail(queue)
      PROVE  /\ Distinct(queue') /\ ToSet(queue') \subseteq ToSet(queue)
             /\ Head(queue) \in ToSet(queue) /\ Head(queue) \notin ToSet(queue')
    BY <1>1, <1>5, TailSet DEF OnePlace
<1>6. CASE queue # <<>> /\ queue' = Tail(queue) /\ turn' = None
    BY <1>1, <1>2, <1>3, <1>5, <1>6, PlacesStay, UntouchedStays DEF OnePlace
<1>7. CASE queue # <<>> /\ queue' = Tail(queue) /\ turn' = Fresh(Head(queue))
  <2> DEFINE h == Head(queue)
  <2>1. h \in ToSet(queue) /\ h \notin ToSet(queue') /\ Distinct(queue') /\ ToSet(queue') \subseteq ToSet(queue)
    BY <1>5, <1>7
  <2>2. h \in Ids /\ turn'.msg = h /\ turn'.given = FALSE
    BY <1>1, <1>7, SaidIds DEF Fresh, Typed
  <2> HIDE DEF h
  <2>3. \A k \in Callers : h \notin ToSet(Took(k))
    BY <2>1 DEF OnePlace
  <2>4. \A m : Waits(m)' => Waits(m) /\ m # h
    BY <1>2, <2>1, <2>3 DEF Waits
  <2>5. OnePlace'
    <3>1. (turn # None => ~Waits(turn.msg))'
        BY <2>2, <2>4
    <3>2. \A k \in Callers : ToSet(Took(k)') \cap ToSet(queue') = {}
        BY <1>2, <2>1 DEF OnePlace
    <3> QED
        BY <1>2, <2>1, <3>1, <3>2 DEF OnePlace
  <2>6. heard[h] = 0 /\ ~Invited(h)
    BY <2>1, <2>2 DEF Untouched, Waits
  <2>7. (\A m \in Ids : Waits(m) \/ m \notin Said => heard[m] = 0 /\ ~Acted(m) /\ ~Invited(m))'
    BY <1>1, <1>3, <2>4 DEF Untouched, Said
  <2> QED
    BY <1>1, <1>3, <2>2, <2>5, <2>6, <2>7 DEF Untouched, HeardOnce
<1> QED
    BY <1>1, <1>4, <1>6, <1>7

LEMMA StartPlaces ==
    ASSUME Typed, OnePlace, Untouched, StartAccount PROVE OnePlace' /\ Untouched'
<1>1. /\ turn # None /\ turn \in TurnOf /\ turn.msg \in Ids /\ turn.msg \in Said
      /\ UNCHANGED <<log, notes, queue, call, effects>>
    BY SaidIds DEF Typed, ServerTypes, StartAccount, InTurn, disk
<1>2. turn'.msg = turn.msg /\ turn'.given
    BY <1>1 DEF StartAccount, TurnOf
<1>3. \A k : Took(k)' = Took(k)
    BY <1>1 DEF Took
<1>4. OnePlace' /\ \A m : Waits(m)' => Waits(m)
    BY <1>1, <1>2, <1>3, PlacesStay DEF OnePlace
<1>5. \A m : Acted(m)' = Acted(m) /\ Invited(m)' = Invited(m)
    BY <1>1 DEF Acted, Invited
<1>6. \A m \in Ids : heard'[m] = heard[m] \/ (m = turn.msg /\ heard[m] = 0 /\ heard'[m] = 1)
    BY <1>1 DEF StartAccount, Typed, FileTypes, Untouched
<1>7. (\A m \in Ids : Waits(m) \/ m \notin Said => heard[m] = 0 /\ ~Acted(m) /\ ~Invited(m))'
  <2>1. Said' = Said
    BY <1>1 DEF Said
  <2> QED
    BY <1>1, <1>4, <1>5, <1>6, <2>1 DEF Untouched, OnePlace
<1>8. HeardOnce'
    BY <1>6 DEF Untouched, HeardOnce
<1> QED
    BY <1>2, <1>4, <1>5, <1>7, <1>8, <1>1 DEF Untouched

LEMMA RunnerPlaces ==
    ASSUME Typed, OnePlace, Untouched, Runner PROVE OnePlace' /\ Untouched'
<1>1. \A m : Acted(m)' = Acted(m)
    BY RunnerFrame DEF Acted
<1>2. \A m : Invited(m)' => Invited(m)
    BY RunnerNotes DEF Invited
<1>3. CASE Shift
  <2>1. UNCHANGED <<log, heard, queue, call>> /\ turn # None /\ turn'.msg = turn.msg /\ turn'.given = turn.given
    BY <1>3 DEF Shift, disk, history
  <2> QED
    BY <1>1, <1>2, <2>1, QuietStep
<1>4. CASE SayEnd
  <2>1. turn # None /\ turn \in TurnOf /\ UNCHANGED <<log, heard, queue, call>>
    BY <1>4 DEF SayEnd, InTurn, Typed, ServerTypes, history
  <2>2. turn'.msg = turn.msg /\ turn'.given = turn.given
    BY <1>4, <2>1 DEF SayEnd, TurnOf
  <2> QED
    BY <1>1, <1>2, <2>1, <2>2, QuietStep
<1>5. CASE RecordEnd
    BY <1>1, <1>2, <1>5, QuietStep DEF RecordEnd, history
<1> QED
    BY <1>3, <1>4, <1>5, TakePlaces, StartPlaces, RunnerFrame

LEMMA CallPlaces ==
    ASSUME Typed, OnePlace, Untouched, NEW k \in Callers,
           Accept(k) \/ ReadRequest(k) \/ StartCall(k) \/ Refuse(k) \/ Effect(k) \/ EndCall(k)
    PROVE  OnePlace' /\ Untouched'
<1>1. UNCHANGED <<log, queue, heard, notes>> /\ \A j \in Callers \ {k} : Took(j)' = Took(j)
    BY CallKeeps, ServeFrame, ServeTurn DEF Serve, Accept, disk, history, Took
<1>2. Took(k)' = Took(k) \/ Took(k)' = <<>>
  <2>1. CASE Accept(k)
    BY <2>1 DEF Accept, Took, Typed, ServerTypes
  <2> QED
    BY <2>1, CallKeeps DEF Took
<1>3. turn # None /\ turn' # None /\ turn'.msg = turn.msg /\ turn'.given = turn.given /\ turn.msg \in Said
    BY ServeTurn DEF Serve
<1>4. OnePlace' /\ \A m : Waits(m)' => Waits(m)
    BY <1>1, <1>2, <1>3, EmptySet, PlacesStay DEF OnePlace
<1>5. \A m : Acted(m)' => Acted(m) \/ m = turn.msg
    BY EffectOfCall, OtherCallSteps, StartedCall DEF Acted
<1>6. \A m : Invited(m)' = Invited(m)
    BY <1>1 DEF Invited
<1>7. (\A m \in Ids : Waits(m) \/ m \notin Said => heard[m] = 0 /\ ~Acted(m) /\ ~Invited(m))'
  <2>1. Said' = Said
    BY <1>1 DEF Said
  <2> QED
    BY <1>1, <1>3, <1>4, <1>5, <1>6, <2>1 DEF Untouched, OnePlace
<1> QED
    BY <1>1, <1>3, <1>4, <1>6, <1>7 DEF Untouched, HeardOnce

LEMMA DeliverPlaces ==
    ASSUME Typed, OnePlace, Untouched, NEW k \in Callers, Deliver(k) PROVE OnePlace' /\ Untouched'
<1> DEFINE took == Kept(queue, Ids \ 1 .. turn.msg)
           left == Kept(queue, 1 .. turn.msg)
<1>1. /\ queue' = left /\ OneCall(k, [call[k] EXCEPT !.took = took, !.at = "write"]) /\ took \in Seq(Ids)
      /\ call[k] \in CallOf /\ queue \in Seq(Said) /\ turn # None
      /\ UNCHANGED <<log, notes, turn, heard, effects>>
    BY DeliverParts, CallAtHand DEF Deliver, disk, history, Typed, ServerTypes
<1>2. /\ Distinct(took) /\ ToSet(took) \subseteq ToSet(queue) /\ ToSet(took) \subseteq Ids \ 1 .. turn.msg
      /\ Distinct(left) /\ ToSet(left) \subseteq ToSet(queue) /\ ToSet(left) \subseteq 1 .. turn.msg
  <2>1. queue \in Seq(Said) /\ Distinct(queue)
    BY <1>1 DEF OnePlace
  <2>2. Distinct(took) /\ ToSet(took) \subseteq ToSet(queue) /\ ToSet(took) \subseteq Ids \ 1 .. turn.msg
    BY <2>1, KeptSet
  <2>3. Distinct(left) /\ ToSet(left) \subseteq ToSet(queue) /\ ToSet(left) \subseteq 1 .. turn.msg
    BY <2>1, KeptSet
  <2> QED
    BY <2>2, <2>3
<1> HIDE DEF took, left
<1>3. Took(k)' = took /\ \A j \in Callers \ {k} : Took(j)' = Took(j)
  <2> DEFINE x == [call[k] EXCEPT !.took = took, !.at = "write"]
  <2>1. x \in CallOf /\ x.took = took
    BY <1>1, CallTaking
  <2>2. OneCall(k, x)
    BY <1>1
  <2> HIDE DEF x
  <2>3. call'[k] = x /\ x # None /\ \A j \in Callers \ {k} : call'[j] = call[j]
    BY <2>1, <2>2, OneCallTypes, NoneAssumption
  <2> QED
    BY <2>1, <2>3 DEF Took
<1>4. \A m : Waits(m)' => Waits(m)
    BY <1>1, <1>2, <1>3 DEF Waits
<1>5. OnePlace'
  <2>1. \A j \in Callers : Distinct(Took(j)')
    BY <1>2, <1>3 DEF OnePlace
  <2>2. \A j \in Callers : ToSet(Took(j)') \cap ToSet(queue') = {}
    BY <1>1, <1>2, <1>3 DEF OnePlace
  <2>3. \A j, l \in Callers : j # l => ToSet(Took(j)') \cap ToSet(Took(l)') = {}
    BY <1>2, <1>3 DEF OnePlace
  <2>4. (turn # None => ~Waits(turn.msg))'
    BY <1>1, <1>4 DEF OnePlace
  <2> QED
    BY <1>1, <1>2, <2>1, <2>2, <2>3, <2>4 DEF OnePlace
<1>6. \A m : Acted(m)' = Acted(m) /\ Invited(m)' = Invited(m)
    BY <1>1 DEF Acted, Invited
<1> QED
    BY <1>1, <1>4, <1>5, <1>6, UntouchedStays

LEMMA WritePlaces ==
    ASSUME Typed, OnePlace, Untouched, NEW k \in Callers, WriteResult(k) PROVE OnePlace' /\ Untouched'
<1> DEFINE took == call[k].took
<1>1. /\ call[k] # None /\ took \in Seq(Said) /\ queue \in Seq(Said) /\ turn # None /\ turn.msg \in Said
      /\ Took(k) = took /\ Took(k)' = <<>> /\ UNCHANGED <<log, notes, effects>>
    BY CallAtHand DEF WriteResult, disk, Typed, ServerTypes, Took
<1>2. /\ turn' # None /\ turn'.msg = turn.msg /\ turn'.given = turn.given
      /\ \A j \in Callers \ {k} : Took(j)' = Took(j)
    BY ServeTurn DEF Serve, Took
<1>3. \A m : Acted(m)' = Acted(m) /\ Invited(m)' = Invited(m)
    BY <1>1 DEF Acted, Invited
<1>4. \/ queue' = queue /\ heard' = [m \in Ids |-> IF FromLiveTree(k) /\ m \in ToSet(took)
                                                   THEN heard[m] + 1 ELSE heard[m]]
      \/ queue' = took \o queue /\ heard' = heard
    BY DEF WriteResult
<1> HIDE DEF took
<1>5. CASE queue' = took \o queue /\ heard' = heard
  <2>1. /\ ToSet(queue') \subseteq ToSet(took) \cup ToSet(queue)
        /\ Distinct(took) /\ Distinct(queue) /\ ToSet(took) \cap ToSet(queue) = {} => Distinct(queue')
    BY <1>1, <1>5, ConcatSet
  <2>2. Distinct(queue')
    BY <1>1, <2>1 DEF OnePlace
  <2>3. \A m : Waits(m)' => Waits(m)
    BY <1>1, <1>2, <2>1, EmptySet DEF Waits
  <2>4. \A j \in Callers : ToSet(Took(j)') \cap ToSet(queue') = {}
    BY <1>1, <1>2, <2>1, EmptySet DEF OnePlace
  <2>5. (turn # None => ~Waits(turn.msg))'
    BY <1>1, <1>2, <2>3 DEF OnePlace
  <2>6. OnePlace'
    BY <1>1, <1>2, <2>2, <2>4, <2>5, EmptySet DEF OnePlace
  <2> QED
    BY <1>1, <1>2, <1>3, <1>5, <2>3, <2>6, UntouchedStays
<1>6. CASE queue' = queue /\ heard' = [m \in Ids |-> IF FromLiveTree(k) /\ m \in ToSet(took)
                                                     THEN heard[m] + 1 ELSE heard[m]]
  <2>1. OnePlace' /\ \A m : Waits(m)' => Waits(m)
    BY <1>1, <1>2, <1>6, EmptySet, PlacesStay DEF OnePlace
  <2>2. \A m \in ToSet(took) : ~Waits(m)'
    BY <1>1, <1>2, <1>6, EmptySet DEF Waits, OnePlace
  <2>3. \A m \in ToSet(took) : Waits(m) /\ m \in Said
    BY <1>1, WaitingIsSaid DEF Waits
  <2>4. \A m \in Ids : heard'[m] = heard[m] \/ (m \in ToSet(took) /\ heard'[m] = heard[m] + 1)
    BY <1>6
  <2>5. (\A m \in Ids : Waits(m) \/ m \notin Said => heard[m] = 0 /\ ~Acted(m) /\ ~Invited(m))'
    <3>1. Said' = Said
        BY <1>1 DEF Said
    <3> QED
        BY <1>3, <2>1, <2>2, <2>3, <2>4, <3>1 DEF Untouched
  <2>6. HeardOnce'
    BY <2>3, <2>4 DEF Untouched, HeardOnce
  <2>7. turn.msg \notin ToSet(took)
    BY <1>1, <2>3 DEF OnePlace
  <2>8. turn.msg \in Ids
    BY <1>1, SaidIds DEF Typed
  <2>9. (turn # None => ~Invited(turn.msg) /\ (~turn.given => heard[turn.msg] = 0))'
    BY <1>1, <1>2, <1>3, <2>4, <2>7, <2>8 DEF Untouched
  <2> QED
    BY <2>1, <2>5, <2>6, <2>9 DEF Untouched
<1> QED
    BY <1>4, <1>5, <1>6

LEMMA StopPlaces ==
    ASSUME Typed, OnePlace, Untouched, Stop \/ Stopped \/ Crash PROVE OnePlace' /\ Untouched'
<1>1. UNCHANGED <<log, notes, heard>>
    BY StopsFrame
<1>2. \A m : Invited(m)' = Invited(m)
    BY <1>1 DEF Invited
<1>3. CASE UNCHANGED <<queue, turn, call, effects>>
    BY <1>1, <1>2, <1>3, QuietStep DEF Acted
<1>4. CASE Gone
  <2>1. \A m : Acted(m)' => Acted(m)
    BY <1>4, PastEffects DEF Acted
  <2>2. queue' = <<>> /\ turn' = None /\ \A k \in Callers : Took(k)' = <<>>
    BY <1>4 DEF Gone, Took
  <2>3. OnePlace' /\ \A m : Waits(m)' => Waits(m)
    BY <2>2, EmptySet, PlacesStay
  <2> QED
    BY <1>1, <1>2, <2>1, <2>2, <2>3, UntouchedStays
<1> QED
    BY <1>3, <1>4, StopsFrame

\* What an open writes: notes on calls, or one on the newest message.
LEMMA OpenNotes ==
    ASSUME Typed, Open
    PROVE  \A x \in notes' \ notes :
              \/ x.says # "unanswered"
              \/ NoteNewest /\ x.says = Telling(Newest) /\ x.on[1] = Newest /\ Newest \in Said
<1>1. CASE ReadCalls
    BY <1>1 DEF ReadCalls, With
<1>2. CASE Settle
    BY <1>2, SettleSteps DEF Note, With
<1>3. CASE ReadTurns \/ CloseTurns \/ RecordNewest
    BY <1>3 DEF ReadTurns, CloseTurns, RecordNewest, disk
<1>4. CASE NoteNewest
  <2>1. CASE Newest > opening.last /\ Note(Newest, 0, Telling(Newest))
    <3> DEFINE x == [on |-> <<Newest, 0>>, says |-> Telling(Newest)]
    <3>1. notes' \subseteq notes \cup {x} /\ x.says = Telling(Newest) /\ x.on[1] = Newest
        BY <2>1 DEF Note, With
    <3> HIDE DEF x
    <3> QED
        BY <1>4, <2>1, <3>1, NewestSaid
  <2>2. CASE notes' = notes
    BY <2>2
  <2> QED
    BY <1>4, <2>1, <2>2 DEF NoteNewest
<1> QED
    BY <1>1, <1>2, <1>3, <1>4 DEF Open

LEMMA OpenPlaces ==
    ASSUME Typed, OnePlace, Untouched, Open PROVE OnePlace' /\ Untouched'
<1>1. /\ UNCHANGED <<log, heard, queue, call, turn, effects>> /\ turn = None
      /\ queue = <<>> /\ \A k \in Callers : call[k] = None
    BY OpenFrame, OpenQuiet DEF history
<1>2. \A k : Took(k)' = Took(k)
    BY <1>1 DEF Took
<1>3. OnePlace'
    BY <1>1, <1>2, PlacesStay DEF OnePlace
<1>4. \A m \in Ids : ~Waits(m)'
    BY <1>1, EmptySet DEF Waits, Took
<1>5. \A m : Invited(m)' => Invited(m) \/ m \in Said
    BY OpenNotes DEF Invited
<1>6. \A m : Acted(m)' = Acted(m)
    BY <1>1 DEF Acted
<1>7. Untouched'
    BY <1>1, <1>4, <1>5, <1>6 DEF Untouched, HeardOnce, Said
<1> QED
    BY <1>3, <1>7

LEMMA BreakPlaces ==
    ASSUME Typed, OnePlace, Untouched, LogBreaks \/ \E s \in Sentences : TalkLeft(s)
    PROVE  OnePlace' /\ Untouched'
<1>1. UNCHANGED <<queue, call, turn, heard, notes, effects>>
    BY BreakFrame
<1>2. Said \subseteq Said'
    BY DEF LogBreaks, TalkLeft, disk, Said, Typed, FileTypes
<1>3. \A k : Took(k)' = Took(k)
    BY <1>1 DEF Took
<1>4. OnePlace' /\ \A m : Waits(m)' => Waits(m)
    BY <1>1, <1>3, PlacesStay DEF OnePlace
<1>5. \A m : Acted(m)' = Acted(m) /\ Invited(m)' = Invited(m)
    BY <1>1 DEF Acted, Invited
<1>6. Untouched'
    BY <1>1, <1>2, <1>4, <1>5 DEF Untouched, HeardOnce
<1> QED
    BY <1>4, <1>6

LEMMA InitPlaces == Init => OnePlace /\ Untouched
<1> SUFFICES ASSUME Init PROVE OnePlace /\ Untouched
    OBVIOUS
<1>1. queue = <<>> /\ turn = None /\ \A k \in Callers : Took(k) = <<>>
    BY DEF Init, Took
<1>2. OnePlace
    BY <1>1, EmptySet DEF OnePlace
<1>3. Untouched
    BY DEF Init, Untouched, HeardOnce, Acted, Invited
<1> QED
    BY <1>2, <1>3

LEMMA NextPlaces == Typed /\ OnePlace /\ Untouched /\ [Next]_vars => OnePlace' /\ Untouched'
<1> SUFFICES ASSUME Typed, OnePlace, Untouched, [Next]_vars PROVE OnePlace' /\ Untouched'
    OBVIOUS
<1>1. CASE UNCHANGED vars
    BY <1>1, QuietStep DEF vars, disk, memory, history, Acted, Invited
<1>2. ASSUME NEW k \in Callers, Accept(k) \/ Serve(k) PROVE OnePlace' /\ Untouched'
    BY <1>2, CallPlaces, DeliverPlaces, WritePlaces DEF Serve
<1> QED
    BY <1>1, <1>2, TalkPlaces, BreakPlaces, RunnerPlaces, StopPlaces, OpenPlaces DEF Next

\* No sentence reaches a model twice, by a turn of its own and at a tool call of another, or after a
\* restart (FM-R-102, FM-R-110): it waits in one place, and one that was heard waits no more.
THEOREM SentencesHeardOnce == Spec => []HeardOnce
<1>1. Untouched => HeardOnce
    BY DEF Untouched
<1> QED
    BY <1>1, InitTyped, NextTyped, InitPlaces, NextPlaces, PTL DEF Spec

-----------------------------------------------------------------------------
(* Nobody is told after a restart to say again what had an effect.         *)

LEMMA RememberedOpen == ASSUME Typed, Remembered, Open PROVE Remembered'
<1>1. opening \in OpeningOf
    BY DEF Typed, ServerTypes
<1>2. CASE ReadCalls
  <2>1. CASE opening' = [NothingRead EXCEPT !.todo = DanglingCalls, !.started = TurnsStarted]
    <3>1. opening'.started = TurnsStarted
        BY <2>1 DEF NothingRead
    <3> QED
        BY <1>2, <3>1 DEF Remembered, ReadCalls, TurnsStarted, Starts
  <2>2. CASE opening' = [NothingRead EXCEPT !.unread = TRUE]
    BY <2>2 DEF NothingRead, Remembered
  <2> QED
    BY <1>2, <2>1, <2>2 DEF ReadCalls
<1>3. ASSUME Starts' = Starts, opening'.started = opening.started, opening'.unread = opening.unread,
             up \in {"settle", "told", "turns", "close", "note"}
      PROVE  Remembered'
    BY <1>3 DEF Remembered
<1>4. CASE Settle
  <2>1. \A c \in calls' \ calls : c.phase = "end"
    BY <1>4, SettleSteps DEF Appended, NotAppended, Line
  <2>2. Starts' = Starts
    BY <1>4, <2>1, OpenFrame DEF Starts, Open
  <2>3. opening'.started = opening.started /\ opening'.unread = opening.unread
    BY <1>1, <1>4, SettleSteps DEF OpeningOf
  <2> QED
    BY <1>3, <1>4, <2>2, <2>3, SettleSteps
<1>5. CASE ReadTurns \/ CloseTurns
  <2>1. calls' = calls /\ opening'.unread = opening.unread
    BY <1>5, LaterSteps
  <2>2. opening'.started = opening.started
    <3>1. CASE ReadTurns
        BY <1>1, <3>1 DEF ReadTurns, OpeningOf
    <3>2. CASE CloseTurns
      <4>1. opening' = opening \/ \E r \in opening.dangling :
               opening' = [opening EXCEPT !.dangling = @ \ {r}, !.closed = @ \cup {r.msg}]
        BY <3>2, ClosedTurn DEF CloseTurns
      <4> QED
        BY <1>1, <4>1 DEF OpeningOf
    <3> QED
        BY <1>5, <3>1, <3>2
  <2> QED
    BY <1>3, <1>5, <2>1, <2>2 DEF ReadTurns, CloseTurns, Starts
<1>6. CASE NoteNewest \/ RecordNewest
    BY <1>6 DEF NoteNewest, RecordNewest, Remembered
<1> QED
    BY <1>2, <1>4, <1>5, <1>6 DEF Open

LEMMA InitRemembered == Init => Remembered
BY DEF Init, Remembered

LEMMA NextRemembered == Typed /\ Remembered /\ [Next]_vars => Remembered'
<1> SUFFICES ASSUME Typed, Remembered, [Next]_vars PROVE Remembered'
    OBVIOUS
<1>1. ASSUME up' \in {"up", "stop", "down"} PROVE Remembered'
    BY <1>1 DEF Remembered
<1>2. CASE Runner
  <2>1. up \in {"up", "stop"}
    BY <1>2, RunnerFrame DEF Typed, Presence, TakeTurn, Shift, StartAccount, SayEnd, RecordEnd, InTurn
  <2> QED
    BY <1>1, <1>2, <2>1, RunnerFrame
<1>3. ASSUME NEW k \in Callers, Accept(k) \/ Serve(k) PROVE Remembered'
  <2>1. up \in {"up", "stop"} /\ up' = up
    BY <1>3, ServeTurn, ServeFrame DEF Typed, Presence
  <2> QED
    BY <1>1, <2>1
<1>4. CASE Stop \/ Stopped \/ Crash
    BY <1>1, <1>4, StopsFrame DEF Gone
<1>5. ASSUME NEW s \in Sentences, Talk(s) PROVE Remembered'
    BY <1>1, <1>5 DEF Talk
<1>6. CASE UNCHANGED vars
    BY <1>6 DEF vars, disk, memory, Remembered, Starts
<1>7. CASE LogBreaks \/ \E s \in Sentences : TalkLeft(s)
    BY <1>7, BreakFrame, BreakParts DEF Remembered, Starts
<1> QED
    BY <1>2, <1>3, <1>4, <1>5, <1>6, <1>7, RememberedOpen DEF Next

\* No message is invited again whose turn had an effect.
InvitesSafe == \A m : Invited(m) => ~Acted(m)

LEMMA NextInvitesSafe ==
    Typed /\ Intent /\ Untouched /\ Remembered /\ InvitesSafe /\ [Next]_vars => InvitesSafe'
<1> SUFFICES ASSUME Typed, Intent, Untouched, Remembered, InvitesSafe, [Next]_vars PROVE InvitesSafe'
    OBVIOUS
<1>1. ASSUME \A m : Invited(m)' => Invited(m), \A m : Acted(m)' => Acted(m) PROVE InvitesSafe'
    BY <1>1 DEF InvitesSafe
<1>2. CASE Runner
    BY <1>1, <1>2, RunnerFrame, RunnerNotes DEF Acted, Invited
<1>3. ASSUME NEW k \in Callers, Accept(k) \/ Serve(k) PROVE InvitesSafe'
  <2>1. \A m : Invited(m)' = Invited(m)
    BY <1>3, ServeFrame DEF Invited
  <2>2. \A m : Acted(m)' => Acted(m) \/ m = turn.msg
    BY <1>3, EffectOfCall, OtherCallSteps, StartedCall DEF Acted, Serve
  <2>3. ~Invited(turn.msg)
    BY <1>3, ServeTurn DEF Untouched
  <2> QED
    BY <2>1, <2>2, <2>3 DEF InvitesSafe
<1>4. CASE Stop \/ Stopped \/ Crash
  <2>1. \A m : Acted(m)' => Acted(m)
    BY <1>4, StopsFrame, PastEffects DEF Acted
  <2>2. \A m : Invited(m)' => Invited(m)
    BY <1>4, StopsFrame DEF Invited
  <2> QED
    BY <1>1, <2>1, <2>2
<1>5. CASE Open
  <2>1. effects' = effects
    BY <1>5, OpenFrame DEF history
  <2>2. ASSUME NEW m, Invited(m)', ~Invited(m), Acted(m)' PROVE FALSE
    <3>1. NoteNewest /\ Telling(Newest) = "unanswered" /\ m = Newest
        BY <1>5, <2>2, OpenNotes DEF Invited
    <3>2. ~opening.unread /\ Newest \notin opening.started
        BY <3>1 DEF Telling
    <3>3. \A c \in Starts : c.turn # Newest
        BY <3>1, <3>2 DEF Remembered, NoteNewest
    <3>4. ~Acted(Newest)
        BY <3>3 DEF Acted, Intent, IntentFirst
    <3> QED
        BY <2>1, <2>2, <3>1, <3>4 DEF Acted
  <2> QED
    BY <2>1, <2>2 DEF InvitesSafe, Acted
<1>6. ASSUME NEW s \in Sentences, Talk(s) PROVE InvitesSafe'
    BY <1>1, <1>6 DEF Talk, history, Acted, Invited
<1>7. CASE UNCHANGED vars
    BY <1>1, <1>7 DEF vars, disk, memory, history, Acted, Invited
<1>8. CASE LogBreaks \/ \E s \in Sentences : TalkLeft(s)
    BY <1>1, <1>8, BreakFrame DEF Acted, Invited
<1> QED
    BY <1>2, <1>3, <1>4, <1>5, <1>6, <1>7, <1>8 DEF Next

\* After a restart nobody is told to say a sentence again whose turn had an effect (FM-R-66): an effect
\* has its start line, an open that reads the file remembers the line, and one that cannot says so.
THEOREM RestartInvitesSafe == Spec => []RestartInviteIsSafe
<1>1. InvitesSafe => RestartInviteIsSafe
    BY DEF InvitesSafe, RestartInviteIsSafe, Invited, Acted
<1>2. Init => InvitesSafe
    BY DEF Init, InvitesSafe, Invited
<1> QED
    BY <1>1, <1>2, InitTyped, NextTyped, InitIntent, NextIntent, InitPlaces, NextPlaces, InitRemembered,
       NextRemembered, NextInvitesSafe, PTL DEF Spec

-----------------------------------------------------------------------------
(* The effects of a turn come from one account.                            *)

LEMMA InitOnAccount == Init => OnAccountNow
BY DEF Init, OnAccountNow, OneAccount

LEMMA RunnerOnAccount ==
    ASSUME Typed, OnePlace, Untouched, OnAccountNow, Runner PROVE OnAccountNow'
<1>1. UNCHANGED <<call, effects>> /\ \A m : Acted(m)' = Acted(m)
    BY RunnerFrame DEF Acted
<1>2. CASE turn' = None
    BY <1>1, <1>2 DEF OnAccountNow, OneAccount
<1>3. CASE TakeTurn /\ turn' # None
  <2> DEFINE h == Head(queue)
  <2>1. turn = None /\ queue # <<>> /\ turn' = Fresh(h) /\ queue \in Seq(Said)
    BY <1>3 DEF TakeTurn, Typed, ServerTypes
  <2>2. \A k \in Callers : call[k] = None
    BY <2>1 DEF Typed, Presence
  <2>3. h \in Ids /\ h \in ToSet(queue)
    BY <2>1, TailSet, SaidIds DEF OnePlace, Typed
  <2> HIDE DEF h
  <2>4. ~Acted(h)
    BY <2>3 DEF Untouched, Waits
  <2>5. turn'.msg = h /\ turn'.at = "begun" /\ turn'.before = 0 /\ turn'.accepted = 0
    BY <2>1 DEF Fresh
  <2> QED
    BY <1>1, <2>2, <2>4, <2>5 DEF OnAccountNow, OneAccount, Acted
<1>4. CASE Shift
  <2>1. /\ turn # None /\ turn'.msg = turn.msg /\ turn'.accepted = turn.accepted /\ turn'.before = turn.before
        /\ turn \in TurnOf /\ turn' \in TurnOf
        /\ turn'.at \in {"start", "paused"} \/ turn'.account # turn.account =>
              turn.at \in {"begun", "start", "paused"} \/ turn.accepted <= turn.before
        /\ turn'.at # "begun"
    BY <1>4 DEF Shift, Typed, ServerTypes
  <2>2. turn.before = 0 /\ turn.accepted \in Nat
    BY <2>1 DEF OnAccountNow, TurnOf
  <2>3. turn'.at \in {"start", "paused"} \/ turn'.account # turn.account => turn.accepted = 0
    BY <2>1, <2>2 DEF OnAccountNow
  <2> QED
    BY <1>1, <2>1, <2>2, <2>3 DEF OnAccountNow, OneAccount, Acted
<1>5. CASE StartAccount \/ SayEnd
  <2>1. turn # None /\ turn \in TurnOf
    BY <1>5 DEF StartAccount, SayEnd, InTurn, Typed, ServerTypes
  <2>2. /\ turn'.msg = turn.msg /\ turn'.accepted = turn.accepted /\ turn'.account = turn.account
        /\ turn'.at \in {"run", "noted"} /\ turn'.before = 0
    <3>1. CASE StartAccount
      <4>1. turn.accepted = 0 /\ turn' = [turn EXCEPT !.at = "run", !.before = turn.accepted, !.given = TRUE]
        BY <2>1, <3>1 DEF StartAccount, InTurn, OnAccountNow
      <4> QED
        BY <2>1, <4>1 DEF TurnOf
    <3>2. CASE SayEnd
      <4>1. turn.before = 0 /\ turn' = [turn EXCEPT !.at = "noted"]
        BY <2>1, <3>2 DEF SayEnd, OnAccountNow
      <4> QED
        BY <2>1, <4>1 DEF TurnOf
    <3> QED
        BY <1>5, <3>1, <3>2
  <2> QED
    BY <1>1, <2>1, <2>2 DEF OnAccountNow, OneAccount, Acted
<1>6. CASE RecordEnd
    BY <1>2, <1>6 DEF RecordEnd
<1> QED
    BY <1>2, <1>3, <1>4, <1>5, <1>6, RunnerFrame

LEMMA AcceptOnAccount == ASSUME Typed, OnAccountNow, NEW k \in Callers, Accept(k) PROVE OnAccountNow'
<1>1. /\ turn # None /\ turn \in TurnOf /\ turn'.msg = turn.msg /\ turn'.at = turn.at
      /\ turn'.account = turn.account /\ turn'.before = turn.before /\ turn'.accepted = turn.accepted + 1
      /\ \A j \in Callers \ {k} : call'[j] = call[j]
    BY ServeTurn
<1>2. turn.at \in {"run", "over"} /\ effects' = effects /\ turn.accepted \in Nat
    BY <1>1 DEF Accept, InTurn, history, TurnOf
<1>3. call'[k].account = turn.account
    BY DEF Accept, Typed, ServerTypes
<1> QED
    BY <1>1, <1>2, <1>3 DEF OnAccountNow, OneAccount

LEMMA ServeOnAccount == ASSUME Typed, OnAccountNow, NEW k \in Callers, Serve(k) PROVE OnAccountNow'
<1>1. call[k] # None
    BY CallAtHand DEF Serve, ReadRequest, StartCall, Refuse, Effect, EndCall, Deliver, WriteResult
<1>2. /\ turn # None /\ turn'.msg = turn.msg /\ turn'.at = turn.at /\ turn'.account = turn.account
      /\ turn'.before = turn.before /\ turn'.accepted = turn.accepted
      /\ \A j \in Callers \ {k} : call'[j] = call[j]
  <2>1. ~Accept(k)
    BY <1>1 DEF Accept
  <2> QED
    BY <2>1, ServeTurn
<1>3. turn.accepted # 0 /\ call[k].account = turn.account
    BY <1>1, <1>2 DEF OnAccountNow
<1>4. call'[k] # None => call'[k].account = call[k].account
  <2>1. CASE Deliver(k)
    <3> DEFINE took == Kept(queue, Ids \ 1 .. turn.msg)
               x == [call[k] EXCEPT !.took = took, !.at = "write"]
    <3>1. took \in Seq(Ids) /\ OneCall(k, x)
        BY <2>1, DeliverParts
    <3> HIDE DEF took
    <3>2. x.account = call[k].account
      <4>1. call[k] \in CallOf
        BY <1>1 DEF Typed, ServerTypes
      <4> QED
        BY <3>1, <4>1, CallTaking
    <3> HIDE DEF x
    <3> QED
        BY <3>1, <3>2, OneCallTypes
  <2>2. CASE WriteResult(k)
    BY <2>2 DEF WriteResult, Typed, ServerTypes
  <2> QED
    BY <2>1, <2>2, CallKeeps DEF Serve
<1>5. \A e \in effects' : e \in effects \/ (e.turn = turn.msg /\ e.account = turn.account)
    BY <1>3, EffectOfCall, OtherCallSteps, StartedCall DEF Serve
<1>6. \A e \in effects' : e.turn = turn.msg => e.account = turn.account
    BY <1>2, <1>5 DEF OnAccountNow
<1>7. OneAccount'
  <2>1. ASSUME NEW e \in effects', NEW f \in effects', e.turn = f.turn PROVE e.account = f.account
    <3>1. CASE e.turn = turn.msg
        BY <1>6, <2>1, <3>1
    <3>2. CASE e.turn # turn.msg
        BY <1>5, <2>1, <3>2 DEF OnAccountNow, OneAccount
    <3> QED
        BY <3>1, <3>2
  <2> QED
    BY <2>1 DEF OneAccount
<1> QED
    BY <1>2, <1>3, <1>4, <1>6, <1>7 DEF OnAccountNow

LEMMA NextOnAccount == Typed /\ OnePlace /\ Untouched /\ OnAccountNow /\ [Next]_vars => OnAccountNow'
<1> SUFFICES ASSUME Typed, OnePlace, Untouched, OnAccountNow, [Next]_vars PROVE OnAccountNow'
    OBVIOUS
<1>1. ASSUME UNCHANGED <<turn, call, effects>> PROVE OnAccountNow'
    BY <1>1 DEF OnAccountNow, OneAccount, Acted
<1>2. CASE Stop \/ Stopped \/ Crash
  <2>1. CASE Gone
    <3>1. turn' = None
        BY <2>1 DEF Gone
    <3>2. OneAccount'
        BY <2>1, PastEffects DEF OnAccountNow, OneAccount
    <3> QED
        BY <3>1, <3>2 DEF OnAccountNow
  <2> QED
    BY <1>1, <1>2, <2>1, StopsFrame
<1>3. CASE Open
    BY <1>1, <1>3, OpenFrame DEF history
<1>4. ASSUME NEW s \in Sentences, Talk(s) PROVE OnAccountNow'
    BY <1>1, <1>4 DEF Talk, history
<1>5. CASE UNCHANGED vars
    BY <1>1, <1>5 DEF vars, disk, memory, history
<1>6. CASE LogBreaks \/ \E s \in Sentences : TalkLeft(s)
    BY <1>1, <1>6, BreakFrame
<1> QED
    BY <1>2, <1>3, <1>4, <1>5, <1>6, RunnerOnAccount, AcceptOnAccount, ServeOnAccount DEF Next

\* A turn is not run again on another account once a call of it may have acted (FM-R-50): whatever
\* fails, its effects come from one account.
THEOREM EffectsFromOneAccount == Spec => []OneAccount
<1>1. OnAccountNow => OneAccount
    BY DEF OnAccountNow
<1> QED
    BY <1>1, InitTyped, NextTyped, InitPlaces, NextPlaces, InitOnAccount, NextOnAccount, PTL DEF Spec

=============================================================================
