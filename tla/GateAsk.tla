------------------------------- MODULE GateAsk -------------------------------
(***************************************************************************)
(* The ask channel between a gate and an operator (clients gate/ask.rs,    *)
(* coppice server/ask.rs): asks/<id>.json and answers/<id>.json in one     *)
(* directory that several gates and operators share with no lock.  A gate  *)
(* that would deny a call posts an ask, waits for an answer until the      *)
(* deadline, and retires both files; before it posts it sweeps what others *)
(* left behind.  An operator reads the ask and writes the answer.          *)
(*                                                                         *)
(* One action is one look at, or one change of, one file.  The nonce of an *)
(* ask is the gate that posted it, and a gate decides one call.  Files are *)
(* renamed into place, so a reader sees a whole file or none.  Gates that  *)
(* find no operator, or a channel they refuse, post nothing and are left   *)
(* out.                                                                    *)
(***************************************************************************)
EXTENDS Integers, FiniteSets

CONSTANTS
    Gates,      \* gate processes, each with one call
    Permanent,  \* the gates whose call cannot be undone
    Names,      \* file stems of the tool_use_ids
    Operators,  \* coppice, the phone: whoever answers
    Timeout,    \* --ask-timeout
    MaxNow,     \* bound of the clock
    Shared,     \* whether two gates may wait under one name at the same time
    None

ASSUME AskAssumption ==
    /\ Permanent \subseteq Gates
    /\ Timeout \in Nat \ {0} /\ MaxNow \in Nat /\ Shared \in BOOLEAN
    /\ None \notin Gates \cup Names

VARIABLES
    asks,      \* asks/: for each name the ask, or None
    answers,   \* answers/: for each name the answer, or None
    gate,      \* the gates
    operator,  \* the operators
    now

vars == <<asks, answers, gate, operator, now>>

Times == 0 .. MaxNow

Ask == [nonce : Gates, deadline : 0 .. MaxNow + Timeout, permanent : BOOLEAN, mtime : Times]

\* confirm: the operator typed the pane's name.
Answer == [nonce : Gates, allow : BOOLEAN, confirm : BOOLEAN, mtime : Times]

ASSUME NoneAssumption == None \notin Ask \cup Answer

Steps == {"idle", "sweepAsks", "dropAsk", "dropAnswer", "sweepAnswers", "dropOrphan",
          "post", "read", "wait", "consumeAsk", "consumeAnswer", "done", "dead"}

Rest == [at |-> "idle", name |-> None, deadline |-> 0, swept |-> 0,
         todo |-> {}, cur |-> None, expected |-> None, asked |-> None, verdict |-> None]

Off == [at |-> "idle", name |-> None, shown |-> FALSE, nonce |-> None, allow |-> FALSE]

Init ==
    /\ asks = [n \in Names |-> None] /\ answers = [n \in Names |-> None]
    /\ gate = [g \in Gates |-> Rest]
    /\ operator = [o \in Operators |-> Off]
    /\ now = 0

Present(files) == {n \in Names : files[n] # None}

-----------------------------------------------------------------------------
(* The gate: maybe_ask, post_ask and the sweep it begins with.             *)

Waits(g) == gate[g].at \notin {"idle", "done", "dead"}

Begin(g) ==
    /\ gate[g].at = "idle" /\ now + 1 <= MaxNow
    /\ \E n \in Names :
        /\ Shared \/ \A h \in Gates : Waits(h) => gate[h].name # n
        /\ gate' = [gate EXCEPT ![g].at = "sweepAsks", ![g].name = n,
                                ![g].deadline = now + Timeout, ![g].swept = now, ![g].todo = Present(asks)]
    /\ UNCHANGED <<asks, answers, operator, now>>

\* Mutant: the sweep compares with the deadline of its own ask instead of the time.
ExpiredEarly(g, n) == asks[n] = None \/ asks[n].deadline <= gate[g].deadline

\* A file that is gone by now reads as no ask, and is removed like one that expired.
Expired(g, n) == asks[n] = None \/ asks[n].deadline <= gate[g].swept

SweepAsk(g) ==
    /\ gate[g].at = "sweepAsks"
    /\ \/ \E n \in gate[g].todo :
            gate' = [gate EXCEPT ![g].todo = @ \ {n},
                                 ![g].cur = IF Expired(g, n) THEN n ELSE None,
                                 ![g].at = IF Expired(g, n) THEN "dropAsk" ELSE "sweepAsks"]
       \/ /\ gate[g].todo = {}
          /\ gate' = [gate EXCEPT ![g].at = "sweepAnswers", ![g].todo = Present(answers)]
    /\ UNCHANGED <<asks, answers, operator, now>>

SweepDropAsk(g) ==
    /\ gate[g].at = "dropAsk"
    /\ asks' = [asks EXCEPT ![gate[g].cur] = None]
    /\ gate' = [gate EXCEPT ![g].at = "dropAnswer"]
    /\ UNCHANGED <<answers, operator, now>>

SweepDropAnswer(g) ==
    /\ gate[g].at = "dropAnswer"
    /\ answers' = [answers EXCEPT ![gate[g].cur] = None]
    /\ gate' = [gate EXCEPT ![g].at = "sweepAsks", ![g].cur = None]
    /\ UNCHANGED <<asks, operator, now>>

\* Mutant: every answer under another name counts as an orphan.
OrphanAlways(g, n) == n # gate[g].name

Orphan(g, n) == asks[n] = None

SweepAnswer(g) ==
    /\ gate[g].at = "sweepAnswers"
    /\ \/ \E n \in gate[g].todo :
            gate' = [gate EXCEPT ![g].todo = @ \ {n},
                                 ![g].cur = IF Orphan(g, n) THEN n ELSE None,
                                 ![g].at = IF Orphan(g, n) THEN "dropOrphan" ELSE "sweepAnswers"]
       \/ gate[g].todo = {} /\ gate' = [gate EXCEPT ![g].at = "post"]
    /\ UNCHANGED <<asks, answers, operator, now>>

DropOrphan(g) ==
    /\ gate[g].at = "dropOrphan"
    /\ answers' = [answers EXCEPT ![gate[g].cur] = None]
    /\ gate' = [gate EXCEPT ![g].at = "sweepAnswers", ![g].cur = None]
    /\ UNCHANGED <<asks, operator, now>>

Post(g) ==
    /\ gate[g].at = "post"
    /\ asks' = [asks EXCEPT ![gate[g].name] =
                   [nonce |-> g, deadline |-> gate[g].deadline,
                    permanent |-> g \in Permanent, mtime |-> now]]
    /\ gate' = [gate EXCEPT ![g].at = "read"]
    /\ UNCHANGED <<answers, operator, now>>

-----------------------------------------------------------------------------
(* The gate: wait_answer.                                                  *)

\* The nonce the wait expects is read back from the file.
ReadBack(g) ==
    /\ gate[g].at = "read"
    /\ LET a == asks[gate[g].name] IN
       gate' = [gate EXCEPT ![g].at = "wait",
                            ![g].expected = IF a = None THEN None ELSE a.nonce,
                            ![g].asked = IF a = None THEN None ELSE a.mtime]
    /\ UNCHANGED <<asks, answers, operator, now>>

\* Mutant: any allow or deny that is no older than the ask counts.
ValidAnyNonce(g, a) == gate[g].asked # None /\ a.mtime >= gate[g].asked

Valid(g, a) ==
    /\ gate[g].expected # None /\ a.nonce = gate[g].expected
    /\ gate[g].asked # None /\ a.mtime >= gate[g].asked

\* An answer that is there ends the wait, and counts when it is valid.
TakeAnswer(g) ==
    /\ gate[g].at = "wait" /\ answers[gate[g].name] # None
    /\ LET a == answers[gate[g].name] IN
       gate' = [gate EXCEPT ![g].at = "consumeAsk", ![g].verdict = IF Valid(g, a) THEN a ELSE None]
    /\ UNCHANGED <<asks, answers, operator, now>>

GiveUp(g) ==
    /\ gate[g].at = "wait" /\ answers[gate[g].name] = None /\ now >= gate[g].deadline
    /\ gate' = [gate EXCEPT ![g].at = "consumeAsk"]
    /\ UNCHANGED <<asks, answers, operator, now>>

\* What is known of a gate that is over.
Ending(g, how) ==
    [Rest EXCEPT !.at = how, !.name = gate[g].name, !.verdict = gate[g].verdict]

\* Mutant: only the answer is retired.
ConsumeNoAsk(g) ==
    /\ gate[g].at = "consumeAsk"
    /\ gate' = [gate EXCEPT ![g].at = "consumeAnswer"]
    /\ UNCHANGED <<asks, answers, operator, now>>

ConsumeAsk(g) ==
    /\ gate[g].at = "consumeAsk"
    /\ asks' = [asks EXCEPT ![gate[g].name] = None]
    /\ gate' = [gate EXCEPT ![g].at = "consumeAnswer"]
    /\ UNCHANGED <<answers, operator, now>>

ConsumeAnswer(g) ==
    /\ gate[g].at = "consumeAnswer"
    /\ answers' = [answers EXCEPT ![gate[g].name] = None]
    /\ gate' = [gate EXCEPT ![g] = Ending(g, "done")]
    /\ UNCHANGED <<asks, operator, now>>

\* The host kills the hook: its files stay until a later gate sweeps them.
Killed(g) ==
    /\ Waits(g)
    /\ gate' = [gate EXCEPT ![g] = Ending(g, "dead")]
    /\ UNCHANGED <<asks, answers, operator, now>>

-----------------------------------------------------------------------------
(* The operator: what is shown, the one read of the ask, the write.        *)

\* The operator decides on what is shown, and types the name for a permanent ask.
Show(o) ==
    /\ operator[o].at = "idle"
    /\ \E n \in Present(asks) :
        operator' = [operator EXCEPT ![o] = [at |-> "shown", name |-> n, shown |-> asks[n].permanent,
                                             nonce |-> None, allow |-> FALSE]]
    /\ UNCHANGED <<asks, answers, gate, now>>

\* Mutant: the permanent rule is checked on the tier that was shown.
CheckShown(shown, a) == TRUE

\* check_allow, on the worse of the tier that was shown and the tier in the file: the name was typed
\* only when a permanent ask was shown.
CheckAllow(shown, a) == a.permanent => shown

ReadAsk(o) ==
    /\ operator[o].at = "shown"
    /\ \E allow \in BOOLEAN :
        LET a == asks[operator[o].name] IN
        operator' = IF a = None \/ (allow /\ ~CheckAllow(operator[o].shown, a))
                    THEN [operator EXCEPT ![o] = Off]
                    ELSE [operator EXCEPT ![o].at = "write", ![o].nonce = a.nonce, ![o].allow = allow]
    /\ UNCHANGED <<asks, answers, gate, now>>

WriteAnswer(o) ==
    /\ operator[o].at = "write"
    /\ answers' = [answers EXCEPT ![operator[o].name] =
                      [nonce |-> operator[o].nonce, allow |-> operator[o].allow,
                       confirm |-> operator[o].shown, mtime |-> now]]
    /\ operator' = [operator EXCEPT ![o] = [Off EXCEPT !.at = "wrote", !.name = operator[o].name,
                                                        !.nonce = operator[o].nonce]]
    /\ UNCHANGED <<asks, gate, now>>

Again(o) ==
    /\ operator[o].at = "wrote"
    /\ operator' = [operator EXCEPT ![o] = Off]
    /\ UNCHANGED <<asks, answers, gate, now>>

Tick == now < MaxNow /\ now' = now + 1 /\ UNCHANGED <<asks, answers, gate, operator>>

GateStep(g) ==
    \/ SweepAsk(g) \/ SweepDropAsk(g) \/ SweepDropAnswer(g)
    \/ SweepAnswer(g) \/ DropOrphan(g)
    \/ Post(g) \/ ReadBack(g) \/ TakeAnswer(g) \/ GiveUp(g) \/ ConsumeAsk(g) \/ ConsumeAnswer(g)

OperatorStep(o) == Show(o) \/ ReadAsk(o) \/ WriteAnswer(o) \/ Again(o)

Next ==
    \/ \E g \in Gates : Begin(g) \/ GateStep(g) \/ Killed(g)
    \/ \E o \in Operators : OperatorStep(o)
    \/ Tick

Spec == Init /\ [][Next]_vars

-----------------------------------------------------------------------------
(* Properties.                                                             *)

TypeOK ==
    /\ asks \in [Names -> Ask \cup {None}] /\ answers \in [Names -> Answer \cup {None}]
    /\ gate \in [Gates -> [at : Steps, name : Names \cup {None},
                           deadline : 0 .. MaxNow + Timeout, swept : Times,
                           todo : SUBSET Names, cur : Names \cup {None},
                           expected : Gates \cup {None}, asked : Times \cup {None},
                           verdict : Answer \cup {None}]]
    /\ operator \in [Operators -> [at : {"idle", "shown", "write", "wrote"}, name : Names \cup {None},
                                   shown : BOOLEAN, nonce : Gates \cup {None}, allow : BOOLEAN]]
    /\ now \in Times

\* "Only an answer that echoes this ask's nonce and is no older than it can allow" (ask.rs): the answer
\* a gate takes was written to the ask this gate posted, whatever was left under its name.
OwnAnswer == \A g \in Gates : gate[g].verdict # None => gate[g].verdict.nonce = g

\* A permanent call is allowed only when the operator typed the name for it, also when its ask took the
\* place of an undoable one after the operator looked (GR-R-15).
PermanentConfirmed ==
    \A g \in Permanent :
        gate[g].verdict # None /\ gate[g].verdict.allow => gate[g].verdict.confirm

\* No other gate has used the name.
Fresh(g) == \A h \in Gates \ {g} : gate[h].name # gate[g].name

\* Nobody removes an ask that a gate waits on before its deadline.
AskStays ==
    \A g \in Gates :
        gate[g].at \in {"read", "wait"} /\ now < gate[g].deadline /\ Fresh(g) =>
            asks[gate[g].name] # None /\ asks[gate[g].name].nonce = g

\* An answer written to a gate that still waits is there until the gate takes it: no sweep of another
\* gate, which looks at the two directories at different times, takes it for an orphan.
AnswerStays ==
    \A o \in Operators, g \in Gates :
        /\ operator[o].at = "wrote" /\ operator[o].nonce = g
        /\ gate[g].at = "wait" /\ now < gate[g].deadline /\ Fresh(g)
        => answers[gate[g].name] # None

\* A gate that has answered its call has left no ask of its own behind.
AskRetired ==
    \A g \in Gates : gate[g].at = "done" =>
        \A n \in Names : asks[n] # None => asks[n].nonce # g
=============================================================================
