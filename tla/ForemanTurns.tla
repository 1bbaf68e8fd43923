----------------------------- MODULE ForemanTurns -----------------------------
(***************************************************************************)
(* The turns of the foreman in chat mode (coppice server/foreman_chat.rs,  *)
(* foreman_turn.rs, foreman_tools.rs, foreman_failover.rs, and             *)
(* foreman/calls.rs, turns.rs): what becomes of an owner's sentence.  Talk *)
(* logs it and queues a turn; the runner takes the turns one at a time and *)
(* runs each on the first account that can; the model's tool calls come in *)
(* on the turn's socket, are written ahead in calls.jsonl, and carry the   *)
(* sentences that came meanwhile back to the model; the end is recorded in *)
(* turns.jsonl.  Coppice may crash before any step; when it opens the chat *)
(* again it settles what calls.jsonl and turns.jsonl leave open.           *)
(*                                                                         *)
(* A sentence is its act id, and a message is its place in the log: the    *)
(* notes and replies in between, the parts of a long message and what the  *)
(* model says are left out.  A turn is named by the message it answers.    *)
(***************************************************************************)
EXTENDS Integers, Sequences, SequencesExt

CONSTANTS
    Sentences,     \* what the owner says, each under an act id
    Accounts,      \* how many accounts the turn chain has
    Callers,       \* threads that serve one tool call each
    MaxCalls,      \* bound of the calls of one turn and those that acted in the others
    MaxPauses,     \* bound of the pauses of one turn
    Mishaps,       \* bound of the crashes, the stops and the file operations that fail
    None

ASSUME TurnsAssumption ==
    /\ IsFiniteSet(Sentences)
    /\ Accounts \in Nat \ {0} /\ MaxCalls \in Nat /\ MaxPauses \in Nat /\ Mishaps \in Nat

VARIABLES
    log,       \* main/: the owner's messages
    notes,     \* main/: the notes, on a message or on a tool call
    turns,     \* turns.jsonl
    calls,     \* calls.jsonl
    torn,      \* the files of the two that end in a torn line
    up,        \* how far the server is: see Phases
    opening,   \* what the steps of an open have read, and whether the log still takes appends
    acts,      \* the act ids the open chat knows
    queue,     \* the messages that wait for a turn
    running,   \* whether the thread that runs the turns runs
    turn,      \* the turn it runs
    call,      \* the calls in flight
    mishaps,
    heard,     \* history: how often a model was given each message
    effects,   \* history: the tool effects
    unsaid     \* history: what a note was about that could not be written

disk == <<log, notes, turns, calls, torn>>
memory == <<up, opening, acts, queue, running, turn, call>>
history == <<heard, effects, unsaid>>
vars == <<disk, memory, mishaps, history>>

Ids == 1 .. Cardinality(Sentences)
Phases == {"down", "settle", "told", "turns", "close", "note", "record", "up", "stop"}
Says == {"again", "ran", "unanswered", "ran, unanswered", "unread", "unknown"}

TurnOf == [msg : Ids,
           at : {"begun", "start", "run", "over", "paused", "ending", "closed", "noted"},
           account : 0 .. Accounts, before : Nat, accepted : Nat, seq : Nat,
           pauses : 0 .. MaxPauses, given : BOOLEAN, mid : SUBSET Ids,
           result : {"none", "ok", "out", "bad"}, ran : BOOLEAN]

CallOf == [at : {"accepted", "line", "refused", "effect", "end", "deliver", "write"},
           account : 1 .. Accounts, n : Nat, took : Seq(Ids)]

ASSUME NoneAssumption == None \notin TurnOf \cup CallOf

NothingRead == [todo |-> {}, started |-> {}, unknown |-> {}, unread |-> FALSE, last |-> 0,
                dangling |-> {}, closed |-> {}, blind |-> FALSE, broken |-> FALSE]

Init ==
    /\ log = <<>> /\ notes = {} /\ turns = {} /\ calls = {} /\ torn = {}
    /\ up = "down" /\ opening = NothingRead /\ acts = {} /\ queue = <<>> /\ running = FALSE
    /\ turn = None /\ call = [k \in Callers |-> None]
    /\ mishaps = 0
    /\ heard = [m \in Ids |-> 0] /\ effects = {} /\ unsaid = {}

Mishap == mishaps < Mishaps /\ mishaps' = mishaps + 1
NoMishap == mishaps' = mishaps

-----------------------------------------------------------------------------
(* The two files of records.  An append that fails is cut back; when the   *)
(* cut fails as well, or only the sync of the directory did, what was      *)
(* written of the line stays.                                              *)

Line(t, n, phase, outcome) == [turn |-> t, n |-> n, phase |-> phase, outcome |-> outcome]

\* Mutant: the new line is joined to a torn tail, and neither can be read.
AppendedToTail(line) ==
    /\ calls' = IF "calls" \in torn THEN calls ELSE calls \cup {line}
    /\ torn' = torn \ {"calls"} /\ NoMishap

\* append_call: a torn tail is cut first.
Appended(line) == calls' = calls \cup {line} /\ torn' = torn \ {"calls"} /\ NoMishap

NotAppended(line) ==
    /\ \/ calls' = calls \cup {line} /\ torn' = torn \ {"calls"}
       \/ calls' = calls /\ torn' \in {torn, torn \ {"calls"}, torn \cup {"calls"}}
    /\ Mishap

Starts == {c \in calls : c.phase = "start"}
Ended(c) == \E e \in calls : e.phase = "end" /\ e.turn = c.turn /\ e.n = c.n
DanglingCalls == {c \in Starts : ~Ended(c)}
TurnHasToolStart(t) == \E c \in Starts : c.turn = t

Record(m, status, mid) == [msg |-> m, status |-> status, mid |-> mid]

\* append_turn: no tail is cut, so a record behind a torn one is lost with it.
AppendTurn(r) ==
    \/ /\ turns' = IF "turns" \in torn THEN turns ELSE turns \cup {r}
       /\ torn' = torn \ {"turns"} /\ NoMishap
    \/ turns' = turns /\ torn' \in {torn, torn \cup {"turns"}} /\ Mishap

\* A note on the n-th tool call of turn m, on message m (n = 0), or on no one message (m = 0).
With(m, n, says) == notes \cup {[on |-> <<m, n>>, says |-> says]}

\* chat_append: the note is written, or it is not and what wrote it goes on.
Note(m, n, says) ==
    \/ ~opening.broken /\ notes' = With(m, n, says) /\ unsaid' = unsaid /\ NoMishap
    \/ /\ notes' = notes /\ unsaid' = unsaid \cup {<<m, n>>}
       /\ IF opening.broken THEN NoMishap ELSE Mishap

\* An append to the log that cannot be cut back: the log takes no more until the next open.
Broken == opening' = [opening EXCEPT !.broken = TRUE]

\* It may be of a line left out here as well: a reply, a tool message.
LogBreaks ==
    /\ up # "down" /\ ~opening.broken /\ Broken /\ Mishap
    /\ UNCHANGED <<disk, up, acts, queue, running, turn, call, history>>

-----------------------------------------------------------------------------
(* Talk: log the sentence and queue its turn, once for each act id.        *)

\* Mutant: the repeat is looked for in the queue only.
KnownIfQueued(s) == \E i \in DOMAIN queue : log[queue[i]] = s

Known(s) == s \in acts

\* The sender may not get the reply and send the sentence again: a repeat changes nothing.
Talk(s) ==
    /\ up = "up" /\ ~Known(s) /\ ~opening.broken
    /\ Len(log) < Cardinality(Sentences)
    /\ log' = Append(log, s) /\ acts' = acts \cup {s}
    /\ queue' = Append(queue, Len(log) + 1) /\ running' = TRUE
    /\ UNCHANGED <<notes, turns, calls, torn, up, opening, turn, call, mishaps, history>>

\* The append fails but leaves its line: the sentence is refused, and yet the next open finds it.  One
\* that is cut back changes nothing.
TalkLeft(s) ==
    /\ up = "up" /\ ~Known(s) /\ ~opening.broken
    /\ Len(log) < Cardinality(Sentences)
    /\ log' = Append(log, s) /\ Broken /\ Mishap
    /\ UNCHANGED <<notes, turns, calls, torn, up, acts, queue, running, turn, call, history>>

-----------------------------------------------------------------------------
(* The runner and its turn: run_turns, run_turn, run_chain.                *)

Fresh(m) ==
    [msg |-> m, at |-> "begun", account |-> 0, before |-> 0, accepted |-> 0, seq |-> 0,
     pauses |-> 0, given |-> FALSE, mid |-> {}, result |-> "none", ran |-> FALSE]

\* The next message: a stop drops it, and an empty queue ends the runner.
TakeTurn ==
    /\ running /\ turn = None /\ up \in {"up", "stop"}
    /\ IF queue # <<>> /\ up = "up"
       THEN /\ AppendTurn(Record(Head(queue), "running", {}))
            /\ turn' = Fresh(Head(queue)) /\ queue' = Tail(queue) /\ running' = TRUE
       ELSE /\ queue' = IF queue = <<>> THEN queue ELSE Tail(queue)
            /\ running' = FALSE /\ UNCHANGED <<turns, torn, turn, mishaps>>
    /\ UNCHANGED <<log, notes, calls, up, opening, acts, call, history>>

\* A step of the turn that only moves it.
Moves(t) ==
    /\ turn' = t
    /\ UNCHANGED <<disk, up, opening, acts, queue, running, call, mishaps, history>>

InTurn(at) == turn # None /\ turn.at = at

OnAccount(a) == [turn EXCEPT !.at = "start", !.account = a]

\* The first account after a that is not cooling down, or none is left and the turn pauses.
Onward(a) ==
    \/ \E b \in a + 1 .. Accounts : Moves(OnAccount(b))
    \/ Moves([turn EXCEPT !.at = "paused"])

\* The message, the socket and the input are ready, or the turn fails with no model run.
Prepare ==
    /\ InTurn("begun")
    /\ Onward(0) \/ Moves([turn EXCEPT !.at = "ending", !.result = "bad"])

StartAccount ==
    /\ InTurn("start")
    /\ turn' = [turn EXCEPT !.at = "run", !.before = turn.accepted, !.given = TRUE]
    /\ heard' = IF turn.given THEN heard ELSE [heard EXCEPT ![turn.msg] = @ + 1]
    /\ UNCHANGED <<disk, up, opening, acts, queue, running, call, mishaps, effects, unsaid>>

\* The process is over: it answered, its account is out, or it failed, ran too long or was stopped.
ProcessEnds ==
    /\ InTurn("run")
    /\ \E result \in {"ok", "out", "bad"} : Moves([turn EXCEPT !.at = "over", !.result = result])

\* Mutant: only the calls that wrote a start line count.
UsedToolsLogged == TurnHasToolStart(turn.msg)

\* The calls the socket took from this account, or a start line of the turn on disk.
UsedTools == turn.accepted > turn.before \/ TurnHasToolStart(turn.msg)

Failing == [turn EXCEPT !.at = "ending", !.result = "bad", !.ran = turn.seq > 0]

\* The verdict.  Whether a call ran is looked at here, before the socket closes.  A stop reaches the
\* turn a moment after it is set.
Judge ==
    /\ InTurn("over")
    /\ \/ turn.result = "ok" /\ Moves([turn EXCEPT !.at = "ending"])
       \/ turn.result = "bad" /\ Moves(Failing)
       \/ turn.result = "out" /\ (UsedTools \/ up = "stop") /\ Moves(Failing)
       \/ turn.result = "out" /\ ~UsedTools /\ Onward(turn.account)

\* Every account is out: the pause ends by time, by an owner message or by the stop.
PauseEnds ==
    /\ InTurn("paused")
    /\ \/ Moves(Failing)
       \/ /\ turn.pauses < MaxPauses
          /\ \E a \in 1 .. Accounts :
                Moves([turn EXCEPT !.at = "start", !.account = a, !.pauses = @ + 1])

CallsDone == \A k \in Callers : call[k] = None

\* The socket closes: it waits for the calls in flight, for 32 s, which no call needs.
CloseSocket ==
    /\ InTurn("ending") /\ CallsDone
    /\ Moves([turn EXCEPT !.at = "closed"])

\* The reply, or the note on the failure.
SayEnd ==
    /\ InTurn("closed")
    /\ IF turn.result = "ok" THEN notes' = notes /\ unsaid' = unsaid /\ NoMishap
       ELSE Note(turn.msg, 0, IF turn.ran THEN "ran" ELSE "again")
    /\ turn' = [turn EXCEPT !.at = "noted"]
    /\ UNCHANGED <<log, turns, calls, torn, up, opening, acts, queue, running, call, heard, effects>>

\* The end record is the last thing a turn writes.
RecordEnd ==
    /\ InTurn("noted")
    /\ AppendTurn(Record(turn.msg, IF turn.result = "ok" THEN "ok" ELSE "failed", turn.mid))
    /\ turn' = None
    /\ UNCHANGED <<log, notes, calls, up, opening, acts, queue, running, call, history>>

-----------------------------------------------------------------------------
(* A tool call: the thread of one connection on the turn's socket.  The    *)
(* turn waits for it before it ends.                                       *)

Doing(k, at) == call[k] # None /\ call[k].at = at

\* A connection may be taken when the process that made it is gone.
Accept(k) ==
    /\ InTurn("run") \/ InTurn("over")
    /\ call[k] = None
    /\ turn.accepted + Cardinality({c \in Starts : c.turn # turn.msg}) < MaxCalls
    /\ turn' = [turn EXCEPT !.accepted = @ + 1]
    /\ call' = [call EXCEPT ![k] = [at |-> "accepted", account |-> turn.account, n |-> 0,
                                    took |-> <<>>]]
    /\ UNCHANGED <<disk, up, opening, acts, queue, running, mishaps, history>>

FromLiveTree(k) == InTurn("run") /\ turn.account = call[k].account

\* The peer must be in the process tree of the run, and its request is read: a call that acts writes
\* its intent first, another only answers.
ReadRequest(k) ==
    /\ Doing(k, "accepted")
    /\ \/ FromLiveTree(k) /\ call' = [call EXCEPT ![k].at = "line"]
       \/ FromLiveTree(k) /\ call' = [call EXCEPT ![k].at = "deliver"]
       \/ call' = [call EXCEPT ![k] = None]
    /\ UNCHANGED <<disk, up, opening, acts, queue, running, turn, mishaps, history>>

\* The call acts only with its start line on disk.
StartLine(k, line) ==
    \/ Appended(line) /\ call' = [call EXCEPT ![k].at = "effect", ![k].n = line.n]
    \/ NotAppended(line) /\ call' = [call EXCEPT ![k].at = "refused", ![k].n = line.n]

StartCall(k) ==
    /\ Doing(k, "line")
    /\ StartLine(k, Line(turn.msg, turn.seq + 1, "start", "none"))
    /\ turn' = [turn EXCEPT !.seq = @ + 1]
    /\ UNCHANGED <<log, notes, turns, up, opening, acts, queue, running, history>>

\* Its outcome, ok or error, is told by no property.
EndLine(k) ==
    LET line == Line(turn.msg, call[k].n, "end", "known") IN Appended(line) \/ NotAppended(line)

\* A refused call has no effect; its line may be on disk and is closed if that can be written.
Refuse(k) ==
    /\ Doing(k, "refused")
    /\ EndLine(k)
    /\ call' = [call EXCEPT ![k] = None]
    /\ UNCHANGED <<log, notes, turns, up, opening, acts, queue, running, turn, history>>

\* The spawn, or a bad argument.
Effect(k) ==
    /\ Doing(k, "effect")
    /\ \/ effects' = effects \cup {[turn |-> turn.msg, n |-> call[k].n, account |-> call[k].account,
                                    past |-> FALSE]}
       \/ effects' = effects
    /\ call' = [call EXCEPT ![k].at = "end"]
    /\ UNCHANGED <<disk, up, opening, acts, queue, running, turn, mishaps, heard, unsaid>>

EndCall(k) ==
    /\ Doing(k, "end")
    /\ EndLine(k)
    /\ call' = [call EXCEPT ![k].at = "deliver"]
    /\ UNCHANGED <<log, notes, turns, up, opening, acts, queue, running, turn, history>>

\* What a partition of s by P keeps: SelectSeq, written out as a function that can be proved about.
Kept(s, P) ==
    LET kept[i \in 0 .. Len(s)] ==
            IF i = 0 THEN <<>>
            ELSE IF s[i] \in P THEN Append(kept[i - 1], s[i]) ELSE kept[i - 1]
    IN  kept[Len(s)]

\* Mutant: the messages that are delivered stay in the queue.
LeftInQueue == queue

\* deliver_mid: the messages behind the running turn leave the queue.
StaysQueued == Kept(queue, 1 .. turn.msg)

Deliver(k) ==
    /\ Doing(k, "deliver")
    /\ LET took == Kept(queue, Ids \ 1 .. turn.msg) IN
       call' = [call EXCEPT ![k].took = took, ![k].at = "write"]
    /\ queue' = StaysQueued
    /\ UNCHANGED <<disk, up, opening, acts, running, turn, mishaps, history>>

\* The result and the messages are written to the model's side, which hears them if it is still
\* there; or they cannot be written and go back to the queue.
WriteResult(k) ==
    /\ Doing(k, "write")
    /\ call' = [call EXCEPT ![k] = None]
    /\ \/ /\ turn' = [turn EXCEPT !.mid = @ \cup ToSet(call[k].took)]
          /\ heard' = [m \in Ids |-> IF FromLiveTree(k) /\ m \in ToSet(call[k].took)
                                     THEN heard[m] + 1 ELSE heard[m]]
          /\ queue' = queue
       \/ queue' = call[k].took \o queue /\ UNCHANGED <<turn, heard>>
    /\ UNCHANGED <<disk, up, opening, acts, running, mishaps, effects, unsaid>>

-----------------------------------------------------------------------------
(* Stop and crash.                                                         *)

\* What was in memory is gone.
Gone ==
    /\ up' = "down" /\ opening' = NothingRead /\ acts' = {} /\ queue' = <<>> /\ running' = FALSE
    /\ turn' = None /\ call' = [k \in Callers |-> None]
    /\ effects' = {[e EXCEPT !.past = TRUE] : e \in effects}

Stop ==
    /\ up = "up" /\ up' = "stop" /\ Mishap
    /\ UNCHANGED <<disk, opening, acts, queue, running, turn, call, history>>

\* The runner is over, and so is coppice.
Stopped ==
    /\ up = "stop" /\ ~running /\ Gone
    /\ UNCHANGED <<disk, mishaps, heard, unsaid>>

\* The files a line is being written to.
Writing ==
    (IF up = "told" \/ \E k \in Callers : \E at \in {"line", "refused", "end"} : Doing(k, at)
     THEN {"calls"} ELSE {})
    \cup
    (IF up \in {"close", "record"} \/ InTurn("noted") \/ (up = "up" /\ turn = None /\ queue # <<>>)
     THEN {"turns"} ELSE {})

\* The line that was being written may be left torn.
Crash ==
    /\ up # "down" /\ Mishap /\ Gone
    /\ \E files \in SUBSET Writing : torn' = torn \cup files
    /\ UNCHANGED <<log, notes, turns, calls, heard, unsaid>>

-----------------------------------------------------------------------------
(* The next open of the chat: settle_dangling_calls and then               *)
(* close_dangling_turns.  No turn and no talk runs before it is done.      *)

\* Mutant: a call that has its end line does not count.
TurnsCutShort == {c.turn : c \in DanglingCalls}

TurnsStarted == {c.turn : c \in Starts}

\* The tail is cut, if it can be, and the file is read once, or it cannot be read.
ReadCalls ==
    /\ up = "down" /\ acts' = ToSet(log)
    /\ \/ /\ up' = "settle" /\ notes' = notes
          /\ \/ torn' = torn \ {"calls"} /\ NoMishap
             \/ torn' = torn /\ Mishap
          /\ opening' = [NothingRead EXCEPT !.todo = DanglingCalls, !.started = TurnsStarted]
       \/ /\ up' = "turns" /\ notes' \in {notes, With(0, 0, "unread")}
          /\ torn' \in {torn, torn \ {"calls"}} /\ Mishap
          /\ opening' = [NothingRead EXCEPT !.unread = TRUE]
    /\ UNCHANGED <<log, turns, calls, queue, running, turn, call, history>>

NumberOf(c) == <<c.turn, c.n>>

EndUnknown(c) ==
    LET line == Line(c.turn, c.n, "end", "unknown") IN
    (Appended(line) \/ NotAppended(line)) /\ UNCHANGED <<notes, unsaid>>

Tell(c) == Note(c.turn, c.n, "unknown") /\ UNCHANGED <<calls, torn>>

\* Mutant: the end line comes before the note.
SettleEndFirst(step, c) == IF step = 1 THEN EndUnknown(c) ELSE Tell(c)

\* A call with no end gets its note first, or not, and then its end line.
SettleCall(step, c) == IF step = 1 THEN Tell(c) ELSE EndUnknown(c)

Settle ==
    /\ \/ /\ up = "settle" /\ opening.todo = {} /\ up' = "turns"
          /\ UNCHANGED <<notes, calls, torn, mishaps, opening, unsaid>>
       \/ /\ up = "settle" /\ up' = "told"
          /\ \E c \in opening.todo :
                /\ SettleCall(1, c)
                /\ opening' = [opening EXCEPT !.unknown = @ \cup {NumberOf(c)}]
       \/ /\ up = "told" /\ up' = "settle"
          /\ \E c \in {d \in opening.todo : NumberOf(d) \in opening.unknown} :
                /\ SettleCall(2, c)
                /\ opening' = [opening EXCEPT !.todo = @ \ {c}]
    /\ UNCHANGED <<log, turns, acts, queue, running, turn, call, heard, effects>>

\* Mutant: a message a turn heard at a tool call counts as unanswered.
DoneByTurn == {r.msg : r \in {r \in turns : r.status # "running"}}

\* The messages that turns which ended answered, or heard at a tool call.
DoneMessages == DoneByTurn \cup UNION {r.mid : r \in {r \in turns : r.status # "running"}}

\* A file that cannot be read counts as no turns.
ReadTurns ==
    /\ up = "turns" /\ up' = "close"
    /\ \/ /\ opening' = [opening EXCEPT
                !.last = Max(DoneMessages \cup {0}),
                !.dangling = {r \in turns : r.status = "running" /\ r.msg \notin DoneByTurn}]
          /\ NoMishap
       \/ opening' = [opening EXCEPT !.blind = TRUE] /\ Mishap
    /\ UNCHANGED <<disk, acts, queue, running, turn, call, history>>

\* A turn that has no end is closed as failed, one after the other.
CloseTurns ==
    /\ up = "close"
    /\ IF opening.dangling = {} THEN up' = "note" /\ UNCHANGED <<turns, torn, mishaps, opening>>
       ELSE LET r == CHOOSE r \in opening.dangling : \A q \in opening.dangling : r.msg <= q.msg IN
            /\ AppendTurn([r EXCEPT !.status = "failed"])
            /\ opening' = [opening EXCEPT !.dangling = @ \ {r}, !.closed = @ \cup {r.msg}]
            /\ up' = up
    /\ UNCHANGED <<log, notes, calls, acts, queue, running, turn, call, history>>

Newest == Len(log)

\* What the note says of the newest message: what is known of the tool calls of its turn.
Telling(m) ==
    IF \E u \in opening.unknown : u[1] = m THEN "unknown"
    ELSE IF opening.unread THEN "unread"
    ELSE IF m \in opening.started THEN "ran, unanswered"
    ELSE "unanswered"

NoteNewest ==
    /\ up = "note"
    /\ IF Newest > opening.last THEN Note(Newest, 0, Telling(Newest)) /\ up' = "record"
       ELSE notes' = notes /\ unsaid' = unsaid /\ NoMishap /\ up' = "up"
    /\ UNCHANGED <<log, turns, calls, torn, opening, acts, queue, running, turn, call, heard, effects>>

\* The note is the answer: a record says so, when the message has none of its own.
RecordNewest ==
    /\ up = "record" /\ up' = "up"
    /\ IF Newest \in opening.closed THEN UNCHANGED <<turns, torn, mishaps>>
       ELSE AppendTurn(Record(Newest, "failed", {}))
    /\ UNCHANGED <<log, notes, calls, opening, acts, queue, running, turn, call, history>>

-----------------------------------------------------------------------------
Runner ==
    \/ TakeTurn \/ Prepare \/ StartAccount \/ ProcessEnds \/ Judge \/ PauseEnds
    \/ CloseSocket \/ SayEnd \/ RecordEnd

Serve(k) ==
    \/ ReadRequest(k) \/ StartCall(k) \/ Refuse(k) \/ Effect(k) \/ EndCall(k) \/ Deliver(k)
    \/ WriteResult(k)

Open == ReadCalls \/ Settle \/ ReadTurns \/ CloseTurns \/ NoteNewest \/ RecordNewest

Next ==
    \/ \E s \in Sentences : Talk(s) \/ TalkLeft(s)
    \/ LogBreaks
    \/ Runner
    \/ \E k \in Callers : Accept(k) \/ Serve(k)
    \/ Stop \/ Stopped \/ Crash \/ Open

Spec == Init /\ [][Next]_vars

-----------------------------------------------------------------------------
(* Properties.                                                             *)

TypeOK ==
    /\ log \in Seq(Sentences)
    /\ notes \subseteq [on : (Ids \cup {0}) \X Nat, says : Says]
    /\ turns \subseteq [msg : Ids, status : {"running", "ok", "failed"}, mid : SUBSET Ids]
    /\ calls \subseteq [turn : Ids, n : Nat, phase : {"start", "end"},
                        outcome : {"none", "known", "unknown"}]
    /\ torn \subseteq {"calls", "turns"} /\ up \in Phases /\ acts \subseteq Sentences
    /\ queue \in Seq(Ids) /\ running \in BOOLEAN
    /\ turn \in TurnOf \cup {None}
    /\ \A k \in Callers : call[k] \in CallOf \cup {None}
    /\ mishaps \in 0 .. Mishaps
    /\ \A m \in Ids : heard[m] \in Nat
    /\ unsaid \subseteq (Ids \cup {0}) \X Nat
    /\ effects \subseteq [turn : Ids, n : Nat, account : 1 .. Accounts, past : BOOLEAN]
    \* a turn or a call in flight has the thread that runs it, and the message it is about
    /\ turn # None => running /\ turn.msg \in DOMAIN log
    /\ queue # <<>> /\ up = "up" => running
    /\ \A k \in Callers : call[k] # None => turn # None

\* The effects of a turn come from one account (FM-R-50: a turn that used a tool is not run again on
\* another account, where its effects would repeat), for calls that are taken but have written nothing
\* as well.
OneAccount ==
    \A e, f \in effects : e.turn = f.turn => e.account = f.account

\* An effect has its start line on disk, whatever append fails or is torn (FM-R-66).
IntentFirst ==
    \A e \in effects : \E c \in Starts : c.turn = e.turn /\ c.n = e.n

\* Once the chat is open again, an effect of an earlier run of coppice whose outcome is on disk nowhere
\* has its note, whichever crash falls between the note and the end line.  It has none when calls.jsonl
\* could not be read, or when the note could not be written: the open drops that error and writes the
\* end line all the same, so the next open does not tell the call either.
UnknownTold ==
    up = "up" /\ ~opening.unread =>
        \A e \in effects :
            \/ ~e.past
            \/ \E c \in calls : c.turn = e.turn /\ c.n = e.n /\ c.outcome = "known"
            \/ \E x \in notes : x.on = <<e.turn, e.n>>
            \/ <<e.turn, e.n>> \in unsaid

\* No sentence reaches a model twice, by a turn of its own and at a tool call of another, or after a
\* restart (FM-R-102, FM-R-110); the accounts a turn is moved over count as one model.
HeardOnce == \A m \in Ids : heard[m] <= 1

\* An open that could read turns.jsonl never says that a message is unanswered when the file has its
\* answer, or the turn that heard it at a tool call (FM-R-113).
HeardIsNotDenied ==
    [][up = "note" /\ notes' # notes /\ ~opening.blind =>
          \A r \in turns : Newest \notin r.mid /\ (r.msg = Newest => r.status # "ok")]_vars

\* A sentence is logged once, over crashes and repeats of the send (FM-R-65).
LoggedOnce == \A i, j \in DOMAIN log : log[i] = log[j] => i = j

\* After a restart nobody is told to say a sentence again whose turn had an effect (FM-R-66).
RestartInviteIsSafe ==
    \A x \in notes : x.says = "unanswered" => \A e \in effects : e.turn # x.on[1]

\* The same of a turn that fails while coppice runs.
InviteIsSafe ==
    \A x \in notes : x.says = "again" => \A e \in effects : e.turn # x.on[1]
=============================================================================
