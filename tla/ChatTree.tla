------------------------------- MODULE ChatTree -------------------------------
(* foreman/chat.rs: the chat's log, the tree of summaries over it, and the     *)
(* view a turn reads. Every message has a leaf; the message that completes a   *)
(* larger node also queues that. The compactor, one thread, builds what is     *)
(* queued from the front and calls a model, outside the lock, for a line that  *)
(* does not fit. The view takes a message when all its nodes are written and   *)
(* merges lines when it has grown too large.                                   *)
(*                                                                             *)
(* A text is its size. A step of `pc` is one pass of a loop that runs under    *)
(* the chat's lock; a crash may come between any two.                          *)
EXTENDS MergeOrder

CONSTANTS
    NodeBytes,             \* node_bytes: the most a tree line may have
    ViewMax, ViewMin,      \* view_max, view_min: a batch starts above, ends at
    Unbuilt,               \* the size of the words for a node not built
    Sizes,                 \* of messages
    Answers,               \* sizes of the model's lines, once clipped
    Older,                 \* messages the log may start with
    Lengths,               \* bound: the lengths the log may grow to
    MaxParts,              \* bound: messages one append logs in a row
    MaxFaults              \* bound: stops, crashes, failed writes, spoiled files

ASSUME SizesAssumption ==
    /\ {NodeBytes, ViewMax, ViewMin, Unbuilt, MaxParts, MaxFaults} \subseteq Nat
    /\ Sizes \cup Older \cup Lengths \subseteq Nat
    /\ Answers \subseteq 0 .. NodeBytes

VARIABLES
    \* on disk
    log,                   \* main/: the messages, each with its kind and size
    tree,                  \* tree/: the size of each node that is built
    file,                  \* view.json
    stray,                 \* a line whose failed append was not cut back, if any
    \* in memory, while the chat is open
    pending,               \* the nodes still to write, in write order
    wait,                  \* the retry state of a failed node, if any
    held,                  \* a model's line whose write failed, if any
    skip,                  \* the nodes an open steps past
    view,                  \* the view
    job,                   \* the node whose line the compactor is to get, if any
    \* of the call that holds the lock
    pc,                    \* where it is; "free" when nobody holds it
    caller,                \* for whom next runs
    err,                   \* the error next will return
    moved,                 \* whether the view moved
    plan,                  \* the planner of the batch under way
    \* history
    faults,
    lost,                  \* nodes that a spoiled tree line held
    skipped                \* nodes the view stepped past

disk   == <<log, tree, file, stray>>
memory == <<pending, wait, held, skip, view, job>>
call   == <<pc, caller, err, moved, plan>>
ghosts == <<faults, lost, skipped>>
vars   == <<disk, memory, call, ghosts>>

EmptyView == [count |-> 0, batch |-> FALSE, lines |-> <<>>]
EmptyPlan == Planner(<<>>, 0, {})
NoFile    == [kind |-> "none", view |-> EmptyView]
BadFile   == [kind |-> "bad", view |-> EmptyView]

(* The nodes that a log of n messages has.                                     *)
NodesOf(n) == UNION {Range(Chain(i)) : i \in 0 .. n - 1}

(* queue_for for the messages from a to b - 1: the nodes not built, in the     *)
(* order a live chat would have built them.                                    *)
QueueFor(a, b) ==
    LET Queue[i \in a .. b] ==
            IF i = a THEN <<>> ELSE Queue[i - 1] \o Only(Chain(i - 1), Range(Chain(i - 1)) \ DOMAIN tree)
    IN Queue[b]

-----------------------------------------------------------------------------
(* Opening the chat.                                                           *)

(* apply_view: the lines cover the messages 0 to count - 1, all logged.        *)
Usable(v, n) ==
    /\ v.count <= n
    /\ IF v.lines = <<>>
       THEN v.count = 0
       ELSE FirstOf(v.lines[1]) = 0 /\ LastOf(v.lines[Len(v.lines)]) = v.count - 1
    /\ \A k \in 1 .. Len(v.lines) - 1 : FirstOf(v.lines[k + 1]) = LastOf(v.lines[k]) + 1

(* cut_nodes: a missing node that a built one comes after.                     *)
CutNodes(n) ==
    LET before(a, b) == LastOf(a) < LastOf(b) \/ (LastOf(a) = LastOf(b) /\ a.l < b.l) IN
    {a \in NodesOf(n) \ DOMAIN tree : \E b \in NodesOf(n) \cap DOMAIN tree : before(a, b)}

(* Chat::open up to settle. A line that was not cut back may have come whole.  *)
Open ==
    /\ pc = "closed"
    /\ \E more \in {<<>>} \cup {<<m>> : m \in stray} :
        LET n    == Len(log \o more)
            good == file.kind = "view" /\ Usable(file.view, n) IN
        /\ log' = log \o more
        /\ file' = IF file.kind = "view" /\ ~ good THEN BadFile ELSE file
        /\ view' = IF good THEN file.view ELSE EmptyView
        /\ skip' = IF good THEN {} ELSE CutNodes(n)
        /\ pending' = QueueFor(0, n)
    /\ stray' = {}
    /\ pc' = "build" /\ caller' = "open"
    /\ UNCHANGED <<tree, wait, held, job, err, moved, plan, ghosts>>

-----------------------------------------------------------------------------
(* next: build what needs no model, step the view, save it.                    *)

Idle == caller' = "none" /\ err' = "none" /\ moved' = FALSE

Close ==
    /\ pc' = "closed" /\ Idle /\ plan' = EmptyPlan
    /\ pending' = <<>> /\ wait' = {} /\ held' = {} /\ skip' = {} /\ job' = {}
    /\ view' = EmptyView

(* The chat did not open.                                                      *)
NotOpened ==
    /\ Close
    /\ UNCHANGED <<log, tree, stray, lost, skipped>>

(* The history is moved aside and an empty chat is opened in its place.        *)
MoveAside ==
    /\ log' = <<>> /\ tree' = <<>> /\ file' = NoFile
    /\ pending' = <<>> /\ skip' = {} /\ view' = EmptyView
    /\ pc' = "free" /\ Idle
    /\ lost' = {} /\ skipped' = {}
    /\ UNCHANGED <<stray, wait, held, job, plan>>

(* next returns: to a drain, with the job for the front node.                  *)
Return(e) ==
    /\ pc' = "free" /\ Idle
    /\ skip' = {}
    /\ job' = IF caller = "drain" /\ e = "none" /\ pending # <<>> THEN {Head(pending)} ELSE job
    /\ UNCHANGED <<log, tree, stray, pending, wait, held, view, plan, lost, skipped>>

\* Mutant: the node that failed is asked again never.
WaitsForever(n) == \E w \in wait : w.id = n

Waits(n)  == \E w \in wait : w.id = n /\ ~ w.due
Kept(n)   == {h \in held : h.id = n}
Inputs(n) == IF n.l = 0 THEN {} ELSE Children(n)
Joined(n) ==                            \* the size of its inputs, joined
    IF n.l = 0
    THEN log[n.i + 1].size
    ELSE tree[[l |-> n.l - 1, i |-> 2 * n.i]] + 1 + tree[[l |-> n.l - 1, i |-> 2 * n.i + 1]]

(* The loop ends with error e, or with a job in hand.                          *)
Stops(e) ==
    /\ pc' = "view" /\ err' = e
    /\ UNCHANGED <<disk, memory, caller, moved, plan>>

(* write: the line goes to the tree file, or it fails and is cut back.         *)
Write(n, size) ==
    /\ tree' = [m \in DOMAIN tree \cup {n} |-> IF m = n THEN size ELSE tree[m]]
    /\ pending' = Tail(pending)

BuildWrite ==
    /\ pc = "build" /\ pending # <<>>
    /\ LET n == Head(pending) IN
        /\ ~ Waits(n)
        /\ \/ \E h \in Kept(n) : Write(n, h.size) /\ held' = {}
           \/ /\ Kept(n) = {}
              /\ Inputs(n) \subseteq DOMAIN tree
              /\ Joined(n) <= NodeBytes
              /\ Write(n, Joined(n))
              /\ UNCHANGED held
    /\ UNCHANGED <<log, file, stray, wait, skip, view, job, call, ghosts>>

(* The message cannot be read, or the line cannot be written and is cut back.  *)
BuildFails ==
    /\ pc = "build" /\ pending # <<>>
    /\ faults < MaxFaults
    /\ LET n == Head(pending) IN
        /\ ~ Waits(n)
        /\ Inputs(n) \subseteq DOMAIN tree
        /\ Kept(n) # {} \/ n.l = 0 \/ Joined(n) <= NodeBytes
    /\ Stops("tree")
    /\ faults' = faults + 1
    /\ UNCHANGED <<lost, skipped>>

BuildEnds ==
    /\ pc = "build"
    /\ LET n == Head(pending) IN
        IF pending = <<>> THEN Stops("none")
        ELSE IF Waits(n) THEN Stops("wait")
        ELSE /\ Kept(n) = {}
             /\ IF Inputs(n) \subseteq DOMAIN tree
                THEN Joined(n) > NodeBytes /\ Stops("none")
                ELSE Stops("input")
    /\ UNCHANGED ghosts

(* The size of a view line: its name and its node's text.                      *)
LineSize(n) == 1 + IF n \in DOMAIN tree THEN tree[n] ELSE Unbuilt
ViewSize(lines) == FoldLeft(LAMBDA sum, n : sum + LineSize(n), 0, lines)

Complete(i) == Range(Chain(i)) \subseteq DOMAIN tree \cup skip

(* advance, view_step: the next message joins the view. A batch begins when    *)
(* that is too much, and goes on when it did not get far enough.               *)
ViewStep ==
    /\ pc = "view"
    /\ view.count < Len(log)
    /\ Complete(view.count)
    /\ LET lines == Append(view.lines, Leaf(view.count))
           batch == view.batch \/ ViewSize(lines) > ViewMax IN
        /\ view' = [count |-> view.count + 1, batch |-> batch, lines |-> lines]
        /\ IF batch
           THEN pc' = "batch" /\ plan' = Planner(lines, view.count + 1, DOMAIN tree)
           ELSE UNCHANGED <<pc, plan>>
    /\ skipped' = skipped \cup (Range(Chain(view.count)) \ DOMAIN tree)
    /\ moved' = TRUE
    /\ UNCHANGED <<disk, pending, wait, held, skip, job, caller, err, faults, lost>>

(* One pop of the batch, and the merge when the entry is not stale.            *)
BatchStep ==
    /\ pc = "batch"
    /\ ViewSize(Lines(plan)) > ViewMin
    /\ \E e \in Tops(plan) :
        LET p == [plan EXCEPT !.heap = @ \ {e}] IN
        plan' = IF Fresh(p, e) THEN Merge(p, e.left, view.count, DOMAIN tree) ELSE p
    /\ UNCHANGED <<disk, memory, pc, caller, err, moved, ghosts>>

BatchEnds ==
    /\ pc = "batch"
    /\ LET small == ViewSize(Lines(plan)) <= ViewMin IN
        /\ small \/ plan.heap = {}
        /\ view' = [count |-> view.count, batch |-> view.batch /\ ~ small, lines |-> Lines(plan)]
    /\ pc' = "view" /\ plan' = EmptyPlan
    /\ UNCHANGED <<disk, pending, wait, held, skip, job, caller, err, moved, ghosts>>

(* advance is done: save_view when the view moved.                             *)
Advanced == pc = "view" /\ ~ (view.count < Len(log) /\ Complete(view.count))

\* Mutant: the file does not say that a batch goes on.
NewFileAtRest == IF moved THEN [kind |-> "view", view |-> [view EXCEPT !.batch = FALSE]] ELSE file

NewFile == IF moved THEN [kind |-> "view", view |-> view] ELSE file

SaveView ==
    /\ Advanced
    /\ IF caller = "open" /\ err # "none" THEN NotOpened ELSE Return(err)
    /\ file' = NewFile
    /\ UNCHANGED faults

(* The save fails, before or after the new file took the place of the old.     *)
SaveFails ==
    /\ Advanced /\ moved
    /\ faults < MaxFaults
    /\ IF caller = "open" /\ err = "none" /\ file.kind = "bad"
       THEN MoveAside
       ELSE /\ IF caller = "open" THEN NotOpened ELSE Return(IF err = "none" THEN "view" ELSE err)
            /\ file' \in {file, NewFile}
    /\ faults' = faults + 1

-----------------------------------------------------------------------------
(* The callers.                                                                *)

Settle ==
    pc' = "build" /\ caller' = "settle" /\ UNCHANGED <<err, moved, plan>>

(* append_act: the parts of a text are logged and queued one by one. The node  *)
(* that waits is asked again at once.                                          *)
Log(parts) ==
    /\ log' = log \o parts
    /\ pending' = pending \o QueueFor(Len(log), Len(log \o parts))
    /\ wait' = {[w EXCEPT !.due = TRUE] : w \in wait}

Texts ==
    {t \in UNION {[1 .. n -> [past : BOOLEAN, size : Sizes]] : n \in 1 .. MaxParts} :
        \A k \in DOMAIN t : t[k].past = t[1].past}

(* A past message is logged by the compactor's own thread, when nothing is     *)
(* left to build; every other kind comes when it comes.                        *)
MayLog(parts) ==
    /\ pc = "free" /\ stray = {}
    /\ Len(log) + Len(parts) \in Lengths
    /\ parts[1].past => pending = <<>>

AppendAct(parts) ==
    /\ MayLog(parts)
    /\ Log(parts)
    /\ Settle
    /\ UNCHANGED <<tree, file, stray, held, skip, view, job, ghosts>>

(* Part n + 1 fails, and the parts before it stay. A line that cannot be cut   *)
(* back off ends all appends until the chat is opened again.                   *)
AppendActFails(parts) ==
    /\ MayLog(parts)
    /\ faults < MaxFaults
    /\ \E n \in 0 .. Len(parts) - 1, cut \in BOOLEAN :
        /\ stray' = IF cut THEN {} ELSE {parts[n + 1]}
        /\ IF n = 0
           THEN UNCHANGED <<log, pending, wait, call>>
           ELSE Log(SubSeq(parts, 1, n)) /\ Settle
    /\ faults' = faults + 1
    /\ UNCHANGED <<tree, file, held, skip, view, job, lost, skipped>>

(* import_node: the message that completes it is a past one.                   *)
ImportNode(n) == LastOf(n) < Len(log) /\ log[LastOf(n) + 1].past

(* prioritize: live nodes whose inputs are built go ahead of the first import  *)
(* node, unless a line waits to be written.                                    *)
FirstImport == CHOOSE k \in DOMAIN pending :
    ImportNode(pending[k]) /\ \A j \in 1 .. k - 1 : ~ ImportNode(pending[j])

LiveFirst(live) ==
    LET rest == SubSeq(pending, FirstImport, Len(pending)) IN
    SubSeq(pending, 1, FirstImport - 1) \o Only(rest, live) \o Only(rest, Range(rest) \ live)

\* Mutant: a live node goes ahead although its inputs are not built.
PrioritizedUnready ==
    IF held # {} \/ \A k \in DOMAIN pending : ~ ImportNode(pending[k])
    THEN pending
    ELSE LiveFirst({n \in Range(pending) : ~ ImportNode(n)})

Prioritized ==
    IF held # {} \/ \A k \in DOMAIN pending : ~ ImportNode(pending[k])
    THEN pending
    ELSE LiveFirst({n \in Range(pending) : ~ ImportNode(n) /\ Inputs(n) \subseteq DOMAIN tree})

(* drain_locked_gated, up to the model's call.                                 *)
Drain ==
    /\ pc = "free" /\ job = {}
    /\ pending # <<>>
    /\ pending' = Prioritized
    /\ pc' = "build" /\ caller' = "drain"
    /\ UNCHANGED <<disk, wait, held, skip, view, job, err, moved, plan, ghosts>>

(* commit: the model's line is written, and what follows is built.             *)
Commit(size) ==
    /\ pc = "free"
    /\ \E n \in job :
        IF pending # <<>> /\ Head(pending) = n
        THEN Write(n, size) /\ wait' = {w \in wait : w.id # n}
        ELSE UNCHANGED <<tree, pending, wait>>
    /\ job' = {}
    /\ Settle
    /\ UNCHANGED <<log, file, stray, held, skip, view, ghosts>>

(* The line is kept when its write fails, and only the write is tried again.   *)
CommitFails(size) ==
    /\ pc = "free"
    /\ faults < MaxFaults
    /\ \E n \in job :
        /\ pending # <<>> /\ Head(pending) = n
        /\ held' = {[id |-> n, size |-> size]}
        /\ wait' = {w \in wait : w.id # n}
    /\ job' = {}
    /\ faults' = faults + 1
    /\ UNCHANGED <<disk, pending, skip, view, call, lost, skipped>>

(* fail_err: the node waits.                                                   *)
CallFails ==
    /\ pc = "free"
    /\ \E n \in job : wait' = {[id |-> n, due |-> FALSE]}
    /\ job' = {}
    /\ UNCHANGED <<disk, pending, held, skip, view, call, ghosts>>

(* No call starts for an import node while a turn runs.                        *)
HoldBack ==
    /\ pc = "free"
    /\ \E n \in job : ImportNode(n)
    /\ job' = {}
    /\ UNCHANGED <<disk, pending, wait, held, skip, view, call, ghosts>>

(* The wait is over.                                                           *)
Lapse ==
    /\ \E w \in wait : ~ w.due
    /\ wait' = {[w EXCEPT !.due = TRUE] : w \in wait}
    /\ UNCHANGED <<disk, pending, held, skip, view, job, call, ghosts>>

-----------------------------------------------------------------------------
(* The server stops or dies: what is in memory is gone.                        *)
Crash ==
    /\ pc # "closed"
    /\ faults < MaxFaults
    /\ Close
    /\ faults' = faults + 1
    /\ UNCHANGED <<disk, lost, skipped>>

(* A tree line that cannot be read; the next open repairs the file without it. *)
SpoilTree(n) ==
    /\ pc = "closed"
    /\ faults < MaxFaults
    /\ n \in DOMAIN tree
    /\ tree' = [m \in DOMAIN tree \ {n} |-> tree[m]]
    /\ lost' = lost \cup {n}
    /\ faults' = faults + 1
    /\ UNCHANGED <<log, file, stray, memory, call, skipped>>

(* view.json is lost, or cannot be read.                                       *)
SpoilView ==
    /\ pc = "closed"
    /\ faults < MaxFaults
    /\ file' \in {NoFile, BadFile}
    /\ faults' = faults + 1
    /\ UNCHANGED <<log, tree, stray, memory, call, lost, skipped>>

(* A log of messages that were all summarised; view.json, when there is a log, *)
(* is lost, so that the open merges the view anew.                             *)
Init ==
    /\ \E n \in Older :
        /\ log = [k \in 1 .. n |-> [past |-> FALSE, size |-> NodeBytes]]
        /\ tree = [m \in NodesOf(n) |-> NodeBytes]
    /\ file = NoFile /\ stray = {}
    /\ pending = <<>> /\ wait = {} /\ held = {} /\ skip = {} /\ view = EmptyView /\ job = {}
    /\ pc = "closed" /\ caller = "none" /\ err = "none" /\ moved = FALSE /\ plan = EmptyPlan
    /\ faults = 0 /\ lost = {} /\ skipped = {}

Proceed == BuildWrite \/ BuildEnds \/ ViewStep \/ BatchStep \/ BatchEnds \/ SaveView

Next ==
    \/ Open
    \/ Proceed
    \/ BuildFails \/ SaveFails
    \/ \E parts \in Texts : AppendAct(parts) \/ AppendActFails(parts)
    \/ Drain
    \/ \E size \in Answers : Commit(size) \/ CommitFails(size)
    \/ CallFails \/ HoldBack \/ Lapse
    \/ Crash
    \/ \E n \in DOMAIN tree : SpoilTree(n)
    \/ SpoilView

Spec == Init /\ [][Next]_vars

(* The lock is given back, a drain is tried again by the poll or the timer,    *)
(* and a model that is asked again and again answers in the end.               *)
FairSpec ==
    /\ Spec
    /\ WF_vars(Open)
    /\ WF_vars(Proceed)
    /\ WF_vars(Drain)
    /\ WF_vars(Lapse)
    /\ SF_vars(\E size \in Answers : Commit(size))

-----------------------------------------------------------------------------
(* Properties.                                                                 *)

Views   == [count : Nat, batch : BOOLEAN, lines : Seq(NodeId)]
Entries == [left : Nat, right : Nat, lgen : Nat, rgen : Nat, num : Int, level : Nat]
Plans   == [ids : Seq(NodeId), alive : SUBSET Nat, heap : SUBSET Entries,
            next : Seq(Nat), prev : Seq(Nat), gen : Seq(Nat)]

TypeOK ==
    /\ log \in Seq([past : BOOLEAN, size : Nat])
    /\ DOMAIN tree \subseteq NodeId /\ tree \in [DOMAIN tree -> 0 .. NodeBytes]
    /\ file \in [kind : {"none", "bad", "view"}, view : Views]
    /\ stray \subseteq [past : BOOLEAN, size : Nat]
    /\ pending \in Seq(NodeId)
    /\ wait \subseteq [id : NodeId, due : BOOLEAN]
    /\ held \subseteq [id : NodeId, size : 0 .. NodeBytes]
    /\ skip \cup job \cup lost \cup skipped \subseteq NodeId
    /\ view \in Views
    /\ pc \in {"closed", "free", "build", "view", "batch"}
    /\ caller \in {"none", "open", "settle", "drain"}
    /\ err \in {"none", "wait", "input", "tree"}
    /\ moved \in BOOLEAN
    /\ plan \in Plans
    /\ faults \in 0 .. MaxFaults

(* The queue holds each node that is missing once, and behind its inputs, so   *)
(* that the loop never meets a node it cannot build (prepare's "input that is  *)
(* not built"). A job that is out at the model, and a line that could not be   *)
(* written, are for the front node all the while: commit writes to no other.   *)
QueueInOrder ==
    pc # "closed" =>
        /\ Range(pending) = NodesOf(Len(log)) \ DOMAIN tree
        /\ \A k \in DOMAIN pending :
            /\ \A j \in 1 .. k - 1 : pending[j] # pending[k]
            /\ \A c \in Inputs(pending[k]) \ DOMAIN tree : \E j \in 1 .. k - 1 : pending[j] = c
        /\ \A n \in job \cup {h.id : h \in held} : pending # <<>> /\ Head(pending) = n

(* What the chat wrote it can read again, after a crash or a failed write at   *)
(* any point: view.json covers the messages from 0 up to one that is logged,   *)
(* without a gap, and the tree has no node past the log. Else the open throws  *)
(* the view away, or cuts the node.                                            *)
OwnFilesUsable ==
    /\ file.kind = "view" => Usable(file.view, Len(log))
    /\ DOMAIN tree \subseteq NodesOf(Len(log))

(* The view steps past no node but one that a spoiled tree file lost: a node   *)
(* that is only pending keeps its message in the tail, word for word           *)
(* (cut_nodes).                                                                *)
NoneSkipped == skipped \subseteq lost

(* The planner's heap merges the pair that the rule of most_due picks on the   *)
(* lines as they are then, ties included, and gives up only when no pair can   *)
(* merge.                                                                      *)
TakesMostDue ==
    [][pc = "batch" /\ pc' # "closed" =>
        LET before == Lines(plan)
            due    == MostDue(before, view.count, DOMAIN tree) IN
        IF pc' = "batch"
        THEN \E k \in due : Lines(plan') = MergeAt(before, k)
        ELSE /\ view'.lines = before
             /\ ViewSize(before) <= ViewMin \/ due = {}]_<<pc, plan>>

(* The view that an empty one becomes, message by message, by the rule.        *)
Replay(n) ==
    LET merged(v) ==
            LET Shrunk[k \in 0 .. Len(v.lines)] ==
                    IF k = 0 THEN v.lines
                    ELSE LET before == Shrunk[k - 1]
                             due == MostDue(before, v.count, DOMAIN tree) IN
                         IF ViewSize(before) <= ViewMin \/ due = {}
                         THEN before
                         ELSE MergeAt(before, CHOOSE j \in due : TRUE)
                end == Shrunk[Len(v.lines)] IN
            [v EXCEPT !.lines = end, !.batch = ViewSize(end) > ViewMin]
        View[i \in 0 .. n] ==
            IF i = 0 THEN EmptyView
            ELSE LET before == View[i - 1]
                     lines  == Append(before.lines, Leaf(i - 1))
                     batch  == before.batch \/ ViewSize(lines) > ViewMax
                     v      == [count |-> i, batch |-> batch, lines |-> lines] IN
                 IF batch THEN merged(v) ELSE v
    IN View[n]

(* The view depends on the log and the tree alone: crashes, failed saves,      *)
(* retries and a model that answers late leave no trace in it.                 *)
ViewIsReplay ==
    pc \notin {"closed", "batch"} /\ lost = {} /\ skipped = {} => view = Replay(view.count)

(* Every message comes into the view, unless its history was moved aside.      *)
AllInView ==
    \A n \in Lengths : Len(log) >= n ~> (view.count >= n \/ Len(log) < n)
=============================================================================
