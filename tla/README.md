# openDaisugi in TLA+

openDaisugi puts a gate between an AI agent and its tools: a model decides, an
*envelope* says what is allowed, and a proof checks each call against the envelope
before it runs. Agents start other agents, and the authority and the budget of an
agent are then split over a tree of them. This project models the five protocols in
which its processes meet: that tree, the *delegation tree*, in its ledger, its files
and its processes; the *ask channel* over which a gate waits for an operator; the
*worker pools*, which queue, pause and resume background agents; the *turns of the
foreman*, which carry an owner's sentence to a model and back over accounts that run
out, tool calls and crashes; and the *chat tree*, the summaries that a model writes of the
foreman's chat while it goes on. TLC checks the modules on small instances, and TLAPS proves
theorems about them for all instances.

The repository holds the same program in Python, Go and Rust (and parts in
TypeScript), compared with each other by fixtures and by the rulings in
`clients/ADJUDICATIONS.md` (TR-R-*, MX-R-*, GR-R-*, FM-R-*). The Rust code is the one
modelled: `clients/rust` (daisugi), `harness/sprig-rs` (sprig, the agent loop) and
`harness/coppice-rs` (coppice, the multiplexer with its foreman and workers). Source
lines below and in `PROJECT.json` are lines of that code; paths start at `src/`, the
root of the repository.

- [Inventory](#inventory)
- [Modules](#modules)
- [What is checked](#what-is-checked)
- [What is proved](#what-is-proved)
- [What the runs found](#what-the-runs-found)
- [What is left out](#what-is-left-out)
- [Plan](#plan)

## Inventory

### The delegation tree (modelled)

**Tree ledger**: `clients/rust/src/tree.rs`, `gate/statewrite.rs`.
State: `tree/ledger.jsonl`, one row per event, appended and synced, never edited;
`tree/ledger.lock`, an exclusive flock; `envelopes/<session>.json` in the gate root, the
file the gate reads for every call of that session.
Operations: `tree root`, `tree spawn` (starts a child, refuses, or after three
refusals asks the operator), `tree answer` (allow or deny), `tree end`, the group row of
a starter, `end_subtree`. Each command takes the lock, folds the whole ledger
(`read_tree`), checks, appends its row, and then writes or removes one envelope file.
Hard: many starters and operators at once; the row and the file are two steps, with a
death, an I/O error or a refused directory between them; an append may be cut short; an
ask may be answered long after what it was based on has changed; the parent's envelope
file may be gone or refused when it is needed.
Correct when: a child never has authority that its parent (or, by the operator's
allow, the root of its branch) does not have; physical stakes start nobody; a budget
is split and never copied; a parent ends after its children; the ledger and the
files tell the same story; what a command told its caller stays so.

**Tree run**: `supervise/treerun.rs`, `supervise/agentic_sprig.rs`,
`supervise/agentic.rs`, `harness/sprig-rs/src/spawn.rs`, `procgroup.rs`.
State: per node a starter process (`daisugi tree run`, or the executor) and a sprig
process in a group of its own; the group rows in the ledger.
Operations: `run_node` (propose, start the sprig, record its group, wait, kill the
branch, end the subtree, end the node), `run_group` and `kill_groups`, the spawn tool
of a sprig, the executor's sweep.
Hard: starters share nothing but the ledger, which each reads without the lock when it
kills and when it ends a branch; a child may start while its ancestor is being killed;
a group row may be missing; any process may die at any step, and the kernel's
parent-death signals must do the rest.
Correct when: nothing of a branch goes on once its `run_node` has returned, and every
node that was started ends, leaves first.

**Verifier and subsumption**: `verify.rs`, `subsumption.rs`, `z3_bridge.rs`,
`z3_checks.rs`. Stateless. The tree uses its three answers: inside, not inside,
or no proof in time.

### The gate

**Ask channel** (modelled): `gate/ask.rs`, coppice `server/ask.rs`, `server/gatefs.rs`.
State: `asks/<id>.json` and `answers/<id>.json`, one directory each, shared by all gates
and operators without a lock; files are renamed into place.
Operations: a gate that would deny sweeps what earlier gates left, posts its ask with a
nonce, waits until the deadline, consumes both files; an operator reads the ask and
writes an answer that echoes the nonce.
Hard: a sweep looks at two directories at different times; the ask may be replaced between
what the operator saw, what it reads and what it writes; an answer may come as the wait
ends; the host may kill a gate that waits.
Correct when: a gate takes no answer to another ask, a call that cannot be undone is
allowed only by an operator who typed the name for it, nobody's sweep removes an ask or
an answer that is waited for, and nothing stays behind.

The rest of the gate is outside the models but for the envelope files.

| component | state and operations | hard |
| --- | --- | --- |
| gate decision: `gate/decide.rs`, `check.rs`, `effects.rs`, `hook.rs` | none; one call and one envelope in, one decision out | data |
| registration: `cli/gatecmds.rs` | the envelope files of the ledger, written without its lock | check, proof and write with a spawn or an end in between |
| resident gate: `gate/resident.rs`, `statefile.rs`, `gatestate.rs` | a socket, one answer per line; checked opens | I/O |

### daisugi beyond the tree (not modelled)

Supervisor, deeds and batch (`supervise/supervisor.rs`, `deeds.rs`, `batch.rs`): a plan
run level by level, receipts in the journal, reversible writes undone newest first; a
rollback that fails half way is its hazard. Orchestrator and delegate: one process,
mostly data. Journal, pathways and garden: SQLite stores and data algorithms. Gateway,
proxies and fence; registry, signing, bundles, packs, backup; voice, robotics and models:
I/O, file formats and numeric data, without a protocol between actors.

### coppice

**Worker pools** (modelled): `server/foreman_pool.rs`, `foreman_work.rs`,
`foreman_freeze.rs`, `foreman/pool.rs`.
State: under one lock, the worker table, the held jobs, the pids and the frozen groups; a
thread and a process tree for each run; `workers.json` and `queue.json`.
Operations: spawn, the pump (places held jobs, foreground before background, on entries
with a free slot that do not cool down), yield (freezes a background worker for a
foreground job), resume, the end of a worker, quota restart and requeue, edits of the pools
file, close, restart of the server from the two files.
Hard: two files written one after the other; a worker that ends while it is frozen or
being frozen; a job run again under its label while the old run still has to clean up; an
entry that leaves the pools file with a paused job on it.
Correct when: a job waits, is paused, runs or is over, in one place each; no entry
runs more than its slots; nothing stays stopped that nobody will thaw; a restart neither
loses a waiting job nor starts one again; each job gets its turn.

**Foreman turns** (modelled in chat mode): `server/foreman_chat.rs`, `foreman_turn.rs`,
`foreman_tools.rs`, `foreman_failover.rs`, `foreman/calls.rs`, `turns.rs`, `failover.rs`.
State: the chat log (messages, notes), `calls.jsonl` (start and end lines of acting
calls), `turns.jsonl` (running and end records); in memory the queue, the turn and its
calls in flight.
Operations: talk, the runner's turn over a chain of accounts, the tool calls on its socket,
the messages a tool result carries, stop, crash, and what the next open settles.
Hard: a crash between the two lines of a call or between a note and its line; a call
accepted as the account runs out; torn and unwritable files; a message heard in the
middle of another turn.
Correct when: what a turn did is done from one account, is on record and told after a
crash; no sentence reaches a model twice or is called unanswered when it was answered.

**Chat tree and compactor** (modelled): `foreman/order.rs`, `chat.rs`, `fsutil.rs`, the loop in
`server/foreman_chat.rs`, the feed of `foreman/import.rs`.
State: `main/`, the log of messages; `tree/`, a line of at most `node_bytes` for each node, a
message or a pair of nodes joined; `view.json`, the lines a turn is shown; in memory the
queue of nodes to build, the retry state, a line whose write failed.
Operations: open with its repair and rebuild, append, the loop that builds what needs no model
and steps the view, a batch of merges when the view is too large, the drain that calls a
model outside the lock, commit, failure and retry, past messages that are imported behind
live ones.
Hard: three files written one after the other; a model's answer that comes late, while the
queue is reordered; a heap of candidate merges that go stale; what may be rebuilt, and what
only waits.
Correct when: every node is built after its inputs and once; what was written can be read
again; the view is what the log and the tree say, whatever happened on the way; each message
comes into it.

The rest is not modelled.

| component | state and operations | hard |
| --- | --- | --- |
| panes, messages, facts: `server/panes.rs`, `ready.rs`, `handoff.rs`, `swap.rs` and others | terminals, transcripts, prompts queued until an agent is ready | ready detection is data; the queue is a later candidate |
| locks, roles, journal: `server/lock.rs`, `role.rs`, `journal.rs`, `mode.rs` | one lock file, peer roles, an appended journal | small sequential checks |
| user interfaces: `tui/`, `web/`, `layout.rs`, `attach.rs` | none of their own | rendering |

**sprig's agent loop** (`harness/sprig-rs/src/agent.rs`, `session.rs`, `weave.rs`,
`gate.rs`) runs one conversation, one tool call at a time; the tree run keeps of it that a
sprig waits for the child it starts.

### How they interact

A sprig calls its spawn tool, which runs a starter, which takes the ledger's lock to
reserve budget and write the envelope, then runs the child's sprig; each tool call of
that sprig asks the gate, which reads the envelope file without the lock. The operator
makes roots, answers asks and repairs files. coppice starts workers through `daisugi
tree run`, with a pool that decides when each runs, and answers gate asks; its foreman
starts those workers from the tool calls of a turn. The ledger is the one place where
all agents meet, and the order of its rows against the file and process steps is where
they can go wrong: that is modelled in most detail. The others meet the tree by one
step each (a worker run is one `tree run`, a tool call's effect is a spawn, a gate's wait is
one tool call of a sprig), so they are modelled by themselves.

`PROJECT.json` lists the hazards of all of these at their lines, with the properties
that cover each, or with what is still missing.

## Modules

| module | models | of |
| --- | --- | --- |
| `EdgeRule` | envelopes and the edge rule | `tree.rs:164-398` |
| `TreeFold` | `read_tree` row by row, and the budget | `tree.rs:432-991` |
| `TreeLedger` | the commands, the lock, the files, the faults | `tree.rs:827-1348`, `statewrite.rs` |
| `DelegationTree` | the abstract specification of it | |
| `TreeRun` | starters, sprigs, groups, kills and ends | `treerun.rs`, `agentic_sprig.rs`, `spawn.rs` |
| `GateAsk` | gates and operators over the ask and answer files | `gate/ask.rs`, coppice `server/ask.rs` |
| `WorkerPool` | table, queue, runs, files of one pool | `foreman_pool.rs`, `foreman_work.rs`, `foreman_freeze.rs`, `foreman/pool.rs` |
| `ForemanTurns` | an owner's sentence: log, turn, tool calls, crash, open | `foreman_chat.rs`, `foreman_turn.rs`, `foreman_tools.rs`, `foreman_failover.rs`, `foreman/calls.rs`, `turns.rs` |
| `MergeOrder` | node ids, the order of the queue, `most_due` and the batch planner | `foreman/order.rs` |
| `ChatTree` | the log, the tree, the view and their files | `foreman/chat.rs`, `fsutil.rs`, `foreman_chat.rs` |
| `TreeLedgerProofs`, `TreeClaimsProofs`, `TreeBudgetProofs`, `TreeRunProofs`, `GateAskProofs`, `ForemanTurnsProofs`, `WorkerPoolProofs`, `ChatTreeProofs` | theorems | |
| `MCTreeLedger`, `MCTreeRun`, `MCForemanTurns` | instances for TLC | |

`TreeFold` extends `EdgeRule`; `TreeLedger` and `TreeRun` extend `TreeFold`, so both
compose with the same fold; `TreeLedger` instantiates `DelegationTree` with a
refinement mapping. `ChatTree` extends `MergeOrder`.

### EdgeRule

An envelope has a set of `grants`: whatever the code compares one at a time (a file or
host pattern, a shell head, a tool, a robot bound) is one element, since the code asks of each
only whether the child's lies inside the parent's. What the code orders otherwise is a
field: `stakes`, the interpreter `policy`, the rules it `keeps`, the `deadline`. `EdgeReasons`
is `edge_ok`: the set of the parts that fail. A solver that runs out of time is the
input `finishes`. `Effective` is the child as it registers, with its parent's
deadline when it has none. `Covers` is not in the code: it is what the rule is *for*, and the
theorems relate the two.

### TreeFold

`Tree` is the `Tree` of the code, one function per field of `Node`. Each kind of row has
its operator, with the rows the fold skips (a second row for a session, a row under a node
that does not run, an unknown ask) left out as the code skips them. `root` is where the
loop of `answer` ends; it is stored because a node's parent never changes. `Charge`,
`Left` and `BranchTotal` are the methods of those names, as recursive functions over the
tree. The two axes, tokens and turns, are treated alike by the code and are one.
`ask_id` is a hash of what the ask holds, so an ask is its own id.

### TreeLedger

| variable | code |
| --- | --- |
| `tree` | what `read_tree` returns; the ledger as its readers see it |
| `torn` | the last line of the ledger has no newline |
| `file` | `envelopes/<session>.json`: absent, unreadable for the gate, or an envelope |
| `holder` | the command that has appended its row and still has its file to write or remove |
| `origin`, `claims`, `hit`, `lost` | history: the root's envelope when a file was written, what commands told their callers, which sessions a fault has hit or cost a row |

A command is one step up to and with its append: it holds the flock from the fold on,
and only commands write the ledger. The file is a second step, because the gate does not
take the lock and because the process may die in between. `SpawnStarted`, `SpawnRefused` and
`SpawnAsked` are the three ways out of `spawn_opts`; a refusal that writes nothing is a
stuttering step. Faults: `Abort` (a death, or an error of the file step, between the
row and the file), `AppendCut` and `AllowCut` (an append cut short by a full disk or a
crash), `UnlinkRefused` (the directory is refused, and `end` still returns `Ok`), `Spoil`
(a file removed or made unreadable). `Restore` is the repair that `tree answer` names, the
parent's envelope registered again.

### TreeRun

| variable | code |
| --- | --- |
| `under`, `starter` | the session a starter runs for, and where its `run_node` is |
| `sprig` | the agent process of a node |
| `signalled` | processes with a fatal signal on its way |
| `targets` | the groups `run_group` has signalled and waits for |
| `todo` | the nodes `end_subtree` has read and has still to end |
| `late` | history: the nodes whose spawn row landed after the executor had read its list |

A starter goes through `proposed` (spawn_opts), `spawned`, `started`, `waiting`, `killing`,
`clearing`, `ending`, `returned`; `dead` is a starter that a signal or a crash ended. A
starter that a sprig runs lives in the group of that sprig; a sprig has a group of its
own. `Bereaved` is the parent-death signal. The kill (`Kill`) reads the recorded groups
from the ledger without the lock; `Clear` reads the running nodes, once, without the lock,
and `EndBelow` ends them one by one, passing over an end that is refused. A signalled process
takes no step any more, except that a row it is already writing may still land
(`Spawn`, `RecordGroup`, `EndBelow` and `EndOwn` do not look at `signalled`): what is in flight at
a signal is the interleaving that matters here. The starter of the top of a branch is the
executor's own process when there is one (`Agentic::run` calls `run_node`); its list is read in `Sweep`, after
that `run_node` returned, and a row that lands from then on (`Swept`, `RowLands`) is behind it.

### DelegationTree

What all this promises, without ledger, lock, files or budget: a session is given
authority once, by the operator, or inside its parent's, or by an allow inside its root's;
the gate lets it do that or nothing; it ends after its children. The mapping is by
name, with `access` the file as the gate reads it.

### GateAsk

| variable | code |
| --- | --- |
| `asks`, `answers` | the two directories, a file or nothing per name |
| `gate` | a gate process in `maybe_ask`: the step it is at, the time its sweep began, the names it has listed, what `wait_answer` expects |
| `operator` | what was shown, the nonce read, what will be written |
| `now` | the clock; file times are its values |

One action is one look at or one change of one file, since nothing is locked. `SweepAsk`
to `DropOrphan` are the two loops of the sweep with their lists taken at the start of
each; `Post`, `ReadBack` (the nonce is read back from the file), `TakeAnswer`, `GiveUp`
and the two consuming steps are `post_ask` and `wait_answer`. `Killed` is the host ending
the hook. An operator decides on what was shown (`Show`), reads the ask once more
(`ReadAsk`, with the check of the permanent tier) and writes (`WriteAnswer`).

### WorkerPool

| variable | code |
| --- | --- |
| `w` | what the work lock guards: table (`state`, `entry`, `bg`), held jobs, pids, frozen groups, grace and no-yield marks, cool-downs; and the threads and processes (`runs`) |
| `listed` | the entries the pools file lists, read at each pump |
| `wfile`, `qfile`, `writing` | the two files, and the moment between their writes |
| `mode` | open, closed, cancelled |

A region under the lock is one action. Each ends, where the code's does, in the whole `Pump`,
a fold of `Place` over the foreground and then the background jobs, with the choices of the
environment as inputs, chosen for each job anew: which
process trees stop when they are frozen, and whether the envelope reads. A yield goes through its victims in
the order of the table and takes the first that stops, or none. `Launch`,
`Started`, `Exit`, `Reap`, `Report`, `TakeResumed`, `Blame` and `Forget` are the steps of
the thread of a run: `pool_out` is two regions (`TakeResumed`, `Blame`), and the run
forgets its pid in a region of its own. `Restart` may come at any moment and builds the
next state from the two files as `load_workers` does: a job is kept when both files say
that it waits, and the kept ones are held in the order of the table (`InTableOrder`), whatever
their places were. That is why `qfile` is a set: `queue.json` has an order that nobody reads,
but for the later of two jobs of one label, which the code takes. A file has two only after
the finding of `pool_held`; the model may take either.

### ForemanTurns

| variable | code |
| --- | --- |
| `log`, `notes` | the chat: the owner's messages, and notes on a message or call |
| `turns`, `calls`, `torn` | `turns.jsonl`, `calls.jsonl`, and which ends in a torn line |
| `up`, `opening` | how far the server is in opening the chat, what it has read, and whether the log still takes appends (`broken`) |
| `acts`, `queue`, `running` | the known act ids, the waiting messages, the runner |
| `turn`, `call` | the turn that runs, and the threads of the socket |
| `heard`, `effects`, `unsaid` | history: what models were given, what tool calls did, what the notes were about that could not be written |

`TakeTurn` to `RecordEnd` are `run_turns`, `run_turn` and `run_chain`; `Judge` decides,
before the socket closes, whether another account may take the turn. `Accept` to
`WriteResult` are the thread of one connection: the start line before the effect, the
end line after it, then `deliver_mid`, which takes messages out of the queue and gives them
back when the result cannot be written. `ReadCalls` to `RecordNewest` are
`settle_dangling_calls` and `close_dangling_turns`. A failed append may leave the line, a
part of it or nothing; `calls.jsonl` has its tail cut before the next line, `turns.jsonl`
has not. A note is an append to the log of the chat and may fail as well: each caller of `chat_append`
here drops the error and goes on, the settling of a call too, whose end line is then written without its
note (`foreman_tools.rs:710`, `716`). An append that cannot be cut back leaves the log closed to more until the
next open (`LogBreaks`), and the sentence of a `Talk` may stay in it although it was refused (`TalkLeft`). `Crash` may come before any step and tears the line that is being written.

### MergeOrder

A node of level l covers 2^l messages. `MostDue` and `MergeAt` are the rule of the view, one
merge at a time: they stand in the code as the reference of its tests. `Planner`,
`Consider`, `Tops`, `Fresh`, `Merge` and `Lines` are what the view runs: lines in slots, a heap of
candidate pairs, generations that make old pairs stale. The heap is the set of its entries, and
a pop takes any of the largest. Widths are exact here; `due_cmp` compares fractions without
overflow, which `MoreDue` does by multiplying.

### ChatTree

| variable | code |
| --- | --- |
| `log`, `tree`, `file` | `main/`, `tree/`, `view.json`; a text is its size |
| `stray` | a line whose failed append could not be cut back (`broken`) |
| `pending`, `wait`, `held`, `skip`, `view` | the fields of `Chat` of those names; `wait` keeps of a time only whether it is over |
| `job` | the node whose line the compactor is to get, outside the lock |
| `pc`, `caller`, `err`, `moved`, `plan` | the call that holds the lock: where `next` is, for whom it runs, its error, the planner of its batch |
| `lost`, `skipped` | history: the nodes of spoiled tree lines, and those the view stepped past |

One step of `next` is one pass of its loop (`BuildWrite`), of `step_view` (`ViewStep`), or of a
batch (`BatchStep`, one pop), so that a crash may come between any two. Between calls the
lock is free and anything may come: an append, a drain, the answer of the model (`Commit`), its
failure, a turn that holds an import node back. `Open` is `open_once` up to `settle`, and
`MoveAside` the open of an empty chat after a save that failed. `MayLog` has the one rule of
`import.rs:1158` that matters here: a past message is logged when nothing is left to build.

## What is checked

The passing runs reach from 20,000 to 2.8 million distinct states, and together they fire every
action. `CHECK_DEADLOCK FALSE` in all of them: a tree in which everything has ended, gates that
have all decided and a chat in which all is said have nothing left to do. The type
invariants are not in the runs: each is proved, for every value of the constants.

| run | instance | asks |
| --- | --- | --- |
| `tree_authority` | 3 sessions, 2 founders, 2 root and 3 proposed envelopes, 1 fault (death, I/O error, refused unlink, spoiled file), 1 ask | who may do what |
| `tree_budget` | 3 sessions, 1 founder, amounts 1, 2 and none, own use 1 and none, 1 torn append, 1 ask | the budget, and what callers were told |
| `tree_torn` | the same | finding: a row lost after a torn one |
| `tree_run` | 4 nodes under the executor, crashes, lost group rows, unwritten envelopes | nothing goes on after a kill, and which nodes end |
| `run_left` | 3 nodes under the operator's tree run, no faults | finding: a node left running |
| `ask_waits` | 2 gates (1 permanent), 2 names, 1 operator, timeout 1, clock to 2 | whose answer a gate takes |
| `pool` | 2 jobs, 1 entry of 1 slot, 1 of: failed run, edit of the pools file, close, restart | one place per job, and each gets its turn |
| `pool_held` | 2 jobs, 2 entries, 2 of them, ends meet freezes | finding: a held job whose worker is over |
| `turns_safe` | 2 sentences, 2 accounts, 2 calls of one thread, 1 pause, 2 mishaps (crash, stop, file fault) | what becomes of a sentence |
| `turns_invite` | the same with 2 threads, no mishaps | finding: "say it again" after an effect |
| `chat_safe` | logs of 1, 2, 3 and 8 messages (7 of them old), levels to 3, lines of 3 bytes, views of 24 and 9, 2 mishaps (crash, failed or torn write, spoiled file) | the queue, the files, the view |
| `chat_cut` | 1 past and 1 live message, 1 crash | finding: a message that waits is taken for one that was cut |

**tree_authority.** `WithinRoot`: no envelope the gate can read passes the root's, by
whatever chain of proofs, asks and allows it came to be. `ProvedWithinParent`: nor the
parent's, when the edge was proved. `UnprovedWasAllowed`: an unproved child has its
operator's allow in the ledger. `NoPhysicalParent` (AT-5): nobody starts under
physical stakes, also when the parent's file is gone as the ask is answered.
`ParentsRun`: nodes are a forest and a running node's parent runs.
`FilesFollowLedger`: a session that no fault has hit has exactly the envelope the ledger says.
`AuthorityIsFixed`: a file is never replaced by another content, and does not come back
after the end. `KeepsPromise`: all steps are steps of `DelegationTree`.
The envelopes are chosen so that each rule decides something: `Narrow` has no deadline and
adds a rule that needs a proof, `Heavy` is physical, `Slim` as a root covers none of
the wide ones. `AskAfter` is 1 (3 in the code) so that asks are reached after a refusal within the bounds; the
counter is reset by a start and by an answer, which both happen. One fault is enough for each
property because each speaks of the session hit and of its relatives, and three sessions
give a root, a parent and a child, or two roots.

**tree_budget.** `KeptReservationsFit` (TR-R-5): what starters were told they had
reserved under one node fits it, together, as long as no row is lost.
`OnlyOverrunsGoNegative`: what is left of a budget is negative only below a node that
reported more than it had. `OverrunReachesRoot` (MX-R-14): a node costs its parent no
less than its children cost it, up to the largest count. `ClaimsHold`: what commands told their
callers stays true, a torn row's session excepted. `MaxCount` 3 (2^53 in the code) is
reached by sums of the amounts, so the cap takes part; `AskAfter` 0 makes every
refusal an ask.

**tree_run.** `BranchDies` (MX-R-13): once `run_node` has returned, or its starter is
dead, each process of the branch has a signal on its way, its own or one that the
parent-death chain will hand down. `EndedIsDying`: no node is ended under an agent that
goes on. `EveryNodeEnds`, under `FairSpec`: unless the starter of the top dies, which is the executor's own
process (`TopDied`), every node of the ledger ends but those that have a late row at or below them (`HasLate`),
whatever the sprigs do, whichever starters below die, whichever group rows are lost and whichever ends are
refused. What the exception stands for is real: a late row keeps its node, and all above it, running for ever, under
the executor too.

A row behind the executor's list needs four nodes and a lost group row: the starter of the third node is in
no kill of the top, so it and its agent are alive while the top's list is read, and the row of the fourth lands
after the sweep has read its own. Three nodes never reach that. The run therefore has four, and this
bound (`Few` = 3, in `MCTreeRun`): up to three nodes a branch has any shape, and any process may crash and any envelope be
unwritten; a branch of more is a chain, in which neither has happened. Group rows may be lost in
all of them. No step that fairness obliges is taken away by it. `BranchDies`, `EndedIsDying` and, for what the sweep leaves,
`SweepLeavesOnlyLate` are proved for branches of any shape and size under all faults.

Assumed, for each starter as one process: it goes on with its next step (`Acts`), which includes that it kills at
the latest when its time is over; `spawn_opts` returns; a signalled process dies (`Dies`); the executor sweeps. The code
justifies each: `run_node` is straight-line code whose only unbounded wait is `run_group`, which has a
deadline and ends it by a kill with SIGKILL after a grace; the lock is held by commands that only do
I/O. Nothing obliges a sprig to end, to start anyone or to heed anything but a signal.

**ask_waits.** `OwnAnswer`: the answer a gate takes was written to its own ask, whatever
lies under its name. `PermanentConfirmed` (GR-R-15): also when a permanent ask took the
place of an undoable one between look and write. `AskStays`, `AnswerStays`: no sweep of
another gate takes what a gate still waits for, though it reads the directories one after
the other. `AskRetired`. Two gates and names are enough: a gate meets one sweep, one
predecessor or one successor under its name at a time, and each property speaks of a gate and
one other party. The clock goes far enough for an ask to be past its deadline while its
gate has not yet consumed it. `Shared` is FALSE: two gates do not *wait* under one tool use
id at the same time, though one may follow another. With `Shared` TRUE, TLC finds `OwnAnswer`
violated: a gate may read back the nonce of the other gate's ask (`ask.rs:297`); tool use ids are
minted per call, so this is a hazard of the list and not a run.

**pool.** `HeldWaits`: a record waits or is paused exactly when one held job stands for
it. `OneProcess`: a label never has two processes, over restarts, requeues and thaws.
`SlotsHold`: processes, not records, never outnumber slots. `StoppedIsPaused`: a stopped
process has its paused record and its frozen group, so it will be thawed. `QueueOnDisk`:
between two regions the files name just the waiting background jobs. `BriefKept`: the empty
brief a yield holds its victim with never starts a run. `FinishedStays`: what ended does not
run again, whatever the thread of an older run of its label still does and whatever a restart reads; a held job
that is left behind when a worker ends as it is frozen does run it again, which is the finding and is
excluded here (below). Two jobs are one that runs and one that waits for it or, in the foreground, makes it
yield: with one entry of one slot they are always in each other's way, and the one mishap
(`Budget`: a failed run, an edit of the pools file, a close, a restart) may come at any moment of
that. The liveness property sets these bounds, for TLC's time. The safety properties hold
as well with two entries and two mishaps, where an entry leaves or cools down and the other takes
over, or comes back (2.6 million states), with three jobs and two entries (5.3 million), and with three jobs on
one entry of two slots, where a yield has two victims to try (1.1 million); and
`WorkerPoolProofs` proves each of them for any number of jobs, entries, slots and mishaps. Assumed (`EndMeetsFreeze` FALSE): a worker does
not end while it is being frozen or stopped. The code does not ensure it (a process tree that is over counts as
stopped, `foreman_freeze.rs:87`); what happens otherwise is the finding. All properties of the run are stated under it.
`JobsMove`: a job that waits or is paused runs or ends, while the pool is
open. Assumed: the timer and the poll pump again while jobs are held (the foreman's timer
does); table writes, threads and processes go on (a worker has a node timeout in its tree run);
cool-downs and idle times lapse, being times. No fairness is assumed of spawns,
edits or restarts.

**turns_safe.** `OneAccount` (FM-R-50): a turn's effects come from one account, the calls
accepted and not yet logged as the account ran out included. `IntentFirst` (FM-R-66): each effect has its start line, whatever write failed.
`UnknownTold` (FM-R-66): after a crash, an effect without a known outcome has its note, over further crashes of
the opening itself, as the note comes before the end line. Two cases are excepted, and the property names both: this open
could not read `calls.jsonl` (it says so instead), and the append of the note failed (`unsaid`): the code drops that
error and writes the end line of outcome `unknown`, so that no later open tells the call either.
`HeardOnce` (FM-R-102, FM-R-110): no sentence reaches a model twice, by a turn and at a
tool call. `HeardIsNotDenied` (FM-R-113). `LoggedOnce` (FM-R-65). `RestartInviteIsSafe`
(FM-R-66): after a restart nobody is asked to say a sentence again whose turn did something.
Two sentences are one that runs and one that arrives meanwhile; two calls of a turn let its
account run out with one that acted behind it and one in flight; two mishaps are a crash and a
fault before or after it, or two crashes. With two threads, where a call is accepted as another
ends, it passes as well (5.8 million states); that is left
out of the run for its time, and `ForemanTurnsProofs` proves each property for any number of
threads and calls. Sentences and threads are symmetric. Assumed: a call in flight ends
within the 32 s for which the socket's close waits.

**chat_safe.** `QueueInOrder`: the queue holds each missing node once and behind its inputs,
and a job that is out, or a line whose write failed, is for the front node all the while.
`OwnFilesUsable`: after a crash or a failed write at any point, `view.json` covers a prefix of the log
without a gap and the tree has no node past the log; else the next open throws work away.
`TakesMostDue`: the planner's heap merges the pair that `most_due` picks on the lines as they
are then, ties included, and gives up only when no pair can merge. `ViewIsReplay`: the view is
the one that an empty view becomes by the rule, message by message: crashes, failed saves,
retries and late answers leave no trace in it (stated while no node was lost or stepped past, since
a rebuild merges what it has). `AllInView`: every message comes into the view.
A log starts empty, and grows to three messages of which each fits a line (size 1) or does not (4),
alone or two at a time; or it starts with seven messages that were summarised before, without
a `view.json`, and grows to eight: seven lines fill a view of 24, so that the open batches, and the
eighth completes nodes of three levels. `Answers` are lines of full length, so that joined lines need
the model again. Two mishaps are a crash and a fault before or after it, or two crashes.
Assumed: the server is started again (`Open`), a call under the lock goes on, a drain is tried
again (the poll and the timer of `compactor_loop`), waits lapse, and a model that is asked again
and again answers in the end (strong fairness of `Commit`: it may fail or be held back any
number of times before).

## What is proved

The edge rule, at the head of `TreeLedgerProofs`: `Covers` is an order (reflexive,
transitive). `EdgeIsSound`: an edge that holds gives, after `Effective`, a child its parent
covers. `EdgeIsExact`: the rule holds exactly when the parent exists, covers the registered
child, no rule is opaque, no interpreter passes a strict parent and the proof finishes; it
refuses nothing else.

`TreeLedgerProofs`, with the assumptions of the constants alone (any sessions, envelopes,
bounds and any of the faults): `TypeCorrect`, `AuthorityStaysWithinRoot`, `ChildrenEndFirst`,
`PhysicalStartsNobody`, `ProvedStaysWithinParent` and the action property
`AuthorityNeverChanges`. The argument is one inductive invariant, `IInv`:

- `Sound(tree)`: parents and roots agree, a running node's parent runs, a node that is a
  parent is not physical, a proved child is covered by its parent and every child by its root. It
  speaks of what nodes *were given*, because files come and go.
- `HeldIsDue`: what the command at work is to write is due: its session runs with that
  envelope, or, when the row was lost on a torn line, the session is nothing and has no
  file. Without it `Register` could write anything.
- `FileIsGrant`: the file of a node, if the gate can read it, is what the node was given.
  Without it an edge proved against a *file* says nothing of the *node*.
- `OriginKnown`, the type invariant and `WithinRoot` itself.

The lemmas follow the model: what each row does to the fields of a tree, that each row
keeps a tree sound, that the edge rule covers (`ProvedChild`, `AllowedChild`), and one lemma per action.
TLC checked `IInv` with all four kinds of faults (7.9 million states) before it was proved.

`TreeClaimsProofs`: `UnprovedMeansAllowed`, `ClaimsStayTrue` and `FilesAgree`, under every
fault, for the sessions the properties name (those of which no row was lost, or that no
fault has hit). The invariant adds to `IInv` what the command between its two steps owes:
`TellsHold`, what it will tell its caller is already true of the ledger; `HeldStays`, the
file step that is left is the one the ledger calls for. The lemmas are two facts about rows:
`Grows`, nodes stay nodes, ends and answers are final and an ask is answered once; and
`LeavesOthers`, a row changes what is kept of one session at most.

`TreeBudgetProofs`: `OverrunIsSeen`, `OnlyOverrunsOverspend` and `BudgetIsReservedOnce`, for
any sessions, amounts and largest count, and under every fault. Before them stands what the
operators compute. Sums over a set of children are a function, `Total`, that is unfolded one
element at a time (`TotalRemove`, `TotalInto`). `Charge` adds up over the tree by recursion:
it is the least map from nodes to counts that charges every node at least what it owes, which
is a solution of its recursion, and the only one since no set of nodes goes down for ever
(`BottomOut`). Then the invariant `Budgeted`:

- `Blank` and `Priced`: who is no node holds nothing, and a child under a budget reserves
  an amount.
- `Split`: the cost of a node's children and its own use fit its budget unless a child
  ended over what it had reserved; `RunFit`: the reservations of running children fit it always.
- `Rolled`: a node that ended with a total has counted its children's charge in it. It stays so
  because nothing below an ended node changes (`EndedStands`).
- `Told`: who was told of a start holds a node with those tokens, while no row is lost.

For the budget every step is one of three: it moves no amount (`Inert`), adds a node
(`Adds`, `Reserves`) or ends one (`Ends`). TLC checked the parts of the invariant over the states
of `tree_budget`, and over 1.6 million states with reports as large as the amounts.

`TreeClaimsProofs` also has `LedgerKeepsPromise`, the refinement, for every value of the
constants with no torn append (`"tear" \notin Faults`). The assumption is needed: a lost
row makes an envelope file for a session the ledger does not know, which the promise
forbids. `RegistersRunning` strengthens `IInv` for it, and each action maps to one step of
`DelegationTree` or to a stutter.

`TreeRunProofs`: `RunTypes`, `BranchAlwaysDies` and `EndedIsAlwaysDying`, for any sessions,
the executor present or not, and any faults. `BranchDies` is about chains of processes of any
length; what an induction along a chain would give, `Forest` says of every set of nodes at
once. The invariants:

- `Links` and `Phases`: the ledger has the parents that the processes have, and a sprig runs
  for a node of the ledger and only while its starter has not seen it exit.
- `Guarded`: a process whose parent is gone has its signal. With `Forest`, a chain with a dead
  starter in it is dying all the way down.
- `OnlyCutEnds`: who has ended, or is on a list to be ended, is cut off from the top (`Cut`):
  its sprig or its starter, or one above it, is gone for good (`Gone`). This is what makes an old list harmless.

`SweepLeavesOnlyLate`, under the executor and any faults: when the sweep is over, a node that still runs in the ledger
has a late row at or below it. It is the safety half of `EveryNodeEnds`, for any number of nodes: no crash, lost group
row, unwritten envelope or refused end leaves another node running. Its invariant is `Tops`, a branch has one top and all
nodes of the ledger are at or below it, so that the list of the sweep has them all, and `Listed`, a running node is on
that list or has a late row at or below it: leaves go first, so an end is refused only above a node that the list had not.

`Up` and `Above` are recursive functions, and are shown to be what their recursions say by
the least solution, as `Charge` is. The invariants were checked by TLC over the states of
three nodes with crashes and all faults, with the executor and without it.

`GateAskProofs`: `AskTypes` and `AskIsRetired`, with nothing assumed beyond the constants;
`AnswerIsOwn` and `PermanentIsConfirmed` when no two gates wait under one name
(`~Shared`). Any gates, operators, names, timeouts and interleavings; the clock is bounded by
any number. The inductive invariants say where things are: `Placed`, that an
ask in the directory was posted by the gate it names, which has not consumed it since;
`Own`, that a gate between post and consume finds under its name its own ask or nothing, so
that what it reads back is its nonce; `Confirmed`, that an answer, written or about
to be, to a permanent gate allows only with the typed name.
`AskStaysThere` and `AnswerStaysThere` hold with names shared or not, of every gate whose
name no other has used. Their invariant `Stays` follows the name: while nobody has used it
it is clear (`Unused`: no file, no sweep has it on its list, no operator was shown it); after
the post the ask stays with its deadline (`AskKept`), no sweep that began in time lists it,
and what an operator read under the name is that gate's nonce (`Aimed`).

`ForemanTurnsProofs`: type correctness and every property of `turns_safe` (`TurnTypesHold`, `SentencesLoggedOnce`,
`IntentIsFirst`, `UnknownEffectsTold`, `AnswerIsNotDenied`, `SentencesHeardOnce`,
`RestartInvitesSafe`, `EffectsFromOneAccount`), for any number of sentences, accounts,
callers, crashes, stops and files that fail. Assumed: finitely many sentences, and that
`None` is none of the records. The inductive invariants, each checked over the states of
`turns_safe`, with two threads, before it was proved:

- `OnePlace`: a message that waits does so in one place, the queue, the runner's batch or a
  call's hands. `Untouched`: until a model was given a message, no turn was started for it
  and nothing done about it. Together they give "heard once".
- `Intent`: a call that is about to act has its start line in the file, whatever tore.
- `Settled`: an end line that does not know the outcome has its note, or the append of that note failed
  (`unsaid`), and an effect of the past has its outcome, one of these two, or is on the list of the open that is
  under way. So an open that crashes and is run again forgets nothing that it has not tried to tell.
- `Remembered`: an open under way holds every turn that was started and not ended; with
  `Intent` and `Untouched`, an invitation to send a message again is safe.
- `Answers`: a turn recorded as running heard no answer, and the last record is no
  earlier than the effects.
- `OnAccountNow`: calls come from the account the turn is on, and so do the effects;
  until a call was accepted the turn may be left to another account.

The ids of records are numbers one above the largest, and what the chat keeps is a
recursive function: where a proof needs induction over those numbers it is done by hand
(`LeastNat`, `NatSet`), for one set of numbers at a time.

`WorkerPoolProofs`: type correctness and every safety property of `pool` (`Types`, `HeldOnceEach`,
`OneWorkerEach`, `SlotsAreKept`, `StoppedArePaused`, `FilesNameTheQueue`, `BriefsAreKept`, and
the action property `EndedStayEnded`), for any jobs, entries, slots, failures, edits, closes and
restarts. All but `FilesNameTheQueue` assume that no worker ends while it is frozen
(`~EndMeetsFreeze`), and need it: with `EndMeetsFreeze` TRUE, TLC finds `HeldWaits`, `OneProcess`,
`StoppedIsPaused`, `BriefKept` and `FinishedStays` violated on the instance of `pool_held`,
which is its finding; the bound of `TypeOK` on the runs with three jobs and one entry, because the
held job left behind makes a run that nothing pays for; and `SlotsHold` with four jobs on one
entry of two slots and one mishap, where such runs take more processes than the entry has slots.

The invariant that needs the assumption is `IInv`. TLC checked it over the states of two jobs on two
entries with a budget of two (2.6 million) and of three jobs with a budget of one (5.3 million),
before it was proved. Its parts:

- `HeldOnce`: the held jobs are the records that wait, each once and in the queue of its
  kind, and only a paused one may have lost its brief. It has a parameter, the jobs the pump
  has taken out of the queue and still has in hand, because it holds of every moment of a pump
  and not only between two.
- `Phases`, `OneCurrent`: what a run has of a process goes with where its thread is, and
  one run of a label at most may still report. Without them a run that has yet to forget its
  pid could not be told from the one that took its place.
- `Recorded`: a recorded pid is of a run of that label; what is frozen is that, of a paused
  job, and it is all that is stopped. A thaw finds its process by it.
- `Live`, until the close: who is recorded as running or paused has a run, on the entry that
  the record says, and the jobs counted on an entry fit its slots. A job that went on in
  place is `Exempt` from the count as long as it is in the run that did so, and no longer.
- `Files`: what a restart would read agrees with the table, in both halves of a save.
- `Due`: the runs there were, those a waiting or new job may add and those a failing one
  may add are bounded by the jobs and the budget, within what `RunIds` allows, so that `RunIds`
  bounds no behaviour.

The pump is a fold with an operator for its argument. It is shown to be a walk over the queue
(`Walk`), one job after the other, by an induction over the places of one queue that is done by
hand (`Least`, `Induct`); then each way `Place` has out (goes on, fails, is kept, thawed, started,
with a yield before or not) keeps the invariant with one job less in hand. A region is then a
change of one run followed by a pump, and there is a lemma for each step of the thread. A
restart is never blocked by the order it looks for: one exists for every set of jobs
(`OrderExists`).

`FilesNameTheQueue` holds whatever ends while it is frozen, so the finding costs a stale
held job and never a lost one. Its invariant, `QueueInv`, keeps what is left then: each
background job that waits has a held job (`Kept`; it may have two, and a worker that is over may
have one), and the files agree with the table in both halves of a save. A pump keeps it
because nothing it does queues a job anew or takes a job out of the background queue without a
new state (`Onward`); a yield only adds to the queue. Each step of a thread is proved for any
run, not only for those in `RunIds`.

`ChatTreeProofs`: `TypeCorrect`, `QueueStaysInOrder`, `OwnFilesStayUsable` and
`PlannerTakesMostDue`, for any log, sizes, bounds of a line and of the view, levels and
mishaps. The operators come first: what `Chain` queues for a message, that `QueueFor` puts together
the missing nodes of each in the order of the log (`QueueIs`), what `Only` keeps of a sequence and in
which order. These are recursive functions; each is shown to be what its recursion says, and an
induction over the places of one sequence is done by hand (`Induct`).
The invariant `Inv` has the type invariant and four parts:

- `Queues`: `QueueInOrder` whenever the chat is open. A commit writes the front node, whose
  inputs come before it and so are written; `Prioritized` moves up only live nodes whose inputs are
  written, and nothing while a line is kept, so the front node of a job or a kept line
  stays in front. Whoever logs a message queues behind what is there.
- `Callers`: a closed chat has nothing in memory, and no open runs while a job or a kept line is
  there, so that what moves the history aside loses neither.
- `Files`: `OwnFilesUsable`. A spoiled file is one that says it is bad.
- `Viewed`: the lines of the view, and in a batch those of the planner, cover the messages
  0 to count - 1 without a gap. A merge of two siblings keeps that; this is what makes the next
  save usable.

For the planner the invariant is about its heap: `Linked`, `next` and `prev` agree on the live slots in
order; `HeapIs`, the heap has the entry of each pair that can merge and no other. It holds of a
new planner, and a merge keeps it although it looks at two slots only: what the other entries
name has not moved (`JoinsLinked`, `MergeSound`). So no entry is ever stale (`AlwaysFresh`): the
generations of the code guard against what siblings cannot do, since a slot is in one pair at a
time. The largest entry is then `MostDue` of the lines, where a lower slot is an older line
(`SlotsOf`), which is the tie. TLC checked all of these parts over the states of
`chat_safe` before they were proved.

Model-checked only: `EveryNodeEnds`, `JobsMove` and `AllInView`, since liveness under fairness is out
of the prover's reach; `ViewIsReplay`, which compares the view with a whole recursion over the log
(what `Replay` computes for every log is induction over data); and the five runs that expect a
violation.

## What the runs found

**A torn append takes the next row with it** (`tree_torn`, `tree.rs:827`). `append` writes
at the end of the file whatever the last line looks like. After an append that was cut
short the next command's row is put on the same line, which then parses as neither;
`read_tree` skips it, and the command has returned `Ok`. The starter runs an agent that
the ledger does not know, and its reservation is given away again, against TR-R-5
(`clients/ADJUDICATIONS.md:6548`, "so two starters cannot reserve the same budget").
coppice's own log repairs its tail before it appends (`foreman/calls.rs:92`). Authority
stays within the root all the same: that is proved with torn appends included.

**A node may be left running** (`run_left`, `treerun.rs:558`). `end_subtree` takes its list
once, without the lock, and drops the errors of `end`. A starter that is being killed may have
its spawn row in flight: it lands after the list was taken, the new node has no process
and nobody to end it, and the ends of its parent and of the nodes above are refused
because a child runs. MX-R-8 (`ADJUDICATIONS.md:11034`) says "ends the subtree from the
leaves up ... No node is left running". No agent goes on, but the reservation stays taken. The
executor sweeps once more, and takes in what was in the ledger when it read its list: in a branch of up to three
nodes that is every such node. In a chain of four, with one lost group row, a row can land behind that list as
well, and then the chain is left running under the executor too, against MX-R-8 (`tree_run` reaches it;
`EveryNodeEnds` excepts it by name).

**A held job whose worker is over** (`pool_held`, `foreman_pool.rs:409`). A yield freezes by
the recorded pid. When the worker ends as it is frozen, or is killed while it is stopped, its
end is reported for a label whose victim is still in the queue: the record says it ran and
the queue holds a job for it, against `HeldEntry` ("A job that is not running: it waits, or it
is paused", `foreman_pool.rs:41`). The next pump may start it again, with the empty brief the
yield held it with.

**An invitation after an effect** (`turns_invite`, `foreman_turn.rs:1369`). Whether a tool call
ran is looked at before the socket closes. A call that was accepted and had not written its
start line may still act while the close waits for it, and the owner is told to say the
sentence again. By FM-R-66 (`ADJUDICATIONS.md:13859-13862`) the failure
note of a turn in which a spawn was started "does not say 'Say it again'". After a restart the notes are right (`turns_safe`).

**A message that waits is taken for one that was cut** (`chat_cut`, `chat.rs:858`). An open
without a usable `view.json` rebuilds the view and steps past the nodes a repair cut from the
tree, so that one of them does not hold up the rest. `cut_nodes` knows them by a built node
after them: "Nodes are built in queue order ..., so a node that is pending in the normal way has no
built node after it" (`chat.rs:848-850`), and "a node that is merely pending stays in the tail
word for word" (`chat.rs:852`). But `prioritize` builds live nodes ahead of import nodes. A past message whose
model call is still to come, a live message after it, and a restart before the view was first
saved are enough: the past message leaves the tail, and the view has the words for a
node not built in its place until it is built. Nothing of it is lost.

Seen while modelling, and not kept as runs:

- The open drops the error of the note on a call whose outcome is unknown (`foreman_tools.rs:710`) and writes the end line
  all the same (`716`). FM-R-66 (`ADJUDICATIONS.md:13848-13851`) calls the settle fail-closed, "reported at least once":
  when the log takes no append, such a call has no note in the chat, at this open or a later one. The line in
  `<state>` of the next turn, in memory, is what is left of it. `turns_safe` reaches it (`unsaid`).
- "A live node always goes before an import node" (`chat.rs:1825`): `prioritize` leaves a live node
  that has an import node as input behind it, as its own comment says, and moves nothing while a
  line is kept.
- An append that makes a new day's file and cannot sync the directory returns an error and cuts
  nothing back (`fsutil.rs:268`): the message is in the file and in no queue until the next open, and
  one after it has the same id, at which the open gives the history up.

- A restart restores held background jobs in the order of the table, where FM-R-96
  (`ADJUDICATIONS.md:14962-14969`) has them keep their places.
- A job that fails over between the close of the pool and the cancel of its workers is
  saved as queued but is not in `queue.json`, and the next start drops it.
- With three messages and two calls whose results both cannot be written, the messages may
  go back to the queue in the wrong order; `foreman_turn.rs:1196` says "oldest first".
- A torn tail of `turns.jsonl` is never cut, so the next record is lost with it, and a later open
  notes the message again (`foreman_chat.rs:1059-1061` means not to).
- A `turns.jsonl` that cannot be read counts as no turns: an answered message may be noted
  as unanswered. `HeardIsNotDenied` leaves such an open out.
- Two crashes: a message whose turn was closed as failed before its note was written may go
  without one. Only the newest unanswered message gets a note at all.
- A crash between the reply and the end record notes an answered message as unanswered, and
  so does one after a message was heard at a tool call and before the end record.

## What is left out

- `tree status`, help, formatting, timestamps, profile and model names.
- Sessions that the code mints: a minted id is some free id.
- An operator's plain `gate register`, which writes any envelope under any free name
  without the lock; `TreeAndGate` of the plan. Until then the properties are about
  trees that only the tree commands and `Restore` write.
- An append cut exactly before its newline (the row is read, and the next one is lost): the models cut
  earlier, so that the cut row is lost as well.
- In `TreeRun`: envelopes and budgets of a spawn (they are `TreeLedger`'s; here it starts or
  does not), the keys pipe, what a sprig answers, the claude runtime, a group
  that outlives SIGKILL, the second kill of a sprig that exited with its output held open
  (it only kills more), and the instant between fork and `prctl` in sprig's
  `run_tree`, whose child does not check that its parent still lives.
- Pids are not reused.
- In `GateAsk`: gates that find no operator or refuse the channel (they post nothing), file
  modes and owners, the text of asks, the phone's and the terminal's ways to `Show`.
- In `WorkerPool`: several pools (they share the lock, and a job is of one pool), the requests
  to spawn and their envelopes, plain-profile jobs, merging of what a worker did, branches and
  worktrees. A server that dies takes its workers with it (FM-R-98), so a restart finds no
  process. At most as many runs as jobs plus twice the budget take a step (`Types` proves that
  there are no more, when no worker ends while it is frozen).
- In `ForemanTurns`: the standing socket and the tools that only answer, parts of long
  messages, messages that cannot be read, what is in memory only of an unknown call
  (the line in `<state>`, the event to the clients), an append whose directory sync fails (its line stays while the log
  goes on, and the next message has the same id), a chat moved aside (`foreman/chat.rs:500-522` carries its
  dangling calls over), the chat's summaries (`ChatTree` has them), the texts of notes, the times of cool-downs (an account
  may cool at any moment) and the review after a turn.

- In `ChatTree`: texts beyond their sizes, act ids, dates and days, the import's own queue, bad lines of the
  log (the history is moved aside), the reads of zoom and date, the read-only open, the prompt
  of the model, how long a wait is, a tree append that is not cut back, and an append that
  leaves its line and returns an error (above). An open that reads a bad tree line is `SpoilTree`
  before it: repair and rebuild are one step, as nothing else runs.

## Plan

In this order; each with its own model, instance, runs and, where it says so, proofs.

1. **EdgeRule, TreeFold, TreeLedger, DelegationTree** and their proofs: done.
2. **TreeRun**: done; its safety is proved.
3. **WorkerPool**: done and proved, as long as no worker ends while it is frozen; what a
   restart finds in the files is proved without that. The others are false without it.
4. **GateAsk**: done and proved.
5. **ForemanTurns**: done and proved.
6. **TreeAndGate**: `gate register --parent` composed with `TreeLedger`: what the check
   without the lock may break.
7. **MergeOrder, ChatTree**: done; the planner, the queue and the files are proved.
8. Deeds and batch: a rollback that fails half way and is run again.
