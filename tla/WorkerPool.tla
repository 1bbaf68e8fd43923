----------------------------- MODULE WorkerPool -----------------------------
(***************************************************************************)
(* One worker pool of the coppice foreman (server/foreman_pool.rs,         *)
(* server/foreman_work.rs, server/foreman_freeze.rs, foreman/pool.rs): the *)
(* worker table, the queue of held jobs, the entries of the pool, one      *)
(* thread and at most one process tree per run, and the two files a        *)
(* restart reads.                                                          *)
(*                                                                         *)
(* One lock guards the table and the queue, so an action below is one      *)
(* region under that lock, or one step outside it.  The clock is           *)
(* abstracted to what is compared with it: an entry that cools, an entry   *)
(* that had foreground work lately, a job that went on lately; each can    *)
(* lapse at any moment.  Labels are numbered in table order and entries in *)
(* the order of the pools file.                                            *)
(***************************************************************************)
EXTENDS Integers, FiniteSets, SequencesExt

CONSTANTS
    Labels,          \* 1 .. n, the jobs that may be spawned
    Entries,         \* 1 .. m, the machines of the pool
    Slots,           \* the slots of each entry
    Budget,          \* bound on failed runs, edits of the pools file and restarts together
    EndMeetsFreeze   \* whether a worker may end while it is frozen, or be frozen as it ends

ASSUME PoolAssumption ==
    /\ IsFiniteSet(Labels) /\ Labels \subseteq Nat \ {0}
    /\ IsFiniteSet(Entries) /\ Entries \subseteq Nat \ {0}
    /\ Slots \in Nat \ {0} /\ Budget \in Nat /\ EndMeetsFreeze \in BOOLEAN

VARIABLES
    w,        \* what the work lock guards, and the threads and processes of the runs
    listed,   \* the entries the pools file lists; {} when the pool is gone from it
    wfile,    \* workers.json: the state of each record
    qfile,    \* queue.json: the held background jobs (restore_held reads no order)
    writing,  \* queue.json is written and workers.json is not yet, under the lock
    mode,     \* open, closed (is_closed), cancelled (the context of the workers)
    budget

vars == <<w, listed, wfile, qfile, writing, mode, budget>>

Ended == {"ran", "asked", "failed", "stopped"}
States == {"none", "queued", "running", "paused"} \cup Ended

\* A held job; a yield holds its victim with an empty brief.
Job == [label : Labels, full : BOOLEAN]

\* A run: its thread (at) and the process tree it started (proc).
Run == [label : Labels, on : Entries, full : BOOLEAN,
        at : {"setup", "born", "wait", "ran", "asked", "bad", "graced", "judged", "over", "gone"},
        proc : {"none", "live", "stopped", "zombie", "reaped"}]

Idle0 == [state |-> [l \in Labels |-> "none"], entry |-> [l \in Labels |-> 0], bg |-> {},
          fgHeld |-> <<>>, bgHeld |-> <<>>,
          pids |-> [l \in Labels |-> 0], frozen |-> [l \in Labels |-> 0],
          fresh |-> {}, noYield |-> {}, cooling |-> {}, recent |-> {}, runs |-> <<>>]

Init ==
    /\ w = Idle0
    /\ listed = Entries
    /\ wfile = [l \in Labels |-> "none"] /\ qfile = {} /\ writing = FALSE
    /\ mode = "open" /\ budget = Budget

-----------------------------------------------------------------------------
(* The pick of an entry.  m stands for a value of w on the way through a   *)
(* region under the lock.                                                  *)

On(m, e) == {l \in Labels : m.state[l] = "running" /\ m.entry[l] = e}

\* Mutant: a slot more than the entry has.
FreeOffByOne(m, e) == e \in listed /\ e \notin m.cooling /\ Cardinality(On(m, e)) <= Slots

Free(m, e) == e \in listed /\ e \notin m.cooling /\ Cardinality(On(m, e)) < Slots

Quiet(m, e) == On(m, e) \subseteq m.bg /\ e \notin m.recent

\* Where a held job may go: a paused one only where its process is.
Picks(m, l) ==
    {e \in Entries :
        /\ Free(m, e)
        /\ l \in m.bg => Quiet(m, e)
        /\ m.state[l] = "paused" => e = m.entry[l]}

-----------------------------------------------------------------------------
(* Freeze, thaw and yield.                                                 *)

SetProc(runs, S, from, to) ==
    [r \in DOMAIN runs |->
        IF r \in S /\ runs[r].proc = from THEN [runs[r] EXCEPT !.proc = to] ELSE runs[r]]

Thaw(m, L) ==
    [m EXCEPT !.fresh = @ \cup L,
              !.frozen = [l \in Labels |-> IF l \in L THEN 0 ELSE @[l]],
              !.runs = SetProc(m.runs, {m.frozen[l] : l \in L} \cup {m.pids[l] : l \in L},
                               "stopped", "live")]

\* A pid whose tree the kernel can show wholly stopped: a zombie counts as stopped.
Freezable(m, p) ==
    p # 0 /\ \/ m.runs[p].proc \in {"live", "stopped"}
             \/ m.runs[p].proc = "zombie" /\ EndMeetsFreeze

Victims(m) ==
    {l \in m.bg : /\ m.state[l] = "running"
                  /\ Freezable(m, m.pids[l])
                  /\ l \notin m.noYield
                  /\ ~(m.entry[l] \in listed /\ m.entry[l] \in m.cooling)}

\* c.stops: the workers whose trees stop within the two seconds a freeze waits.  One that does not is
\* thawed again, and the next victim in table order is tried.
Yield(m, c) ==
    IF Victims(m) \cap c.stops = {} THEN m
    ELSE LET v == Min(Victims(m) \cap c.stops) IN
         [m EXCEPT !.frozen[v] = m.pids[v],
                   !.state[v] = "paused",
                   !.bgHeld = Append(@, [label |-> v, full |-> FALSE]),
                   !.runs = SetProc(m.runs, {m.pids[v]}, "live", "stopped")]

-----------------------------------------------------------------------------
(* The pump: foreground jobs in queue order, then background jobs.         *)

\* Mutant: a paused job is started anew instead of thawed.
StartAnew(m, j, e, c) ==
    [m EXCEPT !.state[j.label] = "running", !.entry[j.label] = e,
              !.runs = Append(@, [label |-> j.label, on |-> e, full |-> j.full,
                                  at |-> "setup", proc |-> "none"])]

\* c.envelope: whether the project's envelope reads.
Start(m, j, e, c) ==
    LET l == j.label
        n == IF l \in m.bg THEN m ELSE [m EXCEPT !.recent = @ \cup {e}]
    IN  CASE n.state[l] = "paused" -> [Thaw(n, {l}) EXCEPT !.state[l] = "running"]
          [] n.state[l] # "paused" /\ ~c.envelope ->
                [n EXCEPT !.state[l] = "failed", !.entry[l] = 0]
          [] OTHER ->
                [n EXCEPT !.state[l] = "running", !.entry[l] = e,
                          !.runs = Append(@, [label |-> l, on |-> e, full |-> j.full,
                                              at |-> "setup", proc |-> "none"])]

Keep(m, j) ==
    IF j.label \in m.bg THEN [m EXCEPT !.bgHeld = Append(@, j)]
    ELSE [m EXCEPT !.fgHeld = Append(@, j)]

\* A paused job whose entry left the pools file can never be picked again: it goes on in place.
GoOn(m, l) ==
    [Thaw(m, {l}) EXCEPT !.state[l] = "running", !.noYield = @ \cup {l}]

PlaceOrKeep(m, j, c) ==
    LET l == j.label
        y == IF l \notin m.bg /\ Picks(m, l) = {} THEN Yield(m, c) ELSE m
    IN  IF Picks(y, l) = {} THEN Keep(y, j) ELSE Start(y, j, Min(Picks(y, l)), c)

\* Mutant: a paused job whose entry left the pools file waits for it.
PlaceStuck(m, j, c) ==
    IF m.state[j.label] # "paused" /\ listed = {}
    THEN [m EXCEPT !.state[j.label] = "failed", !.entry[j.label] = 0]
    ELSE PlaceOrKeep(m, j, c)

Place(m, j, c) ==
    LET l == j.label IN
    CASE m.state[l] = "paused" /\ m.entry[l] \notin listed -> GoOn(m, l)
      [] m.state[l] # "paused" /\ listed = {} -> [m EXCEPT !.state[l] = "failed", !.entry[l] = 0]
      [] OTHER -> PlaceOrKeep(m, j, c)

Pump(m, c) ==
    LET place(n, j) == Place(n, j, c[j.label])
        fg == FoldLeft(place, [m EXCEPT !.fgHeld = <<>>], m.fgHeld)
    IN  IF mode # "open" THEN m
        ELSE FoldLeft(place, [fg EXCEPT !.bgHeld = <<>>], fg.bgHeld)

\* What the freezes and the envelope of each job come to.
Chance == [Labels -> [stops : SUBSET Labels, envelope : BOOLEAN]]

\* The held jobs a restart may keep, as the pump writes them.
Persisted(m) ==
    IF mode # "open" THEN qfile
    ELSE {j \in ToSet(m.bgHeld) : m.state[j.label] = "queued"}

Unlocked == ~writing

\* The end of a region: the pump, which writes queue.json, and then workers.json or not.
Pumps(m, saves) ==
    /\ Unlocked
    /\ \E c \in Chance : w' = Pump(m, c)
    /\ qfile' = Persisted(w')
    /\ writing' = saves
    /\ UNCHANGED <<listed, wfile, mode>>

SaveWorkers ==
    /\ writing
    /\ wfile' = w.state /\ writing' = FALSE
    /\ UNCHANGED <<w, listed, qfile, mode, budget>>

-----------------------------------------------------------------------------
(* Spawns, polls and the thread of a run.                                  *)

Spawn(background) ==
    /\ mode = "open" /\ listed # {}
    /\ \E l \in Labels :
        /\ w.state[l] = "none" /\ \A k \in Labels : w.state[k] = "none" => l <= k
        /\ Pumps(Keep([w EXCEPT !.state[l] = "queued", !.entry[l] = 0,
                                !.bg = IF background THEN @ \cup {l} ELSE @ \ {l}],
                      [label |-> l, full |-> TRUE]), TRUE)
    /\ UNCHANGED budget

\* The timer and the poll: the table is not saved.
Poll ==
    /\ mode = "open" /\ w.fgHeld \o w.bgHeld # <<>>
    /\ Pumps(w, FALSE) /\ UNCHANGED budget

At(r, from) == r \in DOMAIN w.runs /\ w.runs[r].at = from

\* The root, the bundle and the fence are ready and the process starts, or they fail.
Launch(r) ==
    /\ At(r, "setup")
    /\ \/ /\ w' = [w EXCEPT !.runs[r].at = "born", !.runs[r].proc = "live"]
          /\ UNCHANGED budget
       \/ /\ budget > 0 /\ budget' = budget - 1
          /\ w' = [w EXCEPT !.runs[r].at = "bad"]
    /\ UNCHANGED <<listed, wfile, qfile, writing, mode>>

\* The callback that records the pid, and the pump a waiting job may need.
Started(r) ==
    /\ At(r, "born") /\ Unlocked
    /\ LET m == [w EXCEPT !.runs[r].at = "wait", !.pids[w.runs[r].label] = r] IN
       IF m.fgHeld \o m.bgHeld = <<>> THEN w' = m /\ UNCHANGED <<listed, wfile, qfile, writing, mode>>
       ELSE Pumps(m, FALSE)
    /\ UNCHANGED budget

\* The process ends.  A stopped one cannot end by itself, but it can be killed.
Exit(r) ==
    /\ r \in DOMAIN w.runs
    /\ w.runs[r].proc \in {"live"} \cup (IF EndMeetsFreeze THEN {"stopped"} ELSE {})
    /\ w' = [w EXCEPT !.runs[r].proc = "zombie"]
    /\ UNCHANGED <<listed, wfile, qfile, writing, mode, budget>>

\* run_cmd returns: after a close nothing is reported.
Reap(r) ==
    /\ At(r, "wait") /\ w.runs[r].proc = "zombie"
    /\ \E end \in {"ran", "asked", "bad"} :
        /\ end = "bad" /\ mode # "cancelled" => budget > 0
        /\ budget' = IF end = "bad" /\ mode # "cancelled" THEN budget - 1 ELSE budget
        /\ w' = [w EXCEPT !.runs[r].proc = "reaped",
                          !.runs[r].at = IF mode = "cancelled" THEN "over" ELSE end]
    /\ UNCHANGED <<listed, wfile, qfile, writing, mode>>

\* The end of a worker: its state, what the entry learns of it, the pump, the table.
Finish(r, state) ==
    LET l == w.runs[r].label
        at == {w.entry[l]} \ {0}
        m == [w EXCEPT !.runs[r].at = "over", !.state[l] = state,
                       !.cooling = IF state = "ran" THEN @ \ at ELSE @,
                       !.recent = IF l \in w.bg THEN @ ELSE @ \cup at]
    IN  Pumps(m, TRUE)

\* The close came first: the end is not reported.
Unreported(r) ==
    /\ mode = "cancelled" /\ \E end \in {"ran", "asked", "judged"} : At(r, end)
    /\ w' = [w EXCEPT !.runs[r].at = "over"]
    /\ UNCHANGED <<listed, wfile, qfile, writing, mode, budget>>

Report(r) ==
    /\ \E end \in {"ran", "asked"} : At(r, end) /\ Finish(r, end)
    /\ UNCHANGED budget

\* pool_out, first region: was this run resumed a moment ago?
TakeResumed(r) ==
    /\ At(r, "bad") /\ Unlocked
    /\ LET l == w.runs[r].label IN
       IF mode = "cancelled" THEN w' = [w EXCEPT !.runs[r].at = "over"]
       ELSE w' = [w EXCEPT !.runs[r].at = IF l \in w.fresh THEN "graced" ELSE "judged",
                           !.fresh = @ \ {l}]
    /\ UNCHANGED <<listed, wfile, qfile, writing, mode, budget>>

\* Mutants: the requeue holds no job; it drops the brief; the thread goes on and reports the end as well.
RequeuedLost(m, r) ==
    LET l == m.runs[r].label IN [m EXCEPT !.state[l] = "queued", !.entry[l] = 0, !.runs[r].at = "over"]

RequeuedEmpty(m, r) ==
    LET l == m.runs[r].label
        n == [m EXCEPT !.state[l] = "queued", !.entry[l] = 0, !.runs[r].at = "over"]
    IN  Keep(n, [label |-> l, full |-> FALSE])

RequeuedGoesOn(m, r) ==
    LET l == m.runs[r].label
        j == [label |-> l, full |-> m.runs[r].full]
        n == [m EXCEPT !.state[l] = "queued", !.entry[l] = 0]
    IN  IF l \in m.bg THEN [n EXCEPT !.bgHeld = <<j>> \o @] ELSE [n EXCEPT !.fgHeld = <<j>> \o @]

\* The job goes back to the front of the queue with the brief of the run.
Requeued(m, r) ==
    LET l == m.runs[r].label
        j == [label |-> l, full |-> m.runs[r].full]
        n == [m EXCEPT !.state[l] = "queued", !.entry[l] = 0, !.runs[r].at = "over"]
    IN  IF l \in m.bg THEN [n EXCEPT !.bgHeld = <<j>> \o @] ELSE [n EXCEPT !.fgHeld = <<j>> \o @]

\* Mutant: the table is not saved when the job goes back to the queue.
BlameUnsaved(r) ==
    /\ \/ At(r, "graced") /\ Pumps(Requeued(w, r), FALSE)
       \/ At(r, "judged") /\ LET at == {w.entry[w.runs[r].label]} \ {0} IN
                             Pumps(Requeued([w EXCEPT !.cooling = @ \cup at], r), FALSE)
       \/ At(r, "judged") /\ Finish(r, "failed")
    /\ UNCHANGED budget

\* pool_out, second region: the pause is blamed, or the entry, or the worker itself.
Blame(r) ==
    /\ \/ At(r, "graced") /\ Pumps(Requeued(w, r), TRUE)
       \/ At(r, "judged") /\ LET at == {w.entry[w.runs[r].label]} \ {0} IN
                             Pumps(Requeued([w EXCEPT !.cooling = @ \cup at], r), TRUE)
       \/ At(r, "judged") /\ Finish(r, "failed")
    /\ UNCHANGED budget

\* Mutant: it drops whatever is recorded for its label.
ForgetAll(r) ==
    /\ At(r, "over") /\ Unlocked
    /\ LET l == w.runs[r].label IN
       w' = [w EXCEPT !.runs[r].at = "gone", !.pids[l] = 0, !.frozen[l] = 0,
                      !.fresh = @ \ {l}, !.noYield = @ \ {l}]
    /\ UNCHANGED <<listed, wfile, qfile, writing, mode, budget>>

\* A run that ended drops its pid, unless a later run of the label has recorded its own.
Forget(r) ==
    /\ At(r, "over") /\ Unlocked
    /\ LET l == w.runs[r].label
           m == [w EXCEPT !.runs[r].at = "gone"]
       IN  w' = IF w.pids[l] # r THEN m
                ELSE [m EXCEPT !.pids[l] = 0, !.frozen[l] = 0, !.fresh = @ \ {l}, !.noYield = @ \ {l}]
    /\ UNCHANGED <<listed, wfile, qfile, writing, mode, budget>>

-----------------------------------------------------------------------------
(* The clock, the owner of the pools file, the close and the next start.   *)

CoolOver(e) ==
    /\ e \in w.cooling /\ w' = [w EXCEPT !.cooling = @ \ {e}]
    /\ UNCHANGED <<listed, wfile, qfile, writing, mode, budget>>

IdleOver(e) ==
    /\ e \in w.recent /\ w' = [w EXCEPT !.recent = @ \ {e}]
    /\ UNCHANGED <<listed, wfile, qfile, writing, mode, budget>>

GraceOver(l) ==
    /\ l \in w.fresh /\ w' = [w EXCEPT !.fresh = @ \ {l}]
    /\ UNCHANGED <<listed, wfile, qfile, writing, mode, budget>>

EditPools ==
    /\ budget > 0 /\ budget' = budget - 1
    /\ listed' \in SUBSET Entries \ {listed}
    /\ UNCHANGED <<w, wfile, qfile, writing, mode>>

Close ==
    /\ mode = "open" /\ budget > 0 /\ mode' = "closed"
    /\ UNCHANGED <<w, listed, wfile, qfile, writing, budget>>

\* close_workers: every paused job goes on, so that the stop reaches it.
CancelWorkers ==
    /\ mode = "closed" /\ Unlocked
    /\ mode' = "cancelled"
    /\ w' = Thaw(w, {l \in Labels : w.state[l] = "paused"})
    /\ UNCHANGED <<listed, wfile, qfile, writing, budget>>

\* What load_workers keeps of the two files: background jobs that both say wait.
Restored ==
    {j \in qfile : wfile[j.label] = "queued" /\ j.label \in w.bg}

\* One job for each label, in the order of the table.  Of two with one label the code takes the later
\* in the file; as the file is a set here, it may be either.
InTableOrder(S) ==
    LET labels == {j.label : j \in S} IN
    {q \in [1 .. Cardinality(labels) -> S] :
        /\ {q[i].label : i \in DOMAIN q} = labels
        /\ \A i, k \in DOMAIN q : i < k => q[i].label < q[k].label}

\* The server is gone, at any moment, and its processes with it; the next one loads the files.
Restart ==
    /\ budget > 0 /\ budget' = budget - 1
    /\ LET kept == {j.label : j \in Restored}
           after == [l \in Labels |->
                        IF \/ wfile[l] \in {"running", "paused"}
                           \/ wfile[l] = "queued" /\ l \notin kept
                        THEN "stopped" ELSE wfile[l]]
       IN  /\ \E held \in InTableOrder(Restored) :
                 w' = [Idle0 EXCEPT !.state = after,
                                    !.bg = {l \in w.bg : wfile[l] # "none"},
                                    !.bgHeld = held]
           /\ wfile' = after
    /\ mode' = "open" /\ writing' = FALSE
    /\ UNCHANGED <<listed, qfile>>

RunIds == 1 .. (Cardinality(Labels) + 2 * Budget)

RunStep(r) ==
    \/ Launch(r) \/ Started(r) \/ Reap(r) \/ Report(r) \/ Unreported(r)
    \/ TakeResumed(r) \/ Blame(r) \/ Forget(r)

Next ==
    \/ \E b \in BOOLEAN : Spawn(b)
    \/ Poll
    \/ SaveWorkers
    \/ \E r \in RunIds : RunStep(r) \/ Exit(r)
    \/ \E e \in Entries : CoolOver(e) \/ IdleOver(e)
    \/ \E l \in Labels : GraceOver(l)
    \/ EditPools \/ Close \/ CancelWorkers \/ Restart

Spec == Init /\ [][Next]_vars

\* What the code's scheduling gives, no more than the bounded instance needs: the timer and the poll
\* run the queue again while it holds a job, some thread that can go on does, some worker that is not
\* stopped ends (tree run has a node timeout), and cool-downs and idle times lapse.
Fairness ==
    /\ WF_vars(Poll)
    /\ WF_vars(SaveWorkers \/ \E r \in RunIds : RunStep(r) \/ Exit(r))
    /\ WF_vars(\E e \in Entries : CoolOver(e) \/ IdleOver(e))

FairSpec == Spec /\ Fairness

-----------------------------------------------------------------------------
(* Properties.                                                             *)

TypeOK ==
    /\ w.state \in [Labels -> States] /\ w.entry \in [Labels -> Entries \cup {0}]
    /\ w.bg \subseteq Labels
    /\ w.fgHeld \in Seq(Job) /\ w.bgHeld \in Seq(Job) /\ w.runs \in Seq(Run)
    /\ DOMAIN w.runs \subseteq RunIds
    /\ w.pids \in [Labels -> {0} \cup RunIds] /\ w.frozen \in [Labels -> {0} \cup RunIds]
    /\ w.fresh \cup w.noYield \subseteq Labels /\ w.cooling \cup w.recent \subseteq Entries
    /\ listed \subseteq Entries /\ wfile \in [Labels -> States] /\ qfile \subseteq Job
    /\ writing \in BOOLEAN /\ mode \in {"open", "closed", "cancelled"} /\ budget \in 0 .. Budget

HeldCount(l) ==
    Cardinality({i \in DOMAIN w.fgHeld : w.fgHeld[i].label = l})
        + Cardinality({i \in DOMAIN w.bgHeld : w.bgHeld[i].label = l})

\* "A job that is not running: it waits, or it is paused" (foreman_pool.rs, HeldEntry): a record is
\* queued or paused exactly when one held job stands for it, so none is lost and none runs twice.
HeldWaits ==
    \A l \in Labels : HeldCount(l) = IF w.state[l] \in {"queued", "paused"} THEN 1 ELSE 0

\* Two workers never work in the worktree of one job at the same time.
OneProcess ==
    \A l \in Labels :
        Cardinality({r \in DOMAIN w.runs : w.runs[r].label = l /\ w.runs[r].proc \in {"live", "stopped"}}) <= 1

\* The processes that use an entry never outnumber its slots, though the load only counts records;
\* a job that went on in place because its entry left the file is outside the count.
SlotsHold ==
    mode # "cancelled" => \A e \in Entries :
        Cardinality({r \in DOMAIN w.runs : /\ w.runs[r].proc = "live" /\ w.runs[r].on = e
                                           /\ w.runs[r].label \notin w.noYield}) <= Slots

\* A stopped process belongs to a paused job that records its groups, and a paused job has one: no
\* worker is left stopped with nothing to thaw it, and no room is counted free that is in use.
StoppedIsPaused ==
    mode # "cancelled" =>
        /\ \A r \in DOMAIN w.runs : w.runs[r].proc = "stopped" =>
              LET l == w.runs[r].label IN w.state[l] = "paused" /\ w.frozen[l] = r
        /\ \A l \in Labels : w.state[l] = "paused" =>
              w.frozen[l] # 0 /\ w.runs[w.frozen[l]].proc = "stopped"

\* Whatever stops the server between two regions, the two files together name exactly the background
\* jobs that wait: none of them is lost, and none that has started is started again.
QueueOnDisk ==
    mode = "open" /\ ~writing =>
        {j.label : j \in Restored} = {l \in w.bg : w.state[l] = "queued"}

\* No worker is started with an empty brief (the one a yield holds its victim with).
BriefKept == \A r \in DOMAIN w.runs : w.runs[r].full

\* A worker that ended, in the table a reader sees between two regions, never runs again: not by the
\* thread of an earlier run that reports late, not by a requeue, a close or a restart.  One way is not
\* covered: a worker that ends as it is frozen leaves a held job that starts it again (HeldWaits is
\* violated with EndMeetsFreeze), so this is checked and proved with EndMeetsFreeze FALSE only.
FinishedStays ==
    [][\A l \in Labels : w.state[l] \in Ended /\ ~writing => w'.state[l] \in Ended]_vars

\* A job that waits, or that was paused for foreground work, gets its turn: it runs, or it ends.
JobsMove ==
    \A l \in Labels :
        w.state[l] \in {"queued", "paused"}
            ~> w.state[l] \notin {"queued", "paused"} \/ mode # "open"
=============================================================================
