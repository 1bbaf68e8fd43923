--------------------------- MODULE DelegationTree ---------------------------
(***************************************************************************)
(* What the delegation tree promises, with no ledger, no lock, no files    *)
(* and no budget: who runs, under whom, what each session was given, and   *)
(* what the gate lets it do now.  A session is given authority once, inside*)
(* its parent's or, when the operator says so, inside the root's; the gate *)
(* never lets it do anything else; and it ends after its children.         *)
(***************************************************************************)
EXTENDS EdgeRule

CONSTANTS Sessions, NoSession

VARIABLES
    status,   \* none, running or ended
    parent,   \* who started it
    root,     \* where its branch starts
    proved,   \* inside its parent, not only inside its root
    grant,    \* the envelope it was given
    access    \* the envelope the gate checks it by; NoEnvelope denies all

dvars == <<status, parent, root, proved, grant, access>>

DInit ==
    /\ status = [s \in Sessions |-> "none"]
    /\ parent = [s \in Sessions |-> NoSession]
    /\ root = [s \in Sessions |-> s]
    /\ proved = [s \in Sessions |-> TRUE]
    /\ grant = [s \in Sessions |-> NoEnvelope]
    /\ access = [s \in Sessions |-> NoEnvelope]

\* s is given e, some envelope, and nobody else is given anything.
Gives(s, e) ==
    /\ e \in Envelope
    /\ grant' = [grant EXCEPT ![s] = e]

\* The operator starts a branch.
Found(s) ==
    /\ Gives(s, grant'[s])
    /\ status[s] = "none"
    /\ access[s] = NoEnvelope
    /\ status' = [status EXCEPT ![s] = "running"]
    /\ parent' = [parent EXCEPT ![s] = NoSession]
    /\ root' = [root EXCEPT ![s] = s]
    /\ proved' = [proved EXCEPT ![s] = TRUE]
    /\ UNCHANGED access

\* A running session gives part of what it was given to a new one; with the
\* operator's allow, part of what its root was given.
Delegate(p, s, pr) ==
    /\ Gives(s, grant'[s])
    /\ status[p] = "running"
    /\ status[s] = "none"
    /\ access[s] = NoEnvelope
    /\ Covers(grant[root[p]], grant'[s])
    /\ pr => Covers(grant[p], grant'[s])
    /\ status' = [status EXCEPT ![s] = "running"]
    /\ parent' = [parent EXCEPT ![s] = p]
    /\ root' = [root EXCEPT ![s] = root[p]]
    /\ proved' = [proved EXCEPT ![s] = pr]
    /\ UNCHANGED access

Open(s) ==
    /\ status[s] = "running"
    /\ access' = [access EXCEPT ![s] = grant[s]]
    /\ UNCHANGED <<status, parent, root, proved, grant>>

\* Access may go at any time: the file is removed, by the end of the session or
\* by accident, and a session with no file may do nothing.
Close(s) ==
    /\ access' = [access EXCEPT ![s] = NoEnvelope]
    /\ UNCHANGED <<status, parent, root, proved, grant>>

Finish(s) ==
    /\ status[s] = "running"
    /\ \A c \in Sessions : parent[c] = s => status[c] # "running"
    /\ status' = [status EXCEPT ![s] = "ended"]
    /\ UNCHANGED <<parent, root, proved, grant, access>>

DNext ==
    \/ \E s \in Sessions : Found(s) \/ Open(s) \/ Close(s) \/ Finish(s)
    \/ \E p, s \in Sessions, pr \in BOOLEAN : Delegate(p, s, pr)

DSpec == DInit /\ [][DNext]_dvars
=============================================================================
