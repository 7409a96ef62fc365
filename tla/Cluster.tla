------------------------------- MODULE Cluster -------------------------------
(***************************************************************************)
(* Cluster mode: HandleCluster proposes each command, raft orders the      *)
(* proposals in one log, and on every node RaftNode.serveChannels hands    *)
(* batches of committed entries to handleClusterCommits, which executes    *)
(* them on the node's databases.  Nodes crash and restart from their WAL   *)
(* and snapshots.  Raft itself is external: a log that only grows.         *)
(*                                                                         *)
(* A database is the sequence of commands executed on it.  A command is a  *)
(* sequence of arguments, an argument a sequence of words.                 *)
(***************************************************************************)
EXTENDS Integers, FiniteSets, Sequences, SequencesExt

CONSTANTS Node, Client,
          Home,        \* the node each client is connected to
          Script,      \* the commands each client sends, one after the other
          Results,     \* what SPOP may pop
          ConfChanges, \* bound: configuration changes in the log
          SnapCount,   \* RaftNode.snapCount
          MaxCrash,    \* bound: crashes
          Lossy        \* proposals may be lost on the way to the leader

VARIABLES log,         \* the committed log
          props,       \* proposals on their way
          client,      \* what each client is doing
          applied, snapIndex,  \* RaftNode.appliedIndex, snapshotIndex
          rc,          \* what serveChannels is doing: "ready", "snap" or "save"
          fresh,       \* the batch of maybeTriggerSnapshot had an applyDoneC
          batch,       \* the commands handleClusterCommits has received
          hist, cur,   \* what the node has executed, Manager.CurrentDB
          saved,       \* durable: the index of the newest snapshot
          crashes

nodeVars == <<applied, snapIndex, rc, fresh, batch, hist, cur, saved>>
vars == <<log, props, client, nodeVars, crashes>>

ConfChange == [client |-> "none", cmd |-> <<>>]

Init ==
    /\ log = <<>> /\ props = {}
    /\ client = [c \in Client |-> [pc |-> "idle", sent |-> 0]]
    /\ applied = [n \in Node |-> 0] /\ snapIndex = [n \in Node |-> 0]
    /\ rc = [n \in Node |-> "ready"] /\ fresh = [n \in Node |-> FALSE]
    /\ batch = [n \in Node |-> <<>>]
    /\ hist = [n \in Node |-> <<>>] /\ cur = [n \in Node |-> 0]
    /\ saved = [n \in Node |-> 0]
    /\ crashes = 0

-----------------------------------------------------------------------------
(* From the client to the log *)

\* strings.Join(cmdStrings, " ") in HandleCluster and strings.Split(cmdStr, " ")
\* in ExecStrCommand: every word becomes an argument.
Split(cmd) == [i \in 1 .. Len(FlattenSeq(cmd)) |-> <<FlattenSeq(cmd)[i]>>]

\* The next command of the script is proposed and the handler waits.
Propose(c) ==
    LET i == client[c].sent + 1 IN
    /\ client[c].pc = "idle" /\ i <= Len(Script[c])
    /\ client' = [client EXCEPT ![c] = [pc |-> "wait", sent |-> i]]
    /\ props' = props \cup {[client |-> c, cmd |-> Script[c][i], n |-> i]}
    /\ UNCHANGED <<log, nodeVars, crashes>>

\* Raft appends and commits the proposal, or loses it.
Commit ==
    \E p \in props :
      /\ log' = Append(log, p)
      /\ props' = props \ {p}
      /\ UNCHANGED <<client, nodeVars, crashes>>

Lose ==
    /\ Lossy
    /\ \E p \in props : props' = props \ {p}
    /\ UNCHANGED <<log, client, nodeVars, crashes>>

CommitConfChange ==
    /\ Cardinality({i \in DOMAIN log : log[i] = ConfChange}) < ConfChanges
    /\ log' = Append(log, ConfChange)
    /\ UNCHANGED <<props, client, nodeVars, crashes>>

-----------------------------------------------------------------------------
(* RaftNode.serveChannels *)

\* Mutant: the entry at appliedIndex is applied again.
EntriesFromApplied(n, first, last) ==
    IF applied[n] + 1 > last THEN <<>> ELSE SubSeq(log, IF first <= applied[n] THEN applied[n] ELSE applied[n] + 1, last)

entriesToApply(n, first, last) ==
    IF applied[n] + 1 > last THEN <<>> ELSE SubSeq(log, applied[n] + 1, last)

\* publishEntries: the commands of the batch go to the commit loop, which must
\* have finished the batch before; then appliedIndex moves on.
Ready(n, first, last) ==
    LET ents == entriesToApply(n, first, last)
        data == SelectSeq(ents, LAMBDA e : e # ConfChange)
    IN
    /\ rc[n] = "ready"
    /\ first \in 1 .. applied[n] + 1 /\ last \in first .. Len(log)
    /\ ents # <<>>
    /\ data # <<>> => batch[n] = <<>>
    /\ batch' = IF data = <<>> THEN batch ELSE [batch EXCEPT ![n] = data]
    /\ applied' = [applied EXCEPT ![n] = last]
    /\ fresh' = [fresh EXCEPT ![n] = data # <<>>]
    /\ rc' = [rc EXCEPT ![n] = IF last - snapIndex[n] <= SnapCount THEN "ready" ELSE "snap"]
    /\ UNCHANGED <<log, props, client, snapIndex, hist, cur, saved, crashes>>

\* maybeTriggerSnapshot waits for applyDoneC only when there is one.
GetSnapshot(n) ==
    /\ rc[n] = "snap"
    /\ fresh[n] => batch[n] = <<>>
    /\ rc' = [rc EXCEPT ![n] = "save"]
    /\ UNCHANGED <<log, props, client, applied, snapIndex, fresh, batch, hist, cur, saved, crashes>>

\* saveSnap and Compact.
SaveSnap(n) ==
    /\ rc[n] = "save"
    /\ saved' = [saved EXCEPT ![n] = applied[n]]
    /\ snapIndex' = [snapIndex EXCEPT ![n] = applied[n]]
    /\ rc' = [rc EXCEPT ![n] = "ready"]
    /\ UNCHANGED <<log, props, client, applied, fresh, batch, hist, cur, crashes>>

\* A snapshot of another node arrives: it is saved and publishSnapshot sends
\* nil to the commit loop, which logs it and goes on.
PublishSnapshot(n, m) ==
    /\ rc[n] = "ready" /\ batch[n] = <<>>
    /\ saved[m] > applied[n]
    /\ saved' = [saved EXCEPT ![n] = saved[m]]
    /\ snapIndex' = [snapIndex EXCEPT ![n] = saved[m]]
    /\ applied' = [applied EXCEPT ![n] = saved[m]]
    /\ UNCHANGED <<log, props, client, rc, fresh, batch, hist, cur, crashes>>

-----------------------------------------------------------------------------
(* handleClusterCommits *)

Pushed(n) == Len(SelectSeq(hist[n], LAMBDA r : r.cmd[1] = <<"lpush">>))
Popped(n) == Len(SelectSeq(hist[n], LAMBDA r : r.cmd[1] = <<"blpop">>))

\* Mutant: only the last command of a batch is answered.
ExecAnswersLast(n) ==
    LET e == Head(batch[n])
        cmd == Split(e.cmd)
    IN
    /\ batch[n] # <<>>
    /\ cmd[1] = <<"blpop">> => Pushed(n) > Popped(n)
    /\ IF cmd[1] = <<"select">>
       THEN /\ cur' = [cur EXCEPT ![n] = cmd[2][1]]
            /\ UNCHANGED hist
       ELSE /\ \E r \in (IF cmd[1] = <<"spop">> THEN Results ELSE {"ok"}) :
                  hist' = [hist EXCEPT ![n] = Append(@, [db |-> cur[n], cmd |-> cmd, res |-> r, of |-> e])]
            /\ UNCHANGED cur
    /\ batch' = [batch EXCEPT ![n] = Tail(@)]
    /\ client' = IF Len(batch[n]) = 1 /\ e.client \in Client /\ Home[e.client] = n /\ client[e.client] = [pc |-> "wait", sent |-> e.n]
                 THEN [client EXCEPT ![e.client].pc = "idle"] ELSE client
    /\ UNCHANGED <<log, props, applied, snapIndex, rc, fresh, saved, crashes>>

\* ExecStrCommand of the first command left, and the answer to the handler
\* that waits for it here.
Exec(n) ==
    LET e == Head(batch[n])
        cmd == Split(e.cmd)
    IN
    /\ batch[n] # <<>>
    /\ cmd[1] = <<"blpop">> => Pushed(n) > Popped(n)
    /\ IF cmd[1] = <<"select">>
       THEN /\ cur' = [cur EXCEPT ![n] = cmd[2][1]]
            /\ UNCHANGED hist
       ELSE /\ \E r \in (IF cmd[1] = <<"spop">> THEN Results ELSE {"ok"}) :
                  hist' = [hist EXCEPT ![n] = Append(@, [db |-> cur[n], cmd |-> cmd, res |-> r, of |-> e])]
            /\ UNCHANGED cur
    /\ batch' = [batch EXCEPT ![n] = Tail(@)]
    /\ client' = IF e.client \in Client /\ Home[e.client] = n /\ client[e.client] = [pc |-> "wait", sent |-> e.n]
                 THEN [client EXCEPT ![e.client].pc = "idle"] ELSE client
    /\ UNCHANGED <<log, props, applied, snapIndex, rc, fresh, saved, crashes>>

\* The process ends and starts again: replayWAL gives raft the newest saved
\* snapshot and the entries after it; the databases are empty.
Restart(n) ==
    /\ crashes < MaxCrash
    /\ crashes' = crashes + 1
    /\ applied' = [applied EXCEPT ![n] = saved[n]]
    /\ snapIndex' = [snapIndex EXCEPT ![n] = saved[n]]
    /\ rc' = [rc EXCEPT ![n] = "ready"]
    /\ fresh' = [fresh EXCEPT ![n] = FALSE]
    /\ batch' = [batch EXCEPT ![n] = <<>>]
    /\ hist' = [hist EXCEPT ![n] = <<>>]
    /\ cur' = [cur EXCEPT ![n] = 0]
    /\ client' = [c \in Client |-> IF Home[c] = n /\ client[c].pc = "wait"
                                   THEN [client[c] EXCEPT !.pc = "cut"] ELSE client[c]]
    /\ UNCHANGED <<log, props, saved>>

NodeStep(n) ==
    \/ \E first, last \in 1 .. Len(log) : Ready(n, first, last)
    \/ GetSnapshot(n) \/ SaveSnap(n)

Next ==
    \/ \E c \in Client : Propose(c)
    \/ Commit \/ Lose \/ CommitConfChange
    \/ \E n \in Node : NodeStep(n) \/ Exec(n) \/ Restart(n) \/ \E m \in Node : PublishSnapshot(n, m)

\* Raft commits what it has accepted, and the goroutines of a node run.
Fairness ==
    /\ WF_vars(Commit)
    /\ \A n \in Node : WF_vars(NodeStep(n)) /\ WF_vars(Exec(n))

Spec == Init /\ [][Next]_vars
FairSpec == Spec /\ Fairness

-----------------------------------------------------------------------------
(* Properties *)

\* What a node that executes the whole log has done: the commands that write,
\* each on the database selected before.
Replayed(s) ==
    LET cmds == SelectSeq(s, LAMBDA e : e # ConfChange)
        selects(i) == {j \in 1 .. i : cmds[j].cmd[1] = <<"select">>}
        db(i) == IF selects(i) = {} THEN 0
                 ELSE Split(cmds[CHOOSE j \in selects(i) : \A k \in selects(i) : k <= j].cmd)[2][1]
        all == [i \in DOMAIN cmds |-> [db |-> db(i), of |-> cmds[i]]]
    IN  SelectSeq(all, LAMBDA r : r.of.cmd[1] # <<"select">>)

\* "All log entries are replayed over the RaftCommit channel": when its commit
\* loop has nothing left, a node has executed the log up to appliedIndex, each
\* entry once and in order, whatever crashes and batches there were.
DatabaseIsLog ==
    \A n \in Node : batch[n] = <<>> =>
        [i \in DOMAIN hist[n] |-> [db |-> hist[n][i].db, of |-> hist[n][i].of]] = Replayed(SubSeq(log, 1, applied[n]))

\* A client that waits for its command gets an answer, unless its node crashes.
Answered == \A c \in Client : client[c].pc = "wait" ~> client[c].pc # "wait"

\* Every node catches up with the log and finishes what it has applied, through
\* snapshots and restarts.
CatchesUp == <>[](\A n \in Node : applied[n] = Len(log) /\ batch[n] = <<>>)
=============================================================================
