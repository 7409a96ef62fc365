------------------------------- MODULE MCLive --------------------------------
(***************************************************************************)
(* What must happen eventually: goroutines get the locks they ask for, a   *)
(* server shuts down, the nodes of a cluster answer and catch up, a raft   *)
(* node hands over its messages and lets callers go, its transport         *)
(* receives and stops.  One part moves in a behaviour; in its initial      *)
(* state no goroutine of another can run, so that the fairness of one says *)
(* nothing of the others.                                                  *)
(***************************************************************************)
EXTENDS Locks, Sequences, TLC

CONSTANTS c1, c2, c3, n1, n2, Null

VARIABLES part,
          main, acceptor, isTerminating, listening, cancelled, wg, h, broken, closed,
          proposer, raftUp, entries, commits, found, panic,             \* Server
          log, props, client, applied, snapIndex, rc, fresh, batch, hist, cur, saved, crashes,  \* Cluster
          raft, run, ticks, app, call,                                  \* NodeLoop
          loop, sent, swriter, conn, pipe, snapReports,                  \* PeerSender
          reader, recvc, propc, busy, leader, stopping, left            \* PeerReceiver

Alone == INSTANCE Server WITH Conn <- {c1, c2, c3}, IsCluster <- FALSE, Kinds <- {"run", "block"}

Cmd(name, arg) == << <<name>>, <<arg>> >>
Script == (c1 :> <<Cmd("set", "x")>>) @@ (c2 :> <<Cmd("set", "y")>>)
Home == (c1 :> n1) @@ (c2 :> n2)

\* Four keys on three stripes, two of which share one, so that a command on two
\* keys may need one stripe or two.
FourKeys == ("a" :> 0) @@ ("b" :> 1) @@ ("c" :> 2) @@ ("d" :> 4)

\* No snapshot is due, or one is after every second entry; then one client is enough.
NoSnapshots == INSTANCE Cluster WITH
    Node <- {n1, n2}, Client <- {c1, c2}, Results <- {"r"}, ConfChanges <- 1, MaxCrash <- 1,
    SnapCount <- 9, Lossy <- FALSE
Snapshots == INSTANCE Cluster WITH
    Node <- {n1, n2}, Client <- {c1, c2}, Results <- {"r"}, ConfChanges <- 1, MaxCrash <- 1,
    SnapCount <- 1, Lossy <- FALSE

\* One goroutine that calls, one message, two changes of the leader.
RaftNode == INSTANCE NodeLoop WITH Caller <- {c1}, MaxMade <- 1, MaxLast <- 0, MaxTurns <- 2, TickBuffer <- 1

Sender == INSTANCE PeerSender WITH
    Conn <- {c1}, Handler <- {"handler"}, StreamBuf <- 1, PipeBuf <- 1, MaxSent <- 1,
    writer <- swriter

Receiver == INSTANCE PeerReceiver WITH BufSize <- 1, MaxReceived <- 2

serverVars == <<main, acceptor, isTerminating, listening, cancelled, wg, h, broken, closed,
                proposer, raftUp, entries, commits, found, panic>>
clusterVars == <<log, props, client, applied, snapIndex, rc, fresh, batch, hist, cur, saved, crashes>>
nodeVars == <<raft, run, ticks, app, call>>
senderVars == <<loop, sent, swriter, conn, pipe, snapReports>>
receiverVars == <<reader, recvc, propc, busy, leader, stopping, left>>

LiveInit ==
    /\ part \in {"locks", "server", "answers", "snapshots", "node", "sender", "receiver"}
    /\ Init /\ Alone!Init /\ Snapshots!Init /\ RaftNode!Init /\ Sender!Init /\ Receiver!Init

LiveNext ==
    /\ UNCHANGED part
    /\ \/ part = "locks" /\ Next /\ UNCHANGED <<serverVars, clusterVars, nodeVars, senderVars, receiverVars>>
       \/ part = "server" /\ Alone!Next /\ UNCHANGED <<vars, clusterVars, nodeVars, senderVars, receiverVars>>
       \/ part = "answers" /\ NoSnapshots!Next /\ UNCHANGED <<vars, serverVars, nodeVars, senderVars, receiverVars>>
       \/ part = "snapshots" /\ Snapshots!Next /\ UNCHANGED <<client[c2], vars, serverVars, nodeVars, senderVars, receiverVars>>
       \/ part = "node" /\ RaftNode!Next /\ UNCHANGED <<vars, serverVars, clusterVars, senderVars, receiverVars>>
       \/ part = "sender" /\ Sender!Next /\ UNCHANGED <<vars, serverVars, clusterVars, nodeVars, receiverVars>>
       \/ part = "receiver" /\ Receiver!Next /\ UNCHANGED <<vars, serverVars, clusterVars, nodeVars, senderVars>>

LiveSpec ==
    /\ LiveInit
    /\ [][LiveNext]_<<part, vars, serverVars, clusterVars, nodeVars, senderVars, receiverVars>>
    /\ Fairness /\ Alone!Fairness /\ Snapshots!Fairness /\ RaftNode!Fairness /\ Sender!Fairness /\ Receiver!Fairness

(***************************************************************************)
(* The properties of the parts.  Those of the locks are in Locks.          *)
(***************************************************************************)
\* When Start returns no handler that it started is still running.
WaitsForClients == part = "server" => Alone!WaitsForClients

\* Only a handler that waits for a value, or for a result, holds up the shutdown.
ShutsDownUnlessBlocked == Alone!ShutsDownUnlessBlocked

\* A client that waits for its command gets an answer, unless its node crashes, and
\* every node catches up with the log, through snapshots and restarts.
ClusterProgress == (part = "answers" => Snapshots!Answered) /\ Snapshots!CatchesUp

\* What raft makes reaches the application, unless its event loop stops, and a call of
\* a raft node returns, except a proposal while there is no leader.
NodeServes == RaftNode!HandsOver /\ RaftNode!CallsReturn

\* Messages of a peer reach raft though its proposals wait for a leader.
ReceivedProcessed == Receiver!ReceivedProcessed

\* Stopping either side of a peer ends, whether the other side answers or not.
PeerStops == Sender!StopReturns /\ Receiver!ReaderStops
=============================================================================
