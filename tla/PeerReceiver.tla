---------------------------- MODULE PeerReceiver -----------------------------
(***************************************************************************)
(* etcd/server/etcdserver/api/rafthttp: how a node receives from one peer. *)
(* A streamReader dials the peer and decodes messages into two channels,   *)
(* each emptied by a goroutine of startPeer that hands them to raft.       *)
(* Process of a proposal waits for a leader.                               *)
(***************************************************************************)
EXTENDS Integers, Sequences

CONSTANTS BufSize,       \* recvBufSize and maxPendingProposals
          MaxReceived,   \* the bound on messages
          Null

VARIABLES reader,        \* the goroutine of the streamReader, its context and connection
          recvc, propc,  \* the channels
          busy,          \* the message that each of the two goroutines processes
          leader,        \* whether the node has a leader
          stopping,      \* how far stop is
          left           \* how many messages may still be received

vars == <<reader, recvc, propc, busy, leader, stopping, left>>

(***************************************************************************)
(* streamReader                                                            *)
(***************************************************************************)
\* dial gives up if the context is done, and otherwise asks the peer.
Dial ==
    /\ reader.at = "dial"
    /\ reader' = [reader EXCEPT !.at = IF reader.cancelled THEN "wait" ELSE "trip"]
    /\ UNCHANGED <<recvc, propc, busy, leader, stopping, left>>

Dialled ==
    /\ reader.at = "trip"
    /\ reader' = [reader EXCEPT !.at = "connected", !.open = TRUE]
    /\ UNCHANGED <<recvc, propc, busy, leader, stopping, left>>

DialFails ==
    /\ reader.at = "trip"
    /\ reader' = [reader EXCEPT !.at = "wait"]
    /\ UNCHANGED <<recvc, propc, busy, leader, stopping, left>>

\* The start of decodeLoop: with the lock, either stop has been before and the
\* connection is closed, or stop will find it.
StartDecoding ==
    /\ reader.at = "connected"
    /\ reader' = IF reader.cancelled THEN [reader EXCEPT !.at = "wait", !.open = FALSE]
                 ELSE [reader EXCEPT !.at = "decode", !.closer = TRUE]
    /\ UNCHANGED <<recvc, propc, busy, leader, stopping, left>>

Put(ch, m) == IF Len(ch) < BufSize THEN Append(ch, m) ELSE ch

\* Mutant: all messages take one way.
DecodeToOne(m) ==
    /\ reader.at = "decode" /\ reader.open /\ left > 0
    /\ left' = left - 1
    /\ recvc' = Put(recvc, m)
    /\ UNCHANGED <<reader, propc, busy, leader, stopping>>

\* A message is put into its channel, or dropped if that is full.
Decode(m) ==
    /\ reader.at = "decode" /\ reader.open /\ left > 0
    /\ left' = left - 1
    /\ IF m = "prop" THEN propc' = Put(propc, m) /\ UNCHANGED recvc
                     ELSE recvc' = Put(recvc, m) /\ UNCHANGED propc
    /\ UNCHANGED <<reader, busy, leader, stopping>>

\* The connection fails, is closed, or its context is done.
DecodeFails ==
    /\ reader.at = "decode"
    /\ reader' = [reader EXCEPT !.at = "wait", !.open = FALSE, !.closer = FALSE]
    /\ UNCHANGED <<recvc, propc, busy, leader, stopping, left>>

\* The wait for the next dial ends at once when the context is done.
Waited ==
    /\ reader.at = "wait"
    /\ reader' = [reader EXCEPT !.at = IF reader.cancelled THEN "done" ELSE "dial"]
    /\ UNCHANGED <<recvc, propc, busy, leader, stopping, left>>

(***************************************************************************)
(* The goroutines of startPeer                                             *)
(***************************************************************************)
TakeRecv ==
    /\ busy.recv = Null /\ recvc # <<>>
    /\ busy' = [busy EXCEPT !.recv = Head(recvc)]
    /\ recvc' = Tail(recvc)
    /\ UNCHANGED <<reader, propc, leader, stopping, left>>

TakeProp ==
    /\ busy.prop = Null /\ propc # <<>>
    /\ busy' = [busy EXCEPT !.prop = Head(propc)]
    /\ propc' = Tail(propc)
    /\ UNCHANGED <<reader, recvc, leader, stopping, left>>

\* Process returns: for a proposal when there is a leader, or stop has cancelled it.
Processed(g) ==
    /\ busy[g] \notin {Null, "returned"}
    /\ busy[g] = "prop" => leader \/ stopping # "no"
    /\ busy' = [busy EXCEPT ![g] = Null]
    /\ UNCHANGED <<reader, recvc, propc, leader, stopping, left>>

Returns(g) ==
    /\ busy[g] = Null /\ stopping # "no"
    /\ busy' = [busy EXCEPT ![g] = "returned"]
    /\ UNCHANGED <<reader, recvc, propc, leader, stopping, left>>

LeaderChanges == leader' = ~leader /\ UNCHANGED <<reader, recvc, propc, busy, stopping, left>>

(***************************************************************************)
(* stop                                                                    *)
(***************************************************************************)
Stop ==
    /\ stopping = "no"
    /\ stopping' = "closed"
    /\ UNCHANGED <<reader, recvc, propc, busy, leader, left>>

\* Mutant: the connection is closed, and dialled again.
CloseOnly ==
    /\ stopping = "closed"
    /\ stopping' = "waits"
    /\ reader' = [reader EXCEPT !.open = IF reader.closer THEN FALSE ELSE @, !.closer = FALSE]
    /\ UNCHANGED <<recvc, propc, busy, leader, left>>

\* streamReader.stop: cancel, and close the connection that decodeLoop has.
StopReader ==
    /\ stopping = "closed"
    /\ stopping' = "waits"
    /\ reader' = [reader EXCEPT !.cancelled = TRUE, !.open = IF reader.closer THEN FALSE ELSE @, !.closer = FALSE]
    /\ UNCHANGED <<recvc, propc, busy, leader, left>>

Stopped ==
    /\ stopping = "waits" /\ reader.at = "done"
    /\ stopping' = "stopped"
    /\ UNCHANGED <<reader, recvc, propc, busy, leader, left>>

Init ==
    /\ reader = [at |-> "dial", cancelled |-> FALSE, open |-> FALSE, closer |-> FALSE]
    /\ recvc = <<>> /\ propc = <<>>
    /\ busy = [recv |-> Null, prop |-> Null]
    /\ leader = FALSE
    /\ stopping = "no"
    /\ left = MaxReceived

\* What the reader does by itself, or when its context is done.
ReaderRuns ==
    \/ StartDecoding \/ Waited
    \/ reader.cancelled /\ (DialFails \/ DecodeFails)
    \/ reader.cancelled /\ Dial

Serves(g) == Processed(g) \/ (g = "recv" /\ TakeRecv) \/ (g = "prop" /\ TakeProp)

Next ==
    \/ Dial \/ Dialled \/ DialFails \/ StartDecoding \/ DecodeFails \/ Waited
    \/ \E m \in {"prop", "other"} : Decode(m)
    \/ TakeRecv \/ TakeProp \/ \E g \in {"recv", "prop"} : Processed(g) \/ Returns(g)
    \/ LeaderChanges
    \/ Stop \/ StopReader \/ Stopped

Fairness ==
    /\ WF_vars(ReaderRuns) /\ WF_vars(StopReader \/ Stopped)
    /\ \A g \in {"recv", "prop"} : WF_vars(Serves(g))

Spec == Init /\ [][Next]_vars /\ Fairness

(***************************************************************************)
(* Properties                                                              *)
(***************************************************************************)
\* Messages reach raft though proposals of the same peer wait for a leader, for which
\* the messages may be needed.
ReceivedProcessed == (recvc # <<>>) ~> (recvc = <<>> \/ stopping # "no")

\* stop returns, whether the reader dials, connects or waits for a message.
ReaderStops == (stopping = "closed") ~> (stopping = "stopped")
=============================================================================
