----------------------------- MODULE PeerSender ------------------------------
(***************************************************************************)
(* etcd/server/etcdserver/api/rafthttp: how the event loop of a node sends *)
(* to one peer.  peer.send puts a message into the channel of a stream or  *)
(* of the pipeline and never waits; the goroutine of each streamWriter and *)
(* those of the pipeline empty them; handlers of the HTTP server bring the *)
(* connections that the peer has dialled.  ReportUnreachable, after which  *)
(* a leader sends less, is left out; a message may be lost without it.     *)
(***************************************************************************)
EXTENDS Integers, Sequences, FiniteSets

CONSTANTS Conn,          \* the connections that the peer dials
          Handler,       \* the goroutines of the pipeline (connPerPipeline)
          StreamBuf, PipeBuf,
          MaxSent,
          Null

VARIABLES loop,          \* the event loop: in send or stop, its message and channel
          sent,          \* what was given to send
          writer,        \* the two streamWriters: the channels made so far, the connection
          conn,          \* what has become of each connection
          pipe,          \* the pipeline
          snapReports    \* how often each message was the cause of a ReportSnapshot

vars == <<loop, sent, writer, conn, pipe, snapReports>>

Stream == {"msgAppV2", "message"}
Kinds == {"app", "other", "snap"}

Current(s) == Len(writer[s].chans)

\* ReportSnapshot, if the message is a snapshot.
ReportSnapshot(m) == snapReports' = IF m.kind = "snap" THEN [snapReports EXCEPT ![m.id] = @ + 1] ELSE snapReports

(***************************************************************************)
(* send                                                                    *)
(***************************************************************************)
Send ==
    /\ loop.at = "idle" /\ Len(sent) < MaxSent
    /\ \E k \in Kinds : LET m == [id |-> Len(sent) + 1, kind |-> k]
                        IN  /\ sent' = Append(sent, m)
                            /\ loop' = [loop EXCEPT !.at = "pick", !.m = m]
    /\ UNCHANGED <<writer, conn, pipe, snapReports>>

To(ch) == loop' = [loop EXCEPT !.at = "put", !.to = ch]

\* pick: snapshots go by the pipeline, appends by the stream for them if it works.
Pick ==
    /\ loop.at = "pick"
    /\ IF loop.m.kind = "snap" THEN To(<<"pipeline">>)
       ELSE IF loop.m.kind = "app" /\ writer["msgAppV2"].working THEN To(<<"msgAppV2", Current("msgAppV2")>>)
       ELSE loop' = [loop EXCEPT !.at = "pick2"]
    /\ UNCHANGED <<sent, writer, conn, pipe, snapReports>>

PickMessage ==
    /\ loop.at = "pick2"
    /\ To(IF writer["message"].working THEN <<"message", Current("message")>> ELSE <<"pipeline">>)
    /\ UNCHANGED <<sent, writer, conn, pipe, snapReports>>

\* The channel may no longer be the one that the writer reads.  A full one drops the
\* message with a report.
Put ==
    LET s == loop.to[1]
        g == loop.to[2]
        m == loop.m
    IN  /\ loop.at = "put"
        /\ loop' = [loop EXCEPT !.at = "idle", !.m = Null, !.to = Null]
        /\ IF s = "pipeline"
           THEN /\ IF Len(pipe.msgc) < PipeBuf
                   THEN pipe' = [pipe EXCEPT !.msgc = Append(@, m)] /\ UNCHANGED snapReports
                   ELSE ReportSnapshot(m) /\ UNCHANGED pipe
                /\ UNCHANGED writer
           ELSE /\ writer' = IF Len(writer[s].chans[g]) < StreamBuf
                             THEN [writer EXCEPT ![s].chans[g] = Append(@, m)] ELSE writer
                /\ UNCHANGED <<pipe, snapReports>>
        /\ UNCHANGED <<sent, conn>>

(***************************************************************************)
(* streamWriter                                                            *)
(***************************************************************************)
Closed(c) == IF conn[c] = "closed" THEN "panic" ELSE "closed"

\* Mutant: the writer does not forget the connection that it has closed.
CloseKeeps(s) == [writer[s] EXCEPT !.chans = Append(@, <<>>)]

\* closeUnlocked: the connection is closed and its messages are given up with their
\* channel.
closeUnlocked(s) ==
    IF writer[s].working THEN [writer[s] EXCEPT !.chans = Append(@, <<>>), !.working = FALSE] ELSE writer[s]

\* What closeUnlocked does to the connection.
ConnsClosed(s) == IF writer[s].working THEN [conn EXCEPT ![writer[s].conn] = Closed(writer[s].conn)] ELSE conn

\* A message is written.
Write(s) ==
    /\ writer[s].reads /\ writer[s].chans[Current(s)] # <<>>
    /\ writer' = [writer EXCEPT ![s].chans[Current(s)] = Tail(@)]
    /\ UNCHANGED <<loop, sent, conn, pipe, snapReports>>

\* Writing a message, or the heartbeat of the link, fails.
WriteFails(s) ==
    /\ writer[s].reads
    /\ writer' = [writer EXCEPT ![s] = [closeUnlocked(s) EXCEPT !.reads = FALSE]]
    /\ conn' = ConnsClosed(s)
    /\ UNCHANGED <<loop, sent, pipe, snapReports>>

\* The peer has dialled; the handler offers the connection with attach.
Dialled(c, s) ==
    /\ conn[c] = "new"
    /\ conn' = [conn EXCEPT ![c] = s]
    /\ UNCHANGED <<loop, sent, writer, pipe, snapReports>>

\* The writer takes a connection in place of the one it has.
Attach(c, s) ==
    /\ conn[c] = s /\ ~writer[s].done
    /\ conn' = [ConnsClosed(s) EXCEPT ![c] = "attached"]
    /\ writer' = [writer EXCEPT ![s] = [closeUnlocked(s) EXCEPT !.working = TRUE, !.conn = c, !.reads = TRUE]]
    /\ UNCHANGED <<loop, sent, pipe, snapReports>>

\* attach returns false: attachOutgoingConn closes the connection.
NotAttached(c, s) ==
    /\ conn[c] = s /\ writer[s].done
    /\ conn' = [conn EXCEPT ![c] = Closed(c)]
    /\ UNCHANGED <<loop, sent, writer, pipe, snapReports>>

WriterStops(s) ==
    /\ writer[s].stopc /\ ~writer[s].done
    /\ writer' = [writer EXCEPT ![s] = [closeUnlocked(s) EXCEPT !.reads = FALSE, !.done = TRUE]]
    /\ conn' = ConnsClosed(s)
    /\ UNCHANGED <<loop, sent, pipe, snapReports>>

(***************************************************************************)
(* pipeline                                                                *)
(***************************************************************************)
Take(h) ==
    /\ pipe.handler[h] = Null /\ h \notin pipe.returned /\ pipe.msgc # <<>>
    /\ pipe' = [pipe EXCEPT !.handler[h] = Head(pipe.msgc), !.msgc = Tail(@)]
    /\ UNCHANGED <<loop, sent, writer, conn, snapReports>>

Posting(h) == pipe.handler[h] # Null

\* post fails, for the network or because stopc is closed.
PostFails(h) ==
    /\ Posting(h)
    /\ ReportSnapshot(pipe.handler[h])
    /\ pipe' = [pipe EXCEPT !.handler[h] = Null]
    /\ UNCHANGED <<loop, sent, writer, conn>>

\* The peer has answered, which for a snapshot is reported too.
PostSucceeds(h) ==
    /\ Posting(h)
    /\ ReportSnapshot(pipe.handler[h])
    /\ pipe' = [pipe EXCEPT !.handler[h] = Null]
    /\ UNCHANGED <<loop, sent, writer, conn>>

HandlerReturns(h) ==
    /\ pipe.handler[h] = Null /\ pipe.stopc /\ h \notin pipe.returned
    /\ pipe' = [pipe EXCEPT !.returned = @ \cup {h}]
    /\ UNCHANGED <<loop, sent, writer, conn, snapReports>>

(***************************************************************************)
(* stop, by the event loop: one part after the other                       *)
(***************************************************************************)
StopWriter(s, from, to) ==
    /\ loop.at = from
    /\ writer' = [writer EXCEPT ![s].stopc = TRUE]
    /\ loop' = [loop EXCEPT !.at = to]
    /\ UNCHANGED <<sent, conn, pipe, snapReports>>

StopPipeline ==
    /\ loop.at = "wait message" /\ writer["message"].done
    /\ pipe' = [pipe EXCEPT !.stopc = TRUE]
    /\ loop' = [loop EXCEPT !.at = "wait pipeline"]
    /\ UNCHANGED <<sent, writer, conn, snapReports>>

Stopped ==
    /\ loop.at = "wait pipeline" /\ pipe.returned = Handler
    /\ loop' = [loop EXCEPT !.at = "stopped"]
    /\ UNCHANGED <<sent, writer, conn, pipe, snapReports>>

stop ==
    \/ StopWriter("msgAppV2", "idle", "wait msgAppV2")
    \/ writer["msgAppV2"].done /\ StopWriter("message", "wait msgAppV2", "wait message")
    \/ StopPipeline \/ Stopped

Init ==
    /\ loop = [at |-> "idle", m |-> Null, to |-> Null]
    /\ sent = <<>>
    /\ writer = [s \in Stream |-> [chans |-> << <<>> >>, working |-> FALSE, conn |-> Null, reads |-> FALSE,
                                   stopc |-> FALSE, done |-> FALSE]]
    /\ conn = [c \in Conn |-> "new"]
    /\ pipe = [msgc |-> <<>>, handler |-> [h \in Handler |-> Null], returned |-> {}, stopc |-> FALSE]
    /\ snapReports = [i \in 1..MaxSent |-> 0]

\* What the goroutines do by themselves; whether a post ends is up to the peer, unless
\* stopc cancels it.
Runs(h) == HandlerReturns(h) \/ (pipe.stopc /\ PostFails(h))
Goes == Pick \/ PickMessage \/ Put \/ (loop.at # "idle" /\ stop)

Next ==
    \/ Send \/ Goes \/ stop
    \/ \E s \in Stream : Write(s) \/ WriteFails(s) \/ WriterStops(s)
    \/ \E c \in Conn, s \in Stream : Dialled(c, s) \/ Attach(c, s) \/ NotAttached(c, s)
    \/ \E h \in Handler : Take(h) \/ PostSucceeds(h) \/ PostFails(h) \/ HandlerReturns(h)

Fairness ==
    /\ WF_vars(Goes)
    /\ \A s \in Stream : WF_vars(WriterStops(s))
    /\ \A h \in Handler : WF_vars(Runs(h))

Spec == Init /\ [][Next]_vars /\ Fairness

(***************************************************************************)
(* Properties                                                              *)
(***************************************************************************)
\* Whatever happens to a snapshot, raft hears of it once: until then it is on its way.
\* Otherwise the leader would wait for it for ever.  Only the stop of the peer, which is
\* removed then, may leave one behind.
Waits(m) ==
    \/ loop.m = m
    \/ \E k \in DOMAIN pipe.msgc : pipe.msgc[k] = m
    \/ \E h \in Handler : pipe.handler[h] = m

SnapshotReported ==
    \A k \in DOMAIN sent : sent[k].kind = "snap" => snapReports[k] = IF Waits(sent[k]) THEN 0 ELSE 1

\* A connection is closed once (closing it again would panic): when another takes its
\* place, when it fails, or when the peer stops, and no handler waits for one that the
\* writer has dropped.
ConnsClosedOnce ==
    /\ \A c \in Conn : conn[c] # "panic"
    /\ \A c \in Conn : conn[c] = "attached" => \E s \in Stream : writer[s].working /\ writer[s].conn = c

\* stop returns, though the peer may never answer a post.
StopReturns == (loop.at = "wait msgAppV2") ~> (loop.at = "stopped")

\* The transport forgets no snapshot that raft waits for and no connection.
NothingForgotten == SnapshotReported /\ ConnsClosedOnce
=============================================================================
