------------------------------- MODULE MCEtcd --------------------------------
(***************************************************************************)
(* The parts of etcd that the server links, with instances small enough    *)
(* for TLC: a cluster of raft nodes, the log of one node, its              *)
(* configurations, the window of messages in flight, the goroutine of a    *)
(* node, its transport, and the WAL.  A behaviour is one of one of them.   *)
(* A cluster starts in a few situations that take long to reach, each with *)
(* what may happen from there.                                             *)
(***************************************************************************)
EXTENDS Raft

VARIABLES part,
          st, un, committed, applied, term, match, lrd, app, ideal, panic,    \* RaftLog
          trk,                                                                \* ConfChange
          start, count, buffer, last,                                         \* Inflights
          raft, run, ticks, napp, call,                                       \* NodeLoop
          loop, sent, writer, conn, pipe, snapReports,                        \* PeerSender
          files, synced, enti, state, locks, snaps, mem, job, image, loaded, left   \* WAL

\* Three leaders, of which the last commits what the others had not.
Log == INSTANCE RaftLog WITH
    rd <- lrd, LeaderLog <- << <<1, 1, 1>>, <<1, 2, 2>>, <<1, 1, 3, 3>> >>, Commits <- <<1, 1, 4>>,
    MaxBatch <- 2, SnapCount <- 2, CatchUp <- 2

Conf == INSTANCE ConfChange WITH Id <- 1..4, InitialVoters <- 1..3, MaxChanges <- 2

Window == INSTANCE Inflights WITH Size <- 4, MaxAdds <- 7

\* One goroutine that calls, two messages, one entry, two changes of the leader.
RaftNode == INSTANCE NodeLoop WITH
    app <- napp, Caller <- {"caller"}, MaxMade <- 2, MaxLast <- 1, MaxTurns <- 2, TickBuffer <- 1

\* Two messages, and two connections that the peer dials.
Sender == INSTANCE PeerSender WITH
    Conn <- {"c1", "c2"}, Handler <- {"handler"}, StreamBuf <- 1, PipeBuf <- 1, MaxSent <- 2

\* Three records fill a segment.
Files == INSTANCE WAL WITH
    Chosen <- <<1, 2>>, MaxIdx <- 3, MaxTerm <- 2, SegmentSize <- 3, MaxSaves <- 3, MaxCrash <- 1

logVars == <<st, un, committed, applied, term, match, lrd, app, ideal, panic>>
windowVars == <<start, count, buffer, last>>
nodeVars == <<raft, run, ticks, napp, call>>
senderVars == <<loop, sent, writer, conn, pipe, snapReports>>
walVars == <<files, synced, enti, state, locks, snaps, mem, job, image, loaded, left>>

(***************************************************************************)
(* The situations a cluster starts in                                      *)
(***************************************************************************)
Budget == [maxEnts |-> 2, snapCount |-> 9, preVote |-> FALSE, checkQuorum |-> FALSE, elections |-> 0, beats |-> 0,
           proposals |-> 0, changes |-> 0, ccs |-> {}, reads |-> 0, asked |-> <<>>, transfers |-> 0, reports |-> 0,
           crashes |-> 0]

Orders == {p \in [1..3 -> Node] : IsInjective(p)}

Log0(es) == <<BootEntry(Node)>> \o es
On(t, vote, c, ents) ==
    [Term |-> t, Vote |-> vote, committed |-> c, synced |-> c, ents |-> ents, snap |-> [index |-> 0, conf |-> ConfState(Empty)]]
Snapped(d, i) == [d EXCEPT !.snap = [index |-> i, conf |-> [ConfState(Empty) EXCEPT !.Voters = Node]]]
Disks(p, ds) == [n \in Node |-> ds[CHOOSE k \in 1..3 : p[k] = n]]

Three(leader, disks, committedLog, b) ==
    [voters |-> Node, leader |-> leader, disk |-> disks, chosen |-> committedLog, budget |-> b]

\* The first of vs has just been elected, in a cluster that has only started.
Led(p, vs, b) ==
    LET boot == <<BootEntry(vs)>>
    IN  [voters |-> vs, leader |-> p[1], chosen |-> boot, budget |-> b,
         disk |-> [n \in Node |-> IF n \in vs THEN On(2, p[1], 1, boot) ELSE On(0, Null, 0, <<>>)]]

\* A new cluster, two elections and a crash at any moment.
Elections == {Three(Null, [n \in Node |-> On(1, Null, 1, Log0(<<>>))], Log0(<<>>),
                    [Budget EXCEPT !.elections = 2, !.crashes = 1])}

\* Two leaders have each left an entry that is not committed on a node of its own.
TwoTails ==
    {Three(Null, Disks(p, <<On(3, Null, 1, Log0(<<Normal(2)>>)), On(3, p[3], 1, Log0(<<>>)),
                            On(3, p[3], 1, Log0(<<Normal(3)>>))>>),
           Log0(<<>>), [Budget EXCEPT !.elections = 2, !.maxEnts = 1]) : p \in Orders}

\* A node is added, removed, or replaced by way of a joint configuration.
ConfChanges ==
    LET One(type, n) == [type |-> type, id |-> n]
        Auto(s) == [changes |-> s, transition |-> "auto"]
        b == [Budget EXCEPT !.elections = 1, !.changes = 1]
    IN  {Led(p, {p[1], p[2]}, [b EXCEPT !.snapCount = 2, !.ccs = {Auto(<<One("add", p[3])>>), Auto(<<One("remove", p[1])>>),
                                                                  Auto(<<One("remove", p[2])>>)}]) : p \in Orders}
        \cup {Led(p, {p[1], p[2]}, [b EXCEPT !.ccs = {Auto(<<One("add", p[3]), One("remove", p[2])>>)}]) : p \in Orders}

\* Two nodes with pre-vote and the leader's check of its quorum.
Leases == {Led(p, {p[1], p[2]}, [Budget EXCEPT !.elections = 1, !.beats = 1, !.checkQuorum = TRUE, !.preVote = TRUE]) : p \in Orders}

\* The leader has compacted what the last node lacks; the transport reports on it.
Lagging ==
    {LET log == Log0(<<Normal(1), Normal(1), Normal(1)>>)
         full == Snapped(On(2, p[1], 4, log), 3)
     IN  Three(p[1], Disks(p, <<full, full, On(2, p[1], 1, Log0(<<>>))>>), log, [Budget EXCEPT !.beats = 1, !.reports = 1])
       : p \in Orders}

\* The last node has a longer log, of an old leader, than the one that is committed.
LongTail ==
    {LET log == Log0(<<Normal(3), Normal(4)>>)
         full == Snapped(On(5, p[1], 3, log), 2)
     IN  Three(p[1], Disks(p, <<full, full, On(5, p[1], 1, Log0(<<Normal(2), Normal(2), Normal(2)>>))>>), log, b)
       : p \in Orders, b \in {[Budget EXCEPT !.elections = 1], [Budget EXCEPT !.crashes = 1]}}

\* A new leader that does not know yet what the old one has committed.
Reads ==
    {Three(p[1], Disks(p, <<On(3, p[1], 1, Log0(<<Normal(2)>>)), On(3, p[1], 1, Log0(<<Normal(2)>>)),
                            On(2, p[3], 2, Log0(<<Normal(2)>>))>>),
           Log0(<<Normal(2)>>), [Budget EXCEPT !.reads = 1]) : p \in Orders}

Transfers == {Led(p, Node, [Budget EXCEPT !.transfers = 1]) : p \in Orders}
Proposals == {Led(p, {p[1], p[2]}, [Budget EXCEPT !.transfers = 1, !.proposals = 1]) : p \in Orders}

Situations == Elections \cup TwoTails \cup ConfChanges \cup Leases \cup Lagging \cup LongTail \cup Reads \cup Transfers \cup Proposals

(***************************************************************************)
(* Fewer interleavings of a cluster: a node handles its Ready before       *)
(* another step is taken, and a message that the receiver will ignore is   *)
(* dropped at once.                                                        *)
(***************************************************************************)
Urgent(n) ==
    /\ Up(n)
    /\ \/ rd[n] = Null /\ HasReady(n)
       \/ rd[n] # Null /\ rd[n].todo = <<>> /\ (node[n].lead # n \/ rd[n].index = 0)

\* A term that the receiver has passed, on its disk too, and a vote or an
\* acknowledgement for which nobody waits.
Dead(m) ==
    LET r == node[m.to]
    IN  /\ Up(m.to)
        /\ \/ /\ m.term \in 1..(MinOf(r.Term, disk[m.to].Term) - 1)
              /\ ~budget.checkQuorum /\ m.type # "preVote"
              /\ ~(budget.preVote /\ m.type \in {"heartbeat", "app"})
           \/ /\ m.term = r.Term /\ r.Term = disk[m.to].Term
              /\ \/ m.type = "voteResp" /\ r.state # "candidate"
                 \/ m.type \in {"appResp", "heartbeatResp"} /\ r.state # "leader"

DropDead == \E m \in net : Dead(m) /\ net' = net \ {m} /\ UNCHANGED <<node, disk, rd, budget, chosen>>

RaftNext ==
    LET urgent == {n \in Node : Urgent(n)}
        quiet == urgent = {} /\ \A m \in net : ~Dead(m)
    IN  \/ \E n \in IF quiet THEN Node ELSE urgent : ~node[n].panic /\ HandleReady(n)
        \/ quiet /\ \E n \in Node : ~node[n].panic /\ Happen(n)
        \/ urgent = {} /\ DropDead

\* What a node knows of the others matters while it leads.
Known(r) == IF r.state = "leader" THEN r ELSE [r EXCEPT !.trk.progress = [id \in DOMAIN @ |-> @[id].IsLearner]]
Evaluated == node = [n \in Node |-> [node[n] EXCEPT !.trk = @]]
View == <<part, IF part = "raft" THEN <<Evaluated, [n \in Node |-> Known(node[n])], disk, rd, net, budget, chosen>> ELSE <<>>,
          logVars, trk, windowVars, nodeVars, senderVars, walVars>>
Symmetry == Permutations(Node)

(***************************************************************************)
(* The parts.  The variables of those that do not move are Null.           *)
(***************************************************************************)
EtcdInit ==
    /\ part \in {"raft", "log", "conf", "window", "node", "sender", "wal"}
    /\ IF part = "raft" THEN Init
       ELSE /\ node = Null /\ disk = Null /\ rd = Null /\ net = Null /\ budget = Null /\ chosen = Null
    /\ IF part = "log" THEN Log!Init
       ELSE /\ st = Null /\ un = Null /\ committed = Null /\ applied = Null /\ term = Null /\ match = Null
            /\ lrd = Null /\ app = Null /\ ideal = Null /\ panic = Null
    /\ IF part = "conf" THEN Conf!Init ELSE trk = Null
    /\ IF part = "window" THEN Window!Init ELSE start = Null /\ count = Null /\ buffer = Null /\ last = Null
    /\ IF part = "node" THEN RaftNode!Init ELSE raft = Null /\ run = Null /\ ticks = Null /\ napp = Null /\ call = Null
    /\ IF part = "sender" THEN Sender!Init
       ELSE loop = Null /\ sent = Null /\ writer = Null /\ conn = Null /\ pipe = Null /\ snapReports = Null
    /\ IF part = "wal" THEN Files!Init
       ELSE /\ files = Null /\ synced = Null /\ enti = Null /\ state = Null /\ locks = Null /\ snaps = Null
            /\ mem = Null /\ job = Null /\ image = Null /\ loaded = Null /\ left = Null

EtcdNext ==
    /\ UNCHANGED part
    /\ \/ part = "raft" /\ RaftNext /\ UNCHANGED <<logVars, trk, windowVars, nodeVars, senderVars, walVars>>
       \/ part = "log" /\ Log!Next /\ UNCHANGED <<vars, trk, windowVars, nodeVars, senderVars, walVars>>
       \/ part = "conf" /\ Conf!ApplyConfChange /\ UNCHANGED <<vars, logVars, windowVars, nodeVars, senderVars, walVars>>
       \/ part = "window" /\ Window!Next /\ UNCHANGED <<vars, logVars, trk, nodeVars, senderVars, walVars>>
       \/ part = "node" /\ RaftNode!Next /\ UNCHANGED <<vars, logVars, trk, windowVars, senderVars, walVars>>
       \/ part = "sender" /\ Sender!Next /\ UNCHANGED <<vars, logVars, trk, windowVars, nodeVars, walVars>>
       \/ part = "wal" /\ Files!Next /\ UNCHANGED <<vars, logVars, trk, windowVars, nodeVars, senderVars>>

EtcdSpec == EtcdInit /\ [][EtcdNext]_<<part, vars, logVars, trk, windowVars, nodeVars, senderVars, walVars>>

(***************************************************************************)
(* The properties of the parts                                             *)
(***************************************************************************)
\* No two nodes lead in one term, through crashes and changes of the configuration.
OneLeaderPerTerm == part = "raft" => ElectionSafety

\* What a node has committed no node ever changes, and a leader has all that was
\* committed before it was elected.
CommittedForever == part = "raft" => CommittedAgree /\ LeaderCompleteness

\* No message, restart or configuration change makes raft panic.
RaftNeverPanics == part = "raft" => NodesNeverPanic

\* A read index is not behind what was committed when it was asked for.
ReadsSeeCommitted == part = "raft" => ReadsAreCurrent

\* Unstable entries, storage and snapshots are one log, of which the application
\* executes what is committed, whatever arrives while a Ready is worked on.
LogIntact == part = "log" => Log!LogIntact

\* Quorums of a configuration and of the next one meet.
QuorumsOverlap == [][part = "conf" => Conf!Overlap]_trk

\* Every configuration reached can be restored from its ConfState and changed, and its
\* committed index is the highest that a quorum has acknowledged.
ConfigurationsSound == part = "conf" => Conf!ConfigurationsSound

\* The ring of messages in flight is a queue.
RingIsWindow == [][part = "window" => Window!RingStep]_windowVars

\* raft forgets what the application has saved, and its messages are sent each once.
ReadyHandled == part = "node" => RaftNode!ReadyHandled

\* raft hears once of every snapshot that it gave to the transport, and no connection
\* of a stream is closed twice or forgotten.
NothingForgotten == part = "sender" => Sender!NothingForgotten

\* A restart finds what the last whole record says, nothing that was told to others is
\* missing, and no file that it needs is unlocked.
Durable == part = "wal" => Files!Durable
=============================================================================
