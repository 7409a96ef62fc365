----------------------------- MODULE EtcdProofs ------------------------------
(***************************************************************************)
(* Theorems about the parts of etcd that a node of the cluster runs on,    *)
(* for every value of their constants: the goroutine of the node, the      *)
(* transport to a peer and the window of messages in flight.               *)
(***************************************************************************)
EXTENDS Integers, Sequences, FiniteSets, WellFoundedInduction, TLAPS

CONSTANTS Caller, MaxMade, MaxLast, MaxTurns, TickBuffer, Null,   \* NodeLoop
          Conn, Handler, StreamBuf, PipeBuf, MaxSent,             \* PeerSender
          Size, MaxAdds                                           \* Inflights

VARIABLES raft, run, ticks, app, call,                            \* NodeLoop
          loop, sent, writer, conn, pipe, snapReports,            \* PeerSender
          start, count, buffer, last                              \* Inflights

(***************************************************************************)
(* The transport to a peer                                                 *)
(***************************************************************************)
Sender == INSTANCE PeerSender

Message == [id : Nat, kind : {"app", "other", "snap"}]

LoopAt == {"idle", "pick", "pick2", "put", "wait msgAppV2", "wait message", "wait pipeline", "stopped"}

\* The message that the event loop holds while it is in send: the last one.
LoopHolds ==
    /\ loop = [at |-> loop.at, m |-> loop.m, to |-> loop.to] /\ loop.at \in LoopAt
    /\ loop.at \in {"pick", "pick2", "put"} => Len(sent) > 0 /\ loop.m = sent[Len(sent)]
    /\ loop.at \notin {"pick", "pick2", "put"} => loop.m = Null
    /\ loop.at = "pick2" => loop.m.kind # "snap"
    /\ loop.at = "put" /\ loop.m.kind = "snap" => loop.to = <<"pipeline">>

SentType ==
    /\ sent \in Seq(Message) /\ Len(sent) <= MaxSent
    /\ \A k \in 1..Len(sent) : sent[k].id = k

PipeType ==
    /\ pipe = [msgc |-> pipe.msgc, handler |-> pipe.handler, returned |-> pipe.returned, stopc |-> pipe.stopc]
    /\ pipe.msgc \in Seq(Message)
    /\ pipe.handler \in [Handler -> Message \cup {Null}]
    /\ snapReports \in [1..MaxSent -> Nat]

\* A message is in one place.
OnePlace ==
    /\ \A i, j \in 1..Len(pipe.msgc) : pipe.msgc[i] = pipe.msgc[j] => i = j
    /\ \A i \in 1..Len(pipe.msgc) : pipe.msgc[i].id \in 1..Len(sent) /\ pipe.msgc[i] = sent[pipe.msgc[i].id] /\ pipe.msgc[i] # loop.m
    /\ \A g \in Handler : pipe.handler[g] # Null =>
          /\ pipe.handler[g].id \in 1..Len(sent) /\ pipe.handler[g] = sent[pipe.handler[g].id] /\ pipe.handler[g] # loop.m
          /\ \A i \in 1..Len(pipe.msgc) : pipe.msgc[i] # pipe.handler[g]
          /\ \A h \in Handler : pipe.handler[h] = pipe.handler[g] => h = g

Unsent == \A k \in 1..MaxSent : k > Len(sent) => snapReports[k] = 0

IsWriter(w) ==
    w \in [chans : {w.chans}, working : BOOLEAN, conn : {w.conn}, reads : {w.reads}, stopc : {w.stopc}, done : {w.done}]

WriterType == writer = [s \in Sender!Stream |-> writer[s]] /\ \A s \in Sender!Stream : IsWriter(writer[s])

\* A connection is attached while it is the one of a writer that works.
Attached ==
    /\ conn \in [Conn -> {"new", "attached", "closed"} \cup Sender!Stream]
    /\ \A s \in Sender!Stream : writer[s].working => writer[s].conn \in Conn /\ conn[writer[s].conn] = "attached"
    /\ \A s, t \in Sender!Stream : writer[s].working /\ writer[t].working /\ writer[s].conn = writer[t].conn => s = t
    /\ \A c \in Conn : conn[c] = "attached" => \E s \in Sender!Stream : writer[s].working /\ writer[s].conn = c

SnapInv == SentType /\ LoopHolds /\ PipeType /\ OnePlace /\ Unsent /\ Sender!SnapshotReported
ConnInv == WriterType /\ Attached

\* What Null stands for is no message.
NullIsNoMessage == Null \notin Message

\* peer.send puts the message of a call where the writer or the pipeline will find it, or reports it.
LEMMA SendSnap ==
  ASSUME NullIsNoMessage, MaxSent \in Nat, SnapInv, Sender!Send
  PROVE  SnapInv'
<1>1. PICK k \in {"app", "other", "snap"} :
           /\ sent' = Append(sent, [id |-> Len(sent) + 1, kind |-> k])
           /\ loop' = [loop EXCEPT !.at = "pick", !.m = [id |-> Len(sent) + 1, kind |-> k]]
  BY Zenon DEF Sender!Send, Sender!Kinds
<1> DEFINE m == [id |-> Len(sent) + 1, kind |-> k]
<1>2. loop.at = "idle" /\ loop.m = Null /\ Len(sent) < MaxSent /\ UNCHANGED <<pipe, snapReports>>
  BY DEF Sender!Send, SnapInv, LoopHolds
<1>3. /\ m \in Message /\ m.id = Len(sent) + 1 /\ sent' \in Seq(Message) /\ Len(sent') = Len(sent) + 1
      /\ sent'[Len(sent) + 1] = m /\ \A j \in 1..Len(sent) : sent'[j] = sent[j]
  BY <1>1 DEF SnapInv, SentType, Message
<1>4. loop'.at = "pick" /\ loop'.m = m /\ loop' = [at |-> loop'.at, m |-> loop'.m, to |-> loop'.to]
  BY <1>1, Zenon DEF SnapInv, LoopHolds
<1> HIDE DEF m
<1>5. SentType'
  BY <1>2, <1>3 DEF SnapInv, SentType
<1>6. LoopHolds'
  BY <1>3, <1>4, <1>2 DEF LoopHolds, LoopAt, SnapInv, SentType
<1>7. PipeType'
  BY <1>2 DEF SnapInv, PipeType
<1>8. OnePlace'
  <2>1. \A x : x.id \in 1..Len(sent) /\ x = sent[x.id] => x.id \in 1..Len(sent') /\ x = sent'[x.id] /\ x # m
    BY <1>3 DEF SnapInv, SentType
  <2> QED
    BY <1>2, <1>4, <2>1, Zenon DEF SnapInv, OnePlace
<1>9. Unsent'
  BY <1>2, <1>3 DEF SnapInv, Unsent, SentType
<1>10. Sender!SnapshotReported'
  BY <1>2, <1>3, <1>4, <1>8, SMTT(20) DEF SnapInv, Sender!SnapshotReported, Sender!Waits, SentType, Unsent, OnePlace, NullIsNoMessage
<1> QED
  BY <1>5, <1>6, <1>7, <1>8, <1>9, <1>10 DEF SnapInv

\* peer.pick chooses a channel and leaves every message where it is.
LEMMA PickSnap ==
  ASSUME NullIsNoMessage, MaxSent \in Nat, SnapInv, Sender!Pick \/ Sender!PickMessage
  PROVE  SnapInv'
<1>1. /\ loop' = [at |-> loop'.at, m |-> loop.m, to |-> loop'.to] /\ loop'.m = loop.m /\ loop'.at \in {"put", "pick2"}
      /\ loop'.at = "put" /\ loop.m.kind = "snap" => loop'.to = <<"pipeline">>
      /\ loop'.at = "pick2" => loop.m.kind # "snap"
      /\ loop.at \in {"pick", "pick2"}
  BY Zenon DEF Sender!Pick, Sender!PickMessage, Sender!To, SnapInv, LoopHolds
<1>2. UNCHANGED <<sent, pipe, snapReports>>
  BY DEF Sender!Pick, Sender!PickMessage
<1>3. LoopHolds'
  BY <1>1, <1>2, Zenon DEF SnapInv, LoopHolds, LoopAt
<1>4. OnePlace' /\ Sender!SnapshotReported'
  BY <1>1, <1>2 DEF SnapInv, OnePlace, Sender!SnapshotReported, Sender!Waits
<1> QED
  BY <1>2, <1>3, <1>4 DEF SnapInv, SentType, PipeType, Unsent

\* The put into the channel that pick chose: it gets in, or is dropped and reported.
LEMMA PutSnap ==
  ASSUME NullIsNoMessage, MaxSent \in Nat, SnapInv, Sender!Put
  PROVE  SnapInv'
<1> DEFINE m == loop.m
           n == Len(sent)
<1>1. /\ loop' = [at |-> "idle", m |-> Null, to |-> Null] /\ UNCHANGED sent
      /\ n > 0 /\ n \in 1..MaxSent /\ m = sent[n] /\ m \in Message /\ m.id = n /\ loop.at = "put"
  <2>1. loop' = [at |-> "idle", m |-> Null, to |-> Null] /\ UNCHANGED sent /\ loop.at = "put"
    BY Zenon DEF Sender!Put, SnapInv, LoopHolds
  <2>2. n > 0 /\ m = sent[n]
    BY <2>1 DEF SnapInv, LoopHolds
  <2> QED
    BY <2>1, <2>2 DEF SnapInv, SentType
<1>2. LoopHolds'
  BY <1>1 DEF LoopHolds, LoopAt
<1>3. CASE pipe' = [pipe EXCEPT !.msgc = Append(@, m)] /\ UNCHANGED snapReports
  <2>1. /\ pipe'.msgc = Append(pipe.msgc, m) /\ pipe'.handler = pipe.handler /\ PipeType'
    <3>1. pipe.msgc \in Seq(Message) /\ Append(pipe.msgc, m) \in Seq(Message)
      BY <1>1 DEF SnapInv, PipeType
    <3>2. pipe' = [msgc |-> Append(pipe.msgc, m), handler |-> pipe.handler, returned |-> pipe.returned, stopc |-> pipe.stopc]
      BY <1>3, Zenon DEF SnapInv, PipeType
    <3> QED
      BY <1>3, <3>1, <3>2, Zenon DEF SnapInv, PipeType
  <2>2. /\ Len(pipe'.msgc) = Len(pipe.msgc) + 1 /\ pipe'.msgc[Len(pipe.msgc) + 1] = m
        /\ \A i \in 1..Len(pipe.msgc) : pipe'.msgc[i] = pipe.msgc[i]
        /\ Len(pipe.msgc) \in Nat
    BY <1>1, <2>1 DEF SnapInv, PipeType
  <2>3. OnePlace'
    <3>1. \A i \in 1..Len(pipe'.msgc) : i = Len(pipe.msgc) + 1 \/ i \in 1..Len(pipe.msgc)
      BY <2>2
    <3>2. \A i, j \in 1..Len(pipe'.msgc) : pipe'.msgc[i] = pipe'.msgc[j] => i = j
      <4>1. \A i, j \in 1..Len(pipe.msgc) : pipe.msgc[i] = pipe.msgc[j] => i = j
        BY DEF SnapInv, OnePlace
      <4>2. \A i \in 1..Len(pipe.msgc) : pipe.msgc[i] # m
        BY DEF SnapInv, OnePlace
      <4> HIDE DEF m
      <4>3. ASSUME NEW i \in 1..Len(pipe'.msgc), NEW j \in 1..Len(pipe'.msgc), pipe'.msgc[i] = pipe'.msgc[j], i # j
            PROVE  FALSE
        BY <2>2, <3>1, <4>1, <4>2, <4>3
      <4> QED
        BY <4>3
    <3>3. \A i \in 1..Len(pipe'.msgc) :
             pipe'.msgc[i].id \in 1..Len(sent) /\ pipe'.msgc[i] = sent[pipe'.msgc[i].id] /\ pipe'.msgc[i] # Null
      <4>1. ASSUME NEW i \in 1..Len(pipe.msgc)
            PROVE  pipe.msgc[i].id \in 1..Len(sent) /\ pipe.msgc[i] = sent[pipe.msgc[i].id] /\ pipe.msgc[i] # Null
        BY DEF SnapInv, OnePlace, PipeType, NullIsNoMessage
      <4>2. m.id \in 1..Len(sent) /\ m = sent[m.id] /\ m # Null
        BY <1>1 DEF NullIsNoMessage
      <4> HIDE DEF m
      <4>3. ASSUME NEW i \in 1..Len(pipe'.msgc)
            PROVE  pipe'.msgc[i].id \in 1..Len(sent) /\ pipe'.msgc[i] = sent[pipe'.msgc[i].id] /\ pipe'.msgc[i] # Null
        <5>1. CASE i = Len(pipe.msgc) + 1
          BY <2>2, <4>2, <5>1
        <5>2. CASE i \in 1..Len(pipe.msgc)
          BY <2>2, <4>1, <5>2, ZenonT(30)
        <5> QED
          BY <3>1, <5>1, <5>2
      <4> QED
        BY <4>3
    <3>4. \A g \in Handler : pipe.handler[g] # Null => \A i \in 1..Len(pipe'.msgc) : pipe'.msgc[i] # pipe.handler[g]
      BY <2>2, <3>1, SMTT(20) DEF SnapInv, OnePlace
    <3> QED
      BY <1>1, <2>1, <3>2, <3>3, <3>4, SMTT(20) DEF SnapInv, OnePlace
  <2>4. \A x \in Message : Sender!Waits(x)' <=> Sender!Waits(x)
    <3>1. DOMAIN pipe.msgc = 1..Len(pipe.msgc) /\ DOMAIN pipe'.msgc = 1..Len(pipe'.msgc)
      BY <2>1 DEF SnapInv, PipeType
    <3>2. ASSUME NEW x
          PROVE  (\E i \in DOMAIN pipe'.msgc : pipe'.msgc[i] = x) <=> (x = m \/ \E i \in DOMAIN pipe.msgc : pipe.msgc[i] = x)
      BY <2>2, <3>1, SMTT(20)
    <3> QED
      BY <1>1, <2>1, <3>2, Zenon DEF Sender!Waits, NullIsNoMessage
  <2>5. Sender!SnapshotReported'
    BY <1>1, <1>3, <2>4 DEF SnapInv, Sender!SnapshotReported, SentType
  <2> QED
    BY <1>1, <1>2, <1>3, <2>1, <2>3, <2>5 DEF SnapInv, SentType, Unsent
<1>4. CASE UNCHANGED pipe /\ snapReports' = IF m.kind = "snap" THEN [snapReports EXCEPT ![m.id] = @ + 1] ELSE snapReports
  <2>1. OnePlace'
    BY <1>1, <1>4 DEF SnapInv, OnePlace, NullIsNoMessage, PipeType
  <2>2. PipeType'
    BY <1>1, <1>4 DEF SnapInv, PipeType
  <2>3. \A k \in 1..n : k # n => (Sender!Waits(sent[k])' <=> Sender!Waits(sent[k]))
    BY <1>1, <1>4 DEF Sender!Waits, NullIsNoMessage, SnapInv, SentType
  <2>4. ~Sender!Waits(sent[n])' /\ Sender!Waits(sent[n])
    <3>1. m # Null /\ DOMAIN pipe.msgc = 1..Len(pipe.msgc)
      BY <1>1 DEF NullIsNoMessage, SnapInv, PipeType
    <3>2. \A i \in 1..Len(pipe.msgc) : pipe.msgc[i] # m
      BY DEF SnapInv, OnePlace
    <3>3. \A g \in Handler : pipe.handler[g] # m
      BY <3>1 DEF SnapInv, OnePlace
    <3> QED
      BY <1>1, <1>4, <3>1, <3>2, <3>3 DEF Sender!Waits
  <2>5. Sender!SnapshotReported'
    BY <1>1, <1>4, <2>3, <2>4, SMTT(20) DEF SnapInv, Sender!SnapshotReported, SentType, PipeType
  <2>6. Unsent'
    BY <1>1, <1>4 DEF SnapInv, Unsent, PipeType
  <2> QED
    BY <1>1, <1>2, <2>1, <2>2, <2>5, <2>6 DEF SnapInv, SentType
<1>5. CASE UNCHANGED <<pipe, snapReports>> /\ m.kind # "snap"
  <2>1. OnePlace'
    BY <1>1, <1>5 DEF SnapInv, OnePlace, NullIsNoMessage, PipeType
  <2>2. \A k \in 1..n : k # n => (Sender!Waits(sent[k])' <=> Sender!Waits(sent[k]))
    BY <1>1, <1>5 DEF Sender!Waits, NullIsNoMessage, SnapInv, SentType
  <2>3. Sender!SnapshotReported'
    BY <1>1, <1>5, <2>2 DEF SnapInv, Sender!SnapshotReported, SentType, PipeType
  <2> QED
    BY <1>1, <1>2, <1>5, <2>1, <2>3 DEF SnapInv, SentType, PipeType, Unsent
<1> QED
  BY <1>1, <1>3, <1>4, <1>5, SMTT(20) DEF Sender!Put, Sender!ReportSnapshot, SnapInv, LoopHolds

\* A stream writer takes a message out of its channel and writes it, or closes.
LEMMA TakeSnap ==
  ASSUME NullIsNoMessage, MaxSent \in Nat, SnapInv, NEW h \in Handler, Sender!Take(h)
  PROVE  SnapInv'
<1> DEFINE m == Head(pipe.msgc)
<1>1. /\ pipe.handler[h] = Null /\ pipe.msgc # <<>> /\ UNCHANGED <<loop, sent, snapReports>>
      /\ pipe.msgc \in Seq(Message) /\ m \in Message /\ Len(pipe.msgc) > 0 /\ m = pipe.msgc[1]
  BY DEF Sender!Take, SnapInv, PipeType
<1>2. pipe' = [msgc |-> Tail(pipe.msgc), handler |-> [pipe.handler EXCEPT ![h] = m],
               returned |-> pipe.returned, stopc |-> pipe.stopc]
  BY Zenon DEF Sender!Take, SnapInv, PipeType
<1>3. /\ pipe'.msgc = Tail(pipe.msgc) /\ pipe'.msgc \in Seq(Message) /\ Len(pipe'.msgc) = Len(pipe.msgc) - 1
      /\ \A i \in 1..Len(pipe'.msgc) : pipe'.msgc[i] = pipe.msgc[i + 1]
      /\ Len(pipe.msgc) \in Nat /\ DOMAIN pipe'.msgc = 1..Len(pipe'.msgc) /\ DOMAIN pipe.msgc = 1..Len(pipe.msgc)
  BY <1>1, <1>2
<1>4. /\ pipe'.handler = [pipe.handler EXCEPT ![h] = m] /\ pipe'.handler \in [Handler -> Message \cup {Null}]
      /\ pipe'.handler[h] = m /\ \A g \in Handler : g # h => pipe'.handler[g] = pipe.handler[g]
  BY <1>1, <1>2 DEF SnapInv, PipeType
<1>5. PipeType'
  BY <1>1, <1>2, <1>3, <1>4 DEF SnapInv, PipeType
<1>6. \A i \in 1..Len(pipe'.msgc) : i + 1 \in 1..Len(pipe.msgc) /\ pipe'.msgc[i] # m
  BY <1>1, <1>3 DEF SnapInv, OnePlace
<1>7. m.id \in 1..Len(sent) /\ m = sent[m.id] /\ m # loop.m /\ m # Null
  BY <1>1 DEF SnapInv, OnePlace, NullIsNoMessage
<1>8. \A g \in Handler : pipe.handler[g] # m
  BY <1>1, <1>7 DEF SnapInv, OnePlace
<1> HIDE DEF m
<1>9. OnePlace'
  <2>1. \A i, j \in 1..Len(pipe'.msgc) : pipe'.msgc[i] = pipe'.msgc[j] => i = j
    BY <1>3, <1>6 DEF SnapInv, OnePlace
  <2>2. \A i \in 1..Len(pipe'.msgc) :
            pipe'.msgc[i].id \in 1..Len(sent) /\ pipe'.msgc[i] = sent[pipe'.msgc[i].id] /\ pipe'.msgc[i] # loop.m
    BY <1>3, <1>6 DEF SnapInv, OnePlace
  <2>3. ASSUME NEW g \in Handler, pipe'.handler[g] # Null
        PROVE  /\ pipe'.handler[g].id \in 1..Len(sent) /\ pipe'.handler[g] = sent[pipe'.handler[g].id] /\ pipe'.handler[g] # loop.m
               /\ \A i \in 1..Len(pipe'.msgc) : pipe'.msgc[i] # pipe'.handler[g]
               /\ \A k \in Handler : pipe'.handler[k] = pipe'.handler[g] => k = g
    <3>1. CASE g = h
      BY <3>1, <1>4, <1>6, <1>7, <1>8
    <3>2. CASE g # h
      <4>1. pipe.handler[g] # Null /\ pipe'.handler[g] = pipe.handler[g]
        BY <1>4, <2>3, <3>2
      <4> QED
        BY <3>2, <4>1, <1>3, <1>4, <1>6, <1>8 DEF SnapInv, OnePlace
    <3> QED
      BY <3>1, <3>2
  <2> QED
    BY <1>1, <2>1, <2>2, <2>3 DEF OnePlace
<1>10. \A x \in Message : Sender!Waits(x)' <=> Sender!Waits(x)
  <2>1. ASSUME NEW x PROVE (\E i \in DOMAIN pipe.msgc : pipe.msgc[i] = x) <=> (x = m \/ \E i \in DOMAIN pipe'.msgc : pipe'.msgc[i] = x)
    <3>1. ASSUME NEW i \in 1..Len(pipe.msgc), i # 1 PROVE i - 1 \in 1..Len(pipe'.msgc) /\ pipe'.msgc[i - 1] = pipe.msgc[i]
      BY <3>1, <1>3
    <3>2. ASSUME NEW i \in DOMAIN pipe.msgc, pipe.msgc[i] = x PROVE x = m \/ \E j \in DOMAIN pipe'.msgc : pipe'.msgc[j] = x
      BY <1>1, <1>3, <3>1, <3>2, Zenon
    <3>3. ASSUME NEW i \in DOMAIN pipe'.msgc PROVE i + 1 \in DOMAIN pipe.msgc /\ pipe'.msgc[i] = pipe.msgc[i + 1]
      BY <1>3, <3>3
    <3>4. 1 \in DOMAIN pipe.msgc /\ pipe.msgc[1] = m
      BY <1>1, <1>3
    <3> QED
      BY <3>2, <3>3, <3>4
  <2>2. ASSUME NEW x \in Message PROVE (\E g \in Handler : pipe'.handler[g] = x) <=> (x = m \/ \E g \in Handler : pipe.handler[g] = x)
    BY <1>1, <1>4 DEF NullIsNoMessage
  <2> QED
    BY <1>1, <2>1, <2>2, Zenon DEF Sender!Waits
<1>11. Sender!SnapshotReported'
  BY <1>1, <1>10 DEF SnapInv, Sender!SnapshotReported, SentType
<1> QED
  BY <1>1, <1>5, <1>9, <1>11 DEF SnapInv, SentType, LoopHolds, Unsent

\* A handler of the pipeline posts a snapshot and reports how it ended.
LEMMA PostSnap ==
  ASSUME NullIsNoMessage, MaxSent \in Nat, SnapInv, NEW h \in Handler, Sender!PostSucceeds(h) \/ Sender!PostFails(h)
  PROVE  SnapInv'
<1>0. PICK m : m = pipe.handler[h]
  OBVIOUS
<1>1. /\ UNCHANGED <<loop, sent>> /\ m # Null /\ m \in Message
      /\ m.id \in 1..Len(sent) /\ m = sent[m.id] /\ m # loop.m
      /\ \A i \in 1..Len(pipe.msgc) : pipe.msgc[i] # m
      /\ \A g \in Handler : g # h => pipe.handler[g] # m
  BY <1>0 DEF Sender!PostSucceeds, Sender!PostFails, Sender!Posting, SnapInv, OnePlace, PipeType
<1>2. snapReports' = IF m.kind = "snap" THEN [snapReports EXCEPT ![m.id] = @ + 1] ELSE snapReports
  BY <1>0 DEF Sender!PostSucceeds, Sender!PostFails, Sender!ReportSnapshot
<1>3. pipe' = [msgc |-> pipe.msgc, handler |-> [pipe.handler EXCEPT ![h] = Null], returned |-> pipe.returned, stopc |-> pipe.stopc]
  BY DEF Sender!PostSucceeds, Sender!PostFails, SnapInv, PipeType
<1>4. /\ pipe'.msgc = pipe.msgc /\ pipe'.handler \in [Handler -> Message \cup {Null}]
      /\ pipe'.handler[h] = Null /\ \A g \in Handler : g # h => pipe'.handler[g] = pipe.handler[g]
  BY <1>3 DEF SnapInv, PipeType
<1>5. snapReports' \in [1..MaxSent -> Nat] /\ (m.kind = "snap" => snapReports'[m.id] = snapReports[m.id] + 1)
      /\ \A k \in 1..MaxSent : k # m.id \/ m.kind # "snap" => snapReports'[k] = snapReports[k]
  BY <1>1, <1>2 DEF SnapInv, PipeType, SentType
<1>6. PipeType'
  BY <1>3, <1>4, <1>5 DEF SnapInv, PipeType
<1>7. OnePlace'
  BY <1>1, <1>4 DEF SnapInv, OnePlace
<1>8. Unsent'
  BY <1>1, <1>5 DEF SnapInv, Unsent, SentType
<1>9. ASSUME NEW k \in 1..Len(sent), k # m.id PROVE Sender!Waits(sent[k])' <=> Sender!Waits(sent[k])
  <2>1. sent[k] # m /\ sent[k] # Null
    BY <1>1, <1>9 DEF SnapInv, SentType, NullIsNoMessage
  <2> QED
    BY <1>0, <1>1, <1>4, <2>1 DEF Sender!Waits
<1>10. Sender!Waits(m) /\ ~Sender!Waits(m)'
  <2>1. \A g \in Handler : pipe'.handler[g] # m
    BY <1>1, <1>4
  <2>2. \A i \in DOMAIN pipe.msgc : pipe.msgc[i] # m
    BY <1>1 DEF SnapInv, PipeType
  <2> QED
    BY <1>0, <1>1, <1>4, <2>1, <2>2 DEF Sender!Waits
<1>11. Sender!SnapshotReported'
  <2>1. ASSUME NEW k \in DOMAIN sent', sent'[k].kind = "snap"
        PROVE  snapReports'[k] = IF Sender!Waits(sent[k])' THEN 0 ELSE 1
    <3>1. k \in 1..Len(sent) /\ k \in 1..MaxSent /\ snapReports[k] = IF Sender!Waits(sent[k]) THEN 0 ELSE 1
      BY <1>1, <2>1 DEF SnapInv, SentType, Sender!SnapshotReported
    <3>2. CASE k = m.id
      <4>1. sent[k] = m /\ sent'[k] = m
        BY <1>1, <3>2
      <4>2. snapReports'[k] = 1
        BY <1>5, <1>10, <2>1, <3>1, <3>2, <4>1
      <4> QED
        BY <1>10, <4>1, <4>2
    <3>3. CASE k # m.id
      BY <1>5, <1>9, <3>1, <3>3
    <3> QED
      BY <3>2, <3>3
  <2> QED
    BY <1>1, <2>1 DEF Sender!SnapshotReported
<1> QED
  BY <1>1, <1>6, <1>7, <1>8, <1>11 DEF SnapInv, SentType, LoopHolds

\* The other steps move no snapshot.
LEMMA OtherSnap ==
  ASSUME SnapInv,
         \/ Sender!stop
         \/ \E h \in Handler : Sender!HandlerReturns(h)
  PROVE  SnapInv'
<1>1. /\ UNCHANGED <<sent, snapReports>>
      /\ pipe' = [msgc |-> pipe.msgc, handler |-> pipe.handler, returned |-> pipe'.returned, stopc |-> pipe'.stopc]
      /\ pipe'.msgc = pipe.msgc /\ pipe'.handler = pipe.handler
  BY Zenon DEF Sender!stop, Sender!StopWriter, Sender!StopPipeline, Sender!Stopped, Sender!HandlerReturns, SnapInv, PipeType
<1>2. loop' = [at |-> loop'.at, m |-> loop.m, to |-> loop.to] /\ loop'.m = loop.m
      /\ \/ loop' = loop
         \/ /\ loop.at \in LoopAt \ {"pick", "pick2", "put"}
            /\ loop'.at \in LoopAt \ {"pick", "pick2", "put"}
  BY Zenon DEF Sender!stop, Sender!StopWriter, Sender!StopPipeline, Sender!Stopped, Sender!HandlerReturns, SnapInv, LoopHolds, LoopAt
<1>3. LoopHolds'
  BY <1>1, <1>2, Zenon DEF SnapInv, LoopHolds, LoopAt
<1>4. OnePlace' /\ Sender!SnapshotReported'
  BY <1>1, <1>2 DEF SnapInv, OnePlace, Sender!SnapshotReported, Sender!Waits
<1> QED
  BY <1>1, <1>3, <1>4 DEF SnapInv, SentType, PipeType, Unsent

\* Every step keeps SnapInv.
LEMMA SnapNext ==
  ASSUME NullIsNoMessage, MaxSent \in Nat, SnapInv, [Sender!Next]_(Sender!vars)
  PROVE  SnapInv'
<1>1. ASSUME UNCHANGED <<loop, sent, pipe, snapReports>> PROVE SnapInv'
  BY <1>1 DEF SnapInv, SentType, LoopHolds, PipeType, OnePlace, Unsent, Sender!SnapshotReported, Sender!Waits
<1>2. ASSUME NEW s \in Sender!Stream, Sender!Write(s) \/ Sender!WriteFails(s) \/ Sender!WriterStops(s) PROVE SnapInv'
  BY <1>1, <1>2 DEF Sender!Write, Sender!WriteFails, Sender!WriterStops
<1>3. ASSUME NEW c \in Conn, NEW s \in Sender!Stream, Sender!Dialled(c, s) \/ Sender!Attach(c, s) \/ Sender!NotAttached(c, s)
      PROVE  SnapInv'
  BY <1>1, <1>3 DEF Sender!Dialled, Sender!Attach, Sender!NotAttached
<1>4. CASE Sender!Send \/ Sender!Goes \/ Sender!stop
  BY <1>4, SendSnap, PickSnap, PutSnap, OtherSnap DEF Sender!Goes
<1>5. ASSUME NEW h \in Handler, Sender!Take(h) \/ Sender!PostSucceeds(h) \/ Sender!PostFails(h) \/ Sender!HandlerReturns(h)
      PROVE  SnapInv'
  BY <1>5, TakeSnap, PostSnap, OtherSnap
<1> QED
  BY <1>1, <1>2, <1>3, <1>4, <1>5 DEF Sender!Next, Sender!vars

\* Steps that leave the connections and who has them alone.
LEMMA SameConns ==
  ASSUME ConnInv, UNCHANGED conn, WriterType',
         \A s \in Sender!Stream : writer'[s].working = writer[s].working /\ writer'[s].conn = writer[s].conn
  PROVE  ConnInv'
  BY DEF ConnInv, Attached

\* The assignments to the fields of a writer.
LEMMA KeepsConn ==
  ASSUME NEW w, IsWriter(w), NEW u, NEW x,
         \/ u = [w EXCEPT !.chans = x]
         \/ u = [w EXCEPT !.stopc = x]
         \/ u = [w EXCEPT !.reads = FALSE]
         \/ u = [w EXCEPT !.reads = FALSE, !.done = TRUE]
  PROVE  IsWriter(u) /\ u.working = w.working /\ u.conn = w.conn
  BY Zenon DEF IsWriter

\* A connection that is closed leaves the set that is open.
LEMMA DropsConn ==
  ASSUME NEW w, IsWriter(w), NEW u, NEW x, u = [w EXCEPT !.chans = x, !.working = FALSE]
  PROVE  IsWriter(u) /\ ~u.working /\ u.conn = w.conn
  BY Zenon DEF IsWriter

\* A connection that a writer takes is the one it was offered.
LEMMA TakesConn ==
  ASSUME NEW w, IsWriter(w), NEW u, NEW c, u = [w EXCEPT !.working = TRUE, !.conn = c, !.reads = TRUE]
  PROVE  IsWriter(u) /\ u.working /\ u.conn = c
  BY Zenon DEF IsWriter

\* A writer closes the connection it has, if any.
LEMMA Closes ==
  ASSUME ConnInv, NEW s \in Sender!Stream
  PROVE  /\ writer[s].working => Sender!ConnsClosed(s) = [conn EXCEPT ![writer[s].conn] = "closed"]
         /\ ~writer[s].working => Sender!ConnsClosed(s) = conn
         /\ LET u == Sender!closeUnlocked(s) IN IsWriter(u) /\ ~u.working /\ u.conn = writer[s].conn
<1>1. IsWriter(writer[s])
  BY DEF ConnInv, WriterType
<1>2. LET u == Sender!closeUnlocked(s) IN IsWriter(u) /\ ~u.working /\ u.conn = writer[s].conn
  <2>1. CASE writer[s].working
    <3>1. PICK x : x = Append(writer[s].chans, <<>>)
      BY Zenon
    <3>2. PICK u : u = Sender!closeUnlocked(s)
      OBVIOUS
    <3>3. u = [writer[s] EXCEPT !.chans = x, !.working = FALSE]
      BY <2>1, <3>1, <3>2 DEF Sender!closeUnlocked
    <3>4. IsWriter(u) /\ ~u.working /\ u.conn = writer[s].conn
      BY <1>1, <3>3, DropsConn, Zenon
    <3> QED
      BY <3>2, <3>4
  <2>2. CASE ~writer[s].working
    BY <1>1, <2>2 DEF Sender!closeUnlocked
  <2> QED
    BY <2>1, <2>2
<1> QED
  BY <1>2, Zenon DEF Sender!ConnsClosed, Sender!Closed, ConnInv, Attached

\* streamWriter.close closes the connection the writer has.
LEMMA WriterCloses ==
  ASSUME ConnInv, NEW s \in Sender!Stream, Sender!WriteFails(s) \/ Sender!WriterStops(s)
  PROVE  ConnInv'
<1>0. PICK u : u = Sender!closeUnlocked(s) /\ IsWriter(u) /\ ~u.working /\ u.conn = writer[s].conn
  BY Closes
<1>1. PICK w : writer' = [writer EXCEPT ![s] = w] /\ IsWriter(w) /\ ~w.working /\ w.conn = writer[s].conn
  <2>1. PICK w : /\ writer' = [writer EXCEPT ![s] = w]
                 /\ w = [u EXCEPT !.reads = FALSE] \/ w = [u EXCEPT !.reads = FALSE, !.done = TRUE]
    BY <1>0 DEF Sender!WriteFails, Sender!WriterStops
  <2>2. IsWriter(w) /\ w.working = u.working /\ w.conn = u.conn
    BY <1>0, <2>1, KeepsConn, Zenon
  <2> QED
    BY <1>0, <2>1, <2>2, Zenon
<1>2. /\ conn' = Sender!ConnsClosed(s)
      /\ writer' = [t \in Sender!Stream |-> writer'[t]] /\ writer'[s] = w
      /\ \A t \in Sender!Stream : t # s => writer'[t] = writer[t]
  BY <1>1, Zenon DEF Sender!WriteFails, Sender!WriterStops, ConnInv, WriterType
<1>3. WriterType'
  BY <1>1, <1>2 DEF ConnInv, WriterType
<1>4. Attached'
  BY <1>1, <1>2, Closes DEF ConnInv, Attached
<1> QED
  BY <1>3, <1>4 DEF ConnInv

\* attach hands a connection to the writer, which closes the one it had.
LEMMA AttachConn ==
  ASSUME ConnInv, NEW s \in Sender!Stream, NEW c \in Conn, Sender!Attach(c, s)
  PROVE  ConnInv'
<1>0. PICK u : u = Sender!closeUnlocked(s) /\ IsWriter(u)
  BY Closes
<1>1. PICK w : writer' = [writer EXCEPT ![s] = w] /\ IsWriter(w) /\ w.working /\ w.conn = c
  <2>1. PICK w : writer' = [writer EXCEPT ![s] = w] /\ w = [u EXCEPT !.working = TRUE, !.conn = c, !.reads = TRUE]
    BY <1>0, Zenon DEF Sender!Attach
  <2>2. IsWriter(w) /\ w.working /\ w.conn = c
    BY <1>0, <2>1, TakesConn, Zenon
  <2> QED
    BY <2>1, <2>2, Zenon
<1>2. /\ conn[c] = s /\ conn' = [Sender!ConnsClosed(s) EXCEPT ![c] = "attached"]
      /\ writer' = [t \in Sender!Stream |-> writer'[t]] /\ writer'[s] = w
      /\ \A t \in Sender!Stream : t # s => writer'[t] = writer[t]
  BY <1>1 DEF Sender!Attach, ConnInv, WriterType
<1>3. WriterType'
  BY <1>1, <1>2 DEF ConnInv, WriterType
<1>4. Sender!ConnsClosed(s) \in [Conn -> {"new", "attached", "closed"} \cup Sender!Stream]
  BY Closes DEF ConnInv, Attached
<1>5. /\ conn' \in [Conn -> {"new", "attached", "closed"} \cup Sender!Stream] /\ conn'[c] = "attached"
      /\ \A d \in Conn : d # c => conn'[d] = Sender!ConnsClosed(s)[d]
  BY <1>2, <1>4
<1>6. \A t \in Sender!Stream : writer[t].working => writer[t].conn # c
  BY <1>2 DEF ConnInv, Attached, Sender!Stream
<1>7. Attached'
  BY <1>1, <1>2, <1>5, <1>6, Closes DEF ConnInv, Attached
<1> QED
  BY <1>3, <1>7 DEF ConnInv

\* Every step keeps ConnInv.
LEMMA ConnNext ==
  ASSUME ConnInv, [Sender!Next]_(Sender!vars)
  PROVE  ConnInv'
<1>1. ASSUME UNCHANGED <<writer, conn>> PROVE ConnInv'
  BY <1>1 DEF ConnInv, WriterType, Attached
<1>2. ASSUME NEW s \in Sender!Stream, UNCHANGED conn, NEW u, writer' = [writer EXCEPT ![s] = u],
             \E x : u = [writer[s] EXCEPT !.chans = x] \/ u = [writer[s] EXCEPT !.stopc = x]
      PROVE  ConnInv'
  <2>1. IsWriter(writer[s])
    BY DEF ConnInv, WriterType
  <2>2. IsWriter(u) /\ u.working = writer[s].working /\ u.conn = writer[s].conn
    <3>1. PICK x : u = [writer[s] EXCEPT !.chans = x] \/ u = [writer[s] EXCEPT !.stopc = x]
      BY <1>2
    <3>2. PICK w : w = writer[s]
      OBVIOUS
    <3>3. IsWriter(w) /\ (u = [w EXCEPT !.chans = x] \/ u = [w EXCEPT !.stopc = x])
      BY <2>1, <3>1, <3>2
    <3>4. IsWriter(u) /\ u.working = w.working /\ u.conn = w.conn
      BY <3>3, KeepsConn, Zenon
    <3> QED
      BY <3>2, <3>4
  <2>3. /\ writer' = [t \in Sender!Stream |-> writer'[t]] /\ writer'[s] = u
        /\ \A t \in Sender!Stream : t # s => writer'[t] = writer[t]
    BY <1>2 DEF ConnInv, WriterType
  <2>4. WriterType' /\ \A t \in Sender!Stream : writer'[t].working = writer[t].working /\ writer'[t].conn = writer[t].conn
    BY <2>2, <2>3 DEF ConnInv, WriterType
  <2> QED
    BY <1>2, <2>4, SameConns
<1>3. ASSUME NEW s \in Sender!Stream, Sender!Write(s) PROVE ConnInv'
  BY <1>2, <1>3, Zenon DEF Sender!Write
<1>4. ASSUME NEW c \in Conn, NEW s \in Sender!Stream, Sender!Dialled(c, s) \/ Sender!NotAttached(c, s)
      PROVE  ConnInv'
  BY <1>4 DEF Sender!Dialled, Sender!NotAttached, Sender!Closed, ConnInv, Attached, WriterType, Sender!Stream
<1>5. CASE Sender!Put
  <2> DEFINE s == loop.to[1]
             x == [writer[s].chans EXCEPT ![loop.to[2]] = Append(@, loop.m)]
             u == [writer[s] EXCEPT !.chans = x]
  <2>1. UNCHANGED conn /\ (UNCHANGED writer \/ writer' = [writer EXCEPT ![s] = u])
    BY <1>5, ZenonT(30) DEF Sender!Put
  <2>2. CASE UNCHANGED writer
    BY <1>1, <2>1, <2>2
  <2>3. CASE s \in Sender!Stream /\ writer' = [writer EXCEPT ![s] = u]
    BY <1>2, <2>1, <2>3, Zenon
  <2>4. CASE s \notin Sender!Stream /\ writer' = [writer EXCEPT ![s] = u]
    <3>1. UNCHANGED writer
      BY <2>4 DEF ConnInv, WriterType
    <3> QED
      BY <2>2, <3>1
  <2> QED
    BY <2>1, <2>2, <2>3, <2>4, ZenonT(30)
<1>6. CASE Sender!stop
  BY <1>1, <1>2, <1>6, Zenon DEF Sender!stop, Sender!StopWriter, Sender!StopPipeline, Sender!Stopped, Sender!Stream
<1>7. CASE Sender!Send \/ Sender!Pick \/ Sender!PickMessage
  BY <1>1, <1>7, Zenon DEF Sender!Send, Sender!Pick, Sender!PickMessage
<1>8. ASSUME NEW h \in Handler, Sender!Take(h) \/ Sender!PostSucceeds(h) \/ Sender!PostFails(h) \/ Sender!HandlerReturns(h)
      PROVE  ConnInv'
  BY <1>1, <1>8 DEF Sender!Take, Sender!PostSucceeds, Sender!PostFails, Sender!HandlerReturns
<1> QED
  BY <1>1, <1>3, <1>4, <1>5, <1>6, <1>7, <1>8, WriterCloses, AttachConn DEF Sender!Next, Sender!Goes, Sender!vars

\* raft hears once of every snapshot that send was given, and no connection is closed
\* twice or lost, however the event loop, the writers, the handlers and the pipeline
\* interleave (peer.go, stream.go, pipeline.go).
THEOREM SenderForgetsNothing ==
  ASSUME NullIsNoMessage, MaxSent \in Nat
  PROVE  Sender!Spec => []Sender!NothingForgotten
<1>1. Sender!Init => SnapInv /\ ConnInv
  <2>1. Sender!Init => SnapInv
    BY DEF Sender!Init, SnapInv, SentType, LoopHolds, LoopAt, PipeType, OnePlace, Unsent, Sender!SnapshotReported
  <2>2. Sender!Init => ConnInv
    <3> SUFFICES ASSUME Sender!Init PROVE ConnInv
      OBVIOUS
    <3>1. PICK x : x = << <<>> >>
      BY Zenon
    <3>2. writer = [s \in Sender!Stream |-> [chans |-> x, working |-> FALSE, conn |-> Null, reads |-> FALSE,
                                             stopc |-> FALSE, done |-> FALSE]]
      BY <3>1 DEF Sender!Init
    <3>3. WriterType /\ \A s \in Sender!Stream : ~writer[s].working
      BY <3>2, Zenon DEF WriterType, IsWriter
    <3> QED
      BY <3>3 DEF Sender!Init, ConnInv, Attached
  <2> QED
    BY <2>1, <2>2
<1>2. SnapInv /\ ConnInv /\ [Sender!Next]_(Sender!vars) => (SnapInv /\ ConnInv)'
  BY SnapNext, ConnNext
<1>3. SnapInv /\ ConnInv => Sender!NothingForgotten
  BY DEF SnapInv, ConnInv, Attached, Sender!NothingForgotten, Sender!ConnsClosedOnce, Sender!Stream
<1> QED
  BY <1>1, <1>2, <1>3, PTL DEF Sender!Spec

(***************************************************************************)
(* The window of messages in flight                                        *)
(***************************************************************************)
Window == INSTANCE Inflights

\* The ring has room for what it holds: it ends inside the buffer, or the buffer has
\* its full size and the ring may wrap.  What it holds rises.
RingInv ==
    /\ start \in Nat /\ count \in 0..Size /\ buffer \in Seq(Nat)
    /\ start < Size
    /\ Len(buffer) <= Size
    /\ start + count <= Len(buffer) \/ Len(buffer) = Size
    /\ last \in [op : {"new", "add", "free", "reset"}, to : Nat, index : Nat]
    /\ \A n \in 0..(count - 1) : Window!At(n) <= last.index
    /\ \A m, n \in 0..(count - 1) : m < n => Window!At(m) < Window!At(n)

\* A set of natural numbers has a least element.
LEMMA Smallest ==
  ASSUME NEW T \in SUBSET Nat, T # {} PROVE \E x \in T : \A y \in T : x <= y
<1> DEFINE R == OpToRel(<, Nat)
<1>1. \E x \in T : \A y \in T : ~ (<<y, x>> \in R)
  BY WFMin, NatLessThanWellFounded, Zenon
<1>2. \A x, y \in Nat : <<y, x>> \in R <=> y < x
  BY DEF OpToRel
<1> HIDE DEF R
<1>3. PICK x \in T : \A y \in T : ~ (<<y, x>> \in R)
  BY <1>1
<1>4. ASSUME NEW y \in T PROVE x <= y
  <2>1. ~(y < x) /\ x \in Nat /\ y \in Nat
    BY <1>2, <1>3, Zenon
  <2> QED BY <2>1
<1> QED BY <1>3, <1>4

\* Induction up to n: a set that has 0 and every successor below n has all of 0..n.
LEMMA Induction ==
  ASSUME NEW n \in Nat, NEW T, 0 \in T, \A k \in 0..(n - 1) : k \in T => k + 1 \in T
  PROVE 0..n \subseteq T
<1> SUFFICES ASSUME (0..n) \ T # {} PROVE FALSE
  OBVIOUS
<1>1. PICK k \in (0..n) \ T : \A j \in (0..n) \ T : k <= j
  <2>1. (0..n) \ T \in SUBSET Nat
    OBVIOUS
  <2> QED BY <2>1, Smallest, Zenon
<1>2. k # 0 /\ k - 1 \in 0..(n - 1)
  BY <1>1
<1>3. k - 1 \in T
  BY <1>1, <1>2
<1> QED BY <1>1, <1>2, <1>3

\* The place of the k-th message of the ring, whether or not it wraps.
LEMMA RingPlace ==
  ASSUME Size \in Nat \ {0}, RingInv, NEW n \in 0..(count - 1)
  PROVE  Window!After(n) + 1 \in 1..Len(buffer) /\ Window!At(n) \in Nat
  BY DEF RingInv, Window!After, Window!At

\* Add appends to the queue that the ring holds, growing the buffer when it must.
LEMMA RingAdd ==
  ASSUME Size \in Nat \ {0}, RingInv, NEW i \in Nat, i > last.index, Window!Add(i)
  PROVE  RingInv' /\ Window!Contents' = Append(Window!Contents, i)
<1> DEFINE next == IF start + count >= Size THEN start + count - Size ELSE start + count
           grown == IF next >= Len(buffer) THEN Window!grow ELSE buffer
<1>1. /\ count < Size /\ buffer' = [grown EXCEPT ![next + 1] = i] /\ count' = count + 1 /\ UNCHANGED start
      /\ last' = [op |-> "add", to |-> i, index |-> i]
  BY DEF Window!Add, Window!Full, RingInv
<1>2. next \in Nat /\ next < Size /\ next = Window!After(count)
  BY <1>1 DEF RingInv, Window!After
<1>3. /\ grown \in Seq(Nat) /\ Len(grown) \in Nat /\ next + 1 <= Len(grown) /\ Len(grown) <= Size
      /\ Len(buffer) <= Len(grown) /\ \A k \in 1..Len(buffer) : grown[k] = buffer[k]
      /\ start + count + 1 <= Len(grown) \/ Len(grown) = Size
  <2>1. CASE next >= Len(buffer)
    <3> DEFINE newSize == IF buffer = <<>> THEN 1 ELSE IF 2 * Len(buffer) > Size THEN Size ELSE 2 * Len(buffer)
    <3>1. grown = [k \in 1..newSize |-> IF k <= Len(buffer) THEN buffer[k] ELSE 0]
      BY <2>1 DEF Window!grow
    <3>2. next = start + count /\ start + count = Len(buffer)
      BY <1>1, <2>1 DEF RingInv
    <3>3. newSize \in Nat /\ newSize <= Size /\ newSize >= Len(buffer) + 1
      BY <1>2, <3>2 DEF RingInv
    <3>4. grown \in Seq(Nat) /\ Len(grown) = newSize
      <4> HIDE DEF newSize, grown
      <4> QED
        BY <3>1, <3>3 DEF RingInv
    <3>5. \A k \in 1..Len(buffer) : grown[k] = buffer[k]
      BY <3>1, <3>3 DEF RingInv
    <3>6. Len(buffer) \in Nat
      BY DEF RingInv
    <3> HIDE DEF newSize, grown, next
    <3> QED
      BY <3>2, <3>3, <3>4, <3>5, <3>6
  <2>2. CASE next < Len(buffer)
    BY <1>1, <1>2, <2>2, SMTT(20) DEF RingInv
  <2> QED
    BY <1>2, <2>1, <2>2 DEF RingInv
<1>0. PICK c \in Nat : c = count
  BY DEF RingInv
<1> HIDE DEF next, grown
<1>4. /\ buffer' \in Seq(Nat) /\ Len(buffer') = Len(grown) /\ buffer'[next + 1] = i
      /\ \A k \in 1..Len(grown) : k # next + 1 => buffer'[k] = grown[k]
  BY <1>1, <1>2, <1>3
<1>5. \A n \in 0..(c - 1) : Window!After(n)' = Window!After(n) /\ Window!After(n) # next
  BY <1>0, <1>1, <1>2 DEF Window!After, RingInv
<1>6. ASSUME NEW n \in 0..(c - 1) PROVE Window!At(n)' = Window!At(n) /\ Window!At(n) \in Nat
  <2>1. Window!After(n) + 1 \in 1..Len(buffer) /\ Window!At(n) \in Nat
    BY <1>0, RingPlace
  <2>2. Window!After(n) + 1 \in 1..Len(grown) /\ Window!After(n) + 1 # next + 1
    <3>1. Window!After(n) \in Int /\ Len(buffer) \in Nat
      BY <1>0 DEF RingInv, Window!After
    <3>2. Window!After(n) # next
      BY <1>5
    <3> QED
      BY <1>2, <1>3, <2>1, <3>1, <3>2, SMTT(20)
  <2>3. buffer'[Window!After(n) + 1] = buffer[Window!After(n) + 1]
    BY <1>3, <1>4, <2>1, <2>2, SMTT(20)
  <2> QED
    BY <1>5, <2>1, <2>3 DEF Window!At
<1>7. Window!At(c)' = i
  BY <1>0, <1>1, <1>2, <1>4 DEF Window!At, Window!After
<1>8. RingInv'
  <2>1. \A n \in 0..(count' - 1) : n = c \/ n \in 0..(c - 1)
    BY <1>0, <1>1
  <2>2. /\ \A n \in 0..(c - 1) : Window!At(n) <= last.index
        /\ \A m, n \in 0..(c - 1) : m < n => Window!At(m) < Window!At(n)
        /\ last.index \in Nat
    BY <1>0 DEF RingInv
  <2>3. ASSUME NEW n \in 0..(count' - 1) PROVE Window!At(n)' <= i
    BY <1>6, <1>7, <2>1, <2>2
  <2>4. ASSUME NEW m \in 0..(count' - 1), NEW n \in 0..(count' - 1), m < n PROVE Window!At(m)' < Window!At(n)'
    BY <1>0, <1>6, <1>7, <2>1, <2>2, <2>4
  <2>5. /\ last' \in [op : {"new", "add", "free", "reset"}, to : Nat, index : Nat] /\ last'.index = i
        /\ start' \in Nat /\ count' \in 0..Size /\ start' < Size
    BY <1>1 DEF RingInv
  <2>6. /\ buffer' \in Seq(Nat) /\ Len(buffer') <= Size
        /\ start' + count' <= Len(buffer') \/ Len(buffer') = Size
    <3>1. start \in Nat /\ count \in Nat /\ start' = start /\ count' = count + 1
      BY <1>0, <1>1 DEF RingInv
    <3> QED
      BY <1>3, <1>4, <3>1
  <2> QED
    BY <2>3, <2>4, <2>5, <2>6, Zenon DEF RingInv
<1>9. Window!Contents' = Append(Window!Contents, i)
  <2>1. Window!Contents \in Seq(Nat) /\ Len(Window!Contents) = c /\ \A k \in 1..c : Window!Contents[k] = Window!At(k - 1)
    BY <1>0, <1>6 DEF Window!Contents
  <2>2. Append(Window!Contents, i) = [k \in 1..(c + 1) |-> IF k = c + 1 THEN i ELSE Window!Contents[k]]
    <3>1. PICK w : w = Window!Contents
      OBVIOUS
    <3>2. w \in Seq(Nat) /\ Len(w) = c
      BY <2>1, <3>1
    <3>3. Append(w, i) = [k \in 1..(c + 1) |-> IF k = c + 1 THEN i ELSE w[k]]
      <4> DEFINE f == [k \in 1..(c + 1) |-> IF k = c + 1 THEN i ELSE w[k]]
      <4>1. f \in Seq(Nat) /\ Len(f) = c + 1
        BY <3>2
      <4>2. Append(w, i) \in Seq(Nat) /\ Len(Append(w, i)) = c + 1
        BY <3>2
      <4>3. \A k \in 1..(c + 1) : Append(w, i)[k] = f[k]
        BY <3>2
      <4> HIDE DEF f
      <4>4. Append(w, i) = f
        BY <4>1, <4>2, <4>3
      <4> QED
        BY <4>4 DEF f
    <3> QED
      BY <3>1, <3>3
  <2>3. Window!Contents' = [k \in 1..(c + 1) |-> Window!At(k - 1)']
    BY <1>0, <1>1 DEF Window!Contents
  <2>4. ASSUME NEW k \in 1..(c + 1) PROVE Window!At(k - 1)' = IF k = c + 1 THEN i ELSE Window!Contents[k]
    <3>1. CASE k = c + 1
      BY <1>7, <3>1
    <3>2. CASE k # c + 1
      <4>1. k \in 1..c /\ k - 1 \in 0..(c - 1)
        BY <3>2
      <4> QED
        BY <1>6, <2>1, <3>2, <4>1
    <3> QED
      BY <3>1, <3>2
  <2> QED
    BY <2>2, <2>3, <2>4
<1> QED
  BY <1>8, <1>9

\* FreeLE drops the messages up to an index from the front of the queue.
LEMMA RingFree ==
  ASSUME Size \in Nat \ {0}, RingInv, NEW to \in Nat, Window!FreeLE(to)
  PROVE  RingInv' /\ Window!Freed(to)
<1> DEFINE larger == {n \in 0..(count - 1) : to < Window!At(n)}
           i == IF larger = {} THEN count ELSE CHOOSE n \in larger : \A m \in larger : n <= m
<1>1. /\ count' = count - i /\ UNCHANGED buffer /\ last' = [op |-> "free", to |-> to, index |-> last.index]
      /\ start' = IF i = 0 THEN start ELSE IF i = count THEN 0 ELSE Window!After(i)
  BY DEF Window!FreeLE, Window!Sent
<1>2. \A n \in 0..(count - 1) : Window!At(n) \in Nat
  BY RingPlace
<1>3. /\ i \in 0..count /\ \A n \in 0..(i - 1) : Window!At(n) <= to
      /\ \A n \in i..(count - 1) : Window!At(n) > to
  <2>1. larger \in SUBSET Nat /\ count \in Nat
    BY DEF RingInv
  <2>2. CASE larger = {}
    BY <1>2, <2>1, <2>2
  <2>3. CASE larger # {}
    <3>1. \E n \in larger : \A m \in larger : n <= m
      BY <2>1, <2>3, Smallest, Zenon
    <3>2. i \in larger /\ \A m \in larger : i <= m
      BY <2>3, <3>1
    <3>3. i \in 0..(count - 1) /\ Window!At(i) > to /\ \A m \in 0..(count - 1) : to < Window!At(m) => i <= m
      BY <3>2
    <3> HIDE DEF i, larger
    <3>4. ASSUME NEW n \in 0..(i - 1) PROVE Window!At(n) <= to
      BY <1>2, <2>1, <3>3
    <3>5. ASSUME NEW n \in i..(count - 1) PROVE Window!At(n) > to
      <4>1. n = i \/ Window!At(i) < Window!At(n)
        BY <2>1, <3>3 DEF RingInv
      <4> QED
        BY <1>2, <2>1, <3>3, <4>1
    <3> QED
      BY <2>1, <3>3, <3>4, <3>5
  <2> QED
    BY <2>2, <2>3
<1> HIDE DEF i, larger
<1>4. \A n \in 0..(count' - 1) : n + i \in 0..(count - 1) /\ Window!At(n)' = Window!At(n + i)
  <2>1. ASSUME NEW n \in 0..(count' - 1) PROVE n + i \in 0..(count - 1) /\ Window!After(n)' = Window!After(n + i)
    BY <1>1, <1>3 DEF Window!After, RingInv
  <2> QED
    BY <1>1, <2>1 DEF Window!At
<1>5. RingInv'
  <2>1. /\ start' \in Nat /\ count' \in 0..Size /\ start' < Size
        /\ start' + count' <= Len(buffer) \/ Len(buffer) = Size
    BY <1>1, <1>3 DEF RingInv, Window!After
  <2>2. last' \in [op : {"new", "add", "free", "reset"}, to : Nat, index : Nat] /\ last'.index = last.index
    BY <1>1 DEF RingInv
  <2>3. \A n \in 0..(count' - 1) : Window!At(n)' <= last.index
    BY <1>4 DEF RingInv
  <2>4. ASSUME NEW m \in 0..(count' - 1), NEW n \in 0..(count' - 1), m < n PROVE Window!At(m)' < Window!At(n)'
    <3>1. m + i \in 0..(count - 1) /\ n + i \in 0..(count - 1) /\ m + i < n + i
      <4>1. i \in Nat /\ m \in Nat /\ n \in Nat
        BY <1>3, <2>1 DEF RingInv
      <4> QED
        BY <1>4, <2>4, <4>1
    <3>2. Window!At(m + i) < Window!At(n + i)
      BY <3>1 DEF RingInv
    <3> QED
      BY <1>4, <3>2
  <2> QED
    BY <1>1, <2>1, <2>2, <2>3, <2>4 DEF RingInv
<1>6. Window!Freed(to)
  <2>1. Window!Contents \in Seq(Nat) /\ Len(Window!Contents) = count
    BY <1>2 DEF Window!Contents, RingInv
  <2>2. SubSeq(Window!Contents, i + 1, count) = [k \in 1..(count - i) |-> Window!Contents[i + k]]
    BY <1>3, <2>1 DEF RingInv
  <2>3. Window!Contents' = [k \in 1..(count - i) |-> Window!Contents[i + k]]
    BY <1>1, <1>3, <1>4 DEF Window!Contents, RingInv
  <2>4. (\A k \in 1..i : Window!Contents[k] <= to) /\ (\A k \in (i + 1)..count : Window!Contents[k] > to)
    BY <1>3 DEF Window!Contents, RingInv
  <2> QED
    BY <1>3, <2>2, <2>3, <2>4 DEF Window!Freed
<1> QED
  BY <1>5, <1>6

\* Every operation keeps RingInv and is the operation of a queue.
LEMMA RingNext ==
  ASSUME Size \in Nat \ {0}, RingInv, [Window!Next]_(Window!vars)
  PROVE  RingInv' /\ [Window!RingStep]_(Window!vars)
<1>1. ASSUME NEW i \in (last.index + 1)..MaxAdds, Window!Add(i) PROVE RingInv' /\ Window!RingStep
  <2>1. i \in Nat /\ i > last.index
    BY DEF RingInv
  <2>2. last'.op = "add" /\ last'.to = i
    BY <1>1 DEF Window!Add
  <2> QED
    BY <1>1, <2>1, <2>2, RingAdd DEF Window!RingStep
<1>2. ASSUME NEW to \in Nat, Window!FreeLE(to) PROVE RingInv' /\ Window!RingStep
  <2>1. last'.op = "free" /\ last'.to = to
    BY <1>2 DEF Window!FreeLE
  <2> QED
    BY <1>2, <2>1, RingFree DEF Window!RingStep
<1>3. CASE Window!FreeFirstOne
  <2>1. 0 \in 0..(count - 1)
    BY <1>3 DEF Window!FreeFirstOne, Window!Full, RingInv
  <2>2. Window!At(0) \in Nat
    BY <2>1, RingPlace
  <2> QED
    BY <1>2, <1>3, <2>2 DEF Window!FreeFirstOne
<1>4. CASE Window!reset
  <2>1. /\ count' = 0 /\ start' = 0 /\ UNCHANGED buffer
        /\ last' = [op |-> "reset", to |-> 0, index |-> last.index]
    BY <1>4 DEF Window!reset, Window!Sent
  <2>2. RingInv'
    BY <2>1 DEF RingInv
  <2>3. last'.op = "reset" /\ Window!Contents' = <<>>
    BY <2>1 DEF Window!Contents
  <2> QED
    BY <2>2, <2>3 DEF Window!RingStep
<1>5. CASE UNCHANGED Window!vars
  <2>1. UNCHANGED <<start, count, buffer, last>>
    BY <1>5 DEF Window!vars
  <2>2. \A n : Window!At(n)' = Window!At(n)
    BY <2>1 DEF Window!At, Window!After
  <2>3. RingInv'
    BY <2>1, <2>2 DEF RingInv
  <2> QED
    BY <1>5, <2>3
<1>6. CASE Window!Next
  <2>1. 0..last.index \subseteq Nat
    BY DEF RingInv
  <2> QED
    BY <1>1, <1>2, <1>3, <1>4, <1>6, <2>1 DEF Window!Next, Window!Sent
<1> QED
  BY <1>5, <1>6

\* Through every growth and wrap of the ring the window of messages in flight is a
\* queue (inflights.go: Add, FreeLE, grow).
THEOREM WindowIsQueue ==
  ASSUME Size \in Nat \ {0}
  PROVE  Window!Spec => Window!RingIsWindow
<1>1. Window!Init => RingInv
  BY DEF Window!Init, RingInv
<1>2. RingInv /\ [Window!Next]_(Window!vars) => RingInv'
  BY RingNext
<1>3. RingInv /\ [Window!Next]_(Window!vars) => [Window!RingStep]_(Window!vars)
  BY RingNext
<1> QED
  BY <1>1, <1>2, <1>3, PTL DEF Window!Spec, Window!RingIsWindow

(***************************************************************************)
(* The goroutine of a node                                                 *)
(***************************************************************************)
Node == INSTANCE NodeLoop

RaftType ==
    [msgs : Seq(Nat), made : Nat, last : Nat, stable : Nat, lead : {0, 1}, prevLead : {0, 1}, turns : Nat, member : BOOLEAN]

ReadyType == [lead : {0, 1}, msgs : Seq(Nat), last : Nat]

RunType ==
    [at : {"select", "confstate", "done"}, readyc : BOOLEAN, advancec : BOOLEAN, propc : BOOLEAN, lead : {0, 1},
     rd : ReadyType \cup {Null}]

AppType ==
    [at : {"select", "publish", "confstate", "removed", "advance", "stopping", "stopped"}, saved : Nat, sent : Seq(Nat)]

\* The Ready that run offers has all that raft has made, also when it was armed in an
\* earlier round; the one that was taken has what the application saved, as long as
\* run waits for Advance.
Offers(r, u) == u.readyc => ~u.advancec /\ u.rd \in ReadyType /\ u.rd.msgs = r.msgs /\ u.rd.last = r.last
Awaits(u, a) ==
    /\ u.advancec => u.rd \in ReadyType /\ u.rd.last = a.saved
    /\ a.at = "select" => ~u.advancec
    /\ a.at \in {"publish", "confstate", "removed", "advance"} => u.advancec

NodeInv ==
    /\ raft \in RaftType /\ run \in RunType /\ app \in AppType
    /\ raft.stable <= app.saved /\ app.saved <= raft.last
    /\ app.sent \o raft.msgs = [k \in 1..raft.made |-> k]
    /\ Offers(raft, run)
    /\ Awaits(run, app)

\* What the top of the loop does to run's variables.
LEMMA NodeTop ==
  ASSUME NEW r \in RaftType, NEW u \in RunType
  PROVE  /\ Node!Top(r, u) \in RunType
         /\ Node!Top(r, u).at = u.at /\ Node!Top(r, u).advancec = u.advancec
         /\ u.advancec => ~Node!Top(r, u).readyc /\ Node!Top(r, u).rd = u.rd
         /\ ~u.advancec /\ Node!HasReady(r) => Node!Top(r, u).readyc /\ Node!Top(r, u).rd = Node!readyWithoutAccept(r)
         /\ ~u.advancec /\ ~Node!HasReady(r) => Node!Top(r, u).readyc = u.readyc /\ Node!Top(r, u).rd = u.rd
  BY Zenon DEF Node!Top, Node!HasReady, Node!readyWithoutAccept, RaftType, RunType, ReadyType

\* A Step only adds to the messages and entries of a raft.
LEMMA NodeSteps ==
  ASSUME raft \in RaftType, NEW r \in Node!Steps
  PROVE  /\ r \in RaftType
         /\ r.stable = raft.stable
         /\ \/ r.last = raft.last
            \/ r.last = raft.last + 1
         /\ \/ r.msgs = raft.msgs /\ r.made = raft.made
            \/ r.msgs = Append(raft.msgs, raft.made + 1) /\ r.made = raft.made + 1
<1>1. PICK m, e \in BOOLEAN, l \in {0, 1} : r = Node!Stepped(m, e, l)
  BY DEF Node!Steps
<1> DEFINE msgs == IF m THEN Append(raft.msgs, raft.made + 1) ELSE raft.msgs
           made == IF m THEN raft.made + 1 ELSE raft.made
           newLast == IF e THEN raft.last + 1 ELSE raft.last
           turns == IF l = raft.lead THEN raft.turns ELSE raft.turns + 1
<1>2. raft.turns \in Nat /\ raft.made \in Nat /\ raft.last \in Nat /\ raft.msgs \in Seq(Nat)
  BY DEF RaftType
<1>3. msgs \in Seq(Nat) /\ made \in Nat /\ newLast \in Nat /\ turns \in Nat
  BY <1>2
<1>4. /\ \/ newLast = raft.last
         \/ newLast = raft.last + 1
      /\ \/ msgs = raft.msgs /\ made = raft.made
         \/ msgs = Append(raft.msgs, raft.made + 1) /\ made = raft.made + 1
  OBVIOUS
<1>5. r = [raft EXCEPT !.msgs = msgs, !.made = made, !.last = newLast, !.lead = l, !.turns = turns]
  BY <1>1 DEF Node!Stepped
<1> HIDE DEF msgs, made, newLast, turns
<1>6. r \in RaftType /\ r.msgs = msgs /\ r.made = made /\ r.last = newLast /\ r.stable = raft.stable
  BY <1>3, <1>5, Zenon DEF RaftType
<1> QED
  BY <1>4, <1>6

\* Appending to the second of two sequences appends to both.
LEMMA ConcatAppend ==
  ASSUME NEW s \in Seq(Nat), NEW t \in Seq(Nat), NEW x \in Nat
  PROVE  s \o Append(t, x) = Append(s \o t, x)
  OBVIOUS

\* The next round, after a Step.
LEMMA NodeStep ==
  ASSUME NodeInv, NEW r \in Node!Steps, Node!Round(r, run), UNCHANGED app
  PROVE  NodeInv'
<1>1. r \in RaftType
  BY NodeSteps DEF NodeInv
<1>2. run' \in RunType
  BY <1>1, NodeTop DEF NodeInv, Node!Round
<1>3. app.sent \o r.msgs = [k \in 1..r.made |-> k]
  <2>1. CASE r.msgs = raft.msgs /\ r.made = raft.made
    BY <2>1, Zenon DEF NodeInv
  <2>2. CASE r.msgs = Append(raft.msgs, raft.made + 1) /\ r.made = raft.made + 1
    <3>0. app.sent \in Seq(Nat) /\ raft.msgs \in Seq(Nat) /\ raft.made + 1 \in Nat
      BY DEF NodeInv, RaftType, AppType
    <3>1. app.sent \o r.msgs = Append(app.sent \o raft.msgs, raft.made + 1)
      BY <2>2, <3>0, ConcatAppend, Zenon
    <3>2. Append([k \in 1..raft.made |-> k], raft.made + 1) = [k \in 1..(raft.made + 1) |-> k]
      BY DEF NodeInv, RaftType
    <3> QED
      BY <2>2, <3>1, <3>2, Zenon DEF NodeInv
  <2> QED
    BY <2>1, <2>2, NodeSteps, Zenon DEF NodeInv
<1>4. Offers(r, run')
  <2>1. CASE run.advancec
    BY <2>1, <1>1, NodeTop DEF NodeInv, Node!Round, Offers
  <2>2. CASE ~run.advancec /\ Node!HasReady(r)
    <3>1. run'.rd = Node!readyWithoutAccept(r) /\ ~run'.advancec
      BY <2>2, <1>1, NodeTop DEF NodeInv, Node!Round
    <3> QED
      BY <3>1, <1>1 DEF Offers, Node!readyWithoutAccept, RaftType, ReadyType
  <2>3. CASE ~run.advancec /\ ~Node!HasReady(r)
    <3>1. r.msgs = <<>> /\ r.last <= r.stable
      BY <2>3, <1>1 DEF Node!HasReady, RaftType
    <3>2. Append(raft.msgs, raft.made + 1) # <<>>
      BY DEF NodeInv, RaftType
    <3>3. raft.last \in Nat /\ raft.stable \in Nat /\ app.saved \in Nat
      BY DEF NodeInv, RaftType, AppType
    <3>4. r.msgs = raft.msgs /\ r.last = raft.last
      BY <3>1, <3>2, <3>3, NodeSteps DEF NodeInv
    <3> QED
      BY <2>3, <3>4, <1>1, NodeTop DEF NodeInv, Node!Round, Offers
  <2> QED
    BY <2>1, <2>2, <2>3
<1>5. Awaits(run', app)
  BY <1>1, NodeTop DEF NodeInv, Node!Round, Awaits
<1>6. r.stable <= app.saved /\ app.saved <= r.last
  BY NodeSteps DEF NodeInv, RaftType, AppType
<1> QED
  BY <1>1, <1>2, <1>3, <1>4, <1>5, <1>6 DEF NodeInv, Node!Round

\* Taking the Ready that is offered takes all the messages of the raft.
LEMMA NodeTakeReady ==
  ASSUME NodeInv, Node!TakeReady
  PROVE  NodeInv'
<1> DEFINE r == Node!acceptReady(raft, run.rd)
           u == [run EXCEPT !.advancec = TRUE]
<1>1. /\ run.rd \in ReadyType /\ run.rd.msgs = raft.msgs /\ run.rd.last = raft.last
  BY DEF NodeInv, Node!TakeReady, Offers
<1>1a. /\ r \in RaftType /\ r.msgs = <<>> /\ r.made = raft.made /\ r.last = raft.last /\ r.stable = raft.stable
  <2>1. raft \in RaftType /\ run.rd.lead \in {0, 1} /\ <<>> \in Seq(Nat)
    BY <1>1 DEF NodeInv, ReadyType
  <2>2. r = [raft EXCEPT !.prevLead = run.rd.lead, !.msgs = <<>>]
    BY DEF Node!acceptReady
  <2> QED
    BY <2>1, <2>2, Zenon DEF RaftType
<1>1b. u \in RunType /\ u.advancec /\ u.rd = run.rd
  BY Zenon DEF NodeInv, RunType
<1>2. /\ raft' = r /\ run' \in RunType /\ run'.advancec /\ ~run'.readyc /\ run'.rd = run.rd
  BY <1>1a, <1>1b, NodeTop, Zenon DEF Node!TakeReady, Node!Round
<1>3. /\ app' \in AppType /\ app'.at = "publish" /\ app'.saved = run.rd.last /\ app'.sent = app.sent \o run.rd.msgs
  <2>1. app.sent \o run.rd.msgs \in Seq(Nat)
    BY <1>1 DEF NodeInv, AppType, ReadyType
  <2> QED
    BY <1>1, <2>1, Zenon DEF NodeInv, Node!TakeReady, AppType, ReadyType
<1>4. app'.sent \o raft'.msgs = [k \in 1..raft'.made |-> k]
  BY <1>1, <1>1a, <1>2, <1>3, SMTT(20) DEF NodeInv, AppType, RaftType
<1>5. raft'.stable <= app'.saved /\ app'.saved <= raft'.last
  BY <1>1, <1>1a, <1>2, <1>3 DEF NodeInv, AppType, RaftType
<1> QED
  BY <1>1, <1>1a, <1>2, <1>3, <1>4, <1>5, Zenon DEF NodeInv, Offers, Awaits

\* Advance marks as saved what the application has saved.
LEMMA NodeAdvance ==
  ASSUME NodeInv, Node!Advance
  PROVE  NodeInv'
<1> DEFINE r == [raft EXCEPT !.stable = run.rd.last]
           u == [run EXCEPT !.rd = Null, !.advancec = FALSE]
<1>1. /\ r \in RaftType /\ r.msgs = raft.msgs /\ r.made = raft.made /\ r.last = raft.last /\ r.stable = app.saved
      /\ u \in RunType /\ ~u.advancec /\ ~u.readyc
  BY Zenon DEF NodeInv, Node!Advance, Offers, Awaits, RaftType, RunType, ReadyType
<1>2. raft' = r /\ run' = Node!Top(r, u)
  BY DEF Node!Advance, Node!Round
<1>2a. run' \in RunType /\ ~run'.advancec
  BY <1>1, <1>2, NodeTop, Zenon
<1>2b. Offers(r, run')
  <2>1. CASE Node!HasReady(r)
    <3>1. run'.rd = Node!readyWithoutAccept(r)
      BY <1>1, <1>2, <2>1, NodeTop, Zenon
    <3> QED
      BY <3>1, <1>1, <1>2a DEF Offers, Node!readyWithoutAccept, RaftType, ReadyType
  <2>2. CASE ~Node!HasReady(r)
    BY <1>1, <1>2, <2>2, NodeTop, Zenon DEF Offers
  <2> QED
    BY <2>1, <2>2
<1>3. app' \in AppType /\ app'.at = "select" /\ app'.saved = app.saved /\ app'.sent = app.sent
  BY DEF NodeInv, Node!Advance, AppType
<1> QED
  <2>1. r.stable <= app.saved /\ app.saved <= r.last
    BY <1>1 DEF NodeInv, AppType
  <2>2. app'.sent \o r.msgs = [k \in 1..r.made |-> k]
    BY <1>1, <1>3, Zenon DEF NodeInv
  <2>3. Awaits(run', app')
    BY <1>2a, <1>3 DEF Awaits
  <2> HIDE DEF r
  <2> QED
    BY <1>1, <1>2, <1>2a, <1>2b, <1>3, <2>1, <2>2, <2>3, Zenon DEF NodeInv

\* The ConfState is waited for while run waits for Advance.
LEMMA NodeConfState ==
  ASSUME NodeInv, Node!ApplyConfChange \/ Node!TakeConfState \/ Node!NoConfChange
  PROVE  NodeInv'
<1>1. CASE Node!ApplyConfChange
  <2>1. PICK removed \in BOOLEAN :
             /\ raft' = [raft EXCEPT !.member = @ /\ ~removed]
             /\ run' = [run EXCEPT !.at = "confstate", !.propc = @ /\ ~(raft.member /\ removed)]
             /\ app' = [app EXCEPT !.at = IF removed THEN "removed" ELSE "confstate"]
    BY <1>1, Zenon DEF Node!ApplyConfChange
  <2>2. /\ raft' \in RaftType /\ raft'.msgs = raft.msgs /\ raft'.made = raft.made
        /\ raft'.last = raft.last /\ raft'.stable = raft.stable
    BY <2>1, Zenon DEF NodeInv, RaftType
  <2>3. /\ run' \in RunType /\ run'.readyc = run.readyc /\ run'.advancec = run.advancec /\ run'.rd = run.rd
    BY <2>1, Zenon DEF NodeInv, RunType
  <2>4. app' \in AppType /\ app'.at \in {"removed", "confstate"} /\ app'.saved = app.saved /\ app'.sent = app.sent
    BY <2>1 DEF NodeInv, AppType
  <2>5. run.advancec
    BY <1>1, Zenon DEF Node!ApplyConfChange, NodeInv, Awaits
  <2> QED
    BY <2>2, <2>3, <2>4, <2>5, Zenon DEF NodeInv, Offers, Awaits
<1>2. CASE Node!TakeConfState
  <2> DEFINE u == [run EXCEPT !.at = "select"]
  <2>1. u \in RunType /\ u.advancec /\ u.rd = run.rd /\ run.advancec /\ raft \in RaftType
    BY <1>2 DEF Node!TakeConfState, NodeInv, Awaits, RunType
  <2>2. raft' = raft /\ run' \in RunType /\ run'.advancec /\ ~run'.readyc /\ run'.rd = run.rd
    BY <1>2, <2>1, NodeTop, Zenon DEF Node!TakeConfState, Node!Round
  <2>3. app' \in AppType /\ app'.at \in {"stopping", "advance"} /\ app'.saved = app.saved /\ app'.sent = app.sent
    BY <1>2 DEF Node!TakeConfState, NodeInv, AppType
  <2> QED
    BY <2>1, <2>2, <2>3, Zenon DEF NodeInv, Offers, Awaits
<1>3. CASE Node!NoConfChange
  BY <1>3, Zenon DEF Node!NoConfChange, NodeInv, Awaits, AppType
<1> QED
  BY <1>1, <1>2, <1>3

\* Every step of the loop of run and of its callers keeps NodeInv.
LEMMA NodeNext == NodeInv /\ [Node!Next]_(Node!vars) => NodeInv'
<1> SUFFICES ASSUME NodeInv, [Node!Next]_(Node!vars) PROVE NodeInv'
  OBVIOUS
<1>1. ASSUME UNCHANGED <<raft, run, app>> PROVE NodeInv'
  BY <1>1, Zenon DEF NodeInv
<1>2. ASSUME NEW c \in Caller, Node!Call(c) \/ Node!Take(c) \/ Node!Return(c) PROVE NodeInv'
  BY <1>1, <1>2, NodeStep DEF Node!Call, Node!Take, Node!Return
<1>3. CASE Node!Tick \/ Node!TakeTick
  BY <1>1, <1>3, NodeStep DEF Node!Tick, Node!TakeTick
<1>4. CASE Node!LeaveLoop
  BY <1>4, Zenon DEF Node!LeaveLoop, NodeInv, Awaits, AppType
<1>5. CASE Node!Serve
  <2>1. CASE Node!Stop
    BY <2>1 DEF Node!Stop, NodeInv, Offers, Awaits, RunType, AppType
  <2> QED
    BY <1>5, <2>1, NodeTakeReady, NodeConfState, NodeAdvance DEF Node!Serve
<1> QED
  BY <1>1, <1>2, <1>3, <1>4, <1>5 DEF Node!Next, Node!vars

\* What raft forgets the application has saved, and each message is sent once and in
\* order, though run makes the Ready again until it is taken (node.go, run).
THEOREM NodeReadyHandled == Node!Spec => []Node!ReadyHandled
<1>1. Node!Init => NodeInv
  BY DEF Node!Init, NodeInv, Offers, Awaits, RaftType, RunType, AppType
<1>2. NodeInv => Node!ReadyHandled
  BY DEF NodeInv, Node!ReadyHandled, Node!AdvancesWhatWasSaved, Node!SendsEachOnce
<1> QED
  BY <1>1, <1>2, NodeNext, PTL DEF Node!Spec
=============================================================================
