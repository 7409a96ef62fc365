-------------------------------- MODULE Raft ---------------------------------
(***************************************************************************)
(* etcd/raft/raft.go: the nodes of a cluster, and the Ready loop of        *)
(* raftexample/raft.go that saves, sends and applies what they produce.    *)
(* A node is a record; a handler is an operator from a node and a message  *)
(* to the node it leaves, which holds the messages to be sent.  An entry   *)
(* is its term and its configuration change.  Its log keeps the entries    *)
(* that are compacted (up to first), as the data of a snapshot does.       *)
(***************************************************************************)
EXTENDS Changer, FiniteSetsExt, SequencesExt

CONSTANTS Node,
          Starts,        \* the clusters to start from, with the bounds of each
          CatchUp,       \* snapshotCatchUpEntriesN of raftexample
          Capacity,      \* the messages between two nodes; what exceeds it is dropped
          Null           \* None, and no value

VARIABLES node,          \* raft: what each node has in memory
          disk,          \* its WAL and snapshots
          rd,            \* the Ready that its application works on
          net,           \* messages that are sent and not received
          budget,        \* the configuration, and how much may still happen
          chosen         \* the longest log that any node has committed

vars == <<node, disk, rd, net, budget, chosen>>

\* The entries that Bootstrap makes, one for each voter, are one entry here.
BootEntry(voters) == [term |-> 1, cc |-> [changes |-> voters, transition |-> "bootstrap"]]

Normal(term) == [term |-> term, cc |-> Null]

(***************************************************************************)
(* The log                                                                 *)
(***************************************************************************)
lastIndex(r) == Len(r.ents)

\* term: zero outside of the log.
LogTerm(r, i) == IF i < r.first \/ i > lastIndex(r) \/ i = 0 THEN 0 ELSE r.ents[i].term

lastTerm(r) == LogTerm(r, lastIndex(r))

isUpToDate(r, index, term) == term > lastTerm(r) \/ (term = lastTerm(r) /\ index >= lastIndex(r))

\* The highest index up to the given one with a term that is not higher.
findConflictByTerm(r, index, term) ==
    IF index > lastIndex(r) THEN index
    ELSE Max({i \in 0..index : i = 0 \/ LogTerm(r, i) <= term})

append(r, after, es) == [r EXCEPT !.ents = SubSeq(@, 1, after) \o es, !.offset = MinOf(@, after + 1)]

commitTo(r, c) ==
    [r EXCEPT !.committed = MaxOf(@, c), !.panic = @ \/ (c > r.committed /\ c > lastIndex(r))]

(***************************************************************************)
(* Messages                                                                *)
(***************************************************************************)
Blank == [type |-> "", from |-> Null, to |-> Null, term |-> 0, index |-> 0, logTerm |-> 0, ents |-> <<>>,
          commit |-> 0, reject |-> FALSE, hint |-> 0, context |-> Null, conf |-> Null]

Votes == {"vote", "voteResp", "preVote", "preVoteResp"}
Responses == {"appResp", "voteResp", "heartbeatResp", "unreachable", "preVoteResp"}

\* Votes have their term set; no other message has one yet.
send(r, m) ==
    [r EXCEPT !.panic = @ \/ (m.type \notin Votes /\ m.term # 0),
              !.msgs = @ \cup {[m EXCEPT !.from = IF @ = Null THEN r.id ELSE @,
                                  !.term = IF m.type \in Votes THEN @
                                           ELSE IF m.type \in {"prop", "readIndex"} THEN 0 ELSE r.Term]}]

\* Entries from Next; a snapshot if they are compacted.
maybeSendAppend(r, to, sendIfEmpty) ==
    LET pr == r.trk.progress[to]
        compacted == pr.Next <= lastIndex(r) /\ pr.Next <= r.first
        ents == IF compacted THEN <<>> ELSE SubSeq(r.ents, pr.Next, MinOf(lastIndex(r), pr.Next + budget.maxEnts - 1))
        last == pr.Next + Len(ents) - 1
        app == [Blank EXCEPT !.type = "app", !.to = to, !.index = pr.Next - 1, !.logTerm = LogTerm(r, pr.Next - 1),
                             !.ents = ents, !.commit = r.committed]
        snap == [Blank EXCEPT !.type = "snap", !.to = to, !.index = r.snap.index, !.conf = r.snap.conf,
                              !.ents = SubSeq(r.ents, 1, r.snap.index)]
        sent == IF ents = <<>> THEN pr
                ELSE IF pr.State = "replicate"
                THEN [OptimisticUpdate(pr, last) EXCEPT !.Inflights = Append(@, last)]
                ELSE [pr EXCEPT !.ProbeSent = TRUE]
    IN  IF IsPaused(pr) \/ (ents = <<>> /\ ~sendIfEmpty) THEN r
        ELSE IF ~compacted THEN send([r EXCEPT !.trk.progress[to] = sent], app)
        ELSE IF ~pr.RecentActive THEN r
        ELSE send([r EXCEPT !.trk.progress[to] = BecomeSnapshot(pr, r.snap.index)], snap)

Others(r) == Tracked(r.trk) \ {r.id}

bcastAppend(r) == FoldSet(LAMBDA to, acc : maybeSendAppend(acc, to, TRUE), r, Others(r))

\* Mutant: the committed index is sent whatever the follower has.
HeartbeatCommits(r, to, ctx) ==
    send(r, [Blank EXCEPT !.type = "heartbeat", !.to = to, !.commit = r.committed, !.context = ctx])

\* At most the index that the follower is known to have.
sendHeartbeat(r, to, ctx) ==
    send(r, [Blank EXCEPT !.type = "heartbeat", !.to = to, !.context = ctx,
                          !.commit = MinOf(r.trk.progress[to].Match, r.committed)])

bcastHeartbeatWithCtx(r, ctx) == FoldSet(LAMBDA to, acc : sendHeartbeat(acc, to, ctx), r, Others(r))

\* With the context of the last pending read.
bcastHeartbeat(r) == bcastHeartbeatWithCtx(r, IF r.reads = <<>> THEN Null ELSE Last(r.reads).context)

sendTimeoutNow(r, to) == send(r, [Blank EXCEPT !.type = "timeoutNow", !.to = to])

(***************************************************************************)
(* Roles                                                                   *)
(***************************************************************************)
reset(r, term) ==
    [r EXCEPT !.Term = term, !.Vote = IF r.Term = term THEN @ ELSE Null, !.lead = Null, !.leadTransferee = Null,
              !.votes = <<>>, !.pendingConfIndex = 0, !.reads = <<>>,
              !.trk.progress = [id \in Tracked(r.trk) |->
                  NewProgress(IF id = r.id THEN lastIndex(r) ELSE 0, lastIndex(r) + 1, @[id].IsLearner, FALSE)]]

becomeFollower(r, term, lead) == [reset(r, term) EXCEPT !.lead = lead, !.state = "follower"]
becomeCandidate(r) == [reset(r, r.Term + 1) EXCEPT !.Vote = r.id, !.state = "candidate"]
becomePreCandidate(r) == [r EXCEPT !.votes = <<>>, !.lead = Null, !.state = "preCandidate"]

\* A new leader waits with configuration changes for the whole of its log, and
\* starts with an empty entry.
becomeLeader(r) ==
    LET l == [reset(r, r.Term) EXCEPT !.lead = r.id, !.state = "leader"]
    IN  IF r.id \notin Tracked(r.trk) THEN [r EXCEPT !.panic = TRUE]
        ELSE append([l EXCEPT !.trk.progress[r.id] = [BecomeReplicate(@) EXCEPT !.RecentActive = TRUE],
                              !.pendingConfIndex = lastIndex(r)],
                    lastIndex(r), <<Normal(r.Term)>>)

\* Mutant: an entry of an earlier term is committed when a quorum has it.
MaybeCommitAnyTerm(r) ==
    LET mci == CommittedIndex(r.trk.voters, [id \in Tracked(r.trk) |-> r.trk.progress[id].Match])
    IN  IF mci > r.committed /\ LogTerm(r, mci) > 0 THEN commitTo(r, mci) ELSE r

\* maybeCommit: only an entry of this term, if a quorum has it.
maybeCommit(r) ==
    LET mci == CommittedIndex(r.trk.voters, [id \in Tracked(r.trk) |-> r.trk.progress[id].Match])
    IN  IF mci > r.committed /\ LogTerm(r, mci) = r.Term THEN commitTo(r, mci) ELSE r

Committed(r) == maybeCommit(r).committed > r.committed

promotable(r) == r.id \in Tracked(r.trk) /\ ~r.trk.progress[r.id].IsLearner /\ ~r.pendingSnapshot

\* poll: the first vote of a node counts.
poll(r, id, v) == [r EXCEPT !.votes = IF id \in DOMAIN @ THEN @ ELSE @ @@ (id :> v)]
TallyVotes(r) == VoteResult(r.trk.voters, r.votes)

RequestVotes(r, type, term, transfer) ==
    FoldSet(LAMBDA id, acc : send(acc, [Blank EXCEPT !.type = type, !.to = id, !.term = term, !.index = lastIndex(r),
                                                     !.logTerm = lastTerm(r),
                                                     !.context = IF transfer THEN "transfer" ELSE Null]),
            r, IDs(r.trk.voters) \ {r.id})

campaignElection(r, transfer) ==
    LET c == poll(becomeCandidate(r), r.id, TRUE)
    IN  IF TallyVotes(c) = "won" THEN becomeLeader(c) ELSE RequestVotes(c, "vote", c.Term, transfer)

campaignPreElection(r) ==
    LET c == poll(becomePreCandidate(r), r.id, TRUE)
    IN  IF TallyVotes(c) = "won" THEN campaignElection(c, FALSE) ELSE RequestVotes(c, "preVote", c.Term + 1, FALSE)

\* No campaign while a committed configuration change is not applied.
hup(r, type) ==
    LET pending == {i \in (r.applied + 1)..r.committed : r.ents[i].cc # Null}
    IN  IF r.state = "leader" \/ ~promotable(r) THEN r
        ELSE IF r.applied < r.first THEN [r EXCEPT !.panic = TRUE]
        ELSE IF pending # {} THEN r
        ELSE IF type = "preElection" THEN campaignPreElection(r) ELSE campaignElection(r, type = "transfer")

(***************************************************************************)
(* Linearizable reads                                                      *)
(***************************************************************************)
\* An answer to the node itself is a read state.
responseToReadIndexReq(r, from, index, context) ==
    IF from \in {Null, r.id} THEN [r EXCEPT !.readStates = @ \cup {[context |-> context, index |-> index]}]
    ELSE send(r, [Blank EXCEPT !.type = "readIndexResp", !.to = from, !.index = index, !.context = context])

\* addRequest, with the acknowledgement of the node itself, and a round of heartbeats.
sendMsgReadIndexResponse(r, m) ==
    LET known == \E k \in DOMAIN r.reads : r.reads[k].context = m.context
        req == [context |-> m.context, from |-> m.from, index |-> r.committed, acks |-> {r.id}]
    IN  bcastHeartbeatWithCtx([r EXCEPT !.reads = IF known THEN @ ELSE Append(@, req)], m.context)

committedEntryInCurrentTerm(r) == LogTerm(r, r.committed) = r.Term

\* Mutant: a new leader answers before it has committed an entry.
ReadAtOnce(r, m) ==
    IF Cardinality(incoming(r.trk)) = 1 /\ ~joint(r.trk) THEN responseToReadIndexReq(r, m.from, r.committed, m.context)
    ELSE sendMsgReadIndexResponse(r, m)

\* Alone, the leader answers; before its first commit it postpones the request.
ReadIndex(r, m) ==
    IF Cardinality(incoming(r.trk)) = 1 /\ ~joint(r.trk) THEN responseToReadIndexReq(r, m.from, r.committed, m.context)
    ELSE IF ~committedEntryInCurrentTerm(r) THEN [r EXCEPT !.pendingReads = Append(@, m)]
    ELSE sendMsgReadIndexResponse(r, m)

releasePendingReadIndexMessages(r) ==
    IF r.pendingReads = <<>> \/ ~committedEntryInCurrentTerm(r) THEN r
    ELSE FoldLeft(sendMsgReadIndexResponse, [r EXCEPT !.pendingReads = <<>>], r.pendingReads)

\* recvAck and advance: a quorum for a request answers it and those before it.
AckRead(r, m) ==
    LET k == {i \in DOMAIN r.reads : r.reads[i].context = m.context}
        i == CHOOSE i \in k : TRUE
        a == [r EXCEPT !.reads[i].acks = @ \cup {m.from}]
    IN  IF m.context = Null \/ k = {} THEN r
        ELSE IF VoteResult(r.trk.voters, [id \in a.reads[i].acks |-> TRUE]) # "won" THEN a
        ELSE FoldLeft(LAMBDA acc, req : responseToReadIndexReq(acc, req.from, req.index, req.context),
                      [a EXCEPT !.reads = SubSeq(@, i + 1, Len(@))], SubSeq(a.reads, 1, i))

(***************************************************************************)
(* The leader                                                              *)
(***************************************************************************)
\* A configuration change is refused, and becomes an empty entry, while an earlier
\* one may not be applied and when it does not fit a joint configuration.
Propose(r, m) ==
    LET cc == m.ents[1].cc
        refused == \/ r.pendingConfIndex > r.applied
                   \/ joint(r.trk) /\ cc.changes # <<>>
                   \/ ~joint(r.trk) /\ cc.changes = <<>>
        a == IF cc = Null THEN append(r, lastIndex(r), <<Normal(r.Term)>>)
             ELSE IF refused THEN append(r, lastIndex(r), <<Normal(r.Term)>>)
             ELSE append([r EXCEPT !.pendingConfIndex = lastIndex(r) + 1], lastIndex(r), <<[term |-> r.Term, cc |-> cc]>>)
    IN  IF r.id \notin Tracked(r.trk) \/ r.leadTransferee # Null THEN r ELSE bcastAppend(a)

AppendRejected(r, m) ==
    LET pr == r.trk.progress[m.from]
        next == IF m.logTerm > 0 THEN findConflictByTerm(r, m.hint, m.logTerm) ELSE m.hint
        dec == MaybeDecrTo(pr, m.index, next)
    IN  IF ~Decreases(pr, m.index) THEN r
        ELSE maybeSendAppend([r EXCEPT !.trk.progress[m.from] = IF dec.State = "replicate" THEN BecomeProbe(dec) ELSE dec],
                             m.from, TRUE)

\* The progress of a follower that has acknowledged an index.
Acknowledged(pr, index) ==
    CASE pr.State = "probe" -> BecomeReplicate(pr)
      [] pr.State = "snapshot" /\ pr.Match >= pr.PendingSnapshot -> BecomeReplicate(BecomeProbe(pr))
      [] pr.State = "replicate" -> [pr EXCEPT !.Inflights = FreeLE(@, index)]
      [] OTHER -> pr

\* A new commit is broadcast; a follower that was paused is sent what it lacks.
CommitOrSend(r, from, paused) ==
    IF Committed(r) THEN bcastAppend(releasePendingReadIndexMessages(maybeCommit(r)))
    ELSE IF paused THEN maybeSendAppend(r, from, TRUE) ELSE r

\* As many messages as the window has room for.
SendMore(r, from) ==
    IF from = r.id THEN r
    ELSE FoldLeft(LAMBDA acc, k : maybeSendAppend(acc, from, FALSE), r, [k \in 1..MaxInflight |-> k])

\* A leadership transfer that waited for its follower is carried on.
CarryOnTransfer(r, from, caughtUp) == IF from = r.leadTransferee /\ caughtUp THEN sendTimeoutNow(r, from) ELSE r

AppendAccepted(r, m) ==
    LET pr == r.trk.progress[m.from]
        moved == Acknowledged(MaybeUpdate(pr, m.index), m.index)
        a == CommitOrSend([r EXCEPT !.trk.progress[m.from] = moved], m.from, IsPaused(pr))
    IN  IF ~Updates(pr, m.index) THEN r
        ELSE CarryOnTransfer(SendMore(a, m.from), m.from, moved.Match = lastIndex(r))

AppResp(r, m) ==
    LET a == [r EXCEPT !.trk.progress[m.from].RecentActive = TRUE]
    IN  IF m.reject THEN AppendRejected(a, m) ELSE AppendAccepted(a, m)

HeartbeatResp(r, m) ==
    LET pr == r.trk.progress[m.from]
        a == [r EXCEPT !.trk.progress[m.from] =
                 [@ EXCEPT !.RecentActive = TRUE, !.ProbeSent = FALSE,
                           !.Inflights = IF pr.State = "replicate" /\ Full(@) THEN FreeFirstOne(@) ELSE @]]
        b == IF pr.Match < lastIndex(r) THEN maybeSendAppend(a, m.from, TRUE) ELSE a
    IN  AckRead(b, m)

SnapStatus(r, m) ==
    LET pr == r.trk.progress[m.from]
        failed == [pr EXCEPT !.PendingSnapshot = IF m.reject THEN 0 ELSE @]
    IN  IF pr.State # "snapshot" THEN r
        ELSE [r EXCEPT !.trk.progress[m.from] = [BecomeProbe(failed) EXCEPT !.ProbeSent = TRUE]]

Unreachable(r, m) == [r EXCEPT !.trk.progress[m.from] = IF @.State = "replicate" THEN BecomeProbe(@) ELSE @]

TransferLeader(r, m) ==
    LET a == [r EXCEPT !.leadTransferee = IF m.from = r.id THEN Null ELSE m.from]
    IN  IF r.trk.progress[m.from].IsLearner \/ r.leadTransferee = m.from THEN r
        ELSE IF m.from = r.id THEN a
        ELSE IF r.trk.progress[m.from].Match = lastIndex(r) THEN sendTimeoutNow(a, m.from)
        ELSE maybeSendAppend(a, m.from, TRUE)

\* The leader steps down if it has not heard from a quorum.
CheckQuorum(r) ==
    LET active == [id \in {i \in Tracked(r.trk) : ~r.trk.progress[i].IsLearner} |-> r.trk.progress[id].RecentActive]
        a == IF VoteResult(r.trk.voters, active) = "won" THEN r ELSE becomeFollower(r, r.Term, Null)
    IN  [a EXCEPT !.trk.progress = [id \in DOMAIN @ |-> IF id = r.id THEN @[id] ELSE [@[id] EXCEPT !.RecentActive = FALSE]]]

stepLeader(r, m) ==
    CASE m.type = "prop" -> Propose(r, m)
      [] m.type = "readIndex" -> ReadIndex(r, m)
      [] m.type \in {"appResp", "heartbeatResp", "snapStatus", "unreachable", "transferLeader"}
            /\ m.from \notin Tracked(r.trk) -> r
      [] m.type = "appResp" -> AppResp(r, m)
      [] m.type = "heartbeatResp" -> HeartbeatResp(r, m)
      [] m.type = "snapStatus" -> SnapStatus(r, m)
      [] m.type = "unreachable" -> Unreachable(r, m)
      [] m.type = "transferLeader" -> TransferLeader(r, m)
      [] OTHER -> r

(***************************************************************************)
(* Candidates and followers                                                *)
(***************************************************************************)
Rejection(r, m) ==
    LET hint == findConflictByTerm(r, MinOf(m.index, lastIndex(r)), m.logTerm)
    IN  [Blank EXCEPT !.type = "appResp", !.to = m.from, !.index = m.index, !.reject = TRUE, !.hint = hint,
                      !.logTerm = LogTerm(r, hint)]

Answer(r, to, index) == send(r, [Blank EXCEPT !.type = "appResp", !.to = to, !.index = index])

\* maybeAppend: only the entries behind the first conflict replace those of the log,
\* and no committed one.
handleAppendEntries(r, m) ==
    LET new == {k \in DOMAIN m.ents : LogTerm(r, m.index + k) # m.ents[k].term}
        k == Min(new)
        a == IF new = {} THEN r
             ELSE IF m.index + k <= r.committed THEN [r EXCEPT !.panic = TRUE]
             ELSE append(r, m.index + k - 1, SubSeq(m.ents, k, Len(m.ents)))
        last == m.index + Len(m.ents)
    IN  IF m.index < r.committed THEN Answer(r, m.from, r.committed)
        ELSE IF LogTerm(r, m.index) # m.logTerm THEN send(r, Rejection(r, m))
        ELSE Answer(commitTo(a, MinOf(m.commit, last)), m.from, last)

handleHeartbeat(r, m) ==
    send(commitTo(r, m.commit), [Blank EXCEPT !.type = "heartbeatResp", !.to = m.from, !.context = m.context])

\* restore: obsolete snapshots, and those without this node, are ignored; one that
\* the log has moves the committed index; another replaces log and configuration.
Restores(r, m) ==
    /\ m.index > r.committed
    /\ r.id \in m.conf.Voters \cup m.conf.Learners \cup m.conf.VotersOutgoing
    /\ LogTerm(r, m.index) # m.ents[m.index].term

\* With the configuration t that Restore makes of the snapshot's.
RestoreWith(r, m, t) ==
    [r EXCEPT !.ents = m.ents, !.offset = m.index + 1, !.first = m.index, !.committed = m.index,
              !.pendingSnapshot = TRUE, !.snap = [index |-> m.index, conf |-> m.conf], !.votes = <<>>,
              !.panic = @ \/ Fails(t),
              !.trk = IF Fails(t) THEN @ ELSE [t EXCEPT !.progress[r.id] = MaybeUpdate(@, @.Next - 1)]]

restore(r, m) == RestoreWith(r, m, Restore(m.conf, m.index))

handleSnapshot(r, m) ==
    LET known == m.index > r.committed /\ LogTerm(r, m.index) = m.ents[m.index].term
                 /\ r.id \in m.conf.Voters \cup m.conf.Learners \cup m.conf.VotersOutgoing
        a == IF known THEN commitTo(r, m.index) ELSE r
    IN  IF Restores(r, m) THEN Answer(restore(r, m), m.from, m.index) ELSE Answer(a, m.from, a.committed)

\* A candidate that hears of a leader follows it.
FromLeader(r, m) ==
    CASE m.type = "app" -> handleAppendEntries(r, m)
      [] m.type = "heartbeat" -> handleHeartbeat(r, m)
      [] m.type = "snap" -> handleSnapshot(r, m)

LeaderTypes == {"app", "heartbeat", "snap"}

stepCandidate(r, m) ==
    LET p == poll(r, m.from, ~m.reject)
    IN  IF m.type # (IF r.state = "preCandidate" THEN "preVoteResp" ELSE "voteResp") THEN r
        ELSE CASE TallyVotes(p) = "won" /\ r.state = "preCandidate" -> campaignElection(p, FALSE)
               [] TallyVotes(p) = "won" /\ r.state = "candidate" -> bcastAppend(becomeLeader(p))
               [] TallyVotes(p) = "lost" -> becomeFollower(p, r.Term, Null)
               [] TallyVotes(p) = "pending" -> p

\* Proposals, transfers and reads are forwarded to the leader, if there is one.
stepFollower(r, m) ==
    IF m.type \in {"prop", "transferLeader", "readIndex"}
    THEN IF r.lead = Null THEN r ELSE send(r, [m EXCEPT !.to = r.lead])
    ELSE IF m.type = "timeoutNow" THEN hup(r, "transfer")
    ELSE IF m.type = "readIndexResp"
    THEN [r EXCEPT !.readStates = @ \cup {[context |-> m.context, index |-> m.index]}]
    ELSE r

(***************************************************************************)
(* Step                                                                    *)
(***************************************************************************)
\* Mutant: a second vote is granted in a term.
VoteAgain(r, m) ==
    LET resp == [Blank EXCEPT !.type = IF m.type = "vote" THEN "voteResp" ELSE "preVoteResp", !.to = m.from]
    IN  IF isUpToDate(r, m.index, m.logTerm)
        THEN send([r EXCEPT !.Vote = IF m.type = "vote" THEN m.from ELSE @], [resp EXCEPT !.term = m.term])
        ELSE send(r, [resp EXCEPT !.term = r.Term, !.reject = TRUE])

\* The answer to a vote has the term of the request, a rejection that of the node.
HandleVote(r, m) ==
    LET canVote == \/ r.Vote = m.from
                   \/ r.Vote = Null /\ r.lead = Null
                   \/ m.type = "preVote" /\ m.term > r.Term
        resp == [Blank EXCEPT !.type = IF m.type = "vote" THEN "voteResp" ELSE "preVoteResp", !.to = m.from]
    IN  IF canVote /\ isUpToDate(r, m.index, m.logTerm)
        THEN send([r EXCEPT !.Vote = IF m.type = "vote" THEN m.from ELSE @], [resp EXCEPT !.term = m.term])
        ELSE send(r, [resp EXCEPT !.term = r.Term, !.reject = TRUE])

StepByState(r, m) ==
    IF m.type \in {"vote", "preVote"} THEN HandleVote(r, m)
    ELSE IF r.state = "leader" THEN stepLeader(r, m)
    ELSE IF m.type \in LeaderTypes
    THEN FromLeader(IF r.state = "follower" THEN [r EXCEPT !.lead = m.from] ELSE becomeFollower(r, m.term, m.from), m)
    ELSE IF r.state = "follower" THEN stepFollower(r, m) ELSE stepCandidate(r, m)

\* A higher term makes a follower, unless it asks or answers for a pre-vote.
HigherTerm(r, m) ==
    IF m.type = "preVote" \/ (m.type = "preVoteResp" /\ ~m.reject) THEN r
    ELSE becomeFollower(r, m.term, IF m.type \in LeaderTypes THEN m.from ELSE Null)

\* Messages of an earlier term are dropped; some are answered, to tell the term.
LowerTerm(r, m) ==
    IF (budget.checkQuorum \/ budget.preVote) /\ m.type \in {"heartbeat", "app"} THEN Answer(r, m.from, 0)
    ELSE IF m.type = "preVote"
    THEN send(r, [Blank EXCEPT !.type = "preVoteResp", !.to = m.from, !.term = r.Term, !.reject = TRUE])
    ELSE r

\* inLease: CheckQuorum, and the leader was heard of within the election timeout.
Step(r, m, recent) ==
    LET inLease == budget.checkQuorum /\ r.lead # Null /\ recent
    IN  IF m.term # 0 /\ m.term < r.Term THEN LowerTerm(r, m)
        ELSE IF m.term > r.Term /\ m.type \in {"vote", "preVote"} /\ m.context # "transfer" /\ inLease THEN r
        ELSE StepByState(IF m.term > r.Term THEN HigherTerm(r, m) ELSE r, m)

(***************************************************************************)
(* Configuration changes and Advance                                       *)
(***************************************************************************)
\* A leader that remains one commits what the new quorum has, or
\* probes the new members, and gives up a transfer to a node that left.
switchToConfig(r, t) ==
    LET a == [r EXCEPT !.trk = t]
        b == IF Committed(a) THEN bcastAppend(maybeCommit(a))
             ELSE FoldSet(LAMBDA to, acc : maybeSendAppend(acc, to, FALSE), a, Others(a))
    IN  IF Fails(t) THEN [r EXCEPT !.panic = TRUE]
        ELSE IF r.state # "leader" \/ r.id \notin Tracked(t) \/ t.progress[r.id].IsLearner THEN a
        ELSE [b EXCEPT !.leadTransferee = IF @ \in IDs(t.voters) THEN @ ELSE Null]

applyConfChange(r, cc) ==
    switchToConfig(r, IF cc.transition = "bootstrap"
                      THEN FoldSet(LAMBDA id, acc : makeVoter(acc, id, lastIndex(r)), r.trk, cc.changes)
                      ELSE Change(r.trk, cc, lastIndex(r)))

\* appliedTo, and the end of a joint configuration that is left automatically.
AppliedTo(r, i) ==
    LET a == [r EXCEPT !.applied = i, !.panic = @ \/ r.committed < i \/ i < r.applied]
        leave == [term |-> r.Term, cc |-> [changes |-> <<>>, transition |-> "auto"]]
        b == bcastAppend(append(a, lastIndex(r), <<leave>>))
    IN  IF i = 0 THEN r
        ELSE IF r.trk.autoLeave /\ r.applied <= r.pendingConfIndex /\ i >= r.pendingConfIndex /\ r.state = "leader"
        THEN [b EXCEPT !.pendingConfIndex = lastIndex(b)] ELSE a

\* The leader acknowledges the entries that were saved, as its own follower.
AckOwn(r, d) ==
    IF d.index > 0 /\ r.lead = r.id
    THEN Step(r, [Blank EXCEPT !.type = "appResp", !.from = r.id, !.index = d.index], TRUE) ELSE r

\* stableTo and stableSnapTo.
Stable(r, d) ==
    [r EXCEPT !.offset = IF d.index > 0 /\ LogTerm(r, d.index) = d.term THEN MaxOf(@, d.index + 1) ELSE @,
              !.pendingSnapshot = @ /\ d.snap # r.first]

advance(r, d) == Stable(AckOwn(AppliedTo(r, d.applied), d), d)

(***************************************************************************)
(* A node and its application                                              *)
(***************************************************************************)
Empties == [trk |-> Empty, state |-> "follower", votes |-> <<>>, lead |-> Null, leadTransferee |-> Null,
            pendingConfIndex |-> 0, reads |-> <<>>, pendingReads |-> <<>>, readStates |-> {}, msgs |-> {},
            pendingSnapshot |-> FALSE, panic |-> FALSE]

\* newRaft on what the WAL and the snapshot give.
newRaft(id, d) ==
    LET empty == d.Term = 0 /\ d.Vote = Null /\ d.committed = 0
        r == [id |-> id, Term |-> d.Term, Vote |-> d.Vote, ents |-> d.ents, first |-> d.snap.index,
              offset |-> Len(d.ents) + 1, committed |-> IF empty THEN d.snap.index ELSE d.committed,
              applied |-> d.snap.index, snap |-> d.snap, conf |-> d.snap.conf] @@ Empties
    IN  becomeFollower([r EXCEPT !.trk = Restore(d.snap.conf, Len(d.ents)),
                                 !.panic = ~empty /\ (d.committed < d.snap.index \/ d.committed > Len(d.ents))],
                       d.Term, Null)

Up(n) == node[n].state # "stopped"

Spend(what) == budget[what] > 0 /\ budget' = [budget EXCEPT ![what] = @ - 1]

\* A handler leaves node n as r.
Becomes(n, r) ==
    LET log == SubSeq(r.ents, 1, MinOf(r.committed, lastIndex(r)))
    IN  /\ node' = [node EXCEPT ![n] = r]
        /\ chosen' = IF Len(log) > Len(chosen) THEN log ELSE chosen

\* The messages of n beyond the capacity are dropped.
Sent(n, msgs) ==
    LET Room(to) == MaxOf(0, Capacity - Cardinality({m \in net : m.from = n /\ m.to = to}))
        To(ms, to) == Cardinality({m \in ms : m.to = to})
    IN  {net \cup s : s \in {k \in SUBSET msgs : \A to \in Node : To(k, to) = MinOf(To(msgs, to), Room(to))}}

\* Receive a message; answers of unknown nodes are filtered out by node.run.
Receive(n) ==
    \E m \in net, recent \in BOOLEAN :
        /\ m.to = n /\ Up(n)
        /\ recent => budget.checkQuorum
        /\ Becomes(n, IF m.type \in Responses /\ m.from \notin Tracked(node[n].trk) THEN node[n]
                      ELSE Step(node[n], m, recent))
        /\ net' = net \ {m}
        /\ UNCHANGED <<disk, rd, budget>>

Handles(n, r) == Becomes(n, r) /\ UNCHANGED <<disk, rd, net>>

\* MsgHup, MsgCheckQuorum and MsgBeat do not leave the node: hup, CheckQuorum and
\* bcastHeartbeat are what Step does with them.
TickElection(n) ==
    /\ Up(n) /\ node[n].state # "leader" /\ promotable(node[n])
    /\ Spend("elections")
    /\ Handles(n, hup(node[n], IF budget.preVote THEN "preElection" ELSE "election"))

\* Each tick is a heartbeat; at an election timeout the quorum is checked first, and
\* a transfer given up.
TickHeartbeat(n) ==
    LET Checked(r) == IF budget.checkQuorum THEN CheckQuorum(r) ELSE r
        GivenUp(r) == IF r.state = "leader" THEN [r EXCEPT !.leadTransferee = Null] ELSE r
        Beaten(r) == IF r.state = "leader" THEN bcastHeartbeat(r) ELSE r
    IN  /\ Up(n) /\ node[n].state = "leader"
        /\ Spend("beats")
        /\ \E timeout \in BOOLEAN : Handles(n, Beaten(IF timeout THEN GivenUp(Checked(node[n])) ELSE node[n]))

\* What an application may ask of its node: to propose an entry or a configuration
\* change, to read, to transfer the leadership.
Requests(n, what) ==
    CASE what = "proposals" -> {[Blank EXCEPT !.type = "prop", !.from = n, !.ents = <<Normal(0)>>]}
      [] what = "changes" -> {[Blank EXCEPT !.type = "prop", !.from = n, !.ents = <<[term |-> 0, cc |-> cc]>>] : cc \in budget.ccs}
      [] what = "reads" -> {[Blank EXCEPT !.type = "readIndex", !.context = Len(budget.asked) + 1]}
      [] what = "transfers" -> {[Blank EXCEPT !.type = "transferLeader", !.from = to] : to \in Node}

\* node.run takes proposals only while there is a leader.
Ask(n) ==
    \E what \in {"proposals", "changes", "reads", "transfers"} :
        /\ Up(n) /\ budget[what] > 0
        /\ what \in {"proposals", "changes"} => node[n].lead # Null
        /\ budget' = [budget EXCEPT ![what] = @ - 1, !.asked = IF what = "reads" THEN Append(@, Len(chosen)) ELSE @]
        /\ \E m \in Requests(n, what) : Handles(n, Step(node[n], m, FALSE))

\* ReportUnreachable and ReportSnapshot of the transport.
Report(n) ==
    /\ Up(n) /\ node[n].state = "leader"
    /\ Spend("reports")
    /\ \E to \in Node \ {n}, type \in {"unreachable", "snapStatus"}, failed \in BOOLEAN :
          Handles(n, stepLeader(node[n], [Blank EXCEPT !.type = type, !.from = to, !.reject = failed]))

(***************************************************************************)
(* The Ready loop                                                          *)
(***************************************************************************)
Unstable(r) == r.offset <= lastIndex(r)

HasReady(n) ==
    LET r == node[n]
    IN  \/ r.msgs # {} \/ Unstable(r) \/ r.pendingSnapshot
        \/ r.committed > r.applied
        \/ <<r.Term, r.Vote, r.committed>> # <<disk[n].Term, disk[n].Vote, disk[n].committed>>

\* MustSync: a new committed index alone is written and not synced.
MustSync(n) == Unstable(node[n]) \/ node[n].pendingSnapshot \/ node[n].Term # disk[n].Term \/ node[n].Vote # disk[n].Vote

\* The WAL is only appended to: behind a snapshot that replaced the log its entries
\* stay, until others are written.
Saved(n) ==
    LET r == node[n]
        tail == IF Unstable(r) THEN <<>> ELSE SubSeq(disk[n].ents, lastIndex(r) + 1, Len(disk[n].ents))
    IN  [Term |-> r.Term, Vote |-> r.Vote, committed |-> r.committed, ents |-> r.ents \o tail,
         synced |-> IF MustSync(n) THEN r.committed ELSE disk[n].synced,
         snap |-> IF r.pendingSnapshot THEN r.snap ELSE disk[n].snap]

\* The snapshot and the WAL are saved, then the messages are sent; a snapshot that is
\* sent gets the configuration of the application.
Ready(n) ==
    LET r == node[n]
        first == MaxOf(r.applied, r.first) + 1
        conf == IF r.pendingSnapshot THEN r.snap.conf ELSE r.conf
        cursor == IF r.committed >= first THEN r.committed ELSE IF r.pendingSnapshot THEN r.first ELSE 0
        msgs == {[m EXCEPT !.conf = IF m.type = "snap" THEN conf ELSE @] : m \in r.msgs}
    IN  /\ Up(n) /\ rd[n] = Null /\ HasReady(n)
        /\ rd' = [rd EXCEPT ![n] = [index |-> IF Unstable(r) THEN lastIndex(r) ELSE 0, term |-> lastTerm(r),
                                    snap |-> IF r.pendingSnapshot THEN r.first ELSE 0, applied |-> cursor,
                                    todo |-> SelectSeq(SubSeq(r.ents, first, r.committed), LAMBDA e : e.cc # Null)]]
        /\ disk' = [disk EXCEPT ![n] = Saved(n)]
        /\ net' \in Sent(n, msgs)
        /\ Becomes(n, [r EXCEPT !.msgs = {}, !.conf = conf])
        /\ UNCHANGED budget

Removes(cc, n) == cc.transition # "bootstrap" /\ \E k \in DOMAIN cc.changes : cc.changes[k] = [type |-> "remove", id |-> n]

\* publishEntries: configuration changes go back to raft, one by one; a node that is
\* removed stops.
Publish(n) ==
    LET cc == rd[n].todo[1].cc
        Applied(r) == [r EXCEPT !.conf = ConfState(r.trk), !.state = IF Removes(cc, n) THEN "stopped" ELSE @]
    IN  /\ Up(n) /\ rd[n] # Null /\ rd[n].todo # <<>>
        /\ Becomes(n, Applied(applyConfChange(node[n], cc)))
        /\ rd' = [rd EXCEPT ![n].todo = Tail(@)]
        /\ UNCHANGED <<disk, net, budget>>

\* maybeTriggerSnapshot, then Advance.
Advance(n) ==
    LET r == node[n]
        done == MaxOf(rd[n].applied, r.applied)
        trigger == done - disk[n].snap.index > budget.snapCount
        snap == [index |-> done, conf |-> r.conf]
        c == IF trigger /\ ~r.pendingSnapshot THEN [r EXCEPT !.snap = snap, !.first = MaxOf(@, done - CatchUp)] ELSE r
    IN  /\ Up(n) /\ rd[n] # Null /\ rd[n].todo = <<>>
        /\ disk' = [disk EXCEPT ![n] = IF trigger THEN [@ EXCEPT !.snap = snap, !.synced = disk[n].committed] ELSE @]
        /\ Becomes(n, advance(c, rd[n]))
        /\ rd' = [rd EXCEPT ![n] = Null]
        /\ UNCHANGED <<net, budget>>

Restarts(n, d) ==
    /\ disk' = [disk EXCEPT ![n] = [d EXCEPT !.synced = d.committed]]
    /\ Becomes(n, newRaft(n, d))
    /\ rd' = [rd EXCEPT ![n] = Null]
    /\ UNCHANGED net

\* A crash; a committed index that is not synced may be lost.
Crash(n) ==
    /\ Up(n)
    /\ Spend("crashes")
    /\ \E c \in {disk[n].synced, disk[n].committed} : Restarts(n, [disk[n] EXCEPT !.committed = c])

\* A crash in wal.Save, after the entries and before the hard state.
CrashInSave(n) ==
    /\ Up(n) /\ rd[n] = Null /\ Unstable(node[n]) /\ ~node[n].pendingSnapshot
    /\ Spend("crashes")
    /\ Restarts(n, [disk[n] EXCEPT !.ents = node[n].ents])

\* A cluster whose nodes have started with what is on their disks, and have applied
\* what they know to be committed; one of them may just have won the election.
Init ==
    \E s \in Starts :
        LET cs == [ConfState(Empty) EXCEPT !.Voters = s.voters]
            Elected(r) == IF r.id = s.leader THEN bcastAppend(becomeLeader(r)) ELSE r
            started(n) == [newRaft(n, s.disk[n]) EXCEPT !.applied = s.disk[n].committed, !.conf = IF n \in s.voters THEN cs ELSE @,
                                                        !.trk = IF n \in s.voters THEN Restore(cs, 1) ELSE @]
        IN  /\ budget = s.budget
            /\ disk = s.disk
            /\ node = [n \in Node |-> Elected(becomeFollower(started(n), s.disk[n].Term, Null))]
            /\ rd = [n \in Node |-> Null]
            /\ net = {}
            /\ chosen = s.chosen

\* What the application does with a Ready, and what else may happen to a node.
HandleReady(n) == Ready(n) \/ Advance(n) \/ CrashInSave(n)

Happen(n) ==
    \/ Receive(n) \/ TickElection(n) \/ TickHeartbeat(n) \/ Ask(n) \/ Report(n)
    \/ Publish(n) \/ Crash(n)

Next == \E n \in Node : ~node[n].panic /\ (HandleReady(n) \/ Happen(n))

Spec == Init /\ [][Next]_vars

(***************************************************************************)
(* Properties                                                              *)
(***************************************************************************)
\* No two nodes lead in one term: a vote survives a crash before it is sent, and
\* quorums of different configurations meet.
ElectionSafety ==
    \A a, b \in Node : a # b /\ node[a].state = "leader" /\ node[b].state = "leader" => node[a].Term # node[b].Term

\* What any node has committed is never changed: the committed log of every node is
\* a part of the longest one, and so is what a restarted node replays.
CommittedAgree ==
    \A n \in Node :
        LET c == MinOf(node[n].committed, Len(node[n].ents))
        IN  SubSeq(node[n].ents, 1, c) = SubSeq(chosen, 1, c)

\* No panic of raft is reached: no committed entry is overwritten, the committed index
\* stays in the log, configuration changes apply, and what is saved can be loaded.
NodesNeverPanic == \A n \in Node : ~node[n].panic

\* An answered read is not behind what was committed anywhere when it was asked.
ReadsAreCurrent == \A n \in Node : \A s \in node[n].readStates : s.index >= budget.asked[s.context]

\* A leader has every entry that was committed in an earlier term or its own, and does
\* not overwrite it: a vote goes only to a log that is as up to date as the voter's.
LeaderCompleteness ==
    \A n \in Node : node[n].state = "leader" /\ chosen # <<>> /\ node[n].Term >= Last(chosen).term
                        => IsPrefix(chosen, node[n].ents)
=============================================================================
