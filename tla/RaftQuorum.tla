----------------------------- MODULE RaftQuorum ------------------------------
(***************************************************************************)
(* etcd/raft/quorum: the decisions of a majority of a set of voters, and   *)
(* of a joint configuration <<incoming, outgoing>>, which needs both.      *)
(***************************************************************************)
EXTENDS Integers, FiniteSets, Sequences, TLC

CONSTANT MaxIndex        \* math.MaxUint64

\* acked is a function on the ids that have reported an index; the slots of the
\* others are left as zero.
AckedIndex(acked, id) == IF id \in DOMAIN acked THEN acked[id] ELSE 0

\* A range over a map of ids.
InSomeOrder(c) == CHOOSE ids \in [1..Cardinality(c) -> c] : \A id \in c : \E k \in 1..Cardinality(c) : ids[k] = id

MajorityCommitted(c, acked) ==
    LET n == Cardinality(c)
        ids == InSomeOrder(c)
        srt == SortSeq([k \in 1..n |-> AckedIndex(acked, ids[k])], <)
        pos == n - (n \div 2 + 1)
    IN  IF n = 0 THEN MaxIndex ELSE srt[pos + 1]

\* votes is a function to BOOLEAN on the ids that have voted.
MajorityVote(c, votes) ==
    LET votedCnt == Cardinality({id \in c \cap DOMAIN votes : votes[id]})
        missing == Cardinality(c \ DOMAIN votes)
        q == Cardinality(c) \div 2 + 1
    IN  IF c = {} \/ votedCnt >= q THEN "won"
        ELSE IF votedCnt + missing >= q THEN "pending" ELSE "lost"

IDs(joint) == joint[1] \cup joint[2]

CommittedIndex(joint, acked) ==
    LET idx0 == MajorityCommitted(joint[1], acked)
        idx1 == MajorityCommitted(joint[2], acked)
    IN  IF idx0 < idx1 THEN idx0 ELSE idx1

VoteResult(joint, votes) ==
    LET r1 == MajorityVote(joint[1], votes)
        r2 == MajorityVote(joint[2], votes)
    IN  IF r1 = r2 THEN r1
        ELSE IF "lost" \in {r1, r2} THEN "lost" ELSE "pending"
=============================================================================
