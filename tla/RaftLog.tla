------------------------------- MODULE RaftLog -------------------------------
(***************************************************************************)
(* etcd/raft/log.go, log_unstable.go and storage.go: the log of one node,  *)
(* part of it in memory (unstable) and part in the MemoryStorage that the  *)
(* application fills.  Messages of leaders change the log while the        *)
(* application works on a Ready.  An entry is its term; its place in the   *)
(* sequence gives the index.                                               *)
(***************************************************************************)
EXTENDS Integers, Sequences, SequencesExt

CONSTANTS LeaderLog,     \* the logs of the leaders, by term, which match as raft's do
          Commits,       \* how much of its log each leader commits
          MaxBatch,      \* maxNextEntsSize, in entries
          SnapCount,     \* snapCount and snapshotCatchUpEntriesN of raftexample
          CatchUp,
          Null

VARIABLES st,            \* MemoryStorage: the dummy entry, the entries behind it, the snapshot
          un,            \* unstable
          committed, applied,
          term, match,   \* the term of the leader, and what it knows of this log
          rd,            \* the Ready the application works on, and how far it is
          app,           \* appliedIndex, snapshotIndex and the entries executed
          ideal,         \* the log as one sequence
          panic

vars == <<st, un, committed, applied, term, match, rd, app, ideal, panic>>

Compacted == -1
Unavailable == -2
Max2(a, b) == IF a > b THEN a ELSE b
Min2(a, b) == IF a < b THEN a ELSE b

(***************************************************************************)
(* MemoryStorage                                                           *)
(***************************************************************************)
StorageLast == st.index + Len(st.ents)

StorageTerm(i) ==
    IF i < st.index THEN Compacted
    ELSE IF i > StorageLast THEN Unavailable
    ELSE IF i = st.index THEN st.term ELSE st.ents[i - st.index]

ApplySnapshot(s, snap) ==
    IF s.snap.index >= snap.index THEN s
    ELSE [index |-> snap.index, term |-> snap.term, ents |-> <<>>, snap |-> snap]

\* The part of ents, which start at index first, that is not compacted replaces
\* what is behind it.
Append2(s, first, ents) ==
    LET cut == Max2(0, s.index + 1 - first)
        new == SubSeq(ents, cut + 1, Len(ents))
        offset == Max2(first, s.index + 1) - s.index
    IN  IF ents = <<>> \/ cut >= Len(ents) THEN s
        ELSE [s EXCEPT !.ents = SubSeq(@, 1, offset - 1) \o new]

MissingEntry(s, first, ents) == ents # <<>> /\ first > s.index + Len(s.ents) + 1

CreateSnapshot(s, i) == [s EXCEPT !.snap = [index |-> i, term |-> s.ents[i - s.index]]]

Compact(s, i) ==
    [s EXCEPT !.index = i, !.term = s.ents[i - s.index], !.ents = SubSeq(@, i - s.index + 1, Len(@))]

(***************************************************************************)
(* raftLog over unstable and storage                                       *)
(***************************************************************************)
firstIndex == IF un.snap # Null THEN un.snap.index + 1 ELSE st.index + 1

lastIndex ==
    IF un.ents # <<>> THEN un.offset + Len(un.ents) - 1
    ELSE IF un.snap # Null THEN un.snap.index ELSE StorageLast

\* unstable.maybeTerm; Null if unstable does not know it.
maybeTerm(i) ==
    IF i < un.offset THEN IF un.snap # Null /\ un.snap.index = i THEN un.snap.term ELSE Null
    ELSE IF i < un.offset + Len(un.ents) THEN un.ents[i - un.offset + 1] ELSE Null

LogTerm(i) ==
    IF i < firstIndex - 1 \/ i > lastIndex THEN 0
    ELSE IF maybeTerm(i) # Null THEN maybeTerm(i) ELSE StorageTerm(i)

matchTerm(i, t) == LogTerm(i) = t

\* slice: an error, or the entries of lo..(hi - 1); those below the offset are in
\* the storage.
SliceFails(lo, hi) == lo < firstIndex \/ (lo < hi /\ lo < un.offset /\ lo <= st.index)
Slice(lo, hi) == [k \in 1..(hi - lo) |-> LogTerm(lo + k - 1)]

\* The first of the entries behind index that the log does not have; 0 for none.
findConflict(index, ents) ==
    LET new == {k \in DOMAIN ents : ~matchTerm(index + k, ents[k])}
    IN  IF new = {} THEN 0 ELSE index + CHOOSE k \in new : \A j \in new : k <= j

truncateAndAppend(after, ents) ==
    IF after = un.offset + Len(un.ents) THEN [un EXCEPT !.ents = @ \o ents]
    ELSE IF after <= un.offset THEN [un EXCEPT !.offset = after, !.ents = ents]
    ELSE [un EXCEPT !.ents = SubSeq(@, 1, after - un.offset) \o ents]

\* Mutant: the term of the entry is not compared.
StableToAnyTerm(i, t) ==
    IF maybeTerm(i) # Null /\ i >= un.offset
    THEN [un EXCEPT !.ents = SubSeq(@, i + 2 - un.offset, Len(@)), !.offset = i + 1]
    ELSE un

\* An entry that was replaced since the Ready stays unstable.
stableTo(i, t) ==
    IF maybeTerm(i) = t /\ i >= un.offset
    THEN [un EXCEPT !.ents = SubSeq(@, i + 2 - un.offset, Len(@)), !.offset = i + 1]
    ELSE un

stableSnapTo(u, i) == IF u.snap # Null /\ u.snap.index = i THEN [u EXCEPT !.snap = Null] ELSE u

(***************************************************************************)
(* Messages of the leader of a term                                        *)
(***************************************************************************)
Term == DOMAIN LeaderLog

Panic == panic' = TRUE /\ UNCHANGED <<st, un, committed, applied, term, match, rd, app, ideal>>

\* commitTo(c): past the end of the log the node panics.
CommitTo(c, last) == committed' = Max2(committed, c) /\ panic' = (c > Max2(committed, last))

Acks(t, n) == term' = t /\ match' = IF t = term THEN Max2(match, n) ELSE n

\* A message with an index below committed is only answered.
HandleAppendEntries(t) ==
    \E index \in 0..Len(LeaderLog[t]), n \in 0..2, c \in 0..Commits[t] :
        LET ents == SubSeq(LeaderLog[t], index + 1, index + n)
            ci == findConflict(index, ents)
        IN  /\ index + n <= Len(LeaderLog[t])
            /\ IF index < committed
               THEN Acks(t, Min2(committed, Commits[t])) /\ UNCHANGED <<un, committed, ideal, panic>>
               ELSE IF ~matchTerm(index, IF index = 0 THEN 0 ELSE LeaderLog[t][index])
               THEN Acks(t, 0) /\ UNCHANGED <<un, committed, ideal, panic>>
               ELSE /\ un' = IF ci = 0 THEN un ELSE truncateAndAppend(ci, SubSeq(ents, ci - index, n))
                    /\ ideal' = IF ci = 0 THEN ideal ELSE SubSeq(ideal, 1, ci - 1) \o SubSeq(ents, ci - index, n)
                    /\ committed' = Max2(committed, Min2(c, index + n))
                    /\ panic' = (ci # 0 /\ ci <= committed)
                    /\ Acks(t, index + n)
            /\ UNCHANGED <<st, applied, rd, app>>

HandleHeartbeat(t) ==
    /\ t = term
    /\ \E c \in 0..Min2(match, Commits[t]) : CommitTo(c, lastIndex)
    /\ UNCHANGED <<st, un, applied, term, match, rd, app, ideal>>

\* raft.restore: a snapshot behind committed is ignored, one that the log has moves
\* committed, another replaces the log.
HandleSnapshot(t) ==
    \E s \in 1..Commits[t] :
        LET snap == [index |-> s, term |-> LeaderLog[t][s]]
        IN  /\ s > committed
            /\ committed' = s
            /\ Acks(t, s)
            /\ IF matchTerm(s, snap.term) THEN panic' = (s > lastIndex) /\ UNCHANGED <<un, ideal>>
               ELSE /\ un' = [offset |-> s + 1, ents |-> <<>>, snap |-> snap]
                    /\ ideal' = SubSeq(LeaderLog[t], 1, s)
                    /\ UNCHANGED panic
            /\ UNCHANGED <<st, applied, rd, app>>

\* hup: the candidate reads the entries that are not applied, and an error of slice
\* ends the node; not with a snapshot pending, when it is not promotable.
Hup ==
    /\ un.snap = Null
    /\ panic' = SliceFails(applied + 1, committed + 1)
    /\ UNCHANGED <<st, un, committed, applied, term, match, rd, app, ideal>>

(***************************************************************************)
(* The application: Ready, ApplySnapshot, Append, publish, Advance         *)
(***************************************************************************)
Ready ==
    LET off == Max2(applied + 1, firstIndex)
        hi == Min2(committed + 1, off + MaxBatch)
    IN  /\ rd = Null
        /\ un.snap # Null \/ un.ents # <<>> \/ committed + 1 > off
        /\ IF committed + 1 > off /\ SliceFails(off, hi) THEN Panic
           ELSE /\ rd' = [at |-> "save", first |-> un.offset, ents |-> un.ents, snap |-> un.snap,
                          lo |-> off, committed |-> IF committed + 1 > off THEN Slice(off, hi) ELSE <<>>]
                /\ UNCHANGED <<st, un, committed, applied, term, match, app, ideal, panic>>

\* ApplySnapshot and publishSnapshot, which refuses a snapshot behind appliedIndex.
Save ==
    /\ rd # Null /\ rd.at = "save"
    /\ rd' = [rd EXCEPT !.at = "append"]
    /\ IF rd.snap = Null THEN UNCHANGED <<st, app, panic>>
       ELSE /\ st' = ApplySnapshot(st, rd.snap)
            /\ panic' = (rd.snap.index <= app.applied)
            /\ app' = [applied |-> rd.snap.index, snapshot |-> rd.snap.index, log |-> Null]
    /\ UNCHANGED <<un, committed, applied, term, match, ideal>>

AppendToStorage ==
    /\ rd # Null /\ rd.at = "append"
    /\ rd' = [rd EXCEPT !.at = "publish"]
    /\ IF MissingEntry(st, rd.first, rd.ents) THEN panic' = TRUE /\ UNCHANGED st
       ELSE st' = Append2(st, rd.first, rd.ents) /\ UNCHANGED panic
    /\ UNCHANGED <<un, committed, applied, term, match, app, ideal>>

\* entriesToApply and publishEntries, then maybeTriggerSnapshot, whose Compact may fail.
Publish ==
    LET last == rd.lo + Len(rd.committed) - 1
        new == SubSeq(rd.committed, app.applied + 2 - rd.lo, Len(rd.committed))
        now == IF rd.committed = <<>> THEN app.applied ELSE Max2(app.applied, last)
        compactIndex == IF now > CatchUp THEN now - CatchUp ELSE 1
        gap == rd.committed # <<>> /\ rd.lo > app.applied + 1
        snaps == now - app.snapshot > SnapCount
    IN  /\ rd # Null /\ rd.at = "publish"
        /\ rd' = [rd EXCEPT !.at = "advance"]
        /\ app' = [applied |-> now, snapshot |-> IF snaps THEN now ELSE app.snapshot,
                   log |-> IF rd.committed = <<>> \/ gap THEN app.log ELSE [at |-> app.applied, ents |-> new]]
        /\ st' = IF snaps /\ compactIndex > st.index THEN Compact(CreateSnapshot(st, now), compactIndex) ELSE st
        /\ panic' = (gap \/ (snaps /\ compactIndex <= st.index))
        /\ UNCHANGED <<un, committed, applied, term, match, ideal>>

\* raft.advance.
Advance ==
    LET cursor == IF rd.committed # <<>> THEN rd.lo + Len(rd.committed) - 1
                  ELSE IF rd.snap # Null THEN rd.snap.index ELSE 0
        u == IF rd.ents = <<>> THEN un ELSE stableTo(rd.first + Len(rd.ents) - 1, Last(rd.ents))
    IN  /\ rd # Null /\ rd.at = "advance"
        /\ rd' = Null
        /\ un' = IF rd.snap = Null THEN u ELSE stableSnapTo(u, rd.snap.index)
        /\ applied' = IF cursor = 0 THEN applied ELSE cursor
        /\ panic' = (cursor # 0 /\ (committed < cursor \/ cursor < applied))
        /\ UNCHANGED <<st, committed, term, match, app, ideal>>

\* A node that restarts: its storage has a snapshot, the entries behind it that a
\* leader had sent, and a committed index.
Init ==
    /\ term \in Term
    /\ \E s \in 0..Commits[term], n \in 0..Len(LeaderLog[term]), c \in 0..Commits[term] :
          LET t == IF s = 0 THEN 0 ELSE LeaderLog[term][s]
          IN  /\ s <= c /\ c <= n
              /\ st = [index |-> s, term |-> t, ents |-> SubSeq(LeaderLog[term], s + 1, n), snap |-> [index |-> s, term |-> t]]
              /\ un = [offset |-> n + 1, ents |-> <<>>, snap |-> Null]
              /\ committed = c /\ applied = s
              /\ app = [applied |-> s, snapshot |-> s, log |-> Null]
              /\ ideal = SubSeq(LeaderLog[term], 1, n)
    /\ match = 0 /\ rd = Null /\ panic = FALSE

Next ==
    /\ ~panic
    /\ \/ \E t \in Term : t >= term /\ (HandleAppendEntries(t) \/ HandleSnapshot(t) \/ HandleHeartbeat(t))
       \/ Hup \/ Ready \/ Save \/ AppendToStorage \/ Publish \/ Advance

Spec == Init /\ [][Next]_vars

(***************************************************************************)
(* Properties                                                              *)
(***************************************************************************)
\* Whatever part of the log is unstable, saved, replaced or compacted, raft reads
\* one log: the terms it finds are those of the entries it has accepted.
OneLog ==
    /\ lastIndex = Len(ideal)
    /\ \A i \in (firstIndex - 1)..lastIndex : i > 0 => LogTerm(i) = ideal[i]

\* No interleaving of messages with the work on a Ready meets one of the panics of
\* the log, the storage or raftexample.
NeverPanics == ~panic

\* The application executes the entries of the last leader's log, which has all that
\* was committed, each once and in order.
ExecutesCommitted ==
    app.log # Null =>
        \A k \in DOMAIN app.log.ents : app.log.ents[k] = LeaderLog[Len(LeaderLog)][app.log.at + k]

\* The log, through messages and the work on a Ready: one log, no panic, and what is
\* committed is executed.
LogIntact == OneLog /\ NeverPanics /\ ExecutesCommitted
=============================================================================
