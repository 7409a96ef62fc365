-------------------------------- MODULE WAL ----------------------------------
(***************************************************************************)
(* etcd/server/storage/wal and api/snap: the log files and the snapshot    *)
(* files of a node, as the Ready loop of raftexample writes them, and what *)
(* replayWAL makes of them after a crash.  A log is the sequence of the    *)
(* terms of its entries.  The records of checksums and metadata are left   *)
(* out: a record that is partly on disk is one that cannot be read.        *)
(***************************************************************************)
EXTENDS Integers, Sequences, SequencesExt, FiniteSets, TLC

CONSTANTS Chosen,         \* the log that the cluster commits
          MaxIdx, MaxTerm,
          SegmentSize,    \* SegmentSizeBytes, in records
          MaxSaves, MaxCrash,
          Null

VARIABLES files,          \* the .wal files in the order of their names: index and records
          synced,         \* how many records of the last file are on disk
          enti, state,    \* of the WAL: the last entry written, the last hard state
          locks,          \* the first file that is locked
          snaps,          \* the .snap files
          mem,            \* the raft: term, commit, log, and the index of its snapshot
          job,            \* what the Ready loop has still to do, step by step
          image,          \* what a node has that reads all the records; Null if it is not defined
          loaded,         \* what the last restart should have found and has found
          left            \* the bounds on saves and crashes

vars == <<files, synced, enti, state, locks, snaps, mem, job, image, loaded, left>>

Larger(a, b) == IF a > b THEN a ELSE b

tail == files[Len(files)]

(***************************************************************************)
(* Writing                                                                 *)
(***************************************************************************)
\* encode: a record goes behind the others, with the image of all of them.
Encode(recs) == files' = [files EXCEPT ![Len(files)].recs = @ \o recs]

Entry(i, t, img) == [type |-> "entry", index |-> i, term |-> t, commit |-> 0, img |-> img]
State(st, img) == [type |-> "state", index |-> 0, term |-> st.term, commit |-> st.commit, img |-> img]
Snapshot(s, img) == [type |-> "snapshot", index |-> s.index, term |-> s.term, commit |-> 0, img |-> img]

\* The entries of ents behind index first - 1, each in place of what was there.
Entries(first, ents, img) ==
    [k \in DOMAIN ents |->
        Entry(first + k - 1, ents[k],
              IF img = Null THEN Null ELSE [img EXCEPT !.log = SubSeq(@, 1, first - 1) \o SubSeq(ents, 1, k)])]

\* Snapshotter.SaveSnap writes and syncs a file.
SaveSnap(s) ==
    /\ snaps' = {f \in snaps : f.index # s.index \/ f.term # s.term} \cup {[index |-> s.index, term |-> s.term, good |-> TRUE]}
    /\ UNCHANGED <<files, synced, enti, state, locks, image>>

\* WAL.SaveSnapshot writes its record and syncs; enti never falls.
SaveSnapshot(s) ==
    /\ Encode(<<Snapshot(s, image)>>)
    /\ synced' = Len(tail.recs) + 1
    /\ enti' = Larger(enti, s.index)
    /\ UNCHANGED <<state, locks, snaps, image>>

\* Locks are released up to the last file with a smaller index than the given one.
ReleaseLockTo(index) ==
    LET larger == {i \in locks..Len(files) : files[i].index >= index}
        keep == IF larger = {} THEN Len(files) ELSE (CHOOSE i \in larger : \A j \in larger : i <= j) - 1
    IN  locks' = Larger(locks, keep) /\ UNCHANGED <<files, synced, enti, state, snaps, image>>

\* Save, up to the sync: the entries, then the hard state.  With a snapshot received
\* in the same Ready the image is not defined before the hard state that has it.
SaveRecords(w) ==
    LET es == Entries(w.first, w.ents, IF w.snap = Null THEN image ELSE Null)
        st == IF w.st = Null THEN <<>> ELSE <<State(w.st, w.img)>>
    IN  /\ Encode(es \o st)
        /\ enti' = IF w.ents = <<>> THEN enti ELSE w.first + Len(w.ents) - 1
        /\ state' = IF w.st = Null THEN state ELSE w.st
        /\ image' = w.img
        /\ UNCHANGED <<synced, locks, snaps>>

MustSync(st, prev, n) == n # 0 \/ (IF st = Null THEN 0 ELSE st.term) # (IF prev = Null THEN 0 ELSE prev.term)

\* cut: sync, then a file that is named after the next entry and starts with the hard
\* state, if Save has been given one since the WAL was opened.
cut ==
    LET recs == IF state = Null THEN <<>> ELSE <<State(state, image)>>
    IN  /\ files' = Append(files, [index |-> enti + 1, recs |-> recs])
        /\ synced' = Len(recs)

\* The rest of Save.
SaveEnd(w) ==
    /\ IF Len(tail.recs) >= SegmentSize THEN cut
       ELSE /\ synced' = IF MustSync(w.st, w.prev, Len(w.ents)) THEN Len(tail.recs) ELSE synced
            /\ UNCHANGED files
    /\ UNCHANGED <<enti, state, locks, snaps, image>>

(***************************************************************************)
(* Reading                                                                 *)
(***************************************************************************)
Records(fs, from) == FlattenSeq([k \in 1..(Len(fs) - from + 1) |-> fs[from + k - 1].recs])

\* The commit index of the last hard state.
Committed(recs) ==
    LET sts == SelectSeq(recs, LAMBDA r : r.type = "state") IN IF sts = <<>> THEN 0 ELSE Last(sts).commit

\* Mutant: snapshots that are not committed are valid.
AllSnapshotEntries(fs) ==
    LET recs == Records(fs, 1)
    IN  {[index |-> recs[k].index, term |-> recs[k].term] : k \in {j \in DOMAIN recs : recs[j].type = "snapshot"}}

ValidSnapshotEntries(fs) ==
    LET recs == Records(fs, 1)
        valid == {k \in DOMAIN recs : recs[k].type = "snapshot" /\ recs[k].index <= Committed(recs)}
    IN  {[index |-> recs[k].index, term |-> recs[k].term] : k \in valid}

\* The newest snapshot that can be read and is among those of the WAL.
LoadNewestAvailable(fs, sn) ==
    LET ok == {f \in sn : f.good /\ [index |-> f.index, term |-> f.term] \in ValidSnapshotEntries(fs)}
        newest == CHOOSE f \in ok : \A g \in ok : f.term > g.term \/ (f.term = g.term /\ f.index >= g.index)
    IN  IF ok = {} THEN [index |-> 0, term |-> 0] ELSE [index |-> newest.index, term |-> newest.term]

\* searchIndex: the last file whose name has an index that is not larger.
searchIndex(fs, index) ==
    LET ok == {i \in DOMAIN fs : fs[i].index <= index} IN CHOOSE i \in ok : \A j \in ok : j <= i

\* ReadAll: an entry replaces those from its index on; one beyond the end is an error.
\* That the snapshot was not found is no error: the creation of the encoder resets it.
ReadRecord(acc, r, start) ==
    LET up == r.index - start.index - 1
    IN  IF acc.failed THEN acc
        ELSE CASE r.type = "entry" ->
                    IF r.index <= start.index THEN [acc EXCEPT !.enti = r.index]
                    ELSE IF up > Len(acc.ents) THEN [acc EXCEPT !.failed = TRUE]
                    ELSE [acc EXCEPT !.ents = SubSeq(@, 1, up) \o <<r.term>>, !.enti = r.index]
               [] r.type = "state" -> [acc EXCEPT !.term = r.term, !.commit = r.commit]
               [] r.type = "snapshot" -> [acc EXCEPT !.failed = r.index = start.index /\ r.term # start.term]

ReadAll(fs, start) ==
    FoldLeft(LAMBDA acc, r : ReadRecord(acc, r, start),
             [failed |-> FALSE, ents |-> <<>>, term |-> 0, commit |-> 0, enti |-> 0],
             Records(fs, searchIndex(fs, start.index)))

\* raft's loadState, with its panics; an empty hard state is not loaded.
LoadState(r, snap, from) ==
    LET empty == r.term = 0 /\ r.commit = 0
    IN  [ok |-> ~r.failed /\ (empty \/ (snap <= r.commit /\ r.commit <= snap + Len(r.ents))),
         snap |-> snap, ents |-> r.ents, term |-> r.term, enti |-> r.enti,
         commit |-> IF empty THEN snap ELSE r.commit, from |-> from]

\* openWAL at a snapshot, and replayWAL from the newest one.
ReplayFrom(fs, start) == LoadState(ReadAll(fs, start), start.index, searchIndex(fs, start.index))

replayWAL(fs, sn) == ReplayFrom(fs, LoadNewestAvailable(fs, sn))

(***************************************************************************)
(* The Ready loop of raftexample                                           *)
(***************************************************************************)
\* saveSnap, with the file first.
SnapSteps(s) == << <<"file", s>>, <<"record", s>>, <<"release", s>> >>

Idle == job = <<>> /\ left.saves > 0 /\ mem # Null

Agrees(log, c) == c <= Len(Chosen) /\ SubSeq(log, 1, c) = SubSeq(Chosen, 1, c)

\* A Ready with entries behind index i, or only a hard state.  Raft replaces only
\* entries that are not committed, and only by others.
ReadySave ==
    \E t \in Larger(1, mem.term)..MaxTerm, i \in mem.commit..Len(mem.log), n \in 0..2 :
    \E ents \in {[k \in 1..n |-> t]} \cup {SubSeq(Chosen, i + 1, j) : j \in {i + n} \cap DOMAIN Chosen} :
        LET log == IF n = 0 THEN mem.log ELSE SubSeq(mem.log, 1, i) \o ents
        IN  /\ Idle /\ i + n <= MaxIdx
            /\ \A k \in 1..n : ents[k] <= t
            /\ n > 0 /\ i < Len(mem.log) => mem.log[i + 1] # ents[1]
            /\ \E c \in mem.commit..Len(log) :
                  LET img == [term |-> t, commit |-> c, log |-> log]
                      st == IF t = mem.term /\ c = mem.commit THEN Null ELSE [term |-> t, commit |-> c]
                      w == [first |-> i + 1, ents |-> ents, st |-> st, prev |-> state, snap |-> Null, img |-> img]
                  IN  /\ st # Null \/ n > 0
                      /\ Agrees(log, c)
                      /\ mem' = [mem EXCEPT !.term = t, !.commit = c, !.log = log]
                      /\ job' = << <<"write", w>>, <<"end", w>> >>
            /\ left' = [left EXCEPT !.saves = @ - 1]
            /\ UNCHANGED <<files, synced, enti, state, locks, snaps, image, loaded>>

\* A Ready with a snapshot of the leader, which the log does not have, and the entries
\* that came behind it.
ReadySnapshot ==
    \E t \in Larger(1, mem.term)..MaxTerm, s \in (mem.commit + 1)..Len(Chosen), n \in 0..1 :
        LET log == SubSeq(Chosen, 1, s) \o [k \in 1..n |-> t]
            snap == [index |-> s, term |-> Chosen[s]]
            img == [term |-> t, commit |-> s, log |-> log]
            w == [first |-> s + 1, ents |-> [k \in 1..n |-> t], st |-> [term |-> t, commit |-> s], prev |-> state,
                  snap |-> snap, img |-> img]
        IN  /\ Idle /\ s + n <= MaxIdx /\ Chosen[s] <= t
            /\ s <= Len(mem.log) => mem.log[s] # Chosen[s]
            /\ mem' = [mem EXCEPT !.term = t, !.commit = s, !.log = log, !.snap = s]
            /\ job' = SnapSteps(snap) \o << <<"write", w>>, <<"end", w>> >>
            /\ left' = [left EXCEPT !.saves = @ - 1]
            /\ UNCHANGED <<files, synced, enti, state, locks, snaps, image, loaded>>

\* maybeTriggerSnapshot of what is committed.
TriggerSnapshot ==
    /\ Idle /\ mem.commit > mem.snap
    /\ mem' = [mem EXCEPT !.snap = mem.commit]
    /\ job' = SnapSteps([index |-> mem.commit, term |-> mem.log[mem.commit]])
    /\ left' = [left EXCEPT !.saves = @ - 1]
    /\ UNCHANGED <<files, synced, enti, state, locks, snaps, image, loaded>>

Work ==
    /\ job # <<>>
    /\ job' = Tail(job)
    /\ LET what == job[1][1] arg == job[1][2]
       IN  CASE what = "file" -> SaveSnap(arg)
             [] what = "record" -> SaveSnapshot(arg)
             [] what = "release" -> ReleaseLockTo(arg.index)
             [] what = "write" -> SaveRecords(arg)
             [] what = "end" -> SaveEnd(arg)
    /\ UNCHANGED <<mem, loaded, left>>

(***************************************************************************)
(* A crash, and the restart                                                *)
(***************************************************************************)
\* The first k records of the last file are left of a crash.
Kept(k) == [files EXCEPT ![Len(files)].recs = SubSeq(@, 1, k)]

Want(k) == LET recs == Records(Kept(k), 1) IN IF recs = <<>> THEN [term |-> 0, commit |-> 0, log |-> <<>>] ELSE Last(recs).img

\* Records that are not synced may be lost, from the last; a snapshot file that was
\* being written may be broken, and is put aside.  What the WAL has in memory of the
\* hard state is not read back.
Crash ==
    \E k \in synced..Len(tail.recs), broken \in BOOLEAN :
        LET s == job[1][2]
            sn == IF broken THEN {f \in snaps : f.index # s.index \/ f.term # s.term}
                                 \cup {[index |-> s.index, term |-> s.term, good |-> FALSE]}
                  ELSE snaps
            got == replayWAL(Kept(k), sn)
            want == Want(k)
        IN  /\ mem # Null /\ left.crashes > 0
            /\ broken => job # <<>> /\ job[1][1] = "file"
            /\ left' = [left EXCEPT !.crashes = @ - 1]
            /\ loaded' = [want |-> want, got |-> got]
            /\ files' = Kept(k) /\ synced' = k
            /\ snaps' = {f \in sn : f.good}
            /\ job' = <<>>
            /\ IF want = Null \/ ~got.ok
               THEN mem' = Null /\ UNCHANGED <<enti, state, locks, image>>
               ELSE LET log == SubSeq(Chosen, 1, got.snap) \o got.ents
                    IN  /\ mem' = [term |-> got.term, commit |-> got.commit, log |-> log, snap |-> got.snap]
                        /\ image' = [term |-> got.term, commit |-> got.commit, log |-> log]
                        /\ enti' = got.enti /\ state' = Null /\ locks' = got.from

\* A record that is partly written ends ReadAll with ErrUnexpectedEOF: the node does not
\* start, and raftexample does not call Repair.
CrashTorn ==
    /\ mem # Null /\ left.crashes > 0 /\ synced < Len(tail.recs)
    /\ left' = [left EXCEPT !.crashes = @ - 1]
    /\ mem' = Null /\ job' = <<>>
    /\ UNCHANGED <<files, synced, enti, state, locks, snaps, image, loaded>>

\* Create leaves a file with the record of the empty snapshot.
Init ==
    LET img == [term |-> 0, commit |-> 0, log |-> <<>>]
    IN  /\ files = <<[index |-> 0, recs |-> <<Snapshot([index |-> 0, term |-> 0], img)>>]>>
        /\ synced = 1 /\ enti = 0 /\ state = Null /\ locks = 1
        /\ snaps = {}
        /\ mem = img @@ [snap |-> 0]
        /\ image = img
        /\ job = <<>> /\ loaded = Null
        /\ left = [saves |-> MaxSaves, crashes |-> MaxCrash]

Next == (mem # Null /\ (ReadySave \/ ReadySnapshot \/ TriggerSnapshot)) \/ Work \/ Crash \/ CrashTorn

Spec == Init /\ [][Next]_vars

(***************************************************************************)
(* Properties                                                              *)
(***************************************************************************)
\* From whatever records a crash has left whole, a node restarts with the term, the
\* commit index and the entries of the last Ready that they hold, through files that
\* were cut, snapshots and entries that were replaced.  Entries may follow that a
\* snapshot had replaced.
RestartsFromRecords ==
    loaded # Null /\ loaded.want # Null =>
        LET got == loaded.got want == loaded.want
        IN  /\ got.ok
            /\ got.term = want.term /\ got.commit = want.commit
            /\ got.snap <= want.commit
            /\ Len(want.log) <= got.snap + Len(got.ents)
            /\ \A i \in (got.snap + 1)..Len(want.log) : got.ents[i - got.snap] = want.log[i]

\* When a Save has returned, and its messages are sent, only a commit index can be lost.
SyncedBeforeSent ==
    job = <<>> /\ mem # Null =>
        \A k \in (synced + 1)..Len(tail.recs) : k > 1 /\ tail.recs[k].img.term = tail.recs[k - 1].img.term
                                                     /\ tail.recs[k].img.log = tail.recs[k - 1].img.log

\* The files that a restart reads are locked, so that none of them is purged.
LocksCoverRestart == job = <<>> /\ mem # Null => replayWAL(files, snaps).from >= locks

\* What a node has told others is on its disk, and a restart finds it.
Durable == RestartsFromRecords /\ SyncedBeforeSent /\ LocksCoverRestart
=============================================================================
