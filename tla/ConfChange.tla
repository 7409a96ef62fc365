----------------------------- MODULE ConfChange ------------------------------
(***************************************************************************)
(* The configurations that a node goes through: any changes that Changer   *)
(* accepts, one after the other.                                           *)
(***************************************************************************)
EXTENDS Changer

CONSTANTS Id,            \* the ids of nodes
          InitialVoters,
          MaxChanges     \* the most changes in one ConfChangeV2

VARIABLE trk             \* the tracker that a node has switched to

LastIndex == 1

Init == trk = Restore([ConfState(Empty) EXCEPT !.Voters = InitialVoters], LastIndex)

Single == [type : {"add", "learner", "remove"}, id : Id]
ChangeLists == UNION {[1..n -> Single] : n \in 0..MaxChanges}

\* A change that fails is not proposed here: applyConfChange panics with its error.
ApplyConfChange ==
    \E ccs \in ChangeLists, tr \in {"auto", "implicit", "explicit"} :
        LET t == Change(trk, [changes |-> ccs, transition |-> tr], LastIndex)
        IN  ~Fails(t) /\ trk' = t

Spec == Init /\ [][ApplyConfChange]_trk

(***************************************************************************)
(* Properties                                                              *)
(***************************************************************************)
\* The sets of voters that win an election, or acknowledge an entry, alone.
Quorums(t) == {q \in SUBSET IDs(t.voters) : VoteResult(t.voters, [id \in q |-> TRUE]) = "won"}

\* Every quorum of a configuration meets every quorum of the next one: while nodes
\* switch at different times no two disjoint sets of nodes can decide.
Overlap == \A p \in Quorums(trk), q \in Quorums(trk)' : p \cap q # {}

QuorumsOverlap == [][Overlap]_trk

\* A node that restores the ConfState of a snapshot has the configuration that it was
\* taken of, joint or not, up to what a leader knows of the followers.
RestoresConfState ==
    LET t == Restore(ConfState(trk), LastIndex)
    IN  /\ ~Fails(t)
        /\ ConfState(t) = ConfState(trk)
        /\ \A id \in Tracked(t) : id \in Tracked(trk) /\ t.progress[id].IsLearner = trk.progress[id].IsLearner
        /\ Tracked(trk) = Tracked(t)

\* Unless every voter is removed or the change is of the wrong kind, the changes
\* give a configuration that checkInvariants accepts.
NeverInconsistent ==
    \A ccs \in ChangeLists :
        ~joint(trk) /\ ~Fails(apply([trk EXCEPT !.voters[2] = incoming(trk)], ccs, LastIndex))
            => ~Fails(EnterJoint(trk, TRUE, ccs, LastIndex)) /\ ~Fails(LeaveJoint(EnterJoint(trk, TRUE, ccs, LastIndex)))

\* The committed index is the highest that a quorum has acknowledged, for every
\* configuration reached and whatever its voters have reported.
CommittedByQuorum ==
    \A known \in SUBSET IDs(trk.voters) : \A acked \in [known -> 0..2] :
        LET reached == {i \in 0..2 : \E q \in Quorums(trk) : \A id \in q : AckedIndex(acked, id) >= i}
        IN  CommittedIndex(trk.voters, acked) = CHOOSE i \in reached : \A j \in reached : j <= i

\* Every configuration reached can be restored, changed and counted in.
ConfigurationsSound == RestoresConfState /\ NeverInconsistent /\ CommittedByQuorum
=============================================================================
