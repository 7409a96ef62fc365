------------------------------- MODULE Changer -------------------------------
(***************************************************************************)
(* etcd/raft/confchange: the changes of a configuration, simple and joint, *)
(* and its restoration from the ConfState of a snapshot.  A tracker is a   *)
(* configuration with the progress of its members.                         *)
(***************************************************************************)
EXTENDS Progress, RaftQuorum

Empty == [voters |-> <<{}, {}>>, learners |-> {}, learnersNext |-> {}, autoLeave |-> FALSE, progress |-> <<>>]
Failed == [error |-> TRUE]
Fails(t) == "error" \in DOMAIN t

incoming(t) == t.voters[1]
outgoing(t) == t.voters[2]
joint(t) == outgoing(t) # {}
Tracked(t) == DOMAIN t.progress

SetProgress(t, id, pr) == [t EXCEPT !.progress = [i \in Tracked(t) \cup {id} |-> IF i = id THEN pr ELSE @[i]]]
DropProgress(t, ids) == [t EXCEPT !.progress = [i \in Tracked(t) \ ids |-> @[i]]]

(***************************************************************************)
(* The single changes                                                      *)
(***************************************************************************)
initProgress(t, id, isLearner, lastIndex) ==
    LET u == IF isLearner THEN [t EXCEPT !.learners = @ \cup {id}] ELSE [t EXCEPT !.voters[1] = @ \cup {id}]
    IN  SetProgress(u, id, NewProgress(0, lastIndex, isLearner, TRUE))

makeVoter(t, id, lastIndex) ==
    IF id \notin Tracked(t) THEN initProgress(t, id, FALSE, lastIndex)
    ELSE [t EXCEPT !.progress[id].IsLearner = FALSE, !.learners = @ \ {id}, !.learnersNext = @ \ {id},
                   !.voters[1] = @ \cup {id}]

\* An id that still votes in the outgoing configuration keeps its progress.
remove(t, id) ==
    IF id \notin Tracked(t) THEN t
    ELSE LET u == [t EXCEPT !.voters[1] = @ \ {id}, !.learners = @ \ {id}, !.learnersNext = @ \ {id}]
         IN  IF id \in outgoing(t) THEN u ELSE DropProgress(u, {id})

\* Removed as a voter, with its progress saved; an outgoing voter waits in
\* LearnersNext.
makeLearner(t, id, lastIndex) ==
    IF id \notin Tracked(t) THEN initProgress(t, id, TRUE, lastIndex)
    ELSE IF t.progress[id].IsLearner THEN t
    ELSE LET u == SetProgress(remove(t, id), id, t.progress[id])
         IN  IF id \in outgoing(t) THEN [u EXCEPT !.learnersNext = @ \cup {id}]
             ELSE [u EXCEPT !.progress[id].IsLearner = TRUE, !.learners = @ \cup {id}]

ApplyOne(t, cc, lastIndex) ==
    CASE cc.type = "add" -> makeVoter(t, cc.id, lastIndex)
      [] cc.type = "learner" -> makeLearner(t, cc.id, lastIndex)
      [] cc.type = "remove" -> remove(t, cc.id)
      [] cc.type = "update" -> t

apply(t, ccs, lastIndex) ==
    LET after[k \in 0..Len(ccs)] == IF k = 0 THEN t ELSE ApplyOne(after[k - 1], ccs[k], lastIndex)
        u == after[Len(ccs)]
    IN  IF incoming(u) = {} THEN Failed ELSE u

\* The error of a tracker that checkInvariants refuses.
checkInvariants(t) ==
    /\ IDs(t.voters) \cup t.learners \cup t.learnersNext \subseteq Tracked(t)
    /\ \A id \in t.learnersNext : id \in outgoing(t) /\ ~t.progress[id].IsLearner
    /\ \A id \in t.learners : id \notin IDs(t.voters) /\ t.progress[id].IsLearner
    /\ ~joint(t) => t.learnersNext = {} /\ ~t.autoLeave

checkAndReturn(t) == IF Fails(t) \/ ~checkInvariants(t) THEN Failed ELSE t

\* Config.Clone does not copy AutoLeave.
checkAndCopy(t) == checkAndReturn([t EXCEPT !.autoLeave = FALSE])

(***************************************************************************)
(* The changes of a configuration                                          *)
(***************************************************************************)
symdiff(l, r) == Cardinality(l \ r) + Cardinality(r \ l)

Simple(t, ccs, lastIndex) ==
    LET c == checkAndCopy(t)
        u == apply(c, ccs, lastIndex)
    IN  IF Fails(c) \/ joint(t) THEN Failed
        ELSE IF Fails(u) \/ symdiff(incoming(t), incoming(u)) > 1 THEN Failed
        ELSE checkAndReturn(u)

\* Mutant: the outgoing voters are copied after the changes.
EnterLate(t, autoLeave, ccs, lastIndex) ==
    LET c == checkAndCopy(t)
        u == apply(c, ccs, lastIndex)
    IN  IF Fails(c) \/ joint(t) \/ incoming(t) = {} THEN Failed
        ELSE IF Fails(u) THEN Failed ELSE checkAndReturn([u EXCEPT !.autoLeave = autoLeave, !.voters[2] = incoming(u)])

EnterJoint(t, autoLeave, ccs, lastIndex) ==
    LET c == checkAndCopy(t)
        u == apply([c EXCEPT !.voters[2] = incoming(c)], ccs, lastIndex)
    IN  IF Fails(c) \/ joint(t) \/ incoming(t) = {} THEN Failed
        ELSE IF Fails(u) THEN Failed ELSE checkAndReturn([u EXCEPT !.autoLeave = autoLeave])

\* The staged learners become learners; who is neither voter nor learner is dropped.
LeaveJoint(t) ==
    LET c == checkAndCopy(t)
        learners == t.learners \cup t.learnersNext
        u == [c EXCEPT !.learners = learners, !.learnersNext = {}, !.voters[2] = {}, !.autoLeave = FALSE,
                       !.progress = [id \in Tracked(t) |-> IF id \in t.learnersNext THEN [@[id] EXCEPT !.IsLearner = TRUE]
                                                           ELSE @[id]]]
    IN  IF Fails(c) \/ ~joint(t) THEN Failed
        ELSE checkAndReturn(DropProgress(u, {id \in outgoing(t) : id \notin incoming(t) \cup learners}))

\* ConfChangeV2: no change leaves the joint configuration; more than one change,
\* or an explicit transition, enters one.
Change(t, cc, lastIndex) ==
    IF cc.changes = <<>> /\ cc.transition = "auto" THEN LeaveJoint(t)
    ELSE IF cc.transition # "auto" \/ Len(cc.changes) > 1
         THEN EnterJoint(t, cc.transition # "explicit", cc.changes, lastIndex)
         ELSE Simple(t, cc.changes, lastIndex)

(***************************************************************************)
(* ConfState and Restore                                                   *)
(***************************************************************************)
ConfState(t) ==
    [Voters |-> incoming(t), VotersOutgoing |-> outgoing(t), Learners |-> t.learners,
     LearnersNext |-> t.learnersNext, AutoLeave |-> t.autoLeave]

\* The changes of one type for the ids of a set, in some order.
Changes(type, ids) == [k \in 1..Cardinality(ids) |-> [type |-> type, id |-> InSomeOrder(ids)[k]]]

\* Mutant: the outgoing voters are not removed first.
IncomingAdds(cs) ==
    Changes("add", cs.Voters) \o Changes("learner", cs.Learners) \o Changes("learner", cs.LearnersNext)

toConfChangeOut(cs) == Changes("add", cs.VotersOutgoing)
toConfChangeIn(cs) ==
    Changes("remove", cs.VotersOutgoing) \o Changes("add", cs.Voters) \o
    Changes("learner", cs.Learners) \o Changes("learner", cs.LearnersNext)

\* Simple changes, one by one, until one fails.
chain(t, ccs, lastIndex) ==
    LET after[k \in 0..Len(ccs)] ==
            IF k = 0 THEN t
            ELSE IF Fails(after[k - 1]) THEN after[k - 1] ELSE Simple(after[k - 1], <<ccs[k]>>, lastIndex)
    IN  after[Len(ccs)]

Restore(cs, lastIndex) ==
    LET out == chain(Empty, toConfChangeOut(cs), lastIndex)
    IN  IF cs.VotersOutgoing = {} THEN chain(Empty, toConfChangeIn(cs), lastIndex)
        ELSE IF Fails(out) THEN Failed
        ELSE EnterJoint(out, cs.AutoLeave, toConfChangeIn(cs), lastIndex)
=============================================================================
