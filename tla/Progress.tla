------------------------------ MODULE Progress -------------------------------
(***************************************************************************)
(* etcd/raft/tracker: what a leader knows of a follower, and the operators *)
(* that change it.  The window of messages in flight is a sequence here;   *)
(* module Inflights has the ring buffer that holds it.                     *)
(***************************************************************************)
EXTENDS Integers, Sequences

CONSTANT MaxInflight     \* the size of the window

MaxOf(a, b) == IF a > b THEN a ELSE b
MinOf(a, b) == IF a > b THEN b ELSE a

NewInflights == <<>>
Full(in) == Len(in) = MaxInflight
FreeLE(in, to) == SelectSeq(in, LAMBDA i : i > to)
FreeFirstOne(in) == FreeLE(in, in[1])

\* Progress as reset and initProgress make it, in StateProbe.
NewProgress(match, next, isLearner, recentActive) ==
    [Match |-> match, Next |-> next, State |-> "probe", PendingSnapshot |-> 0, RecentActive |-> recentActive,
     ProbeSent |-> FALSE, Inflights |-> NewInflights, IsLearner |-> isLearner]

ResetState(pr, state) ==
    [pr EXCEPT !.ProbeSent = FALSE, !.PendingSnapshot = 0, !.State = state, !.Inflights = NewInflights]

\* After a snapshot the follower is probed behind it.
BecomeProbe(pr) ==
    [ResetState(pr, "probe") EXCEPT
        !.Next = IF pr.State = "snapshot" THEN MaxOf(pr.Match + 1, pr.PendingSnapshot + 1) ELSE pr.Match + 1]

BecomeReplicate(pr) == [ResetState(pr, "replicate") EXCEPT !.Next = pr.Match + 1]

BecomeSnapshot(pr, snapshoti) == [ResetState(pr, "snapshot") EXCEPT !.PendingSnapshot = snapshoti]

\* MaybeUpdate answers whether Match has grown.
Updates(pr, n) == pr.Match < n
MaybeUpdate(pr, n) ==
    [pr EXCEPT !.Match = MaxOf(@, n), !.ProbeSent = @ /\ ~Updates(pr, n), !.Next = MaxOf(@, n + 1)]

OptimisticUpdate(pr, n) == [pr EXCEPT !.Next = n + 1]

\* MaybeDecrTo answers FALSE for a rejection that is out of date.
Decreases(pr, rejected) ==
    IF pr.State = "replicate" THEN rejected > pr.Match ELSE pr.Next - 1 = rejected
MaybeDecrTo(pr, rejected, matchHint) ==
    IF pr.State = "replicate" THEN [pr EXCEPT !.Next = pr.Match + 1]
    ELSE [pr EXCEPT !.Next = MaxOf(MinOf(rejected, matchHint + 1), 1), !.ProbeSent = FALSE]

IsPaused(pr) ==
    CASE pr.State = "probe" -> pr.ProbeSent
      [] pr.State = "replicate" -> Full(pr.Inflights)
      [] pr.State = "snapshot" -> TRUE
=============================================================================
