---------------------------- MODULE ClusterProofs ----------------------------
(***************************************************************************)
(* Theorems about the server and its cluster, for any connections, nodes   *)
(* and changes: the quorums of successive configurations, the peers that a *)
(* node sends to, the end of the program and the answers to proposals.     *)
(***************************************************************************)
EXTENDS Integers, Sequences, FiniteSets, FiniteSetTheorems, WellFoundedInduction, TLAPS

CONSTANTS MaxInflight, MaxIndex, Id, InitialVoters, MaxChanges,   \* ConfChange
          Initial,                                                \* Membership
          Conn, IsCluster, Kinds                                  \* Server

VARIABLES trk,                                                    \* ConfChange
          log, voters, Peers, transport, done, state,             \* Membership
          main, acceptor, isTerminating, listening, cancelled, wg, h, broken, closed,
          proposer, raftUp, entries, commits, found, panic        \* Server

(***************************************************************************)
(* The quorums of successive configurations                                *)
(***************************************************************************)
Conf == INSTANCE ConfChange

\* More than half of the voters of c are in q.
Majority(c, q) == Cardinality(q \cap c) >= Cardinality(c) \div 2 + 1

\* Majorities of two sets of voters that differ in at most one voter meet.
LEMMA MajoritiesMeet ==
    ASSUME NEW A, NEW B, IsFiniteSet(A), IsFiniteSet(B), NEW p, NEW q,
           Cardinality(A \ B) + Cardinality(B \ A) <= 1,
           Majority(A, p), Majority(B, q)
    PROVE  p \cap q # {}
<1>1. PICK a : a = p \cap A  BY Zenon
<1>2. PICK b : b = q \cap B  BY Zenon
<1>3. SUFFICES ASSUME a \cap b = {} PROVE FALSE  BY <1>1, <1>2
<1>4. /\ Cardinality(A) \in Nat /\ Cardinality(B) \in Nat
      /\ IsFiniteSet(a) /\ Cardinality(a) \in Nat
      /\ IsFiniteSet(b) /\ Cardinality(b) \in Nat
  BY <1>1, <1>2, FS_CardinalityType, FS_Subset
<1>5. /\ IsFiniteSet(A \cup B)
      /\ Cardinality(A \cup B) = Cardinality(A) + Cardinality(B) - Cardinality(A \cap B)
  BY FS_Union
<1>6. Cardinality(A \ B) = Cardinality(A) - Cardinality(A \cap B)
  BY FS_Difference, Zenon
<1>7. Cardinality(B \ A) = Cardinality(B) - Cardinality(B \cap A)
  BY FS_Difference, Zenon
<1>8. Cardinality(B \ A) = Cardinality(B) - Cardinality(A \cap B)
  <2>1. A \cap B = B \cap A  OBVIOUS
  <2> QED BY <1>7, <2>1
<1>9. Cardinality(A \cap B) \in Nat
  BY FS_Intersection, FS_CardinalityType, Zenon
<1>10. Cardinality(a \cup b) = Cardinality(a) + Cardinality(b) - Cardinality(a \cap b)
  BY <1>4, FS_Union
<1>11. Cardinality(a \cap b) = 0
  BY <1>3, FS_EmptySet
<1>12. a \cup b \in SUBSET (A \cup B)  BY <1>1, <1>2
<1>13. Cardinality(a \cup b) <= Cardinality(A \cup B)
  BY <1>5, <1>12, FS_Subset
<1>14. /\ Cardinality(a) >= Cardinality(A) \div 2 + 1
       /\ Cardinality(b) >= Cardinality(B) \div 2 + 1
  BY <1>1, <1>2 DEF Majority
<1>15. \A x, y, i, m, n \in Nat :
          (x - i) + (y - i) <= 1 /\ m >= x \div 2 + 1 /\ n >= y \div 2 + 1 /\ x - i >= 0 /\ y - i >= 0
          => ~ (m + n <= x + y - i)
  OBVIOUS
<1>16. Cardinality(A \ B) \in Nat /\ Cardinality(B \ A) \in Nat
  BY FS_Difference, FS_CardinalityType, Zenon
<1>17. PICK x, y, i, m, n \in Nat : /\ x = Cardinality(A) /\ y = Cardinality(B) /\ i = Cardinality(A \cap B)
                                    /\ m = Cardinality(a) /\ n = Cardinality(b)
  BY <1>4, <1>9
<1>18. (x - i) + (y - i) <= 1 /\ x - i >= 0 /\ y - i >= 0
  <2>1. x - i = Cardinality(A \ B) /\ y - i = Cardinality(B \ A)  BY <1>6, <1>8, <1>17
  <2> QED BY <1>16, <2>1
<1>19. m + n <= x + y - i
  BY <1>5, <1>10, <1>11, <1>13, <1>17
<1> QED BY <1>14, <1>17, <1>18, <1>19

\* The instance counts as this module does.
LEMMA SameCardinality == ASSUME NEW S PROVE Conf!Cardinality(S) = Cardinality(S)
BY DEF Conf!Cardinality, Cardinality

\* A set that wins a vote has a majority of each set of voters that is not empty.
LEMMA QuorumIsMajority ==
    ASSUME NEW t, NEW q \in Conf!Quorums(t)
    PROVE  /\ t.voters[1] # {} => Majority(t.voters[1], q)
           /\ t.voters[2] # {} => Majority(t.voters[2], q)
<1>1. PICK v : v = [id \in q |-> TRUE]  BY Zenon
<1>2. Conf!VoteResult(t.voters, v) = "won"
  BY <1>1 DEF Conf!Quorums
<1>3. Conf!MajorityVote(t.voters[1], v) = "won" /\ Conf!MajorityVote(t.voters[2], v) = "won"
  BY <1>2 DEF Conf!VoteResult
<1>4. ASSUME NEW c, c # {}, Conf!MajorityVote(c, v) = "won"
      PROVE  Majority(c, q)
  <2>1. {id \in c \cap DOMAIN v : v[id]} = q \cap c  BY <1>1
  <2> QED BY <1>4, <2>1, SameCardinality, Zenon DEF Conf!MajorityVote, Majority
<1> QED BY <1>3, <1>4
\* A tracker, with finitely many voters.
IsTracker(t) ==
    /\ t \in [voters : {t.voters}, learners : {t.learners}, learnersNext : {t.learnersNext},
              autoLeave : {t.autoLeave}, progress : {t.progress}]
    /\ t.voters = <<t.voters[1], t.voters[2]>>
    /\ IsFiniteSet(t.voters[1]) /\ IsFiniteSet(t.voters[2])

Change == [type : {"add", "learner", "remove"}, id : Id]

\* What a change may do to the voters: the outgoing ones stay, the incoming are finite ids.
LEMMA Incoming ==
    ASSUME NEW t, IsTracker(t), NEW S, IsFiniteSet(S), NEW u,
           u = [t EXCEPT !.voters[1] = S]
    PROVE  IsTracker(u) /\ u.voters[1] = S /\ u.voters[2] = t.voters[2]
<1>1. PICK v : v = [t.voters EXCEPT ![1] = S]  BY Zenon
<1>2. v = <<S, t.voters[2]>>  BY <1>1 DEF IsTracker
<1>3. u = [t EXCEPT !.voters = v]  BY <1>1
<1> QED BY DEF IsTracker

\* Changes of the progress alone keep the shape of a tracker.
LEMMA ProgressKept ==
    ASSUME NEW t, IsTracker(t), NEW id, NEW pr, NEW ids
    PROVE  /\ IsTracker(Conf!SetProgress(t, id, pr)) /\ Conf!SetProgress(t, id, pr).voters = t.voters
           /\ IsTracker(Conf!DropProgress(t, ids)) /\ Conf!DropProgress(t, ids).voters = t.voters
<1>1. ASSUME NEW P PROVE IsTracker([t EXCEPT !.progress = P]) /\ [t EXCEPT !.progress = P].voters = t.voters
  BY DEF IsTracker
<1> QED BY <1>1 DEF Conf!SetProgress, Conf!DropProgress

\* initProgress changes no outgoing voter and at most one incoming one.
LEMMA InitProgressKeeps ==
    ASSUME NEW t, IsTracker(t), NEW id, NEW l, NEW n
    PROVE  IsTracker(Conf!initProgress(t, id, l, n)) /\ Conf!initProgress(t, id, l, n).voters[2] = t.voters[2]
<1>1. PICK u : u = IF l THEN [t EXCEPT !.learners = @ \cup {id}] ELSE [t EXCEPT !.voters[1] = @ \cup {id}]
  BY Zenon
<1>2. IsTracker(u) /\ u.voters[2] = t.voters[2]
  <2>1. CASE l
    <3>1. u = [t EXCEPT !.learners = t.learners \cup {id}]  BY <1>1, <2>1
    <3> QED BY <3>1 DEF IsTracker
  <2>2. CASE ~l
    <3>1. PICK S : S = t.voters[1] \cup {id}  BY Zenon
    <3>2. IsFiniteSet(S)  BY <3>1, FS_AddElement DEF IsTracker
    <3>3. u = [t EXCEPT !.voters[1] = S]  BY <1>1, <2>2, <3>1
    <3> QED BY <3>2, <3>3, Incoming
  <2> QED BY <2>1, <2>2
<1>3. PICK pr : pr = Conf!NewProgress(0, n, l, TRUE)  BY Zenon
<1>4. Conf!initProgress(t, id, l, n) = Conf!SetProgress(u, id, pr)
  BY ONLY <1>1, <1>3 DEF Conf!initProgress
<1>5. IsTracker(Conf!SetProgress(u, id, pr)) /\ Conf!SetProgress(u, id, pr).voters = u.voters
  BY <1>2, ProgressKept
<1> QED BY <1>2, <1>4, <1>5

\* makeVoter adds at most the one id to the incoming voters.
LEMMA MakeVoterKeeps ==
    ASSUME NEW t, IsTracker(t), NEW id, NEW n
    PROVE  IsTracker(Conf!makeVoter(t, id, n)) /\ Conf!makeVoter(t, id, n).voters[2] = t.voters[2]
<1>1. CASE id \notin Conf!Tracked(t)
  <2>1. PICK l : l = FALSE  BY Zenon
  <2>2. Conf!makeVoter(t, id, n) = Conf!initProgress(t, id, l, n)  BY <1>1, <2>1, Zenon DEF Conf!makeVoter
  <2> QED BY <2>2, InitProgressKeeps
<1>2. CASE id \in Conf!Tracked(t)
  <2>1. PICK S : S = t.voters[1] \cup {id}  BY Zenon
  <2>2. IsFiniteSet(S)  BY <2>1, FS_AddElement DEF IsTracker
  <2>3. PICK P : P = [t.progress EXCEPT ![id].IsLearner = FALSE]  BY Zenon
  <2>4. PICK v : v = [t EXCEPT !.voters[1] = S]  BY Zenon
  <2>5. IsTracker(v) /\ v.voters[2] = t.voters[2]  BY <2>2, <2>4, Incoming
  <2>6. PICK L, N, a : L = t.learners \ {id} /\ N = t.learnersNext \ {id} /\ a = t.autoLeave  BY Zenon
  <2>9. PICK u : u = [v EXCEPT !.learners = L, !.learnersNext = N, !.progress = P, !.autoLeave = a]  OBVIOUS
  <2>7. IsTracker(u) /\ u.voters = v.voters  BY <2>5, <2>9, Zenon DEF IsTracker
  <2>8. u = Conf!makeVoter(t, id, n)
    BY <1>2, <2>1, <2>3, <2>4, <2>6, <2>9, Zenon DEF Conf!makeVoter
  <2> QED BY <2>5, <2>7, <2>8
<1> QED BY <1>1, <1>2

\* remove takes at most the one id from the incoming voters.
LEMMA RemoveKeeps ==
    ASSUME NEW t, IsTracker(t), NEW id
    PROVE  IsTracker(Conf!remove(t, id)) /\ Conf!remove(t, id).voters[2] = t.voters[2]
<1>1. CASE id \notin Conf!Tracked(t)
  BY <1>1 DEF Conf!remove
<1>2. CASE id \in Conf!Tracked(t)
  <2>1. PICK S : S = t.voters[1] \ {id}  BY Zenon
  <2>2. IsFiniteSet(S)  BY <2>1, FS_RemoveElement, Zenon DEF IsTracker
  <2>3. PICK v : v = [t EXCEPT !.voters[1] = S]  BY Zenon
  <2>4. IsTracker(v) /\ v.voters[2] = t.voters[2]  BY <2>2, <2>3, Incoming
  <2>5. PICK L, N, P, a : L = t.learners \ {id} /\ N = t.learnersNext \ {id} /\ P = t.progress /\ a = t.autoLeave
    BY Zenon
  <2>6. PICK u : u = [v EXCEPT !.learners = L, !.learnersNext = N, !.progress = P, !.autoLeave = a]  OBVIOUS
  <2>7. IsTracker(u) /\ u.voters = v.voters  BY <2>4, <2>6, Zenon DEF IsTracker
  <2>8. u = [t EXCEPT !.voters[1] = @ \ {id}, !.learners = @ \ {id}, !.learnersNext = @ \ {id}]
    BY <2>1, <2>3, <2>5, <2>6, Zenon
  <2>9. \/ Conf!remove(t, id) = u
        \/ Conf!remove(t, id) = Conf!DropProgress(u, {id})
    BY ONLY <1>2, <2>8 DEF Conf!remove
  <2>10. IsTracker(Conf!DropProgress(u, {id})) /\ Conf!DropProgress(u, {id}).voters = u.voters
    BY <2>7, ProgressKept
  <2> QED BY <2>4, <2>7, <2>9, <2>10
<1> QED BY <1>1, <1>2

\* makeLearner takes at most the one id from the incoming voters.
LEMMA MakeLearnerKeeps ==
    ASSUME NEW t, IsTracker(t), NEW id, NEW n
    PROVE  IsTracker(Conf!makeLearner(t, id, n)) /\ Conf!makeLearner(t, id, n).voters[2] = t.voters[2]
<1>1. CASE id \notin Conf!Tracked(t)
  <2>1. PICK l : l = TRUE  OBVIOUS
  <2>2. Conf!makeLearner(t, id, n) = Conf!initProgress(t, id, l, n)  BY <1>1, <2>1 DEF Conf!makeLearner
  <2> QED BY <2>2, InitProgressKeeps
<1>2. CASE id \in Conf!Tracked(t) /\ t.progress[id].IsLearner
  BY <1>2 DEF Conf!makeLearner
<1>3. CASE id \in Conf!Tracked(t) /\ ~t.progress[id].IsLearner
  <2>1. PICK r : r = Conf!remove(t, id)  OBVIOUS
  <2>2. IsTracker(r) /\ r.voters[2] = t.voters[2]  BY <2>1, RemoveKeeps
  <2>3. PICK pr : pr = t.progress[id]  OBVIOUS
  <2>4. PICK u : u = Conf!SetProgress(r, id, pr)  OBVIOUS
  <2>5. IsTracker(u) /\ u.voters = r.voters  BY <2>2, <2>4, ProgressKept
  <2>6. Conf!makeLearner(t, id, n) =
          IF id \in Conf!outgoing(t) THEN [u EXCEPT !.learnersNext = @ \cup {id}]
          ELSE [u EXCEPT !.progress[id].IsLearner = TRUE, !.learners = @ \cup {id}]
    BY ONLY <1>3, <2>1, <2>3, <2>4 DEF Conf!makeLearner
  <2>7. ASSUME NEW w, w = [u EXCEPT !.learnersNext = @ \cup {id}]
        PROVE  IsTracker(w) /\ w.voters = u.voters
    BY <2>5, <2>7 DEF IsTracker
  <2>8. ASSUME NEW w, w = [u EXCEPT !.progress[id].IsLearner = TRUE, !.learners = @ \cup {id}]
        PROVE  IsTracker(w) /\ w.voters = u.voters
    <3>1. PICK P : P = [u.progress EXCEPT ![id].IsLearner = TRUE]  BY Zenon
    <3>2. w = [u EXCEPT !.progress = P, !.learners = @ \cup {id}]  BY <2>8, <3>1
    <3> QED BY <2>5, <3>2, Zenon DEF IsTracker
  <2>9. PICK w : w = Conf!makeLearner(t, id, n)  OBVIOUS
  <2> QED BY <2>2, <2>5, <2>6, <2>7, <2>8
<1> QED BY <1>1, <1>2, <1>3

\* Each change of apply adds or removes at most its id.
LEMMA ApplyOneKeeps ==
    ASSUME NEW t, IsTracker(t), NEW cc \in Change, NEW n
    PROVE  IsTracker(Conf!ApplyOne(t, cc, n)) /\ Conf!ApplyOne(t, cc, n).voters[2] = t.voters[2]
<1>1. \/ Conf!ApplyOne(t, cc, n) = Conf!makeVoter(t, cc.id, n)
      \/ Conf!ApplyOne(t, cc, n) = Conf!makeLearner(t, cc.id, n)
      \/ Conf!ApplyOne(t, cc, n) = Conf!remove(t, cc.id)
  BY DEF Conf!ApplyOne, Change
<1> QED BY <1>1, MakeVoterKeeps, MakeLearnerKeeps, RemoveKeeps

\* A set of natural numbers has a least element.
LEMMA Smallest ==
  ASSUME NEW T \in SUBSET Nat, T # {} PROVE \E x \in T : \A y \in T : x <= y
<1> DEFINE R == OpToRel(<, Nat)
<1>1. \E x \in T : \A y \in T : ~ (<<y, x>> \in R)
  BY WFMin, NatLessThanWellFounded, Zenon
<1>2. \A x, y \in Nat : <<y, x>> \in R <=> y < x
  BY DEF OpToRel
<1> HIDE DEF R
<1>3. PICK x \in T : \A y \in T : ~ (<<y, x>> \in R)
  BY <1>1
<1>4. ASSUME NEW y \in T PROVE x <= y
  <2>1. ~(y < x) /\ x \in Nat /\ y \in Nat
    BY <1>2, <1>3, Zenon
  <2> QED BY <2>1
<1> QED BY <1>4

\* Induction up to n: a set that has 0 and every successor below n has all of 0..n.
LEMMA Induction ==
  ASSUME NEW n \in Nat, NEW T, 0 \in T, \A k \in 0..(n - 1) : k \in T => k + 1 \in T
  PROVE 0..n \subseteq T
<1> SUFFICES ASSUME (0..n) \ T # {} PROVE FALSE
  OBVIOUS
<1>1. PICK k \in (0..n) \ T : \A j \in (0..n) \ T : k <= j
  <2>1. (0..n) \ T \in SUBSET Nat
    OBVIOUS
  <2> QED BY <2>1, Smallest, Zenon
<1>2. k # 0 /\ k - 1 \in 0..(n - 1)
  BY <1>1
<1>3. k - 1 \in T
  BY <1>1, <1>2
<1> QED BY <1>3

\* apply loops over the changes: f[k] is the tracker after the first k of them.
IsLoop(f, t, ccs, n) ==
    /\ f[0] = t
    /\ \A k \in 1..Len(ccs) : f[k] = Conf!ApplyOne(f[k - 1], ccs[k], n)
    /\ Conf!apply(t, ccs, n) = IF f[Len(ccs)].voters[1] = {} THEN Conf!Failed ELSE f[Len(ccs)]

\* The loop of apply, as a sequence of trackers from the first to the last.
LEMMA ApplyIsLoop ==
    ASSUME NEW t, NEW ccs \in Seq(Change), NEW n
    PROVE  \E f : IsLoop(f, t, ccs, n)
<1>0. PICK m \in Nat : m = Len(ccs)  OBVIOUS
<1> DEFINE Step(g, k) == IF k = 0 THEN t ELSE Conf!ApplyOne(g[k - 1], ccs[k], n)
           IsRun(g, k) == g = [j \in 0..k |-> Step(g, j)]
           T == {k \in 0..m : \E g : IsRun(g, k)}
<1>1. 0 \in T
  <2>1. PICK g : g = [j \in 0..0 |-> t]  BY Zenon
  <2>2. g = [j \in 0..0 |-> Step(g, j)]  BY <2>1
  <2> QED BY <2>2
<1>2. ASSUME NEW k \in 0..(m - 1), k \in T PROVE k + 1 \in T
  <2>1. PICK g : g = [j \in 0..k |-> Step(g, j)]  BY <1>2
  <2>2. PICK gn : gn = [j \in 0..(k + 1) |-> IF j = k + 1 THEN Step(g, k + 1) ELSE g[j]]  BY Zenon
  <2>3. ASSUME NEW j \in 0..(k + 1) PROVE gn[j] = Step(gn, j)
    <3>1. CASE j = k + 1
      <4>1. gn[k] = g[k] /\ k + 1 # 0 /\ (k + 1) - 1 = k  BY <2>2
      <4> QED BY <2>2, <3>1
    <3>2. CASE j \in 0..k
      <4>1. gn[j] = g[j] /\ g[j] = Step(g, j)  BY <2>1, <2>2, <3>2
      <4>2. j # 0 => gn[j - 1] = g[j - 1]  BY <2>2
      <4> QED BY <4>1, <4>2
    <3> QED BY <3>1, <3>2
  <2>4. gn = [j \in 0..(k + 1) |-> Step(gn, j)]  BY <2>2, <2>3
  <2>5. k + 1 \in 0..m /\ IsRun(gn, k + 1)  BY <2>4
  <2> HIDE DEF IsRun
  <2> QED BY <2>5
<1>3. m \in T
  <2> HIDE DEF T
  <2>1. 0..m \subseteq T  BY <1>1, <1>2, Induction
  <2> QED BY <2>1
<1>4. PICK f : f = CHOOSE g : g = [j \in 0..m |-> Step(g, j)]  OBVIOUS
<1>5. f = [j \in 0..m |-> Step(f, j)]  BY <1>3, <1>4, Zenon
<1>7. Conf!apply(t, ccs, n) = IF f[m].voters[1] = {} THEN Conf!Failed ELSE f[m]
  BY <1>0, <1>4 DEF Conf!apply, Conf!incoming
<1>8. f[0] = t /\ \A k \in 1..m : f[k] = Conf!ApplyOne(f[k - 1], ccs[k], n)  BY <1>5
<1>9. IsLoop(f, t, ccs, n)  BY <1>0, <1>7, <1>8 DEF IsLoop
<1> QED BY <1>9

\* The changes keep the outgoing voters.
LEMMA ApplyKeeps ==
    ASSUME NEW t, IsTracker(t), NEW ccs \in Seq(Change), NEW n
    PROVE  LET u == Conf!apply(t, ccs, n)
           IN  \/ u = Conf!Failed
               \/ IsTracker(u) /\ u.voters[2] = t.voters[2] /\ u.voters[1] # {}
<1>1. PICK m \in Nat : m = Len(ccs)  OBVIOUS
<1>2. PICK f : IsLoop(f, t, ccs, n)  BY ApplyIsLoop, Zenon
<1> DEFINE U == {k \in 0..m : IsTracker(f[k]) /\ f[k].voters[2] = t.voters[2]}
<1>8. 0 \in U  BY <1>2 DEF IsLoop
<1>9. ASSUME NEW k \in 0..(m - 1), k \in U PROVE k + 1 \in U
  <2>1. f[k + 1] = Conf!ApplyOne(f[k], ccs[k + 1], n)  BY <1>1, <1>2 DEF IsLoop
  <2>2. ccs[k + 1] \in Change /\ k + 1 \in 0..m  BY <1>1
  <2> QED BY <1>9, <2>1, <2>2, ApplyOneKeeps
<1>10. m \in U
  <2> HIDE DEF U
  <2>1. 0..m \subseteq U  BY <1>8, <1>9, Induction
  <2> QED BY <2>1
<1> QED BY <1>1, <1>2, <1>10 DEF IsLoop

\* A tracker with a voter.
HasVoters(t) == IsTracker(t) /\ t.voters[1] # {}

\* A tracker is not an error.
LEMMA NotFailed ==
    /\ \A t : IsTracker(t) => ~Conf!Fails(t)
    /\ Conf!Fails(Conf!Failed)
<1>1. ASSUME NEW t, IsTracker(t) PROVE ~Conf!Fails(t)
  <2>1. DOMAIN t = {"voters", "learners", "learnersNext", "autoLeave", "progress"}  BY <1>1 DEF IsTracker
  <2> QED BY <2>1 DEF Conf!Fails
<1>2. Conf!Fails(Conf!Failed)  BY DEF Conf!Fails, Conf!Failed
<1> QED BY <1>1, <1>2

\* checkAndCopy clones the configuration, or refuses it.
LEMMA Copies ==
    ASSUME NEW t, IsTracker(t), NEW c, c = Conf!checkAndCopy(t), ~Conf!Fails(c)
    PROVE  IsTracker(c) /\ c.voters = t.voters
<1>1. PICK u : u = [t EXCEPT !.autoLeave = FALSE]  BY Zenon
<1>2. IsTracker(u) /\ u.voters = t.voters  BY <1>1, Zenon DEF IsTracker
<1>3. c = u  BY <1>1, NotFailed DEF Conf!checkAndCopy, Conf!checkAndReturn
<1> QED BY <1>2, <1>3

\* checkAndReturn returns what it was given or fails.
LEMMA Returns ==
    ASSUME NEW u, ~Conf!Fails(Conf!checkAndReturn(u))
    PROVE  Conf!checkAndReturn(u) = u
BY NotFailed DEF Conf!checkAndReturn

\* A simple change adds or removes at most one voter.
LEMMA SimpleStep ==
    ASSUME NEW t, HasVoters(t), NEW ccs \in Seq(Change), NEW n,
           NEW u, u = Conf!Simple(t, ccs, n), ~Conf!Fails(u)
    PROVE  HasVoters(u) /\ Cardinality(t.voters[1] \ u.voters[1]) + Cardinality(u.voters[1] \ t.voters[1]) <= 1
<1>1. PICK c : c = Conf!checkAndCopy(t)  OBVIOUS
<1>2. PICK v : v = Conf!apply(c, ccs, n)  OBVIOUS
<1>3. /\ ~Conf!Fails(c) /\ ~Conf!Fails(v) /\ ~(Conf!symdiff(Conf!incoming(t), Conf!incoming(v)) > 1)
      /\ u = Conf!checkAndReturn(v)
  BY <1>1, <1>2, NotFailed DEF Conf!Simple
<1>4. IsTracker(c)  BY <1>1, <1>3, Copies DEF HasVoters
<1>5. HasVoters(v)  BY <1>2, <1>3, <1>4, ApplyKeeps, NotFailed DEF HasVoters
<1>6. u = v  BY <1>3, Returns
<1>7. /\ Cardinality(t.voters[1] \ v.voters[1]) \in Nat
      /\ Cardinality(v.voters[1] \ t.voters[1]) \in Nat
  BY <1>5, FS_Difference, FS_CardinalityType, Zenon DEF HasVoters, IsTracker
<1>8. ~(Cardinality(t.voters[1] \ v.voters[1]) + Cardinality(v.voters[1] \ t.voters[1]) > 1)
  BY <1>3, SameCardinality DEF Conf!symdiff, Conf!incoming
<1> QED BY <1>5, <1>6, <1>7, <1>8

\* A change that enters a joint configuration keeps the voters as the outgoing ones.
LEMMA EnterStep ==
    ASSUME NEW t, HasVoters(t), NEW ccs \in Seq(Change), NEW n, NEW a,
           NEW u, u = Conf!EnterJoint(t, a, ccs, n), ~Conf!Fails(u)
    PROVE  HasVoters(u) /\ u.voters[2] = t.voters[1]
<1>1. PICK c : c = Conf!checkAndCopy(t)  OBVIOUS
<1>2. PICK w : w = [c EXCEPT !.voters[2] = Conf!incoming(c)]  BY Zenon
<1>3. PICK v : v = Conf!apply(w, ccs, n)  OBVIOUS
<1>4. PICK x : x = [v EXCEPT !.autoLeave = a]  BY Zenon
<1>5. ~Conf!Fails(c) /\ ~Conf!Fails(v) /\ u = Conf!checkAndReturn(x)
  BY ONLY <1>1, <1>2, <1>3, <1>4, NotFailed, u = Conf!EnterJoint(t, a, ccs, n), ~Conf!Fails(u) DEF Conf!EnterJoint
<1>6. IsTracker(c) /\ c.voters = t.voters  BY <1>1, <1>5, Copies DEF HasVoters
<1>7. IsTracker(w) /\ w.voters[2] = t.voters[1]
  <2>1. PICK p : p = [c.voters EXCEPT ![2] = c.voters[1]]  BY Zenon
  <2>2. p = <<c.voters[1], c.voters[1]>>  BY <1>6, <2>1 DEF IsTracker
  <2>3. w = [c EXCEPT !.voters = p]  BY <1>2, <2>1 DEF Conf!incoming
  <2> QED BY <1>6, <2>2, <2>3 DEF IsTracker
<1>8. HasVoters(v) /\ v.voters[2] = t.voters[1]  BY <1>3, <1>5, <1>7, ApplyKeeps, NotFailed DEF HasVoters
<1>9. HasVoters(x) /\ x.voters = v.voters  BY <1>4, <1>8 DEF HasVoters, IsTracker
<1> QED BY <1>5, <1>8, <1>9, Returns

\* Leaving a joint configuration keeps the incoming voters.
LEMMA LeaveStep ==
    ASSUME NEW t, HasVoters(t), NEW u, u = Conf!LeaveJoint(t), ~Conf!Fails(u)
    PROVE  HasVoters(u) /\ u.voters[1] = t.voters[1]
<1>1. PICK c : c = Conf!checkAndCopy(t)  OBVIOUS
<1>2. PICK L : L = t.learners \cup t.learnersNext  BY Zenon
<1>3. PICK P : P = [id \in Conf!Tracked(t) |-> IF id \in t.learnersNext THEN [c.progress[id] EXCEPT !.IsLearner = TRUE]
                                               ELSE c.progress[id]]
  BY Zenon
<1>4. PICK v : v = [c EXCEPT !.learners = L, !.learnersNext = {}, !.voters[2] = {}, !.autoLeave = FALSE, !.progress = P]
  OBVIOUS
<1>5. PICK D : D = {id \in Conf!outgoing(t) : id \notin Conf!incoming(t) \cup L}  BY Zenon
<1>6. PICK w : w = Conf!DropProgress(v, D)  OBVIOUS
<1>7. ~Conf!Fails(c)
  BY <1>1, NotFailed DEF Conf!LeaveJoint
<1>8. IsTracker(c) /\ c.voters = t.voters  BY <1>1, <1>7, Copies DEF HasVoters
<1>9. v = [c EXCEPT !.learners = L, !.learnersNext = {}, !.voters[2] = {}, !.autoLeave = FALSE,
                    !.progress = [id \in Conf!Tracked(t) |-> IF id \in t.learnersNext THEN [@[id] EXCEPT !.IsLearner = TRUE]
                                                             ELSE @[id]]]
  BY <1>3, <1>4
<1>10. u = Conf!checkAndReturn(w)
  BY ONLY <1>1, <1>2, <1>5, <1>6, <1>7, <1>9, NotFailed, u = Conf!LeaveJoint(t), ~Conf!Fails(u) DEF Conf!LeaveJoint
<1>11. IsTracker(v) /\ v.voters[1] = t.voters[1]
  <2>1. PICK p : p = [c.voters EXCEPT ![2] = {}]  BY Zenon
  <2>2. p = <<c.voters[1], {}>>  BY <1>8, <2>1 DEF IsTracker
  <2>3. v = [c EXCEPT !.learners = L, !.learnersNext = {}, !.voters = p, !.autoLeave = FALSE, !.progress = P]
    BY <1>4, <2>1, Zenon DEF IsTracker
  <2> QED BY <1>8, <2>2, <2>3, FS_EmptySet, Zenon DEF IsTracker
<1>12. IsTracker(w) /\ w.voters = v.voters  BY <1>6, <1>11, ProgressKept
<1> QED BY <1>10, <1>11, <1>12, Returns DEF HasVoters

\* A tracker as Restore fills it: voters alone.
VotersOnly(t) ==
    /\ IsTracker(t)
    /\ t.voters[1] = DOMAIN t.progress /\ t.voters[2] = {}
    /\ t.learners = {} /\ t.learnersNext = {} /\ t.autoLeave = FALSE

\* checkInvariants accepts a tracker that has voters alone.
LEMMA VotersAccepted ==
    ASSUME NEW t, VotersOnly(t)
    PROVE  Conf!checkAndReturn(t) = t /\ Conf!checkAndCopy(t) = t
<1>1. Conf!checkInvariants(t)
  BY DEF VotersOnly, Conf!checkInvariants, Conf!IDs, Conf!Tracked, Conf!outgoing, Conf!joint
<1>2. ~Conf!Fails(t)  BY NotFailed DEF VotersOnly
<1>3. [t EXCEPT !.autoLeave = FALSE] = t  BY DEF VotersOnly, IsTracker
<1> QED BY <1>1, <1>2, <1>3, Zenon DEF Conf!checkAndReturn, Conf!checkAndCopy

\* makeVoter on a tracker with voters alone gives one.
LEMMA VoterAdded ==
    ASSUME NEW t, VotersOnly(t), NEW x, NEW n, NEW w, w = Conf!makeVoter(t, x, n)
    PROVE  VotersOnly(w) /\ w.voters[1] = t.voters[1] \cup {x}
<1>1. PICK S : S = t.voters[1] \cup {x}  BY Zenon
<1>2. IsFiniteSet(S)  BY <1>1, FS_AddElement DEF VotersOnly, IsTracker
<1>3. PICK u : u = [t EXCEPT !.voters[1] = S]  BY Zenon
<1>4. IsTracker(u) /\ u.voters[1] = S /\ u.voters[2] = {}
  <2>1. IsTracker(t)  BY DEF VotersOnly
  <2>2. PICK p : p = [t.voters EXCEPT ![1] = S]  BY Zenon
  <2>3. p = <<S, t.voters[2]>>  BY <2>1, <2>2 DEF IsTracker
  <2>4. u = [t EXCEPT !.voters = p]  BY <1>3, <2>2
  <2>5. IsTracker(u) /\ u.voters = p  BY <1>2, <2>1, <2>3, <2>4 DEF IsTracker
  <2> QED BY <2>3, <2>5 DEF VotersOnly
<1>5. /\ u.learners = {} /\ u.learnersNext = {} /\ u.autoLeave = FALSE /\ u.progress = t.progress
  BY <1>3 DEF VotersOnly, IsTracker
<1>6. CASE x \notin Conf!Tracked(t)
  <2>1. PICK pr : pr = Conf!NewProgress(0, n, FALSE, TRUE)  BY Zenon
  <2>2. u = [t EXCEPT !.voters[1] = @ \cup {x}]  BY <1>1, <1>3
  <2>3. w = Conf!SetProgress(u, x, pr)
    BY <1>6, <2>1, <2>2 DEF Conf!makeVoter, Conf!initProgress
  <2>4. PICK P : P = [i \in DOMAIN u.progress \cup {x} |-> IF i = x THEN pr ELSE u.progress[i]]  BY Zenon
  <2>5. w = [u EXCEPT !.progress = P]
    BY <2>3, <2>4 DEF Conf!SetProgress, Conf!Tracked
  <2>6. DOMAIN P = S  BY <1>1, <1>5, <2>4 DEF VotersOnly
  <2> QED BY <1>1, <1>4, <1>5, <2>5, <2>6 DEF VotersOnly, IsTracker
<1>7. CASE x \in Conf!Tracked(t)
  <2>1. PICK P : P = [t.progress EXCEPT ![x].IsLearner = FALSE]  BY Zenon
  <2>2. w = [u EXCEPT !.progress = P, !.learners = t.learners \ {x}, !.learnersNext = t.learnersNext \ {x}]
    BY <1>1, <1>3, <1>7, <2>1, Zenon DEF Conf!makeVoter, VotersOnly
  <2>3. t.learners \ {x} = {} /\ t.learnersNext \ {x} = {}  BY DEF VotersOnly
  <2>4. DOMAIN P = S  BY <1>1, <1>7, <2>1 DEF VotersOnly, Conf!Tracked
  <2> QED BY <1>1, <1>4, <1>5, <2>2, <2>4, Zenon DEF VotersOnly, IsTracker
<1> QED BY <1>6, <1>7

\* Simple accepts the addition of one voter, from the second on as from the first.
LEMMA AddAccepted ==
    ASSUME NEW t, VotersOnly(t), NEW cc \in Change, cc.type = "add", NEW n, NEW u, u = Conf!Simple(t, <<cc>>, n)
    PROVE  VotersOnly(u) /\ u.voters[1] # {}
<1>1. PICK w : w = Conf!makeVoter(t, cc.id, n)  OBVIOUS
<1>2. VotersOnly(w) /\ w.voters[1] = t.voters[1] \cup {cc.id}  BY <1>1, VoterAdded
<1>3. PICK ccs : ccs = <<cc>>  OBVIOUS
<1>4. ccs \in Seq(Change) /\ Len(ccs) = 1 /\ ccs[1] = cc  BY <1>3
<1>5. PICK f : IsLoop(f, t, ccs, n)  BY <1>4, ApplyIsLoop, Zenon
<1>6. f[1] = w
  <2>1. f[1] = Conf!ApplyOne(t, cc, n)  BY <1>4, <1>5 DEF IsLoop
  <2> QED BY <1>1, <2>1 DEF Conf!ApplyOne
<1>7. Conf!apply(t, ccs, n) = w  BY <1>2, <1>4, <1>5, <1>6 DEF IsLoop
<1>8. ~(Conf!symdiff(Conf!incoming(t), Conf!incoming(w)) > 1)
  <2>1. PICK D : D = w.voters[1] \ t.voters[1]  BY Zenon
  <2>2. D \in SUBSET {cc.id}  BY <1>2, <2>1
  <2>3. IsFiniteSet({cc.id}) /\ Cardinality({cc.id}) = 1  BY FS_Singleton, Zenon
  <2>4. Cardinality(D) \in Nat /\ Cardinality(D) <= 1  BY <2>2, <2>3, FS_Subset, FS_CardinalityType
  <2>5. t.voters[1] \ w.voters[1] = {}  BY <1>2
  <2>6. Conf!symdiff(Conf!incoming(t), Conf!incoming(w)) = 0 + Cardinality(D)
    BY <2>1, <2>5, SameCardinality, FS_EmptySet DEF Conf!symdiff, Conf!incoming
  <2> QED BY <2>4, <2>6
<1>9. ~Conf!Fails(t) /\ ~Conf!Fails(w) /\ ~Conf!joint(t)
  BY <1>2, NotFailed DEF VotersOnly, Conf!joint, Conf!outgoing
<1>10. u = w
  BY <1>2, <1>3, <1>7, <1>8, <1>9, VotersAccepted DEF Conf!Simple
<1> QED BY <1>2, <1>10, Zenon

\* chain makes one simple change after the other: f[k] is the tracker after the first k.
IsChain(f, t, ccs, n) ==
    /\ f[0] = t
    /\ \A k \in 1..Len(ccs) :
           f[k] = IF Conf!Fails(f[k - 1]) THEN f[k - 1] ELSE Conf!Simple(f[k - 1], <<ccs[k]>>, n)
    /\ Conf!chain(t, ccs, n) = f[Len(ccs)]

\* The loop of chain, as a sequence of trackers.
LEMMA ChainIsLoop ==
    ASSUME NEW t, NEW ccs \in Seq(Change), NEW n
    PROVE  \E f : IsChain(f, t, ccs, n)
<1>0. PICK m \in Nat : m = Len(ccs)  OBVIOUS
<1> DEFINE Step(g, k) == IF k = 0 THEN t
                         ELSE IF Conf!Fails(g[k - 1]) THEN g[k - 1] ELSE Conf!Simple(g[k - 1], <<ccs[k]>>, n)
           IsRun(g, k) == g = [j \in 0..k |-> Step(g, j)]
           T == {k \in 0..m : \E g : IsRun(g, k)}
<1>1. 0 \in T
  <2>1. PICK g : g = [j \in 0..0 |-> t]  BY Zenon
  <2>2. g = [j \in 0..0 |-> Step(g, j)]  BY <2>1
  <2> QED BY <2>2
<1>2. ASSUME NEW k \in 0..(m - 1), k \in T PROVE k + 1 \in T
  <2>1. PICK g : g = [j \in 0..k |-> Step(g, j)]  BY <1>2
  <2>2. PICK gn : gn = [j \in 0..(k + 1) |-> IF j = k + 1 THEN Step(g, k + 1) ELSE g[j]]  BY Zenon
  <2>3. ASSUME NEW j \in 0..(k + 1) PROVE gn[j] = Step(gn, j)
    <3>1. CASE j = k + 1
      <4>1. gn[k] = g[k] /\ k + 1 # 0 /\ (k + 1) - 1 = k  BY <2>2
      <4> QED BY <2>2, <3>1
    <3>2. CASE j \in 0..k
      <4>1. gn[j] = g[j] /\ g[j] = Step(g, j)  BY <2>1, <2>2, <3>2
      <4>2. j # 0 => gn[j - 1] = g[j - 1]  BY <2>2
      <4> QED BY <4>1, <4>2
    <3> QED BY <3>1, <3>2
  <2>4. gn = [j \in 0..(k + 1) |-> Step(gn, j)]  BY <2>2, <2>3, Zenon
  <2>5. k + 1 \in 0..m /\ IsRun(gn, k + 1)  BY <2>4
  <2> HIDE DEF IsRun
  <2> QED BY <2>5
<1>3. m \in T
  <2> HIDE DEF T
  <2>1. 0..m \subseteq T  BY <1>1, <1>2, Induction
  <2> QED BY <2>1
<1>4. PICK f : f = CHOOSE g : g = [j \in 0..m |-> Step(g, j)]  BY Zenon
<1>5. f = [j \in 0..m |-> Step(f, j)]  BY <1>3, <1>4, Zenon
<1>6. Conf!chain(t, ccs, n) = f[m]  BY <1>0, <1>4 DEF Conf!chain
<1>7. /\ f[0] = t
      /\ \A k \in 1..m : f[k] = IF Conf!Fails(f[k - 1]) THEN f[k - 1] ELSE Conf!Simple(f[k - 1], <<ccs[k]>>, n)
  BY <1>5
<1>8. IsChain(f, t, ccs, n)  BY <1>0, <1>6, <1>7 DEF IsChain
<1> QED BY <1>8

\* The order in which InSomeOrder lists a finite set.
LEMMA Listed ==
    ASSUME NEW S, IsFiniteSet(S), NEW k \in 1..Cardinality(S)
    PROVE  Conf!InSomeOrder(S)[k] \in S
<1>1. PICK f \in Bijection(1..Cardinality(S), S) : TRUE
  BY FS_CardinalityType DEF ExistsBijection
<1>2. f \in [1..Cardinality(S) -> S] /\ \A id \in S : \E i \in 1..Cardinality(S) : f[i] = id
  BY DEF Bijection, Surjection
<1>3. Conf!InSomeOrder(S) \in [1..Cardinality(S) -> S]
  BY <1>2, SameCardinality, Zenon DEF Conf!InSomeOrder
<1> QED BY <1>3

\* The changes that Restore makes of a ConfState that has voters alone.
LEMMA RestoredBy ==
    ASSUME InitialVoters \subseteq Id, IsFiniteSet(InitialVoters), InitialVoters # {}
    PROVE  \E ccs \in Seq(Change) :
              /\ Len(ccs) > 0 /\ \A k \in 1..Len(ccs) : ccs[k].type = "add"
              /\ Conf!Restore([Conf!ConfState(Conf!Empty) EXCEPT !.Voters = InitialVoters], Conf!LastIndex)
                    = Conf!chain(Conf!Empty, ccs, Conf!LastIndex)
<1>1. PICK cs : cs = [Conf!ConfState(Conf!Empty) EXCEPT !.Voters = InitialVoters]  BY Zenon
<1>2. cs.Voters = InitialVoters /\ cs.VotersOutgoing = {} /\ cs.Learners = {} /\ cs.LearnersNext = {}
  BY <1>1 DEF Conf!ConfState, Conf!Empty, Conf!outgoing
<1>3. Conf!Restore(cs, Conf!LastIndex) = Conf!chain(Conf!Empty, Conf!toConfChangeIn(cs), Conf!LastIndex)
  BY <1>2 DEF Conf!Restore
<1>4. PICK m \in Nat : m = Cardinality(InitialVoters) /\ m > 0
  BY FS_CardinalityType, FS_EmptySet
<1>5. PICK ccs : ccs = Conf!Changes("add", InitialVoters)  OBVIOUS
<1>6. ccs = [k \in 1..m |-> [type |-> "add", id |-> Conf!InSomeOrder(InitialVoters)[k]]]
  BY <1>4, <1>5, SameCardinality DEF Conf!Changes
<1>7. ASSUME NEW k \in 1..m PROVE ccs[k] \in Change /\ ccs[k].type = "add"
  BY <1>4, <1>6, Listed DEF Change
<1>8. ccs \in Seq(Change) /\ Len(ccs) = m  BY <1>6, <1>7
<1>9. ASSUME NEW ty PROVE Conf!Changes(ty, {}) = <<>>
  BY SameCardinality, FS_EmptySet DEF Conf!Changes
<1>10. Conf!toConfChangeIn(cs) = ccs
  <2>1. Conf!toConfChangeIn(cs) = <<>> \o ccs \o <<>> \o <<>>
    BY <1>2, <1>5, <1>9, Zenon DEF Conf!toConfChangeIn
  <2> QED BY <2>1
<1> QED BY <1>1, <1>3, <1>4, <1>7, <1>8, <1>10

\* Restore of a ConfState with voters gives a tracker with those voters.
LEMMA InitHasVoters ==
    ASSUME InitialVoters \subseteq Id, IsFiniteSet(InitialVoters), InitialVoters # {}, Conf!Init
    PROVE  HasVoters(trk)
<1>1. PICK n : n = Conf!LastIndex  OBVIOUS
<1>2. PICK ccs \in Seq(Change) :
        /\ Len(ccs) > 0 /\ \A k \in 1..Len(ccs) : ccs[k].type = "add"
        /\ trk = Conf!chain(Conf!Empty, ccs, n)
  BY <1>1, RestoredBy DEF Conf!Init
<1>3. PICK f : IsChain(f, Conf!Empty, ccs, n)  BY ChainIsLoop, Zenon
<1>4. PICK m \in Nat : m = Len(ccs) /\ m > 0  BY <1>2
<1> DEFINE T == {k \in 0..m : VotersOnly(f[k]) /\ (k > 0 => f[k].voters[1] # {})}
<1>5. 0 \in T
  <2>1. f[0] = Conf!Empty  BY <1>3 DEF IsChain
  <2>2. PICK e : e = <<>>  OBVIOUS
  <2>3. PICK p : p = <<{}, {}>>  BY Zenon
  <2>4. PICK t : t = f[0]  OBVIOUS
  <2>7. t = [voters |-> p, learners |-> {}, learnersNext |-> {}, autoLeave |-> FALSE, progress |-> e]
    BY <2>1, <2>2, <2>3, <2>4 DEF Conf!Empty
  <2>5. DOMAIN e = {} /\ p[1] = {} /\ p[2] = {} /\ p = <<p[1], p[2]>>  BY <2>2, <2>3
  <2>8. IsTracker(t)  BY <2>5, <2>7, FS_EmptySet, Zenon DEF IsTracker
  <2>9. VotersOnly(t)  BY <2>5, <2>7, <2>8 DEF VotersOnly
  <2>6. VotersOnly(f[0])  BY <2>4, <2>9
  <2> QED BY <2>6
<1>6. ASSUME NEW k \in 0..(m - 1), k \in T PROVE k + 1 \in T
  <2>1. ~Conf!Fails(f[k])  BY <1>6, NotFailed DEF VotersOnly
  <2>2. f[k + 1] = Conf!Simple(f[k], <<ccs[k + 1]>>, n)  BY <1>3, <1>4, <2>1 DEF IsChain
  <2>3. ccs[k + 1] \in Change /\ ccs[k + 1].type = "add" /\ k + 1 \in 0..m  BY <1>2, <1>4
  <2>4. VotersOnly(f[k + 1]) /\ f[k + 1].voters[1] # {}  BY <1>6, <2>2, <2>3, AddAccepted
  <2> QED BY <2>4
<1>7. m \in T
  <2> HIDE DEF T
  <2>1. 0..m \subseteq T  BY <1>5, <1>6, Induction
  <2> QED BY <2>1
<1>8. trk = f[m]  BY <1>2, <1>3, <1>4 DEF IsChain
<1> QED BY <1>4, <1>7, <1>8 DEF HasVoters, VotersOnly

\* A change that is accepted leaves voters, and the quorums before and after it meet.
LEMMA ChangeStep ==
    ASSUME HasVoters(trk), Conf!ApplyConfChange
    PROVE  HasVoters(trk)' /\ Conf!Overlap
<1>1. PICK ccs \in Conf!ChangeLists, tr \in {"auto", "implicit", "explicit"} :
         LET t == Conf!Change(trk, [changes |-> ccs, transition |-> tr], Conf!LastIndex)
         IN  ~Conf!Fails(t) /\ trk' = t
  BY DEF Conf!ApplyConfChange
<1>2. ccs \in Seq(Change)
  <2>1. PICK m \in 0..MaxChanges : ccs \in [1..m -> Conf!Single]  BY DEF Conf!ChangeLists
  <2>2. Conf!Single = Change  BY DEF Conf!Single, Change
  <2> QED BY <2>1, <2>2
<1>3. PICK t, u, n, a : t = trk /\ u = trk' /\ n = Conf!LastIndex /\ a = (tr # "explicit")  OBVIOUS
<1>4. HasVoters(t) /\ ~Conf!Fails(u)  BY <1>1, <1>3
<1>5. \/ u = Conf!LeaveJoint(t)
      \/ u = Conf!EnterJoint(t, a, ccs, n)
      \/ u = Conf!Simple(t, ccs, n)
  BY <1>1, <1>3 DEF Conf!Change
<1>6. /\ HasVoters(u)
      /\ \/ Cardinality(t.voters[1] \ u.voters[1]) + Cardinality(u.voters[1] \ t.voters[1]) <= 1
         \/ u.voters[2] = t.voters[1]
  <2>1. CASE u = Conf!LeaveJoint(t)
    <3>1. HasVoters(u) /\ u.voters[1] = t.voters[1]  BY <1>4, <2>1, LeaveStep
    <3>2. t.voters[1] \ u.voters[1] = {} /\ u.voters[1] \ t.voters[1] = {}  BY <3>1
    <3>3. Cardinality({}) + Cardinality({}) <= 1  BY FS_EmptySet
    <3> QED BY <3>1, <3>3
  <2>2. CASE u = Conf!EnterJoint(t, a, ccs, n)
    BY <1>2, <1>4, <2>2, EnterStep
  <2>3. CASE u = Conf!Simple(t, ccs, n)
    BY <1>2, <1>4, <2>3, SimpleStep
  <2> QED BY <1>5, <2>1, <2>2, <2>3
<1>11. HasVoters(u)  BY <1>6
<1>7. ASSUME NEW p \in Conf!Quorums(t), NEW q \in Conf!Quorums(u) PROVE p \cap q # {}
  <2>1. /\ t.voters[1] # {} /\ IsFiniteSet(t.voters[1]) /\ Majority(t.voters[1], p)
        /\ u.voters[1] # {} /\ IsFiniteSet(u.voters[1]) /\ Majority(u.voters[1], q)
        /\ u.voters[2] # {} => Majority(u.voters[2], q)
    <3>1. t.voters[1] # {} => Majority(t.voters[1], p)  BY QuorumIsMajority
    <3>2. /\ u.voters[1] # {} => Majority(u.voters[1], q)
          /\ u.voters[2] # {} => Majority(u.voters[2], q)
      BY QuorumIsMajority
    <3>3. t.voters[1] # {} /\ IsFiniteSet(t.voters[1])  BY <1>4 DEF HasVoters, IsTracker
    <3>4. u.voters[1] # {} /\ IsFiniteSet(u.voters[1])  BY <1>11 DEF HasVoters, IsTracker
    <3> QED BY <3>1, <3>2, <3>3, <3>4
  <2>2. CASE u.voters[2] = t.voters[1]
    <3>1. PICK A : A = t.voters[1]  OBVIOUS
    <3>2. A \ A = {} /\ Cardinality({}) + Cardinality({}) <= 1  BY FS_EmptySet
    <3>3. Majority(A, q)  BY <2>1, <2>2, <3>1
    <3> QED BY <2>1, <3>1, <3>2, <3>3, MajoritiesMeet
  <2>3. CASE Cardinality(t.voters[1] \ u.voters[1]) + Cardinality(u.voters[1] \ t.voters[1]) <= 1
    BY <2>1, <2>3, MajoritiesMeet
  <2> QED BY <1>6, <2>2, <2>3
<1>8. Conf!Quorums(trk)' = Conf!Quorums(u)  BY <1>3
<1>9. Conf!Overlap  BY <1>3, <1>7 DEF Conf!Overlap
<1>10. HasVoters(trk)'  BY <1>3, <1>11 DEF HasVoters
<1> QED BY <1>9, <1>10

\* Every quorum of a configuration meets every quorum of the one that the next change
\* that is accepted makes of it, joint or not, whatever the changes (confchange.go:
\* Simple, EnterJoint, LeaveJoint).
THEOREM QuorumsMeet ==
    ASSUME InitialVoters \subseteq Id, IsFiniteSet(InitialVoters), InitialVoters # {}
    PROVE  Conf!Spec => Conf!QuorumsOverlap
<1>1. Conf!Init => HasVoters(trk)  BY InitHasVoters
<1>2. HasVoters(trk) /\ [Conf!ApplyConfChange]_trk => HasVoters(trk)'
  BY ChangeStep
<1>3. HasVoters(trk) /\ [Conf!ApplyConfChange]_trk => [Conf!Overlap]_trk
  BY ChangeStep
<1> QED BY <1>1, <1>2, <1>3, PTL DEF Conf!Spec, Conf!QuorumsOverlap

(***************************************************************************)
(* The peers of a node                                                     *)
(***************************************************************************)
Members == INSTANCE Membership

\* A node that is up sends to every other voter of its configuration and to no one else,
\* after any sequence of changes (raft.go, publishEntries).
THEOREM VotersReached == Members!Spec => []Members!TransportReachesVoters
<1> DEFINE Type == /\ voters = [n \in Initial |-> voters[n]]
                   /\ transport = [n \in Initial |-> transport[n]]
                   /\ state = [n \in Initial |-> state[n]]
           Inv == Type /\ Members!TransportReachesVoters
<1>1. Members!Init => Inv  BY DEF Members!Init, Members!TransportReachesVoters
<1>2. Inv /\ [Members!Next]_Members!vars => Inv'
  <2> SUFFICES ASSUME Inv, [Members!Next]_Members!vars PROVE Inv'  OBVIOUS
  <2>1. ASSUME NEW id, NEW type, Members!rconf(type, id) PROVE Inv'
    BY <2>1 DEF Members!rconf, Members!TransportReachesVoters
  <2>2. ASSUME NEW n \in Initial, Members!Publish(n) PROVE Inv'
    <3> PICK c : c = log[done[n] + 1]  OBVIOUS
    <3>1. /\ voters' = [voters EXCEPT ![n] = Members!Changed(@, c)]
          /\ \/ /\ c.type = "add"
                /\ transport' = [transport EXCEPT ![n] = @ \cup {c.id}]
                /\ state' = state
             \/ /\ c.type = "delete" /\ c.id = n
                /\ state' = [state EXCEPT ![n] = "stopped"]
                /\ transport' = transport
             \/ /\ c.type = "delete" /\ c.id # n
                /\ transport' = [transport EXCEPT ![n] = @ \ {c.id}]
                /\ state' = state \/ state' = [state EXCEPT ![n] = "panic"]
      BY <2>2 DEF Members!Publish
    <3>2. Type'
      BY <3>1
    <3>3. state[n] = "up"  BY <2>2 DEF Members!Publish
    <3>4. ASSUME NEW m \in Initial, state'[m] = "up"
          PROVE  voters'[m] \ {m} \subseteq transport'[m] /\ transport'[m] \subseteq voters'[m] \cup {m}
      <4>1. CASE m # n  BY <3>1, <3>4, <4>1 DEF Members!TransportReachesVoters
      <4>2. CASE m = n
        <5>1. voters[n] \ {n} \subseteq transport[n] /\ transport[n] \subseteq voters[n] \cup {n}
          BY <3>3 DEF Members!TransportReachesVoters
        <5>2. voters'[n] = IF c.type = "add" THEN voters[n] \cup {c.id} ELSE voters[n] \ {c.id}
          BY <3>1 DEF Members!Changed
        <5>3. CASE c.type = "add"  BY <3>1, <4>2, <5>1, <5>2, <5>3
        <5>4. CASE c.type = "delete" /\ c.id # n  BY <3>1, <4>2, <5>1, <5>2, <5>4
        <5> QED BY <3>1, <3>4, <4>2, <5>3, <5>4
      <4> QED BY <4>1, <4>2
    <3> QED BY <3>2, <3>4 DEF Members!TransportReachesVoters
  <2>3. CASE UNCHANGED Members!vars  BY <2>3 DEF Members!vars, Members!TransportReachesVoters
  <2> QED BY <2>1, <2>2, <2>3 DEF Members!Next
<1> QED BY <1>1, <1>2, PTL DEF Members!Spec

(***************************************************************************)
(* The server                                                              *)
(***************************************************************************)
Srv == INSTANCE Server

\* A goroutine between connections is not a connection.
ServerConstants ==
    /\ IsFiniteSet(Conn) /\ "accept" \notin Conn /\ "recv" \notin Conn /\ "done" \notin Conn
    /\ IsCluster \in BOOLEAN
    /\ Kinds \subseteq {"run", "block", "register", "rconf"}

Serving == {"read", "run", "block", "register", "rconf", "propose", "await", "unregister", "leave"}

ServerType ==
    /\ h \in [Conn -> Serving \cup {"away", "accepted", "gone"}]
    /\ wg \in Int
    /\ acceptor \in Conn => h[acceptor] = "accepted"
    /\ main \in {"loop", "add", "closeConf", "closePropose", "closeListener", "cancel", "wait", "exit"}

\* The connections whose handlers run.
Served == {c \in Conn : h[c] \in Serving}

\* The WaitGroup counts the handlers, but for the one that Start is about to add.
Counted == Cardinality(Served) = wg + (IF main = "add" THEN 1 ELSE 0)

\* A proposal is in one place, and its handler waits for it.
InFlight ==
    /\ proposer \in Conn => h[proposer] = "await" /\ proposer \notin entries /\ proposer # commits
    /\ entries \subseteq Conn /\ \A c \in entries : h[c] = "await"
    /\ commits \in Conn => h[commits] = "await" /\ commits \notin entries

ServerInv == ServerType /\ Counted /\ InFlight

\* A handler that goes on is still counted.
LEMMA StillServed ==
    ASSUME ServerType, NEW c \in Conn, NEW l \in Serving, h[c] \in Serving, h' = [h EXCEPT ![c] = l]
    PROVE  Served' = Served
BY DEF Served

\* In the beginning no handler runs and nothing is proposed.
LEMMA ServerInit == ASSUME ServerConstants, Srv!Init PROVE ServerInv
<1>1. ServerType /\ InFlight  BY DEF ServerConstants, Srv!Init, ServerType, InFlight, Serving
<1>2. Served = {}  BY DEF Srv!Init, Served, Serving
<1> QED BY <1>1, <1>2, FS_EmptySet DEF ServerInv, Counted, Srv!Init

\* Every step keeps the count of handlers and the place of each proposal.
LEMMA ServerStep == ASSUME ServerConstants, ServerInv, Srv!Next PROVE ServerInv'
<1> USE DEF ServerConstants, ServerInv, ServerType, Srv!At, Srv!Goto
<1>1. ASSUME h' = h, wg' = wg, (main' = "add") <=> (main = "add") PROVE Counted'
  BY <1>1 DEF Counted, Served
<1>2. ASSUME NEW c \in Conn, NEW l \in Serving, h[c] \in Serving, h' = [h EXCEPT ![c] = l], wg' = wg, main' = main
      PROVE  Counted'
  BY <1>2, StillServed, Zenon DEF Counted
<1>3. ASSUME NEW c \in Conn, Srv!Accept(c) PROVE ServerInv'
  <2>1. ServerType' /\ InFlight'  BY <1>3 DEF Srv!Accept, InFlight, Srv!raftVars, Srv!mainVars
  <2>2. Served' = Served  BY <1>3 DEF Srv!Accept, Served, Serving
  <2> QED BY <1>3, <2>1, <2>2 DEF Srv!Accept, Counted, Srv!mainVars
<1>4. CASE Srv!AcceptFails
  BY <1>1, <1>4 DEF Srv!AcceptFails, InFlight, Srv!raftVars, Srv!mainVars
<1>5. CASE Srv!StartHandler
  <2>1. PICK a \in Conn : a = acceptor /\ h[a] = "accepted" /\ h' = [h EXCEPT ![a] = "read"]
    BY <1>5, Zenon DEF Srv!StartHandler
  <2>2. ServerType' /\ InFlight'
    BY <1>5 DEF Srv!StartHandler, InFlight, Srv!raftVars, Serving
  <2>3. Served' = Served \cup {a} /\ a \notin Served  BY <2>1 DEF Served, Serving
  <2>4. IsFiniteSet(Served)  BY FS_Subset DEF Served
  <2>5. Cardinality(Served') = Cardinality(Served) + 1  BY <2>3, <2>4, FS_AddElement, Zenon
  <2> QED BY <1>5, <2>2, <2>5 DEF Srv!StartHandler, Counted
<1>6. CASE Srv!Add
  <2>1. Served' = Served  BY <1>6 DEF Srv!Add, Served
  <2> QED BY <1>6, <2>1 DEF Srv!Add, Counted, InFlight, Srv!raftVars
<1>7. CASE Srv!Signal \/ Srv!RaftError \/ Srv!CloseConfChangeC \/ Srv!CloseProposeC
  BY <1>1, <1>7 DEF Srv!Signal, Srv!RaftError, Srv!CloseConfChangeC, Srv!CloseProposeC, Srv!Close, InFlight, Srv!raftVars
<1>8. CASE Srv!CloseListener \/ Srv!Cancel \/ Srv!Wait
  BY <1>1, <1>8 DEF Srv!CloseListener, Srv!Cancel, Srv!Wait, InFlight, Srv!raftVars
<1>9. ASSUME NEW c \in Conn, Srv!Command(c) PROVE ServerInv'
  <2>1. PICK k \in Kinds : h[c] = "read" /\ h' = [h EXCEPT ![c] = k]  BY <1>9, Zenon DEF Srv!Command
  <2>2. Counted'  BY <1>2, <1>9, Zenon DEF Srv!Command, Srv!mainVars, Serving
  <2> QED BY <1>9, <2>2 DEF Srv!Command, InFlight, Srv!raftVars, Srv!mainVars, Serving
<1>10. ASSUME NEW c \in Conn, Srv!Run(c) \/ Srv!Unblock(c) \/ Srv!CtxDone(c) \/ Srv!Register(c) \/ Srv!Unregister(c)
       PROVE  ServerInv'
  <2>1. PICK l \in {"read", "leave", "propose"} :
          /\ h[c] \in {"run", "block", "read", "register", "unregister"} /\ h' = [h EXCEPT ![c] = l]
          /\ UNCHANGED <<wg, main, acceptor, proposer, entries, commits>>
    BY <1>10 DEF Srv!Run, Srv!Unblock, Srv!CtxDone, Srv!Register, Srv!Unregister, Srv!raftVars, Srv!mainVars
  <2>2. Counted'  BY <1>2, <2>1, Zenon DEF Serving
  <2> QED BY <2>1, <2>2 DEF InFlight, Serving
<1>11. ASSUME NEW c \in Conn, Srv!Hangup(c) PROVE ServerInv'
  <2>1. CASE h' = h
    BY <1>1, <1>11, <2>1 DEF Srv!Hangup, InFlight, Srv!raftVars, Srv!mainVars
  <2>2. CASE h' = [h EXCEPT ![c] = "leave"]
    <3>1. Counted'  BY <1>2, <1>11, <2>2, Zenon DEF Srv!Hangup, Srv!mainVars, Serving
    <3> QED BY <1>11, <3>1 DEF Srv!Hangup, InFlight, Srv!raftVars, Srv!mainVars, Serving
  <2> QED BY <1>11, <2>1, <2>2 DEF Srv!Hangup
<1>12. ASSUME NEW c \in Conn, Srv!NilResult(c) PROVE ServerInv'
  BY <1>1, <1>12, Zenon DEF Srv!NilResult, InFlight, Srv!raftVars, Srv!mainVars
<1>13. ASSUME NEW c \in Conn, Srv!Done(c) PROVE ServerInv'
  <2>1. /\ h[c] = "leave" /\ h' = [h EXCEPT ![c] = "gone"] /\ wg' = wg - 1
        /\ UNCHANGED <<main, acceptor, proposer, entries, commits>>
    BY <1>13, Zenon DEF Srv!Done, Srv!raftVars, Srv!mainVars
  <2>6. ServerType'  BY <2>1
  <2>7. InFlight'  BY <2>1 DEF InFlight
  <2>2. Served' = Served \ {c} /\ c \in Served  BY <1>13, Zenon DEF Srv!Done, Served, Serving
  <2>3. IsFiniteSet(Served)  BY FS_Subset DEF Served
  <2>4. Cardinality(Served') = Cardinality(Served) - 1  BY <2>2, <2>3, FS_RemoveElement, Zenon
  <2>5. Cardinality(Served) \in Nat  BY <2>3, FS_CardinalityType
  <2>8. Counted'  BY <2>1, <2>4 DEF Counted
  <2> QED BY <2>6, <2>7, <2>8
<1>14. ASSUME NEW c \in Conn, Srv!Propose(c) PROVE ServerInv'
  <2>1. CASE UNCHANGED <<h, proposer>>
    BY <1>1, <1>14, <2>1, Zenon DEF Srv!Propose, Srv!Send, InFlight, Srv!mainVars
  <2>2. CASE h' = [h EXCEPT ![c] = "await"] /\ proposer = "recv" /\ proposer' = c
    <3>1. h[c] = "propose" /\ UNCHANGED <<wg, main, acceptor, entries, commits>>
      BY <1>14, Zenon DEF Srv!Propose, Srv!Send, Srv!mainVars
    <3>2. Counted'  BY <1>2, <2>2, <3>1, Zenon DEF Serving
    <3>3. ServerType'  BY <2>2, <3>1 DEF Serving
    <3>4. InFlight'  BY <2>2, <3>1 DEF InFlight
    <3> QED BY <3>2, <3>3, <3>4
  <2> QED BY <1>14, <2>1, <2>2, Zenon DEF Srv!Propose, Srv!Send
<1>15. ASSUME NEW c \in Conn, Srv!Rconf(c) PROVE ServerInv'
  <2>1. CASE UNCHANGED <<h, proposer>>
    BY <1>1, <1>15, <2>1, Zenon DEF Srv!Rconf, Srv!Send, InFlight, Srv!mainVars
  <2>2. CASE h' = [h EXCEPT ![c] = "read"] /\ proposer' = proposer
    <3>1. h[c] = "rconf" /\ UNCHANGED <<wg, main, acceptor, entries, commits>>
      BY <1>15, Zenon DEF Srv!Rconf, Srv!Send, Srv!mainVars
    <3>2. Counted'  BY <1>2, <2>2, <3>1, Zenon DEF Serving
    <3> QED BY <2>2, <3>1, <3>2 DEF InFlight, Serving
  <2> QED BY <1>15, <2>1, <2>2, Zenon DEF Srv!Rconf, Srv!Send
<1>16. CASE Srv!Accepted \/ Srv!Dropped \/ Srv!ProposerStops
  BY <1>1, <1>16 DEF Srv!Accepted, Srv!Dropped, Srv!ProposerStops, InFlight, Srv!mainVars
<1>17. ASSUME NEW c \in Conn, Srv!Publish(c) PROVE ServerInv'
  BY <1>1, <1>17 DEF Srv!Publish, InFlight, Srv!mainVars
<1>18. CASE Srv!Lookup \/ Srv!Removed \/ Srv!RaftStops \/ Srv!CommitsEnd
  BY <1>1, <1>18 DEF Srv!Lookup, Srv!Removed, Srv!RaftStops, Srv!Stop, Srv!CommitsEnd, InFlight, Srv!mainVars
<1>19. CASE Srv!Callback
  <2>1. PICK c \in Conn : /\ c = commits /\ h[c] = "await" /\ h' = [h EXCEPT ![c] = "unregister"] /\ commits' = "recv"
                          /\ UNCHANGED <<wg, main, acceptor, proposer, entries>>
    BY <1>19, Zenon DEF Srv!Callback, Srv!mainVars
  <2>2. Counted'  BY <1>2, <2>1, Zenon DEF Serving
  <2> QED BY <2>1, <2>2 DEF InFlight, Serving
<1> QED BY <1>3, <1>4, <1>5, <1>6, <1>7, <1>8, <1>9, <1>10, <1>11, <1>12, <1>13, <1>14, <1>15, <1>16, <1>17, <1>18, <1>19, Zenon
        DEF Srv!Next, Srv!MainStep, Srv!RaftStep, Srv!HandlerStep

\* ServerInv is an invariant.
LEMMA ServerAlways == ASSUME ServerConstants PROVE Srv!Spec => []ServerInv
<1>1. Srv!Init => ServerInv  BY ServerInit
<1>2. ServerInv /\ [Srv!Next]_Srv!vars => ServerInv'
  <2>1. ASSUME ServerInv, UNCHANGED Srv!vars PROVE ServerInv'
    BY <2>1 DEF Srv!vars, ServerInv, ServerType, Counted, Served, InFlight
  <2> QED BY <2>1, ServerStep
<1> QED BY <1>1, <1>2, PTL DEF Srv!Spec

\* Start returns from Wait alone.
LEMMA ExitStep == ASSUME Srv!Next, main' = "exit" PROVE main = "wait" /\ wg = 0 /\ wg' = wg
<1>1. main # "exit"  BY DEF Srv!Next
<1> USE DEF Srv!mainVars
<1>2. CASE Srv!AcceptFails \/ Srv!Signal \/ Srv!StartHandler \/ Srv!Add \/ Srv!RaftError
  BY <1>1, <1>2 DEF Srv!AcceptFails, Srv!Signal, Srv!StartHandler, Srv!Add, Srv!RaftError
<1>3. CASE Srv!CloseConfChangeC \/ Srv!CloseProposeC \/ Srv!CloseListener \/ Srv!Cancel \/ Srv!Wait
  BY <1>3 DEF Srv!CloseConfChangeC, Srv!CloseProposeC, Srv!Close, Srv!CloseListener, Srv!Cancel, Srv!Wait
<1>4. CASE Srv!RaftStep \/ Srv!Removed
  BY <1>1, <1>4 DEF Srv!RaftStep, Srv!Removed, Srv!Accepted, Srv!Dropped, Srv!ProposerStops, Srv!Publish, Srv!Lookup,
                    Srv!Callback, Srv!RaftStops, Srv!Stop, Srv!CommitsEnd
<1>5. ASSUME NEW c \in Conn, Srv!Accept(c) \/ Srv!Command(c) \/ Srv!Hangup(c) \/ Srv!CtxDone(c) \/ Srv!Unblock(c)
      PROVE  main' = main
  BY <1>5 DEF Srv!Accept, Srv!Command, Srv!Hangup, Srv!CtxDone, Srv!Unblock
<1>6. ASSUME NEW c \in Conn, Srv!HandlerStep(c) PROVE main' = main
  BY <1>6, Zenon DEF Srv!HandlerStep, Srv!Run, Srv!NilResult, Srv!Done, Srv!Register, Srv!Propose, Srv!Unregister, Srv!Rconf, Srv!Send
<1> QED BY <1>2, <1>3, <1>4, <1>5, <1>6 DEF Srv!Next, Srv!MainStep

\* Start does not return while a handler runs (server.go, the WaitGroup), unless the
\* process has panicked.
THEOREM ExitsAlone == ASSUME ServerConstants PROVE Srv!Spec => []Srv!WaitsForClients
<1> DEFINE Inv == main = "exit" => wg = 0
<1>1. Srv!Init => Inv  BY DEF Srv!Init
<1>2. Inv /\ [Srv!Next]_Srv!vars => Inv'
  BY ExitStep DEF Srv!vars
<1>3. ServerInv /\ Inv => Srv!WaitsForClients
  <2>1. SUFFICES ASSUME ServerInv, main = "exit", wg = 0 PROVE \A c \in Conn : h[c] \in {"away", "accepted", "gone"}
    BY DEF Srv!WaitsForClients
  <2>2. IsFiniteSet(Served)  BY FS_Subset DEF Served, ServerConstants
  <2>3. Cardinality(Served) = 0  BY <2>1 DEF ServerInv, Counted
  <2>4. Served = {}  BY <2>2, <2>3, FS_EmptySet
  <2> QED BY <2>1, <2>4 DEF Served, ServerInv, ServerType
<1> HIDE DEF Inv
<1> QED BY <1>1, <1>2, <1>3, ServerAlways, PTL DEF Srv!Spec

\* An executed proposal finds the handler that made it waiting for it (handler.go,
\* the callbacks).
THEOREM AnswersWhoWaits == ASSUME ServerConstants PROVE Srv!Spec => []Srv!AnswersProposer
<1>1. ServerInv => Srv!AnswersProposer  BY DEF ServerInv, InFlight, Srv!AnswersProposer, Srv!At
<1> QED BY <1>1, ServerAlways, PTL
=============================================================================
