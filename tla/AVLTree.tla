------------------------------- MODULE AVLTree -------------------------------
(***************************************************************************)
(* memdb/btree.go and sorted_set.go: the AVL tree behind the sorted sets   *)
(* and ZADD, ZREM, ZRANGE and ZRANK on one key, each under its lock.  A    *)
(* node points to its children and to a value, the names that share one    *)
(* score; dict points from a name to the node that was made for it.  A     *)
(* node and the value it is made with have the same number.                *)
(***************************************************************************)
EXTENDS Integers, FiniteSets, Sequences, SequencesExt

CONSTANTS Pair,      \* the <<member, score>> pairs of ZADD
          Member,
          Option,    \* the options of ZADD
          MaxScore   \* the bound on scores

VARIABLE g           \* the tree

Nil == 0
Cell == 1..(2 * Cardinality(Member) + 1)
None == -1           \* no score

NewTree ==
    [root |-> Nil, len |-> 0, dict |-> [m \in Member |-> Nil],
     left |-> [n \in Cell |-> Nil], right |-> [n \in Cell |-> Nil],
     height |-> [n \in Cell |-> 0], Value |-> [n \in Cell |-> Nil],
     Names |-> [v \in Cell |-> {}], Score |-> [v \in Cell |-> None],
     panic |-> FALSE]

Init == g = NewTree

(***************************************************************************)
(* The tree.  An operation that may move the root of a subtree answers the *)
(* tree and the root.                                                      *)
(***************************************************************************)
height(t, n) == IF n = Nil THEN 0 ELSE t.height[n]
balance(t, n) == IF n = Nil THEN 0 ELSE height(t, t.left[n]) - height(t, t.right[n])
ScoreAt(t, n) == t.Score[t.Value[n]]

SetHeight(t, n) ==
    LET l == height(t, t.left[n])
        r == height(t, t.right[n])
    IN  [t EXCEPT !.height[n] = 1 + IF r > l THEN r ELSE l]

\* A nil pointer is followed, which ends the server.
Panic(t, n) == <<[t EXCEPT !.panic = TRUE], n>>

\* A rotation that drops the subtree between the two nodes.
rotateRightLoses(t, n) ==
    LET l == t.left[n]
        t1 == [t EXCEPT !.right[l] = n, !.left[n] = Nil]
    IN  IF l = Nil THEN Panic(t, n) ELSE <<SetHeight(SetHeight(t1, n), l), l>>

rotateRight(t, n) ==
    LET l == t.left[n]
        t1 == [t EXCEPT !.right[l] = n, !.left[n] = t.right[l]]
    IN  IF l = Nil THEN Panic(t, n) ELSE <<SetHeight(SetHeight(t1, n), l), l>>

rotateLeft(t, n) ==
    LET r == t.right[n]
        t1 == [t EXCEPT !.left[r] = n, !.right[n] = t.left[r]]
    IN  IF r = Nil THEN Panic(t, n) ELSE <<SetHeight(SetHeight(t1, n), r), r>>

\* The outer child is the higher one, or the inner one has to be rotated first.
RightAt(t, n, outer) ==
    IF outer THEN rotateRight(t, n)
    ELSE LET sub == rotateLeft(t, t.left[n])
         IN  rotateRight([sub[1] EXCEPT !.left[n] = sub[2]], n)

LeftAt(t, n, outer) ==
    IF outer THEN rotateLeft(t, n)
    ELSE LET sub == rotateRight(t, t.right[n])
         IN  rotateLeft([sub[1] EXCEPT !.right[n] = sub[2]], n)

\* The end of insert: as the code has it, the side of n on which the new score
\* lies decides, not the side of its child.
AfterInsert(t0, n, v) ==
    LET t == SetHeight(t0, n)
        b == balance(t, n)
        c == ScoreAt(t, n) - t.Score[v]
    IN  CASE b > 1 /\ c # 0 -> RightAt(t, n, c > 0)
          [] b < -1 /\ c # 0 -> LeftAt(t, n, c < 0)
          [] OTHER -> <<t, n>>

RECURSIVE insert(_, _, _)
insert(t, n, v) ==
    IF n = Nil
    THEN <<[t EXCEPT !.left[v] = Nil, !.right[v] = Nil, !.height[v] = 1, !.Value[v] = v,
                     !.dict = [m \in Member |-> IF m \in t.Names[v] THEN v ELSE @[m]],
                     !.len = @ + 1], v>>
    ELSE IF ScoreAt(t, n) < t.Score[v]
    THEN LET sub == insert(t, t.right[n], v)
         IN  AfterInsert([sub[1] EXCEPT !.right[n] = sub[2]], n, v)
    ELSE IF ScoreAt(t, n) > t.Score[v]
    THEN LET sub == insert(t, t.left[n], v)
         IN  AfterInsert([sub[1] EXCEPT !.left[n] = sub[2]], n, v)
    ELSE <<[t EXCEPT !.Names[t.Value[n]] = @ \cup t.Names[v],
                     !.dict = [m \in Member |-> IF m \in t.Names[v] THEN n ELSE @[m]]], n>>

rebalance(t0, n) ==
    IF n = Nil THEN <<t0, n>>
    ELSE LET t == SetHeight(t0, n)
             b == balance(t, n)
         IN  CASE b > 1 -> RightAt(t, n, balance(t, t.left[n]) >= 0)
               [] b < -1 -> LeftAt(t, n, balance(t, t.right[n]) <= 0)
               [] OTHER -> <<t, n>>

RECURSIVE minOf(_, _)
minOf(t, n) == IF t.left[n] = Nil THEN n ELSE minOf(t, t.left[n])

Detach(t, n) == [t EXCEPT !.left[n] = Nil, !.right[n] = Nil, !.height[n] = 1]

\* deleteNode also answers whether a node went.  A node with two children takes
\* the value of its successor, is not rebalanced and keeps its height.
RECURSIVE deleteNode(_, _, _)
deleteNode(t, n, target) ==
    IF n = Nil THEN <<t, n, FALSE>>
    ELSE IF t.Score[target] < ScoreAt(t, n)
    THEN LET sub == deleteNode(t, t.left[n], target)
         IN  Append(rebalance([sub[1] EXCEPT !.left[n] = sub[2]], n), sub[3])
    ELSE IF t.Score[target] > ScoreAt(t, n)
    THEN LET sub == deleteNode(t, t.right[n], target)
         IN  Append(rebalance([sub[1] EXCEPT !.right[n] = sub[2]], n), sub[3])
    ELSE LET names == t.Names[t.Value[n]] IN
         IF names # {} /\ Cardinality(t.Names[target]) # Cardinality(names)
         THEN <<[t EXCEPT !.Names[t.Value[n]] = names \ t.Names[target]], n, FALSE>>
         ELSE IF t.left[n] = Nil THEN <<Detach(t, n), t.right[n], TRUE>>
         ELSE IF t.right[n] = Nil THEN <<Detach(t, n), t.left[n], TRUE>>
         ELSE LET next == t.Value[minOf(t, t.right[n])]
                  sub == deleteNode([t EXCEPT !.Value[n] = next], t.right[n], next)
              IN  <<[sub[1] EXCEPT !.right[n] = sub[2]], n, TRUE>>

Delete(t, m) ==
    LET sub == deleteNode(t, t.root, t.Value[t.dict[m]])
    IN  IF t.dict[m] = Nil THEN t
        ELSE [sub[1] EXCEPT !.root = sub[2], !.dict[m] = Nil, !.len = IF sub[3] THEN @ - 1 ELSE @]

RECURSIVE Ascend(_, _)
Ascend(t, n) ==
    IF n = Nil THEN <<>> ELSE Ascend(t, t.left[n]) \o <<n>> \o Ascend(t, t.right[n])

\* What the root and dict reach.  The garbage collector takes the rest.
LiveNodes(t) == (ToSet(Ascend(t, t.root)) \cup {t.dict[m] : m \in Member}) \ {Nil}
LiveValues(t) == {t.Value[n] : n \in LiveNodes(t)}

Collect(t) ==
    LET nodes == LiveNodes(t)
        values == LiveValues(t)
        keep(f, s, none) == [c \in Cell |-> IF c \in s THEN f[c] ELSE none]
    IN  [t EXCEPT !.left = keep(@, nodes, Nil), !.right = keep(@, nodes, Nil),
                  !.height = keep(@, nodes, 0), !.Value = keep(@, nodes, Nil),
                  !.Names = keep(@, values, {}), !.Score = keep(@, values, None)]

Insert(t, m, score) ==
    LET v == CHOOSE c \in Cell : c \notin LiveNodes(t) \cup LiveValues(t)
        sub == insert([t EXCEPT !.Names[v] = {m}, !.Score[v] = score], t.root, v)
    IN  [sub[1] EXCEPT !.root = sub[2]]

(***************************************************************************)
(* The commands                                                            *)
(***************************************************************************)
GetByName(m) == IF g.dict[m] = Nil THEN None ELSE ScoreAt(g, g.dict[m])

\* One pair of ZADD.  The score kept is that of dict's node; CH follows it even
\* if the member is new.
Skips(m, score, option) ==
    LET old == GetByName(m) IN
    \/ old = None /\ option = "xx"
    \/ old # None /\ \/ option = "nx"
                     \/ option = "lt" /\ score >= old
                     \/ option = "gt" /\ score <= old
                     \/ option # "incr" /\ score = old

zadd(m, score, option) ==
    LET old == GetByName(m)
        new == IF option = "incr" /\ old # None THEN old + score ELSE score
        t == IF old = None THEN g ELSE Delete(g, m)
    IN  /\ ~Skips(m, score, option)
        /\ new <= MaxScore
        /\ g' = IF option = "ch" /\ old = None THEN [g EXCEPT !.panic = TRUE]
                ELSE Collect(Insert(Collect(t), m, new))

zrem(m) == g.dict[m] # Nil /\ g' = Collect(Delete(g, m))

Next ==
    /\ ~g.panic
    /\ \/ \E p \in Pair, o \in Option : zadd(p[1], p[2], o)
       \/ \E m \in Member : zrem(m)

Spec == Init /\ [][Next]_g

\* ZRANGE counts nodes: the names of those between start and end, in order, each
\* with its score.
zrange(start, end) ==
    LET nodes == Ascend(g, g.root)
        to == IF end > g.len THEN g.len ELSE end
    IN  [k \in {j \in DOMAIN nodes : j > start /\ j - 1 <= to} |->
            <<g.Names[g.Value[nodes[k]]], ScoreAt(g, nodes[k])>>]

\* The rank counts a left subtree by its height.
RECURSIVE rank(_, _)
rank(n, score) ==
    IF n = Nil THEN 0
    ELSE IF ScoreAt(g, n) < score THEN 1 + height(g, g.left[n]) + rank(g.right[n], score)
    ELSE rank(g.left[n], score)

zrank(m) == rank(g.root, GetByName(m))

(***************************************************************************)
(* Properties                                                              *)
(***************************************************************************)
Nodes == Ascend(g, g.root)

\* ZRANGE from the first to past the last answers the scores in order, whatever
\* rotations and deletions made the tree; no score is in two nodes.
SearchOrder ==
    LET all == zrange(0, Cardinality(Cell)) IN
    /\ Len(all) = g.len
    /\ \A j, k \in DOMAIN all : j < k => all[j][2] < all[k][2]

\* dict and the tree agree: a name is found by ZADD, ZREM and ZRANK exactly if it
\* is in the tree, and with the score it has there.
DictMatches ==
    \A m \in Member :
        LET homes == {k \in DOMAIN Nodes : m \in g.Names[g.Value[Nodes[k]]]}
        IN  /\ (g.dict[m] # Nil) <=> (homes # {})
            /\ \A k \in homes : ScoreAt(g, Nodes[k]) = GetByName(m)

\* No command follows a nil pointer: a rotation has the child it turns around,
\* and ZADD reads the score of a member that exists.
NoNilPointer == ~g.panic
=============================================================================
