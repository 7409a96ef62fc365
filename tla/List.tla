-------------------------------- MODULE List ---------------------------------
(***************************************************************************)
(* memdb/list_struct.go: the doubly linked list behind the list commands,  *)
(* with the pointers it assigns.  A client holds the lock of the key       *)
(* during an operation, so each is one step.  A nil dereference panics,    *)
(* which ends the server.                                                  *)
(***************************************************************************)
EXTENDS Integers, FiniteSets, Sequences, SequencesExt, FiniteSetsExt

CONSTANTS Value, Position, Count,
          Cells,      \* the most nodes in the list
          MaxLen,     \* the bound on Len, which LREM does not lower
          Nil

VARIABLES h,          \* the heap: Next, Prev and Val of every node
          len,        \* List.Len
          out,        \* the last operation and what it returned
          panicked

vars == <<h, len, out, panicked>>

L == 0
R == Cells + 1
None == -1
Node == L..R

NewList ==
    [Next |-> [n \in Node |-> IF n = L THEN R ELSE None],
     Prev |-> [n \in Node |-> IF n = R THEN L ELSE None],
     Val |-> [n \in Node |-> Nil]]

Init ==
    /\ h = NewList
    /\ len = 0
    /\ out = <<>>
    /\ panicked = FALSE

\* The nodes met from one end, along Next or Prev, until the other end.
Walk(link, from, to) ==
    LET at[i \in 0..Cells] ==
            IF i = 0 THEN link[from]
            ELSE IF at[i - 1] \in {to, None} THEN None ELSE link[at[i - 1]]
    IN  SelectSeq([i \in 1..Cells |-> at[i - 1]], LAMBDA n : n \notin {to, None})

Forward == Walk(h.Next, L, R)
Backward == Walk(h.Prev, R, L)

\* A node the garbage collector may give out again.
Fresh == CHOOSE n \in 1..Cells : n \notin ToSet(Forward) \cup ToSet(Backward)
Full == Len(Forward) = Cells \/ len = MaxLen

Link(g, a, b) == [g EXCEPT !.Next[a] = b, !.Prev[b] = a]
Cut(g, n) == [g EXCEPT !.Next[n] = None, !.Prev[n] = None]

Panic == panicked' = TRUE /\ out' = <<"panic">> /\ UNCHANGED <<h, len>>

\* The handlers delete the key of a list whose Len is 0, and the next push
\* makes a new one.
Return(g, n, r) ==
    /\ h' = IF n = 0 THEN NewList ELSE g
    /\ len' = n
    /\ out' = r
    /\ UNCHANGED panicked

Push(op, v, left, right) ==
    Return(Link(Link([h EXCEPT !.Val[Fresh] = v], left, Fresh), Fresh, right), len + 1, <<op, v, len + 1>>)

LPush(v) == ~Full /\ Push("lpush", v, L, h.Next[L])
RPush(v) == ~Full /\ Push("rpush", v, h.Prev[R], R)

LPop ==
    LET node == h.Next[L] IN
    IF len = 0 THEN Return(h, len, <<"lpop", Nil>>)
    ELSE IF h.Next[node] = None THEN Panic
    ELSE Return(Cut(Link(h, L, h.Next[node]), node), len - 1, <<"lpop", h.Val[node]>>)

RPop ==
    LET node == h.Prev[R] IN
    IF len = 0 THEN Return(h, len, <<"rpop", Nil>>)
    ELSE IF h.Prev[node] = None THEN Panic
    ELSE Return(Cut(Link(h, h.Prev[node], R), node), len - 1, <<"rpop", h.Val[node]>>)

\* Walking i steps, and no further than the other end.
Nth(nodes, i, end) == IF i <= Len(nodes) THEN nodes[i] ELSE end

Set(i, v) ==
    IF i >= len \/ -i > len THEN Return(h, len, <<"lset", i, v, FALSE>>)
    ELSE LET node == IF i < 0 THEN Nth(Backward, -i, L) ELSE Nth(Forward, i + 1, R)
         IN  Return([h EXCEPT !.Val[node] = v], len, <<"lset", i, v, TRUE>>)

\* RemoveElement unlinks the first count nodes that hold v, from the left or
\* from the right; it leaves Len alone, and takes 0 for Len - 1.
Victims(v, count) ==
    LET c == IF count = 0 THEN len - 1 ELSE count
        found == SelectSeq(IF c >= 0 THEN Forward ELSE Backward, LAMBDA n : h.Val[n] = v)
        most == IF c >= 0 THEN c ELSE -c
    IN  SubSeq(found, 1, IF most < Len(found) THEN most ELSE Len(found))

\* A removal that forgets the link back.
UnlinkNext(g, n) == Cut([g EXCEPT !.Next[g.Prev[n]] = g.Next[n]], n)

Unlink(g, n) == Cut(Link(g, g.Prev[n], g.Next[n]), n)

RemoveElement(v, count) ==
    IF len = 0 THEN Return(h, len, <<"lrem", v, count, 0>>)
    ELSE LET gone == Victims(v, count)
         IN  Return(FoldLeft(Unlink, h, gone), len, <<"lrem", v, count, Len(gone)>>)

From(i) == IF i < 0 THEN len + i ELSE i
Beyond(start, end) == From(start) > From(end) \/ From(start) >= len \/ From(end) < 0
First(start) == IF From(start) < 0 THEN 0 ELSE From(start)
LastAt(end) == IF From(end) >= len THEN len - 1 ELSE From(end)

Clear(answer) ==
    IF len = 0 THEN Return(h, len, answer)
    ELSE LET first == h.Next[L]
             last == h.Prev[R]
             g == Link(h, L, R)
         IN  Return([g EXCEPT !.Prev[first] = None, !.Next[last] = None], 0, answer)

\* The discarded nodes lose their links before the ones kept are linked to
\* the ends; a start or an end that the walk does not reach is nil.
Keep(startNode, endNode) ==
    LET g1 == [h EXCEPT !.Prev[h.Next[L]] = None, !.Next[h.Prev[R]] = None]
        g2 == IF g1.Prev[startNode] = None THEN g1
              ELSE [g1 EXCEPT !.Next[g1.Prev[startNode]] = None]
        g3 == IF g2.Next[endNode] = None THEN g2
              ELSE [g2 EXCEPT !.Prev[g2.Next[endNode]] = None]
    IN  Link(Link(g3, L, startNode), endNode, R)

Trim(start, end) ==
    LET first == First(start)
        last == LastAt(end)
        answer == <<"ltrim", start, end>>
    IN  CASE len = 0 -> Return(h, len, answer)
          [] len > 0 /\ Beyond(start, end) -> Clear(answer)
          [] len > 0 /\ ~Beyond(start, end) /\ last >= Len(Forward) -> Panic
          [] OTHER -> Return(Keep(Forward[first + 1], Forward[last + 1]), last - first + 1, answer)

Next ==
    /\ ~panicked
    /\ \/ \E v \in Value : LPush(v) \/ RPush(v) \/ \E i \in Position : Set(i, v)
       \/ LPop
       \/ RPop
       \/ \E i, j \in Position : Trim(i, j)
       \/ \E v \in Value, c \in Count : RemoveElement(v, c)

Spec == Init /\ [][Next]_vars

(***************************************************************************)
(* The operations that only read.  "panic" is the answer of a walk that    *)
(* leaves the list.                                                        *)
(***************************************************************************)
Reach(nodes, i, end) ==
    IF i <= Len(nodes) THEN h.Val[nodes[i]]
    ELSE IF i <= Len(nodes) + 1 THEN h.Val[end] ELSE "panic"

Index(i) ==
    IF i >= len \/ -i > len THEN Nil
    ELSE IF i < 0 THEN Reach(Backward, -i, L) ELSE Reach(Forward, i + 1, R)

LRange(start, end) ==
    IF Beyond(start, end) THEN <<>>
    ELSE [k \in 1..(LastAt(end) - First(start) + 1) |-> Reach(Forward, First(start) + k, R)]

\* LPOS.  An option that is absent is None, or 0 for rank.  The first loop
\* looks for the rank-th match, the second collects matches from there; both
\* stop when maxlen values were compared.  No match answers nil.
Hits(v, scan, k) == {j \in 1..k : h.Val[scan[j]] = v}

Limit(maxlen) ==
    IF maxlen = None THEN Cells + 1 ELSE IF maxlen = 0 THEN len ELSE maxlen

LPos(v, rank, count, maxlen) ==
    LET scan == IF rank < 0 THEN Backward ELSE Forward
        wanted == IF rank < 0 THEN -rank ELSE rank
        limit == Limit(maxlen)
        stops == {k \in DOMAIN scan : k = limit \/ Cardinality(Hits(v, scan, k)) = wanted}
        k0 == IF rank = 0 THEN 1 ELSE IF stops = {} THEN Len(scan) + 1 ELSE Min(stops)
        last == IF limit < Len(scan) THEN limit ELSE Len(scan)
        found == SelectSeq([k \in 1..last |-> k], LAMBDA k : k >= k0 /\ k \in Hits(v, scan, last))
        pos == [i \in DOMAIN found |-> IF rank < 0 THEN len - found[i] ELSE found[i] - 1]
        most == IF count = None THEN 1 ELSE IF count = 0 THEN len ELSE count
    IN  IF len = 0 \/ k0 > Len(scan) \/ (rank # 0 /\ Cardinality(Hits(v, scan, k0)) # wanted) \/ found = <<>>
        THEN <<>>
        ELSE SubSeq(pos, 1, IF most < Len(pos) THEN most ELSE Len(pos))

(***************************************************************************)
(* Properties                                                              *)
(***************************************************************************)
Values(nodes) == [i \in DOMAIN nodes |-> h.Val[nodes[i]]]

Abstract == INSTANCE RedisList WITH s <- Values(Forward), answer <- out

\* Len is the number of elements.  LREM unlinks nodes and leaves Len, until the
\* list is dropped.
Exact == len = Len(Forward)

\* While Len is exact every operation but LREM is that of a sequence: the values
\* met from the head change, and the answer is, as on one; nothing panics.
SequenceStep == Exact /\ out'[1] # "lrem" => Abstract!Next
ListIsSequence == [][SequenceStep]_vars

\* While Len is exact LINDEX, LRANGE and LPOS with every combination of RANK,
\* COUNT and MAXLEN answer what their definitions on a sequence say.
ReadsMatch ==
    LET s == Values(Forward) IN
    Exact /\ ~panicked =>
    /\ \A i \in Position :
          Index(i) = IF Abstract!At(i) \in DOMAIN s THEN s[Abstract!At(i)] ELSE Nil
    /\ \A i, j \in Position : LRange(i, j) = Abstract!Between(i, j)
    /\ \A v \in Value, rank \in -2..2, count, maxlen \in None..Cells :
          LET all == Abstract!Matches(v, IF rank = 0 THEN 1 ELSE rank, IF maxlen = None THEN 0 ELSE maxlen)
              most == IF count = None THEN 1 ELSE IF count = 0 THEN Len(all) ELSE count
          IN  LPos(v, rank, count, maxlen) = SubSeq(all, 1, IF most < Len(all) THEN most ELSE Len(all))

\* The two directions stay mirror images, LREM included: the walk from the
\* tail, which RPOP, negative indexes and RANK -n use, meets the nodes of the
\* walk from the head in reverse; and Len never falls below their number.
WellLinked == panicked \/ (Backward = Reverse(Forward) /\ len >= Len(Forward))
=============================================================================
