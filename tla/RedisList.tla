------------------------------ MODULE RedisList ------------------------------
(***************************************************************************)
(* What a list promises: a sequence of values and the answer of the last   *)
(* command that changed it, as the list commands of Redis define them.     *)
(***************************************************************************)
EXTENDS Integers, Sequences, SequencesExt

CONSTANTS Value, Position, Nil

VARIABLES s,      \* the values, from left to right
          answer  \* the last operation and what it returned

vars == <<s, answer>>

Init == s = <<>> /\ answer = <<>>

\* A position counts from 0 at the left, or from -1 at the right.
At(i) == IF i < 0 THEN Len(s) + i + 1 ELSE i + 1

\* The part of s between two positions, cut to the ends of s.
Between(start, end) ==
    LET from == IF At(start) < 1 THEN 1 ELSE At(start)
        to == IF At(end) > Len(s) THEN Len(s) ELSE At(end)
    IN  SubSeq(s, from, to)

LPush(v) == s' = <<v>> \o s /\ answer' = <<"lpush", v, Len(s) + 1>>
RPush(v) == s' = Append(s, v) /\ answer' = <<"rpush", v, Len(s) + 1>>

LPop ==
    IF s = <<>> THEN s' = s /\ answer' = <<"lpop", Nil>>
    ELSE s' = Tail(s) /\ answer' = <<"lpop", Head(s)>>

RPop ==
    IF s = <<>> THEN s' = s /\ answer' = <<"rpop", Nil>>
    ELSE s' = Front(s) /\ answer' = <<"rpop", Last(s)>>

Set(i, v) ==
    IF At(i) \in DOMAIN s THEN s' = [s EXCEPT ![At(i)] = v] /\ answer' = <<"lset", i, v, TRUE>>
    ELSE s' = s /\ answer' = <<"lset", i, v, FALSE>>

Trim(start, end) == s' = Between(start, end) /\ answer' = <<"ltrim", start, end>>

Next ==
    \/ \E v \in Value : LPush(v) \/ RPush(v) \/ \E i \in Position : Set(i, v)
    \/ LPop \/ RPop
    \/ \E i, j \in Position : Trim(i, j)

Spec == Init /\ [][Next]_vars

\* LPOS: the positions of v, in the direction of rank, starting with the
\* rank-th match, among the first maxlen values compared (0: all of them).
Matches(v, rank, maxlen) ==
    LET n == IF maxlen = 0 \/ maxlen > Len(s) THEN Len(s) ELSE maxlen
        scan == IF rank > 0 THEN [k \in 1..n |-> k] ELSE [k \in 1..n |-> Len(s) + 1 - k]
        hits == SelectSeq(scan, LAMBDA k : s[k] = v)
        skip == IF rank > 0 THEN rank ELSE -rank
    IN  [k \in 1..(Len(hits) + 1 - skip) |-> hits[k + skip - 1] - 1]
=============================================================================
