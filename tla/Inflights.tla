------------------------------ MODULE Inflights ------------------------------
(***************************************************************************)
(* etcd/raft/tracker/inflights.go: the window of append messages that a    *)
(* leader has in flight to a follower, as the ring buffer the code keeps.  *)
(* Its buffer grows by doubling until it has the size of the window.       *)
(***************************************************************************)
EXTENDS Integers, Sequences

CONSTANTS Size,       \* the size of the window
          MaxAdds     \* the bound on messages

VARIABLES start, count,
          buffer,     \* a sequence; the code counts from 0
          last        \* the last operation and its argument

vars == <<start, count, buffer, last>>

Sent == last.index        \* the leader sends rising indices

Init ==
    /\ start = 0 /\ count = 0 /\ buffer = <<>>
    /\ last = [op |-> "new", to |-> 0, index |-> 0]

Full == count = Size

grow ==
    LET newSize == IF buffer = <<>> THEN 1
                   ELSE IF 2 * Len(buffer) > Size THEN Size ELSE 2 * Len(buffer)
    IN  [k \in 1..newSize |-> IF k <= Len(buffer) THEN buffer[k] ELSE 0]

\* Mutant: the ring wraps one place too late.
AddWrapsLate(i) ==
    /\ ~Full
    /\ LET next == IF start + count > Size THEN start + count - Size ELSE start + count
           grown == IF next >= Len(buffer) THEN grow ELSE buffer
       IN  buffer' = [grown EXCEPT ![next + 1] = i]
    /\ count' = count + 1
    /\ last' = [op |-> "add", to |-> i, index |-> i]
    /\ UNCHANGED start

\* maybeSendAppend adds only while the window is not full.
Add(i) ==
    /\ ~Full
    /\ LET next == IF start + count >= Size THEN start + count - Size ELSE start + count
           grown == IF next >= Len(buffer) THEN grow ELSE buffer
       IN  buffer' = [grown EXCEPT ![next + 1] = i]
    /\ count' = count + 1
    /\ last' = [op |-> "add", to |-> i, index |-> i]
    /\ UNCHANGED start

\* The position after n messages from start.
After(n) == IF start + n >= Size THEN start + n - Size ELSE start + n
At(n) == buffer[After(n) + 1]
Contents == [k \in 1..count |-> At(k - 1)]

\* The messages up to the first larger one go.
FreeLE(to) ==
    LET larger == {n \in 0..(count - 1) : to < At(n)}
        i == IF larger = {} THEN count ELSE CHOOSE n \in larger : \A m \in larger : n <= m
    IN  /\ count' = count - i
        /\ start' = IF i = 0 THEN start ELSE IF i = count THEN 0 ELSE After(i)
        /\ last' = [op |-> "free", to |-> to, index |-> Sent]
        /\ UNCHANGED buffer

\* A heartbeat answer frees one place of a full window.
FreeFirstOne == Full /\ FreeLE(At(0))

reset == count' = 0 /\ start' = 0 /\ last' = [op |-> "reset", to |-> 0, index |-> Sent] /\ UNCHANGED buffer

Next ==
    \/ \E i \in (Sent + 1)..MaxAdds : Add(i)
    \/ \E to \in 0..Sent : FreeLE(to)
    \/ FreeFirstOne
    \/ reset

Spec == Init /\ [][Next]_vars

\* What FreeLE leaves: without the first messages, which are those up to its argument.
Freed(to) ==
    \E n \in 0..count :
        /\ Contents' = SubSeq(Contents, n + 1, count)
        /\ \A k \in 1..n : Contents[k] <= to
        /\ \A k \in (n + 1)..count : Contents[k] > to

\* Through wraps and growth of the ring the window is the queue that Progress has:
\* Add appends to it, FreeLE leaves exactly what is above its argument.
RingStep ==
    /\ last'.op = "add" => Contents' = Append(Contents, last'.to)
    /\ last'.op = "free" => Freed(last'.to)
    /\ last'.op = "reset" => Contents' = <<>>

RingIsWindow == [][RingStep]_vars
=============================================================================
