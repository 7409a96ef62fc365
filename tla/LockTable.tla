------------------------------ MODULE LockTable ------------------------------
(***************************************************************************)
(* What the striped lock table of a MemDb promises its callers: a command  *)
(* gets all the stripes it asked for at once, exclusively or shared, and   *)
(* two commands whose stripes meet hold them together only when both asked *)
(* to read.  Module Locks (memdb/dblock.go) implements it stripe by        *)
(* stripe; module Keyspace is built on it.                                 *)
(***************************************************************************)
CONSTANTS Proc,     \* the goroutines that take locks
          Stripe    \* indices of the slice Locks.locks

VARIABLE held       \* held[p]: the stripes p holds, and in which mode

Mode == {"W", "R"}

\* A process that holds nothing.
Nothing == [poses |-> {}, mode |-> "R"]

Holding == [poses : SUBSET Stripe, mode : Mode]

\* Holdings h and g could not both be granted.
Conflict(h, g) == h.poses \cap g.poses # {} /\ (h.mode = "W" \/ g.mode = "W")

Init == held = [p \in Proc |-> Nothing]

Acquire(p, poses, mode) ==
    /\ held[p] = Nothing
    /\ \A q \in Proc \ {p} : ~Conflict([poses |-> poses, mode |-> mode], held[q])
    /\ held' = [held EXCEPT ![p] = [poses |-> poses, mode |-> mode]]

Release(p) ==
    /\ held[p] # Nothing
    /\ held' = [held EXCEPT ![p] = Nothing]

Next ==
    \E p \in Proc :
        \/ \E poses \in (SUBSET Stripe) \ {{}}, mode \in Mode : Acquire(p, poses, mode)
        \/ Release(p)

Spec == Init /\ [][Next]_held

\* p has exclusive use of stripe s.
Writes(p, s) == s \in held[p].poses /\ held[p].mode = "W"
=============================================================================
