-------------------------------- MODULE Locks --------------------------------
(***************************************************************************)
(* memdb/dblock.go: the slice of sync.RWMutex that guards the keys of one  *)
(* MemDb.  A key is guarded by the stripe its hash selects; a command on   *)
(* several keys locks the distinct stripes of its keys in ascending order  *)
(* (LockMulti, RLockMulti) and unlocks them one after the other.           *)
(* Lock(key) is the case of one stripe.                                    *)
(*                                                                         *)
(* sync.RWMutex is modelled from its use: a writer that waits for the      *)
(* readers to leave keeps new readers out.                                 *)
(***************************************************************************)
EXTENDS Integers, FiniteSets

CONSTANTS Proc,      \* goroutines: client handlers and TTL timers
          NumLocks,  \* len(Locks.locks)
          Key,       \* keys of the database
          HashKey,   \* util.HashKey, a function on Key
          MaxKeys,   \* the most keys one command names
          NoProc     \* nobody

ASSUME NumLocksAssumption == NumLocks \in Nat \ {0}
ASSUME HashKeyAssumption == HashKey \in [Key -> Nat]
ASSUME NoProcAssumption == NoProc \notin Proc

VARIABLES writer,    \* writer[s]: who holds stripe s exclusively
          readers,   \* readers[s]: who holds stripe s shared
          pending,   \* pending[s]: the writer that waits for readers[s] to leave
          pc,        \* "idle", "locking", "held" or "unlocking"
          req        \* req[p]: what p asked for: stripes and mode

vars == <<writer, readers, pending, pc, req>>

Stripe == 0 .. NumLocks - 1
Mode == {"W", "R"}

GetKeyPos(key) == HashKey[key] % NumLocks

\* The distinct positions of the keys of a command.
PosesOf(keys) == {GetKeyPos(k) : k \in keys}

Got(p) == {s \in Stripe : writer[s] = p \/ p \in readers[s]}

Todo(p) == req[p].poses \ Got(p)

\* Mutant: the positions are taken in the order of a map iteration.
UnsortedLockPoses(p) == Todo(p)

\* The position the loop of LockMulti is at.  It is a set because a map
\* iteration would leave the choice open; sort.Ints makes it a singleton.
sortedLockPoses(p) == {s \in Todo(p) : \A t \in Todo(p) : s <= t}

Init ==
    /\ writer = [s \in Stripe |-> NoProc]
    /\ readers = [s \in Stripe |-> {}]
    /\ pending = [s \in Stripe |-> NoProc]
    /\ pc = [p \in Proc |-> "idle"]
    /\ req = [p \in Proc |-> [poses |-> {}, mode |-> "R"]]

\* A command calls Lock, RLock, LockMulti or RLockMulti.
Request(p) ==
    /\ pc[p] = "idle"
    /\ \E keys \in SUBSET Key, mode \in Mode :
          /\ keys # {} /\ Cardinality(keys) <= MaxKeys
          /\ req' = [req EXCEPT ![p] = [poses |-> PosesOf(keys), mode |-> mode]]
    /\ pc' = [pc EXCEPT ![p] = "locking"]
    /\ UNCHANGED <<writer, readers, pending>>

\* RWMutex.Lock, first half: exclude other writers and new readers.
Announce(p, s) ==
    /\ pc[p] = "locking" /\ req[p].mode = "W" /\ s \in sortedLockPoses(p)
    /\ writer[s] = NoProc /\ pending[s] = NoProc
    /\ pending' = [pending EXCEPT ![s] = p]
    /\ UNCHANGED <<writer, readers, pc, req>>

\* Mutant: a writer does not wait for the readers.
LockOverReaders(p, s) ==
    /\ pending[s] = p
    /\ writer' = [writer EXCEPT ![s] = p]
    /\ pending' = [pending EXCEPT ![s] = NoProc]
    /\ UNCHANGED <<readers, pc, req>>

\* RWMutex.Lock, second half: the last reader has left.
LockStripe(p, s) ==
    /\ pending[s] = p /\ readers[s] = {}
    /\ writer' = [writer EXCEPT ![s] = p]
    /\ pending' = [pending EXCEPT ![s] = NoProc]
    /\ UNCHANGED <<readers, pc, req>>

RLockStripe(p, s) ==
    /\ pc[p] = "locking" /\ req[p].mode = "R" /\ s \in sortedLockPoses(p)
    /\ writer[s] = NoProc /\ pending[s] = NoProc
    /\ readers' = [readers EXCEPT ![s] = @ \cup {p}]
    /\ UNCHANGED <<writer, pending, pc, req>>

\* The loop of LockMulti or RLockMulti ends.
LockDone(p) ==
    /\ pc[p] = "locking" /\ Todo(p) = {}
    /\ pc' = [pc EXCEPT ![p] = "held"]
    /\ UNCHANGED <<writer, readers, pending, req>>

\* Mutant: a reader that leaves is not counted down.
UnlockKeepsReader(p, s) ==
    /\ pc[p] \in {"held", "unlocking"} /\ s \in Got(p)
    /\ \A t \in Got(p) : s <= t
    /\ writer' = [writer EXCEPT ![s] = IF @ = p THEN NoProc ELSE @]
    /\ pc' = [pc EXCEPT ![p] = "unlocking"]
    /\ UNCHANGED <<readers, pending, req>>

\* Mutant: a stripe is released in the middle of the critical section.
UnlockInside(p, s) ==
    /\ pc[p] \in {"held", "unlocking"} /\ s \in Got(p)
    /\ \A t \in Got(p) : s <= t
    /\ writer' = [writer EXCEPT ![s] = IF @ = p THEN NoProc ELSE @]
    /\ readers' = [readers EXCEPT ![s] = @ \ {p}]
    /\ pc' = [pc EXCEPT ![p] = IF Got(p) = {s} THEN "unlocking" ELSE @]
    /\ req' = [req EXCEPT ![p].poses = @ \ {s}]
    /\ UNCHANGED pending

\* UnLock, RUnLock, UnLockMulti, RUnLockMulti, one stripe at a time.
UnlockStripe(p, s) ==
    /\ pc[p] \in {"held", "unlocking"} /\ s \in Got(p)
    /\ \A t \in Got(p) : s <= t
    /\ writer' = [writer EXCEPT ![s] = IF @ = p THEN NoProc ELSE @]
    /\ readers' = [readers EXCEPT ![s] = @ \ {p}]
    /\ pc' = [pc EXCEPT ![p] = "unlocking"]
    /\ UNCHANGED <<pending, req>>

UnlockDone(p) ==
    /\ pc[p] = "unlocking" /\ Got(p) = {}
    /\ pc' = [pc EXCEPT ![p] = "idle"]
    /\ req' = [req EXCEPT ![p] = [poses |-> {}, mode |-> "R"]]
    /\ UNCHANGED <<writer, readers, pending>>

Take(p) == \E s \in Stripe : Announce(p, s) \/ LockStripe(p, s) \/ RLockStripe(p, s)

Next ==
    \E p \in Proc :
        \/ Request(p)
        \/ \E s \in Stripe : Announce(p, s)
        \/ \E s \in Stripe : LockStripe(p, s)
        \/ \E s \in Stripe : RLockStripe(p, s)
        \/ LockDone(p)
        \/ \E s \in Stripe : UnlockStripe(p, s)
        \/ UnlockDone(p)

Spec == Init /\ [][Next]_vars

\* A critical section ends (no command blocks while it holds a lock), and
\* RWMutex starves neither readers (Unlock admits those that wait) nor
\* writers (its inner mutex hands over in FIFO order once starved).
Fairness ==
    \A p \in Proc :
        /\ SF_vars(Take(p))
        /\ WF_vars(LockDone(p))
        /\ WF_vars(\E s \in Stripe : UnlockStripe(p, s))
        /\ WF_vars(UnlockDone(p))

FairSpec == Spec /\ Fairness

-----------------------------------------------------------------------------
(* Properties *)

\* The lock words name goroutines, and a request names stripes that exist.
TypeOK ==
    /\ writer \in [Stripe -> Proc \cup {NoProc}]
    /\ readers \in [Stripe -> SUBSET Proc]
    /\ pending \in [Stripe -> Proc \cup {NoProc}]
    /\ pc \in [Proc -> {"idle", "locking", "held", "unlocking"}]
    /\ req \in [Proc -> [poses : SUBSET Stripe, mode : Mode]]

\* Commands that name a common stripe are inside their critical sections
\* (between LockMulti and UnLockMulti) together only if both are readers,
\* also when the stripes were collected one by one.
CriticalSections ==
    \A p, q \in Proc :
        (/\ p # q
         /\ pc[p] = "held" /\ pc[q] = "held"
         /\ req[p].poses \cap req[q].poses # {})
        => req[p].mode = "R" /\ req[q].mode = "R"

\* q keeps p from getting the stripe p is at.
Blocks(q, p) ==
    /\ q # p
    /\ pc[p] = "locking"
    /\ \E s \in sortedLockPoses(p) :
          \/ writer[s] = q
          \/ pending[s] = q
          \/ req[p].mode = "W" /\ q \in readers[s]

\* "To avoid deadlock, we need to sort the locks" (dblock.go:84): no group of
\* goroutines waits only for each other, whatever keys they lock together.
NoCircularWait ==
    \A D \in (SUBSET Proc) \ {{}} : \E p \in D : \A q \in D : ~Blocks(q, p)

\* Seen from outside, LockMulti takes its stripes at once: module LockTable.
Table == INSTANCE LockTable
         WITH held <- [p \in Proc |-> IF pc[p] = "held" THEN req[p]
                                      ELSE [poses |-> {}, mode |-> "R"]]

\* The stripe-by-stripe locking of dblock.go implements the lock table that
\* grants all stripes of a command in one step.
ImplementsLockTable == Table!Spec

\* Every LockMulti or RLockMulti call returns, also under contention.
EveryLockGranted == \A p \in Proc : (pc[p] = "locking") ~> (pc[p] = "held")
=============================================================================
