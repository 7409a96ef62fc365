----------------------------- MODULE MemDbProofs -----------------------------
(***************************************************************************)
(* Theorems about module MemDb, for any clients, timers, keys, stripes and *)
(* commands.                                                               *)
(***************************************************************************)
EXTENDS MemDb, CommandProofs, FiniteSetTheorems

(***************************************************************************)
(* CheckTTL, the lock and the unlock of a handler, the timers and the clock *)
(* preserve the invariant.                                                 *)
(***************************************************************************)
USE ClientTaskDisjoint, GetKeyPosAssumption, NullAssumption

-----------------------------------------------------------------------------
(* CheckTTL, run by a client or by a timer *)

LEMMA CheckTrueMoves ==
    ASSUME IInv, NEW p \in Proc, pc[p] \in {"get", "compare"}, CheckTrue(p)
    PROVE  \E l \in {"idle", "get", "lock"}, f \in Frame :
              Moves(p, l, f) /\ FrameOK(p, l, f) /\ (p \in Task => l = "idle")
  <1>1. \/ Op(p) = "timer" /\ Finish(p)
        \/ Op(p) \in MoveOps \cup {"keys"} /\ NextKey(p, "get")
        \/ Op(p) \notin {"keys", "timer"} /\ ToLock(p)
    BY DEF CheckTrue
  <1>2. CASE Finish(p)
    BY <1>2, FinishMoves, MovesFrame DEF IInv
  <1>3. p \in Task => Op(p) = "timer"
    BY DEF IInv, Frames, Framed, FrameOK, Op
  <1>4. CASE Op(p) \in MoveOps \cup {"keys"} /\ NextKey(p, "get")
    <2>1. p \in Client /\ p \notin Task /\ pc[p] # "idle"
      BY <1>3, <1>4 DEF Proc, MoveOps
    <2>2. Op(p) \notin MultiOps \/ Op(p) \in MoveOps
      BY <1>4 DEF MultiOps
    <2> QED BY <1>4, <2>1, <2>2, NextKeyMoves, MovesFrame
  <1>5. CASE Op(p) # "timer" /\ ToLock(p)
    <2>1. p \in Client /\ p \notin Task
      BY <1>3, <1>5 DEF Proc
    <2> QED BY <1>5, <2>1, ToLockMoves, MovesFrame
  <1> QED BY <1>1, <1>2, <1>4, <1>5

LEMMA CheckFalseMoves ==
    ASSUME IInv, NEW p \in Proc, pc[p] = "expirettl", CheckFalse(p)
    PROVE  \E l \in {"idle", "get", "lock"}, f \in Frame :
              Moves(p, l, f) /\ FrameOK(p, l, f) /\ (p \in Task => l = "idle")
  <1>1. \/ Finish(p)
        \/ Op(p) \in LoopOps \cup {"smove"} /\ NextKey(p, "get")
        \/ Op(p) \in IgnoreOps \cup {"lmove"} /\ ToLock(p)
    BY DEF CheckFalse
  <1>2. CASE Finish(p)
    BY <1>2, FinishMoves, MovesFrame DEF IInv
  <1>3. p \in Task => Op(p) = "timer"
    BY DEF IInv, Frames, Framed, FrameOK, Op
  <1>4. CASE Op(p) \in LoopOps \cup {"smove"} /\ NextKey(p, "get")
    <2>1. p \in Client /\ p \notin Task /\ pc[p] # "idle"
      BY <1>3, <1>4 DEF Proc, LoopOps
    <2>2. Op(p) \notin MultiOps \/ Op(p) \in MoveOps
      BY <1>4 DEF MultiOps, LoopOps, MoveOps
    <2> QED BY <1>4, <2>1, <2>2, NextKeyMoves, MovesFrame
  <1>5. CASE Op(p) \in IgnoreOps \cup {"lmove"} /\ ToLock(p)
    <2>1. p \in Client /\ p \notin Task
      BY <1>3, <1>5 DEF Proc, IgnoreOps
    <2> QED BY <1>5, <2>1, ToLockMoves, MovesFrame
  <1> QED BY <1>1, <1>2, <1>4, <1>5

LEMMA CheckTTLGetStep == ASSUME IInv, NEW p \in Proc, CheckTTLGet(p) PROVE Step(p)
  <1>1. pc[p] = "get" /\ pc[p] \in Unlocked /\ UNCHANGED data
    BY DEF CheckTTLGet, At, Unlocked
  <1>2. Cur(p) \in Key
    BY <1>1, CurKey DEF IInv
  <1>3. CASE ttlKeys[Cur(p)] = Null
    <2>1. PICK l \in {"idle", "get", "lock"}, f \in Frame :
             Moves(p, l, f) /\ FrameOK(p, l, f) /\ (p \in Task => l = "idle")
      BY <1>1, <1>3, CheckTrueMoves DEF CheckTTLGet
    <2>3. \A k \in Key : ttlKeys[k] # Null => ttlKeys[k].cancel # p
      BY <1>3, TimerKey
    <2>4. TimerKeeps(p)
      BY <2>1, <2>3 DEF TimerKeeps, Moves
    <2> QED BY <1>1, <2>1, <2>4, UnlockedStep DEF Unlocked
  <1>4. CASE ttlKeys[Cur(p)] # Null
    <2> DEFINE f == [fr[p] EXCEPT !.ttl = ttlKeys[Cur(p)]]
    <2>1. fr[p] \in Frame /\ ttlKeys[Cur(p)] \in TTLInfo /\ Framed(p)
      BY <1>2, <1>4 DEF IInv, TypeOK, Frames
    <2>2. f \in Frame /\ f.m = fr[p].m /\ f.todo = fr[p].todo /\ f.ttl = ttlKeys[Cur(p)] /\ f.at = fr[p].at
      BY <2>1 DEF Frame
    <2>3. Moves(p, "compare", f)
      BY <1>4, <2>2 DEF CheckTTLGet, Goto, Moves, IInv, TypeOK, Label, Unlocked
    <2>4. FrameOK(p, "compare", f)
      BY <1>1, <1>4, <2>1, <2>2 DEF Framed, FrameOK, Locked, Writing, Closing, Storing, Unlocked, TimerLabel
    <2>5. TimerKeeps(p)
      <3>1. fr[p].at <= now \/ p \notin Task
        BY <1>1 DEF IInv, Due
      <3>2. ASSUME NEW k \in Key, ttlKeys[k] # Null, ttlKeys[k].cancel = p
            PROVE  k = Cur(p) /\ TimerOf(k)'
        <4>1. k = Cur(p) /\ p \notin closed /\ fr[p].at = ttlKeys[k].value
          BY <3>2, TimerKey
        <4>2. ttlKeys' = ttlKeys /\ closed' = closed /\ pc'[p] = "compare" /\ fr'[p] = f
          BY <1>1, <2>3 DEF data, Moves
        <4> QED BY <2>2, <3>2, <4>1, <4>2, Zenon DEF TimerOf, Cur
      <3>3. ttlKeys' = ttlKeys /\ fr'[p] = f
        BY <1>1, <2>3 DEF data, Moves
      <3> QED BY <2>2, <3>1, <3>2, <3>3 DEF TimerKeeps
    <2> QED BY <1>1, <2>3, <2>4, <2>5, UnlockedStep DEF Unlocked
  <1> QED BY <1>3, <1>4

LEMMA CheckTTLCompareStep == ASSUME IInv, NEW p \in Proc, CheckTTLCompare(p) PROVE Step(p)
  <1>1. pc[p] = "compare" /\ pc[p] \in Unlocked /\ UNCHANGED data
    BY DEF CheckTTLCompare, At, Unlocked
  <1>2. \A k \in Key : ttlKeys[k] # Null /\ ttlKeys[k].cancel = p => fr[p].ttl.value <= now
    <2>1. ASSUME NEW k \in Key, ttlKeys[k] # Null, ttlKeys[k].cancel = p PROVE fr[p].ttl.value <= now
      <3>1. fr[p].ttl = ttlKeys[k]
        BY <1>1, <2>1 DEF IInv, Due
      <3>2. fr[p].at = ttlKeys[k].value /\ p \in Task
        BY <2>1, TimerKey
      <3>3. fr[p].at <= now
        BY <1>1, <3>2 DEF IInv, Due
      <3> QED BY <3>1, <3>2, <3>3
    <2> QED BY <2>1
  <1>3. fr[p] \in Frame /\ fr[p].ttl \in TTLInfo /\ now \in Nat
    BY <1>1 DEF IInv, TypeOK, Frame, Frames, Framed, FrameOK
  <1>4. CASE fr[p].ttl.value > now
    <2>1. PICK l \in {"idle", "get", "lock"}, f \in Frame :
             Moves(p, l, f) /\ FrameOK(p, l, f) /\ (p \in Task => l = "idle")
      BY <1>1, <1>4, CheckTrueMoves DEF CheckTTLCompare
    <2>2. \A k \in Key : ttlKeys[k] # Null => ttlKeys[k].cancel # p
      BY <1>2, <1>3, <1>4 DEF TTLInfo
    <2>3. TimerKeeps(p)
      BY <2>1, <2>2 DEF TimerKeeps, Moves
    <2> QED BY <1>1, <2>1, <2>3, UnlockedStep DEF Unlocked
  <1>5. CASE ~(fr[p].ttl.value > now)
    <2> DEFINE f == [fr[p] EXCEPT !.ttl = Null]
    <2>1. Framed(p)
      BY DEF IInv, Frames
    <2>2. f \in Frame /\ f.m = fr[p].m /\ f.todo = fr[p].todo /\ f.at = fr[p].at
      BY <1>3, Zenon DEF Frame
    <2>3. Moves(p, "expire", f)
      BY <1>5, <2>2 DEF CheckTTLCompare, Goto, Moves, IInv, TypeOK, Label, Unlocked
    <2>4. FrameOK(p, "expire", f)
      BY <1>1, <2>1, <2>2 DEF Framed, FrameOK, Locked, Writing, Closing, Storing, Unlocked, TimerLabel
    <2>5. ASSUME NEW k \in Key, ttlKeys[k] # Null, ttlKeys[k].cancel = p PROVE TimerOf(k)'
      <3>1. k = Cur(p) /\ p \notin closed /\ fr[p].at = ttlKeys[k].value
        BY <2>5, TimerKey
      <3>2. ttlKeys' = ttlKeys /\ closed' = closed /\ pc'[p] = "expire" /\ fr'[p] = f
        BY <1>1, <2>3 DEF data, Moves
      <3> QED BY <2>2, <2>5, <3>1, <3>2, Zenon DEF TimerOf, Cur
    <2>6. TimerKeeps(p)
      BY <2>3, <2>5 DEF TimerKeeps, Moves
    <2> QED BY <1>1, <2>3, <2>4, <2>6, UnlockedStep DEF Unlocked
  <1> QED BY <1>4, <1>5

\* Entering a lock: the labels a process has the lock at for the first time.
LEMMA Entering ==
    ASSUME IInv, NEW p \in Proc, NEW l \in {"expiredb", "body"}, NEW poses \in SUBSET Stripe,
           NEW mode \in {"R", "W"}, Table!Acquire(p, poses, mode), pc[p] \in Unlocked,
           pc' = [pc EXCEPT ![p] = l], UNCHANGED <<now, db, ttlKeys, closed, fr>>,
           Framed(p)', held'[p] = HeldAt(p)', TimerKeeps(p)
    PROVE  Step(p)
  <1>1. held' = [held EXCEPT ![p] = [poses |-> poses, mode |-> mode]]
    BY DEF Table!Acquire
  <1>2. TypeOK'
    BY <1>1 DEF IInv, TypeOK, Table!Holding, Table!Mode, Label, Expiring, Locked
  <1>3. Local(p)
    BY <1>1 DEF Local, Guards, IInv, TypeOK
  <1>4. Stable(p)'
    BY DEF Stable, IInv, TypeOK, Closing
  <1>5. Exclusion'
    <2>1. \A q \in Proc \ {p} : /\ ~Table!Conflict(held'[p], held'[q])
                                /\ ~Table!Conflict(held'[q], held'[p])
      BY <1>1 DEF Table!Acquire, Table!Conflict, IInv, TypeOK
    <2>2. \A q \in Proc \ {p} : held'[q] = held[q]
      BY <1>3 DEF Local
    <2> QED BY <2>1, <2>2 DEF Exclusion, IInv
  <1>6. Paired'
    <2>1. \A k : ~Removing(p, k)
      BY HoldsNothing
    <2> QED BY <1>3, <2>1, PairedKept
  <1>7. TTLHasTimer' /\ Due'
    BY <1>2, <1>3, TimersKept
  <1> QED BY <1>2, <1>3, <1>4, <1>5, <1>6, <1>7, CombineStep

LEMMA CheckTTLLockStep == ASSUME IInv, NEW p \in Proc, CheckTTLLock(p) PROVE Step(p)
  <1>1. /\ pc[p] = "expire" /\ pc[p] \in Unlocked /\ pc' = [pc EXCEPT ![p] = "expiredb"]
        /\ UNCHANGED <<now, db, ttlKeys, closed, fr>> /\ pc'[p] = "expiredb"
        /\ Table!Acquire(p, {GetKeyPos[Cur(p)]}, "W")
    BY DEF CheckTTLLock, At, Goto, Unlocked, IInv, TypeOK
  <1>2. Cur(p) \in Key /\ {GetKeyPos[Cur(p)]} \in SUBSET Stripe
    BY <1>1, CurKey DEF IInv
  <1>3. Framed(p)'
    BY <1>1 DEF IInv, Frames, Framed, FrameOK, Locked, Writing, Closing, Storing, Unlocked, Expiring, TimerLabel
  <1>4. held'[p] = HeldAt(p)'
    <2>1. pc'[p] \notin Locked /\ pc'[p] \in Expiring
      BY <1>1 DEF Locked, Writing, Closing, Storing, Expiring
    <2>2. held'[p] = [poses |-> {GetKeyPos[Cur(p)]}, mode |-> "W"]
      BY <1>1 DEF Table!Acquire, IInv, TypeOK
    <2>3. Cur(p)' = Cur(p)
      BY <1>1 DEF Cur
    <2> QED BY <2>1, <2>2, <2>3 DEF HeldAt
  <1>5. TimerKeeps(p)
    <2>1. ASSUME NEW k \in Key, ttlKeys[k] # Null, ttlKeys[k].cancel = p PROVE TimerOf(k)'
      BY <1>1, <2>1, TimerKey DEF TimerOf, Cur, Expiring
    <2> QED BY <1>1, <2>1 DEF TimerKeeps
  <1> QED BY <1>1, <1>2, <1>3, <1>4, <1>5, Entering, Zenon

LEMMA CheckTTLDeleteStep == ASSUME IInv, NEW p \in Proc, CheckTTLDelete(p) PROVE Step(p)
  <1>1. /\ pc[p] = "expiredb" /\ pc' = [pc EXCEPT ![p] = "expirettl"] /\ pc'[p] = "expirettl"
        /\ db' = [db EXCEPT ![Cur(p)] = Null] /\ UNCHANGED <<now, ttlKeys, closed, held, fr>>
    BY DEF CheckTTLDelete, At, Goto, IInv, TypeOK
  <1>2. Cur(p) \in Key /\ Table!Writes(p, GetKeyPos[Cur(p)])
    BY <1>1, ExpirerHolds DEF Expiring
  <1>3. TypeOK'
    BY <1>1, Zenon DEF IInv, TypeOK, Label, Expiring
  <1>4. Local(p)
    BY <1>1, <1>2 DEF Local, Guards, IInv, TypeOK
  <1>5. Framed(p)'
    BY <1>1 DEF IInv, Frames, Framed, FrameOK, Locked, Writing, Closing, Storing, Expiring, TimerLabel
  <1>6. held'[p] = HeldAt(p)'
    <2>1. /\ pc[p] \notin Locked /\ pc[p] \in Expiring /\ pc'[p] \notin Locked /\ pc'[p] \in Expiring
      BY <1>1 DEF Locked, Writing, Closing, Storing, Expiring
    <2>2. Cur(p)' = Cur(p)
      BY <1>1 DEF Cur
    <2> QED BY <1>1, <2>1, <2>2, Zenon DEF HeldAt, IInv, Holds
  <1>7. Stable(p)'
    BY <1>1 DEF Stable, Closing
  <1>8. Exclusion'
    BY <1>1, <1>4, ExclusionKept
  <1>9. Paired'
    <2>1. Cur(p)' = Cur(p) /\ \A k : ~Removing(p, k)
      BY <1>1 DEF Removing, Cur
    <2>2. \A k \in Key : k # Cur(p) => db'[k] = db[k]
      BY <1>1 DEF IInv, TypeOK
    <2>3. \A k \in Key : \/ Removing(p, k)'
                         \/ ttlKeys'[k] = ttlKeys[k] /\ db'[k] = db[k] /\ ~Removing(p, k)
      <3> TAKE k \in Key
      <3>1. CASE k = Cur(p)
        BY <1>1, <2>1, <3>1 DEF Removing
      <3>2. CASE k # Cur(p)
        BY <1>1, <2>1, <2>2, <3>2
      <3> QED BY <3>1, <3>2
    <2> QED BY <1>4, <2>3, PairedKept
  <1>10. TimerKeeps(p)
    <2>1. ASSUME NEW k \in Key, ttlKeys[k] # Null, ttlKeys[k].cancel = p PROVE TimerOf(k)'
      BY <1>1, <2>1, TimerKey DEF TimerOf, Cur, Expiring
    <2> QED BY <1>1, <2>1 DEF TimerKeeps
  <1>11. TTLHasTimer' /\ Due'
    BY <1>1, <1>3, <1>4, <1>10, TimersKept
  <1> QED BY <1>3, <1>4, <1>5, <1>6, <1>7, <1>1, <1>8, <1>9, <1>11, CombineStep

LEMMA CheckTTLReturnStep == ASSUME IInv, NEW p \in Proc, CheckTTLReturn(p) PROVE Step(p)
  <1>1. /\ pc[p] = "expirettl" /\ ttlKeys' = [ttlKeys EXCEPT ![Cur(p)] = Null] /\ CheckFalse(p)
        /\ held' = [held EXCEPT ![p] = Table!Nothing] /\ UNCHANGED <<now, db, closed>>
    BY DEF CheckTTLReturn, At, Table!Release
  <1>2. Cur(p) \in Key /\ Table!Writes(p, GetKeyPos[Cur(p)])
    BY <1>1, ExpirerHolds DEF Expiring
  <1>3. PICK l \in {"idle", "get", "lock"}, f \in Frame :
           Moves(p, l, f) /\ FrameOK(p, l, f) /\ (p \in Task => l = "idle")
    BY <1>1, CheckFalseMoves
  <1>4. /\ ttlKeys' \in [Key -> TTLInfo \cup {Null}] /\ ttlKeys'[Cur(p)] = Null
        /\ \A k \in Key : ttlKeys'[k] # ttlKeys[k] => ttlKeys'[k] = Null /\ Table!Writes(p, GetKeyPos[k])
        /\ \A k \in Key : Removing(p, k) => ttlKeys'[k] = Null
    BY <1>1, <1>2 DEF IInv, TypeOK, Removing
  <1>5. TimerKeeps(p)
    <2>1. \A k \in Key : ttlKeys[k] # Null /\ ttlKeys[k].cancel = p => k = Cur(p)
      BY TimerKey
    <2> QED BY <1>3, <1>4, <2>1 DEF TimerKeeps, Moves
  <1>6. l \in Unlocked /\ db' = db /\ closed' = closed /\ now' = now
    BY <1>1 DEF Unlocked
  <1> QED BY <1>1, <1>3, <1>4, <1>5, <1>6, ToUnlocked, Zenon

-----------------------------------------------------------------------------
(* The lock and the unlock of a handler *)

LEMMA LockStep == ASSUME IInv, NEW p \in Client, Lock(p) PROVE Step(p)
  <1> p \in Proc /\ p \notin Task
    BY DEF Proc
  <1>1. /\ pc[p] = "lock" /\ pc[p] \in Unlocked /\ pc' = [pc EXCEPT ![p] = "body"]
        /\ UNCHANGED <<now, db, ttlKeys, closed, fr>> /\ pc'[p] = "body"
        /\ Table!Acquire(p, LockPoses(p), LockMode(p))
    BY DEF Lock, At, Goto, Unlocked, IInv, TypeOK
  <1>2. LockPoses(p) \in SUBSET Stripe /\ LockMode(p) \in {"R", "W"}
    <2>1. Cur(p) \in Key /\ fr[p].m.keys \in Seq(Key)
      BY <1>1, CurKey DEF IInv, TypeOK, Frame, Cmd
    <2>2. LockKeys(p) \subseteq Key
      BY <2>1 DEF LockKeys
    <2> QED BY <2>2 DEF LockPoses, LockMode
  <1>3. Framed(p)'
    BY <1>1, ZenonT(30) DEF IInv, Frames, Framed, FrameOK, Locked, Writing, Closing, Storing, Unlocked, Expiring
  <1>4. held'[p] = HeldAt(p)'
    <2>1. held'[p] = [poses |-> LockPoses(p), mode |-> LockMode(p)]
      BY <1>1 DEF Table!Acquire, IInv, TypeOK
    <2>2. LockPoses(p)' = LockPoses(p) /\ LockMode(p)' = LockMode(p)
      BY <1>1 DEF LockPoses, LockMode, LockKeys, Cur, Op
    <2>3. pc'[p] \in Locked
      BY <1>1 DEF Locked
    <2> QED BY <2>1, <2>2, <2>3 DEF HeldAt
  <1>5. TimerKeeps(p)
    BY DEF TimerKeeps
  <1> QED BY <1>1, <1>2, <1>3, <1>4, <1>5, Entering, ZenonT(30)

LEMMA UnLockStep == ASSUME IInv, NEW p \in Client, UnLock(p) PROVE Step(p)
  <1> p \in Proc /\ p \notin Task
    BY DEF Proc
  <1>1. /\ pc[p] = "unlock" /\ UNCHANGED <<now, db, ttlKeys, closed>>
        /\ held' = [held EXCEPT ![p] = Table!Nothing]
    BY DEF UnLock, At, Table!Release
  <1>2. \/ Op(p) \in {"del", "mget", "blpop"} /\ NextKey(p, "lock")
        \/ Op(p) = "exists" /\ NextKey(p, "get")
        \/ Op(p) = "blpop" /\ Goto(p, "poll") /\ UNCHANGED fr
        \/ Finish(p)
    BY DEF UnLock
  <1>3. Framed(p) /\ fr[p] \in Frame
    BY DEF IInv, Frames, TypeOK
  <1>4. \E l \in Unlocked, f \in Frame : Moves(p, l, f) /\ FrameOK(p, l, f)
    <2>1. CASE Op(p) \in {"del", "mget", "blpop"} /\ NextKey(p, "lock")
      BY <1>1, <2>1, NextKeyMoves, MovesFrame DEF MultiOps, MoveOps, Unlocked
    <2>2. CASE Op(p) = "exists" /\ NextKey(p, "get")
      BY <1>1, <2>2, NextKeyMoves, MovesFrame DEF MultiOps, MoveOps, Unlocked
    <2>3. CASE Op(p) = "blpop" /\ Goto(p, "poll") /\ UNCHANGED fr
      <3>1. Moves(p, "poll", fr[p])
        BY <2>3, ZenonT(30) DEF Moves, Goto, IInv, TypeOK, Label, Unlocked
      <3>2. FrameOK(p, "poll", fr[p])
        BY <1>1, <1>3, <2>3 DEF Framed, FrameOK, Locked, Writing, Closing, Storing, Op, MultiOps, MoveOps
      <3> QED BY <3>1, <3>2, MovesFrame DEF Unlocked
    <2>4. CASE Finish(p)
      BY <2>4, FinishMoves, MovesFrame DEF IInv, Unlocked
    <2> QED BY <1>2, <2>1, <2>2, <2>3, <2>4
  <1>5. PICK l \in Unlocked, f \in Frame : Moves(p, l, f) /\ FrameOK(p, l, f)
    BY <1>4
  <1>6. /\ TimerKeeps(p) /\ ttlKeys' \in [Key -> TTLInfo \cup {Null}]
        /\ \A k \in Key : ttlKeys'[k] = ttlKeys[k] /\ ~Removing(p, k)
    BY <1>1 DEF TimerKeeps, Removing, IInv, TypeOK
  <1> QED BY <1>1, <1>5, <1>6, ToUnlocked, Zenon

-----------------------------------------------------------------------------
(* The timers, the clock *)

LEMMA TimerFiresStep == ASSUME IInv, NEW t \in Task, TimerFires(t) PROVE Step(t)
  <1>1. /\ pc[t] = "wait" /\ pc[t] \in Unlocked /\ UNCHANGED data /\ fr' = fr /\ t \in Proc
        /\ fr[t].at <= now /\ pc' = [pc EXCEPT ![t] = "get"]
    BY DEF TimerFires, At, Unlocked, Proc, Goto
  <1>2. Moves(t, "get", fr[t])
    BY <1>1 DEF Moves, IInv, TypeOK, Label, Unlocked
  <1>3. FrameOK(t, "get", fr[t])
    BY <1>1 DEF IInv, Frames, Framed, FrameOK, TimerLabel, Locked, Writing, Closing, Storing, Unlocked
  <1>4. TimerKeeps(t)
    <2>1. ASSUME NEW k \in Key, ttlKeys[k] # Null, ttlKeys[k].cancel = t PROVE TimerOf(k)'
      <3>1. k = Cur(t) /\ t \notin closed /\ fr[t].at = ttlKeys[k].value
        BY <2>1, TimerKey
      <3>2. ttlKeys' = ttlKeys /\ closed' = closed /\ pc'[t] = "get" /\ fr'[t] = fr[t]
        BY <1>1, <1>2 DEF data, Moves
      <3> QED BY <2>1, <3>1, <3>2, ZenonT(30) DEF TimerOf, Cur
    <2> QED BY <1>1, <1>2, <2>1 DEF TimerKeeps, Moves
  <1> QED BY <1>1, <1>2, <1>3, <1>4, UnlockedStep DEF Unlocked

LEMMA TimerCancelledStep == ASSUME IInv, NEW t \in Task, TimerCancelled(t) PROVE Step(t)
  <1>1. /\ pc[t] = "wait" /\ pc[t] \in Unlocked /\ UNCHANGED data /\ Finish(t) /\ t \in Proc /\ t \in closed
    BY DEF TimerCancelled, At, Unlocked, Proc
  <1>2. Moves(t, "idle", IdleFrame) /\ FrameOK(t, "idle", IdleFrame)
    BY <1>1, FinishMoves DEF IInv
  <1>3. \A k \in Key : ttlKeys[k] # Null => ttlKeys[k].cancel # t
    BY <1>1, TimerKey
  <1>4. TimerKeeps(t)
    BY <1>2, <1>3 DEF TimerKeeps, Moves
  <1> QED BY <1>1, <1>2, <1>4, UnlockedStep DEF Unlocked

\* Time passes, or nothing happens.
LEMMA TimeStep ==
    ASSUME IInv, now' = now \/ now' = now + 1, UNCHANGED <<db, ttlKeys, closed, held, pc, fr>>
    PROVE  IInv'
  <1>1. now \in Nat /\ now' \in Nat
    BY DEF IInv, TypeOK
  <1>2. TypeOK'
    BY <1>1 DEF IInv, TypeOK
  <1>3. ASSUME NEW p \in Proc PROVE Framed(p)' /\ held'[p] = HeldAt(p)' /\ Stable(p)'
    <2>1. Framed(p) /\ held[p] = HeldAt(p) /\ Stable(p)
      BY DEF IInv, Frames, Holds, Reads
    <2>2. HeldAt(p)' = HeldAt(p)
      BY DEF HeldAt, LockPoses, LockKeys, LockMode, Cur, Op, Table!Nothing
    <2> QED BY <2>1, <2>2 DEF Framed, Stable, Cur, Op
  <1>4. Exclusion' /\ Paired'
    BY DEF IInv, Exclusion, Paired, Removing, Cur
  <1>5. TTLHasTimer'
    BY DEF IInv, TTLHasTimer, TimerOf, Cur
  <1>6. Due'
    <2>1. ASSUME NEW t \in Task, pc[t] \in {"get", "compare"} PROVE fr[t].at <= now'
      <3>1. fr[t].at <= now /\ fr[t].at \in Int
        BY <2>1 DEF IInv, Due, TypeOK, Frame, Proc
      <3> QED BY <1>1, <3>1
    <2> QED BY <2>1 DEF IInv, Due
  <1> QED BY <1>2, <1>3, <1>4, <1>5, <1>6 DEF IInv, Frames, Holds, Reads

(***************************************************************************)
(* Every step of a MemDb preserves the invariant.                          *)
(***************************************************************************)

USE ClientTaskDisjoint, GetKeyPosAssumption, NullAssumption

-----------------------------------------------------------------------------
(* The start of a command, the timers, the clock *)

LEMMA FoldOK ==
    ASSUME NEW m \in Command
    PROVE  CmdOK(Fold(m)) /\ Fold(m).op = m.op
  <1>1. m \in Cmd /\ m.keys # <<>> /\ m.op \notin {"timer", "none"}
        /\ (m.op \in MoveOps \cup {"rename"} => Len(m.keys) = 2)
    BY CommandAssumption
  <1>2. CASE m.op \notin FoldOps
    BY <1>1, <1>2 DEF Fold, CmdOK
  <1>3. CASE m.op \in FoldOps
    <2> DEFINE keys == [i \in DOMAIN m.keys |-> Lower[m.keys[i]]]
    <2>1. m.keys \in Seq(Key) /\ m.keys \in [1 .. Len(m.keys) -> Key] /\ Len(m.keys) \in Nat
      BY <1>1, KeySeqFunction DEF Cmd
    <2>2. \A n \in Nat : \A s \in [1 .. n -> Key] : s \in Seq(Key) /\ Len(s) = n
      OBVIOUS
    <2>3. keys \in [1 .. Len(m.keys) -> Key]
      BY <2>1, LowerAssumption
    <2>4. keys \in Seq(Key) /\ Len(keys) = Len(m.keys)
      BY <2>1, <2>2, <2>3, Zenon
    <2>5. keys # <<>>
      <3>1. Len(m.keys) # 0
        BY <1>1, <2>1
      <3>2. Len(<<>>) = 0
        OBVIOUS
      <3>3. keys = <<>> => Len(keys) = 0
        BY <3>2, Zenon
      <3> QED BY <2>4, <3>1, <3>3
    <2>6. Fold(m) = [m EXCEPT !.keys = keys]
      BY <1>3 DEF Fold
    <2> HIDE DEF keys
    <2>7. Fold(m) \in Cmd /\ Fold(m).op = m.op /\ Fold(m).keys = keys
      BY <1>1, <2>4, <2>6 DEF Cmd
    <2>8. m.op \notin MoveOps \cup {"rename"}
      BY <1>3 DEF FoldOps, MoveOps
    <2> QED BY <1>1, <2>5, <2>7, <2>8 DEF CmdOK
  <1> QED BY <1>2, <1>3

LEMMA VisitsOK ==
    ASSUME NEW m \in Command, NEW todo \in Visits(m)
    PROVE  /\ todo \in Seq(Key) /\ todo # <<>>
           /\ m.op # "keys" => todo = Fold(m).keys
  <1>1. CASE m.op # "keys"
    BY <1>1, FoldOK DEF Visits, CmdOK, Cmd
  <1>2. CASE m.op = "keys"
    <2> DEFINE S == {k \in Key : db[k] # Null}
    <2>1. IsFiniteSet(S)
      BY FS_Subset, FiniteKeys
    <2>2. Cardinality(S) \in Nat
      BY <2>1, FS_CardinalityType
    <2>3. todo \in Bijection(1 .. Cardinality(S), S) \ {<<>>}
      BY <1>2 DEF Visits
    <2>4. S \subseteq Key
      OBVIOUS
    <2> HIDE DEF S
    <2>5. todo \in [1 .. Cardinality(S) -> Key]
      BY <2>3, <2>4 DEF Bijection, Injection
    <2>6. \A n \in Nat : \A s \in [1 .. n -> Key] : s \in Seq(Key)
      OBVIOUS
    <2> QED BY <1>2, <2>2, <2>3, <2>5, <2>6
  <1> QED BY <1>1, <1>2

LEMMA ExecCommandStep ==
    ASSUME IInv, NEW c \in Client, NEW m \in Command, ExecCommand(c, m)
    PROVE  Step(c)
  <1>1. /\ pc[c] = "idle" /\ pc[c] \in Unlocked /\ UNCHANGED data /\ c \in Proc /\ c \notin Task
        /\ Goto(c, Begins(m))
    BY DEF ExecCommand, At, Unlocked, Proc
  <1>2. PICK todo \in Visits(m), d \in Duration :
           fr' = [fr EXCEPT ![c] = [
                    m |-> Fold(m), todo |-> todo, ttl |-> Null, old |-> Null,
                    at |-> IF m.op \in {"expire", "setex"} THEN now + d ELSE 0]]
    BY Zenon DEF ExecCommand
  <1>3. PICK at \in Int : at = IF m.op \in {"expire", "setex"} THEN now + d ELSE 0
    <2>1. now + d \in Int
      BY NumbersAssumption DEF IInv, TypeOK
    <2> QED BY <2>1
  <1> DEFINE f == [m |-> Fold(m), todo |-> todo, ttl |-> Null, old |-> Null, at |-> at]
  <1>4. fr' = [fr EXCEPT ![c] = f]
    BY <1>2, <1>3
  <1>5. CmdOK(Fold(m)) /\ Fold(m).op = m.op
    BY FoldOK
  <1>6. todo \in Seq(Key) /\ todo # <<>> /\ (m.op # "keys" => todo = Fold(m).keys)
    BY VisitsOK
  <1>7. f \in Frame /\ f.m = Fold(m) /\ f.todo = todo
    BY <1>5, <1>6 DEF Frame, CmdOK
  <1>8. PICK l \in {"get", "poll", "lock"} : l = Begins(m)
    BY DEF Begins
  <1>9. l \in Unlocked /\ l \in Label /\ l \notin Locked
    BY DEF Unlocked, Label, Locked, Writing, Closing, Storing
  <1> HIDE DEF f
  <1>10. Moves(c, l, f)
    BY <1>1, <1>4, <1>7, <1>8, <1>9 DEF Goto, Moves, IInv, TypeOK
  <1>11. FrameOK(c, l, f)
    <2>1. m.op # "timer" /\ (m.op \in MultiOps => m.op # "keys")
      BY <1>5 DEF CmdOK, MultiOps, MoveOps
    <2>2. m.op \in MoveOps \cup {"rename"} => m.op # "keys"
      BY DEF MoveOps
    <2> QED BY <1>1, <1>5, <1>6, <1>7, <1>9, <2>1, <2>2 DEF FrameOK, Locked
  <1>12. TimerKeeps(c)
    BY <1>1 DEF TimerKeeps
  <1> QED BY <1>1, <1>9, <1>10, <1>11, <1>12, UnlockedStep

-----------------------------------------------------------------------------
(* The inductive invariant *)

LEMMA InitIInv == Init => IInv
  <1> SUFFICES ASSUME Init PROVE IInv
    OBVIOUS
  <1>1. TypeOK
    <2>1. held \in [Proc -> Table!Holding]
      BY DEF Init, Table!Init, Table!Nothing, Table!Holding, Table!Mode
    <2>2. pc \in [Proc -> Label]
      BY DEF Init, Label, Unlocked
    <2>3. fr \in [Proc -> Frame]
      BY IdleFrameOK DEF Init
    <2> QED BY <2>1, <2>2, <2>3 DEF TypeOK, Init
  <1>2. ASSUME NEW p \in Proc PROVE Framed(p) /\ held[p] = HeldAt(p) /\ Stable(p)
    <2>1. pc[p] = "idle" /\ fr[p] = IdleFrame /\ held[p] = Table!Nothing
      BY DEF Init, Table!Init
    <2>2. Framed(p)
      BY <2>1, IdleFrameOK DEF Framed
    <2>3. held[p] = HeldAt(p)
      BY <2>1 DEF HeldAt, Locked, Expiring, Writing, Closing, Storing
    <2>4. Stable(p)
      BY <2>1 DEF Stable, Closing
    <2> QED BY <2>2, <2>3, <2>4
  <1>3. Exclusion
    BY DEF Init, Table!Init, Table!Nothing, Exclusion, Table!Conflict
  <1>4. Paired /\ TTLHasTimer /\ Due
    BY DEF Init, Paired, TTLHasTimer, Due, Proc
  <1> QED BY <1>1, <1>2, <1>3, <1>4 DEF IInv, Frames, Holds, Reads

\* One case for each action of Next.
LEMMA NextStep == ASSUME IInv, Next PROVE (\E p \in Proc : Step(p)) \/ (IInv' /\ UNCHANGED <<db, ttlKeys>>)
  <1>1. ASSUME NEW c \in Client, NEW m \in Command, ExecCommand(c, m) PROVE Step(c)
    BY <1>1, ExecCommandStep
  <1>2. ASSUME NEW c \in Client, Handle(c) PROVE Step(c)
    <2>1. c \in Proc
      BY DEF Proc
    <2>2. CASE CheckTTL(c)
      BY <2>1, <2>2, CheckTTLGetStep, CheckTTLCompareStep, CheckTTLLockStep, CheckTTLDeleteStep,
         CheckTTLReturnStep DEF CheckTTL
    <2>3. CASE SetTTL(c)
      BY <2>3, SetTTLGetStep, SetTTLCloseStep, SetTTLStartStep DEF SetTTL
    <2>4. CASE DelTTL(c)
      BY <2>4, DelTTLGetStep, DelTTLCloseStep DEF DelTTL
    <2> QED BY <1>2, <2>2, <2>3, <2>4, LockStep, UnLockStep, KeyCommandStep, StringCommandStep,
               CollectionCommandStep DEF Handle
  <1>3. ASSUME NEW t \in Task, TimerStep(t) PROVE Step(t)
    <2>1. t \in Proc
      BY DEF Proc
    <2>2. CASE CheckTTL(t)
      BY <2>1, <2>2, CheckTTLGetStep, CheckTTLCompareStep, CheckTTLLockStep, CheckTTLDeleteStep,
         CheckTTLReturnStep DEF CheckTTL
    <2> QED BY <1>3, <2>2, TimerFiresStep, TimerCancelledStep DEF TimerStep
  <1>4. CASE Tick
    BY <1>4, TimeStep DEF Tick
  <1> QED BY <1>1, <1>2, <1>3, <1>4 DEF Next, Proc

\* The invariant holds in every state of every behaviour of MemDb.
THEOREM Inductive == Spec => []IInv
  <1>1. IInv /\ [Next]_vars => IInv'
    BY NextStep, TimeStep DEF Step, vars
  <1> QED BY InitIInv, <1>1, PTL DEF Spec

-----------------------------------------------------------------------------
(* Theorems *)

\* Type correctness: no command leaves a malformed value or TTL in the maps or
\* a handler in a state that is none of its own.
THEOREM TypeCorrect == Spec => []TypeOK
  BY Inductive, PTL DEF IInv

\* The locking discipline of the handlers in memdb: db and ttlKeys change at a
\* key only in a step of a goroutine that holds the key's stripe exclusively.
THEOREM LockDiscipline == Spec => GuardedByLock
  <1> DEFINE Guarded == \A k \in Key :
                  db'[k] # db[k] \/ ttlKeys'[k] # ttlKeys[k] =>
                    \E p \in Proc : Table!Writes(p, GetKeyPos[k]) /\ pc'[p] # pc[p]
  <1>1. IInv /\ [Next]_vars => [Guarded]_vars
    BY NextStep DEF Step, vars
  <1> QED BY <1>1, Inductive, PTL DEF Spec, GuardedByLock

\* close(cancel) in SetTTL and DelTTL never panics on a closed channel: the TTL
\* a handler has read is still the one in ttlKeys, and its timer is not
\* cancelled.
THEOREM ClosesOnce == Spec => []NoDoubleClose
  <1>1. IInv => NoDoubleClose
    <2> SUFFICES ASSUME IInv, NEW p \in Proc, pc[p] \in Closing, fr[p].ttl # Null
                 PROVE  fr[p].ttl.cancel \notin closed
      BY DEF NoDoubleClose
    <2>1. Cur(p) \in Key
      BY CurKey DEF IInv, Closing
    <2>2. fr[p].ttl = ttlKeys[Cur(p)]
      BY DEF IInv, Reads, Stable
    <2> QED BY <2>1, <2>2 DEF IInv, TTLHasTimer, TimerOf
  <1> QED BY <1>1, Inductive, PTL

\* ttlKeys follows db in every command: a key whose stripe nobody holds
\* exclusively has a TTL only if it has a value.
THEOREM TTLFollowsValue == Spec => []TTLHasValue
  <1>1. IInv => TTLHasValue
    <2> SUFFICES ASSUME IInv, NEW k \in Key, ttlKeys[k] # Null,
                        \A p \in Proc : ~Table!Writes(p, GetKeyPos[k]), db[k] = Null
                 PROVE  FALSE
      BY DEF TTLHasValue
    <2>1. PICK p \in Proc : Removing(p, k)
      BY DEF IInv, Paired
    <2>2. CASE pc[p] = "expirettl"
      BY <2>1, <2>2, ExpirerHolds DEF Removing, Expiring
    <2>3. CASE pc[p] \in {"delttl", "delttlclose"}
      <3>1. pc[p] \in Writing /\ pc[p] \in Locked
        BY <2>3 DEF Locked, Writing, Closing
      <3>2. Op(p) \notin ReadOps
        BY <3>1 DEF IInv, Frames, Framed, FrameOK, Op
      <3> QED BY <2>1, <3>1, <3>2, WriterHolds DEF Removing
    <2> QED BY <2>1, <2>2, <2>3 DEF Removing
  <1> QED BY <1>1, Inductive, PTL

\* Every TTL has its own uncancelled timer goroutine from SetTTL, on the same
\* key and for the same time.
THEOREM TTLTimer == Spec => []TTLHasTimer
  BY Inductive, PTL DEF IInv

\* The read-modify-write of INCR, DECR, INCRBY and DECRBY is atomic.
THEOREM IncrementsCount == Spec => []NoLostUpdate
  <1>1. IInv => NoLostUpdate
    BY DEF IInv, Reads, Stable, NoLostUpdate, At
  <1> QED BY <1>1, Inductive, PTL
=============================================================================
