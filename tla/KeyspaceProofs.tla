----------------------------- MODULE KeyspaceProofs -----------------------------
(***************************************************************************)
(* The inductive invariant of a MemDb, and what keeps it: a step that      *)
(* touches only what its process has locked, and a step outside the locks. *)
(***************************************************************************)
EXTENDS Keyspace, TLAPS

TimerLabel == {"wait", "get", "compare", "expire"} \cup Expiring

\* The command of a handler, after ExecCommand has folded its keys.
CmdOK(m) ==
    /\ m \in Cmd /\ m.keys # <<>>
    /\ m.op \notin {"timer", "none"}
    /\ m.op \in MoveOps \cup {"rename"} => Len(m.keys) = 2

\* What process p at label l knows of its locals f.
FrameOK(p, l, f) ==
    /\ l = "idle" => f = IdleFrame
    /\ l # "idle" => f.todo # <<>>
    /\ p \in Task => l \in TimerLabel \cup {"idle"}
    /\ p \in Task /\ l # "idle" => f.m.op = "timer"
    /\ p \in Client => l # "wait" /\ f.m.op # "timer"
    /\ p \in Client /\ l # "idle" => CmdOK(f.m)
    /\ f.m.op \in MultiOps =>
          \A i \in 1 .. Len(f.todo) : \E j \in 1 .. Len(f.m.keys) : f.todo[i] = f.m.keys[j]
    /\ f.m.op = "rename" /\ l \in Unlocked \cup Expiring \cup {"body"} => f.todo = f.m.keys
    /\ f.m.op \in MoveOps /\ l \in Locked \cup {"lock"} => f.todo = f.m.keys
    /\ l = "renamed" => f.m.op = "rename" /\ f.old # Null
    /\ l = "write" => f.m.op \in Increment \cup {"mset"}
    /\ l \in Writing => f.m.op \notin ReadOps
    /\ l \in {"compare", "delttlclose"} => f.ttl # Null

Framed(p) == FrameOK(p, pc[p], fr[p])

Frames == \A p \in Proc : Framed(p)

\* Which locks p holds at each label.
HeldAt(p) ==
    IF pc[p] \in Locked THEN [poses |-> LockPoses(p), mode |-> LockMode(p)]
    ELSE IF pc[p] \in Expiring THEN [poses |-> {GetKeyPos[Cur(p)]}, mode |-> "W"]
    ELSE Table!Nothing

Holds == \A p \in Proc : held[p] = HeldAt(p)

Exclusion == \A p, q \in Proc : p # q => ~Table!Conflict(held[p], held[q])

\* What p has read of the maps under its lock still holds.
Stable(p) ==
    /\ pc[p] \in Closing => fr[p].ttl = ttlKeys[Cur(p)]
    /\ pc[p] \in {"setttlclose", "setttlstart"} => db[Cur(p)] # Null
    /\ pc[p] = "write" /\ Op(p) \in Increment => db[Cur(p)] = fr[p].old

Reads == \A p \in Proc : Stable(p)

\* A TTL without a value is about to be removed by the process that has
\* removed the value.
Removing(p, k) == pc[p] \in {"expirettl", "delttl", "delttlclose"} /\ Cur(p) = k

Paired ==
    \A k \in Key : ttlKeys[k] # Null /\ db[k] = Null => \E p \in Proc : Removing(p, k)

\* A timer that has fired is due, and has read its own TTL if that is still there.
Due ==
    /\ \A t \in Task : pc[t] \in {"get", "compare"} => fr[t].at <= now
    /\ \A k \in Key : ttlKeys[k] # Null /\ pc[ttlKeys[k].cancel] = "compare" =>
          fr[ttlKeys[k].cancel].ttl = ttlKeys[k]

IInv == TypeOK /\ Frames /\ Holds /\ Exclusion /\ Reads /\ Paired /\ TTLHasTimer /\ Due

USE ClientTaskDisjoint, GetKeyPosAssumption, NullAssumption

-----------------------------------------------------------------------------
(* Sequences of keys *)

LEMMA HeadKey == \A s \in Seq(Key) : s # <<>> => Head(s) \in Key /\ Head(s) = s[1] /\ 1 \in 1 .. Len(s)
  OBVIOUS

LEMMA KeySeqFunction == \A s \in Seq(Key) : s \in [1 .. Len(s) -> Key]
  OBVIOUS

LEMMA TailKeys ==
    ASSUME NEW s \in Seq(Key), s # <<>>, Len(s) # 1
    PROVE  /\ Tail(s) \in Seq(Key) /\ Tail(s) # <<>>
           /\ \A i \in 1 .. Len(Tail(s)) : i + 1 \in 1 .. Len(s) /\ Tail(s)[i] = s[i + 1]
  <1>1. Tail(s) \in Seq(Key) /\ Len(s) \in Nat /\ Len(s) # 0
    OBVIOUS
  <1>2. Len(Tail(s)) = Len(s) - 1
    OBVIOUS
  <1>3. Tail(s) # <<>>
    <2>1. Len(<<>>) = 0
      OBVIOUS
    <2>2. Tail(s) = <<>> => Len(Tail(s)) = 0
      BY <2>1, Zenon
    <2> QED BY <1>1, <1>2, <2>2
  <1>4. \A i \in 1 .. Len(Tail(s)) : i + 1 \in 1 .. Len(s) /\ Tail(s)[i] = s[i + 1]
    BY <1>1, <1>2
  <1> QED BY <1>1, <1>3, <1>4

-----------------------------------------------------------------------------
(* Lemmas about any state that satisfies the invariant *)

LEMMA CurKey == ASSUME TypeOK, Frames, NEW p \in Proc, pc[p] # "idle" PROVE Cur(p) \in Key
  BY HeadKey DEF TypeOK, Frames, Framed, FrameOK, Frame, Cur

\* A process at a label where it writes holds its key exclusively.
LEMMA WriterHolds ==
    ASSUME IInv, NEW p \in Proc, pc[p] \in Locked, Op(p) \notin ReadOps
    PROVE  /\ Cur(p) \in Key /\ Cur(p) \in LockKeys(p)
           /\ \A k \in LockKeys(p) : k \in Key /\ Table!Writes(p, GetKeyPos[k])
  <1>1. pc[p] # "idle" /\ pc[p] \notin Expiring
    BY DEF Locked, Writing, Closing, Storing, Expiring
  <1>2. Cur(p) \in Key
    BY <1>1, CurKey DEF IInv
  <1>3. held[p] = [poses |-> LockPoses(p), mode |-> "W"]
    BY Zenon DEF IInv, Holds, HeldAt, LockMode
  <1>4. Cur(p) \in LockKeys(p)
    <2>1. CASE Op(p) \notin MultiOps
      BY <2>1 DEF LockKeys
    <2>2. CASE Op(p) \in MultiOps
      <3>1. /\ fr[p].todo \in Seq(Key) /\ fr[p].todo # <<>> /\ fr[p].m.keys \in Seq(Key)
            /\ \A i \in 1 .. Len(fr[p].todo) : \E j \in 1 .. Len(fr[p].m.keys) :
                  fr[p].todo[i] = fr[p].m.keys[j]
        BY <1>1, <2>2 DEF IInv, TypeOK, Frames, Framed, FrameOK, Frame, Cmd, Op
      <3>2. PICK j \in 1 .. Len(fr[p].m.keys) : Cur(p) = fr[p].m.keys[j]
        BY <3>1, HeadKey DEF Cur
      <3> QED BY <2>2, <3>1, <3>2 DEF LockKeys
    <2> QED BY <2>1, <2>2
  <1>5. \A k \in LockKeys(p) : k \in Key
    BY <1>2 DEF LockKeys, IInv, TypeOK, Frame, Cmd
  <1> QED BY <1>2, <1>3, <1>4, <1>5 DEF Table!Writes, LockPoses

LEMMA ExpirerHolds ==
    ASSUME IInv, NEW p \in Proc, pc[p] \in Expiring
    PROVE  Cur(p) \in Key /\ Table!Writes(p, GetKeyPos[Cur(p)])
  <1>1. pc[p] # "idle" /\ pc[p] \notin Locked
    BY DEF Locked, Writing, Closing, Storing, Expiring
  <1>2. Cur(p) \in Key
    BY <1>1, CurKey DEF IInv
  <1>3. held[p] = [poses |-> {GetKeyPos[Cur(p)]}, mode |-> "W"]
    BY <1>1, Zenon DEF IInv, Holds, HeldAt
  <1> QED BY <1>2, <1>3 DEF Table!Writes

\* Two processes do not write under the same stripe.
LEMMA OneWriter ==
    ASSUME Exclusion, NEW p \in Proc, NEW q \in Proc, NEW s, Table!Writes(p, s), Table!Writes(q, s)
    PROVE  p = q
  BY DEF Exclusion, Table!Conflict, Table!Writes

-----------------------------------------------------------------------------
(* A step of p that touches only what p has locked *)

Guards(p) ==
    \A k \in Key : db'[k] # db[k] \/ ttlKeys'[k] # ttlKeys[k] => Table!Writes(p, GetKeyPos[k])

Local(p) ==
    /\ \A q \in Proc \ {p} : pc'[q] = pc[q] /\ fr'[q] = fr[q] /\ held'[q] = held[q]
    /\ Guards(p)

LEMMA Others ==
    ASSUME IInv, NEW p \in Proc, Guards(p), NEW q \in Proc \ {p},
           pc'[q] = pc[q], fr'[q] = fr[q], held'[q] = held[q]
    PROVE  Framed(q)' /\ held'[q] = HeldAt(q)' /\ Stable(q)'
  <1>2. Framed(q)'
    BY DEF IInv, Frames, Framed
  <1>3. held'[q] = HeldAt(q)'
    <2>1. HeldAt(q)' = HeldAt(q)
      BY DEF HeldAt, LockPoses, LockKeys, LockMode, Cur, Op, Table!Nothing
    <2> QED BY <2>1 DEF IInv, Holds
  <1>4. Stable(q)'
    <2>1. Stable(q)
      BY DEF IInv, Reads
    <2>2. CASE pc[q] \in Writing
      <3>1. Op(q) \notin ReadOps /\ pc[q] \in Locked
        BY <2>2 DEF IInv, Frames, Framed, FrameOK, Op, Locked
      <3>2. Cur(q) \in Key /\ Table!Writes(q, GetKeyPos[Cur(q)])
        BY <3>1, WriterHolds
      <3>3. ~Table!Writes(p, GetKeyPos[Cur(q)])
        BY <3>2, OneWriter DEF IInv
      <3>4. db'[Cur(q)] = db[Cur(q)] /\ ttlKeys'[Cur(q)] = ttlKeys[Cur(q)]
        BY <3>2, <3>3 DEF Guards
      <3> QED BY <2>1, <3>4 DEF Stable, Cur, Op
    <2>3. CASE pc[q] \notin Writing
      BY <2>3 DEF Stable, Writing, Closing, Storing
    <2> QED BY <2>2, <2>3
  <1> QED BY <1>2, <1>3, <1>4

\* What a step of p has to establish of p and of the maps.
LEMMA Combine ==
    ASSUME IInv, TypeOK', NEW p \in Proc, Local(p), Framed(p)', held'[p] = HeldAt(p)', Stable(p)',
           Exclusion', Paired', TTLHasTimer', Due'
    PROVE  IInv'
  <1>1. \A q \in Proc : Framed(q)' /\ held'[q] = HeldAt(q)' /\ Stable(q)'
    BY Others DEF Local
  <1> QED BY <1>1 DEF IInv, Frames, Holds, Reads

\* A step of p keeps the invariant, and is as GuardedByLock says.
Step(p) ==
    /\ IInv'
    /\ \A k \in Key : db'[k] # db[k] \/ ttlKeys'[k] # ttlKeys[k] =>
          Table!Writes(p, GetKeyPos[k]) /\ pc'[p] # pc[p]

LEMMA CombineStep ==
    ASSUME IInv, TypeOK', NEW p \in Proc, Local(p), Framed(p)', held'[p] = HeldAt(p)', Stable(p)',
           Exclusion', Paired', TTLHasTimer', Due', pc'[p] # pc[p] \/ (db' = db /\ ttlKeys' = ttlKeys)
    PROVE  Step(p)
  <1>1. IInv'
    BY Combine
  <1> QED BY <1>1 DEF Step, Local, Guards

\* The locks: p takes none, or takes what no other process has.
LEMMA ExclusionKept ==
    ASSUME IInv, NEW p \in Proc, Local(p),
           held'[p] \in {held[p], Table!Nothing}
    PROVE  Exclusion'
  <1> SUFFICES ASSUME NEW a \in Proc, NEW b \in Proc, a # b PROVE ~Table!Conflict(held'[a], held'[b])
    BY DEF Exclusion
  <1>1. ~Table!Conflict(held[a], held[b])
    BY DEF IInv, Exclusion
  <1>2. \A q \in Proc : held'[q] = held[q] \/ held'[q] = Table!Nothing
    BY DEF Local
  <1> QED BY <1>1, <1>2 DEF Table!Conflict, Table!Nothing

\* If p is a timer whose TTL stays, it stays the timer of that TTL.
TimerKeeps(p) ==
    p \in Task =>
      /\ pc'[p] \in {"get", "compare"} => fr'[p].at <= now
      /\ \A k \in Key : ttlKeys'[k] # Null /\ ttlKeys[k] # Null /\ ttlKeys[k].cancel = p =>
            TimerOf(k)' /\ (pc'[p] = "compare" => fr'[p].ttl = ttlKeys[k])

\* The timers: a step that sets no TTL and closes no channel leaves every TTL
\* that it does not remove with its timer.
LEMMA TimersKept ==
    ASSUME IInv, TypeOK', NEW p \in Proc, Local(p), TimerKeeps(p), closed' = closed, now' = now,
           \A k \in Key : ttlKeys'[k] \in {ttlKeys[k], Null}
    PROVE  TTLHasTimer' /\ Due'
  <1>1. \A t \in Task : t # p => pc'[t] = pc[t] /\ fr'[t] = fr[t]
    BY DEF Local, Proc
  <1>2. \A k \in Key : ttlKeys'[k] # Null =>
            ttlKeys'[k] = ttlKeys[k] /\ ttlKeys[k] # Null /\ ttlKeys[k].cancel \in Task
    BY DEF IInv, TypeOK, TTLInfo
  <1>3. ASSUME NEW k \in Key, ttlKeys'[k] # Null PROVE TimerOf(k)'
    <2>1. CASE ttlKeys[k].cancel = p
      BY <1>2, <1>3, <2>1 DEF TimerKeeps
    <2>2. CASE ttlKeys[k].cancel # p
      BY <1>1, <1>2, <1>3, <2>2 DEF IInv, TTLHasTimer, TimerOf, Cur
    <2> QED BY <2>1, <2>2
  <1>4. ASSUME NEW t \in Task, pc'[t] \in {"get", "compare"} PROVE fr'[t].at <= now'
    BY <1>1, <1>4 DEF IInv, Due, TimerKeeps
  <1>5. ASSUME NEW k \in Key, ttlKeys'[k] # Null, pc'[ttlKeys'[k].cancel] = "compare"
        PROVE  fr'[ttlKeys'[k].cancel].ttl = ttlKeys'[k]
    BY <1>1, <1>2, <1>5 DEF IInv, Due, TimerKeeps
  <1>6. Due'
    BY <1>4, <1>5 DEF Due
  <1> QED BY <1>3, <1>6 DEF TTLHasTimer

\* Values and TTLs: if p leaves a TTL without a value it is at a label where
\* it will remove that TTL.
LEMMA PairedKept ==
    ASSUME IInv, NEW p \in Proc, Local(p),
           \A k \in Key :
              \/ ttlKeys'[k] = Null
              \/ db'[k] # Null
              \/ Removing(p, k)'
              \/ ttlKeys'[k] = ttlKeys[k] /\ db'[k] = db[k] /\ ~Removing(p, k)
    PROVE  Paired'
  <1> SUFFICES ASSUME NEW k \in Key, ttlKeys'[k] # Null, db'[k] = Null, ~Removing(p, k)'
               PROVE  \E q \in Proc : Removing(q, k)'
    BY DEF Paired
  <1>1. ttlKeys'[k] = ttlKeys[k] /\ db'[k] = db[k] /\ ~Removing(p, k)
    OBVIOUS
  <1>2. PICK q \in Proc : Removing(q, k)
    BY <1>1 DEF IInv, Paired
  <1>3. q # p
    BY <1>1, <1>2
  <1>4. Removing(q, k)'
    BY <1>2, <1>3 DEF Local, Removing, Cur
  <1> QED BY <1>4

-----------------------------------------------------------------------------
(* Steps that end outside the locks *)

Moves(p, l, f) ==
    /\ pc' \in [Proc -> Label] /\ fr' \in [Proc -> Frame]
    /\ pc'[p] = l /\ fr'[p] = f
    /\ \A q \in Proc \ {p} : pc'[q] = pc[q] /\ fr'[q] = fr[q]

LEMMA MovesFrame == \A p \in Proc : \A l, f : Moves(p, l, f) => f \in Frame
  BY DEF Moves

LEMMA ToUnlocked ==
    ASSUME IInv, NEW p \in Proc, NEW l \in Unlocked, NEW f, Moves(p, l, f), FrameOK(p, l, f),
           held' = [held EXCEPT ![p] = Table!Nothing], TimerKeeps(p),
           db' = db, ttlKeys' \in [Key -> TTLInfo \cup {Null}], closed' = closed, now' = now,
           \A k \in Key : ttlKeys'[k] # ttlKeys[k] => ttlKeys'[k] = Null /\ Table!Writes(p, GetKeyPos[k]),
           \A k \in Key : Removing(p, k) => ttlKeys'[k] = Null,
           l # pc[p] \/ ttlKeys' = ttlKeys
    PROVE  Step(p)
  <1>1. TypeOK'
    BY DEF IInv, TypeOK, Moves, Table!Nothing, Table!Holding, Table!Mode
  <1>2. Local(p)
    BY DEF Local, Guards, Moves, IInv, TypeOK
  <1>3. Framed(p)'
    BY DEF Moves, Framed
  <1>4. held'[p] = Table!Nothing
    BY DEF IInv, TypeOK
  <1>5. pc'[p] \notin Locked \cup Expiring
    BY DEF Moves, Unlocked, Locked, Expiring, Writing, Closing, Storing
  <1>6. held'[p] = HeldAt(p)'
    BY <1>4, <1>5 DEF HeldAt
  <1>7. Stable(p)'
    BY <1>5 DEF Stable, Locked, Writing, Closing, Storing
  <1>8. Exclusion'
    BY <1>2, <1>4, ExclusionKept
  <1>9. Paired'
    BY <1>2, PairedKept
  <1>10. TTLHasTimer' /\ Due'
    BY <1>1, <1>2, TimersKept
  <1>11. pc'[p] # pc[p] \/ (db' = db /\ ttlKeys' = ttlKeys)
    BY DEF Moves
  <1> QED BY <1>1, <1>2, <1>3, <1>6, <1>7, <1>8, <1>9, <1>10, <1>11, CombineStep

LEMMA IdleFrameOK == IdleFrame \in Frame /\ \A p \in Proc : FrameOK(p, "idle", IdleFrame)
  <1>1. IdleFrame \in Frame
    <2>1. <<>> \in Seq(Key)
      OBVIOUS
    <2>2. \A s \in Seq(Key) : [op |-> "none", keys |-> s, cond |-> "none", ttl |-> "none"] \in Cmd
      BY DEF Cmd, Ops
    <2>3. NoCmd \in Cmd
      BY <2>1, <2>2, Zenon DEF NoCmd
    <2>4. \A m \in Cmd, s \in Seq(Key) :
             [m |-> m, todo |-> s, ttl |-> Null, old |-> Null, at |-> 0] \in Frame
      BY DEF Frame
    <2> QED BY <2>1, <2>3, <2>4, Zenon DEF IdleFrame
  <1>2. \A p \in Proc : FrameOK(p, "idle", IdleFrame)
    BY DEF FrameOK, IdleFrame, NoCmd, MultiOps, MoveOps, TimerLabel, Locked, Writing, Closing, Storing,
           Proc
  <1> QED BY <1>1, <1>2

LEMMA FinishMoves ==
    ASSUME TypeOK, NEW p \in Proc, Finish(p)
    PROVE  Moves(p, "idle", IdleFrame) /\ FrameOK(p, "idle", IdleFrame)
  <1>1. Moves(p, "idle", IdleFrame)
    BY IdleFrameOK DEF TypeOK, Finish, Goto, Moves, Label, Unlocked
  <1> QED BY <1>1, IdleFrameOK

NextFrame(p) == [fr[p] EXCEPT !.todo = Tail(fr[p].todo), !.ttl = Null]

LEMMA NextKeyMoves ==
    ASSUME IInv, NEW p \in Client, NEW l \in {"get", "lock"}, pc[p] # "idle", NextKey(p, l),
           Op(p) \notin MultiOps \/ (l = "get" /\ Op(p) \in MoveOps)
    PROVE  \/ Moves(p, "idle", IdleFrame) /\ FrameOK(p, "idle", IdleFrame)
           \/ Moves(p, l, NextFrame(p)) /\ FrameOK(p, l, NextFrame(p))
  <1> p \in Proc
    BY DEF Proc
  <1>1. CASE Len(fr[p].todo) = 1
    BY <1>1, FinishMoves DEF NextKey, IInv
  <1>2. CASE Len(fr[p].todo) # 1
    <2>1. Framed(p) /\ fr[p] \in Frame
      BY DEF IInv, Frames, TypeOK
    <2>2. /\ Tail(fr[p].todo) \in Seq(Key) /\ Tail(fr[p].todo) # <<>>
          /\ \A i \in 1 .. Len(Tail(fr[p].todo)) :
                i + 1 \in 1 .. Len(fr[p].todo) /\ Tail(fr[p].todo)[i] = fr[p].todo[i + 1]
      BY <1>2, <2>1, TailKeys DEF Framed, FrameOK, Frame
    <2>3. NextFrame(p) \in Frame
      BY <2>1, <2>2, Zenon DEF NextFrame, Frame
    <2>4. Moves(p, l, NextFrame(p))
      BY <1>2, <2>3, ZenonT(30) DEF NextKey, Goto, Moves, NextFrame, IInv, TypeOK, Label, Unlocked
    <2>5. /\ NextFrame(p).todo = Tail(fr[p].todo) /\ NextFrame(p).m = fr[p].m
      BY <2>1 DEF NextFrame, Frame
    <2>6. Op(p) \in MultiOps => \A i \in 1 .. Len(Tail(fr[p].todo)) :
             \E j \in 1 .. Len(fr[p].m.keys) : Tail(fr[p].todo)[i] = fr[p].m.keys[j]
      <3>1. Op(p) \in MultiOps => \A i \in 1 .. Len(fr[p].todo) :
               \E j \in 1 .. Len(fr[p].m.keys) : fr[p].todo[i] = fr[p].m.keys[j]
        BY <2>1 DEF Framed, FrameOK, Op
      <3> QED BY <2>2, <3>1, ZenonT(30)
    <2>7. CmdOK(fr[p].m) /\ fr[p].m.op # "timer"
      BY <2>1 DEF Framed, FrameOK
    <2>8. p \notin Task
      OBVIOUS
    <2>9. fr[p].m.op # "rename" /\ (l = "lock" => fr[p].m.op \notin MoveOps)
      BY DEF MultiOps, MoveOps, Op
    <2>10. l \notin Locked
      BY DEF Locked, Writing, Closing, Storing
    <2>11. FrameOK(p, l, NextFrame(p))
      BY <2>2, <2>5, <2>6, <2>7, <2>8, <2>9, <2>10 DEF FrameOK, Locked, Op
    <2> QED BY <2>4, <2>11
  <1> QED BY <1>1, <1>2

LockFrame(p) ==
    [fr[p] EXCEPT !.ttl = Null, !.todo = IF Op(p) \in MoveOps THEN fr[p].m.keys ELSE fr[p].todo]

LEMMA ToLockMoves ==
    ASSUME IInv, NEW p \in Client, pc[p] \in {"get", "compare", "expirettl"}, ToLock(p)
    PROVE  Moves(p, "lock", LockFrame(p)) /\ FrameOK(p, "lock", LockFrame(p))
  <1> p \in Proc
    BY ZenonT(30) DEF Proc
  <1>1. Framed(p) /\ fr[p] \in Frame /\ CmdOK(fr[p].m) /\ fr[p].todo # <<>> /\ fr[p].m.op # "timer"
    BY DEF IInv, Frames, TypeOK, Framed, FrameOK
  <1>2. LockFrame(p) \in Frame
    BY <1>1, ZenonT(30) DEF LockFrame, Frame, CmdOK, Cmd
  <1>3. Moves(p, "lock", LockFrame(p))
    BY <1>2 DEF ToLock, Goto, Moves, LockFrame, IInv, TypeOK, Label, Unlocked
  <1>4. LockFrame(p).m = fr[p].m
    BY <1>1, ZenonT(30) DEF LockFrame, Frame
  <1>5. CASE Op(p) \in MoveOps
    <2>1. LockFrame(p).todo = fr[p].m.keys
      BY <1>1, <1>5 DEF LockFrame, Frame
    <2>2. fr[p].m.keys # <<>> /\ fr[p].m.op # "rename"
      BY <1>1, <1>5 DEF CmdOK, MoveOps, Op
    <2> QED BY <1>1, <1>3, <1>4, <2>1, <2>2, ZenonT(30) DEF FrameOK, Locked, Writing, Closing, Storing
  <1>6. CASE Op(p) \notin MoveOps
    <2>1. LockFrame(p).todo = fr[p].todo
      BY <1>1, <1>6 DEF LockFrame, Frame
    <2> QED BY <1>1, <1>3, <1>4, <1>6, <2>1
            DEF Framed, FrameOK, Locked, Writing, Closing, Storing, Op, Unlocked, Expiring
  <1> QED BY <1>5, <1>6

\* A process outside the locks holds nothing and removes nothing.
LEMMA HoldsNothing ==
    ASSUME IInv, NEW p \in Proc, pc[p] \in Unlocked
    PROVE  /\ held[p] = Table!Nothing /\ held = [held EXCEPT ![p] = Table!Nothing]
           /\ \A k : ~Removing(p, k)
  <1>1. pc[p] \notin Locked \cup Expiring
    BY DEF Unlocked, Locked, Expiring, Writing, Closing, Storing
  <1>2. held[p] = Table!Nothing
    BY <1>1, Zenon DEF IInv, Holds, HeldAt
  <1>3. held = [held EXCEPT ![p] = Table!Nothing]
    BY <1>2 DEF IInv, TypeOK
  <1> QED BY <1>1, <1>2, <1>3 DEF Removing, Locked, Expiring, Writing, Closing

\* A step between two labels outside the locks.
LEMMA UnlockedStep ==
    ASSUME IInv, NEW p \in Proc, pc[p] \in Unlocked, UNCHANGED data,
           NEW l \in Unlocked, NEW f, Moves(p, l, f), FrameOK(p, l, f), TimerKeeps(p)
    PROVE  Step(p)
  <1>1. held = [held EXCEPT ![p] = Table!Nothing] /\ \A k : ~Removing(p, k)
    BY HoldsNothing
  <1>2. /\ held' = [held EXCEPT ![p] = Table!Nothing] /\ db' = db /\ closed' = closed /\ now' = now
        /\ ttlKeys' = ttlKeys /\ ttlKeys' \in [Key -> TTLInfo \cup {Null}]
    BY <1>1 DEF data, IInv, TypeOK
  <1>3. \A k \in Key : ttlKeys'[k] # ttlKeys[k] => ttlKeys'[k] = Null /\ Table!Writes(p, GetKeyPos[k])
    BY <1>2
  <1>4. \A k \in Key : Removing(p, k) => ttlKeys'[k] = Null
    BY <1>1
  <1> QED BY <1>2, <1>3, <1>4, ToUnlocked, Zenon

\* The timer of a TTL is about its key.
LEMMA TimerKey ==
    ASSUME IInv, NEW k \in Key, ttlKeys[k] # Null
    PROVE  /\ ttlKeys[k].cancel \in Task \ closed /\ Cur(ttlKeys[k].cancel) = k
           /\ pc[ttlKeys[k].cancel] \in TimerLabel
           /\ fr[ttlKeys[k].cancel].at = ttlKeys[k].value
  BY DEF IInv, TTLHasTimer, TimerOf, TypeOK, TTLInfo, TimerLabel

(***************************************************************************)
(* A step inside the lock of a handler preserves the invariant; SetTTL and *)
(* DelTTL take such steps.                                                 *)
(***************************************************************************)

-----------------------------------------------------------------------------
(* Steps inside the lock of a handler *)

LEMMA LockedStep ==
    ASSUME IInv, NEW p \in Client, pc[p] \in Locked, NEW l \in Locked, pc[p] # l, NEW f,
           Moves(p, l, f), FrameOK(p, l, f), f.m = fr[p].m, Op(p) \in MultiOps \/ f.todo = fr[p].todo,
           held' = held, now' = now, closed' \subseteq Task,
           db' \in [Key -> Val \cup {Null}], ttlKeys' \in [Key -> TTLInfo \cup {Null}],
           \A k \in Key : db'[k] # db[k] \/ ttlKeys'[k] # ttlKeys[k] =>
              k \in LockKeys(p) /\ Op(p) \notin ReadOps,
           \/ closed' = closed /\ \A k \in Key : ttlKeys'[k] \in {ttlKeys[k], Null}
           \/ TTLHasTimer' /\ Due',
           Stable(p)',
           \A k \in Key :
              \/ ttlKeys'[k] = Null
              \/ db'[k] # Null
              \/ Removing(p, k)'
              \/ ttlKeys'[k] = ttlKeys[k] /\ db'[k] = db[k] /\ ~Removing(p, k)
    PROVE  Step(p)
  <1> p \in Proc /\ p \notin Task
    BY DEF Proc
  <1>1. TypeOK'
    BY DEF IInv, TypeOK, Moves
  <1>2. Guards(p)
    BY WriterHolds DEF Guards
  <1>3. Local(p)
    BY <1>2 DEF Local, Moves
  <1>4. Framed(p)'
    BY DEF Moves, Framed
  <1>5. held'[p] = HeldAt(p)'
    <2>1. pc'[p] \in Locked /\ Op(p)' = Op(p) /\ LockKeys(p)' = LockKeys(p)
      <3>1. pc'[p] \in Locked /\ fr'[p].m = fr[p].m
        BY DEF Moves
      <3>2. Op(p)' = Op(p)
        BY <3>1 DEF Op
      <3>3. CASE Op(p) \in MultiOps
        BY <3>1, <3>2, <3>3 DEF LockKeys
      <3>4. CASE f.todo = fr[p].todo
        BY <3>1, <3>2, <3>4 DEF LockKeys, Cur, Moves
      <3> QED BY <3>1, <3>2, <3>3, <3>4
    <2>2. LockPoses(p)' = LockPoses(p) /\ LockMode(p)' = LockMode(p)
      BY <2>1 DEF LockPoses, LockMode
    <2>3. held[p] = HeldAt(p)
      BY DEF IInv, Holds
    <2> QED BY <2>1, <2>2, <2>3 DEF HeldAt
  <1>6. Exclusion'
    BY <1>3, ExclusionKept
  <1>7. Paired'
    BY <1>3, PairedKept
  <1>8. TTLHasTimer' /\ Due'
    <2>1. TimerKeeps(p)
      BY DEF TimerKeeps
    <2> QED BY <1>1, <1>3, <2>1, TimersKept
  <1>9. pc'[p] # pc[p]
    BY DEF Moves
  <1> QED BY <1>1, <1>3, <1>4, <1>5, <1>6, <1>7, <1>8, <1>9, CombineStep

\* A handler at a label where it writes: its command, key and locks.
LEMMA AtWriting ==
    ASSUME IInv, NEW p \in Client, pc[p] \in Writing
    PROVE  /\ p \in Proc /\ p \notin Task /\ pc[p] \in Locked /\ pc[p] # "idle"
           /\ Framed(p) /\ Stable(p) /\ fr[p] \in Frame /\ Op(p) \notin ReadOps
           /\ Cur(p) \in Key /\ Cur(p) \in LockKeys(p)
           /\ pc[p] \notin Unlocked \cup Expiring \cup {"body"}
  <1>1. p \in Proc /\ p \notin Task /\ pc[p] \in Locked /\ pc[p] # "idle"
    BY DEF Proc, Locked, Writing, Closing, Storing
  <1>2. Framed(p) /\ Stable(p) /\ fr[p] \in Frame /\ Op(p) \notin ReadOps
    BY <1>1, ZenonT(30) DEF IInv, Frames, Reads, TypeOK, Framed, FrameOK, Op
  <1>3. pc[p] \notin Unlocked \cup Expiring \cup {"body"}
    BY DEF Unlocked, Expiring, Writing, Closing, Storing
  <1> QED BY <1>1, <1>2, <1>3, WriterHolds

\* A handler closes the channel of the TTL it has read, and drops that TTL.
LEMMA Cancels ==
    ASSUME IInv, NEW p \in Client, Cur(p) \in Key, ttlKeys[Cur(p)] # Null,
           closed' = closed \cup {ttlKeys[Cur(p)].cancel}, now' = now,
           ttlKeys' = [ttlKeys EXCEPT ![Cur(p)] = Null],
           \A q \in Proc \ {p} : pc'[q] = pc[q] /\ fr'[q] = fr[q]
    PROVE  TTLHasTimer' /\ Due'
  <1>1. \A t \in Task : pc'[t] = pc[t] /\ fr'[t] = fr[t]
    BY DEF Proc
  <1>2. \A k \in Key : ttlKeys'[k] # Null =>
           /\ k # Cur(p) /\ ttlKeys'[k] = ttlKeys[k] /\ ttlKeys[k] # Null
           /\ ttlKeys[k].cancel \in Task /\ ttlKeys[k].cancel # ttlKeys[Cur(p)].cancel
    BY TimerKey, ZenonT(30) DEF IInv, TypeOK
  <1>3. ASSUME NEW k \in Key, ttlKeys'[k] # Null PROVE TimerOf(k)'
    <2>1. TimerOf(k)
      BY <1>2, <1>3 DEF IInv, TTLHasTimer
    <2>2. PICK t \in Task : t = ttlKeys[k].cancel /\ t # ttlKeys[Cur(p)].cancel
      BY <1>2, <1>3
    <2>3. pc'[t] = pc[t] /\ fr'[t] = fr[t] /\ ttlKeys'[k] = ttlKeys[k] /\ (t \in closed' => t \in closed)
      BY <1>1, <1>2, <1>3, <2>2
    <2> QED BY <2>1, <2>2, <2>3, ZenonT(30) DEF TimerOf, Cur
  <1>4. Due'
    BY <1>1, <1>2 DEF IInv, Due
  <1> QED BY <1>3, <1>4 DEF TTLHasTimer

\* A handler that keeps its command and key is still well-formed.
LEMMA StaysFramed ==
    ASSUME IInv, NEW p \in Client, pc[p] \in Locked, NEW l \in Locked \ {"body", "renamed"}, NEW f,
           f.m = fr[p].m, f.todo = fr[p].todo,
           l = "write" => Op(p) \in Increment \cup {"mset"},
           l # "unlock" => Op(p) \notin ReadOps,
           l = "delttlclose" => f.ttl # Null
    PROVE  FrameOK(p, l, f)
  <1>1. p \in Proc /\ p \notin Task /\ Framed(p) /\ pc[p] # "idle"
    BY DEF Proc, IInv, Frames, Locked, Writing, Closing, Storing
  <1>2. l \notin Unlocked \cup Expiring \cup {"body", "idle", "compare", "renamed", "wait", "lock"}
    BY DEF Locked, Writing, Closing, Storing, Unlocked, Expiring
  <1>3. l \in Writing => l # "unlock"
    BY DEF Writing, Closing, Storing
  <1> QED BY <1>1, <1>2, <1>3 DEF Framed, FrameOK, Op

LEMMA GotoMoves ==
    ASSUME IInv, NEW p \in Client, NEW l \in Locked, Goto(p, l), fr' = fr
    PROVE  Moves(p, l, fr[p])
  <1>1. p \in Proc /\ l \in Label
    BY DEF Proc, Label
  <1> QED BY <1>1 DEF Goto, Moves, IInv, TypeOK

LEMMA SetTTLGetStep == ASSUME IInv, NEW p \in Client, SetTTLGet(p) PROVE Step(p)
  <1>1. pc[p] = "setttl" /\ pc[p] \in Writing /\ UNCHANGED data
    BY DEF SetTTLGet, At, Writing, Storing
  <1>2. /\ p \in Proc /\ pc[p] \in Locked /\ fr[p] \in Frame /\ Op(p) \notin ReadOps
        /\ Cur(p) \in Key /\ Cur(p) \in LockKeys(p)
    BY <1>1, AtWriting
  <1>3. /\ held' = held /\ now' = now /\ closed' = closed /\ db' = db /\ ttlKeys' = ttlKeys
        /\ closed' \subseteq Task
        /\ db' \in [Key -> Val \cup {Null}] /\ ttlKeys' \in [Key -> TTLInfo \cup {Null}]
        /\ \A k : ~Removing(p, k)
    BY <1>1 DEF data, IInv, TypeOK, Removing
  <1>4. CASE db[Cur(p)] = Null
    <2>1. Moves(p, "unlock", fr[p])
      BY <1>4, GotoMoves DEF SetTTLGet, Locked
    <2>2. FrameOK(p, "unlock", fr[p])
      BY <1>2, StaysFramed DEF Locked
    <2>3. Stable(p)'
      BY <2>1 DEF Stable, Moves, Closing
    <2> QED BY <1>1, <1>2, <1>3, <2>1, <2>2, <2>3, LockedStep, ZenonT(30) DEF Locked
  <1>5. CASE db[Cur(p)] # Null
    <2>1. PICK d \in Duration :
             fr' = [fr EXCEPT ![p].ttl = ttlKeys[Cur(p)],
                              ![p].at = IF Op(p) = "set" THEN now + d ELSE @]
      BY <1>5 DEF SetTTLGet
    <2>2. PICK at \in Int : at = IF Op(p) = "set" THEN now + d ELSE fr[p].at
      <3>1. now + d \in Int /\ fr[p].at \in Int
        BY <1>2, NumbersAssumption, SMTT(30) DEF IInv, TypeOK, Frame
      <3> QED BY <3>1
    <2> DEFINE f == [fr[p] EXCEPT !.ttl = ttlKeys[Cur(p)], !.at = at]
    <2>3. ttlKeys[Cur(p)] \in TTLInfo \cup {Null}
      BY <1>2 DEF IInv, TypeOK
    <2>4. f \in Frame /\ f.m = fr[p].m /\ f.todo = fr[p].todo /\ f.ttl = ttlKeys[Cur(p)]
      BY <1>2, <2>2, <2>3, ZenonT(30) DEF Frame
    <2>5. Moves(p, "setttlclose", f)
      BY <1>2, <1>5, <2>1, <2>2, <2>4, ZenonT(30) DEF SetTTLGet, Goto, Moves, IInv, TypeOK, Label, Locked, Writing, Storing
    <2>6. FrameOK(p, "setttlclose", f)
      BY <1>2, <2>4, StaysFramed, Zenon DEF Locked, Writing, Storing
    <2>7. Cur(p)' = Cur(p)
      BY <2>4, <2>5 DEF Cur, Moves
    <2>8. Stable(p)'
      BY <1>3, <1>5, <2>4, <2>5, <2>7 DEF Stable, Moves, Closing
    <2>9. "setttlclose" \in Locked
      BY DEF Locked, Writing, Storing
    <2> HIDE DEF f
    <2> QED BY <1>1, <1>2, <1>3, <2>4, <2>5, <2>6, <2>8, <2>9, LockedStep, ZenonT(30)
  <1> QED BY <1>4, <1>5

LEMMA SetTTLCloseStep == ASSUME IInv, NEW p \in Client, SetTTLClose(p) PROVE Step(p)
  <1>1. /\ pc[p] = "setttlclose" /\ pc[p] \in Writing /\ held' = held /\ now' = now /\ db' = db /\ fr' = fr
        /\ pc' = [pc EXCEPT ![p] = "setttlstart"]
    BY DEF SetTTLClose, At, Writing, Storing, Goto
  <1>2. /\ p \in Proc /\ pc[p] \in Locked /\ fr[p] \in Frame /\ Op(p) \notin ReadOps
        /\ Cur(p) \in Key /\ Cur(p) \in LockKeys(p) /\ Stable(p)
    BY <1>1, AtWriting
  <1>3. /\ Moves(p, "setttlstart", fr[p]) /\ "setttlstart" \in Locked
    BY <1>1, GotoMoves, Zenon DEF Goto, Locked, Writing, Storing
  <1>4. FrameOK(p, "setttlstart", fr[p])
    BY <1>2, <1>3, StaysFramed
  <1>5. Cur(p)' = Cur(p) /\ pc'[p] = "setttlstart"
    BY <1>1, <1>3 DEF Cur, Moves
  <1>6. Stable(p)'
    BY <1>1, <1>2, <1>5 DEF Stable, Closing
  <1>7. fr[p].ttl = ttlKeys[Cur(p)] /\ db' \in [Key -> Val \cup {Null}] /\ \A k : ~Removing(p, k)
    BY <1>1, <1>2 DEF Stable, Closing, IInv, TypeOK, Removing
  <1>8. CASE fr[p].ttl = Null
    <2>1. ttlKeys' = ttlKeys /\ closed' = closed /\ closed' \subseteq Task
          /\ ttlKeys' \in [Key -> TTLInfo \cup {Null}]
      BY <1>8, ZenonT(30) DEF SetTTLClose, IInv, TypeOK
    <2> QED BY <1>1, <1>2, <1>3, <1>4, <1>6, <1>7, <2>1, LockedStep
  <1>9. CASE fr[p].ttl # Null
    <2>1. /\ ttlKeys' = [ttlKeys EXCEPT ![Cur(p)] = Null]
          /\ closed' = closed \cup {ttlKeys[Cur(p)].cancel} /\ ttlKeys[Cur(p)] # Null
      BY <1>7, <1>9 DEF SetTTLClose
    <2>2. closed' \subseteq Task /\ ttlKeys' \in [Key -> TTLInfo \cup {Null}]
      BY <1>2, <2>1, TimerKey DEF IInv, TypeOK
    <2>3. \A k \in Key : ttlKeys'[k] = Null \/ (ttlKeys'[k] = ttlKeys[k] /\ k # Cur(p))
      BY <1>2, <2>1 DEF IInv, TypeOK
    <2>4. \A k \in Key : ttlKeys'[k] # ttlKeys[k] => k = Cur(p)
      BY <1>2, <2>1 DEF IInv, TypeOK
    <2>5. TTLHasTimer' /\ Due'
      BY <1>1, <1>2, <1>3, <2>1, Cancels, Zenon DEF Moves
    <2> QED BY <1>1, <1>2, <1>3, <1>4, <1>6, <1>7, <2>2, <2>3, <2>4, <2>5, LockedStep, ZenonT(30)
  <1> QED BY <1>8, <1>9

LEMMA AfterDelTTLLabel ==
    ASSUME NEW p \in Client
    PROVE  /\ AfterDelTTL(p) \in {"setttl", "write", "unlock"}
           /\ AfterDelTTL(p) = "write" => Op(p) = "mset"
  BY DEF AfterDelTTL

LEMMA DelTTLGetStep == ASSUME IInv, NEW p \in Client, DelTTLGet(p) PROVE Step(p)
  <1>1. pc[p] = "delttl" /\ pc[p] \in Writing /\ UNCHANGED data
    BY DEF DelTTLGet, At, Writing
  <1>2. /\ p \in Proc /\ pc[p] \in Locked /\ fr[p] \in Frame /\ Op(p) \notin ReadOps
        /\ Cur(p) \in Key /\ Cur(p) \in LockKeys(p)
    BY <1>1, AtWriting
  <1>3. /\ held' = held /\ now' = now /\ closed' = closed /\ db' = db /\ ttlKeys' = ttlKeys
        /\ closed' \subseteq Task
        /\ db' \in [Key -> Val \cup {Null}] /\ ttlKeys' \in [Key -> TTLInfo \cup {Null}]
    BY <1>1 DEF data, IInv, TypeOK
  <1>4. \A k : Removing(p, k) => k = Cur(p)
    BY DEF Removing
  <1>5. CASE ttlKeys[Cur(p)] = Null
    <2>1. PICK l \in {"setttl", "write", "unlock"} : l = AfterDelTTL(p) /\ (l = "write" => Op(p) = "mset")
      BY AfterDelTTLLabel
    <2>2. l \in Locked /\ l \notin {"body", "renamed", "delttlclose"}
      BY DEF Locked, Writing, Storing
    <2>3. Moves(p, l, fr[p])
      BY <1>5, <2>1, <2>2, GotoMoves DEF DelTTLGet
    <2>4. FrameOK(p, l, fr[p])
      BY <1>2, <2>1, <2>2, StaysFramed
    <2>5. Stable(p)'
      BY <2>1, <2>3 DEF Stable, Moves, Closing, Op, Increment
    <2>6. \A k \in Key : ttlKeys'[k] = Null \/ ~Removing(p, k)
      BY <1>3, <1>4, <1>5
    <2> QED BY <1>1, <1>2, <1>3, <2>2, <2>3, <2>4, <2>5, <2>6, LockedStep, ZenonT(30)
  <1>6. CASE ttlKeys[Cur(p)] # Null
    <2> DEFINE f == [fr[p] EXCEPT !.ttl = ttlKeys[Cur(p)]]
    <2>1. ttlKeys[Cur(p)] \in TTLInfo
      BY <1>2, <1>6 DEF IInv, TypeOK
    <2>2. f \in Frame /\ f.m = fr[p].m /\ f.todo = fr[p].todo /\ f.ttl = ttlKeys[Cur(p)]
      BY <1>2, <2>1 DEF Frame
    <2>3. Moves(p, "delttlclose", f) /\ "delttlclose" \in Locked
      BY <1>2, <1>6, <2>2 DEF DelTTLGet, Goto, Moves, IInv, TypeOK, Label, Locked, Writing, Closing
    <2>4. FrameOK(p, "delttlclose", f)
      BY <1>2, <1>6, <2>2, <2>3, StaysFramed, Zenon
    <2>5. Cur(p)' = Cur(p) /\ pc'[p] = "delttlclose" /\ fr'[p].ttl = ttlKeys[Cur(p)]
      BY <2>2, <2>3 DEF Cur, Moves
    <2>6. Stable(p)'
      BY <1>3, <2>5 DEF Stable
    <2>7. \A k \in Key : Removing(p, k) => Removing(p, k)'
      BY <1>1, <2>5 DEF Removing
    <2> HIDE DEF f
    <2> QED BY <1>1, <1>2, <1>3, <2>2, <2>3, <2>4, <2>6, <2>7, LockedStep, ZenonT(30)
  <1> QED BY <1>5, <1>6

LEMMA DelTTLCloseStep == ASSUME IInv, NEW p \in Client, DelTTLClose(p) PROVE Step(p)
  <1>1. /\ pc[p] = "delttlclose" /\ pc[p] \in Writing /\ held' = held /\ now' = now /\ db' = db
        /\ pc' = [pc EXCEPT ![p] = AfterDelTTL(p)] /\ fr' = [fr EXCEPT ![p].ttl = Null]
    BY DEF DelTTLClose, At, Writing, Closing, Goto
  <1>2. /\ p \in Proc /\ pc[p] \in Locked /\ fr[p] \in Frame /\ Op(p) \notin ReadOps
        /\ Cur(p) \in Key /\ Cur(p) \in LockKeys(p) /\ Stable(p) /\ Framed(p)
    BY <1>1, AtWriting
  <1>3. fr[p].ttl = ttlKeys[Cur(p)] /\ fr[p].ttl # Null
    BY <1>1, <1>2 DEF Stable, Closing, Framed, FrameOK
  <1>4. /\ ttlKeys' = [ttlKeys EXCEPT ![Cur(p)] = Null] /\ ttlKeys[Cur(p)] # Null
        /\ closed' = closed \cup {ttlKeys[Cur(p)].cancel}
    BY <1>3 DEF DelTTLClose
  <1>5. PICK l \in {"setttl", "write", "unlock"} : l = AfterDelTTL(p) /\ (l = "write" => Op(p) = "mset")
    BY AfterDelTTLLabel
  <1> DEFINE f == [fr[p] EXCEPT !.ttl = Null]
  <1>6. f \in Frame /\ f.m = fr[p].m /\ f.todo = fr[p].todo
    BY <1>2, Zenon DEF Frame
  <1>7. l \in Locked /\ l \notin {"body", "renamed", "delttlclose"}
    BY DEF Locked, Writing, Storing
  <1>8. Moves(p, l, f)
    BY <1>1, <1>2, <1>5, <1>6, <1>7 DEF Moves, IInv, TypeOK, Label
  <1>9. FrameOK(p, l, f)
    BY <1>2, <1>5, <1>6, <1>7, StaysFramed, Zenon
  <1>10. Stable(p)'
    BY <1>5, <1>6, <1>8 DEF Stable, Moves, Closing, Op, Increment
  <1>11. /\ closed' \subseteq Task /\ ttlKeys' \in [Key -> TTLInfo \cup {Null}]
         /\ db' \in [Key -> Val \cup {Null}]
    BY <1>1, <1>2, <1>4, TimerKey DEF IInv, TypeOK
  <1>12. \A k \in Key : /\ ttlKeys'[k] # ttlKeys[k] => k = Cur(p)
                        /\ ttlKeys'[k] = Null \/ (ttlKeys'[k] = ttlKeys[k] /\ k # Cur(p))
    BY <1>2, <1>4 DEF IInv, TypeOK
  <1>13. \A k \in Key : ttlKeys'[k] = Null \/ ~Removing(p, k)
    BY <1>12 DEF Removing
  <1>14. TTLHasTimer' /\ Due'
    BY <1>1, <1>2, <1>4, <1>8, Cancels, Zenon DEF Moves
  <1> HIDE DEF f
  <1> QED BY <1>1, <1>2, <1>6, <1>7, <1>8, <1>9, <1>10, <1>11, <1>12, <1>13, <1>14, LockedStep

\* The only step that starts a process: both the handler and the new timer move.
LEMMA SetTTLStartStep == ASSUME IInv, NEW p \in Client, SetTTLStart(p) PROVE Step(p)
  <1>1. pc[p] = "setttlstart" /\ pc[p] \in Writing /\ held' = held /\ now' = now /\ db' = db
    BY DEF SetTTLStart, At, Writing, Storing
  <1>2. /\ p \in Proc /\ p \notin Task /\ pc[p] \in Locked /\ fr[p] \in Frame /\ Op(p) \notin ReadOps
        /\ Cur(p) \in Key /\ Cur(p) \in LockKeys(p) /\ Stable(p) /\ Framed(p)
    BY <1>1, AtWriting
  <1>3. PICK t \in FreeTask :
           /\ ttlKeys' = [ttlKeys EXCEPT ![Cur(p)] = [value |-> fr[p].at, cancel |-> t]]
           /\ closed' = closed \ {t}
           /\ pc' = [pc EXCEPT ![p] = "unlock", ![t] = "wait"]
           /\ fr' = [fr EXCEPT ![p].ttl = Null, ![p].at = 0, ![t] = TimerFrame(Cur(p), fr[p].at)]
    BY Zenon DEF SetTTLStart
  <1>4. /\ t \in Task /\ t \in Proc /\ t # p /\ pc[t] = "idle"
        /\ \A k \in Key : ttlKeys[k] # Null => ttlKeys[k].cancel # t
    BY <1>2 DEF FreeTask, Proc
  <1> DEFINE f == [fr[p] EXCEPT !.ttl = Null, !.at = 0]
             i == [value |-> fr[p].at, cancel |-> t]
             g == TimerFrame(Cur(p), fr[p].at)
  <1>5. f \in Frame /\ f.m = fr[p].m /\ f.todo = fr[p].todo
    BY <1>2, NumbersAssumption, ZenonT(30) DEF Frame
  <1>6. /\ g \in Frame /\ g.m.op = "timer" /\ g.todo # <<>> /\ Head(g.todo) = Cur(p) /\ g.at = fr[p].at
    <2>1. fr[p].at \in Int
      BY <1>2 DEF Frame
    <2>2. <<Cur(p)>> \in Seq(Key) /\ <<Cur(p)>> # <<>> /\ Head(<<Cur(p)>>) = Cur(p)
      BY <1>2
    <2>3. \A s \in Seq(Key) : [op |-> "timer", keys |-> s, cond |-> "none", ttl |-> "none"] \in Cmd
      BY DEF Cmd, Ops
    <2>4. Timer = [op |-> "timer", keys |-> <<>>, cond |-> "none", ttl |-> "none"]
      BY DEF Timer, NoCmd
    <2>5. <<>> \in Seq(Key)
      OBVIOUS
    <2>6. Timer \in Cmd
      BY <2>3, <2>4, <2>5, Zenon
    <2>7. Timer.op = "timer"
      BY DEF Timer, NoCmd
    <2>8. \A m \in Cmd, s \in Seq(Key), at \in Int :
             [m |-> m, todo |-> s, ttl |-> Null, old |-> Null, at |-> at] \in Frame
      BY DEF Frame
    <2>9. g = [m |-> Timer, todo |-> <<Cur(p)>>, ttl |-> Null, old |-> Null, at |-> fr[p].at]
      BY DEF TimerFrame
    <2>10. g \in Frame
      BY <2>1, <2>2, <2>6, <2>8, <2>9, Zenon
    <2>11. g.m = Timer /\ g.todo = <<Cur(p)>> /\ g.at = fr[p].at
      BY <2>9
    <2> QED BY <2>2, <2>7, <2>10, <2>11
  <1>7. /\ pc'[p] = "unlock" /\ pc'[t] = "wait" /\ fr'[p] = f /\ fr'[t] = g
        /\ \A q \in Proc \ {p, t} : pc'[q] = pc[q] /\ fr'[q] = fr[q]
    BY <1>2, <1>3, <1>4 DEF IInv, TypeOK
  <1>8. /\ ttlKeys'[Cur(p)] = i /\ i \in TTLInfo /\ i.cancel = t /\ i.value = fr[p].at
        /\ \A k \in Key \ {Cur(p)} : ttlKeys'[k] = ttlKeys[k]
    BY <1>2, <1>3, <1>4 DEF IInv, TypeOK, TTLInfo, Frame
  <1> HIDE DEF f, g, i
  <1>9. TypeOK'
    <2>1. pc' \in [Proc -> Label]
      BY <1>2, <1>3, <1>4 DEF IInv, TypeOK, Label, Locked, Unlocked
    <2>2. fr' \in [Proc -> Frame]
      <3>1. DOMAIN fr' = Proc /\ \A q \in Proc : fr'[q] \in Frame
        BY <1>2, <1>3, <1>5, <1>6, <1>7 DEF IInv, TypeOK
      <3>2. fr' = [q \in Proc |-> fr'[q]]
        BY <1>3, Zenon DEF IInv, TypeOK
      <3> QED BY <3>1, <3>2
    <2>3. ttlKeys' \in [Key -> TTLInfo \cup {Null}]
      BY <1>3, <1>8, ZenonT(30) DEF IInv, TypeOK, i
    <2>4. now' \in Nat /\ db' \in [Key -> Val \cup {Null}] /\ closed' \subseteq Task
          /\ held' \in [Proc -> Table!Holding]
      BY <1>1, <1>3 DEF IInv, TypeOK
    <2> QED BY <2>1, <2>2, <2>3, <2>4 DEF TypeOK
  <1>10. Guards(p)
    BY <1>1, <1>2, <1>8, WriterHolds DEF Guards
  <1>11. Framed(p)' /\ held'[p] = HeldAt(p)' /\ Stable(p)'
    <2>1. FrameOK(p, "unlock", f)
      BY <1>2, <1>5, StaysFramed DEF Locked
    <2>2. Framed(p)'
      BY <1>7, <2>1 DEF Framed
    <2>3. LockPoses(p)' = LockPoses(p) /\ LockMode(p)' = LockMode(p)
      BY <1>5, <1>7 DEF LockPoses, LockMode, LockKeys, Cur, Op
    <2>4. held'[p] = HeldAt(p)'
      BY <1>1, <1>2, <1>7, <2>3, ZenonT(30) DEF HeldAt, IInv, Holds, Locked
    <2>5. Stable(p)'
      BY <1>7, ZenonT(30) DEF Stable, Closing
    <2> QED BY <2>2, <2>4, <2>5
  <1>12. Framed(t)' /\ held'[t] = HeldAt(t)' /\ Stable(t)'
    <2>1. Framed(t)'
      BY <1>4, <1>6, <1>7 DEF Framed, FrameOK, TimerLabel, MultiOps, MoveOps, Locked, Writing, Closing, Storing
    <2>2. pc[t] \notin Locked \cup Expiring /\ pc'[t] \notin Locked \cup Expiring
      BY <1>4, <1>7 DEF Locked, Writing, Closing, Storing, Expiring
    <2>3. held'[t] = HeldAt(t)'
      BY <1>1, <1>4, <2>2, Zenon DEF HeldAt, IInv, Holds
    <2>4. Stable(t)'
      BY <1>7, ZenonT(30) DEF Stable, Closing
    <2> QED BY <2>1, <2>3, <2>4
  <1>13. \A q \in Proc : Framed(q)' /\ held'[q] = HeldAt(q)' /\ Stable(q)'
    BY <1>1, <1>2, <1>7, <1>10, <1>11, <1>12, Others, ZenonT(30)
  <1>14. Exclusion'
    BY <1>1 DEF IInv, Exclusion
  <1>15. Paired'
    <2> SUFFICES ASSUME NEW k \in Key, ttlKeys'[k] # Null, db'[k] = Null
                 PROVE  \E q \in Proc : Removing(q, k)'
      BY DEF Paired
    <2>1. k # Cur(p)
      BY <1>1, <1>2 DEF Stable
    <2>2. PICK q \in Proc : Removing(q, k)
      BY <1>1, <1>8, <2>1 DEF IInv, Paired
    <2>3. q # p /\ q # t
      BY <1>1, <1>4, <2>2 DEF Removing
    <2> QED BY <1>7, <2>2, <2>3 DEF Removing, Cur
  <1>16. TTLHasTimer'
    <2> SUFFICES ASSUME NEW k \in Key, ttlKeys'[k] # Null PROVE TimerOf(k)'
      BY DEF TTLHasTimer
    <2>1. CASE k = Cur(p)
      <3>1. ttlKeys'[k].cancel = t /\ ttlKeys'[k].value = fr[p].at /\ t \notin closed'
        BY <1>3, <1>8, <2>1
      <3>2. Head(fr'[t].todo) = k /\ fr'[t].at = fr[p].at
        BY <1>6, <1>7, <2>1
      <3> QED BY <1>7, <3>1, <3>2 DEF TimerOf, Cur
    <2>2. CASE k # Cur(p)
      <3>1. ttlKeys'[k] = ttlKeys[k] /\ ttlKeys[k] # Null /\ TimerOf(k)
        BY <1>8, <2>2 DEF IInv, TTLHasTimer
      <3>2. PICK u \in Task : u = ttlKeys[k].cancel
        BY <3>1, TimerKey
      <3>3. u \in Proc \ {p, t}
        BY <1>2, <1>4, <3>1, <3>2 DEF Proc
      <3>4. pc'[u] = pc[u] /\ fr'[u] = fr[u] /\ ttlKeys'[k].cancel = u /\ (u \in closed' => u \in closed)
        BY <1>3, <1>7, <3>1, <3>2, <3>3, Zenon
      <3> QED BY <3>1, <3>2, <3>4 DEF TimerOf, Cur
    <2> QED BY <2>1, <2>2
  <1>17. Due'
    <2>1. ASSUME NEW u \in Task, pc'[u] \in {"get", "compare"} PROVE fr'[u].at <= now'
      BY <1>1, <1>2, <1>7, <2>1 DEF IInv, Due, Proc
    <2>2. ASSUME NEW k \in Key, ttlKeys'[k] # Null, pc'[ttlKeys'[k].cancel] = "compare"
          PROVE  fr'[ttlKeys'[k].cancel].ttl = ttlKeys'[k]
      <3>1. k # Cur(p)
        BY <1>7, <1>8, <2>2
      <3>2. ttlKeys'[k] = ttlKeys[k] /\ ttlKeys[k].cancel \in Task /\ ttlKeys[k].cancel # t
        BY <1>4, <1>8, <2>2, <3>1, TimerKey
      <3>3. ttlKeys[k].cancel \in Proc \ {p, t}
        BY <1>2, <3>2, ZenonT(30) DEF Proc
      <3> QED BY <1>7, <2>2, <3>2, <3>3 DEF IInv, Due
    <2> QED BY <2>1, <2>2 DEF Due
  <1>18. IInv'
    BY <1>9, <1>13, <1>14, <1>15, <1>16, <1>17, ZenonT(30) DEF IInv, Frames, Holds, Reads
  <1> QED BY <1>1, <1>7, <1>10, <1>18 DEF Step, Guards
=============================================================================
