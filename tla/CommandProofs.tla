----------------------------- MODULE CommandProofs -----------------------------
(***************************************************************************)
(* The bodies of the commands preserve the invariant of KeyspaceProofs.    *)
(***************************************************************************)
EXTENDS CollectionCommands, KeyspaceProofs

USE ClientTaskDisjoint, GetKeyPosAssumption, NullAssumption

-----------------------------------------------------------------------------
(* The bodies of the commands *)

\* A body that ends by returning or by entering SetTTL or DelTTL, and writes
\* only values under its lock; it removes one only on the way to DelTTL.
LEMMA BodyStep ==
    ASSUME IInv, NEW p \in Client, pc[p] \in {"body", "write"}, NEW l \in {"unlock", "setttl", "delttl"},
           Goto(p, l), UNCHANGED <<now, ttlKeys, closed, held, fr>>, l = "unlock" \/ Op(p) \notin ReadOps,
           db' \in [Key -> Val \cup {Null}],
           \A k \in Key : db'[k] # db[k] =>
              /\ k \in LockKeys(p) /\ Op(p) \notin ReadOps
              /\ db'[k] # Null \/ (l = "delttl" /\ k = Cur(p))
    PROVE  Step(p)
  <1>1. pc[p] \in Locked /\ l \in Locked /\ l \notin {"body", "renamed", "write", "delttlclose"}
    BY DEF Locked, Writing, Storing
  <1>2. Moves(p, l, fr[p])
    BY <1>1, GotoMoves
  <1>3. FrameOK(p, l, fr[p])
    BY <1>1, StaysFramed
  <1>4. Stable(p)'
    BY <1>2 DEF Stable, Moves, Closing
  <1>5. closed' \subseteq Task /\ ttlKeys' \in [Key -> TTLInfo \cup {Null}]
    BY DEF IInv, TypeOK
  <1>6. ASSUME NEW k \in Key
        PROVE  \/ db'[k] # Null \/ Removing(p, k)'
               \/ ttlKeys'[k] = ttlKeys[k] /\ db'[k] = db[k] /\ ~Removing(p, k)
    <2>1. ~Removing(p, k)
      BY DEF Removing
    <2>2. l = "delttl" /\ k = Cur(p) => Removing(p, k)'
      BY <1>2 DEF Removing, Moves, Cur
    <2> QED BY <2>1, <2>2
  <1> QED BY <1>1, <1>2, <1>3, <1>4, <1>5, <1>6, LockedStep

LEMMA ReturnStep ==
    ASSUME IInv, NEW p \in Client, pc[p] \in {"body", "write"}, NEW l \in {"unlock", "setttl", "delttl"},
           Goto(p, l), UNCHANGED <<now, db, ttlKeys, closed, held, fr>>, l = "unlock" \/ Op(p) \notin ReadOps
    PROVE  Step(p)
  <1>1. db' \in [Key -> Val \cup {Null}]
    BY DEF IInv, TypeOK
  <1> QED BY <1>1, BodyStep

LEMMA PutStep ==
    ASSUME IInv, NEW p \in Client, pc[p] \in {"body", "write"}, NEW l \in {"unlock", "setttl", "delttl"},
           Goto(p, l), UNCHANGED <<now, ttlKeys, closed, held, fr>>, Op(p) \notin ReadOps,
           NEW v \in Val \cup {Null}, v # Null \/ l = "delttl", db' = [db EXCEPT ![Cur(p)] = v]
    PROVE  Step(p)
  <1>1. p \in Proc /\ pc[p] \in Locked
    BY DEF Proc, Locked, Writing
  <1>2. Cur(p) \in Key /\ Cur(p) \in LockKeys(p)
    BY <1>1, WriterHolds
  <1>3. db' \in [Key -> Val \cup {Null}]
    BY <1>2 DEF IInv, TypeOK
  <1>4. db'[Cur(p)] = v /\ \A k \in Key : db'[k] # db[k] => k = Cur(p)
    BY <1>2 DEF IInv, TypeOK
  <1> QED BY <1>2, <1>3, <1>4, BodyStep

LEMMA ReadStep == ASSUME IInv, NEW p \in Client, NEW ops, Read(p, ops) PROVE Step(p)
  BY ReturnStep DEF Read, At, data

LEMMA ReturnsStep == ASSUME IInv, NEW p \in Client, pc[p] = "body", Return(p) PROVE Step(p)
  BY ReturnStep DEF Return, data

LEMMA PutsStep ==
    ASSUME IInv, NEW p \in Client, pc[p] = "body", Op(p) \notin ReadOps, NEW v \in Val, Put(p, v)
    PROVE  Step(p)
  BY PutStep, Zenon DEF Put

LEMMA DropStep ==
    ASSUME IInv, NEW p \in Client, pc[p] = "body", Op(p) \notin ReadOps, Drop(p) PROVE Step(p)
  BY PutStep, Zenon DEF Drop

LEMMA CollectionIsVal ==
    \A type \in CollectionType, n \in {0, 1} : Collection(type, n) \in Val
  BY DEF Collection, Val, CollectionVal

LEMMA GrowStep ==
    ASSUME IInv, NEW p \in Client, NEW op, NEW type \in CollectionType, op \notin ReadOps,
           Grow(p, op, type) \/ GrowX(p, op, type)
    PROVE  Step(p)
  <1>1. pc[p] = "body" /\ Op(p) = op
    BY DEF Grow, GrowX, Body
  <1>2. CASE Put(p, Collection(type, 1))
    BY <1>1, <1>2, CollectionIsVal, PutsStep
  <1>3. CASE Return(p)
    BY <1>1, <1>3, ReturnsStep
  <1> QED BY <1>2, <1>3 DEF Grow, GrowX

LEMMA ShrinkStep ==
    ASSUME IInv, NEW p \in Client, NEW op, NEW type, op \notin ReadOps, Shrink(p, op, type) PROVE Step(p)
  <1>1. pc[p] = "body" /\ Op(p) = op
    BY DEF Shrink, Body
  <1> QED BY <1>1, DropStep, ReturnsStep DEF Shrink

LEMMA AtBody ==
    ASSUME IInv, NEW p \in Client, pc[p] = "body"
    PROVE  /\ p \in Proc /\ p \notin Task /\ pc[p] \in Locked /\ Framed(p) /\ fr[p] \in Frame
           /\ Cur(p) \in Key /\ CmdOK(fr[p].m) /\ fr[p].todo # <<>>
           /\ Op(p) \notin ReadOps => Cur(p) \in LockKeys(p)
           /\ \A k : ~Removing(p, k)
  <1>1. p \in Proc /\ p \notin Task /\ pc[p] \in Locked /\ pc[p] # "idle"
    BY DEF Proc, Locked
  <1>2. Framed(p) /\ fr[p] \in Frame
    BY <1>1 DEF IInv, Frames, TypeOK
  <1>3. CmdOK(fr[p].m) /\ fr[p].todo # <<>>
    BY <1>1, <1>2 DEF Framed, FrameOK
  <1> QED BY <1>1, <1>2, <1>3, CurKey, WriterHolds DEF IInv, Removing

LEMMA delKeyStep == ASSUME IInv, NEW p \in Client, delKey(p) PROVE Step(p)
  <1>1. /\ pc[p] = "body" /\ Op(p) = "del" /\ Op(p) \notin ReadOps /\ Goto(p, "unlock")
        /\ db' = [db EXCEPT ![Cur(p)] = Null] /\ ttlKeys' = [ttlKeys EXCEPT ![Cur(p)] = Null]
        /\ UNCHANGED <<now, closed, held, fr>>
    BY DEF delKey, Body, ReadOps
  <1>2. /\ pc[p] \in Locked /\ Cur(p) \in Key /\ Cur(p) \in LockKeys(p) /\ \A k : ~Removing(p, k)
    BY <1>1, AtBody
  <1>3. Moves(p, "unlock", fr[p]) /\ "unlock" \in Locked
    BY <1>1, GotoMoves DEF Locked
  <1>4. FrameOK(p, "unlock", fr[p])
    BY <1>1, <1>2, <1>3, StaysFramed
  <1>5. Stable(p)'
    BY <1>3 DEF Stable, Moves, Closing
  <1>6. /\ db' \in [Key -> Val \cup {Null}] /\ ttlKeys' \in [Key -> TTLInfo \cup {Null}]
        /\ closed' \subseteq Task
    BY <1>1, <1>2 DEF IInv, TypeOK
  <1>7. \A k \in Key : \/ k = Cur(p) /\ ttlKeys'[k] = Null
                       \/ k # Cur(p) /\ ttlKeys'[k] = ttlKeys[k] /\ db'[k] = db[k]
    BY <1>1, <1>2 DEF IInv, TypeOK
  <1>8. \A k \in Key : ttlKeys'[k] \in {ttlKeys[k], Null}
    BY <1>7
  <1> QED BY <1>1, <1>2, <1>3, <1>4, <1>5, <1>6, <1>7, <1>8, LockedStep

LEMMA renameKeyStep == ASSUME IInv, NEW p \in Client, renameKey(p) PROVE Step(p)
  <1>1. /\ pc[p] = "body" /\ Op(p) = "rename" /\ Op(p) \notin ReadOps /\ Op(p) \in MultiOps
        /\ UNCHANGED <<now, closed, held>>
    BY DEF renameKey, Body, ReadOps, MultiOps
  <1>2. /\ p \in Proc /\ pc[p] \in Locked /\ Cur(p) \in Key /\ Cur(p) \in LockKeys(p)
        /\ \A k : ~Removing(p, k)
        /\ Framed(p) /\ fr[p] \in Frame /\ CmdOK(fr[p].m) /\ p \notin Task
    BY <1>1, AtBody
  <1>3. CASE db[Cur(p)] = Null
    BY <1>1, <1>3, ReturnStep DEF renameKey
  <1>4. CASE db[Cur(p)] # Null
    <2> DEFINE f == [fr[p] EXCEPT !.old = db[Cur(p)], !.todo = Tail(fr[p].todo)]
    <2>1. /\ db' = [db EXCEPT ![Cur(p)] = Null] /\ ttlKeys' = [ttlKeys EXCEPT ![Cur(p)] = Null]
          /\ fr' = [fr EXCEPT ![p].old = db[Cur(p)], ![p].todo = Tail(@)] /\ pc' = [pc EXCEPT ![p] = "renamed"]
      BY <1>4 DEF renameKey, Goto
    <2>2. /\ fr[p].todo = fr[p].m.keys /\ fr[p].todo \in Seq(Key) /\ Len(fr[p].todo) = 2 /\ fr[p].todo # <<>>
          /\ db[Cur(p)] \in Val
      BY <1>1, <1>2, <1>4 DEF Framed, FrameOK, CmdOK, Op, Frame, IInv, TypeOK
    <2>3. /\ Tail(fr[p].todo) \in Seq(Key) /\ Tail(fr[p].todo) # <<>>
          /\ \A i \in 1 .. Len(Tail(fr[p].todo)) :
                i + 1 \in 1 .. Len(fr[p].todo) /\ Tail(fr[p].todo)[i] = fr[p].todo[i + 1]
      <3>1. fr[p].todo \in Seq(Key) /\ fr[p].todo # <<>> /\ Len(fr[p].todo) # 1
        BY <2>2
      <3> QED BY <3>1, TailKeys, Zenon
    <2>4. f \in Frame /\ f.m = fr[p].m /\ f.todo = Tail(fr[p].todo) /\ f.old = db[Cur(p)]
      BY <1>2, <2>2, <2>3, Zenon DEF Frame
    <2>5. Moves(p, "renamed", f) /\ "renamed" \in Locked
      BY <1>2, <2>1, <2>4 DEF Moves, IInv, TypeOK, Label, Locked, Writing
    <2>6. FrameOK(p, "renamed", f)
      <3>1. "renamed" \notin Unlocked \cup Expiring \cup {"body"}
        BY DEF Unlocked, Expiring
      <3>2. Op(p) \notin MoveOps /\ Op(p) # "timer"
        BY <1>1 DEF MoveOps
      <3>3. \A i \in 1 .. Len(f.todo) : \E j \in 1 .. Len(f.m.keys) : f.todo[i] = f.m.keys[j]
        BY <2>2, <2>3, <2>4, ZenonT(30)
      <3> HIDE DEF f
      <3> QED BY <1>1, <1>2, <1>4, <2>3, <2>4, <3>1, <3>2, <3>3, Zenon DEF FrameOK, Op
    <2>7. Stable(p)'
      BY <2>5 DEF Stable, Moves, Closing
    <2>8. /\ db' \in [Key -> Val \cup {Null}] /\ ttlKeys' \in [Key -> TTLInfo \cup {Null}]
          /\ closed' \subseteq Task
      BY <1>1, <1>2, <2>1 DEF IInv, TypeOK
    <2>9. \A k \in Key : \/ k = Cur(p) /\ ttlKeys'[k] = Null
                         \/ k # Cur(p) /\ ttlKeys'[k] = ttlKeys[k] /\ db'[k] = db[k]
      BY <1>2, <2>1 DEF IInv, TypeOK
    <2>10. \A k \in Key : ttlKeys'[k] \in {ttlKeys[k], Null}
      BY <2>9
    <2> HIDE DEF f
    <2> QED BY <1>1, <1>2, <2>4, <2>5, <2>6, <2>7, <2>8, <2>9, <2>10, LockedStep
  <1> QED BY <1>3, <1>4

LEMMA renameSetStep == ASSUME IInv, NEW p \in Client, renameSet(p) PROVE Step(p)
  <1>1. /\ pc[p] = "renamed" /\ pc[p] \in Writing /\ Goto(p, "unlock")
        /\ db' = [db EXCEPT ![Cur(p)] = fr[p].old] /\ ttlKeys' = [ttlKeys EXCEPT ![Cur(p)] = Null]
        /\ UNCHANGED <<now, closed, held, fr>>
    BY DEF renameSet, At, Writing
  <1>2. /\ pc[p] \in Locked /\ Cur(p) \in Key /\ Cur(p) \in LockKeys(p) /\ Op(p) \notin ReadOps
        /\ fr[p] \in Frame /\ Framed(p)
    BY <1>1, AtWriting
  <1>3. Moves(p, "unlock", fr[p]) /\ "unlock" \in Locked
    BY <1>1, GotoMoves DEF Locked
  <1>4. FrameOK(p, "unlock", fr[p])
    BY <1>2, <1>3, StaysFramed
  <1>5. Stable(p)'
    BY <1>3 DEF Stable, Moves, Closing
  <1>6. fr[p].old \in Val
    BY <1>1, <1>2 DEF Framed, FrameOK, Frame
  <1>7. /\ db' \in [Key -> Val \cup {Null}] /\ ttlKeys' \in [Key -> TTLInfo \cup {Null}]
        /\ closed' \subseteq Task
    BY <1>1, <1>2, <1>6 DEF IInv, TypeOK
  <1>8. \A k \in Key : \/ k = Cur(p) /\ ttlKeys'[k] = Null
                       \/ k # Cur(p) /\ ttlKeys'[k] = ttlKeys[k] /\ db'[k] = db[k]
    BY <1>1, <1>2 DEF IInv, TypeOK
  <1>9. /\ \A k \in Key : ttlKeys'[k] \in {ttlKeys[k], Null}
        /\ \A k : ~Removing(p, k)
    BY <1>1, <1>8 DEF Removing
  <1> QED BY <1>1, <1>2, <1>3, <1>4, <1>5, <1>7, <1>8, <1>9, LockedStep

LEMMA KeyCommandStep == ASSUME IInv, NEW p \in Client, KeyCommand(p) PROVE Step(p)
  <1>1. CASE existsKey(p) \/ ttlKey(p) \/ typeKey(p)
    BY <1>1, ReadStep DEF existsKey, ttlKey, typeKey
  <1>2. CASE expireKey(p)
    <2>1. pc[p] = "body" /\ Op(p) \notin ReadOps /\ UNCHANGED <<now, db, ttlKeys, closed, held, fr>>
      BY <1>2 DEF expireKey, Body, ReadOps, data
    <2>2. PICK l \in {"setttl", "unlock"} : Goto(p, l)
      BY <1>2 DEF expireKey
    <2> QED BY <2>1, <2>2, ReturnStep
  <1>3. CASE persistKey(p)
    <2>1. /\ pc[p] = "body" /\ Op(p) \notin ReadOps /\ Goto(p, "delttl")
          /\ UNCHANGED <<now, db, ttlKeys, closed, held, fr>>
      BY <1>3 DEF persistKey, Body, ReadOps, data
    <2> QED BY <2>1, ReturnStep
  <1> QED BY <1>1, <1>2, <1>3, delKeyStep, renameKeyStep, renameSetStep DEF KeyCommand

-----------------------------------------------------------------------------

LEMMA StringIsVal == StringVal \subseteq Val
  BY DEF Val

LEMMA setStringStep == ASSUME IInv, NEW p \in Client, setString(p) PROVE Step(p)
  <1>1. /\ pc[p] = "body" /\ Op(p) \notin ReadOps /\ UNCHANGED <<now, ttlKeys, closed, held, fr>>
    BY DEF setString, Body, ReadOps
  <1>2. PICK l \in {"unlock", "setttl", "delttl"} : Goto(p, l)
    BY DEF setString, AfterSet
  <1>3. UNCHANGED db \/ \E v \in Val : db' = [db EXCEPT ![Cur(p)] = v]
    BY StringIsVal DEF setString
  <1>4. CASE UNCHANGED db
    BY <1>1, <1>2, <1>4, ReturnStep
  <1>5. CASE \E v \in Val : db' = [db EXCEPT ![Cur(p)] = v]
    BY <1>1, <1>2, <1>5, PutStep, ZenonT(30)
  <1> QED BY <1>3, <1>4, <1>5

LEMMA WriteStringStep ==
    ASSUME IInv, NEW p \in Client, NEW op, op \notin ReadOps,
           ExtendString(p, op) \/ (op = "setnx" /\ setNxString(p)) \/ (op = "setex" /\ setExString(p))
    PROVE  Step(p)
  <1>1. /\ pc[p] = "body" /\ Op(p) \notin ReadOps /\ UNCHANGED <<now, ttlKeys, closed, held, fr>>
    BY DEF ExtendString, setNxString, setExString, Body
  <1>2. PICK l \in {"unlock", "setttl"} : Goto(p, l)
    BY DEF ExtendString, setNxString, setExString
  <1>3. UNCHANGED db \/ \E v \in Val : db' = [db EXCEPT ![Cur(p)] = v]
    BY StringIsVal DEF ExtendString, setNxString, setExString
  <1>4. CASE UNCHANGED db
    BY <1>1, <1>2, <1>4, ReturnStep
  <1>5. CASE \E v \in Val : db' = [db EXCEPT ![Cur(p)] = v]
    BY <1>1, <1>2, <1>5, PutStep, ZenonT(30)
  <1> QED BY <1>3, <1>4, <1>5

LEMMA mSetWriteStep == ASSUME IInv, NEW p \in Client, mSetWrite(p) PROVE Step(p)
  <1>1. /\ pc[p] = "write" /\ pc[p] \in Writing /\ Op(p) = "mset" /\ Op(p) \in MultiOps
        /\ UNCHANGED <<now, ttlKeys, closed, held>>
    BY DEF mSetWrite, At, Writing, MultiOps
  <1>2. /\ p \in Proc /\ p \notin Task /\ pc[p] \in Locked /\ Cur(p) \in Key /\ Cur(p) \in LockKeys(p)
        /\ Op(p) \notin ReadOps /\ fr[p] \in Frame /\ Framed(p) /\ pc[p] # "idle"
    BY <1>1, AtWriting
  <1>3. PICK v \in Val : db' = [db EXCEPT ![Cur(p)] = v]
    BY StringIsVal, Zenon DEF mSetWrite
  <1>4. CASE Len(fr[p].todo) = 1
    BY <1>1, <1>2, <1>3, <1>4, PutStep, ZenonT(30) DEF mSetWrite
  <1>5. CASE Len(fr[p].todo) # 1
    <2> DEFINE f == [fr[p] EXCEPT !.todo = Tail(fr[p].todo)]
    <2>1. fr[p].todo \in Seq(Key) /\ fr[p].todo # <<>> /\ CmdOK(fr[p].m)
      BY <1>2 DEF Framed, FrameOK, Frame
    <2>2. /\ Tail(fr[p].todo) \in Seq(Key) /\ Tail(fr[p].todo) # <<>>
          /\ \A i \in 1 .. Len(Tail(fr[p].todo)) :
                i + 1 \in 1 .. Len(fr[p].todo) /\ Tail(fr[p].todo)[i] = fr[p].todo[i + 1]
      BY <1>5, <2>1, TailKeys
    <2>3. f \in Frame /\ f.m = fr[p].m /\ f.todo = Tail(fr[p].todo)
      BY <1>2, <2>2, ZenonT(30) DEF Frame
    <2>4. Moves(p, "delttl", f) /\ "delttl" \in Locked
      <3>1. pc' = [pc EXCEPT ![p] = "delttl"] /\ fr' = [fr EXCEPT ![p].todo = Tail(fr[p].todo)]
        BY <1>2, <1>5 DEF mSetWrite, Goto, IInv, TypeOK
      <3>2. "delttl" \in Locked /\ "delttl" \in Label
        BY DEF Locked, Writing, Label
      <3> QED BY <1>2, <2>3, <3>1, <3>2 DEF Moves, IInv, TypeOK
    <2>5. \A i \in 1 .. Len(Tail(fr[p].todo)) :
             \E j \in 1 .. Len(fr[p].m.keys) : Tail(fr[p].todo)[i] = fr[p].m.keys[j]
      BY <1>1, <1>2, <2>2 DEF Framed, FrameOK, Op
    <2>6. FrameOK(p, "delttl", f)
      <3>1. Op(p) \notin MoveOps /\ Op(p) # "timer" /\ Op(p) # "rename"
        BY <1>1 DEF MoveOps
      <3> HIDE DEF f
      <3> QED BY <1>1, <1>2, <2>1, <2>2, <2>3, <2>5, <3>1, ZenonT(30) DEF FrameOK, Op
    <2>7. Stable(p)'
      BY <2>4 DEF Stable, Moves, Closing
    <2>8. /\ db' \in [Key -> Val \cup {Null}] /\ ttlKeys' \in [Key -> TTLInfo \cup {Null}]
          /\ closed' \subseteq Task
      BY <1>1, <1>2, <1>3 DEF IInv, TypeOK
    <2>9. \A k \in Key : \/ k = Cur(p) /\ db'[k] # Null
                         \/ k # Cur(p) /\ db'[k] = db[k]
      BY <1>2, <1>3 DEF IInv, TypeOK
    <2>10. \A k : ~Removing(p, k)
      BY <1>1 DEF Removing
    <2> HIDE DEF f
    <2> QED BY <1>1, <1>2, <2>3, <2>4, <2>6, <2>7, <2>8, <2>9, <2>10, LockedStep, ZenonT(30)
  <1> QED BY <1>4, <1>5

LEMMA ReadIntStep ==
    ASSUME IInv, NEW p \in Client, NEW op \in Increment, ReadInt(p, op)
    PROVE  Step(p)
  <1>1. /\ pc[p] = "body" /\ Op(p) = op /\ Op(p) \notin ReadOps
        /\ UNCHANGED <<now, db, ttlKeys, closed, held>>
    BY DEF ReadInt, Body, ReadOps, Increment, data
  <1>2. /\ p \in Proc /\ pc[p] \in Locked /\ Cur(p) \in Key /\ Cur(p) \in LockKeys(p)
        /\ fr[p] \in Frame /\ \A k : ~Removing(p, k)
    BY <1>1, AtBody
  <1>3. CASE Goto(p, "unlock") /\ UNCHANGED fr
    BY <1>1, <1>3, ReturnStep, ZenonT(30)
  <1>4. CASE Goto(p, "write") /\ fr' = [fr EXCEPT ![p].old = db[Cur(p)]]
    <2> DEFINE f == [fr[p] EXCEPT !.old = db[Cur(p)]]
    <2>1. db[Cur(p)] \in Val \cup {Null}
      BY <1>2 DEF IInv, TypeOK
    <2>2. f \in Frame /\ f.m = fr[p].m /\ f.todo = fr[p].todo /\ f.old = db[Cur(p)]
      BY <1>2, <2>1 DEF Frame
    <2>3. Moves(p, "write", f) /\ "write" \in Locked
      BY <1>2, <1>4, <2>2 DEF Goto, Moves, IInv, TypeOK, Label, Locked, Writing
    <2>4. FrameOK(p, "write", f)
      BY <1>1, <1>2, <2>2, <2>3, StaysFramed, Zenon
    <2>5. Cur(p)' = Cur(p) /\ fr'[p].old = db[Cur(p)] /\ pc'[p] = "write"
      BY <2>2, <2>3 DEF Cur, Moves
    <2>6. Stable(p)'
      BY <1>1, <2>5 DEF Stable, Closing
    <2>7. /\ db' \in [Key -> Val \cup {Null}] /\ ttlKeys' \in [Key -> TTLInfo \cup {Null}]
          /\ closed' \subseteq Task
      BY <1>1 DEF IInv, TypeOK
    <2> HIDE DEF f
    <2> QED BY <1>1, <1>2, <2>2, <2>3, <2>4, <2>6, <2>7, LockedStep
  <1> QED BY <1>3, <1>4 DEF ReadInt

LEMMA WriteIntStep ==
    ASSUME IInv, NEW p \in Client, NEW op \in Increment, NEW deltas \in SUBSET Int, WriteInt(p, op, deltas)
    PROVE  Step(p)
  <1>1. /\ pc[p] = "write" /\ pc[p] \in Writing /\ Op(p) = op /\ Op(p) \notin ReadOps /\ Goto(p, "unlock")
        /\ UNCHANGED <<now, ttlKeys, closed, held, fr>>
    BY DEF WriteInt, At, Writing, ReadOps, Increment
  <1>2. fr[p] \in Frame /\ fr[p].old \in Val \cup {Null}
    BY <1>1, AtWriting DEF Frame
  <1>3. PICK n \in Int : n = IF fr[p].old = Null THEN 0 ELSE fr[p].old.n
    BY <1>2 DEF Val, StringVal, CollectionVal
  <1>4. PICK d \in deltas : db' = [db EXCEPT ![Cur(p)] = String(Wrap(n + d))]
    BY <1>3, Zenon DEF WriteInt
  <1>5. Wrap(n + d) \in 0 .. IntRange - 1
    BY NumbersAssumption DEF Wrap
  <1>6. String(Wrap(n + d)) \in Val
    BY <1>5 DEF String, Val, StringVal
  <1> QED BY <1>1, <1>4, <1>6, PutStep, ZenonT(30)

LEMMA StringCommandStep == ASSUME IInv, NEW p \in Client, StringCommand(p) PROVE Step(p)
  <1>1. CASE getString(p) \/ getRangeString(p) \/ mGetString(p) \/ strLenString(p)
    BY <1>1, ReadStep DEF getString, getRangeString, mGetString, strLenString
  <1>2. CASE setExString(p) \/ setNxString(p)
    <2>1. "setex" \notin ReadOps /\ "setnx" \notin ReadOps
      BY DEF ReadOps
    <2> QED BY <1>2, <2>1, WriteStringStep
  <1>3. CASE setRangeString(p) \/ appendString(p) \/ incrByFloatString(p)
    <2>1. {"setrange", "append", "incrbyfloat"} \cap ReadOps = {}
      BY DEF ReadOps
    <2>2. PICK op \in {"setrange", "append", "incrbyfloat"} : ExtendString(p, op)
      BY <1>3 DEF setRangeString, appendString, incrByFloatString
    <2> QED BY <2>1, <2>2, WriteStringStep
  <1>4. CASE mSetString(p)
    <2>1. /\ pc[p] = "body" /\ Op(p) \notin ReadOps /\ Goto(p, "delttl")
          /\ UNCHANGED <<now, db, ttlKeys, closed, held, fr>>
      BY <1>4 DEF mSetString, Body, ReadOps, data
    <2> QED BY <2>1, ReturnStep
  <1>5. CASE incrString(p) \/ decrString(p) \/ incrByString(p) \/ decrByString(p)
    <2>1. PICK op \in Increment, deltas \in SUBSET Int : ReadInt(p, op) \/ WriteInt(p, op, deltas)
      <3>1. AnyInt \in SUBSET Int /\ {1} \in SUBSET Int /\ {-1} \in SUBSET Int
        BY DEF AnyInt
      <3> QED BY <1>5, <3>1 DEF incrString, decrString, incrByString, decrByString, Increment
    <2> QED BY <2>1, ReadIntStep, WriteIntStep
  <1> QED BY <1>1, <1>2, <1>3, <1>4, <1>5, setStringStep, mSetWriteStep DEF StringCommand

-----------------------------------------------------------------------------

\* LMOVE and SMOVE visit their keys in the order they lock them.
LEMMA AtMove ==
    ASSUME IInv, NEW p \in Client, pc[p] = "body", Op(p) \in MoveOps
    PROVE  /\ Op(p) \notin ReadOps /\ fr[p].m.keys[1] \in Key /\ fr[p].m.keys[2] \in Key
           /\ Cur(p) = fr[p].m.keys[1]
           /\ fr[p].m.keys[1] \in LockKeys(p) /\ fr[p].m.keys[2] \in LockKeys(p)
  <1>1. Framed(p) /\ fr[p] \in Frame /\ CmdOK(fr[p].m)
    BY AtBody
  <1>2. Op(p) \notin ReadOps /\ Op(p) \in MultiOps
    BY DEF MoveOps, ReadOps, MultiOps
  <1>3. fr[p].todo = fr[p].m.keys /\ fr[p].m.keys \in Seq(Key) /\ Len(fr[p].m.keys) = 2
    BY <1>1 DEF Framed, FrameOK, Locked, CmdOK, Op, Frame, Cmd
  <1>4. /\ fr[p].m.keys[1] \in Key /\ fr[p].m.keys[2] \in Key /\ Cur(p) = fr[p].m.keys[1]
        /\ 1 \in DOMAIN fr[p].m.keys /\ 2 \in DOMAIN fr[p].m.keys
    <2>1. \A s \in Seq(Key) : Len(s) = 2 =>
             /\ s[1] \in Key /\ s[2] \in Key /\ Head(s) = s[1] /\ 1 \in DOMAIN s /\ 2 \in DOMAIN s
      <3> SUFFICES ASSUME NEW s \in Seq(Key), Len(s) = 2
                   PROVE  s[1] \in Key /\ s[2] \in Key /\ Head(s) = s[1] /\ 1 \in DOMAIN s /\ 2 \in DOMAIN s
        OBVIOUS
      <3>1. s \in [1 .. Len(s) -> Key]
        BY KeySeqFunction, ZenonT(30)
      <3>2. DOMAIN s = 1 .. 2 /\ 1 \in 1 .. 2 /\ 2 \in 1 .. 2 /\ s \in [1 .. 2 -> Key]
        BY <3>1
      <3>3. s[1] \in Key /\ s[2] \in Key
        BY <3>2, Zenon
      <3>4. s # <<>>
        <4>1. Len(<<>>) = 0
          OBVIOUS
        <4>2. s = <<>> => Len(s) = 0
          BY <4>1, Zenon
        <4> QED BY <4>2
      <3> QED BY <3>2, <3>3, <3>4, HeadKey
    <2>2. Cur(p) = Head(fr[p].m.keys)
      BY <1>3 DEF Cur
    <2> QED BY <1>3, <2>1, <2>2
  <1> QED BY <1>2, <1>4 DEF LockKeys

LEMMA lMoveStep == ASSUME IInv, NEW p \in Client, lMoveList(p) PROVE Step(p)
  <1> DEFINE src == fr[p].m.keys[1]
             des == fr[p].m.keys[2]
  <1>1. pc[p] = "body" /\ Op(p) = "lmove" /\ Op(p) \in MoveOps
    BY ZenonT(30) DEF lMoveList, Body, MoveOps
  <1>2. /\ Op(p) \notin ReadOps /\ src \in Key /\ des \in Key /\ Cur(p) = src
        /\ src \in LockKeys(p) /\ des \in LockKeys(p)
    BY <1>1, AtMove
  <1>3. CASE Return(p)
    BY <1>1, <1>3, ReturnsStep
  <1>4. CASE Drop(p)
    BY <1>1, <1>2, <1>4, DropStep
  <1>5. ASSUME NEW n \in {0, 1}, src = des => n = 1,
               db' = [db EXCEPT ![src] = IF n = 0 THEN Null ELSE @, ![des] = Collection("list", 1)],
               Goto(p, IF n = 0 THEN "delttl" ELSE "unlock"),
               UNCHANGED <<now, ttlKeys, closed, held, fr>>
        PROVE  Step(p)
    <2>1. Collection("list", 1) \in Val
      BY CollectionIsVal DEF CollectionType
    <2>2. PICK l \in {"unlock", "setttl", "delttl"} : l = IF n = 0 THEN "delttl" ELSE "unlock"
      BY <1>5, ZenonT(30)
    <2>3. db' \in [Key -> Val \cup {Null}]
      BY <1>2, <1>5, <2>1, ZenonT(30) DEF IInv, TypeOK
    <2>4. \A k \in Key : db'[k] # db[k] => (k = des /\ db'[k] \in Val) \/ (k = src /\ n = 0)
      BY <1>2, <1>5, <2>1, ZenonT(30) DEF IInv, TypeOK
    <2> HIDE DEF src, des
    <2> QED BY <1>1, <1>2, <1>5, <2>2, <2>3, <2>4, BodyStep
  <1>6. \/ Return(p) \/ Drop(p)
        \/ \E n \in IF src = des THEN {1} ELSE {0, 1} :
              /\ db' = [db EXCEPT ![src] = IF n = 0 THEN Null ELSE @, ![des] = Collection("list", 1)]
              /\ Goto(p, IF n = 0 THEN "delttl" ELSE "unlock")
              /\ UNCHANGED <<now, ttlKeys, closed, held, fr>>
    BY ZenonT(30) DEF lMoveList
  <1> HIDE DEF src, des
  <1> QED BY <1>3, <1>4, <1>5, <1>6, ZenonT(30)

LEMMA sMoveStep == ASSUME IInv, NEW p \in Client, sMoveSet(p) PROVE Step(p)
  <1> DEFINE src == fr[p].m.keys[2]
             des == fr[p].m.keys[1]
  <1>1. pc[p] = "body" /\ Op(p) = "smove" /\ Op(p) \in MoveOps
    BY ZenonT(30) DEF sMoveSet, Body, MoveOps
  <1>2. /\ Op(p) \notin ReadOps /\ src \in Key /\ des \in Key
        /\ src \in LockKeys(p) /\ des \in LockKeys(p)
    BY <1>1, AtMove
  <1>3. CASE Return(p)
    BY <1>1, <1>3, ReturnsStep
  <1>4. ASSUME NEW n \in {0, 1},
               db' = [db EXCEPT ![src] = Collection("set", n), ![des] = Collection("set", 1)],
               Goto(p, "unlock"), UNCHANGED <<now, ttlKeys, closed, held, fr>>
        PROVE  Step(p)
    <2>1. Collection("set", 1) \in Val /\ Collection("set", n) \in Val
      BY CollectionIsVal, ZenonT(30) DEF CollectionType
    <2>2. db' \in [Key -> Val \cup {Null}]
      BY <1>2, <1>4, <2>1, ZenonT(30) DEF IInv, TypeOK
    <2>3. \A k \in Key : db'[k] # db[k] => k \in {src, des} /\ db'[k] \in Val
      BY <1>2, <1>4, <2>1 DEF IInv, TypeOK
    <2> HIDE DEF src, des
    <2> QED BY <1>1, <1>2, <1>4, <2>2, <2>3, BodyStep
  <1> QED BY <1>3, <1>4, ZenonT(30) DEF sMoveSet

LEMMA bXPopListStep == ASSUME IInv, NEW p \in Client, bXPopList(p) PROVE Step(p)
  <1>1. /\ pc[p] = "body" /\ Op(p) = "blpop" /\ Op(p) \notin ReadOps
    BY DEF bXPopList, Body, ReadOps
  <1>2. /\ p \in Proc /\ pc[p] \in Locked /\ Cur(p) \in Key /\ Cur(p) \in LockKeys(p)
        /\ fr[p] \in Frame /\ \A k : ~Removing(p, k)
    BY <1>1, AtBody
  <1>3. CASE Return(p)
    BY <1>1, <1>3, ReturnsStep
  <1>4. ASSUME Is("list", Cur(p)), NEW n \in {0, 1}, db' = [db EXCEPT ![Cur(p)].n = n],
               fr' = [fr EXCEPT ![p].old = db[Cur(p)]], Goto(p, "unlock"),
               UNCHANGED <<now, ttlKeys, closed, held>>
        PROVE  Step(p)
    <2> DEFINE f == [fr[p] EXCEPT !.old = db[Cur(p)]]
    <2>1. db[Cur(p)] \in Val /\ db[Cur(p)].type = "list"
      BY <1>2, <1>4 DEF IInv, TypeOK, Is
    <2>2. f \in Frame /\ f.m = fr[p].m /\ f.todo = fr[p].todo
      BY <1>2, <2>1 DEF Frame
    <2>3. Moves(p, "unlock", f) /\ "unlock" \in Locked
      <3>1. "unlock" \in Locked /\ "unlock" \in Label
        BY DEF Locked, Label
      <3> QED BY <1>2, <1>4, <2>2, <3>1 DEF Goto, Moves, IInv, TypeOK
    <2>4. FrameOK(p, "unlock", f)
      BY <1>1, <1>2, <2>2, <2>3, StaysFramed, Zenon
    <2>5. Stable(p)'
      BY <2>3 DEF Stable, Moves, Closing
    <2>6. [db[Cur(p)] EXCEPT !.n = n] \in Val
      BY <2>1, <1>4 DEF Val, StringVal, CollectionVal, CollectionType
    <2>7. /\ db' \in [Key -> Val \cup {Null}] /\ ttlKeys' \in [Key -> TTLInfo \cup {Null}]
          /\ closed' \subseteq Task
      BY <1>2, <1>4, <2>6 DEF IInv, TypeOK
    <2>8. \A k \in Key : \/ k = Cur(p) /\ db'[k] # Null
                         \/ k # Cur(p) /\ db'[k] = db[k]
      BY <1>2, <1>4, <2>6 DEF IInv, TypeOK
    <2> HIDE DEF f
    <2> QED BY <1>1, <1>2, <1>4, <2>2, <2>3, <2>4, <2>5, <2>7, <2>8, LockedStep
  <1> QED BY <1>3, <1>4 DEF bXPopList

LEMMA bXPopSelectStep == ASSUME IInv, NEW p \in Client, bXPopSelect(p) PROVE Step(p)
  <1>1. /\ pc[p] = "poll" /\ pc[p] \in Unlocked /\ UNCHANGED data /\ p \in Proc /\ p \notin Task
    BY DEF bXPopSelect, At, Unlocked, Proc
  <1>2. TimerKeeps(p)
    BY <1>1 DEF TimerKeeps
  <1>3. CASE Finish(p)
    BY <1>1, <1>2, <1>3, FinishMoves, UnlockedStep DEF IInv, Unlocked
  <1>4. CASE Goto(p, "lock") /\ fr' = [fr EXCEPT ![p].todo = fr[p].m.keys]
    <2> DEFINE f == [fr[p] EXCEPT !.todo = fr[p].m.keys]
    <2>1. Framed(p) /\ fr[p] \in Frame
      BY <1>1, ZenonT(30) DEF IInv, Frames, TypeOK
    <2>2. CmdOK(fr[p].m) /\ fr[p].m.op # "timer" /\ fr[p].m.keys \in Seq(Key) /\ fr[p].m.keys # <<>>
      BY <1>1, <2>1 DEF Framed, FrameOK, CmdOK, Cmd
    <2>3. f \in Frame /\ f.m = fr[p].m /\ f.todo = fr[p].m.keys
      BY <2>1, <2>2 DEF Frame
    <2>4. "lock" \in Label /\ "lock" \in Unlocked
      BY DEF Label, Unlocked
    <2>5. Moves(p, "lock", f)
      BY <1>1, <1>4, <2>3, <2>4 DEF Goto, Moves, IInv, TypeOK
    <2>6. FrameOK(p, "lock", f)
      <3> HIDE DEF f
      <3> QED BY <1>1, <2>2, <2>3 DEF FrameOK, Locked, Writing, Closing, Storing
    <2> QED BY <1>1, <1>2, <2>4, <2>5, <2>6, UnlockedStep
  <1> QED BY <1>3, <1>4 DEF bXPopSelect

LEMMA ListCommandStep == ASSUME IInv, NEW p \in Client, ListCommand(p) PROVE Step(p)
  <1>1. CASE lLenIndexPosList(p) \/ lRangeList(p)
    BY <1>1, ReadStep DEF lLenIndexPosList, lRangeList
  <1>2. CASE lPopList(p) \/ rPopList(p) \/ lTrimList(p)
    <2>1. {"lpop", "rpop", "ltrim"} \cap ReadOps = {}
      BY DEF ReadOps
    <2>2. PICK op \in {"lpop", "rpop", "ltrim"} : Shrink(p, op, "list")
      BY <1>2 DEF lPopList, rPopList, lTrimList
    <2> QED BY <2>1, <2>2, ShrinkStep
  <1>3. CASE lPushList(p) \/ lPushXList(p) \/ rPushList(p) \/ rPushXList(p)
    <2>1. {"lpush", "lpushx", "rpush", "rpushx"} \cap ReadOps = {} /\ "list" \in CollectionType
      BY DEF ReadOps, CollectionType
    <2>2. PICK op \in {"lpush", "lpushx", "rpush", "rpushx"} : Grow(p, op, "list") \/ GrowX(p, op, "list")
      BY <1>3 DEF lPushList, lPushXList, rPushList, rPushXList
    <2> QED BY <2>1, <2>2, GrowStep
  <1>4. CASE lSetList(p)
    BY <1>4, ReturnsStep DEF lSetList, Body
  <1>5. CASE lRemList(p)
    <2>1. pc[p] = "body" /\ Op(p) \notin ReadOps /\ (Drop(p) \/ Return(p))
      BY <1>5 DEF lRemList, Body, ReadOps
    <2> QED BY <2>1, DropStep, ReturnsStep
  <1> QED BY <1>1, <1>2, <1>3, <1>4, <1>5, lMoveStep, bXPopListStep, bXPopSelectStep DEF ListCommand

LEMMA SetCommandStep == ASSUME IInv, NEW p \in Client, SetCommand(p) PROVE Step(p)
  <1>1. CASE sCardSet(p) \/ sIsMemberMembersSet(p) \/ sRandMemberSet(p)
    BY <1>1, ReadStep DEF sCardSet, sIsMemberMembersSet, sRandMemberSet
  <1>2. CASE sAddSet(p)
    <2>1. "sadd" \notin ReadOps /\ "set" \in CollectionType
      BY DEF ReadOps, CollectionType
    <2> QED BY <1>2, <2>1, GrowStep DEF sAddSet
  <1>3. CASE sRemSet(p) \/ sPopSet(p)
    <2>1. {"srem", "spop"} \cap ReadOps = {}
      BY DEF ReadOps
    <2>2. CASE \E op \in {"srem", "spop"} : Shrink(p, op, "set")
      BY <2>1, <2>2, ShrinkStep
    <2>3. CASE pc[p] = "body" /\ Return(p)
      BY <2>3, ReturnsStep
    <2> QED BY <1>3, <2>2, <2>3 DEF sRemSet, sPopSet, Body
  <1> QED BY <1>1, <1>2, <1>3, sMoveStep DEF SetCommand

LEMMA HashCommandStep == ASSUME IInv, NEW p \in Client, HashCommand(p) PROVE Step(p)
  <1>1. CASE hExistsGetGetAllHash(p) \/ hKeysLenMGetHash(p) \/ hValsStrLenRandFieldHash(p)
    BY <1>1, ReadStep DEF hExistsGetGetAllHash, hKeysLenMGetHash, hValsStrLenRandFieldHash
  <1>2. CASE hIncrByHash(p) \/ hIncrByFloatHash(p) \/ hSetHash(p) \/ hSetNxHash(p)
    <2>1. {"hincrby", "hincrbyfloat", "hset", "hsetnx"} \cap ReadOps = {} /\ "hash" \in CollectionType
      BY DEF ReadOps, CollectionType
    <2>2. PICK op \in {"hincrby", "hincrbyfloat", "hset", "hsetnx"} : Grow(p, op, "hash")
      BY <1>2 DEF hIncrByHash, hIncrByFloatHash, hSetHash, hSetNxHash
    <2> QED BY <2>1, <2>2, GrowStep
  <1>3. CASE hDelHash(p)
    <2>1. "hdel" \notin ReadOps
      BY DEF ReadOps
    <2> QED BY <1>3, <2>1, ShrinkStep DEF hDelHash
  <1> QED BY <1>1, <1>2, <1>3 DEF HashCommand

LEMMA SortedSetStreamStep ==
    ASSUME IInv, NEW p \in Client, SortedSetCommand(p) \/ StreamCommand(p) PROVE Step(p)
  <1>1. pc[p] = "body" /\ Op(p) \notin ReadOps
    BY DEF SortedSetCommand, StreamCommand, zadd, zrange, zrank, zrem, xadd, xrange, Body, ReadOps
  <1>2. db[Cur(p)] \in Val \cup {Null}
    BY <1>1, AtBody DEF IInv, TypeOK
  <1>3. Is("zset", Cur(p)) => db[Cur(p)].n \in {0, 1}
    BY <1>2 DEF Is, Val, StringVal, CollectionVal
  <1>4. Return(p) \/ \E type \in {"zset", "stream"}, n \in {0, 1} : Put(p, Collection(type, n))
    BY <1>3 DEF SortedSetCommand, StreamCommand, zadd, zrange, zrank, zrem, xadd, xrange
  <1>5. \A type \in {"zset", "stream"}, n \in {0, 1} : Collection(type, n) \in Val
    BY CollectionIsVal DEF CollectionType
  <1> QED BY <1>1, <1>4, <1>5, ReturnsStep, PutsStep

LEMMA CollectionCommandStep == ASSUME IInv, NEW p \in Client, CollectionCommand(p) PROVE Step(p)
  BY ListCommandStep, SetCommandStep, HashCommandStep, SortedSetStreamStep DEF CollectionCommand
=============================================================================
