---------------------------- MODULE ConcurrentMap ----------------------------
(***************************************************************************)
(* memdb/concurrentmap.go: a table of shards, each a Go map under its own  *)
(* RWMutex, and one counter of keys that all shards update without         *)
(* synchronisation: m.count++ is a read and a write.                       *)
(***************************************************************************)
EXTENDS Integers, FiniteSets

CONSTANTS Proc, Key, Value, Null,
          Size,      \* number of shards
          KeyPos,    \* getKeyPos: the shard of a key
          Ops,       \* the operations that callers use
          MaxCount   \* bound: count stays this close to 0 when calls start

VARIABLES item,      \* the Go maps of all shards: key to value or Null
          writer,    \* shard.rwMu: who holds it exclusively
          count,     \* ConcurrentMap.count
          pc, call,  \* where each caller is, and its call
          ret,       \* its result
          tmp,       \* the value of count it has read
          pos,       \* the shard its loop is at, and how many keys it has seen
          seen,      \* what KeyVals has collected
          stayed     \* history: the keys that were there since KeyVals began

vars == <<item, writer, count, pc, call, ret, tmp, pos, seen, stayed>>
loop == <<pos, seen, stayed>>

\* A call takes effect when it finds nothing to do, or when it changes the Go map.
Abstracted(p) ==
    IF pc[p] = "idle" \/ call[p].op \notin {"set", "setifexist", "setifnotexist", "delete", "get"}
    THEN [at |-> "idle"]
    ELSE IF pc[p] \in {"lock", "inc", "incw", "put", "remove"} THEN [at |-> "called", o |-> call[p]]
    ELSE [at |-> "done", ret |-> ret[p]]

Abstract == INSTANCE KVMap WITH kv <- item, call <- [p \in Proc |-> Abstracted(p)]

Shards == 0 .. Size - 1
InShard(s) == {k \in Key : KeyPos[k] = s /\ item[k] # Null}
Present == {k \in Key : item[k] # Null}
NoCall == [op |-> "none"]

Init ==
    /\ item = [k \in Key |-> Null]
    /\ writer = [s \in Shards |-> Null]
    /\ count = 0
    /\ pc = [p \in Proc |-> "idle"]
    /\ call = [p \in Proc |-> NoCall]
    /\ ret = [p \in Proc |-> Null]
    /\ tmp = [p \in Proc |-> 0]
    /\ pos = [p \in Proc |-> [shard |-> 0, i |-> 0]]
    /\ seen = [p \in Proc |-> {}]
    /\ stayed = [p \in Proc |-> {}]

At(p, label) == pc[p] = label
Goto(p, label) == pc' = [pc EXCEPT ![p] = label]
Shard(p) == KeyPos[call[p].key]
Free(s) == writer[s] = Null
Unlock(p) == writer' = [writer EXCEPT ![Shard(p)] = Null]
Answer(p, r) == ret' = [ret EXCEPT ![p] = r]

Invoke(p) ==
    /\ At(p, "idle")
    /\ \E op \in Ops, k \in Key, v \in Value \cup {Null} :
          /\ (v = Null) = (op \in {"delete", "get", "keys", "keyvals"})
          /\ op \in {"set", "setifnotexist"} => count < MaxCount
          /\ op = "delete" => count > -MaxCount
          /\ call' = [call EXCEPT ![p] = [op |-> op, key |-> IF op \in {"keys", "keyvals"} THEN Null ELSE k, val |-> v]]
          /\ Goto(p, IF op = "keys" THEN "keyscount" ELSE IF op = "keyvals" THEN "keyvals" ELSE "lock")
    /\ stayed' = [stayed EXCEPT ![p] = Present]
    /\ UNCHANGED <<item, writer, count, ret, tmp, pos, seen>>

\* Mutant: the shard is not locked.
LockNothing(p) ==
    LET k == call[p].key IN
    /\ At(p, "lock") /\ call[p].op # "get"
    /\ CASE call[p].op = "set" -> Goto(p, IF item[k] = Null THEN "inc" ELSE "put")
         [] call[p].op = "setifexist" -> Goto(p, IF item[k] = Null THEN "miss" ELSE "put")
         [] call[p].op = "setifnotexist" -> Goto(p, IF item[k] = Null THEN "inc" ELSE "miss")
         [] call[p].op = "delete" -> Goto(p, IF item[k] = Null THEN "miss" ELSE "remove")
    /\ Answer(p, IF (item[k] = Null) = (call[p].op \in {"set", "setifnotexist"}) THEN 1 ELSE 0)
    /\ UNCHANGED <<item, writer, count, call, tmp, loop>>

\* rwMu.Lock and the test whether the key is there.  The readers of a shard
\* hold it for one step only.
Lock(p) ==
    LET k == call[p].key IN
    /\ At(p, "lock") /\ call[p].op # "get" /\ Free(Shard(p))
    /\ writer' = [writer EXCEPT ![Shard(p)] = p]
    /\ CASE call[p].op = "set" -> Goto(p, IF item[k] = Null THEN "inc" ELSE "put")
         [] call[p].op = "setifexist" -> Goto(p, IF item[k] = Null THEN "miss" ELSE "put")
         [] call[p].op = "setifnotexist" -> Goto(p, IF item[k] = Null THEN "inc" ELSE "miss")
         [] call[p].op = "delete" -> Goto(p, IF item[k] = Null THEN "miss" ELSE "remove")
    /\ Answer(p, IF (item[k] = Null) = (call[p].op \in {"set", "setifnotexist"}) THEN 1 ELSE 0)
    /\ UNCHANGED <<item, count, call, tmp, loop>>

\* SetIfExist, SetIfNotExist and Delete that find nothing to do.
Miss(p) ==
    /\ At(p, "miss")
    /\ Unlock(p) /\ Goto(p, "return")
    /\ UNCHANGED <<item, count, call, ret, tmp, loop>>

Get(p) ==
    /\ At(p, "lock") /\ call[p].op = "get" /\ Free(Shard(p))
    /\ Answer(p, item[call[p].key]) /\ Goto(p, "return")
    /\ UNCHANGED <<item, writer, count, call, tmp, loop>>

\* m.count++
IncRead(p) ==
    /\ At(p, "inc")
    /\ tmp' = [tmp EXCEPT ![p] = count] /\ Goto(p, "incw")
    /\ UNCHANGED <<item, writer, count, call, ret, loop>>

IncWrite(p) ==
    /\ At(p, "incw")
    /\ count' = tmp[p] + 1 /\ Goto(p, "put")
    /\ UNCHANGED <<item, writer, call, ret, tmp, loop>>

Put(p) ==
    /\ At(p, "put")
    /\ item' = [item EXCEPT ![call[p].key] = call[p].val]
    /\ Unlock(p) /\ Goto(p, "return")
    /\ UNCHANGED <<count, call, ret, tmp, loop>>

\* delete(shard.item, key); m.count--
Remove(p) ==
    /\ At(p, "remove")
    /\ item' = [item EXCEPT ![call[p].key] = Null]
    /\ stayed' = [q \in Proc |-> stayed[q] \ {call[p].key}]
    /\ tmp' = [tmp EXCEPT ![p] = count] /\ Goto(p, "decw")
    /\ UNCHANGED <<writer, count, call, ret, pos, seen>>

DecWrite(p) ==
    /\ At(p, "decw")
    /\ count' = tmp[p] - 1
    /\ Unlock(p) /\ Goto(p, "return")
    /\ UNCHANGED <<item, call, ret, tmp, loop>>

\* make([]string, m.count)
KeysCount(p) ==
    /\ At(p, "keyscount")
    /\ tmp' = [tmp EXCEPT ![p] = count] /\ Goto(p, "keys")
    /\ UNCHANGED <<item, writer, count, call, ret, loop>>

\* One shard under its RLock; keys[i] = key past the end of the slice panics.
KeysShard(p) ==
    LET s == pos[p].shard
        i == pos[p].i + Cardinality(InShard(s))
    IN
    /\ At(p, "keys") /\ Free(s)
    /\ Goto(p, IF i > tmp[p] THEN "panic" ELSE IF s + 1 = Size THEN "return" ELSE "keys")
    /\ pos' = [pos EXCEPT ![p] = [shard |-> s + 1, i |-> i]]
    /\ UNCHANGED <<item, writer, count, call, ret, tmp, seen, stayed>>

\* Mutant: the loop of KeyVals stops one shard short.
KeyValsShort(p) ==
    LET s == pos[p].shard IN
    /\ At(p, "keyvals") /\ Free(s)
    /\ seen' = [seen EXCEPT ![p] = @ \cup {<<k, item[k]>> : k \in InShard(s)}]
    /\ Goto(p, IF s + 2 >= Size THEN "return" ELSE "keyvals")
    /\ pos' = [pos EXCEPT ![p].shard = s + 1]
    /\ UNCHANGED <<item, writer, count, call, ret, tmp, stayed>>

KeyValsShard(p) ==
    LET s == pos[p].shard IN
    /\ At(p, "keyvals") /\ Free(s)
    /\ seen' = [seen EXCEPT ![p] = @ \cup {<<k, item[k]>> : k \in InShard(s)}]
    /\ Goto(p, IF s + 1 = Size THEN "return" ELSE "keyvals")
    /\ pos' = [pos EXCEPT ![p].shard = s + 1]
    /\ UNCHANGED <<item, writer, count, call, ret, tmp, stayed>>

Return(p) ==
    /\ At(p, "return")
    /\ Goto(p, "idle")
    /\ call' = [call EXCEPT ![p] = NoCall]
    /\ ret' = [ret EXCEPT ![p] = Null]
    /\ tmp' = [tmp EXCEPT ![p] = 0]
    /\ pos' = [pos EXCEPT ![p] = [shard |-> 0, i |-> 0]]
    /\ seen' = [seen EXCEPT ![p] = {}]
    /\ stayed' = [stayed EXCEPT ![p] = {}]
    /\ UNCHANGED <<item, writer, count>>

Step(p) ==
    \/ Lock(p) \/ Miss(p) \/ Get(p) \/ IncRead(p) \/ IncWrite(p) \/ Put(p) \/ Remove(p)
    \/ DecWrite(p) \/ KeysCount(p) \/ KeysShard(p) \/ KeyValsShard(p) \/ Return(p)

\* A panic ends the server.
Next == (\A p \in Proc : ~At(p, "panic")) /\ \E p \in Proc : Invoke(p) \/ Step(p)

Spec == Init /\ [][Next]_vars

-----------------------------------------------------------------------------
(* Properties *)

\* "It is threads safe by using rwLock": each call on a key takes effect at
\* once, with the result a map without concurrency would give.
AtomicStep == [Abstract!Next]_(Abstract!vars)
ImplementsMap == Abstract!Spec

\* KeyVals, which snapshots are made of, misses no key that was there all the
\* time it ran, and gives a key one value.
KeyValsComplete ==
    \A p \in Proc : At(p, "return") /\ call[p].op = "keyvals" =>
        /\ \A k \in stayed[p] : \E v \in Value : <<k, v>> \in seen[p]
        /\ \A e, f \in seen[p] : e[1] = f[1] => e = f
=============================================================================
