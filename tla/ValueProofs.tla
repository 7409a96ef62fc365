----------------------------- MODULE ValueProofs -----------------------------
(***************************************************************************)
(* Theorems about the sharded map and about streams, for any goroutines,   *)
(* keys, shards and entries.                                               *)
(***************************************************************************)
EXTENDS Integers, Sequences, FiniteSets, TLAPS

CONSTANTS Proc, Key, Value, Null, Size, KeyPos, Ops, MaxCount,    \* ConcurrentMap
          MaxTime, MaxSeq, MaxEntries, Trim                       \* Stream

VARIABLES item, writer, count, pc, call, ret, tmp, pos, seen, stayed,  \* ConcurrentMap
          clock, timeStamps, entry, added                         \* Stream

(***************************************************************************)
(* The sharded map                                                         *)
(***************************************************************************)
Map == INSTANCE ConcurrentMap

\* getKeyPos returns a shard of the table, and a nil value is never stored.
MapConstants ==
    /\ Size \in Nat \ {0} /\ KeyPos \in [Key -> 0..(Size - 1)]
    /\ Null \notin Value /\ Null \notin Proc
    /\ Ops \subseteq {"set", "setifexist", "setifnotexist", "delete", "get", "keys", "keyvals"}

Shards == 0..(Size - 1)
KeyOps == {"set", "setifexist", "setifnotexist", "delete", "get"}
Locking == {"inc", "incw", "put", "remove", "miss", "decw"}
Label == {"idle", "lock", "keyscount", "keys", "keyvals", "return", "panic"} \cup Locking

MapType ==
    /\ item \in [Key -> Value \cup {Null}]
    /\ writer \in [Shards -> Proc \cup {Null}]
    /\ pc \in [Proc -> Label]
    /\ DOMAIN call = Proc /\ DOMAIN ret = Proc /\ DOMAIN pos = Proc /\ DOMAIN seen = Proc /\ DOMAIN stayed = Proc

\* What a caller has in hand where it is.
CallOf(p) ==
    /\ pc[p] \in {"lock"} \cup Locking =>
          /\ call[p] \in [op : KeyOps, key : Key, val : Value \cup {Null}]
          /\ call[p].op \in {"set", "setifexist", "setifnotexist"} => call[p].val \in Value
    /\ pc[p] \in Locking => call[p].op # "get" /\ writer[KeyPos[call[p].key]] = p
    /\ pc[p] \in {"keyscount", "keys", "panic"} => call[p].op = "keys"
    /\ pc[p] = "keyvals" => call[p].op = "keyvals"

\* What it has found is still so.
FoundOf(p) ==
    /\ pc[p] \in {"inc", "incw"} => /\ call[p].op \in {"set", "setifnotexist"} /\ ret[p] = 1
                                    /\ item[call[p].key] = Null
    /\ pc[p] = "put" => /\ call[p].op \in {"set", "setifexist", "setifnotexist"}
                        /\ call[p].op = "set" => ret[p] = IF item[call[p].key] = Null THEN 1 ELSE 0
                        /\ call[p].op = "setifexist" => ret[p] = 1 /\ item[call[p].key] # Null
                        /\ call[p].op = "setifnotexist" => ret[p] = 1 /\ item[call[p].key] = Null
    /\ pc[p] = "remove" => call[p].op = "delete" /\ ret[p] = 1 /\ item[call[p].key] # Null

MapInv == MapType /\ \A p \in Proc : CallOf(p) /\ FoundOf(p)

\* In the beginning no shard is locked and no call runs.
LEMMA MapInit == ASSUME MapConstants, Map!Init PROVE MapInv
BY DEF Map!Init, MapInv, MapType, CallOf, FoundOf, Label, Locking, Shards, Map!Shards

\* Lock finds the shard free and goes on to what the call does with the key.
LockMoves(p, k, o, l) ==
    /\ k = call[p].key /\ o = call[p].op /\ o # "get"
    /\ pc[p] = "lock" /\ pc' = [pc EXCEPT ![p] = l]
    /\ writer[KeyPos[k]] = Null /\ writer' = [writer EXCEPT ![KeyPos[k]] = p]
    /\ ret' = [ret EXCEPT ![p] = IF (item[k] = Null) = (o \in {"set", "setifnotexist"}) THEN 1 ELSE 0]
    /\ o = "set" => l = IF item[k] = Null THEN "inc" ELSE "put"
    /\ o = "setifexist" => l = IF item[k] = Null THEN "miss" ELSE "put"
    /\ o = "setifnotexist" => l = IF item[k] = Null THEN "inc" ELSE "miss"
    /\ o = "delete" => l = IF item[k] = Null THEN "miss" ELSE "remove"
    /\ UNCHANGED <<item, call, pos, seen, stayed>>

\* Where Lock goes, and with which answer.
LEMMA LockGoes ==
    ASSUME MapConstants, MapInv, NEW p \in Proc, Map!Lock(p)
    PROVE  \E k \in Key, o \in KeyOps, l \in Locking : LockMoves(p, k, o, l)
<1>1. PICK k \in Key, o \in KeyOps : k = call[p].key /\ o = call[p].op
  BY DEF Map!Lock, CallOf, MapInv, Map!At
<1>2. /\ o # "get" /\ writer[KeyPos[k]] = Null /\ writer' = [writer EXCEPT ![KeyPos[k]] = p]
      /\ ret' = [ret EXCEPT ![p] = IF (item[k] = Null) = (o \in {"set", "setifnotexist"}) THEN 1 ELSE 0]
      /\ pc[p] = "lock" /\ UNCHANGED <<item, call, pos, seen, stayed>>
  BY <1>1 DEF Map!Lock, Map!Free, Map!Shard, Map!Answer, Map!loop, Map!At
<1>3. PICK l \in Locking : /\ pc' = [pc EXCEPT ![p] = l]
                           /\ o = "set" => l = IF item[k] = Null THEN "inc" ELSE "put"
                           /\ o = "setifexist" => l = IF item[k] = Null THEN "miss" ELSE "put"
                           /\ o = "setifnotexist" => l = IF item[k] = Null THEN "inc" ELSE "miss"
                           /\ o = "delete" => l = IF item[k] = Null THEN "miss" ELSE "remove"
  BY <1>1, Zenon DEF Map!Lock, KeyOps, Locking, Map!Goto
<1> QED BY <1>1, <1>2, <1>3, Zenon DEF LockMoves, MapConstants, MapType, Label

\* Every step keeps MapInv.
LEMMA MapStep ==
    ASSUME MapConstants, MapInv, NEW p \in Proc, Map!Invoke(p) \/ Map!Step(p)
    PROVE  MapInv'
<1>0. Map!Lock(p) => \E k \in Key, o \in KeyOps, l \in Locking : LockMoves(p, k, o, l)  BY LockGoes
<1>1. CASE Map!Invoke(p)
  BY <1>1 DEF Map!Invoke, CallOf, FoundOf, KeyOps, MapConstants, MapInv, MapType, Label, Locking, Map!Goto
<1>2. CASE Map!Lock(p)
  <2>1. PICK k \in Key, o \in KeyOps, l \in Locking : LockMoves(p, k, o, l)
    BY <1>0, <1>2
  <2>4. MapType'  BY <2>1 DEF LockMoves, MapConstants, MapInv, MapType, Label, Shards
  <2>5. CallOf(p)'  BY <2>1 DEF LockMoves, CallOf, MapConstants, MapInv, MapType, Locking, Shards
  <2>7. FoundOf(p)'  BY <2>1 DEF LockMoves, FoundOf, KeyOps, MapInv, MapType
  <2>6. ASSUME NEW q \in Proc, q # p PROVE CallOf(q)' /\ FoundOf(q)'
    BY <2>1, <2>6 DEF LockMoves, CallOf, FoundOf, MapConstants, MapInv, MapType, Label
  <2> QED BY <2>4, <2>5, <2>6, <2>7 DEF MapInv
<1>3. CASE Map!Miss(p)
  BY <1>3 DEF Map!Miss, Map!Unlock, Map!Shard, CallOf, FoundOf, Map!loop, MapConstants, MapInv, MapType, Label, Locking, Shards, Map!At, Map!Goto
<1>4. CASE Map!Get(p)
  BY <1>4 DEF Map!Get, Map!Answer, CallOf, FoundOf, Map!loop, MapInv, MapType, Label, Locking, Map!Goto
<1>5. CASE Map!IncRead(p)
  BY <1>5 DEF Map!IncRead, CallOf, FoundOf, Map!loop, MapInv, MapType, Label, Locking, Map!At, Map!Goto
<1>6. CASE Map!IncWrite(p)
  BY <1>6 DEF Map!IncWrite, CallOf, FoundOf, Map!loop, MapInv, MapType, Label, Locking, Map!At, Map!Goto
<1>7. CASE Map!Put(p)
  BY <1>7 DEF Map!Put, Map!Unlock, Map!Shard, CallOf, FoundOf, Map!loop, MapConstants, MapInv, MapType, Label, Locking, Shards, Map!At, Map!Goto
<1>8. CASE Map!Remove(p)
  BY <1>8 DEF Map!Remove, CallOf, FoundOf, MapInv, MapType, Label, Locking, Map!At, Map!Goto
<1>9. CASE Map!DecWrite(p)
  BY <1>9 DEF Map!DecWrite, Map!Unlock, Map!Shard, CallOf, FoundOf, Map!loop, MapConstants, MapInv, MapType, Label, Locking, Shards, Map!At, Map!Goto
<1>10. CASE Map!KeysCount(p)
  BY <1>10 DEF Map!KeysCount, CallOf, FoundOf, Map!loop, MapInv, MapType, Label, Locking, Map!At, Map!Goto
<1>11. CASE Map!KeysShard(p)
  BY <1>11 DEF Map!KeysShard, CallOf, FoundOf, MapInv, MapType, Label, Locking, Map!At, Map!Goto
<1>12. CASE Map!KeyValsShard(p)
  BY <1>12 DEF Map!KeyValsShard, CallOf, FoundOf, MapInv, MapType, Label, Locking, Map!At, Map!Goto
<1>13. CASE Map!Return(p)
  BY <1>13 DEF Map!Return, CallOf, FoundOf, MapInv, MapType, Label, Locking, Map!Goto
<1> QED BY <1>1, <1>2, <1>3, <1>4, <1>5, <1>6, <1>7, <1>8, <1>9, <1>10, <1>11, <1>12, <1>13 DEF Map!Step

\* A step of p changes nothing that others have in hand.
LEMMA MapFrame ==
    ASSUME MapConstants, MapInv, NEW p \in Proc, Map!Invoke(p) \/ Map!Step(p)
    PROVE  /\ \A q \in Proc \ {p} : pc'[q] = pc[q] /\ call'[q] = call[q] /\ ret'[q] = ret[q]
           /\ DOMAIN pc' = Proc
<1>0. Map!Lock(p) => \E k \in Key, o \in KeyOps, l \in Locking : LockMoves(p, k, o, l)  BY LockGoes
<1> USE DEF MapInv, MapType, Map!Goto, Map!loop
<1>1. CASE Map!Invoke(p)  BY <1>1 DEF Map!Invoke
<1>2. CASE Map!Lock(p)
  <2>1. PICK k \in Key, o \in KeyOps, l \in Locking : LockMoves(p, k, o, l)
    BY <1>0, <1>2
  <2> QED BY <2>1 DEF LockMoves
<1>3. CASE Map!Miss(p) \/ Map!Get(p)  BY <1>3 DEF Map!Miss, Map!Get, Map!Answer
<1>4. CASE Map!IncRead(p) \/ Map!IncWrite(p) \/ Map!Put(p)  BY <1>4 DEF Map!IncRead, Map!IncWrite, Map!Put
<1>5. CASE Map!Remove(p) \/ Map!DecWrite(p)  BY <1>5 DEF Map!Remove, Map!DecWrite
<1>6. CASE Map!KeysCount(p) \/ Map!KeysShard(p)  BY <1>6 DEF Map!KeysCount, Map!KeysShard
<1>7. CASE Map!KeyValsShard(p) \/ Map!Return(p)  BY <1>7 DEF Map!KeyValsShard, Map!Return
<1> QED BY <1>1, <1>2, <1>3, <1>4, <1>5, <1>6, <1>7 DEF Map!Step

\* Each step of the map is one of the abstract map, or none.
LEMMA MapAtomic ==
    ASSUME MapConstants, MapInv, NEW p \in Proc, Map!Invoke(p) \/ Map!Step(p)
    PROVE  Map!AtomicStep
<1> DEFINE abs == [q \in Proc |-> Map!Abstracted(q)]
<1>1. SUFFICES \/ Map!Abstract!Invoke(p) \/ Map!Abstract!Effect(p) \/ Map!Abstract!Return(p)
               \/ item' = item /\ abs' = abs
  BY DEF Map!AtomicStep, Map!Abstract!Next, Map!Abstract!vars
<1>2. PICK a, b : a = Map!Abstracted(p) /\ b = Map!Abstracted(p)'  OBVIOUS
<1>3. abs' = [abs EXCEPT ![p] = b]
  <2>1. ASSUME NEW q \in Proc \ {p} PROVE Map!Abstracted(q)' = Map!Abstracted(q)
    BY MapFrame DEF Map!Abstracted
  <2> QED BY <1>2, <2>1, Zenon
<1>4. abs[p] = a  BY <1>2
<1>5. ASSUME item' = item, b = a PROVE abs' = abs
  BY <1>3, <1>4, <1>5, Zenon
<1>0. Map!Lock(p) => \E k \in Key, o \in KeyOps, l \in Locking : LockMoves(p, k, o, l)  BY LockGoes
<1>6. CASE Map!Invoke(p)
  <2>1. PICK op \in Ops, k \in Key, v \in Value \cup {Null} :
          /\ call' = [call EXCEPT ![p] = [op |-> op, key |-> IF op \in {"keys", "keyvals"} THEN Null ELSE k, val |-> v]]
          /\ pc' = [pc EXCEPT ![p] = IF op = "keys" THEN "keyscount" ELSE IF op = "keyvals" THEN "keyvals" ELSE "lock"]
    BY <1>6, Zenon DEF Map!Invoke, Map!Goto
  <2>2. a = [at |-> "idle"] /\ item' = item  BY <1>2, <1>6 DEF Map!Invoke, Map!Abstracted, Map!At
  <2>3. CASE op \in {"keys", "keyvals"}
    <3>1. b = [at |-> "idle"]  BY <1>2, <2>1, <2>3 DEF Map!Abstracted, MapInv, MapType
    <3> QED BY <1>5, <2>2, <3>1
  <2>4. CASE op \notin {"keys", "keyvals"}
    <3>1. PICK o : o = [op |-> op, key |-> k, val |-> v]  BY Zenon
    <3>2. o \in Map!Abstract!KeyCall  BY <2>4, <3>1, Zenon DEF Map!Abstract!KeyCall, Map!Abstract!KeyOps, MapConstants
    <3>3. b = [at |-> "called", o |-> o]
      <4>1. op \in {"set", "setifexist", "setifnotexist", "delete", "get"}  BY <2>4 DEF MapConstants
      <4>2. pc'[p] = "lock" /\ call'[p] = o /\ o.op = op  BY <2>1, <2>4, <3>1 DEF MapInv, MapType
      <4> QED BY <1>2, <4>1, <4>2 DEF Map!Abstracted
    <3>4. Map!Abstract!Invoke(p)
      BY <1>3, <1>4, <2>2, <3>2, <3>3, Zenon DEF Map!Abstract!Invoke, Map!Abstract!Idle, Map!Abstract!Called
    <3> QED BY <3>4
  <2> QED BY <2>3, <2>4
<1>7. ASSUME pc[p] \in {"lock", "inc", "incw", "put", "remove"}, pc'[p] \in {"miss", "decw", "return"}, call' = call,
             item' \in [Key -> Value \cup {Null}], \A q \in Key \ {call[p].key} : item'[q] = item[q],
             item'[call[p].key] = Map!Abstract!After(call[p]), ret'[p] = Map!Abstract!Answer(call[p])
      PROVE  Map!Abstract!Effect(p)
  <2>1. call[p] \in [op : KeyOps, key : Key, val : Value \cup {Null}]  BY <1>7 DEF CallOf, MapInv, Locking
  <2>2. a = [at |-> "called", o |-> call[p]]  BY <1>2, <1>7, <2>1 DEF Map!Abstracted, KeyOps
  <2>3. b = [at |-> "done", ret |-> ret'[p]]  BY <1>2, <1>7, <2>1 DEF Map!Abstracted, KeyOps
  <2>4. item' = [item EXCEPT ![call[p].key] = Map!Abstract!After(call[p])]  BY <1>7 DEF MapInv, MapType
  <2>5. a.at = "called" /\ a.o = call[p]  BY <2>2
  <2> QED BY <1>3, <1>4, <1>7, <2>3, <2>4, <2>5, Zenon DEF Map!Abstract!Effect, Map!Abstract!Done, MapConstants
<1>8. CASE Map!Lock(p)
  <2>1. PICK k \in Key, o \in KeyOps, l \in Locking : LockMoves(p, k, o, l)
    BY <1>0, <1>8
  <2>2. CASE l # "miss"
    <3>1. b = a  BY <1>2, <2>1, <2>2 DEF LockMoves, Map!Abstracted, Map!Goto
    <3> QED BY <1>5, <2>1, <3>1 DEF LockMoves, MapType
  <2>3. CASE l = "miss"
    <3>1. item[k] = Map!Abstract!After(call[p])  BY <2>1, <2>3 DEF LockMoves, Map!Abstract!After, KeyOps, Map!At
    <3>2. ret'[p] = Map!Abstract!Answer(call[p])  BY <2>1 DEF LockMoves, Map!Abstract!Answer, KeyOps, MapInv, MapType
    <3> QED BY <1>7, <2>1, <2>3, <3>1, <3>2 DEF LockMoves, MapInv, MapType
  <2> QED BY <2>2, <2>3
<1>9. CASE Map!Miss(p) \/ Map!DecWrite(p)
  <2>1. /\ pc[p] \in {"miss", "decw"} /\ pc'[p] = "return"
        /\ item' = item /\ call' = call /\ ret' = ret
    BY <1>9 DEF Map!Miss, Map!DecWrite, MapInv, MapType, Map!At, Map!Goto
  <2>2. b = a  BY ONLY <1>2, <2>1 DEF Map!Abstracted
  <2> QED BY <1>5, <2>1, <2>2
<1>10. CASE Map!IncRead(p) \/ Map!IncWrite(p)
  <2>1. b = a /\ item' = item
    BY <1>2, <1>10, Zenon DEF Map!IncRead, Map!IncWrite, Map!Abstracted, MapInv, MapType, Map!At, Map!Goto
  <2> QED BY <1>5, <2>1
<1>11. CASE Map!KeysCount(p) \/ Map!KeysShard(p) \/ Map!KeyValsShard(p)
  <2>1. b = a /\ item' = item
    BY <1>2, <1>11 DEF Map!KeysCount, Map!KeysShard, Map!KeyValsShard, Map!Abstracted, MapInv, MapType, Label, Locking, Shards, Map!At, Map!Goto
  <2> QED BY <1>5, <2>1
<1>12. CASE Map!Get(p)
  <2>1. /\ call[p].op = "get" /\ ret'[p] = item[call[p].key] /\ pc[p] = "lock" /\ pc'[p] = "return"
        /\ UNCHANGED <<item, call>>
    BY <1>12 DEF Map!Get, Map!Answer, MapInv, MapType, Map!At, Map!Goto
  <2>2. item[call[p].key] = Map!Abstract!After(call[p]) /\ ret'[p] = Map!Abstract!Answer(call[p])
    BY <2>1 DEF Map!Abstract!After, Map!Abstract!Answer
  <2> QED BY <1>7, <2>1, <2>2 DEF MapInv, MapType
<1>13. CASE Map!Put(p)
  <2>1. PICK k \in Key, v \in Value, o \in {"set", "setifexist", "setifnotexist"} :
           k = call[p].key /\ v = call[p].val /\ o = call[p].op
    BY <1>13 DEF Map!Put, CallOf, FoundOf, MapInv, MapType, Label, Locking, Shards, Map!At
  <2>2. pc[p] = "put" /\ pc'[p] = "return" /\ item' = [item EXCEPT ![k] = v] /\ UNCHANGED <<call, ret>>
    BY <1>13, <2>1 DEF Map!Put, MapInv, MapType, Label, Map!At, Map!Goto
  <2>3. v = Map!Abstract!After(call[p])  BY <2>1, <2>2 DEF Map!Abstract!After, FoundOf, MapInv, Label
  <2>4. ret[p] = Map!Abstract!Answer(call[p])  BY <2>1, <2>2 DEF Map!Abstract!Answer, FoundOf, MapInv, Map!Goto
  <2> QED BY <1>7, <2>1, <2>2, <2>3, <2>4 DEF MapInv, MapType, Map!Goto
<1>14. CASE Map!Remove(p)
  <2>1. PICK k \in Key : k = call[p].key  BY <1>14 DEF Map!Remove, CallOf, MapInv, Locking, Map!At
  <2>2. /\ pc[p] = "remove" /\ pc'[p] = "decw" /\ item' = [item EXCEPT ![k] = Null] /\ UNCHANGED <<call, ret>>
        /\ call[p].op = "delete"
    BY <1>14, <2>1 DEF Map!Remove, FoundOf, MapInv, MapType, Locking, Map!At, Map!Goto
  <2>3. Null = Map!Abstract!After(call[p])  BY <2>2 DEF Map!Abstract!After, MapConstants, Locking
  <2>4. ret[p] = Map!Abstract!Answer(call[p])  BY <2>2 DEF Map!Abstract!Answer, FoundOf, MapInv
  <2> QED BY <1>7, <2>1, <2>2, <2>3, <2>4 DEF MapInv, MapType, Map!At, Map!Goto
<1>15. CASE Map!Return(p)
  <2>1. b = [at |-> "idle"] /\ item' = item /\ pc[p] = "return"
    BY <1>2, <1>15 DEF Map!Return, Map!Abstracted, MapInv, MapType, Map!At, Map!Goto
  <2>2. a = [at |-> "idle"] \/ a = [at |-> "done", ret |-> ret[p]]
    BY <1>2, <2>1 DEF Map!Abstracted
  <2>3. CASE a = [at |-> "idle"]  BY <1>5, <2>1, <2>3
  <2>4. CASE a = [at |-> "done", ret |-> ret[p]]
    <3>1. a.at = "done"  BY <2>4
    <3>2. Map!Abstract!Return(p)
      BY <1>3, <1>4, <2>1, <3>1 DEF Map!Abstract!Return, Map!Abstract!Idle, Shards
    <3> QED BY <3>2
  <2> QED BY <2>2, <2>3, <2>4
<1> QED BY <1>6, <1>8, <1>9, <1>10, <1>11, <1>12, <1>13, <1>14, <1>15 DEF Map!Step

\* MapInv is inductive.
LEMMA MapInvariant ==
    ASSUME MapConstants PROVE Map!Spec => []MapInv
<1>1. Map!Init => MapInv  BY MapInit
<1>2. MapInv /\ [Map!Next]_Map!vars => MapInv'
  <2>1. ASSUME MapInv, Map!Next PROVE MapInv'  BY <2>1, MapStep DEF Map!Next
  <2>2. ASSUME MapInv, UNCHANGED Map!vars PROVE MapInv'
    BY <2>2 DEF Map!vars, MapInv, MapType, CallOf, FoundOf
  <2> QED BY <2>1, <2>2
<1> QED BY <1>1, <1>2, PTL DEF Map!Spec

\* Every call of the sharded map takes effect in one step, as on a plain map, though each
\* locks and unlocks a shard (concurrentmap.go).
THEOREM MapIsAtomic ==
    ASSUME MapConstants PROVE Map!Spec => Map!ImplementsMap
<1>1. Map!Init => Map!Abstract!Init
  BY DEF Map!Init, Map!Abstract!Init, Map!Abstracted, Map!Abstract!Idle
<1>2. MapInv /\ [Map!Next]_Map!vars => [Map!Abstract!Next]_(Map!Abstract!vars)
  <2>1. ASSUME MapInv, Map!Next PROVE [Map!Abstract!Next]_(Map!Abstract!vars)
    BY <2>1, MapAtomic DEF Map!Next, Map!AtomicStep
  <2>2. ASSUME UNCHANGED Map!vars PROVE UNCHANGED Map!Abstract!vars
    BY <2>2 DEF Map!vars, Map!Abstract!vars, Map!Abstracted
  <2> QED BY <2>1, <2>2
<1> QED BY <1>1, <1>2, MapInvariant, PTL DEF Map!Spec, Map!ImplementsMap, Map!Abstract!Spec

\* What KeyVals has collected of the shards before s.
Collected(p, s) ==
    /\ \A k \in stayed[p] : KeyPos[k] < s => \E v \in Value : <<k, v>> \in seen[p]
    /\ \A e \in seen[p] : \E k \in Key, v \in Value : e = <<k, v>> /\ KeyPos[k] < s
    /\ \A e, f \in seen[p] : e[1] = f[1] => e = f

KeyValsOf(p) ==
    /\ pc[p] = "idle" => pos[p] = [shard |-> 0, i |-> 0] /\ seen[p] = {}
    /\ pc[p] = "keyvals" => /\ pos[p] \in [shard : Shards, i : {0}]
                            /\ stayed[p] \subseteq {k \in Key : item[k] # Null}
                            /\ Collected(p, pos[p].shard)
    /\ pc[p] = "return" /\ call[p].op = "keyvals" => stayed[p] \subseteq Key /\ Collected(p, Size)

\* A step that leaves what KeyVals has, but for keys that are gone, keeps it.
LEMMA CollectedKept ==
    ASSUME NEW q \in Proc, NEW s, Collected(q, s), seen'[q] = seen[q], stayed'[q] \subseteq stayed[q]
    PROVE  Collected(q, s)'
BY Zenon DEF Collected

\* A step that leaves a call alone, but for keys that are gone, keeps what it has collected.
LEMMA KeyValsKept ==
    ASSUME MapConstants, NEW q \in Proc, KeyValsOf(q), pc'[q] = pc[q], call'[q] = call[q], pos'[q] = pos[q],
           seen'[q] = seen[q], stayed'[q] \subseteq stayed[q], \A k \in stayed'[q] : item[k] # Null => item'[k] # Null
    PROVE  KeyValsOf(q)'
<1>1. \A s : Collected(q, s) => Collected(q, s)'  BY CollectedKept
<1> QED BY <1>1 DEF KeyValsOf

\* Every step of KeyVals or beside it keeps what KeyVals has collected complete.
LEMMA KeyValsStep ==
    ASSUME MapConstants, MapInv, \A q \in Proc : KeyValsOf(q), NEW p \in Proc, Map!Invoke(p) \/ Map!Step(p)
    PROVE  \A q \in Proc : KeyValsOf(q)'
<1>0. Map!Lock(p) => \E k \in Key, o \in KeyOps, l \in Locking : LockMoves(p, k, o, l)  BY LockGoes
<1>1. ASSUME NEW q \in Proc, pc'[q] = pc[q], call'[q] = call[q], pos'[q] = pos[q], seen'[q] = seen[q],
             stayed'[q] \subseteq stayed[q], \A k \in stayed'[q] : item[k] # Null => item'[k] # Null
      PROVE  KeyValsOf(q)'
  BY <1>1, KeyValsKept
<1>2. CASE Map!KeyValsShard(p)
  <2>1. PICK s \in Shards : s = pos[p].shard  BY <1>2 DEF Map!KeyValsShard, KeyValsOf, Map!At
  <2>2. /\ pc[p] = "keyvals" /\ call[p].op = "keyvals"
        /\ seen' = [seen EXCEPT ![p] = @ \cup {<<k, item[k]>> : k \in Map!InShard(s)}]
        /\ pc' = [pc EXCEPT ![p] = IF s + 1 = Size THEN "return" ELSE "keyvals"]
        /\ pos' = [pos EXCEPT ![p].shard = s + 1]
        /\ UNCHANGED <<item, call, stayed>>
    BY <1>2, <2>1 DEF Map!KeyValsShard, CallOf, MapInv, Map!At, Map!Goto
  <2>3. ASSUME NEW q \in Proc, q # p PROVE KeyValsOf(q)'
    BY <1>1, <2>2, <2>3 DEF MapInv, MapType
  <2>4. PICK S : S = {<<k, item[k]>> : k \in Map!InShard(s)}  BY Zenon
  <2>5. /\ stayed[p] \subseteq {k \in Key : item[k] # Null} /\ Collected(p, s) /\ pos[p] \in [shard : Shards, i : {0}]
    BY <2>1, <2>2 DEF KeyValsOf, MapInv
  <2>6. seen'[p] = seen[p] \cup S  BY <2>2, <2>4 DEF MapInv, MapType
  <2>7. \A e : e \in S <=> \E k \in Key : KeyPos[k] = s /\ item[k] # Null /\ e = <<k, item[k]>>
    BY <2>4 DEF Map!InShard
  <2>8. Collected(p, s + 1)'
    <3>1. ASSUME NEW k \in stayed'[p], KeyPos[k] < s + 1 PROVE \E v \in Value : <<k, v>> \in seen'[p]
      <4>1. k \in stayed[p] /\ k \in Key /\ item[k] \in Value /\ KeyPos[k] \in Shards  BY <2>2, <2>5 DEF MapConstants, MapInv, MapType, Shards
      <4>2. CASE KeyPos[k] < s  BY <2>5, <2>6, <4>1, <4>2, Zenon DEF Collected
      <4>3. CASE KeyPos[k] = s
        <5>1. item[k] # Null  BY <4>1 DEF MapConstants
        <5>2. <<k, item[k]>> \in S  BY <2>7, <4>1, <4>3, <5>1
        <5> QED BY <2>6, <4>1, <5>2
      <4>4. KeyPos[k] < s \/ KeyPos[k] = s  BY <3>1, <4>1 DEF Shards
      <4> QED BY <4>2, <4>3, <4>4, Zenon
    <3>2. ASSUME NEW e \in seen'[p] PROVE \E k \in Key, v \in Value : e = <<k, v>> /\ KeyPos[k] < s + 1
      <4>1. CASE e \in seen[p]
        <5>1. PICK k \in Key, v \in Value : e = <<k, v>> /\ KeyPos[k] < s  BY <2>5, <4>1 DEF Collected
        <5>2. KeyPos[k] \in Shards  BY DEF MapConstants, Shards
        <5>3. KeyPos[k] < s + 1  BY <5>1, <5>2 DEF Shards
        <5> QED BY <5>1, <5>3
      <4>2. CASE e \in S
        <5>1. PICK k \in Key : KeyPos[k] = s /\ item[k] # Null /\ e = <<k, item[k]>>  BY <2>7, <4>2
        <5>2. item[k] \in Value /\ s < s + 1  BY <5>1 DEF MapInv, MapType, Shards
        <5> QED BY <5>1, <5>2
      <4> QED BY <2>6, <4>1, <4>2
    <3>3. ASSUME NEW e \in seen'[p], NEW f \in seen'[p], e[1] = f[1] PROVE e = f
      <4>1. ASSUME NEW g \in seen[p], NEW m \in S PROVE g[1] # m[1]
        <5>1. PICK k \in Key, v \in Value : g = <<k, v>> /\ KeyPos[k] < s  BY <2>5 DEF Collected
        <5>2. PICK l \in Key : KeyPos[l] = s /\ m = <<l, item[l]>>  BY <2>7
        <5>3. g[1] = k /\ m[1] = l /\ KeyPos[k] # KeyPos[l]  BY <5>1, <5>2 DEF Shards
        <5> QED BY <5>3
      <4>2. ASSUME NEW g \in S, NEW m \in S, g[1] = m[1] PROVE g = m
        <5>1. PICK k \in Key : g = <<k, item[k]>>  BY <2>7 DEF Label
        <5>2. PICK l \in Key : m = <<l, item[l]>>  BY <2>7
        <5> QED BY <4>2, <5>1, <5>2
      <4> QED BY <2>5, <2>6, <3>3, <4>1, <4>2 DEF Collected
    <3> QED BY <3>1, <3>2, <3>3, Zenon DEF Collected
  <2>9. KeyValsOf(p)'
    <3>1. stayed'[p] = stayed[p] /\ call'[p] = call[p] /\ item' = item  BY <2>2
    <3>2. CASE s + 1 = Size
      <4>1. pc'[p] = "return"  BY <2>2, <3>2 DEF MapInv, MapType
      <4> QED BY <2>5, <2>8, <3>1, <3>2, <4>1, Zenon DEF KeyValsOf
    <3>3. CASE s + 1 # Size
      <4>1. pc'[p] = "keyvals" /\ s + 1 \in Shards  BY <2>2, <3>3 DEF MapConstants, Shards
      <4>2. pos'[p] \in [shard : Shards, i : {0}] /\ pos'[p].shard = s + 1  BY <2>2, <2>5, <4>1 DEF MapInv, MapType
      <4> QED BY <2>5, <2>8, <3>1, <4>1, <4>2 DEF KeyValsOf
    <3> QED BY <3>2, <3>3
  <2> QED BY <2>3, <2>9
<1>3. CASE Map!Invoke(p)
  <2>1. ASSUME NEW q \in Proc, q # p PROVE KeyValsOf(q)'
    BY <1>1, <1>3, <2>1 DEF Map!Invoke, Map!Goto
  <2>2. KeyValsOf(p)'
    <3>1. /\ pc[p] = "idle" /\ pc'[p] \in {"keyscount", "keyvals", "lock"} /\ stayed'[p] = Map!Present
          /\ item' = item /\ pos' = pos /\ seen' = seen
      BY <1>3, ZenonT(30) DEF Map!Invoke, MapInv, MapType, Map!At, Map!Goto
    <3>2. pos[p] = [shard |-> 0, i |-> 0] /\ seen[p] = {}  BY <3>1, ZenonT(30) DEF KeyValsOf
    <3>3. Map!Present = {k \in Key : item[k] # Null} /\ 0 \in Shards  BY DEF Map!Present, MapConstants, Shards
    <3>4. \A k \in Key : ~(KeyPos[k] < 0)  BY DEF MapConstants
    <3>5. Collected(p, 0)'  BY ONLY <3>1, <3>2, <3>3, <3>4 DEF Collected
    <3> QED BY ONLY <3>1, <3>2, <3>3, <3>5 DEF KeyValsOf
  <2> QED BY <2>1, <2>2
<1>4. CASE Map!Return(p)
  <2>1. ASSUME NEW q \in Proc, q # p PROVE KeyValsOf(q)'
    BY <1>1, <1>4, <2>1 DEF Map!Return, Locking, Map!Goto
  <2>2. KeyValsOf(p)'
    BY <1>4, ZenonT(30) DEF Map!Return, KeyValsOf, MapInv, MapType, Map!Goto
  <2> QED BY <2>1, <2>2 DEF Map!Goto
<1>5. CASE Map!Put(p)
  <2>1. PICK k \in Key, v \in Value : k = call[p].key /\ v = call[p].val  BY <1>5, Zenon DEF Map!Put, CallOf, FoundOf, MapConstants, MapInv, Locking, Map!At, Map!Goto
  <2>2. item' = [item EXCEPT ![k] = v]  BY <1>5, <2>1 DEF Map!Put, MapInv
  <2>3. /\ pc[p] = "put" /\ pc' = [pc EXCEPT ![p] = "return"]
        /\ call' = call /\ pos' = pos /\ seen' = seen /\ stayed' = stayed
    BY <1>5 DEF Map!Put, Map!loop, Map!At, Map!Goto
  <2>4. \A j \in Key : item[j] # Null => item'[j] # Null  BY <2>2 DEF MapConstants
  <2>5. ASSUME NEW q \in Proc, q # p PROVE KeyValsOf(q)'
    BY <1>1, <2>3, <2>4, <2>5 DEF KeyValsOf
  <2>6. call[p].op # "keyvals"  BY <2>3, Zenon DEF CallOf, KeyOps, MapInv, Locking
  <2>7. pc'[p] = "return" /\ call'[p] = call[p]  BY <2>3 DEF MapInv, MapType
  <2>8. KeyValsOf(p)'  BY ONLY <2>6, <2>7, Zenon DEF KeyValsOf
  <2> QED BY <2>5, <2>8
<1>6. CASE Map!Remove(p)
  <2>1. /\ pc' = [pc EXCEPT ![p] = "decw"] /\ item' = [item EXCEPT ![call[p].key] = Null]
        /\ call' = call /\ pos' = pos /\ seen' = seen /\ stayed' = [q \in Proc |-> stayed[q] \ {call[p].key}]
    BY <1>6, ZenonT(30) DEF Map!Remove, Map!Goto
  <2>2. ASSUME NEW q \in Proc, q # p PROVE KeyValsOf(q)'
    BY <1>1, <2>1, <2>2
  <2>3. pc'[p] = "decw"  BY <2>1 DEF MapInv, MapType
  <2>4. KeyValsOf(p)'  BY ONLY <2>3 DEF KeyValsOf
  <2> QED BY <2>2, <2>4
<1>7. CASE Map!Lock(p) \/ Map!Miss(p) \/ Map!Get(p) \/ Map!IncRead(p) \/ Map!IncWrite(p) \/ Map!DecWrite(p)
           \/ Map!KeysCount(p) \/ Map!KeysShard(p)
  <2>1. /\ item' = item /\ seen' = seen /\ stayed' = stayed /\ call' = call
        /\ \A q \in Proc \ {p} : pos'[q] = pos[q]
    BY <1>7, Zenon DEF Map!Lock, Map!Miss, Map!Get, Map!IncRead, Map!IncWrite, Map!DecWrite, Map!KeysCount, Map!KeysShard, Map!loop, MapInv, MapType
  <2>2. ASSUME NEW q \in Proc, q # p PROVE KeyValsOf(q)'
    BY <1>1, <2>1, <2>2, MapFrame DEF Map!Goto
  <2>3. call[p].op # "keyvals" /\ pc[p] \notin {"idle", "keyvals"}
    BY <1>7, Zenon DEF CallOf, KeyOps, Map!Lock, Map!Miss, Map!Get, Map!IncRead, Map!IncWrite, Map!DecWrite, Map!KeysCount, Map!KeysShard, MapInv, Locking, Map!At
  <2>4. pc'[p] \notin {"idle", "keyvals"}
    <3>1. CASE Map!Lock(p)  BY <1>0, <3>1 DEF LockMoves, MapInv, MapType, Locking
    <3>2. CASE ~Map!Lock(p)
      BY <1>7, <3>2, ZenonT(30) DEF Map!Miss, Map!Get, Map!IncRead, Map!IncWrite, Map!DecWrite, Map!KeysCount, Map!KeysShard, MapInv, MapType, Map!Goto
    <3> QED BY <3>1, <3>2
  <2>5. KeyValsOf(p)'  BY <2>1, <2>3, <2>4, ZenonT(30) DEF KeyValsOf
  <2> QED BY <2>2, <2>5
<1> QED BY <1>2, <1>3, <1>4, <1>5, <1>6, <1>7 DEF Map!Step

\* KeyVals returns every key that was there all the time it ran, though it locks one shard
\* after the other.
THEOREM KeyValsMissesNothing ==
    ASSUME MapConstants PROVE Map!Spec => []Map!KeyValsComplete
<1> DEFINE Inv == \A p \in Proc : KeyValsOf(p)
<1>1. Map!Init => Inv  BY DEF Map!Init, KeyValsOf
<1>2. MapInv /\ Inv /\ [Map!Next]_Map!vars => Inv'
  <2>1. ASSUME MapInv, Inv, Map!Next PROVE Inv'  BY <2>1, KeyValsStep DEF Map!Next
  <2>2. ASSUME Inv, UNCHANGED Map!vars, NEW p \in Proc PROVE KeyValsOf(p)'
    BY <2>2, KeyValsKept DEF Map!vars
  <2> QED BY <2>1, <2>2
<1>3. Inv => Map!KeyValsComplete
  <2>1. SUFFICES ASSUME Inv, NEW p \in Proc, pc[p] = "return", call[p].op = "keyvals"
                 PROVE  /\ \A k \in stayed[p] : \E v \in Value : <<k, v>> \in seen[p]
                        /\ \A e, f \in seen[p] : e[1] = f[1] => e = f
    BY DEF Map!KeyValsComplete, Map!At
  <2>2. stayed[p] \subseteq Key /\ Collected(p, Size)  BY <2>1 DEF KeyValsOf
  <2>3. \A k \in Key : KeyPos[k] < Size  BY DEF MapConstants
  <2> QED BY <2>2, <2>3 DEF Collected
<1> HIDE DEF Inv
<1> QED BY <1>1, <1>2, <1>3, MapInvariant, PTL DEF Map!Spec

(***************************************************************************)
(* Streams                                                                 *)
(***************************************************************************)
Str == INSTANCE Stream

\* The times are milliseconds of the clock or were given, and the thresholds are numbers.
StreamConstants == MaxTime \in Nat /\ MaxSeq \in Nat /\ MaxEntries \in Nat /\ Trim \subseteq Int

Stamp == [time : Int, seqNum : Int]

StreamInv == clock \in Int /\ timeStamps \in Seq(Stamp) /\ Str!StampsSorted

\* AddEntry's ID is no lower than the last one.
LEMMA EntryIDRises ==
    ASSUME StreamConstants, StreamInv, NEW arg \in Str!Given \cup {Str!Auto}, Str!EntryID(arg) # Str!Auto
    PROVE  /\ Str!EntryID(arg) \in Stamp
           /\ timeStamps # <<>> => ~Str!Below(Str!EntryID(arg), timeStamps[Len(timeStamps)])
<1>1. arg \in Stamp  BY DEF StreamConstants, Str!Given, Str!Auto, Stamp
<1>2. timeStamps # <<>> => timeStamps[Len(timeStamps)] \in Stamp  BY DEF StreamInv
<1> QED BY <1>1, <1>2 DEF StreamInv, Str!EntryID, Str!Below, Stamp

\* "Not below" is a total preorder on IDs.
LEMMA NotBelow ==
    ASSUME NEW i \in Stamp, NEW j \in Stamp, NEW k \in Stamp
    PROVE  /\ ~Str!Below(i, i)
           /\ ~Str!Below(i, j) /\ ~Str!Below(j, k) => ~Str!Below(i, k)
BY DEF Str!Below, Stamp

\* DropFirstN leaves the rest of the sequence in order.
LEMMA Suffix ==
    ASSUME NEW s \in Seq(Stamp), NEW n \in 0 .. Len(s), NEW q, q = SubSeq(s, n + 1, Len(s))
    PROVE  q \in Seq(Stamp) /\ Len(q) = Len(s) - n /\ \A k \in 1 .. Len(q) : q[k] = s[k + n]
<1>1. CASE n < Len(s)  BY <1>1
<1>2. CASE n = Len(s)  BY <1>2
<1> QED BY <1>1, <1>2

\* XADD and its trimming keep the order.
LEMMA XAddKeeps ==
    ASSUME StreamConstants, StreamInv, NEW arg \in Str!Given \cup {Str!Auto}, NEW t \in Trim, Str!xadd(arg, t)
    PROVE  StreamInv'
<1> PICK id : id = Str!EntryID(arg)  OBVIOUS
<1> PICK stamps : stamps = Append(timeStamps, id)  BY Zenon
<1> PICK n : n = IF t >= 0 /\ Len(stamps) > t THEN Len(stamps) - t ELSE 0  OBVIOUS
<1>1. id \in Stamp /\ (timeStamps # <<>> => ~Str!Below(id, timeStamps[Len(timeStamps)]))
  BY EntryIDRises DEF Str!xadd
<1>2. stamps \in Seq(Stamp) /\ Len(stamps) = Len(timeStamps) + 1
  BY <1>1 DEF StreamInv
<1>3. n \in Nat /\ n <= Len(stamps)
  BY <1>2 DEF StreamConstants
<1>4. timeStamps' = SubSeq(stamps, n + 1, Len(stamps)) /\ clock' = clock
  BY Zenon DEF Str!xadd, Str!DropFirstN
<1>5. ASSUME NEW j \in 1..Len(stamps), NEW k \in 1..Len(stamps), j < k PROVE ~Str!Below(stamps[k], stamps[j])
  <2>1. CASE k <= Len(timeStamps)
    BY <1>1, <1>2, <1>5, <2>1 DEF StreamInv, Str!StampsSorted
  <2>2. CASE k = Len(timeStamps) + 1
    <3> DEFINE last == timeStamps[Len(timeStamps)]
    <3>1. timeStamps \in Seq(Stamp) /\ j \in 1..Len(timeStamps) /\ stamps[j] = timeStamps[j] /\ stamps[k] = id
      BY <1>1, <1>2, <1>5, <2>2 DEF StreamInv
    <3>4. last \in Stamp /\ stamps[j] \in Stamp  BY <3>1
    <3>2. ~Str!Below(last, stamps[j])
      <4>1. CASE j = Len(timeStamps)  BY <3>1, <3>4, <4>1, NotBelow
      <4>2. CASE j < Len(timeStamps)  BY <3>1, <4>2 DEF StreamInv, Str!StampsSorted
      <4> QED BY <3>1, <4>1, <4>2
    <3>3. ~Str!Below(id, last)  BY <1>1, <3>1
    <3> HIDE DEF last
    <3> QED BY <1>1, <3>1, <3>2, <3>3, <3>4, NotBelow
  <2> QED BY <1>2, <2>1, <2>2 DEF StreamInv
<1>6. timeStamps' \in Seq(Stamp) /\ Len(timeStamps') = Len(stamps) - n
      /\ \A k \in 1..Len(timeStamps') : timeStamps'[k] = stamps[k + n]
  <2> PICK q : q = timeStamps'  OBVIOUS
  <2>1. n \in 0 .. Len(stamps) /\ q = SubSeq(stamps, n + 1, Len(stamps))  BY <1>2, <1>3, <1>4, SMTT(20)
  <2>a. stamps \in Seq(Stamp)  BY <1>2
  <2>2. q \in Seq(Stamp) /\ Len(q) = Len(stamps) - n /\ \A k \in 1 .. Len(q) : q[k] = stamps[k + n]
    BY ONLY <2>a, <2>1, Suffix
  <2> QED BY <2>2, Zenon
<1>7. Str!StampsSorted'
  <2> SUFFICES ASSUME NEW j \in 1 .. Len(timeStamps'), NEW k \in 1 .. Len(timeStamps'), j < k
               PROVE  ~Str!Below(timeStamps'[k], timeStamps'[j])
    BY <1>6 DEF Str!StampsSorted, Str!Below
  <2>1. j + n \in 1 .. Len(stamps) /\ k + n \in 1 .. Len(stamps) /\ j + n < k + n
    BY <1>2, <1>3, <1>6
  <2>2. timeStamps'[k] = stamps[k + n] /\ timeStamps'[j] = stamps[j + n]  BY <1>6, Zenon
  <2> QED BY <1>5, <2>1, <2>2, ZenonT(30)
<1> QED BY <1>4, <1>6, <1>7, Zenon DEF StreamInv

\* The IDs of a stream never fall, whatever the clock, the IDs given and the trimming
\* (stream_struct.go, AddEntry and DropFirstN).
THEOREM StreamOrdered == ASSUME StreamConstants PROVE Str!Spec => []Str!StampsSorted
<1>1. Str!Init => StreamInv  BY DEF Str!Init, StreamInv, Str!StampsSorted, Stamp
<1>2. StreamInv /\ [Str!Next]_Str!vars => StreamInv'
  <2> SUFFICES ASSUME StreamInv, [Str!Next]_Str!vars PROVE StreamInv'  OBVIOUS
  <2>1. CASE Str!Tick  BY <2>1 DEF Str!Tick, StreamInv, Str!StampsSorted
  <2>2. CASE UNCHANGED Str!vars  BY <2>2 DEF Str!vars, StreamInv, Str!StampsSorted
  <2> QED BY <2>1, <2>2, XAddKeeps DEF Str!Next
<1>3. StreamInv => Str!StampsSorted  BY DEF StreamInv
<1> QED BY <1>1, <1>2, <1>3, PTL DEF Str!Spec
=============================================================================
