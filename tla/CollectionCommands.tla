------------------------- MODULE CollectionCommands --------------------------
(***************************************************************************)
(* memdb/list.go, sets.go, hash.go, sorted_set.go and stream.go between    *)
(* lock and unlock, as far as the keyspace sees them: which key gets or    *)
(* loses a value of which type, and whether a collection is left empty.    *)
(* For a list "empty" is its field Len, which is what the handlers test.   *)
(* SDIFF, SINTER, SUNION and their STORE forms are not here.               *)
(***************************************************************************)
EXTENDS StringCommands

Collection(type, n) == [type |-> type, n |-> n]
Is(type, k) == db[k] # Null /\ db[k].type = type

Put(p, v) ==
    /\ db' = [db EXCEPT ![Cur(p)] = v]
    /\ Goto(p, "unlock")
    /\ UNCHANGED <<now, ttlKeys, closed, held, fr>>

\* Nothing to do, or WRONGTYPE: the handler returns.
Return(p) == Goto(p, "unlock") /\ UNCHANGED <<data, fr>>

\* Add elements, to a new collection if there is none.
Grow(p, op, type) ==
    /\ Body(p, op)
    /\ IF db[Cur(p)] = Null \/ Is(type, Cur(p))
       THEN Put(p, Collection(type, 1))
       ELSE Return(p)

\* Add elements to an existing collection.
GrowX(p, op, type) ==
    /\ Body(p, op)
    /\ IF Is(type, Cur(p)) THEN Put(p, Collection(type, 1)) ELSE Return(p)

\* Mutant: the emptied collection goes, its TTL stays.
DropKeepsTTL(p) ==
    /\ db' = [db EXCEPT ![Cur(p)] = Null]
    /\ Goto(p, "unlock")
    /\ UNCHANGED <<now, ttlKeys, closed, held, fr>>

\* db.Delete of the deferred function that removes an emptied collection; its
\* DelTTL follows.
Drop(p) ==
    /\ db' = [db EXCEPT ![Cur(p)] = Null]
    /\ Goto(p, "delttl")
    /\ UNCHANGED <<now, ttlKeys, closed, held, fr>>

\* Remove elements; a collection left empty is deleted with its TTL.
Shrink(p, op, type) ==
    /\ Body(p, op)
    /\ IF Is(type, Cur(p))
       THEN Drop(p) \/ (db[Cur(p)].n = 1 /\ Return(p))
       ELSE Return(p)

-----------------------------------------------------------------------------
(* list.go *)

lLenIndexPosList(p) == Read(p, {"llen", "lindex", "lpos"})
lRangeList(p) == Read(p, {"lrange"})
lPopList(p) == Shrink(p, "lpop", "list")
rPopList(p) == Shrink(p, "rpop", "list")
lPushList(p) == Grow(p, "lpush", "list")
lPushXList(p) == GrowX(p, "lpushx", "list")
rPushList(p) == Grow(p, "rpush", "list")
rPushXList(p) == GrowX(p, "rpushx", "list")
lSetList(p) == Body(p, "lset") /\ Return(p)

\* RemoveElement does not count Len down: LREM deletes only a key whose list
\* was already empty.
lRemList(p) ==
    /\ Body(p, "lrem")
    /\ IF Is("list", Cur(p)) /\ db[Cur(p)].n = 0 THEN Drop(p) ELSE Return(p)

lTrimList(p) == Shrink(p, "ltrim", "list")

\* LMOVE from keys[1] to keys[2], which may be the same; an emptied source is
\* deleted.
lMoveList(p) ==
    LET src == fr[p].m.keys[1]
        des == fr[p].m.keys[2]
    IN
    /\ Body(p, "lmove")
    /\ IF ~Is("list", src) THEN Return(p)
       ELSE IF db[src].n = 0 THEN Drop(p)
       ELSE IF db[des] # Null /\ ~Is("list", des) THEN Return(p)
       ELSE \E n \in IF src = des THEN {1} ELSE {0, 1} :
              /\ db' = [db EXCEPT ![src] = IF n = 0 THEN Null ELSE @,
                                  ![des] = Collection("list", 1)]
              /\ Goto(p, IF n = 0 THEN "delttl" ELSE "unlock")
              /\ UNCHANGED <<now, ttlKeys, closed, held, fr>>

\* BLPOP and BRPOP on the key they have reached: a pop keeps the key even if
\* it takes the last element.
bXPopList(p) ==
    /\ Body(p, "blpop")
    /\ IF Is("list", Cur(p)) /\ db[Cur(p)].n = 1
       THEN /\ \E n \in {0, 1} : db' = [db EXCEPT ![Cur(p)].n = n]
            /\ fr' = [fr EXCEPT ![p].old = db[Cur(p)]]
            /\ Goto(p, "unlock")
            /\ UNCHANGED <<now, ttlKeys, closed, held>>
       ELSE Return(p)

\* The select of BLPOP: the timer ends the command, the ticker starts a round.
bXPopSelect(p) ==
    /\ At(p, "poll")
    /\ \/ Finish(p)
       \/ Goto(p, "lock") /\ fr' = [fr EXCEPT ![p].todo = fr[p].m.keys]
    /\ UNCHANGED data

ListCommand(p) ==
    \/ lLenIndexPosList(p) \/ lRangeList(p) \/ lPopList(p) \/ rPopList(p)
    \/ lPushList(p) \/ lPushXList(p) \/ rPushList(p) \/ rPushXList(p)
    \/ lSetList(p) \/ lRemList(p) \/ lTrimList(p) \/ lMoveList(p)
    \/ bXPopList(p) \/ bXPopSelect(p)

-----------------------------------------------------------------------------
(* sets.go *)

sAddSet(p) == Grow(p, "sadd", "set")
sCardSet(p) == Read(p, {"scard"})
sIsMemberMembersSet(p) == Read(p, {"sismember", "smembers"})
sRandMemberSet(p) == Read(p, {"srandmember"})
sRemSet(p) == Shrink(p, "srem", "set")

\* SPOP with count 0 returns before the emptiness test is deferred.
sPopSet(p) == Shrink(p, "spop", "set") \/ (Body(p, "spop") /\ Return(p))

\* SMOVE from keys[2] to keys[1], the order of its two CheckTTL calls.  An
\* emptied source stays.
sMoveSet(p) ==
    LET des == fr[p].m.keys[1]
        src == fr[p].m.keys[2]
    IN
    /\ Body(p, "smove")
    /\ \/ Return(p)
       \/ /\ Is("set", src) /\ db[src].n = 1
          /\ db[des] = Null \/ Is("set", des)
          /\ \E n \in {0, 1} :
                db' = [db EXCEPT ![src] = Collection("set", n), ![des] = Collection("set", 1)]
          /\ Goto(p, "unlock")
          /\ UNCHANGED <<now, ttlKeys, closed, held, fr>>

SetCommand(p) ==
    \/ sAddSet(p) \/ sCardSet(p) \/ sIsMemberMembersSet(p) \/ sRandMemberSet(p)
    \/ sRemSet(p) \/ sPopSet(p) \/ sMoveSet(p)

-----------------------------------------------------------------------------
(* hash.go *)

hDelHash(p) == Shrink(p, "hdel", "hash")
hExistsGetGetAllHash(p) == Read(p, {"hexists", "hget", "hgetall"})
hIncrByHash(p) == Grow(p, "hincrby", "hash")
hIncrByFloatHash(p) == Grow(p, "hincrbyfloat", "hash")
hKeysLenMGetHash(p) == Read(p, {"hkeys", "hlen", "hmget"})
hSetHash(p) == Grow(p, "hset", "hash")
hSetNxHash(p) == Grow(p, "hsetnx", "hash")
hValsStrLenRandFieldHash(p) == Read(p, {"hvals", "hstrlen", "hrandfield"})

HashCommand(p) ==
    \/ hDelHash(p) \/ hExistsGetGetAllHash(p) \/ hIncrByHash(p) \/ hIncrByFloatHash(p)
    \/ hKeysLenMGetHash(p) \/ hSetHash(p) \/ hSetNxHash(p) \/ hValsStrLenRandFieldHash(p)

-----------------------------------------------------------------------------
(* sorted_set.go and stream.go: no CheckTTL, the exclusive lock for reads too *)

\* ZADD creates the sorted set before it looks at the scores: XX, or a score
\* that is no number, can leave a new set empty.
zadd(p) ==
    /\ Body(p, "zadd")
    /\ IF db[Cur(p)] = Null
       THEN \E n \in {0, 1} : Put(p, Collection("zset", n))
       ELSE IF Is("zset", Cur(p))
       THEN \E n \in {db[Cur(p)].n, 1} : Put(p, Collection("zset", n))
       ELSE Return(p)

zrange(p) == Body(p, "zrange") /\ Return(p)
zrank(p) == Body(p, "zrank") /\ Return(p)

\* ZREM leaves an emptied sorted set in place.
zrem(p) ==
    /\ Body(p, "zrem")
    /\ IF Is("zset", Cur(p))
       THEN \E n \in 0 .. db[Cur(p)].n : Put(p, Collection("zset", n))
       ELSE Return(p)

\* XADD: NOMKSTREAM, or an ID that is not above the last one, adds nothing;
\* MAXLEN 0 trims the stream to nothing.
xadd(p) ==
    /\ Body(p, "xadd")
    /\ \/ Return(p)
       \/ /\ db[Cur(p)] = Null \/ Is("stream", Cur(p))
          /\ \E n \in {0, 1} : Put(p, Collection("stream", n))

\* XRANGE on a missing key creates an empty stream.
xrange(p) ==
    /\ Body(p, "xrange")
    /\ IF db[Cur(p)] = Null THEN Put(p, Collection("stream", 0)) ELSE Return(p)

SortedSetCommand(p) == zadd(p) \/ zrange(p) \/ zrem(p) \/ zrank(p)
StreamCommand(p) == xadd(p) \/ xrange(p)

CollectionCommand(p) ==
    ListCommand(p) \/ SetCommand(p) \/ HashCommand(p) \/ SortedSetCommand(p) \/ StreamCommand(p)
=============================================================================
