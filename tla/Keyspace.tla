------------------------------ MODULE Keyspace -------------------------------
(***************************************************************************)
(* memdb/db.go: the state of a MemDb (db, ttlKeys, locks), the routines    *)
(* every command calls (CheckTTL, SetTTL, DelTTL, the lock calls) and the  *)
(* timer goroutines that SetTTL starts.  A process is a client handler or  *)
(* a timer; it takes one step per access to a shared map or lock, so the   *)
(* steps of several processes interleave as the goroutines do.  The bodies *)
(* of the commands are in KeyCommands, StringCommands and                  *)
(* CollectionCommands; MemDb composes them.                                *)
(***************************************************************************)
EXTENDS Integers, Sequences, FiniteSets

CONSTANTS Client,    \* goroutines that run client commands
          Task,      \* pool of timer goroutines; its size bounds the live ones
          Key,       \* keys
          Stripe,    \* indices of MemDb.locks
          GetKeyPos, \* GetKeyPos[k]: the stripe that guards key k
          Lower,     \* strings.ToLower on keys
          Duration,  \* time-to-live arguments, in seconds
          MaxTime,   \* the clock stops here
          IntRange,  \* integer strings are 0 .. IntRange - 1 and wrap around
          Null       \* absent

Proc == Client \cup Task

\* A value is a type and what the commands distinguish of its content: for a
\* string the integer it spells (-1: it spells none), for a collection
\* whether it has elements (1) or has been emptied (0).
CollectionType == {"list", "set", "hash", "zset", "stream"}
StringVal == [type : {"string"}, n : -1 .. IntRange - 1]
CollectionVal == [type : CollectionType, n : {0, 1}]
Val == StringVal \cup CollectionVal

TTLInfo == [value : Int, cancel : Task]

-----------------------------------------------------------------------------
(* Commands: which check the TTL first, which only read *)

\* EXISTS and KEYS check every key in turn; the handlers of IgnoreOps drop the
\* result of CheckTTL and those of ReturnOps return at once when it is false.
\* LMOVE and SMOVE check both keys.  The others (all the string, sorted set
\* and stream commands, LLEN, HDEL, BLPOP) never call CheckTTL.
LoopOps == {"exists", "keys"}
IgnoreOps == {"lpush", "rpush", "lpushx", "rpushx", "sadd", "hset", "hsetnx",
              "hincrby", "hincrbyfloat"}
ReturnOps == {"del", "expire", "persist", "ttl", "type", "rename",
              "lindex", "lpos", "lpop", "rpop", "lset", "lrem", "ltrim", "lrange",
              "scard", "sismember", "smembers", "spop", "srandmember", "srem",
              "hexists", "hget", "hgetall", "hkeys", "hlen", "hmget", "hvals",
              "hstrlen", "hrandfield"}
MoveOps == {"lmove", "smove"}
ChecksTTL == LoopOps \cup IgnoreOps \cup ReturnOps \cup MoveOps

ReadOps == {"exists", "ttl", "type", "get", "getrange", "mget", "strlen",
            "llen", "lindex", "lpos", "lrange",
            "scard", "sismember", "smembers", "srandmember",
            "hexists", "hget", "hgetall", "hkeys", "hlen", "hmget", "hvals",
            "hstrlen", "hrandfield"}
MultiOps == {"rename", "mset"} \cup MoveOps

PlainOps == {"set", "setex", "setnx", "setrange", "append", "incr", "decr", "incrby", "decrby",
             "incrbyfloat", "blpop", "hdel", "zadd", "zrange", "zrem", "zrank", "xadd", "xrange"}
Ops == ChecksTTL \cup ReadOps \cup MultiOps \cup PlainOps \cup {"timer", "none"}

\* A command: its name, keys, and the options that matter to SET and EXPIRE.
Cmd == [op : Ops, keys : Seq(Key), cond : {"none", "nx", "xx", "gt", "lt", "bad"},
        ttl : {"none", "ex", "keep", "keepex"}]
NoCmd == [op |-> "none", keys |-> <<>>, cond |-> "none", ttl |-> "none"]

-----------------------------------------------------------------------------
ASSUME ClientTaskDisjoint == Client \cap Task = {}
ASSUME FiniteKeys == IsFiniteSet(Key)
ASSUME GetKeyPosAssumption == GetKeyPos \in [Key -> Stripe]
ASSUME LowerAssumption == Lower \in [Key -> Key]
ASSUME NumbersAssumption ==
    /\ Duration \subseteq Int /\ 0 \in Duration
    /\ MaxTime \in Nat /\ IntRange \in Nat \ {0}
ASSUME NullAssumption == Null \notin Val /\ Null \notin TTLInfo

VARIABLES now,      \* time.Now().Unix()
          db,       \* MemDb.db: key to value or Null
          ttlKeys,  \* MemDb.ttlKeys: key to TTLInfo or Null
          closed,   \* cancel channels that have been closed, by their timer
          held,     \* MemDb.locks, as module LockTable
          pc,       \* where each process is
          fr        \* its local variables

vars == <<now, db, ttlKeys, closed, held, pc, fr>>
data == <<now, db, ttlKeys, closed, held>>

Table == INSTANCE LockTable

\* Locals: the command, the keys it has still to visit, the TTLInfo or value
\* it has read, and the expiry time it has computed.
IdleFrame == [m |-> NoCmd, todo |-> <<>>, ttl |-> Null, old |-> Null, at |-> 0]
Timer == [NoCmd EXCEPT !.op = "timer"]
TimerFrame(k, at) == [m |-> Timer, todo |-> <<k>>, ttl |-> Null, old |-> Null, at |-> at]

Op(p) == fr[p].m.op
Cur(p) == Head(fr[p].todo)
At(p, label) == pc[p] = label
Body(p, op) == pc[p] = "body" /\ Op(p) = op
Goto(p, label) == pc' = [pc EXCEPT ![p] = label]

Finish(p) == Goto(p, "idle") /\ fr' = [fr EXCEPT ![p] = IdleFrame]

\* On to the next key of a command that treats its keys one by one.
NextKey(p, label) ==
    IF Len(fr[p].todo) = 1
    THEN Finish(p)
    ELSE /\ Goto(p, label)
         /\ fr' = [fr EXCEPT ![p].todo = Tail(@), ![p].ttl = Null]

-----------------------------------------------------------------------------
(* The locks of a command *)

\* Mutants: only the first key of a command is locked; all locks are RLock.
FirstKeyOnly(p) == {Cur(p)}
SharedOnly(p) == "R"

LockKeys(p) ==
    IF Op(p) \in MultiOps THEN {fr[p].m.keys[i] : i \in DOMAIN fr[p].m.keys}
    ELSE {Cur(p)}
LockPoses(p) == {GetKeyPos[k] : k \in LockKeys(p)}
LockMode(p) == IF Op(p) \in ReadOps THEN "R" ELSE "W"

\* The lock call of a handler: Lock, RLock or LockMulti.
Lock(p) ==
    /\ At(p, "lock")
    /\ Table!Acquire(p, LockPoses(p), LockMode(p))
    /\ Goto(p, "body")
    /\ UNCHANGED <<now, db, ttlKeys, closed, fr>>

\* The deferred unlock, and what the handler does after it: DEL, EXISTS and
\* MGET go on with the next key, BLPOP does so until it has popped an element
\* and then waits for its ticker.
UnLock(p) ==
    /\ At(p, "unlock")
    /\ Table!Release(p)
    /\ CASE Op(p) \in {"del", "mget"} -> NextKey(p, "lock")
         [] Op(p) = "exists" -> NextKey(p, "get")
         [] Op(p) = "blpop" /\ fr[p].old = Null ->
              IF Len(fr[p].todo) = 1 THEN Goto(p, "poll") /\ UNCHANGED fr
              ELSE NextKey(p, "lock")
         [] OTHER -> Finish(p)
    /\ UNCHANGED <<now, db, ttlKeys, closed>>

-----------------------------------------------------------------------------
(* CheckTTL *)

\* The handler has made its calls of CheckTTL and goes on to its lock call.
ToLock(p) ==
    /\ Goto(p, "lock")
    /\ fr' = [fr EXCEPT ![p].ttl = Null, ![p].todo = IF Op(p) \in MoveOps THEN fr[p].m.keys ELSE @]

\* CheckTTL returns true.
CheckTrue(p) ==
    CASE Op(p) = "timer" -> Finish(p)
      [] Op(p) = "keys" -> NextKey(p, "get")
      [] Op(p) \in MoveOps /\ Len(fr[p].todo) > 1 -> NextKey(p, "get")
      [] OTHER -> ToLock(p)

\* CheckTTL returns false: the key was deleted.  LMOVE checks its source first
\* and SMOVE last; both return only if the source has expired.
CheckFalse(p) ==
    CASE Op(p) \in LoopOps -> NextKey(p, "get")
      [] Op(p) \in IgnoreOps -> ToLock(p)
      [] Op(p) = "lmove" /\ Len(fr[p].todo) = 1 -> ToLock(p)
      [] Op(p) = "smove" /\ Len(fr[p].todo) > 1 -> NextKey(p, "get")
      [] OTHER -> Finish(p)

\* ttlKeys.Get, without the lock of the key.
CheckTTLGet(p) ==
    /\ At(p, "get")
    /\ IF ttlKeys[Cur(p)] = Null
       THEN CheckTrue(p)
       ELSE Goto(p, "compare") /\ fr' = [fr EXCEPT ![p].ttl = ttlKeys[Cur(p)]]
    /\ UNCHANGED data

\* The TTLInfo that was read against the clock.
CheckTTLCompare(p) ==
    /\ At(p, "compare")
    /\ IF fr[p].ttl.value > now
       THEN CheckTrue(p)
       ELSE Goto(p, "expire") /\ fr' = [fr EXCEPT ![p].ttl = Null]
    /\ UNCHANGED data

CheckTTLLock(p) ==
    /\ At(p, "expire")
    /\ Table!Acquire(p, {GetKeyPos[Cur(p)]}, "W")
    /\ Goto(p, "expiredb")
    /\ UNCHANGED <<now, db, ttlKeys, closed, fr>>

CheckTTLDelete(p) ==
    /\ At(p, "expiredb")
    /\ db' = [db EXCEPT ![Cur(p)] = Null]
    /\ Goto(p, "expirettl")
    /\ UNCHANGED <<now, ttlKeys, closed, held, fr>>

\* Mutant: the deferred UnLock is missing.
CheckTTLKeepsLock(p) ==
    /\ At(p, "expirettl")
    /\ ttlKeys' = [ttlKeys EXCEPT ![Cur(p)] = Null]
    /\ CheckFalse(p)
    /\ UNCHANGED <<now, db, closed, held>>

CheckTTLReturn(p) ==
    /\ At(p, "expirettl")
    /\ ttlKeys' = [ttlKeys EXCEPT ![Cur(p)] = Null]
    /\ Table!Release(p)
    /\ CheckFalse(p)
    /\ UNCHANGED <<now, db, closed>>

-----------------------------------------------------------------------------
(* SetTTL and DelTTL; the callers hold the lock of the key *)

\* make(chan struct{}) and go: a timer that no TTL refers to.
FreeTask == {t \in Task :
    /\ pc[t] = "idle"
    /\ \A k \in Key : ttlKeys[k] # Null => ttlKeys[k].cancel # t}

\* SetTTL gives up on a missing key, else reads the TTL it will replace.
\* SET computes the expiry time here, EXPIRE and SETEX computed it on entry.
SetTTLGet(p) ==
    /\ At(p, "setttl")
    /\ IF db[Cur(p)] = Null
       THEN Goto(p, "unlock") /\ UNCHANGED fr
       ELSE /\ Goto(p, "setttlclose")
            /\ \E d \in Duration :
                  /\ now + d <= MaxTime
                  /\ fr' = [fr EXCEPT ![p].ttl = ttlKeys[Cur(p)],
                                      ![p].at = IF Op(p) = "set" THEN now + d ELSE @]
    /\ UNCHANGED data

\* close(ttlInfo.cancel) and ttlKeys.Delete for the old TTL, if there is one.
SetTTLClose(p) ==
    /\ At(p, "setttlclose")
    /\ IF fr[p].ttl = Null
       THEN UNCHANGED <<ttlKeys, closed>>
       ELSE /\ closed' = closed \cup {fr[p].ttl.cancel}
            /\ ttlKeys' = [ttlKeys EXCEPT ![Cur(p)] = Null]
    /\ Goto(p, "setttlstart")
    /\ UNCHANGED <<now, db, held, fr>>

\* ttlKeys.Set and the go statement that starts the timer.
SetTTLStart(p) ==
    /\ At(p, "setttlstart")
    /\ \E t \in FreeTask :
          /\ ttlKeys' = [ttlKeys EXCEPT ![Cur(p)] = [value |-> fr[p].at, cancel |-> t]]
          /\ closed' = closed \ {t}
          /\ pc' = [pc EXCEPT ![p] = "unlock", ![t] = "wait"]
          /\ fr' = [fr EXCEPT ![p].ttl = Null, ![p].at = 0, ![t] = TimerFrame(Cur(p), fr[p].at)]
    /\ UNCHANGED <<now, db, held>>

\* What follows DelTTL in the commands that call it.
AfterDelTTL(p) ==
    CASE Op(p) = "set" /\ fr[p].m.ttl = "ex" -> "setttl"
      [] Op(p) = "mset" -> "write"
      [] OTHER -> "unlock"

DelTTLGet(p) ==
    /\ At(p, "delttl")
    /\ IF ttlKeys[Cur(p)] = Null
       THEN Goto(p, AfterDelTTL(p)) /\ UNCHANGED fr
       ELSE Goto(p, "delttlclose") /\ fr' = [fr EXCEPT ![p].ttl = ttlKeys[Cur(p)]]
    /\ UNCHANGED data

\* Mutant: the channel is closed a second time.
DelTTLCloseTwice(p) ==
    /\ At(p, "delttlclose")
    /\ closed' = closed \cup {fr[p].ttl.cancel}
    /\ ttlKeys' = [ttlKeys EXCEPT ![Cur(p)] = Null]
    /\ UNCHANGED <<now, db, held, pc, fr>>

DelTTLClose(p) ==
    /\ At(p, "delttlclose")
    /\ closed' = closed \cup {fr[p].ttl.cancel}
    /\ ttlKeys' = [ttlKeys EXCEPT ![Cur(p)] = Null]
    /\ Goto(p, AfterDelTTL(p))
    /\ fr' = [fr EXCEPT ![p].ttl = Null]
    /\ UNCHANGED <<now, db, held>>

-----------------------------------------------------------------------------
(* The timer goroutine of SetTTL and the clock *)

\* Mutant: the timer goroutine returns without CheckTTL.
TimerFiresIdly(t) ==
    /\ At(t, "wait") /\ fr[t].at <= now
    /\ Finish(t)
    /\ UNCHANGED data

\* case <-time.After(...): the goroutine calls CheckTTL on its key.
TimerFires(t) ==
    /\ At(t, "wait") /\ fr[t].at <= now
    /\ Goto(t, "get")
    /\ UNCHANGED <<data, fr>>

\* case <-cancel; select picks either case when both are ready.
TimerCancelled(t) ==
    /\ At(t, "wait") /\ t \in closed
    /\ Finish(t)
    /\ UNCHANGED data

Tick ==
    /\ now < MaxTime
    /\ now' = now + 1
    /\ UNCHANGED <<db, ttlKeys, closed, held, pc, fr>>

-----------------------------------------------------------------------------
(* Properties *)

Unlocked == {"idle", "get", "compare", "expire", "lock", "poll", "wait"}
Expiring == {"expiredb", "expirettl"}
Closing == {"delttlclose", "setttlclose"}
Storing == {"setttl", "setttlclose", "setttlstart"}
Writing == {"write", "renamed", "delttl"} \cup Closing \cup Storing
Locked == {"body", "unlock"} \cup Writing
Label == Unlocked \cup Expiring \cup Locked

Frame == [m : Cmd, todo : Seq(Key), ttl : TTLInfo \cup {Null}, old : Val \cup {Null}, at : Int]

\* Every variable has its type: the maps of a MemDb hold values and TTLs, a
\* handler is at one of its steps with a well-formed command.
TypeOK ==
    /\ now \in Nat
    /\ db \in [Key -> Val \cup {Null}]
    /\ ttlKeys \in [Key -> TTLInfo \cup {Null}]
    /\ closed \subseteq Task
    /\ held \in [Proc -> Table!Holding]
    /\ pc \in [Proc -> Label]
    /\ fr \in [Proc -> Frame]

\* "locks is used to lock a key for db to ensure some atomic operations": the
\* value and the TTL of a key change only in a step of a goroutine that holds
\* the stripe of the key exclusively, whichever command it runs.
GuardedByLock ==
    [][\A k \in Key :
         db'[k] # db[k] \/ ttlKeys'[k] # ttlKeys[k] =>
           \E p \in Proc : Table!Writes(p, GetKeyPos[k]) /\ pc'[p] # pc[p]]_vars

\* close(cancel) in SetTTL and DelTTL never meets a channel that is already
\* closed, which would panic: no channel is closed by two commands.
NoDoubleClose ==
    \A p \in Proc : pc[p] \in Closing /\ fr[p].ttl # Null => fr[p].ttl.cancel \notin closed

\* ttlKeys follows db: when nobody holds the stripe of a key exclusively, a
\* key with a TTL has a value, so a TTL never outlives what it was set on and
\* is never inherited by a later value.
TTLHasValue ==
    \A k \in Key :
        ttlKeys[k] # Null /\ (\A p \in Proc : ~Table!Writes(p, GetKeyPos[k])) => db[k] # Null

\* Every TTL has its own timer goroutine, on the same key, which has not been
\* cancelled: it waits for the time the TTL says or is already expiring the key.
TimerOf(k) ==
    LET t == ttlKeys[k].cancel IN
    /\ t \notin closed
    /\ pc[t] \in {"wait", "get", "compare", "expire"} \cup Expiring
    /\ Cur(t) = k /\ fr[t].at = ttlKeys[k].value

TTLHasTimer == \A k \in Key : ttlKeys[k] # Null => TimerOf(k)

\* No increment is lost: when INCR, DECR, INCRBY or DECRBY writes, the key
\* still holds the value it has read.
Increment == {"incr", "decr", "incrby", "decrby"}

NoLostUpdate ==
    \A p \in Proc : At(p, "write") /\ Op(p) \in Increment => db[Cur(p)] = fr[p].old
=============================================================================
