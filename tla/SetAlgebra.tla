----------------------------- MODULE SetAlgebra ------------------------------
(***************************************************************************)
(* memdb/sets.go: SDIFF, SINTER, SUNION and their STORE forms, which read  *)
(* several keys under shared locks and write another key later, while      *)
(* other commands change any of them.  A command of another client on one  *)
(* key is one step, which needs the stripe of its key to be free; CheckTTL *)
(* looks without the lock and deletes under it, as in Keyspace.            *)
(***************************************************************************)
EXTENDS Integers, Sequences, FiniteSets

CONSTANTS Client,    \* goroutines that run the commands of this module
          Key, Member,
          Stripe, KeyPos,
          Command,   \* the commands: [op, des, keys]
          Null,      \* no value
          Other      \* a value that is not a set

VARIABLES db,        \* key to a set of members, Other or Null
          ttl,       \* key to "none", "live" or "due"
          held,      \* the lock table
          pc, fr     \* where each client is, and its local variables

vars == <<db, ttl, held, pc, fr>>

Table == INSTANCE LockTable WITH Proc <- Client

Stores == {"sdiffstore", "sinterstore", "sunionstore"}
Diffs == {"sdiff", "sdiffstore"}
Inters == {"sinter", "sinterstore"}

\* SDIFF and SINTER ignore the answer of CheckTTL; the others leave out a key
\* that has expired.
KeepExpired == {"sdiff", "sinter"}

IsSet(v) == v # Null /\ v # Other

\* Locals: the command, the sources to check, those to read, the sets read so
\* far (by position in keys), and the result.
Begun(m, todo) == [m |-> m, todo |-> todo, keys |-> <<>>, sets |-> <<>>, res |-> {}]
Idle == Begun(Null, <<>>)

Init ==
    /\ db = [k \in Key |-> Null]
    /\ ttl = [k \in Key |-> "none"]
    /\ Table!Init
    /\ pc = [c \in Client |-> "idle"]
    /\ fr = [c \in Client |-> Idle]

At(c, label) == pc[c] = label
Goto(c, label) == pc' = [pc EXCEPT ![c] = label]
Op(c) == fr[c].m.op
Des(c) == fr[c].m.des
Poses(keys) == {KeyPos[keys[i]] : i \in DOMAIN keys}
Leave(c) == Goto(c, "idle") /\ fr' = [fr EXCEPT ![c] = Idle]

Free(k) == \A c \in Client : KeyPos[k] \notin held[c].poses

Start(c, m) ==
    /\ At(c, "idle")
    /\ fr' = [fr EXCEPT ![c] = Begun(m, m.keys)]
    /\ Goto(c, IF m.op \in Stores THEN "descheck" ELSE "check")
    /\ UNCHANGED <<db, ttl, held>>

\* CheckTTL(desKey), before the sources are read and again before the store.
DesCheck(c) ==
    /\ At(c, "descheck") \/ At(c, "recheck")
    /\ Goto(c, IF ttl[Des(c)] = "due" THEN IF At(c, "descheck") THEN "desexpire" ELSE "reexpire"
               ELSE IF At(c, "descheck") THEN "desget" ELSE "deslock")
    /\ UNCHANGED <<db, ttl, held, fr>>

Expired(k) == Free(k) /\ db' = [db EXCEPT ![k] = Null] /\ ttl' = [ttl EXCEPT ![k] = "none"]

DesExpire(c) ==
    /\ At(c, "desexpire") \/ At(c, "reexpire")
    /\ Expired(Des(c))
    /\ Goto(c, IF At(c, "desexpire") THEN "desget" ELSE "deslock")
    /\ UNCHANGED <<held, fr>>

\* db.Get(desKey) without a lock: WRONGTYPE if it is no set.
DesGet(c) ==
    /\ At(c, "desget")
    /\ IF db[Des(c)] = Other THEN Leave(c) ELSE Goto(c, "check") /\ UNCHANGED fr
    /\ UNCHANGED <<db, ttl, held>>

\* The loop of CheckTTL over the sources.
SourceKept(c, kept) ==
    /\ fr' = [fr EXCEPT ![c].todo = Tail(@),
                        ![c].keys = IF kept THEN Append(@, Head(fr[c].todo)) ELSE @]
    /\ Goto(c, "check")

Check(c) ==
    /\ At(c, "check") /\ fr[c].todo # <<>>
    /\ IF ttl[Head(fr[c].todo)] = "due"
       THEN Goto(c, "expire") /\ UNCHANGED fr
       ELSE SourceKept(c, TRUE)
    /\ UNCHANGED <<db, ttl, held>>

Expire(c) ==
    /\ At(c, "expire")
    /\ Expired(Head(fr[c].todo))
    /\ SourceKept(c, Op(c) \in KeepExpired)
    /\ UNCHANGED held

NoSources(c) ==
    /\ At(c, "check") /\ fr[c].todo = <<>> /\ fr[c].keys = <<>>
    /\ Leave(c)
    /\ UNCHANGED <<db, ttl, held>>

\* Mutant: only the stripe of the first source is locked.
RLockFirst(c) ==
    /\ At(c, "check") /\ fr[c].todo = <<>> /\ fr[c].keys # <<>>
    /\ Table!Acquire(c, {KeyPos[fr[c].keys[1]]}, "R")
    /\ Goto(c, "read")
    /\ UNCHANGED <<db, ttl, fr>>

RLockMulti(c) ==
    /\ At(c, "check") /\ fr[c].todo = <<>> /\ fr[c].keys # <<>>
    /\ Table!Acquire(c, Poses(fr[c].keys), "R")
    /\ Goto(c, "read")
    /\ UNCHANGED <<db, ttl, fr>>

\* The loop over the sources ends; the differences stop at a missing first key.
ReadAll(c) ==
    \/ Len(fr[c].sets) = Len(fr[c].keys)
    \/ Op(c) \in Diffs /\ fr[c].sets # <<>> /\ fr[c].sets[1] = Null

\* One db.Get of the loop: Null stands for a missing key.
Read(c) ==
    LET n == Len(fr[c].sets) + 1
        v == db[fr[c].keys[n]]
    IN
    /\ At(c, "read") /\ ~ReadAll(c)
    /\ IF v = Other
       THEN Leave(c) /\ Table!Release(c)
       ELSE /\ fr' = [fr EXCEPT ![c].sets = Append(@, v)]
            /\ UNCHANGED <<held, pc>>
    /\ UNCHANGED <<db, ttl>>

\* Set.Union, Set.Difference and Set.Intersect of the sets that were found.
Found(sets) == {i \in DOMAIN sets : sets[i] # Null}

Result(op, sets) ==
    IF op \in Diffs
    THEN IF sets[1] = Null THEN {}
         ELSE sets[1] \ UNION {sets[i] : i \in Found(sets) \ {1}}
    ELSE IF op \in Inters
    THEN {x \in Member : \A i \in Found(sets) : x \in sets[i]}
    ELSE UNION {sets[i] : i \in Found(sets)}

\* After the loop: SINTER and SINTERSTORE index an empty slice when no
\* source exists, the unions return.  RUnLockMulti, deferred or called, ends it.
Compute(c) ==
    LET sets == fr[c].sets IN
    /\ At(c, "read") /\ ReadAll(c)
    /\ IF Found(sets) = {} /\ Op(c) \in Inters
       THEN Goto(c, "panic") /\ UNCHANGED <<fr, held>>
       ELSE /\ Table!Release(c)
            /\ IF Op(c) \notin Stores \/ (Found(sets) = {} /\ Op(c) = "sunionstore")
               THEN Leave(c)
               ELSE Goto(c, "recheck") /\ fr' = [fr EXCEPT ![c].res = Result(Op(c), sets)]
    /\ UNCHANGED <<db, ttl>>

\* Lock(desKey); SUNIONSTORE calls UnLock in the next line, not deferred.
DesLock(c) ==
    /\ At(c, "deslock")
    /\ IF Op(c) = "sunionstore"
       THEN Free(Des(c)) /\ UNCHANGED held
       ELSE Table!Acquire(c, {KeyPos[Des(c)]}, "W")
    /\ Goto(c, "destest")
    /\ UNCHANGED <<db, ttl, fr>>

UnLock(c) == held' = [held EXCEPT ![c] = Table!Nothing]

\* The second test of the destination; an empty result is not stored.
DesTest(c) ==
    /\ At(c, "destest")
    /\ IF db[Des(c)] = Other \/ fr[c].res = {}
       THEN Leave(c) /\ UnLock(c)
       ELSE Goto(c, "store") /\ UNCHANGED <<fr, held>>
    /\ UNCHANGED <<db, ttl>>

Store(c) ==
    /\ At(c, "store")
    /\ db' = [db EXCEPT ![Des(c)] = fr[c].res]
    /\ Leave(c) /\ UnLock(c)
    /\ UNCHANGED ttl

Step(c) ==
    \/ DesCheck(c) \/ DesExpire(c) \/ DesGet(c) \/ Check(c) \/ Expire(c) \/ NoSources(c)
    \/ RLockMulti(c) \/ Read(c) \/ Compute(c) \/ DesLock(c) \/ DesTest(c) \/ Store(c)

-----------------------------------------------------------------------------
(* Other clients: each of these runs between lock and unlock of its key *)

SAdd(k, x) ==
    /\ Free(k) /\ db[k] # Other
    /\ db' = [db EXCEPT ![k] = IF @ = Null THEN {x} ELSE @ \cup {x}]
    /\ UNCHANGED <<ttl, held, pc, fr>>

\* SREM deletes a set that it empties.
SRem(k, x) ==
    /\ Free(k) /\ IsSet(db[k]) /\ x \in db[k]
    /\ db' = [db EXCEPT ![k] = IF @ = {x} THEN Null ELSE @ \ {x}]
    /\ ttl' = [ttl EXCEPT ![k] = IF db[k] = {x} THEN "none" ELSE @]
    /\ UNCHANGED <<held, pc, fr>>

SetString(k) ==
    /\ Free(k)
    /\ db' = [db EXCEPT ![k] = Other] /\ ttl' = [ttl EXCEPT ![k] = "none"]
    /\ UNCHANGED <<held, pc, fr>>

ExpireKey(k) ==
    /\ Free(k) /\ db[k] # Null
    /\ ttl' = [ttl EXCEPT ![k] = "live"]
    /\ UNCHANGED <<db, held, pc, fr>>

\* Time passes; the timer goroutine may be late.
Due(k) ==
    /\ ttl[k] = "live"
    /\ ttl' = [ttl EXCEPT ![k] = "due"]
    /\ UNCHANGED <<db, held, pc, fr>>

Del(k) == Expired(k) /\ UNCHANGED <<held, pc, fr>>

Others ==
    \E k \in Key :
        \/ \E x \in Member : SAdd(k, x) \/ SRem(k, x)
        \/ SetString(k) \/ ExpireKey(k) \/ Due(k) \/ Del(k)

\* A panic ends the server.
Next ==
    /\ \A c \in Client : ~At(c, "panic")
    /\ \/ \E c \in Client, m \in Command : Start(c, m)
       \/ \E c \in Client : Step(c)
       \/ Others

Spec == Init /\ [][Next]_vars

-----------------------------------------------------------------------------
(* Properties *)

\* The result of a set operation is that of one moment: when the loop over the
\* sources ends, what was read one key after the other is what they all hold,
\* because RLockMulti has kept the writers of every source out.
ReadsSnapshot ==
    \A c \in Client : At(c, "read") /\ pc'[c] = "recheck" =>
        fr'[c].res = Result(Op(c), [i \in DOMAIN fr[c].keys |-> db[fr[c].keys[i]]])

\* "have to check again, because the key may be set by other goroutine": a
\* STORE never replaces a value that is not a set.
KeepsOtherTypes == \A k \in Key : db[k] = Other => ~IsSet(db'[k])

\* Both, for the commands that keep the lock of the destination until they have
\* stored: SUNIONSTORE, which does not, may break either for another command.
SetCommandsAtomic == [][ReadsSnapshot /\ KeepsOtherTypes]_vars
=============================================================================
