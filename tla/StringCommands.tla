--------------------------- MODULE StringCommands ----------------------------
(***************************************************************************)
(* memdb/string.go between lock and unlock.  A string is the integer it    *)
(* spells, or -1; integers are taken modulo IntRange, as int64 arithmetic  *)
(* wraps.  The increments read the value in one step and write it back in  *)
(* another, as their handlers do with db.Get and db.Set.                   *)
(***************************************************************************)
EXTENDS KeyCommands

NotAnInt == -1
String(n) == [type |-> "string", n |-> n]
IsString(v) == v # Null /\ v.type = "string"

getString(p) == Read(p, {"get"})
getRangeString(p) == Read(p, {"getrange"})
mGetString(p) == Read(p, {"mget"})
strLenString(p) == Read(p, {"strlen"})

\* SET refuses another type; NX and XX decide whether the value is written;
\* then, written or not, the TTL is dropped unless KEEPTTL ("keep") was given
\* and a new one set with EX, PX or EXAT ("ex"; "keepex" for PX or EXAT with
\* KEEPTTL).
SetApplies(cond, v) ==
    \/ cond = "none"
    \/ cond = "nx" /\ v = Null
    \/ cond = "xx" /\ v # Null

AfterSet(ttl) ==
    CASE ttl = "keep" -> "unlock" [] ttl = "keepex" -> "setttl" [] OTHER -> "delttl"

setString(p) ==
    LET v == db[Cur(p)] IN
    /\ Body(p, "set")
    /\ IF v # Null /\ ~IsString(v)
       THEN Goto(p, "unlock") /\ UNCHANGED db
       ELSE /\ IF SetApplies(fr[p].m.cond, v)
               THEN \E a \in StringVal : db' = [db EXCEPT ![Cur(p)] = a]
               ELSE UNCHANGED db
            /\ Goto(p, AfterSet(fr[p].m.ttl))
    /\ UNCHANGED <<now, ttlKeys, closed, held, fr>>

setExString(p) ==
    /\ Body(p, "setex")
    /\ \E a \in StringVal : db' = [db EXCEPT ![Cur(p)] = a]
    /\ Goto(p, "setttl")
    /\ UNCHANGED <<now, ttlKeys, closed, held, fr>>

setNxString(p) ==
    /\ Body(p, "setnx")
    /\ IF db[Cur(p)] = Null
       THEN \E a \in StringVal : db' = [db EXCEPT ![Cur(p)] = a]
       ELSE UNCHANGED db
    /\ Goto(p, "unlock")
    /\ UNCHANGED <<now, ttlKeys, closed, held, fr>>

\* MSET: for every key DelTTL and then db.Set, all under LockMulti.
mSetString(p) ==
    /\ Body(p, "mset")
    /\ Goto(p, "delttl")
    /\ UNCHANGED <<data, fr>>

mSetWrite(p) ==
    /\ At(p, "write") /\ Op(p) = "mset"
    /\ \E a \in StringVal : db' = [db EXCEPT ![Cur(p)] = a]
    /\ IF Len(fr[p].todo) = 1
       THEN Goto(p, "unlock") /\ UNCHANGED fr
       ELSE Goto(p, "delttl") /\ fr' = [fr EXCEPT ![p].todo = Tail(@)]
    /\ UNCHANGED <<now, ttlKeys, closed, held>>

\* SETRANGE, APPEND and INCRBYFLOAT write back a string that may spell anything.
\* INCRBYFLOAT leaves a string that is no float as it was: no integer.
ExtendString(p, op) ==
    /\ Body(p, op)
    /\ IF db[Cur(p)] = Null \/ IsString(db[Cur(p)])
       THEN \E a \in StringVal : db' = [db EXCEPT ![Cur(p)] = a]
       ELSE UNCHANGED db
    /\ Goto(p, "unlock")
    /\ UNCHANGED <<now, ttlKeys, closed, held, fr>>

setRangeString(p) == ExtendString(p, "setrange")
appendString(p) == ExtendString(p, "append")

\* Mutant: a value that is there counts as 0 too.
ReadNothing(p, op) ==
    /\ Body(p, op)
    /\ IF db[Cur(p)] = Null \/ (IsString(db[Cur(p)]) /\ db[Cur(p)].n # NotAnInt)
       THEN Goto(p, "write") /\ fr' = [fr EXCEPT ![p].old = Null]
       ELSE Goto(p, "unlock") /\ UNCHANGED fr
    /\ UNCHANGED data

\* db.Get of the increments: a missing key counts as 0; another type or a
\* string that is no integer is an error.
ReadInt(p, op) ==
    /\ Body(p, op)
    /\ IF db[Cur(p)] = Null \/ (IsString(db[Cur(p)]) /\ db[Cur(p)].n # NotAnInt)
       THEN Goto(p, "write") /\ fr' = [fr EXCEPT ![p].old = db[Cur(p)]]
       ELSE Goto(p, "unlock") /\ UNCHANGED fr
    /\ UNCHANGED data

Wrap(n) == n % IntRange

\* ... and their db.Set.  INCRBY and DECRBY add any int64, INCR and DECR one.
WriteInt(p, op, deltas) ==
    /\ At(p, "write") /\ Op(p) = op
    /\ \E d \in deltas :
          LET n == IF fr[p].old = Null THEN 0 ELSE fr[p].old.n
          IN  db' = [db EXCEPT ![Cur(p)] = String(Wrap(n + d))]
    /\ Goto(p, "unlock")
    /\ UNCHANGED <<now, ttlKeys, closed, held, fr>>

AnyInt == 0 .. IntRange - 1

incrString(p) == ReadInt(p, "incr") \/ WriteInt(p, "incr", {1})
decrString(p) == ReadInt(p, "decr") \/ WriteInt(p, "decr", {-1})
incrByString(p) == ReadInt(p, "incrby") \/ WriteInt(p, "incrby", AnyInt)
decrByString(p) == ReadInt(p, "decrby") \/ WriteInt(p, "decrby", AnyInt)

incrByFloatString(p) == ExtendString(p, "incrbyfloat")

StringCommand(p) ==
    \/ getString(p) \/ getRangeString(p) \/ mGetString(p) \/ strLenString(p)
    \/ setString(p) \/ setExString(p) \/ setNxString(p)
    \/ mSetString(p) \/ mSetWrite(p) \/ setRangeString(p) \/ appendString(p)
    \/ incrString(p) \/ decrString(p) \/ incrByString(p) \/ decrByString(p)
    \/ incrByFloatString(p)
=============================================================================
