----------------------------- MODULE KeyCommands -----------------------------
(***************************************************************************)
(* memdb/keys.go: what each key command does between its lock call and its *)
(* unlock.  The calls of CheckTTL before the lock, and the rest of SetTTL  *)
(* and DelTTL after the step that enters them, are steps of Keyspace.      *)
(* KEYS takes no lock: it is CheckTTL on every key, begun by ExecCommand.  *)
(***************************************************************************)
EXTENDS Keyspace

\* A handler that only looks: its reply is not part of the state.
Read(p, ops) ==
    /\ At(p, "body") /\ Op(p) \in ops
    /\ Goto(p, "unlock")
    /\ UNCHANGED <<data, fr>>

existsKey(p) == Read(p, {"exists"})
ttlKey(p) == Read(p, {"ttl"})
typeKey(p) == Read(p, {"type"})

\* Mutant: DEL forgets the TTL.
DelKeepsTTL(p) ==
    /\ Body(p, "del")
    /\ db' = [db EXCEPT ![Cur(p)] = Null]
    /\ Goto(p, "unlock")
    /\ UNCHANGED <<now, ttlKeys, closed, held, fr>>

\* DEL leaves the timer of the key running: its cancel channel stays open.
delKey(p) ==
    /\ Body(p, "del")
    /\ db' = [db EXCEPT ![Cur(p)] = Null]
    /\ ttlKeys' = [ttlKeys EXCEPT ![Cur(p)] = Null]
    /\ Goto(p, "unlock")
    /\ UNCHANGED <<now, closed, held, fr>>

\* Does EXPIRE with option cond go on to SetTTL, on a key whose TTL is t?
ExpireApplies(cond, t, at) ==
    \/ cond = "none"
    \/ cond = "nx" /\ t = Null
    \/ cond = "xx" /\ t # Null
    \/ cond = "gt" /\ t # Null /\ at > t.value
    \/ cond = "lt" /\ t # Null /\ at < t.value

expireKey(p) ==
    /\ Body(p, "expire")
    /\ IF ExpireApplies(fr[p].m.cond, ttlKeys[Cur(p)], fr[p].at)
       THEN Goto(p, "setttl")
       ELSE Goto(p, "unlock")
    /\ UNCHANGED <<data, fr>>

persistKey(p) ==
    /\ Body(p, "persist")
    /\ Goto(p, "delttl")
    /\ UNCHANGED <<data, fr>>

\* The old name is removed, then the new one written; no timer is cancelled.
renameKey(p) ==
    /\ Body(p, "rename")
    /\ IF db[Cur(p)] = Null
       THEN Goto(p, "unlock") /\ UNCHANGED <<db, ttlKeys, fr>>
       ELSE /\ db' = [db EXCEPT ![Cur(p)] = Null]
            /\ ttlKeys' = [ttlKeys EXCEPT ![Cur(p)] = Null]
            /\ fr' = [fr EXCEPT ![p].old = db[Cur(p)], ![p].todo = Tail(@)]
            /\ Goto(p, "renamed")
    /\ UNCHANGED <<now, closed, held>>

renameSet(p) ==
    /\ At(p, "renamed")
    /\ db' = [db EXCEPT ![Cur(p)] = fr[p].old]
    /\ ttlKeys' = [ttlKeys EXCEPT ![Cur(p)] = Null]
    /\ Goto(p, "unlock")
    /\ UNCHANGED <<now, closed, held, fr>>

KeyCommand(p) ==
    \/ existsKey(p) \/ ttlKey(p) \/ typeKey(p) \/ delKey(p)
    \/ expireKey(p) \/ persistKey(p) \/ renameKey(p) \/ renameSet(p)
=============================================================================
