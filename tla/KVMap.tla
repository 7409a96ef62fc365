-------------------------------- MODULE KVMap --------------------------------
(***************************************************************************)
(* What a concurrent map promises: every call on one key takes effect in   *)
(* one step between its invocation and its return.  ConcurrentMap          *)
(* implements it.                                                          *)
(***************************************************************************)
CONSTANTS Proc, Key, Value, Null

VARIABLES kv,     \* key to value or Null
          call    \* what each caller is doing

KeyOps == {"set", "setifexist", "setifnotexist", "delete", "get"}
KeyCall == [op : KeyOps, key : Key, val : Value \cup {Null}]

Idle == [at |-> "idle"]
Called(o) == [at |-> "called", o |-> o]
Done(ret) == [at |-> "done", ret |-> ret]

Init ==
    /\ kv = [k \in Key |-> Null]
    /\ call = [p \in Proc |-> Idle]

Invoke(p) ==
    /\ call[p] = Idle
    /\ \E o \in KeyCall : call' = [call EXCEPT ![p] = Called(o)]
    /\ UNCHANGED kv

\* The value the call leaves at its key, and its result.
After(o) ==
    CASE o.op = "set" -> o.val
      [] o.op = "setifexist" -> IF kv[o.key] = Null THEN Null ELSE o.val
      [] o.op = "setifnotexist" -> IF kv[o.key] = Null THEN o.val ELSE kv[o.key]
      [] o.op = "delete" -> Null
      [] o.op = "get" -> kv[o.key]

Answer(o) ==
    CASE o.op \in {"set", "setifnotexist"} -> IF kv[o.key] = Null THEN 1 ELSE 0
      [] o.op \in {"setifexist", "delete"} -> IF kv[o.key] = Null THEN 0 ELSE 1
      [] o.op = "get" -> kv[o.key]

Effect(p) ==
    /\ call[p].at = "called"
    /\ kv' = [kv EXCEPT ![call[p].o.key] = After(call[p].o)]
    /\ call' = [call EXCEPT ![p] = Done(Answer(call[p].o))]

Return(p) ==
    /\ call[p].at = "done"
    /\ call' = [call EXCEPT ![p] = Idle]
    /\ UNCHANGED kv

Next == \E p \in Proc : Invoke(p) \/ Effect(p) \/ Return(p)

vars == <<kv, call>>

Spec == Init /\ [][Next]_vars
=============================================================================
