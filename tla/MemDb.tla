-------------------------------- MODULE MemDb --------------------------------
(***************************************************************************)
(* A MemDb at work: clients that run commands, the timer goroutines their  *)
(* commands start, and the clock.                                          *)
(***************************************************************************)
EXTENDS CollectionCommands, Functions

CONSTANTS Command   \* the commands that clients send

ASSUME CommandAssumption ==
    /\ Command \subseteq Cmd
    /\ \A m \in Command : /\ m.keys # <<>>
                          /\ m.op \notin {"timer", "none"}
                          /\ m.op \in MoveOps \cup {"rename"} => Len(m.keys) = 2

Init ==
    /\ now = 0
    /\ db = [k \in Key |-> Null]
    /\ ttlKeys = [k \in Key |-> Null]
    /\ closed = {}
    /\ Table!Init
    /\ pc = [p \in Proc |-> "idle"]
    /\ fr = [p \in Proc |-> IdleFrame]

\* SET, ZREM and ZRANK fold the key they are given to lower case.
FoldOps == {"set", "zrem", "zrank"}
Fold(m) == IF m.op \in FoldOps
           THEN [m EXCEPT !.keys = [i \in DOMAIN m.keys |-> Lower[m.keys[i]]]]
           ELSE m

\* The keys a command will visit: KEYS takes what db.Keys() returns, in any
\* order.
Visits(m) ==
    IF m.op = "keys"
    THEN LET S == {k \in Key : db[k] # Null} IN Bijection(1 .. Cardinality(S), S) \ {<<>>}
    ELSE {Fold(m).keys}

Begins(m) == CASE m.op \in ChecksTTL -> "get" [] m.op = "blpop" -> "poll" [] OTHER -> "lock"

\* The bound on timers: a command that calls SetTTL is let in only if every
\* running handler that does can still start its timer.
TimerOps == {"expire", "set", "setex"}
TimersLeft(m) ==
    m.op \in TimerOps => Cardinality(FreeTask) > Cardinality({c \in Client : Op(c) \in TimerOps})

\* The handler of command m starts.  EXPIRE and SETEX add their argument to
\* the clock at once.
ExecCommand(c, m) ==
    /\ At(c, "idle") /\ TimersLeft(m)
    /\ \E todo \in Visits(m), d \in Duration :
          /\ now + d <= MaxTime
          /\ fr' = [fr EXCEPT ![c] = [
                      m |-> Fold(m), todo |-> todo, ttl |-> Null, old |-> Null,
                      at |-> IF m.op \in {"expire", "setex"} THEN now + d ELSE 0]]
    /\ Goto(c, Begins(m))
    /\ UNCHANGED data

CheckTTL(p) ==
    \/ CheckTTLGet(p) \/ CheckTTLCompare(p) \/ CheckTTLLock(p)
    \/ CheckTTLDelete(p) \/ CheckTTLReturn(p)

SetTTL(p) == SetTTLGet(p) \/ SetTTLClose(p) \/ SetTTLStart(p)

DelTTL(p) == DelTTLGet(p) \/ DelTTLClose(p)

\* A step of a handler that has started.
Handle(c) ==
    \/ CheckTTL(c) \/ Lock(c) \/ UnLock(c) \/ SetTTL(c) \/ DelTTL(c)
    \/ KeyCommand(c) \/ StringCommand(c) \/ CollectionCommand(c)

TimerStep(t) == TimerFires(t) \/ TimerCancelled(t) \/ CheckTTL(t)

Next ==
    \/ \E c \in Client, m \in Command : ExecCommand(c, m)
    \/ \E c \in Client : Handle(c)
    \/ \E t \in Task : TimerStep(t)
    \/ Tick

Spec == Init /\ [][Next]_vars

-----------------------------------------------------------------------------
(* Fairness *)

\* A goroutine keeps running; a lock that is released again and again is
\* eventually granted (sync.RWMutex does not starve a waiter); the clock runs.
\* Nothing forces a client to send a command or BLPOP to find an element.
GoroutinesRun ==
    /\ \A c \in Client : WF_vars(Handle(c)) /\ SF_vars(Lock(c)) /\ SF_vars(CheckTTLLock(c))
    /\ \A t \in Task : WF_vars(TimerStep(t)) /\ SF_vars(CheckTTLLock(t))

Fairness == GoroutinesRun /\ WF_vars(Tick)

FairSpec == Spec /\ Fairness

-----------------------------------------------------------------------------
(* Properties *)

\* "Key-Value pair will be deleted after TTL": a TTL that has run out is gone
\* some time later, even if no command touches the key.
Expires ==
    \A k \in Key, i \in [value : 0 .. MaxTime, cancel : Task] :
        ttlKeys[k] = i /\ i.value <= now ~> ttlKeys[k] # i

\* Every command returns: its handler is never stuck on a lock or a timer.
CommandsReturn == \A c \in Client : ~At(c, "idle") ~> At(c, "idle")

\* What CheckTTL says of itself, "delete expired keys": a value it deletes has
\* a TTL that has run out.
DeletesExpired ==
    \A p \in Proc : At(p, "expiredb") /\ db[Cur(p)] # Null =>
        ttlKeys[Cur(p)] # Null /\ ttlKeys[Cur(p)].value <= now
=============================================================================
