------------------------------- MODULE MCMemDb -------------------------------
(* Small instances of MemDb for TLC. *)
EXTENDS MemDb, TLC

CONSTANTS c1, c2, t1, t2, a, b, A,
          Load   \* the workloads of a run

VARIABLE load    \* the workload of this behaviour

Symmetry == Permutations(Client) \cup Permutations(Task)

FoldedKeys == {a, b, A}

OwnStripe == [k \in Key |-> IF k = a THEN 0 ELSE 1]

FoldA == [k \in Key |-> IF k = A THEN a ELSE k]

C(op, keys) == [op |-> op, keys |-> keys, cond |-> "none", ttl |-> "none"]
Opt(op, keys, cond, ttl) == [op |-> op, keys |-> keys, cond |-> cond, ttl |-> ttl]
On(ops, keys) == {C(op, <<k>>) : op \in ops, k \in keys}

\* Everything that sets, drops, checks or keeps a TTL, on one key.
TTLCommands ==
    On({"del", "persist", "setex", "expire"}, {a}) \cup {Opt("set", <<a>>, "nx", "ex")}

\* Commands with several keys, one of which SET folds to another.
MultiCommands ==
    {C("rename", <<a, b>>), C("rename", <<b, a>>), C("mset", <<a, b>>), C("mset", <<b, b>>),
     C("mget", <<a, b>>), C("del", <<a, b>>), C("keys", <<a>>),
     C("setex", <<b>>), Opt("set", <<A>>, "nx", "none")}

\* Lists that LMOVE and BLPOP empty, and sets and hashes that SMOVE and HDEL do.
ListCommands ==
    {C("lmove", <<a, b>>), C("lmove", <<b, b>>), C("blpop", <<b, a>>), C("lpush", <<a>>),
     C("rpop", <<b>>), C("expire", <<a>>)}

SetCommands ==
    {C("smove", <<a, b>>), C("sadd", <<a>>), C("spop", <<b>>), C("hdel", <<a>>),
     C("hset", <<a>>), C("expire", <<a>>)}

\* Read-modify-write commands on one counter.
Increments == On(Increment \cup {"get", "del", "append"}, {a})

\* Every command with every option, on one key.
AllCommands ==
    On(ReadOps \cup {"keys", "del", "persist", "setex", "setnx", "setrange", "append",
        "incr", "decr", "incrby", "decrby", "incrbyfloat"}
       \cup IgnoreOps \cup (ReturnOps \ {"rename", "expire"})
       \cup {"hdel", "blpop", "zadd", "zrange", "zrem", "zrank", "xadd", "xrange"}, {a})
    \cup {Opt("expire", <<a>>, o, "none") : o \in {"none", "nx", "xx", "gt", "lt", "bad"}}
    \cup {Opt("set", <<a>>, o, u) : o \in {"none", "nx", "xx"}, u \in {"none", "keep", "ex", "keepex"}}
    \cup {C(op, <<a, a>>) : op \in MultiOps \cup {"exists", "mget"}}

\* A key with a TTL is set, dropped and used up.
ExpiringCommands == On({"setex", "lpop", "expire", "persist"}, {a})

AllLoads == TTLCommands \cup MultiCommands \cup ListCommands \cup SetCommands \cup Increments \cup AllCommands \cup ExpiringCommands

\* What the clients of a workload send, how many are busy at once, how many
\* timers run at once, and whether the clock moves.
W(commands, clients, timers, clock) ==
    [commands |-> commands, clients |-> clients, timers |-> timers, clock |-> clock]

Workload == [
    ttl        |-> W(TTLCommands, 2, 2, TRUE),
    multi      |-> W(MultiCommands, 2, 1, TRUE),
    lists      |-> W(ListCommands, 2, 1, TRUE),
    sets       |-> W(SetCommands, 2, 1, TRUE),
    increments |-> W(Increments, 2, 1, FALSE),
    all        |-> W(AllCommands, 1, 1, TRUE),
    expiring   |-> W(ExpiringCommands, 2, 1, TRUE)]

This == Workload[load]

Busy == Cardinality({c \in Client : ~At(c, "idle")})
Timers ==
    Cardinality(Task \ FreeTask) + Cardinality({c \in Client : Op(c) \in TimerOps})

\* The timers that a workload leaves alone.
Spare == IF This.timers = 1 THEN Task \ {t1} ELSE {}

LoadInit == Init /\ load \in Load

LoadNext ==
    /\ UNCHANGED load
    /\ \/ \E c \in Client, m \in This.commands :
             /\ Busy < This.clients
             /\ m.op \in TimerOps => Timers < This.timers
             /\ ExecCommand(c, m)
       \/ \E c \in Client : Handle(c)
       \/ \E t \in Task : TimerStep(t)
       \/ This.clock /\ Tick
    /\ Spare \subseteq FreeTask'

LoadSpec == LoadInit /\ [][LoadNext]_<<vars, load>>
FairLoadSpec == LoadSpec /\ Fairness
=============================================================================
