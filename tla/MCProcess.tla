------------------------------ MODULE MCProcess ------------------------------
(***************************************************************************)
(* The goroutines of a server beyond the keyspace, with instances small    *)
(* enough for TLC: set algebra over several keys, the sharded map, pub/sub,*)
(* the handlers of cluster mode, the replicated log and the membership.    *)
(* These parts share nothing in the code, so a behaviour is one of one of  *)
(* them.                                                                   *)
(***************************************************************************)
EXTENDS Integers, Sequences, TLC

CONSTANTS Parts,                \* the parts explored
          a, b, x, y, p1, p2, c1, c2, c3, n1, n2,
          Null, Other,
          Existing,             \* the channels that had subscribers before
          SnapCount, Lossy

VARIABLES part,                                                        \* the part that moves
          sdb, sttl, sheld, spc, sfr,                                  \* SetAlgebra
          item, writer, count, pc, call, ret, tmp, pos, seen, stayed,  \* ConcurrentMap
          chan, conns, numSubs, rw, created, sub, open, down, pub,     \* PubSub
          main, acceptor, isTerminating, listening, cancelled, wg, h, broken, closed,
          proposer, raftUp, entries, commits, found, panic,            \* Server
          log, props, client, applied, snapIndex, rc, fresh, batch, hist, cur, saved, crashes,  \* Cluster
          mlog, voters, Peers, transport, done, state                  \* Membership

\* Set algebra: two keys on two stripes; a destination may be a source.
OwnStripe == (a :> 0) @@ (b :> 1)

C(op, des, keys) == [op |-> op, des |-> des, keys |-> keys]

LockedStores == {C("sdiffstore", a, <<b, a>>), C("sinterstore", b, <<a, b>>)}

AllSets ==
    LockedStores \cup {C("sinterstore", b, <<a, a>>), C("sdiff", a, <<a, b>>), C("sunion", a, <<b, a>>),
        C("sinter", a, <<a, b>>), C("sunionstore", a, <<a, b>>), C("sunionstore", b, <<a, a>>)}

\* One client among others that change two members, and two clients that store.
Reader == INSTANCE SetAlgebra WITH
    db <- sdb, ttl <- sttl, held <- sheld, pc <- spc, fr <- sfr, Client <- {p1, p2},
    Key <- {a, b}, Member <- {x, y}, Stripe <- {0, 1}, KeyPos <- OwnStripe, Command <- AllSets
Storers == INSTANCE SetAlgebra WITH
    db <- sdb, ttl <- sttl, held <- sheld, pc <- spc, fr <- sfr, Client <- {p1, p2},
    Key <- {a, b}, Member <- {x}, Stripe <- {0, 1}, KeyPos <- OwnStripe, Command <- LockedStores

\* Two keys, each in a shard of its own.
Map == INSTANCE ConcurrentMap WITH
    Proc <- {p1, p2}, Key <- {a, b}, Value <- {x, y}, Size <- 2, KeyPos <- OwnStripe, MaxCount <- 1,
    Ops <- {"set", "setifexist", "setifnotexist", "delete", "get", "keys", "keyvals"}

\* One client subscribes to two channels and the other to one of them.
Channels == INSTANCE PubSub WITH
    item <- chan, Client <- {c1, c2}, Publisher <- {"publisher"}, Key <- {a, b}, MaxPublish <- 1,
    Wants <- (c1 :> <<a, b>>) @@ (c2 :> <<a>>)

Clustered == INSTANCE Server WITH Conn <- {c1, c2, c3}, IsCluster <- TRUE, Kinds <- {"register", "rconf"}

Cmd(name, arg) == << <<name>>, <<arg>> >>
Script == (c1 :> <<Cmd("select", 1), Cmd("set", "x")>>) @@ (c2 :> <<Cmd("spop", "s")>>)

Replicas == INSTANCE Cluster WITH
    Node <- {n1, n2}, Client <- {c1, c2}, Home <- (c1 :> n1) @@ (c2 :> n2), Results <- {"r1", "r2"},
    ConfChanges <- 1, MaxCrash <- 1

\* Three nodes, that may become four.
Members == INSTANCE Membership WITH log <- mlog, Id <- 1..4, Initial <- 1..3, MaxChanges <- 5

setVars == <<sdb, sttl, sheld, spc, sfr>>
mapVars == <<item, writer, count, pc, call, ret, tmp, pos, seen, stayed>>
pubVars == <<chan, conns, numSubs, rw, created, sub, open, down, pub>>
serverVars == <<main, acceptor, isTerminating, listening, cancelled, wg, h, broken, closed,
                proposer, raftUp, entries, commits, found, panic>>
clusterVars == <<log, props, client, applied, snapIndex, rc, fresh, batch, hist, cur, saved, crashes>>
memberVars == <<mlog, voters, Peers, transport, done, state>>

\* The clients and values of sets and map are alike.
Symmetry == Permutations({p1, p2}) \cup Permutations({x, y})

\* The variables of the parts that do not move are Null.
Init ==
    /\ part \in Parts
    /\ IF part \in {"sets", "stores"} THEN Reader!Init
       ELSE /\ sdb = Null /\ sttl = Null /\ sheld = Null /\ spc = Null /\ sfr = Null
    /\ IF part = "map" THEN Map!Init
       ELSE /\ item = Null /\ writer = Null /\ count = Null /\ pc = Null /\ call = Null /\ ret = Null
            /\ tmp = Null /\ pos = Null /\ seen = Null /\ stayed = Null
    /\ IF part = "pubsub" THEN Channels!Init
       ELSE /\ chan = Null /\ conns = Null /\ numSubs = Null /\ rw = Null /\ created = Null
            /\ sub = Null /\ open = Null /\ down = Null /\ pub = Null
    /\ IF part = "server" THEN Clustered!Init
       ELSE /\ main = Null /\ acceptor = Null /\ isTerminating = Null /\ listening = Null
            /\ cancelled = Null /\ wg = Null /\ h = Null /\ broken = Null /\ closed = Null
            /\ proposer = Null /\ raftUp = Null /\ entries = Null /\ commits = Null /\ found = Null
            /\ panic = Null
    /\ IF part = "cluster" THEN Replicas!Init
       ELSE /\ log = Null /\ props = Null /\ client = Null /\ applied = Null /\ snapIndex = Null
            /\ rc = Null /\ fresh = Null /\ batch = Null /\ hist = Null /\ cur = Null /\ saved = Null
            /\ crashes = Null
    /\ IF part = "members" THEN Members!Init
       ELSE /\ mlog = Null /\ voters = Null /\ Peers = Null /\ transport = Null /\ done = Null
            /\ state = Null

\* In "sets" one client at a time runs a command.
SetsNext == part = "sets" /\ Reader!Next /\ (\E p \in {p1, p2} : spc'[p] = "idle")
StoresNext == part = "stores" /\ Storers!Next

Next ==
    /\ UNCHANGED part
    /\ \/ (SetsNext \/ StoresNext) /\ UNCHANGED <<mapVars, pubVars, serverVars, clusterVars, memberVars>>
       \/ part = "map" /\ Map!Next /\ UNCHANGED <<setVars, pubVars, serverVars, clusterVars, memberVars>>
       \/ part = "pubsub" /\ Channels!Next /\ UNCHANGED <<setVars, mapVars, serverVars, clusterVars, memberVars>>
       \/ part = "server" /\ Clustered!Next /\ UNCHANGED <<setVars, mapVars, pubVars, clusterVars, memberVars>>
       \/ part = "cluster" /\ Replicas!Next /\ UNCHANGED <<setVars, mapVars, pubVars, serverVars, memberVars>>
       \/ part = "members" /\ Members!Next /\ UNCHANGED <<setVars, mapVars, pubVars, serverVars, clusterVars>>

Spec == Init /\ [][Next]_<<part, setVars, mapVars, pubVars, serverVars, clusterVars, memberVars>>

(***************************************************************************)
(* The properties of the parts                                             *)
(***************************************************************************)
\* The result of a set operation is that of one moment, though it reads one key
\* after the other, and a STORE never replaces a value that is not a set.
SetCommandsAtomic ==
    [][/\ part = "sets" => Reader!ReadsSnapshot
       /\ part = "stores" => Storers!ReadsSnapshot /\ Storers!KeepsOtherTypes]_setVars

\* Each call on the sharded map takes effect at once.
ImplementsMap == [][part = "map" => Map!AtomicStep]_mapVars

\* KeyVals misses no key that was there all the time it ran.
KeyValsComplete == part = "map" => Map!KeyValsComplete

\* A client whose SUBSCRIBE has returned is on the channel that publishers find.
SubscriberReachable == part = "pubsub" => Channels!SubscriberReachable

\* A message reaches every subscriber: each is on the channel that publishers find,
\* and Send does not stop at a connection that fails.
Delivers == part = "pubsub" => Channels!Delivers

\* An executed proposal finds the handler that made it waiting.
AnswersProposer == part = "server" => Clustered!AnswersProposer

\* A node has executed the log up to appliedIndex, each entry once and in order.
DatabaseIsLog == part = "cluster" => Replicas!DatabaseIsLog

\* A node sends to every other voter of its configuration.
TransportReachesVoters == part = "members" => Members!TransportReachesVoters
=============================================================================
