------------------------------ MODULE Membership ------------------------------
(***************************************************************************)
(* Configuration changes: RCONF proposes one change, raft applies it when  *)
(* it is committed (external), and every RaftNode follows it in            *)
(* publishEntries: it adds or removes the peer of its transport and keeps  *)
(* the list RaftNode.Peers that MEMBER LIST answers.                       *)
(***************************************************************************)
EXTENDS Integers, Sequences, FiniteSets

CONSTANTS Id,          \* the ids nodes may have: 1, 2, ...
          Initial,     \* the ids of the nodes in the configuration file: 1 .. n
          MaxChanges   \* bound: committed changes

VARIABLES log,         \* committed changes
          voters,      \* per node: confState
          Peers,       \* per node: the URLs; the URL of node i is i
          transport,   \* per node: the peers it sends to
          done,        \* per node: entries published
          state        \* per node: "up", "stopped" or "panic"

vars == <<log, voters, Peers, transport, done, state>>

\* startRaft: the ids are the positions in the list, itself left out.
Init ==
    /\ log = <<>>
    /\ voters = [n \in Initial |-> Initial]
    /\ Peers = [n \in Initial |-> [i \in 1 .. Cardinality(Initial) |-> i]]
    /\ transport = [n \in Initial |-> Initial \ {n}]
    /\ done = [n \in Initial |-> 0]
    /\ state = [n \in Initial |-> "up"]

\* raft's ApplyConfChange of one change, and of the whole log.
Changed(v, c) == IF c.type = "add" THEN v \cup {c.id} ELSE v \ {c.id}

VotersAfter(changes) ==
    LET after[k \in 0 .. Len(changes)] == IF k = 0 THEN Initial ELSE Changed(after[k - 1], changes[k])
    IN  after[Len(changes)]

\* RCONF ADD of a node that is not a voter and RCONF DELETE of one that is:
\* raft commits one change after the other and keeps at least one voter.
rconf(type, id) ==
    /\ Len(log) < MaxChanges
    /\ (type = "delete") = (id \in VotersAfter(log))
    /\ VotersAfter(log) # {id}
    /\ log' = Append(log, [type |-> type, id |-> id])
    /\ UNCHANGED <<voters, Peers, transport, done, state>>

\* append(Peers[:NodeID], Peers[NodeID+1:]...) on positions that start at 0:
\* the second slice must start inside the list or at its end.
RemovePeer(s, id) == SubSeq(s, 1, id) \o SubSeq(s, id + 2, Len(s))
RemovePanics(s, id) == id + 1 > Len(s)

\* Mutant: the peer of a removed node is kept in the transport.
PublishAdds(n) ==
    LET c == log[done[n] + 1] IN
    /\ state[n] = "up" /\ done[n] < Len(log)
    /\ voters' = [voters EXCEPT ![n] = Changed(@, c)]
    /\ done' = [done EXCEPT ![n] = @ + 1]
    /\ \/ /\ c.type = "add"
          /\ transport' = [transport EXCEPT ![n] = @ \cup {c.id}]
          /\ UNCHANGED <<Peers, state>>
       \/ /\ c.type = "delete" /\ c.id = n
          /\ state' = [state EXCEPT ![n] = "stopped"]
          /\ UNCHANGED <<Peers, transport>>
       \/ /\ c.type = "delete" /\ c.id # n
          /\ IF RemovePanics(Peers[n], c.id)
             THEN state' = [state EXCEPT ![n] = "panic"] /\ UNCHANGED Peers
             ELSE Peers' = [Peers EXCEPT ![n] = RemovePeer(@, c.id)] /\ UNCHANGED state
          /\ UNCHANGED transport
    /\ UNCHANGED log

\* publishEntries of one configuration change.
Publish(n) ==
    LET c == log[done[n] + 1] IN
    /\ state[n] = "up" /\ done[n] < Len(log)
    /\ voters' = [voters EXCEPT ![n] = Changed(@, c)]
    /\ done' = [done EXCEPT ![n] = @ + 1]
    /\ \/ /\ c.type = "add"
          /\ transport' = [transport EXCEPT ![n] = @ \cup {c.id}]
          /\ UNCHANGED <<Peers, state>>
       \/ /\ c.type = "delete" /\ c.id = n
          /\ state' = [state EXCEPT ![n] = "stopped"]
          /\ UNCHANGED <<Peers, transport>>
       \/ /\ c.type = "delete" /\ c.id # n
          /\ transport' = [transport EXCEPT ![n] = @ \ {c.id}]
          /\ IF RemovePanics(Peers[n], c.id)
             THEN state' = [state EXCEPT ![n] = "panic"] /\ UNCHANGED Peers
             ELSE Peers' = [Peers EXCEPT ![n] = RemovePeer(@, c.id)] /\ UNCHANGED state
    /\ UNCHANGED log

Next ==
    \/ \E id \in Id, type \in {"add", "delete"} : rconf(type, id)
    \/ \E n \in Initial : Publish(n)

Spec == Init /\ [][Next]_vars

-----------------------------------------------------------------------------
(* Properties *)

\* A node sends to every other voter of its configuration: no voter is cut off
\* by a sequence of changes.
TransportReachesVoters ==
    \A n \in Initial : state[n] = "up" => voters[n] \ {n} \subseteq transport[n] /\ transport[n] \subseteq voters[n] \cup {n}
=============================================================================
