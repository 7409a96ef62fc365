------------------------------- MODULE PubSub --------------------------------
(***************************************************************************)
(* memdb/pubsub.go and pubsub_struct.go: SUBSCRIBE puts the connection of  *)
(* a client on the channel of a key, PUBLISH writes to every connection of *)
(* the channel and drops those that are closed.  The goroutine that        *)
(* unsubscribes waits for the context of the server, which is cancelled    *)
(* when the server shuts down and not when a client leaves.                *)
(***************************************************************************)
EXTENDS Integers, FiniteSets, Sequences

CONSTANTS Client, Publisher, Key,
          Wants,      \* the keys each client subscribes to, in order
          Existing,   \* the keys that had subscribers before
          MaxPublish  \* bound: messages per publisher

VARIABLES item,       \* ChanMap.item: key to Chan, 0 when absent
          conns,      \* Chan.conns
          numSubs,    \* Chan.numSubs
          rw,         \* Chan.rw: held or not
          created,    \* how many Chan objects were made
          sub,        \* what the subscription of client and key is doing
          open,       \* the connections that are open
          down,       \* the context of the server is cancelled
          pub         \* what each publisher is doing

vars == <<item, conns, numSubs, rw, created, sub, open, down, pub>>

Subs == {s \in Client \X Key : \E i \in DOMAIN Wants[s[1]] : Wants[s[1]][i] = s[2]}
Chans == 1 .. Cardinality(Subs) + Cardinality(Existing)
NoPub == [pc |-> "idle", ch |-> 0, start |-> {}, seen |-> {}, left |-> MaxPublish, n |-> 0]

Init ==
    /\ created = Cardinality(Existing)
    /\ \E f \in [Existing -> 1 .. created] :
          /\ \A k, l \in Existing : k # l => f[k] # f[l]
          /\ item = [k \in Key |-> IF k \in Existing THEN f[k] ELSE 0]
    /\ conns = [ch \in Chans |-> {}]
    /\ numSubs = [ch \in Chans |-> 0]
    /\ rw = [ch \in Chans |-> FALSE]
    /\ sub = [s \in Subs |-> [pc |-> "no", ch |-> 0, tmp |-> 0]]
    /\ open = Client
    /\ down = FALSE
    /\ pub = [p \in Publisher |-> NoPub]

Becomes(s, pc, ch, tmp) == sub' = [sub EXCEPT ![s] = [pc |-> pc, ch |-> ch, tmp |-> tmp]]

-----------------------------------------------------------------------------
(* SUBSCRIBE *)

\* The handler takes the keys one by one.
SubscribeGet(c) ==
    \E i \in DOMAIN Wants[c] :
      LET s == <<c, Wants[c][i]>> IN
      /\ c \in open
      /\ sub[s].pc = "no"
      /\ \A j \in 1 .. i - 1 : sub[<<c, Wants[c][j]>>].pc = "on"
      /\ IF item[s[2]] = 0 THEN Becomes(s, "create", 0, 0) ELSE Becomes(s, "join", item[s[2]], 0)
      /\ UNCHANGED <<item, conns, numSubs, rw, created, open, down, pub>>

\* Create returns nil when the channel has appeared, and Subscribe uses it.
CreateGet(s) ==
    /\ sub[s].pc = "create"
    /\ Becomes(s, IF item[s[2]] = 0 THEN "set" ELSE "nil", 0, 0)
    /\ UNCHANGED <<item, conns, numSubs, rw, created, open, down, pub>>

CreateSet(s) ==
    /\ sub[s].pc = "set"
    /\ created' = created + 1
    /\ item' = [item EXCEPT ![s[2]] = created']
    /\ Becomes(s, "join", created', 0)
    /\ UNCHANGED <<conns, numSubs, rw, open, down, pub>>

\* numSubs++ is a read and a write: Send changes it without the lock.
Join(s) ==
    LET ch == sub[s].ch IN
    /\ sub[s].pc = "join" /\ ~rw[ch]
    /\ rw' = [rw EXCEPT ![ch] = TRUE]
    /\ conns' = [conns EXCEPT ![ch] = @ \cup {s[1]}]
    /\ Becomes(s, "joining", ch, numSubs[ch])
    /\ UNCHANGED <<item, numSubs, created, open, down, pub>>

Register(s) ==
    LET ch == sub[s].ch IN
    /\ sub[s].pc = "joining"
    /\ numSubs' = [numSubs EXCEPT ![ch] = sub[s].tmp + 1]
    /\ rw' = [rw EXCEPT ![ch] = FALSE]
    /\ Becomes(s, "on", ch, 0)
    /\ UNCHANGED <<item, conns, created, open, down, pub>>

-----------------------------------------------------------------------------
(* Leaving *)

\* The client disconnects: its handler returns and closes the connection.
Leave(c) ==
    /\ c \in open
    /\ \A s \in Subs : s[1] = c => sub[s].pc \in {"no", "on", "off"}
    /\ open' = open \ {c}
    /\ UNCHANGED <<item, conns, numSubs, rw, created, sub, down, pub>>

Shutdown ==
    /\ ~down
    /\ down' = TRUE
    /\ UNCHANGED <<item, conns, numSubs, rw, created, sub, open, pub>>

\* Mutant: each connection has a context, cancelled when its client leaves.
UnSubscribeOnLeave(s) ==
    /\ sub[s].pc = "on" /\ (down \/ s[1] \notin open)
    /\ IF item[s[2]] = 0 THEN Becomes(s, "off", 0, 0) ELSE Becomes(s, "leave", item[s[2]], 0)
    /\ UNCHANGED <<item, conns, numSubs, rw, created, open, down, pub>>

UnSubscribeGet(s) ==
    /\ sub[s].pc = "on" /\ down
    /\ IF item[s[2]] = 0 THEN Becomes(s, "off", 0, 0) ELSE Becomes(s, "leave", item[s[2]], 0)
    /\ UNCHANGED <<item, conns, numSubs, rw, created, open, down, pub>>

UnSubscribe(s) ==
    LET ch == sub[s].ch IN
    /\ sub[s].pc = "leave" /\ ~rw[ch]
    /\ rw' = [rw EXCEPT ![ch] = TRUE]
    /\ conns' = [conns EXCEPT ![ch] = @ \ {s[1]}]
    /\ Becomes(s, "leaving", ch, numSubs[ch])
    /\ UNCHANGED <<item, numSubs, created, open, down, pub>>

Unregister(s) ==
    LET ch == sub[s].ch IN
    /\ sub[s].pc = "leaving"
    /\ numSubs' = [numSubs EXCEPT ![ch] = sub[s].tmp - 1]
    /\ item' = IF sub[s].tmp = 1 THEN [item EXCEPT ![s[2]] = 0] ELSE item
    /\ rw' = [rw EXCEPT ![ch] = FALSE]
    /\ Becomes(s, "off", 0, 0)
    /\ UNCHANGED <<conns, created, open, down, pub>>

-----------------------------------------------------------------------------
(* PUBLISH *)

PublishTo(p, k) ==
    /\ pub[p].pc = "idle" /\ pub[p].left > 0 /\ item[k] # 0
    /\ pub' = [pub EXCEPT ![p] = [pc |-> "range", ch |-> item[k], start |-> conns[item[k]],
                                  seen |-> {}, left |-> pub[p].left - 1, n |-> 0]]
    /\ UNCHANGED <<item, conns, numSubs, rw, created, sub, open, down>>

\* One round of the loop over the map, without its lock: a connection added
\* meanwhile may come or not.
Send(p) ==
    /\ pub[p].pc = "range"
    /\ \E c \in conns[pub[p].ch] \ pub[p].seen :
          IF c \in open
          THEN /\ pub' = [pub EXCEPT ![p].seen = @ \cup {c}]
               /\ UNCHANGED conns
          ELSE /\ conns' = [conns EXCEPT ![pub[p].ch] = @ \ {c}]
               /\ pub' = [pub EXCEPT ![p].pc = "drop", ![p].n = numSubs[pub[p].ch]]
    /\ UNCHANGED <<item, numSubs, rw, created, sub, open, down>>

Drop(p) ==
    /\ pub[p].pc = "drop"
    /\ numSubs' = [numSubs EXCEPT ![pub[p].ch] = pub[p].n - 1]
    /\ pub' = [pub EXCEPT ![p].pc = "range"]
    /\ UNCHANGED <<item, conns, rw, created, sub, open, down>>

SendEnd(p) ==
    /\ pub[p].pc = "range"
    /\ pub[p].start \cap conns[pub[p].ch] \subseteq pub[p].seen
    /\ pub' = [pub EXCEPT ![p].pc = "sent"]
    /\ UNCHANGED <<item, conns, numSubs, rw, created, sub, open, down>>

PublishReturn(p) ==
    /\ pub[p].pc = "sent"
    /\ pub' = [pub EXCEPT ![p] = [NoPub EXCEPT !.left = pub[p].left]]
    /\ UNCHANGED <<item, conns, numSubs, rw, created, sub, open, down>>

-----------------------------------------------------------------------------

SubStep(s) ==
    \/ CreateGet(s) \/ CreateSet(s) \/ Join(s) \/ Register(s)
    \/ UnSubscribeGet(s) \/ UnSubscribe(s) \/ Unregister(s)

PubStep(p) == Send(p) \/ Drop(p) \/ SendEnd(p) \/ PublishReturn(p)

\* A nil channel panics and ends the server.
Next ==
    /\ \A s \in Subs : sub[s].pc # "nil"
    /\ \/ \E c \in Client : SubscribeGet(c) \/ Leave(c)
       \/ \E s \in Subs : SubStep(s)
       \/ \E p \in Publisher : PubStep(p) \/ \E k \in Key : PublishTo(p, k)
       \/ Shutdown

Spec == Init /\ [][Next]_vars

-----------------------------------------------------------------------------
(* Properties *)

\* "no way they should fail": a client whose SUBSCRIBE has returned is on the
\* channel that publishers find, until it leaves or the server shuts down.
SubscriberReachable ==
    \A s \in Subs : sub[s].pc = "on" /\ s[1] \in open /\ ~down =>
        item[s[2]] # 0 /\ s[1] \in conns[item[s[2]]]

\* A message reaches every open connection that was on the channel when Send
\* began: one that fails does not keep it from the others.
SendReachesAll ==
    \A p \in Publisher : pub[p].pc = "sent" =>
        \A c \in pub[p].start \cap conns[pub[p].ch] : c \in open => c \in pub[p].seen

\* Who has subscribed gets what is published.
Delivers == SubscriberReachable /\ SendReachesAll
=============================================================================
