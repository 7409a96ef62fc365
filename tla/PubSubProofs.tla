---------------------------- MODULE PubSubProofs -----------------------------
(***************************************************************************)
(* Theorems about publish and subscribe, for any clients, publishers and   *)
(* channels.                                                               *)
(***************************************************************************)
EXTENDS Integers, Sequences, FiniteSets, FiniteSetTheorems, TLAPS

CONSTANTS Client, Publisher, Key, Wants, Existing, MaxPublish

VARIABLES item, conns, numSubs, rw, created, sub, open, down, pub

(***************************************************************************)
(* Publish and subscribe                                                   *)
(***************************************************************************)
Pub == INSTANCE PubSub

\* The instance counts as this module does.
LEMMA PubCardinality == ASSUME NEW S PROVE Pub!Cardinality(S) = Cardinality(S)
BY DEF Pub!Cardinality, Cardinality

PubConstants ==
    /\ IsFiniteSet(Client) /\ IsFiniteSet(Key) /\ Existing \subseteq Key
    /\ Wants \in [Client -> Seq(Key)]
    /\ MaxPublish \in Int

\* The channels there may be: one made for each subscription, and those from before.
Chans == 1 .. Cardinality(Pub!Subs) + Cardinality(Existing)

PubType ==
    /\ created \in Nat /\ open \in SUBSET Client /\ down \in BOOLEAN
    /\ item \in [Key -> 0 .. created]
    /\ conns \in [Chans -> SUBSET Client] /\ numSubs \in [Chans -> Int]
    /\ sub \in [Pub!Subs -> [pc : {"no", "create", "nil", "set", "join", "joining", "on", "leave", "leaving", "off"},
                             ch : 0 .. created, tmp : Int]]
    /\ pub \in [Publisher -> [pc : {"idle", "range", "drop", "sent"}, ch : 0 .. created,
                              start : SUBSET Client, seen : SUBSET Client, left : Int, n : Int]]

\* The subscriptions that have made a channel or shall not.
Done == {s \in Pub!Subs : sub[s].pc \notin {"no", "create", "set"}}
Bounded == created <= Cardinality(Existing) + Cardinality(Done)

\* A channel has one key.
OneKey ==
    /\ \A k, l \in Key : item[k] # 0 /\ item[k] = item[l] => k = l
    /\ \A s \in Pub!Subs : sub[s].ch # 0 => \A l \in Key : item[l] = sub[s].ch => l = s[2]
    /\ \A s, t \in Pub!Subs : sub[s].ch # 0 /\ sub[s].ch = sub[t].ch => s[2] = t[2]
    /\ \A s \in Pub!Subs : sub[s].pc \in {"join", "joining", "leave", "leaving"} => sub[s].ch # 0

\* No connection of the set C is still to be put on channel x.
Past(C, x) ==
    \A s \in Pub!Subs : s[1] \in C =>
        (item[s[2]] = x => sub[s].pc # "no") /\ (sub[s].ch = x => sub[s].pc # "join")

Joined ==
    /\ \A x \in Chans : x > created => conns[x] = {}
    /\ \A x \in 1 .. created : Past(conns[x], x)

Sending ==
    \A p \in Publisher : pub[p].pc # "idle" =>
        /\ pub[p].ch # 0
        /\ Past(pub[p].start, pub[p].ch)
        /\ pub[p].pc = "sent" => pub[p].start \cap conns[pub[p].ch] \subseteq pub[p].seen

PubInv == PubType /\ Bounded /\ OneKey /\ Joined /\ Sending

\* A subscription is a client and a key.
LEMMA SubsFacts ==
    ASSUME PubConstants
    PROVE  /\ \A s \in Pub!Subs : s \in Client \X Key /\ s = <<s[1], s[2]>> /\ s[1] \in Client /\ s[2] \in Key
           /\ \A c \in Client : \A i \in DOMAIN Wants[c] : <<c, Wants[c][i]>> \in Pub!Subs
           /\ IsFiniteSet(Pub!Subs) /\ IsFiniteSet(Existing)
           /\ Cardinality(Pub!Subs) \in Nat /\ Cardinality(Existing) \in Nat
           /\ Pub!Chans = Chans
<1>1. IsFiniteSet(Client \X Key)  BY FS_Product DEF PubConstants
<1>2. Pub!Subs \subseteq Client \X Key  BY DEF Pub!Subs
<1>3. IsFiniteSet(Pub!Subs) /\ IsFiniteSet(Existing)  BY <1>1, <1>2, FS_Subset DEF PubConstants
<1>4. \A s \in Pub!Subs : s \in Client \X Key /\ s = <<s[1], s[2]>> /\ s[1] \in Client /\ s[2] \in Key  BY <1>2
<1>5. ASSUME NEW c \in Client, NEW i \in DOMAIN Wants[c] PROVE <<c, Wants[c][i]>> \in Pub!Subs
  BY <1>5 DEF Pub!Subs, PubConstants
<1>6. Pub!Chans = Chans  BY PubCardinality DEF Pub!Chans, Chans
<1> QED BY <1>3, <1>4, <1>5, <1>6, FS_CardinalityType

\* A channel that is made has a place.
LEMMA Room ==
    ASSUME PubConstants, PubInv
    PROVE  /\ \A x \in 1 .. created : x \in Chans
           /\ \A s \in Pub!Subs : sub[s].pc = "set" => created + 1 \in Chans
<1> Done \subseteq Pub!Subs  BY DEF Done
<1>1. IsFiniteSet(Done) /\ Cardinality(Done) \in Nat /\ Cardinality(Done) <= Cardinality(Pub!Subs)
  BY SubsFacts, FS_Subset, FS_CardinalityType
<1>2. ASSUME NEW s \in Pub!Subs, sub[s].pc = "set" PROVE Cardinality(Done) < Cardinality(Pub!Subs)
  <2>1. s \notin Done  BY <1>2 DEF Done
  <2>2. Cardinality(Done) # Cardinality(Pub!Subs)  BY <1>2, <2>1, SubsFacts, FS_Subset
  <2> QED BY <1>1, <2>2, SubsFacts
<1>3. created \in Nat /\ created <= Cardinality(Existing) + Cardinality(Done)  BY DEF PubInv, PubType, Bounded
<1>4. \A x \in 1 .. created : x \in Chans  BY <1>1, <1>3, SubsFacts DEF Chans
<1>5. ASSUME NEW s \in Pub!Subs, sub[s].pc = "set" PROVE created + 1 \in Chans
  BY <1>1, <1>2, <1>3, <1>5, SubsFacts DEF Chans
<1> QED BY <1>4, <1>5

\* The bound is kept by a step that makes no channel and takes no subscription back.
LEMMA BoundKept ==
    ASSUME PubConstants, PubInv, created' = created, PubType',
           \A s \in Pub!Subs : sub'[s].pc \in {"no", "create", "set"} => sub[s].pc \in {"no", "create", "set"}
    PROVE  Bounded'
<1>1. Done \subseteq Done' /\ Done' \subseteq Pub!Subs  BY DEF Done
<1>2. IsFiniteSet(Done') /\ Cardinality(Done) <= Cardinality(Done') /\ Cardinality(Done) \in Nat /\ Cardinality(Done') \in Nat
  BY <1>1, SubsFacts, FS_Subset, FS_CardinalityType
<1> QED BY <1>2, SubsFacts DEF PubInv, PubType, Bounded

\* In the beginning the channels of Existing have no connection.
LEMMA PubInit == ASSUME PubConstants, Pub!Init PROVE PubInv
<1>1. created = Cardinality(Existing)  BY PubCardinality DEF Pub!Init
<1>2. PICK f \in [Existing -> 1 .. created] :
        /\ \A k, l \in Existing : k # l => f[k] # f[l]
        /\ item = [k \in Key |-> IF k \in Existing THEN f[k] ELSE 0]
  BY DEF Pub!Init
<1>3. PubType
  <2>1. created \in Nat /\ item \in [Key -> 0 .. created]  BY <1>1, <1>2, SubsFacts
  <2>2. conns \in [Chans -> SUBSET Client] /\ numSubs \in [Chans -> Int]  BY SubsFacts DEF Pub!Init
  <2>3. sub = [s \in Pub!Subs |-> [pc |-> "no", ch |-> 0, tmp |-> 0]] /\ open = Client /\ down = FALSE
    BY DEF Pub!Init
  <2>4. pub = [p \in Publisher |-> [pc |-> "idle", ch |-> 0, start |-> {}, seen |-> {}, left |-> MaxPublish, n |-> 0]]
    BY DEF Pub!Init, Pub!NoPub
  <2>5. /\ sub \in [Pub!Subs -> [pc : {"no", "create", "nil", "set", "join", "joining", "on", "leave", "leaving", "off"},
                                 ch : 0 .. created, tmp : Int]]
    BY <2>1, <2>3
  <2>6. pub \in [Publisher -> [pc : {"idle", "range", "drop", "sent"}, ch : 0 .. created,
                              start : SUBSET Client, seen : SUBSET Client, left : Int, n : Int]]
    BY <2>1, <2>4 DEF PubConstants
  <2>7. open \in SUBSET Client /\ down \in BOOLEAN  BY <2>3, Zenon
  <2> QED BY <2>1, <2>2, <2>5, <2>6, <2>7 DEF PubType
<1>4. Done = {}  BY DEF Done, Pub!Init
<1>5. Bounded  BY <1>1, <1>4, FS_EmptySet, SubsFacts DEF Bounded
<1>6. OneKey  BY <1>1, <1>2, SubsFacts DEF OneKey, Pub!Init
<1>7. Joined
  <2>1. conns = [x \in Chans |-> {}]  BY SubsFacts DEF Pub!Init
  <2>2. \A x \in 1 .. created : x \in Chans  BY <1>1, SubsFacts DEF Chans
  <2> QED BY <2>1, <2>2 DEF Joined, Past
<1>8. Sending  BY DEF Sending, Pub!Init, Pub!NoPub
<1> QED BY <1>3, <1>5, <1>6, <1>7, <1>8 DEF PubInv

\* A step of a subscription that puts no connection on a channel and makes none.
MovesTo(s, pc, ch, tmp) ==
    /\ sub' = [sub EXCEPT ![s] = [pc |-> pc, ch |-> ch, tmp |-> tmp]]
    /\ ch \in 0 .. created /\ tmp \in Int
    /\ pc \in {"create", "nil", "set", "join", "joining", "on", "leave", "leaving", "off"}
    /\ pc \in {"create", "set"} => sub[s].pc \in {"no", "create", "set"}
    /\ pc \in {"join", "joining", "leave", "leaving"} => ch # 0
    /\ ch # 0 => ch = sub[s].ch \/ ch = item[s[2]]
    /\ pc = "join" => sub[s].pc = "no" /\ ch = item[s[2]]
    /\ item' = item /\ conns' = conns /\ numSubs' \in [Chans -> Int] /\ created' = created
    /\ open' = open /\ down' = down /\ pub' = pub

\* Such a step keeps PubInv.
LEMMA SubMoves ==
    ASSUME PubConstants, PubInv, NEW s \in Pub!Subs, NEW pc, NEW ch, NEW tmp, MovesTo(s, pc, ch, tmp)
    PROVE  PubInv'
<1> USE DEF MovesTo
<1>1. PubType'  BY DEF PubInv, PubType
<1>2. Bounded'
  <2>1. \A t \in Pub!Subs : sub'[t].pc \in {"no", "create", "set"} => sub[t].pc \in {"no", "create", "set"}
    BY DEF PubInv, PubType
  <2> QED BY <1>1, <2>1, BoundKept
<1>3. \A t \in Pub!Subs : t # s => sub'[t] = sub[t]  BY DEF PubInv, PubType
<1>4. sub'[s].pc = pc /\ sub'[s].ch = ch  BY DEF PubInv, PubType
<1>5. s[2] \in Key  BY SubsFacts
<1>6. OneKey'
  <2>1. \A t \in Pub!Subs : sub'[t].ch # 0 => \A l \in Key : item[l] = sub'[t].ch => l = t[2]
    BY <1>3, <1>4, <1>5 DEF PubInv, OneKey
  <2>2. \A t \in Pub!Subs : t # s /\ ch # 0 /\ ch = sub[t].ch => s[2] = t[2]
    BY <1>5 DEF PubInv, OneKey
  <2>3. \A t, u \in Pub!Subs : sub'[t].ch # 0 /\ sub'[t].ch = sub'[u].ch => t[2] = u[2]
    <3> SUFFICES ASSUME NEW t \in Pub!Subs, NEW u \in Pub!Subs, sub'[t].ch # 0, sub'[t].ch = sub'[u].ch PROVE t[2] = u[2]
      OBVIOUS
    <3>1. CASE t # s /\ u # s  BY <1>3, <3>1 DEF PubInv, OneKey
    <3>2. CASE t = s \/ u = s  BY <1>3, <1>4, <2>2, <3>2
    <3> QED BY <3>1, <3>2
  <2>4. \A t \in Pub!Subs : sub'[t].pc \in {"join", "joining", "leave", "leaving"} => sub'[t].ch # 0
    BY <1>3, <1>4 DEF PubInv, OneKey
  <2> QED BY <2>1, <2>3, <2>4 DEF PubInv, OneKey
<1>7. ASSUME NEW C, NEW x, Past(C, x) PROVE Past(C, x)'
  BY <1>3, <1>4, <1>7 DEF Past
<1>8. Joined'  BY <1>7 DEF PubInv, Joined
<1>9. Sending'  BY <1>7 DEF PubInv, Sending
<1> QED BY <1>1, <1>2, <1>6, <1>8, <1>9 DEF PubInv

\* Join puts the connection on the channel of its key, once.
LEMMA JoinKeeps == ASSUME PubConstants, PubInv, NEW s \in Pub!Subs, Pub!Join(s) PROVE PubInv'
<1> PICK x : x = sub[s].ch  OBVIOUS
<1>1. sub[s].pc = "join" /\ x # 0 /\ x \in 1 .. created  BY DEF Pub!Join, PubInv, PubType, OneKey
<1>2. x \in Chans /\ s[1] \in Client /\ s[2] \in Key  BY <1>1, Room, SubsFacts
<1>3. /\ sub' = [sub EXCEPT ![s] = [pc |-> "joining", ch |-> x, tmp |-> numSubs[x]]]
      /\ conns' = [conns EXCEPT ![x] = @ \cup {s[1]}]
      /\ item' = item /\ numSubs' = numSubs /\ created' = created /\ open' = open /\ down' = down /\ pub' = pub
  BY DEF Pub!Join, Pub!Becomes
<1>4. PubType'  BY <1>1, <1>2, <1>3 DEF PubInv, PubType
<1>5. /\ \A t \in Pub!Subs : t # s => sub'[t] = sub[t]
      /\ sub'[s].pc = "joining" /\ sub'[s].ch = x
  BY <1>3 DEF PubInv, PubType
<1>6. Bounded'  BY <1>1, <1>3, <1>4, <1>5, BoundKept
<1>7. OneKey'  BY <1>1, <1>3, <1>5 DEF PubInv, OneKey
<1>8. ASSUME NEW C, NEW y, Past(C, y) PROVE Past(C, y)'
  BY <1>3, <1>5, <1>8 DEF Past
<1>9. Past({s[1]}, x)'
  <2> SUFFICES ASSUME NEW t \in Pub!Subs, t[1] = s[1]
               PROVE  (item[t[2]] = x => sub'[t].pc # "no") /\ (sub'[t].ch = x => sub'[t].pc # "join")
    BY <1>3 DEF Past
  <2>1. CASE t = s  BY <1>5, <2>1
  <2>2. CASE t # s
    <3>1. t[2] # s[2]  BY <2>2, SubsFacts
    <3>2. item[t[2]] # x /\ sub[t].ch # x  BY <1>1, <3>1, SubsFacts DEF PubInv, OneKey
    <3> QED BY <1>5, <2>2, <3>2
  <2> QED BY <2>1, <2>2
<1>10. Joined'
  <2>1. \A y \in Chans : y > created => conns'[y] = {}  BY <1>1, <1>3 DEF PubInv, PubType, Joined
  <2>2. ASSUME NEW y \in 1 .. created PROVE Past(conns[y], y)'
    <3> PICK C, D : C = conns[y] /\ D = conns'[y]  OBVIOUS
    <3>1. Past(C, y)'
      <4>1. Past(C, y)  BY DEF PubInv, Joined
      <4> QED BY <1>8, <4>1
    <3>2. D = IF y = x THEN C \cup {s[1]} ELSE C  BY <1>2, <1>3, Room, Zenon DEF PubInv, PubType
    <3>3. Past(D, y)'  BY <1>9, <3>1, <3>2 DEF Past
    <3> QED BY <3>3
  <2> QED BY <1>3, <2>1, <2>2 DEF Joined
<1>11. Sending'
  <2> SUFFICES ASSUME NEW p \in Publisher, pub[p].pc # "idle"
               PROVE  /\ pub[p].ch # 0 /\ Past(pub[p].start, pub[p].ch)'
                      /\ pub[p].pc = "sent" => pub[p].start \cap conns'[pub[p].ch] \subseteq pub[p].seen
    BY <1>3 DEF Sending
  <2>1. pub[p].ch # 0 /\ Past(pub[p].start, pub[p].ch)  BY DEF PubInv, Sending
  <2>2. Past(pub[p].start, pub[p].ch)'  BY <1>3, <1>8, <2>1
  <2>3. ASSUME pub[p].pc = "sent" PROVE pub[p].start \cap conns'[pub[p].ch] \subseteq pub[p].seen
    <3>1. pub[p].start \cap conns[pub[p].ch] \subseteq pub[p].seen  BY <2>3 DEF PubInv, Sending
    <3>2. CASE pub[p].ch # x  BY <1>3, <3>1, <3>2
    <3>3. CASE pub[p].ch = x
      <4>1. s[1] \notin pub[p].start  BY <1>1, <2>1, <3>3 DEF Past
      <4> QED BY <1>2, <1>3, <3>1, <3>3, <4>1 DEF PubInv, PubType
    <3> QED BY <3>2, <3>3
  <2> QED BY <2>1, <2>2, <2>3
<1> QED BY <1>4, <1>6, <1>7, <1>10, <1>11 DEF PubInv

\* CreateSet makes a channel that nobody knows yet.
LEMMA CreateKeeps == ASSUME PubConstants, PubInv, NEW s \in Pub!Subs, Pub!CreateSet(s) PROVE PubInv'
<1> PICK x : x = created + 1  OBVIOUS
<1>1. sub[s].pc = "set" /\ x \in Nat /\ x # 0  BY DEF Pub!CreateSet, PubInv, PubType
<1>2. x \in Chans /\ s[2] \in Key /\ (\A y \in 1 .. created : y \in Chans)  BY <1>1, Room, SubsFacts
<1>3. /\ sub' = [sub EXCEPT ![s] = [pc |-> "join", ch |-> x, tmp |-> 0]]
      /\ item' = [item EXCEPT ![s[2]] = x]
      /\ created' = x
      /\ conns' = conns /\ numSubs' = numSubs /\ open' = open /\ down' = down /\ pub' = pub
  BY DEF Pub!CreateSet, Pub!Becomes
<1>4. PubType'
  <2>1. 0 .. created \subseteq 0 .. x /\ x \in 0 .. x  BY <1>1 DEF PubInv, PubType
  <2>2. item' \in [Key -> 0 .. x]  BY <1>3, <2>1, Zenon DEF PubInv, PubType
  <2>3. sub' \in [Pub!Subs -> [pc : {"no", "create", "nil", "set", "join", "joining", "on", "leave", "leaving", "off"},
                               ch : 0 .. x, tmp : Int]]
    BY <1>3, <2>1 DEF PubInv, PubType
  <2>4. pub' \in [Publisher -> [pc : {"idle", "range", "drop", "sent"}, ch : 0 .. x,
                              start : SUBSET Client, seen : SUBSET Client, left : Int, n : Int]]
    BY <1>3, <2>1 DEF PubInv, PubType
  <2> QED BY <1>1, <1>3, <2>2, <2>3, <2>4 DEF PubInv, PubType
<1>5. /\ \A t \in Pub!Subs : t # s => sub'[t] = sub[t]
      /\ sub'[s].pc = "join" /\ sub'[s].ch = x
      /\ \A k \in Key : k # s[2] => item'[k] = item[k]
      /\ item'[s[2]] = x
  BY <1>2, <1>3 DEF PubInv, PubType
<1>6. /\ \A k \in Key : item[k] # x
      /\ \A t \in Pub!Subs : sub[t].ch # x
      /\ \A p \in Publisher : pub[p].ch # x
  BY <1>1 DEF PubInv, PubType
<1>7. Bounded'
  <2>1. Done' = Done \cup {s} /\ s \notin Done /\ Done \subseteq Pub!Subs  BY <1>1, <1>5 DEF Done
  <2>2. IsFiniteSet(Done) /\ Cardinality(Done) \in Nat  BY <2>1, SubsFacts, FS_Subset, FS_CardinalityType
  <2>3. Cardinality(Done') = Cardinality(Done) + 1  BY <2>1, <2>2, FS_AddElement, ZenonT(30)
  <2> QED BY <1>3, <2>2, <2>3, SubsFacts DEF PubInv, PubType, Bounded
<1>8. OneKey'  BY <1>1, <1>3, <1>5, <1>6, SubsFacts DEF PubInv, OneKey
<1>9. ASSUME NEW C, NEW y, y # x, Past(C, y) PROVE Past(C, y)'
  BY <1>1, <1>5, <1>9, SubsFacts DEF Past
<1>10. Joined'
  <2>1. conns[x] = {}  BY <1>1, <1>2 DEF PubInv, PubType, Joined
  <2>2. Past(conns[x], x)'  BY <1>3, <2>1 DEF Past
  <2>3. ASSUME NEW y \in 1 .. created PROVE Past(conns[y], y)'
    BY <1>1, <1>3, <1>9 DEF PubInv, PubType, Joined
  <2>4. \A y \in Chans : y > x => conns[y] = {}
    <3>1. Chans \subseteq Nat /\ created \in Nat  BY SubsFacts DEF PubInv, PubType, Chans
    <3>2. \A y \in Chans : y > x => y > created  BY <3>1
    <3> QED BY <3>2 DEF PubInv, Joined
  <2>5. \A y \in 1 .. x : y = x \/ y \in 1 .. created  BY <1>1 DEF PubInv, PubType
  <2> QED BY <1>3, <2>2, <2>3, <2>4, <2>5 DEF Joined
<1>11. Sending'  BY <1>3, <1>6, <1>9 DEF PubInv, Sending
<1> QED BY <1>4, <1>7, <1>8, <1>10, <1>11 DEF PubInv

\* What publishers and UnSubscribe do to conns: connections leave it.
LEMMA ConnsShrink ==
    ASSUME PubConstants, PubInv, PubType', sub' = sub \/ (\A t \in Pub!Subs : sub'[t].ch = sub[t].ch /\ (sub'[t].pc = sub[t].pc \/ (sub[t].pc = "leave" /\ sub'[t].pc = "leaving"))),
           item' = item, created' = created, \A x \in Chans : conns'[x] \subseteq conns[x]
    PROVE  /\ Bounded' /\ OneKey' /\ Joined'
           /\ \A C, x : Past(C, x) => Past(C, x)'
<1>1. \A t \in Pub!Subs : sub'[t].ch = sub[t].ch /\ (sub'[t].pc = sub[t].pc \/ (sub[t].pc = "leave" /\ sub'[t].pc = "leaving"))
  OBVIOUS
<1>2. Bounded'  BY <1>1, BoundKept
<1>3. OneKey'  BY <1>1 DEF PubInv, OneKey
<1>4. ASSUME NEW C, NEW x, Past(C, x) PROVE Past(C, x)'  BY <1>1, <1>4 DEF Past
<1>5. ASSUME NEW x \in 1 .. created PROVE Past(conns[x], x)'
  <2> PICK C, D : C = conns[x] /\ D = conns'[x]  OBVIOUS
  <2>1. Past(C, x)  BY DEF PubInv, Joined
  <2>2. Past(C, x)'  BY <1>4, <2>1
  <2>3. D \subseteq C  BY Room
  <2>4. Past(D, x)'  BY <2>2, <2>3 DEF Past
  <2> QED BY <2>4
<1>6. Joined'  BY <1>5 DEF PubInv, Joined
<1> QED BY <1>2, <1>3, <1>4, <1>6

\* UnSubscribe takes the connection off the channel.
LEMMA UnSubscribeKeeps == ASSUME PubConstants, PubInv, NEW s \in Pub!Subs, Pub!UnSubscribe(s) PROVE PubInv'
<1> PICK x : x = sub[s].ch  OBVIOUS
<1>1. sub[s].pc = "leave" /\ x # 0 /\ x \in 1 .. created  BY DEF Pub!UnSubscribe, PubInv, PubType, OneKey
<1>2. x \in Chans  BY <1>1, Room
<1>3. /\ sub' = [sub EXCEPT ![s] = [pc |-> "leaving", ch |-> x, tmp |-> numSubs[x]]]
      /\ conns' = [conns EXCEPT ![x] = @ \ {s[1]}]
      /\ item' = item /\ numSubs' = numSubs /\ created' = created /\ open' = open /\ down' = down /\ pub' = pub
  BY DEF Pub!UnSubscribe, Pub!Becomes
<1>4. PubType'  BY <1>1, <1>2, <1>3 DEF PubInv, PubType
<1>5. \A y \in Chans : conns'[y] \subseteq conns[y]  BY <1>3 DEF PubInv, PubType
<1>6. \A t \in Pub!Subs : sub'[t].ch = sub[t].ch /\ (sub'[t].pc = sub[t].pc \/ (sub[t].pc = "leave" /\ sub'[t].pc = "leaving"))
  BY <1>1, <1>3 DEF PubInv, PubType
<1>7. Bounded' /\ OneKey' /\ Joined' /\ \A C, y : Past(C, y) => Past(C, y)'  BY <1>3, <1>4, <1>5, <1>6, ConnsShrink
<1>8. \A p \in Publisher : pub[p].pc # "idle" => pub[p].ch \in Chans
  BY Room DEF PubInv, PubType, Sending
<1>9. Sending'  BY <1>3, <1>5, <1>7, <1>8 DEF PubInv, Sending
<1> QED BY <1>4, <1>7, <1>9 DEF PubInv

\* The last to leave takes the channel off the map.
LEMMA UnregisterKeeps == ASSUME PubConstants, PubInv, NEW s \in Pub!Subs, Pub!Unregister(s) PROVE PubInv'
<1>1. /\ sub[s].pc = "leaving"
      /\ sub' = [sub EXCEPT ![s] = [pc |-> "off", ch |-> 0, tmp |-> 0]]
      /\ numSubs' = [numSubs EXCEPT ![sub[s].ch] = sub[s].tmp - 1]
      /\ item' = item \/ item' = [item EXCEPT ![s[2]] = 0]
      /\ conns' = conns /\ created' = created /\ open' = open /\ down' = down /\ pub' = pub
  BY DEF Pub!Unregister, Pub!Becomes
<1>2. PubType'
  <2> PICK x, n : x = sub[s].ch /\ n = sub[s].tmp - 1  OBVIOUS
  <2>1. n \in Int /\ numSubs' = [numSubs EXCEPT ![x] = n] /\ numSubs \in [Chans -> Int]
    BY <1>1 DEF PubInv, PubType
  <2>3. numSubs' \in [Chans -> Int]  BY <2>1, Zenon
  <2>2. item' \in [Key -> 0 .. created]  BY <1>1 DEF PubInv, PubType
  <2> QED BY <1>1, <2>2, <2>3 DEF PubInv, PubType
<1>3. /\ \A t \in Pub!Subs : t # s => sub'[t] = sub[t]
      /\ sub'[s].pc = "off" /\ sub'[s].ch = 0
      /\ \A k \in Key : item'[k] = item[k] \/ item'[k] = 0
  BY <1>1 DEF PubInv, PubType
<1>4. Bounded'  BY <1>1, <1>2, <1>3, BoundKept
<1>5. OneKey'  BY <1>3 DEF PubInv, OneKey
<1>6. ASSUME NEW C, NEW x, x # 0, Past(C, x) PROVE Past(C, x)'  BY <1>3, <1>6, SubsFacts DEF Past
<1>7. Joined'  BY <1>1, <1>6 DEF PubInv, Joined
<1>8. Sending'  BY <1>1, <1>6 DEF PubInv, Sending
<1> QED BY <1>2, <1>4, <1>5, <1>7, <1>8 DEF PubInv

\* Publish starts with the connections that are on the channel, none of which is still to join it.
LEMMA PublishKeeps == ASSUME PubConstants, PubInv, NEW p \in Publisher, NEW k \in Key, Pub!PublishTo(p, k) PROVE PubInv'
<1> PICK x : x = item[k]  OBVIOUS
<1>1. x \in 1 .. created /\ x \in Chans  BY Room DEF Pub!PublishTo, PubInv, PubType
<1>2. /\ pub' = [pub EXCEPT ![p] = [pc |-> "range", ch |-> x, start |-> conns[x],
                                    seen |-> {}, left |-> pub[p].left - 1, n |-> 0]]
      /\ item' = item /\ conns' = conns /\ numSubs' = numSubs /\ created' = created /\ sub' = sub
      /\ open' = open /\ down' = down
  BY DEF Pub!PublishTo
<1>3. PubType'  BY <1>1, <1>2 DEF PubInv, PubType
<1>4. Bounded' /\ OneKey' /\ Joined'  BY <1>2 DEF PubInv, Bounded, Done, OneKey, Joined, Past
<1>5. Past(conns[x], x)  BY <1>1 DEF PubInv, Joined
<1>6. Sending'
  <2> SUFFICES ASSUME NEW q \in Publisher, pub'[q].pc # "idle"
               PROVE  /\ pub'[q].ch # 0 /\ Past(pub[q].start, pub[q].ch)'
                      /\ pub'[q].pc = "sent" => pub'[q].start \cap conns'[pub'[q].ch] \subseteq pub'[q].seen
    BY DEF Sending
  <2>1. CASE q = p
    <3>1. pub'[q].pc = "range" /\ pub'[q].ch = x /\ pub'[q].start = conns[x]  BY <1>2, <2>1 DEF PubInv, PubType
    <3>2. \A s \in Pub!Subs : s[1] \in pub'[q].start =>
             (item'[s[2]] = pub'[q].ch => sub'[s].pc # "no") /\ (sub'[s].ch = pub'[q].ch => sub'[s].pc # "join")
      BY ONLY <1>2, <1>5, <3>1 DEF Past
    <3>3. x # 0  BY <1>1
    <3> QED BY ONLY <3>1, <3>2, <3>3 DEF Past
  <2>2. CASE q # p
    <3>1. pub'[q] = pub[q]  BY <1>2, <2>2 DEF PubInv, PubType
    <3> QED BY <1>2, <3>1 DEF PubInv, Sending, Past
  <2> QED BY <2>1, <2>2
<1> QED BY <1>3, <1>4, <1>6 DEF PubInv

\* A round of Send, its end and the return.
LEMMA PubStepKeeps == ASSUME PubConstants, PubInv, NEW p \in Publisher, Pub!PubStep(p) PROVE PubInv'
<1>1. item' = item /\ created' = created /\ sub' = sub /\ open' = open /\ down' = down
  BY DEF Pub!PubStep, Pub!Send, Pub!Drop, Pub!SendEnd, Pub!PublishReturn
<1> PICK x, w, u : x = pub[p].ch /\ w = pub[p] /\ u = pub'[p]  OBVIOUS
<1>2. w \in [pc : {"idle", "range", "drop", "sent"}, ch : 0 .. created,
             start : SUBSET Client, seen : SUBSET Client, left : Int, n : Int] /\ w.pc # "idle" /\ x \in Chans /\ x # 0
  BY Room DEF PubInv, PubType, Sending, Pub!PubStep, Pub!Send, Pub!Drop, Pub!SendEnd, Pub!PublishReturn
<1>3. /\ pub' = [pub EXCEPT ![p] = u]
      /\ u \in [pc : {"idle", "range", "drop", "sent"}, ch : 0 .. created,
               start : SUBSET Client, seen : SUBSET Client, left : Int, n : Int]
      /\ u.pc # "idle" => u.ch = x /\ u.start = w.start
      /\ u.pc = "sent" => w.start \cap conns[x] \subseteq u.seen
      /\ \A y \in Chans : conns'[y] \subseteq conns[y]
      /\ conns' \in [Chans -> SUBSET Client] /\ numSubs' \in [Chans -> Int]
  <2>1. CASE Pub!Send(p)
    <3>1. PICK c \in conns[x] \ w.seen :
            IF c \in open
            THEN pub' = [pub EXCEPT ![p].seen = @ \cup {c}] /\ conns' = conns
            ELSE conns' = [conns EXCEPT ![x] = @ \ {c}] /\ pub' = [pub EXCEPT ![p].pc = "drop", ![p].n = numSubs[x]]
      BY <2>1 DEF Pub!Send
    <3>2. numSubs' = numSubs /\ w.pc = "range" /\ c \in Client /\ numSubs[x] \in Int
      BY <1>2, <2>1, <3>1 DEF Pub!Send, PubInv, PubType
    <3>3. CASE c \in open
      <4>1. u = [w EXCEPT !.seen = @ \cup {c}] /\ pub' = [pub EXCEPT ![p] = u]  BY <3>1, <3>3 DEF PubInv, PubType
      <4> QED BY <1>2, <3>1, <3>2, <3>3, <4>1 DEF PubInv, PubType
    <3>4. CASE c \notin open
      <4>1. u = [w EXCEPT !.pc = "drop", !.n = numSubs[x]] /\ pub' = [pub EXCEPT ![p] = u]  BY <3>1, <3>4, Zenon DEF PubInv, PubType
      <4>2. conns' = [conns EXCEPT ![x] = @ \ {c}] /\ conns \in [Chans -> SUBSET Client]  BY <3>1, <3>4 DEF PubInv, PubType
      <4>3. conns' \in [Chans -> SUBSET Client] /\ \A y \in Chans : conns'[y] \subseteq conns[y]  BY <4>2, Zenon
      <4>4. u \in [pc : {"idle", "range", "drop", "sent"}, ch : 0 .. created,
                   start : SUBSET Client, seen : SUBSET Client, left : Int, n : Int]
            /\ u.pc = "drop" /\ u.ch = x /\ u.start = w.start
        BY <1>2, <3>2, <4>1, Zenon
      <4> QED BY <3>2, <4>1, <4>3, <4>4 DEF PubInv, PubType
    <3> QED BY <3>3, <3>4
  <2>2. CASE Pub!Drop(p)
    <3>1. u = [w EXCEPT !.pc = "range"] /\ pub' = [pub EXCEPT ![p] = u] /\ conns' = conns
      BY <2>2 DEF Pub!Drop, PubInv, PubType
    <3>2. numSubs' \in [Chans -> Int]
      <4> PICK n : n = w.n - 1  OBVIOUS
      <4>1. n \in Int /\ numSubs' = [numSubs EXCEPT ![x] = n] /\ numSubs \in [Chans -> Int]
        BY <1>2, <2>2 DEF Pub!Drop, PubInv, PubType
      <4> QED BY <4>1, Zenon
    <3> QED BY <1>2, <3>1, <3>2 DEF PubInv, PubType
  <2>3. CASE Pub!SendEnd(p)
    <3>1. u = [w EXCEPT !.pc = "sent"] /\ pub' = [pub EXCEPT ![p] = u] /\ conns' = conns /\ numSubs' = numSubs
          /\ w.start \cap conns[x] \subseteq w.seen
      BY <2>3 DEF Pub!SendEnd, PubInv, PubType
    <3> QED BY <1>2, <3>1, Zenon DEF PubInv, PubType
  <2>4. CASE Pub!PublishReturn(p)
    <3>1. u = [pc |-> "idle", ch |-> 0, start |-> {}, seen |-> {}, left |-> w.left, n |-> 0]
          /\ pub' = [pub EXCEPT ![p] = u] /\ conns' = conns /\ numSubs' = numSubs
      BY <2>4, Zenon DEF Pub!PublishReturn, Pub!NoPub, PubInv, PubType
    <3> QED BY <1>2, <3>1 DEF PubInv, PubType
  <2> QED BY <2>1, <2>2, <2>3, <2>4 DEF Pub!PubStep
<1>4. PubType'  BY <1>1, <1>3 DEF PubInv, PubType
<1>5. Bounded' /\ OneKey' /\ Joined' /\ \A C, y : Past(C, y) => Past(C, y)'  BY <1>1, <1>3, <1>4, ConnsShrink
<1>6. Sending'
  <2> SUFFICES ASSUME NEW q \in Publisher, pub'[q].pc # "idle"
               PROVE  /\ pub'[q].ch # 0 /\ Past(pub[q].start, pub[q].ch)'
                      /\ pub'[q].pc = "sent" => pub'[q].start \cap conns'[pub'[q].ch] \subseteq pub'[q].seen
    BY DEF Sending
  <2> PICK C, y : C = pub[q].start /\ y = pub[q].ch  OBVIOUS
  <2>1. pub[q].pc # "idle" /\ pub'[q].start = C /\ pub'[q].ch = y /\ y \in Chans
    BY <1>2, <1>3, Room DEF PubInv, PubType, Sending
  <2>2. y # 0 /\ Past(C, y)  BY <2>1 DEF PubInv, Sending
  <2>3. Past(C, y)'  BY <1>5, <2>2
  <2>4. ASSUME pub'[q].pc = "sent" PROVE C \cap conns'[y] \subseteq pub'[q].seen
    <3>1. conns'[y] \subseteq conns[y]  BY <1>3, <2>1
    <3>2. C \cap conns[y] \subseteq pub'[q].seen
      <4>1. CASE q = p  BY <1>3, <2>4, <4>1 DEF PubInv, PubType
      <4>2. CASE q # p  BY <1>3, <2>1, <2>4, <4>2 DEF PubInv, PubType, Sending
      <4> QED BY <4>1, <4>2
    <3> QED BY <3>1, <3>2
  <2> QED BY <2>1, <2>2, <2>3, <2>4 DEF Past
<1> QED BY <1>4, <1>5, <1>6 DEF PubInv

\* Every step keeps PubInv.
LEMMA PubStep == ASSUME PubConstants, PubInv, Pub!Next PROVE PubInv'
<1>1. ASSUME NEW c \in Client, Pub!SubscribeGet(c) PROVE PubInv'
  <2>1. PICK i \in DOMAIN Wants[c] :
          /\ sub[<<c, Wants[c][i]>>].pc = "no"
          /\ IF item[Wants[c][i]] = 0 THEN Pub!Becomes(<<c, Wants[c][i]>>, "create", 0, 0)
             ELSE Pub!Becomes(<<c, Wants[c][i]>>, "join", item[Wants[c][i]], 0)
    BY <1>1 DEF Pub!SubscribeGet
  <2>2. item' = item /\ conns' = conns /\ numSubs' = numSubs /\ created' = created /\ open' = open /\ down' = down /\ pub' = pub
    BY <1>1 DEF Pub!SubscribeGet
  <2> PICK s : s = <<c, Wants[c][i]>>  BY Zenon
  <2>3. s \in Pub!Subs /\ s[2] = Wants[c][i] /\ s[2] \in Key  BY SubsFacts
  <2>4. PICK pc, ch : /\ sub' = [sub EXCEPT ![s] = [pc |-> pc, ch |-> ch, tmp |-> 0]]
                      /\ (pc = "create" /\ ch = 0) \/ (pc = "join" /\ ch = item[s[2]] /\ ch # 0)
    BY <2>1, <2>3, Zenon DEF Pub!Becomes
  <2>5. sub[s].pc = "no" /\ ch \in 0 .. created /\ numSubs \in [Chans -> Int]  BY <2>1, <2>3, <2>4 DEF PubInv, PubType
  <2>6. MovesTo(s, pc, ch, 0)  BY <2>2, <2>3, <2>4, <2>5 DEF MovesTo
  <2> QED BY <2>3, <2>6, SubMoves
<1>2. ASSUME NEW s \in Pub!Subs, Pub!CreateGet(s) PROVE PubInv'
  <2>1. PICK pc : pc \in {"set", "nil"} /\ sub' = [sub EXCEPT ![s] = [pc |-> pc, ch |-> 0, tmp |-> 0]]
    BY <1>2, Zenon DEF Pub!CreateGet, Pub!Becomes
  <2>2. sub[s].pc = "create" /\ item' = item /\ conns' = conns /\ numSubs' = numSubs /\ created' = created
        /\ open' = open /\ down' = down /\ pub' = pub /\ 0 \in 0 .. created /\ numSubs \in [Chans -> Int]
    BY <1>2 DEF Pub!CreateGet, PubInv, PubType
  <2>3. MovesTo(s, pc, 0, 0)  BY <2>1, <2>2 DEF MovesTo
  <2> QED BY <2>3, SubMoves
<1>3. ASSUME NEW s \in Pub!Subs, Pub!Register(s) PROVE PubInv'
  <2> PICK x, n : x = sub[s].ch /\ n = sub[s].tmp + 1  OBVIOUS
  <2>1. sub' = [sub EXCEPT ![s] = [pc |-> "on", ch |-> x, tmp |-> 0]] /\ numSubs' = [numSubs EXCEPT ![x] = n]
    BY <1>3 DEF Pub!Register, Pub!Becomes
  <2>2. n \in Int /\ x \in 0 .. created /\ numSubs \in [Chans -> Int]  BY DEF PubInv, PubType
  <2>3. numSubs' \in [Chans -> Int]  BY <2>1, <2>2, Zenon
  <2>4. sub[s].pc = "joining" /\ item' = item /\ conns' = conns /\ created' = created
        /\ open' = open /\ down' = down /\ pub' = pub
    BY <1>3 DEF Pub!Register
  <2>5. MovesTo(s, "on", x, 0)  BY <2>1, <2>2, <2>3, <2>4 DEF MovesTo
  <2> QED BY <2>5, SubMoves
<1>4. ASSUME NEW s \in Pub!Subs, Pub!UnSubscribeGet(s) PROVE PubInv'
  <2>1. PICK pc, ch : /\ sub' = [sub EXCEPT ![s] = [pc |-> pc, ch |-> ch, tmp |-> 0]]
                      /\ (pc = "off" /\ ch = 0) \/ (pc = "leave" /\ ch = item[s[2]] /\ ch # 0)
    BY <1>4 DEF Pub!UnSubscribeGet, Pub!Becomes
  <2>2. sub[s].pc = "on" /\ item' = item /\ conns' = conns /\ numSubs' = numSubs /\ created' = created
        /\ open' = open /\ down' = down /\ pub' = pub /\ ch \in 0 .. created /\ numSubs \in [Chans -> Int]
    BY <1>4, <2>1, SubsFacts DEF Pub!UnSubscribeGet, PubInv, PubType
  <2>3. MovesTo(s, pc, ch, 0)  BY <2>1, <2>2 DEF MovesTo
  <2> QED BY <2>3, SubMoves
<1>5. ASSUME NEW c \in Client, Pub!Leave(c) PROVE PubInv'
  BY <1>5 DEF Pub!Leave, PubInv, PubType, Bounded, Done, OneKey, Joined, Sending, Past
<1>6. CASE Pub!Shutdown
  BY <1>6 DEF Pub!Shutdown, PubInv, PubType, Bounded, Done, OneKey, Joined, Sending, Past
<1> QED BY <1>1, <1>2, <1>3, <1>4, <1>5, <1>6, JoinKeeps, CreateKeeps, UnSubscribeKeeps, UnregisterKeeps,
           PublishKeeps, PubStepKeeps DEF Pub!Next, Pub!SubStep

\* Send reaches every open connection that was on the channel when it began and is still
\* there, whoever joins, leaves or fails meanwhile.
THEOREM MessagesReachAll == ASSUME PubConstants PROVE Pub!Spec => []Pub!SendReachesAll
<1>1. PubInv /\ [Pub!Next]_Pub!vars => PubInv'
  <2>1. ASSUME PubInv, UNCHANGED Pub!vars PROVE PubInv'
    BY <2>1, SMTT(30) DEF Pub!vars, PubInv, PubType, Bounded, Done, OneKey, Joined, Sending, Past
  <2> QED BY <2>1, PubStep
<1>2. PubInv => Pub!SendReachesAll  BY DEF PubInv, Sending, Pub!SendReachesAll
<1> QED BY <1>1, <1>2, PubInit, PTL DEF Pub!Spec

\* Until the server shuts down each subscriber is on the channel of its key, which is the one
\* that was there in the beginning.
Reachable ==
    ~down => \A s \in Pub!Subs :
        /\ sub[s].pc \in {"no", "join", "joining", "on"} /\ item[s[2]] # 0
        /\ sub[s].pc # "no" => sub[s].ch = item[s[2]]
        /\ sub[s].pc \in {"joining", "on"} /\ s[1] \in open => s[1] \in conns[item[s[2]]]

\* A client whose SUBSCRIBE has returned is on the channel that publishers find until it
\* leaves or the server shuts down, and a message reaches all of them, when each of the
\* channels was there before: two that subscribe first to a channel may miss each other
\* (pubsub.go, Create).
THEOREM SubscribersServed ==
    ASSUME PubConstants, \A s \in Pub!Subs : s[2] \in Existing
    PROVE  Pub!Spec => []Pub!Delivers
<1>1. PubInv /\ Reachable /\ [Pub!Next]_Pub!vars => (PubInv /\ Reachable)'
  <2> SUFFICES ASSUME PubInv, Reachable, [Pub!Next]_Pub!vars PROVE PubInv' /\ Reachable'  OBVIOUS
  <2>1. CASE UNCHANGED Pub!vars
    BY <2>1, SMTT(30) DEF Pub!vars, PubInv, PubType, Bounded, Done, OneKey, Joined, Sending, Past, Reachable
  <2>2. CASE Pub!Next
    <3>1. PubInv'  BY <2>2, PubStep
    <3>2. CASE down \/ down'
      <4>1. down' = down \/ down' = TRUE  BY <2>2, Zenon DEF Pub!Next, Pub!SubscribeGet, Pub!Leave, Pub!SubStep, Pub!CreateGet, Pub!CreateSet, Pub!Join,
                 Pub!Register, Pub!UnSubscribeGet, Pub!UnSubscribe, Pub!Unregister, Pub!PubStep, Pub!Send, Pub!Drop, Pub!SendEnd,
                 Pub!PublishReturn, Pub!PublishTo, Pub!Shutdown
      <4>2. down'  BY <3>2, <4>1
      <4> QED BY <3>1, <4>2 DEF Reachable
    <3>3. CASE ~down /\ ~down'
      <4> USE <3>3
      <4>1. ASSUME NEW t \in Pub!Subs, NEW pc, NEW tmp, item' = item, conns' = conns, open' = open,
                   sub' = [sub EXCEPT ![t] = [pc |-> pc, ch |-> item[t[2]], tmp |-> tmp]],
                   pc = "join" \/ (pc = "on" /\ sub[t].pc = "joining")
            PROVE  Reachable'
        <5>1. sub'[t].pc = pc /\ sub'[t].ch = item[t[2]] /\ \A s \in Pub!Subs : s # t => sub'[s] = sub[s]
          BY <4>1 DEF PubInv, PubType
        <5> QED BY <4>1, <5>1 DEF Reachable
      <4>2. ASSUME NEW c \in Client, Pub!SubscribeGet(c) PROVE Reachable'
        <5>1. PICK i \in DOMAIN Wants[c] :
                IF item[Wants[c][i]] = 0 THEN Pub!Becomes(<<c, Wants[c][i]>>, "create", 0, 0)
                ELSE Pub!Becomes(<<c, Wants[c][i]>>, "join", item[Wants[c][i]], 0)
          BY <4>2 DEF Pub!SubscribeGet
        <5> PICK t : t = <<c, Wants[c][i]>>  BY Zenon
        <5>2. t \in Pub!Subs /\ t[2] = Wants[c][i]  BY SubsFacts
        <5>3. item[t[2]] # 0  BY <5>2 DEF Reachable
        <5>4. sub' = [sub EXCEPT ![t] = [pc |-> "join", ch |-> item[t[2]], tmp |-> 0]]
          BY <5>1, <5>2, <5>3 DEF Pub!Becomes
        <5> QED BY <4>1, <4>2, <5>2, <5>4, Zenon DEF Pub!SubscribeGet
      <4>3. ASSUME NEW t \in Pub!Subs, Pub!Join(t) PROVE Reachable'
        <5> PICK x : x = sub[t].ch  OBVIOUS
        <5>1. x = item[t[2]] /\ x # 0 /\ x \in 1 .. created /\ x \in Chans
          BY <4>3, Room, SubsFacts DEF Pub!Join, PubInv, PubType, OneKey, Reachable
        <5>2. /\ sub' = [sub EXCEPT ![t] = [pc |-> "joining", ch |-> x, tmp |-> numSubs[x]]]
              /\ conns' = [conns EXCEPT ![x] = @ \cup {t[1]}] /\ item' = item /\ open' = open
          BY <4>3 DEF Pub!Join, Pub!Becomes
        <5>3. /\ sub'[t].pc = "joining" /\ sub'[t].ch = x /\ \A s \in Pub!Subs : s # t => sub'[s] = sub[s]
              /\ t[1] \in conns'[x] /\ \A y \in Chans : conns[y] \subseteq conns'[y]
          BY <5>1, <5>2 DEF PubInv, PubType
        <5>4. \A s \in Pub!Subs : item[s[2]] \in Chans  BY Room, SubsFacts DEF PubInv, PubType, Reachable
        <5> QED BY <5>1, <5>2, <5>3, <5>4 DEF Reachable
      <4>4. ASSUME NEW t \in Pub!Subs, Pub!Register(t) PROVE Reachable'
        <5>1. sub[t].pc = "joining" /\ sub[t].ch = item[t[2]]  BY <4>4 DEF Pub!Register, Reachable
        <5> QED BY <4>1, <4>4, <5>1, Zenon DEF Pub!Register, Pub!Becomes
      <4>5. ASSUME NEW p \in Publisher, Pub!Send(p) PROVE Reachable'
        <5>1. \A c \in open : \A y \in Chans : c \in conns[y] => c \in conns'[y]  BY <4>5 DEF Pub!Send, PubInv, PubType
        <5>2. \A s \in Pub!Subs : item[s[2]] \in Chans  BY Room, SubsFacts DEF PubInv, PubType, Reachable
        <5> QED BY <4>5, <5>1, <5>2 DEF Pub!Send, Reachable
      <4>6. ASSUME NEW c \in Client, Pub!Leave(c) PROVE Reachable'  BY <4>6, ZenonT(30) DEF Pub!Leave, Reachable
      <4>7. ASSUME UNCHANGED <<item, conns, sub, open>> PROVE Reachable'  BY <4>7 DEF Reachable
      <4>8. \A s \in Pub!Subs : sub[s].pc \in {"no", "join", "joining", "on"}  BY DEF Reachable
      <4> QED BY <2>2, <4>2, <4>3, <4>4, <4>5, <4>6, <4>7, <4>8, <3>1, Zenon DEF Pub!Next, Pub!SubStep, Pub!PubStep,
                 Pub!CreateGet, Pub!CreateSet, Pub!UnSubscribeGet, Pub!UnSubscribe, Pub!Unregister,
                 Pub!Drop, Pub!SendEnd, Pub!PublishReturn, Pub!PublishTo, Pub!Shutdown
    <3> QED BY <3>1, <3>2, <3>3
  <2> QED BY <2>1, <2>2
<1>2. Pub!Init => Reachable
  <2> SUFFICES ASSUME Pub!Init PROVE Reachable  OBVIOUS
  <2>1. \A k \in Existing : item[k] # 0
    BY PubCardinality, SubsFacts DEF Pub!Init, PubConstants
  <2> QED BY <2>1 DEF Pub!Init, Reachable
<1>3. PubInv /\ Reachable => Pub!Delivers
  BY DEF PubInv, PubType, Sending, Reachable, Pub!Delivers, Pub!SendReachesAll, Pub!SubscriberReachable
<1> QED BY <1>1, <1>2, <1>3, PubInit, PTL DEF Pub!Spec
=============================================================================
