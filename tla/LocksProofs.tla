----------------------------- MODULE LocksProofs -----------------------------
(***************************************************************************)
(* Theorems about module Locks, for every number of goroutines, stripes    *)
(* and keys: the locks are exclusive, LockMulti never waits in a circle,   *)
(* and stripe-by-stripe locking implements the abstract lock table.  And   *)
(* about module SetAlgebra, for any clients, keys and members: the set     *)
(* commands are atomic under those locks.                                  *)
(***************************************************************************)
EXTENDS Locks, Sequences, WellFoundedInduction, TLAPS

CONSTANTS Client, Member, Stripes, KeyPos, Command, Null, Other  \* SetAlgebra

VARIABLES db, ttl, held, fr                                         \* SetAlgebra

(***************************************************************************)
(* The set commands                                                        *)
(***************************************************************************)
Sets == INSTANCE SetAlgebra WITH Stripe <- Stripes

\* SUNIONSTORE writes without the lock of its destination and is left out.
SetConstants ==
    /\ KeyPos \in [Key -> Stripes]
    /\ Command \subseteq [op : {"sdiff", "sinter", "sunion", "sdiffstore", "sinterstore"}, des : Key, keys : Seq(Key)]
    /\ Null \notin SUBSET Member /\ Other \notin SUBSET Member /\ Null # Other

Val == (SUBSET Member) \cup {Null, Other}
Labels == {"idle", "descheck", "desexpire", "desget", "check", "expire", "read", "panic", "recheck", "reexpire",
           "deslock", "destest", "store"}
Early == {"descheck", "desexpire", "desget", "check", "expire"}
Frame == [m : Command \cup {Null}, todo : Seq(Key), keys : Seq(Key), sets : Seq(Val), res : SUBSET Member]

SetType ==
    /\ db \in [Key -> Val]
    /\ held \in [Client -> [poses : SUBSET Stripes, mode : {"W", "R"}]]
    /\ pc \in [Client -> Labels] /\ fr \in [Client -> Frame]
    /\ \A c \in Client : pc[c] # "idle" => fr[c].m \in Command
    /\ \A c \in Client : pc[c] = "expire" => fr[c].todo # <<>>
    /\ \A c \in Client : pc[c] \in Early => fr[c].sets = <<>>

WritersAlone ==
    \A c, d \in Client : c # d /\ held[c].mode = "W" => held[c].poses \cap held[d].poses = {}

\* What a command has read it would read again: it keeps the writers of its sources out.
Reading ==
    \A c \in Client : pc[c] = "read" =>
        /\ \A i \in DOMAIN fr[c].keys : KeyPos[fr[c].keys[i]] \in held[c].poses
        /\ fr[c].keys # <<>>
        /\ Len(fr[c].sets) <= Len(fr[c].keys)
        /\ \A i \in DOMAIN fr[c].sets : fr[c].sets[i] = db[fr[c].keys[i]] /\ fr[c].sets[i] # Other

\* The destination keeps its type from the second test to the store.
Storing ==
    \A c \in Client : pc[c] \in {"destest", "store"} =>
        /\ held[c] = [poses |-> {KeyPos[fr[c].m.des]}, mode |-> "W"]
        /\ pc[c] = "store" => db[fr[c].m.des] # Other

SetInv == SetType /\ WritersAlone /\ Reading /\ Storing

\* A step of command c that leaves the others alone.
Alone(c) == \A d \in Client : d # c => pc'[d] = pc[d] /\ fr'[d] = fr[d] /\ held'[d] = held[d]

\* What a step changes of the database it changes under the lock.
Guarded(c) ==
    \E k \in Key : /\ \A l \in Key : l # k => db'[l] = db[l]
                   /\ \A d \in Client : d # c => KeyPos[k] \notin held[d].poses

\* In the beginning no command runs and no lock is held.
LEMMA SetInit == ASSUME SetConstants, Sets!Init PROVE SetInv
<1>1. db = [k \in Key |-> Null] /\ held = [c \in Client |-> [poses |-> {}, mode |-> "R"]]
      /\ pc = [c \in Client |-> "idle"]
  BY DEF Sets!Init, Sets!Table!Init, Sets!Table!Nothing
<1>2. fr = [c \in Client |-> [m |-> Null, todo |-> <<>>, keys |-> <<>>, sets |-> <<>>, res |-> {}]]
  BY DEF Sets!Init, Sets!Idle, Sets!Begun
<1>3. fr \in [Client -> Frame]  BY <1>2 DEF Frame
<1>4. SetType
  <2>1. db \in [Key -> Val] /\ pc \in [Client -> Labels]  BY <1>1 DEF Val, Labels
  <2>2. held \in [Client -> [poses : SUBSET Stripes, mode : {"W", "R"}]]  BY <1>1
  <2> QED BY <1>1, <1>3, <2>1 DEF SetType, Early
<1>5. WritersAlone  BY <1>1 DEF WritersAlone
<1>6. Reading /\ Storing  BY <1>1 DEF Reading, Storing
<1> QED BY <1>4, <1>5, <1>6 DEF SetInv

\* Commands in the middle of their work are not disturbed by the others.
LEMMA Undisturbed ==
    ASSUME SetConstants, SetInv, NEW c, Alone(c), db' = db \/ Guarded(c),
           NEW d \in Client, d # c
    PROVE  /\ pc'[d] = "read" =>
                /\ \A i \in DOMAIN fr'[d].keys : KeyPos[fr'[d].keys[i]] \in held'[d].poses
                /\ fr'[d].keys # <<>>
                /\ Len(fr'[d].sets) <= Len(fr'[d].keys)
                /\ \A i \in DOMAIN fr'[d].sets : fr'[d].sets[i] = db'[fr'[d].keys[i]] /\ fr'[d].sets[i] # Other
           /\ pc'[d] \in {"destest", "store"} =>
                /\ held'[d] = [poses |-> {KeyPos[fr'[d].m.des]}, mode |-> "W"]
                /\ pc'[d] = "store" => db'[fr'[d].m.des] # Other
<1>1. pc'[d] = pc[d] /\ fr'[d] = fr[d] /\ held'[d] = held[d]  BY DEF Alone
<1>2. ASSUME NEW k \in Key, KeyPos[k] \in held[d].poses PROVE db'[k] = db[k]
  BY <1>2 DEF Guarded
<1> PICK w, g, l : w = fr[d] /\ g = held[d] /\ l = pc[d]  OBVIOUS
<1>3. w \in Frame  BY DEF SetInv, SetType
<1>4. ASSUME l = "read"
      PROVE  /\ \A i \in DOMAIN w.keys : KeyPos[w.keys[i]] \in g.poses
             /\ w.keys # <<>> /\ Len(w.sets) <= Len(w.keys)
             /\ \A i \in DOMAIN w.sets : w.sets[i] = db'[w.keys[i]] /\ w.sets[i] # Other
  <2>1. /\ \A i \in DOMAIN w.keys : KeyPos[w.keys[i]] \in g.poses
        /\ w.keys # <<>> /\ Len(w.sets) <= Len(w.keys)
        /\ \A i \in DOMAIN w.sets : w.sets[i] = db[w.keys[i]] /\ w.sets[i] # Other
    BY <1>4, Zenon DEF SetInv, Reading
  <2>2. w.keys \in Seq(Key) /\ \A i \in DOMAIN w.sets : i \in DOMAIN w.keys  BY <1>3, <2>1 DEF Frame
  <2>3. \A i \in DOMAIN w.keys : w.keys[i] \in Key  BY <2>2
  <2> QED BY <1>2, <2>1, <2>2
<1>5. ASSUME l \in {"destest", "store"}
      PROVE  /\ g = [poses |-> {KeyPos[w.m.des]}, mode |-> "W"]
             /\ l = "store" => db'[w.m.des] # Other
  <2>1. g = [poses |-> {KeyPos[w.m.des]}, mode |-> "W"] /\ (l = "store" => db[w.m.des] # Other)
    BY <1>5 DEF SetInv, Storing
  <2>2. w.m.des \in Key  BY <1>5 DEF SetInv, SetType, SetConstants
  <2> QED BY <1>2, <2>1, <2>2
<1> QED BY <1>1, <1>4, <1>5

\* The command of client c goes to label l with locals u and locks g.
MovesTo(c, l, u, g) ==
    /\ pc' = [pc EXCEPT ![c] = l]
    /\ fr' = [fr EXCEPT ![c] = u] \/ (fr' = fr /\ u = fr[c])
    /\ held' = [held EXCEPT ![c] = g] \/ (held' = held /\ g = held[c])
    /\ l \in Labels /\ u \in Frame /\ g \in [poses : SUBSET Stripes, mode : {"W", "R"}]
    /\ l # "idle" => u.m \in Command
    /\ l = "expire" => u.todo # <<>>
    /\ l \in Early => u.sets = <<>>
    /\ db' \in [Key -> Val] /\ (db' = db \/ Guarded(c))
    /\ \A d \in Client : d # c /\ (g.mode = "W" \/ held[d].mode = "W") => g.poses \cap held[d].poses = {}

ReadsOn(l, u, g) ==
    l = "read" => /\ \A i \in DOMAIN u.keys : KeyPos[u.keys[i]] \in g.poses
                  /\ u.keys # <<>>
                  /\ Len(u.sets) <= Len(u.keys)
                  /\ \A i \in DOMAIN u.sets : u.sets[i] = db'[u.keys[i]] /\ u.sets[i] # Other

StoresOn(l, u, g) ==
    l \in {"destest", "store"} => /\ g = [poses |-> {KeyPos[u.m.des]}, mode |-> "W"]
                                  /\ l = "store" => db'[u.m.des] # Other

\* Such a step keeps SetInv.
LEMMA SetMoves ==
    ASSUME SetConstants, SetInv, NEW c \in Client, NEW l, NEW u, NEW g,
           MovesTo(c, l, u, g), ReadsOn(l, u, g), StoresOn(l, u, g)
    PROVE  SetInv'
<1>1. Alone(c)  BY DEF MovesTo, Alone, SetInv, SetType
<1>2. pc'[c] = l /\ fr'[c] = u /\ held'[c] = g  BY DEF MovesTo, SetInv, SetType
<1>3. SetType'
  <2>1. pc' \in [Client -> Labels] /\ fr' \in [Client -> Frame]
        /\ held' \in [Client -> [poses : SUBSET Stripes, mode : {"W", "R"}]] /\ db' \in [Key -> Val]
    BY SMTT(20) DEF MovesTo, SetInv, SetType
  <2>2. ASSUME NEW d \in Client 
        PROVE  /\ pc'[d] # "idle" => fr'[d].m \in Command
               /\ pc'[d] = "expire" => fr'[d].todo # <<>>
               /\ pc'[d] \in Early => fr'[d].sets = <<>>
    <3>1. CASE d = c  BY <1>2, <3>1 DEF MovesTo
    <3>2. CASE d # c  BY <1>1, <3>2 DEF Alone, SetInv, SetType
    <3> QED BY <3>1, <3>2
  <2> QED BY <2>1, <2>2 DEF SetType
<1>4. WritersAlone'
  <2> SUFFICES ASSUME NEW d \in Client, NEW e \in Client, d # e, held'[d].mode = "W"
               PROVE  held'[d].poses \cap held'[e].poses = {}
    BY DEF WritersAlone
  <2>1. CASE d = c  BY <1>1, <1>2, <2>1 DEF Alone, MovesTo
  <2>2. CASE e = c  BY <1>1, <1>2, <2>2 DEF Alone, MovesTo
  <2>3. CASE d # c /\ e # c  BY <1>1, <2>3 DEF Alone, SetInv, WritersAlone
  <2> QED BY <2>1, <2>2, <2>3
<1>5. db' = db \/ Guarded(c)  BY DEF MovesTo
<1>6. Reading'
  <2> SUFFICES ASSUME NEW d \in Client, pc'[d] = "read"
               PROVE  /\ \A i \in DOMAIN fr'[d].keys : KeyPos[fr'[d].keys[i]] \in held'[d].poses
                      /\ fr'[d].keys # <<>>
                      /\ Len(fr'[d].sets) <= Len(fr'[d].keys)
                      /\ \A i \in DOMAIN fr'[d].sets : fr'[d].sets[i] = db'[fr'[d].keys[i]] /\ fr'[d].sets[i] # Other
    BY DEF Reading
  <2>1. CASE d = c  BY <1>2, <2>1 DEF ReadsOn
  <2>2. CASE d # c  BY <1>1, <1>5, <2>2, Undisturbed, Zenon
  <2> QED BY <2>1, <2>2
<1>7. Storing'
  <2> SUFFICES ASSUME NEW d \in Client, pc'[d] \in {"destest", "store"}
               PROVE  /\ held'[d] = [poses |-> {KeyPos[fr'[d].m.des]}, mode |-> "W"]
                      /\ pc'[d] = "store" => db'[fr'[d].m.des] # Other
    BY DEF Storing
  <2>1. CASE d = c  BY <1>2, <2>1 DEF StoresOn
  <2>2. CASE d # c  BY <1>1, <1>5, <2>2, Undisturbed
  <2> QED BY <2>1, <2>2
<1> QED BY <1>3, <1>4, <1>6, <1>7 DEF SetInv

\* Commands of other clients, each between lock and unlock of its key.
LEMMA OthersKeep == ASSUME SetConstants, SetInv, Sets!Others PROVE SetInv' /\ Sets!KeepsOtherTypes
<1>1. UNCHANGED <<held, pc, fr>>
  BY DEF Sets!Others, Sets!SAdd, Sets!SRem, Sets!SetString, Sets!ExpireKey, Sets!Due, Sets!Del
<1>2. \/ db' = db
      \/ \E k \in Key : Sets!Free(k) /\ \E v \in Val : db' = [db EXCEPT ![k] = v] /\ (db[k] = Other => ~Sets!IsSet(v))
  <2>1. PICK k \in Key : \/ \E x \in Member : Sets!SAdd(k, x) \/ Sets!SRem(k, x)
                         \/ Sets!SetString(k) \/ Sets!ExpireKey(k) \/ Sets!Due(k) \/ Sets!Del(k)
    BY DEF Sets!Others
  <2>2. db[k] \in Val  BY DEF SetInv, SetType
  <2>3. ASSUME NEW x \in Member, Sets!SAdd(k, x)
        PROVE  Sets!Free(k) /\ db[k] # Other /\ \E v \in Val : db' = [db EXCEPT ![k] = v]
    <3>1. db' = [db EXCEPT ![k] = IF db[k] = Null THEN {x} ELSE db[k] \cup {x}] /\ Sets!Free(k) /\ db[k] # Other
      BY <2>3 DEF Sets!SAdd
    <3>2. (IF db[k] = Null THEN {x} ELSE db[k] \cup {x}) \in Val  BY <2>2, <3>1 DEF Val
    <3> QED BY <3>1, <3>2, Zenon
  <2>4. ASSUME NEW x \in Member, Sets!SRem(k, x)
        PROVE  Sets!Free(k) /\ db[k] # Other /\ \E v \in Val : db' = [db EXCEPT ![k] = v]
    <3>1. db' = [db EXCEPT ![k] = IF db[k] = {x} THEN Null ELSE db[k] \ {x}] /\ Sets!Free(k) /\ db[k] # Other /\ db[k] # Null
      BY <2>4 DEF Sets!SRem, Sets!IsSet
    <3>3. db[k] \in SUBSET Member  BY <2>2, <3>1 DEF Val
    <3>4. db[k] \ {x} \in SUBSET Member  BY <3>3
    <3>2. (IF db[k] = {x} THEN Null ELSE db[k] \ {x}) \in Val  BY <3>4 DEF Val
    <3> QED BY <3>1, <3>2, Zenon
  <2>5. ASSUME Sets!SetString(k) \/ Sets!Del(k)
        PROVE  Sets!Free(k) /\ \E v \in Val : db' = [db EXCEPT ![k] = v] /\ ~Sets!IsSet(v)
    <3>1. Sets!Free(k) /\ (db' = [db EXCEPT ![k] = Other] \/ db' = [db EXCEPT ![k] = Null])
      BY <2>5 DEF Sets!SetString, Sets!Del, Sets!Expired
    <3> QED BY <3>1 DEF Val, Sets!IsSet
  <2>6. CASE Sets!ExpireKey(k) \/ Sets!Due(k)  BY <2>6 DEF Sets!ExpireKey, Sets!Due
  <2>7. CASE \E x \in Member : Sets!SAdd(k, x) \/ Sets!SRem(k, x)  BY <2>3, <2>4, <2>7
  <2>8. CASE Sets!SetString(k) \/ Sets!Del(k)  BY <2>5, <2>8
  <2> QED BY <2>1, <2>6, <2>7, <2>8
<1>3. db' \in [Key -> Val]  BY <1>2 DEF SetInv, SetType
<1>4. ASSUME NEW c PROVE Alone(c) /\ (db' = db \/ Guarded(c))
  BY <1>1, <1>2 DEF Alone, Guarded, Sets!Free, SetInv, SetType
<1>5. SetType' /\ WritersAlone'  BY <1>1, <1>3 DEF SetInv, SetType, WritersAlone
<1>6. Reading' /\ Storing'
  <2>1. PICK c : c \notin Client  BY NoSetContainsEverything
  <2> QED BY <1>4, <2>1, Undisturbed, Zenon DEF Reading, Storing
<1>7. Sets!KeepsOtherTypes  BY <1>2 DEF Sets!KeepsOtherTypes, Sets!IsSet, SetInv, SetType
<1> QED BY <1>5, <1>6, <1>7 DEF SetInv

\* The locals of a command that has just begun.
LEMMA FreshFrame ==
    ASSUME SetConstants, NEW m \in Command \cup {Null}, NEW t \in Seq(Key)
    PROVE  Sets!Begun(m, t) \in Frame /\ Sets!Begun(m, t).m = m /\ Sets!Begun(m, t).todo = t /\ Sets!Begun(m, t).sets = <<>>
BY DEF Sets!Begun, Frame

Nothing == [poses |-> {}, mode |-> "R"]

\* A step that takes no lock, and neither reads a source nor tests the destination.
QuietTo(c, l, u, g) ==
    /\ pc' = [pc EXCEPT ![c] = l]
    /\ fr' = [fr EXCEPT ![c] = u] \/ (fr' = fr /\ u = fr[c])
    /\ held' = [held EXCEPT ![c] = g] \/ (held' = held /\ g = held[c])
    /\ l \in Labels \ {"read", "destest", "store"} /\ u \in Frame /\ (g = held[c] \/ g = Nothing)
    /\ l # "idle" => u.m \in Command
    /\ l = "expire" => u.todo # <<>>
    /\ l \in Early => u.sets = <<>>

\* Such a step keeps SetInv when it changes the database under the lock of the key.
LEMMA Quiet ==
    ASSUME SetConstants, SetInv, NEW c \in Client, NEW l, NEW u, NEW g, QuietTo(c, l, u, g),
           db' \in [Key -> Val], db' = db \/ Guarded(c)
    PROVE  SetInv'
<1>1. g \in [poses : SUBSET Stripes, mode : {"W", "R"}]  BY DEF QuietTo, Nothing, SetInv, SetType
<1>2. \A d \in Client : d # c /\ (g.mode = "W" \/ held[d].mode = "W") => g.poses \cap held[d].poses = {}
  <2>1. CASE g = Nothing  BY <2>1 DEF Nothing
  <2>2. CASE g = held[c]  BY <2>2 DEF SetInv, WritersAlone
  <2> QED BY <2>1, <2>2 DEF QuietTo
<1>3. MovesTo(c, l, u, g)  BY <1>1, <1>2 DEF QuietTo, MovesTo
<1> QED BY <1>3, SetMoves DEF ReadsOn, StoresOn, QuietTo

\* CheckTTL deletes a key whose lock is free.
LEMMA ExpiredGuarded ==
    ASSUME SetConstants, SetInv, NEW c \in Client, NEW k \in Key, Sets!Expired(k)
    PROVE  db' \in [Key -> Val] /\ Guarded(c) /\ Sets!KeepsOtherTypes
BY DEF Sets!Expired, Sets!Free, Guarded, Val, SetInv, SetType, Sets!KeepsOtherTypes, Sets!IsSet

\* A step that leaves the database as it is keeps its types.
LEMMA Same == ASSUME SetConstants, SetInv, db' = db PROVE db' \in [Key -> Val] /\ Sets!KeepsOtherTypes
BY DEF SetInv, SetType, Sets!KeepsOtherTypes, Sets!IsSet

\* The frame and the command of a client.
LEMMA Locals ==
    ASSUME SetConstants, SetInv, NEW c \in Client
    PROVE  /\ fr[c] \in Frame
           /\ pc[c] # "idle" => /\ fr[c].m \in Command /\ fr[c].m.des \in Key
                               /\ fr[c].m.op \in {"sdiff", "sinter", "sunion", "sdiffstore", "sinterstore"}
BY DEF SetInv, SetType, SetConstants

\* A command begins without locks and with nothing read.
LEMMA StartKeeps ==
    ASSUME SetConstants, SetInv, NEW c \in Client, NEW m \in Command, Sets!Start(c, m)
    PROVE  SetInv' /\ Sets!KeepsOtherTypes
<1> PICK u, l, g : u = Sets!Begun(m, m.keys) /\ g = held[c] /\ l = IF m.op \in Sets!Stores THEN "descheck" ELSE "check"  OBVIOUS
<1>1. m.keys \in Seq(Key)  BY DEF SetConstants
<1>2. u \in Frame /\ u.m = m /\ u.sets = <<>>  BY <1>1, FreshFrame
<1>3. pc' = [pc EXCEPT ![c] = l] /\ fr' = [fr EXCEPT ![c] = u] /\ held' = held /\ db' = db
  BY DEF Sets!Start, Sets!Goto
<1>4. QuietTo(c, l, u, g)  BY <1>2, <1>3 DEF QuietTo, Labels
<1> QED BY <1>3, <1>4, Quiet, Same

\* A command that returns.
LEMMA Leaves ==
    ASSUME SetConstants, SetInv, NEW c \in Client, Sets!Leave(c), db' = db,
           held' = held \/ held' = [held EXCEPT ![c] = Nothing]
    PROVE  SetInv' /\ Sets!KeepsOtherTypes
<1> PICK u, l : u = Sets!Begun(Null, <<>>) /\ l = "idle"  OBVIOUS
<1>1. PICK g : (held' = [held EXCEPT ![c] = g] /\ g = Nothing) \/ (held' = held /\ g = held[c])  OBVIOUS
<1>2. u \in Frame
  <2>1. <<>> \in Seq(Key)  OBVIOUS
  <2> QED BY <2>1, FreshFrame, Zenon
<1>3. pc' = [pc EXCEPT ![c] = l] /\ fr' = [fr EXCEPT ![c] = u]  BY DEF Sets!Leave, Sets!Goto, Sets!Idle
<1>4. QuietTo(c, l, u, g)  BY <1>1, <1>2, <1>3 DEF QuietTo, Labels, Early
<1> QED BY <1>4, Quiet, Same

\* CheckTTL of the destination and the first look at it.
LEMMA DesChecks ==
    ASSUME SetConstants, SetInv, NEW c \in Client, Sets!DesCheck(c) \/ Sets!DesExpire(c) \/ Sets!DesGet(c)
    PROVE  SetInv' /\ Sets!KeepsOtherTypes
<1>1. held' = held /\ pc[c] # "idle"  BY DEF Sets!DesCheck, Sets!DesExpire, Sets!DesGet, Sets!At
<1>2. fr[c] \in Frame /\ fr[c].m \in Command /\ fr[c].m.des \in Key /\ (pc[c] \in Early => fr[c].sets = <<>>)
  BY <1>1, Locals DEF SetInv, SetType
<1>3. ASSUME NEW l \in {"desexpire", "reexpire", "desget", "deslock", "check"}, pc' = [pc EXCEPT ![c] = l], fr' = fr,
             l \in Early => pc[c] \in Early, db' \in [Key -> Val], db' = db \/ Guarded(c)
      PROVE  SetInv'
  <2>1. QuietTo(c, l, fr[c], held[c])  BY <1>1, <1>2, <1>3 DEF QuietTo, Labels
  <2> QED BY <1>3, <2>1, Quiet
<1>4. CASE Sets!DesCheck(c)
  <2>1. db' = db /\ fr' = fr /\ \E l \in {"desexpire", "reexpire", "desget", "deslock", "check"} :
              pc' = [pc EXCEPT ![c] = l] /\ (l \in Early => pc[c] \in Early)
    BY <1>4, Zenon DEF Sets!DesCheck, Sets!Goto, Sets!At, Early
  <2> QED BY <1>3, <2>1, Same, Zenon
<1>5. CASE Sets!DesExpire(c)
  <2>1. Sets!Expired(fr[c].m.des) /\ fr' = fr
        /\ \E l \in {"desexpire", "reexpire", "desget", "deslock", "check"} :
              pc' = [pc EXCEPT ![c] = l] /\ (l \in Early => pc[c] \in Early)
    BY <1>5, Zenon DEF Sets!DesExpire, Sets!Goto, Sets!Des, Sets!At, Early
  <2>2. db' \in [Key -> Val] /\ Guarded(c) /\ Sets!KeepsOtherTypes  BY <1>2, <2>1, ExpiredGuarded
  <2> QED BY <1>3, <2>1, <2>2, Zenon
<1>6. CASE Sets!DesGet(c)
  <2>1. db' = db /\ (Sets!Leave(c) \/ (pc' = [pc EXCEPT ![c] = "check"] /\ fr' = fr))
    BY <1>6 DEF Sets!DesGet, Sets!Goto
  <2>2. pc[c] \in Early  BY <1>6 DEF Sets!DesGet, Sets!At, Early
  <2> QED BY <1>1, <1>3, <2>1, <2>2, Same, Leaves
<1> QED BY <1>4, <1>5, <1>6

\* The loop of CheckTTL over the sources.
LEMMA SourceKeeps ==
    ASSUME SetConstants, SetInv, NEW c \in Client, NEW kept, Sets!SourceKept(c, kept), fr[c].todo # <<>>, held' = held,
           pc[c] \in {"check", "expire"}, db' \in [Key -> Val], db' = db \/ Guarded(c)
    PROVE  SetInv'
<1> PICK w, l : w = fr[c] /\ l = "check"  OBVIOUS
<1> PICK t, k, u : t = Tail(w.todo) /\ k = (IF kept THEN Append(w.keys, Head(w.todo)) ELSE w.keys)
                  /\ u = [w EXCEPT !.todo = t, !.keys = k]
  BY Zenon
<1>1. w \in Frame /\ w.m \in Command /\ w.sets = <<>>  BY DEF SetInv, SetType, Early
<1>2. t \in Seq(Key) /\ k \in Seq(Key)  BY <1>1 DEF Frame
<1>3. u \in Frame /\ u.m = w.m /\ u.sets = w.sets  BY <1>1, <1>2, Zenon DEF Frame
<1>4. fr' = [fr EXCEPT ![c] = u] /\ pc' = [pc EXCEPT ![c] = l]  BY Zenon DEF Sets!SourceKept, Sets!Goto
<1>5. QuietTo(c, l, u, held[c])  BY <1>1, <1>3, <1>4 DEF QuietTo, Labels
<1> QED BY <1>5, Quiet

\* CheckTTL of the sources.
LEMMA ChecksKeep ==
    ASSUME SetConstants, SetInv, NEW c \in Client, Sets!Check(c) \/ Sets!Expire(c) \/ Sets!NoSources(c)
    PROVE  SetInv' /\ Sets!KeepsOtherTypes
<1>1. held' = held /\ pc[c] \in {"check", "expire"}  BY Zenon DEF Sets!Check, Sets!Expire, Sets!NoSources, Sets!At
<1>2. fr[c] \in Frame /\ fr[c].m \in Command /\ fr[c].sets = <<>>  BY <1>1 DEF SetInv, SetType, Early
<1>3. CASE Sets!Check(c)
  <2>1. db' = db /\ fr[c].todo # <<>> /\ ((pc' = [pc EXCEPT ![c] = "expire"] /\ fr' = fr) \/ Sets!SourceKept(c, TRUE))
    BY <1>3, Zenon DEF Sets!Check, Sets!Goto
  <2>2. CASE Sets!SourceKept(c, TRUE)  BY <1>1, <2>1, <2>2, SourceKeeps, Same, Zenon
  <2>3. CASE pc' = [pc EXCEPT ![c] = "expire"] /\ fr' = fr
    <3>1. QuietTo(c, "expire", fr[c], held[c])  BY <1>1, <1>2, <2>1, <2>3 DEF QuietTo, Labels
    <3> QED BY <2>1, <3>1, Quiet, Same
  <2> QED BY <2>1, <2>2, <2>3, Zenon
<1>4. CASE Sets!Expire(c)
  <2>1. Sets!Expired(Head(fr[c].todo)) /\ fr[c].todo # <<>> /\ \E kept : Sets!SourceKept(c, kept)
    BY <1>4 DEF Sets!Expire, Sets!At, SetInv, SetType
  <2>2. Head(fr[c].todo) \in Key  BY <1>2, <2>1 DEF Frame
  <2>3. db' \in [Key -> Val] /\ Guarded(c) /\ Sets!KeepsOtherTypes  BY <2>1, <2>2, ExpiredGuarded
  <2> QED BY <1>1, <2>1, <2>3, SourceKeeps
<1>5. CASE Sets!NoSources(c)  BY <1>5, Leaves DEF Sets!NoSources
<1> QED BY <1>3, <1>4, <1>5

\* RLockMulti gets the stripes of all sources, which no writer has.
LEMMA RLockKeeps ==
    ASSUME SetConstants, SetInv, NEW c \in Client, Sets!RLockMulti(c)
    PROVE  SetInv' /\ Sets!KeepsOtherTypes
<1> PICK w, l, g : w = fr[c] /\ l = "read" /\ g = [poses |-> Sets!Poses(w.keys), mode |-> "R"]  BY Zenon
<1>1. pc[c] = "check" /\ w.keys # <<>> /\ pc' = [pc EXCEPT ![c] = l] /\ fr' = fr /\ db' = db
      /\ held' = [held EXCEPT ![c] = g]
      /\ \A d \in Client : d # c => ~Sets!Table!Conflict(g, held[d])
  BY DEF Sets!RLockMulti, Sets!At, Sets!Goto, Sets!Table!Acquire
<1>2. w \in Frame /\ w.m \in Command /\ w.sets = <<>>  BY <1>1 DEF SetInv, SetType, Early
<1>3. w.keys \in Seq(Key) /\ \A i \in DOMAIN w.keys : w.keys[i] \in Key  BY <1>2 DEF Frame
<1>4. g.poses \subseteq Stripes /\ \A i \in DOMAIN w.keys : KeyPos[w.keys[i]] \in g.poses
  BY <1>3 DEF Sets!Poses, SetConstants
<1>5. g \in [poses : SUBSET Stripes, mode : {"W", "R"}]  BY <1>4
<1>6. \A d \in Client : d # c /\ (g.mode = "W" \/ held[d].mode = "W") => g.poses \cap held[d].poses = {}
  BY <1>1 DEF Sets!Table!Conflict
<1>7. MovesTo(c, l, w, g)
  BY <1>1, <1>2, <1>5, <1>6, Same DEF MovesTo, Labels
<1>8. ReadsOn(l, w, g)  BY <1>1, <1>2, <1>4 DEF ReadsOn
<1> QED BY <1>1, <1>7, <1>8, SetMoves, Same DEF StoresOn

\* Append adds its value at the end.
LEMMA Longer ==
    ASSUME NEW V, NEW s \in Seq(V), NEW v \in V, NEW q, q = Append(s, v)
    PROVE  /\ q \in Seq(V) /\ Len(q) = Len(s) + 1
           /\ \A i \in DOMAIN q : IF i = Len(s) + 1 THEN q[i] = v ELSE i \in DOMAIN s /\ q[i] = s[i]
OBVIOUS

\* One db.Get of the loop under the locks.
LEMMA ReadKeeps ==
    ASSUME SetConstants, SetInv, NEW c \in Client, Sets!Read(c)
    PROVE  SetInv' /\ Sets!KeepsOtherTypes
<1> PICK w, l, n, v : w = fr[c] /\ l = "read" /\ n = Len(w.sets) + 1 /\ v = db[w.keys[n]]  OBVIOUS
<1>1. pc[c] = l /\ db' = db /\ ~Sets!ReadAll(c)
      /\ IF v = Other THEN Sets!Leave(c) /\ Sets!Table!Release(c)
         ELSE fr' = [fr EXCEPT ![c].sets = Append(@, v)] /\ held' = held /\ pc' = pc
  BY DEF Sets!Read, Sets!At
<1>2. CASE v = Other
  BY <1>1, <1>2, Leaves DEF Sets!Table!Release, Sets!Table!Nothing, Nothing
<1>3. CASE v # Other
  <2>1. w \in Frame /\ w.m \in Command  BY <1>1, Locals
  <2>2. /\ \A i \in DOMAIN w.keys : KeyPos[w.keys[i]] \in held[c].poses
        /\ w.keys # <<>> /\ Len(w.sets) <= Len(w.keys)
        /\ \A i \in DOMAIN w.sets : w.sets[i] = db[w.keys[i]] /\ w.sets[i] # Other
    BY <1>1 DEF SetInv, Reading
  <2>3. w.keys \in Seq(Key) /\ w.sets \in Seq(Val) /\ n \in 1 .. Len(w.keys)
    BY <1>1, <2>1, <2>2 DEF Frame, Sets!ReadAll
  <2>4. v \in Val  BY <2>3 DEF SetInv, SetType
  <2>10. PICK q, u : q = Append(w.sets, v) /\ u = [w EXCEPT !.sets = q]  BY Zenon
  <2>5. q \in Seq(Val) /\ Len(q) = n /\ \A i \in DOMAIN q : q[i] = db[w.keys[i]] /\ q[i] # Other
    <3>1. /\ q \in Seq(Val) /\ Len(q) = Len(w.sets) + 1
          /\ \A i \in DOMAIN q : IF i = Len(w.sets) + 1 THEN q[i] = v ELSE i \in DOMAIN w.sets /\ q[i] = w.sets[i]
      BY ONLY <2>3, <2>4, <2>10, Longer
    <3> QED BY <1>3, <2>2, <3>1, Zenon
  <2>6. u \in Frame /\ u.m = w.m /\ u.keys = w.keys /\ u.sets = q  BY <2>1, <2>5, <2>10, Zenon DEF Frame
  <2>7. fr' = [fr EXCEPT ![c] = u] /\ held' = held /\ pc' = [pc EXCEPT ![c] = l]
    BY <1>1, <1>3, <2>10 DEF SetInv, SetType
  <2>8. MovesTo(c, l, u, held[c])
    BY <1>1, <2>1, <2>6, <2>7 DEF MovesTo, Labels, Early, SetInv, SetType, WritersAlone
  <2>9. ReadsOn(l, u, held[c])
    <3>1. \A i \in DOMAIN u.keys : KeyPos[u.keys[i]] \in held[c].poses  BY <2>2, <2>6
    <3>2. u.keys # <<>> /\ Len(u.sets) <= Len(u.keys)  BY <2>3, <2>5, <2>6
    <3>3. \A i \in DOMAIN u.sets : u.sets[i] = db'[u.keys[i]] /\ u.sets[i] # Other  BY <1>1, <2>5, <2>6
    <3> QED BY <3>1, <3>2, <3>3 DEF ReadsOn
  <2> QED BY <1>1, <2>8, <2>9, SetMoves, Same DEF StoresOn
<1> QED BY <1>2, <1>3

\* The loop has read what the sources hold, all of them or none that matters.
LEMMA ComputeReads ==
    ASSUME SetConstants, SetInv, NEW c \in Client, Sets!Compute(c), pc'[c] = "recheck"
    PROVE  fr'[c].res = Sets!Result(Sets!Op(c), [i \in DOMAIN fr[c].keys |-> db[fr[c].keys[i]]])
<1>1. PICK w, q, r, o : w = fr[c] /\ q = w.sets /\ r = [i \in DOMAIN w.keys |-> db[w.keys[i]]] /\ o = w.m.op  BY Zenon
<1>2. w \in Frame /\ pc[c] = "read" /\ Sets!ReadAll(c)  BY <1>1, Locals DEF Sets!Compute, Sets!At
<1>3. /\ w.keys \in Seq(Key) /\ q \in Seq(Val) /\ w.keys # <<>> /\ Len(q) <= Len(w.keys)
      /\ \A i \in DOMAIN q : q[i] = db[w.keys[i]]
  BY <1>1, <1>2 DEF Frame, SetInv, Reading
<1>4. fr'[c].res = Sets!Result(o, q)
  <2>1. fr' = [fr EXCEPT ![c].res = Sets!Result(o, q)]
    <3>1. pc' # [pc EXCEPT ![c] = "panic"] /\ pc' # [pc EXCEPT ![c] = "idle"]
      BY DEF SetInv, SetType
    <3> QED BY <1>1, <3>1 DEF Sets!Compute, Sets!Goto, Sets!Leave, Sets!Op
  <2> QED BY <2>1 DEF SetInv, SetType
<1>5. Sets!Result(o, q) = Sets!Result(o, r)
  <2>1. CASE Len(q) = Len(w.keys)
    <3>1. q = r  BY <1>1, <1>3, <2>1
    <3> QED BY <3>1
  <2>2. CASE o \in Sets!Diffs /\ q # <<>> /\ q[1] = Null
    <3>1. 1 \in DOMAIN q /\ 1 \in DOMAIN w.keys  BY <1>3, <2>2
    <3>2. r[1] = Null  BY <1>1, <1>3, <2>2
    <3> QED BY <2>2, <3>2 DEF Sets!Result
  <2> QED BY <1>1, <1>2, <2>1, <2>2 DEF Sets!ReadAll, Sets!Op
<1> QED BY <1>1, <1>4, <1>5 DEF Sets!Op

\* SDIFFSTORE and SINTERSTORE store a set of members.
LEMMA ResultType ==
    ASSUME SetConstants, NEW q \in Seq(Val), q # <<>>, \A i \in DOMAIN q : q[i] # Other,
           NEW o, o \in Sets!Diffs \/ o \in Sets!Inters
    PROVE  Sets!Result(o, q) \in SUBSET Member
<1>1. q[1] \in Val /\ q[1] # Other  OBVIOUS
<1>2. CASE o \in Sets!Diffs
  <2>1. q[1] = Null \/ q[1] \in SUBSET Member  BY DEF Val
  <2>2. Sets!Result(o, q) = {} \/ (q[1] # Null /\ Sets!Result(o, q) \subseteq q[1])  BY <1>2 DEF Sets!Result
  <2> QED BY <2>1, <2>2
<1>3. CASE o \notin Sets!Diffs  BY <1>3 DEF Sets!Result
<1> QED BY <1>2, <1>3

\* The result is computed and the sources are unlocked.
LEMMA ComputeKeeps ==
    ASSUME SetConstants, SetInv, NEW c \in Client, Sets!Compute(c)
    PROVE  SetInv' /\ Sets!KeepsOtherTypes
<1>1. PICK w, q, o : w = fr[c] /\ q = w.sets /\ o = w.m.op  OBVIOUS
<1>2. w \in Frame /\ w.m \in Command /\ pc[c] = "read" /\ Sets!ReadAll(c) /\ db' = db
      /\ o \in {"sdiff", "sinter", "sunion", "sdiffstore", "sinterstore"}
  BY <1>1, Locals DEF Sets!Compute, Sets!At
<1>3. w.keys \in Seq(Key) /\ q \in Seq(Val) /\ w.keys # <<>> /\ q # <<>> /\ \A i \in DOMAIN q : q[i] # Other
  BY <1>1, <1>2 DEF Frame, SetInv, Reading, Sets!ReadAll
<1>4. CASE pc' = [pc EXCEPT ![c] = "panic"] /\ fr' = fr /\ held' = held
  <2>1. QuietTo(c, "panic", w, held[c])  BY <1>1, <1>2, <1>4 DEF QuietTo, Labels, Early
  <2> QED BY <1>2, <2>1, Quiet, Same
<1>5. CASE Sets!Leave(c) /\ Sets!Table!Release(c)
  BY <1>2, <1>5, Leaves, Zenon DEF Sets!Table!Release, Sets!Table!Nothing, Nothing
<1>6. CASE /\ Sets!Table!Release(c) /\ pc' = [pc EXCEPT ![c] = "recheck"]
           /\ fr' = [fr EXCEPT ![c].res = Sets!Result(o, q)] /\ o \in Sets!Stores
  <2>1. PICK r, u : r = Sets!Result(o, q) /\ u = [w EXCEPT !.res = r]  BY Zenon
  <2>2. r \in SUBSET Member
    <3>1. o \in Sets!Diffs \/ o \in Sets!Inters  BY <1>2, <1>6 DEF Sets!Stores, Sets!Diffs, Sets!Inters
    <3> QED BY <1>3, <2>1, <3>1, ResultType
  <2>3. u \in Frame /\ u.m = w.m  BY <1>2, <2>1, <2>2, ZenonT(30) DEF Frame
  <2>4. fr' = [fr EXCEPT ![c] = u]  BY <1>1, <1>6, <2>1
  <2>5. held' = [held EXCEPT ![c] = Nothing]  BY <1>6 DEF Sets!Table!Release, Sets!Table!Nothing, Nothing
  <2>6. QuietTo(c, "recheck", u, Nothing)  BY <1>2, <1>6, <2>3, <2>4, <2>5, Zenon DEF QuietTo, Labels, Early
  <2> QED BY <1>2, <2>6, Quiet, Same
<1> QED BY <1>1, <1>4, <1>5, <1>6 DEF Sets!Compute, Sets!Goto, Sets!Op

\* The lock of the destination is taken, tested under and kept until the store.
LEMMA StoreKeeps ==
    ASSUME SetConstants, SetInv, NEW c \in Client, Sets!DesLock(c) \/ Sets!DesTest(c) \/ Sets!Store(c)
    PROVE  SetInv' /\ Sets!KeepsOtherTypes
<1>1. PICK w, k : w = fr[c] /\ k = w.m.des  OBVIOUS
<1>2. pc[c] # "idle"  BY DEF Sets!DesLock, Sets!DesTest, Sets!Store, Sets!At
<1>3. w \in Frame /\ w.m \in Command /\ k \in Key /\ w.m.op # "sunionstore"  BY <1>1, <1>2, Locals
<1>4. CASE Sets!DesLock(c)
  <2>1. PICK g : g = [poses |-> {KeyPos[k]}, mode |-> "W"]  BY Zenon
  <2>2. /\ pc' = [pc EXCEPT ![c] = "destest"] /\ fr' = fr /\ db' = db
        /\ held' = [held EXCEPT ![c] = g] /\ \A d \in Client : d # c => ~Sets!Table!Conflict(g, held[d])
    BY <1>1, <1>3, <1>4, <2>1, ZenonT(30) DEF Sets!DesLock, Sets!Op, Sets!Des, Sets!Goto, Sets!Table!Acquire
  <2>3. g \in [poses : SUBSET Stripes, mode : {"W", "R"}]  BY <1>3, <2>1 DEF SetConstants
  <2>4. \A d \in Client : d # c /\ (g.mode = "W" \/ held[d].mode = "W") => g.poses \cap held[d].poses = {}
    BY <2>2 DEF Sets!Table!Conflict
  <2>5. MovesTo(c, "destest", w, g)  BY <1>1, <1>3, <2>2, <2>3, <2>4, Same DEF MovesTo, Labels, Early
  <2>6. StoresOn("destest", w, g) /\ ReadsOn("destest", w, g)  BY <1>1, <2>1 DEF StoresOn, ReadsOn
  <2> QED BY <2>2, <2>5, <2>6, SetMoves, Same
<1>5. CASE Sets!DesTest(c)
  <2>1. db' = db /\ pc[c] = "destest"  BY <1>5, Zenon DEF Sets!DesTest, Sets!At
  <2>2. CASE Sets!Leave(c) /\ Sets!UnLock(c)
    BY <2>1, <2>2, Leaves, Zenon DEF Sets!UnLock, Sets!Table!Nothing, Nothing
  <2>3. CASE db[k] # Other /\ pc' = [pc EXCEPT ![c] = "store"] /\ fr' = fr /\ held' = held
    <3>1. held[c] = [poses |-> {KeyPos[k]}, mode |-> "W"]  BY <1>1, <2>1 DEF SetInv, Storing
    <3>2. MovesTo(c, "store", w, held[c])
      BY <1>1, <2>1, <2>3 DEF MovesTo, Labels, Early, SetInv, SetType, WritersAlone
    <3>3. StoresOn("store", w, held[c]) /\ ReadsOn("store", w, held[c])  BY <1>1, <2>1, <2>3, <3>1 DEF StoresOn, ReadsOn
    <3> QED BY <2>1, <3>2, <3>3, SetMoves, Same
  <2> QED BY <1>1, <1>5, <2>2, <2>3 DEF Sets!DesTest, Sets!Goto, Sets!Des
<1>6. CASE Sets!Store(c)
  <2>1. /\ db' = [db EXCEPT ![k] = w.res] /\ Sets!Leave(c) /\ held' = [held EXCEPT ![c] = Nothing] /\ pc[c] = "store"
    BY <1>1, <1>6 DEF Sets!Store, Sets!At, Sets!Des, Sets!UnLock, Sets!Table!Nothing, Nothing
  <2>2. held[c] = [poses |-> {KeyPos[k]}, mode |-> "W"] /\ db[k] # Other  BY <1>1, <2>1 DEF SetInv, Storing
  <2>3. db' \in [Key -> Val]
    <3>1. w.res \in Val  BY <1>3 DEF Frame, Val
    <3> QED BY <2>1, <3>1, Zenon DEF SetInv, SetType
  <2>4. Guarded(c)  BY <1>3, <2>1, <2>2 DEF Guarded, SetInv, WritersAlone
  <2>5. Sets!KeepsOtherTypes  BY <2>1, <2>2 DEF Sets!KeepsOtherTypes, Sets!IsSet, SetInv
  <2>6. PICK u, l : u = Sets!Begun(Null, <<>>) /\ l = "idle"  OBVIOUS
  <2>7. u \in Frame
    <3>1. <<>> \in Seq(Key)  OBVIOUS
    <3> QED BY <2>6, <3>1, FreshFrame, Zenon
  <2>8. QuietTo(c, l, u, Nothing)  BY <2>1, <2>6, <2>7 DEF QuietTo, Labels, Early, Sets!Leave, Sets!Goto, Sets!Idle
  <2> QED BY <2>3, <2>4, <2>5, <2>8, Quiet
<1> QED BY <1>4, <1>5, <1>6

\* SDIFFSTORE and SINTERSTORE store the result of one moment, and no value that is not a
\* set is replaced, whatever other clients do between their locks (sets.go).
THEOREM SetsAtomic == ASSUME SetConstants PROVE Sets!Spec => Sets!SetCommandsAtomic
<1>1. ASSUME SetInv, [Sets!Next]_Sets!vars PROVE SetInv' /\ [Sets!ReadsSnapshot /\ Sets!KeepsOtherTypes]_Sets!vars
  <2>1. CASE UNCHANGED Sets!vars
    BY <1>1, <2>1 DEF Sets!vars, SetInv, SetType, WritersAlone, Reading, Storing
  <2>2. CASE Sets!Next
    <3>1. SetInv' /\ Sets!KeepsOtherTypes
      BY <1>1, <2>2, OthersKeep, StartKeeps, DesChecks, ChecksKeep, RLockKeeps, ReadKeeps, ComputeKeeps, StoreKeeps
         DEF Sets!Next, Sets!Step
    <3>2. ASSUME NEW c \in Client, pc[c] = "read", pc'[c] = "recheck" PROVE Sets!Compute(c)
      <4>1. ASSUME NEW d \in Client, d # c, pc'[c] # pc[c] PROVE ~Sets!Step(d) /\ \A m \in Command : ~Sets!Start(d, m)
        BY <1>1, <4>1 DEF Sets!Step, Sets!Start, Sets!DesCheck, Sets!DesExpire, Sets!DesGet, Sets!Check, Sets!Expire,
           Sets!NoSources, Sets!RLockMulti, Sets!Read, Sets!Compute, Sets!DesLock, Sets!DesTest, Sets!Store, Sets!Goto,
           Sets!Leave, Sets!SourceKept, SetInv, SetType
      <4>2. pc'[c] # pc[c]  BY <3>2
      <4>3. ~Sets!Others
        BY <4>2 DEF Sets!Others, Sets!SAdd, Sets!SRem, Sets!SetString, Sets!ExpireKey, Sets!Due, Sets!Del
      <4>4. Sets!Step(c) \/ \E m \in Command : Sets!Start(c, m)  BY <2>2, <4>1, <4>2, <4>3 DEF Sets!Next
      <4>5. ~Sets!Read(c)
        BY <1>1, <3>2 DEF Sets!Read, Sets!Leave, Sets!Goto, SetInv, SetType
      <4> QED BY <3>2, <4>4, <4>5, Zenon DEF Sets!Step, Sets!Start, Sets!DesCheck, Sets!DesExpire, Sets!DesGet, Sets!Check,
              Sets!Expire, Sets!NoSources, Sets!RLockMulti, Sets!DesLock, Sets!DesTest, Sets!Store, Sets!At
    <3>3. Sets!ReadsSnapshot  BY <1>1, <3>2, ComputeReads DEF Sets!ReadsSnapshot, Sets!At
    <3> QED BY <3>1, <3>3
  <2> QED BY <1>1, <2>1, <2>2
<1> QED BY <1>1, SetInit, PTL DEF Sets!Spec, Sets!SetCommandsAtomic

(***************************************************************************)
(* The locks                                                               *)
(***************************************************************************)

\* A stripe with a writer has no readers and no waiting writer.
Exclusive ==
    \A s \in Stripe : writer[s] # NoProc => readers[s] = {} /\ pending[s] = NoProc

\* Who holds or waits for a stripe has asked for it, in that mode, and a
\* waiting writer is at the lowest stripe it still lacks.
Asked ==
    \A p \in Proc, s \in Stripe :
        /\ writer[s] = p => pc[p] # "idle" /\ req[p].mode = "W" /\ s \in req[p].poses
        /\ p \in readers[s] => pc[p] # "idle" /\ req[p].mode = "R" /\ s \in req[p].poses
        /\ pending[s] = p => pc[p] = "locking" /\ req[p].mode = "W" /\ s \in sortedLockPoses(p)

\* In a critical section a goroutine has all it asked for.
Complete == \A p \in Proc : pc[p] = "held" => Todo(p) = {}

\* LockMulti climbs: what it holds lies below what it still lacks.
Climbing ==
    \A p \in Proc : pc[p] = "locking" => \A s \in Got(p), t \in Todo(p) : s < t

\* A request names at least one stripe.
NonEmpty == \A p \in Proc : pc[p] \in {"locking", "held"} => req[p].poses # {}

IInv == TypeOK /\ Exclusive /\ Asked /\ Complete /\ Climbing /\ NonEmpty

-----------------------------------------------------------------------------
LEMMA InitIInv == Init => IInv
  BY NoProcAssumption DEF Init, IInv, TypeOK, Exclusive, Asked, Complete, Climbing, NonEmpty, Mode, Stripe,
         Got, Todo, sortedLockPoses

\* Requests: the stripes of a key lie in the table.
LEMMA PosesInTable == \A keys \in SUBSET Key : PosesOf(keys) \subseteq Stripe
  <1> SUFFICES ASSUME NEW k \in Key PROVE HashKey[k] % NumLocks \in 0 .. NumLocks - 1
    BY DEF PosesOf, GetKeyPos, Stripe
  <1>1. HashKey[k] \in Nat  BY HashKeyAssumption
  <1> QED BY <1>1, NumLocksAssumption

LEMMA StepRequest ==
    ASSUME IInv, NEW p \in Proc, Request(p)
    PROVE  IInv'
  <1>1. PICK keys \in SUBSET Key, mode \in Mode :
            /\ keys # {}
            /\ req' = [req EXCEPT ![p] = [poses |-> PosesOf(keys), mode |-> mode]]
    BY Zenon DEF Request
  <1>2. PosesOf(keys) \subseteq Stripe /\ PosesOf(keys) # {}
    BY <1>1, PosesInTable DEF PosesOf
  <1>3. TypeOK'
    BY <1>1, <1>2 DEF IInv, TypeOK, Request
  <1>4. \A s \in Stripe : writer[s] # p /\ p \notin readers[s] /\ pending[s] # p
    BY DEF IInv, Asked, Request
  <1>5. Exclusive'
    BY DEF IInv, Exclusive, Request
  <1>6. Asked'
    BY <1>1, <1>4 DEF IInv, Asked, Request, TypeOK, sortedLockPoses, Todo, Got
  <1>7. Complete' /\ NonEmpty'
    BY <1>1, <1>2 DEF IInv, Complete, NonEmpty, Request, TypeOK, Todo, Got
  <1>8. Climbing'
    BY <1>1, <1>4 DEF IInv, Climbing, Request, TypeOK, Todo, Got
  <1> QED BY <1>3, <1>5, <1>6, <1>7, <1>8 DEF IInv

LEMMA StepAnnounce ==
    ASSUME IInv, NEW p \in Proc, NEW s \in Stripe, Announce(p, s)
    PROVE  IInv'
  <1>1. TypeOK' /\ Exclusive'
    BY DEF IInv, TypeOK, Exclusive, Announce
  <1>2. Asked'
    BY DEF IInv, Asked, Announce, TypeOK, sortedLockPoses, Todo, Got
  <1>3. Complete' /\ Climbing' /\ NonEmpty'
    BY DEF IInv, Complete, Climbing, NonEmpty, Announce, Todo, Got
  <1> QED BY <1>1, <1>2, <1>3 DEF IInv

\* What the step that takes stripe s leaves to do.
LEMMA Taken ==
    ASSUME TypeOK, NEW p \in Proc, NEW s \in sortedLockPoses(p),
           Got(p)' = Got(p) \cup {s}, req' = req
    PROVE  /\ Todo(p)' = Todo(p) \ {s}
           /\ \A t \in Todo(p)' : s < t
           /\ (\A r \in Got(p), t \in Todo(p) : r < t) => \A r \in Got(p)', t \in Todo(p)' : r < t
  <1>1. Todo(p)' = Todo(p) \ {s}
    BY DEF Todo, sortedLockPoses
  <1>2. \A t \in Todo(p)' : s < t
    BY <1>1 DEF TypeOK, sortedLockPoses, Todo, Stripe
  <1> QED BY <1>1, <1>2

LEMMA StepLockStripe ==
    ASSUME IInv, NEW p \in Proc, NEW s \in Stripe, LockStripe(p, s)
    PROVE  IInv'
  <1>1. TypeOK' /\ Exclusive'
    BY DEF IInv, TypeOK, Exclusive, LockStripe
  <1>2. /\ pc[p] = "locking" /\ req[p].mode = "W"
        /\ s \in sortedLockPoses(p)
        /\ s \in req[p].poses
    BY DEF IInv, Asked, LockStripe, sortedLockPoses, Todo
  <1>3. writer[s] = NoProc
    BY NoProcAssumption DEF IInv, Exclusive, LockStripe
  <1>4. /\ Got(p)' = Got(p) \cup {s}
        /\ \A q \in Proc \ {p} : Got(q)' = Got(q) /\ Todo(q)' = Todo(q)
    BY <1>3, NoProcAssumption DEF IInv, TypeOK, LockStripe, Got, Todo
  <1>5. /\ Todo(p)' = Todo(p) \ {s}
        /\ (\A r \in Got(p), t \in Todo(p) : r < t) => \A r \in Got(p)', t \in Todo(p)' : r < t
    BY <1>2, <1>4, Taken DEF IInv, LockStripe
  <1>6. \A t \in Stripe : t # s => pending[t] # p
    BY <1>2 DEF IInv, Asked, TypeOK, sortedLockPoses, Todo, Stripe, LockStripe
  <1>7. \A q \in Proc \ {p} : sortedLockPoses(q)' = sortedLockPoses(q)
    BY <1>4 DEF sortedLockPoses
  <1>8. Asked'
    BY <1>2, <1>3, <1>6, <1>7, NoProcAssumption DEF IInv, Asked, LockStripe, TypeOK
  <1>9. Complete' /\ NonEmpty'
    BY <1>2, <1>4, <1>5 DEF IInv, Complete, NonEmpty, LockStripe
  <1>10. Climbing'
    BY <1>2, <1>4, <1>5 DEF IInv, Climbing, LockStripe
  <1> QED BY <1>1, <1>8, <1>9, <1>10 DEF IInv

LEMMA StepRLockStripe ==
    ASSUME IInv, NEW p \in Proc, NEW s \in Stripe, RLockStripe(p, s)
    PROVE  IInv'
  <1>1. TypeOK' /\ Exclusive'
    BY DEF IInv, TypeOK, Exclusive, RLockStripe
  <1>2. /\ pc[p] = "locking" /\ req[p].mode = "R"
        /\ s \in sortedLockPoses(p)
        /\ s \in req[p].poses
    BY DEF RLockStripe, sortedLockPoses, Todo
  <1>4. /\ Got(p)' = Got(p) \cup {s}
        /\ \A q \in Proc \ {p} : Got(q)' = Got(q) /\ Todo(q)' = Todo(q)
    BY DEF IInv, TypeOK, RLockStripe, Got, Todo
  <1>5. /\ Todo(p)' = Todo(p) \ {s}
        /\ (\A r \in Got(p), t \in Todo(p) : r < t) => \A r \in Got(p)', t \in Todo(p)' : r < t
    BY <1>2, <1>4, Taken DEF IInv, RLockStripe
  <1>7. \A q \in Proc \ {p} : sortedLockPoses(q)' = sortedLockPoses(q)
    BY <1>4 DEF sortedLockPoses
  <1>8. Asked'
    BY <1>2, <1>7 DEF IInv, Asked, RLockStripe, TypeOK
  <1>9. Complete' /\ NonEmpty'
    BY <1>2, <1>4, <1>5 DEF IInv, Complete, NonEmpty, RLockStripe
  <1>10. Climbing'
    BY <1>2, <1>4, <1>5 DEF IInv, Climbing, RLockStripe
  <1> QED BY <1>1, <1>8, <1>9, <1>10 DEF IInv

LEMMA StepLockDone ==
    ASSUME IInv, NEW p \in Proc, LockDone(p)
    PROVE  IInv'
  <1>1. \A s \in Stripe : pending[s] # p
    BY DEF IInv, Asked, LockDone, sortedLockPoses
  <1>2. TypeOK' /\ Exclusive'
    BY DEF IInv, TypeOK, Exclusive, LockDone
  <1>3. Asked'
    BY <1>1 DEF IInv, Asked, LockDone, TypeOK, sortedLockPoses, Todo, Got
  <1>4. Complete' /\ Climbing' /\ NonEmpty'
    BY DEF IInv, Complete, Climbing, NonEmpty, LockDone, TypeOK, Todo, Got
  <1> QED BY <1>2, <1>3, <1>4 DEF IInv

LEMMA StepUnlockStripe ==
    ASSUME IInv, NEW p \in Proc, NEW s \in Stripe, UnlockStripe(p, s)
    PROVE  IInv'
  <1>1. TypeOK' /\ Exclusive'
    BY DEF IInv, TypeOK, Exclusive, UnlockStripe
  <1>2. \A q \in Proc \ {p} : Got(q)' = Got(q) /\ Todo(q)' = Todo(q)
    BY NoProcAssumption DEF IInv, TypeOK, UnlockStripe, Got, Todo
  <1>3. \A q \in Proc \ {p} : sortedLockPoses(q)' = sortedLockPoses(q)
    BY <1>2 DEF sortedLockPoses
  <1>4. Asked'
    BY <1>3, NoProcAssumption DEF IInv, Asked, UnlockStripe, TypeOK
  <1>5. Complete' /\ Climbing' /\ NonEmpty'
    BY <1>2 DEF IInv, Complete, Climbing, NonEmpty, UnlockStripe, TypeOK
  <1> QED BY <1>1, <1>4, <1>5 DEF IInv

LEMMA StepUnlockDone ==
    ASSUME IInv, NEW p \in Proc, UnlockDone(p)
    PROVE  IInv'
  <1>1. \A s \in Stripe : writer[s] # p /\ p \notin readers[s] /\ pending[s] # p
    BY DEF IInv, Asked, UnlockDone, Got
  <1>2. TypeOK' /\ Exclusive'
    BY DEF IInv, TypeOK, Exclusive, UnlockDone, Mode
  <1>3. Asked'
    BY <1>1 DEF IInv, Asked, UnlockDone, TypeOK, sortedLockPoses, Todo, Got
  <1>4. Complete' /\ Climbing' /\ NonEmpty'
    BY DEF IInv, Complete, Climbing, NonEmpty, UnlockDone, TypeOK, Todo, Got
  <1> QED BY <1>2, <1>3, <1>4 DEF IInv

LEMMA StepIInv == IInv /\ [Next]_vars => IInv'
  <1> SUFFICES ASSUME IInv, [Next]_vars PROVE IInv'
    OBVIOUS
  <1>1. CASE UNCHANGED vars
    BY <1>1 DEF vars, IInv, TypeOK, Exclusive, Asked, Complete, Climbing, NonEmpty, Got, Todo,
                sortedLockPoses
  <1>2. CASE Next
    BY <1>2, StepRequest, StepAnnounce, StepLockStripe, StepRLockStripe, StepLockDone,
       StepUnlockStripe, StepUnlockDone DEF Next
  <1> QED BY <1>1, <1>2

LEMMA Invariance == Spec => []IInv
  BY InitIInv, StepIInv, PTL DEF Spec

\* The lock words of a MemDb stay well-formed, for any number of stripes.
THEOREM TypeCorrect == Spec => []TypeOK
  <1>1. IInv => TypeOK
    BY DEF IInv
  <1> QED BY <1>1, Invariance, PTL

LEMMA Excluded == IInv => CriticalSections
  <1> SUFFICES ASSUME IInv, NEW p \in Proc, NEW q \in Proc, p # q,
                      pc[p] = "held", pc[q] = "held",
                      NEW s \in req[p].poses \cap req[q].poses
               PROVE  req[p].mode = "R" /\ req[q].mode = "R"
    BY DEF CriticalSections
  <1>1. s \in Stripe /\ s \in Got(p) /\ s \in Got(q)
    BY DEF IInv, Complete, TypeOK, Todo
  <1> QED BY <1>1, NoProcAssumption DEF IInv, TypeOK, Exclusive, Asked, Got, Mode

\* Two commands on a common stripe are between LockMulti and UnLockMulti
\* together only if both read, whatever the keys, stripes and goroutines.
THEOREM MutualExclusion == Spec => []CriticalSections
  BY Invariance, Excluded, PTL

-----------------------------------------------------------------------------
(* No circular wait *)

\* A nonempty set of stripes has a highest one.
LEMMA Highest ==
    ASSUME NEW S, S \subseteq Stripe, S # {}
    PROVE  \E s \in S : \A t \in S : t <= s
  <1> DEFINE Depth == {NumLocks - 1 - s : s \in S}
  <1>1. \A s \in S : s \in 0 .. NumLocks - 1
    BY DEF Stripe
  <1>2. \A d \in Depth : d \in Nat
    BY <1>1, NumLocksAssumption
  <1>3. Depth \subseteq Nat /\ Depth # {}
    BY <1>2
  <1> DEFINE R == OpToRel(<, Nat)
  <1>5. IsWellFoundedOn(R, Nat)
    BY NatLessThanWellFounded, Zenon
  <1> HIDE DEF Depth
  <1>6. PICK d \in Depth : \A e \in Depth : ~(<<e, d>> \in R)
    <2> HIDE DEF R
    <2> QED BY <1>3, <1>5, WFMin, Zenon
  <1>7. \A e \in Depth : d <= e
    <2> SUFFICES ASSUME NEW e \in Depth, e < d PROVE FALSE
      BY <1>2
    <2>1. <<e, d>> \in {ss \in Nat \X Nat : ss[1] < ss[2]}
      BY <1>2
    <2> QED BY <2>1, <1>6 DEF OpToRel
  <1> USE DEF Depth
  <1>8. PICK s \in S : d = NumLocks - 1 - s
    OBVIOUS
  <1>9. \A t \in S : t <= s
    <2> SUFFICES ASSUME NEW t \in S PROVE t <= s
      OBVIOUS
    <2>1. NumLocks - 1 - t \in Depth
      OBVIOUS
    <2> QED BY <2>1, <1>1, <1>7, <1>8, NumLocksAssumption
  <1> QED BY <1>9

\* A goroutine that holds a stripe and waits, waits for a higher one.
LEMMA HolderWaitsAbove ==
    ASSUME IInv, NEW q \in Proc, pc[q] = "locking", NEW s \in Stripe, s \in Got(q),
           NEW t \in sortedLockPoses(q)
    PROVE  s < t
  BY DEF IInv, Climbing, sortedLockPoses

\* If everyone in D waits for someone in D, then from the stripe at which p
\* waits one comes to a higher one at which somebody in D waits.
LEMMA WaitsClimb ==
    ASSUME IInv, NEW D \in SUBSET Proc,
           \A p \in D : \E q \in D : Blocks(q, p),
           NEW p \in D, NEW s \in sortedLockPoses(p)
    PROVE  \E r \in D : \E t \in sortedLockPoses(r) : s < t
  <1>1. \A r \in D : /\ pc[r] = "locking"
                     /\ sortedLockPoses(r) # {}
                     /\ sortedLockPoses(r) \subseteq Stripe
                     /\ \A u, v \in sortedLockPoses(r) : u = v
    <2> TAKE r \in D
    <2>1. PICK q \in D : Blocks(q, r)
      OBVIOUS
    <2>2. req[r].poses \subseteq Stripe
      BY DEF IInv, TypeOK
    <2>3. \A u \in sortedLockPoses(r) : u \in Stripe /\ u \in Int
      BY <2>2 DEF sortedLockPoses, Todo, Stripe
    <2>4. \A u, v \in sortedLockPoses(r) : u <= v /\ v <= u
      BY DEF sortedLockPoses
    <2>5. pc[r] = "locking" /\ sortedLockPoses(r) # {}
      BY <2>1 DEF Blocks
    <2>6. \A u, v \in sortedLockPoses(r) : u = v
      BY <2>3, <2>4
    <2> QED BY <2>3, <2>5, <2>6
  <1>2. PICK q \in D : Blocks(q, p)
    OBVIOUS
  <1>3. \/ writer[s] = q
        \/ pending[s] = q
        \/ q \in readers[s]
    BY <1>1, <1>2 DEF Blocks
  <1>4. s \in Stripe
    BY <1>1
  <1>5. CASE s \in Got(q)
    BY <1>1, <1>4, <1>5, HolderWaitsAbove
  <1>6. CASE pending[s] = q
    <2>1. s \in sortedLockPoses(q) /\ writer[s] = NoProc
      BY <1>4, <1>6, NoProcAssumption DEF IInv, Asked, Exclusive, TypeOK
    <2>2. PICK r \in D : Blocks(r, q)
      OBVIOUS
    <2>3. r \in readers[s]
      BY <1>1, <1>6, <2>1, <2>2, NoProcAssumption DEF Blocks
    <2>4. s \in Got(r)
      BY <1>4, <2>3 DEF Got
    <2> QED BY <1>1, <1>4, <2>4, HolderWaitsAbove
  <1> QED BY <1>3, <1>4, <1>5, <1>6 DEF Got

LEMMA NoCircle == IInv => NoCircularWait
  <1> SUFFICES ASSUME IInv, NEW D \in SUBSET Proc, D # {},
                      \A p \in D : \E q \in D : Blocks(q, p)
               PROVE  FALSE
    BY DEF NoCircularWait
  <1> DEFINE At == UNION {sortedLockPoses(p) : p \in D}
  <1>1. At \subseteq Stripe
    BY DEF sortedLockPoses, Todo, IInv, TypeOK
  <1>2. At # {}
    BY DEF Blocks
  <1>3. PICK s \in At : \A t \in At : t <= s
    BY <1>1, <1>2, Highest, Zenon
  <1>4. PICK p \in D : s \in sortedLockPoses(p)
    OBVIOUS
  <1>5. PICK r \in D : \E t \in sortedLockPoses(r) : s < t
    BY <1>4, WaitsClimb
  <1>6. PICK t \in sortedLockPoses(r) : s < t
    BY <1>5
  <1>7. t \in At
    OBVIOUS
  <1>8. s \in Int /\ t \in Int
    BY <1>1, <1>7 DEF Stripe
  <1>9. t <= s
    BY <1>3, <1>7
  <1> HIDE DEF At
  <1> QED BY <1>6, <1>8, <1>9

\* "To avoid deadlock, we need to sort the locks" (dblock.go:84) is right: no
\* group of goroutines, of any size, waits only for each other.
THEOREM DeadlockFree == Spec => []NoCircularWait
  BY Invariance, NoCircle, PTL

-----------------------------------------------------------------------------
(* Locks implements LockTable *)

Held == [p \in Proc |-> IF pc[p] = "held" THEN req[p] ELSE [poses |-> {}, mode |-> "R"]]

LEMMA RefinesInit == Init => Table!Init
  BY DEF Init, Table!Init, Table!Nothing

LEMMA RefinesLockDone ==
    ASSUME IInv, IInv', NEW p \in Proc, LockDone(p)
    PROVE  Table!Next
  <1>1. Held[p] = Table!Nothing
    BY DEF Held, LockDone, Table!Nothing
  <1>2. PICK poses \in (SUBSET Stripe) \ {{}}, mode \in Mode : req[p] = [poses |-> poses, mode |-> mode]
    BY DEF IInv, TypeOK, NonEmpty, LockDone
  <1>3. Held' = [Held EXCEPT ![p] = [poses |-> poses, mode |-> mode]]
    BY <1>2, Zenon DEF Held, LockDone, IInv, TypeOK
  <1>4. \A q \in Proc \ {p} : ~Table!Conflict([poses |-> poses, mode |-> mode], Held[q])
    <2> SUFFICES ASSUME NEW q \in Proc \ {p}, pc[q] = "held",
                        req[p].poses \cap req[q].poses # {}
                 PROVE  req[p].mode = "R" /\ req[q].mode = "R"
      BY <1>2 DEF Table!Conflict, Held
    <2>1. CriticalSections'
      BY Excluded, PTL
    <2>2. pc'[p] = "held" /\ pc'[q] = "held" /\ req' = req
      BY DEF LockDone, IInv, TypeOK
    <2> QED BY <2>1, <2>2 DEF CriticalSections
  <1>5. Table!Acquire(p, poses, mode)
    BY <1>1, <1>3, <1>4, Zenon DEF Table!Acquire, Held
  <1> QED BY <1>5 DEF Table!Next, Table!Mode, Mode

LEMMA RefinesUnlock ==
    ASSUME IInv, NEW p \in Proc, NEW s \in Stripe, UnlockStripe(p, s)
    PROVE  Table!Next \/ Held' = Held
  <1>1. CASE pc[p] = "held"
    <2>1. Held[p] # Table!Nothing
      BY <1>1 DEF Held, Table!Nothing, IInv, NonEmpty
    <2>2. Held' = [Held EXCEPT ![p] = Table!Nothing]
      BY <1>1, Zenon DEF Held, UnlockStripe, IInv, TypeOK, Table!Nothing
    <2> QED BY <2>1, <2>2, Zenon DEF Table!Next, Table!Release, Held
  <1>2. CASE pc[p] # "held"
    BY <1>2 DEF Held, UnlockStripe, IInv, TypeOK
  <1> QED BY <1>1, <1>2

LEMMA RefinesStep == IInv /\ IInv' /\ [Next]_vars => [Table!Next]_Held
  <1> SUFFICES ASSUME IInv, IInv', [Next]_vars PROVE Table!Next \/ Held' = Held
    OBVIOUS
  <1>1. CASE UNCHANGED vars
    BY <1>1 DEF vars, Held
  <1>2. ASSUME NEW p \in Proc, Request(p) PROVE Held' = Held
    BY <1>2, Zenon DEF Request, Held, IInv, TypeOK
  <1>3. ASSUME NEW p \in Proc, NEW s \in Stripe,
               Announce(p, s) \/ LockStripe(p, s) \/ RLockStripe(p, s)
        PROVE  Held' = Held
    BY <1>3, Zenon DEF Announce, LockStripe, RLockStripe, Held
  <1>4. ASSUME NEW p \in Proc, UnlockDone(p) PROVE Held' = Held
    BY <1>4 DEF UnlockDone, Held, IInv, TypeOK
  <1> QED BY <1>1, <1>2, <1>3, <1>4, RefinesLockDone, RefinesUnlock DEF Next

\* Locking stripe by stripe in ascending order implements the lock table that
\* grants all stripes of a command in one step, which Keyspace is built on.
THEOREM Refinement == Spec => ImplementsLockTable
  <1>1. IInv /\ IInv' /\ [Next]_vars
          => [Table!Next]_[p \in Proc |-> IF pc[p] = "held" THEN req[p]
                                          ELSE [poses |-> {}, mode |-> "R"]]
    BY RefinesStep DEF Held
  <1> QED BY <1>1, RefinesInit, Invariance, PTL DEF Spec, ImplementsLockTable, Table!Spec
=============================================================================
