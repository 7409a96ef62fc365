------------------------------- MODULE Stream --------------------------------
(***************************************************************************)
(* memdb/stream.go and stream_struct.go: XADD with its trimming, and       *)
(* XRANGE, on one key.  An ID is a time and a sequence number; -1 stands   *)
(* for "choose one" in XADD and for "no bound" in XRANGE, as in the code.  *)
(* Each command holds the lock of the key.                                 *)
(***************************************************************************)
EXTENDS Integers, Sequences

CONSTANTS MaxTime, MaxSeq,   \* times and sequence numbers clients give
          MaxEntries,        \* the most XADDs
          Trim               \* thresholds of MAXLEN; -1 for no MAXLEN

VARIABLES clock,       \* the time in milliseconds
          timeStamps,  \* the IDs, in the order of XADD
          entry,       \* the fields stored under the text of an ID
          added        \* the number of XADDs so far, which are the fields

vars == <<clock, timeStamps, entry, added>>

ID == [time : 0..MaxTime, seqNum : -1..(MaxSeq + MaxEntries)]
Given == [time : 0..MaxTime, seqNum : 0..MaxSeq]
Auto == [time |-> -1, seqNum |-> -1]
NoFields == 0

Init ==
    /\ clock = 0
    /\ timeStamps = <<>>
    /\ entry = [i \in ID |-> NoFields]
    /\ added = 0

Tick == clock < MaxTime /\ clock' = clock + 1 /\ UNCHANGED <<timeStamps, entry, added>>

\* AddEntry without the test that the time does not go back.
EntryIDAnyTime(arg) ==
    LET time == IF arg.time = -1 THEN clock ELSE arg.time
        top == timeStamps[Len(timeStamps)]
    IN  IF timeStamps = <<>> THEN [time |-> time, seqNum |-> 0]
        ELSE IF time # top.time THEN [time |-> time, seqNum |-> arg.seqNum]
        ELSE IF arg.seqNum = -1 THEN [time |-> time, seqNum |-> top.seqNum + 1]
        ELSE IF arg.seqNum < top.seqNum THEN Auto
        ELSE [time |-> time, seqNum |-> arg.seqNum]

\* AddEntry: the ID it stores, or Auto when it answers an error.  The first ID
\* has sequence number 0 whatever was given.
EntryID(arg) ==
    LET time == IF arg.time = -1 THEN clock ELSE arg.time
        top == timeStamps[Len(timeStamps)]
    IN  IF timeStamps = <<>> THEN [time |-> time, seqNum |-> 0]
        ELSE IF time < top.time THEN Auto
        ELSE IF time > top.time THEN [time |-> time, seqNum |-> arg.seqNum]
        ELSE IF arg.seqNum = -1 THEN [time |-> time, seqNum |-> top.seqNum + 1]
        ELSE IF arg.seqNum < top.seqNum THEN Auto
        ELSE [time |-> time, seqNum |-> arg.seqNum]

\* DropFirstN: the first n IDs go, and what is stored under their texts.
DropFirstN(stamps, e, n) ==
    LET gone == {stamps[k] : k \in 1..n} IN
    <<SubSeq(stamps, n + 1, Len(stamps)), [i \in ID |-> IF i \in gone THEN NoFields ELSE e[i]]>>

\* XADD with an ID and perhaps MAXLEN.  MINID cannot be used: the parser of the
\* options takes its argument for the ID, and the rest has an odd length.
xadd(arg, threshold) ==
    LET id == EntryID(arg)
        stamps == Append(timeStamps, id)
        stored == [entry EXCEPT ![id] = added + 1]
        excess == IF threshold >= 0 /\ Len(stamps) > threshold THEN Len(stamps) - threshold ELSE 0
        trimmed == DropFirstN(stamps, stored, excess)
    IN  /\ added < MaxEntries
        /\ id # Auto
        /\ timeStamps' = trimmed[1]
        /\ entry' = trimmed[2]
        /\ added' = added + 1
        /\ UNCHANGED clock

Next ==
    \/ Tick
    \/ \E arg \in Given \cup {Auto}, t \in Trim : xadd(arg, t)

Spec == Init /\ [][Next]_vars

\* Range: the positions from the first that is at least start in both parts to
\* the last before the first that is not below end.
XRange(start, end) ==
    LET stops(k) == \/ end.time # -1 /\ timeStamps[k].time > end.time
                    \/ timeStamps[k].time = end.time /\ timeStamps[k].seqNum >= end.seqNum
        starts(k) == /\ timeStamps[k].time >= start.time
                     /\ timeStamps[k].seqNum >= start.seqNum \/ start.seqNum = -1
    IN  IF start.time = -1 /\ end.time = -1 THEN DOMAIN timeStamps
        ELSE {k \in DOMAIN timeStamps : (\E j \in 1..k : starts(j)) /\ ~\E j \in 1..k : stops(j)}

\* XRANGE: the IDs in the range with the fields stored under them.
xrange(start, end) == {<<timeStamps[k], entry[timeStamps[k]]>> : k \in XRange(start, end)}

(***************************************************************************)
(* Properties                                                              *)
(***************************************************************************)
Below(i, j) == i.time < j.time \/ (i.time = j.time /\ i.seqNum < j.seqNum)

\* Whatever the clock, the IDs given and the trimming, no ID is followed by a
\* lower one: Range and the trimming rely on the order of timeStamps.
StampsSorted == \A j, k \in DOMAIN timeStamps : j < k => ~Below(timeStamps[k], timeStamps[j])
=============================================================================
