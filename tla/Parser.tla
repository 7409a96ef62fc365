------------------------------- MODULE Parser --------------------------------
(***************************************************************************)
(* The RESP protocol on one connection: a client writes data in the format *)
(* of ToBytes, the goroutine of resp.parse reads it and sends what it has  *)
(* parsed on an unbuffered channel to the handler, Manager.Handle.  The    *)
(* stream may end, or the connection break, after any byte.  A number is   *)
(* one byte here, and a client sends numbers that are one byte long.       *)
(***************************************************************************)
EXTENDS Integers, Sequences, SequencesExt

CONSTANTS Payload,     \* the contents of strings, sequences of bytes
          MaxArray, MaxData

VARIABLES sent,        \* what the client writes, a sequence of data
          in,          \* the bytes that the parser has not read
          end,         \* how the stream ends: "eof" or "reset"
          whole,       \* nothing was lost
          state,       \* readState
          ch,          \* what the parser is sending: a sequence of at most one
          parser,      \* "run", or "done" when its channel is closed
          handler,     \* "run", or why it has left: "eof", "error", "ctx"
          cancelled,   \* the server shuts down
          got          \* the commands the handler has executed

vars == <<sent, in, end, whole, state, ch, parser, handler, cancelled, got>>

CR == "\r"
LF == "\n"
Number == {"-1", "0", "1", "2", "3"}
Int64(n) == CASE n = "-1" -> -1 [] n = "0" -> 0 [] n = "1" -> 1 [] n = "2" -> 2 [] n = "3" -> 3
Itoa(n) == CHOOSE s \in Number : Int64(s) = n

(***************************************************************************)
(* Data and its bytes                                                      *)
(***************************************************************************)
Bulk(b) == [kind |-> "bulk", data |-> b]
NilBulk == [kind |-> "nil", data |-> <<>>]
Str(b) == [kind |-> "string", data |-> b]
IntData(n) == [kind |-> "int", data |-> <<n>>]
Array(d) == [kind |-> "array", data |-> d]
Err(e) == [kind |-> "error", data |-> <<e>>]

Single(d) ==
    CASE d.kind = "bulk" -> <<"$", Itoa(Len(d.data)), CR, LF>> \o d.data \o <<CR, LF>>
      [] d.kind = "nil" -> <<"$", "-1", CR, LF>>
      [] d.kind = "string" -> <<"+">> \o d.data \o <<CR, LF>>
      [] d.kind = "int" -> <<":">> \o d.data \o <<CR, LF>>

ToBytes(d) ==
    IF d.kind # "array" THEN Single(d)
    ELSE <<"*", Itoa(Len(d.data)), CR, LF>> \o FlattenSeq([k \in DOMAIN d.data |-> Single(d.data[k])])

\* What a client sends: commands, and data that is no command.
Element == {Bulk(b) : b \in Payload} \cup {NilBulk, Str(<<"x">>)}
Data == {Array(s) : s \in BoundedSeq(Element, MaxArray)} \cup {IntData("1"), NilBulk, Bulk(<<"x">>)}

Fresh == [bulkLen |-> 0, arrayLen |-> 0, multiLine |-> FALSE, arrayData |-> <<>>, inArray |-> FALSE]

Init ==
    /\ sent \in BoundedSeq(Data, MaxData)
    /\ LET bytes == FlattenSeq([k \in DOMAIN sent |-> ToBytes(sent[k])])
       IN  \E n \in 0..Len(bytes) : in = SubSeq(bytes, 1, n) /\ whole = (n = Len(bytes))
    /\ end \in {"eof", "reset"}
    /\ state = Fresh /\ ch = <<>> /\ parser = "run"
    /\ handler = "run" /\ cancelled = FALSE /\ got = <<>>

(***************************************************************************)
(* The parser                                                              *)
(***************************************************************************)
\* A line, or the bulkLen bytes of a bulk string with their CRLF: the error, the
\* message, and what is left to read.  io.ReadFull answers io.EOF only before the
\* first byte; ReadBytes also answers it in the middle of a line.
Line(err, msg, rest) == [err |-> err, msg |-> msg, rest |-> rest]
From(s, k) == SubSeq(s, k, Len(s))
Checked(msg, rest) == Line(IF msg[Len(msg) - 1] = CR /\ Last(msg) = LF THEN "" ELSE "protocol", msg, rest)

readLine(s, b) ==
    LET n == s.bulkLen + 2
        lf == SelectInSeq(b, LAMBDA c : c = LF)
    IN  IF s.multiLine /\ s.bulkLen >= 0
        THEN IF b = <<>> THEN Line(end, <<>>, <<>>)
             ELSE IF Len(b) < n THEN Line("unexpected", <<>>, <<>>)
             ELSE Checked(SubSeq(b, 1, n), From(b, n + 1))
        ELSE IF lf = 0 THEN Line(end, <<>>, <<>>) ELSE Checked(SubSeq(b, 1, lf), From(b, lf + 1))

\* Without the first byte and the CRLF.
Text(msg) == SubSeq(msg, 2, Len(msg) - 2)
IsNumber(t) == Len(t) = 1 /\ t[1] \in Number

\* What an iteration leaves: the state and what it sends.
Goes(s, out) == [state |-> s, ch |-> out]
Fails == Goes(Fresh, <<Err("protocol")>>)

\* A datum is complete: it is an element of the array, which may be complete
\* with it, or stands alone.
Deliver(s, d) ==
    LET data == Append(s.arrayData, d)
    IN  IF ~s.inArray THEN Goes(s, <<d>>)
        ELSE IF Len(data) = s.arrayLen THEN Goes(Fresh, <<Array(data)>>)
        ELSE Goes([s EXCEPT !.arrayData = data], <<>>)

parseArrayHeader(s, t) ==
    IF ~IsNumber(t) \/ Int64(t[1]) < 0 THEN Fails
    ELSE IF Int64(t[1]) = 0 THEN Goes(Fresh, <<Array(<<>>)>>)
    ELSE Goes([s EXCEPT !.arrayLen = Int64(t[1]), !.inArray = TRUE, !.arrayData = <<>>], <<>>)

\* Mutant: a nil leaves the state in the middle of a bulk string.
BulkHeaderKeeps(s, t) ==
    IF ~IsNumber(t) \/ Int64(t[1]) < -1 THEN Fails
    ELSE IF Int64(t[1]) = -1 THEN Deliver([s EXCEPT !.bulkLen = 0, !.multiLine = TRUE], NilBulk)
    ELSE Goes([s EXCEPT !.bulkLen = Int64(t[1]), !.multiLine = TRUE], <<>>)

parseBulkHeader(s, t) ==
    IF ~IsNumber(t) \/ Int64(t[1]) < -1 THEN Fails
    ELSE IF Int64(t[1]) = -1 THEN Deliver([s EXCEPT !.bulkLen = 0, !.multiLine = FALSE], NilBulk)
    ELSE Goes([s EXCEPT !.bulkLen = Int64(t[1]), !.multiLine = TRUE], <<>>)

parseSingleLine(s, msg) ==
    CASE msg[1] = "+" -> Deliver(s, Str(Text(msg)))
      [] msg[1] = ":" -> IF IsNumber(Text(msg)) THEN Deliver(s, IntData(Text(msg)[1])) ELSE Fails
      [] OTHER -> Deliver(s, [kind |-> "plain", data |-> Text(msg)])

Parsed(msg) ==
    IF state.multiLine
    THEN Deliver([state EXCEPT !.multiLine = FALSE, !.bulkLen = 0], Bulk(SubSeq(msg, 1, Len(msg) - 2)))
    ELSE CASE msg[1] = "*" -> parseArrayHeader(state, Text(msg))
           [] msg[1] = "$" -> parseBulkHeader(state, Text(msg))
           [] OTHER -> parseSingleLine(state, msg)

\* An iteration of the loop, until it has to send.  The reads of a connection
\* that the handler has closed fail.
parse ==
    /\ parser = "run" /\ ch = <<>>
    /\ \E line \in {readLine(state, in)} \cup (IF handler = "run" THEN {} ELSE {Line("reset", <<>>, <<>>)}) :
          /\ in' = line.rest
          /\ IF line.err = "" THEN LET r == Parsed(line.msg) IN state' = r.state /\ ch' = r.ch /\ UNCHANGED parser
             ELSE IF line.err = "eof" THEN ch' = <<Err("eof")>> /\ UNCHANGED <<state, parser>>
             ELSE IF cancelled THEN parser' = "done" /\ UNCHANGED <<state, ch>>
             ELSE ch' = Fails.ch /\ state' = Fresh /\ UNCHANGED parser
    /\ UNCHANGED <<sent, end, whole, handler, cancelled, got>>

(***************************************************************************)
(* The handler                                                             *)
(***************************************************************************)
\* The parser's channel is received from; after io.EOF the parser closes it.
Handle ==
    /\ handler = "run" /\ ch # <<>>
    /\ ch' = <<>>
    /\ LET d == ch[1]
       IN  /\ parser' = IF d = Err("eof") THEN "done" ELSE parser
           /\ handler' = IF d.kind # "error" THEN "run" ELSE IF d = Err("eof") THEN "eof" ELSE "error"
           /\ got' = IF d.kind = "array" THEN Append(got, d) ELSE got
    /\ UNCHANGED <<sent, in, end, whole, state, cancelled>>

Cancel == ~cancelled /\ cancelled' = TRUE /\ UNCHANGED <<sent, in, end, whole, state, ch, parser, handler, got>>

CtxDone ==
    /\ handler = "run" /\ cancelled
    /\ handler' = "ctx"
    /\ UNCHANGED <<sent, in, end, whole, state, ch, parser, cancelled, got>>

Next == parse \/ Handle \/ Cancel \/ CtxDone

Spec == Init /\ [][Next]_vars

(***************************************************************************)
(* Properties                                                              *)
(***************************************************************************)
Commands == SelectSeq(sent, LAMBDA d : d.kind = "array")

\* The handler executes the commands that the client has sent, in their order,
\* and nothing else: wherever the stream is cut no part of a command is executed
\* and no payload is taken for one.  When nothing of the stream was lost it leaves,
\* at the end or for an error, only after all of them.
ExecutesWhatWasSent ==
    /\ IsPrefix(got, Commands)
    /\ handler \in {"eof", "error"} /\ whole => got = Commands
=============================================================================
