------------------------------ MODULE MCValues -------------------------------
(***************************************************************************)
(* The data of one client, with instances small enough for TLC: the values *)
(* under a key (the linked list, the stream, the sorted set), the match of *)
(* KEYS, and the stream of bytes that commands are parsed from.  They      *)
(* share nothing, so a behaviour is one of one of them.                    *)
(***************************************************************************)
EXTENDS Integers, Sequences, FiniteSets

CONSTANTS Parts,         \* the values explored
          x, y, Null,    \* the elements of lists, and nil
          Pair, Member, Option

VARIABLES part,                       \* the value that moves
          h, len, out, panicked,
          clock, timeStamps, entry, added,
          g,
          elements, src,
          sent, in, end, whole, state, ch, parser, handler, cancelled, got

listVars == <<h, len, out, panicked>>
streamVars == <<clock, timeStamps, entry, added>>
patternVars == <<elements, src>>
parserVars == <<sent, in, end, whole, state, ch, parser, handler, cancelled, got>>
vars == <<part, listVars, streamVars, g, patternVars, parserVars>>

\* Every member has scores of its own.
OwnScores == {<<"a", 1>>, <<"b", 2>>, <<"b", 7>>, <<"c", 3>>, <<"d", 4>>, <<"e", 5>>, <<"f", 6>>}
Six == {"a", "b", "c", "d", "e", "f"}

\* Seven members, each with one score.
OneScore == {<<"a", 1>>, <<"b", 2>>, <<"c", 3>>, <<"d", 4>>, <<"e", 5>>, <<"f", 6>>, <<"g", 7>>}
Seven == Six \cup {"g"}

Lists == INSTANCE List WITH Nil <- Null, Value <- {x, y}, Position <- -4..4, Count <- -2..2, Cells <- 4, MaxLen <- 4
Streams == INSTANCE Stream WITH MaxTime <- 2, MaxSeq <- 1, MaxEntries <- 4, Trim <- -1..2
Trees == INSTANCE AVLTree WITH MaxScore <- 8
Patterns == INSTANCE Pattern WITH Char <- {"a", "b"}, MaxElements <- 3, MaxKey <- 4

\* Payloads that look like the end of a line and like a header.
Connection == INSTANCE Parser WITH
    Payload <- {<<>>, <<"\r", "\n">>, <<"\n", "$">>}, MaxArray <- 2, MaxData <- 2

\* The variables of the parts that do not move are Null.
Init ==
    /\ part \in Parts
    /\ IF part = "list" THEN Lists!Init
       ELSE h = Null /\ len = Null /\ out = Null /\ panicked = Null
    /\ IF part = "stream" THEN Streams!Init
       ELSE clock = Null /\ timeStamps = Null /\ entry = Null /\ added = Null
    /\ IF part = "tree" THEN Trees!Init ELSE g = Null
    /\ IF part = "pattern" THEN Patterns!Init ELSE elements = Null /\ src = Null
    /\ IF part = "parser" THEN Connection!Init
       ELSE /\ sent = Null /\ in = Null /\ end = Null /\ whole = Null /\ state = Null
            /\ ch = Null /\ parser = Null /\ handler = Null /\ cancelled = Null /\ got = Null

Next ==
    /\ UNCHANGED part
    /\ \/ part = "list" /\ Lists!Next /\ UNCHANGED <<streamVars, g, patternVars, parserVars>>
       \/ part = "stream" /\ Streams!Next /\ UNCHANGED <<listVars, g, patternVars, parserVars>>
       \/ part = "tree" /\ Trees!Next /\ UNCHANGED <<listVars, streamVars, patternVars, parserVars>>
       \/ part = "pattern" /\ Patterns!Next /\ UNCHANGED <<listVars, streamVars, g, parserVars>>
       \/ part = "parser" /\ Connection!Next /\ UNCHANGED <<listVars, streamVars, g, patternVars>>

Spec == Init /\ [][Next]_vars

\* The numbers of nodes of a tree are their addresses: two trees that differ only
\* in them are one.  A node of dict that is not in the tree counts by its value,
\* which then never changes unless a node of the tree shares it.
RECURSIVE Shape(_)
Shape(n) ==
    IF n = 0 THEN <<>>
    ELSE <<Trees!ScoreAt(g, n), g.Names[g.Value[n]], g.height[n], Shape(g.left[n]), Shape(g.right[n])>>

Address(m) ==
    LET n == g.dict[m]
        nodes == Trees!Nodes
    IN  IF n = 0 THEN <<>>
        ELSE <<{k \in DOMAIN nodes : nodes[k] = n}, {k \in DOMAIN nodes : g.Value[nodes[k]] = g.Value[n]},
               Trees!ScoreAt(g, n), g.Names[g.Value[n]]>>

\* So are those of the nodes of a list, and no guard depends on its last answer.
ListShape ==
    <<Lists!Values(Lists!Forward), Lists!Values(Lists!Backward), h.Next[0] = -1, h.Prev[5] = -1, h.Val[0], h.Val[5], len, panicked>>

\* TLC writes a state to disk only when its values are evaluated, those of the
\* nodes that are out of the tree too.  Always TRUE.
Evaluated == g = [g EXCEPT !.len = @]

View ==
    <<part, IF part = "list" THEN ListShape ELSE <<>>, streamVars,
      IF part # "tree" THEN <<>>
      ELSE <<Shape(g.root), [m \in Member |-> Address(m)], g.len, g.panic, Evaluated>>, patternVars, parserVars>>

(***************************************************************************)
(* The properties of the parts                                             *)
(***************************************************************************)
\* While Len is exact every list command but LREM is that of a sequence, and LINDEX,
\* LRANGE and LPOS read one; the links in the two directions stay mirror images.
ListIsSequence ==
    /\ [](part = "list" => Lists!ReadsMatch /\ Lists!WellLinked)
    /\ [][part = "list" => [Lists!SequenceStep]_(Lists!vars)]_listVars

\* XADD and its trimming keep the IDs of a stream in order.
StampsSorted == part = "stream" => Streams!StampsSorted

\* ZRANGE answers the scores in order after any rotations and deletions, and the
\* dictionary of a sorted set names what is in its tree.
TreeConsistent == part = "tree" => Trees!SearchOrder /\ Trees!DictMatches

\* No command on a sorted set follows a nil pointer.
NoNilPointer == part = "tree" => Trees!NoNilPointer

\* What PattenMatch answers is what the pattern means.
AnswersMatch == part = "pattern" => Patterns!AnswersMatch

\* KEYS answers for every pattern and key.
AlwaysAnswers == part = "pattern" => Patterns!AlwaysAnswers

\* The handler executes what the client has sent, wherever the stream is cut.
ExecutesWhatWasSent == part = "parser" => Connection!ExecutesWhatWasSent
=============================================================================
