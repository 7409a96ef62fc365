------------------------------- MODULE Pattern -------------------------------
(***************************************************************************)
(* util.PattenMatch, with which KEYS chooses the keys.  A pattern is made  *)
(* of the elements that its comment lists; Text spells it, and the code    *)
(* reads the characters.  A slice beyond the end of the key panics, which  *)
(* ends the server.                                                        *)
(***************************************************************************)
EXTENDS Integers, Sequences, SequencesExt

CONSTANTS Char,        \* the characters of keys
          MaxElements, MaxKey

VARIABLES elements,    \* the pattern
          src          \* the key

vars == <<elements, src>>

Lit(c) == [kind |-> "literal", text |-> <<c>>, chars |-> {c}]
AnyChar == [kind |-> "any", text |-> <<"?">>, chars |-> Char]
Star == [kind |-> "star", text |-> <<"*">>, chars |-> Char]
OneOf(c, d) == [kind |-> "class", text |-> <<"[", c, d, "]">>, chars |-> {c, d}]
Escaped(c) == [kind |-> "escaped", text |-> <<"\\", c>>, chars |-> {c}]
NoneOf(c) == [kind |-> "class", text |-> <<"[", "^", c, "]">>, chars |-> Char \ {c}]

\* The characters in the order of their codes.
Code(c) == CASE c = "[" -> 91 [] c = "^" -> 94 [] c = "a" -> 97 [] c = "b" -> 98
             [] c = "c" -> 99 [] c = "d" -> 100 [] OTHER -> 42

FromTo(c, d) ==
    [kind |-> "class", text |-> <<"[", c, "-", d, "]">>, chars |-> {e \in Char : Code(e) \in Code(c)..Code(d)}]

Element ==
    {AnyChar, Star} \cup {Lit(c) : c \in Char} \cup {NoneOf(c) : c \in Char} \cup {Escaped(c) : c \in Char}
    \cup {OneOf(c, d) : c, d \in Char} \cup {FromTo(p[1], p[2]) : p \in {q \in Char \X Char : Code(q[1]) <= Code(q[2])}}

Text(p) == FlattenSeq([k \in DOMAIN p |-> p[k].text])

(***************************************************************************)
(* The code.  The answers are "yes", "no" and "panic".                     *)
(***************************************************************************)
Answer(b) == IF b THEN "yes" ELSE "no"
From(s, k) == SubSeq(s, k, Len(s))
OnlyStars(p) == \A k \in DOMAIN p : p[k] = "*"

\* A class from its k-th character on: whether c is in it, and where it ends.
\* At 0 it is wrong syntax.
RECURSIVE Class(_, _, _, _)
Class(p, k, c, match) ==
    IF k > Len(p) THEN <<match, 0>>
    ELSE CASE p[k] = "\\" ->
                IF k = Len(p) THEN <<match, 0>> ELSE Class(p, k + 2, c, match \/ p[k + 1] = c)
           [] p[k] = "]" -> <<match, k>>
           [] p[k] = "-" ->
                IF k = Len(p) \/ p[k + 1] = "]" THEN <<match, 0>>
                ELSE Class(p, k + 2, c, match \/ Code(c) \in Code(p[k - 1])..Code(p[k + 1]))
           [] OTHER -> Class(p, k + 1, c, match \/ p[k] = c)

\* The test at the end, without the stars that may be left.
EndsTogether(p, s) == s = <<>> /\ p = <<>>

\* The key or the pattern is used up: only stars may be left of the pattern.
Ends(p, s) == s = <<>> /\ OnlyStars(p)

RECURSIVE PattenMatch(_, _), Scan(_, _), Find(_, _)

\* One round of the loop; neither p nor s is empty.
Scan(p, s) ==
    LET after(q, t) == IF q = <<>> \/ t = <<>> THEN Answer(Ends(q, t)) ELSE Scan(q, t)
        not == Len(p) > 1 /\ p[2] = "^"
        class == Class(p, IF not THEN 3 ELSE 2, s[1], FALSE)
        stars == CHOOSE k \in DOMAIN p : OnlyStars(SubSeq(p, 1, k)) /\ (k = Len(p) \/ p[k + 1] # "*")
    IN  CASE p[1] = "*" -> IF stars = Len(p) THEN "yes" ELSE Find(From(p, stars + 1), s)
          [] p[1] = "?" -> after(Tail(p), Tail(s))
          [] p[1] = "[" ->
                IF class[2] = 0 \/ class[1] = not THEN "no" ELSE after(From(p, class[2] + 1), Tail(s))
          [] p[1] = "\\" -> IF Len(p) = 1 THEN "no" ELSE after(From(p, 3), s)
          [] OTHER -> IF p[1] # s[1] THEN "no" ELSE after(Tail(p), Tail(s))

\* Behind a star: s is skipped to the character p begins with, whatever it means
\* in a pattern, and the rest is tried.  If there is none src[srcPos+1:] begins
\* beyond the end.
Find(p, s) ==
    LET found == SelectInSeq(s, LAMBDA c : c = p[1])
        rest == PattenMatch(Tail(p), From(s, found + 1))
    IN  IF s = <<>> THEN "no"
        ELSE IF found = 0 THEN "panic"
        ELSE IF rest = "no" THEN Find(p, From(s, found + 1)) ELSE rest

PattenMatch(p, s) == IF p = <<>> \/ s = <<>> THEN Answer(Ends(p, s)) ELSE Scan(p, s)

(***************************************************************************)
(* Every pattern and every key, element by element.                        *)
(***************************************************************************)
Init == elements = <<>> /\ src = <<>>

Next ==
    \/ /\ Len(elements) < MaxElements
       /\ \E e \in Element : elements' = Append(elements, e)
       /\ UNCHANGED src
    \/ /\ Len(src) < MaxKey
       /\ \E c \in Char : src' = Append(src, c)
       /\ UNCHANGED elements

Spec == Init /\ [][Next]_vars

(***************************************************************************)
(* Properties                                                              *)
(***************************************************************************)
\* What the comment means: a star stands for any characters, every other element
\* for one of its own.
RECURSIVE Matches(_, _)
Matches(p, s) ==
    IF p = <<>> THEN s = <<>>
    ELSE IF p[1].kind = "star" THEN \E k \in 1..(Len(s) + 1) : Matches(Tail(p), From(s, k))
    ELSE s # <<>> /\ s[1] \in p[1].chars /\ Matches(Tail(p), Tail(s))

\* No character is escaped, and every star is the last element or stands before
\* a star or a literal.  (The case of the escape does not fall into the default
\* one, so the escaped character is skipped.)
Supported(p) ==
    /\ \A k \in DOMAIN p : p[k].kind # "escaped"
    /\ \A k \in 1..(Len(p) - 1) : p[k].kind = "star" => p[k + 1].kind \in {"star", "literal"}

\* An answer of PattenMatch to such a pattern is that of its definition, through
\* all the ways to divide the key among the stars.
AnswersMatch ==
    Supported(elements) =>
        PattenMatch(Text(elements), src) \in {"panic", Answer(Matches(elements, src))}

\* PattenMatch answers for every pattern and key.
AlwaysAnswers == PattenMatch(Text(elements), src) # "panic"
=============================================================================
