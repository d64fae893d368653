-------------------------- MODULE SnippetTemplate --------------------------
(***************************************************************************)
(* The marks in a replacement, ${cursor} and ${tabstop:n} with n from 0    *)
(* to 9, and what parseSnippetMarkers makes of them: the text without      *)
(* them and offsets into it.  A mark that is malformed is text.            *)
(***************************************************************************)
EXTENDS Integers, SequencesExt

CONSTANTS
  Number,     \* a function from the marks ${tabstop:n} to their n
  CursorMark  \* ${cursor}

ASSUME SnippetTemplateConstants ==
  /\ Number \in [DOMAIN Number -> 0 .. 9]
  /\ CursorMark \notin DOMAIN Number

Mark == DOMAIN Number \cup {CursorMark}
AtEnd == -1

\* The text that is written when the first i elements of the source are read.
Written(source) ==
  LET text[i \in 0 .. Len(source)] ==
        IF i = 0 THEN <<>>
        ELSE IF source[i] \in Mark THEN text[i - 1] ELSE Append(text[i - 1], source[i])
  IN text

Text(source) == Written(source)[Len(source)]

\* Where the i-th element of the source is in the text.
Offset(source, i) == Len(Written(source)[i - 1])

Tabstops(source) == {i \in DOMAIN source : source[i] \in DOMAIN Number}
Cursors(source) == {i \in DOMAIN source : source[i] = CursorMark}

\* Of several cursors the first counts.
CursorOffset(source) == Offset(source, Min(Cursors(source)))

\* Mutant of Order: 0 is the first number.
OrderPlain(mark) == Number[mark]

\* Tabstop 0 is the last.
Order(mark) == IF Number[mark] = 0 THEN 10 ELSE Number[mark]

\* A stable sort.
InOrder(source) ==
  CHOOSE s \in [1 .. Cardinality(Tabstops(source)) -> Tabstops(source)] :
    \A k, l \in DOMAIN s :
      k < l => \/ Order(source[s[k]]) < Order(source[s[l]])
               \/ Order(source[s[k]]) = Order(source[s[l]]) /\ s[k] < s[l]

\* The offsets of the tabstops as they are visited; a cursor is one more,
\* without a tabstop 0 and where the last is not already.
Stops(source) ==
  LET order == InOrder(source)
      stops == [k \in DOMAIN order |-> Offset(source, order[k])]
  IN IF \/ stops = <<>> \/ Cursors(source) = {}
        \/ \E i \in Tabstops(source) : Number[source[i]] = 0
        \/ Last(stops) = CursorOffset(source)
     THEN stops ELSE Append(stops, CursorOffset(source))

\* The cursor counts by itself when there are no tabstops.
Cursor(source) ==
  IF Tabstops(source) = {} /\ Cursors(source) # {} THEN CursorOffset(source) ELSE AtEnd
=============================================================================
