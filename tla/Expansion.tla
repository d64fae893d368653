----------------------------- MODULE Expansion -----------------------------
(***************************************************************************)
(* What the plugin does to a document (Plugin.cpp): it replaces the        *)
(* trigger before the caret when a character is added or on command, at    *)
(* every caret or at none, and it walks the carets of a single replacement *)
(* through its tabstops, whose positions it keeps while the text around    *)
(* them is edited.                                                         *)
(*                                                                         *)
(* A position p is the gap after the p-th character.  Rules are a table:   *)
(* how the table comes to be is RuleStore's matter.                        *)
(***************************************************************************)
EXTENDS SnippetTemplate

CONSTANTS
  Char,        \* the characters of a document
  Boundary,    \* those that end a trigger: white space and punctuation
  Tab,         \* one of them
  Rules,       \* a function from triggers to rules
  NoRule,      \* no rule matches
  MaxTrigger,  \* gConfig.maxTriggerBytes
  MaxExpanded, \* gConfig.maxExpandedBytes
  MaxCarets,   \* 256 in replaceMultipleSelections
  NoChar,      \* no character is being added
  NoSession,   \* no entry in gTabstopSessions
  Documents,   \* documents that are opened
  Typeable,    \* bound of the model: the characters that are typed
  Selections,  \* bound of the model: the carets that are set
  Foreign,     \* bound of the model: the texts others insert
  MaxLength    \* bound of the model: nothing is inserted beyond it

Activation == {"delimiter", "tab", "immediate"}
Session == [positions : Seq(Nat), current : Nat \ {0}]

\* What expandReplacement makes of a rule: the text, the offsets of its
\* tabstops in the order they are visited and the one of its cursor; or it
\* fails: no clipboard, not in the document's encoding, marks that make it too
\* long.
Expanded ==
  [t \in DOMAIN Rules |->
     [text |-> Text(Rules[t].source), stops |-> Stops(Rules[t].source),
      cursor |-> Cursor(Rules[t].source), on |-> Rules[t].on, fails |-> Rules[t].fails]]

ASSUME ExpansionConstants ==
  /\ Boundary \subseteq Char /\ Tab \in Boundary
  /\ Char \cap Mark = {} /\ NoChar \notin Char /\ NoSession \notin Session
  /\ DOMAIN Rules \subseteq Seq(Char \ Boundary) \ {<<>>}
  /\ \A t \in DOMAIN Rules :
       Rules[t] \in [source : Seq(Char \cup Mark), on : SUBSET Activation, fails : BOOLEAN]
  /\ \A t \in DOMAIN Rules : NoRule # Expanded[t]
  /\ MaxTrigger \in Nat \ {0} /\ MaxExpanded \in Nat /\ MaxCarets \in Nat \ {0}
  /\ Documents \subseteq Seq(Char) /\ Foreign \subseteq Seq(Char)
  /\ Typeable \subseteq Char
  /\ \A S \in Selections : S \in Seq(Nat) \ {<<>>} /\ IsInjective(S)
  /\ MaxLength \in Nat

VARIABLES
  doc,      \* the document
  carets,   \* its carets, in Scintilla's order
  main,     \* index of the main caret
  active,   \* gConfig.pluginEnabled, and the buffer is not paused
  typed,    \* the character whose SCN_CHARADDED is due, or NoChar
  session,  \* the buffer's entry in gTabstopSessions, or NoSession
  born,     \* auxiliary: for each character its place in the document that
            \* the session began with, 0 for later ones
  origin    \* auxiliary: the session's positions when it began

ghost == <<born, origin>>
vars == <<doc, carets, main, active, typed, session, born, origin>>

\* A session's current tabstop and all its positions are of the document.
TypeOK ==
  /\ doc \in Seq(Char)
  /\ carets \in Seq(0 .. Len(doc)) /\ main \in DOMAIN carets
  /\ active \in BOOLEAN
  /\ typed \in Char \cup {NoChar}
  /\ session # NoSession =>
       /\ session \in Session
       /\ session.current \in DOMAIN session.positions
       /\ \A i \in DOMAIN session.positions : session.positions[i] <= Len(doc)
  /\ born \in Seq(Nat) /\ origin \in Seq(Nat)

Init ==
  /\ doc \in Documents
  /\ carets = <<0>> /\ main = 1
  /\ active = TRUE
  /\ typed = NoChar
  /\ session = NoSession
  /\ born = <<>> /\ origin = <<>>

----------------------------------------------------------------------------
(* Text and positions.                                                     *)

\* s in the place of what is between the positions a and b.
Splice(d, a, b, s) == SubSeq(d, 1, a) \o s \o SubSeq(d, b + 1, Len(d))

\* Mutant of Inserted: a tabstop at the very position stays.
InsertedAfter(positions, p, n) ==
  [i \in DOMAIN positions |-> IF positions[i] > p THEN positions[i] + n ELSE positions[i]]

\* adjustTabstopPositions, for n characters inserted at p and ...
Inserted(positions, p, n) ==
  [i \in DOMAIN positions |-> IF positions[i] >= p THEN positions[i] + n ELSE positions[i]]

\* Mutant of Removed: a tabstop inside what is deleted moves too far.
RemovedWhole(positions, p, n) ==
  [i \in DOMAIN positions |-> IF positions[i] >= p + n THEN positions[i] - n ELSE positions[i]]

\* ... for n characters deleted after p.
Removed(positions, p, n) ==
  [i \in DOMAIN positions |->
     IF positions[i] >= p + n THEN positions[i] - n
     ELSE IF positions[i] >= p THEN p ELSE positions[i]]

EndSession == session' = NoSession /\ born' = <<>> /\ origin' = <<>>

\* updateTabstopSession: an edit by the user or another part of the host.
KeepPositions(positions, newBorn) ==
  IF session = NoSession THEN UNCHANGED <<session, ghost>>
  ELSE /\ session' = [session EXCEPT !.positions = positions]
       /\ born' = newBorn
       /\ UNCHANGED origin

----------------------------------------------------------------------------
(* The user and the host.                                                  *)

\* One element is put in at each of some positions of d, from the last of them
\* to the first: n positions from the end have been looked at.
InsertedAtEach(d, places, e) ==
  LET after[n \in 0 .. Len(d) + 1] ==
        IF n = 0 THEN d
        ELSE LET p == Len(d) + 1 - n
             IN IF p \in places THEN Splice(after[n - 1], p, p, <<e>>) ELSE after[n - 1]
  IN after[Len(d) + 1]

\* What updateTabstopSession makes of it, one insertion after the other, in a
\* document of the given length.
ShiftedAtEach(positions, places, length) ==
  LET after[n \in 0 .. length + 1] ==
        IF n = 0 THEN positions
        ELSE LET p == length + 1 - n
             IN IF p \in places THEN Inserted(after[n - 1], p, 1) ELSE after[n - 1]
  IN after[length + 1]

\* A character is typed at every caret.
Type(c) ==
  /\ typed = NoChar
  /\ Len(doc) + Len(carets) <= MaxLength
  /\ typed' = c
  /\ doc' = InsertedAtEach(doc, ToSet(carets), c)
  /\ carets' = [i \in DOMAIN carets |->
                  carets[i] + Cardinality({p \in ToSet(carets) : p <= carets[i]})]
  /\ KeepPositions(ShiftedAtEach(session.positions, ToSet(carets), Len(doc)),
                   InsertedAtEach(born, ToSet(carets), 0))
  /\ UNCHANGED <<main, active>>

\* Backspace and Delete at a single caret.
Erase ==
  /\ typed = NoChar
  /\ Len(carets) = 1
  /\ \E p \in {carets[1] - 1, carets[1]} \cap 0 .. Len(doc) - 1 :
       /\ doc' = Splice(doc, p, p + 1, <<>>)
       /\ carets' = <<p>>
       /\ KeepPositions(Removed(session.positions, p, 1), Splice(born, p, p + 1, <<>>))
  /\ UNCHANGED <<main, active, typed>>

\* Text comes or goes elsewhere in the document, by a macro or another plugin.
EditElsewhere ==
  /\ typed = NoChar
  /\ Len(carets) = 1
  /\ \/ \E p \in 0 .. Len(doc), s \in Foreign :
          /\ Len(doc) + Len(s) <= MaxLength
          /\ doc' = Splice(doc, p, p, s)
          /\ carets' = IF p < carets[1] THEN <<carets[1] + Len(s)>> ELSE carets
          /\ KeepPositions(Inserted(session.positions, p, Len(s)),
                           Splice(born, p, p, [i \in DOMAIN s |-> 0]))
     \/ \E p \in 0 .. Len(doc) : \E q \in p + 1 .. Len(doc) :
          /\ doc' = Splice(doc, p, q, <<>>)
          /\ carets' = Removed(carets, p, q - p)
          /\ KeepPositions(Removed(session.positions, p, q - p), Splice(born, p, q, <<>>))
  /\ UNCHANGED <<main, active, typed>>

\* Undo and redo end a session, whatever they do to the text.
UndoOrRedo ==
  /\ typed = NoChar
  /\ session # NoSession
  /\ EndSession
  /\ doc' \in Documents
  /\ carets' = <<Len(doc')>> /\ main' = 1
  /\ UNCHANGED <<active, typed>>

\* The caret moves, or several carets are set; the last one set is the main one.
Select ==
  /\ typed = NoChar
  /\ \E S \in Selections :
       /\ ToSet(S) \subseteq 0 .. Len(doc)
       /\ carets' = S
       /\ main' = Len(S)
  /\ UNCHANGED <<doc, active, typed, session, ghost>>

\* SCN_UPDATEUI (validateTabstopSelection) when the main caret is not at the
\* current tabstop.
LeaveTabstop ==
  /\ typed = NoChar
  /\ session # NoSession
  /\ carets[main] # session.positions[session.current]
  /\ EndSession
  /\ UNCHANGED <<doc, carets, main, active, typed>>

\* The menu: the plugin is switched, or the document paused or resumed.
Switch ==
  /\ typed = NoChar
  /\ active' = ~active
  /\ UNCHANGED <<doc, carets, main, typed, session, ghost>>

----------------------------------------------------------------------------
(* Replacing.                                                              *)

\* readTriggerBefore: where the trigger that ends at e begins; at e itself
\* when there is none.
TriggerStart(e) ==
  LET first == Max({0, e - MaxTrigger})
      ends == {i \in first + 1 .. e : doc[i] \in Boundary}
  IN IF ends # {} THEN Max(ends) ELSE IF first > 0 THEN e ELSE 0

\* RuleStore's find, findImmediate and findManual.
Find(text, how) ==
  IF text \in DOMAIN Rules /\ (how = "manual" \/ how \in Rules[text].on)
  THEN Expanded[text] ELSE NoRule

\* activationForCharacter; any other character may complete an immediate rule.
HowTyped == IF typed = Tab THEN "tab" ELSE IF typed \in Boundary THEN "delimiter" ELSE "immediate"

\* The replacement at the i-th caret.  A delimiter just typed is kept after it.
Operation(i, how) ==
  LET trailing == IF how \in {"manual", "immediate"} THEN 0 ELSE 1
      e == carets[i] - trailing
      s == TriggerStart(e)
  IN [start |-> s, end |-> e, rule |-> Find(SubSeq(doc, s + 1, e), how),
      trailing |-> trailing, caret |-> i]

Size(op) == Len(op.rule.text)

Possible(op) == op.rule # NoRule /\ ~op.rule.fails /\ Size(op) <= MaxExpanded

\* Where its caret goes.
CaretOffset(op) ==
  IF op.rule.stops # <<>> THEN op.rule.stops[1]
  ELSE IF op.rule.cursor # AtEnd THEN op.rule.cursor
  ELSE Size(op) + op.trailing

\* applyReplacement: its own edit does not adjust any session, it ends the
\* buffer's and begins one if there are tabstops.
ApplyReplacement(op) ==
  LET positions == [i \in DOMAIN op.rule.stops |-> op.start + op.rule.stops[i]] IN
  /\ doc' = Splice(doc, op.start, op.end, op.rule.text)
  /\ carets' = <<op.start + CaretOffset(op)>> /\ main' = 1
  /\ IF positions = <<>> THEN EndSession
     ELSE /\ session' = [positions |-> positions, current |-> 1]
          /\ born' = [i \in DOMAIN doc' |-> i]
          /\ origin' = positions

Operations(how) == {Operation(i, how) : i \in DOMAIN carets}

\* Replacements from the last to the first; any order of those that begin
\* together.
Backwards(ops) ==
  CHOOSE s \in [1 .. Cardinality(ops) -> ops] :
    \A k, l \in DOMAIN s : k < l => s[k] # s[l] /\ s[k].start >= s[l].start

\* In that order no trigger ends behind where the one before it begins.
Apart(ops) ==
  \A k \in 2 .. Cardinality(ops) : Backwards(ops)[k].end <= Backwards(ops)[k - 1].start

\* Mutant of AllPossible: each replacement has the whole limit.
AllPossibleEach(how) ==
  /\ \A i \in DOMAIN carets : Possible(Operation(i, how))
  /\ Apart(Operations(how))

\* What is left of maxExpandedBytes after the first n carets; -1 once one of
\* them has no replacement or one that is larger than what was left.
LimitLeft(how) ==
  LET left[n \in 0 .. Len(carets)] ==
        IF n = 0 THEN MaxExpanded
        ELSE LET op == Operation(n, how)
             IN IF Possible(op) /\ Size(op) <= left[n - 1] THEN left[n - 1] - Size(op) ELSE -1
  IN left

\* replaceMultipleSelections goes on only if every caret has a replacement
\* that fits, and no trigger reaches into the next one.
AllPossible(how) == LimitLeft(how)[Len(carets)] >= 0 /\ Apart(Operations(how))

\* Mutant of ApplyOne: the carets already placed are not moved.
ApplyOneStill(done, op) ==
  [doc |-> Splice(done.doc, op.start, op.end, op.rule.text),
   placed |-> Append(done.placed, [caret |-> op.caret, at |-> op.start + CaretOffset(op)])]

\* One replacement of several: it moves the carets placed behind it.
ApplyOne(done, op) ==
  LET delta == Size(op) - (op.end - op.start)
      Moved(c) == IF c.at >= op.end THEN [c EXCEPT !.at = @ + delta] ELSE c
  IN [doc |-> Splice(done.doc, op.start, op.end, op.rule.text),
      placed |-> Append([i \in DOMAIN done.placed |-> Moved(done.placed[i])],
                        [caret |-> op.caret, at |-> op.start + CaretOffset(op)])]

\* The rest of replaceMultipleSelections: from the last trigger to the first;
\* the main caret becomes the first.  No session begins.
ApplyAll(ops) ==
  LET done[n \in 0 .. Cardinality(ops)] ==
        IF n = 0 THEN [doc |-> doc, placed |-> <<>>]
        ELSE ApplyOne(done[n - 1], Backwards(ops)[n])
      placed == done[Cardinality(ops)].placed
      first == CHOOSE k \in DOMAIN placed : placed[k].caret = main
  IN /\ doc' = done[Cardinality(ops)].doc
     /\ carets' = [i \in DOMAIN carets |-> (<<placed[first]>> \o RemoveAt(placed, first))[i].at]
     /\ main' = 1
     /\ EndSession

\* What a character or the command does to the text.
Replace(how) ==
  LET ops == Operations(how) IN
  \/ /\ Len(carets) = 1
     /\ \A op \in ops : Possible(op) /\ ApplyReplacement(op)
  \/ /\ Len(carets) \in 2 .. MaxCarets
     /\ AllPossible(how)
     /\ ApplyAll(ops)

CanReplace(how) ==
  IF Len(carets) = 1 THEN \A op \in Operations(how) : Possible(op)
  ELSE Len(carets) <= MaxCarets /\ AllPossible(how)

\* manualReplace works in a paused document, and with the plugin switched off.
ManualReplace ==
  /\ typed = NoChar
  /\ Replace("manual")
  /\ UNCHANGED <<active, typed>>

----------------------------------------------------------------------------
(* SCN_CHARADDED: processCharacterAdded.                                   *)

\* navigateTabstop takes a Tab while there is a session, active or not.
Navigates == typed = Tab /\ session # NoSession

\* Mutant of NextTabstop: the positions are those with the Tab still there.
NextTabstopUnadjusted ==
  /\ Navigates
  /\ session.current < Len(session.positions)
  /\ LET tab == carets[main] - 1 IN
       /\ doc' = Splice(doc, tab, tab + 1, <<>>)
       /\ session' = [session EXCEPT !.current = @ + 1]
       /\ born' = Splice(born, tab, tab + 1, <<>>)
       /\ carets' = <<session.positions[session.current + 1]>> /\ main' = 1
  /\ typed' = NoChar
  /\ UNCHANGED <<active, origin>>

\* It takes the Tab back and goes to the next tabstop, with one caret ...
NextTabstop ==
  /\ Navigates
  /\ session.current < Len(session.positions)
  /\ LET tab == carets[main] - 1
         positions == Removed(session.positions, tab, 1)
     IN /\ doc' = Splice(doc, tab, tab + 1, <<>>)
        /\ session' = [positions |-> positions, current |-> session.current + 1]
        /\ born' = Splice(born, tab, tab + 1, <<>>)
        /\ carets' = <<positions[session.current + 1]>> /\ main' = 1
  /\ typed' = NoChar
  /\ UNCHANGED <<active, origin>>

\* ... and at the last one leaves the Tab and ends the session.
LastTabstop ==
  /\ Navigates
  /\ session.current = Len(session.positions)
  /\ EndSession
  /\ typed' = NoChar
  /\ UNCHANGED <<doc, carets, main, active>>

ReplaceTyped ==
  /\ typed # NoChar
  /\ ~Navigates
  /\ active
  /\ Replace(HowTyped)
  /\ typed' = NoChar
  /\ UNCHANGED active

LeaveTyped ==
  /\ typed # NoChar
  /\ ~Navigates
  /\ ~(active /\ CanReplace(HowTyped))
  /\ typed' = NoChar
  /\ UNCHANGED <<doc, carets, main, active, session, ghost>>

CharAdded == NextTabstop \/ LastTabstop \/ ReplaceTyped \/ LeaveTyped

Next ==
  \/ \E c \in Typeable : Type(c)
  \/ Erase \/ EditElsewhere \/ UndoOrRedo \/ Select \/ LeaveTabstop \/ Switch
  \/ ManualReplace \/ CharAdded

Spec == Init /\ [][Next]_vars

----------------------------------------------------------------------------
\* "Tabstop positions are tracked as the text is edited": whatever is typed,
\* erased or changed elsewhere, of the text there was when the session began
\* each tabstop still has before it what was before it, and after it what was
\* after it.
TabstopsFollowText ==
  session # NoSession =>
    \A t \in DOMAIN session.positions : \A i \in DOMAIN doc :
      born[i] # 0 => (i <= session.positions[t] <=> born[i] <= origin[t])

\* The caret is alone and at the current tabstop.
AtTabstop ==
  session # NoSession /\ Len(carets) = 1 /\ carets[main] = session.positions[session.current]

\* Filling a tabstop in does not end the session: typing and erasing there
\* leave the caret at the current tabstop.
FillingKeepsTabstop ==
  [][AtTabstop /\ (Erase \/ \E c \in Typeable : Type(c)) => AtTabstop']_vars

Replaced == Operations(IF typed = NoChar THEN "manual" ELSE HowTyped)

\* A replacement begins a session.
Begins ==
  /\ session' # NoSession /\ session'.current = 1 /\ doc' # doc
  /\ ReplaceTyped \/ ManualReplace

\* "1 to 9 in the order of their numbers, and 0 is the last; without 0, the
\* cursor's mark is", and equal numbers as they stand in the text: so the positions of a new session are visited.
VisitedInOrder ==
  [][Begins =>
       \A op \in Replaced :
         LET source == Rules[SubSeq(doc, op.start + 1, op.end)].source
             at == [i \in DOMAIN source |-> op.start + Offset(source, i)]
             visited == session'.positions
             final == {i \in Tabstops(source) : Number[source[i]] = 0}
         IN /\ \A i, j \in Tabstops(source) \ final :
                 \/ Number[source[i]] < Number[source[j]]
                 \/ Number[source[i]] = Number[source[j]] /\ i < j
                 =>
                   \E k, l \in DOMAIN visited : k < l /\ visited[k] = at[i] /\ visited[l] = at[j]
            /\ final # {} => Last(visited) = at[Max(final)]
            /\ final = {} /\ Cursors(source) # {} => Last(visited) = at[Min(Cursors(source))]
            /\ ToSet(visited) \subseteq Range(at)]_vars

\* Several carets have had their triggers replaced.
AtSeveral == Len(carets) > 1 /\ Len(carets') > 1 /\ doc' # doc /\ typed' = NoChar

\* How far the position p of the old document has moved in the new one.
Shift(p) ==
  MapThenSumSet(LAMBDA op : Size(op) - (op.end - op.start), {op \in Replaced : op.end <= p})

Landing(op) == op.start + Shift(op.start) + CaretOffset(op)

\* "All replacements from the last position to the first, and each caret
\* restored to where its result is": each text is where its trigger was, no
\* other character has changed, and each caret is where its own rule wants it.
CaretsLand ==
  [][AtSeveral =>
       /\ Len(doc') = Len(doc) + Shift(Len(doc))
       /\ \A op \in Replaced :
            LET s == op.start + Shift(op.start) IN SubSeq(doc', s + 1, s + Size(op)) = op.rule.text
       /\ \A i \in DOMAIN doc :
            (\A op \in Replaced : i \notin op.start + 1 .. op.end) => doc'[i + Shift(i - 1)] = doc[i]
       /\ \A op \in Replaced :
            /\ Cardinality({i \in DOMAIN carets' : carets'[i] = Landing(op)})
                 = Cardinality({other \in Replaced : Landing(other) = Landing(op)})
            /\ op.caret = main => carets'[main'] = Landing(op)]_vars

\* "Only if a rule matches at every caret and the triggers do not overlap ...
\* with a limit on the size of the output in total".
AllWithinLimit ==
  [][AtSeveral =>
       /\ \A op \in Replaced : Possible(op)
       /\ MapThenSumSet(Size, Replaced) <= MaxExpanded
       /\ \A i \in DOMAIN doc :
            Cardinality({op \in Replaced : i \in op.start + 1 .. op.end}) <= 1]_vars
=============================================================================
