------------------------------ MODULE Exchange ------------------------------
(***************************************************************************)
(* RuleExchange: rules as a table of comma or tab separated fields.        *)
(*                                                                         *)
(* The parser is the loop of parseDelimited, one action per branch; what   *)
(* it must compute is stated apart from it, as a grammar (Table).  After   *)
(* it comes the import, row by row and then as a whole; the export is a    *)
(* function.                                                               *)
(*                                                                         *)
(* A text is a sequence of symbols.  The characters that the code treats   *)
(* specially are symbols of their own; a name or a value of which only the *)
(* whole matters (a column's name, "true") is one symbol too.  Five        *)
(* columns are left out: caseSensitive is read like enabled, pathGlobs     *)
(* like languages and description as it is, but matchMode becomes          *)
(* "wholeWord" where it is empty and an extension in fileExtensions gets   *)
(* the dot it lacks, so for these two a table may say less than a draft.   *)
(***************************************************************************)
EXTENDS RuleDocument

CONSTANTS
  Symbol,       \* what texts are made of
  Delimiter,    \* comma or tab
  Lower,        \* symbols that case folding changes, and into what
  Objects,      \* texts that are JSON objects
  Numerals,     \* "2", "3", ... for an id that exists
  Supported,    \* activations RuleStore knows
  Drafts,       \* drafts that are opened, and exported by someone
  Tables,       \* texts that are imported into any draft
  Texts,        \* bound of the model: texts that are only imported into an empty one
  MaxRules      \* bound on the rules of a draft that is imported into

VARIABLES
  draft,        \* items and groups
  phase,        \* what importDelimited is doing
  mode,         \* "append" or "replace"
  text, source, \* the text and, if it was exported, from what
  index, quoted, fieldStarted, quoteClosed, field, row, rows,
  rowIndex, imported

parser == <<index, quoted, fieldStarted, quoteClosed, field, row, rows>>
vars == <<draft, phase, mode, text, source, parser, rowIndex, imported>>

Quote == "\""
Cr == "CR"
Lf == "LF"
Bom == "BOM"
Bar == "|"
Apostrophe == "'"
LineEnds == {Cr, Lf}
Whitespace == {" ", "\t"} \cup LineEnds
FormulaSigns == {"=", "+", "-", "@"}
Immediate == <<"immediate">>
Default == <<<<"space">>, <<"enter">>, <<"tab">>>>
True == <<"true">>
False == <<"false">>
TrueWords == {True, <<"1">>, <<"yes">>, <<"on">>}
FalseWords == {False, <<"0">>, <<"no">>, <<"off">>}
NoSource == [items |-> <<>>, safe |-> TRUE]

ColumnNames ==
  <<"id", "enabled", "trigger", "replacement", "group", "activation", "languages", "extrajson">>

Text == Seq(Symbol)
Rule == [id : Text, enabled : BOOLEAN, trigger : Text, replacement : Text, group : Text,
         activation : Seq(Text), languages : Seq(Text), extra : Text]

ASSUME ExchangeConstants ==
  /\ {Quote, Bom, Bar, Apostrophe} \cup Whitespace \subseteq Symbol
  /\ ToSet(ColumnNames) \cup {"true", "false", "1", "0", "space", "enter", "tab"} \subseteq Symbol
  /\ {"import", "NUL"} \subseteq Symbol /\ Numerals \in Seq(Symbol)
  /\ Delimiter \in {",", "\t"} /\ Delimiter \in Symbol
  /\ Lower \in [DOMAIN Lower -> Symbol]
  /\ DOMAIN Lower \cap (ToSet(ColumnNames) \cup {"true", "false"}) = {}
  /\ \A d \in Drafts :
       /\ d.items \in Seq(Rule) /\ d.groups \in Seq([id : Text, name : Text, enabled : BOOLEAN])
       /\ NoGroup \notin GroupIds(d.groups) /\ DistinctGroups(d.groups)
  /\ Tables \cup Texts \subseteq Text

-----------------------------------------------------------------------------
\* Texts.

\* The elements of s at the positions in kept.
Only(s, kept) ==
  LET upto[n \in 0 .. Len(s)] ==
        IF n = 0 THEN <<>>
        ELSE IF n \in kept THEN Append(upto[n - 1], s[n]) ELSE upto[n - 1]
  IN upto[Len(s)]

\* The pieces of s between the positions in cuts.
Pieces(s, cuts) ==
  LET upto[n \in 0 .. Len(s)] ==
        IF n = 0 THEN <<<<>>>>
        ELSE LET pieces == upto[n - 1]
             IN IF n \in cuts THEN Append(pieces, <<>>)
                ELSE [pieces EXCEPT ![Len(pieces)] = Append(pieces[Len(pieces)], s[n])]
  IN upto[Len(s)]

Has(s, symbols) == \E i \in DOMAIN s : s[i] \in symbols

\* trimAscii
Trim(s) ==
  LET ink == {i \in DOMAIN s : s[i] \notin Whitespace}
  IN IF ink = {} THEN <<>> ELSE SubSeq(s, Min(ink), Max(ink))

\* foldAscii
Fold(s) == [i \in DOMAIN s |-> IF s[i] \in DOMAIN Lower THEN Lower[s[i]] ELSE s[i]]

\* splitList
Split(s) ==
  LET pieces == Pieces(s, {i \in DOMAIN s : s[i] = Bar})
      values == [n \in DOMAIN pieces |-> Trim(pieces[n])]
  IN Only(values, {n \in DOMAIN values : values[n] # <<>>})

\* joinJsonArray: no bar before the first value that is not empty.
Join(list) ==
  FlattenSeq([n \in DOMAIN list |->
                (IF \A m \in 1 .. n - 1 : list[m] = <<>> THEN <<>> ELSE <<Bar>>) \o list[n]])

-----------------------------------------------------------------------------
\* The grammar.  Quotes come in twos: a line end or a delimiter is one outside
\* quotes, when the number of quotes before it is even.

Quotes(s, i) == Cardinality({j \in 1 .. i - 1 : s[j] = Quote})
Inside(s, i) == Quotes(s, i) % 2 = 1

Body(t) == IF t # <<>> /\ t[1] = Bom THEN Tail(t) ELSE t

LineCuts(t) == {i \in DOMAIN t : t[i] \in LineEnds /\ ~Inside(t, i)}
FieldCuts(line) == {i \in DOMAIN line : line[i] = Delimiter /\ ~Inside(line, i)}
Lines(t) == Pieces(t, LineCuts(t))
Fields(line) == Pieces(line, FieldCuts(line))

\* A field is bare, without quotes, or wrapped in quotes with pairs inside.
Bare(f) == ~Has(f, {Quote})
Inner(f) == SubSeq(f, 2, Len(f) - 1)
InPairs(s) ==
  \A i \in DOMAIN s : s[i] = Quote /\ ~Inside(s, i) => i < Len(s) /\ s[i + 1] = Quote
Wrapped(f) ==
  /\ Len(f) >= 2 /\ f[1] = Quote /\ f[Len(f)] = Quote
  /\ InPairs(Inner(f))

\* Every second quote of a wrapped field's pairs is dropped.
Undoubled(s) == Only(s, {i \in DOMAIN s : ~(s[i] = Quote /\ Inside(s, i))})

Value(f) == IF Bare(f) THEN f ELSE Undoubled(Inner(f))
Values(line) == LET fields == Fields(line) IN [n \in DOMAIN fields |-> Value(fields[n])]

Regular(line) == \A f \in ToSet(Fields(line)) : Bare(f) \/ Wrapped(f)
WellFormed(t) == \A line \in ToSet(Lines(Body(t))) : Regular(line)

\* The rows of values; a row of one empty value is none (the one between CR and
\* LF, too).
RowsOf(lines) ==
  LET table == [l \in DOMAIN lines |-> Values(lines[l])]
  IN Only(table, {l \in DOMAIN table : table[l] # <<<<>>>>})

Table(t) == RowsOf(Lines(Body(t)))

-----------------------------------------------------------------------------
\* exportDelimited.

Risky(v) ==
  LET ink == {i \in DOMAIN v : v[i] \notin Whitespace}
  IN ink # {} /\ v[Min(ink)] \in FormulaSigns

SpreadsheetCell(v, safe) == IF safe /\ Risky(v) THEN <<Apostrophe>> \o v ELSE v

Doubled(v) == FlattenSeq([i \in DOMAIN v |-> IF v[i] = Quote THEN <<Quote, Quote>> ELSE <<v[i]>>])

\* MUTANT of QuoteField: a line break alone is not quoted.
QuoteFieldOnLine(v) ==
  IF Has(v, {Delimiter, Quote}) THEN <<Quote>> \o Doubled(v) \o <<Quote>> ELSE v

QuoteField(v) ==
  IF Has(v, {Delimiter, Quote} \cup LineEnds) THEN <<Quote>> \o Doubled(v) \o <<Quote>> ELSE v

Cells(item) ==
  <<item.id, IF item.enabled THEN True ELSE False, item.trigger, item.replacement,
    item.group, Join(item.activation), Join(item.languages), item.extra>>

\* appendRow
Line(values, safe) ==
  FlattenSeq([n \in DOMAIN values |->
                (IF n = 1 THEN <<>> ELSE <<Delimiter>>)
                  \o QuoteField(SpreadsheetCell(values[n], safe))]) \o <<Cr, Lf>>

ColumnLine == [n \in DOMAIN ColumnNames |-> <<ColumnNames[n]>>]

Exported(items, safe) ==
  <<Bom>> \o Line(ColumnLine, safe)
          \o FlattenSeq([k \in DOMAIN items |-> Line(Cells(items[k]), safe)])

-----------------------------------------------------------------------------
\* What importDelimited makes of the rows.

Header == [n \in DOMAIN rows[1] |-> Fold(Trim(rows[1][n]))]

\* headerIndex, and the columns that have to be there.
HeaderOK ==
  /\ rows # <<>>
  /\ \A m, n \in DOMAIN Header : Header[m] # <<>> /\ (Header[m] = Header[n] => m = n)
  /\ {<<"trigger">>, <<"replacement">>} \subseteq ToSet(Header)

\* cell: empty when there is no such column, or the row is too short.
Cell(r, name) ==
  LET at == {n \in DOMAIN Header \cap DOMAIN r : Header[n] = <<name>>}
  IN IF at = {} THEN <<>> ELSE r[CHOOSE n \in at : TRUE]

Ids(items) == {items[i].id : i \in DOMAIN items}

\* existingIds
ExistingIds == (IF mode = "append" THEN Ids(draft.items) ELSE {}) \cup Ids(imported)

\* makeImportId; the hash of trigger and replacement is the two of them.
MakeImportId(r) ==
  LET base == <<"import">> \o Cell(r, "trigger") \o <<"NUL">> \o Cell(r, "replacement")
      free == {n \in DOMAIN Numerals : Append(base, Numerals[n]) \notin ExistingIds}
  IN IF base \notin ExistingIds THEN base ELSE Append(base, Numerals[Min(free)])

RowId(r) == IF Cell(r, "id") = <<>> THEN MakeImportId(r) ELSE Cell(r, "id")

\* parseBoolean
Word(v) == Fold(Trim(v))
IsBoolean(v) == Word(v) \in {<<>>} \cup TrueWords \cup FalseWords
Boolean(v, default) == IF Word(v) = <<>> THEN default ELSE Word(v) \in TrueWords

Activation(v) ==
  LET names == IF v = <<>> THEN Default ELSE Split(v)
  IN [n \in DOMAIN names |-> Fold(names[n])]

RuleOfRow(r) ==
  [id |-> RowId(r),
   enabled |-> Boolean(Cell(r, "enabled"), TRUE),
   trigger |-> Cell(r, "trigger"),
   replacement |-> Cell(r, "replacement"),
   group |-> Trim(Cell(r, "group")),
   activation |-> Activation(Cell(r, "activation")),
   languages |-> Split(Cell(r, "languages")),
   extra |-> Trim(Cell(r, "extrajson"))]

Empty(r) == Cell(r, "trigger") = <<>> /\ Cell(r, "replacement") = <<>>

RowOK(r) ==
  /\ Cell(r, "trigger") # <<>> /\ Cell(r, "replacement") # <<>>
  /\ RowId(r) \notin ExistingIds
  /\ Trim(Cell(r, "extrajson")) \in Objects \cup {<<>>}
  /\ IsBoolean(Cell(r, "enabled"))

\* RuleStore accepts the draft.
Accepted(d) ==
  /\ Valid([groups |-> d.groups,
            items |-> [i \in DOMAIN d.items |->
                         [id |-> d.items[i].id, trigger |-> d.items[i].trigger,
                          immediate |-> Immediate \in ToSet(d.items[i].activation)]]])
  /\ \A i \in DOMAIN d.items :
       /\ d.items[i].trigger = Trim(d.items[i].trigger)
       /\ d.items[i].replacement # <<>>
       /\ ToSet(d.items[i].activation) \cap Supported # {}

Merged ==
  [items |-> (IF mode = "replace" THEN <<>> ELSE draft.items) \o imported,
   groups |-> WithGroups(draft.groups, imported)]

-----------------------------------------------------------------------------
Idle ==
  /\ phase = "idle" /\ mode = "append"
  /\ text = <<>> /\ source = NoSource
  /\ index = 1 /\ quoted = FALSE /\ fieldStarted = FALSE /\ quoteClosed = FALSE
  /\ field = <<>> /\ row = <<>> /\ rows = <<>>
  /\ rowIndex = 1 /\ imported = <<>>

Init == draft \in Drafts /\ Idle

\* Another draft is opened.
Open(d) ==
  /\ phase = "idle"
  /\ draft' = d
  /\ UNCHANGED <<phase, mode, text, source, parser, rowIndex, imported>>

\* A file is read, and parsed from behind its mark.
Read(t, from, m) ==
  /\ phase' = "parsing"
  /\ mode' = m
  /\ text' = t /\ source' = from
  /\ index' = IF t # <<>> /\ t[1] = Bom THEN 2 ELSE 1
  /\ UNCHANGED <<draft, quoted, fieldStarted, quoteClosed, field, row, rows, rowIndex, imported>>

Choosing == phase = "idle" /\ Len(draft.items) <= MaxRules

ReadText(m) ==
  /\ Choosing
  /\ \E t \in Tables \cup (IF draft.items = <<>> THEN Texts ELSE {}) : Read(t, NoSource, m)

ReadExported(m) ==
  /\ Choosing
  /\ \E d \in Drafts, safe \in BOOLEAN :
       Read(Exported(d.items, safe), [items |-> d.items, safe |-> safe], m)

-----------------------------------------------------------------------------
\* parseDelimited: what it does with the character at index.

Character == text[index]
Looking == phase = "parsing" /\ index <= Len(text)
Follows(c) == index < Len(text) /\ text[index + 1] = c

Fail(as) ==
  /\ phase' = as
  /\ UNCHANGED <<draft, mode, text, source, parser, rowIndex, imported>>

ReadOn == UNCHANGED <<draft, phase, mode, text, source, rowIndex, imported>>

DoubledQuote ==
  /\ Looking /\ quoted
  /\ Character = Quote /\ Follows(Quote)
  /\ field' = Append(field, Quote)
  /\ index' = index + 2
  /\ UNCHANGED <<quoted, fieldStarted, quoteClosed, row, rows>>
  /\ ReadOn

ClosingQuote ==
  /\ Looking /\ quoted
  /\ Character = Quote /\ ~Follows(Quote)
  /\ quoted' = FALSE
  /\ quoteClosed' = TRUE
  /\ index' = index + 1
  /\ UNCHANGED <<fieldStarted, field, row, rows>>
  /\ ReadOn

QuotedCharacter ==
  /\ Looking /\ quoted
  /\ Character # Quote
  /\ IF Character = Cr /\ Follows(Lf)
     THEN field' = field \o <<Cr, Lf>> /\ index' = index + 2
     ELSE field' = Append(field, Character) /\ index' = index + 1
  /\ UNCHANGED <<quoted, fieldStarted, quoteClosed, row, rows>>
  /\ ReadOn

\* A closing quote ends its field.
AfterQuote == quoteClosed /\ Character \notin {Delimiter} \cup LineEnds

CharacterAfterQuote ==
  /\ Looking /\ ~quoted
  /\ AfterQuote
  /\ Fail("malformed")

Outside == Looking /\ ~quoted /\ ~AfterQuote

QuoteInField ==
  /\ Outside
  /\ Character = Quote /\ fieldStarted
  /\ Fail("malformed")

OpeningQuote ==
  /\ Outside
  /\ Character = Quote /\ ~fieldStarted
  /\ quoted' = TRUE
  /\ fieldStarted' = TRUE
  /\ index' = index + 1
  /\ UNCHANGED <<quoteClosed, field, row, rows>>
  /\ ReadOn

\* MUTANT of FieldEnd: quoteClosed is left for the next field.
FieldEndStillClosed ==
  /\ Outside
  /\ Character = Delimiter
  /\ row' = Append(row, field)
  /\ field' = <<>>
  /\ fieldStarted' = FALSE
  /\ index' = index + 1
  /\ UNCHANGED <<quoted, quoteClosed, rows>>
  /\ ReadOn

FieldEnd ==
  /\ Outside
  /\ Character = Delimiter
  /\ row' = Append(row, field)
  /\ field' = <<>>
  /\ fieldStarted' = FALSE
  /\ quoteClosed' = FALSE
  /\ index' = index + 1
  /\ UNCHANGED <<quoted, rows>>
  /\ ReadOn

\* finishRow: a row with nothing in it is dropped.
WithRow == IF row = <<>> /\ field = <<>> THEN rows ELSE Append(rows, Append(row, field))

RowEnd ==
  /\ Outside
  /\ Character \in LineEnds
  /\ rows' = WithRow
  /\ row' = <<>>
  /\ field' = <<>>
  /\ fieldStarted' = FALSE
  /\ quoteClosed' = FALSE
  /\ index' = index + (IF Character = Cr /\ Follows(Lf) THEN 2 ELSE 1)
  /\ UNCHANGED quoted
  /\ ReadOn

PlainCharacter ==
  /\ Outside
  /\ Character \notin {Quote, Delimiter} \cup LineEnds
  /\ field' = Append(field, Character)
  /\ fieldStarted' = TRUE
  /\ index' = index + 1
  /\ UNCHANGED <<quoted, quoteClosed, row, rows>>
  /\ ReadOn

EndInQuotes ==
  /\ phase = "parsing" /\ index > Len(text)
  /\ quoted
  /\ Fail("malformed")

\* The last row need not end with its line.
LastRow ==
  IF fieldStarted \/ quoteClosed \/ field # <<>> \/ row # <<>> THEN WithRow ELSE rows

EndOfText ==
  /\ phase = "parsing" /\ index > Len(text)
  /\ ~quoted
  /\ rows' = LastRow
  /\ phase' = "parsed"
  /\ UNCHANGED <<draft, mode, text, source, index, quoted, fieldStarted, quoteClosed,
                 field, row, rowIndex, imported>>

Parse ==
  \/ DoubledQuote \/ ClosingQuote \/ QuotedCharacter
  \/ CharacterAfterQuote \/ QuoteInField \/ OpeningQuote
  \/ FieldEnd \/ RowEnd \/ PlainCharacter
  \/ EndInQuotes \/ EndOfText

-----------------------------------------------------------------------------
\* importDelimited.

RefuseHeader == phase = "parsed" /\ ~HeaderOK /\ Fail("refused")

AcceptHeader ==
  /\ phase = "parsed"
  /\ HeaderOK
  /\ phase' = "rows"
  /\ rowIndex' = 2
  /\ UNCHANGED <<draft, mode, text, source, parser, imported>>

AtRow == phase = "rows" /\ rowIndex <= Len(rows)

\* MUTANT of SkipRow: half empty rows are skipped, too.
SkipRowHalfEmpty ==
  /\ AtRow
  /\ Cell(rows[rowIndex], "trigger") = <<>> \/ Cell(rows[rowIndex], "replacement") = <<>>
  /\ rowIndex' = rowIndex + 1
  /\ UNCHANGED <<draft, phase, mode, text, source, parser, imported>>

SkipRow ==
  /\ AtRow
  /\ Empty(rows[rowIndex])
  /\ rowIndex' = rowIndex + 1
  /\ UNCHANGED <<draft, phase, mode, text, source, parser, imported>>

RefuseRow == AtRow /\ ~Empty(rows[rowIndex]) /\ ~RowOK(rows[rowIndex]) /\ Fail("refused")

TakeRow ==
  /\ AtRow
  /\ ~Empty(rows[rowIndex])
  /\ RowOK(rows[rowIndex])
  /\ imported' = Append(imported, RuleOfRow(rows[rowIndex]))
  /\ rowIndex' = rowIndex + 1
  /\ UNCHANGED <<draft, phase, mode, text, source, parser>>

AllRead == phase = "rows" /\ rowIndex > Len(rows)
Mergeable == imported # <<>> /\ Accepted(Merged)

RefuseRules == AllRead /\ ~Mergeable /\ Fail("refused")

Forget ==
  /\ phase' = "idle" /\ mode' = "append"
  /\ text' = <<>> /\ source' = NoSource
  /\ index' = 1 /\ quoted' = FALSE /\ fieldStarted' = FALSE /\ quoteClosed' = FALSE
  /\ field' = <<>> /\ row' = <<>> /\ rows' = <<>>
  /\ rowIndex' = 1 /\ imported' = <<>>

\* The draft is the document that was built.
Merge ==
  /\ AllRead
  /\ Mergeable
  /\ draft' = Merged
  /\ Forget

\* The error was shown.
Return ==
  /\ phase \in {"malformed", "refused"}
  /\ Forget
  /\ UNCHANGED draft

Import ==
  \/ RefuseHeader \/ AcceptHeader
  \/ SkipRow \/ RefuseRow \/ TakeRow
  \/ RefuseRules \/ Merge \/ Return

Next ==
  \/ \E d \in Drafts : Open(d)
  \/ \E m \in {"append", "replace"} : ReadText(m) \/ ReadExported(m)
  \/ Parse
  \/ Import

Spec == Init /\ [][Next]_vars

-----------------------------------------------------------------------------
\* The parser finds the rows of the grammar, or an error where there is none: on
\* every text, whatever is quoted, doubled, missing at the end or left empty.
\* (The flags of parseDelimited together; a bug in one of them shows in a few
\* odd texts only.)
ParserIsGrammar ==
  /\ phase \in {"parsed", "rows", "refused"} => WellFormed(text) /\ rows = Table(text)
  /\ phase = "malformed" => ~WellFormed(text)

\* What survives an export: lists without bars, and no outer blanks where the
\* import trims.
ListOK(list) == \A v \in ToSet(list) : v # <<>> /\ v = Trim(v) /\ ~Has(v, {Bar})

Exchangeable(item) ==
  /\ item.id # <<>>
  /\ item.group = Trim(item.group)
  /\ ListOK(item.activation) /\ \A v \in ToSet(item.activation) : v = Fold(v)
  /\ ListOK(item.languages)
  /\ item.extra = Trim(item.extra) /\ item.extra \in Objects \cup {<<>>}

Lossless ==
  /\ source.items # <<>>
  /\ Accepted([items |-> source.items, groups |-> <<>>])
  /\ \A i \in DOMAIN source.items :
       /\ Exchangeable(source.items[i])
       /\ source.safe => \A v \in ToSet(Cells(source.items[i])) : ~Risky(v)

\* The rules of a valid draft, exported and imported in place of any others, are
\* the same rules, whatever separators, quotes and line breaks are in them; and
\* no row of the file is refused.  (exportDelimited against importDelimited.)
ExportIsLossless ==
  [][Lossless /\ mode = "replace" =>
       /\ phase' \notin {"malformed", "refused"}
       /\ AllRead => draft'.items = source.items
    ]_vars

\* The rows of the grammar that have something of a rule in them.
RuleRows ==
  LET behind == Tail(Table(text)) IN Only(behind, {n \in DOMAIN behind : ~Empty(behind[n])})

\* An import adds its rows, all of them and nothing else, behind the rules that
\* stay; ids that the file gives are kept, those it leaves out are new to the
\* draft and to the file; and every group a rule names exists.  (A row that is
\* half empty or takes an id in use fails the whole import, with rows read.)
RowsBecomeRules ==
  [][draft' # draft /\ phase # "idle" =>
       LET kept == IF mode = "append" THEN draft.items ELSE <<>>
           all == draft'.items
       IN /\ Len(all) = Len(kept) + Len(RuleRows)
          /\ IsPrefix(kept, all) /\ IsPrefix(draft.groups, draft'.groups)
          /\ \A i, j \in DOMAIN all : all[i].id = all[j].id => i = j
          /\ \A k \in DOMAIN RuleRows :
               LET r == RuleRows[k]
                   rule == all[Len(kept) + k]
               IN /\ rule.trigger = Cell(r, "trigger")
                  /\ rule.replacement = Cell(r, "replacement")
                  /\ Cell(r, "id") \in {<<>>, rule.id}
                  /\ rule.id # <<>>
                  /\ rule.group \in KnownNames(draft'.groups) \cup {NoGroup}
    ]_vars
=============================================================================
