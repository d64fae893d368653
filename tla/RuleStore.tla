----------------------------- MODULE RuleStore -----------------------------
(***************************************************************************)
(* How RuleStore reads replacements.json, which it does rule by rule and   *)
(* with nothing kept when one is refused, and how it finds the rule for a  *)
(* trigger: through an index of exact and one of folded triggers, capture  *)
(* templates in buckets by their first character, filters and globs.       *)
(*                                                                         *)
(* A trigger is a sequence of letters and capture markers; the marker      *)
(* ${capture:n} is the number n, and 0 one that is malformed.  Letters     *)
(* are ASCII, where normalising a trigger changes nothing.                 *)
(***************************************************************************)
EXTENDS Integers, SequencesExt

CONSTANTS
  Letter,     \* the letters of triggers and paths
  Lower,      \* foldAscii, letter by letter
  Code,       \* the character codes that std::string is ordered by
  Star, One,  \* the wildcards of a glob
  Activation, \* how a rule can be asked for, but for the command
  Immediate,  \* one of them
  Item,       \* the items of files
  GroupList,  \* the groups sections of files
  Nothing,    \* an empty string, a missing field
  Text,       \* the texts that are looked up
  Context,    \* where: the document's extension, language and path
  MaxItems,   \* bound of the model: items in a file
  MaxKept     \* bound of the model: rules in a store that is loaded again

ASSUME RuleStoreConstants ==
  /\ Lower \in [Letter -> Letter] /\ \A c \in Letter : Lower[Lower[c]] = Lower[c]
  /\ {Star, One, Nothing} \cap Letter = {} /\ Star # One
  /\ Letter \cap (0 .. 9) = {}
  /\ Code \in [Letter \cup 0 .. 9 -> Nat] /\ \A c, d \in DOMAIN Code : Code[c] = Code[d] => c = d
  /\ Immediate \in Activation /\ "manual" \notin Activation
  /\ Text \subseteq Seq(Letter) \ {<<>>}
  /\ \A c \in Context : c.path \in Seq(Letter)
  /\ \A it \in Item :
       /\ it.trigger \in Seq(Letter \cup 0 .. 9) \ {<<>>}
       /\ it.globs \subseteq Seq(Letter \cup {Star, One})
       /\ it.activation \subseteq Activation
       /\ {it.enabled, it.sound, it.caseSensitive, it.capture} \subseteq BOOLEAN
  /\ \A gs \in GroupList : \A i \in DOMAIN gs : gs[i].enabled \in BOOLEAN
  /\ MaxItems \in Nat /\ MaxKept \in Nat

VARIABLES
  phase,     \* "ready" or "reading", in loadFromText
  groups,    \* the groups section of the file that is read
  parsed,    \* parsedRules: what has been read of it
  rules,     \* rules_: the rules of the last file that was not refused
  exact,     \* exactIndex_, from triggers to positions in rules
  folded,    \* foldedIndex_
  buckets,   \* captureTemplateBuckets_
  fallback   \* captureTemplateFallback_

store == <<rules, exact, folded, buckets, fallback>>
vars == <<phase, groups, parsed, store>>

Marker == 0 .. 9
NoRule == 0

TypeOK ==
  /\ phase \in {"ready", "reading"}
  /\ groups \in GroupList \cup {<<>>}
  /\ Len(parsed) <= MaxItems /\ Len(rules) <= MaxItems
  /\ \A i \in DOMAIN exact : exact[i] \in DOMAIN rules
  /\ \A i \in DOMAIN folded : folded[i] \in DOMAIN rules
  /\ \A c \in Letter : ToSet(buckets[c]) \subseteq DOMAIN rules
  /\ ToSet(fallback) \subseteq DOMAIN rules

Init ==
  /\ phase = "ready" /\ groups = <<>> /\ parsed = <<>>
  /\ rules = <<>> /\ exact = <<>> /\ folded = <<>>
  /\ buckets = [c \in Letter |-> <<>>] /\ fallback = <<>>

----------------------------------------------------------------------------
(* Capture templates.                                                      *)

Fold(s) == [i \in DOMAIN s |-> IF s[i] \in Letter THEN Lower[s[i]] ELSE s[i]]

Marks(t) == {i \in DOMAIN t : t[i] \in Marker}

\* CapturePattern::compile accepts numbers from 1 to 9, each once, and
\* something between each two of them.
Compiles(t) ==
  /\ Marks(t) # {}
  /\ \A i, j \in Marks(t) : t[i] # 0 /\ (t[i] = t[j] => i = j) /\ i + 1 # j

\* A set of numbers as a list.
Ascending(S) ==
  CHOOSE s \in [1 .. Cardinality(S) -> S] : \A i, j \in DOMAIN s : i < j => s[i] < s[j]

\* Where the k-th marker is; the ends of the trigger count as markers.
MarkAt(t, k) ==
  IF k = 0 THEN 0
  ELSE IF k > Cardinality(Marks(t)) THEN Len(t) + 1 ELSE Ascending(Marks(t))[k]

\* The literal after the k-th marker; the one before the first is the 0-th.
Literal(t, k) == SubSeq(t, MarkAt(t, k) + 1, MarkAt(t, k + 1) - 1)

Number(t, k) == t[MarkAt(t, k)]

At(s, p, lit) == p + Len(lit) <= Len(s) /\ SubSeq(s, p + 1, p + Len(lit)) = lit

\* A case-insensitive rule is compared in lower case.
Compared(r, s) == IF r.caseSensitive THEN s ELSE Fold(s)

\* CapturePattern::match: where each literal ends, -1 if it is not found.  A
\* capture goes to the next occurrence of the literal after it, and is not
\* empty.
Ends(r, text) ==
  LET s == Compared(r, text)
      Lit(k) == Compared(r, Literal(r.trigger, k))
      end[k \in 0 .. Cardinality(Marks(r.trigger))] ==
        IF k = 0 THEN IF At(s, 0, Lit(0)) THEN Len(Lit(0)) ELSE -1
        ELSE LET from == end[k - 1]
                 found == IF Lit(k) = <<>> THEN {Len(s)}
                          ELSE {p \in from .. Len(s) : At(s, p, Lit(k))}
             IN IF from = -1 THEN -1
                ELSE IF found = {} \/ from \in found THEN -1
                ELSE Min(found) + Len(Lit(k))
  IN end

NoMatch == <<>>

\* The texts that are captured, by number.
Match(r, text) ==
  LET n == Cardinality(Marks(r.trigger))
      end == Ends(r, text)
      Length(k) == Len(Literal(r.trigger, k))
  IN IF end[n] # Len(text) THEN NoMatch
     ELSE [c \in {Number(r.trigger, k) : k \in 1 .. n} |->
             LET k == CHOOSE k \in 1 .. n : Number(r.trigger, k) = c
             IN SubSeq(text, end[k - 1] + 1, end[k] - Length(k))]

----------------------------------------------------------------------------
(* Filters.                                                                *)

\* Mutant of GlobMatches: stars left at the end of the pattern do not match.
GlobMatchesUntrimmed(pattern, path) ==
  LET P == Len(pattern)
      V == Len(path)
      Turns == {z \in (0 .. P) \X (0 .. V) \X (-1 .. P) \X (0 .. V) : z[3] < z[1] /\ z[4] <= z[2]}
      loop[z \in Turns] ==
        LET p == z[1]
            v == z[2]
            star == z[3]
            retry == z[4]
        IN IF v = V THEN p = P
           ELSE IF p < P /\ pattern[p + 1] \in {One, path[v + 1]} THEN loop[<<p + 1, v + 1, star, retry>>]
           ELSE IF p < P /\ pattern[p + 1] = Star THEN loop[<<p + 1, v, p, v>>]
           ELSE star # -1 /\ loop[<<star + 1, retry + 1, star, retry + 1>>]
  IN loop[<<0, 0, -1, 0>>]

\* The loop of globMatches: the last star takes one more character whenever
\* the rest of the pattern does not match.  A turn has patternIndex, valueIndex,
\* star and retry, which lie behind them.
GlobMatches(pattern, path) ==
  LET P == Len(pattern)
      V == Len(path)
      Turns == {z \in (0 .. P) \X (0 .. V) \X (-1 .. P) \X (0 .. V) : z[3] < z[1] /\ z[4] <= z[2]}
      loop[z \in Turns] ==
        LET p == z[1]
            v == z[2]
            star == z[3]
            retry == z[4]
        IN IF v = V THEN \A i \in p + 1 .. P : pattern[i] = Star
           ELSE IF p < P /\ pattern[p + 1] \in {One, path[v + 1]} THEN loop[<<p + 1, v + 1, star, retry>>]
           ELSE IF p < P /\ pattern[p + 1] = Star THEN loop[<<p + 1, v, p, v>>]
           ELSE star # -1 /\ loop[<<star + 1, retry + 1, star, retry + 1>>]
  IN loop[<<0, 0, -1, 0>>]

ExtensionMatches(r, c) == r.extensions = {} \/ c.extension \in r.extensions

LanguageMatches(r, c) == r.languages = {} \/ c.language \in r.languages

\* A document without a path matches no rule with globs.
PathMatches(r, c) ==
  r.globs = {} \/ (c.path # <<>> /\ \E g \in r.globs : GlobMatches(g, Fold(c.path)))

FiltersMatch(r, c) == ExtensionMatches(r, c) /\ LanguageMatches(r, c) /\ PathMatches(r, c)

ActivationMatches(r, how) == how = "manual" \/ how \in r.activation

Eligible(r, how, c) ==
  r.enabled /\ r.groupEnabled /\ FiltersMatch(r, c) /\ ActivationMatches(r, how)

----------------------------------------------------------------------------
(* loadFromText.                                                           *)

\* The state of the group with this id or this name: a later one prevails.
GroupEnabled(gs, group) ==
  LET named == {i \in DOMAIN gs : group \in {gs[i].id, gs[i].name}}
  IN group = Nothing \/ named = {} \/ gs[Max(named)].enabled

RuleOf(it) ==
  [id |-> it.id, trigger |-> it.trigger, caseSensitive |-> it.caseSensitive,
   capture |-> it.capture, activation |-> it.activation, extensions |-> it.extensions,
   languages |-> it.languages, globs |-> it.globs, enabled |-> it.enabled,
   groupEnabled |-> GroupEnabled(groups, it.group)]

\* validateReplacement: the captures a replacement refers to ("uses") are
\* those of its trigger.
UsesDefined(it) == it.uses \subseteq {it.trigger[i] : i \in Marks(it.trigger)}

\* The checks of an item by itself.  "sound" stands for those of types, empty
\* strings, white space and sizes.
Acceptable(it) ==
  /\ it.sound
  /\ it.activation # {}
  /\ it.capture => /\ Compiles(it.trigger)
                   /\ UsesDefined(it)
                   /\ Immediate \notin it.activation

\* Mutant of Conflicting: a rule with case is compared to others with case.
ConflictingAlike(r, it) ==
  /\ Fold(r.trigger) = Fold(it.trigger)
  /\ r.trigger = it.trigger \/ (~r.caseSensitive /\ ~it.caseSensitive)

\* Two rules for triggers that differ in case must both be case-sensitive.
Conflicting(r, it) ==
  /\ Fold(r.trigger) = Fold(it.trigger)
  /\ r.trigger = it.trigger \/ ~r.caseSensitive \/ ~it.caseSensitive

Fits(it) ==
  /\ Acceptable(it)
  /\ \A i \in DOMAIN parsed :
       /\ it.id # Nothing => parsed[i].id # it.id
       /\ ~Conflicting(parsed[i], it)

\* startsWithForRule
StartsWith(prefix, r) ==
  /\ Len(prefix.trigger) < Len(r.trigger)
  /\ At(Compared(prefix, r.trigger), 0, Compared(prefix, prefix.trigger))

\* The order of std::string: n characters are the same.
Before(s, t) ==
  \E n \in 0 .. Len(s) :
    /\ n < Len(t) /\ \A i \in 1 .. n : s[i] = t[i]
    /\ n = Len(s) \/ Code[s[n + 1]] < Code[t[n + 1]]

FoldedTrigger(r) == Fold(r.trigger)

\* prefixOrder: the literal triggers sorted; any order of those that are the
\* same but for case.
PrefixOrder(rs) ==
  LET literals == {i \in DOMAIN rs : ~rs[i].capture}
  IN CHOOSE s \in [1 .. Cardinality(literals) -> literals] :
       \A k, l \in DOMAIN s :
         k < l => s[k] # s[l] /\ ~Before(FoldedTrigger(rs[s[l]]), FoldedTrigger(rs[s[k]]))

\* Mutant of PrefixesAllowed: the walk stops at the first trigger that does not
\* begin with this one, case considered.
PrefixesAllowedBreak(rs) ==
  LET order == PrefixOrder(rs)
      r(k) == rs[order[k]]
  IN \A k, l \in DOMAIN order :
       k < l /\ (\A m \in k + 1 .. l : StartsWith(r(k), r(m))) => Immediate \notin r(k).activation

\* No immediate trigger is met with another that begins with it, in a walk that
\* goes on from each one for as long as the next begins with it, but for case.
PrefixesAllowed(rs) ==
  LET order == PrefixOrder(rs)
      r(k) == rs[order[k]]
      Met(k, l) == k < l /\ \A m \in k + 1 .. l : At(FoldedTrigger(r(m)), 0, FoldedTrigger(r(k)))
  IN \A k, l \in DOMAIN order :
       Met(k, l) /\ StartsWith(r(k), r(l)) => Immediate \notin r(k).activation

\* The bucket of a template that begins with a letter.
LeadingByte(t) == IF t[1] \in Letter THEN Lower[t[1]] ELSE Nothing

\* emplace keeps the first of several.
IndexOf(keys) == [k \in Range(keys) |-> Min({i \in DOMAIN keys : keys[i] = k})]

\* Mutant of Build: the buckets of the rules of before are not cleared.
BuildOnBuckets(rs) ==
  LET Literals(cs) == {i \in DOMAIN rs : ~rs[i].capture /\ rs[i].caseSensitive = cs}
      In(key) == Ascending({i \in DOMAIN rs : rs[i].capture /\ LeadingByte(rs[i].trigger) = key})
  IN /\ rules' = rs
     /\ exact' = IndexOf([i \in Literals(TRUE) |-> rs[i].trigger])
     /\ folded' = IndexOf([i \in Literals(FALSE) |-> Fold(rs[i].trigger)])
     /\ buckets' = [c \in Letter |-> buckets[c] \o In(c)]
     /\ fallback' = In(Nothing)

Build(rs) ==
  LET Literals(cs) == {i \in DOMAIN rs : ~rs[i].capture /\ rs[i].caseSensitive = cs}
      In(key) == Ascending({i \in DOMAIN rs : rs[i].capture /\ LeadingByte(rs[i].trigger) = key})
  IN /\ rules' = rs
     /\ exact' = IndexOf([i \in Literals(TRUE) |-> rs[i].trigger])
     /\ folded' = IndexOf([i \in Literals(FALSE) |-> Fold(rs[i].trigger)])
     /\ buckets' = [c \in Letter |-> In(c)]
     /\ fallback' = In(Nothing)

StopReading == phase' = "ready" /\ groups' = <<>> /\ parsed' = <<>>

\* A file is read, with acceptable groups; their ids are distinct.
BeginFile(gs) ==
  /\ phase = "ready"
  /\ Len(rules) <= MaxKept
  /\ \A i, j \in DOMAIN gs : gs[i].id # Nothing /\ (gs[i].id = gs[j].id => i = j)
  /\ phase' = "reading" /\ groups' = gs /\ parsed' = <<>>
  /\ UNCHANGED store

ReadItem(it) ==
  /\ phase = "reading"
  /\ Len(parsed) < MaxItems
  /\ Fits(it)
  /\ parsed' = Append(parsed, RuleOf(it))
  /\ UNCHANGED <<phase, groups, store>>

\* An item that does not fit throws, and the store stays what it was.
RefuseItem(it) ==
  /\ phase = "reading"
  /\ Len(parsed) < MaxItems
  /\ ~Fits(it)
  /\ StopReading
  /\ UNCHANGED store

\* The end of the file.
EndFile ==
  /\ phase = "reading"
  /\ PrefixesAllowed(parsed)
  /\ Build(parsed)
  /\ StopReading

RefuseFile ==
  /\ phase = "reading"
  /\ ~PrefixesAllowed(parsed)
  /\ StopReading
  /\ UNCHANGED store

\* A new RuleStore, as for a draft that is validated.
NewStore ==
  /\ phase = "ready"
  /\ rules' = <<>> /\ exact' = <<>> /\ folded' = <<>>
  /\ buckets' = [c \in Letter |-> <<>>] /\ fallback' = <<>>
  /\ UNCHANGED <<phase, groups, parsed>>

Next ==
  \/ \E gs \in GroupList : BeginFile(gs)
  \/ \E it \in Item : ReadItem(it) \/ RefuseItem(it)
  \/ EndFile \/ RefuseFile \/ NewStore

Spec == Init /\ [][Next]_vars

----------------------------------------------------------------------------
(* Looking rules up.                                                       *)

\* findIndexed, for find, findImmediate and findManual.
FindIndexed(text, how, c) ==
  IF text \in DOMAIN exact /\ Eligible(rules[exact[text]], how, c) THEN exact[text]
  ELSE IF Fold(text) \in DOMAIN folded /\ Eligible(rules[folded[Fold(text)]], how, c)
  THEN folded[Fold(text)] ELSE NoRule

\* Mutant of Merged: the bucket comes before the templates without a letter.
MergedInTurn(bucket, rest) == bucket \o rest

\* The two lists in the order of the file: each turn takes the next position of
\* the one or the other; "taken" is how many are of the bucket after n turns.
Merged(bucket, rest) ==
  LET N == Len(bucket) + Len(rest)
      taken[n \in 0 .. N] ==
        IF n = 0 THEN 0
        ELSE LET own == taken[n - 1]
                 other == n - 1 - own
                 useBucket ==
                   own < Len(bucket) /\ (other >= Len(rest) \/ bucket[own + 1] < rest[other + 1])
             IN IF useBucket THEN own + 1 ELSE own
  IN [n \in 1 .. N |-> IF taken[n - 1] < taken[n] THEN bucket[taken[n]] ELSE rest[n - taken[n]]]

\* findCaptureTemplate: the first in turn that is eligible and matches.
FindCapture(text, how, c) ==
  LET asked == Merged(buckets[Lower[text[1]]], fallback)
      taking == {n \in DOMAIN asked : /\ Eligible(rules[asked[n]], how, c)
                                      /\ Match(rules[asked[n]], text) # NoMatch}
  IN IF taking = {} THEN NoRule ELSE asked[Min(taking)]

\* What the plugin expands: a literal rule first, and no template on the fly.
Lookup(text, how, c) ==
  LET literal == FindIndexed(text, how, c)
  IN IF literal # NoRule \/ how = Immediate THEN literal ELSE FindCapture(text, how, c)

TriggerMatches(r, text) ==
  IF r.capture THEN Match(r, text) # NoMatch ELSE Compared(r, r.trigger) = Compared(r, text)

\* The reasons diagnose gives for a rule.
Blockers(r, how, c) ==
  {b \in {"rule", "group", "activation", "extension", "path", "language"} :
     \/ b = "rule" /\ ~r.enabled
     \/ b = "group" /\ ~r.groupEnabled
     \/ b = "activation" /\ ~ActivationMatches(r, how)
     \/ b = "extension" /\ ~ExtensionMatches(r, c)
     \/ b = "path" /\ ~PathMatches(r, c)
     \/ b = "language" /\ ~LanguageMatches(r, c)}

\* Mutant of Diagnose: the templates are not asked for the command's sake.
DiagnoseTyped(text, how, c) ==
  LET literal == FindIndexed(text, how, c)
      chosen == IF literal # NoRule \/ how = "manual" THEN literal ELSE FindCapture(text, how, c)
      matching == {i \in DOMAIN rules : TriggerMatches(rules[i], text)}
      blocked == {i \in matching : ~Eligible(rules[i], how, c)}
      first == {i \in blocked : \A j \in blocked : i <= j}
  IN [matched |-> chosen,
      eligible |-> Cardinality(matching \ blocked),
      blockers |-> IF matching = {} THEN {"trigger"}
                   ELSE UNION {Blockers(rules[i], how, c) : i \in {j \in first : chosen = NoRule}}]

\* diagnose: the reasons are those of the first rule that is blocked, if none
\* is found.
Diagnose(text, how, c) ==
  LET literal == FindIndexed(text, how, c)
      chosen == IF literal # NoRule THEN literal ELSE FindCapture(text, how, c)
      matching == {i \in DOMAIN rules : TriggerMatches(rules[i], text)}
      blocked == {i \in matching : ~Eligible(rules[i], how, c)}
      first == {i \in blocked : \A j \in blocked : i <= j}
  IN [matched |-> chosen,
      eligible |-> Cardinality(matching \ blocked),
      blockers |-> IF matching = {} THEN {"trigger"}
                   ELSE UNION {Blockers(rules[i], how, c) : i \in {j \in first : chosen = NoRule}}]

----------------------------------------------------------------------------
\* A store that can be asked, in every way a text is looked up.
Queries == {<<text, how, c>> : text \in Text, how \in Activation \cup {"manual"}, c \in Context}

ForQueries(P(_, _, _)) == phase = "ready" => \A q \in Queries : P(q[1], q[2], q[3])

\* The two indexes, of which one is asked only if the other has no eligible
\* rule, find what a search of all literal rules would, and there is never a
\* second rule it could have found.
SearchFinds(text, how, c) ==
  {i \in DOMAIN rules : /\ ~rules[i].capture
                        /\ Compared(rules[i], rules[i].trigger) = Compared(rules[i], text)
                        /\ Eligible(rules[i], how, c)}

FindIsSearch ==
  ForQueries(LAMBDA text, how, c : SearchFinds(text, how, c) = {FindIndexed(text, how, c)} \ {NoRule})

\* How a text can be cut up as a template says, by where each literal ends: no
\* capture is empty or goes beyond the first occurrence of the literal after it.
Extractions(r, text) ==
  LET n == Cardinality(Marks(r.trigger))
      s == Compared(r, text)
      Lit(k) == Compared(r, Literal(r.trigger, k))
  IN {cut \in [0 .. n -> 0 .. Len(text)] :
        /\ At(s, 0, Lit(0)) /\ cut[0] = Len(Lit(0))
        /\ cut[n] = Len(text)
        /\ \A k \in 1 .. n :
             /\ cut[k - 1] < cut[k] - Len(Lit(k))
             /\ At(s, cut[k] - Len(Lit(k)), Lit(k))
             /\ Lit(k) # <<>> => \A p \in cut[k - 1] .. cut[k] - Len(Lit(k)) - 1 : ~At(s, p, Lit(k))}

\* "If several capture templates match, the first one in the file is used",
\* although they are in buckets, and a template matches when the text can be
\* cut up as it says.
CaptureIsFirst ==
  ForQueries(LAMBDA text, how, c :
    LET all == {i \in DOMAIN rules :
                  /\ rules[i].capture
                  /\ Eligible(rules[i], how, c)
                  /\ Extractions(rules[i], text) # {}}
    IN FindCapture(text, how, c) = IF all = {} THEN NoRule ELSE Min(all))

\* A glob matches when its stars stand for some texts: it says where in the text
\* each of its characters ends.
Cuts(g, s) ==
  {cut \in [0 .. Len(g) -> 0 .. Len(s)] :
     /\ cut[0] = 0 /\ cut[Len(g)] = Len(s)
     /\ \A k \in 1 .. Len(g) :
          /\ cut[k - 1] <= cut[k]
          /\ g[k] # Star => cut[k] = cut[k - 1] + 1 /\ g[k] \in {One, s[cut[k]]}}

GlobsAreRight ==
  phase = "ready" =>
    \A i \in DOMAIN rules : \A g \in rules[i].globs : \A c \in Context :
      GlobMatches(g, Fold(c.path)) <=> Cuts(g, Fold(c.path)) # {}

\* The rule tester shows what the plugin does: the same rule, one exactly if
\* some rule is eligible, and otherwise a reason.
DiagnosisAgrees ==
  ForQueries(LAMBDA text, how, c : \A d \in {Diagnose(text, how, c)} :
    /\ d.matched = Lookup(text, how, c)
    /\ d.matched # NoRule <=> d.eligible > 0
    /\ d.blockers = {} <=> d.matched # NoRule)

\* Typed letter by letter, the text of a literal rule is complete before a
\* rule that is immediate replaces its beginning; only an immediate rule with
\* case may cut off a rule without (startsWithForRule compares with the case of
\* the prefix alone, see the README).
PrefixesAreCaught ==
  ForQueries(LAMBDA text, how, c :
    \A i \in DOMAIN rules : ~rules[i].capture /\ TriggerMatches(rules[i], text) =>
      \A n \in 1 .. Len(text) - 1 : \A p \in {FindIndexed(SubSeq(text, 1, n), Immediate, c)} :
        p # NoRule => rules[p].caseSensitive /\ ~rules[i].caseSensitive)
=============================================================================
