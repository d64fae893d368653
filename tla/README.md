# NppQuickReplace in TLA+

NppQuickReplace is a Notepad++ plugin that replaces a trigger the user types
(`;date`, `btw`) with the text a rule gives for it. It is a DLL in the Notepad++
process: it has no threads of its own, everything runs on the UI thread, in
callbacks of the host, in window procedures and in a thread timer. What makes it
concurrent is that **several Notepad++ processes share one data directory**
(`config.json`, `replacements.json`, `backups/`, `package-backups/`), that other
programs edit those files too, and that message boxes run message loops inside
handlers, so that timers and modeless windows run in the middle of them.

This directory holds TLA+ modules of the parts where that can go wrong, TLC
runs over small instances of them, and TLAPS proofs of the main results for every
value of the constants.

## 1. Inventory

| Component (source in `src/src`) | State | Operations | Interacts with |
|---|---|---|---|
| **ConfigStore** (`ConfigStore.*`) | the files of the data directory, the named mutex, temporary files | create missing files, load and save `config.json`, read, atomic write, atomic write if unchanged, stamp, back up, list and prune backups | every component that reads or writes a file; other processes through the mutex |
| **RuleManager** (`RuleManager.*`) | the draft document, `dirty_`, `loadedContentHash_`, `loadedFileStamp_`, `externalChangeDetected_`, selection, sort, search | load, edit, add, duplicate, delete, (de)activate, import and export, manage groups, save (with backup and conflict dialog), draft copy, restore a backup, reload, poll timer, close | ConfigStore; RuleStore validates each draft; a save calls back into Plugin |
| **GroupManager** (`GroupManager.*`) | a copy of the draft, a list of groups | rename, enable, delete groups; apply to the rules | modal, owned by RuleManager |
| **SettingsManager** (`SettingsManager.*`) | the controls, `saved_`, `dirty_` | open with a snapshot of `gConfig`, edit, save, export and import packages | ConfigStore, DataPackage; calls back into Plugin |
| **DataPackage** (`DataPackage.*`) | a recovery directory per import | export both files to one; import: validate, copy, write two files, roll the first one back | ConfigStore, RuleStore |
| **Plugin** (`Plugin.cpp`) | `gConfig`, `gConfigValid`, `gRules`, `gRulesStamp`, the reload timer, paused buffers, extension cache, the tabstop session | start, load rules (or a backup of them), watch the file, reload, toggle, pause, replace on a character, on paste, by command and at several carets, navigate tabstops, shut down | all of the above; Scintilla |
| **RuleStore** (`RuleStore.*`) | rules, groups, indexes | parse and validate, find by trigger, by capture template, diagnose | Plugin, RuleManager, RuleTester, RuleExchange, DataPackage |
| **CapturePattern**, **SnippetTemplate** | none (pure) | compile, match; parse cursor and tabstop marks | RuleStore, Plugin |
| **RuleExchange** (`RuleExchange.*`) | none (pure) | CSV/TSV to rules and back | RuleManager |
| **RuleTester** (`RuleTester.*`) | a read-only view | diagnose a trigger against the draft | RuleManager, RuleStore |
| **Localization** | the language | look strings up | all windows |
| scripts, tests | - | build, install, sign, smoke tests, unit tests | - |

What is hard about them, and what makes each correct:

* **Writing `replacements.json`**: several processes; a mutex that can time out or be
  abandoned by a crash; temporary file, flush, replacement, each of which can fail;
  a comparison before the replacement. Correct when no save silently overwrites what
  it was not based on, a torn file is never moved into place, what a save replaces has
  been backed up, the mutex is always given up, and a window that does not look
  changed shows what is saved.
* **Loading rules**: at start, by command, after a manager's save, after an import and
  by timer, nested inside one another by message boxes. Correct when the last valid
  rules are never lost, a change that the stamp shows is loaded, and the timer
  lives no longer than the plugin is ready.
* **`config.json`**: read-merge-write outside the mutex, snapshots in the settings
  window, defaults in memory when it is broken. Correct when unknown fields
  survive, what runs is what is saved, defaults never overwrite a file that was
  only unreadable, and no exception reaches the host.
* **Package import**: two files, one write each, with a rollback.
* **Editing**: positions of tabstops and of several carets while text is replaced.
* **The rule manager's draft**: rows, marks and the shown rule are positions in lists that are
  sorted, filtered, shortened and replaced, by commands, by a timer behind message boxes and by a
  modal window over the draft. Correct when a position still means the rule it was taken for, so
  that no command reaches a rule it was not asked about.
* **Groups**: tied to rules by nothing but an id the user may change.
* **Lookup, globs, capture templates, CSV**: hand-written algorithms that need a
  reference definition.

`PROJECT.json` lists every hazard at its line.

## 2. Modules

| Module | Models | Theorems |
|---|---|---|
| `RuleRegister` | what saving promises: a compare-and-set register | |
| `RuleFile` | `replacements.json`: ConfigStore's write protocol, the manager's load, save, conflict, restore, draft copy, poll | `RuleFileProofs` |
| `RuleReload` | `gRules`: loading, recovery from backups, the reload timer | `RuleReloadProofs` |
| `DataDirectory` | what `ConfigFile` and `DataPackage` share: processes, missing files, file errors | |
| `ConfigFile`, on top of `DataDirectory` | `config.json` and `gConfig`: loading, toggle, settings window, import | `DataDirectoryProofs` |
| `Expansion`, on top of `SnippetTemplate` | the document: replacing at one caret and at several, the tabstop session; the marks in a replacement | `ExpansionProofs` |
| `RuleStore` | reading and checking `replacements.json`, the indexes, lookup, capture templates, filters, globs, diagnosis | `RuleStoreProofs` |
| `DataPackage`, on top of `DataDirectory` | both files exported to a package and imported from it, with recovery copies and rollback | `DataDirectoryProofs` |
| `RuleDocument` | a draft as the windows and an import see it: rules, groups, when RuleStore accepts them, groups an import brings | |
| `GroupManager`, on top of `RuleDocument` | the modal group window over a copy of the draft | in `RuleDraftProofs` |
| `RuleDraft`, on top of `GroupManager` | the rule manager's window: list, marks, fields, commands, search timer, with the group window in front of it | `RuleDraftProofs` |
| `Exchange`, on top of `RuleDocument` | `RuleExchange`: the CSV/TSV parser, import, export | `ExchangeProofs` |
| `ListLemmas` | nothing of the code: facts about numbers, finite sets, lists and recursive functions that the proofs share | |
| `MCRuleFile`, `MCRuleReload`, `MCConfigFile`, `MCExpansion`, `MCRuleStore`, `MCDataPackage`, `MCRuleDraft`, `MCExchange` | instances for TLC | |

### RuleFile

One action per step of a handler between two points where another process can act.
`pc[p]` is where the UI thread of process `p` is: a save goes through
`SaveStart` (backup, `RuleManager.cpp` 989), `Acquire` or `Timeout` (the mutex, two seconds),
`Compare` or `Conflict` (the content's hash), `CreateTemp`, `FinishTemp`,
`PutInPlace` or `WriteFails`, and `StampSaved` (the new stamp, read after the mutex
was released). `backups` is in the order of the write times, newest first, which is the order of
`replacementBackupsNewestFirst`: `Backup` puts the copy where the file's time belongs and drops the last when there
are more than `MaxBackups`. `age` is what matters of the file's time: newer than every backup, that of the newest
(`"copied"`), or any, after another program has put a file of any age in place. `copied` is a history of what saves have
copied. Restore, package import and the draft copy run the same write
without the comparison; restore and import end in a reload. `PollStamp` and `PollRead`
or `PollReadFails` are the poll timer. `Crash` can happen in every state: it leaves the mutex
abandoned if the process held it and the temporary file where it was. `ForeignWrite` is any
program that does not know the mutex.

Contents are model values: `Document` those the manager can load, `Dump[d]` what it
writes for the document it got from `d` (it re-serialises), `Broken` those it
refuses. The hash of a content is the content: collisions of the 64-bit hash are not
modelled. A stamp is whether the file was written since.

`RuleRegister` is the specification a user has in mind: a value, and for each process
the value it has seen; a store succeeds only on the value last seen. `IsRegister`
says that `RuleFile`, with its mutex, comparison, temporary files and crashes, is
one: its step is `PutInPlace`, everything else stutters or is a load. With
restores and imports, which do not compare, and with foreign writers, these are
the register's blind writes.

### RuleReload

Each Notepad++ process starts, creates the missing file, loads the configuration and the
rules and arms the timer; the file is replaced in one step here (RuleFile has the
detail). `loadRules` is `LoadPrimary`, then `LoadBackup` for each backup from the
newest, `NoBackup`; a message box (`box`, `failbox`) lets the timer and a save of
the modeless manager run inside (`NestedSave`), `Dismiss` continues, `UpdateRulesStamp` takes the
stamp, `Finish` returns to the command. The timer callback is `TimerStamp`,
`TimerRead`, `TimerSwap`, or `TimerStampFails`; the disk may change between each two. `Shutdown` is NPPN_SHUTDOWN;
when `config.json` is one over which saving throws (`"odd"`, section 4), it is `ShutdownThrows`, which leaves the
timer and `gReady` as they are until `EndProcess`. A stamp is "current",
"old" or that of a missing file: two files with the same size and write time are not
modelled.

### ConfigFile

A `config.json` is its settings (the two that steer saving and one value for all the
others), whether its values are in range, whether a section that should be an
object is not one, and the fields this version does not know. A save is two steps:
`BeginSave` reads and merges, `FinishSave` replaces; nothing is compared between
them, and the mutex, which only covers the second, is left out because it has
no effect on the outcome. `CreateDefault` is `ensureDataFiles` after its check.
The settings window holds a snapshot from when it was opened.
`"escaped"` is a process where an exception has left one of the plugin's
callbacks.

### Expansion

One document, a sequence of characters; a position is the gap after a number of them. What
Scintilla and the user do is `Type`, `Erase`, `EditElsewhere`, `UndoOrRedo`, `Select`; the plugin's
share of these is `KeepPositions` (`updateTabstopSession`). A typed character is two steps:
the text changes and SCN_MODIFIED is handled, then SCN_CHARADDED, which is one of
`NextTabstop`, `LastTabstop`, `ReplaceTyped` and `LeaveTyped`. `LeaveTabstop` is the check at
SCN_UPDATEUI, which may come late. `Replace` is the replacement, of a typed character or of
the command: `ApplyReplacement` for one caret, `AllPossible` and `ApplyAll` for several. `AllPossible` is the two
checks as the code makes them: the limit that is left after each caret (`LimitLeft`), and each trigger against its
neighbour in the list sorted by place (`Apart` of `Backwards`); `AllWithinLimit` says what they are for.

Rules are a table from triggers to replacements with marks, or to a failure of `expandReplacement`;
lookup and captures are behind that table. `SnippetTemplate` has what `parseSnippetMarkers` makes of a
replacement: the text, the tabstops' offsets in the order they are visited (`Stops`), the cursor
when it counts by itself (`Cursor`). Marks are single elements of a sequence; a malformed mark is
text. `VisitedInOrder` asks of the positions of a new session what the README says of them,
without using that translation. Characters have one byte. Two auxiliary variables, `born`
and `origin`, remember the text a session began with; `TabstopsFollowText` is stated with them
and no action reads them.

### RuleStore

`loadFromText` is a loop over the items of a file with many ways to throw: `BeginFile` takes the
groups, `ReadItem` or `RefuseItem` each item in its order, `EndFile` or `RefuseFile` check the
prefixes and build the indexes. `PrefixesAllowed` is that check as a walk along the sorted triggers which stops at the
first that does not begin alike (`PrefixOrder`, `Met`). Only `EndFile` touches the store. `Item` are items of files, good
and bad; what makes an item bad by itself without being about other items or captures (types,
empty strings, sizes) is its field `sound`. Triggers are sequences of letters and capture markers,
`Lower` is `foldAscii`. The store is used through operators that translate the lookup functions as they
are written (`FindIndexed`, `FindCapture` with its merge of two lists, `GlobMatches` with its loop as
a recursive function, `Match`, `Diagnose`); the properties compare them, for every query at every
store that is reached, with what one would say they should find.

### DataPackage

Only what is on the disk when matters here: a configuration and a document of rules, valid or
not, or no file. An export is `ExportConfig` and `ExportRules` (one read each, the files may change
in between), which go on to `WriteExport` only if both contents are valid. An import is `Import` (the package is read and checked), `MakeDirectory`,
`CopyConfig`, `CopyRules`, `WriteConfig`, `WriteRules` or `WriteRulesFails`, then `RollBack` or
`RollBackFails`; `GiveUp` is every failure before the first file is replaced. Each step can be
followed by `Crash`. `OtherWrites` is everybody else; the properties about atomicity and recovery
except the imports during which the files were written by others, and there are
no locks over the two files that would help them. What the process then does with the
imported files is in `ConfigFile` and `RuleReload`.

### GroupManager and RuleDraft

`RuleDocument` is what both windows and `Exchange` share: rules with an id, a trigger and a group id, groups with
an id, a name and a state, `Valid` (what RuleStore asks of ids, triggers and groups together; coarser than the module `RuleStore`, it knows
neither case nor capture templates), and
`WithGroups`, the groups an import creates.

`GroupManager` is the modal window: `work` is the copy `showGroupManager` makes, `current` and `creating` say
what the fields are for. `ApplyGroup` is all of `applyGroup`: the checks, the group, the relinking of every rule
that names the old id, the validation and the rollback (no step). What the user has typed is the argument `e`;
`confirmDiscard` only guards what is not applied. `GroupSpec` is the window by itself, opened on any draft.

`RuleDraft` has `open`, the draft, `view` (the rows with the rule each shows, the marks, the selected
index, the fields, `detailsDirty_`), `look` (search, filter, column, order), the search timer and a message
box with the indices that were captured before it was shown. The list is virtual: it keeps marks by
position, whatever the rows become, and tells the window only of rows that become marked; that is
`SelectIndex`, which every refresh ends with. Each command starts with `commitDetails` as in the code
(`CanCommit`, `CommittedDraft`, ...); a command whose commit is refused is no step. `CommitOnly` stands for
commands that commit and then leave the draft alone (test, export, a cancelled import, a failed
save). `SearchTimer` may fire whenever it is armed, behind a box and behind the group window.
Ids of rules are numbers, so that a property can tell which rule a position means; the
program has them too (`makeGuid`), but looks at indices only.

### Exchange

`parseDelimited` is one action per branch of its loop, with its variables: `index`, `quoted`,
`fieldStarted`, `quoteClosed`, `field`, `row`, `rows`. The same is said once more as a grammar that does
not read from left to right: quotes come in pairs, so a delimiter or a line end counts when the number of quotes
before it is even (`Lines`, `Fields`, `Wrapped`, `Table`). `importDelimited` follows row by row
(`SkipRow`, `RefuseRow`, `TakeRow`) and as a whole (`RefuseRules`, `Merge`); the export is the function
`Exported`. Characters the code treats specially are symbols of their own, a word of which only the whole
matters ("true", a column's name) is one symbol. Five columns are left out: `caseSensitive` is read like `enabled`,
`pathGlobs` like `languages` and `description` as it is; an empty `matchMode` becomes `wholeWord` and an extension gets
the dot it lacks, which no property is about.

## 3. Runs

Deadlock is checked in every run.

| Run | Instance | Shows |
|---|---|---|
| `rule_file_safety` | 2 processes, 5 contents, 2 backups, failing I/O, symmetry; 2.0 M states | types and lock, no lost update, what a save replaces was copied, honest drafts, refinement of the register |
| `rule_file_live` | 2 processes, 2 contents, restores, imports, a foreign writer, failing I/O, fairness; 527 k states | the mutex is released, a change that can be read is noticed |
| `rule_reload` | 1 process, 2 documents, 2 backups, all settings, broken and missing files, failing reads and stamps, fairness; 365 k states | rules are never lost, ticks are faithful, the timer's life, a change that can be read reaches the rules |
| `config_file_shared` | 2 processes, failing writes, symmetry; 13 k states | unknown fields survive |
| `config_file_alone` | 1 process, imports, a file that others break or remove | what runs is what is saved; defaults stay in memory |
| `expansion` | documents that begin empty or with 6 characters, rules with tabstops out of order and with equal numbers, cursors, a failure, an immediate one; up to 4 carets of which 3 are allowed, with a limit of 6; 2.9 M states | tabstops are visited in order and stay with their text, filling one in keeps the session, several carets are replaced completely and in the right places or not at all |
| `rule_store` | files of 3 items out of 16, 9 texts, 3 documents, every activation; 17 k states | indexes find what a search finds, the first template wins, globs and templates match what they say, immediate prefixes are caught, the rule tester agrees with typing |
| `package_import` | 2 processes, 2 contents of each file, broken and missing files, failures, crashes, others' writes; 2.7 M states | what an import replaced can be recovered, both files are replaced or neither, exports can be imported |
| `rule_draft` | 2 rules, 2 changes, one deviation from the first sort, search and filter at a time; 705 k states | fields and rows mean the rules they show, commands reach the rules they were asked about, rules keep their groups |
| `exchange` | all texts of up to 6 of 5 symbols, 9 tables, exports of 4 drafts, both modes; 378 k states | the parser computes the grammar, export and import are inverse, an import is all of its rows or nothing |
| `rule_file_restore` | violated | a restore's backup is not of what it overwrites |
| `config_file_escape` | violated | saving over a section that is not an object throws through a menu command |

**Bounds.** Two processes suffice for the races of the files: each involves one that
holds an old view and one that changes the file. `rule_reload` has one: what others do to the file is `ForeignWrite`,
and the theorems about it are for any number. Contents are two to four
documents, so that a stale and a current one can be told apart and an ABA is possible (the live run has one document, which
is edited to itself, and a broken file: an unequal content is all that its properties look at);
one of them is laid out by hand, so that loading and saving it changes it. `Edits`, `Writes`, `Foreign`,
`Overwrites`, `Imports` restrict which inputs a run feeds; `Others` of `DataPackage` are the files others
leave behind, one pair with a broken file and one with a missing one; `Typeable`, `Selections` and `MaxLength` bound what a user of `Expansion` types and selects:
documents are empty or have three triggers with delimiters; a session has up to three tabstops with text before, between and
after them; triggers overlap or lie apart, at two and at three carets, and four carets are one too many.
With `MaxExpanded` three replacements of some kinds fit and of others do not.
Three rules are enough for a literal rule in each index and a template, or three
templates in two lists, and `MaxKept` for a store that is loaded over another.
`MaxChanges` of `RuleDraft` is the changes to a draft of two rules: with two one gets to four rules, or to an added
rule among marked ones that is then deleted; `MaxLook` lets one of search, filter, column and order
differ from a new window's at a time, each of which is enough to put every row elsewhere; `Edits`, `Imports`, `GroupEdits`,
`Filters`, `Queries` and `Columns` are what the user puts in. One edit moves a rule to another row, names a group that has
to be created and may be refused; the column "state" sorts by something that groups change. `FirstId` is the first id not used by a file.
`MaxLength` of `MCExchange` is long enough for a quoted field with a doubled quote, something after it
and a second field or row; these texts (`Texts`) are only imported into an empty draft, the tables (`Tables`) and exports into any. `MaxRules` is the draft an import goes into.
`MaxBackups` is
`backup.maxFiles`: with two, rotation takes copies away while saves go back to earlier contents; `MayForget` keeps `rememberEnabledState` set where the run is not about
it; `IOFailures` switches file errors. No counter is unbounded. The safety run of
`RuleFile` has no foreign writers and no restores because the register and the
backups are promises between saves; the live run has them, and so do the theorems about types, the lock and drafts.
`config_file_shared`, `package_import`, `rule_reload` and both runs of `RuleFile` that pass have failing file operations.

**Fairness.** `FairSpec` of `RuleFile` has weak fairness of each process's steps inside
a handler (a running UI thread goes on; waiting for the mutex ends after two seconds)
and of the poll timer's ticks while the window is open and idle, which Windows delivers: the stamp can be taken at one of
them, while nothing is assumed of the read after it, which may fail. `FairSpec` of `RuleReload`
has weak fairness of the steps of `loadRules` and of a tick under way, and strong fairness of `TimerStamp`: the timer goes off again and
again and may fail to get the stamp any number of times (`TimerStampFails`), but not for ever. A program that
keeps the file from being looked at for good is not considered. Nothing
a user does is fair: not dismissing a box, saving, closing, editing. A crash ends every obligation of the process.

## 4. Findings

Each is a violation run that states what the documentation or the user interface says:

1. `restoreBackup` says the current file is backed up first; the backup and the
   write are not under one mutex and the write compares nothing.
2. A section of `config.json` of another JSON type loads, and makes saving throw
   out of a menu command. At NPPN_SHUTDOWN (`Plugin.cpp` 1290) `beNotified` catches it (1313), and the rest is skipped: the timer
   is not killed, `gReady` stays set and the windows are not closed (`ShutdownThrows` of `RuleReload`).

Without runs of their own, but in the models: the manager, too, takes the stamp it compares with
after it has read the content or released the mutex (`StampLoaded`, `StampSaved` of `RuleFile`), so
that an external change in between is not warned about, though a save still notices
it. `checkExternalChange` makes the new stamp its own before it reads the file (`RuleManager.cpp` 1088), and a read that
fails returns: that change is never warned about (`PollReadFails`; `ChangeNoticed` excepts it). `autoReloadTimer` stores the stamp
of a file that it could not read (`Plugin.cpp` 925-926), so that this change never reaches the rules (`TimerRead`, `TimerSwap`;
`TickIsFaithful` and `ChangeLoaded` except it), and where `loadRules` could not read the file and took a backup, the stamp recorded
is the file's, which the timer then takes for loaded (`LoadBackup`, `UpdateRulesStamp`). `loadRules` takes `gRulesStamp` after the read, behind the reload command's message box: a
change in between is recorded as loaded (`Dismiss`, `UpdateRulesStamp` of `RuleReload`). A toggle writes every known setting as it was loaded, without a comparison, over what
another instance has saved since (`BeginSave` of `ConfigFile`); within one process, the settings
window's snapshot reverts a toggle made in the menu while it was open, visibly in the window.
`reloadAll` reloads the settings but never calls
`configureAutoReloadTimer`, so the timer goes on as it was (`ReloadAll` of `RuleReload`). When the
rollback of a package import fails too, the message still says that the previous settings were restored
(`DataPackage.cpp` 218; `RollBackFails` of `DataPackage`); the files are in the recovery directory.
The check that no immediate trigger begins another compares with case when the immediate rule has case
(`RuleStore.cpp` 217): `ab` (with case, immediate) and `ABc` (without) are accepted, and typing `abc` has `ab`
replaced, though the README (158) says such a file is refused; `PrefixesAreCaught` excepts it.

In the rule manager (`RuleDraft` has all of these):

* Set state changes the draft and leaves the Enabled box of a rule that is shown as it was
  (`RuleManager.cpp` 1195-1205); the next change that is applied writes the old state back. `DetailsShowSelected`
  excepts the box.
* Sorting, filtering and searching can put the shown rule on a row that is not marked; marking it loads its fields
  anew and changes that were not applied are gone without a question. A virtual list need not
  send `LVN_ITEMCHANGING`, so that even a click may skip the commit (`MarkRow`).
* A new or duplicated rule whose row has a mark already is not loaded, although the focus
  goes to its trigger field; the fields and the focus are still of the old rule.
* Marks are kept by position and selecting a rule adds one: after Add rule the old row
  stays marked, and Delete then asks about two rules.
* Adding, duplicating, deleting and set state do not validate the draft, though `docs/architecture.md` (80) says that every
  change of a draft is: a duplicate of an immediate `ab` is `ab-copy`, a draft that cannot be saved.
* A commit at the head of another command leaves the old text in the row until the next refresh (`CommitOnly`).

RuleStore takes a rule's group by id or display name (`RuleStore.cpp` 279-284, 327), an import takes
a display name for known, the manager and the group window look for ids only: a rule that names a group by its
display name works, shows "Missing group" and is not relinked when the group is renamed. An export joins lists with `|`
and does not escape it, and an import trims group ids: a value with a bar or an id with outer blanks comes back
changed, though the dialog calls the plain export lossless (`RuleManager.cpp` 1420); `Exchangeable` excepts them.

Backups are sorted, and rotated away, by the write time of the content, which CopyFileW keeps (`Backup` of `RuleFile`):

* When another program puts a file with an old time in place, its copy sorts last and is the first that rotation
  removes; with `backups/` full, the save that made the copy removes it and then replaces the file. `SaveLeavesBackup` is
  of saves alone, where no file is older than a backup.
* What a save replaces need not be in `backups/` even then: if the file went from A to B and back to A after the backup
  was made, the comparison accepts A, and the copy of A may have been rotated away in the meantime. `SaveLeavesBackup`
  says that a copy was made, and that it is there unless the file was written since it was last backed up.

## 5. Proofs

All for any number of processes and any sets of contents, from the constants'
assumptions only (each module's `...Constants`) and what is said below.

**RuleFileProofs.**
`TypesAndLock`: types, and that a process is in the locked region exactly
when it owns the mutex. Types alone are not inductive: `PutInPlace` moves the
temporary file into place, so one needs that it is complete by then, and that needs
that no one else touches it.
`ComparedInvariant`: after the comparison, the disk still has the compared content
until it is replaced. It needs the lock invariant (a second
writer would need the mutex) and that foreign writers are absent. From it
follow `NoUpdateIsLost` and `ImplementsRegister`; the refinement maps the
register's value to `disk` and what a process has seen to `base`.
`DraftsAreHonest` needs the invariant on the job: the text under way is the dump of
the draft. `SavesAreBackedUp` is the subtle one: the backup is
made before the mutex is taken, so it need not be of the content the save
replaces. That one was nevertheless copied, because the comparison only succeeds
on the base of the draft, and when the backup was made the file was the base or
has been replaced since by a save that backed it up; so every content replaced has been `copied`. That its copy survives
the rotation unless the file was written since needs that no backup is newer than the file (`BackupInv`), which holds
when saves are the only writes, and that what is inserted first is never the last of more than `MaxBackups` (`BackupKept`).

**RuleReloadProofs.** `Typed` (the bound on `backups/` and that rules are never of a
broken file are in it), `TimerLife` (an armed or running timer implies that
`gReady` is set, also behind a shutdown that threw), `TicksAreFaithful` (a tick that could read the file and ends with the stamp
of the file as it is has put in force what is in it, if that is valid; its inductive core relates the tick's local `seen` and
`candidate` to the disk). `RulesAreKept`: a process with rules is never without any until it ends; that rests on what is put
in force being the document of a file that was accepted (`RulesTakeDocuments`).

**DataDirectoryProofs**, of `ConfigFile`. `Typed`, with `AppliedOpen` (the window whose settings are being saved
is open when they are applied). `UnknownFieldsSurvive`: what each save is about to write has the
unknown fields the file has now, although others save in between, because
they keep them too; it assumes that no package is imported and no other program writes the file, and both are needed.
`DefaultsAreNotSaved`: a toggle or a shutdown that has got as far as its write began with a loaded file
(`StateSavedIfValid`). `StateSurvives` is for one process, writes that do not fail, and foreign files
that cannot be loaded; a second process, a toggle whose write fails or another program's settings each make what is in force
differ from what is saved, and the code does not promise more. Its invariant `SavedInv` says the same at every step
of a save, of what is about to be written.

**DataDirectoryProofs**, of `DataPackage`. `PackageTyped`; `ImportsAreRecoverable`, `ImportsAreAtomic` and `ExportsCanBeImported`.
Recovery and atomicity follow from one invariant that says for each place in the import
which of the files are still those of before, which are the package's, and which have been copied,
unless someone else wrote the files; a write by one process counts as someone else's for every
other.

**RuleDraftProofs.** The group window by itself first. `GroupsTyped`: for drafts of any length the copy's group ids stay
distinct, and what the fields are for exists. `GroupsKeepTheirRules`: no sequence of renames and deletions moves a rule to
another group. With distinct ids a rule has at most one home (`HomeIsOne`); a rename relinks exactly the rules whose home is
the current group, because the new id is nobody else's (`~DuplicateId`); after a deletion the positions behind it shift by one.
Then the manager around it. The invariant `DraftInv` has, beside the types: the ids in the draft are older than
the next one (`IdsAreOld`: so a new or duplicated rule is none of those there); every row is a position in the draft; the rows
show what is at their positions (`Sound`), and the fields are those of the rule at the selected position (`Shows`); a question on the screen is about rules the draft has (`BoxIsOfDraft`: a timer, but no command, runs behind it, so
that the positions captured before the box are good after it); and while the group window is open its copy has the draft's
rules at their places (`Regrouped`), so that closing it changes groups and nothing else. From it `DraftTyped`,
`RowsAreTheirRules` and `DetailsAreOfSelected`: whatever is searched, filtered, sorted, marked, added, deleted, imported or
regrouped, the fields are those of the rule they would be applied to. `OnlyChosenChange` is the step form of the same: a command
changes rules it was asked about. `WindowUsesGroups`: the manager with its group window implements `GroupSpec`, so what was
proved of the group window alone holds in it (`DraftKeepsGroups`). Erasing the marked rules from the last to the first, choosing a
free trigger for a copy and creating an import's groups are loops; what each leaves behind is an invariant over its turns.
That the numerals for copies are a list of words (`RuleDraftConstants`) is what `std::to_wstring` gives; no more is
assumed of them, since a copy need not be valid (section 4).

**RuleStoreProofs.** `StoreInvariant`: the rules kept have passed every check alone and against each other (`Checked`), no
immediate rule begins another unless case tells them apart (`PairsAllowed`), and each index and each bucket lists exactly
its rules, in their order (`Indexed`). For files, stores, queries and paths of any length, this gives what the lookup is
trusted for. `IndexesFindTheRule`: two literal rules that a text could mean would be in conflict, which `Checked` excludes, so there is at
most one (`MeansOnce`), and the two indexes, asked one after the other, find it and nothing else. `FirstTemplateIsUsed`: the merge of
a bucket with the templates that have no fixed first letter goes through the positions of both in ascending order, so the
first that matches is the first in the file; `MatchIsExtraction` says that the matcher, which looks for the next literal
after each marker, finds a way to cut the text up whenever there is one, and `MatchBegins` that no template that matches is
in another bucket. `PrefixesNeverFire`: no accepted file has an immediate trigger at the head of another, the
exception of section 4 aside. The walk that looks for one stops at the first trigger that does not begin alike; between a trigger and one
that begins with it, in the order of `std::string`, all others begin with it too, so that no pair is missed (`WalkMeetsAll`). `TesterAgrees`: the diagnosis names a rule exactly when the lookup uses it. `GlobsMatchTexts` is
about the loop of `globMatches`, which backtracks only to the last star: its invariant (`SinceStar`) says that there is no
star in what was passed since and that as much text was passed, so that whatever can be matched can be matched from where the loop
stands or from that star (`CanMatch`); the turns end because a measure (`TurnsLeft`) decreases.

**ExpansionProofs.** The invariant is `TypeOK`, `Tracked` (the ghost is as long as the document), `AfterTyped` and
`TabstopsFollowText`. `AfterTyped` says that while the notice of a typed character is due, that character is before every
caret: the Tab a session takes back, and the delimiter that ends a trigger, exist and are the ones just typed. With it `TabstopsStay`:
whatever is typed, erased, replaced or changed elsewhere, each tabstop stays between the characters it was between,
for documents, replacements and sessions of any length. `Splice` is described by what is at each place (`SpliceProperties`);
`Inserted` and `Removed` on the positions do what it does to the text (`InsertedFollow`, `RemovedFollow`). Typing at several
carets is such insertions from the last caret to the first, so that those to come are not moved by those made
(`TypingFollows`). `FillingStaysAtTabstop` and `TabstopsVisitedInOrder` are about sessions: typing and erasing at the current tabstop keep the caret
there, and a new session goes through `Stops` in the order of their numbers, equal ones in the order of the text, the replacement's own 0 or
its cursor last.
`SeveralCaretsLand`: replacing at several carets goes from the last trigger to the first; the invariant of its turns (`Turned`)
says where each replacement made so far is, which moves with the sum of what those before it gain (`Gain`, `Moved`), and from
that each caret ends where its own replacement puts it. The order from last to first exists because triggers that
do not overlap and are not empty have different starts. `OutputWithinLimit`: what all carets insert together is within
`MaxExpanded`, because what is left of the limit after each caret and the outputs so far add up to it; and neighbours in the list sorted by
place being apart, any two triggers are. `NoSession \notin Session` and `NoChar \notin Char` only keep the marks for "none" apart from what they stand
beside (`active` in the code).

**ExchangeProofs.** `ParsesTheGrammar`: for texts of any length over any alphabet, the loop with its three flags finds the rows
of the grammar, or an error exactly where there are none. The parser sees a character, the grammar a whole text; between them is a
relation, `Reads`: the text before `index` can be cut into lines that are done, fields of the current line that are done,
and a field that is not, of which the parser has the rows, the row and the field, and whose flags (`FieldMode`) say whether
it is empty, bare, in quotes or behind a closing quote. Each branch of the loop is a lemma that makes the text one
character longer (`ReadsQuoted` ... `ReadsLineEnd`), which rests on how lines, fields and the parity of quotes of a text
change when something is appended. `ParserInv` says that `Reads` holds at every character (`ParserSafe`). That an error is
one whatever follows needs its own argument: a field is `Hopeless` when no continuation makes it bare or
wrapped, and a text with one is `Spoiled` to its end. A closing quote behind which a second one comes is not yet an
error, so that the parser is a character ahead there (`ReadsDoubled`).
`ImportAddsItsRows`: the rules taken so far are those of the rows so far that have something in them, in their order
(`Taken`, `Filled`), and stay so behind those that are kept; new groups come behind the old ones and keep ids of their own.
Nothing is assumed of what a draft's lists contain, only that a draft comes with proper groups, which RuleStore has
checked of every document the manager loads (`RuleManager.cpp` 676) and each import keeps.
`ExportComesBack`: what is exported is read with the same lemmas, symbol by symbol inside quotes (`ReadsPairs`), field by
field (`ReadsCells`), line by line and rule by rule (`ReadsLines`), so that the table of an export is the header and the
cells of the rules (`ExportedIsTable`). Then each row gives back its rule (`ExportedRule`; `SplitJoin` for the lists), is
neither passed over nor refused, and the rules regained are at each moment the first of those exported (`Regained`).
`ExchangeConstants` says that the characters and words the code compares with are symbols, that folding leaves the names
of columns, which are lower case, `true` and `false` as they are, and that drafts and texts are what they say.

**ListLemmas.** Recursive definitions are recursive functions here, and in TLA+ such a function is a `CHOOSE` that satisfies its
equation only if some function does. `RecursionExists`, `LoopExists`, `SumExists` give that once for the shapes the
modules use; `AscendingExists` and `SortedExists` say that a finite set of numbers, and a list, can be put in order. Induction
is done in its first-order form: the set of places where a fact fails, if it is not empty, has a least member
(`LeastExists`), or a set that has the first and is closed under the next has all (`SetInduction`, `IntervalInduction`).

**Only model-checked**: liveness (`MutexReleased`, `ChangeNoticed`, `ChangeLoaded`), which is out of the prover's reach here.
Every other property of the passing runs is a theorem. The two runs that find a violation are of what the
documentation says. The bounds that actions have in their guards
(`MaxLook`, `MaxChanges`, `MaxLength`, ...) are constants of which no theorem assumes more than that they are numbers.

## 6. What is not modelled

* Within the modelled parts: collisions of the content hash and of file stamps; a
  package import started inside a message box; a draft copy saved over
  `replacements.json` itself; failure of `SetTimer`; detection of a full disk as distinct from other errors.
* In `Backup`: an error of `std::filesystem::exists`, which passes for a file that is not there, so that the save goes on without a
  copy (`ConfigStore.cpp` 472); a removal that fails in rotation (one backup more stays); equal write times; a clock that is set back.
* In `Expansion`: paste (it runs inside SCN_MODIFIED, whose re-entrancy is Scintilla's), a line
  end of two characters, characters of several bytes, several buffers and views, read-only
  documents and `skipMultiSelection` (early returns), the built-in variables.
* In `DataPackage`: a package that is one of the two files (refused at once), two imports whose
  recovery directories get the same name (the same millisecond), the fields of the package other than the two files.
* In `RuleStore`: Unicode normalisation (letters are ASCII), warnings, the parsing of single fields.
* In `RuleReload`: the order of backups by write time, which `RuleFile` has; a copy counts as the newest here.
* In `RuleDraft`: the columns and fields that are treated like those that are there, Capture template and
  Immediate switching each other off, and the end of Notepad++ behind one of the manager's message boxes.
* In `Exchange`: the columns `caseSensitive`, `pathGlobs` and `description`, which are treated like others, `matchMode` and
  `fileExtensions`, which an import normalises (section 2), the size limit, warnings.
* In `RuleDocument`: what RuleStore asks of a single rule, and case and capture templates where it compares triggers; `RuleStore` has them.
* `RuleTester` shows RuleStore's diagnosis of a copy of the draft and changes nothing; that the
  diagnosis is right is `DiagnosisAgrees`. `Localization` chooses strings. Single fields of the settings window.
* An offset that `encodeOffset` (`Plugin.cpp` 555) computes from a prefix that is normalised by itself: a
  combining character right after a marker, or a line end split by one, would need characters that compose.
* Never: drawing, DPI, dark mode, layout, strings, logging,
  build and install scripts.

## 7. Plan

In order of importance; done: 1-8.

1. `RuleRegister`, `RuleFile`, `RuleFileProofs`: the file shared by processes.
2. `RuleReload`, `RuleReloadProofs`: the rules in force.
3. `DataDirectory`, `ConfigFile`, `DataDirectoryProofs`: the settings.
4. `Expansion`, `SnippetTemplate`, `ExpansionProofs`: the document, several carets, the tabstop session.
5. `RuleStore`, `RuleStoreProofs`: what a file of rules means and how a rule is found.
6. `DataPackage`, `DataDirectoryProofs`: both files, the recovery directory, rollback, failures and
   crashes between the writes.
7. `Exchange`, `ExchangeProofs`: the parser against a grammar, export and import as inverses.
8. `RuleDraft`, `GroupManager`, `RuleDraftProofs`: selection, sorting, search and groups over one draft.
9. A composition of `RuleFile` and `RuleReload`: a save in one instance reaches the
   rules of the others.

Theorems still worth having: with item 9, that a save in one instance is what the others load.
