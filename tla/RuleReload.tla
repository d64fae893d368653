----------------------------- MODULE RuleReload -----------------------------
(***************************************************************************)
(* The rules the plugin expands with (gRules in Plugin.cpp) and how they   *)
(* follow replacements.json: loaded when Notepad++ is ready, by the reload *)
(* command, after a save of the rule manager and after a package import,   *)
(* from the newest valid backup when the file cannot be loaded, and by a   *)
(* timer that watches the file's stamp.                                    *)
(*                                                                         *)
(* RuleFile.tla has the detail of how the file is written; here a write is *)
(* one step, of this process's windows or of anything else.                *)
(***************************************************************************)
EXTENDS Naturals, Sequences

CONSTANTS
  Process,     \* Notepad++ processes sharing one data directory
  Document,    \* contents RuleStore::loadFromFile accepts
  Broken,      \* contents it rejects
  Missing,     \* there is no replacements.json
  Default,     \* what ensureDataFiles writes when there is none
  NoRules,     \* the empty RuleStore a process starts with
  Absent,      \* FileStamp{}: the stamp of a missing file
  Unread,      \* what a tick has of a file it could not read, or not yet
  Writes,      \* documents managers and packages write
  Foreign,     \* what other programs leave in its place
  Settings,    \* contents of config.json, see Configs
  MaxBackups,  \* backup.maxFiles
  IOFailures   \* whether reading a file or its stamp may fail

Content == Document \cup Broken \cup {Missing}

\* What config.json says of autoReloadRules, or that it is not valid.  An "odd"
\* file loads (with the reload on), but one of its sections is not an object
\* and mergeConfigIntoJson throws when it is saved over.
Configs == {"on", "off", "odd", "invalid"}

ASSUME RuleReloadConstants ==
  /\ Default \in Document
  /\ Document \cap Broken = {}
  /\ Missing \notin Document \cup Broken
  /\ NoRules \notin Document
  /\ Unread \notin Content
  /\ Absent \notin {"current", "old"}
  /\ Writes \subseteq Document
  /\ Foreign \subseteq Content
  /\ Settings \subseteq Configs
  /\ MaxBackups \in Nat \ {0}
  /\ IOFailures \in BOOLEAN

VARIABLES
  disk,       \* content of replacements.json
  backups,    \* the contents in backups/, newest first
  config,     \* what config.json says
  pc,         \* pc[p]: where p's UI thread is
  cmd,        \* cmd[p]: the command whose loadRules is under way
  scan,       \* scan[p]: backups loadRules has still to try
  rules,      \* rules[p]: gRules
  stamp,      \* stamp[p]: gRulesStamp
  tick,       \* tick[p]: where p's autoReloadTimer callback is
  seen,       \* seen[p]: its local variable current
  candidate,  \* candidate[p]: its local variable candidate
  auto,       \* auto[p]: gConfig.autoReloadRules
  valid,      \* valid[p]: gConfigValid
  armed       \* armed[p]: gAutoReloadTimer # 0

files == <<disk, backups, config>>
thread == <<pc, cmd, scan>>
timer == <<tick, seen, candidate>>
options == <<auto, valid, armed>>
vars == <<disk, backups, config, pc, cmd, scan, rules, stamp, tick, seen,
          candidate, auto, valid, armed>>

Phase == {"off", "create", "idle", "primary", "fallback", "box", "failbox",
          "stamp", "finish", "undone"}
Command == {"none", "init", "reload", "save", "import"}

\* A stamp tells only whether it is the one of the file as it is now, of the
\* file before some write, or of no file at all.
Stamp == {"current", "old", Absent}

TypeOK ==
  /\ disk \in Content
  /\ backups \in Seq(Document \cup Broken) /\ Len(backups) <= MaxBackups
  /\ config \in Configs
  /\ pc \in [Process -> Phase]
  /\ cmd \in [Process -> Command]
  /\ scan \in [Process -> Seq(Document \cup Broken)]
  /\ rules \in [Process -> Document \cup {NoRules}]
  /\ stamp \in [Process -> Stamp]
  /\ tick \in [Process -> {"none", "failed", "stamped", "read"}]
  /\ seen \in [Process -> Stamp]
  /\ candidate \in [Process -> Content \cup {Unread}]
  /\ auto \in [Process -> BOOLEAN]
  /\ valid \in [Process -> BOOLEAN]
  /\ armed \in [Process -> BOOLEAN]

Init ==
  /\ disk \in Content
  /\ backups = <<>>
  /\ config \in Settings
  /\ pc = [p \in Process |-> "off"]
  /\ cmd = [p \in Process |-> "none"]
  /\ scan = [p \in Process |-> <<>>]
  /\ rules = [p \in Process |-> NoRules]
  /\ stamp = [p \in Process |-> Absent]
  /\ tick = [p \in Process |-> "none"]
  /\ seen = [p \in Process |-> Absent]
  /\ candidate = [p \in Process |-> Unread]
  /\ auto = [p \in Process |-> TRUE]
  /\ valid = [p \in Process |-> FALSE]
  /\ armed = [p \in Process |-> FALSE]

\* gReady.
Ready(p) == pc[p] \notin {"off", "create"} /\ cmd[p] # "init"

\* p's thread is in a message loop, of Notepad++ or of a message box, where
\* it serves timers and, but while Notepad++ ends, modeless windows.
Looping(p) == pc[p] \in {"idle", "box", "failbox", "undone"} /\ tick[p] = "none"

\* ConfigStore::fileStamp.
FileStamp == IF disk = Missing THEN Absent ELSE "current"

\* Every stamp taken of the file before it was written is of an older file.
Aged(s) == [p \in Process |-> IF s[p] = "current" THEN "old" ELSE s[p]]

\* The file is replaced by c: all stamps age.
Put(c) == disk' = c /\ stamp' = Aged(stamp) /\ seen' = Aged(seen)

\* Mutant of Rotate: one file more than backup.maxFiles is kept.
RotateOffByOne ==
  backups' = IF disk = Missing THEN backups
             ELSE LET all == <<disk>> \o backups
                  IN  IF Len(all) <= MaxBackups THEN all
                      ELSE SubSeq(all, 1, MaxBackups + 1)

\* backupReplacements before a write, and the rotation of backups/, the copy
\* taken for the newest (RuleFile goes by the write times).
Rotate ==
  backups' = IF disk = Missing THEN backups
             ELSE LET all == <<disk>> \o backups
                  IN  IF Len(all) <= MaxBackups THEN all
                      ELSE SubSeq(all, 1, MaxBackups)

\* loadConfiguration: an invalid file leaves the defaults in force.
LoadConfiguration(p, c) ==
  /\ auto' = [auto EXCEPT ![p] = c # "off"]
  /\ valid' = [valid EXCEPT ![p] = c # "invalid"]

\* Enter loadRules on behalf of command c.
CallLoadRules(p, c) ==
  /\ pc' = [pc EXCEPT ![p] = "primary"]
  /\ cmd' = [cmd EXCEPT ![p] = c]

----------------------------------------------------------------------------
(* Commands.                                                               *)

\* NPPN_READY: ensureDataFiles finds the file, the settings are loaded.
Start(p) ==
  /\ pc[p] = "off"
  /\ disk # Missing
  /\ LoadConfiguration(p, config)
  /\ CallLoadRules(p, "init")
  /\ UNCHANGED <<files, scan, rules, stamp, timer, armed>>

\* It does not find it, ...
StartMissing(p) ==
  /\ pc[p] = "off"
  /\ disk = Missing
  /\ pc' = [pc EXCEPT ![p] = "create"]
  /\ UNCHANGED <<files, cmd, scan, rules, stamp, timer, options>>

\* ... and writes the default rules, whatever is there by now.
CreateDefault(p) ==
  /\ pc[p] = "create"
  /\ Put(Default)
  /\ LoadConfiguration(p, config)
  /\ CallLoadRules(p, "init")
  /\ UNCHANGED <<backups, config, scan, rules, tick, candidate, armed>>

\* The menu command "Reload settings and rules".
ReloadAll(p) ==
  /\ pc[p] = "idle" /\ Looping(p)
  /\ LoadConfiguration(p, config)
  /\ CallLoadRules(p, "reload")
  /\ UNCHANGED <<files, scan, rules, stamp, timer, armed>>

\* p's rule manager has written the file; onRulesSaved loads it.
ManagerSave(p) ==
  /\ pc[p] = "idle" /\ Looping(p)
  /\ \E d \in Writes : Put(d)
  /\ Rotate
  /\ CallLoadRules(p, "save")
  /\ UNCHANGED <<config, scan, rules, tick, candidate, options>>

\* The same while a message box of an earlier loadRules is still on screen:
\* the manager's window is not disabled by it.  The nested call is one step.
NestedSave(p) ==
  /\ pc[p] \in {"box", "failbox"} /\ Looping(p) /\ Ready(p)
  /\ \E d \in Writes :
       /\ disk' = d
       /\ rules' = [rules EXCEPT ![p] = d]
  /\ Rotate
  /\ stamp' = [Aged(stamp) EXCEPT ![p] = "current"]
  /\ seen' = Aged(seen)
  /\ UNCHANGED <<config, thread, tick, candidate, options>>

\* The settings window has saved config.json: applySavedSettings.
ApplySettings(p) ==
  /\ Looping(p) /\ Ready(p) /\ pc[p] # "undone"
  /\ config # "odd"
  /\ config' \in Settings \ {"odd", "invalid"}
  /\ LoadConfiguration(p, config')
  /\ armed' = [armed EXCEPT ![p] = config' # "off"]
  /\ UNCHANGED <<disk, backups, thread, rules, stamp, timer>>

\* A package has replaced both files: reloadAfterPackageImport.
ImportPackage(p) ==
  /\ pc[p] = "idle" /\ Looping(p)
  /\ config' \in Settings \ {"invalid"}
  /\ \E d \in Writes : Put(d)
  /\ LoadConfiguration(p, config')
  /\ CallLoadRules(p, "import")
  /\ UNCHANGED <<backups, scan, rules, tick, candidate, armed>>

\* Mutant of Exit: the timer is not killed.
ExitKeepsTimer(p) ==
  /\ pc' = [pc EXCEPT ![p] = "off"]
  /\ cmd' = [cmd EXCEPT ![p] = "none"]
  /\ scan' = [scan EXCEPT ![p] = <<>>]
  /\ rules' = [rules EXCEPT ![p] = NoRules]
  /\ stamp' = [stamp EXCEPT ![p] = Absent]
  /\ UNCHANGED <<files, options>>

\* What the end of the process leaves of it: nothing.
Exit(p) ==
  /\ pc' = [pc EXCEPT ![p] = "off"]
  /\ cmd' = [cmd EXCEPT ![p] = "none"]
  /\ scan' = [scan EXCEPT ![p] = <<>>]
  /\ rules' = [rules EXCEPT ![p] = NoRules]
  /\ stamp' = [stamp EXCEPT ![p] = Absent]
  /\ auto' = [auto EXCEPT ![p] = TRUE]
  /\ valid' = [valid EXCEPT ![p] = FALSE]
  /\ armed' = [armed EXCEPT ![p] = FALSE]
  /\ UNCHANGED files

\* NPPN_SHUTDOWN: saveEnabledState returns (ConfigFile has what it does), the
\* timer is killed, gReady reset; and the process ends.
Shutdown(p) == pc[p] = "idle" /\ Looping(p) /\ Exit(p) /\ UNCHANGED timer

\* saveEnabledState throws, beNotified catches: the timer is not killed and
\* gReady stays set for what is left of the process.
ShutdownThrows(p) ==
  /\ pc[p] = "idle" /\ Looping(p)
  /\ valid[p] /\ config = "odd"
  /\ pc' = [pc EXCEPT ![p] = "undone"]
  /\ UNCHANGED <<files, cmd, scan, rules, stamp, timer, options>>

\* The end of such a process.
EndProcess(p) == pc[p] = "undone" /\ Looping(p) /\ Exit(p) /\ UNCHANGED timer

----------------------------------------------------------------------------
(* loadRules.                                                              *)

\* Mutant of LoadPrimary: the store is emptied before the file is parsed.
LoadPrimaryInPlace(p) ==
  /\ pc[p] = "primary"
  /\ \/ /\ disk \in Document
        /\ rules' = [rules EXCEPT ![p] = disk]
        /\ pc' = [pc EXCEPT ![p] = IF cmd[p] = "reload" THEN "box" ELSE "stamp"]
        /\ UNCHANGED scan
     \/ /\ disk \notin Document \/ IOFailures
        /\ rules' = [rules EXCEPT ![p] = NoRules]
        /\ scan' = [scan EXCEPT ![p] = backups]
        /\ pc' = [pc EXCEPT ![p] = "fallback"]
  /\ UNCHANGED <<files, cmd, stamp, timer, options>>

\* The file itself is tried first; only the reload command reports success
\* in a message box, and the stamp is taken when that is dismissed.
LoadPrimary(p) ==
  /\ pc[p] = "primary"
  /\ \/ /\ disk \in Document
        /\ rules' = [rules EXCEPT ![p] = disk]
        /\ pc' = [pc EXCEPT ![p] = IF cmd[p] = "reload" THEN "box" ELSE "stamp"]
        /\ UNCHANGED scan
     \/ /\ disk \notin Document \/ IOFailures
        /\ scan' = [scan EXCEPT ![p] = backups]
        /\ pc' = [pc EXCEPT ![p] = "fallback"]
        /\ UNCHANGED rules
  /\ UNCHANGED <<files, cmd, stamp, timer, options>>

\* Then the backups listed, newest first; one of them may be gone by now.
LoadBackup(p) ==
  /\ pc[p] = "fallback"
  /\ scan[p] # <<>>
  /\ \/ /\ Head(scan[p]) \in Document
        /\ rules' = [rules EXCEPT ![p] = Head(scan[p])]
        /\ scan' = [scan EXCEPT ![p] = <<>>]
        /\ pc' = [pc EXCEPT ![p] = "box"]
     \/ /\ Head(scan[p]) \in Broken \/ IOFailures
           \/ \A i \in 1 .. Len(backups) : backups[i] # Head(scan[p])
        /\ scan' = [scan EXCEPT ![p] = Tail(@)]
        /\ UNCHANGED <<pc, rules>>
  /\ UNCHANGED <<files, cmd, stamp, timer, options>>

\* Nothing could be loaded: the rules stay, and so does the stamp.
NoBackup(p) ==
  /\ pc[p] = "fallback"
  /\ scan[p] = <<>>
  /\ pc' = [pc EXCEPT ![p] = "failbox"]
  /\ UNCHANGED <<files, cmd, scan, rules, stamp, timer, options>>

\* The user closes the message box.
Dismiss(p) ==
  /\ pc[p] \in {"box", "failbox"} /\ Looping(p)
  /\ pc' = [pc EXCEPT ![p] = IF @ = "box" THEN "stamp" ELSE "finish"]
  /\ UNCHANGED <<files, cmd, scan, rules, stamp, timer, options>>

UpdateRulesStamp(p) ==
  /\ pc[p] = "stamp"
  /\ \/ stamp' = [stamp EXCEPT ![p] = FileStamp]
     \/ IOFailures /\ stamp' = [stamp EXCEPT ![p] = Absent]
  /\ pc' = [pc EXCEPT ![p] = "finish"]
  /\ UNCHANGED <<files, cmd, scan, rules, timer, options>>

\* The command that called loadRules ends; starting and importing arm the
\* timer as autoReloadRules says (configureAutoReloadTimer).
Finish(p) ==
  /\ pc[p] = "finish"
  /\ armed' = [armed EXCEPT ![p] = IF cmd[p] \in {"init", "import"} THEN auto[p] ELSE @]
  /\ pc' = [pc EXCEPT ![p] = "idle"]
  /\ cmd' = [cmd EXCEPT ![p] = "none"]
  /\ UNCHANGED <<files, scan, rules, stamp, timer, auto, valid>>

----------------------------------------------------------------------------
(* autoReloadTimer.                                                        *)

\* The stamp is taken first and kept in a local variable, ...
TimerStamp(p) ==
  /\ armed[p] /\ auto[p] /\ Looping(p)
  /\ FileStamp # stamp[p]
  /\ seen' = [seen EXCEPT ![p] = FileStamp]
  /\ tick' = [tick EXCEPT ![p] = "stamped"]
  /\ UNCHANGED <<files, thread, rules, stamp, candidate, options>>

\* (unless it cannot be taken: the callback returns) ...
TimerStampFails(p) ==
  /\ IOFailures
  /\ armed[p] /\ auto[p] /\ Looping(p)
  /\ tick' = [tick EXCEPT ![p] = "failed"]
  /\ UNCHANGED <<files, thread, rules, stamp, seen, candidate, options>>

\* ... the file is loaded into a store of its own, ...
TimerRead(p) ==
  /\ tick[p] = "stamped"
  /\ \/ candidate' = [candidate EXCEPT ![p] = disk]
     \/ IOFailures /\ candidate' = [candidate EXCEPT ![p] = Unread]
  /\ tick' = [tick EXCEPT ![p] = "read"]
  /\ UNCHANGED <<files, thread, rules, stamp, seen, options>>

\* The callback returns, and its local variables are gone.
EndTick(p) ==
  /\ tick' = [tick EXCEPT ![p] = "none"]
  /\ seen' = [seen EXCEPT ![p] = Absent]
  /\ candidate' = [candidate EXCEPT ![p] = Unread]

TickReturns(p) ==
  /\ tick[p] = "failed"
  /\ EndTick(p)
  /\ UNCHANGED <<files, thread, rules, stamp, options>>

\* Mutant of TimerSwap: the stamp is taken again, after the load.
TimerSwapRestamped(p) ==
  /\ tick[p] = "read"
  /\ stamp' = [stamp EXCEPT ![p] = FileStamp]
  /\ rules' = [rules EXCEPT ![p] =
                 IF candidate[p] \in Document THEN candidate[p] ELSE @]
  /\ EndTick(p)
  /\ UNCHANGED <<files, thread, options>>

\* ... and that replaces gRules if it is valid.  The stamp kept is stored
\* either way, that of a file which could not be read too.
TimerSwap(p) ==
  /\ tick[p] = "read"
  /\ stamp' = [stamp EXCEPT ![p] = seen[p]]
  /\ rules' = [rules EXCEPT ![p] =
                 IF candidate[p] \in Document THEN candidate[p] ELSE @]
  /\ EndTick(p)
  /\ UNCHANGED <<files, thread, options>>

----------------------------------------------------------------------------
\* Anything else writes, removes or breaks the file.
ForeignWrite ==
  /\ \E c \in Foreign : Put(c)
  /\ UNCHANGED <<backups, config, thread, rules, tick, candidate, options>>

\* Somebody edits config.json.
EditConfig ==
  /\ config' \in Settings
  /\ UNCHANGED <<disk, backups, thread, rules, stamp, timer, options>>

UserStep(p) ==
  Start(p) \/ StartMissing(p) \/ ReloadAll(p) \/ ManagerSave(p) \/ NestedSave(p)
    \/ ApplySettings(p) \/ ImportPackage(p) \/ Dismiss(p) \/ Shutdown(p)
    \/ ShutdownThrows(p) \/ EndProcess(p)

ProgramStep(p) ==
  CreateDefault(p) \/ LoadPrimary(p) \/ LoadBackup(p) \/ NoBackup(p)
    \/ UpdateRulesStamp(p) \/ Finish(p) \/ TimerRead(p) \/ TimerSwap(p)
    \/ TickReturns(p)

Next ==
  \/ \E p \in Process : UserStep(p) \/ ProgramStep(p) \/ TimerStamp(p) \/ TimerStampFails(p)
  \/ ForeignWrite
  \/ EditConfig

Spec == Init /\ [][Next]_vars

\* A running thread goes on; an armed timer goes off again and again, and the
\* stamp can be taken at one of its ticks after another.
FairSpec ==
  /\ Spec
  /\ \A p \in Process : WF_vars(ProgramStep(p)) /\ SF_vars(TimerStamp(p))

----------------------------------------------------------------------------
\* The stamp p keeps is the one of the file as it is.
UpToDate(p) == stamp[p] = FileStamp

\* A tick that could read the file never ends up with the stamp of a content
\* it did not load: when its stamp is that of the file as it is, and that is
\* valid, these are the rules in force, whoever wrote the file while the tick
\* was loading.  A tick whose read failed stores the stamp all the same.
TickIsFaithful ==
  [][\A p \in Process :
       tick[p] = "read" /\ candidate[p] # Unread /\ tick'[p] = "none" /\ pc'[p] # "off"
         => (UpToDate(p)' /\ disk' \in Document => rules'[p] = disk')]_vars

\* The timer is armed and its callback runs only while gReady is set: it finds
\* no half-initialised globals, and no window or command brings it back once
\* gReady is reset.  It survives NPPN_SHUTDOWN only together with gReady, when
\* saving the enabled state throws.
TimerOnlyWhenReady == \A p \in Process : armed[p] \/ tick[p] # "none" => Ready(p)

\* "the last valid rules are kept for an invalid file": no load, from the
\* file, a backup or the timer, empties the rules of a running process.
LastRulesKept ==
  [][\A p \in Process :
       rules[p] # NoRules /\ pc'[p] # "off" => rules'[p] # NoRules]_vars

\* A change of the file that the stamp tells of reaches the rules, unless the
\* file changes again, the user gives a command first, or the tick that took
\* the stamp of the change could not read the file: that tick stores the stamp,
\* and no later one looks again.
ChangeLoaded ==
  \A p \in Process, d \in Document :
    (pc[p] = "idle" /\ armed[p] /\ auto[p] /\ ~UpToDate(p) /\ disk = d)
      ~> (rules[p] = d \/ disk # d \/ pc[p] # "idle" \/ ~(armed[p] /\ auto[p])
            \/ (tick[p] = "read" /\ candidate[p] = Unread))
=============================================================================
