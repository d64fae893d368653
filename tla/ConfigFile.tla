----------------------------- MODULE ConfigFile -----------------------------
(***************************************************************************)
(* The life of config.json: every Notepad++ process loads it into gConfig, *)
(* the menu's toggle and the shutdown save gConfig into it, and the        *)
(* settings window saves a snapshot the user edits (Plugin.cpp,            *)
(* SettingsManager.cpp, ConfigStore.cpp).  A save reads the file, merges   *)
(* the settings it knows into it, and then replaces it: only the last step *)
(* is under the mutex, and nothing is compared.                            *)
(*                                                                         *)
(* Of the settings, the two that steer saving are told apart; the others   *)
(* are one value.                                                          *)
(***************************************************************************)
EXTENDS DataDirectory

CONSTANTS
  Other,      \* values of the settings other than the two below
  DefaultOther, \* their defaults
  Unknown,    \* values of the fields this version does not know
  NoUnknown,  \* no such fields
  NotJson,    \* it cannot be parsed
  Closed,     \* the settings window is closed
  Imports,    \* configurations of data packages
  Foreign,    \* what other programs leave in its place
  MayForget   \* whether the user ever clears rememberEnabledState

\* PluginConfig.
Settings == [pluginEnabled : BOOLEAN, rememberEnabledState : BOOLEAN, other : Other]
Defaults == [pluginEnabled |-> TRUE, rememberEnabledState |-> TRUE, other |-> DefaultOther]

\* A config.json that parses.  valid: its values are in range.  flat: a
\* section ("backup", "logging") is there and is not an object, which loading
\* tolerates.
Parsed == [settings : Settings, valid : BOOLEAN, flat : BOOLEAN,
           unknown : Unknown \cup {NoUnknown}]
File == Parsed \cup {Missing, NotJson}

ASSUME ConfigFileConstants ==
  /\ DefaultOther \in Other
  /\ NoUnknown \notin Unknown
  /\ Missing \notin Parsed /\ NotJson \notin Parsed /\ Missing # NotJson
  /\ Closed \notin Settings
  /\ Imports \subseteq {f \in Parsed : f.valid /\ ~f.flat}
  /\ Foreign \subseteq File
  /\ MayForget \in BOOLEAN
  /\ IOFailures \in BOOLEAN

VARIABLES
  file,     \* config.json
  pc,       \* pc[p]: where p's UI thread is
  gConfig,  \* gConfig[p]: the settings in force
  valid,    \* valid[p]: gConfigValid
  window,   \* window[p]: the settings window's controls, or Closed
  merged    \* merged[p]: what the save under way is about to write

vars == <<file, pc, gConfig, valid, window, merged>>

\* "toggle", "apply" and "quit" are the saves under way, by what began them;
\* "escaped": an exception has left the plugin through a callback of the host.
Saving == {"toggle", "apply", "quit"}
Phase == {"off", "create", "idle", "escaped"} \cup Saving

TypeOK ==
  /\ file \in File
  /\ pc \in [Process -> Phase]
  /\ gConfig \in [Process -> Settings]
  /\ valid \in [Process -> BOOLEAN]
  /\ window \in [Process -> Settings \cup {Closed}]
  /\ merged \in [Process -> Parsed]

\* Mutant of Merge: the settings are written as a new object.
MergeFresh(settings, f) ==
  [settings |-> settings, valid |-> TRUE, flat |-> FALSE, unknown |-> NoUnknown]

\* mergeConfigIntoJson, into the file as it was read or into a new object.
Merge(settings, f) ==
  [settings |-> settings, valid |-> TRUE, flat |-> FALSE,
   unknown |-> IF f = Missing THEN NoUnknown ELSE f.unknown]

Fresh == Merge(Defaults, Missing)

Init ==
  /\ file \in {Missing, Fresh}
        \cup [settings : {Defaults}, valid : {TRUE}, flat : {FALSE}, unknown : Unknown]
  /\ pc = [p \in Process |-> "off"]
  /\ gConfig = [p \in Process |-> Defaults]
  /\ valid = [p \in Process |-> FALSE]
  /\ window = [p \in Process |-> Closed]
  /\ merged = [p \in Process |-> Fresh]

\* loadConfiguration: a file that is not valid leaves the defaults in force
\* and forbids saving the enabled state over it.
Loadable(f) == f \in Parsed /\ f.valid

Load(p) ==
  /\ gConfig' = [gConfig EXCEPT ![p] = IF Loadable(file) THEN file.settings ELSE Defaults]
  /\ valid' = [valid EXCEPT ![p] = Loadable(file)]

----------------------------------------------------------------------------
\* initializePlugin with ensureDataFiles, when there is a config.json, ...
Start(p) ==
  /\ pc[p] = "off"
  /\ file # Missing
  /\ Load(p)
  /\ pc' = [pc EXCEPT ![p] = "idle"]
  /\ UNCHANGED <<file, window, merged>>

\* ... and when there is none: the defaults are written, whatever is there
\* by then.
StartMissing(p) ==
  /\ pc[p] = "off"
  /\ file = Missing
  /\ pc' = [pc EXCEPT ![p] = "create"]
  /\ UNCHANGED <<file, gConfig, valid, window, merged>>

CreateDefault(p) ==
  /\ pc[p] = "create"
  /\ file' = Fresh
  /\ gConfig' = [gConfig EXCEPT ![p] = Defaults]
  /\ valid' = [valid EXCEPT ![p] = TRUE]
  /\ pc' = [pc EXCEPT ![p] = "idle"]
  /\ UNCHANGED <<window, merged>>

\* The menu command "Reload settings and rules".
ReloadAll(p) ==
  /\ pc[p] = "idle"
  /\ Load(p)
  /\ UNCHANGED <<file, pc, window, merged>>

\* The beginning of saveConfigAtomic for `why`: read and merge.  A file that
\* does not parse is refused.  Merging into a section that is not an object
\* throws; beNotified catches that, a menu command or a window does not.
BeginSave(p, settings, why) ==
  \/ /\ file = NotJson
     /\ pc' = [pc EXCEPT ![p] = IF why = "quit" THEN "off" ELSE "idle"]
     /\ UNCHANGED merged
  \/ /\ file \in Parsed /\ file.flat
     /\ pc' = [pc EXCEPT ![p] = IF why = "quit" THEN "off" ELSE "escaped"]
     /\ UNCHANGED merged
  \/ /\ file = Missing \/ (file \in Parsed /\ ~file.flat)
     /\ merged' = [merged EXCEPT ![p] = Merge(settings, file)]
     /\ pc' = [pc EXCEPT ![p] = why]

\* Mutant of SavesState: gConfigValid is not looked at.
SavesUnlessForgetting(p, settings) == settings.rememberEnabledState

\* saveEnabledState saves only then.
SavesState(p, settings) == valid[p] /\ settings.rememberEnabledState

\* Mutant of ToggleEnabled: the state is saved before it is changed.
ToggleEnabledLate(p) ==
  /\ pc[p] = "idle"
  /\ gConfig' = [gConfig EXCEPT ![p].pluginEnabled = ~@]
  /\ IF SavesState(p, gConfig[p]) THEN BeginSave(p, gConfig[p], "toggle")
     ELSE UNCHANGED <<pc, merged>>
  /\ UNCHANGED <<file, valid, window>>

\* The menu command "Automatic replacement enabled".
ToggleEnabled(p) ==
  /\ pc[p] = "idle"
  /\ gConfig' = [gConfig EXCEPT ![p].pluginEnabled = ~@]
  /\ IF SavesState(p, gConfig'[p]) THEN BeginSave(p, gConfig'[p], "toggle")
     ELSE UNCHANGED <<pc, merged>>
  /\ UNCHANGED <<file, valid, window>>

\* NPPN_SHUTDOWN: the state is saved, the settings window's edits are not.
Shutdown(p) ==
  /\ pc[p] = "idle"
  /\ IF SavesState(p, gConfig[p]) THEN BeginSave(p, gConfig[p], "quit")
     ELSE pc' = [pc EXCEPT ![p] = "off"] /\ UNCHANGED merged
  /\ window' = [window EXCEPT ![p] = Closed]
  /\ UNCHANGED <<file, gConfig, valid>>

\* The settings window takes gConfig as it is when it opens.
OpenSettings(p) ==
  /\ pc[p] = "idle"
  /\ window[p] = Closed
  /\ window' = [window EXCEPT ![p] = gConfig[p]]
  /\ UNCHANGED <<file, pc, gConfig, valid, merged>>

EditSettings(p) ==
  /\ pc[p] = "idle"
  /\ window[p] # Closed
  /\ \E s \in Settings :
       /\ MayForget \/ s.rememberEnabledState
       /\ window' = [window EXCEPT ![p] = s]
  /\ UNCHANGED <<file, pc, gConfig, valid, merged>>

CloseSettings(p) ==
  /\ pc[p] = "idle"
  /\ window[p] # Closed
  /\ window' = [window EXCEPT ![p] = Closed]
  /\ UNCHANGED <<file, pc, gConfig, valid, merged>>

\* Mutant of SaveSettings: the window may be closed by the time it is handled.
SaveSettingsClosed(p) ==
  /\ pc[p] = "idle"
  /\ BeginSave(p, window[p], "apply")
  /\ UNCHANGED <<file, gConfig, valid, window>>

\* Its Save button.
SaveSettings(p) ==
  /\ pc[p] = "idle"
  /\ window[p] # Closed
  /\ BeginSave(p, window[p], "apply")
  /\ UNCHANGED <<file, gConfig, valid, window>>

\* The write that ends a save; one of the settings window is then applied
\* (applySavedSettings).
FinishSave(p) ==
  /\ pc[p] \in Saving
  /\ file' = merged[p]
  /\ pc' = [pc EXCEPT ![p] = IF @ = "quit" THEN "off" ELSE "idle"]
  /\ IF pc[p] = "apply"
     THEN /\ gConfig' = [gConfig EXCEPT ![p] = window[p]]
          /\ valid' = [valid EXCEPT ![p] = TRUE]
     ELSE UNCHANGED <<gConfig, valid>>
  /\ merged' = [merged EXCEPT ![p] = Fresh]
  /\ UNCHANGED window

\* The mutex times out or the write fails: the toggle is only logged, the
\* settings window keeps its input, a plugin that is starting gives up.
SaveFails(p) ==
  /\ IOFailures
  /\ pc[p] \in Saving \cup {"create"}
  /\ pc' = [pc EXCEPT ![p] = IF @ \in {"quit", "create"} THEN "off" ELSE "idle"]
  /\ merged' = [merged EXCEPT ![p] = Fresh]
  /\ UNCHANGED <<file, gConfig, valid, window>>

\* The config.json half of importPackage, and what the settings window and
\* reloadAfterPackageImport make of it.
ImportPackage(p) ==
  /\ pc[p] = "idle"
  /\ window[p] # Closed
  /\ file' \in Imports
  /\ gConfig' = [gConfig EXCEPT ![p] = file'.settings]
  /\ valid' = [valid EXCEPT ![p] = TRUE]
  /\ window' = [window EXCEPT ![p] = file'.settings]
  /\ UNCHANGED <<pc, merged>>

\* The process dies; the file is not touched by a save that has not ended.
Crash(p) ==
  /\ pc[p] # "off"
  /\ pc' = [pc EXCEPT ![p] = "off"]
  /\ window' = [window EXCEPT ![p] = Closed]
  /\ merged' = [merged EXCEPT ![p] = Fresh]
  /\ UNCHANGED <<file, gConfig, valid>>

\* Or it survives the exception: what the host does is not the plugin's.
HostCatches(p) ==
  /\ pc[p] = "escaped"
  /\ pc' = [pc EXCEPT ![p] = "idle"]
  /\ UNCHANGED <<file, gConfig, valid, window, merged>>

\* Another program replaces, breaks or removes the file.
ForeignWrite ==
  /\ file' \in Foreign
  /\ UNCHANGED <<pc, gConfig, valid, window, merged>>

Step(p) ==
  Start(p) \/ StartMissing(p) \/ CreateDefault(p) \/ ReloadAll(p) \/ ToggleEnabled(p)
    \/ Shutdown(p) \/ OpenSettings(p) \/ EditSettings(p) \/ CloseSettings(p)
    \/ SaveSettings(p) \/ FinishSave(p) \/ SaveFails(p) \/ ImportPackage(p)
    \/ Crash(p) \/ HostCatches(p)

Next ==
  \/ \E p \in Process : Step(p)
  \/ ForeignWrite

Spec == Init /\ [][Next]_vars

----------------------------------------------------------------------------
UnknownOf(f) == IF f \in Parsed THEN f.unknown ELSE NoUnknown

\* "future fields are kept": however the saves of several processes, their
\* settings windows and their shutdowns interleave, the fields this version
\* does not know survive in config.json.
UnknownKept == [][UnknownOf(file') = UnknownOf(file)]_vars

\* Its inductive core: what a save is about to write has the fields the file
\* has now.
MergedInv ==
  \A p \in Process :
    /\ pc[p] \in Saving => merged[p].unknown = UnknownOf(file)
    /\ pc[p] = "create" => UnknownOf(file) = NoUnknown

\* For a process alone: what it runs with is what it will find when it starts
\* again, but for an enabled state it was told not to remember, whatever
\* toggles, saves, imports and reloads led there.
StateIsSaved ==
  \A p \in Process :
    pc[p] = "idle" /\ valid[p] /\ Loadable(file) =>
      /\ file.settings.other = gConfig[p].other
      /\ file.settings.rememberEnabledState = gConfig[p].rememberEnabledState
      /\ gConfig[p].rememberEnabledState =>
           file.settings.pluginEnabled = gConfig[p].pluginEnabled

\* "Safe in-memory defaults are active": defaults in force because config.json
\* could not be used never reach it through a toggle or a shutdown, whatever
\* becomes of the file meanwhile.
DefaultsStayInMemory ==
  [][\A p \in Process :
       pc[p] \in {"toggle", "quit"} /\ pc'[p] # pc[p] /\ file' # file => valid[p]]_vars

\* No exception crosses the plugin's boundary into Notepad++.
NoEscape == \A p \in Process : pc[p] # "escaped"
=============================================================================
