------------------------ MODULE DataDirectoryProofs -------------------------
(***************************************************************************)
(* Proofs about ConfigFile and DataPackage, for any number of processes    *)
(* and any contents.  Of config.json: types, that the fields this version  *)
(* does not know survive, that no defaults are saved by mistake, and that  *)
(* a process alone finds its state.  Of packages: types, that an import    *)
(* can always be undone from its recovery directory, that it replaces both *)
(* files or neither, and that exports are valid.                           *)
(***************************************************************************)
EXTENDS ConfigFile, DataPackage, TLAPS

(***************************************************************************)
(* Types of ConfigFile.                                                    *)
(***************************************************************************)
\* TypeOK is inductive only with this: the window whose settings are being
\* saved stays open, so that there is something to apply.
AppliedOpen == \A p \in Process : pc[p] = "apply" => window[p] # Closed

LEMMA DefaultsTyped == Defaults \in Settings
BY ConfigFileConstants DEF Defaults, Settings

LEMMA FreshTyped == Fresh \in Parsed
BY DefaultsTyped DEF Fresh, Merge, Parsed

LEMMA MergeTyped ==
  ASSUME NEW s \in Settings, NEW f \in Parsed \cup {Missing}
  PROVE  Merge(s, f) \in Parsed
BY DEF Merge, Parsed

\* A save begins with a merged document, or ends at once.
LEMMA BeginSaveTyped ==
  ASSUME TypeOK, NEW p \in Process, NEW s \in Settings,
         NEW why \in Saving, BeginSave(p, s, why)
  PROVE  pc' \in [Process -> Phase] /\ merged' \in [Process -> Parsed]
<1>1. pc' \in [Process -> Phase]
  BY DEF BeginSave, TypeOK, Phase, Saving
<1>2. CASE UNCHANGED merged
  BY <1>1, <1>2 DEF TypeOK
<1>3. CASE file \in Parsed \cup {Missing} /\ merged' = [merged EXCEPT ![p] = Merge(s, file)]
  BY <1>1, <1>3, MergeTyped DEF TypeOK
<1>4. QED
  BY <1>2, <1>3 DEF BeginSave

LEMMA InitTyped == Init => TypeOK /\ AppliedOpen
<1> SUFFICES ASSUME Init PROVE TypeOK /\ AppliedOpen
  OBVIOUS
<1>1. file \in File
  BY DefaultsTyped, FreshTyped DEF Init, File, Parsed
<1>2. QED
  BY <1>1, DefaultsTyped, FreshTyped DEF Init, TypeOK, Phase, AppliedOpen

\* What loading puts in force is a complete set of settings.
LEMMA LoadTyped ==
  ASSUME TypeOK, NEW p \in Process, Load(p)
  PROVE  gConfig' \in [Process -> Settings] /\ valid' \in [Process -> BOOLEAN]
<1>1. Loadable(file) => file.settings \in Settings
  BY DEF Loadable, Parsed
<1>2. Loadable(file) \in BOOLEAN
  BY DEF Loadable
<1>3. PICK s \in Settings : s = IF Loadable(file) THEN file.settings ELSE Defaults
  BY <1>1, DefaultsTyped
<1>4. gConfig' = [gConfig EXCEPT ![p] = s]
  BY <1>3 DEF Load
<1>5. QED
  BY <1>2, <1>4 DEF Load, TypeOK

\* The toggle changes one field of the settings.
LEMMA ToggledTyped ==
  ASSUME TypeOK, NEW p \in Process,
         gConfig' = [gConfig EXCEPT ![p].pluginEnabled = ~@]
  PROVE  gConfig' \in [Process -> Settings]
<1>1. PICK s : s = [gConfig[p] EXCEPT !.pluginEnabled = ~@]
  OBVIOUS
<1>2. s \in Settings
  BY <1>1 DEF TypeOK, Settings
<1>3. gConfig' = [gConfig EXCEPT ![p] = s]
  BY <1>1
<1>4. QED
  BY <1>2, <1>3 DEF TypeOK

LEMMA StepTyped ==
  ASSUME TypeOK, AppliedOpen, [Next]_vars
  PROVE  TypeOK' /\ AppliedOpen'
<1> USE DEF AppliedOpen
<1> DEFINE Goal == TypeOK' /\ AppliedOpen'
<1>1. ASSUME NEW p \in Process, Start(p) PROVE Goal
  BY <1>1, LoadTyped DEF Start, TypeOK, Phase
<1>2. ASSUME NEW p \in Process, StartMissing(p) PROVE Goal
  BY <1>2 DEF StartMissing, TypeOK, Phase
<1>3. ASSUME NEW p \in Process, CreateDefault(p) PROVE Goal
  BY <1>3, FreshTyped, DefaultsTyped DEF CreateDefault, TypeOK, Phase, File
<1>4. ASSUME NEW p \in Process, ReloadAll(p) PROVE Goal
  BY <1>4, LoadTyped DEF ReloadAll, TypeOK
<1>5. ASSUME NEW p \in Process, ToggleEnabled(p) PROVE Goal
  <2>1. PICK s : s = gConfig'[p]
    OBVIOUS
  <2>2. gConfig' \in [Process -> Settings] /\ s \in Settings
    BY <1>5, <2>1, ToggledTyped DEF ToggleEnabled
  <2>3. BeginSave(p, s, "toggle") \/ UNCHANGED <<pc, merged>>
    BY <1>5, <2>1 DEF ToggleEnabled
  <2>4. CASE BeginSave(p, s, "toggle")
    <3>1. pc' \in [Process -> Phase] /\ merged' \in [Process -> Parsed]
      BY <2>2, <2>4, BeginSaveTyped DEF Saving
    <3>2. \A q \in Process : pc'[q] = "apply" => pc[q] = "apply"
      BY <2>4 DEF BeginSave, TypeOK
    <3>3. QED
      BY <1>5, <2>2, <3>1, <3>2 DEF ToggleEnabled, TypeOK
  <2>5. CASE UNCHANGED <<pc, merged>>
    BY <1>5, <2>2, <2>5 DEF ToggleEnabled, TypeOK
  <2>6. QED
    BY <2>3, <2>4, <2>5
<1>6. ASSUME NEW p \in Process, Shutdown(p) PROVE Goal
  <2>1. PICK s \in Settings : s = gConfig[p]
    BY DEF TypeOK
  <2>2. \/ BeginSave(p, s, "quit")
        \/ pc' = [pc EXCEPT ![p] = "off"] /\ UNCHANGED merged
    BY <1>6, <2>1 DEF Shutdown
  <2>3. pc' \in [Process -> Phase] /\ merged' \in [Process -> Parsed]
    <3>1. CASE BeginSave(p, s, "quit")
      BY <3>1, BeginSaveTyped DEF Saving
    <3>2. CASE pc' = [pc EXCEPT ![p] = "off"] /\ UNCHANGED merged
      BY <3>2 DEF TypeOK, Phase
    <3>3. QED
      BY <2>2, <3>1, <3>2
  <2>4. \A q \in Process : pc'[q] = "apply" => pc[q] = "apply" /\ q # p
    BY <1>6, <2>2 DEF BeginSave, Shutdown, TypeOK
  <2>5. QED
    BY <1>6, <2>3, <2>4 DEF Shutdown, TypeOK
<1>7. ASSUME NEW p \in Process, OpenSettings(p) PROVE Goal
  BY <1>7 DEF OpenSettings, TypeOK
<1>8. ASSUME NEW p \in Process, EditSettings(p) PROVE Goal
  BY <1>8 DEF EditSettings, TypeOK
<1>9. ASSUME NEW p \in Process, CloseSettings(p) PROVE Goal
  BY <1>9 DEF CloseSettings, TypeOK
<1>10. ASSUME NEW p \in Process, SaveSettings(p) PROVE Goal
  <2>1. PICK s \in Settings : s = window[p]
    BY <1>10 DEF SaveSettings, TypeOK
  <2>2. BeginSave(p, s, "apply")
    BY <1>10, <2>1 DEF SaveSettings
  <2>3. pc' \in [Process -> Phase] /\ merged' \in [Process -> Parsed]
    BY <2>2, BeginSaveTyped DEF Saving
  <2>4. \A q \in Process : pc'[q] = "apply" => window[q] # Closed
    BY <1>10, <2>2 DEF BeginSave, SaveSettings, TypeOK
  <2>5. QED
    BY <1>10, <2>3, <2>4 DEF SaveSettings, TypeOK
<1>11. ASSUME NEW p \in Process, FinishSave(p) PROVE Goal
  <2>1. file' \in File
    BY <1>11 DEF FinishSave, TypeOK, File
  <2>2. pc' \in [Process -> Phase] /\ merged' \in [Process -> Parsed]
    BY <1>11, FreshTyped DEF FinishSave, TypeOK, Phase, Saving
  <2>3. gConfig' \in [Process -> Settings] /\ valid' \in [Process -> BOOLEAN]
    BY <1>11 DEF FinishSave, TypeOK
  <2>4. QED
    BY <1>11, <2>1, <2>2, <2>3 DEF FinishSave, TypeOK
<1>12. ASSUME NEW p \in Process, SaveFails(p) PROVE Goal
  BY <1>12, FreshTyped DEF SaveFails, TypeOK, Phase
<1>13. ASSUME NEW p \in Process, ImportPackage(p) PROVE Goal
  <2>1. file' \in Parsed
    BY <1>13, ConfigFileConstants DEF ImportPackage
  <2>2. PICK s \in Settings : s = file'.settings
    BY <2>1 DEF Parsed
  <2>3. s # Closed
    BY <2>2, ConfigFileConstants
  <2>4. gConfig' = [gConfig EXCEPT ![p] = s] /\ window' = [window EXCEPT ![p] = s]
    BY <1>13, <2>2 DEF ImportPackage
  <2>5. QED
    BY <1>13, <2>1, <2>3, <2>4 DEF ImportPackage, TypeOK, File
<1>14. ASSUME NEW p \in Process, Crash(p) PROVE Goal
  BY <1>14, FreshTyped DEF Crash, TypeOK, Phase
<1>15. ASSUME NEW p \in Process, HostCatches(p) PROVE Goal
  BY <1>15 DEF HostCatches, TypeOK, Phase
<1>16. ASSUME ForeignWrite PROVE Goal
  BY <1>16, ConfigFileConstants DEF ForeignWrite, TypeOK
<1>17. CASE UNCHANGED vars
  BY <1>17 DEF vars, TypeOK
<1>18. QED
  BY <1>1, <1>2, <1>3, <1>4, <1>5, <1>6, <1>7, <1>8, <1>9, <1>10, <1>11, <1>12,
     <1>13, <1>14, <1>15, <1>16, <1>17
     DEF Next, Step

(***************************************************************************)
(* Unknown fields.                                                         *)
(***************************************************************************)
LEMMA StepUnknown ==
  ASSUME Imports = {}, Foreign = {}, TypeOK, MergedInv, [Next]_vars
  PROVE  UnknownOf(file') = UnknownOf(file) /\ MergedInv'
<1> USE ConfigFileConstants DEF TypeOK, MergedInv, UnknownOf, File, Saving
<1>1. ASSUME NEW p \in Process, Start(p) PROVE UnknownOf(file') = UnknownOf(file) /\ MergedInv'
  BY <1>1 DEF Start, Load, Loadable
<1>2. ASSUME NEW p \in Process, StartMissing(p) PROVE UnknownOf(file') = UnknownOf(file) /\ MergedInv'
  BY <1>2 DEF StartMissing
<1>3. ASSUME NEW p \in Process, CreateDefault(p) PROVE UnknownOf(file') = UnknownOf(file) /\ MergedInv'
  BY <1>3 DEF CreateDefault, Fresh, Merge
<1>4. ASSUME NEW p \in Process, ReloadAll(p) PROVE UnknownOf(file') = UnknownOf(file) /\ MergedInv'
  BY <1>4 DEF ReloadAll, Load, Loadable
<1>5. ASSUME NEW p \in Process, ToggleEnabled(p) PROVE UnknownOf(file') = UnknownOf(file) /\ MergedInv'
  BY <1>5 DEF ToggleEnabled, BeginSave, Merge
<1>6. ASSUME NEW p \in Process, Shutdown(p) PROVE UnknownOf(file') = UnknownOf(file) /\ MergedInv'
  BY <1>6 DEF Shutdown, BeginSave, Merge
<1>7. ASSUME NEW p \in Process, OpenSettings(p) PROVE UnknownOf(file') = UnknownOf(file) /\ MergedInv'
  BY <1>7 DEF OpenSettings
<1>8. ASSUME NEW p \in Process, EditSettings(p) PROVE UnknownOf(file') = UnknownOf(file) /\ MergedInv'
  BY <1>8 DEF EditSettings
<1>9. ASSUME NEW p \in Process, CloseSettings(p) PROVE UnknownOf(file') = UnknownOf(file) /\ MergedInv'
  BY <1>9 DEF CloseSettings
<1>10. ASSUME NEW p \in Process, SaveSettings(p) PROVE UnknownOf(file') = UnknownOf(file) /\ MergedInv'
  BY <1>10 DEF SaveSettings, BeginSave, Merge
<1>11. ASSUME NEW p \in Process, FinishSave(p) PROVE UnknownOf(file') = UnknownOf(file) /\ MergedInv'
  BY <1>11 DEF FinishSave, Fresh, Merge
<1>12. ASSUME NEW p \in Process, SaveFails(p) PROVE UnknownOf(file') = UnknownOf(file) /\ MergedInv'
  BY <1>12 DEF SaveFails, Fresh, Merge
<1>13. ASSUME NEW p \in Process, ImportPackage(p) PROVE UnknownOf(file') = UnknownOf(file) /\ MergedInv'
  BY <1>13 DEF ImportPackage
<1>14. ASSUME NEW p \in Process, Crash(p) PROVE UnknownOf(file') = UnknownOf(file) /\ MergedInv'
  BY <1>14 DEF Crash, Fresh, Merge
<1>15. ASSUME NEW p \in Process, HostCatches(p) PROVE UnknownOf(file') = UnknownOf(file) /\ MergedInv'
  BY <1>15 DEF HostCatches
<1>16. ASSUME ForeignWrite PROVE UnknownOf(file') = UnknownOf(file) /\ MergedInv'
  BY <1>16 DEF ForeignWrite
<1>17. CASE UNCHANGED vars
  BY <1>17 DEF vars
<1>18. QED
  BY <1>1, <1>2, <1>3, <1>4, <1>5, <1>6, <1>7, <1>8, <1>9, <1>10, <1>11, <1>12,
     <1>13, <1>14, <1>15, <1>16, <1>17
     DEF Next, Step

(***************************************************************************)
(* Defaults.                                                               *)
(***************************************************************************)
\* A save of the enabled state is only under way in a process that has loaded
\* or written a valid file.
StateSavedIfValid == \A p \in Process : pc[p] \in {"toggle", "quit"} => valid[p]

LEMMA StepDefaults ==
  ASSUME TypeOK, StateSavedIfValid, [Next]_vars
  PROVE  StateSavedIfValid'
<1> USE DEF TypeOK, StateSavedIfValid
<1>1. ASSUME NEW p \in Process, Start(p) PROVE StateSavedIfValid'
  BY <1>1 DEF Start, Load
<1>2. ASSUME NEW p \in Process, StartMissing(p) PROVE StateSavedIfValid'
  BY <1>2 DEF StartMissing
<1>3. ASSUME NEW p \in Process, CreateDefault(p) PROVE StateSavedIfValid'
  BY <1>3 DEF CreateDefault
<1>4. ASSUME NEW p \in Process, ReloadAll(p) PROVE StateSavedIfValid'
  BY <1>4 DEF ReloadAll, Load
<1>5. ASSUME NEW p \in Process, ToggleEnabled(p) PROVE StateSavedIfValid'
  BY <1>5 DEF ToggleEnabled, SavesState, BeginSave
<1>6. ASSUME NEW p \in Process, Shutdown(p) PROVE StateSavedIfValid'
  BY <1>6 DEF Shutdown, SavesState, BeginSave
<1>7. ASSUME NEW p \in Process, OpenSettings(p) PROVE StateSavedIfValid'
  BY <1>7 DEF OpenSettings
<1>8. ASSUME NEW p \in Process, EditSettings(p) PROVE StateSavedIfValid'
  BY <1>8 DEF EditSettings
<1>9. ASSUME NEW p \in Process, CloseSettings(p) PROVE StateSavedIfValid'
  BY <1>9 DEF CloseSettings
<1>10. ASSUME NEW p \in Process, SaveSettings(p) PROVE StateSavedIfValid'
  BY <1>10 DEF SaveSettings, BeginSave
<1>11. ASSUME NEW p \in Process, FinishSave(p) PROVE StateSavedIfValid'
  BY <1>11 DEF FinishSave
<1>12. ASSUME NEW p \in Process, SaveFails(p) PROVE StateSavedIfValid'
  BY <1>12 DEF SaveFails
<1>13. ASSUME NEW p \in Process, ImportPackage(p) PROVE StateSavedIfValid'
  BY <1>13 DEF ImportPackage
<1>14. ASSUME NEW p \in Process, Crash(p) PROVE StateSavedIfValid'
  BY <1>14 DEF Crash
<1>15. ASSUME NEW p \in Process, HostCatches(p) PROVE StateSavedIfValid'
  BY <1>15 DEF HostCatches
<1>16. ASSUME ForeignWrite PROVE StateSavedIfValid'
  BY <1>16 DEF ForeignWrite
<1>17. CASE UNCHANGED vars
  BY <1>17 DEF vars
<1>18. QED
  BY <1>1, <1>2, <1>3, <1>4, <1>5, <1>6, <1>7, <1>8, <1>9, <1>10, <1>11, <1>12,
     <1>13, <1>14, <1>15, <1>16, <1>17
     DEF Next, Step

(***************************************************************************)
(* A process alone.                                                        *)
(***************************************************************************)
\* What is about to be written is what will be in force, and a file that can
\* be loaded can also be merged into.
SavedInv ==
  /\ StateIsSaved
  /\ Loadable(file) => ~file.flat
  /\ \A p \in Process :
       /\ ~merged[p].flat
       /\ pc[p] = "toggle" => merged[p].settings = gConfig[p]
       /\ pc[p] = "apply" => merged[p].settings = window[p]
       /\ pc[p] = "escaped" => ~Loadable(file)

LEMMA MergeParts ==
  ASSUME NEW s, NEW f
  PROVE  Merge(s, f).settings = s /\ Merge(s, f).valid /\ ~Merge(s, f).flat
BY DEF Merge

LEMMA FreshParts == Fresh.settings = Defaults /\ Fresh.valid /\ ~Fresh.flat
BY MergeParts DEF Fresh

LEMMA InitSaved == Init => SavedInv
<1> SUFFICES ASSUME Init PROVE SavedInv
  OBVIOUS
<1>1. \A p \in Process : pc[p] = "off" /\ ~merged[p].flat
  BY FreshParts DEF Init
<1>2. Loadable(file) => ~file.flat
  BY FreshParts, ConfigFileConstants DEF Init, Loadable
<1> QED BY <1>1, <1>2 DEF SavedInv, StateIsSaved

\* The beginning of a save, of the settings the step leaves in force or in the window.
LEMMA BeginSaved ==
  ASSUME NEW P, Process = {P}, TypeOK, SavedInv, UNCHANGED file,
         NEW s, NEW why \in Saving, BeginSave(P, s, why), pc[P] = "idle",
         why = "toggle" => s = gConfig'[P],
         why = "apply" => s = window'[P] /\ gConfig'[P] = gConfig[P] /\ valid'[P] = valid[P]
  PROVE  SavedInv'
<1> USE DEF TypeOK, SavedInv, StateIsSaved, Saving
<1>1. CASE /\ file = NotJson
           /\ pc' = [pc EXCEPT ![P] = IF why = "quit" THEN "off" ELSE "idle"]
           /\ UNCHANGED merged
  BY <1>1, ConfigFileConstants DEF Loadable
<1>2. CASE /\ file \in Parsed /\ file.flat
           /\ pc' = [pc EXCEPT ![P] = IF why = "quit" THEN "off" ELSE "escaped"]
           /\ UNCHANGED merged
  BY <1>2
<1>3. CASE /\ merged' = [merged EXCEPT ![P] = Merge(s, file)]
           /\ pc' = [pc EXCEPT ![P] = why]
  BY <1>3, MergeParts
<1> QED BY <1>1, <1>2, <1>3 DEF BeginSave

LEMMA StepSaved ==
  ASSUME NEW P, Process = {P}, IOFailures = FALSE, \A f \in Foreign : ~Loadable(f),
         TypeOK, SavedInv, [Next]_vars
  PROVE  SavedInv'
<1> USE ConfigFileConstants DEF TypeOK, SavedInv, StateIsSaved, Loadable, Saving
<1>1. ASSUME NEW p \in Process, Start(p) PROVE SavedInv'
  BY <1>1 DEF Start, Load
<1>2. ASSUME NEW p \in Process, StartMissing(p) PROVE SavedInv'
  BY <1>2 DEF StartMissing
<1>3. ASSUME NEW p \in Process, CreateDefault(p) PROVE SavedInv'
  BY <1>3, FreshParts DEF CreateDefault
<1>4. ASSUME NEW p \in Process, ReloadAll(p) PROVE SavedInv'
  BY <1>4 DEF ReloadAll, Load
<1>5. ASSUME NEW p \in Process, ToggleEnabled(p) PROVE SavedInv'
  <2>1. CASE SavesState(p, gConfig'[p])
    <3>1. BeginSave(P, gConfig'[P], "toggle")
      BY <1>5, <2>1 DEF ToggleEnabled
    <3> QED BY <1>5, <3>1, BeginSaved DEF ToggleEnabled
  <2>2. CASE ~SavesState(p, gConfig'[p])
    <3> DEFINE s == [gConfig[p] EXCEPT !.pluginEnabled = ~@]
    <3>1. gConfig'[p] = s
      BY <1>5 DEF ToggleEnabled
    <3>2. /\ s.other = gConfig[p].other
          /\ s.rememberEnabledState = gConfig[p].rememberEnabledState
      BY DEF Settings
    <3>3. UNCHANGED <<pc, merged, file, valid, window>> /\ pc[p] = "idle"
      BY <1>5, <2>2 DEF ToggleEnabled
    <3>4. ~valid[p] \/ ~gConfig[p].rememberEnabledState
      BY <2>2, <3>1, <3>2, <3>3 DEF SavesState
    <3> HIDE DEF s
    <3> QED BY <3>1, <3>2, <3>3, <3>4
  <2> QED BY <2>1, <2>2
<1>6. ASSUME NEW p \in Process, Shutdown(p) PROVE SavedInv'
  <2>1. CASE BeginSave(p, gConfig[p], "quit")
    BY <1>6, <2>1, BeginSaved DEF Shutdown
  <2>2. CASE pc' = [pc EXCEPT ![p] = "off"] /\ UNCHANGED merged
    BY <1>6, <2>2 DEF Shutdown
  <2> QED BY <1>6, <2>1, <2>2 DEF Shutdown
<1>7. ASSUME NEW p \in Process, OpenSettings(p) PROVE SavedInv'
  BY <1>7 DEF OpenSettings
<1>8. ASSUME NEW p \in Process, EditSettings(p) PROVE SavedInv'
  BY <1>8 DEF EditSettings
<1>9. ASSUME NEW p \in Process, CloseSettings(p) PROVE SavedInv'
  BY <1>9 DEF CloseSettings
<1>10. ASSUME NEW p \in Process, SaveSettings(p) PROVE SavedInv'
  BY <1>10, BeginSaved DEF SaveSettings
<1>11. ASSUME NEW p \in Process, FinishSave(p) PROVE SavedInv'
  <2>1. merged' = [merged EXCEPT ![p] = Fresh] /\ ~merged'[p].flat /\ ~file'.flat
    BY <1>11, FreshParts DEF FinishSave
  <2>2. CASE pc[p] = "toggle"
    BY <1>11, <2>1, <2>2 DEF FinishSave
  <2>3. CASE pc[p] = "apply"
    BY <1>11, <2>1, <2>3 DEF FinishSave
  <2>4. CASE pc[p] = "quit"
    BY <1>11, <2>1, <2>4 DEF FinishSave
  <2> QED BY <1>11, <2>2, <2>3, <2>4 DEF FinishSave
<1>12. ASSUME NEW p \in Process, SaveFails(p) PROVE SavedInv'
  BY <1>12 DEF SaveFails
<1>13. ASSUME NEW p \in Process, ImportPackage(p) PROVE SavedInv'
  BY <1>13 DEF ImportPackage
<1>14. ASSUME NEW p \in Process, Crash(p) PROVE SavedInv'
  BY <1>14, FreshParts DEF Crash
<1>15. ASSUME NEW p \in Process, HostCatches(p) PROVE SavedInv'
  BY <1>15 DEF HostCatches
<1>16. ASSUME ForeignWrite PROVE SavedInv'
  BY <1>16 DEF ForeignWrite
<1>17. CASE UNCHANGED vars
  BY <1>17 DEF vars
<1>18. QED
  BY <1>1, <1>2, <1>3, <1>4, <1>5, <1>6, <1>7, <1>8, <1>9, <1>10, <1>11, <1>12,
     <1>13, <1>14, <1>15, <1>16, <1>17
     DEF Next, Step

(***************************************************************************)
(* The theorems.                                                           *)
(***************************************************************************)

\* Every variable keeps its type: whatever other programs do to config.json,
\* gConfig is a complete set of settings and a save writes a complete file.
THEOREM Typed == Spec => []TypeOK
<1>1. TypeOK /\ AppliedOpen /\ [Next]_vars => TypeOK' /\ AppliedOpen'
  BY StepTyped
<1>2. QED
  BY InitTyped, <1>1, PTL DEF Spec

\* When only NppQuickReplace saves the file, the fields it does not know are
\* the same for ever, although every save reads them before it has the mutex.
THEOREM UnknownFieldsSurvive ==
  ASSUME Imports = {}, Foreign = {}
  PROVE  Spec => []MergedInv /\ UnknownKept
<1>1. Init => MergedInv
  BY DEF Init, MergedInv, Saving
<1>2. TypeOK /\ MergedInv /\ [Next]_vars => MergedInv'
  BY StepUnknown, Imports = {}, Foreign = {}
<1>3. TypeOK /\ MergedInv /\ [Next]_vars => [UnknownOf(file') = UnknownOf(file)]_vars
  BY StepUnknown, Imports = {}, Foreign = {}
<1>4. QED
  BY <1>1, <1>2, <1>3, Typed, PTL DEF Spec, UnknownKept

\* Defaults that are in force because config.json could not be used are never
\* saved by a toggle or a shutdown, in any number of processes.
THEOREM DefaultsAreNotSaved == Spec => DefaultsStayInMemory
<1>1. Init => StateSavedIfValid
  BY DEF Init, StateSavedIfValid
<1>2. TypeOK /\ StateSavedIfValid /\ [Next]_vars => StateSavedIfValid'
  BY StepDefaults
<1>3. StateSavedIfValid =>
        [\A p \in Process :
           pc[p] \in {"toggle", "quit"} /\ pc'[p] # pc[p] /\ file' # file => valid[p]]_vars
  BY DEF StateSavedIfValid
<1>4. QED
  BY <1>1, <1>2, <1>3, Typed, PTL DEF Spec, DefaultsStayInMemory

\* A process that is alone finds again what it runs with, whatever its settings
\* are, as long as no write fails and other programs only break or remove the
\* file: with a second process or with a toggle that is not written it need not.
THEOREM StateSurvives ==
  ASSUME NEW P, Process = {P}, IOFailures = FALSE, \A f \in Foreign : ~Loadable(f)
  PROVE  Spec => []StateIsSaved
<1>1. TypeOK /\ SavedInv /\ [Next]_vars => SavedInv'
  BY StepSaved, Process = {P}, IOFailures = FALSE, \A f \in Foreign : ~Loadable(f)
<1>2. SavedInv => StateIsSaved
  BY DEF SavedInv
<1>3. QED
  BY InitSaved, <1>1, <1>2, Typed, PTL DEF Spec

(***************************************************************************)
(* Types of DataPackage.                                                   *)
(***************************************************************************)
LEMMA ValidAreFiles == Valid \subseteq Files /\ Nothing \in Files
BY DEF Valid, Files, Nothing

\* What Finish leaves is typed.
LEMMA FinishTyped ==
  ASSUME PackageTypeOK, NEW p \in Process, NEW how \in Outcome, Finish(p, how)
  PROVE  /\ stage' \in [Process -> PackagePhase]
         /\ job' \in [Process -> Files]
         /\ outcome' \in [Process -> Outcome]
         /\ \A q \in Process : stage'[q] \in PackagePhase \ {"idle", "exporting"} => job'[q] \in Valid
BY ValidAreFiles DEF Finish, Goto, PackageTypeOK, PackagePhase

LEMMA WrittenByTyped ==
  ASSUME PackageTypeOK, NEW S, NEW files \in Files, WrittenBy(S, files)
  PROVE  disk' \in Files /\ before' \in [Process -> Files \cup {Touched}]
BY DEF WrittenBy, PackageTypeOK

LEMMA PackageInitTyped == PackageInit => PackageTypeOK
BY ValidAreFiles DEF PackageInit, PackageTypeOK, PackagePhase, Outcome

LEMMA PackageStepTyped == PackageTypeOK /\ [PackageNext]_packageVars => PackageTypeOK'
<1> SUFFICES ASSUME PackageTypeOK, [PackageNext]_packageVars PROVE PackageTypeOK'
  OBVIOUS
<1>1. ASSUME NEW p \in Process, ExportConfig(p) PROVE PackageTypeOK'
  <2>1. [Nothing EXCEPT !.config = disk.config] \in Files
    BY DEF PackageTypeOK, Files, Nothing
  <2>2. QED
    BY <1>1, <2>1 DEF ExportConfig, Goto, PackageTypeOK, PackagePhase, Outcome
<1>2. ASSUME NEW p \in Process, ExportRules(p) PROVE PackageTypeOK'
  <2>1. [job[p] EXCEPT !.rules = disk.rules] = [config |-> job[p].config, rules |-> disk.rules]
    BY DEF PackageTypeOK, Files
  <2>2. job' = [job EXCEPT ![p] = [config |-> job[p].config, rules |-> disk.rules]]
    BY <1>2, <2>1 DEF ExportRules
  <2>3. QED
    BY <1>2, <2>2, ValidAreFiles DEF ExportRules, Goto, PackageTypeOK, PackagePhase
<1>3. ASSUME NEW p \in Process, ExportRefused(p) PROVE PackageTypeOK'
  BY <1>3, FinishTyped DEF ExportRefused, PackageTypeOK, Outcome
<1>4. ASSUME NEW p \in Process, WriteExport(p) PROVE PackageTypeOK'
  BY <1>4, FinishTyped DEF WriteExport, PackageTypeOK, Outcome
<1>5. ASSUME NEW p \in Process, WriteExportFails(p) PROVE PackageTypeOK'
  BY <1>5, FinishTyped DEF WriteExportFails, PackageTypeOK, Outcome
<1>6. ASSUME NEW p \in Process, Import(p) PROVE PackageTypeOK'
  BY <1>6 DEF Import, Begin, Goto, PackageTypeOK, PackagePhase, Outcome
<1>7. ASSUME NEW p \in Process, ImportRefused(p) PROVE PackageTypeOK'
  <2>1. before' \in [Process -> Files \cup {Touched}]
    BY <1>7 DEF ImportRefused, Begin, PackageTypeOK
  <2>2. QED
    BY <1>7, <2>1, FinishTyped DEF ImportRefused, PackageTypeOK, Outcome
<1>8. ASSUME NEW p \in Process, MakeDirectory(p) PROVE PackageTypeOK'
  BY <1>8, ValidAreFiles DEF MakeDirectory, Goto, PackageTypeOK, PackagePhase
<1>9. ASSUME NEW p \in Process, CopyConfig(p) PROVE PackageTypeOK'
  <2>1. [recovery[p] EXCEPT !.config = disk.config] \in Files
    BY DEF PackageTypeOK, Files
  <2>2. recovery' \in [Process -> Files]
    BY <1>9, <2>1 DEF CopyConfig, PackageTypeOK
  <2>3. QED
    BY <1>9, <2>2 DEF CopyConfig, Goto, PackageTypeOK, PackagePhase
<1>10. ASSUME NEW p \in Process, CopyRules(p) PROVE PackageTypeOK'
  <2>1. [recovery[p] EXCEPT !.rules = disk.rules] \in Files
    BY DEF PackageTypeOK, Files
  <2>2. recovery' \in [Process -> Files]
    BY <1>10, <2>1 DEF CopyRules, PackageTypeOK
  <2>3. QED
    BY <1>10, <2>2 DEF CopyRules, Goto, PackageTypeOK, PackagePhase
<1>11. ASSUME NEW p \in Process, GiveUp(p) PROVE PackageTypeOK'
  BY <1>11, FinishTyped DEF GiveUp, PackageTypeOK, Outcome
<1>12. ASSUME NEW p \in Process, WriteConfig(p) PROVE PackageTypeOK'
  <2>1. [disk EXCEPT !.config = job[p].config] \in Files
    BY DEF PackageTypeOK, Files
  <2>2. QED
    BY <1>12, <2>1, WrittenByTyped DEF WriteConfig, Goto, PackageTypeOK, PackagePhase
<1>13. ASSUME NEW p \in Process, WriteRules(p) PROVE PackageTypeOK'
  <2>1. [disk EXCEPT !.rules = job[p].rules] \in Files
    BY DEF PackageTypeOK, Files
  <2>2. QED
    BY <1>13, <2>1, WrittenByTyped, FinishTyped DEF WriteRules, PackageTypeOK, Outcome
<1>14. ASSUME NEW p \in Process, WriteRulesFails(p) PROVE PackageTypeOK'
  BY <1>14 DEF WriteRulesFails, Goto, PackageTypeOK, PackagePhase
<1>15. ASSUME NEW p \in Process, RollBack(p) PROVE PackageTypeOK'
  <2>1. [disk EXCEPT !.config = recovery[p].config] \in Files
    BY DEF PackageTypeOK, Files
  <2>2. QED
    BY <1>15, <2>1, WrittenByTyped, FinishTyped DEF RollBack, PackageTypeOK, Outcome
<1>16. ASSUME NEW p \in Process, RollBackFails(p) PROVE PackageTypeOK'
  BY <1>16, FinishTyped DEF RollBackFails, PackageTypeOK, Outcome
<1>17. ASSUME NEW p \in Process, PackageCrash(p) PROVE PackageTypeOK'
  BY <1>17, FinishTyped DEF PackageCrash, PackageTypeOK, Outcome
<1>18. ASSUME NEW files \in Others, OtherWrites(files) PROVE PackageTypeOK'
  BY <1>18, WrittenByTyped, DataPackageConstants DEF OtherWrites, PackageTypeOK, Files
<1>19. ASSUME NEW files \in Others, PickAnother(files) PROVE PackageTypeOK'
  BY <1>19, DataPackageConstants DEF PickAnother, PackageTypeOK, Files
<1>20. CASE UNCHANGED packageVars
  BY <1>20 DEF packageVars, PackageTypeOK
<1>21. QED
  BY <1>1, <1>2, <1>3, <1>4, <1>5, <1>6, <1>7, <1>8, <1>9, <1>10, <1>11, <1>12, <1>13,
     <1>14, <1>15, <1>16, <1>17, <1>18, <1>19, <1>20 DEF PackageNext

\* Every variable keeps its type: an import under way has a valid package, and
\* the recovery directory never holds anything but copies of the files.
THEOREM PackageTyped == PackageSpec => []PackageTypeOK
<1>1. QED
  BY PackageInitTyped, PackageStepTyped, PTL DEF PackageSpec

(***************************************************************************)
(* Recovery.                                                               *)
(***************************************************************************)
Same(f, g) == f.config = g.config /\ f.rules = g.rules

\* What an import has copied and written at each place, if no one else wrote
\* the files since it began.
Underway(p) ==
  /\ stage[p] \in {"validated", "directory", "configCopied", "copied"} => Same(disk, before[p])
  /\ stage[p] = "configCopied" => recovery[p].config = before[p].config
  /\ stage[p] \in {"copied", "configWritten", "rollback"} => Same(recovery[p], before[p])
  /\ stage[p] \in {"configWritten", "rollback"} =>
       disk.config = job[p].config /\ disk.rules = before[p].rules

Undoable(p) ==
  /\ disk.config # before[p].config => recovery[p].config = before[p].config
  /\ disk.rules # before[p].rules => recovery[p].rules = before[p].rules

Untouched(p) == before[p] # Touched => Underway(p) /\ Undoable(p)

\* A step of one process.
ProcessStep(p) ==
  \/ ExportConfig(p) \/ ExportRules(p) \/ ExportRefused(p)
  \/ WriteExport(p) \/ WriteExportFails(p)
  \/ Import(p) \/ ImportRefused(p) \/ MakeDirectory(p)
  \/ CopyConfig(p) \/ CopyRules(p) \/ GiveUp(p)
  \/ WriteConfig(p) \/ WriteRules(p) \/ WriteRulesFails(p)
  \/ RollBack(p) \/ RollBackFails(p) \/ PackageCrash(p)

\* The steps of a process that do not write the files of the directory leave
\* what the others rely on.
LEMMA OthersUntouched ==
  ASSUME NEW q \in Process, Untouched(q),
         stage'[q] = stage[q], job'[q] = job[q], recovery'[q] = recovery[q],
         (disk' = disk /\ before'[q] = before[q]) \/ before'[q] = Touched
  PROVE  Untouched(q)'
BY DEF Untouched, Underway, Undoable, Same

LEMMA StepUntouched ==
  ASSUME PackageTypeOK, \A q \in Process : Untouched(q), [PackageNext]_packageVars
  PROVE  \A q \in Process : Untouched(q)'
<1> SUFFICES ASSUME NEW q \in Process PROVE Untouched(q)'
  OBVIOUS
<1> USE DEF Goto, Finish, WrittenBy
<1>1. ASSUME \/ ExportConfig(q) \/ ExportRules(q) \/ ExportRefused(q)
             \/ WriteExport(q) \/ WriteExportFails(q)
      PROVE  Untouched(q)'
  <2>1. /\ disk' = disk /\ before' = before /\ recovery' = recovery
        /\ stage'[q] \in {"exporting", "exportRead", "idle"}
    BY <1>1 DEF ExportConfig, ExportRules, ExportRefused, WriteExport, WriteExportFails, PackageTypeOK
  <2>2. QED
    BY <2>1 DEF Untouched, Underway, Undoable
<1>2. ASSUME Import(q) \/ ImportRefused(q) PROVE Untouched(q)'
  <2>1. disk' = disk /\ before'[q] = disk /\ stage'[q] \in {"validated", "idle"}
    BY <1>2 DEF Import, ImportRefused, Begin, PackageTypeOK
  <2>2. QED
    BY <2>1 DEF Untouched, Underway, Undoable, Same
<1>3. ASSUME MakeDirectory(q) PROVE Untouched(q)'
  <2>1. disk' = disk /\ before' = before /\ stage[q] = "validated" /\ stage'[q] = "directory"
    BY <1>3 DEF MakeDirectory, PackageTypeOK
  <2>2. QED
    BY <2>1 DEF Untouched, Underway, Undoable, Same
<1>4. ASSUME CopyConfig(q) PROVE Untouched(q)'
  <2>1. /\ disk' = disk /\ before' = before /\ stage[q] = "directory" /\ stage'[q] = "configCopied"
        /\ recovery'[q].config = disk.config
    BY <1>4 DEF CopyConfig, PackageTypeOK, Files
  <2>2. QED
    BY <2>1 DEF Untouched, Underway, Undoable, Same
<1>5. ASSUME CopyRules(q) PROVE Untouched(q)'
  <2>1. /\ disk' = disk /\ before' = before /\ stage[q] = "configCopied" /\ stage'[q] = "copied"
        /\ recovery'[q].config = recovery[q].config /\ recovery'[q].rules = disk.rules
    BY <1>5 DEF CopyRules, PackageTypeOK, Files
  <2>2. QED
    BY <2>1 DEF Untouched, Underway, Undoable, Same
<1>6. ASSUME GiveUp(q) \/ RollBackFails(q) \/ PackageCrash(q) PROVE Untouched(q)'
  <2>1. disk' = disk /\ before' = before /\ recovery' = recovery /\ stage'[q] = "idle"
    BY <1>6 DEF GiveUp, RollBackFails, PackageCrash, PackageTypeOK
  <2>2. QED
    BY <2>1 DEF Untouched, Underway, Undoable
<1>7. ASSUME WriteConfig(q) PROVE Untouched(q)'
  <2>1. /\ disk'.config = job[q].config /\ disk'.rules = disk.rules
        /\ before'[q] = before[q] /\ recovery' = recovery /\ job' = job
        /\ stage[q] = "copied" /\ stage'[q] = "configWritten"
    BY <1>7 DEF WriteConfig, PackageTypeOK, Files
  <2>2. QED
    BY <2>1 DEF Untouched, Underway, Undoable, Same
<1>8. ASSUME WriteRules(q) PROVE Untouched(q)'
  <2>1. /\ disk'.config = disk.config
        /\ before'[q] = before[q] /\ recovery' = recovery
        /\ stage[q] = "configWritten" /\ stage'[q] = "idle"
    BY <1>8 DEF WriteRules, PackageTypeOK, Files
  <2>2. QED
    BY <2>1 DEF Untouched, Underway, Undoable, Same
<1>9. ASSUME WriteRulesFails(q) PROVE Untouched(q)'
  <2>1. /\ disk' = disk /\ before' = before /\ recovery' = recovery /\ job' = job
        /\ stage[q] = "configWritten" /\ stage'[q] = "rollback"
    BY <1>9 DEF WriteRulesFails, PackageTypeOK
  <2>2. QED
    BY <2>1 DEF Untouched, Underway, Undoable, Same
<1>10. ASSUME RollBack(q) PROVE Untouched(q)'
  <2>1. /\ disk'.config = recovery[q].config /\ disk'.rules = disk.rules
        /\ before'[q] = before[q] /\ recovery' = recovery
        /\ stage[q] = "rollback" /\ stage'[q] = "idle"
    BY <1>10 DEF RollBack, PackageTypeOK, Files
  <2>2. QED
    BY <2>1 DEF Untouched, Underway, Undoable, Same
<1>11. ASSUME NEW p \in Process \ {q}, ProcessStep(p) PROVE Untouched(q)'
  <2>1. stage'[q] = stage[q] /\ job'[q] = job[q] /\ recovery'[q] = recovery[q]
    BY <1>11 DEF ProcessStep, PackageTypeOK, ExportConfig, ExportRules, ExportRefused, WriteExport,
                 WriteExportFails, Import, ImportRefused, MakeDirectory, CopyConfig, CopyRules,
                 GiveUp, WriteConfig, WriteRules, WriteRulesFails, RollBack, RollBackFails, PackageCrash
  <2>2. (disk' = disk /\ before'[q] = before[q]) \/ before'[q] = Touched
    BY <1>11 DEF ProcessStep, PackageTypeOK, ExportConfig, ExportRules, ExportRefused, WriteExport,
                 WriteExportFails, Import, ImportRefused, MakeDirectory, CopyConfig, CopyRules,
                 GiveUp, WriteConfig, WriteRules, WriteRulesFails, RollBack, RollBackFails, PackageCrash,
                 Begin
  <2>3. QED
    BY <2>1, <2>2, OthersUntouched
<1>12. ASSUME NEW files \in Others, OtherWrites(files) \/ PickAnother(files) PROVE Untouched(q)'
  BY <1>12, OthersUntouched DEF OtherWrites, PickAnother
<1>13. CASE UNCHANGED packageVars
  BY <1>13, OthersUntouched DEF packageVars
<1>14. QED
  BY <1>1, <1>2, <1>3, <1>4, <1>5, <1>6, <1>7, <1>8, <1>9, <1>10, <1>11, <1>12, <1>13
  DEF PackageNext, ProcessStep

\* At every moment, what an import has replaced is in its recovery directory:
\* for any number of processes, wherever one of them fails or dies.
THEOREM ImportsAreRecoverable == PackageSpec => []Recoverable
<1>1. PackageInit => \A p \in Process : Untouched(p)
  BY DEF PackageInit, Untouched, Underway, Undoable
<1>2. PackageTypeOK /\ (\A p \in Process : Untouched(p)) /\ [PackageNext]_packageVars => (\A p \in Process : Untouched(p))'
  BY StepUntouched
<1>3. (\A p \in Process : Untouched(p)) => Recoverable
  BY DEF Untouched, Undoable, Recoverable
<1>4. QED
  BY <1>1, <1>2, <1>3, PackageTyped, PTL DEF PackageSpec

\* An import replaces both files or neither, but for a crash and a rollback
\* that fails, in every interleaving with the imports of other processes.
THEOREM ImportsAreAtomic == PackageSpec => AllOrNothing
<1> DEFINE Ends(p) ==
      stage[p] # "idle" /\ stage'[p] = "idle" /\ before'[p] # Touched =>
        /\ outcome'[p] = "done" => disk' = job[p]
        /\ outcome'[p] \in {"refused", "restored"} => disk' = before[p]
<1>1. ASSUME PackageTypeOK, \A p \in Process : Untouched(p), [PackageNext]_packageVars, NEW p \in Process
      PROVE  Ends(p)
  <2> SUFFICES ASSUME stage[p] # "idle", stage'[p] = "idle", before'[p] # Touched
               PROVE  /\ outcome'[p] = "done" => disk' = job[p]
                      /\ outcome'[p] \in {"refused", "restored"} => disk' = before[p]
    OBVIOUS
  <2> USE <1>1 DEF Goto, Finish, WrittenBy
  <2>1. /\ disk \in Files /\ job[p] \in Files /\ before[p] \in Files \cup {Touched}
        /\ Untouched(p)
    BY DEF PackageTypeOK
  <2>2. CASE WriteRules(p)
    <3>1. /\ disk' = [disk EXCEPT !.rules = job[p].rules] /\ before[p] # Touched
          /\ stage[p] = "configWritten" /\ outcome'[p] = "done"
      BY <2>2 DEF WriteRules, PackageTypeOK
    <3>2. disk.config = job[p].config
      BY <2>1, <3>1 DEF Untouched, Underway
    <3>3. disk' = job[p]
      BY <2>1, <3>1, <3>2 DEF Files
    <3>4. QED
      BY <3>1, <3>3
  <2>3. CASE RollBack(p)
    <3>1. /\ disk' = [disk EXCEPT !.config = recovery[p].config] /\ before[p] # Touched
          /\ stage[p] = "rollback" /\ outcome'[p] = "restored"
      BY <2>3 DEF RollBack, PackageTypeOK
    <3>2. recovery[p].config = before[p].config /\ disk.rules = before[p].rules
      BY <2>1, <3>1 DEF Untouched, Underway, Same
    <3>3. disk' = before[p]
      BY <2>1, <3>1, <3>2 DEF Files
    <3>4. QED
      BY <3>1, <3>3
  <2>4. CASE GiveUp(p)
    <3>1. /\ disk' = disk /\ before[p] # Touched /\ outcome'[p] = "refused"
          /\ stage[p] \in {"validated", "directory", "configCopied", "copied"}
      BY <2>4 DEF GiveUp, PackageTypeOK
    <3>2. Same(disk, before[p])
      BY <2>1, <3>1 DEF Untouched, Underway
    <3>3. disk = before[p]
      BY <2>1, <3>1, <3>2 DEF Files, Same
    <3>4. QED
      BY <3>1, <3>3
  <2>5. CASE ExportRefused(p) \/ WriteExport(p) \/ WriteExportFails(p)
    <3>1. outcome'[p] = "none"
      BY <2>5 DEF ExportRefused, WriteExport, WriteExportFails, PackageTypeOK
    <3>2. QED
      BY <3>1
  <2>6. CASE RollBackFails(p) \/ PackageCrash(p)
    <3>1. outcome'[p] \in {"stranded", "crashed"}
      BY <2>6 DEF RollBackFails, PackageCrash, PackageTypeOK
    <3>2. QED
      BY <3>1
  <2>7. ASSUME NEW q \in Process, ProcessStep(q)
        PROVE  \/ WriteRules(p) \/ RollBack(p) \/ GiveUp(p) \/ RollBackFails(p) \/ PackageCrash(p)
               \/ ExportRefused(p) \/ WriteExport(p) \/ WriteExportFails(p)
    BY <2>7 DEF ProcessStep, PackageTypeOK, ExportConfig, ExportRules, ExportRefused, WriteExport,
                WriteExportFails, Import, ImportRefused, MakeDirectory, CopyConfig, CopyRules,
                GiveUp, WriteConfig, WriteRules, WriteRulesFails, RollBack, RollBackFails, PackageCrash
  <2>8. ~(\E files \in Others : OtherWrites(files) \/ PickAnother(files)) /\ ~UNCHANGED packageVars
    BY DEF OtherWrites, PickAnother, packageVars
  <2>9. QED
    BY <2>2, <2>3, <2>4, <2>5, <2>6, <2>7, <2>8 DEF PackageNext, ProcessStep
<1>2. PackageInit => \A p \in Process : Untouched(p)
  BY DEF PackageInit, Untouched, Underway, Undoable
<1>3. PackageTypeOK /\ (\A p \in Process : Untouched(p)) /\ [PackageNext]_packageVars => (\A p \in Process : Untouched(p))'
  BY StepUntouched
<1>4. PackageTypeOK /\ (\A p \in Process : Untouched(p)) /\ [PackageNext]_packageVars => [\A p \in Process : Ends(p)]_packageVars
  BY <1>1
<1>5. QED
  BY <1>2, <1>3, <1>4, PackageTyped, PTL DEF PackageSpec, AllOrNothing

\* Whatever becomes of the files while they are read, what an export writes
\* can be imported.
THEOREM ExportsCanBeImported == PackageSpec => ExportsAreValid
<1>1. ASSUME PackageTypeOK, [PackageNext]_packageVars, NEW p \in Process,
             stage[p] = "exportRead", package' # package, stage'[p] = "idle"
      PROVE  package' \in Valid
  <2> USE <1>1 DEF Goto, Finish, WrittenBy
  <2>1. job[p] \in Valid
    BY DEF PackageTypeOK, PackagePhase
  <2>2. ASSUME NEW q \in Process, ProcessStep(q) PROVE WriteExport(p)
    BY <2>2 DEF ProcessStep, PackageTypeOK, ExportConfig, ExportRules, ExportRefused, WriteExport,
                WriteExportFails, Import, ImportRefused, MakeDirectory, CopyConfig, CopyRules,
                GiveUp, WriteConfig, WriteRules, WriteRulesFails, RollBack, RollBackFails, PackageCrash
  <2>3. ~(\E files \in Others : OtherWrites(files) \/ PickAnother(files)) /\ ~UNCHANGED packageVars
    BY DEF OtherWrites, PickAnother, packageVars
  <2>4. WriteExport(p)
    BY <2>2, <2>3 DEF PackageNext, ProcessStep
  <2>5. QED
    BY <2>1, <2>4 DEF WriteExport
<1>2. PackageTypeOK /\ [PackageNext]_packageVars =>
        [\A p \in Process : stage[p] = "exportRead" /\ package' # package /\ stage'[p] = "idle"
           => package' \in Valid]_packageVars
  BY <1>1
<1>3. QED
  BY <1>2, PackageTyped, PTL DEF PackageSpec, ExportsAreValid
=============================================================================
