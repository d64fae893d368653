-------------------------- MODULE RuleReloadProofs --------------------------
(***************************************************************************)
(* Proofs about RuleReload for any number of processes and any documents:  *)
(* types, the timer's life, that a tick never takes the rules in force for *)
(* those of a file it did not load, and that valid rules are kept.         *)
(***************************************************************************)
EXTENDS RuleReload, TLAPS

\* While the timer's callback loads, its local stamp is the one of the file
\* only as long as the file is still what was read.
TickInv ==
  \A p \in Process :
    tick[p] = "read" /\ seen[p] = FileStamp /\ disk \in Document
        /\ candidate[p] # Unread
      => candidate[p] = disk

(***************************************************************************)
(* Types.                                                                  *)
(***************************************************************************)
Backups == Seq(Document \cup Broken)

\* Rotation keeps backups/ a list of at most backup.maxFiles files.
LEMMA RotateTyped ==
  ASSUME TypeOK, Rotate
  PROVE  backups' \in Backups /\ Len(backups') <= MaxBackups
<1> USE RuleReloadConstants DEF TypeOK, Backups
<1>1. CASE disk = Missing
  BY <1>1 DEF Rotate
<1>2. CASE disk # Missing
  <2> DEFINE all == <<disk>> \o backups
  <2>1. <<disk>> \in Backups /\ backups \in Backups
    BY <1>2 DEF Content
  <2>2. all \in Backups
    BY <2>1
  <2>3. CASE Len(all) <= MaxBackups
    BY <1>2, <2>2, <2>3 DEF Rotate
  <2>4. CASE ~(Len(all) <= MaxBackups)
    <3>1. Len(all) \in Nat /\ MaxBackups < Len(all)
      BY <2>2, <2>4
    <3>2. SubSeq(all, 1, MaxBackups) \in Backups
      BY <2>2, <3>1
    <3>3. Len(SubSeq(all, 1, MaxBackups)) = MaxBackups
      BY <2>2, <3>1
    <3>4. QED
      BY <1>2, <2>4, <3>2, <3>3 DEF Rotate
  <2>5. QED
    BY <2>3, <2>4
<1>3. QED
  BY <1>1, <1>2

\* A write leaves stamps stamps.
LEMMA AgedTyped ==
  ASSUME NEW s \in [Process -> Stamp]
  PROVE  Aged(s) \in [Process -> Stamp]
BY DEF Aged, Stamp

LEMMA InitTyped == Init => TypeOK /\ TickInv /\ TimerOnlyWhenReady
BY RuleReloadConstants DEF Init, TypeOK, TickInv, TimerOnlyWhenReady, Content,
   Configs, Phase, Command, Stamp

LEMMA StepTyped ==
  ASSUME TypeOK, [Next]_vars
  PROVE  TypeOK'
<1> USE RuleReloadConstants DEF TypeOK, Phase, Command, files, thread, timer, options
<1>1. ASSUME NEW p \in Process, Start(p) PROVE TypeOK'
  BY <1>1 DEF Start, LoadConfiguration, CallLoadRules
<1>2. ASSUME NEW p \in Process, StartMissing(p) PROVE TypeOK'
  BY <1>2 DEF StartMissing
<1>3. ASSUME NEW p \in Process, ReloadAll(p) PROVE TypeOK'
  BY <1>3 DEF ReloadAll, LoadConfiguration, CallLoadRules, Looping
<1>4. ASSUME NEW p \in Process, ManagerSave(p) PROVE TypeOK'
  <2>1. PICK c \in Document : Put(c)
    BY <1>4 DEF ManagerSave
  <2>2. disk' \in Content /\ stamp' \in [Process -> Stamp] /\ seen' \in [Process -> Stamp]
    BY <2>1, AgedTyped DEF Put, Content
  <2>3. backups' \in Seq(Document \cup Broken) /\ Len(backups') <= MaxBackups
    BY <1>4, RotateTyped DEF ManagerSave, Backups
  <2>4. QED
    BY <1>4, <2>2, <2>3 DEF ManagerSave, CallLoadRules
<1>5. ASSUME NEW p \in Process, NestedSave(p) PROVE TypeOK'
  <2>1. disk' \in Content /\ rules' \in [Process -> Document \cup {NoRules}]
    BY <1>5 DEF NestedSave, Content
  <2>2. stamp' \in [Process -> Stamp] /\ seen' \in [Process -> Stamp]
    BY <1>5, AgedTyped DEF NestedSave, Stamp
  <2>3. backups' \in Seq(Document \cup Broken) /\ Len(backups') <= MaxBackups
    BY <1>5, RotateTyped DEF NestedSave, Backups
  <2>4. QED
    BY <1>5, <2>1, <2>2, <2>3 DEF NestedSave
<1>6. ASSUME NEW p \in Process, ApplySettings(p) PROVE TypeOK'
  BY <1>6 DEF ApplySettings, LoadConfiguration, Configs
<1>7. ASSUME NEW p \in Process, ImportPackage(p) PROVE TypeOK'
  <2>1. PICK c \in Document : Put(c)
    BY <1>7 DEF ImportPackage
  <2>2. disk' \in Content /\ stamp' \in [Process -> Stamp] /\ seen' \in [Process -> Stamp]
    BY <2>1, AgedTyped DEF Put, Content
  <2>3. backups' \in Seq(Document \cup Broken) /\ Len(backups') <= MaxBackups
    BY <1>7 DEF ImportPackage, Backups
  <2>4. QED
    BY <1>7, <2>2, <2>3 DEF ImportPackage, CallLoadRules, LoadConfiguration, Configs
<1>8. ASSUME NEW p \in Process, Dismiss(p) PROVE TypeOK'
  BY <1>8 DEF Dismiss, Looping
<1>9. ASSUME NEW p \in Process, Shutdown(p) PROVE TypeOK'
  BY <1>9 DEF Shutdown, Exit, Stamp
<1>10. ASSUME NEW p \in Process, CreateDefault(p) PROVE TypeOK'
  <2>1. PICK c \in Document : Put(c)
    BY <1>10 DEF CreateDefault
  <2>2. disk' \in Content /\ stamp' \in [Process -> Stamp] /\ seen' \in [Process -> Stamp]
    BY <2>1, AgedTyped DEF Put, Content
  <2>3. backups' \in Seq(Document \cup Broken) /\ Len(backups') <= MaxBackups
    BY <1>10 DEF CreateDefault, Backups
  <2>4. QED
    BY <1>10, <2>2, <2>3 DEF CreateDefault, CallLoadRules, LoadConfiguration, Configs
<1>11. ASSUME NEW p \in Process, LoadPrimary(p) PROVE TypeOK'
  <2>1. rules' \in [Process -> Document \cup {NoRules}]
    BY <1>11 DEF LoadPrimary
  <2>2. scan' \in [Process -> Seq(Document \cup Broken)]
    <3>1. CASE scan' = [scan EXCEPT ![p] = backups]
      BY <3>1
    <3>2. CASE UNCHANGED scan
      BY <3>2
    <3>3. QED
      BY <1>11, <3>1, <3>2 DEF LoadPrimary
  <2>3. pc' \in [Process -> Phase]
    <3>1. \E s \in {"box", "stamp", "fallback"} : pc' = [pc EXCEPT ![p] = s]
      BY <1>11 DEF LoadPrimary
    <3>2. QED
      BY <3>1
  <2>4. QED
    BY <1>11, <2>1, <2>2, <2>3 DEF LoadPrimary
<1>12. ASSUME NEW p \in Process, LoadBackup(p) PROVE TypeOK'
  <2>1. scan[p] # <<>> /\ scan[p] \in Seq(Document \cup Broken)
    BY <1>12 DEF LoadBackup
  <2>2. Tail(scan[p]) \in Seq(Document \cup Broken) /\ <<>> \in Seq(Document \cup Broken)
    BY <2>1
  <2>3. CASE /\ Head(scan[p]) \in Document
             /\ rules' = [rules EXCEPT ![p] = Head(scan[p])]
             /\ scan' = [scan EXCEPT ![p] = <<>>]
             /\ pc' = [pc EXCEPT ![p] = "box"]
    BY <1>12, <2>2, <2>3 DEF LoadBackup
  <2>4. CASE scan' = [scan EXCEPT ![p] = Tail(scan[p])] /\ UNCHANGED <<pc, rules>>
    BY <1>12, <2>2, <2>4 DEF LoadBackup
  <2>5. QED
    BY <1>12, <2>3, <2>4 DEF LoadBackup
<1>13. ASSUME NEW p \in Process, NoBackup(p) PROVE TypeOK'
  BY <1>13 DEF NoBackup
<1>14. ASSUME NEW p \in Process, UpdateRulesStamp(p) PROVE TypeOK'
  BY <1>14 DEF UpdateRulesStamp, FileStamp, Stamp
<1>15. ASSUME NEW p \in Process, Finish(p) PROVE TypeOK'
  BY <1>15 DEF Finish
<1>16. ASSUME NEW p \in Process, TimerRead(p) PROVE TypeOK'
  <2>1. disk \in Content
    OBVIOUS
  <2>2. candidate' \in [Process -> Content \cup {Unread}]
    BY <1>16, <2>1 DEF TimerRead
  <2>3. QED
    BY <1>16, <2>2 DEF TimerRead
<1>17. ASSUME NEW p \in Process, TimerSwap(p) PROVE TypeOK'
  BY <1>17 DEF TimerSwap, EndTick, Content, Stamp
<1>18. ASSUME NEW p \in Process, TimerStamp(p) PROVE TypeOK'
  BY <1>18 DEF TimerStamp, FileStamp, Stamp
<1>19. ASSUME NEW p \in Process, ShutdownThrows(p) PROVE TypeOK'
  BY <1>19 DEF ShutdownThrows, Looping
<1>20. ASSUME NEW p \in Process, EndProcess(p) PROVE TypeOK'
  BY <1>20 DEF EndProcess, Exit, Stamp
<1>21. ASSUME NEW p \in Process, TimerStampFails(p) PROVE TypeOK'
  BY <1>21 DEF TimerStampFails, Looping
<1>22. ASSUME NEW p \in Process, TickReturns(p) PROVE TypeOK'
  BY <1>22 DEF TickReturns, EndTick, Stamp
<1>23. ASSUME ForeignWrite PROVE TypeOK'
  <2>1. PICK c \in Content : Put(c)
    BY <1>23 DEF ForeignWrite
  <2>2. disk' \in Content /\ stamp' \in [Process -> Stamp] /\ seen' \in [Process -> Stamp]
    BY <2>1, AgedTyped DEF Put
  <2>3. QED
    BY <1>23, <2>2 DEF ForeignWrite
<1>24. ASSUME EditConfig PROVE TypeOK'
  BY <1>24 DEF EditConfig
<1>25. CASE UNCHANGED vars
  BY <1>25 DEF vars
<1>26. QED
  BY <1>1, <1>2, <1>3, <1>4, <1>5, <1>6, <1>7, <1>8, <1>9, <1>10, <1>11, <1>12,
     <1>13, <1>14, <1>15, <1>16, <1>17, <1>18, <1>19, <1>20,
     <1>21, <1>22, <1>23, <1>24, <1>25
     DEF Next, UserStep, ProgramStep

(***************************************************************************)
(* The timer.                                                              *)
(***************************************************************************)
LEMMA StepTick ==
  ASSUME TypeOK, TickInv, [Next]_vars
  PROVE  TickInv'
<1> USE RuleReloadConstants DEF TypeOK, TickInv, FileStamp, Stamp, files, thread, timer, options
<1>1. ASSUME NEW p \in Process, Start(p) PROVE TickInv'
  BY <1>1 DEF Start, LoadConfiguration, CallLoadRules
<1>2. ASSUME NEW p \in Process, StartMissing(p) PROVE TickInv'
  BY <1>2 DEF StartMissing
<1>3. ASSUME NEW p \in Process, ReloadAll(p) PROVE TickInv'
  BY <1>3 DEF ReloadAll, LoadConfiguration, CallLoadRules, Looping
<1>4. ASSUME NEW p \in Process, ManagerSave(p) PROVE TickInv'
  BY <1>4 DEF ManagerSave, CallLoadRules, Looping, Put, Aged
<1>5. ASSUME NEW p \in Process, NestedSave(p) PROVE TickInv'
  BY <1>5 DEF NestedSave, Looping, Ready, Aged
<1>6. ASSUME NEW p \in Process, ApplySettings(p) PROVE TickInv'
  BY <1>6 DEF ApplySettings, LoadConfiguration, Looping, Ready
<1>7. ASSUME NEW p \in Process, ImportPackage(p) PROVE TickInv'
  BY <1>7 DEF ImportPackage, LoadConfiguration, CallLoadRules, Looping, Put, Aged
<1>8. ASSUME NEW p \in Process, Dismiss(p) PROVE TickInv'
  BY <1>8 DEF Dismiss, Looping
<1>9. ASSUME NEW p \in Process, Shutdown(p) PROVE TickInv'
  BY <1>9 DEF Shutdown, Exit, Looping
<1>10. ASSUME NEW p \in Process, CreateDefault(p) PROVE TickInv'
  BY <1>10 DEF CreateDefault, LoadConfiguration, CallLoadRules, Put, Aged
<1>11. ASSUME NEW p \in Process, LoadPrimary(p) PROVE TickInv'
  BY <1>11 DEF LoadPrimary
<1>12. ASSUME NEW p \in Process, LoadBackup(p) PROVE TickInv'
  BY <1>12 DEF LoadBackup
<1>13. ASSUME NEW p \in Process, NoBackup(p) PROVE TickInv'
  BY <1>13 DEF NoBackup
<1>14. ASSUME NEW p \in Process, UpdateRulesStamp(p) PROVE TickInv'
  BY <1>14 DEF UpdateRulesStamp, FileStamp
<1>15. ASSUME NEW p \in Process, Finish(p) PROVE TickInv'
  BY <1>15 DEF Finish
<1>16. ASSUME NEW p \in Process, TimerRead(p) PROVE TickInv'
  BY <1>16 DEF TimerRead
<1>17. ASSUME NEW p \in Process, TimerSwap(p) PROVE TickInv'
  BY <1>17 DEF TimerSwap, EndTick
<1>18. ASSUME NEW p \in Process, TimerStamp(p) PROVE TickInv'
  BY <1>18 DEF TimerStamp, Looping, FileStamp
<1>19. ASSUME NEW p \in Process, ShutdownThrows(p) PROVE TickInv'
  BY <1>19 DEF ShutdownThrows, Looping
<1>20. ASSUME NEW p \in Process, EndProcess(p) PROVE TickInv'
  BY <1>20 DEF EndProcess, Exit, Looping
<1>21. ASSUME NEW p \in Process, TimerStampFails(p) PROVE TickInv'
  BY <1>21 DEF TimerStampFails, Looping
<1>22. ASSUME NEW p \in Process, TickReturns(p) PROVE TickInv'
  BY <1>22 DEF TickReturns, EndTick
<1>23. ASSUME ForeignWrite PROVE TickInv'
  BY <1>23 DEF ForeignWrite, Put, Aged
<1>24. ASSUME EditConfig PROVE TickInv'
  BY <1>24 DEF EditConfig
<1>25. CASE UNCHANGED vars
  BY <1>25 DEF vars
<1>26. QED
  BY <1>1, <1>2, <1>3, <1>4, <1>5, <1>6, <1>7, <1>8, <1>9, <1>10, <1>11, <1>12,
     <1>13, <1>14, <1>15, <1>16, <1>17, <1>18, <1>19, <1>20,
     <1>21, <1>22, <1>23, <1>24, <1>25
     DEF Next, UserStep, ProgramStep

LEMMA StepReady ==
  ASSUME TypeOK, TimerOnlyWhenReady, [Next]_vars
  PROVE  TimerOnlyWhenReady'
<1> USE RuleReloadConstants DEF TypeOK, TimerOnlyWhenReady, Ready, files, thread, timer, options
<1>1. ASSUME NEW p \in Process, Start(p) PROVE TimerOnlyWhenReady'
  BY <1>1 DEF Start, LoadConfiguration, CallLoadRules
<1>2. ASSUME NEW p \in Process, StartMissing(p) PROVE TimerOnlyWhenReady'
  BY <1>2 DEF StartMissing
<1>3. ASSUME NEW p \in Process, ReloadAll(p) PROVE TimerOnlyWhenReady'
  BY <1>3 DEF ReloadAll, LoadConfiguration, CallLoadRules, Looping
<1>4. ASSUME NEW p \in Process, ManagerSave(p) PROVE TimerOnlyWhenReady'
  BY <1>4 DEF ManagerSave, CallLoadRules, Looping, Put, Aged
<1>5. ASSUME NEW p \in Process, NestedSave(p) PROVE TimerOnlyWhenReady'
  BY <1>5 DEF NestedSave, Looping, Ready, Aged
<1>6. ASSUME NEW p \in Process, ApplySettings(p) PROVE TimerOnlyWhenReady'
  BY <1>6 DEF ApplySettings, LoadConfiguration, Looping, Ready
<1>7. ASSUME NEW p \in Process, ImportPackage(p) PROVE TimerOnlyWhenReady'
  BY <1>7 DEF ImportPackage, LoadConfiguration, CallLoadRules, Looping, Put, Aged
<1>8. ASSUME NEW p \in Process, Dismiss(p) PROVE TimerOnlyWhenReady'
  BY <1>8 DEF Dismiss, Looping
<1>9. ASSUME NEW p \in Process, Shutdown(p) PROVE TimerOnlyWhenReady'
  BY <1>9 DEF Shutdown, Exit, Looping
<1>10. ASSUME NEW p \in Process, CreateDefault(p) PROVE TimerOnlyWhenReady'
  BY <1>10 DEF CreateDefault, LoadConfiguration, CallLoadRules, Put, Aged
<1>11. ASSUME NEW p \in Process, LoadPrimary(p) PROVE TimerOnlyWhenReady'
  BY <1>11 DEF LoadPrimary
<1>12. ASSUME NEW p \in Process, LoadBackup(p) PROVE TimerOnlyWhenReady'
  BY <1>12 DEF LoadBackup
<1>13. ASSUME NEW p \in Process, NoBackup(p) PROVE TimerOnlyWhenReady'
  BY <1>13 DEF NoBackup
<1>14. ASSUME NEW p \in Process, UpdateRulesStamp(p) PROVE TimerOnlyWhenReady'
  BY <1>14 DEF UpdateRulesStamp, FileStamp
<1>15. ASSUME NEW p \in Process, Finish(p) PROVE TimerOnlyWhenReady'
  BY <1>15 DEF Finish
<1>16. ASSUME NEW p \in Process, TimerRead(p) PROVE TimerOnlyWhenReady'
  BY <1>16 DEF TimerRead
<1>17. ASSUME NEW p \in Process, TimerSwap(p) PROVE TimerOnlyWhenReady'
  BY <1>17 DEF TimerSwap, EndTick
<1>18. ASSUME NEW p \in Process, TimerStamp(p) PROVE TimerOnlyWhenReady'
  BY <1>18 DEF TimerStamp, Looping, FileStamp
<1>19. ASSUME NEW p \in Process, ShutdownThrows(p) PROVE TimerOnlyWhenReady'
  BY <1>19 DEF ShutdownThrows, Looping
<1>20. ASSUME NEW p \in Process, EndProcess(p) PROVE TimerOnlyWhenReady'
  BY <1>20 DEF EndProcess, Exit, Looping
<1>21. ASSUME NEW p \in Process, TimerStampFails(p) PROVE TimerOnlyWhenReady'
  BY <1>21 DEF TimerStampFails, Looping
<1>22. ASSUME NEW p \in Process, TickReturns(p) PROVE TimerOnlyWhenReady'
  BY <1>22 DEF TickReturns, EndTick
<1>23. ASSUME ForeignWrite PROVE TimerOnlyWhenReady'
  BY <1>23 DEF ForeignWrite, Put, Aged
<1>24. ASSUME EditConfig PROVE TimerOnlyWhenReady'
  BY <1>24 DEF EditConfig
<1>25. CASE UNCHANGED vars
  BY <1>25 DEF vars
<1>26. QED
  BY <1>1, <1>2, <1>3, <1>4, <1>5, <1>6, <1>7, <1>8, <1>9, <1>10, <1>11, <1>12,
     <1>13, <1>14, <1>15, <1>16, <1>17, <1>18, <1>19, <1>20,
     <1>21, <1>22, <1>23, <1>24, <1>25
     DEF Next, UserStep, ProgramStep

\* Only the end of a tick ends it.
LEMMA TickEnds ==
  ASSUME TypeOK, [Next]_vars, NEW q \in Process, tick[q] = "read", tick'[q] = "none"
  PROVE  TimerSwap(q)
<1> USE DEF TypeOK, files, thread, timer, options
<1>1. ASSUME NEW p \in Process, Start(p) PROVE FALSE
  BY <1>1 DEF Start, LoadConfiguration, CallLoadRules
<1>2. ASSUME NEW p \in Process, StartMissing(p) PROVE FALSE
  BY <1>2 DEF StartMissing
<1>3. ASSUME NEW p \in Process, ReloadAll(p) PROVE FALSE
  BY <1>3 DEF ReloadAll, LoadConfiguration, CallLoadRules, Looping
<1>4. ASSUME NEW p \in Process, ManagerSave(p) PROVE FALSE
  BY <1>4 DEF ManagerSave, CallLoadRules, Looping, Put, Aged
<1>5. ASSUME NEW p \in Process, NestedSave(p) PROVE FALSE
  BY <1>5 DEF NestedSave, Looping, Ready, Aged
<1>6. ASSUME NEW p \in Process, ApplySettings(p) PROVE FALSE
  BY <1>6 DEF ApplySettings, LoadConfiguration, Looping, Ready
<1>7. ASSUME NEW p \in Process, ImportPackage(p) PROVE FALSE
  BY <1>7 DEF ImportPackage, LoadConfiguration, CallLoadRules, Looping, Put, Aged
<1>8. ASSUME NEW p \in Process, Dismiss(p) PROVE FALSE
  BY <1>8 DEF Dismiss, Looping
<1>9. ASSUME NEW p \in Process, Shutdown(p) PROVE FALSE
  BY <1>9 DEF Shutdown, Exit, Looping
<1>10. ASSUME NEW p \in Process, CreateDefault(p) PROVE FALSE
  BY <1>10 DEF CreateDefault, LoadConfiguration, CallLoadRules, Put, Aged
<1>11. ASSUME NEW p \in Process, LoadPrimary(p) PROVE FALSE
  BY <1>11 DEF LoadPrimary
<1>12. ASSUME NEW p \in Process, LoadBackup(p) PROVE FALSE
  BY <1>12 DEF LoadBackup
<1>13. ASSUME NEW p \in Process, NoBackup(p) PROVE FALSE
  BY <1>13 DEF NoBackup
<1>14. ASSUME NEW p \in Process, UpdateRulesStamp(p) PROVE FALSE
  BY <1>14 DEF UpdateRulesStamp, FileStamp
<1>15. ASSUME NEW p \in Process, Finish(p) PROVE FALSE
  BY <1>15 DEF Finish
<1>16. ASSUME NEW p \in Process, TimerRead(p) PROVE FALSE
  BY <1>16 DEF TimerRead
<1>17. ASSUME NEW p \in Process, TimerSwap(p) PROVE p = q
  BY <1>17 DEF TimerSwap, EndTick
<1>18. ASSUME NEW p \in Process, TimerStamp(p) PROVE FALSE
  BY <1>18 DEF TimerStamp, Looping, FileStamp
<1>19. ASSUME NEW p \in Process, ShutdownThrows(p) PROVE FALSE
  BY <1>19 DEF ShutdownThrows, Looping
<1>20. ASSUME NEW p \in Process, EndProcess(p) PROVE FALSE
  BY <1>20 DEF EndProcess, Exit, Looping
<1>21. ASSUME NEW p \in Process, TimerStampFails(p) PROVE FALSE
  BY <1>21 DEF TimerStampFails, Looping
<1>22. ASSUME NEW p \in Process, TickReturns(p) PROVE FALSE
  BY <1>22 DEF TickReturns, EndTick
<1>23. ASSUME ForeignWrite PROVE FALSE
  BY <1>23 DEF ForeignWrite
<1>24. ASSUME EditConfig PROVE FALSE
  BY <1>24 DEF EditConfig
<1>25. ASSUME UNCHANGED vars PROVE FALSE
  BY <1>25 DEF vars
<1>26. QED
  BY <1>1, <1>2, <1>3, <1>4, <1>5, <1>6, <1>7, <1>8, <1>9, <1>10, <1>11, <1>12,
     <1>13, <1>14, <1>15, <1>16, <1>17, <1>18, <1>19, <1>20,
     <1>21, <1>22, <1>23, <1>24, <1>25
     DEF Next, UserStep, ProgramStep

\* Only a valid document ever takes the place of the rules of a process that
\* goes on.
LEMMA RulesTakeDocuments ==
  ASSUME TypeOK, [Next]_vars, NEW q \in Process, pc'[q] # "off"
  PROVE  rules'[q] = rules[q] \/ rules'[q] \in Document
<1> USE RuleReloadConstants DEF TypeOK, files, thread, timer, options
<1> DEFINE Goal == rules'[q] = rules[q] \/ rules'[q] \in Document
<1>1. ASSUME NEW p \in Process, Start(p) PROVE Goal
  BY <1>1 DEF Start, LoadConfiguration, CallLoadRules
<1>2. ASSUME NEW p \in Process, StartMissing(p) PROVE Goal
  BY <1>2 DEF StartMissing
<1>3. ASSUME NEW p \in Process, ReloadAll(p) PROVE Goal
  BY <1>3 DEF ReloadAll, LoadConfiguration, CallLoadRules
<1>4. ASSUME NEW p \in Process, ManagerSave(p) PROVE Goal
  BY <1>4 DEF ManagerSave, CallLoadRules
<1>5. ASSUME NEW p \in Process, NestedSave(p) PROVE Goal
  BY <1>5 DEF NestedSave
<1>6. ASSUME NEW p \in Process, ApplySettings(p) PROVE Goal
  BY <1>6 DEF ApplySettings, LoadConfiguration
<1>7. ASSUME NEW p \in Process, ImportPackage(p) PROVE Goal
  BY <1>7 DEF ImportPackage, LoadConfiguration, CallLoadRules
<1>8. ASSUME NEW p \in Process, Dismiss(p) PROVE Goal
  BY <1>8 DEF Dismiss
<1>9. ASSUME NEW p \in Process, Shutdown(p) PROVE Goal
  BY <1>9 DEF Shutdown, Exit
<1>10. ASSUME NEW p \in Process, CreateDefault(p) PROVE Goal
  BY <1>10 DEF CreateDefault, LoadConfiguration, CallLoadRules
<1>11. ASSUME NEW p \in Process, LoadPrimary(p) PROVE Goal
  BY <1>11 DEF LoadPrimary
<1>12. ASSUME NEW p \in Process, LoadBackup(p) PROVE Goal
  BY <1>12 DEF LoadBackup
<1>13. ASSUME NEW p \in Process, NoBackup(p) PROVE Goal
  BY <1>13 DEF NoBackup
<1>14. ASSUME NEW p \in Process, UpdateRulesStamp(p) PROVE Goal
  BY <1>14 DEF UpdateRulesStamp
<1>15. ASSUME NEW p \in Process, Finish(p) PROVE Goal
  BY <1>15 DEF Finish
<1>16. ASSUME NEW p \in Process, TimerRead(p) PROVE Goal
  BY <1>16 DEF TimerRead
<1>17. ASSUME NEW p \in Process, TimerSwap(p) PROVE Goal
  BY <1>17 DEF TimerSwap
<1>18. ASSUME NEW p \in Process, TimerStamp(p) PROVE Goal
  BY <1>18 DEF TimerStamp
<1>19. ASSUME NEW p \in Process, ShutdownThrows(p) PROVE Goal
  BY <1>19 DEF ShutdownThrows, Looping
<1>20. ASSUME NEW p \in Process, EndProcess(p) PROVE Goal
  BY <1>20 DEF EndProcess, Exit, Looping
<1>21. ASSUME NEW p \in Process, TimerStampFails(p) PROVE Goal
  BY <1>21 DEF TimerStampFails, Looping
<1>22. ASSUME NEW p \in Process, TickReturns(p) PROVE Goal
  BY <1>22 DEF TickReturns, EndTick
<1>23. ASSUME ForeignWrite PROVE Goal
  BY <1>23 DEF ForeignWrite
<1>24. ASSUME EditConfig PROVE Goal
  BY <1>24 DEF EditConfig
<1>25. CASE UNCHANGED vars
  BY <1>25 DEF vars
<1>26. QED
  BY <1>1, <1>2, <1>3, <1>4, <1>5, <1>6, <1>7, <1>8, <1>9, <1>10, <1>11, <1>12,
     <1>13, <1>14, <1>15, <1>16, <1>17, <1>18, <1>19, <1>20,
     <1>21, <1>22, <1>23, <1>24, <1>25
     DEF Next, UserStep, ProgramStep

(***************************************************************************)
(* The theorems.                                                           *)
(***************************************************************************)

\* Every variable keeps its type: backups/ never holds more than
\* backup.maxFiles files, and gRules is a valid document or still empty.
THEOREM Typed == Spec => []TypeOK
<1>1. TypeOK /\ [Next]_vars => TypeOK'
  BY StepTyped
<1>2. QED
  BY InitTyped, <1>1, PTL DEF Spec

\* The automatic reload's timer is armed, and its callback runs, only while
\* gReady is set: from the end of initializePlugin to NPPN_SHUTDOWN, or to the
\* end of the process when saving the enabled state throws in between.
THEOREM TimerLife == Spec => []TimerOnlyWhenReady
<1>1. TypeOK /\ TimerOnlyWhenReady /\ [Next]_vars => TimerOnlyWhenReady'
  BY StepReady
<1>2. QED
  BY InitTyped, <1>1, Typed, PTL DEF Spec

\* Because autoReloadTimer takes the stamp before it loads the file, a change
\* in between is found by the next tick instead of being lost; of a tick whose
\* read failed nothing is said.
THEOREM TicksAreFaithful == Spec => TickIsFaithful
<1> DEFINE Faithful ==
      \A p \in Process :
        tick[p] = "read" /\ candidate[p] # Unread /\ tick'[p] = "none" /\ pc'[p] # "off"
          => (UpToDate(p)' /\ disk' \in Document => rules'[p] = disk')
<1>1. TypeOK /\ TickInv /\ [Next]_vars => TickInv'
  BY StepTick
<1>2. TypeOK /\ TickInv /\ [Next]_vars => [Faithful]_vars
  <2> SUFFICES ASSUME TypeOK, TickInv, [Next]_vars, NEW p \in Process,
                      tick[p] = "read", candidate[p] # Unread, tick'[p] = "none",
                      UpToDate(p)', disk' \in Document
               PROVE  rules'[p] = disk'
    OBVIOUS
  <2>1. TimerSwap(p)
    BY TickEnds
  <2>2. disk' = disk /\ seen[p] = FileStamp
    BY <2>1 DEF TimerSwap, UpToDate, FileStamp, files, TypeOK
  <2>3. candidate[p] = disk
    BY <2>2 DEF TickInv
  <2>4. QED
    BY <2>1, <2>2, <2>3 DEF TimerSwap, TypeOK
<1>3. QED
  BY InitTyped, <1>1, <1>2, Typed, PTL DEF Spec, TickIsFaithful

\* "The last valid rules are kept for an invalid file", whatever documents,
\* backups and failures there are.
THEOREM RulesAreKept == Spec => LastRulesKept
<1> DEFINE Kept == \A p \in Process :
                     rules[p] # NoRules /\ pc'[p] # "off" => rules'[p] # NoRules
<1>1. TypeOK /\ [Next]_vars => [Kept]_vars
  BY RulesTakeDocuments, RuleReloadConstants
<1>2. QED
  BY <1>1, Typed, PTL DEF Spec, LastRulesKept
=============================================================================
