--------------------------- MODULE RuleFileProofs ---------------------------
(***************************************************************************)
(* Proofs about RuleFile for any number of processes and any documents:    *)
(* types, mutual exclusion, no lost update, and that the protocol is the   *)
(* compare-and-set register RuleRegister.                                  *)
(***************************************************************************)
EXTENDS RuleFile, TLAPS

(***************************************************************************)
(* Types.  That the file never holds a half-written document needs LockInv *)
(* (only a whole temporary file is moved into place), so the two are       *)
(* inductive together.                                                     *)
(***************************************************************************)
LEMMA InitTyped == Init => TypeOK /\ LockInv
BY RuleFileConstants DEF Init, TypeOK, LockInv, Content, Job, NoJob, JobKind,
   Phase, Locked, Writing

\* Rotation keeps backups/ within its bound, and keeps the copy just made when
\* the file is at least as new as every backup.
LEMMA BackupKept ==
  ASSUME TypeOK, Backup
  PROVE  /\ backups' \in Seq(Content) /\ Len(backups') =< MaxBackups
         /\ age' \in {"newer", "copied", "any"}
         /\ age # "any" => /\ age' = "copied"
                           /\ backups' # <<>> /\ Head(backups') = disk
<1>1. PICK i \in 0 .. (IF age = "any" THEN Len(backups) ELSE 0) :
        backups' = IF Len(InsertAt(backups, i + 1, disk)) > MaxBackups
                   THEN Front(InsertAt(backups, i + 1, disk))
                   ELSE InsertAt(backups, i + 1, disk)
  BY DEF Backup
<1>2. /\ backups \in Seq(Content) /\ Len(backups) \in Nat /\ disk \in Content
      /\ Len(backups) =< MaxBackups /\ MaxBackups \in Nat \ {0}
      /\ i \in 0 .. Len(backups) /\ (age # "any" => i = 0)
  BY <1>1, RuleFileConstants DEF TypeOK
<1> DEFINE all == InsertAt(backups, i + 1, disk)
<1>3. /\ all = SubSeq(backups, 1, i) \o <<disk>> \o SubSeq(backups, i + 1, Len(backups))
      /\ Front(all) = SubSeq(all, 1, Len(all) - 1)
  <2>1. (i + 1) - 1 = i
    BY <1>2
  <2>2. all = SubSeq(backups, 1, (i + 1) - 1) \o <<disk>> \o SubSeq(backups, i + 1, Len(backups))
    BY DEF InsertAt
  <2>3. Front(all) = SubSeq(all, 1, Len(all) - 1)
    BY DEF Front
  <2>4. QED
    BY <2>1, <2>2, <2>3
<1> DEFINE left == SubSeq(backups, 1, i)
           right == SubSeq(backups, i + 1, Len(backups))
<1>4. all \in Seq(Content) /\ Len(all) = Len(backups) + 1 /\ (i = 0 => all[1] = disk)
  <2>1. left \in Seq(Content) /\ Len(left) = i
    BY <1>2
  <2>2. right \in Seq(Content) /\ Len(right) = Len(backups) - i
    BY <1>2
  <2>3. all = left \o <<disk>> \o right
    BY <1>3
  <2> HIDE DEF left, right, all
  <2>4. left \o <<disk>> \in Seq(Content) /\ Len(left \o <<disk>>) = i + 1
    BY <1>2, <2>1
  <2>5. i = 0 => (left \o <<disk>>)[1] = disk
    BY <1>2, <2>1
  <2>6. QED
    BY <1>2, <2>2, <2>3, <2>4, <2>5
<1>5. backups' = IF Len(all) > MaxBackups THEN SubSeq(all, 1, Len(all) - 1) ELSE all
  BY <1>1, <1>3
<1> HIDE DEF all, left, right
<1>6. backups' \in Seq(Content) /\ Len(backups') =< MaxBackups
  BY <1>2, <1>4, <1>5
<1>7. ASSUME age # "any" PROVE backups' # <<>> /\ Head(backups') = disk
  <2>1. Len(backups') >= 1 /\ backups'[1] = disk
    BY <1>2, <1>4, <1>5, <1>7
  <2>2. QED
    BY <2>1, <1>6
<1>8. QED
  BY <1>6, <1>7 DEF Backup, TypeOK

\* A read, successful or not, moves only the reader's thread.
LEMMA ReadTyped ==
  ASSUME TypeOK, NEW p \in Process, ReadFile(p)
  PROVE  pc' \in [Process -> Phase] /\ job' \in [Process -> Job]
<1>1. CASE /\ disk \in Document
           /\ pc' = [pc EXCEPT ![p] = "loaded"]
           /\ job' = [job EXCEPT ![p] = [kind |-> "load", text |-> disk]]
  BY <1>1 DEF TypeOK, Job, JobKind, Phase
<1>2. CASE /\ pc' = [pc EXCEPT ![p] = "idle"]
           /\ job' = [job EXCEPT ![p] = NoJob]
  BY <1>2, RuleFileConstants DEF TypeOK, Job, NoJob, JobKind, Phase
<1>3. QED
  BY <1>1, <1>2 DEF ReadFile

LEMMA StepTyped == TypeOK /\ LockInv /\ [Next]_vars => TypeOK'
<1> SUFFICES ASSUME TypeOK, LockInv, [Next]_vars PROVE TypeOK'
  OBVIOUS
<1> USE RuleFileConstants DEF TypeOK, Job, NoJob, Phase, JobKind, Content
<1>1. ASSUME NEW p \in Process, Open(p) PROVE TypeOK'
  BY <1>1, ReadTyped DEF Open, fileVars, windowVars, watchVars
<1>2. ASSUME NEW p \in Process, Reload(p) PROVE TypeOK'
  BY <1>2, ReadTyped DEF Reload, fileVars, windowVars, watchVars
<1>3. ASSUME NEW p \in Process, ReloadRestored(p) PROVE TypeOK'
  BY <1>3, ReadTyped DEF ReloadRestored, fileVars, windowVars, watchVars
<1>4. ASSUME NEW p \in Process, Edit(p) PROVE TypeOK'
  BY <1>4 DEF Edit, fileVars, watchVars
<1>5. ASSUME NEW p \in Process, Close(p) PROVE TypeOK'
  BY <1>5 DEF Close, ClearWindow, fileVars
<1>6. ASSUME NEW p \in Process, SaveStart(p) PROVE TypeOK'
  <2>1. /\ backups' \in Seq(Content) /\ Len(backups') =< MaxBackups
        /\ age' \in {"newer", "copied", "any"} /\ copied' \subseteq Content
    <3>1. CASE BackupEnabled
      BY <1>6, <3>1, BackupKept DEF SaveStart
    <3>2. CASE ~BackupEnabled
      BY <1>6, <3>2 DEF SaveStart, backupVars
    <3>3. QED
      BY <3>1, <3>2
  <2>2. pc' \in [Process -> Phase] /\ job' \in [Process -> Job]
    BY <1>6 DEF SaveStart
  <2>3. QED
    BY <1>6, <2>1, <2>2 DEF SaveStart, windowVars, watchVars
<1>7. ASSUME NEW p \in Process, RestoreStart(p) PROVE TypeOK'
  <2>1. /\ backups' \in Seq(Content) /\ Len(backups') =< MaxBackups
        /\ age' \in {"newer", "copied", "any"}
    BY <1>7, BackupKept DEF RestoreStart
  <2>2. pc' \in [Process -> Phase] /\ job' \in [Process -> Job]
    BY <1>7 DEF RestoreStart
  <2>3. QED
    BY <1>7, <2>1, <2>2 DEF RestoreStart, windowVars, watchVars
<1>8. ASSUME NEW p \in Process, ImportStart(p) PROVE TypeOK'
  BY <1>8 DEF ImportStart, fileVars, windowVars, watchVars
<1>9. ASSUME NEW p \in Process, CopyStart(p) PROVE TypeOK'
  BY <1>9 DEF CopyStart, fileVars, windowVars, watchVars
<1>10. ASSUME NEW p \in Process, KeepEditing(p) PROVE TypeOK'
  BY <1>10 DEF KeepEditing, fileVars, windowVars, watchVars
<1>11. ASSUME NEW p \in Process, StampLoaded(p) PROVE TypeOK'
  <2>1. job[p].text \in Document /\ Dump[job[p].text] \in Document
    OBVIOUS
  <2>2. /\ base' \in [Process -> Document \cup {NoHash}]
        /\ draft' \in [Process -> Document]
    BY <1>11, <2>1 DEF StampLoaded
  <2>3. synced' \in [Process -> BOOLEAN]
    BY <1>11 DEF StampLoaded
  <2>4. /\ dirty' \in [Process -> BOOLEAN]
        /\ warned' \in [Process -> BOOLEAN]
        /\ pc' \in [Process -> Phase]
        /\ job' \in [Process -> Job]
    BY <1>11 DEF StampLoaded
  <2>5. QED
    BY <1>11, <2>2, <2>3, <2>4 DEF StampLoaded, fileVars
<1>12. ASSUME NEW p \in Process, Acquire(p) PROVE TypeOK'
  BY <1>12 DEF Acquire, fileVars, windowVars, watchVars
<1>13. ASSUME NEW p \in Process, Timeout(p) PROVE TypeOK'
  BY <1>13 DEF Timeout, Home, fileVars, windowVars, watchVars
<1>14. ASSUME NEW p \in Process, Compare(p) PROVE TypeOK'
  BY <1>14 DEF Compare, fileVars, windowVars, watchVars
<1>15. ASSUME NEW p \in Process, Conflict(p) PROVE TypeOK'
  BY <1>15 DEF Conflict, fileVars, windowVars
<1>16. ASSUME NEW p \in Process, CreateTemp(p) PROVE TypeOK'
  BY <1>16 DEF CreateTemp, fileVars, windowVars, watchVars
<1>17. ASSUME NEW p \in Process, FinishTemp(p) PROVE TypeOK'
  BY <1>17 DEF FinishTemp, fileVars, windowVars, watchVars
<1>18. ASSUME NEW p \in Process, WriteFails(p) PROVE TypeOK'
  BY <1>18 DEF WriteFails, Home, fileVars, windowVars, watchVars
<1>19. ASSUME NEW p \in Process, Replace(p) PROVE TypeOK'
  <2>1. temp[p] = "whole" /\ job[p].text \in Document
    BY <1>19 DEF Replace, LockInv
  <2>2. /\ disk' \in Content /\ synced' \in [Process -> BOOLEAN]
        /\ age' \in {"newer", "copied", "any"}
    <3>1. CASE PutInPlace(p)
      BY <2>1, <3>1 DEF PutInPlace
    <3>2. CASE UNCHANGED <<disk, age, synced>>
      BY <3>2
    <3>3. QED
      BY <1>19, <3>1, <3>2 DEF Replace
  <2>3. base' \in [Process -> Document \cup {NoHash}]
    BY <1>19, <2>1 DEF Replace
  <2>4. pc' \in [Process -> Phase]
    BY <1>19 DEF Replace
  <2>5. /\ mutex' \in Process \cup {Free, Abandoned}
        /\ job' \in [Process -> Job]
        /\ temp' \in [Process -> {"none", "torn", "whole"}]
    BY <1>19 DEF Replace
  <2>6. UNCHANGED <<backups, copied, draft, dirty, warned, polling>>
    BY <1>19 DEF Replace
  <2>7. QED
    BY <2>2, <2>3, <2>4, <2>5, <2>6
<1>20. ASSUME NEW p \in Process, StampSaved(p) PROVE TypeOK'
  <2>1. /\ synced' \in [Process -> BOOLEAN]
        /\ warned' \in [Process -> BOOLEAN]
        /\ dirty' \in [Process -> BOOLEAN]
    <3>1. PICK ok \in BOOLEAN : synced' = [synced EXCEPT ![p] = ok]
      BY <1>20 DEF StampSaved
    <3>2. synced' \in [Process -> BOOLEAN]
      BY <3>1
    <3>3. /\ warned' \in [Process -> BOOLEAN]
          /\ dirty' \in [Process -> BOOLEAN]
      BY <1>20 DEF StampSaved
    <3>4. QED
      BY <3>2, <3>3
  <2>2. pc' \in [Process -> Phase]
    BY <1>20 DEF StampSaved
  <2>3. QED
    BY <1>20, <2>1, <2>2 DEF StampSaved, fileVars
<1>21. ASSUME NEW p \in Process, PollRead(p) PROVE TypeOK'
  BY <1>21 DEF PollRead, fileVars, windowVars
<1>22. ASSUME NEW p \in Process, PollReadFails(p) PROVE TypeOK'
  BY <1>22 DEF PollReadFails, fileVars, windowVars
<1>23. ASSUME NEW p \in Process, PollReturns(p) PROVE TypeOK'
  BY <1>23 DEF PollReturns, fileVars, windowVars
<1>24. ASSUME NEW p \in Process, PollStamp(p) PROVE TypeOK'
  BY <1>24 DEF PollStamp, fileVars, windowVars
<1>25. ASSUME NEW p \in Process, Crash(p) PROVE TypeOK'
  BY <1>25 DEF Crash, ClearWindow, fileVars
<1>26. ASSUME ForeignWrite PROVE TypeOK'
  BY <1>26 DEF ForeignWrite, windowVars
<1>27. CASE UNCHANGED vars
  BY <1>27 DEF vars
<1>28. QED
  BY <1>1, <1>2, <1>3, <1>4, <1>5, <1>6, <1>7, <1>8, <1>9, <1>10, <1>11, <1>12, <1>13, <1>14, <1>15, <1>16, <1>17, <1>18, <1>19, <1>20, <1>21, <1>22, <1>23, <1>24, <1>25, <1>26, <1>27
     DEF Next, UserStep, ProgramStep

LEMMA StepLocked ==
  ASSUME TypeOK, LockInv, [Next]_vars
  PROVE  LockInv'
<1> USE RuleFileConstants DEF TypeOK, LockInv, Locked, Writing, fileVars, windowVars, watchVars
<1>1. ASSUME NEW p \in Process, Open(p) PROVE LockInv'
  BY <1>1 DEF Open, ReadFile
<1>2. ASSUME NEW p \in Process, Reload(p) PROVE LockInv'
  BY <1>2 DEF Reload, ReadFile, AtRest
<1>3. ASSUME NEW p \in Process, ReloadRestored(p) PROVE LockInv'
  BY <1>3 DEF ReloadRestored, ReadFile
<1>4. ASSUME NEW p \in Process, Edit(p) PROVE LockInv'
  BY <1>4 DEF Edit, AtRest
<1>5. ASSUME NEW p \in Process, Close(p) PROVE LockInv'
  BY <1>5 DEF Close, ClearWindow, AtRest
<1>6. ASSUME NEW p \in Process, SaveStart(p) PROVE LockInv'
  BY <1>6 DEF SaveStart, AtRest
<1>7. ASSUME NEW p \in Process, RestoreStart(p) PROVE LockInv'
  BY <1>7 DEF RestoreStart, AtRest
<1>8. ASSUME NEW p \in Process, ImportStart(p) PROVE LockInv'
  BY <1>8 DEF ImportStart
<1>9. ASSUME NEW p \in Process, CopyStart(p) PROVE LockInv'
  BY <1>9 DEF CopyStart, AtRest
<1>10. ASSUME NEW p \in Process, KeepEditing(p) PROVE LockInv'
  BY <1>10 DEF KeepEditing, AtRest
<1>11. ASSUME NEW p \in Process, StampLoaded(p) PROVE LockInv'
  BY <1>11 DEF StampLoaded
<1>12. ASSUME NEW p \in Process, Acquire(p) PROVE LockInv'
  BY <1>12 DEF Acquire, Available
<1>13. ASSUME NEW p \in Process, Timeout(p) PROVE LockInv'
  BY <1>13 DEF Timeout, Home
<1>14. ASSUME NEW p \in Process, Compare(p) PROVE LockInv'
  BY <1>14 DEF Compare
<1>15. ASSUME NEW p \in Process, Conflict(p) PROVE LockInv'
  BY <1>15 DEF Conflict
<1>16. ASSUME NEW p \in Process, CreateTemp(p) PROVE LockInv'
  BY <1>16 DEF CreateTemp
<1>17. ASSUME NEW p \in Process, FinishTemp(p) PROVE LockInv'
  BY <1>17 DEF FinishTemp
<1>18. ASSUME NEW p \in Process, WriteFails(p) PROVE LockInv'
  BY <1>18 DEF WriteFails, Home
<1>19. ASSUME NEW p \in Process, Replace(p) PROVE LockInv'
  BY <1>19 DEF Replace
<1>20. ASSUME NEW p \in Process, StampSaved(p) PROVE LockInv'
  BY <1>20 DEF StampSaved
<1>21. ASSUME NEW p \in Process, PollRead(p) PROVE LockInv'
  BY <1>21 DEF PollRead
<1>22. ASSUME NEW p \in Process, PollReadFails(p) PROVE LockInv'
  BY <1>22 DEF PollReadFails
<1>23. ASSUME NEW p \in Process, PollReturns(p) PROVE LockInv'
  BY <1>23 DEF PollReturns
<1>24. ASSUME NEW p \in Process, PollStamp(p) PROVE LockInv'
  BY <1>24 DEF PollStamp
<1>25. ASSUME NEW p \in Process, Crash(p) PROVE LockInv'
  BY <1>25 DEF Crash, ClearWindow
<1>26. ASSUME ForeignWrite PROVE LockInv'
  BY <1>26 DEF ForeignWrite
<1>27. CASE UNCHANGED vars
  BY <1>27 DEF vars
<1>28. QED
  BY <1>1, <1>2, <1>3, <1>4, <1>5, <1>6, <1>7, <1>8, <1>9, <1>10, <1>11, <1>12, <1>13,
     <1>14, <1>15, <1>16, <1>17, <1>18, <1>19, <1>20, <1>21, <1>22, <1>23, <1>24, <1>25, <1>26, <1>27
     DEF Next, UserStep, ProgramStep

LEMMA ReadJob ==
  ASSUME TypeOK, JobInv, NEW p \in Process, ReadFile(p),
         UNCHANGED <<base, draft>>
  PROVE  JobInv'
<1> USE RuleFileConstants DEF TypeOK, JobInv, Job, NoJob, OverwriteKinds
<1>1. CASE /\ pc' = [pc EXCEPT ![p] = "loaded"]
           /\ job' = [job EXCEPT ![p] = [kind |-> "load", text |-> disk]]
  BY <1>1
<1>2. CASE /\ pc' = [pc EXCEPT ![p] = "idle"]
           /\ job' = [job EXCEPT ![p] = NoJob]
  BY <1>2
<1>3. QED
  BY <1>1, <1>2 DEF ReadFile

LEMMA StepJob ==
  ASSUME TypeOK, JobInv, [Next]_vars
  PROVE  JobInv'
<1> USE RuleFileConstants DEF TypeOK, JobInv, Job, NoJob, OverwriteKinds, fileVars, windowVars, watchVars
<1>1. ASSUME NEW p \in Process, Open(p) PROVE JobInv'
  BY <1>1, ReadJob DEF Open
<1>2. ASSUME NEW p \in Process, Reload(p) PROVE JobInv'
  BY <1>2, ReadJob DEF Reload, AtRest
<1>3. ASSUME NEW p \in Process, ReloadRestored(p) PROVE JobInv'
  BY <1>3, ReadJob DEF ReloadRestored
<1>4. ASSUME NEW p \in Process, Edit(p) PROVE JobInv'
  BY <1>4 DEF Edit, AtRest
<1>5. ASSUME NEW p \in Process, Close(p) PROVE JobInv'
  BY <1>5 DEF Close, ClearWindow, AtRest
<1>6. ASSUME NEW p \in Process, SaveStart(p) PROVE JobInv'
  BY <1>6 DEF SaveStart, AtRest
<1>7. ASSUME NEW p \in Process, RestoreStart(p) PROVE JobInv'
  BY <1>7 DEF RestoreStart, AtRest
<1>8. ASSUME NEW p \in Process, ImportStart(p) PROVE JobInv'
  BY <1>8 DEF ImportStart
<1>9. ASSUME NEW p \in Process, CopyStart(p) PROVE JobInv'
  BY <1>9 DEF CopyStart, AtRest
<1>10. ASSUME NEW p \in Process, KeepEditing(p) PROVE JobInv'
  BY <1>10 DEF KeepEditing, AtRest
<1>11. ASSUME NEW p \in Process, StampLoaded(p) PROVE JobInv'
  BY <1>11 DEF StampLoaded
<1>12. ASSUME NEW p \in Process, Acquire(p) PROVE JobInv'
  BY <1>12 DEF Acquire, Available
<1>13. ASSUME NEW p \in Process, Timeout(p) PROVE JobInv'
  BY <1>13 DEF Timeout, Home
<1>14. ASSUME NEW p \in Process, Compare(p) PROVE JobInv'
  BY <1>14 DEF Compare
<1>15. ASSUME NEW p \in Process, Conflict(p) PROVE JobInv'
  BY <1>15 DEF Conflict
<1>16. ASSUME NEW p \in Process, CreateTemp(p) PROVE JobInv'
  BY <1>16 DEF CreateTemp
<1>17. ASSUME NEW p \in Process, FinishTemp(p) PROVE JobInv'
  BY <1>17 DEF FinishTemp
<1>18. ASSUME NEW p \in Process, WriteFails(p) PROVE JobInv'
  BY <1>18 DEF WriteFails, Home
<1>19. ASSUME NEW p \in Process, Replace(p) PROVE JobInv'
  <2>1. CASE job[p].kind = "save"
    BY <1>19, <2>1 DEF Replace
  <2>2. CASE job[p].kind # "save"
    BY <1>19, <2>2 DEF Replace
  <2>3. QED
    BY <2>1, <2>2
<1>20. ASSUME NEW p \in Process, StampSaved(p) PROVE JobInv'
  BY <1>20 DEF StampSaved
<1>21. ASSUME NEW p \in Process, PollRead(p) PROVE JobInv'
  BY <1>21 DEF PollRead
<1>22. ASSUME NEW p \in Process, PollReadFails(p) PROVE JobInv'
  BY <1>22 DEF PollReadFails
<1>23. ASSUME NEW p \in Process, PollReturns(p) PROVE JobInv'
  BY <1>23 DEF PollReturns
<1>24. ASSUME NEW p \in Process, PollStamp(p) PROVE JobInv'
  BY <1>24 DEF PollStamp
<1>25. ASSUME NEW p \in Process, Crash(p) PROVE JobInv'
  BY <1>25 DEF Crash, ClearWindow
<1>26. ASSUME ForeignWrite PROVE JobInv'
  BY <1>26 DEF ForeignWrite
<1>27. CASE UNCHANGED vars
  BY <1>27 DEF vars
<1>28. QED
  BY <1>1, <1>2, <1>3, <1>4, <1>5, <1>6, <1>7, <1>8, <1>9, <1>10, <1>11, <1>12, <1>13,
     <1>14, <1>15, <1>16, <1>17, <1>18, <1>19, <1>20, <1>21, <1>22, <1>23, <1>24, <1>25, <1>26, <1>27
     DEF Next, UserStep, ProgramStep

(***************************************************************************)
(* A draft that looks saved is saved.                                      *)
(***************************************************************************)
LEMMA StepClean ==
  ASSUME TypeOK, JobInv, CleanIsSaved, [Next]_vars
  PROVE  CleanIsSaved'
<1> USE RuleFileConstants DEF TypeOK, JobInv, CleanIsSaved, fileVars, windowVars, watchVars
<1>1. ASSUME NEW p \in Process, Open(p) PROVE CleanIsSaved'
  BY <1>1 DEF Open, ReadFile
<1>2. ASSUME NEW p \in Process, Reload(p) PROVE CleanIsSaved'
  BY <1>2 DEF Reload, ReadFile, AtRest
<1>3. ASSUME NEW p \in Process, ReloadRestored(p) PROVE CleanIsSaved'
  BY <1>3 DEF ReloadRestored, ReadFile
<1>4. ASSUME NEW p \in Process, Edit(p) PROVE CleanIsSaved'
  BY <1>4 DEF Edit
<1>5. ASSUME NEW p \in Process, Close(p) PROVE CleanIsSaved'
  BY <1>5 DEF Close, ClearWindow, AtRest
<1>6. ASSUME NEW p \in Process, SaveStart(p) PROVE CleanIsSaved'
  BY <1>6 DEF SaveStart, AtRest
<1>7. ASSUME NEW p \in Process, RestoreStart(p) PROVE CleanIsSaved'
  BY <1>7 DEF RestoreStart, AtRest
<1>8. ASSUME NEW p \in Process, ImportStart(p) PROVE CleanIsSaved'
  BY <1>8 DEF ImportStart
<1>9. ASSUME NEW p \in Process, CopyStart(p) PROVE CleanIsSaved'
  BY <1>9 DEF CopyStart, AtRest
<1>10. ASSUME NEW p \in Process, KeepEditing(p) PROVE CleanIsSaved'
  BY <1>10 DEF KeepEditing, AtRest
<1>11. ASSUME NEW p \in Process, StampLoaded(p) PROVE CleanIsSaved'
  <2> SUFFICES ASSUME NEW q \in Process, ~dirty'[q]
               PROVE  draft'[q] = IF base'[q] = NoHash THEN Empty ELSE Dump[base'[q]]
    OBVIOUS
  <2>1. CASE q = p
    <3>1. job[p].text # NoHash
      BY DEF Job, Content
    <3>2. base'[p] = job[p].text /\ draft'[p] = Dump[job[p].text]
      BY <1>11 DEF StampLoaded
    <3>3. QED
      BY <2>1, <3>1, <3>2
  <2>2. CASE q # p
    BY <1>11, <2>2 DEF StampLoaded
  <2>3. QED
    BY <2>1, <2>2
<1>12. ASSUME NEW p \in Process, Acquire(p) PROVE CleanIsSaved'
  BY <1>12 DEF Acquire, Available
<1>13. ASSUME NEW p \in Process, Timeout(p) PROVE CleanIsSaved'
  BY <1>13 DEF Timeout, Home
<1>14. ASSUME NEW p \in Process, Compare(p) PROVE CleanIsSaved'
  BY <1>14 DEF Compare
<1>15. ASSUME NEW p \in Process, Conflict(p) PROVE CleanIsSaved'
  BY <1>15 DEF Conflict
<1>16. ASSUME NEW p \in Process, CreateTemp(p) PROVE CleanIsSaved'
  BY <1>16 DEF CreateTemp
<1>17. ASSUME NEW p \in Process, FinishTemp(p) PROVE CleanIsSaved'
  BY <1>17 DEF FinishTemp
<1>18. ASSUME NEW p \in Process, WriteFails(p) PROVE CleanIsSaved'
  BY <1>18 DEF WriteFails, Home
<1>19. ASSUME NEW p \in Process, Replace(p) PROVE CleanIsSaved'
  <2> SUFFICES ASSUME NEW q \in Process, ~dirty'[q]
               PROVE  draft'[q] = IF base'[q] = NoHash THEN Empty ELSE Dump[base'[q]]
    OBVIOUS
  <2>1. dirty' = dirty /\ draft' = draft
    BY <1>19 DEF Replace
  <2>2. CASE base' = base
    BY <2>1, <2>2
  <2>3. CASE job[p].kind = "save" /\ base' = [base EXCEPT ![p] = job[p].text]
    <3>1. job[p].text = draft[p] /\ Dump[draft[p]] = draft[p] /\ draft[p] # NoHash
      BY <2>3 DEF Content
    <3>2. QED
      BY <2>1, <2>3, <3>1
  <2>4. QED
    BY <1>19, <2>2, <2>3 DEF Replace
<1>20. ASSUME NEW p \in Process, StampSaved(p) PROVE CleanIsSaved'
  <2> SUFFICES ASSUME NEW q \in Process, ~dirty'[q]
               PROVE  draft'[q] = IF base'[q] = NoHash THEN Empty ELSE Dump[base'[q]]
    OBVIOUS
  <2>1. draft' = draft /\ base' = base
    BY <1>20 DEF StampSaved
  <2>2. CASE q = p
    <3>1. base[p] = draft[p] /\ Dump[draft[p]] = draft[p] /\ draft[p] # NoHash
      BY <1>20 DEF StampSaved, Content
    <3>2. QED
      BY <2>1, <2>2, <3>1
  <2>3. CASE q # p
    BY <1>20, <2>1, <2>3 DEF StampSaved
  <2>4. QED
    BY <2>2, <2>3
<1>21. ASSUME NEW p \in Process, PollRead(p) PROVE CleanIsSaved'
  BY <1>21 DEF PollRead
<1>22. ASSUME NEW p \in Process, PollReadFails(p) PROVE CleanIsSaved'
  BY <1>22 DEF PollReadFails
<1>23. ASSUME NEW p \in Process, PollReturns(p) PROVE CleanIsSaved'
  BY <1>23 DEF PollReturns
<1>24. ASSUME NEW p \in Process, PollStamp(p) PROVE CleanIsSaved'
  BY <1>24 DEF PollStamp
<1>25. ASSUME NEW p \in Process, Crash(p) PROVE CleanIsSaved'
  BY <1>25 DEF Crash, ClearWindow
<1>26. ASSUME ForeignWrite PROVE CleanIsSaved'
  BY <1>26 DEF ForeignWrite
<1>27. CASE UNCHANGED vars
  BY <1>27 DEF vars
<1>28. QED
  BY <1>1, <1>2, <1>3, <1>4, <1>5, <1>6, <1>7, <1>8, <1>9, <1>10, <1>11, <1>12, <1>13,
     <1>14, <1>15, <1>16, <1>17, <1>18, <1>19, <1>20, <1>21, <1>22, <1>23, <1>24, <1>25, <1>26, <1>27
     DEF Next, UserStep, ProgramStep

(***************************************************************************)
(* No lost update.  Between a save's comparison and its replacement no     *)
(* other process can write, because it would own the mutex; programs that  *)
(* ignore the mutex void the argument, hence the assumption.               *)
(***************************************************************************)
LEMMA StepCompared ==
  ASSUME Foreign = {}, TypeOK, LockInv, ComparedInv, [Next]_vars
  PROVE  ComparedInv'
<1> USE RuleFileConstants DEF TypeOK, Job, NoJob, ComparedInv, LockInv, Locked, Writing, fileVars, windowVars, watchVars
<1>1. ASSUME NEW p \in Process, Open(p) PROVE ComparedInv'
  BY <1>1 DEF Open, ReadFile
<1>2. ASSUME NEW p \in Process, Reload(p) PROVE ComparedInv'
  BY <1>2 DEF Reload, ReadFile, AtRest
<1>3. ASSUME NEW p \in Process, ReloadRestored(p) PROVE ComparedInv'
  BY <1>3 DEF ReloadRestored, ReadFile
<1>4. ASSUME NEW p \in Process, Edit(p) PROVE ComparedInv'
  BY <1>4 DEF Edit, AtRest
<1>5. ASSUME NEW p \in Process, Close(p) PROVE ComparedInv'
  BY <1>5 DEF Close, ClearWindow, AtRest
<1>6. ASSUME NEW p \in Process, SaveStart(p) PROVE ComparedInv'
  BY <1>6 DEF SaveStart, AtRest
<1>7. ASSUME NEW p \in Process, RestoreStart(p) PROVE ComparedInv'
  BY <1>7 DEF RestoreStart, AtRest
<1>8. ASSUME NEW p \in Process, ImportStart(p) PROVE ComparedInv'
  BY <1>8 DEF ImportStart
<1>9. ASSUME NEW p \in Process, CopyStart(p) PROVE ComparedInv'
  BY <1>9 DEF CopyStart, AtRest
<1>10. ASSUME NEW p \in Process, KeepEditing(p) PROVE ComparedInv'
  BY <1>10 DEF KeepEditing, AtRest
<1>11. ASSUME NEW p \in Process, StampLoaded(p) PROVE ComparedInv'
  BY <1>11 DEF StampLoaded
<1>12. ASSUME NEW p \in Process, Acquire(p) PROVE ComparedInv'
  BY <1>12 DEF Acquire, Available
<1>13. ASSUME NEW p \in Process, Timeout(p) PROVE ComparedInv'
  BY <1>13 DEF Timeout, Home
<1>14. ASSUME NEW p \in Process, Compare(p) PROVE ComparedInv'
  BY <1>14 DEF Compare
<1>15. ASSUME NEW p \in Process, Conflict(p) PROVE ComparedInv'
  BY <1>15 DEF Conflict
<1>16. ASSUME NEW p \in Process, CreateTemp(p) PROVE ComparedInv'
  BY <1>16 DEF CreateTemp
<1>17. ASSUME NEW p \in Process, FinishTemp(p) PROVE ComparedInv'
  BY <1>17 DEF FinishTemp
<1>18. ASSUME NEW p \in Process, WriteFails(p) PROVE ComparedInv'
  BY <1>18 DEF WriteFails, Home
<1>19. ASSUME NEW p \in Process, Replace(p) PROVE ComparedInv'
  BY <1>19 DEF Replace
<1>20. ASSUME NEW p \in Process, StampSaved(p) PROVE ComparedInv'
  BY <1>20 DEF StampSaved
<1>21. ASSUME NEW p \in Process, PollRead(p) PROVE ComparedInv'
  BY <1>21 DEF PollRead
<1>22. ASSUME NEW p \in Process, PollReadFails(p) PROVE ComparedInv'
  BY <1>22 DEF PollReadFails
<1>23. ASSUME NEW p \in Process, PollReturns(p) PROVE ComparedInv'
  BY <1>23 DEF PollReturns
<1>24. ASSUME NEW p \in Process, PollStamp(p) PROVE ComparedInv'
  BY <1>24 DEF PollStamp
<1>25. ASSUME NEW p \in Process, Crash(p) PROVE ComparedInv'
  BY <1>25 DEF Crash, ClearWindow
<1>26. ASSUME ForeignWrite PROVE ComparedInv'
  BY <1>26 DEF ForeignWrite
<1>27. CASE UNCHANGED vars
  BY <1>27 DEF vars
<1>28. QED
  BY <1>1, <1>2, <1>3, <1>4, <1>5, <1>6, <1>7, <1>8, <1>9, <1>10, <1>11, <1>12, <1>13,
     <1>14, <1>15, <1>16, <1>17, <1>18, <1>19, <1>20, <1>21, <1>22, <1>23, <1>24, <1>25, <1>26, <1>27
     DEF Next, UserStep, ProgramStep

(***************************************************************************)
(* Only the replacement of a save takes a process to "stamping".           *)
(***************************************************************************)
LEMMA SaveStep ==
  ASSUME TypeOK, [Next]_vars, NEW q \in Process, Saves(q)
  PROVE  Replace(q) /\ job[q].kind = "save"
<1> USE RuleFileConstants DEF TypeOK, Saves, fileVars, windowVars, watchVars
<1>1. ASSUME NEW p \in Process, Open(p) PROVE FALSE
  BY <1>1 DEF Open, ReadFile
<1>2. ASSUME NEW p \in Process, Reload(p) PROVE FALSE
  BY <1>2 DEF Reload, ReadFile, AtRest
<1>3. ASSUME NEW p \in Process, ReloadRestored(p) PROVE FALSE
  BY <1>3 DEF ReloadRestored, ReadFile
<1>4. ASSUME NEW p \in Process, Edit(p) PROVE FALSE
  BY <1>4 DEF Edit
<1>5. ASSUME NEW p \in Process, Close(p) PROVE FALSE
  BY <1>5 DEF Close, ClearWindow, AtRest
<1>6. ASSUME NEW p \in Process, SaveStart(p) PROVE FALSE
  BY <1>6 DEF SaveStart, AtRest
<1>7. ASSUME NEW p \in Process, RestoreStart(p) PROVE FALSE
  BY <1>7 DEF RestoreStart, AtRest
<1>8. ASSUME NEW p \in Process, ImportStart(p) PROVE FALSE
  BY <1>8 DEF ImportStart
<1>9. ASSUME NEW p \in Process, CopyStart(p) PROVE FALSE
  BY <1>9 DEF CopyStart, AtRest
<1>10. ASSUME NEW p \in Process, KeepEditing(p) PROVE FALSE
  BY <1>10 DEF KeepEditing, AtRest
<1>11. ASSUME NEW p \in Process, StampLoaded(p) PROVE FALSE
  BY <1>11 DEF StampLoaded
<1>12. ASSUME NEW p \in Process, Acquire(p) PROVE FALSE
  BY <1>12 DEF Acquire, Available
<1>13. ASSUME NEW p \in Process, Timeout(p) PROVE FALSE
  BY <1>13 DEF Timeout, Home
<1>14. ASSUME NEW p \in Process, Compare(p) PROVE FALSE
  BY <1>14 DEF Compare
<1>15. ASSUME NEW p \in Process, Conflict(p) PROVE FALSE
  BY <1>15 DEF Conflict
<1>16. ASSUME NEW p \in Process, CreateTemp(p) PROVE FALSE
  BY <1>16 DEF CreateTemp
<1>17. ASSUME NEW p \in Process, FinishTemp(p) PROVE FALSE
  BY <1>17 DEF FinishTemp
<1>18. ASSUME NEW p \in Process, WriteFails(p) PROVE FALSE
  BY <1>18 DEF WriteFails, Home
<1>19. ASSUME NEW p \in Process, Replace(p) PROVE p = q /\ job[q].kind = "save"
  BY <1>19 DEF Replace
<1>20. ASSUME NEW p \in Process, StampSaved(p) PROVE FALSE
  BY <1>20 DEF StampSaved
<1>21. ASSUME NEW p \in Process, PollRead(p) PROVE FALSE
  BY <1>21 DEF PollRead
<1>22. ASSUME NEW p \in Process, PollReadFails(p) PROVE FALSE
  BY <1>22 DEF PollReadFails
<1>23. ASSUME NEW p \in Process, PollReturns(p) PROVE FALSE
  BY <1>23 DEF PollReturns
<1>24. ASSUME NEW p \in Process, PollStamp(p) PROVE FALSE
  BY <1>24 DEF PollStamp
<1>25. ASSUME NEW p \in Process, Crash(p) PROVE FALSE
  BY <1>25 DEF Crash, ClearWindow
<1>26. ASSUME ForeignWrite PROVE FALSE
  BY <1>26 DEF ForeignWrite
<1>27. ASSUME UNCHANGED vars PROVE FALSE
  BY <1>27 DEF vars
<1>28. QED
  BY <1>1, <1>2, <1>3, <1>4, <1>5, <1>6, <1>7, <1>8, <1>9, <1>10, <1>11, <1>12, <1>13,
     <1>14, <1>15, <1>16, <1>17, <1>18, <1>19, <1>20, <1>21, <1>22, <1>23, <1>24, <1>25, <1>26, <1>27
     DEF Next, UserStep, ProgramStep

(***************************************************************************)
(* A save's backup.  It is made before the mutex is taken, so what it      *)
(* copies may not be what the save replaces; but then that content was     *)
(* replaced by somebody's save before, and backed up for it.  Rotation may *)
(* have taken that copy, never one made since the file was last written.   *)
(***************************************************************************)
LEMMA StepBackup ==
  ASSUME Foreign = {}, Overwrites = {}, TypeOK, WriterInv, BackupInv, [Next]_vars
  PROVE  BackupInv'
<1> USE RuleFileConstants DEF TypeOK, Job, NoJob, BackupInv, SeenBy, Locked, Writing, fileVars, windowVars, watchVars
<1>1. ASSUME NEW p \in Process, Open(p) PROVE BackupInv'
  BY <1>1 DEF Open, ReadFile
<1>2. ASSUME NEW p \in Process, Reload(p) PROVE BackupInv'
  BY <1>2 DEF Reload, ReadFile, AtRest
<1>3. ASSUME NEW p \in Process, ReloadRestored(p) PROVE BackupInv'
  BY <1>3 DEF ReloadRestored, ReadFile
<1>4. ASSUME NEW p \in Process, Edit(p) PROVE BackupInv'
  BY <1>4 DEF Edit
<1>5. ASSUME NEW p \in Process, Close(p) PROVE BackupInv'
  BY <1>5 DEF Close, ClearWindow, AtRest
<1>6. ASSUME NEW p \in Process, SaveStart(p) PROVE BackupInv'
  <2>1. CASE BackupEnabled
    <3>1. /\ age' = "copied" /\ backups' # <<>> /\ Head(backups') = disk
          /\ copied' = copied \cup {disk} /\ disk' = disk
      BY <1>6, <2>1, BackupKept DEF SaveStart
    <3>2. /\ pc[p] = "idle" /\ pc' = [pc EXCEPT ![p] = "waiting"]
          /\ job' = [job EXCEPT ![p] = [kind |-> "save", text |-> draft[p]]]
          /\ base' = base
      BY <1>6 DEF SaveStart, AtRest
    <3>3. QED
      BY <3>1, <3>2
  <2>2. CASE ~BackupEnabled
    BY <1>6, <2>2 DEF SaveStart, backupVars
  <2>3. QED
    BY <2>1, <2>2
<1>7. ASSUME NEW p \in Process, RestoreStart(p) PROVE BackupInv'
  BY <1>7 DEF RestoreStart
<1>8. ASSUME NEW p \in Process, ImportStart(p) PROVE BackupInv'
  BY <1>8 DEF ImportStart
<1>9. ASSUME NEW p \in Process, CopyStart(p) PROVE BackupInv'
  BY <1>9 DEF CopyStart, AtRest
<1>10. ASSUME NEW p \in Process, KeepEditing(p) PROVE BackupInv'
  BY <1>10 DEF KeepEditing, AtRest
<1>11. ASSUME NEW p \in Process, StampLoaded(p) PROVE BackupInv'
  BY <1>11 DEF StampLoaded
<1>12. ASSUME NEW p \in Process, Acquire(p) PROVE BackupInv'
  BY <1>12 DEF Acquire, Available
<1>13. ASSUME NEW p \in Process, Timeout(p) PROVE BackupInv'
  BY <1>13 DEF Timeout, Home
<1>14. ASSUME NEW p \in Process, Compare(p) PROVE BackupInv'
  BY <1>14 DEF Compare
<1>15. ASSUME NEW p \in Process, Conflict(p) PROVE BackupInv'
  BY <1>15 DEF Conflict
<1>16. ASSUME NEW p \in Process, CreateTemp(p) PROVE BackupInv'
  BY <1>16 DEF CreateTemp
<1>17. ASSUME NEW p \in Process, FinishTemp(p) PROVE BackupInv'
  BY <1>17 DEF FinishTemp
<1>18. ASSUME NEW p \in Process, WriteFails(p) PROVE BackupInv'
  BY <1>18 DEF WriteFails, Home
<1>19. ASSUME NEW p \in Process, Replace(p) PROVE BackupInv'
  <2>1. job[p].kind \in {"save", "copy"}
    BY <1>19 DEF Replace, WriterInv, JobInv, OverwriteKinds
  <2>2. CASE job[p].kind = "copy"
    BY <1>19, <2>2 DEF Replace
  <2>3. CASE job[p].kind = "save"
    <3>1. disk = base[p] /\ temp[p] = "whole"
      BY <1>19, <2>3 DEF Replace, WriterInv, ComparedInv, LockInv
    <3>2. BackupEnabled => disk \in copied
      BY <1>19, <2>3, <3>1 DEF Replace, Content
    <3>3. /\ disk' = job[p].text /\ base' = [base EXCEPT ![p] = job[p].text]
          /\ pc' = [pc EXCEPT ![p] = "stamping"] /\ job' = [job EXCEPT ![p] = NoJob]
          /\ copied' = copied /\ age' = "newer"
      BY <1>19, <2>3, <3>1 DEF Replace, PutInPlace
    <3>4. QED
      BY <3>2, <3>3
  <2>4. QED
    BY <2>1, <2>2, <2>3
<1>20. ASSUME NEW p \in Process, StampSaved(p) PROVE BackupInv'
  BY <1>20 DEF StampSaved
<1>21. ASSUME NEW p \in Process, PollRead(p) PROVE BackupInv'
  BY <1>21 DEF PollRead
<1>22. ASSUME NEW p \in Process, PollReadFails(p) PROVE BackupInv'
  BY <1>22 DEF PollReadFails
<1>23. ASSUME NEW p \in Process, PollReturns(p) PROVE BackupInv'
  BY <1>23 DEF PollReturns
<1>24. ASSUME NEW p \in Process, PollStamp(p) PROVE BackupInv'
  BY <1>24 DEF PollStamp
<1>25. ASSUME NEW p \in Process, Crash(p) PROVE BackupInv'
  BY <1>25 DEF Crash, ClearWindow
<1>26. ASSUME ForeignWrite PROVE BackupInv'
  BY <1>26 DEF ForeignWrite
<1>27. CASE UNCHANGED vars
  BY <1>27 DEF vars
<1>28. QED
  BY <1>1, <1>2, <1>3, <1>4, <1>5, <1>6, <1>7, <1>8, <1>9, <1>10, <1>11, <1>12, <1>13,
     <1>14, <1>15, <1>16, <1>17, <1>18, <1>19, <1>20, <1>21, <1>22, <1>23, <1>24, <1>25, <1>26, <1>27
     DEF Next, UserStep, ProgramStep

(***************************************************************************)
(* The protocol implements the register.                                   *)
(***************************************************************************)
\* A step the register does not see.
Quiet == disk' = disk /\ \A q \in Process : SeenBy(q)' = SeenBy(q)

RegisterStep == [Register!RegNext]_(Register!regVars)

LEMMA QuietStep == ASSUME Quiet PROVE RegisterStep
BY DEF Quiet, RegisterStep, Register!regVars

\* A read takes effect as Read, or fails and changes nothing.
LEMMA ReadStep ==
  ASSUME TypeOK, NEW p \in Process, ReadFile(p), pc[p] # "loaded",
         UNCHANGED <<disk, base>>
  PROVE  RegisterStep
<1>1. CASE /\ disk \in Document
           /\ pc' = [pc EXCEPT ![p] = "loaded"]
           /\ job' = [job EXCEPT ![p] = [kind |-> "load", text |-> disk]]
  <2>1. \A q \in Process : SeenBy(q)' = IF q = p THEN disk ELSE SeenBy(q)
    BY <1>1 DEF TypeOK, SeenBy
  <2>2. Register!Read(p)
    BY <2>1 DEF Register!Read
  <2>3. QED
    BY <2>2 DEF RegisterStep, Register!RegNext
<1>2. CASE /\ pc' = [pc EXCEPT ![p] = "idle"]
           /\ job' = [job EXCEPT ![p] = NoJob]
  BY <1>2, QuietStep DEF TypeOK, SeenBy, Quiet
<1>3. QED
  BY <1>1, <1>2 DEF ReadFile

\* A window that goes away forgets what it had loaded.
LEMMA ForgetStep ==
  ASSUME TypeOK, NEW p \in Process, ClearWindow(p), UNCHANGED disk
  PROVE  RegisterStep
<1>1. \A q \in Process : SeenBy(q)' = IF q = p THEN NoHash ELSE SeenBy(q)
  BY DEF TypeOK, SeenBy, ClearWindow
<1>2. Register!Forget(p)
  BY <1>1 DEF Register!Forget
<1>3. QED
  BY <1>2 DEF RegisterStep, Register!RegNext

LEMMA PublishStep ==
  ASSUME NEW p \in Process, NEW c \in Content, Register!Publish(p, c)
  PROVE  RegisterStep
BY DEF RegisterStep, Register!RegNext

LEMMA OverwriteStep ==
  ASSUME Overwrites # {}, NEW c \in Content, Register!Overwrite(c)
  PROVE  RegisterStep
BY DEF RegisterStep, Register!RegNext

\* Every step of the protocol is a step of the register, or none.
LEMMA StepImplements ==
  ASSUME Foreign = {}, TypeOK, WriterInv, [Next]_vars
  PROVE  RegisterStep
<1> USE RuleFileConstants DEF TypeOK, Job, NoJob, SeenBy, Quiet, fileVars, windowVars, watchVars
<1>1. ASSUME NEW p \in Process, Open(p) PROVE RegisterStep
  BY <1>1, ReadStep DEF Open, AtRest
<1>2. ASSUME NEW p \in Process, Reload(p) PROVE RegisterStep
  BY <1>2, ReadStep DEF Reload, AtRest
<1>3. ASSUME NEW p \in Process, ReloadRestored(p) PROVE RegisterStep
  BY <1>3, ReadStep DEF ReloadRestored, AtRest
<1>4. ASSUME NEW p \in Process, Edit(p) PROVE RegisterStep
  BY <1>4, QuietStep DEF Edit
<1>5. ASSUME NEW p \in Process, Close(p) PROVE RegisterStep
  BY <1>5, ForgetStep DEF Close
<1>6. ASSUME NEW p \in Process, SaveStart(p) PROVE RegisterStep
  BY <1>6, QuietStep DEF SaveStart, AtRest
<1>7. ASSUME NEW p \in Process, RestoreStart(p) PROVE RegisterStep
  BY <1>7, QuietStep DEF RestoreStart, AtRest
<1>8. ASSUME NEW p \in Process, ImportStart(p) PROVE RegisterStep
  BY <1>8, QuietStep DEF ImportStart
<1>9. ASSUME NEW p \in Process, CopyStart(p) PROVE RegisterStep
  BY <1>9, QuietStep DEF CopyStart, AtRest
<1>10. ASSUME NEW p \in Process, KeepEditing(p) PROVE RegisterStep
  BY <1>10, QuietStep DEF KeepEditing, AtRest
<1>11. ASSUME NEW p \in Process, StampLoaded(p) PROVE RegisterStep
  <2>1. \A q \in Process : SeenBy(q)' = SeenBy(q)
    BY <1>11 DEF StampLoaded
  <2>2. QED
    BY <1>11, <2>1, QuietStep DEF StampLoaded
<1>12. ASSUME NEW p \in Process, Acquire(p) PROVE RegisterStep
  BY <1>12, QuietStep DEF Acquire, Available
<1>13. ASSUME NEW p \in Process, Timeout(p) PROVE RegisterStep
  <2>1. /\ pc[p] # "loaded" /\ Home(p) # "loaded"
        /\ pc' = [pc EXCEPT ![p] = Home(p)] /\ job' = [job EXCEPT ![p] = NoJob]
        /\ disk' = disk /\ base' = base
    BY <1>13 DEF Timeout, Home, Locked, Writing
  <2>2. \A q \in Process : SeenBy(q)' = SeenBy(q)
    BY <2>1
  <2>3. QED
    BY <2>1, <2>2, QuietStep
<1>14. ASSUME NEW p \in Process, Compare(p) PROVE RegisterStep
  BY <1>14, QuietStep DEF Compare
<1>15. ASSUME NEW p \in Process, Conflict(p) PROVE RegisterStep
  BY <1>15, QuietStep DEF Conflict
<1>16. ASSUME NEW p \in Process, CreateTemp(p) PROVE RegisterStep
  BY <1>16, QuietStep DEF CreateTemp
<1>17. ASSUME NEW p \in Process, FinishTemp(p) PROVE RegisterStep
  BY <1>17, QuietStep DEF FinishTemp
<1>18. ASSUME NEW p \in Process, WriteFails(p) PROVE RegisterStep
  <2>1. /\ pc[p] # "loaded" /\ Home(p) # "loaded"
        /\ pc' = [pc EXCEPT ![p] = Home(p)] /\ job' = [job EXCEPT ![p] = NoJob]
        /\ disk' = disk /\ base' = base
    BY <1>18 DEF WriteFails, Home, Locked, Writing
  <2>2. \A q \in Process : SeenBy(q)' = SeenBy(q)
    BY <2>1
  <2>3. QED
    BY <2>1, <2>2, QuietStep
<1>19. ASSUME NEW p \in Process, Replace(p) PROVE RegisterStep
  <2>1. temp[p] = "whole" /\ job[p].text \in Content /\ job[p].text \in Document
    BY <1>19 DEF Replace, WriterInv, LockInv, Content
  <2>2. CASE job[p].kind = "copy"
    BY <1>19, <2>2, QuietStep DEF Replace
  <2>3. CASE job[p].kind = "save"
    <3>1. disk = base[p]
      BY <1>19, <2>3 DEF Replace, WriterInv, ComparedInv, Writing
    <3>2. /\ disk' = job[p].text /\ base' = [base EXCEPT ![p] = job[p].text]
          /\ pc' = [pc EXCEPT ![p] = "stamping"] /\ job' = [job EXCEPT ![p] = NoJob]
          /\ pc[p] = "replacing"
      BY <1>19, <2>1, <2>3 DEF Replace, PutInPlace
    <3>3. \A q \in Process : SeenBy(q)' = IF q = p THEN job[p].text ELSE SeenBy(q)
      BY <3>2
    <3>4. PICK c \in Content : c = job[p].text
      BY <2>1
    <3>5. Register!Publish(p, c)
      BY <3>1, <3>2, <3>3, <3>4 DEF Register!Publish
    <3>6. QED
      BY <3>5, PublishStep
  <2>4. CASE job[p].kind \in OverwriteKinds
    <3>1. Overwrites # {}
      BY <2>4 DEF WriterInv, JobInv
    <3>2. disk' = job[p].text /\ base' = base
      BY <1>19, <2>1, <2>4 DEF Replace, PutInPlace, OverwriteKinds
    <3>3. /\ pc' \in {[pc EXCEPT ![p] = "restored"], [pc EXCEPT ![p] = "closed"]}
          /\ job' = [job EXCEPT ![p] = NoJob] /\ pc[p] = "replacing"
      BY <1>19, <2>4 DEF Replace, OverwriteKinds
    <3>4. \A q \in Process : SeenBy(q)' = SeenBy(q)
      BY <3>2, <3>3
    <3>5. PICK c \in Content : c = job[p].text
      BY <2>1
    <3>6. Register!Overwrite(c)
      BY <3>2, <3>4, <3>5 DEF Register!Overwrite
    <3>7. QED
      BY <3>1, <3>6, OverwriteStep
  <2>5. QED
    BY <1>19, <2>2, <2>3, <2>4 DEF Replace, OverwriteKinds
<1>20. ASSUME NEW p \in Process, StampSaved(p) PROVE RegisterStep
  BY <1>20, QuietStep DEF StampSaved
<1>21. ASSUME NEW p \in Process, PollRead(p) PROVE RegisterStep
  BY <1>21, QuietStep DEF PollRead
<1>22. ASSUME NEW p \in Process, PollReadFails(p) PROVE RegisterStep
  BY <1>22, QuietStep DEF PollReadFails
<1>23. ASSUME NEW p \in Process, PollReturns(p) PROVE RegisterStep
  BY <1>23, QuietStep DEF PollReturns
<1>24. ASSUME NEW p \in Process, PollStamp(p) PROVE RegisterStep
  BY <1>24, QuietStep DEF PollStamp
<1>25. ASSUME NEW p \in Process, Crash(p) PROVE RegisterStep
  BY <1>25, ForgetStep DEF Crash
<1>26. ASSUME ForeignWrite PROVE RegisterStep
  BY <1>26, QuietStep DEF ForeignWrite
<1>27. CASE UNCHANGED vars
  BY <1>27, QuietStep DEF vars
<1>28. QED
  BY <1>1, <1>2, <1>3, <1>4, <1>5, <1>6, <1>7, <1>8, <1>9, <1>10, <1>11, <1>12, <1>13,
     <1>14, <1>15, <1>16, <1>17, <1>18, <1>19, <1>20, <1>21, <1>22, <1>23, <1>24, <1>25, <1>26, <1>27
     DEF Next, UserStep, ProgramStep

(***************************************************************************)
(* The theorems.                                                           *)
(***************************************************************************)

\* Every variable keeps its type; in particular replacements.json holds a
\* complete content at all times, whatever fails or crashes while it is
\* being written, and at most one process is inside the locked region.
THEOREM TypesAndLock == Spec => [](TypeOK /\ LockInv)
<1>1. TypeOK /\ LockInv /\ [Next]_vars => TypeOK' /\ LockInv'
  BY StepTyped, StepLocked
<1>2. QED
  BY InitTyped, <1>1, PTL DEF Spec

LEMMA JobInvariant == Spec => []JobInv
<1>1. Init => JobInv
  <2> SUFFICES ASSUME Init, NEW p \in Process
               PROVE  /\ Dump[draft[p]] = draft[p]
                      /\ pc[p] = "closed" /\ job[p].kind = "none"
    BY DEF JobInv, OverwriteKinds
  <2>1. draft[p] = Empty /\ pc[p] = "closed" /\ job[p] = NoJob
    BY DEF Init
  <2>2. QED
    BY <2>1, RuleFileConstants DEF NoJob
<1>2. TypeOK /\ JobInv /\ [Next]_vars => JobInv'
  BY StepJob
<1>3. QED
  BY <1>1, <1>2, TypesAndLock, PTL DEF Spec

\* A window that shows no unsaved mark shows the document of the revision it
\* is based on (dirty_, document_, loadedContentHash_ of RuleManager.cpp).
THEOREM DraftsAreHonest == Spec => []CleanIsSaved
<1>1. Init => CleanIsSaved
  BY DEF Init, CleanIsSaved
<1>2. TypeOK /\ JobInv /\ CleanIsSaved /\ [Next]_vars => CleanIsSaved'
  BY StepClean
<1>3. QED
  BY <1>1, <1>2, TypesAndLock, JobInvariant, PTL DEF Spec

\* When every writer takes the mutex, what a save compared is still the
\* file's content when the save replaces it.
THEOREM ComparedInvariant ==
  ASSUME Foreign = {}
  PROVE  Spec => [](TypeOK /\ WriterInv)
<1>1. Init => ComparedInv
  BY DEF Init, ComparedInv, Writing
<1>2. TypeOK /\ LockInv /\ ComparedInv /\ [Next]_vars => ComparedInv'
  BY StepCompared, Foreign = {}
<1>3. TypeOK /\ LockInv /\ JobInv /\ ComparedInv => TypeOK /\ WriterInv
  BY DEF WriterInv
<1>4. QED
  BY <1>1, <1>2, <1>3, TypesAndLock, JobInvariant, PTL DEF Spec

\* No save of an old draft ever overwrites a newer file
\* (writeUtf8FileAtomicIfUnchanged), for any number of processes.
THEOREM NoUpdateIsLost ==
  ASSUME Foreign = {}
  PROVE  Spec => NoLostUpdate
<1>1. TypeOK /\ WriterInv /\ [Next]_vars =>
        [\A p \in Process : Saves(p) => disk = base[p]]_vars
  <2> SUFFICES ASSUME TypeOK, WriterInv, [Next]_vars, NEW p \in Process, Saves(p)
               PROVE  disk = base[p]
    OBVIOUS
  <2>1. job[p].kind = "save"
    BY SaveStep
  <2>2. QED
    BY <2>1 DEF Saves, WriterInv, ComparedInv, Writing
<1>2. QED
  BY <1>1, ComparedInvariant, Foreign = {}, PTL DEF Spec, NoLostUpdate

\* When saves are all that writes the file, every content a save replaces was
\* copied to backups/ (backupReplacements in saveDocument), and rotation took
\* the copy away only if the file was written since it was last backed up.
THEOREM SavesAreBackedUp ==
  ASSUME Foreign = {}, Overwrites = {}
  PROVE  Spec => []BackupInv /\ SaveLeavesBackup
<1>1. Init => BackupInv
  BY DEF Init, BackupInv, SeenBy, Locked
<1>2. TypeOK /\ WriterInv /\ BackupInv /\ [Next]_vars => BackupInv'
  BY StepBackup, Foreign = {}, Overwrites = {}
<1>3. TypeOK /\ WriterInv /\ BackupInv /\ [Next]_vars =>
        [\A p \in Process :
           Saves(p) /\ BackupEnabled =>
             disk \in copied /\ (age = "copied" => disk \in Range(backups))]_vars
  <2> SUFFICES ASSUME TypeOK, WriterInv, BackupInv, [Next]_vars,
                      NEW p \in Process, Saves(p), BackupEnabled
               PROVE  disk \in copied /\ (age = "copied" => disk \in Range(backups))
    OBVIOUS
  <2>1. job[p].kind = "save" /\ pc[p] = "replacing"
    BY SaveStep DEF Saves
  <2>2. disk = base[p]
    BY <2>1 DEF WriterInv, ComparedInv, Writing
  <2>3. base[p] \in copied \cup {NoHash}
    BY <2>1 DEF BackupInv, Locked, Writing
  <2>4. disk \in copied
    BY <2>2, <2>3, RuleFileConstants DEF TypeOK
  <2>5. ASSUME age = "copied" PROVE disk \in Range(backups)
    <3>1. backups \in Seq(Content) /\ backups # <<>> /\ Head(backups) = disk
      BY <2>5 DEF BackupInv, TypeOK
    <3>2. 1 \in DOMAIN backups /\ backups[1] = disk
      BY <3>1
    <3>3. QED
      BY <3>2 DEF Range
  <2>6. QED
    BY <2>4, <2>5
<1>4. QED
  BY <1>1, <1>2, <1>3, ComparedInvariant, Foreign = {}, PTL DEF Spec, SaveLeavesBackup

\* With every writer taking the mutex, the whole protocol - drafts, polling,
\* conflicts, failures, crashes - is a compare-and-set register, on which
\* restores and imports, where users make them, are blind writes.
THEOREM ImplementsRegister ==
  ASSUME Foreign = {}
  PROVE  Spec => IsRegister
<1>1. Init => Register!RegInit
  BY DEF Init, Register!RegInit, SeenBy
<1>2. TypeOK /\ WriterInv /\ [Next]_vars => [Register!RegNext]_(Register!regVars)
  BY StepImplements, Foreign = {} DEF RegisterStep
<1>3. QED
  BY <1>1, <1>2, ComparedInvariant, Foreign = {}, PTL
     DEF Spec, IsRegister, Register!RegSpec
=============================================================================
