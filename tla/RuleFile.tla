------------------------------ MODULE RuleFile ------------------------------
(***************************************************************************)
(* The life of replacements.json: rule manager windows of several          *)
(* Notepad++ processes load it into drafts, edit the drafts, and save them *)
(* through a named mutex, a comparison with the content first loaded, a    *)
(* temporary file and an atomic replace (RuleManager.cpp, ConfigStore.cpp). *)
(* Backups are restored and data packages imported through the same mutex  *)
(* but with no comparison; other programs write the file with neither.     *)
(*                                                                         *)
(* A content stands for the bytes of the file up to the BOM and the final  *)
(* newline, which contentHash ignores; equal contents have equal hashes.   *)
(* loadedFileStamp_ is only ever set to the current stamp of the file and  *)
(* compared with it, so the model keeps the outcome of the comparison.     *)
(*                                                                         *)
(* A backup carries the write time of the file it copies, and rotation goes *)
(* by these times.  Writes made through ConfigStore get times in their      *)
(* order (the clock is not set back); what another program writes may be    *)
(* of any time.                                                             *)
(***************************************************************************)
EXTENDS Naturals, SequencesExt

CONSTANTS
  Process,     \* Notepad++ processes sharing one data directory
  Document,    \* contents that pass RuleStore validation
  Broken,      \* contents that do not
  Empty,       \* the document a manager window starts with
  Torn,        \* a temporary file that was not written to its end
  NoHash,      \* loadedContentHash_ = 0: nothing loaded yet
  Free,        \* the mutex has no owner
  Abandoned,   \* the mutex's owner died holding it
  Dump,        \* Dump[d]: d as the manager serialises it (json dump(2))
  Edits,       \* documents the user's edits lead to
  Foreign,     \* contents programs that ignore the mutex write
  Overwrites,  \* the unconditional writes users make: restore, import
  BackupEnabled, \* config.backupEnabled of every process
  MaxBackups,  \* config.maxBackupFiles of every process
  IOFailures   \* whether file operations may fail

Content == Document \cup Broken
OverwriteKinds == {"restore", "import"}

ASSUME RuleFileConstants ==
  /\ Empty \in Document
  /\ Dump \in [Document -> Document]
  /\ \A d \in Document : Dump[Dump[d]] = Dump[d]
  /\ Edits \subseteq {d \in Document : Dump[d] = d}
  /\ Dump[Empty] = Empty
  /\ Document \cap Broken = {}
  /\ Torn \notin Content
  /\ NoHash \notin Content
  /\ Free \notin Process /\ Abandoned \notin Process /\ Free # Abandoned
  /\ Foreign \subseteq Content
  /\ Overwrites \subseteq OverwriteKinds
  /\ BackupEnabled \in BOOLEAN
  /\ MaxBackups \in Nat \ {0}
  /\ IOFailures \in BOOLEAN

VARIABLES
  disk,      \* content of replacements.json
  backups,   \* contents in backups/, by write time, newest first
  age,       \* the file's write time: "newer" than that of every backup, that
             \* of the newest, a copy of it ("copied"), or "any" time
  mutex,     \* owner of Local\NppQuickReplace.FileWrite
  pc,        \* pc[p]: where p's UI thread is
  job,       \* job[p]: the file operation p is in the middle of
  temp,      \* temp[p]: p's temporary file
  base,      \* base[p]: the content loadedContentHash_ is the hash of
  draft,     \* draft[p]: document_
  dirty,     \* dirty[p]: dirty_ \/ detailsDirty_
  synced,    \* synced[p]: loadedFileStamp_ equals the stamp of the file
  warned,    \* warned[p]: externalChangeDetected_
  polling,   \* polling[p]: where p is in checkExternalChange after the stamp
  copied     \* history: every content a save has copied to backups/

backupVars == <<backups, age>>
fileVars == <<disk, backups, age, copied>>
windowVars == <<base, draft, dirty>>
watchVars == <<synced, warned, polling>>
vars == <<disk, backups, age, copied, mutex, pc, job, temp, base, draft,
          dirty, synced, warned, polling>>

Phase == {"closed", "idle", "loaded", "waiting", "checking", "writing",
          "flushing", "replacing", "stamping", "restored", "conflict"}
JobKind == {"none", "load", "save", "copy", "restore", "import"}
Job == [kind : JobKind, text : Document]
NoJob == [kind |-> "none", text |-> Empty]

\* Where the mutex is held: inside writeUtf8FileAtomic(IfUnchanged).
Writing == {"writing", "flushing", "replacing"}
Locked == {"checking"} \cup Writing

TypeOK ==
  /\ disk \in Content
  /\ backups \in Seq(Content) /\ Len(backups) =< MaxBackups
  /\ age \in {"newer", "copied", "any"}
  /\ mutex \in Process \cup {Free, Abandoned}
  /\ pc \in [Process -> Phase]
  /\ job \in [Process -> Job]
  /\ temp \in [Process -> {"none", "torn", "whole"}]
  /\ base \in [Process -> Document \cup {NoHash}]
  /\ draft \in [Process -> Document]
  /\ dirty \in [Process -> BOOLEAN]
  /\ synced \in [Process -> BOOLEAN]
  /\ warned \in [Process -> BOOLEAN]
  /\ polling \in [Process -> {"none", "reading", "failed"}]
  /\ copied \subseteq Content

Init ==
  /\ disk \in Content
  /\ backups = <<>>
  /\ age = "newer"
  /\ mutex = Free
  /\ pc = [p \in Process |-> "closed"]
  /\ job = [p \in Process |-> NoJob]
  /\ temp = [p \in Process |-> "none"]
  /\ base = [p \in Process |-> NoHash]
  /\ draft = [p \in Process |-> Empty]
  /\ dirty = [p \in Process |-> FALSE]
  /\ synced = [p \in Process |-> FALSE]
  /\ warned = [p \in Process |-> FALSE]
  /\ polling = [p \in Process |-> "none"]
  /\ copied = {}

\* The window p goes back to when a write ends without success.
Home(p) == IF job[p].kind = "import" THEN "closed" ELSE "idle"

\* p's thread runs its message loop: nothing else of p's is under way.
AtRest(p, phase) == pc[p] = phase /\ polling[p] = "none"

----------------------------------------------------------------------------
(* Loading.                                                                *)

\* The read and validation at the head of loadDocument.  A file that cannot
\* be read or is not valid leaves the window as it was.
ReadFile(p) ==
  \/ /\ disk \in Document
     /\ pc' = [pc EXCEPT ![p] = "loaded"]
     /\ job' = [job EXCEPT ![p] = [kind |-> "load", text |-> disk]]
  \/ /\ disk \in Broken \/ IOFailures
     /\ pc' = [pc EXCEPT ![p] = "idle"]
     /\ job' = [job EXCEPT ![p] = NoJob]

\* A manager window is created and loads the file.
Open(p) ==
  /\ pc[p] = "closed"
  /\ ReadFile(p)
  /\ UNCHANGED <<fileVars, mutex, temp, windowVars, watchVars>>

\* Reload from disk (confirmed when there are changes), or the "Yes" of the
\* conflict question.
Reload(p) ==
  /\ AtRest(p, "idle") \/ AtRest(p, "conflict")
  /\ ReadFile(p)
  /\ UNCHANGED <<fileVars, mutex, temp, windowVars, watchVars>>

\* The reload that ends restoreBackup: a draft with changes is not asked for.
ReloadRestored(p) ==
  /\ pc[p] = "restored"
  /\ ReadFile(p)
  /\ UNCHANGED <<fileVars, mutex, temp, windowVars, watchVars>>

\* The rest of loadDocument: the stamp is taken after the content was read.
\* If it cannot be taken, loadedFileStamp_ matches no file.
StampLoaded(p) ==
  /\ pc[p] = "loaded"
  /\ base' = [base EXCEPT ![p] = job[p].text]
  /\ draft' = [draft EXCEPT ![p] = Dump[job[p].text]]
  /\ dirty' = [dirty EXCEPT ![p] = FALSE]
  /\ warned' = [warned EXCEPT ![p] = FALSE]
  /\ \E ok \in {TRUE, ~IOFailures} : synced' = [synced EXCEPT ![p] = ok]
  /\ pc' = [pc EXCEPT ![p] = "idle"]
  /\ job' = [job EXCEPT ![p] = NoJob]
  /\ UNCHANGED <<fileVars, mutex, temp, polling>>

----------------------------------------------------------------------------
(* Editing and closing.                                                    *)

\* Any command that changes the draft: it stays valid and in memory.
Edit(p) ==
  /\ AtRest(p, "idle")
  /\ \E d \in Edits : draft' = [draft EXCEPT ![p] = d]
  /\ dirty' = [dirty EXCEPT ![p] = TRUE]
  /\ UNCHANGED <<fileVars, mutex, pc, job, temp, base, watchVars>>

\* What is left of p's window: nothing.
ClearWindow(p) ==
  /\ pc' = [pc EXCEPT ![p] = "closed"]
  /\ job' = [job EXCEPT ![p] = NoJob]
  /\ base' = [base EXCEPT ![p] = NoHash]
  /\ draft' = [draft EXCEPT ![p] = Empty]
  /\ dirty' = [dirty EXCEPT ![p] = FALSE]
  /\ synced' = [synced EXCEPT ![p] = FALSE]
  /\ warned' = [warned EXCEPT ![p] = FALSE]
  /\ polling' = [polling EXCEPT ![p] = "none"]

Close(p) ==
  /\ AtRest(p, "idle")
  /\ ClearWindow(p)
  /\ UNCHANGED <<fileVars, mutex, temp>>

\* The process dies.  Windows abandons a mutex it held; its temporary file
\* stays on disk under a name no later process uses.
Crash(p) ==
  /\ pc[p] # "closed"
  /\ ClearWindow(p)
  /\ mutex' = IF mutex = p THEN Abandoned ELSE mutex
  /\ temp' = [temp EXCEPT ![p] = "none"]
  /\ UNCHANGED fileVars

----------------------------------------------------------------------------
(* Starting a write.                                                       *)

\* Mutant of Backup: the oldest backups are kept.
BackupOldest ==
  /\ \E i \in 0 .. (IF age = "any" THEN Len(backups) ELSE 0) :
       LET all == InsertAt(backups, i + 1, disk)
       IN  backups' = IF Len(all) > MaxBackups THEN Tail(all) ELSE all
  /\ age' = IF age = "any" THEN "any" ELSE "copied"

\* backupReplacements: the copy takes the place its write time gives it, and
\* rotation removes what is beyond maxFiles - the copy just made, when a file
\* with an old time put it last.  All before the mutex is asked for.
Backup ==
  /\ \E i \in 0 .. (IF age = "any" THEN Len(backups) ELSE 0) :
       LET all == InsertAt(backups, i + 1, disk)
       IN  backups' = IF Len(all) > MaxBackups THEN Front(all) ELSE all
  /\ age' = IF age = "any" THEN "any" ELSE "copied"

\* saveDocument up to the conditional write.
SaveStart(p) ==
  /\ AtRest(p, "idle")
  /\ IF BackupEnabled
       THEN Backup /\ copied' = copied \cup {disk}
       ELSE UNCHANGED <<backupVars, copied>>
  /\ pc' = [pc EXCEPT ![p] = "waiting"]
  /\ job' = [job EXCEPT ![p] = [kind |-> "save", text |-> draft[p]]]
  /\ UNCHANGED <<disk, mutex, temp, windowVars, watchVars>>

\* restoreBackup up to its write, for a valid document: the dialog opens in
\* backups/ but takes any file.
RestoreStart(p) ==
  /\ "restore" \in Overwrites
  /\ AtRest(p, "idle")
  /\ Backup
  /\ \E b \in Document :
       job' = [job EXCEPT ![p] = [kind |-> "restore", text |-> b]]
  /\ pc' = [pc EXCEPT ![p] = "waiting"]
  /\ UNCHANGED <<disk, copied, mutex, temp, windowVars, watchVars>>

\* The rule-file half of importPackage, which no manager window takes part
\* in: the process is one whose manager is closed.
ImportStart(p) ==
  /\ "import" \in Overwrites
  /\ pc[p] = "closed"
  /\ \E d \in Edits : job' = [job EXCEPT ![p] = [kind |-> "import", text |-> d]]
  /\ pc' = [pc EXCEPT ![p] = "waiting"]
  /\ UNCHANGED <<fileVars, mutex, temp, windowVars, watchVars>>

\* The "No" of the conflict question: the draft goes to a file of its own.
CopyStart(p) ==
  /\ AtRest(p, "conflict")
  /\ pc' = [pc EXCEPT ![p] = "waiting"]
  /\ job' = [job EXCEPT ![p] = [kind |-> "copy", text |-> draft[p]]]
  /\ UNCHANGED <<fileVars, mutex, temp, windowVars, watchVars>>

\* Its "Cancel", or a cancelled choice of the copy's path.
KeepEditing(p) ==
  /\ AtRest(p, "conflict")
  /\ pc' = [pc EXCEPT ![p] = "idle"]
  /\ job' = [job EXCEPT ![p] = NoJob]
  /\ UNCHANGED <<fileVars, mutex, temp, windowVars, watchVars>>

----------------------------------------------------------------------------
(* Under the mutex.                                                        *)

\* WaitForSingleObject: WAIT_ABANDONED counts as locked.
Available == mutex \in {Free, Abandoned}

\* Mutant of Acquire: the comparison is made before the mutex is obtained.
AcquireCompared(p) ==
  /\ pc[p] = "waiting"
  /\ mutex' = p
  /\ pc' = [pc EXCEPT ![p] = IF job[p].kind = "save" THEN "checking" ELSE "writing"]
  /\ UNCHANGED <<fileVars, job, temp, windowVars, watchVars>>

\* A save compares first (writeUtf8FileAtomicIfUnchanged); the other writes
\* go straight to the temporary file (writeUtf8FileAtomic).
Acquire(p) ==
  /\ pc[p] = "waiting"
  /\ Available
  /\ mutex' = p
  /\ pc' = [pc EXCEPT ![p] = IF job[p].kind = "save" THEN "checking" ELSE "writing"]
  /\ UNCHANGED <<fileVars, job, temp, windowVars, watchVars>>

\* Two seconds went by and the mutex never became available.
Timeout(p) ==
  /\ pc[p] = "waiting"
  /\ ~Available
  /\ pc' = [pc EXCEPT ![p] = Home(p)]
  /\ job' = [job EXCEPT ![p] = NoJob]
  /\ UNCHANGED <<fileVars, mutex, temp, windowVars, watchVars>>

\* The comparison of the file with loadedContentHash_.
Compare(p) ==
  /\ pc[p] = "checking"
  /\ disk = base[p]
  /\ pc' = [pc EXCEPT ![p] = "writing"]
  /\ UNCHANGED <<fileVars, mutex, job, temp, windowVars, watchVars>>

\* Mutant of Conflict: dirty_ is reset before the result is looked at.
ConflictClean(p) ==
  /\ pc[p] = "checking"
  /\ disk # base[p]
  /\ mutex' = Free
  /\ warned' = [warned EXCEPT ![p] = TRUE]
  /\ dirty' = [dirty EXCEPT ![p] = FALSE]
  /\ pc' = [pc EXCEPT ![p] = "conflict"]
  /\ job' = [job EXCEPT ![p] = NoJob]
  /\ UNCHANGED <<fileVars, temp, base, draft, synced, polling>>

Conflict(p) ==
  /\ pc[p] = "checking"
  /\ disk # base[p]
  /\ mutex' = Free
  /\ warned' = [warned EXCEPT ![p] = TRUE]
  /\ pc' = [pc EXCEPT ![p] = "conflict"]
  /\ job' = [job EXCEPT ![p] = NoJob]
  /\ UNCHANGED <<fileVars, temp, windowVars, synced, polling>>

\* Mutant of CreateTemp: the result of WriteFile and the flush is ignored.
CreateTempUnchecked(p) ==
  /\ pc[p] = "writing"
  /\ temp' = [temp EXCEPT ![p] = "torn"]
  /\ pc' = [pc EXCEPT ![p] = "replacing"]
  /\ UNCHANGED <<fileVars, mutex, job, windowVars, watchVars>>

\* CREATE_NEW, then WriteFile until everything is written and flushed.
CreateTemp(p) ==
  /\ pc[p] = "writing"
  /\ temp' = [temp EXCEPT ![p] = "torn"]
  /\ pc' = [pc EXCEPT ![p] = "flushing"]
  /\ UNCHANGED <<fileVars, mutex, job, windowVars, watchVars>>

FinishTemp(p) ==
  /\ pc[p] = "flushing"
  /\ temp' = [temp EXCEPT ![p] = "whole"]
  /\ pc' = [pc EXCEPT ![p] = "replacing"]
  /\ UNCHANGED <<fileVars, mutex, job, windowVars, watchVars>>

\* Mutant of WriteFails: the error return leaves the mutex locked.
WriteFailsLocked(p) ==
  /\ IOFailures
  /\ pc[p] \in Locked
  /\ temp' = [temp EXCEPT ![p] = "none"]
  /\ pc' = [pc EXCEPT ![p] = Home(p)]
  /\ job' = [job EXCEPT ![p] = NoJob]
  /\ UNCHANGED <<fileVars, mutex, windowVars, watchVars>>

\* Any file operation under the mutex fails: the temporary file is deleted
\* and the mutex released.
WriteFails(p) ==
  /\ IOFailures
  /\ pc[p] \in Locked
  /\ temp' = [temp EXCEPT ![p] = "none"]
  /\ mutex' = Free
  /\ pc' = [pc EXCEPT ![p] = Home(p)]
  /\ job' = [job EXCEPT ![p] = NoJob]
  /\ UNCHANGED <<fileVars, windowVars, watchVars>>

\* The temporary file takes the place of replacements.json, whose stamp
\* changes for everyone; its write time is now.
PutInPlace(p) ==
  /\ disk' = IF temp[p] = "whole" THEN job[p].text ELSE Torn
  /\ age' = "newer"
  /\ synced' = [q \in Process |-> FALSE]

\* ReplaceFileW (or MoveFileExW) and the release of the mutex; a save then
\* takes the content it wrote as the one it is based on.
Replace(p) ==
  /\ pc[p] = "replacing"
  /\ \/ /\ job[p].kind = "copy"
        /\ pc' = [pc EXCEPT ![p] = "idle"]
        /\ UNCHANGED <<disk, age, synced, base>>
     \/ /\ job[p].kind = "save"
        /\ PutInPlace(p)
        /\ base' = [base EXCEPT ![p] = job[p].text]
        /\ pc' = [pc EXCEPT ![p] = "stamping"]
     \/ /\ job[p].kind = "restore"
        /\ PutInPlace(p)
        /\ pc' = [pc EXCEPT ![p] = "restored"]
        /\ UNCHANGED base
     \/ /\ job[p].kind = "import"
        /\ PutInPlace(p)
        /\ pc' = [pc EXCEPT ![p] = "closed"]
        /\ UNCHANGED base
  /\ temp' = [temp EXCEPT ![p] = "none"]
  /\ mutex' = Free
  /\ job' = [job EXCEPT ![p] = NoJob]
  /\ UNCHANGED <<backups, copied, draft, dirty, warned, polling>>

\* The end of saveDocument: the stamp is taken after the mutex is released.
StampSaved(p) ==
  /\ pc[p] = "stamping"
  /\ \E ok \in {TRUE, ~IOFailures} : synced' = [synced EXCEPT ![p] = ok]
  /\ warned' = [warned EXCEPT ![p] = FALSE]
  /\ dirty' = [dirty EXCEPT ![p] = FALSE]
  /\ pc' = [pc EXCEPT ![p] = "idle"]
  /\ UNCHANGED <<fileVars, mutex, job, temp, base, draft, polling>>

----------------------------------------------------------------------------
(* checkExternalChange: the window's 2 s timer, also served while the      *)
(* conflict question is on screen.                                         *)

PollStamp(p) ==
  /\ AtRest(p, "idle") \/ AtRest(p, "conflict")
  /\ ~synced[p]
  /\ synced' = [synced EXCEPT ![p] = TRUE]
  /\ polling' = [polling EXCEPT ![p] = "reading"]
  /\ UNCHANGED <<fileVars, mutex, pc, job, temp, windowVars, warned>>

\* Mutant of PollRead: only a window with changes is warned.
PollReadIfDirty(p) ==
  /\ polling[p] = "reading"
  /\ warned' = [warned EXCEPT ![p] = @ \/ (dirty[p] /\ disk # base[p])]
  /\ polling' = [polling EXCEPT ![p] = "none"]
  /\ UNCHANGED <<fileVars, mutex, pc, job, temp, windowVars, synced>>

PollRead(p) ==
  /\ polling[p] = "reading"
  /\ warned' = [warned EXCEPT ![p] = @ \/ disk # base[p]]
  /\ polling' = [polling EXCEPT ![p] = "none"]
  /\ UNCHANGED <<fileVars, mutex, pc, job, temp, windowVars, synced>>

\* The read fails and checkExternalChange returns; the stamp stays taken.
PollReadFails(p) ==
  /\ IOFailures
  /\ polling[p] = "reading"
  /\ polling' = [polling EXCEPT ![p] = "failed"]
  /\ UNCHANGED <<fileVars, mutex, pc, job, temp, windowVars, synced, warned>>

PollReturns(p) ==
  /\ polling[p] = "failed"
  /\ polling' = [polling EXCEPT ![p] = "none"]
  /\ UNCHANGED <<fileVars, mutex, pc, job, temp, windowVars, synced, warned>>

----------------------------------------------------------------------------
\* A program outside the mutex writes the file, a Notepad++ that has it open
\* as a document (openJson) among them, or puts a file of any age in its place.
ForeignWrite ==
  /\ disk' \in Foreign
  /\ age' \in {"newer", "any"}
  /\ synced' = [q \in Process |-> FALSE]
  /\ UNCHANGED <<backups, copied, mutex, pc, job, temp, windowVars, warned, polling>>

\* The user's choices.
UserStep(p) ==
  Open(p) \/ Reload(p) \/ Edit(p) \/ Close(p) \/ SaveStart(p)
    \/ RestoreStart(p) \/ ImportStart(p) \/ CopyStart(p) \/ KeepEditing(p)

\* The steps the program takes by itself once it has started something.
ProgramStep(p) ==
  ReloadRestored(p) \/ StampLoaded(p) \/ Acquire(p) \/ Timeout(p) \/ Compare(p) \/ Conflict(p)
    \/ CreateTemp(p) \/ FinishTemp(p) \/ WriteFails(p) \/ Replace(p)
    \/ StampSaved(p) \/ PollRead(p) \/ PollReadFails(p) \/ PollReturns(p)

Next ==
  \/ \E p \in Process : UserStep(p) \/ ProgramStep(p) \/ PollStamp(p) \/ Crash(p)
  \/ ForeignWrite

Spec == Init /\ [][Next]_vars

\* A running thread finishes what it began, its timer is served, and at one of
\* its ticks the stamp of the file can be taken.
FairSpec ==
  /\ Spec
  /\ \A p \in Process : WF_vars(ProgramStep(p)) /\ WF_vars(PollStamp(p))

----------------------------------------------------------------------------
(* What the protocol guarantees.                                           *)

\* The step in which p's save replaces the file.
Saves(p) == pc[p] = "replacing" /\ pc'[p] = "stamping"

\* The content p's draft is, or is about to be, based on.
SeenBy(p) == IF pc[p] = "loaded" THEN job[p].text ELSE base[p]

\* An old draft never overwrites a newer file: at the instant a save replaces
\* the file (ReplaceFileW in writeUtf8FileAtomicUnlocked), the file is still
\* the content the draft was loaded from, whatever the other processes did
\* since saveDocument was called.
NoLostUpdate == [][\A p \in Process : Saves(p) => disk = base[p]]_vars

\* saveDocument makes its backup before it has the mutex and before it knows
\* whether it may write; still every content a save replaces has been copied
\* to backups/, and the copy is there unless the file was written after it was
\* last backed up.  (Then the file is back at an earlier content - the save
\* compared it - and rotation may have removed that one's copy.)
SaveLeavesBackup ==
  [][\A p \in Process :
       Saves(p) /\ BackupEnabled =>
         disk \in copied /\ (age = "copied" => disk \in Range(backups))]_vars

\* A restore too: "The current file will be backed up first."
RestoreLeavesBackup ==
  [][\A p \in Process :
       pc[p] = "replacing" /\ pc'[p] = "restored" => disk \in Range(backups)]_vars

\* A window without the "*" in its title shows the document of the revision
\* it will compare against: no failed save, conflict, copy or reload leaves a
\* draft that looks saved and is not.
CleanIsSaved ==
  \A p \in Process :
    ~dirty[p] => draft[p] = IF base[p] = NoHash THEN Empty ELSE Dump[base[p]]

\* The named mutex serialises the writers: a process is in the locked region
\* exactly when it owns the mutex, and only a finished temporary file is moved.
LockInv ==
  \A p \in Process :
    /\ pc[p] \in Locked <=> mutex = p
    /\ pc[p] = "flushing" => temp[p] = "torn"
    /\ pc[p] = "replacing" => temp[p] = "whole"

\* What a save has compared stays true until it replaces the file, whatever
\* the other processes do: the inductive core of NoLostUpdate.
ComparedInv ==
  \A p \in Process : pc[p] \in Writing /\ job[p].kind = "save" => disk = base[p]

\* What a write in progress writes, and what a finished save leaves behind.
JobInv ==
  \A p \in Process :
    /\ Dump[draft[p]] = draft[p]
    /\ pc[p] \in {"idle", "stamping"} => job[p] = NoJob
    /\ job[p].kind = "save" => job[p].text = draft[p]
    /\ pc[p] = "stamping" => base[p] = draft[p]
    /\ job[p].kind \in OverwriteKinds => job[p].kind \in Overwrites

WriterInv == LockInv /\ ComparedInv /\ JobInv

\* Why SaveLeavesBackup holds although the backup is made outside the mutex:
\* whatever a window is based on is in the file or was backed up, and rotation
\* never takes the copy of the file as it is, for no backup is newer.
BackupInv ==
  /\ age # "any"
  /\ age = "copied" => backups # <<>> /\ Head(backups) = disk
  /\ BackupEnabled =>
       \A p \in Process :
         /\ SeenBy(p) \in copied \cup {disk, NoHash}
         /\ pc[p] \in {"waiting"} \cup Locked /\ job[p].kind = "save" =>
              base[p] \in copied \cup {NoHash}

\* Nobody keeps the mutex for ever: every path out of the locked region,
\* a conflict, a failure or a crash included, gives it up.
MutexReleased == (mutex \in Process) ~> (mutex \notin Process)

\* A change of the file that finds a manager at rest ends in a warning, unless
\* the file returns to what it was, the user does something first, or the poll
\* that took the stamp of the change could not read the file: that poll has
\* already made the stamp its own, and the change is never warned about.
ChangeNoticed ==
  \A p \in Process :
    (pc[p] = "idle" /\ ~synced[p] /\ disk # base[p])
      ~> (warned[p] \/ disk = base[p] \/ pc[p] # "idle" \/ polling[p] = "failed")

----------------------------------------------------------------------------
(* The register this protocol implements.  A load takes effect when it has *)
(* read the file; a save, when it replaces it.                             *)

Register == INSTANCE RuleRegister WITH
  file <- disk,
  seen <- [p \in Process |-> SeenBy(p)],
  Blind <- IF Overwrites = {} THEN Foreign ELSE Content

\* With cooperating programs and neither restores nor imports, saves are the
\* only writes and replacements.json is a compare-and-set register.
IsRegister == Register!RegSpec
=============================================================================
