---------------------------- MODULE DataPackage ----------------------------
(***************************************************************************)
(* Data packages: config.json and replacements.json exported to one file,  *)
(* and imported from it, with a recovery directory and a rollback.         *)
(*                                                                         *)
(* An export reads two files and an import writes two, one after the       *)
(* other; each read and each atomic write is one step here, and so is each *)
(* copy.  Between them other processes and programs write the files, a     *)
(* step may fail, and the process may die.                                 *)
(***************************************************************************)
EXTENDS DataDirectory

CONSTANTS
  Config,     \* contents of config.json that loadConfig accepts
  Rules,      \* contents of replacements.json that RuleStore accepts
  Invalid,    \* the content of a file that is not accepted
  Touched,    \* in before: others have written the files since
  Others      \* bound of the model: pairs of files that others leave behind

ASSUME DataPackageConstants ==
  /\ {Invalid, Missing} \cap (Config \cup Rules) = {} /\ Invalid # Missing
  /\ Touched \notin [config : Config \cup {Invalid, Missing}, rules : Rules \cup {Invalid, Missing}]
  /\ Others \subseteq [config : Config \cup {Invalid, Missing}, rules : Rules \cup {Invalid, Missing}]
  /\ IOFailures \in BOOLEAN

VARIABLES
  disk,      \* the two files of the data directory
  package,   \* what the file the user picks holds
  stage,     \* where the settings window of each process is in a handler
  job,       \* the pair of documents an export has read or an import parsed
  recovery,  \* the recovery directory of the process's last import
  outcome,   \* how the last import ended
  before     \* auxiliary: the two files when it began, until others write them

packageVars == <<disk, package, stage, job, recovery, outcome, before>>

Files == [config : Config \cup {Invalid, Missing}, rules : Rules \cup {Invalid, Missing}]
Valid == [config : Config, rules : Rules]
Nothing == [config |-> Missing, rules |-> Missing]

PackagePhase == {"idle", "exporting", "exportRead",
          "validated", "directory", "configCopied", "copied", "configWritten", "rollback"}

\* "restored" and "stranded" are told to the user in the same words.
Outcome == {"none", "done", "refused", "restored", "stranded", "crashed"}

PackageTypeOK ==
  /\ disk \in Files
  /\ package \in Files
  /\ stage \in [Process -> PackagePhase]
  /\ job \in [Process -> Files]
  /\ recovery \in [Process -> Files]
  /\ outcome \in [Process -> Outcome]
  /\ before \in [Process -> Files \cup {Touched}]
  /\ \A p \in Process : stage[p] \in PackagePhase \ {"idle", "exporting"} => job[p] \in Valid

PackageInit ==
  /\ disk \in Valid
  /\ package = Nothing
  /\ stage = [p \in Process |-> "idle"]
  /\ job = [p \in Process |-> Nothing]
  /\ recovery = [p \in Process |-> Nothing]
  /\ outcome = [p \in Process |-> "none"]
  /\ before = [p \in Process |-> disk]

Goto(p, place) == stage' = [stage EXCEPT ![p] = place]

Finish(p, how) ==
  /\ Goto(p, "idle")
  /\ job' = [job EXCEPT ![p] = Nothing]
  /\ outcome' = [outcome EXCEPT ![p] = how]

\* A process or another program replaces files of the data directory.
WrittenBy(S, files) ==
  /\ disk' = files
  /\ before' = [q \in Process |-> IF q \in S THEN before[q] ELSE Touched]

----------------------------------------------------------------------------
(* exportPackage.                                                          *)

ExportConfig(p) ==
  /\ stage[p] = "idle"
  /\ disk.config # Missing
  /\ Goto(p, "exporting")
  /\ job' = [job EXCEPT ![p] = [Nothing EXCEPT !.config = disk.config]]
  /\ outcome' = [outcome EXCEPT ![p] = "none"]
  /\ UNCHANGED <<disk, package, recovery, before>>

\* Mutant of ExportRules: the rules are not validated.
ExportRulesUnchecked(p) ==
  /\ stage[p] = "exporting"
  /\ job[p].config # Invalid /\ disk.rules # Missing
  /\ Goto(p, "exportRead")
  /\ job' = [job EXCEPT ![p].rules = disk.rules]
  /\ UNCHANGED <<disk, package, recovery, outcome, before>>

\* Both documents have to be valid.
ExportRules(p) ==
  /\ stage[p] = "exporting"
  /\ [config |-> job[p].config, rules |-> disk.rules] \in Valid
  /\ Goto(p, "exportRead")
  /\ job' = [job EXCEPT ![p].rules = disk.rules]
  /\ UNCHANGED <<disk, package, recovery, outcome, before>>

ExportRefused(p) ==
  /\ stage[p] = "exporting"
  /\ IOFailures \/ [config |-> job[p].config, rules |-> disk.rules] \notin Valid
  /\ Finish(p, "none")
  /\ UNCHANGED <<disk, package, recovery, before>>

WriteExport(p) ==
  /\ stage[p] = "exportRead"
  /\ Finish(p, "none")
  /\ package' = job[p]
  /\ UNCHANGED <<disk, recovery, before>>

WriteExportFails(p) ==
  /\ stage[p] = "exportRead" /\ IOFailures
  /\ Finish(p, "none")
  /\ UNCHANGED <<disk, package, recovery, before>>

----------------------------------------------------------------------------
(* importPackage.                                                          *)

Begin(p) == before' = [before EXCEPT ![p] = disk]

\* Mutant of Import: the rules in the package are not validated.
ImportUnchecked(p) ==
  /\ stage[p] = "idle"
  /\ package.config \in Config /\ package.rules # Missing
  /\ Goto(p, "validated")
  /\ job' = [job EXCEPT ![p] = package]
  /\ outcome' = [outcome EXCEPT ![p] = "none"]
  /\ Begin(p)
  /\ UNCHANGED <<disk, package, recovery>>

\* The package is read and both documents in it validated, config.json by
\* way of a temporary file.
Import(p) ==
  /\ stage[p] = "idle"
  /\ package \in Valid
  /\ Goto(p, "validated")
  /\ job' = [job EXCEPT ![p] = package]
  /\ outcome' = [outcome EXCEPT ![p] = "none"]
  /\ Begin(p)
  /\ UNCHANGED <<disk, package, recovery>>

ImportRefused(p) ==
  /\ stage[p] = "idle"
  /\ package \notin Valid \/ IOFailures
  /\ Finish(p, "refused")
  /\ Begin(p)
  /\ UNCHANGED <<disk, package, recovery>>

\* A new directory for each import.
MakeDirectory(p) ==
  /\ stage[p] = "validated"
  /\ Goto(p, "directory")
  /\ recovery' = [recovery EXCEPT ![p] = Nothing]
  /\ UNCHANGED <<disk, package, job, outcome, before>>

\* copyForRecovery; a missing file needs no copy.
CopyConfig(p) ==
  /\ stage[p] = "directory"
  /\ Goto(p, "configCopied")
  /\ recovery' = [recovery EXCEPT ![p].config = disk.config]
  /\ UNCHANGED <<disk, package, job, outcome, before>>

\* Mutant of CopyRules: a copy that fails does not end the import.
CopyRulesOrNot(p) ==
  /\ stage[p] = "configCopied"
  /\ Goto(p, "copied")
  /\ \/ recovery' = [recovery EXCEPT ![p].rules = disk.rules]
     \/ IOFailures /\ UNCHANGED recovery
  /\ UNCHANGED <<disk, package, job, outcome, before>>

CopyRules(p) ==
  /\ stage[p] = "configCopied"
  /\ Goto(p, "copied")
  /\ recovery' = [recovery EXCEPT ![p].rules = disk.rules]
  /\ UNCHANGED <<disk, package, job, outcome, before>>

\* Making the directory, a copy or the first write fails.
GiveUp(p) ==
  /\ stage[p] \in {"validated", "directory", "configCopied", "copied"} /\ IOFailures
  /\ Finish(p, "refused")
  /\ UNCHANGED <<disk, package, recovery, before>>

WriteConfig(p) ==
  /\ stage[p] = "copied"
  /\ Goto(p, "configWritten")
  /\ WrittenBy({p}, [disk EXCEPT !.config = job[p].config])
  /\ UNCHANGED <<package, job, recovery, outcome>>

WriteRules(p) ==
  /\ stage[p] = "configWritten"
  /\ Finish(p, "done")
  /\ WrittenBy({p}, [disk EXCEPT !.rules = job[p].rules])
  /\ UNCHANGED <<package, recovery>>

WriteRulesFails(p) ==
  /\ stage[p] = "configWritten" /\ IOFailures
  /\ Goto(p, "rollback")
  /\ UNCHANGED <<disk, package, job, recovery, outcome, before>>

\* Mutant of RollBack: the package's config.json is written once more.
RollBackToPackage(p) ==
  /\ stage[p] = "rollback"
  /\ recovery[p].config # Missing
  /\ Finish(p, "restored")
  /\ WrittenBy({p}, [disk EXCEPT !.config = job[p].config])
  /\ UNCHANGED <<package, recovery>>

\* config.json is written back from its copy.
RollBack(p) ==
  /\ stage[p] = "rollback"
  /\ recovery[p].config # Missing
  /\ Finish(p, "restored")
  /\ WrittenBy({p}, [disk EXCEPT !.config = recovery[p].config])
  /\ UNCHANGED <<package, recovery>>

\* There is no copy to read, or the file cannot be written either.
RollBackFails(p) ==
  /\ stage[p] = "rollback"
  /\ recovery[p].config = Missing \/ IOFailures
  /\ Finish(p, "stranded")
  /\ UNCHANGED <<disk, package, recovery, before>>

----------------------------------------------------------------------------
\* The process dies in a handler, and Notepad++ is started again.
PackageCrash(p) ==
  /\ stage[p] # "idle"
  /\ Finish(p, "crashed")
  /\ UNCHANGED <<disk, package, recovery, before>>

\* Another program or instance edits, breaks or removes the files.
OtherWrites(files) ==
  /\ files \in Others
  /\ WrittenBy({}, files)
  /\ UNCHANGED <<package, stage, job, recovery, outcome>>

\* The user picks a file that is no package, or one that holds something else.
PickAnother(files) ==
  /\ files \in Others
  /\ package' = files
  /\ UNCHANGED <<disk, stage, job, recovery, outcome, before>>

PackageNext ==
  \/ \E p \in Process :
       \/ ExportConfig(p) \/ ExportRules(p) \/ ExportRefused(p)
       \/ WriteExport(p) \/ WriteExportFails(p)
       \/ Import(p) \/ ImportRefused(p) \/ MakeDirectory(p)
       \/ CopyConfig(p) \/ CopyRules(p) \/ GiveUp(p)
       \/ WriteConfig(p) \/ WriteRules(p) \/ WriteRulesFails(p)
       \/ RollBack(p) \/ RollBackFails(p) \/ PackageCrash(p)
  \/ \E files \in Others : OtherWrites(files) \/ PickAnother(files)

PackageSpec == PackageInit /\ [][PackageNext]_packageVars

----------------------------------------------------------------------------
\* At every moment, after a crash or a failure anywhere too, what an import
\* has replaced is in its recovery directory, if no one else wrote the files.
Recoverable ==
  \A p \in Process : before[p] # Touched =>
    /\ disk.config # before[p].config => recovery[p].config = before[p].config
    /\ disk.rules # before[p].rules => recovery[p].rules = before[p].rules

\* An import that ends, but by a crash or a rollback that fails itself, has
\* replaced both files or neither, if no one else wrote them.
AllOrNothing ==
  [][\A p \in Process :
       stage[p] # "idle" /\ stage'[p] = "idle" /\ before'[p] # Touched =>
         /\ outcome'[p] = "done" => disk' = job[p]
         /\ outcome'[p] \in {"refused", "restored"} => disk' = before[p]]_packageVars

\* What an export writes can be imported, although the files may change or
\* become invalid between its reads.
ExportsAreValid ==
  [][\A p \in Process : stage[p] = "exportRead" /\ package' # package /\ stage'[p] = "idle"
       => package' \in Valid]_packageVars
=============================================================================
