---------------------------- MODULE RuleRegister ----------------------------
(***************************************************************************)
(* What the save protocol of replacements.json promises: a compare-and-set *)
(* register.  A manager window remembers the content its draft started     *)
(* from, and a save takes effect in one step that replaces exactly that    *)
(* content.  RuleFile.tla is the detailed protocol that implements it.     *)
(***************************************************************************)
CONSTANTS
  Process,  \* Notepad++ processes sharing one data directory
  Content,  \* what the file can hold, valid rule document or not
  NoHash,   \* "nothing was loaded": the hash value 0 of a fresh window
  Blind     \* contents that may be put in place without a comparison

VARIABLES
  file,     \* the content of replacements.json
  seen      \* seen[p]: the content p's draft was loaded from, or NoHash

regVars == <<file, seen>>

RegInit ==
  /\ file \in Content
  /\ seen = [p \in Process |-> NoHash]

\* A manager loads the file as it is now.
Read(p) ==
  /\ seen' = [seen EXCEPT ![p] = file]
  /\ UNCHANGED file

\* A window closes, or its process dies.
Forget(p) ==
  /\ seen' = [seen EXCEPT ![p] = NoHash]
  /\ UNCHANGED file

\* A save: only over the very content the draft was loaded from.
Publish(p, c) ==
  /\ seen[p] = file
  /\ file' = c
  /\ seen' = [seen EXCEPT ![p] = c]

\* An unconditional replacement (backup restore, package import, a program
\* that is not a plugin).  Nobody's draft is rebased by it.
Overwrite(c) ==
  /\ file' = c
  /\ UNCHANGED seen

RegNext ==
  \/ \E p \in Process : Read(p) \/ Forget(p) \/ \E c \in Content : Publish(p, c)
  \/ \E c \in Blind : Overwrite(c)

RegSpec == RegInit /\ [][RegNext]_regVars
=============================================================================
