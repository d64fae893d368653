--------------------------- MODULE DataDirectory ----------------------------
(***************************************************************************)
(* What the models of the files in the data directory share.               *)
(***************************************************************************)
CONSTANTS
  Process,    \* Notepad++ processes sharing one data directory
  Missing,    \* in place of a file's content: there is no such file
  IOFailures  \* whether file operations may fail or time out
=============================================================================
