---- MODULE FullRead ----
(***************************************************************************)
(* What reading a session file promises: every read returns the parse of    *)
(* the whole file as it is when it is read (readJsonlFile and analyseSession *)
(* without any memory of earlier reads), unless another program replaced the  *)
(* file or cut it short during that read.  LiveRead implements this.         *)
(***************************************************************************)
CONSTANTS
    Full(_),  \* the parse of a file's content
    None

VARIABLES
    text,     \* the file
    answer,   \* what a read has just returned, None after any other step
    excused   \* the read under way need not be right

Start == text = <<>> /\ answer = None

Change == answer' = None
Read == answer' = Full(text) /\ UNCHANGED text
Torn == excused /\ UNCHANGED text

Spec == Start /\ [][Change \/ Read \/ Torn]_<<text, answer>>

====
