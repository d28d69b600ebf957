------------------------------ MODULE MCLanguage ------------------------------
(***************************************************************************)
(* The language front end and the checks made before anything runs: one run    *)
(* over files as they are written and over targets as they are read.  Nothing  *)
(* joins the two, and each starts with nothing asked of it.                    *)
(***************************************************************************)
EXTENDS MCRefusals

CONSTANTS Reading(_, _), Tidied(_)   \* the parser and the formatter: see Tidy

VARIABLES file, tidy

F == INSTANCE MCFormat
MCReading(f, placed) == LET read == F!Parse(f, placed) IN read
MCTidied(f) == LET written == F!Formatted(f) IN written

LInit == Init /\ F!TInit
OfFiles == asked = <<>> /\ F!TNext /\ UNCHANGED vars
OfTargets == file = <<>> /\ MCNext /\ UNCHANGED <<file, tidy>>
LNext == OfFiles \/ OfTargets
LSpec == LInit /\ [][LNext]_<<vars, file, tidy>>

\* Formatting keeps what a file says and does: every line, comment and property (format.rs:36).
FormatKeeps == F!FormatKeeps

\* What was formatted is left as it is, and only two kinds of file are refused (format.rs:41).
FormatOnce == F!FormatOnce
=============================================================================
