--------------------------------- MODULE Tidy ---------------------------------
(***************************************************************************)
(* A file that parses, and what `:fmt` and an editor's format make of it.      *)
(***************************************************************************)
EXTENDS Format

CONSTANTS
  Reading(_, _),   \* what a file parses to, its properties told apart by their places or not
  Tidied(_)        \* what a file is formatted to, if it is

VARIABLES
  file,   \* the file, line by line: none until there is one
  tidy    \* what it was formatted to, once it was: a sequence of none if it was left alone

tvars == <<file, tidy>>

TInit == file = <<>> /\ tidy = <<>>
Write(f) == file = <<>> /\ Reading(f, FALSE).ok /\ file' = f /\ UNCHANGED tidy
Format == file # <<>> /\ tidy = <<>> /\ tidy' = <<Tidied(file)>> /\ UNCHANGED file

Given == tidy # <<>> /\ tidy[1] # <<>>
\* A line but for its place and the spaces in it.
Written(f) ==
  LET lines == SelectSeq(f, LAMBDA l : ~Blank(l)) IN
  [i \in DOMAIN lines |-> [lines[i] EXCEPT !.ind = 0, !.code = SelectSeq(@, LAMBDA ch : ch # " ")]]

\* Formatting loses no line and no comment, and the file does and describes what it did
\* (format.rs:36): commands that share a shell, bodies, cases, and the properties that stand among
\* statements, of which the formatter's own check knows nothing.
FormatKeeps ==
  Given => LET f == tidy[1][1] IN Reading(f, TRUE) = Reading(file, TRUE) /\ Written(f) = Written(file)

\* What is formatted stays as it is when it is formatted again, and two kinds of file are left alone,
\* which would not mean the same: a line of blanks in a body loses those beyond what the body shares,
\* and a command continued at the very end would be given a line to continue on.
FormatOnce ==
  tidy # <<>> => IF Given THEN Tidied(tidy[1][1]) = tidy[1]
                 ELSE (\E i \in DOMAIN file : Blank(file[i]) /\ file[i].ind > 0) \/ Last(file).more
=============================================================================
