------------------------------ MODULE Streams ------------------------------
(***************************************************************************)
(* What a parallel branch promises of the commands it runs (exec.rs,       *)
(* `relay`): each stream of each command arrives on the terminal whole,    *)
(* line by line and in the order it was written, and a call that waits for *)
(* its command does not return before the last line is there.  Nothing is  *)
(* said of pipes, threads or processes: Exec has those, and implements it. *)
(***************************************************************************)
EXTENDS Naturals, Sequences

CONSTANTS Calls, Shown   \* the commands, and the streams of each that are shown

Units == {"x", "nl"}     \* a piece of a line, and the end of one

VARIABLES
  sent,     \* what has been written to each stream
  screen,   \* what of it the terminal has, in whole lines
  returned  \* the calls that have ended

svars == <<sent, screen, returned>>

SInit ==
  /\ sent = [c \in Calls |-> [s \in Shown |-> <<>>]]
  /\ screen = [c \in Calls |-> [s \in Shown |-> <<>>]]
  /\ returned = {}

Send(c, s) ==
  /\ \E u \in Units : sent' = [sent EXCEPT ![c][s] = Append(@, u)]
  /\ UNCHANGED <<screen, returned>>

\* The next line: up to the first line end not shown yet.
Line(c, s) ==
  /\ \E n \in Len(screen[c][s]) + 1 .. Len(sent[c][s]) :
       /\ sent[c][s][n] = "nl"
       /\ \A m \in Len(screen[c][s]) + 1 .. n - 1 : sent[c][s][m] # "nl"
       /\ screen' = [screen EXCEPT ![c][s] = SubSeq(sent[c][s], 1, n)]
  /\ UNCHANGED <<sent, returned>>

\* What is left when nobody will write any more is a line too.
LastLine(c, s) ==
  /\ Len(screen[c][s]) < Len(sent[c][s])
  /\ \A m \in Len(screen[c][s]) + 1 .. Len(sent[c][s]) : sent[c][s][m] # "nl"
  /\ screen' = [screen EXCEPT ![c][s] = Append(sent[c][s], "nl")]
  /\ UNCHANGED <<sent, returned>>

Whole(c, s) == screen[c][s] \in {sent[c][s], Append(sent[c][s], "nl")}

Return(c) ==
  /\ c \notin returned
  /\ \A s \in Shown : Whole(c, s)
  /\ returned' = returned \cup {c}
  /\ UNCHANGED <<sent, screen>>

SNext ==
  \E c \in Calls :
    \/ Return(c)
    \/ c \notin returned /\ \E s \in Shown : Send(c, s) \/ Line(c, s) \/ LastLine(c, s)

SSpec == SInit /\ [][SNext]_svars
=============================================================================
