------------------------------- MODULE MCExec -------------------------------
(* Every way to run one command, and two branches side by side. *)
EXTENDS Exec

MCCalls == {"a", "b"}
Way(shell, streams) == [shell |-> shell, streams |-> streams, dry |-> FALSE]
\* A call that has nothing to do leaves the other one alone.
Idle == [shell |-> TRUE, streams |-> "terminal", dry |-> TRUE]
Pair(w, v) == [c \in MCCalls |-> IF c = "a" THEN w ELSE v]

MCSettings ==
  {Pair(w, Idle) : w \in [shell : BOOLEAN, streams : {"terminal", "capture", "label", "detach"}, dry : {FALSE}]}
  \cup {Pair(Way(FALSE, "terminal"), Way(TRUE, "terminal"))}
=============================================================================
