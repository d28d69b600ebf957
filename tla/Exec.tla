-------------------------------- MODULE Exec --------------------------------
(***************************************************************************)
(* The runner's threads, each in one `exec::spawn` (exec.rs), and the      *)
(* processes they start.  A call hands a command its body on stdin, copies *)
(* its streams behind a label or keeps what it prints, and waits for it;   *)
(* between them are pipes that hold so much and no more.                   *)
(*                                                                         *)
(* A stream is a sequence of pieces of lines and line ends.  What the      *)
(* command is, its environment and the text of an announcement are left    *)
(* out.                                                                    *)
(***************************************************************************)
EXTENDS Naturals, Sequences, FiniteSets

CONSTANTS
  Calls,      \* the threads, each with one command to run
  Cap,        \* what a pipe holds
  MaxBody,    \* bound: how much a body is
  MaxWritten, \* bound: how much the processes of one call write
  Settings    \* the ways to run a command that are looked at together

ASSUME ExecAssumption ==
  /\ Cap \in Nat \ {0} /\ MaxBody \in Nat /\ MaxWritten \in Nat

\* The fields of `Spawn` that decide what spawn does: whether the command is a
\* shell, which takes its script as an argument, and what becomes of its streams.
Ways == [shell : BOOLEAN, streams : {"terminal", "capture", "label", "detach"}, dry : BOOLEAN]

ASSUME SettingsAssumption == Settings \subseteq [Calls -> Ways]

Outputs == {"out", "err"}
Units   == {"x", "nl"}

VARIABLES
  unix,     \* whether this is a Unix, where main.rs puts SIGPIPE back to its default
  runner,   \* whether the runner's own process is alive
  way,      \* how each command is run
  pc,       \* where each call of spawn is
  left,     \* what of the body has not been written to stdin yet
  input,    \* how much the pipe to stdin holds
  child,    \* the process started: none yet, running, or how it ended
  reading,  \* whether it still has its stdin open
  blocked,  \* the output it is waiting to write to, its pipe being full
  kept,     \* the pipes a process it left behind still has open
  pipe,     \* what each output's pipe holds
  line,     \* what a relay has read of the line it is on
  relays,   \* the outputs whose relay is still at it
  screen,   \* what the terminal was given of each output, in whole lines
  text,     \* what a capture has read so far
  answer,   \* what the call returned
  wrote     \* history: what was written to each output

call  == <<pc, answer>>
feed  == <<left, input, reading>>
procs == <<child, blocked, kept>>
out   == <<pipe, line, relays, screen, text, wrote>>
fixed == <<unix, way>>
vars  == <<fixed, runner, call, feed, procs, out>>

\* The outputs that are piped: both behind a label, stdout for a capture.
Piped(c) ==
  CASE way[c].streams = "label"   -> Outputs
    [] way[c].streams = "capture" -> {"out"}
    [] OTHER                      -> {}

Alive(c) == child[c] = "running"
\* A pipe's reader sees its end once nobody holds the other side any more.
Open(c, s) == Alive(c) \/ s \in kept[c]
Reads(c) == (Alive(c) /\ reading[c]) \/ "in" \in kept[c]
\* What wait_with_output answers for the way the command ended.
Answered(c, a) == pc' = [pc EXCEPT ![c] = "done"] /\ answer' = [answer EXCEPT ![c] = a]
GoTo(c, place) == pc' = [pc EXCEPT ![c] = place] /\ UNCHANGED answer

Init ==
  /\ unix \in BOOLEAN /\ runner = "alive" /\ way \in Settings
  /\ pc = [c \in Calls |-> "ready"]
  /\ left \in [Calls -> 0 .. MaxBody] /\ \A c \in Calls : way[c].shell => left[c] = 0
  /\ input = [c \in Calls |-> 0]
  /\ child = [c \in Calls |-> "none"]
  /\ reading = [c \in Calls |-> TRUE]
  /\ blocked = [c \in Calls |-> "no"]
  /\ kept = [c \in Calls |-> {}]
  /\ pipe = [c \in Calls |-> [s \in Outputs |-> <<>>]]
  /\ line = [c \in Calls |-> [s \in Outputs |-> <<>>]]
  /\ relays = [c \in Calls |-> Outputs]
  /\ screen = [c \in Calls |-> [s \in Outputs |-> <<>>]]
  /\ text = [c \in Calls |-> <<>>]
  /\ answer = [c \in Calls |-> "none"]
  /\ wrote = [c \in Calls |-> [s \in Outputs |-> <<>>]]

-----------------------------------------------------------------------------
(* The runner's side.                                                      *)

\* What comes after the body: nothing to wait for, the relays, or the wait.
AfterBody(c) ==
  CASE way[c].streams = "detach" -> Answered(c, "ok")
    [] way[c].streams = "label"  -> GoTo(c, "relay")
    [] OTHER                     -> GoTo(c, "wait")

\* No shell, no such program, or no such directory: nothing was started.
Refuse(c) ==
  /\ pc[c] = "ready" /\ ~way[c].dry
  /\ Answered(c, "not started")
  /\ UNCHANGED <<feed, procs, out>>

Preview(c) ==
  /\ pc[c] = "ready" /\ way[c].dry
  /\ Answered(c, "ok")
  /\ UNCHANGED <<feed, procs, out>>

Start(c) ==
  /\ pc[c] = "ready" /\ ~way[c].dry
  /\ child' = [child EXCEPT ![c] = "running"]
  /\ IF way[c].shell THEN AfterBody(c) ELSE GoTo(c, "feed")
  /\ UNCHANGED <<feed, blocked, kept, out>>

\* Mutant: write_all does not wait for room.
FeedAhead(c) ==
  /\ pc[c] = "feed" /\ left[c] > 0 /\ Reads(c)
  /\ left' = [left EXCEPT ![c] = @ - 1]
  /\ input' = [input EXCEPT ![c] = @ + 1]
  /\ UNCHANGED <<call, reading, procs, out>>

\* stdin.write_all: as much of the body as the pipe has room for, again and again.
Feed(c) ==
  /\ pc[c] = "feed" /\ left[c] > 0 /\ Reads(c) /\ input[c] < Cap
  /\ left' = [left EXCEPT ![c] = @ - 1]
  /\ input' = [input EXCEPT ![c] = @ + 1]
  /\ UNCHANGED <<call, reading, procs, out>>

\* The whole body is in the pipe, and stdin is dropped.
Fed(c) ==
  /\ pc[c] = "feed" /\ left[c] = 0
  /\ AfterBody(c)
  /\ UNCHANGED <<feed, procs, out>>

\* There is body left and nobody to read it: an error where SIGPIPE is not a thing.
BrokenPipe(c) ==
  /\ pc[c] = "feed" /\ left[c] > 0 /\ ~Reads(c) /\ ~unix
  /\ Answered(c, "not started")
  /\ UNCHANGED <<feed, procs, out>>

\* relay: a piece of a line, its end, or the end of the stream.
ReadLine(c, s) ==
  /\ \/ /\ pipe[c][s] # <<>>
        /\ pipe' = [pipe EXCEPT ![c][s] = Tail(@)]
        /\ LET got == Append(line[c][s], Head(pipe[c][s])) IN
           IF Head(pipe[c][s]) = "nl"
             THEN /\ screen' = [screen EXCEPT ![c][s] = @ \o got]
                  /\ line' = [line EXCEPT ![c][s] = <<>>]
             ELSE line' = [line EXCEPT ![c][s] = got] /\ UNCHANGED screen
        /\ UNCHANGED relays
     \/ /\ pipe[c][s] = <<>> /\ ~Open(c, s)
        /\ relays' = [relays EXCEPT ![c] = @ \ {s}]
        /\ screen' = IF line[c][s] = <<>> THEN screen
                     ELSE [screen EXCEPT ![c][s] = @ \o Append(line[c][s], "nl")]
        /\ line' = [line EXCEPT ![c][s] = <<>>]
        /\ UNCHANGED pipe
  /\ UNCHANGED <<call, feed, procs, text, wrote>>

\* Mutant: one thread for both streams, one after the other.
RelayInTurn(c, s) ==
  /\ pc[c] = "relay" /\ s \in relays[c] /\ (s = "err" => "out" \notin relays[c])
  /\ ReadLine(c, s)

\* One thread for stderr, and this one for stdout.
Relay(c, s) == pc[c] = "relay" /\ s \in relays[c] /\ ReadLine(c, s)

\* Mutant: the other thread is not joined.
JoinedAlone(c) ==
  /\ pc[c] = "relay" /\ "out" \notin relays[c]
  /\ GoTo(c, "wait")
  /\ UNCHANGED <<feed, procs, out>>

\* This thread's own relay has returned, and the other one has been joined.
Joined(c) ==
  /\ pc[c] = "relay" /\ relays[c] = {}
  /\ GoTo(c, "wait")
  /\ UNCHANGED <<feed, procs, out>>

\* wait_with_output reads a captured stdout to its end before it waits.
Collect(c) ==
  /\ pc[c] = "wait" /\ way[c].streams = "capture" /\ pipe[c]["out"] # <<>>
  /\ text' = [text EXCEPT ![c] = Append(@, Head(pipe[c]["out"]))]
  /\ pipe' = [pipe EXCEPT ![c]["out"] = Tail(@)]
  /\ UNCHANGED <<call, feed, procs, line, relays, screen, wrote>>

\* The text a capture is: one trailing line end is stripped.
Stripped(t) == IF t # <<>> /\ t[Len(t)] = "nl" THEN SubSeq(t, 1, Len(t) - 1) ELSE t

\* Mutant: the capture ends with the command rather than with its stream.
ReapAtExit(c) ==
  /\ pc[c] = "wait" /\ child[c] \in {"0", "1"}
  /\ Answered(c, IF child[c] = "0" THEN "ok" ELSE "status")
  /\ text' = [text EXCEPT ![c] = Stripped(@)]
  /\ UNCHANGED <<feed, procs, pipe, line, relays, screen, wrote>>

Reap(c) ==
  /\ pc[c] = "wait" /\ child[c] \in {"0", "1"}
  /\ \/ way[c].streams # "capture" /\ Answered(c, IF child[c] = "0" THEN "ok" ELSE "status")
        /\ UNCHANGED text
     \/ /\ way[c].streams = "capture" /\ pipe[c]["out"] = <<>> /\ ~Open(c, "out")
        /\ \E utf8 \in BOOLEAN :
             Answered(c, IF child[c] # "0" THEN "status" ELSE IF utf8 THEN "ok" ELSE "not utf8")
        /\ text' = [text EXCEPT ![c] = Stripped(@)]
  /\ UNCHANGED <<feed, procs, pipe, line, relays, screen, wrote>>

Runner(c) ==
  /\ runner = "alive"
  /\ \/ Refuse(c) \/ Preview(c) \/ Start(c) \/ Feed(c) \/ Fed(c) \/ BrokenPipe(c)
     \/ (\E s \in Outputs : Relay(c, s)) \/ Joined(c) \/ Collect(c) \/ Reap(c)
  /\ UNCHANGED <<fixed, runner>>

\* The same write on a Unix: the signal ends the runner, and every call with it.
Sigpipe(c) ==
  /\ runner = "alive" /\ unix
  /\ pc[c] = "feed" /\ left[c] > 0 /\ ~Reads(c)
  /\ runner' = "killed"
  /\ UNCHANGED <<fixed, call, feed, procs, out>>

-----------------------------------------------------------------------------
(* The command's side: any program, and any process it leaves behind.      *)

Written(c) == Len(wrote[c]["out"]) + Len(wrote[c]["err"])

Put(c, s) ==
  \E u \in Units :
    /\ pipe' = [pipe EXCEPT ![c][s] = Append(@, u)]
    /\ wrote' = [wrote EXCEPT ![c][s] = Append(@, u)]
    /\ UNCHANGED <<line, relays, screen, text>>

Write(c, s) ==
  /\ Alive(c) \/ s \in kept[c]
  /\ s \in Piped(c) /\ Written(c) < MaxWritten
  /\ Alive(c) => blocked[c] \in {"no", s}
  /\ IF Len(pipe[c][s]) < Cap
       THEN /\ Put(c, s)
            /\ blocked' = [blocked EXCEPT ![c] = "no"]
       ELSE Alive(c) /\ blocked' = [blocked EXCEPT ![c] = s] /\ UNCHANGED out
  /\ UNCHANGED <<feed, child, kept>>

Read(c) ==
  /\ Alive(c) /\ blocked[c] = "no" /\ reading[c] /\ input[c] > 0
  /\ input' = [input EXCEPT ![c] = @ - 1]
  /\ UNCHANGED <<left, reading, procs, out>>

CloseStdin(c) ==
  /\ Alive(c) /\ blocked[c] = "no" /\ reading[c] /\ ~way[c].shell
  /\ reading' = [reading EXCEPT ![c] = FALSE]
  /\ UNCHANGED <<left, input, procs, out>>

\* It ends, and may leave a process behind that holds on to what it was given.
Exit(c) ==
  /\ Alive(c) /\ blocked[c] = "no"
  /\ \E status \in {"0", "1"} : child' = [child EXCEPT ![c] = status]
  /\ \E open \in SUBSET (Piped(c) \cup (IF way[c].shell THEN {} ELSE {"in"})) :
       kept' = [kept EXCEPT ![c] = open]
  /\ UNCHANGED <<feed, blocked, out>>

Release(c) ==
  /\ kept[c] # {}
  /\ kept' = [kept EXCEPT ![c] = {}]
  /\ UNCHANGED <<feed, child, blocked, out>>

Own(c) == (Alive(c) /\ \E s \in Outputs : Write(c, s)) \/ Read(c) \/ CloseStdin(c) \/ Exit(c)

Processes(c) ==
  /\ \/ (\E s \in Outputs : Write(c, s)) \/ Read(c) \/ CloseStdin(c) \/ Exit(c) \/ Release(c)
  /\ UNCHANGED <<fixed, runner, call>>

Next == \E c \in Calls : Runner(c) \/ Sigpipe(c) \/ Processes(c)

Spec == Init /\ [][Next]_vars

\* The runner's threads are scheduled, and so is the command until it ends.  A
\* process it leaves behind may stay for ever.
Fairness ==
  \A c \in Calls :
    /\ WF_vars(Runner(c)) /\ WF_vars(Sigpipe(c))
    /\ WF_vars(Own(c) /\ UNCHANGED <<fixed, runner, call>>)

FairSpec == Spec /\ Fairness

-----------------------------------------------------------------------------
TypeOK ==
  /\ unix \in BOOLEAN /\ runner \in {"alive", "killed"} /\ way \in [Calls -> Ways]
  /\ pc \in [Calls -> {"ready", "feed", "relay", "wait", "done"}]
  /\ left \in [Calls -> 0 .. MaxBody] /\ input \in [Calls -> 0 .. Cap]
  /\ child \in [Calls -> {"none", "running", "0", "1"}]
  /\ reading \in [Calls -> BOOLEAN] /\ blocked \in [Calls -> Outputs \cup {"no"}]
  /\ kept \in [Calls -> SUBSET (Outputs \cup {"in"})]
  /\ pipe \in [Calls -> [Outputs -> Seq(Units)]]
  /\ \A c \in Calls, s \in Outputs : Len(pipe[c][s]) <= Cap
  /\ line \in [Calls -> [Outputs -> Seq(Units)]]
  /\ relays \in [Calls -> SUBSET Outputs]
  /\ screen \in [Calls -> [Outputs -> Seq(Units)]]
  /\ text \in [Calls -> Seq(Units)]
  /\ answer \in [Calls -> {"none", "ok", "status", "not utf8", "not started"}]
  /\ wrote \in [Calls -> [Outputs -> Seq(Units)]]

\* What a branch's commands print arrives as Streams promises: with pipes that
\* fill, two relays, and a process left behind that goes on writing, no line is
\* lost, cut or out of order, and the call returns after the last one.
Labelled(c) == way[c].streams = "label"
Promise == INSTANCE Streams WITH
  Shown    <- Outputs,
  sent     <- [c \in Calls |-> [s \in Outputs |-> IF Labelled(c) THEN wrote[c][s] ELSE <<>>]],
  screen   <- screen,
  returned <- {c \in Calls : Labelled(c) /\ answer[c] \in {"ok", "status"}}

KeepsPromise == Promise!SSpec

\* A capture's value is all its command printed: the read goes to the end of the
\* stream, which a process left behind may hold, not to the end of the command.
Captured(c) == way[c].streams = "capture" => text[c] = Stripped(wrote[c]["out"])

\* A call that reports how its command ended has seen it end, and nothing still
\* holds a stream the runner was reading: what the runner relays is over when the
\* call is, but for `.detach`, and no capture is short of what was printed.
OverWhenReturned ==
  \A c \in Calls :
    answer[c] \in {"ok", "status"} /\ ~way[c].dry /\ way[c].streams # "detach" =>
      /\ child[c] \in {"0", "1"} /\ kept[c] \cap Piped(c) = {}
      /\ answer[c] = "ok" => Captured(c)

\* The one way spawn and its command can wait for each other: spawn has body left
\* to write, the command waits to write what nobody reads yet, and both pipes are full.
BothFull(c) ==
  /\ pc[c] = "feed" /\ left[c] > 0 /\ input[c] = Cap
  /\ blocked[c] # "no" /\ Len(pipe[c][blocked[c]]) = Cap

\* A call returns, unless the runner is gone, a process left behind holds a pipe,
\* or the body and the output fill both pipes: that one the code does run into, and
\* the formula names it as the only one.  In particular relays that have two full
\* streams to read never wait for the wrong one.
Returns ==
  \A c \in Calls :
    (pc[c] # "ready") ~> (pc[c] = "done" \/ runner = "killed" \/ kept[c] # {} \/ BothFull(c))

\* exec.rs:374 says a command that exits non-zero is an answer, and only one that
\* could not be started fails.  One that ends before it has read its body is
\* answered "could not start", and on a Unix takes the runner with it.
EndIsAnAnswer ==
  \A c \in Calls : child[c] \in {"0", "1"} => runner = "alive" /\ answer[c] # "not started"
=============================================================================
