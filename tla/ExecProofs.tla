----------------------------- MODULE ExecProofs -----------------------------
(***************************************************************************)
(* What spawn promises however many calls there are, whatever the pipes    *)
(* hold and however much is written: that it implements Streams, and that  *)
(* a call which reports an end has seen it.  The invariant says where each *)
(* piece a command wrote is: on the screen, in the line a relay is at, in  *)
(* the pipe, and in that order.                                            *)
(*                                                                         *)
(* And why a call returns: what is left of it is a number that every step  *)
(* of it lowers, and until it is done there is somebody who can take one.  *)
(***************************************************************************)
EXTENDS Exec, TLAPS

-----------------------------------------------------------------------------
(* Sequences.                                                              *)

LEMMA AppendToConcat ==
  \A a, b \in Seq(Units), u \in Units : a \o Append(b, u) = Append(a \o b, u)
  OBVIOUS

\* Three parts of a stream, and a piece more at its end.
LEMMA AppendToParts ==
  \A a, b, c \in Seq(Units), u \in Units : Append(a \o b \o c, u) = a \o b \o Append(c, u)
<1>1. \A a, b \in Seq(Units) : a \o b \in Seq(Units)
  OBVIOUS
<1> QED BY <1>1, AppendToConcat

\* A piece goes from the pipe to the line.
LEMMA PieceRead ==
  \A a, l, p \in Seq(Units) : p # <<>> => a \o Append(l, Head(p)) \o Tail(p) = a \o l \o p
  OBVIOUS

\* A line end goes with its line to the screen.
LEMMA EndRead ==
  \A a, l, p \in Seq(Units) :
    p # <<>> => (a \o Append(l, Head(p))) \o <<>> \o Tail(p) = a \o l \o p
  OBVIOUS

\* A piece goes from the pipe to a capture's text.
LEMMA PieceCollected ==
  \A a, p \in Seq(Units) : p # <<>> => Append(a, Head(p)) \o Tail(p) = a \o p
  OBVIOUS

LEMMA Prefix ==
  \A a, l, p \in Seq(Units) : SubSeq(a \o l \o p, 1, Len(a) + Len(l)) = a \o l
  OBVIOUS

\* Where a line and what follows it are in the whole stream.
LEMMA Parts ==
  \A a, l, p \in Seq(Units) :
    /\ a \o l \o p \in Seq(Units) /\ Len(a \o l \o p) = Len(a) + Len(l) + Len(p)
    /\ \A m \in Len(a) + 1 .. Len(a) + Len(l) : (a \o l \o p)[m] = l[m - Len(a)]
    /\ p # <<>> => (a \o l \o p)[Len(a) + Len(l) + 1] = Head(p)
  OBVIOUS

\* The stream up to the line end the pipe begins with.
LEMMA UpToEnd ==
  \A a, l, p \in Seq(Units) :
    p # <<>> => SubSeq(a \o l \o p, 1, Len(a) + Len(l) + 1) = a \o Append(l, Head(p))
<1> SUFFICES ASSUME NEW a \in Seq(Units), NEW l \in Seq(Units), NEW p \in Seq(Units), p # <<>>
             PROVE  SubSeq(a \o l \o p, 1, Len(a) + Len(l) + 1) = a \o Append(l, Head(p))
  OBVIOUS
<1> DEFINE k == Append(l, Head(p))
           q == Tail(p)
<1>1. k \in Seq(Units) /\ q \in Seq(Units) /\ Len(k) = Len(l) + 1 /\ Len(a) \in Nat /\ Len(l) \in Nat
  OBVIOUS
<1>2. a \o k \o q = a \o l \o p
  BY PieceRead
<1>3. SubSeq(a \o k \o q, 1, Len(a) + Len(k)) = a \o k
  <2> HIDE DEF k, q
  <2> QED BY <1>1, Prefix
<1>4. Len(a) + Len(k) = Len(a) + Len(l) + 1
  BY <1>1
<1> QED BY <1>2, <1>3, <1>4

-----------------------------------------------------------------------------
(* The invariant.                                                          *)

\* Which call is where, with what.
Places(c) ==
  /\ answer[c] = "none" <=> pc[c] # "done"
  /\ pc[c] = "ready" => child[c] = "none"
  /\ pc[c] \in {"feed", "relay", "wait"} => child[c] # "none"
  /\ way[c].dry => child[c] = "none"
  /\ pc[c] = "relay" => Labelled(c)
  /\ pc[c] = "wait" => way[c].streams # "detach" /\ (Labelled(c) => relays[c] = {})
  /\ child[c] = "none" => kept[c] = {} /\ text[c] = <<>>

\* Before a command is started there is nothing, and only a relay shows anything.
Unused(c, s) ==
  /\ child[c] = "none" => /\ s \in relays[c] /\ pipe[c][s] = <<>> /\ line[c][s] = <<>>
                          /\ screen[c][s] = <<>> /\ wrote[c][s] = <<>>
  /\ ~Labelled(c) => screen[c][s] = <<>>

\* A command that is over holds no stream s, and nobody else does.
Over(c, s) == child[c] \in {"0", "1"} /\ s \notin kept[c]

\* Where what was written to a labelled stream is.
Relayed(c, s) ==
  Labelled(c) =>
    IF s \in relays[c]
    THEN /\ wrote[c][s] = screen[c][s] \o line[c][s] \o pipe[c][s]
         /\ \A i \in 1 .. Len(line[c][s]) : line[c][s][i] # "nl"
    ELSE Over(c, s) /\ screen[c][s] \in {wrote[c][s], Append(wrote[c][s], "nl")}

\* Where what was written to a captured one is.
Collected(c) ==
  way[c].streams = "capture" =>
    /\ answer[c] = "none" => wrote[c]["out"] = text[c] \o pipe[c]["out"]
    /\ answer[c] \in {"ok", "status"} /\ ~way[c].dry => Over(c, "out")
    /\ answer[c] = "ok" /\ ~way[c].dry => text[c] = Stripped(wrote[c]["out"])

\* An answer to a command that was waited for comes after its end, and after its relays'.
Answers(c) ==
  answer[c] \in {"ok", "status"} /\ ~way[c].dry /\ way[c].streams # "detach" =>
    child[c] \in {"0", "1"} /\ (Labelled(c) => relays[c] = {})

CallInv(c) ==
  /\ Places(c) /\ Collected(c) /\ Answers(c)
  /\ \A s \in Outputs : Unused(c, s) /\ Relayed(c, s)

Inv == TypeOK /\ \A c \in Calls : CallInv(c)

LEMMA WayType == TypeOK => \A c \in Calls : way[c] \in Ways
  BY DEF TypeOK

LEMMA StrippedType == \A t \in Seq(Units) : Stripped(t) \in Seq(Units)
  BY DEF Stripped

LEMMA InitHolds == Init => Inv
<1> SUFFICES ASSUME Init
             PROVE  Inv
  OBVIOUS
<1>1. TypeOK
  <2>1. unix \in BOOLEAN /\ runner \in {"alive", "killed"} /\ way \in [Calls -> Ways]
    BY SettingsAssumption DEF Init
  <2>2. left \in [Calls -> 0 .. MaxBody] /\ input \in [Calls -> 0 .. Cap]
    BY ExecAssumption DEF Init
  <2>3. /\ pc \in [Calls -> {"ready", "feed", "relay", "wait", "done"}]
        /\ child \in [Calls -> {"none", "running", "0", "1"}]
        /\ reading \in [Calls -> BOOLEAN] /\ blocked \in [Calls -> Outputs \cup {"no"}]
        /\ kept \in [Calls -> SUBSET (Outputs \cup {"in"})] /\ relays \in [Calls -> SUBSET Outputs]
        /\ answer \in [Calls -> {"none", "ok", "status", "not utf8", "not started"}]
    BY DEF Init
  <2>4. /\ pipe \in [Calls -> [Outputs -> Seq(Units)]] /\ line \in [Calls -> [Outputs -> Seq(Units)]]
        /\ screen \in [Calls -> [Outputs -> Seq(Units)]] /\ wrote \in [Calls -> [Outputs -> Seq(Units)]]
        /\ text \in [Calls -> Seq(Units)]
        /\ \A c \in Calls, s \in Outputs : Len(pipe[c][s]) <= Cap
    BY ExecAssumption DEF Init
  <2> QED BY <2>1, <2>2, <2>3, <2>4 DEF TypeOK
<1>2. \A c \in Calls : Places(c) /\ Collected(c) /\ Answers(c)
  BY DEF Init, Places, Collected, Answers, Labelled, Outputs
<1>3. \A c \in Calls, s \in Outputs : Unused(c, s) /\ Relayed(c, s)
  BY DEF Init, Unused, Relayed
<1> QED BY <1>1, <1>2, <1>3 DEF Inv, CallInv
-----------------------------------------------------------------------------
(* Type correctness.                                                       *)

\* The two ways an action of the runner moves a call keep its place and answer typed.
LEMMA MovesTyped ==
  ASSUME TypeOK, NEW c \in Calls,
         \/ \E a \in {"ok", "status", "not utf8", "not started"} : Answered(c, a)
         \/ \E place \in {"relay", "wait", "feed"} : GoTo(c, place)
         \/ UNCHANGED call
  PROVE  /\ pc' \in [Calls -> {"ready", "feed", "relay", "wait", "done"}]
         /\ answer' \in [Calls -> {"none", "ok", "status", "not utf8", "not started"}]
<1>1. /\ pc \in [Calls -> {"ready", "feed", "relay", "wait", "done"}]
      /\ answer \in [Calls -> {"none", "ok", "status", "not utf8", "not started"}]
  BY DEF TypeOK
<1>2. CASE \E a \in {"ok", "status", "not utf8", "not started"} : Answered(c, a)
  BY <1>1, <1>2 DEF Answered
<1>3. CASE \E place \in {"relay", "wait", "feed"} : GoTo(c, place)
  BY <1>1, <1>3 DEF GoTo
<1>4. CASE UNCHANGED call
  BY <1>1, <1>4 DEF call
<1> QED BY <1>2, <1>3, <1>4

\* What the streams of a call hold stays typed.
StreamsTyped ==
  /\ pipe \in [Calls -> [Outputs -> Seq(Units)]]
  /\ \A c \in Calls, s \in Outputs : Len(pipe[c][s]) <= Cap
  /\ line \in [Calls -> [Outputs -> Seq(Units)]]
  /\ relays \in [Calls -> SUBSET Outputs]
  /\ screen \in [Calls -> [Outputs -> Seq(Units)]]
  /\ text \in [Calls -> Seq(Units)]
  /\ wrote \in [Calls -> [Outputs -> Seq(Units)]]

\* A stream is set to another sequence.
LEMMA SetStream ==
  ASSUME NEW f \in [Calls -> [Outputs -> Seq(Units)]], NEW c \in Calls, NEW s \in Outputs,
         NEW v \in Seq(Units)
  PROVE  [f EXCEPT ![c][s] = v] \in [Calls -> [Outputs -> Seq(Units)]]
  OBVIOUS

LEMMA StreamTypes ==
  ASSUME TypeOK
  PROVE  /\ pipe \in [Calls -> [Outputs -> Seq(Units)]] /\ line \in [Calls -> [Outputs -> Seq(Units)]]
         /\ screen \in [Calls -> [Outputs -> Seq(Units)]] /\ wrote \in [Calls -> [Outputs -> Seq(Units)]]
         /\ text \in [Calls -> Seq(Units)] /\ relays \in [Calls -> SUBSET Outputs]
         /\ \A c \in Calls, s \in Outputs : Len(pipe[c][s]) <= Cap
         /\ Cap \in Nat \ {0}
  BY ExecAssumption DEF TypeOK

LEMMA PieceTaken ==
  ASSUME TypeOK, NEW c \in Calls, NEW s \in Outputs, pipe[c][s] # <<>>
  PROVE  /\ Head(pipe[c][s]) \in Units /\ Tail(pipe[c][s]) \in Seq(Units)
         /\ Len(Tail(pipe[c][s])) <= Cap
<1>1. pipe[c][s] \in Seq(Units) /\ Len(pipe[c][s]) <= Cap /\ Cap \in Nat
  BY ExecAssumption DEF TypeOK
<1> QED BY <1>1

LEMMA ReadLineTyped ==
  ASSUME TypeOK, NEW c \in Calls, NEW s \in Outputs, ReadLine(c, s)
  PROVE  StreamsTyped'
<1> USE StreamTypes
<1>1. text' = text /\ wrote' = wrote
  BY DEF ReadLine
<1>2. CASE pipe[c][s] # <<>>
  <2> DEFINE got == Append(line[c][s], Head(pipe[c][s]))
  <2>1. got \in Seq(Units)
    BY <1>2, PieceTaken
  <2>2. pipe' = [pipe EXCEPT ![c][s] = Tail(@)] /\ relays' = relays
    BY <1>2 DEF ReadLine
  <2>3. \/ screen' = [screen EXCEPT ![c][s] = @ \o got] /\ line' = [line EXCEPT ![c][s] = <<>>]
        \/ screen' = screen /\ line' = [line EXCEPT ![c][s] = got]
    BY <1>2 DEF ReadLine
  <2> HIDE DEF got
  <2>4. /\ pipe' \in [Calls -> [Outputs -> Seq(Units)]]
        /\ \A d \in Calls, r \in Outputs : Len(pipe'[d][r]) <= Cap
    BY <1>2, <2>2, PieceTaken
  <2>5. screen' \in [Calls -> [Outputs -> Seq(Units)]] /\ line' \in [Calls -> [Outputs -> Seq(Units)]]
    <3>1. screen[c][s] \o got \in Seq(Units) /\ <<>> \in Seq(Units)
      BY <2>1
    <3>2. CASE screen' = [screen EXCEPT ![c][s] = @ \o got] /\ line' = [line EXCEPT ![c][s] = <<>>]
      <4>1. screen' = [screen EXCEPT ![c][s] = screen[c][s] \o got]
        BY <3>2
      <4> QED BY <3>1, <3>2, <4>1, SetStream
    <3>3. CASE screen' = screen /\ line' = [line EXCEPT ![c][s] = got]
      BY <2>1, <3>3, SetStream
    <3> QED BY <2>3, <3>2, <3>3
  <2> QED BY <1>1, <2>2, <2>4, <2>5 DEF StreamsTyped
<1>3. CASE pipe[c][s] = <<>>
  <2>1. /\ pipe' = pipe /\ relays' = [relays EXCEPT ![c] = @ \ {s}]
        /\ line' = [line EXCEPT ![c][s] = <<>>]
    BY <1>3 DEF ReadLine
  <2>2. \/ screen' = screen
        \/ screen' = [screen EXCEPT ![c][s] = @ \o Append(line[c][s], "nl")]
    BY <1>3 DEF ReadLine
  <2>3. screen' \in [Calls -> [Outputs -> Seq(Units)]] /\ line' \in [Calls -> [Outputs -> Seq(Units)]]
    <3>1. screen[c][s] \o Append(line[c][s], "nl") \in Seq(Units) /\ <<>> \in Seq(Units)
      BY DEF Units
    <3>2. line' \in [Calls -> [Outputs -> Seq(Units)]]
      BY <2>1, <3>1, SetStream
    <3>3. CASE screen' = [screen EXCEPT ![c][s] = @ \o Append(line[c][s], "nl")]
      <4>1. screen' = [screen EXCEPT ![c][s] = screen[c][s] \o Append(line[c][s], "nl")]
        BY <3>3
      <4>2. screen' \in [Calls -> [Outputs -> Seq(Units)]]
        BY <3>1, <4>1, SetStream
      <4> QED BY <3>2, <4>2
    <3> QED BY <2>2, <3>2, <3>3
  <2>4. relays' \in [Calls -> SUBSET Outputs]
    BY <2>1
  <2> QED BY <1>1, <2>1, <2>3, <2>4 DEF StreamsTyped
<1> QED BY <1>2, <1>3

LEMMA RunnerTyped ==
  ASSUME TypeOK, NEW c \in Calls, Runner(c)
  PROVE  TypeOK'
<1> USE DEF fixed
<1>1. unix' = unix /\ way' = way /\ runner' = runner
  BY DEF Runner
<1>2. CASE Refuse(c) \/ Preview(c) \/ Fed(c) \/ BrokenPipe(c) \/ Joined(c)
  <2>1. UNCHANGED <<feed, procs, out>>
    BY <1>2 DEF Refuse, Preview, Fed, BrokenPipe, Joined
  <2>2. \/ \E a \in {"ok", "status", "not utf8", "not started"} : Answered(c, a)
        \/ \E place \in {"relay", "wait", "feed"} : GoTo(c, place)
    BY <1>2 DEF Refuse, Preview, Fed, BrokenPipe, Joined, AfterBody
  <2> QED BY <1>1, <2>1, <2>2, MovesTyped DEF TypeOK, feed, procs, out
<1>3. CASE Start(c)
  <2>1. UNCHANGED <<feed, blocked, kept, out>> /\ child' = [child EXCEPT ![c] = "running"]
    BY <1>3 DEF Start
  <2>2. \/ \E a \in {"ok", "status", "not utf8", "not started"} : Answered(c, a)
        \/ \E place \in {"relay", "wait", "feed"} : GoTo(c, place)
    BY <1>3 DEF Start, AfterBody
  <2> QED BY <1>1, <2>1, <2>2, MovesTyped DEF TypeOK, feed, out
<1>4. CASE Feed(c)
  <2>1. UNCHANGED <<call, reading, procs, out>>
    BY <1>4 DEF Feed
  <2>2. left' \in [Calls -> 0 .. MaxBody] /\ input' \in [Calls -> 0 .. Cap]
    <3>1. left \in [Calls -> 0 .. MaxBody] /\ input \in [Calls -> 0 .. Cap]
      BY DEF TypeOK
    <3> QED BY <1>4, <3>1, ExecAssumption DEF Feed
  <2> QED BY <1>1, <2>1, <2>2 DEF TypeOK, call, procs, out
<1>5. CASE \E s \in Outputs : Relay(c, s)
  <2>1. PICK s \in Outputs : Relay(c, s)
    BY <1>5
  <2>2. UNCHANGED <<call, feed, procs>> /\ StreamsTyped'
    BY <2>1, ReadLineTyped DEF Relay, ReadLine
  <2> QED BY <1>1, <2>2 DEF TypeOK, call, feed, procs, StreamsTyped
<1>6. CASE Collect(c)
  <2>1. UNCHANGED <<call, feed, procs, line, relays, screen, wrote>>
    BY <1>6 DEF Collect
  <2>2. text' \in [Calls -> Seq(Units)]
    BY <1>6, PieceTaken, StreamTypes DEF Collect, Outputs
  <2>3. /\ pipe' \in [Calls -> [Outputs -> Seq(Units)]]
        /\ \A d \in Calls, r \in Outputs : Len(pipe'[d][r]) <= Cap
    BY <1>6, PieceTaken, StreamTypes DEF Collect, Outputs
  <2> QED BY <1>1, <2>1, <2>2, <2>3 DEF TypeOK, call, feed, procs
<1>7. CASE Reap(c)
  <2>1. UNCHANGED <<feed, procs, pipe, line, relays, screen, wrote>>
    BY <1>7 DEF Reap
  <2>2. \E a \in {"ok", "status", "not utf8", "not started"} : Answered(c, a)
    BY <1>7 DEF Reap
  <2>3. text' \in [Calls -> Seq(Units)]
    <3>1. text' \in {text, [text EXCEPT ![c] = Stripped(@)]}
      BY <1>7 DEF Reap
    <3>2. Stripped(text[c]) \in Seq(Units)
      BY StrippedType, StreamTypes
    <3> QED BY <3>1, <3>2, StreamTypes
  <2> QED BY <1>1, <2>1, <2>2, <2>3, MovesTyped DEF TypeOK, feed, procs
<1> QED BY <1>2, <1>3, <1>4, <1>5, <1>6, <1>7 DEF Runner

LEMMA PutTyped ==
  ASSUME TypeOK, NEW c \in Calls, NEW s \in Outputs, Put(c, s), Len(pipe[c][s]) < Cap
  PROVE  StreamsTyped'
<1>1. PICK u \in Units : /\ pipe' = [pipe EXCEPT ![c][s] = Append(@, u)]
                         /\ wrote' = [wrote EXCEPT ![c][s] = Append(@, u)]
                         /\ UNCHANGED <<line, relays, screen, text>>
  BY DEF Put
<1>2. Len(Append(pipe[c][s], u)) <= Cap
  BY StreamTypes
<1>3. pipe' \in [Calls -> [Outputs -> Seq(Units)]] /\ wrote' \in [Calls -> [Outputs -> Seq(Units)]]
  BY <1>1, StreamTypes
<1>4. \A d \in Calls, r \in Outputs : Len(pipe'[d][r]) <= Cap
  BY <1>1, <1>2, StreamTypes
<1> QED BY <1>1, <1>3, <1>4 DEF TypeOK, StreamsTyped

LEMMA ProcessesTyped ==
  ASSUME TypeOK, NEW c \in Calls, Processes(c)
  PROVE  TypeOK'
<1>1. unix' = unix /\ way' = way /\ runner' = runner /\ pc' = pc /\ answer' = answer
  BY DEF Processes, fixed, call
<1>2. CASE \E s \in Outputs : Write(c, s)
  <2>1. PICK s \in Outputs : Write(c, s)
    BY <1>2
  <2>2. UNCHANGED <<feed, child, kept>> /\ blocked' \in [Calls -> Outputs \cup {"no"}]
    <3>1. blocked \in [Calls -> Outputs \cup {"no"}]
      BY DEF TypeOK
    <3> QED BY <2>1, <3>1 DEF Write
  <2>3. StreamsTyped'
    <3>1. CASE Len(pipe[c][s]) < Cap
      BY <2>1, <3>1, PutTyped DEF Write
    <3>2. CASE ~(Len(pipe[c][s]) < Cap)
      BY <2>1, <3>2 DEF Write, TypeOK, out, StreamsTyped
    <3> QED BY <3>1, <3>2
  <2> QED BY <1>1, <2>2, <2>3 DEF TypeOK, feed, StreamsTyped
<1>3. CASE Read(c)
  <2>1. UNCHANGED <<left, reading, procs, out>>
    BY <1>3 DEF Read
  <2>2. input' \in [Calls -> 0 .. Cap]
    <3>1. input \in [Calls -> 0 .. Cap]
      BY DEF TypeOK
    <3> QED BY <1>3, <3>1, ExecAssumption DEF Read
  <2> QED BY <1>1, <2>1, <2>2 DEF TypeOK, procs, out
<1>4. CASE CloseStdin(c)
  <2>1. UNCHANGED <<left, input, procs, out>> /\ reading' \in [Calls -> BOOLEAN]
    BY <1>4 DEF CloseStdin, TypeOK
  <2> QED BY <1>1, <2>1 DEF TypeOK, procs, out
<1>5. CASE Exit(c)
  <2>1. UNCHANGED <<feed, blocked, out>>
    BY <1>5 DEF Exit
  <2>2. child' \in [Calls -> {"none", "running", "0", "1"}]
    BY <1>5 DEF Exit, TypeOK
  <2>3. kept' \in [Calls -> SUBSET (Outputs \cup {"in"})]
    <3>1. Piped(c) \subseteq Outputs
      BY DEF Piped, Outputs
    <3>2. kept \in [Calls -> SUBSET (Outputs \cup {"in"})]
      BY DEF TypeOK
    <3>3. PICK open \in SUBSET (Piped(c) \cup (IF way[c].shell THEN {} ELSE {"in"})) :
            kept' = [kept EXCEPT ![c] = open]
      BY <1>5 DEF Exit
    <3>4. open \subseteq Outputs \cup {"in"}
      BY <3>1
    <3> QED BY <3>2, <3>3, <3>4
  <2> QED BY <1>1, <2>1, <2>2, <2>3 DEF TypeOK, feed, out
<1>6. CASE Release(c)
  <2>1. UNCHANGED <<feed, child, blocked, out>> /\ kept' \in [Calls -> SUBSET (Outputs \cup {"in"})]
    BY <1>6 DEF Release, TypeOK
  <2> QED BY <1>1, <2>1 DEF TypeOK, feed, out
<1> QED BY <1>2, <1>3, <1>4, <1>5, <1>6 DEF Processes

LEMMA TypeStep == TypeOK /\ [Next]_vars => TypeOK'
<1> SUFFICES ASSUME TypeOK, [Next]_vars
             PROVE  TypeOK'
  OBVIOUS
<1>1. CASE UNCHANGED vars
  BY <1>1 DEF TypeOK, vars, fixed, call, feed, procs, out
<1>2. ASSUME NEW c \in Calls, Sigpipe(c)
      PROVE  TypeOK'
  BY <1>2 DEF Sigpipe, TypeOK, fixed, call, feed, procs, out
<1> QED BY <1>1, <1>2, RunnerTyped, ProcessesTyped DEF Next

-----------------------------------------------------------------------------
(* What a step leaves alone.                                               *)

SameStream(c, s) ==
  /\ pipe'[c][s] = pipe[c][s] /\ line'[c][s] = line[c][s]
  /\ screen'[c][s] = screen[c][s] /\ wrote'[c][s] = wrote[c][s]

SameProcess(c) == child'[c] = child[c] /\ kept'[c] = kept[c]
SameAnswer(c)  == pc'[c] = pc[c] /\ answer'[c] = answer[c]
SameOut(c)     == /\ relays'[c] = relays[c] /\ text'[c] = text[c]
                  /\ \A s \in Outputs : SameStream(c, s)

\* A relay or a writer of one stream leaves the other ones alone.
OneStream(c, s) ==
  /\ \A r \in Outputs \ {s} : SameStream(c, r) /\ (r \in relays'[c] <=> r \in relays[c])
  /\ text'[c] = text[c]

LEMMA SameCallInv ==
  ASSUME NEW c \in Calls, CallInv(c), way' = way,
         SameProcess(c), SameAnswer(c), SameOut(c)
  PROVE  CallInv(c)'
<1> USE DEF CallInv, SameProcess, SameAnswer, SameOut, SameStream, Labelled
<1>1. Places(c)'
  BY DEF Places
<1>2. Collected(c)'
  BY DEF Collected, Over, Stripped, Outputs
<1>3. Answers(c)'
  BY DEF Answers
<1>4. ASSUME NEW s \in Outputs
      PROVE  Unused(c, s)' /\ Relayed(c, s)'
  <2>1. Unused(c, s)'
    BY DEF Unused
  <2>2. Relayed(c, s)'
    BY DEF Relayed, Over
  <2> QED BY <2>1, <2>2
<1> QED BY <1>1, <1>2, <1>3, <1>4

\* An action of one call moves no other one.
LEMMA OthersStay ==
  ASSUME TypeOK, NEW c \in Calls, Runner(c) \/ Sigpipe(c) \/ Processes(c), NEW d \in Calls, d # c
  PROVE  way' = way /\ SameProcess(d) /\ SameAnswer(d) /\ SameOut(d)
<1> USE DEF SameProcess, SameAnswer, SameOut, SameStream
<1>1. way' = way
  BY DEF Runner, Sigpipe, Processes, fixed
<1>2. SameProcess(d)
  <2>1. CASE Runner(c)
    BY <2>1 DEF TypeOK, Runner, Refuse, Preview, Start, Feed, Fed, BrokenPipe, Relay, ReadLine,
                Joined, Collect, Reap, procs
  <2>2. CASE Sigpipe(c) \/ Processes(c)
    BY <2>2 DEF TypeOK, Sigpipe, Processes, Write, Read, CloseStdin, Exit, Release, procs
  <2> QED BY <2>1, <2>2
<1>3. SameAnswer(d)
  <2>1. CASE Runner(c)
    <3>1. (\E a : Answered(c, a)) \/ (\E place : GoTo(c, place)) \/ UNCHANGED call
      BY <2>1 DEF Runner, Refuse, Preview, Start, Feed, Fed, BrokenPipe, Relay, ReadLine,
                  Joined, Collect, Reap, AfterBody
    <3> QED BY <3>1 DEF TypeOK, Answered, GoTo, call
  <2>2. CASE Sigpipe(c) \/ Processes(c)
    BY <2>2 DEF Sigpipe, Processes, call
  <2> QED BY <2>1, <2>2
<1>4. SameOut(d)
  <2>1. CASE Runner(c)
    <3>1. CASE Refuse(c) \/ Preview(c) \/ Start(c) \/ Feed(c) \/ Fed(c) \/ BrokenPipe(c) \/ Joined(c)
      BY <3>1 DEF Refuse, Preview, Start, Feed, Fed, BrokenPipe, Joined, out
    <3>2. CASE \E s \in Outputs : Relay(c, s)
      <4>1. PICK s \in Outputs : ReadLine(c, s)
        BY <3>2 DEF Relay
      <4>2. CASE pipe[c][s] # <<>>
        BY <4>1, <4>2, StreamTypes DEF ReadLine
      <4>3. CASE pipe[c][s] = <<>>
        <5>1. /\ relays' = [relays EXCEPT ![c] = @ \ {s}] /\ line' = [line EXCEPT ![c][s] = <<>>]
              /\ UNCHANGED <<pipe, text, wrote>>
          BY <4>1, <4>3 DEF ReadLine
        <5>2. screen' \in {screen, [screen EXCEPT ![c][s] = @ \o Append(line[c][s], "nl")]}
          BY <4>1, <4>3 DEF ReadLine
        <5>3. screen'[d] = screen[d]
          BY <5>2, StreamTypes
        <5> QED BY <5>1, <5>3, StreamTypes
      <4> QED BY <4>2, <4>3
    <3>3. CASE Collect(c)
      BY <3>3 DEF TypeOK, Collect
    <3>4. CASE Reap(c)
      BY <3>4 DEF TypeOK, Reap
    <3> QED BY <2>1, <3>1, <3>2, <3>3, <3>4 DEF Runner
  <2>2. CASE Processes(c)
    <3>1. CASE \E s \in Outputs : Write(c, s)
      <4>1. PICK s \in Outputs : Write(c, s)
        BY <3>1
      <4>2. Put(c, s) \/ UNCHANGED out
        BY <4>1 DEF Write
      <4>3. CASE Put(c, s)
        <5>1. PICK u \in Units : /\ pipe' = [pipe EXCEPT ![c][s] = Append(@, u)]
                                 /\ wrote' = [wrote EXCEPT ![c][s] = Append(@, u)]
                                 /\ UNCHANGED <<line, relays, screen, text>>
          BY <4>3 DEF Put
        <5> QED BY <5>1, StreamTypes
      <4> QED BY <4>2, <4>3 DEF out
    <3>2. CASE Read(c) \/ CloseStdin(c) \/ Exit(c) \/ Release(c)
      BY <3>2 DEF Read, CloseStdin, Exit, Release, out
    <3> QED BY <2>2, <3>1, <3>2 DEF Processes
  <2>3. CASE Sigpipe(c)
    BY <2>3 DEF Sigpipe, out
  <2> QED BY <2>1, <2>2, <2>3
<1> QED BY <1>1, <1>2, <1>3, <1>4

-----------------------------------------------------------------------------
(* What a step does to its own call.                                       *)

LEMMA AnsweredAt ==
  ASSUME TypeOK, NEW c \in Calls, NEW a, Answered(c, a)
  PROVE  pc'[c] = "done" /\ answer'[c] = a
  BY DEF TypeOK, Answered

LEMMA GoneAt ==
  ASSUME TypeOK, NEW c \in Calls, NEW place, GoTo(c, place)
  PROVE  pc'[c] = place /\ answer'[c] = answer[c]
  BY DEF TypeOK, GoTo

\* A relay takes a piece of its stream: a line end shows the line, and else the line grows.
TakesPiece(c, s) ==
  /\ pipe[c][s] # <<>> /\ pipe'[c][s] = Tail(pipe[c][s])
  /\ \/ /\ Head(pipe[c][s]) = "nl" /\ line'[c][s] = <<>>
        /\ screen'[c][s] = screen[c][s] \o Append(line[c][s], Head(pipe[c][s]))
     \/ /\ Head(pipe[c][s]) # "nl" /\ line'[c][s] = Append(line[c][s], Head(pipe[c][s]))
        /\ screen'[c][s] = screen[c][s]
  /\ s \in relays'[c] <=> s \in relays[c]

\* A relay that sees the end of its stream shows what it has, and is gone.
SeesEnd(c, s) ==
  /\ pipe[c][s] = <<>> /\ ~Open(c, s) /\ pipe'[c][s] = <<>> /\ line'[c][s] = <<>>
  /\ screen'[c][s] = IF line[c][s] = <<>> THEN screen[c][s]
                     ELSE screen[c][s] \o Append(line[c][s], "nl")
  /\ s \notin relays'[c]

LEMMA ReadsAt ==
  ASSUME TypeOK, NEW c \in Calls, NEW s \in Outputs, ReadLine(c, s)
  PROVE  /\ SameProcess(c) /\ SameAnswer(c) /\ OneStream(c, s) /\ wrote'[c][s] = wrote[c][s]
         /\ TakesPiece(c, s) \/ SeesEnd(c, s)
<1> USE StreamTypes DEF SameProcess, SameAnswer, OneStream, SameStream
<1>1. SameProcess(c) /\ SameAnswer(c) /\ wrote'[c][s] = wrote[c][s] /\ wrote' = wrote /\ text' = text
  BY DEF ReadLine, call, procs
<1>2. CASE pipe[c][s] # <<>>
  <2> DEFINE got == Append(line[c][s], Head(pipe[c][s]))
  <2>1. pipe' = [pipe EXCEPT ![c][s] = Tail(@)] /\ relays' = relays
    BY <1>2 DEF ReadLine
  <2>2. \/ /\ Head(pipe[c][s]) = "nl"
           /\ screen' = [screen EXCEPT ![c][s] = @ \o got] /\ line' = [line EXCEPT ![c][s] = <<>>]
        \/ /\ Head(pipe[c][s]) # "nl"
           /\ screen' = screen /\ line' = [line EXCEPT ![c][s] = got]
    BY <1>2 DEF ReadLine
  <2>3. OneStream(c, s)
    <3> HIDE DEF got
    <3> QED BY <1>1, <2>1, <2>2
  <2>4. TakesPiece(c, s)
    <3>1. pipe'[c][s] = Tail(pipe[c][s]) /\ relays'[c] = relays[c]
      BY <2>1
    <3>2. \/ Head(pipe[c][s]) = "nl" /\ screen'[c][s] = screen[c][s] \o got /\ line'[c][s] = <<>>
          \/ Head(pipe[c][s]) # "nl" /\ screen'[c][s] = screen[c][s] /\ line'[c][s] = got
      <4> HIDE DEF got
      <4> QED BY <2>2
    <3> QED BY <1>2, <3>1, <3>2 DEF TakesPiece
  <2> QED BY <1>1, <2>3, <2>4
<1>3. CASE pipe[c][s] = <<>>
  <2> DEFINE last == screen[c][s] \o Append(line[c][s], "nl")
  <2>1. /\ relays' = [relays EXCEPT ![c] = @ \ {s}] /\ line' = [line EXCEPT ![c][s] = <<>>]
        /\ pipe' = pipe /\ ~Open(c, s)
    BY <1>3 DEF ReadLine
  <2>2. screen' = IF line[c][s] = <<>> THEN screen ELSE [screen EXCEPT ![c][s] = last]
    BY <1>3 DEF ReadLine
  <2>3. OneStream(c, s)
    <3> HIDE DEF last
    <3> QED BY <1>1, <2>1, <2>2
  <2>4. SeesEnd(c, s)
    <3>1. screen'[c][s] = IF line[c][s] = <<>> THEN screen[c][s] ELSE last
      <4> HIDE DEF last
      <4> QED BY <2>2
    <3> QED BY <1>3, <2>1, <3>1 DEF SeesEnd
  <2> QED BY <1>1, <2>3, <2>4
<1> QED BY <1>2, <1>3

\* A process writes a piece.
PutsPiece(c, s, u) ==
  /\ pipe'[c][s] = Append(pipe[c][s], u) /\ wrote'[c][s] = Append(wrote[c][s], u)
  /\ line'[c][s] = line[c][s] /\ screen'[c][s] = screen[c][s]
  /\ relays'[c] = relays[c]

LEMMA WritesAt ==
  ASSUME TypeOK, NEW c \in Calls, NEW s \in Outputs, Write(c, s)
  PROVE  /\ SameProcess(c) /\ Open(c, s) /\ s \in Piped(c)
         /\ SameOut(c) \/ (OneStream(c, s) /\ \E u \in Units : PutsPiece(c, s, u))
<1> USE StreamTypes
<1>1. SameProcess(c) /\ Open(c, s) /\ s \in Piped(c)
  BY DEF Write, SameProcess, Open
<1>2. CASE Put(c, s)
  <2>1. PICK u \in Units : /\ pipe' = [pipe EXCEPT ![c][s] = Append(@, u)]
                           /\ wrote' = [wrote EXCEPT ![c][s] = Append(@, u)]
                           /\ UNCHANGED <<line, relays, screen, text>>
    BY <1>2 DEF Put
  <2>2. OneStream(c, s)
    BY <2>1 DEF OneStream, SameStream
  <2>3. PutsPiece(c, s, u)
    BY <2>1 DEF PutsPiece
  <2> QED BY <1>1, <2>2, <2>3
<1>3. CASE UNCHANGED out
  BY <1>1, <1>3 DEF out, SameOut, SameStream
<1> QED BY <1>2, <1>3 DEF Write

-----------------------------------------------------------------------------
(* The invariant, action by action.                                        *)

\* The actions that only move a call: what they have to show is about its place.
LEMMA MovesInv ==
  ASSUME NEW c \in Calls, CallInv(c), way' = way, SameProcess(c), SameOut(c),
         Places(c)', Collected(c)', Answers(c)'
  PROVE  CallInv(c)'
<1>1. ASSUME NEW s \in Outputs
      PROVE  Unused(c, s)' /\ Relayed(c, s)'
  <2> USE DEF CallInv, SameProcess, SameOut, SameStream, Labelled
  <2>1. Unused(c, s)'
    BY DEF Unused
  <2>2. Relayed(c, s)'
    BY DEF Relayed, Over
  <2> QED BY <2>1, <2>2
<1> QED BY <1>1 DEF CallInv

LEMMA OutKept ==
  ASSUME NEW c \in Calls, UNCHANGED out
  PROVE  SameOut(c)
  BY DEF out, SameOut, SameStream

LEMMA ProcsKept ==
  ASSUME NEW c \in Calls, UNCHANGED procs
  PROVE  SameProcess(c)
  BY DEF procs, SameProcess

\* What comes after the body: a call that answers then is a detached one.
LEMMA AfterBodyAt ==
  ASSUME TypeOK, NEW c \in Calls, AfterBody(c)
  PROVE  \/ way[c].streams = "detach" /\ pc'[c] = "done" /\ answer'[c] = "ok"
         \/ Labelled(c) /\ pc'[c] = "relay" /\ answer'[c] = answer[c]
         \/ /\ way[c].streams \in {"terminal", "capture"}
            /\ pc'[c] = "wait" /\ answer'[c] = answer[c]
<1>1. way[c].streams \in {"terminal", "capture", "label", "detach"}
  BY WayType DEF Ways
<1> QED BY <1>1, AnsweredAt, GoneAt DEF AfterBody, Labelled

LEMMA RefuseInv ==
  ASSUME TypeOK, NEW c \in Calls, CallInv(c), way' = way, Refuse(c)
  PROVE  CallInv(c)'
<1>1. SameProcess(c) /\ SameOut(c) /\ pc[c] = "ready"
  BY OutKept, ProcsKept DEF Refuse
<1>2. pc'[c] = "done" /\ answer'[c] = "not started"
  BY AnsweredAt DEF Refuse
<1>3. Places(c)'
  BY <1>1, <1>2 DEF CallInv, Places, Labelled, SameProcess, SameOut
<1>4. Collected(c)' /\ Answers(c)'
  BY <1>2 DEF Collected, Answers
<1> QED BY <1>1, <1>3, <1>4, MovesInv

LEMMA PreviewInv ==
  ASSUME TypeOK, NEW c \in Calls, CallInv(c), way' = way, Preview(c)
  PROVE  CallInv(c)'
<1>1. SameProcess(c) /\ SameOut(c) /\ pc[c] = "ready" /\ way'[c].dry
  BY OutKept, ProcsKept DEF Preview
<1>2. pc'[c] = "done" /\ answer'[c] = "ok"
  BY AnsweredAt DEF Preview
<1>3. Places(c)'
  BY <1>1, <1>2 DEF CallInv, Places, Labelled, SameProcess, SameOut
<1>4. Collected(c)' /\ Answers(c)'
  BY <1>1, <1>2 DEF Collected, Answers
<1> QED BY <1>1, <1>3, <1>4, MovesInv

LEMMA StartInv ==
  ASSUME TypeOK, NEW c \in Calls, CallInv(c), way' = way, Start(c)
  PROVE  CallInv(c)'
<1>1. SameOut(c) /\ pc[c] = "ready" /\ ~way[c].dry /\ kept' = kept
  BY OutKept DEF Start
<1>2. child'[c] = "running"
  BY DEF TypeOK, Start
<1>3. \/ pc'[c] = "feed" /\ answer'[c] = answer[c]
      \/ way[c].streams = "detach" /\ pc'[c] = "done" /\ answer'[c] = "ok"
      \/ Labelled(c) /\ pc'[c] = "relay" /\ answer'[c] = answer[c]
      \/ way[c].streams \in {"terminal", "capture"} /\ pc'[c] = "wait" /\ answer'[c] = answer[c]
  BY GoneAt, AfterBodyAt DEF Start
<1>4. /\ child[c] = "none" /\ kept[c] = {} /\ text[c] = <<>> /\ answer[c] = "none"
      /\ \A s \in Outputs : /\ s \in relays[c] /\ pipe[c][s] = <<>> /\ line[c][s] = <<>>
                            /\ screen[c][s] = <<>> /\ wrote[c][s] = <<>>
  BY <1>1 DEF CallInv, Places, Unused
<1>5. Places(c)'
  BY <1>1, <1>2, <1>3, <1>4 DEF Places, Labelled, SameOut
<1>6. Collected(c)'
  BY <1>1, <1>3, <1>4 DEF Collected, SameOut, SameStream, Outputs
<1>7. Answers(c)'
  BY <1>3, <1>4 DEF Answers, Labelled
<1>8. ASSUME NEW s \in Outputs
      PROVE  Unused(c, s)' /\ Relayed(c, s)'
  <2>1. s \in relays'[c] /\ pipe'[c][s] = <<>> /\ line'[c][s] = <<>> /\ screen'[c][s] = <<>>
        /\ wrote'[c][s] = <<>>
    BY <1>1, <1>4 DEF SameOut, SameStream
  <2>2. <<>> = <<>> \o <<>> \o <<>> /\ 1 .. Len(<<>>) = {}
    OBVIOUS
  <2>3. Unused(c, s)'
    BY <1>2, <2>1 DEF Unused
  <2>4. Relayed(c, s)'
    BY <2>1, <2>2 DEF Relayed
  <2> QED BY <2>3, <2>4
<1> QED BY <1>5, <1>6, <1>7, <1>8 DEF CallInv

LEMMA FeedInv ==
  ASSUME TypeOK, NEW c \in Calls, CallInv(c), way' = way, Feed(c)
  PROVE  CallInv(c)'
<1>1. SameProcess(c) /\ SameOut(c) /\ SameAnswer(c)
  BY OutKept, ProcsKept DEF Feed, SameAnswer, call
<1> QED BY <1>1, SameCallInv

LEMMA FedInv ==
  ASSUME TypeOK, NEW c \in Calls, CallInv(c), way' = way, Fed(c)
  PROVE  CallInv(c)'
<1>1. SameProcess(c) /\ SameOut(c) /\ pc[c] = "feed"
  BY OutKept, ProcsKept DEF Fed
<1>2. \/ way[c].streams = "detach" /\ pc'[c] = "done" /\ answer'[c] = "ok"
      \/ Labelled(c) /\ pc'[c] = "relay" /\ answer'[c] = answer[c]
      \/ way[c].streams \in {"terminal", "capture"} /\ pc'[c] = "wait" /\ answer'[c] = answer[c]
  BY AfterBodyAt DEF Fed
<1>3. answer[c] = "none" /\ child[c] # "none"
  BY <1>1 DEF CallInv, Places
<1>4. Places(c)'
  BY <1>1, <1>2, <1>3 DEF CallInv, Places, Labelled, SameProcess, SameOut
<1>5. Collected(c)'
  BY <1>1, <1>2, <1>3 DEF CallInv, Collected, SameOut, SameStream, Outputs
<1>6. Answers(c)'
  BY <1>2, <1>3 DEF Answers, Labelled
<1> QED BY <1>1, <1>4, <1>5, <1>6, MovesInv

LEMMA BrokenPipeInv ==
  ASSUME TypeOK, NEW c \in Calls, CallInv(c), way' = way, BrokenPipe(c)
  PROVE  CallInv(c)'
<1>1. SameProcess(c) /\ SameOut(c) /\ pc[c] = "feed"
  BY OutKept, ProcsKept DEF BrokenPipe
<1>2. pc'[c] = "done" /\ answer'[c] = "not started"
  BY AnsweredAt DEF BrokenPipe
<1>3. Places(c)'
  BY <1>1, <1>2 DEF CallInv, Places, Labelled, SameProcess, SameOut
<1>4. Collected(c)' /\ Answers(c)'
  BY <1>2 DEF Collected, Answers
<1> QED BY <1>1, <1>3, <1>4, MovesInv

LEMMA JoinedInv ==
  ASSUME TypeOK, NEW c \in Calls, CallInv(c), way' = way, Joined(c)
  PROVE  CallInv(c)'
<1>1. SameProcess(c) /\ SameOut(c) /\ pc[c] = "relay" /\ relays[c] = {}
  BY OutKept, ProcsKept DEF Joined
<1>2. pc'[c] = "wait" /\ answer'[c] = answer[c]
  BY GoneAt DEF Joined
<1>3. answer[c] = "none" /\ Labelled(c)
  BY <1>1 DEF CallInv, Places
<1>4. Places(c)'
  BY <1>1, <1>2, <1>3 DEF CallInv, Places, Labelled, SameProcess, SameOut
<1>5. Collected(c)' /\ Answers(c)'
  BY <1>2, <1>3 DEF Collected, Answers, Labelled
<1> QED BY <1>1, <1>4, <1>5, MovesInv

\* A piece read, or the end seen, keeps what was written in its three places.
LEMMA ReadLineRelayed ==
  ASSUME TypeOK, NEW c \in Calls, NEW s \in Outputs, CallInv(c), way' = way, Labelled(c),
         pc[c] = "relay", s \in relays[c], ReadLine(c, s)
  PROVE  Relayed(c, s)'
<1> DEFINE l == line[c][s]
           p == pipe[c][s]
           a == screen[c][s]
<1>1. l \in Seq(Units) /\ p \in Seq(Units) /\ a \in Seq(Units)
  BY StreamTypes
<1>2. wrote[c][s] = a \o l \o p /\ \A i \in 1 .. Len(l) : l[i] # "nl"
  BY DEF CallInv, Relayed
<1>3. SameProcess(c) /\ wrote'[c][s] = wrote[c][s] /\ Labelled(c)'
  BY ReadsAt DEF Labelled
<1>4. CASE TakesPiece(c, s) /\ Head(p) = "nl"
  <2>1. s \in relays'[c] /\ pipe'[c][s] = Tail(p) /\ line'[c][s] = <<>>
        /\ screen'[c][s] = a \o Append(l, Head(p)) /\ p # <<>>
    BY <1>4 DEF TakesPiece
  <2>2. wrote'[c][s] = (a \o Append(l, Head(p))) \o <<>> \o Tail(p)
    <3> HIDE DEF a, l, p
    <3>1. p # <<>>
      BY <2>1
    <3>2. (a \o Append(l, Head(p))) \o <<>> \o Tail(p) = a \o l \o p
      BY <1>1, <3>1, EndRead
    <3> QED BY <1>2, <1>3, <3>2
  <2>3. 1 .. Len(<<>>) = {}
    OBVIOUS
  <2> HIDE DEF a, l, p
  <2> QED BY <1>3, <2>1, <2>2, <2>3 DEF Relayed
<1>5. CASE TakesPiece(c, s) /\ Head(p) # "nl"
  <2>1. s \in relays'[c] /\ pipe'[c][s] = Tail(p) /\ line'[c][s] = Append(l, Head(p))
        /\ screen'[c][s] = a /\ p # <<>>
    BY <1>5 DEF TakesPiece
  <2>2. wrote'[c][s] = a \o Append(l, Head(p)) \o Tail(p)
    <3> HIDE DEF a, l, p
    <3>1. p # <<>>
      BY <2>1
    <3>2. a \o Append(l, Head(p)) \o Tail(p) = a \o l \o p
      BY <1>1, <3>1, PieceRead
    <3> QED BY <1>2, <1>3, <3>2
  <2>3. \A i \in 1 .. Len(Append(l, Head(p))) : Append(l, Head(p))[i] # "nl"
    <3> HIDE DEF a, l, p
    <3> QED BY <1>1, <1>2, <1>5, <2>1
  <2> HIDE DEF a, l, p
  <2> QED BY <1>3, <2>1, <2>2, <2>3 DEF Relayed
<1>6. CASE SeesEnd(c, s)
  <2>1. Over(c, s)'
    <3>1. child[c] # "none" /\ child[c] \in {"none", "running", "0", "1"}
      BY DEF CallInv, Places, TypeOK
    <3> QED BY <1>3, <1>6, <3>1 DEF SeesEnd, Open, Alive, Over, SameProcess
  <2>2. p = <<>> /\ s \notin relays'[c]
        /\ screen'[c][s] = IF l = <<>> THEN a ELSE a \o Append(l, "nl")
    BY <1>6 DEF SeesEnd
  <2>3. screen'[c][s] \in {wrote[c][s], Append(wrote[c][s], "nl")}
    <3> HIDE DEF a, l, p
    <3>1. wrote[c][s] = a \o l
      BY <1>1, <1>2, <2>2
    <3>2. CASE l = <<>>
      BY <1>1, <2>2, <3>1, <3>2
    <3>3. CASE l # <<>>
      <4>1. "nl" \in Units
        BY DEF Units
      <4>2. a \o Append(l, "nl") = Append(a \o l, "nl")
        BY <1>1, <4>1, AppendToConcat
      <4> QED BY <2>2, <3>1, <3>3, <4>2
    <3> QED BY <3>2, <3>3
  <2> QED BY <1>3, <2>1, <2>2, <2>3 DEF Relayed
<1> QED BY <1>4, <1>5, <1>6, ReadsAt

LEMMA RelayInv ==
  ASSUME TypeOK, NEW c \in Calls, NEW s \in Outputs, CallInv(c), way' = way, Relay(c, s)
  PROVE  CallInv(c)'
<1>1. pc[c] = "relay" /\ s \in relays[c] /\ ReadLine(c, s) /\ Labelled(c) /\ child[c] # "none"
  BY DEF Relay, CallInv, Places
<1>2. SameProcess(c) /\ SameAnswer(c) /\ OneStream(c, s) /\ way'[c] = way[c]
  BY <1>1, ReadsAt
<1>3. answer[c] = "none"
  BY <1>1 DEF CallInv, Places
<1>4. Places(c)'
  BY <1>1, <1>2 DEF CallInv, Places, Labelled, SameProcess, SameAnswer, OneStream
<1>5. Collected(c)' /\ Answers(c)'
  BY <1>1, <1>2, <1>3 DEF Collected, Answers, Labelled, SameAnswer
<1>6. ASSUME NEW r \in Outputs
      PROVE  Unused(c, r)'
  BY <1>1, <1>2 DEF Unused, SameProcess, Labelled
<1>7. ASSUME NEW r \in Outputs
      PROVE  Relayed(c, r)'
  <2>1. CASE r = s
    BY <1>1, <2>1, ReadLineRelayed
  <2>2. CASE r # s
    <3>1. SameStream(c, r) /\ (r \in relays'[c] <=> r \in relays[c]) /\ Relayed(c, r)
      BY <1>2, <2>2 DEF OneStream, CallInv
    <3> QED BY <1>2, <3>1 DEF Relayed, Over, Labelled, SameProcess, SameStream
  <2> QED BY <2>1, <2>2
<1> QED BY <1>4, <1>5, <1>6, <1>7 DEF CallInv

LEMMA CollectInv ==
  ASSUME TypeOK, NEW c \in Calls, CallInv(c), way' = way, Collect(c)
  PROVE  CallInv(c)'
<1> DEFINE p == pipe[c]["out"]
           t == text[c]
<1>1. /\ pc[c] = "wait" /\ way[c].streams = "capture" /\ p # <<>>
      /\ UNCHANGED <<call, feed, procs, line, relays, screen, wrote>>
  BY DEF Collect
<1>2. SameProcess(c) /\ SameAnswer(c) /\ answer[c] = "none" /\ child[c] # "none" /\ ~Labelled(c)
  BY <1>1, ProcsKept DEF SameAnswer, call, CallInv, Places, Labelled
<1>3. text'[c] = Append(t, Head(p)) /\ pipe'[c]["out"] = Tail(p)
  BY StreamTypes DEF Collect, Outputs
<1>4. Places(c)'
  BY <1>1, <1>2 DEF CallInv, Places, Labelled, SameProcess, SameAnswer
<1>5. Collected(c)'
  <2>1. t \in Seq(Units) /\ p \in Seq(Units)
    BY StreamTypes DEF Outputs
  <2>2. wrote[c]["out"] = t \o p
    BY <1>1, <1>2 DEF CallInv, Collected
  <2> HIDE DEF p, t
  <2>3. wrote'[c]["out"] = text'[c] \o pipe'[c]["out"]
    BY <1>1, <1>3, <2>1, <2>2, PieceCollected
  <2> QED BY <1>2, <2>3 DEF Collected, SameAnswer
<1>6. Answers(c)'
  BY <1>2 DEF Answers, SameAnswer
<1>7. ASSUME NEW s \in Outputs
      PROVE  Unused(c, s)' /\ Relayed(c, s)'
  <2>1. Unused(c, s)'
    BY <1>1, <1>2 DEF CallInv, Unused, Labelled, SameProcess
  <2>2. Relayed(c, s)'
    BY <1>2 DEF Relayed, Labelled
  <2> QED BY <2>1, <2>2
<1> QED BY <1>4, <1>5, <1>6, <1>7 DEF CallInv

LEMMA ReapInv ==
  ASSUME TypeOK, NEW c \in Calls, CallInv(c), way' = way, Reap(c)
  PROVE  CallInv(c)'
<1>1. /\ pc[c] = "wait" /\ child[c] \in {"0", "1"}
      /\ UNCHANGED <<feed, procs, pipe, line, relays, screen, wrote>>
  BY DEF Reap
<1>2. /\ SameProcess(c) /\ answer[c] = "none" /\ way[c].streams # "detach"
      /\ Labelled(c) => relays[c] = {}
  BY <1>1, ProcsKept DEF CallInv, Places
<1>3. pc'[c] = "done" /\ answer'[c] \in {"ok", "status", "not utf8"}
  BY AnsweredAt DEF Reap
<1>4. way[c].streams = "capture" => /\ pipe[c]["out"] = <<>> /\ ~Open(c, "out")
                                   /\ text'[c] = Stripped(text[c])
  BY StreamTypes DEF Reap
<1>5. Places(c)'
  BY <1>1, <1>2, <1>3 DEF CallInv, Places, SameProcess
<1>6. Collected(c)'
  <2> SUFFICES ASSUME way[c].streams = "capture"
               PROVE  Over(c, "out")' /\ text'[c] = Stripped(wrote[c]["out"])
    BY <1>1, <1>3 DEF Collected, Stripped
  <2>1. Over(c, "out")'
    BY <1>1, <1>2, <1>4 DEF Over, Open, SameProcess
  <2>2. wrote[c]["out"] = text[c] \o <<>> /\ text[c] \in Seq(Units)
    BY <1>2, <1>4, StreamTypes DEF CallInv, Collected
  <2>3. wrote[c]["out"] = text[c]
    BY <2>2
  <2> QED BY <1>4, <2>1, <2>3
<1>7. Answers(c)'
  BY <1>1, <1>2 DEF Answers, Labelled, SameProcess
<1>8. ASSUME NEW s \in Outputs
      PROVE  Unused(c, s)' /\ Relayed(c, s)'
  <2>1. Unused(c, s)'
    BY <1>1, <1>2 DEF CallInv, Unused, Labelled, SameProcess
  <2>2. Relayed(c, s)'
    BY <1>1, <1>2 DEF CallInv, Relayed, Over, Labelled, SameProcess
  <2> QED BY <2>1, <2>2
<1> QED BY <1>5, <1>6, <1>7, <1>8 DEF CallInv

\* A process that can write is not over, and what it writes goes to the end of its pipe.
LEMMA WriteInv ==
  ASSUME TypeOK, NEW c \in Calls, NEW s \in Outputs, CallInv(c), way' = way, SameAnswer(c), Write(c, s)
  PROVE  CallInv(c)'
<1>1. SameProcess(c) /\ Open(c, s) /\ s \in Piped(c)
  BY WritesAt
<1>2. child[c] # "none" /\ ~Over(c, s)
  BY <1>1 DEF CallInv, Places, Open, Alive, Over
<1>3. CASE SameOut(c)
  BY <1>1, <1>3, SameCallInv
<1>4. CASE OneStream(c, s) /\ \E u \in Units : PutsPiece(c, s, u)
  <2>1. PICK u \in Units : PutsPiece(c, s, u)
    BY <1>4
  <2>2. /\ wrote'[c][s] = Append(wrote[c][s], u) /\ pipe'[c][s] = Append(pipe[c][s], u)
        /\ text'[c] = text[c] /\ relays'[c] = relays[c]
    BY <1>4, <2>1 DEF PutsPiece, OneStream
  <2>3. Places(c)'
    BY <1>1, <1>2, <2>2 DEF CallInv, Places, Labelled, SameProcess, SameAnswer
  <2>4. Collected(c)'
    <3> SUFFICES ASSUME way[c].streams = "capture"
                 PROVE  Collected(c)'
      BY DEF Collected
    <3>1. s = "out"
      BY <1>1 DEF Piped
    <3>2. ~(answer[c] \in {"ok", "status"} /\ ~way[c].dry)
      BY <1>2, <3>1 DEF CallInv, Collected
    <3>3. CASE answer[c] = "none"
      <4>1. wrote[c]["out"] = text[c] \o pipe[c]["out"]
        BY <3>3 DEF CallInv, Collected
      <4>2. text[c] \in Seq(Units) /\ pipe[c]["out"] \in Seq(Units)
        BY StreamTypes DEF Outputs
      <4>3. text[c] \o Append(pipe[c]["out"], u) = Append(text[c] \o pipe[c]["out"], u)
        BY <4>2, AppendToConcat
      <4>4. wrote'[c]["out"] = text'[c] \o pipe'[c]["out"]
        BY <2>2, <3>1, <4>1, <4>3
      <4> QED BY <3>3, <4>4 DEF Collected, SameAnswer
    <3>4. CASE answer[c] # "none"
      BY <3>2, <3>4 DEF Collected, SameAnswer
    <3> QED BY <3>3, <3>4
  <2>5. Answers(c)'
    BY <1>1, <2>2 DEF CallInv, Answers, Labelled, SameProcess, SameAnswer
  <2>6. ASSUME NEW r \in Outputs
        PROVE  Unused(c, r)' /\ Relayed(c, r)'
    <3>1. screen'[c][r] = screen[c][r] /\ line'[c][r] = line[c][r]
      BY <1>4, <2>1 DEF OneStream, SameStream, PutsPiece
    <3>2. Unused(c, r)'
      BY <1>1, <1>2, <3>1 DEF CallInv, Unused, Labelled, SameProcess
    <3>3. CASE r # s
      <4>1. SameStream(c, r)
        BY <1>4, <3>3 DEF OneStream
      <4>2. Relayed(c, r)'
        BY <1>1, <2>2, <4>1 DEF CallInv, Relayed, Over, Labelled, SameProcess, SameStream
      <4> QED BY <3>2, <4>2
    <3>4. CASE r = s
      <4> SUFFICES ASSUME Labelled(c)
                   PROVE  Relayed(c, s)'
        BY <3>2, <3>4 DEF Relayed, Labelled
      <4>1. s \in relays[c] /\ wrote[c][s] = screen[c][s] \o line[c][s] \o pipe[c][s]
            /\ \A i \in 1 .. Len(line[c][s]) : line[c][s][i] # "nl"
        BY <1>2 DEF CallInv, Relayed
      <4>2. screen[c][s] \in Seq(Units) /\ line[c][s] \in Seq(Units) /\ pipe[c][s] \in Seq(Units)
        BY StreamTypes
      <4>3. Append(screen[c][s] \o line[c][s] \o pipe[c][s], u)
              = screen[c][s] \o line[c][s] \o Append(pipe[c][s], u)
        BY <4>2, AppendToParts
      <4>4. wrote'[c][s] = screen'[c][s] \o line'[c][s] \o pipe'[c][s]
        BY <2>2, <3>1, <3>4, <4>1, <4>3
      <4> QED BY <2>2, <3>1, <3>4, <4>1, <4>4 DEF Relayed
    <3> QED BY <3>3, <3>4
  <2> QED BY <2>3, <2>4, <2>5, <2>6 DEF CallInv
<1> QED BY <1>3, <1>4, WritesAt

\* The command ends, or what it left behind lets go: nothing gets open that was not.
LEMMA EndInv ==
  ASSUME TypeOK, NEW c \in Calls, CallInv(c), way' = way, SameAnswer(c), Exit(c) \/ Release(c)
  PROVE  CallInv(c)'
<1>1. SameOut(c)
  BY OutKept DEF Exit, Release
<1>2. \/ child[c] = "running" /\ child'[c] \in {"0", "1"}
      \/ child'[c] = child[c] /\ kept'[c] = {} /\ kept[c] # {}
  BY DEF TypeOK, Exit, Release, Alive
<1>3. child[c] # "none" /\ child'[c] # "none"
  BY <1>2 DEF CallInv, Places
<1>4. \A s \in Outputs : Over(c, s) => Over(c, s)'
  BY <1>2 DEF Over
<1>5. Places(c)'
  BY <1>1, <1>3 DEF CallInv, Places, Labelled, SameAnswer, SameOut
<1>6. Collected(c)'
  BY <1>1, <1>4 DEF CallInv, Collected, SameAnswer, SameOut, SameStream, Stripped, Outputs
<1>7. Answers(c)'
  BY <1>1, <1>2 DEF CallInv, Answers, Labelled, SameAnswer, SameOut
<1>8. ASSUME NEW s \in Outputs
      PROVE  Unused(c, s)' /\ Relayed(c, s)'
  <2>1. Unused(c, s)'
    BY <1>1, <1>3 DEF CallInv, Unused, Labelled, SameOut, SameStream
  <2>2. Relayed(c, s)'
    BY <1>1, <1>4 DEF CallInv, Relayed, Labelled, SameOut, SameStream
  <2> QED BY <2>1, <2>2
<1> QED BY <1>5, <1>6, <1>7, <1>8 DEF CallInv

LEMMA ProcessesInv ==
  ASSUME TypeOK, NEW c \in Calls, CallInv(c), way' = way, Processes(c)
  PROVE  CallInv(c)'
<1>1. SameAnswer(c)
  BY DEF Processes, SameAnswer, call
<1>2. CASE Read(c) \/ CloseStdin(c)
  <2>1. SameOut(c) /\ SameProcess(c)
    BY <1>2, OutKept, ProcsKept DEF Read, CloseStdin
  <2> QED BY <1>1, <2>1, SameCallInv
<1> QED BY <1>1, <1>2, WriteInv, EndInv DEF Processes

LEMMA Step == Inv /\ [Next]_vars => Inv'
<1> SUFFICES ASSUME Inv, [Next]_vars
             PROVE  Inv'
  OBVIOUS
<1>1. TypeOK /\ TypeOK'
  BY TypeStep DEF Inv
<1>2. CASE UNCHANGED vars
  <2>1. ASSUME NEW d \in Calls
        PROVE  CallInv(d)'
    <3>1. way' = way /\ SameProcess(d) /\ SameAnswer(d) /\ SameOut(d)
      BY <1>2, OutKept, ProcsKept DEF vars, fixed, call, SameAnswer
    <3> QED BY <3>1, SameCallInv DEF Inv
  <2> QED BY <1>1, <2>1 DEF Inv
<1>3. ASSUME NEW c \in Calls, Runner(c) \/ Sigpipe(c) \/ Processes(c)
      PROVE  Inv'
  <2>1. way' = way
    BY <1>3 DEF Runner, Sigpipe, Processes, fixed
  <2>2. CallInv(c)
    BY DEF Inv
  <2>3. CallInv(c)'
    <3>1. CASE Runner(c)
      BY <1>1, <2>1, <2>2, <3>1, RefuseInv, PreviewInv, StartInv, FeedInv, FedInv, BrokenPipeInv,
         RelayInv, JoinedInv, CollectInv, ReapInv DEF Runner
    <3>2. CASE Sigpipe(c)
      <4>1. SameProcess(c) /\ SameAnswer(c) /\ SameOut(c)
        BY <3>2, OutKept, ProcsKept DEF Sigpipe, SameAnswer, call
      <4> QED BY <2>1, <2>2, <4>1, SameCallInv
    <3>3. CASE Processes(c)
      BY <1>1, <2>1, <2>2, <3>3, ProcessesInv
    <3> QED BY <1>3, <3>1, <3>2, <3>3
  <2>4. ASSUME NEW d \in Calls, d # c
        PROVE  CallInv(d)'
    BY <1>1, <1>3, <2>4, OthersStay, SameCallInv DEF Inv
  <2> QED BY <1>1, <2>3, <2>4 DEF Inv
<1> QED BY <1>2, <1>3 DEF Next

-----------------------------------------------------------------------------
(* The theorems.                                                           *)

\* No step leaves the types; in particular no pipe ever holds more than it can,
\* whatever the processes on its two sides do.
THEOREM TypeCorrect == Spec => []TypeOK
<1>1. Init => TypeOK
  BY InitHolds DEF Inv
<1> QED BY <1>1, TypeStep, PTL DEF Spec

LEMMA Invariant == Spec => []Inv
  BY InitHolds, Step, PTL DEF Spec

\* A call that reports an end has seen it, of the command and of every stream it
\* was reading, and a capture is all that was printed.
THEOREM OverWhenReturnedAlways == Spec => []OverWhenReturned
<1>1. Inv => OverWhenReturned
  <2> SUFFICES ASSUME Inv, NEW c \in Calls, answer[c] \in {"ok", "status"}, ~way[c].dry,
                      way[c].streams # "detach"
               PROVE  /\ child[c] \in {"0", "1"} /\ kept[c] \cap Piped(c) = {}
                      /\ answer[c] = "ok" => Captured(c)
    BY DEF OverWhenReturned
  <2>1. child[c] \in {"0", "1"} /\ (Labelled(c) => relays[c] = {})
    BY DEF Inv, CallInv, Answers
  <2>2. ASSUME NEW s \in Piped(c)
        PROVE  s \notin kept[c]
    <3>1. \/ Labelled(c) /\ s \in Outputs
          \/ way[c].streams = "capture" /\ s = "out"
      BY DEF Piped, Labelled
    <3>2. Over(c, s)
      BY <2>1, <3>1 DEF Inv, CallInv, Relayed, Collected
    <3> QED BY <3>2 DEF Over
  <2>3. answer[c] = "ok" => Captured(c)
    BY DEF Inv, CallInv, Collected, Captured
  <2> QED BY <2>1, <2>2, <2>3
<1> QED BY <1>1, Invariant, PTL

-----------------------------------------------------------------------------
(* That spawn implements Streams.                                          *)

Sent     == [c \in Calls |-> [s \in Outputs |-> IF Labelled(c) THEN wrote[c][s] ELSE <<>>]]
Returned == {c \in Calls : Labelled(c) /\ answer[c] \in {"ok", "status"}}

LEMMA Mapped == Promise!svars = <<Sent, screen, Returned>>
  BY DEF Promise!svars, Sent, Returned

\* A step that shows nothing, writes nothing behind a label and answers no labelled call.
LEMMA Stutters ==
  ASSUME way' = way, screen' = screen,
         \A c \in Calls, s \in Outputs : Labelled(c) => wrote'[c][s] = wrote[c][s],
         \A c \in Calls : Labelled(c) =>
           (answer'[c] \in {"ok", "status"} <=> answer[c] \in {"ok", "status"})
  PROVE  Sent' = Sent /\ Returned' = Returned
<1>1. \A c \in Calls : Labelled(c)' <=> Labelled(c)
  BY DEF Labelled
<1>2. Sent' = Sent
  BY <1>1 DEF Sent
<1>3. Returned' = Returned
  BY <1>1 DEF Returned
<1> QED BY <1>2, <1>3

LEMMA PromiseInit == Init => Promise!SInit
<1> SUFFICES ASSUME Init
             PROVE  Promise!SInit
  OBVIOUS
<1>1. Sent = [c \in Calls |-> [s \in Outputs |-> <<>>]] /\ Returned = {}
  BY DEF Init, Sent, Returned
<1>2. screen = [c \in Calls |-> [s \in Outputs |-> <<>>]]
  BY DEF Init
<1> QED BY <1>1, <1>2 DEF Promise!SInit, Sent, Returned

\* A call that answers has shown every line.
LEMMA ReturnStep ==
  ASSUME Inv, NEW c \in Calls, Labelled(c), way' = way, screen' = screen, wrote' = wrote,
         answer[c] = "none", answer'[c] \in {"ok", "status"},
         child[c] = "none" \/ relays[c] = {},
         \A d \in Calls \ {c} : answer'[d] = answer[d]
  PROVE  Promise!Return(c)
<1>1. c \notin Returned /\ Returned' = Returned \cup {c}
  BY DEF Returned, Labelled
<1>2. Sent' = Sent
  BY DEF Sent, Labelled
<1>3. ASSUME NEW s \in Outputs
      PROVE  screen[c][s] \in {Sent[c][s], Append(Sent[c][s], "nl")}
  <2>1. Sent[c][s] = wrote[c][s]
    BY DEF Sent
  <2>2. CASE child[c] = "none"
    BY <2>1, <2>2 DEF Inv, CallInv, Unused
  <2>3. CASE relays[c] = {}
    BY <2>1, <2>3 DEF Inv, CallInv, Relayed
  <2> QED BY <2>2, <2>3
<1> QED BY <1>1, <1>2, <1>3 DEF Promise!Return, Promise!Whole, Sent, Returned

\* A process that can still write belongs to a call that has not returned.
LEMMA NotReturned ==
  ASSUME Inv, NEW c \in Calls, NEW s \in Outputs, Open(c, s)
  PROVE  c \notin Returned
<1> SUFFICES ASSUME Labelled(c), answer[c] \in {"ok", "status"}
             PROVE  FALSE
  BY DEF Returned
<1>1. child[c] # "none" /\ ~way[c].dry /\ ~Over(c, s)
  BY DEF Inv, CallInv, Places, Open, Alive, Over
<1>2. relays[c] = {}
  BY <1>1 DEF Inv, CallInv, Answers, Labelled
<1> QED BY <1>1, <1>2 DEF Inv, CallInv, Relayed

LEMMA WriteStep ==
  ASSUME Inv, NEW c \in Calls, NEW s \in Outputs, Write(c, s), way' = way, answer' = answer
  PROVE  [Promise!SNext]_Promise!svars
<1>1. TypeOK /\ Open(c, s)
  BY WritesAt DEF Inv
<1>2. CASE Labelled(c) /\ Put(c, s)
  <2>1. PICK u \in Units : /\ wrote' = [wrote EXCEPT ![c][s] = Append(@, u)]
                           /\ screen' = screen
    BY <1>2 DEF Put
  <2>2. \A d \in Calls : Labelled(d)' <=> Labelled(d)
    BY DEF Labelled
  <2>3. Sent' = [Sent EXCEPT ![c][s] = Append(@, u)]
    BY <1>1, <1>2, <2>1, <2>2, StreamTypes DEF Sent
  <2>4. Returned' = Returned
    BY <2>2 DEF Returned
  <2>5. u \in Promise!Units
    BY DEF Units, Promise!Units
  <2>6. Promise!Send(c, s)
    BY <2>1, <2>3, <2>4, <2>5 DEF Promise!Send, Sent, Returned
  <2> QED BY <1>1, <2>6, NotReturned DEF Promise!SNext, Returned
<1>3. CASE ~(Labelled(c) /\ Put(c, s))
  <2>1. screen' = screen
    BY DEF Write, Put, out
  <2>2. \A d \in Calls, r \in Outputs : Labelled(d) => wrote'[d][r] = wrote[d][r]
    <3>1. CASE UNCHANGED out
      BY <3>1 DEF out
    <3>2. CASE Put(c, s) /\ ~Labelled(c)
      <4>1. PICK u \in Units : wrote' = [wrote EXCEPT ![c][s] = Append(@, u)]
        BY <3>2 DEF Put
      <4> QED BY <1>1, <3>2, <4>1, StreamTypes
    <3> QED BY <1>3, <3>1, <3>2 DEF Write
  <2> QED BY <2>1, <2>2, Stutters, Mapped DEF Sent, Returned, Promise!svars
<1> QED BY <1>2, <1>3

\* A relay's steps: the next line, the last line, or nothing anyone can see.
LEMMA RelayStep ==
  ASSUME Inv, NEW c \in Calls, NEW s \in Outputs, Relay(c, s), way' = way
  PROVE  [Promise!SNext]_Promise!svars
<1> DEFINE a == screen[c][s]
           l == line[c][s]
           p == pipe[c][s]
<1>1. /\ TypeOK /\ pc[c] = "relay" /\ s \in relays[c] /\ ReadLine(c, s) /\ Labelled(c)
      /\ answer[c] = "none"
  BY DEF Inv, CallInv, Places, Relay
<1>2. a \in Seq(Units) /\ l \in Seq(Units) /\ p \in Seq(Units)
  BY <1>1, StreamTypes
<1>3. wrote[c][s] = a \o l \o p /\ \A i \in 1 .. Len(l) : l[i] # "nl"
  BY <1>1 DEF Inv, CallInv, Relayed
<1>4. answer' = answer /\ wrote' = wrote
  BY <1>1 DEF ReadLine, call
<1>5. Sent' = Sent /\ Returned' = Returned /\ Sent[c][s] = wrote[c][s] /\ c \notin Returned
  BY <1>1, <1>4 DEF Sent, Returned, Labelled
<1>6. CASE screen' = screen
  BY <1>5, <1>6, Mapped DEF Sent, Returned, Promise!svars
<1>7. CASE p # <<>> /\ screen' # screen
  <2> DEFINE n == Len(a) + Len(l) + 1
  <2>1. Head(p) = "nl" /\ screen' = [screen EXCEPT ![c][s] = a \o Append(l, Head(p))]
    BY <1>1, <1>7 DEF ReadLine
  <2> HIDE DEF a, l, p
  <2>2. Len(wrote[c][s]) = Len(a) + Len(l) + Len(p) /\ Len(a) \in Nat /\ Len(l) \in Nat /\ Len(p) \in Nat
    BY <1>2, <1>3, Parts
  <2>3. Len(p) > 0
    BY <1>2, <1>7
  <2>4. n \in Len(a) + 1 .. Len(wrote[c][s])
    BY <2>2, <2>3
  <2>5. wrote[c][s][n] = "nl"
    BY <1>2, <1>3, <1>7, <2>1, Parts
  <2>6. \A m \in Len(a) + 1 .. n - 1 : wrote[c][s][m] # "nl"
    <3> SUFFICES ASSUME NEW m \in Len(a) + 1 .. n - 1
                 PROVE  wrote[c][s][m] # "nl"
      OBVIOUS
    <3>1. m \in Len(a) + 1 .. Len(a) + Len(l) /\ m - Len(a) \in 1 .. Len(l)
      BY <2>2
    <3>2. wrote[c][s][m] = l[m - Len(a)]
      BY <1>2, <1>3, <3>1, Parts
    <3> QED BY <1>3, <3>1, <3>2
  <2>7. SubSeq(wrote[c][s], 1, n) = a \o Append(l, Head(p))
    <3>1. p # <<>>
      BY <1>7
    <3>2. SubSeq(a \o l \o p, 1, n) = a \o Append(l, Head(p))
      BY <1>2, <3>1, UpToEnd
    <3> QED BY <1>3, <3>2
  <2>8. screen' = [screen EXCEPT ![c][s] = SubSeq(Sent[c][s], 1, n)]
    BY <1>5, <2>1, <2>7
  <2>9. Promise!Line(c, s)
    <3> HIDE DEF n
    <3>1. /\ n \in Len(screen[c][s]) + 1 .. Len(Sent[c][s]) /\ Sent[c][s][n] = "nl"
          /\ \A m \in Len(screen[c][s]) + 1 .. n - 1 : Sent[c][s][m] # "nl"
      BY <1>5, <2>4, <2>5, <2>6 DEF a
    <3> QED BY <1>5, <2>8, <3>1 DEF Promise!Line, Sent, Returned
  <2> QED BY <1>5, <2>9 DEF Promise!SNext, Returned
<1>8. CASE p = <<>> /\ screen' # screen
  <2>1. l # <<>> /\ screen' = [screen EXCEPT ![c][s] = a \o Append(l, "nl")]
    BY <1>1, <1>8 DEF ReadLine
  <2> HIDE DEF a, l, p
  <2>2. Len(wrote[c][s]) = Len(a) + Len(l) /\ Len(a) \in Nat /\ Len(l) \in Nat /\ Len(l) > 0
    BY <1>2, <1>3, <1>8, <2>1, Parts
  <2>3. \A m \in Len(a) + 1 .. Len(wrote[c][s]) : wrote[c][s][m] # "nl"
    <3> SUFFICES ASSUME NEW m \in Len(a) + 1 .. Len(wrote[c][s])
                 PROVE  wrote[c][s][m] # "nl"
      OBVIOUS
    <3>1. m \in Len(a) + 1 .. Len(a) + Len(l) /\ m - Len(a) \in 1 .. Len(l)
      BY <2>2
    <3>2. wrote[c][s][m] = l[m - Len(a)]
      BY <1>2, <1>3, <3>1, Parts
    <3> QED BY <1>3, <3>1, <3>2
  <2>4. a \o Append(l, "nl") = Append(wrote[c][s], "nl")
    <3>1. wrote[c][s] = a \o l
      BY <1>2, <1>3, <1>8
    <3>2. "nl" \in Units
      BY DEF Units
    <3> QED BY <1>2, <3>1, <3>2, AppendToConcat
  <2>5. screen' = [screen EXCEPT ![c][s] = Append(Sent[c][s], "nl")]
    BY <1>5, <2>1, <2>4
  <2>6. Promise!LastLine(c, s)
    <3>1. /\ Len(screen[c][s]) < Len(Sent[c][s])
          /\ \A m \in Len(screen[c][s]) + 1 .. Len(Sent[c][s]) : Sent[c][s][m] # "nl"
      BY <1>5, <2>2, <2>3 DEF a
    <3> QED BY <1>5, <2>5, <3>1 DEF Promise!LastLine, Sent, Returned
  <2> QED BY <1>5, <2>6 DEF Promise!SNext, Returned
<1> QED BY <1>6, <1>7, <1>8

LEMMA RunnerStep ==
  ASSUME Inv, NEW c \in Calls, Runner(c)
  PROVE  [Promise!SNext]_Promise!svars
<1>1. TypeOK /\ way' = way /\ CallInv(c)
  BY DEF Inv, Runner, fixed
<1>2. \A d \in Calls \ {c} : answer'[d] = answer[d]
  BY <1>1, OthersStay DEF SameAnswer
<1>3. CASE \E s \in Outputs : Relay(c, s)
  BY <1>1, <1>3, RelayStep
<1>4. ASSUME ~\E s \in Outputs : Relay(c, s)
      PROVE  screen' = screen /\ wrote' = wrote
  BY <1>4 DEF Runner, Refuse, Preview, Start, Feed, Fed, BrokenPipe, Joined, Collect, Reap, out
<1>5. CASE Labelled(c) /\ (Preview(c) \/ Reap(c))
  <2>1. answer[c] = "none" /\ answer'[c] \in {"ok", "status"}
    BY <1>1, <1>5, AnsweredAt DEF CallInv, Places, Preview, Reap, Labelled
  <2>2. child[c] = "none" \/ relays[c] = {}
    BY <1>1, <1>5 DEF CallInv, Places, Preview, Reap
  <2>3. screen' = screen /\ wrote' = wrote
    BY <1>5 DEF Preview, Reap, out
  <2>4. Promise!Return(c)
    BY <1>1, <1>2, <1>5, <2>1, <2>2, <2>3, ReturnStep
  <2> QED BY <2>4 DEF Promise!SNext
<1>6. CASE ~(\E s \in Outputs : Relay(c, s)) /\ ~(Labelled(c) /\ (Preview(c) \/ Reap(c)))
  <2>1. Labelled(c) => (answer'[c] \in {"ok", "status"} <=> answer[c] \in {"ok", "status"})
    <3>1. CASE Refuse(c) \/ BrokenPipe(c)
      <4>1. answer'[c] = "not started" /\ answer[c] = "none"
        BY <1>1, <3>1, AnsweredAt DEF Refuse, BrokenPipe, CallInv, Places
      <4> QED BY <4>1
    <3>2. CASE Start(c) \/ Fed(c)
      <4>1. Labelled(c) => answer'[c] = answer[c]
        BY <1>1, <3>2, AfterBodyAt, GoneAt DEF Start, Fed, Labelled
      <4> QED BY <4>1
    <3>3. CASE Feed(c) \/ Joined(c) \/ Collect(c)
      <4>1. answer' = answer
        BY <3>3 DEF Feed, Joined, GoTo, Collect, call
      <4> QED BY <4>1
    <3> QED BY <1>6, <3>1, <3>2, <3>3 DEF Runner
  <2>2. Sent' = Sent /\ Returned' = Returned
    BY <1>1, <1>2, <1>4, <1>6, <2>1, Stutters
  <2> QED BY <1>4, <1>6, <2>2, Mapped DEF Sent, Returned, Promise!svars
<1> QED BY <1>3, <1>5, <1>6

LEMMA PromiseStep == Inv /\ [Next]_vars => [Promise!SNext]_Promise!svars
<1> SUFFICES ASSUME Inv, [Next]_vars
             PROVE  [Promise!SNext]_Promise!svars
  OBVIOUS
<1>1. ASSUME way' = way, screen' = screen, wrote' = wrote, answer' = answer
      PROVE  [Promise!SNext]_Promise!svars
  <2>1. Sent' = Sent /\ Returned' = Returned
    BY <1>1, Stutters
  <2> QED BY <1>1, <2>1, Mapped DEF Sent, Returned, Promise!svars
<1>2. CASE UNCHANGED vars
  BY <1>1, <1>2 DEF vars, fixed, call, out
<1>3. ASSUME NEW c \in Calls, Sigpipe(c)
      PROVE  [Promise!SNext]_Promise!svars
  BY <1>1, <1>3 DEF Sigpipe, fixed, call, out
<1>4. ASSUME NEW c \in Calls, Processes(c)
      PROVE  [Promise!SNext]_Promise!svars
  <2>1. way' = way /\ answer' = answer
    BY <1>4 DEF Processes, fixed, call
  <2>2. CASE \E s \in Outputs : Write(c, s)
    BY <2>1, <2>2, WriteStep
  <2>3. CASE Read(c) \/ CloseStdin(c) \/ Exit(c) \/ Release(c)
    BY <1>1, <2>1, <2>3 DEF Read, CloseStdin, Exit, Release, out
  <2> QED BY <1>4, <2>2, <2>3 DEF Processes
<1> QED BY <1>2, <1>3, <1>4, RunnerStep DEF Next

\* What a branch's commands print arrives whole, line by line and in order, and no
\* call returns before its last line: spawn implements Streams.
THEOREM Implements == Spec => KeepsPromise
<1>1. Init => Promise!SInit
  BY PromiseInit
<1>2. Inv /\ [Next]_vars => [Promise!SNext]_Promise!svars
  BY PromiseStep
<1> QED BY <1>1, <1>2, Invariant, PTL DEF KeepsPromise, Promise!SSpec, Spec

-----------------------------------------------------------------------------
(* Why a call returns.  Every step of anything takes one away from what a  *)
(* call has left to do, and while there is something left some step can be *)
(* taken, unless the pipes of a call are full at both ends.  That the step *)
(* which can be taken is taken is the fairness of FairSpec.                *)

\* What the command holds and what it waits for.
Waiting(c) ==
  /\ Written(c) <= MaxWritten
  /\ kept[c] # {} => child[c] \in {"0", "1"}
  /\ child[c] = "none" => blocked[c] = "no"
  /\ Alive(c) /\ blocked[c] # "no" => blocked[c] \in Piped(c) /\ Written(c) < MaxWritten

WaitInv == Inv /\ \A c \in Calls : Waiting(c)

Some(b) == IF b THEN 1 ELSE 0

\* The steps a call has left, at most: those of its body, of its output and of its ends.
BodyLeft(c) == 2 * left[c] + input[c] + Some(reading[c])
OutputLeft(c) ==
  3 * (MaxWritten - Written(c)) + Len(pipe[c]["out"]) + Len(pipe[c]["err"]) + Some(blocked[c] = "no")
RelaysLeft(c) == Some("out" \in relays[c]) + Some("err" \in relays[c])
EndsLeft(c) ==
  (CASE pc[c] = "ready" -> 4 [] pc[c] = "feed" -> 3 [] pc[c] = "relay" -> 2 [] pc[c] = "wait" -> 1 [] OTHER -> 0)
  + (CASE child[c] = "none" -> 3 [] child[c] = "running" -> 2 [] OTHER -> 0)
  + Some(kept[c] # {})
StepsLeft(c) == BodyLeft(c) + OutputLeft(c) + RelaysLeft(c) + EndsLeft(c)

\* A step uses one up, of one call, or it is the signal that ends the runner.
UsesOneUp ==
  \/ runner = "alive" /\ runner' = "killed" /\ UNCHANGED <<fixed, call, feed, procs, out>>
  \/ \E c \in Calls : /\ StepsLeft(c)' < StepsLeft(c)
                      /\ \A d \in Calls \ {c} : StepsLeft(d)' = StepsLeft(d)

LEMMA SumType == \A a, b \in Nat : a + b \in Nat
  OBVIOUS

LEMMA OutputBound ==
  ASSUME NEW m \in Nat, NEW w \in Nat, NEW k \in Nat, NEW o \in Nat, NEW e \in Nat, NEW b \in 0 .. 1,
         w <= m, o <= k, e <= k
  PROVE  3 * (m - w) + o + e + b \in Nat /\ 3 * (m - w) + o + e + b <= 3 * m + 2 * k + 1
  OBVIOUS

LEMMA WaitTypes ==
  ASSUME TypeOK, NEW c \in Calls
  PROVE  /\ left[c] \in Nat /\ left[c] <= MaxBody /\ input[c] \in Nat /\ input[c] <= Cap
         /\ Len(pipe[c]["out"]) \in Nat /\ Len(pipe[c]["err"]) \in Nat
         /\ Len(pipe[c]["out"]) <= Cap /\ Len(pipe[c]["err"]) <= Cap
         /\ Len(wrote[c]["out"]) \in Nat /\ Len(wrote[c]["err"]) \in Nat
         /\ Written(c) \in Nat /\ MaxWritten \in Nat /\ Cap \in Nat /\ MaxBody \in Nat
         /\ child[c] \in {"none", "running", "0", "1"} /\ blocked[c] \in Outputs \cup {"no"}
         /\ pc[c] \in {"ready", "feed", "relay", "wait", "done"}
         /\ relays[c] \subseteq Outputs /\ kept[c] \subseteq Outputs \cup {"in"}
<1>1. /\ pipe[c]["out"] \in Seq(Units) /\ pipe[c]["err"] \in Seq(Units)
      /\ wrote[c]["out"] \in Seq(Units) /\ wrote[c]["err"] \in Seq(Units)
  BY StreamTypes DEF Outputs
<1>2. Len(pipe[c]["out"]) <= Cap /\ Len(pipe[c]["err"]) <= Cap
  BY StreamTypes DEF Outputs
<1>3. left[c] \in 0 .. MaxBody /\ input[c] \in 0 .. Cap
  BY DEF TypeOK
<1>4. /\ child[c] \in {"none", "running", "0", "1"} /\ blocked[c] \in Outputs \cup {"no"}
      /\ pc[c] \in {"ready", "feed", "relay", "wait", "done"}
      /\ relays[c] \subseteq Outputs /\ kept[c] \subseteq Outputs \cup {"in"}
  BY DEF TypeOK
<1>5. MaxWritten \in Nat /\ Cap \in Nat /\ MaxBody \in Nat
  BY ExecAssumption
<1>6. left[c] \in Nat /\ left[c] <= MaxBody /\ input[c] \in Nat /\ input[c] <= Cap
  BY <1>3, <1>5
<1>7. /\ Len(pipe[c]["out"]) \in Nat /\ Len(pipe[c]["err"]) \in Nat
      /\ Len(wrote[c]["out"]) \in Nat /\ Len(wrote[c]["err"]) \in Nat
  BY <1>1
<1>8. Written(c) \in Nat
  BY <1>7, SumType DEF Written
<1> QED BY <1>2, <1>4, <1>5, <1>6, <1>7, <1>8

LEMMA SomeType == \A b : Some(b) \in 0 .. 1
  BY DEF Some

LEMMA LeftTypes ==
  ASSUME TypeOK, NEW c \in Calls, Written(c) <= MaxWritten
  PROVE  /\ BodyLeft(c) \in Nat /\ BodyLeft(c) <= 2 * MaxBody + Cap + 1
         /\ OutputLeft(c) \in Nat /\ OutputLeft(c) <= 3 * MaxWritten + 2 * Cap + 1
         /\ RelaysLeft(c) \in 0 .. 2 /\ EndsLeft(c) \in 0 .. 8
<1>1. /\ Some(reading[c]) \in 0 .. 1 /\ Some(blocked[c] = "no") \in 0 .. 1 /\ Some(kept[c] # {}) \in 0 .. 1
      /\ Some("out" \in relays[c]) \in 0 .. 1 /\ Some("err" \in relays[c]) \in 0 .. 1
  BY SomeType
<1>2. BodyLeft(c) \in Nat /\ BodyLeft(c) <= 2 * MaxBody + Cap + 1
  <2>1. /\ left[c] \in Nat /\ left[c] <= MaxBody /\ input[c] \in Nat /\ input[c] <= Cap
        /\ MaxBody \in Nat /\ Cap \in Nat
    BY WaitTypes
  <2> QED BY <1>1, <2>1 DEF BodyLeft
<1>3. OutputLeft(c) \in Nat /\ OutputLeft(c) <= 3 * MaxWritten + 2 * Cap + 1
  <2>1. /\ Len(pipe[c]["out"]) \in Nat /\ Len(pipe[c]["err"]) \in Nat
        /\ Len(pipe[c]["out"]) <= Cap /\ Len(pipe[c]["err"]) <= Cap
        /\ Written(c) \in Nat /\ MaxWritten \in Nat /\ Cap \in Nat
    BY WaitTypes
  <2> QED BY <1>1, <2>1, OutputBound DEF OutputLeft
<1>4. RelaysLeft(c) \in 0 .. 2
  BY <1>1 DEF RelaysLeft
<1>5. EndsLeft(c) \in 0 .. 8
  BY <1>1 DEF EndsLeft
<1> QED BY <1>2, <1>3, <1>4, <1>5

\* What an action of one call leaves of the others.
LEMMA OthersWait ==
  ASSUME TypeOK, NEW c \in Calls, Runner(c) \/ Sigpipe(c) \/ Processes(c), NEW d \in Calls, d # c
  PROVE  /\ left'[d] = left[d] /\ input'[d] = input[d] /\ reading'[d] = reading[d]
         /\ blocked'[d] = blocked[d]
<1>1. CASE Runner(c)
  BY <1>1 DEF TypeOK, Runner, Refuse, Preview, Start, Feed, Fed, BrokenPipe, Relay, ReadLine,
              Joined, Collect, Reap, feed, procs
<1>2. CASE Sigpipe(c) \/ Processes(c)
  BY <1>2 DEF TypeOK, Sigpipe, Processes, Write, Read, CloseStdin, Exit, Release, feed, procs
<1> QED BY <1>1, <1>2

LEMMA OthersLeft ==
  ASSUME TypeOK, NEW c \in Calls, Runner(c) \/ Sigpipe(c) \/ Processes(c), NEW d \in Calls, d # c
  PROVE  StepsLeft(d)' = StepsLeft(d) /\ (Waiting(d) => Waiting(d)')
<1>1. /\ left'[d] = left[d] /\ input'[d] = input[d] /\ reading'[d] = reading[d]
      /\ blocked'[d] = blocked[d]
  BY OthersWait
<1>2. way' = way /\ SameProcess(d) /\ SameAnswer(d) /\ SameOut(d)
  BY OthersStay
<1>3. /\ pipe'[d]["out"] = pipe[d]["out"] /\ pipe'[d]["err"] = pipe[d]["err"]
      /\ wrote'[d]["out"] = wrote[d]["out"] /\ wrote'[d]["err"] = wrote[d]["err"]
      /\ relays'[d] = relays[d] /\ child'[d] = child[d] /\ kept'[d] = kept[d] /\ pc'[d] = pc[d]
  BY <1>2 DEF SameOut, SameStream, SameProcess, SameAnswer, Outputs
<1>4. BodyLeft(d)' = BodyLeft(d)
  BY <1>1 DEF BodyLeft
<1>5. Written(d)' = Written(d)
  BY <1>3 DEF Written
<1>6. OutputLeft(d)' = OutputLeft(d)
  BY <1>1, <1>3, <1>5 DEF OutputLeft
<1>7. RelaysLeft(d)' = RelaysLeft(d) /\ EndsLeft(d)' = EndsLeft(d)
  BY <1>3 DEF RelaysLeft, EndsLeft
<1>8. Waiting(d) => Waiting(d)'
  BY <1>1, <1>2, <1>3, <1>5 DEF Waiting, Alive, Piped
<1> QED BY <1>4, <1>6, <1>7, <1>8 DEF StepsLeft

\* Less of one part and as much of the others is less in all.
Fewer(c) ==
  \/ BodyLeft(c)' < BodyLeft(c) /\ OutputLeft(c)' = OutputLeft(c) /\ RelaysLeft(c)' = RelaysLeft(c) /\ EndsLeft(c)' = EndsLeft(c)
  \/ OutputLeft(c)' < OutputLeft(c) /\ BodyLeft(c)' = BodyLeft(c) /\ RelaysLeft(c)' = RelaysLeft(c) /\ EndsLeft(c)' = EndsLeft(c)
  \/ RelaysLeft(c)' < RelaysLeft(c) /\ BodyLeft(c)' = BodyLeft(c) /\ OutputLeft(c)' = OutputLeft(c) /\ EndsLeft(c)' = EndsLeft(c)
  \/ EndsLeft(c)' < EndsLeft(c) /\ BodyLeft(c)' = BodyLeft(c) /\ OutputLeft(c)' = OutputLeft(c) /\ RelaysLeft(c)' = RelaysLeft(c)

LEMMA SumFewer ==
  ASSUME NEW a \in Nat, NEW b \in Nat, NEW d \in Nat, NEW e \in Nat,
         NEW p \in Nat, NEW q \in Nat, NEW r \in Nat, NEW s \in Nat,
         \/ p < a /\ q = b /\ r = d /\ s = e
         \/ q < b /\ p = a /\ r = d /\ s = e
         \/ r < d /\ p = a /\ q = b /\ s = e
         \/ s < e /\ p = a /\ q = b /\ r = d
  PROVE  p + q + r + s < a + b + d + e
  OBVIOUS

LeftNat ==
  TypeOK => \A c \in Calls : Written(c) <= MaxWritten =>
    BodyLeft(c) \in Nat /\ OutputLeft(c) \in Nat /\ RelaysLeft(c) \in Nat /\ EndsLeft(c) \in Nat

LEMMA LeftNatHolds == LeftNat
  BY LeftTypes DEF LeftNat

LEMMA FewerLeft ==
  ASSUME TypeOK, TypeOK', NEW c \in Calls, Written(c) <= MaxWritten, (Written(c) <= MaxWritten)', Fewer(c)
  PROVE  StepsLeft(c)' < StepsLeft(c)
<1>1. BodyLeft(c) \in Nat /\ OutputLeft(c) \in Nat /\ RelaysLeft(c) \in Nat /\ EndsLeft(c) \in Nat
  BY LeftTypes
<1>2. BodyLeft(c)' \in Nat /\ OutputLeft(c)' \in Nat /\ RelaysLeft(c)' \in Nat /\ EndsLeft(c)' \in Nat
  <2>1. LeftNat'
    BY LeftNatHolds, PTL
  <2> QED BY <2>1 DEF LeftNat
<1> QED BY <1>1, <1>2, SumFewer DEF Fewer, StepsLeft

\* What a step leaves alone counts what it counted.
LEMMA SameBody ==
  ASSUME NEW c \in Calls, left'[c] = left[c], input'[c] = input[c], reading'[c] = reading[c]
  PROVE  BodyLeft(c)' = BodyLeft(c)
  BY DEF BodyLeft

LEMMA SameOutput ==
  ASSUME NEW c \in Calls, SameOut(c), blocked'[c] = blocked[c]
  PROVE  OutputLeft(c)' = OutputLeft(c) /\ RelaysLeft(c)' = RelaysLeft(c) /\ Written(c)' = Written(c)
<1>1. /\ pipe'[c]["out"] = pipe[c]["out"] /\ pipe'[c]["err"] = pipe[c]["err"]
      /\ wrote'[c]["out"] = wrote[c]["out"] /\ wrote'[c]["err"] = wrote[c]["err"] /\ relays'[c] = relays[c]
  BY DEF SameOut, SameStream, Outputs
<1>2. Written(c)' = Written(c)
  BY <1>1 DEF Written
<1> QED BY <1>1, <1>2 DEF OutputLeft, RelaysLeft

LEMMA SameEnds ==
  ASSUME NEW c \in Calls, SameProcess(c), pc'[c] = pc[c]
  PROVE  EndsLeft(c)' = EndsLeft(c)
  BY DEF EndsLeft, SameProcess

LEMMA LaterEnds ==
  ASSUME NEW c \in Calls,
         \/ pc[c] = "ready" /\ pc'[c] \in {"feed", "relay", "wait", "done"}
         \/ pc[c] = "feed" /\ pc'[c] \in {"relay", "wait", "done"}
         \/ pc[c] = "relay" /\ pc'[c] = "wait"
         \/ pc[c] = "wait" /\ pc'[c] = "done",
         kept'[c] = kept[c], child'[c] = child[c] \/ (child[c] = "none" /\ child'[c] = "running")
  PROVE  EndsLeft(c)' < EndsLeft(c)
<1>1. Some(kept[c] # {}) \in 0 .. 1 /\ Some(kept[c] # {})' = Some(kept[c] # {})
  BY SomeType DEF Some
<1> QED BY <1>1 DEF EndsLeft

\* One piece fewer in one pipe, or one written, or a writer that goes or stops waiting.
LEMMA OneLess == \A n \in Nat : n # 0 => n - 1 \in Nat /\ n - 1 < n
  OBVIOUS

LEMMA TailLen == \A t \in Seq(Units) : t # <<>> => Len(Tail(t)) \in Nat /\ Len(t) \in Nat /\ Len(Tail(t)) < Len(t)
  OBVIOUS

LEMMA OutputLess ==
  ASSUME NEW a \in Nat, NEW o \in Nat, NEW e \in Nat, NEW b \in Nat, NEW p \in Nat, NEW q \in Nat,
         (p < o /\ q = e) \/ (p = o /\ q < e)
  PROVE  3 * a + p + q + b < 3 * a + o + e + b
  OBVIOUS

\* What takes a piece out of a pipe.
LEMMA PipeTaken ==
  ASSUME TypeOK, NEW c \in Calls, NEW s \in Outputs, pipe[c][s] # <<>>,
         pipe'[c][s] = Tail(pipe[c][s]), \A r \in Outputs \ {s} : pipe'[c][r] = pipe[c][r],
         wrote'[c] = wrote[c], blocked'[c] = blocked[c], Written(c) <= MaxWritten
  PROVE  OutputLeft(c)' < OutputLeft(c) /\ Written(c)' = Written(c)
<1>1. pipe[c][s] \in Seq(Units)
  BY StreamTypes
<1>2. Len(pipe'[c][s]) < Len(pipe[c][s]) /\ Len(pipe'[c][s]) \in Nat
  BY <1>1, TailLen
<1>3. /\ Len(pipe[c]["out"]) \in Nat /\ Len(pipe[c]["err"]) \in Nat
      /\ Written(c) \in Nat /\ MaxWritten \in Nat
  BY WaitTypes
<1>4. \/ Len(pipe'[c]["out"]) < Len(pipe[c]["out"]) /\ Len(pipe'[c]["err"]) = Len(pipe[c]["err"])
      \/ Len(pipe'[c]["out"]) = Len(pipe[c]["out"]) /\ Len(pipe'[c]["err"]) < Len(pipe[c]["err"])
  BY <1>2 DEF Outputs
<1>5. Len(pipe'[c]["out"]) \in Nat /\ Len(pipe'[c]["err"]) \in Nat
  BY <1>2, <1>3 DEF Outputs
<1>6. Written(c)' = Written(c)
  BY DEF Written
<1>7. Some(blocked[c] = "no") \in Nat /\ Some(blocked[c] = "no")' = Some(blocked[c] = "no")
  BY DEF Some
<1>8. MaxWritten - Written(c) \in Nat
  BY <1>3
<1> QED BY <1>3, <1>4, <1>5, <1>6, <1>7, <1>8, OutputLess DEF OutputLeft

LEMMA RunnerFewer ==
  ASSUME Inv, TypeOK', NEW c \in Calls, Waiting(c), Runner(c)
  PROVE  Waiting(c)' /\ Fewer(c)
<1>1. TypeOK /\ way' = way /\ CallInv(c)
  BY DEF Inv, Runner, fixed
<1>2. /\ BodyLeft(c) \in Nat /\ OutputLeft(c) \in Nat /\ RelaysLeft(c) \in Nat /\ EndsLeft(c) \in Nat
  BY <1>1, LeftTypes DEF Waiting
<1>3. ASSUME Written(c)' = Written(c), blocked'[c] = blocked[c], kept'[c] = kept[c],
             child'[c] = child[c] \/ (child[c] = "none" /\ child'[c] = "running")
      PROVE  Waiting(c)'
  BY <1>1, <1>3 DEF Waiting, Alive, Piped, CallInv, Places
<1>4. CASE Refuse(c) \/ Preview(c) \/ Fed(c) \/ BrokenPipe(c) \/ Joined(c)
  <2>1. UNCHANGED <<feed, procs, out>>
    BY <1>4 DEF Refuse, Preview, Fed, BrokenPipe, Joined
  <2>2. SameOut(c) /\ SameProcess(c) /\ blocked'[c] = blocked[c]
    BY <2>1, OutKept, ProcsKept DEF procs
  <2>3. BodyLeft(c)' = BodyLeft(c)
    BY <2>1, SameBody DEF feed
  <2>4. OutputLeft(c)' = OutputLeft(c) /\ RelaysLeft(c)' = RelaysLeft(c) /\ Written(c)' = Written(c)
    BY <2>2, SameOutput
  <2>5. \/ pc[c] = "ready" /\ pc'[c] \in {"feed", "relay", "wait", "done"}
        \/ pc[c] = "feed" /\ pc'[c] \in {"relay", "wait", "done"}
        \/ pc[c] = "relay" /\ pc'[c] = "wait"
    BY <1>1, <1>4, AnsweredAt, GoneAt, AfterBodyAt DEF Refuse, Preview, Fed, BrokenPipe, Joined
  <2>6. EndsLeft(c)' < EndsLeft(c)
    BY <2>2, <2>5, LaterEnds DEF SameProcess
  <2> QED BY <1>2, <1>3, <2>2, <2>3, <2>4, <2>6 DEF Fewer, SameProcess
<1>5. CASE Start(c)
  <2>1. UNCHANGED <<feed, blocked, kept, out>> /\ pc[c] = "ready" /\ child'[c] = "running"
    BY <1>1, <1>5 DEF Start, TypeOK
  <2>2. SameOut(c) /\ child[c] = "none"
    BY <1>1, <2>1, OutKept DEF CallInv, Places
  <2>3. BodyLeft(c)' = BodyLeft(c)
    BY <2>1, SameBody DEF feed
  <2>4. OutputLeft(c)' = OutputLeft(c) /\ RelaysLeft(c)' = RelaysLeft(c) /\ Written(c)' = Written(c)
    BY <2>1, <2>2, SameOutput
  <2>5. pc'[c] \in {"feed", "relay", "wait", "done"}
    BY <1>1, <1>5, GoneAt, AfterBodyAt DEF Start
  <2>6. EndsLeft(c)' < EndsLeft(c)
    BY <2>1, <2>2, <2>5, LaterEnds
  <2> QED BY <1>2, <1>3, <2>1, <2>2, <2>3, <2>4, <2>6 DEF Fewer
<1>6. CASE Feed(c)
  <2>1. UNCHANGED <<call, reading, procs, out>> /\ left[c] > 0
    BY <1>6 DEF Feed
  <2>2. left'[c] = left[c] - 1 /\ input'[c] = input[c] + 1 /\ reading'[c] = reading[c]
    BY <1>1, <1>6 DEF Feed, TypeOK
  <2>3. BodyLeft(c)' < BodyLeft(c)
    <3>1. left[c] \in Nat /\ input[c] \in Nat
      BY <1>1, WaitTypes
    <3>2. Some(reading[c]) \in 0 .. 1
      BY SomeType
    <3> QED BY <2>2, <3>1, <3>2 DEF BodyLeft
  <2>4. SameOut(c) /\ SameProcess(c) /\ blocked'[c] = blocked[c] /\ pc'[c] = pc[c]
    BY <2>1, OutKept, ProcsKept DEF procs, call
  <2>5. OutputLeft(c)' = OutputLeft(c) /\ RelaysLeft(c)' = RelaysLeft(c) /\ Written(c)' = Written(c)
    BY <2>4, SameOutput
  <2>6. EndsLeft(c)' = EndsLeft(c)
    BY <2>4, SameEnds
  <2> QED BY <1>2, <1>3, <2>3, <2>4, <2>5, <2>6 DEF Fewer, SameProcess
<1>7. CASE \E s \in Outputs : Relay(c, s)
  <2>1. PICK s \in Outputs : ReadLine(c, s) /\ s \in relays[c]
    BY <1>7 DEF Relay
  <2>2. /\ SameProcess(c) /\ SameAnswer(c) /\ OneStream(c, s) /\ wrote'[c][s] = wrote[c][s]
        /\ TakesPiece(c, s) \/ SeesEnd(c, s)
    BY <1>1, <2>1, ReadsAt
  <2>3. UNCHANGED <<call, feed, procs, text, wrote>>
    BY <2>1 DEF ReadLine
  <2>4. BodyLeft(c)' = BodyLeft(c) /\ EndsLeft(c)' = EndsLeft(c)
    BY <2>2, <2>3, SameBody, SameEnds DEF feed, SameAnswer
  <2>5. /\ blocked'[c] = blocked[c] /\ wrote'[c] = wrote[c]
        /\ \A r \in Outputs \ {s} : pipe'[c][r] = pipe[c][r] /\ (r \in relays'[c] <=> r \in relays[c])
    BY <2>2, <2>3 DEF procs, OneStream, SameStream
  <2>6. CASE TakesPiece(c, s)
    <3>1. OutputLeft(c)' < OutputLeft(c) /\ Written(c)' = Written(c)
      BY <1>1, <2>5, <2>6, PipeTaken DEF TakesPiece, Waiting
    <3>2. ("out" \in relays'[c] <=> "out" \in relays[c]) /\ ("err" \in relays'[c] <=> "err" \in relays[c])
      BY <2>5, <2>6 DEF TakesPiece, Outputs
    <3>3. RelaysLeft(c)' = RelaysLeft(c)
      BY <3>2 DEF RelaysLeft, Some
    <3> QED BY <1>2, <1>3, <2>2, <2>4, <2>5, <3>1, <3>3 DEF Fewer, SameProcess
  <2>7. CASE SeesEnd(c, s)
    <3>1. pipe'[c]["out"] = pipe[c]["out"] /\ pipe'[c]["err"] = pipe[c]["err"]
      BY <2>5, <2>7 DEF SeesEnd, Outputs
    <3>2. Written(c)' = Written(c)
      BY <2>5 DEF Written
    <3>3. OutputLeft(c)' = OutputLeft(c)
      BY <2>5, <3>1, <3>2 DEF OutputLeft
    <3>4. \/ "out" \in relays[c] /\ "out" \notin relays'[c] /\ ("err" \in relays'[c] <=> "err" \in relays[c])
          \/ "err" \in relays[c] /\ "err" \notin relays'[c] /\ ("out" \in relays'[c] <=> "out" \in relays[c])
      BY <2>1, <2>5, <2>7 DEF SeesEnd, Outputs
    <3>5. RelaysLeft(c)' < RelaysLeft(c)
      BY <3>4 DEF RelaysLeft, Some
    <3> QED BY <1>2, <1>3, <2>2, <2>4, <2>5, <3>2, <3>3, <3>5 DEF Fewer, SameProcess
  <2> QED BY <2>2, <2>6, <2>7
<1>8. CASE Collect(c)
  <2>1. UNCHANGED <<call, feed, procs, line, relays, screen, wrote>> /\ pipe[c]["out"] # <<>>
    BY <1>8 DEF Collect
  <2>2. pipe'[c]["out"] = Tail(pipe[c]["out"]) /\ pipe'[c]["err"] = pipe[c]["err"]
    BY <1>1, <1>8, StreamTypes DEF Collect, Outputs
  <2>3. OutputLeft(c)' < OutputLeft(c) /\ Written(c)' = Written(c)
    BY <1>1, <2>1, <2>2, PipeTaken DEF procs, Outputs, Waiting
  <2>4. BodyLeft(c)' = BodyLeft(c) /\ EndsLeft(c)' = EndsLeft(c)
    BY <2>1, SameBody, SameEnds, ProcsKept DEF feed, call
  <2>5. RelaysLeft(c)' = RelaysLeft(c) /\ SameProcess(c) /\ blocked'[c] = blocked[c]
    BY <2>1, ProcsKept DEF RelaysLeft, procs
  <2> QED BY <1>2, <1>3, <2>3, <2>4, <2>5 DEF Fewer, SameProcess
<1>9. CASE Reap(c)
  <2>1. UNCHANGED <<feed, procs, pipe, line, relays, screen, wrote>> /\ pc[c] = "wait"
    BY <1>9 DEF Reap
  <2>2. pc'[c] = "done"
    BY <1>1, <1>9, AnsweredAt DEF Reap
  <2>3. BodyLeft(c)' = BodyLeft(c) /\ RelaysLeft(c)' = RelaysLeft(c) /\ SameProcess(c) /\ blocked'[c] = blocked[c]
    BY <2>1, SameBody, ProcsKept DEF feed, RelaysLeft, procs
  <2>4. Written(c)' = Written(c)
    BY <2>1 DEF Written
  <2>5. OutputLeft(c)' = OutputLeft(c)
    BY <2>1, <2>3, <2>4 DEF OutputLeft
  <2>6. EndsLeft(c)' < EndsLeft(c)
    BY <2>1, <2>2, <2>3, LaterEnds DEF SameProcess
  <2> QED BY <1>2, <1>3, <2>3, <2>4, <2>5, <2>6 DEF Fewer, SameProcess
<1> QED BY <1>4, <1>5, <1>6, <1>7, <1>8, <1>9 DEF Runner

\* A piece is written: one less to write is three less, and the piece and a writer that goes on two more.
LEMMA OneWritten ==
  ASSUME NEW m \in Nat, NEW w \in Nat, w < m, NEW o \in Nat, NEW e \in Nat, NEW b \in Nat,
         NEW p \in Nat, NEW q \in Nat, (p = o + 1 /\ q = e) \/ (p = o /\ q = e + 1)
  PROVE  3 * (m - (w + 1)) + p + q + 1 < 3 * (m - w) + o + e + b
  OBVIOUS

LEMMA AppendLen == \A t \in Seq(Units), u \in Units : Len(t) \in Nat /\ Len(Append(t, u)) = Len(t) + 1
  OBVIOUS

LEMMA Halted == \A a, o, e \in Nat : 3 * a + o + e + 0 < 3 * a + o + e + 1
  OBVIOUS

LEMMA LeftOver == \A m, w \in Nat : w < m => m - w \in Nat
  OBVIOUS

LEMMA WriteFewer ==
  ASSUME Inv, NEW c \in Calls, Waiting(c), NEW s \in Outputs, Write(c, s), UNCHANGED <<fixed, runner, call>>
  PROVE  Waiting(c)' /\ (Fewer(c) \/ UNCHANGED vars)
<1>1. TypeOK /\ way' = way /\ CallInv(c) /\ UNCHANGED <<feed, child, kept>> /\ Written(c) < MaxWritten
  BY DEF Inv, fixed, Write
<1>2. /\ Len(pipe[c]["out"]) \in Nat /\ Len(pipe[c]["err"]) \in Nat /\ Written(c) \in Nat /\ MaxWritten \in Nat
      /\ Len(wrote[c]["out"]) \in Nat /\ Len(wrote[c]["err"]) \in Nat
      /\ blocked[c] \in Outputs \cup {"no"} /\ blocked \in [Calls -> Outputs \cup {"no"}]
  BY <1>1, WaitTypes DEF TypeOK
<1>3. BodyLeft(c)' = BodyLeft(c) /\ EndsLeft(c)' = EndsLeft(c)
  BY <1>1, SameBody, SameEnds DEF feed, call, SameProcess
<1>4. child[c] # "none" /\ (kept[c] # {} => child[c] \in {"0", "1"})
  BY <1>1 DEF Write, Waiting, Alive, CallInv, Places
<1>5. CASE Len(pipe[c][s]) < Cap
  <2>1. PICK u \in Units : /\ pipe' = [pipe EXCEPT ![c][s] = Append(@, u)]
                           /\ wrote' = [wrote EXCEPT ![c][s] = Append(@, u)]
                           /\ UNCHANGED <<line, relays, screen, text>>
    BY <1>5 DEF Write, Put
  <2>2. blocked'[c] = "no"
    BY <1>2, <1>5 DEF Write
  <2>3. /\ pipe'[c][s] = Append(pipe[c][s], u) /\ wrote'[c][s] = Append(wrote[c][s], u)
        /\ \A r \in Outputs \ {s} : pipe'[c][r] = pipe[c][r] /\ wrote'[c][r] = wrote[c][r]
    BY <1>1, <2>1, StreamTypes
  <2>4. Len(pipe'[c][s]) = Len(pipe[c][s]) + 1 /\ Len(wrote'[c][s]) = Len(wrote[c][s]) + 1
    <3>1. pipe[c][s] \in Seq(Units) /\ wrote[c][s] \in Seq(Units)
      BY <1>1, StreamTypes
    <3> QED BY <2>3, <3>1, AppendLen
  <2>5. /\ \/ Len(pipe'[c]["out"]) = Len(pipe[c]["out"]) + 1 /\ Len(pipe'[c]["err"]) = Len(pipe[c]["err"])
           \/ Len(pipe'[c]["out"]) = Len(pipe[c]["out"]) /\ Len(pipe'[c]["err"]) = Len(pipe[c]["err"]) + 1
        /\ \/ Len(wrote'[c]["out"]) = Len(wrote[c]["out"]) + 1 /\ Len(wrote'[c]["err"]) = Len(wrote[c]["err"])
           \/ Len(wrote'[c]["out"]) = Len(wrote[c]["out"]) /\ Len(wrote'[c]["err"]) = Len(wrote[c]["err"]) + 1
    BY <2>3, <2>4 DEF Outputs
  <2>6. /\ Len(pipe'[c]["out"]) \in Nat /\ Len(pipe'[c]["err"]) \in Nat
        /\ Len(wrote'[c]["out"]) \in Nat /\ Len(wrote'[c]["err"]) \in Nat
    BY <1>2, <2>5
  <2>7. Written(c)' = Written(c) + 1
    <3> DEFINE a == Len(wrote[c]["out"])
               b == Len(wrote[c]["err"])
               p == Len(wrote'[c]["out"])
               q == Len(wrote'[c]["err"])
    <3>1. Written(c) = a + b /\ Written(c)' = p + q
      BY DEF Written
    <3>2. a \in Nat /\ b \in Nat /\ p \in Nat /\ q \in Nat
      BY <1>2, <2>6
    <3>3. (p = a + 1 /\ q = b) \/ (p = a /\ q = b + 1)
      BY <2>5
    <3> HIDE DEF a, b, p, q
    <3>4. p + q = a + b + 1
      BY <3>2, <3>3
    <3> QED BY <3>1, <3>4
  <2>8. OutputLeft(c)' < OutputLeft(c)
    <3>1. Some(blocked[c] = "no") \in Nat /\ Some(blocked[c] = "no")' = 1
      BY <2>2 DEF Some
    <3> DEFINE o == Len(pipe[c]["out"])
               e == Len(pipe[c]["err"])
               p == Len(pipe'[c]["out"])
               q == Len(pipe'[c]["err"])
               b == Some(blocked[c] = "no")
               w == Written(c)
    <3>2. OutputLeft(c) = 3 * (MaxWritten - w) + o + e + b
      BY DEF OutputLeft
    <3>3. OutputLeft(c)' = 3 * (MaxWritten - (w + 1)) + p + q + 1
      BY <2>7, <3>1 DEF OutputLeft
    <3>4. o \in Nat /\ e \in Nat /\ p \in Nat /\ q \in Nat /\ b \in Nat /\ w \in Nat /\ MaxWritten \in Nat /\ w < MaxWritten
      BY <1>1, <1>2, <2>6, <3>1
    <3>5. (p = o + 1 /\ q = e) \/ (p = o /\ q = e + 1)
      BY <2>5
    <3> HIDE DEF o, e, p, q, b, w
    <3>6. 3 * (MaxWritten - (w + 1)) + p + q + 1 < 3 * (MaxWritten - w) + o + e + b
      BY <3>4, <3>5, OneWritten
    <3> QED BY <3>2, <3>3, <3>6
  <2>9. RelaysLeft(c)' = RelaysLeft(c)
    BY <2>1 DEF RelaysLeft
  <2>10. Waiting(c)'
    <3>1. (Written(c) <= MaxWritten)'
      BY <1>1, <1>2, <2>7
    <3> QED BY <1>1, <1>4, <2>2, <3>1 DEF Waiting
  <2> QED BY <1>3, <2>8, <2>9, <2>10 DEF Fewer
<1>6. CASE ~(Len(pipe[c][s]) < Cap)
  <2>1. Alive(c) /\ blocked' = [blocked EXCEPT ![c] = s] /\ UNCHANGED out /\ s \in Piped(c) /\ blocked[c] \in {"no", s}
    BY <1>6 DEF Write
  <2>2. SameOut(c) /\ Written(c)' = Written(c)
    BY <2>1, OutKept DEF out, Written
  <2>3. Waiting(c)'
    BY <1>1, <1>2, <1>4, <2>1, <2>2 DEF Waiting, Piped, Alive
  <2>4. CASE blocked[c] = s
    <3>1. blocked' = blocked
      BY <1>2, <2>1, <2>4
    <3> QED BY <1>1, <2>1, <2>3, <3>1 DEF vars, procs
  <2>5. CASE blocked[c] = "no"
    <3>1. /\ pipe'[c]["out"] = pipe[c]["out"] /\ pipe'[c]["err"] = pipe[c]["err"]
          /\ RelaysLeft(c)' = RelaysLeft(c) /\ blocked'[c] = s
      BY <1>2, <2>1 DEF out, RelaysLeft
    <3>2. Some(blocked[c] = "no") = 1 /\ Some(blocked[c] = "no")' = 0
      BY <2>5, <3>1 DEF Some, Outputs
    <3>3. OutputLeft(c)' < OutputLeft(c)
      <4>1. MaxWritten - Written(c) \in Nat
        BY <1>1, <1>2, LeftOver
      <4>2. OutputLeft(c) = 3 * (MaxWritten - Written(c)) + Len(pipe[c]["out"]) + Len(pipe[c]["err"]) + 1
        BY <3>2 DEF OutputLeft
      <4>3. OutputLeft(c)' = 3 * (MaxWritten - Written(c)) + Len(pipe[c]["out"]) + Len(pipe[c]["err"]) + 0
        BY <2>2, <3>1, <3>2 DEF OutputLeft
      <4> QED BY <1>2, <4>1, <4>2, <4>3, Halted
    <3> QED BY <1>3, <2>3, <3>1, <3>3 DEF Fewer
  <2> QED BY <2>1, <2>4, <2>5
<1> QED BY <1>5, <1>6

LEMMA ProcessesFewer ==
  ASSUME Inv, NEW c \in Calls, Waiting(c), Processes(c)
  PROVE  Waiting(c)' /\ (Fewer(c) \/ UNCHANGED vars)
<1>1. TypeOK /\ way' = way /\ CallInv(c) /\ UNCHANGED <<fixed, runner, call>> /\ pc'[c] = pc[c]
  BY DEF Inv, Processes, fixed, call
<1>2. CASE \E s \in Outputs : Write(c, s)
  BY <1>1, <1>2, WriteFewer
<1>3. ASSUME UNCHANGED out, blocked'[c] = blocked[c]
      PROVE  /\ OutputLeft(c)' = OutputLeft(c) /\ RelaysLeft(c)' = RelaysLeft(c) /\ Written(c)' = Written(c)
  BY <1>3, OutKept, SameOutput
<1>4. CASE Read(c) \/ CloseStdin(c)
  <2>1. UNCHANGED <<left, procs, out>>
    BY <1>4 DEF Read, CloseStdin
  <2>2. SameProcess(c) /\ blocked'[c] = blocked[c]
    BY <2>1, ProcsKept DEF procs
  <2>3. EndsLeft(c)' = EndsLeft(c)
    BY <1>1, <2>2, SameEnds
  <2>4. BodyLeft(c)' < BodyLeft(c)
    <3>1. left[c] \in Nat /\ input[c] \in Nat /\ Some(reading[c]) \in 0 .. 1
      BY <1>1, WaitTypes, SomeType
    <3>2. CASE Read(c)
      <4>1. input'[c] = input[c] - 1 /\ input[c] > 0 /\ reading' = reading
        BY <1>1, <3>2 DEF Read, TypeOK
      <4> QED BY <2>1, <3>1, <4>1 DEF BodyLeft
    <3>3. CASE CloseStdin(c)
      <4>1. reading[c] /\ ~reading'[c] /\ input' = input
        BY <1>1, <3>3 DEF CloseStdin, TypeOK
      <4>2. Some(reading[c]) = 1 /\ Some(reading[c])' = 0
        BY <4>1 DEF Some
      <4>3. BodyLeft(c) = 2 * left[c] + input[c] + 1 /\ BodyLeft(c)' = 2 * left[c] + input[c] + 0
        BY <2>1, <4>1, <4>2 DEF BodyLeft
      <4> QED BY <3>1, <4>3
    <3> QED BY <1>4, <3>2, <3>3
  <2>5. Waiting(c)'
    BY <1>1, <1>3, <2>1, <2>2 DEF Waiting, Alive, Piped, SameProcess
  <2> QED BY <1>3, <2>1, <2>2, <2>3, <2>4, <2>5 DEF Fewer
<1>5. CASE Exit(c) \/ Release(c)
  <2>1. UNCHANGED <<feed, blocked, out>>
    BY <1>5 DEF Exit, Release
  <2>2. BodyLeft(c)' = BodyLeft(c)
    BY <2>1, SameBody DEF feed
  <2>3. /\ \/ child[c] = "running" /\ child'[c] \in {"0", "1"}
           \/ child'[c] = child[c] /\ kept[c] # {} /\ kept'[c] = {}
        /\ child'[c] # "none"
    BY <1>1, <1>5 DEF Exit, Release, Alive, TypeOK, Waiting
  <2>4. EndsLeft(c)' < EndsLeft(c)
    <3>1. CASE child[c] = "running" /\ child'[c] \in {"0", "1"}
      <4>1. kept[c] = {}
        BY <3>1 DEF Waiting
      <4>2. Some(kept[c] # {}) = 0 /\ Some(kept[c] # {})' \in 0 .. 1
        BY <4>1 DEF Some
      <4> QED BY <1>1, <3>1, <4>2 DEF EndsLeft
    <3>2. CASE child'[c] = child[c] /\ kept[c] # {} /\ kept'[c] = {}
      <4>1. Some(kept[c] # {}) = 1 /\ Some(kept[c] # {})' = 0
        BY <3>2 DEF Some
      <4> QED BY <1>1, <3>2, <4>1 DEF EndsLeft
    <3> QED BY <2>3, <3>1, <3>2
  <2>5. Waiting(c)'
    <3>1. Written(c)' = Written(c) /\ blocked' = blocked
      BY <1>3, <2>1
    <3>2. ~Alive(c)' /\ child'[c] # "none" /\ (kept'[c] # {} => child'[c] \in {"0", "1"})
      BY <2>3 DEF Alive, Waiting
    <3> QED BY <3>1, <3>2 DEF Waiting
  <2> QED BY <1>3, <2>1, <2>2, <2>4, <2>5 DEF Fewer
<1> QED BY <1>2, <1>4, <1>5 DEF Processes

LEMMA WaitStep == WaitInv /\ [Next]_vars => WaitInv' /\ (UsesOneUp \/ UNCHANGED vars)
<1> SUFFICES ASSUME WaitInv, [Next]_vars
             PROVE  WaitInv' /\ (UsesOneUp \/ UNCHANGED vars)
  OBVIOUS
<1>1. Inv /\ Inv' /\ TypeOK /\ TypeOK'
  BY Step DEF WaitInv, Inv
<1>2. CASE UNCHANGED vars
  <2>1. \A c \in Calls : Waiting(c)'
    BY <1>2 DEF WaitInv, Waiting, Written, Alive, Piped, vars, fixed, procs, out
  <2> QED BY <1>1, <1>2, <2>1 DEF WaitInv
<1>3. ASSUME NEW c \in Calls, Runner(c) \/ Processes(c)
      PROVE  WaitInv' /\ (UsesOneUp \/ UNCHANGED vars)
  <2>1. Waiting(c)' /\ (Fewer(c) \/ UNCHANGED vars)
    BY <1>1, <1>3, RunnerFewer, ProcessesFewer DEF WaitInv
  <2>2. \A d \in Calls \ {c} : StepsLeft(d)' = StepsLeft(d) /\ Waiting(d)'
    BY <1>1, <1>3, OthersLeft DEF WaitInv
  <2>3. Fewer(c) => StepsLeft(c)' < StepsLeft(c)
    BY <1>1, <2>1, FewerLeft DEF WaitInv, Waiting
  <2> QED BY <1>1, <2>1, <2>2, <2>3 DEF WaitInv, UsesOneUp
<1>4. ASSUME NEW c \in Calls, Sigpipe(c)
      PROVE  WaitInv' /\ UsesOneUp
  <2>1. runner = "alive" /\ runner' = "killed" /\ UNCHANGED <<fixed, call, feed, procs, out>>
    BY <1>4 DEF Sigpipe
  <2>2. \A d \in Calls : Waiting(d)'
    BY <2>1 DEF WaitInv, Waiting, Written, Alive, Piped, fixed, procs, out
  <2> QED BY <1>1, <2>1, <2>2 DEF WaitInv, UsesOneUp
<1> QED BY <1>2, <1>3, <1>4 DEF Next

LEMMA WaitInit == Init => WaitInv
<1> SUFFICES ASSUME Init
             PROVE  WaitInv
  OBVIOUS
<1>1. ASSUME NEW c \in Calls
      PROVE  Waiting(c)
  <2>1. /\ wrote[c]["out"] = <<>> /\ wrote[c]["err"] = <<>>
        /\ kept[c] = {} /\ child[c] = "none" /\ blocked[c] = "no"
    BY DEF Init, Outputs
  <2>2. Written(c) = 0 /\ MaxWritten \in Nat
    BY <2>1, ExecAssumption DEF Written
  <2> QED BY <2>1, <2>2 DEF Waiting, Alive
<1> QED BY <1>1, InitHolds DEF WaitInv

LEMMA WaitAlways == Spec => []WaitInv
<1>1. WaitInv /\ [Next]_vars => WaitInv'
  BY WaitStep
<1> QED BY <1>1, WaitInit, PTL DEF Spec

\* What a call may have left to do when it begins.
MostSteps == 2 * MaxBody + 3 * MaxWritten + 3 * Cap + 12

\* Nothing in spawn goes round in circles: what a call has left to do is a number that no
\* step raises, every step of a call or of its command lowers, and no step of another call
\* touches.
THEOREM StepsRunOut == Spec => [](\A c \in Calls : StepsLeft(c) \in 0 .. MostSteps) /\ [][UsesOneUp]_vars
<1>1. WaitInv => \A c \in Calls : StepsLeft(c) \in 0 .. MostSteps
  <2> SUFFICES ASSUME WaitInv, NEW c \in Calls
               PROVE  StepsLeft(c) \in 0 .. MostSteps
    OBVIOUS
  <2>1. TypeOK /\ Written(c) <= MaxWritten
    BY DEF WaitInv, Inv, Waiting
  <2>2. /\ BodyLeft(c) \in Nat /\ BodyLeft(c) <= 2 * MaxBody + Cap + 1
        /\ OutputLeft(c) \in Nat /\ OutputLeft(c) <= 3 * MaxWritten + 2 * Cap + 1
        /\ RelaysLeft(c) \in 0 .. 2 /\ EndsLeft(c) \in 0 .. 8
    BY <2>1, LeftTypes
  <2>3. ASSUME NEW x \in Nat, NEW y \in Nat, NEW z \in 0 .. 2, NEW t \in 0 .. 8,
               x <= 2 * MaxBody + Cap + 1, y <= 3 * MaxWritten + 2 * Cap + 1
        PROVE  x + y + z + t \in 0 .. MostSteps
    BY <2>3, ExecAssumption DEF MostSteps
  <2> QED BY <2>2, <2>3 DEF StepsLeft
<1>2. WaitInv /\ [Next]_vars => [UsesOneUp]_vars
  BY WaitStep
<1> QED BY <1>1, <1>2, WaitAlways, PTL DEF Spec

\* Whether spawn, or the signal that ends the runner, has a step to take: the guards of
\* Refuse, Preview and Start, of Feed, Fed, BrokenPipe and Sigpipe, of Relay and Joined, of
\* Collect, and of Reap.
RunnerMay(c) ==
  /\ runner = "alive"
  /\ \/ pc[c] = "ready"
     \/ pc[c] = "feed" /\ (left[c] = 0 \/ input[c] < Cap \/ ~Reads(c))
     \/ pc[c] = "relay" /\ (relays[c] = {} \/ \E s \in relays[c] : pipe[c][s] # <<>> \/ ~Open(c, s))
     \/ pc[c] = "wait" /\ way[c].streams = "capture" /\ pipe[c]["out"] # <<>>
     \/ pc[c] = "wait" /\ child[c] \in {"0", "1"} /\ (way[c].streams = "capture" => ~Open(c, "out"))

\* Whether the command has one: it may always end, unless it waits for room in a pipe.
CommandMay(c) == Alive(c) /\ (blocked[c] = "no" \/ Len(pipe[c][blocked[c]]) < Cap)

\* A call that has not returned can be taken further, by spawn or by its command, unless the
\* runner is gone, a process left behind holds a pipe, or both pipes are full.
NobodyWaitsForNobody ==
  \A c \in Calls : pc[c] # "done" /\ runner = "alive" /\ kept[c] = {} /\ ~BothFull(c) => RunnerMay(c) \/ CommandMay(c)

\* The two relays and the wait for the command never wait for the wrong one: with any pipes,
\* any output and any number of calls, the body and the output both being stuck is the only
\* way spawn and its command have of waiting for each other.
THEOREM NeverStuck == Spec => []NobodyWaitsForNobody
<1>1. WaitInv => NobodyWaitsForNobody
  <2> SUFFICES ASSUME WaitInv, NEW c \in Calls, pc[c] # "done", runner = "alive", kept[c] = {}, ~BothFull(c),
                      ~RunnerMay(c), ~CommandMay(c)
               PROVE  FALSE
    BY DEF NobodyWaitsForNobody
  <2>1. TypeOK /\ Waiting(c) /\ CallInv(c) /\ Places(c)
    BY DEF WaitInv, Inv, CallInv
  <2>2. /\ pc[c] \in {"feed", "relay", "wait"} /\ child[c] \in {"running", "0", "1"}
        /\ left[c] \in Nat /\ input[c] \in Nat /\ input[c] <= Cap /\ Cap \in Nat
        /\ blocked[c] \in Outputs \cup {"no"} /\ relays[c] \subseteq Outputs
    BY <2>1, WaitTypes DEF RunnerMay, Places
  \* A command that runs waits to write where the pipe is full.
  <2>3. Alive(c) => /\ blocked[c] \in Piped(c) /\ blocked[c] \in Outputs
                    /\ Len(pipe[c][blocked[c]]) = Cap /\ pipe[c][blocked[c]] # <<>>
    <3> SUFFICES ASSUME Alive(c)
                 PROVE  /\ blocked[c] \in Piped(c) /\ blocked[c] \in Outputs
                        /\ Len(pipe[c][blocked[c]]) = Cap /\ pipe[c][blocked[c]] # <<>>
      OBVIOUS
    <3>1. blocked[c] # "no" /\ ~(Len(pipe[c][blocked[c]]) < Cap)
      BY DEF CommandMay
    <3>2. blocked[c] \in Piped(c) /\ blocked[c] \in Outputs
      BY <2>1, <2>2, <3>1 DEF Waiting
    <3>3. pipe[c][blocked[c]] \in Seq(Units) /\ Len(pipe[c][blocked[c]]) <= Cap /\ Cap \in Nat \ {0}
      BY <2>1, <3>2, StreamTypes
    <3>4. Len(pipe[c][blocked[c]]) = Cap
      BY <3>1, <3>3
    <3>5. pipe[c][blocked[c]] # <<>>
      BY <3>3, <3>4
    <3> QED BY <3>2, <3>4, <3>5
  \* One that is over holds nothing open, nor does anything it left.
  <2>4. ~Alive(c) => child[c] \in {"0", "1"} /\ \A s \in Outputs : ~Open(c, s)
    BY <2>2 DEF Alive, Open
  <2>5. CASE pc[c] = "feed"
    <3>1. left[c] > 0 /\ input[c] = Cap /\ Reads(c)
      BY <2>2, <2>5 DEF RunnerMay
    <3>2. Alive(c)
      BY <3>1 DEF Reads
    <3>3. blocked[c] # "no"
      BY <2>3, <3>2 DEF Outputs
    <3> QED BY <2>3, <2>5, <3>1, <3>2, <3>3 DEF BothFull
  <2>6. CASE pc[c] = "relay"
    <3>1. /\ Labelled(c) /\ relays[c] # {}
          /\ \A s \in relays[c] : pipe[c][s] = <<>> /\ Open(c, s)
      BY <2>1, <2>6 DEF RunnerMay, Places
    <3>2. Alive(c)
      BY <2>2, <2>4, <3>1
    <3>3. blocked[c] \notin relays[c]
      BY <2>3, <3>1, <3>2
    <3>4. child[c] \in {"0", "1"}
      BY <2>1, <2>3, <3>1, <3>2, <3>3 DEF CallInv, Relayed, Over
    <3> QED BY <3>2, <3>4 DEF Alive
  <2>7. CASE pc[c] = "wait"
    <3>1. CASE Alive(c)
      <4>1. way[c].streams \in {"label", "capture"}
        BY <2>3, <3>1 DEF Piped
      <4>2. CASE Labelled(c)
        <5>1. relays[c] = {}
          BY <2>1, <2>7, <4>2 DEF Places
        <5>2. child[c] \in {"0", "1"}
          BY <2>1, <2>3, <3>1, <4>2, <5>1 DEF CallInv, Relayed, Over
        <5> QED BY <3>1, <5>2 DEF Alive
      <4>3. CASE way[c].streams = "capture"
        <5>1. blocked[c] = "out"
          BY <2>3, <3>1, <4>3 DEF Piped
        <5> QED BY <2>3, <2>7, <3>1, <4>3, <5>1 DEF RunnerMay
      <4> QED BY <4>1, <4>2, <4>3 DEF Labelled
    <3>2. CASE ~Alive(c)
      BY <2>4, <2>7, <3>2 DEF RunnerMay, Outputs
    <3> QED BY <3>1, <3>2
  <2> QED BY <2>2, <2>5, <2>6, <2>7
<1> QED BY <1>1, WaitAlways, PTL
=============================================================================
