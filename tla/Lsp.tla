--------------------------------- MODULE Lsp ---------------------------------
(***************************************************************************)
(* The language server (server.rs, document.rs, rpc.rs) and the client the *)
(* VS Code extension brings (editors/vscode/src/lsp.ts): an editor's       *)
(* documents, the copies the server holds, what it published of them, and  *)
(* the requests waiting for an answer.  One pipe goes each way.            *)
(*                                                                         *)
(* What is wrong with a document is a function of its own text and of the  *)
(* text of the `_shared.run` above it (document.rs); here it *is* those    *)
(* two texts.  A text is a number, a new one at every edit.                *)
(***************************************************************************)
EXTENDS Naturals, Sequences, FiniteSets

CONSTANTS
  Targets,     \* documents that are targets
  SharedFile,  \* the document above them
  MaxEdits,    \* bound: edits, saved or not
  MaxRequests, \* bound: requests
  MaxEvents,   \* bound: opens and closes
  MaxOnWire,   \* bound: messages on their way when the editor does something
  None,        \* no text, no diagnostics, no answer
  Unasked, Waiting \* a request that was not made yet, and one that was

ASSUME LspAssumption ==
  SharedFile \notin Targets /\ MaxEdits \in Nat /\ MaxRequests \in Nat /\ MaxEvents \in Nat
  /\ MaxOnWire \in Nat /\ IsFiniteSet(Targets)

Docs == Targets \cup {SharedFile}
Texts == 0 .. MaxEdits
Requests == 1 .. MaxRequests

\* None, Unasked and Waiting are no texts, nor what is published, nor each other.
ASSUME NoneAssumption ==
  /\ {None, Unasked, Waiting} \cap Texts = {}
  /\ None # Unasked /\ None # Waiting /\ Unasked # Waiting
  /\ None \notin [own : Texts, above : Texts \cup {None}]

VARIABLES
  open, buffer, disk,    \* the editor's documents, and the files
  docs,                  \* Server::docs
  up, down,              \* the pipes: messages on their way to the server, and from it
  old,                   \* what is still to be read from a server that died
  process,               \* the server: running, or dead
  server,                \* which one it is: `run :lsp`, or the one that was before it
  reader,                \* MessageReader: at a message, or inside one that never ends
  answered, fellBack,    \* LanguageClient's fields
  connected,             \* whether `child` is set
  shown,                 \* the diagnostic collection
  waiting,               \* `pending`
  got,                   \* what each request was resolved with
  asked,                 \* history: the text a request was made about
  late,                  \* history: something of a server given up on was read after that
  edits, events          \* bounds

editor   == <<open, buffer, disk, edits, events>>
wire     == <<up, down, old, reader, late>>
client   == <<answered, fellBack, connected, shown>>
requests == <<waiting, got, asked>>
vars     == <<editor, docs, wire, process, server, client, requests>>

-----------------------------------------------------------------------------
(* The server.                                                             *)

\* text_of: the editor's copy where it is open, and the file where it is not.
TextOf(d) == IF docs[d] # None THEN docs[d] ELSE disk[d]

\* document::diagnostics: nothing is above a shared file here.
Diagnosed(d, text) ==
  [own |-> text, above |-> IF d = SharedFile THEN None ELSE TextOf(SharedFile)]

Publish(d, what) == [kind |-> "publish", doc |-> d, what |-> what]

\* Mutant: a closed document's diagnostics are left where they are.
HandledUncleared(m) ==
  CASE m.kind \in {"open", "change"} ->
         /\ docs' = [docs EXCEPT ![m.doc] = m.text]
         /\ down' = Append(down, Publish(m.doc, Diagnosed(m.doc, m.text)))
    [] m.kind = "close" -> docs' = [docs EXCEPT ![m.doc] = None] /\ UNCHANGED down
    [] m.kind = "request" ->
         /\ down' = Append(down, [kind |-> "reply", id |-> m.id, text |-> docs[m.doc]])
         /\ UNCHANGED docs
    [] m.kind = "initialize" ->
         down' = Append(down, [kind |-> "reply", id |-> 0, text |-> None]) /\ UNCHANGED docs

\* Mutant: a change is noted, and nothing is published of it.
HandledQuietly(m) ==
  CASE m.kind = "open" ->
         /\ docs' = [docs EXCEPT ![m.doc] = m.text]
         /\ down' = Append(down, Publish(m.doc, Diagnosed(m.doc, m.text)))
    [] m.kind = "change" -> docs' = [docs EXCEPT ![m.doc] = m.text] /\ UNCHANGED down
    [] m.kind = "close" ->
         /\ docs' = [docs EXCEPT ![m.doc] = None]
         /\ down' = Append(down, Publish(m.doc, None))
    [] m.kind = "request" ->
         /\ down' = Append(down, [kind |-> "reply", id |-> m.id, text |-> docs[m.doc]])
         /\ UNCHANGED docs
    [] m.kind = "initialize" ->
         down' = Append(down, [kind |-> "reply", id |-> 0, text |-> None]) /\ UNCHANGED docs

\* Mutant: an answer is about the file.
HandledFromDisk(m) ==
  CASE m.kind \in {"open", "change"} ->
         /\ docs' = [docs EXCEPT ![m.doc] = m.text]
         /\ down' = Append(down, Publish(m.doc, Diagnosed(m.doc, m.text)))
    [] m.kind = "close" ->
         /\ docs' = [docs EXCEPT ![m.doc] = None]
         /\ down' = Append(down, Publish(m.doc, None))
    [] m.kind = "request" ->
         /\ down' = Append(down, [kind |-> "reply", id |-> m.id, text |-> disk[m.doc]])
         /\ UNCHANGED docs
    [] m.kind = "initialize" ->
         down' = Append(down, [kind |-> "reply", id |-> 0, text |-> None]) /\ UNCHANGED docs

\* Server::handle, one message.  An answer is about the copy the server holds.
Handled(m) ==
  CASE m.kind \in {"open", "change"} ->
         /\ docs' = [docs EXCEPT ![m.doc] = m.text]
         /\ down' = Append(down, Publish(m.doc, Diagnosed(m.doc, m.text)))
    [] m.kind = "close" ->
         /\ docs' = [docs EXCEPT ![m.doc] = None]
         /\ down' = Append(down, Publish(m.doc, None))
    [] m.kind = "request" ->
         /\ down' = Append(down, [kind |-> "reply", id |-> m.id, text |-> docs[m.doc]])
         /\ UNCHANGED docs
    [] m.kind = "initialize" ->
         down' = Append(down, [kind |-> "reply", id |-> 0, text |-> None]) /\ UNCHANGED docs

\* serve: read, handle, write, one message at a time.
Serve ==
  /\ process = "running" /\ up # <<>>
  /\ up' = Tail(up)
  /\ Handled(Head(up))
  /\ UNCHANGED <<editor, old, reader, late, process, server, client, requests>>

\* It is killed or panics, perhaps while it writes a message (which matters to a
\* client that will fall back), with all it knew and all it had not read.
Die ==
  /\ process = "running"
  /\ process' = "dead" /\ up' = <<>> /\ docs' = [d \in Docs |-> None]
  /\ \/ down' = down
     \/ ~answered /\ down' = Append(down, [kind |-> "half"])
  /\ UNCHANGED <<editor, old, reader, late, server, client, requests>>

-----------------------------------------------------------------------------
(* The client.                                                             *)

\* send: to nobody when no child was started, and to no effect when it is dead.
Sent(ms) == up' = IF connected /\ process = "running" THEN up \o ms ELSE up

Message(kind, d, text) == [kind |-> kind, doc |-> d, text |-> text]

Open(d) ==
  /\ ~open[d] /\ events < MaxEvents
  /\ open' = [open EXCEPT ![d] = TRUE]
  /\ buffer' = [buffer EXCEPT ![d] = disk[d]]
  /\ events' = events + 1
  /\ Sent(<<Message("open", d, disk[d])>>)
  /\ UNCHANGED <<disk, edits, docs, down, old, reader, late, process, server, client, requests>>

Type(d) ==
  /\ open[d] /\ edits < MaxEdits
  /\ edits' = edits + 1
  /\ buffer' = [buffer EXCEPT ![d] = edits + 1]
  /\ Sent(<<Message("change", d, edits + 1)>>)
  /\ UNCHANGED <<open, disk, events, docs, down, old, reader, late, process, server, client, requests>>

\* Nothing is sent when a document is saved.
Save(d) ==
  /\ open[d] /\ disk[d] # buffer[d]
  /\ disk' = [disk EXCEPT ![d] = buffer[d]]
  /\ UNCHANGED <<open, buffer, edits, events, docs, wire, process, server, client, requests>>

Close(d) ==
  /\ open[d] /\ events < MaxEvents
  /\ open' = [open EXCEPT ![d] = FALSE]
  /\ events' = events + 1
  /\ Sent(<<[kind |-> "close", doc |-> d]>>)
  /\ UNCHANGED <<buffer, disk, edits, docs, down, old, reader, late, process, server, client, requests>>

\* request: completion, hover, definition or formatting.
Ask(d) ==
  /\ open[d]
  /\ \E id \in Requests :
       /\ got[id] = Unasked /\ \A before \in Requests : before < id => got[before] # Unasked
       /\ asked' = [asked EXCEPT ![id] = buffer[d]]
       /\ IF connected
            THEN /\ waiting' = waiting \cup {id}
                 /\ got' = [got EXCEPT ![id] = Waiting]
                 /\ Sent(<<[kind |-> "request", id |-> id, doc |-> d]>>)
            ELSE got' = [got EXCEPT ![id] = None] /\ UNCHANGED <<waiting, up>>
  /\ UNCHANGED <<editor, docs, down, old, reader, late, process, server, client>>

\* Mutant: the promise is forgotten and never resolved.
TimeOutSilently(id) ==
  /\ id \in waiting
  /\ waiting' = waiting \ {id}
  /\ UNCHANGED <<editor, docs, wire, process, server, client, got, asked>>

\* The timer of a request: two seconds.
TimeOut(id) ==
  /\ id \in waiting
  /\ waiting' = waiting \ {id}
  /\ got' = [got EXCEPT ![id] = None]
  /\ UNCHANGED <<editor, docs, wire, process, server, client, asked>>

\* receive: a reply resolves the request that waits for it, and no other.
Received(m) ==
  IF m.kind = "reply"
    THEN /\ waiting' = waiting \ {m.id}
         /\ got' = IF m.id \in waiting THEN [got EXCEPT ![m.id] = m.text] ELSE got
         /\ UNCHANGED <<shown, asked>>
    ELSE shown' = [shown EXCEPT ![m.doc] = m.what] /\ UNCHANGED requests

\* MessageReader.push: what follows half a message is taken for the rest of it.
Push(m) ==
  CASE m.kind = "half"  -> reader' = "inside" /\ UNCHANGED <<answered, shown, requests>>
    [] reader = "inside" -> reader' = "at" /\ UNCHANGED <<answered, shown, requests>>
    [] OTHER            -> Received(m) /\ answered' = TRUE /\ UNCHANGED reader

Receive ==
  /\ down # <<>>
  /\ Push(Head(down)) /\ down' = Tail(down)
  /\ UNCHANGED <<editor, docs, up, old, late, process, server, fellBack, connected>>

\* The handler of a process that was given up on pushes into the new reader.
ReceiveLate ==
  /\ old # <<>>
  /\ Push(Head(old)) /\ old' = Tail(old) /\ late' = TRUE
  /\ UNCHANGED <<editor, docs, up, down, process, server, fellBack, connected>>

OpenDocs == {d \in Docs : open[d]}
\* The same documents, in any order.
InSomeOrder == {q \in [1 .. Cardinality(OpenDocs) -> OpenDocs] : \A d \in OpenDocs : \E i \in DOMAIN q : q[i] = d}
\* Mutant: the fallback is only told of what is opened from then on.
OpeningNothing(q) == <<[kind |-> "initialize"]>>

Opening(q) ==
  <<[kind |-> "initialize"]>> \o [i \in 1 .. Len(q) |-> Message("open", q[i], buffer[q[i]])]

\* fallBack, once, when the first server never said anything: another process
\* and another reader, and every open document opened again.
FallBack ==
  /\ process = "dead" /\ connected /\ ~answered /\ ~fellBack
  /\ fellBack' = TRUE
  /\ reader' = "at"
  /\ old' = old \o down /\ down' = <<>>
  /\ \/ /\ server' = "legacy" /\ process' = "running"
        /\ \E q \in InSomeOrder : up' = Opening(q)
        /\ UNCHANGED connected
     \* Not installed either.
     \/ connected' = FALSE /\ UNCHANGED <<up, server, process>>
  /\ UNCHANGED <<editor, docs, late, answered, shown, requests>>

Init ==
  /\ open \in [Docs -> BOOLEAN]
  /\ buffer = [d \in Docs |-> 0] /\ disk = [d \in Docs |-> 0]
  /\ docs = [d \in Docs |-> None]
  /\ \E q \in InSomeOrder : up = Opening(q)
  /\ down = <<>> /\ old = <<>> /\ reader = "at" /\ late = FALSE
  /\ process = "running" /\ server = "run"
  /\ answered = FALSE /\ fellBack = FALSE /\ connected = TRUE
  /\ shown = [d \in Docs |-> None]
  /\ waiting = {} /\ got = [id \in Requests |-> Unasked] /\ asked = [id \in Requests |-> None]
  /\ edits = 0 /\ events = 0

Editor == Len(up) + Len(down) < MaxOnWire /\ \E d \in Docs : Open(d) \/ Type(d) \/ Save(d) \/ Close(d) \/ Ask(d)
Client == Receive \/ ReceiveLate \/ FallBack
Next == Editor \/ Client \/ Serve \/ Die \/ \E id \in Requests : TimeOut(id)

Spec == Init /\ [][Next]_vars

\* Both processes are scheduled and timers run out.  Nobody has to edit.
FairSpec == Spec /\ WF_vars(Client) /\ WF_vars(Serve) /\ \A id \in Requests : WF_vars(TimeOut(id))

-----------------------------------------------------------------------------
TypeOK ==
  /\ open \in [Docs -> BOOLEAN] /\ buffer \in [Docs -> Texts] /\ disk \in [Docs -> Texts]
  /\ docs \in [Docs -> Texts \cup {None}]
  /\ process \in {"running", "dead"} /\ server \in {"run", "legacy"} /\ reader \in {"at", "inside"}
  /\ answered \in BOOLEAN /\ fellBack \in BOOLEAN /\ connected \in BOOLEAN /\ late \in BOOLEAN
  /\ got \in [Requests -> Texts \cup {None, Unasked, Waiting}]
  /\ waiting = {id \in Requests : got[id] = Waiting}
  /\ asked \in [Requests -> Texts \cup {None}]

Serving == process = "running" /\ up = <<>>

\* A server that has read everything has the editor's documents, as the editor
\* has them, and no other -- the one that stands in for a server that never
\* answered too, which heard nothing of what was opened and typed before it.
InStep == Serving => docs = [d \in Docs |-> IF open[d] THEN buffer[d] ELSE None]

\* With everything delivered, what the problem list says of an open document is
\* said of its text as it is, and of a closed one it says nothing: no order of
\* opening, typing, closing and falling back leaves an error of an older text; but
\* for what the server given up on was still heard to say (`late`).
ShownIsOwn ==
  Serving /\ down = <<>> /\ ~late =>
    \A d \in Docs :
      IF open[d] THEN shown[d] # None /\ shown[d].own = buffer[d] ELSE shown[d] = None

\* An answer is about the text the question was asked about: a change typed before
\* it has reached the server, one typed after it has not, and an answer that comes
\* after its time, or from a server given up on, is nobody else's.
AnsweredAsAsked == \A id \in Requests : got[id] \in Texts => got[id] = asked[id]

\* What is shown of every document catches up with it, unless the server has died
\* after it had answered, which nothing restarts, or one that was given up on was
\* still heard (`late`).
CatchesUp ==
  <>[](process = "dead" \/ late \/ \A d \in Docs : open[d] => shown[d] # None /\ shown[d].own = buffer[d])
=============================================================================
