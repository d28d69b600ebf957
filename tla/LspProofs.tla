------------------------------ MODULE LspProofs ------------------------------
(***************************************************************************)
(* What the language server and its client keep, whatever documents there  *)
(* are and however much is on its way between them.                        *)
(*                                                                         *)
(* The invariant reads a pipe ahead: the last message about a document     *)
(* says what its reader will have of it once all of the pipe is read.  So  *)
(* read, the server's copies are the editor's documents, the shown         *)
(* diagnostics are of the server's copies, and a question meets the copy   *)
(* it was asked about.                                                     *)
(*                                                                         *)
(* And why the problem list catches up: WorkLeft counts what the messages  *)
(* under way can still lead to, and only the editor adds to it.            *)
(***************************************************************************)
EXTENDS Lsp, FiniteSetTheorems, TLAPS

-----------------------------------------------------------------------------
(* Reading a pipe ahead.                                                   *)

\* The messages that replace what their reader has of a document, and by what.
About(m, d) == m.kind \in {"open", "change", "close", "publish"} /\ m.doc = d
Brings(m)   == CASE m.kind \in {"open", "change"} -> m.text
                 [] m.kind = "publish"            -> m.what
                 [] OTHER                         -> None

\* Whoever has v of d will have w of it after the first n messages of s.
Leads(s, d, n, v, w) ==
  \/ v = w /\ \A i \in 1 .. n : ~About(s[i], d)
  \/ \E i \in 1 .. n : About(s[i], d) /\ w = Brings(s[i]) /\ \A j \in i + 1 .. n : ~About(s[j], d)

What == {None} \cup [own : Texts, above : Texts \cup {None}]
ToServer == [kind : {"open", "change"}, doc : Docs, text : Texts] \cup [kind : {"close"}, doc : Docs]
            \cup [kind : {"request"}, id : Requests, doc : Docs] \cup [kind : {"initialize"}]
ToClient == [kind : {"publish"}, doc : Docs, what : What]
            \cup [kind : {"reply"}, id : 0 .. MaxRequests, text : Texts \cup {None}]
            \cup [kind : {"half"}]

-----------------------------------------------------------------------------
(* The invariant.                                                          *)

Typed ==
  /\ TypeOK
  /\ up \in Seq(ToServer) /\ down \in Seq(ToClient) /\ old \in Seq(ToClient)
  /\ shown \in [Docs -> What] /\ asked \in [Requests -> Texts \cup {None}] /\ edits \in 0 .. MaxEdits

\* A server that is dead has nothing, and one that runs is spoken to.
Standing ==
  /\ process = "running" => connected
  /\ process = "dead" => up = <<>> /\ docs = [d \in Docs |-> None]

\* What the editor has of a document.
Now(d) == IF open[d] THEN buffer[d] ELSE None
Tracks == process = "running" => \A d \in Docs : Leads(up, d, Len(up), docs[d], Now(d))

\* A question that is under way meets the text it was asked about, and an answer has it.
Questions(s, copies, g, texts) ==
  \A i \in 1 .. Len(s) :
    s[i].kind = "request" =>
      g[s[i].id] # Unasked /\ Leads(s, s[i].doc, i - 1, copies[s[i].doc], texts[s[i].id])
Replies(s, g, texts) ==
  \A i \in 1 .. Len(s) :
    s[i].kind = "reply" /\ s[i].id # 0 => g[s[i].id] # Unasked /\ s[i].text = texts[s[i].id]

Asks == /\ Questions(up, docs, got, asked) /\ Replies(down, got, asked) /\ Replies(old, got, asked)
        /\ AnsweredAsAsked

\* Until something was read of a server nothing is shown, and what is shown then
\* is of the copies it has.
Says(what, text) == IF text = None THEN what = None ELSE what # None /\ what.own = text
Untouched == ~answered => shown = [d \in Docs |-> None]
Whole     == process = "running" /\ ~late =>
               reader = "at" /\ \A i \in 1 .. Len(down) : down[i].kind # "half"
Shows     == process = "running" /\ ~late =>
               \A d \in Docs : \E w \in What : Leads(down, d, Len(down), shown[d], w) /\ Says(w, docs[d])

Inv == Typed /\ Standing /\ Tracks /\ Asks /\ Untouched /\ Whole /\ Shows

-----------------------------------------------------------------------------
(* Pipes.                                                                  *)

LEMMA LeadsSame ==
  ASSUME NEW s, NEW t, NEW d, NEW n \in Nat, NEW v, NEW w,
         \A i \in 1 .. n : t[i] = s[i], Leads(s, d, n, v, w)
  PROVE  Leads(t, d, n, v, w)
  BY DEF Leads

\* One message more at the end: it is the last word about its document,
LEMMA LeadsTo ==
  ASSUME NEW t, NEW d, NEW n \in Nat, NEW v, About(t[n + 1], d)
  PROVE  Leads(t, d, n + 1, v, Brings(t[n + 1]))
  BY DEF Leads

\* and says nothing of another.
LEMMA LeadsPast ==
  ASSUME NEW t, NEW d, NEW n \in Nat, NEW v, NEW w, ~About(t[n + 1], d), Leads(t, d, n, v, w)
  PROVE  Leads(t, d, n + 1, v, w)
<1>1. CASE v = w /\ \A i \in 1 .. n : ~About(t[i], d)
  BY <1>1 DEF Leads
<1>2. CASE \E i \in 1 .. n : About(t[i], d) /\ w = Brings(t[i]) /\ \A j \in i + 1 .. n : ~About(t[j], d)
  <2>1. PICK i \in 1 .. n : About(t[i], d) /\ w = Brings(t[i]) /\ \A j \in i + 1 .. n : ~About(t[j], d)
    BY <1>2
  <2>2. i \in 1 .. n + 1 /\ \A j \in i + 1 .. n + 1 : ~About(t[j], d)
    BY <2>1
  <2> QED BY <2>1, <2>2 DEF Leads
<1> QED BY <1>1, <1>2 DEF Leads

\* The first message is read.
LEMMA LeadsRest ==
  ASSUME NEW s, NEW t, NEW d, NEW n \in Nat \ {0}, NEW v, NEW w,
         \A i \in 1 .. n - 1 : t[i] = s[i + 1], Leads(s, d, n, v, w)
  PROVE  Leads(t, d, n - 1, IF About(s[1], d) THEN Brings(s[1]) ELSE v, w)
<1>1. CASE v = w /\ \A i \in 1 .. n : ~About(s[i], d)
  <2>1. ~About(s[1], d) /\ \A i \in 1 .. n - 1 : ~About(t[i], d)
    BY <1>1
  <2> QED BY <1>1, <2>1 DEF Leads
<1>2. ASSUME NEW i \in 1 .. n, About(s[i], d), w = Brings(s[i]), \A j \in i + 1 .. n : ~About(s[j], d)
      PROVE  Leads(t, d, n - 1, IF About(s[1], d) THEN Brings(s[1]) ELSE v, w)
  <2>1. CASE i = 1
    <3>1. \A j \in 1 .. n - 1 : ~About(t[j], d)
      <4> SUFFICES ASSUME NEW j \in 1 .. n - 1
                   PROVE  ~About(t[j], d)
        OBVIOUS
      <4>1. t[j] = s[j + 1] /\ j + 1 \in i + 1 .. n
        BY <2>1
      <4> QED BY <1>2, <4>1
    <3> QED BY <1>2, <2>1, <3>1 DEF Leads
  <2>2. CASE i # 1
    <3>1. i - 1 \in 1 .. n - 1 /\ t[i - 1] = s[i]
      BY <2>2
    <3>2. \A j \in (i - 1) + 1 .. n - 1 : ~About(t[j], d)
      <4> SUFFICES ASSUME NEW j \in (i - 1) + 1 .. n - 1
                   PROVE  ~About(t[j], d)
        OBVIOUS
      <4>1. j \in 1 .. n - 1 /\ t[j] = s[j + 1] /\ j + 1 \in i + 1 .. n
        OBVIOUS
      <4> QED BY <1>2, <4>1
    <3> QED BY <1>2, <3>1, <3>2 DEF Leads
  <2> QED BY <2>1, <2>2
<1> QED BY <1>1, <1>2 DEF Leads

LEMMA LeadsNothing ==
  ASSUME NEW s, NEW d, NEW v, NEW w
  PROVE  Leads(s, d, 0, v, w) <=> v = w
  BY DEF Leads

\* What a pipe is with a message more at its end, and with its first one read.
LEMMA AppendFacts ==
  ASSUME NEW S, NEW s \in Seq(S), NEW m \in S
  PROVE  /\ Append(s, m) \in Seq(S) /\ Len(Append(s, m)) = Len(s) + 1 /\ Len(s) \in Nat
         /\ \A i \in 1 .. Len(s) : Append(s, m)[i] = s[i]
         /\ Append(s, m)[Len(s) + 1] = m /\ s \o <<m>> = Append(s, m)
  OBVIOUS

LEMMA TailFacts ==
  ASSUME NEW S, NEW s \in Seq(S), s # <<>>
  PROVE  /\ Tail(s) \in Seq(S) /\ Len(Tail(s)) = Len(s) - 1 /\ Len(s) \in Nat \ {0}
         /\ Head(s) = s[1] /\ s[1] \in S
         /\ \A i \in 1 .. Len(s) - 1 : Tail(s)[i] = s[i + 1]
  OBVIOUS

-----------------------------------------------------------------------------
(* What the actions are made of.                                           *)

LEMMA SentAt ==
  ASSUME Typed, NEW m \in ToServer, Sent(<<m>>)
  PROVE  /\ up' \in Seq(ToServer)
         /\ connected /\ process = "running" => up' = Append(up, m)
         /\ ~(connected /\ process = "running") => up' = up
<1>1. up \in Seq(ToServer)
  BY DEF Typed
<1>2. up \o <<m>> = Append(up, m) /\ Append(up, m) \in Seq(ToServer)
  BY <1>1, AppendFacts
<1> QED BY <1>1, <1>2 DEF Sent

LEMMA NotNone == {None, Unasked, Waiting} \cap Texts = {} /\ None # Unasked /\ None # Waiting
                 /\ Unasked # Waiting /\ \A w \in [own : Texts, above : Texts \cup {None}] : w # None
  BY NoneAssumption

\* The messages, by their kinds.
LEMMA Kinds ==
  \A m \in ToServer :
    \/ m.kind \in {"open", "change"} /\ m.doc \in Docs /\ m.text \in Texts
    \/ m.kind = "close" /\ m.doc \in Docs
    \/ m.kind = "request" /\ m.doc \in Docs /\ m.id \in Requests
    \/ m.kind = "initialize"
  BY DEF ToServer

\* What one message is answered with.
Answer(m) ==
  CASE m.kind \in {"open", "change"} -> Publish(m.doc, Diagnosed(m.doc, m.text))
    [] m.kind = "close"              -> Publish(m.doc, None)
    [] m.kind = "request"            -> [kind |-> "reply", id |-> m.id, text |-> docs[m.doc]]
    [] OTHER                         -> [kind |-> "reply", id |-> 0, text |-> None]

LEMMA HandledAt ==
  ASSUME Typed, NEW m \in ToServer, Handled(m)
  PROVE  /\ docs' \in [Docs -> Texts \cup {None}]
         /\ \A d \in Docs : docs'[d] = IF About(m, d) THEN Brings(m) ELSE docs[d]
         /\ down' = Append(down, Answer(m)) /\ Answer(m) \in ToClient
<1>1. /\ docs \in [Docs -> Texts \cup {None}] /\ disk \in [Docs -> Texts]
      /\ SharedFile \in Docs /\ MaxRequests \in Nat
  BY LspAssumption DEF Typed, TypeOK, Docs
<1>2. CASE m.kind \in {"open", "change"}
  <2>1. m.doc \in Docs /\ m.text \in Texts
    BY <1>2, Kinds
  <2>2. docs' = [docs EXCEPT ![m.doc] = m.text]
    BY <1>2 DEF Handled
  <2>3. down' = Append(down, Answer(m))
    BY <1>2 DEF Handled, Answer
  <2>4. Diagnosed(m.doc, m.text) \in What
    BY <1>1, <2>1 DEF Diagnosed, TextOf, What
  <2>5. Answer(m) \in ToClient
    BY <1>2, <2>1, <2>4 DEF Answer, Publish, ToClient
  <2> QED BY <1>1, <1>2, <2>1, <2>2, <2>3, <2>5 DEF About, Brings
<1>3. CASE m.kind = "close"
  <2>1. m.doc \in Docs
    BY <1>3, Kinds
  <2>2. docs' = [docs EXCEPT ![m.doc] = None]
    BY <1>3 DEF Handled
  <2>3. down' = Append(down, Answer(m))
    BY <1>3 DEF Handled, Answer
  <2>4. Answer(m) \in ToClient
    BY <1>3, <2>1 DEF Answer, Publish, ToClient, What
  <2> QED BY <1>1, <1>3, <2>1, <2>2, <2>3, <2>4 DEF About, Brings
<1>4. CASE m.kind = "request"
  <2>1. m.doc \in Docs /\ m.id \in 0 .. MaxRequests
    BY <1>1, <1>4, Kinds DEF Requests
  <2>2. docs' = docs /\ down' = Append(down, Answer(m))
    BY <1>4 DEF Handled, Answer
  <2>3. Answer(m) \in ToClient
    BY <1>1, <1>4, <2>1 DEF Answer, ToClient
  <2> QED BY <1>1, <1>4, <2>2, <2>3 DEF About
<1>5. CASE m.kind = "initialize"
  <2>1. docs' = docs /\ down' = Append(down, Answer(m))
    BY <1>5 DEF Handled, Answer
  <2>2. Answer(m) \in ToClient
    BY <1>1, <1>5 DEF Answer, ToClient
  <2> QED BY <1>1, <1>5, <2>1, <2>2 DEF About
<1> QED BY <1>2, <1>3, <1>4, <1>5, Kinds

\* A message from a server is taken, or it is lost in one that never ends.
Taken(m) == Received(m) /\ answered' = TRUE /\ reader' = reader /\ m.kind \in {"publish", "reply"}
Lost(m)  == (m.kind = "half" \/ reader = "inside") /\ UNCHANGED <<answered, shown, requests>>

LEMMA PushAt ==
  ASSUME Typed, NEW m \in ToClient, Push(m)
  PROVE  /\ Taken(m) \/ Lost(m)
         /\ reader' \in {"at", "inside"} /\ answered' \in BOOLEAN /\ asked' = asked
         /\ shown' \in [Docs -> What]
         /\ got' \in [Requests -> Texts \cup {None, Unasked, Waiting}]
         /\ waiting' = {id \in Requests : got'[id] = Waiting}
<1>1. /\ shown \in [Docs -> What] /\ reader \in {"at", "inside"} /\ answered \in BOOLEAN
      /\ got \in [Requests -> Texts \cup {None, Unasked, Waiting}]
      /\ waiting = {id \in Requests : got[id] = Waiting}
  BY DEF Typed, TypeOK
<1>2. \/ m.kind = "publish" /\ m.doc \in Docs /\ m.what \in What
      \/ m.kind = "reply" /\ m.text \in Texts \cup {None}
      \/ m.kind = "half"
  BY DEF ToClient
<1>3. CASE m.kind = "half" \/ reader = "inside"
  <2>1. Lost(m) /\ reader' \in {"at", "inside"}
    BY <1>3 DEF Push, Lost
  <2> QED BY <1>1, <2>1 DEF Lost, requests
<1>4. CASE ~(m.kind = "half" \/ reader = "inside")
  <2>1. Received(m) /\ answered' = TRUE /\ reader' = reader
    BY <1>4 DEF Push
  <2>2. Taken(m)
    BY <1>2, <1>4, <2>1 DEF Taken
  <2>3. CASE m.kind = "publish"
    <3>1. shown' = [shown EXCEPT ![m.doc] = m.what] /\ UNCHANGED requests
      BY <2>1, <2>3 DEF Received
    <3> QED BY <1>1, <1>2, <2>1, <2>2, <2>3, <3>1 DEF requests
  <2>4. CASE m.kind = "reply"
    <3>1. /\ waiting' = waiting \ {m.id} /\ UNCHANGED <<shown, asked>>
          /\ got' = IF m.id \in waiting THEN [got EXCEPT ![m.id] = m.text] ELSE got
      BY <2>1, <2>4 DEF Received
    <3>2. m.text \in Texts \cup {None} /\ m.text # Waiting
      BY <1>2, <2>4, NotNone
    <3>3. got' \in [Requests -> Texts \cup {None, Unasked, Waiting}]
      BY <1>1, <3>1, <3>2
    <3>4. waiting' = {id \in Requests : got'[id] = Waiting}
      BY <1>1, <3>1, <3>2
    <3> QED BY <1>1, <2>1, <2>2, <3>1, <3>3, <3>4
  <2> QED BY <1>2, <1>4, <2>3, <2>4
<1> QED BY <1>3, <1>4

-----------------------------------------------------------------------------
(* Type correctness.                                                       *)

\* The documents of a session that begins, or begins again, in some order.
LEMMA OpeningAt ==
  ASSUME open \in [Docs -> BOOLEAN], buffer \in [Docs -> Texts], NEW q \in InSomeOrder
  PROVE  /\ Opening(q) \in Seq(ToServer) /\ Len(Opening(q)) \in Nat
         /\ \A i \in 1 .. Len(Opening(q)) :
              \/ Opening(q)[i] = [kind |-> "initialize"]
              \/ \E d \in OpenDocs : Opening(q)[i] = Message("open", d, buffer[d])
         /\ \A d \in OpenDocs : \E i \in 1 .. Len(Opening(q)) :
              /\ Opening(q)[i] = Message("open", d, buffer[d])
              /\ \A j \in 1 .. Len(Opening(q)) : j # i => ~About(Opening(q)[j], d)
<1> DEFINE n == Cardinality(OpenDocs)
           opens == [i \in 1 .. Len(q) |-> Message("open", q[i], buffer[q[i]])]
<1>1. n \in Nat /\ IsFiniteSet(OpenDocs)
  <2>1. IsFiniteSet(Docs)
    BY LspAssumption, FS_AddElement DEF Docs
  <2>2. IsFiniteSet(OpenDocs)
    BY <2>1, FS_Subset DEF OpenDocs
  <2> QED BY <2>2, FS_CardinalityType
<1>2. q \in [1 .. n -> OpenDocs] /\ \A d \in OpenDocs : \E i \in 1 .. n : q[i] = d
  BY DEF InSomeOrder
<1>3. Len(q) = n
  BY <1>1, <1>2
<1>4. \A i, j \in 1 .. n : i # j => q[i] # q[j]
  <2>1. q \in Surjection(1 .. n, OpenDocs)
    BY <1>2 DEF Surjection
  <2>2. IsFiniteSet(1 .. n) /\ Cardinality(1 .. n) = n
    BY <1>1, FS_Interval
  <2>3. q \in Injection(1 .. n, OpenDocs)
    BY <2>1, <2>2, FS_Surjection
  <2> QED BY <1>2, <2>3 DEF Injection, IsInjective
<1>5. \A d \in OpenDocs : d \in Docs /\ Message("open", d, buffer[d]) \in ToServer
  BY DEF OpenDocs, Message, ToServer
<1> HIDE DEF n
<1>6. opens \in Seq(ToServer) /\ Len(opens) = n /\ \A i \in 1 .. n : opens[i] = Message("open", q[i], buffer[q[i]])
  BY <1>1, <1>2, <1>3, <1>5
<1>7. [kind |-> "initialize"] \in ToServer
  BY DEF ToServer
<1>8. Opening(q) = <<[kind |-> "initialize"]>> \o opens
  BY DEF Opening
<1> HIDE DEF opens
<1>9. Opening(q) \in Seq(ToServer) /\ Len(Opening(q)) = n + 1
  BY <1>1, <1>6, <1>7, <1>8
<1>10. Opening(q)[1] = [kind |-> "initialize"] /\ \A i \in 1 .. n : Opening(q)[i + 1] = opens[i]
  BY <1>1, <1>6, <1>7, <1>8
<1>11. ASSUME NEW i \in 1 .. Len(Opening(q))
       PROVE  \/ Opening(q)[i] = [kind |-> "initialize"]
              \/ \E d \in OpenDocs : Opening(q)[i] = Message("open", d, buffer[d])
  <2>1. CASE i = 1
    BY <1>10, <2>1
  <2>2. CASE i # 1
    <3>1. i - 1 \in 1 .. n /\ (i - 1) + 1 = i
      BY <1>1, <1>9, <2>2
    <3>2. Opening(q)[i] = opens[i - 1]
      BY <1>10, <3>1
    <3>3. Opening(q)[i] = Message("open", q[i - 1], buffer[q[i - 1]]) /\ q[i - 1] \in OpenDocs
      BY <1>2, <1>6, <3>1, <3>2
    <3> QED BY <3>3
  <2> QED BY <2>1, <2>2
<1>12. ASSUME NEW d \in OpenDocs
       PROVE  \E i \in 1 .. Len(Opening(q)) :
                /\ Opening(q)[i] = Message("open", d, buffer[d])
                /\ \A j \in 1 .. Len(Opening(q)) : j # i => ~About(Opening(q)[j], d)
  <2>1. PICK i \in 1 .. n : q[i] = d
    BY <1>2
  <2>2. i + 1 \in 1 .. Len(Opening(q)) /\ Opening(q)[i + 1] = Message("open", d, buffer[d])
    BY <1>1, <1>6, <1>9, <1>10, <2>1
  <2>3. ASSUME NEW j \in 1 .. Len(Opening(q)), j # i + 1
        PROVE  ~About(Opening(q)[j], d)
    <3>1. CASE j = 1
      BY <1>10, <3>1 DEF About
    <3>2. CASE j # 1
      <4>1. j - 1 \in 1 .. n /\ (j - 1) + 1 = j /\ j - 1 # i
        BY <1>1, <1>9, <2>3, <3>2
      <4>2. Opening(q)[j] = Message("open", q[j - 1], buffer[q[j - 1]])
        BY <1>6, <1>10, <4>1
      <4>3. q[j - 1] # d
        BY <1>4, <2>1, <4>1
      <4> QED BY <4>2, <4>3 DEF About, Message
    <3> QED BY <3>1, <3>2
  <2> QED BY <2>2, <2>3
<1> QED BY <1>1, <1>9, <1>11, <1>12

LEMMA InitTyped == Init => Typed
<1> SUFFICES ASSUME Init
             PROVE  Typed
  OBVIOUS
<1>1. MaxEdits \in Nat /\ 0 \in Texts
  BY LspAssumption DEF Texts
<1>2. TypeOK
  BY <1>1, NotNone DEF Init, TypeOK
<1>3. up \in Seq(ToServer)
  BY <1>2, OpeningAt DEF Init, TypeOK
<1>4. down \in Seq(ToClient) /\ old \in Seq(ToClient)
  BY DEF Init
<1>5. shown \in [Docs -> What] /\ asked \in [Requests -> Texts \cup {None}] /\ edits \in 0 .. MaxEdits
  BY <1>1 DEF Init, What
<1> QED BY <1>2, <1>3, <1>4, <1>5 DEF Typed

\* The editor's actions.
LEMMA EditorTyped ==
  ASSUME Typed, NEW d \in Docs, Open(d) \/ Type(d) \/ Save(d) \/ Close(d)
  PROVE  Typed'
<1>1. /\ open \in [Docs -> BOOLEAN] /\ buffer \in [Docs -> Texts] /\ disk \in [Docs -> Texts]
      /\ edits \in 0 .. MaxEdits /\ up \in Seq(ToServer) /\ MaxEdits \in Nat
  BY LspAssumption DEF Typed, TypeOK
<1>2. /\ open' \in [Docs -> BOOLEAN] /\ buffer' \in [Docs -> Texts] /\ disk' \in [Docs -> Texts]
      /\ edits' \in 0 .. MaxEdits
  <2>1. CASE Open(d)
    BY <1>1, <2>1 DEF Open
  <2>2. CASE Type(d)
    <3>1. edits + 1 \in Texts /\ edits + 1 \in 0 .. MaxEdits
      BY <1>1, <2>2 DEF Type, Texts
    <3> QED BY <1>1, <2>2, <3>1 DEF Type
  <2>3. CASE Save(d)
    BY <1>1, <2>3 DEF Save
  <2>4. CASE Close(d)
    BY <1>1, <2>4 DEF Close
  <2> QED BY <2>1, <2>2, <2>3, <2>4
<1>3. UNCHANGED <<docs, down, old, reader, late, process, server, client, requests>>
  BY DEF Open, Type, Save, Close, wire
<1>4. up' \in Seq(ToServer)
  <2>1. CASE Open(d)
    <3>1. Message("open", d, disk[d]) \in ToServer
      BY <1>1 DEF Message, ToServer
    <3> QED BY <2>1, <3>1, SentAt DEF Open
  <2>2. CASE Type(d)
    <3>1. edits + 1 \in Texts
      BY <1>1, <2>2 DEF Type, Texts
    <3>2. Message("change", d, edits + 1) \in ToServer
      BY <3>1 DEF Message, ToServer
    <3> QED BY <2>2, <3>2, SentAt DEF Type
  <2>3. CASE Save(d)
    BY <1>1, <2>3 DEF Save, wire
  <2>4. CASE Close(d)
    <3>1. [kind |-> "close", doc |-> d] \in ToServer
      BY DEF ToServer
    <3> QED BY <2>4, <3>1, SentAt DEF Close
  <2> QED BY <2>1, <2>2, <2>3, <2>4
<1> QED BY <1>2, <1>3, <1>4 DEF Typed, TypeOK, client, requests

LEMMA AskTyped ==
  ASSUME Typed, NEW d \in Docs, Ask(d)
  PROVE  Typed'
<1>1. /\ buffer \in [Docs -> Texts] /\ asked \in [Requests -> Texts \cup {None}]
      /\ got \in [Requests -> Texts \cup {None, Unasked, Waiting}]
      /\ waiting = {id \in Requests : got[id] = Waiting} /\ up \in Seq(ToServer)
  BY DEF Typed, TypeOK
<1>2. UNCHANGED <<editor, docs, down, old, reader, late, process, server, client>>
  BY DEF Ask
<1>3. PICK id \in Requests :
        /\ got[id] = Unasked
        /\ asked' = [asked EXCEPT ![id] = buffer[d]]
        /\ IF connected
             THEN /\ waiting' = waiting \cup {id}
                  /\ got' = [got EXCEPT ![id] = Waiting]
                  /\ Sent(<<[kind |-> "request", id |-> id, doc |-> d]>>)
             ELSE got' = [got EXCEPT ![id] = None] /\ UNCHANGED <<waiting, up>>
  BY DEF Ask
<1>4. asked' \in [Requests -> Texts \cup {None}]
  BY <1>1, <1>3
<1>5. got' \in [Requests -> Texts \cup {None, Unasked, Waiting}]
  BY <1>1, <1>3
<1>6. waiting' = {i \in Requests : got'[i] = Waiting}
  BY <1>1, <1>3, NotNone
<1>7. up' \in Seq(ToServer)
  <2>1. [kind |-> "request", id |-> id, doc |-> d] \in ToServer
    BY DEF ToServer
  <2> QED BY <1>1, <1>3, <2>1, SentAt
<1> QED BY <1>2, <1>4, <1>5, <1>6, <1>7 DEF Typed, TypeOK, editor, client

LEMMA TimeOutTyped ==
  ASSUME Typed, NEW id \in Requests, TimeOut(id)
  PROVE  Typed'
<1>1. /\ got \in [Requests -> Texts \cup {None, Unasked, Waiting}]
      /\ waiting = {i \in Requests : got[i] = Waiting}
  BY DEF Typed, TypeOK
<1>2. /\ got' \in [Requests -> Texts \cup {None, Unasked, Waiting}]
      /\ waiting' = {i \in Requests : got'[i] = Waiting}
  BY <1>1, NotNone DEF TimeOut
<1> QED BY <1>2 DEF TimeOut, Typed, TypeOK, editor, wire, client

LEMMA ServeTyped ==
  ASSUME Typed, Serve
  PROVE  Typed'
<1>1. up \in Seq(ToServer) /\ up # <<>> /\ down \in Seq(ToClient)
  BY DEF Typed, Serve
<1>2. Head(up) \in ToServer /\ up' \in Seq(ToServer)
  BY <1>1 DEF Serve
<1>3. docs' \in [Docs -> Texts \cup {None}] /\ down' \in Seq(ToClient)
  <2>1. Handled(Head(up))
    BY DEF Serve
  <2>2. docs' \in [Docs -> Texts \cup {None}] /\ down' = Append(down, Answer(Head(up)))
        /\ Answer(Head(up)) \in ToClient
    BY <1>2, <2>1, HandledAt
  <2> QED BY <1>1, <2>2
<1> QED BY <1>2, <1>3 DEF Serve, Typed, TypeOK, editor, client, requests

LEMMA DieTyped ==
  ASSUME Typed, Die
  PROVE  Typed'
<1>1. down \in Seq(ToClient) /\ [kind |-> "half"] \in ToClient
  BY DEF Typed, ToClient
<1>2. down' \in Seq(ToClient)
  BY <1>1 DEF Die
<1>3. up' \in Seq(ToServer) /\ docs' \in [Docs -> Texts \cup {None}] /\ process' = "dead"
  BY DEF Die
<1> QED BY <1>2, <1>3 DEF Die, Typed, TypeOK, editor, client, requests

LEMMA ReadTyped ==
  ASSUME Typed, Receive \/ ReceiveLate
  PROVE  Typed'
<1>1. CASE Receive
  <2>1. down \in Seq(ToClient) /\ down # <<>>
    BY <1>1 DEF Typed, Receive
  <2>2. Head(down) \in ToClient /\ down' \in Seq(ToClient) /\ Push(Head(down))
    BY <1>1, <2>1 DEF Receive
  <2> QED BY <1>1, <2>2, PushAt DEF Receive, Typed, TypeOK, editor
<1>2. CASE ReceiveLate
  <2>1. old \in Seq(ToClient) /\ old # <<>>
    BY <1>2 DEF Typed, ReceiveLate
  <2>2. Head(old) \in ToClient /\ old' \in Seq(ToClient) /\ Push(Head(old))
    BY <1>2, <2>1 DEF ReceiveLate
  <2> QED BY <1>2, <2>2, PushAt DEF ReceiveLate, Typed, TypeOK, editor
<1> QED BY <1>1, <1>2

LEMMA FallBackTyped ==
  ASSUME Typed, FallBack
  PROVE  Typed'
<1>1. /\ down \in Seq(ToClient) /\ old \in Seq(ToClient) /\ up \in Seq(ToServer)
      /\ open \in [Docs -> BOOLEAN] /\ buffer \in [Docs -> Texts]
  BY DEF Typed, TypeOK
<1>2. down' \in Seq(ToClient) /\ old' \in Seq(ToClient)
  BY <1>1 DEF FallBack
<1>3. up' \in Seq(ToServer)
  BY <1>1, OpeningAt DEF FallBack
<1>4. /\ process' \in {"running", "dead"} /\ server' \in {"run", "legacy"} /\ reader' \in {"at", "inside"}
      /\ fellBack' \in BOOLEAN /\ connected' \in BOOLEAN
  BY DEF FallBack, Typed, TypeOK
<1> QED BY <1>2, <1>3, <1>4 DEF FallBack, Typed, TypeOK, editor, requests

LEMMA StepTyped == Typed /\ [Next]_vars => Typed'
<1> SUFFICES ASSUME Typed, [Next]_vars
             PROVE  Typed'
  OBVIOUS
<1>1. CASE UNCHANGED vars
  BY <1>1 DEF vars, editor, wire, client, requests, Typed, TypeOK
<1> QED BY <1>1, EditorTyped, AskTyped, TimeOutTyped, ServeTyped, DieTyped, ReadTyped, FallBackTyped
        DEF Next, Editor, Client

\* No step leaves the types: in particular the promises that are still waiting are
\* exactly the requests that were neither answered nor given up on.
THEOREM TypeCorrect == Spec => []TypeOK
<1>1. Spec => []Typed
  BY InitTyped, StepTyped, PTL DEF Spec
<1>2. Typed => TypeOK
  BY DEF Typed
<1> QED BY <1>1, <1>2, PTL

-----------------------------------------------------------------------------
(* The server's copies.                                                    *)

LEMMA StepStanding == Typed /\ Standing /\ [Next]_vars => Standing'
<1> SUFFICES ASSUME Typed, Standing, [Next]_vars
             PROVE  Standing'
  OBVIOUS
<1>1. process \in {"running", "dead"}
  BY DEF Typed, TypeOK
<1>2. ASSUME UNCHANGED <<docs, process, connected>>, process = "dead" => up' = up
      PROVE  Standing'
  BY <1>2 DEF Standing
<1>3. CASE UNCHANGED vars
  BY <1>2, <1>3 DEF vars, wire, client
<1>4. ASSUME NEW d \in Docs, Open(d) \/ Type(d) \/ Save(d) \/ Close(d) \/ Ask(d)
      PROVE  Standing'
  BY <1>2, <1>4 DEF Open, Type, Save, Close, Ask, Sent, client, wire
<1>5. CASE Serve
  BY <1>5 DEF Serve, Standing, client
<1>6. CASE Die
  BY <1>6 DEF Die, Standing
<1>7. CASE FallBack
  BY <1>7 DEF FallBack, Standing
<1>8. CASE Receive \/ ReceiveLate \/ \E id \in Requests : TimeOut(id)
  BY <1>2, <1>8 DEF Receive, ReceiveLate, TimeOut, client, wire
<1> QED BY <1>3, <1>4, <1>5, <1>6, <1>7, <1>8 DEF Next, Editor, Client

\* The server is told of something, which says what the editor has from then on.
LEMMA Told ==
  ASSUME Typed, Tracks, process = "running", NEW m \in ToServer, up' = Append(up, m), docs' = docs,
         \A d \in Docs : IF About(m, d) THEN Now(d)' = Brings(m) ELSE Now(d)' = Now(d)
  PROVE  Tracks'
<1>1. /\ up \in Seq(ToServer) /\ Len(up) \in Nat /\ Len(up') = Len(up) + 1
      /\ \A i \in 1 .. Len(up) : up'[i] = up[i]
      /\ up'[Len(up) + 1] = m
  <2>1. up \in Seq(ToServer)
    BY DEF Typed
  <2> QED BY <2>1, AppendFacts
<1>2. ASSUME NEW d \in Docs
      PROVE  Leads(up', d, Len(up) + 1, docs[d], Now(d)')
  <2>1. CASE About(m, d)
    BY <1>1, <2>1, LeadsTo
  <2>2. CASE ~About(m, d)
    <3>1. Leads(up, d, Len(up), docs[d], Now(d))
      BY DEF Tracks
    <3>2. Leads(up', d, Len(up), docs[d], Now(d))
      BY <1>1, <3>1, LeadsSame
    <3>3. Leads(up', d, Len(up) + 1, docs[d], Now(d))
      BY <1>1, <2>2, <3>2, LeadsPast
    <3> QED BY <2>2, <3>3
  <2> QED BY <2>1, <2>2
<1> QED BY <1>1, <1>2 DEF Tracks

\* What is typed, opened and closed is told.
LEMMA EditorTracks ==
  ASSUME Typed, Standing, Tracks, NEW d \in Docs, Open(d) \/ Type(d) \/ Save(d) \/ Close(d) \/ Ask(d)
  PROVE  Tracks'
<1>1. /\ open \in [Docs -> BOOLEAN] /\ buffer \in [Docs -> Texts] /\ disk \in [Docs -> Texts]
      /\ edits \in 0 .. MaxEdits /\ MaxEdits \in Nat
  BY LspAssumption DEF Typed, TypeOK
<1>2. process' = process /\ docs' = docs
  BY DEF Open, Type, Save, Close, Ask
<1> SUFFICES ASSUME process = "running"
             PROVE  Tracks'
  BY <1>2 DEF Tracks
<1>3. connected
  BY DEF Standing
<1>4. CASE Open(d)
  <2> DEFINE m == Message("open", d, disk[d])
  <2>1. m \in ToServer
    BY <1>1 DEF Message, ToServer
  <2>2. up' = Append(up, m)
    BY <1>3, <1>4, <2>1, SentAt DEF Open
  <2>3. \A e \in Docs : IF About(m, e) THEN Now(e)' = Brings(m) ELSE Now(e)' = Now(e)
    BY <1>1, <1>4 DEF Open, About, Brings, Message, Now
  <2> HIDE DEF m
  <2> QED BY <1>2, <2>1, <2>2, <2>3, Told
<1>5. CASE Type(d)
  <2> DEFINE m == Message("change", d, edits + 1)
  <2>1. m \in ToServer
    BY <1>1, <1>5 DEF Type, Message, ToServer, Texts
  <2>2. up' = Append(up, m)
    BY <1>3, <1>5, <2>1, SentAt DEF Type
  <2>3. \A e \in Docs : IF About(m, e) THEN Now(e)' = Brings(m) ELSE Now(e)' = Now(e)
    BY <1>1, <1>5 DEF Type, About, Brings, Message, Now
  <2> HIDE DEF m
  <2> QED BY <1>2, <2>1, <2>2, <2>3, Told
<1>6. CASE Close(d)
  <2> DEFINE m == [kind |-> "close", doc |-> d]
  <2>1. m \in ToServer
    BY DEF ToServer
  <2>2. up' = Append(up, m)
    BY <1>3, <1>6, <2>1, SentAt DEF Close
  <2>3. \A e \in Docs : IF About(m, e) THEN Now(e)' = Brings(m) ELSE Now(e)' = Now(e)
    BY <1>1, <1>6 DEF Close, About, Brings, Now
  <2> HIDE DEF m
  <2> QED BY <1>2, <2>1, <2>2, <2>3, Told
<1>7. CASE Save(d)
  <2>1. UNCHANGED <<up, docs, open, buffer, process>>
    BY <1>7 DEF Save, wire
  <2> QED BY <2>1 DEF Tracks, Now
<1>8. CASE Ask(d)
  <2>1. PICK id \in Requests : Sent(<<[kind |-> "request", id |-> id, doc |-> d]>>)
    BY <1>3, <1>8 DEF Ask
  <2> DEFINE m == [kind |-> "request", id |-> id, doc |-> d]
  <2>2. m \in ToServer
    BY DEF ToServer
  <2>3. up' = Append(up, m)
    BY <1>3, <2>1, <2>2, SentAt
  <2>4. \A e \in Docs : ~About(m, e) /\ Now(e)' = Now(e)
    BY <1>8 DEF Ask, editor, About, Now
  <2> HIDE DEF m
  <2> QED BY <1>2, <2>2, <2>3, <2>4, Told
<1> QED BY <1>4, <1>5, <1>6, <1>7, <1>8

\* The server reads a message, and has what it brings.
LEMMA ServeTracks ==
  ASSUME Typed, Tracks, Serve
  PROVE  Tracks'
<1>1. up \in Seq(ToServer) /\ up # <<>> /\ process = "running"
  BY DEF Typed, Serve
<1>2. /\ Len(up) \in Nat \ {0} /\ Len(up') = Len(up) - 1 /\ up[1] \in ToServer
      /\ \A i \in 1 .. Len(up) - 1 : up'[i] = up[i + 1]
      /\ Head(up) = up[1]
  BY <1>1, TailFacts DEF Serve
<1>3. \A d \in Docs : docs'[d] = IF About(up[1], d) THEN Brings(up[1]) ELSE docs[d]
  BY <1>2, HandledAt DEF Serve
<1>4. ASSUME NEW d \in Docs
      PROVE  Leads(up', d, Len(up) - 1, docs'[d], Now(d))
  <2>1. Leads(up, d, Len(up), docs[d], Now(d))
    BY <1>1 DEF Tracks
  <2>2. Leads(up', d, Len(up) - 1, IF About(up[1], d) THEN Brings(up[1]) ELSE docs[d], Now(d))
    BY <1>2, <2>1, LeadsRest
  <2> QED BY <1>3, <2>2
<1>5. UNCHANGED <<open, buffer>>
  BY DEF Serve, editor
<1> QED BY <1>2, <1>4, <1>5 DEF Tracks, Now

\* A session that begins: every open document is told once, to a server that has none.
LEMMA OpeningTracks ==
  ASSUME open \in [Docs -> BOOLEAN], buffer \in [Docs -> Texts], NEW q \in InSomeOrder, NEW d \in Docs
  PROVE  Leads(Opening(q), d, Len(Opening(q)), None, Now(d))
<1> DEFINE s == Opening(q)
<1>1. /\ Len(s) \in Nat
      /\ \A i \in 1 .. Len(s) : \/ s[i] = [kind |-> "initialize"]
                                \/ \E e \in OpenDocs : s[i] = Message("open", e, buffer[e])
      /\ \A e \in OpenDocs : \E i \in 1 .. Len(s) :
           s[i] = Message("open", e, buffer[e]) /\ \A j \in 1 .. Len(s) : j # i => ~About(s[j], e)
  BY OpeningAt
<1> HIDE DEF s
<1>2. ASSUME NEW i \in 1 .. Len(s), About(s[i], d)
      PROVE  open[d] /\ Brings(s[i]) = buffer[d]
  <2>1. s[i] # [kind |-> "initialize"]
    BY <1>2 DEF About
  <2>2. PICK e \in OpenDocs : s[i] = Message("open", e, buffer[e])
    BY <1>1, <2>1
  <2>3. e = d
    BY <1>2, <2>2 DEF About, Message
  <2> QED BY <2>2, <2>3 DEF Brings, Message, OpenDocs
<1>3. CASE ~open[d]
  <2>1. \A i \in 1 .. Len(s) : ~About(s[i], d)
    BY <1>2, <1>3
  <2> QED BY <1>3, <2>1 DEF Leads, Now, s
<1>4. CASE open[d]
  <2>1. PICK i \in 1 .. Len(s) : /\ s[i] = Message("open", d, buffer[d])
                               /\ \A j \in 1 .. Len(s) : j # i => ~About(s[j], d)
    BY <1>1, <1>4 DEF OpenDocs
  <2>2. About(s[i], d) /\ Brings(s[i]) = buffer[d]
    BY <2>1 DEF About, Brings, Message
  <2>3. \A j \in i + 1 .. Len(s) : ~About(s[j], d)
    BY <1>1, <2>1
  <2> QED BY <1>4, <2>2, <2>3 DEF Leads, Now, s
<1> QED BY <1>3, <1>4

LEMMA StepTracks == Typed /\ Standing /\ Tracks /\ [Next]_vars => Tracks'
<1> SUFFICES ASSUME Typed, Standing, Tracks, [Next]_vars
             PROVE  Tracks'
  OBVIOUS
<1>1. ASSUME UNCHANGED <<open, buffer, docs, up, process>>
      PROVE  Tracks'
  BY <1>1 DEF Tracks, Now
<1>2. CASE UNCHANGED vars
  BY <1>1, <1>2 DEF vars, editor, wire
<1>3. CASE Receive \/ ReceiveLate \/ \E id \in Requests : TimeOut(id)
  BY <1>1, <1>3 DEF Receive, ReceiveLate, TimeOut, editor, wire
<1>4. CASE Die
  BY <1>4 DEF Die, Tracks
<1>5. CASE FallBack
  <2>1. UNCHANGED <<open, buffer, docs>> /\ docs = [d \in Docs |-> None]
    BY <1>5 DEF FallBack, editor, Standing
  <2>2. CASE process' = "running"
    <3>1. PICK q \in InSomeOrder : up' = Opening(q)
      BY <1>5, <2>2 DEF FallBack
    <3>2. \A d \in Docs : Leads(up', d, Len(up'), None, Now(d))
      BY <3>1, OpeningTracks DEF Typed, TypeOK
    <3> QED BY <2>1, <3>2 DEF Tracks, Now
  <2>3. CASE process' # "running"
    BY <2>3 DEF Tracks
  <2> QED BY <2>2, <2>3
<1> QED BY <1>2, <1>3, <1>4, <1>5, EditorTracks, ServeTracks DEF Next, Editor, Client

LEMMA InitTracks == Init => Standing /\ Tracks
<1> SUFFICES ASSUME Init
             PROVE  Standing /\ Tracks
  OBVIOUS
<1>1. open \in [Docs -> BOOLEAN] /\ buffer \in [Docs -> Texts]
  BY InitTyped DEF Typed, TypeOK
<1>2. PICK q \in InSomeOrder : up = Opening(q)
  BY DEF Init
<1>3. \A d \in Docs : Leads(up, d, Len(up), docs[d], Now(d))
  BY <1>1, <1>2, OpeningTracks DEF Init
<1> QED BY <1>3 DEF Init, Standing, Tracks

\* A server that has read everything has the editor's documents, as the editor has them.
THEOREM InStepAlways == Spec => []InStep
<1>1. Spec => [](Typed /\ Standing /\ Tracks)
  BY InitTyped, InitTracks, StepTyped, StepStanding, StepTracks, PTL DEF Spec
<1>2. Typed /\ Tracks => InStep
  <2> SUFFICES ASSUME Typed, Tracks, Serving
               PROVE  docs = [d \in Docs |-> Now(d)]
    BY DEF InStep, Now
  <2>1. Len(up) = 0 /\ process = "running" /\ docs \in [Docs -> Texts \cup {None}]
    BY DEF Serving, Typed, TypeOK
  <2>2. \A d \in Docs : docs[d] = Now(d)
    BY <2>1, LeadsNothing DEF Tracks
  <2> QED BY <2>1, <2>2
<1> QED BY <1>1, <1>2, PTL

-----------------------------------------------------------------------------
(* Questions and answers.                                                  *)

\* What was asked is never asked again, about another text.
AskedOnce == \A id \in Requests : got[id] # Unasked => got'[id] # Unasked /\ asked'[id] = asked[id]

LEMMA StepAskedOnce == Typed /\ [Next]_vars => AskedOnce
<1> SUFFICES ASSUME Typed, [Next]_vars
             PROVE  AskedOnce
  OBVIOUS
<1>1. /\ got \in [Requests -> Texts \cup {None, Unasked, Waiting}] /\ asked \in [Requests -> Texts \cup {None}]
      /\ down \in Seq(ToClient) /\ old \in Seq(ToClient)
  BY DEF Typed, TypeOK
<1>2. ASSUME UNCHANGED <<got, asked>>
      PROVE  AskedOnce
  BY <1>2 DEF AskedOnce
<1>3. CASE UNCHANGED vars
  BY <1>2, <1>3 DEF vars, requests
<1>4. CASE Serve \/ Die \/ FallBack \/ \E d \in Docs : Open(d) \/ Type(d) \/ Save(d) \/ Close(d)
  BY <1>2, <1>4 DEF Serve, Die, FallBack, Open, Type, Save, Close, requests
<1>5. ASSUME NEW d \in Docs, Ask(d)
      PROVE  AskedOnce
  <2>1. PICK id \in Requests : got[id] = Unasked /\ asked' = [asked EXCEPT ![id] = buffer[d]]
                               /\ got' \in {[got EXCEPT ![id] = Waiting], [got EXCEPT ![id] = None]}
    BY <1>5 DEF Ask
  <2> QED BY <1>1, <2>1 DEF AskedOnce
<1>6. ASSUME NEW id \in Requests, TimeOut(id)
      PROVE  AskedOnce
  BY <1>1, <1>6, NotNone DEF TimeOut, AskedOnce
<1>7. ASSUME NEW m \in ToClient, Push(m)
      PROVE  AskedOnce
  <2>1. CASE Lost(m)
    BY <1>2, <2>1, PushAt DEF Lost, requests
  <2>2. CASE Taken(m)
    <3>1. got' = got \/ (got' = [got EXCEPT ![m.id] = m.text] /\ m.kind = "reply")
      BY <2>2 DEF Taken, Received, requests
    <3>2. asked' = asked /\ (m.kind = "reply" => m.text # Unasked)
      BY <1>7, NotNone, PushAt DEF ToClient
    <3> QED BY <1>1, <3>1, <3>2 DEF AskedOnce
  <2> QED BY <1>7, <2>1, <2>2, PushAt
<1>8. CASE Receive \/ ReceiveLate
  <2>1. \E m \in ToClient : Push(m)
    BY <1>1, <1>8, TailFacts DEF Receive, ReceiveLate
  <2> QED BY <1>7, <2>1
<1> QED BY <1>3, <1>4, <1>5, <1>6, <1>8 DEF Next, Editor, Client

\* Answers on their way: as they are, with one more, with the first one read, and
\* behind those of a server given up on.
LEMMA RepliesStay ==
  ASSUME Typed, AskedOnce, NEW s \in Seq(ToClient), Replies(s, got, asked)
  PROVE  Replies(s, got', asked')
<1> SUFFICES ASSUME NEW i \in 1 .. Len(s), s[i].kind = "reply", s[i].id # 0
             PROVE  got'[s[i].id] # Unasked /\ s[i].text = asked'[s[i].id]
  BY DEF Replies
<1>1. s[i] \in ToClient /\ MaxRequests \in Nat
  BY LspAssumption
<1>2. s[i].id \in Requests
  BY <1>1 DEF ToClient, Requests
<1> QED BY <1>2 DEF Replies, AskedOnce

LEMMA RepliesAppend ==
  ASSUME NEW s \in Seq(ToClient), NEW m \in ToClient, NEW g, NEW texts, Replies(s, g, texts),
         m.kind = "reply" /\ m.id # 0 => g[m.id] # Unasked /\ m.text = texts[m.id]
  PROVE  Replies(Append(s, m), g, texts)
<1> DEFINE t == Append(s, m)
<1>1. Len(t) = Len(s) + 1 /\ Len(s) \in Nat /\ t[Len(s) + 1] = m /\ \A i \in 1 .. Len(s) : t[i] = s[i]
  BY AppendFacts
<1> HIDE DEF t
<1>2. ASSUME NEW i \in 1 .. Len(t), t[i].kind = "reply", t[i].id # 0
      PROVE  g[t[i].id] # Unasked /\ t[i].text = texts[t[i].id]
  <2>1. CASE i = Len(s) + 1
    BY <1>1, <1>2, <2>1
  <2>2. CASE i # Len(s) + 1
    <3>1. i \in 1 .. Len(s) /\ t[i] = s[i]
      BY <1>1, <2>2
    <3> QED BY <1>2, <3>1 DEF Replies
  <2> QED BY <2>1, <2>2
<1>3. Replies(t, g, texts)
  BY <1>2 DEF Replies
<1> QED BY <1>3 DEF t

LEMMA RepliesTail ==
  ASSUME NEW s \in Seq(ToClient), s # <<>>, NEW g, NEW texts, Replies(s, g, texts)
  PROVE  Replies(Tail(s), g, texts)
<1>1. Len(Tail(s)) = Len(s) - 1 /\ Len(s) \in Nat \ {0} /\ \A i \in 1 .. Len(s) - 1 : Tail(s)[i] = s[i + 1]
  BY TailFacts
<1>2. \A i \in 1 .. Len(Tail(s)) : i + 1 \in 1 .. Len(s) /\ Tail(s)[i] = s[i + 1]
  BY <1>1
<1> QED BY <1>2 DEF Replies

LEMMA RepliesConcat ==
  ASSUME NEW s \in Seq(ToClient), NEW t \in Seq(ToClient), NEW g, NEW texts,
         Replies(s, g, texts), Replies(t, g, texts)
  PROVE  Replies(s \o t, g, texts)
<1>1. \A i \in 1 .. Len(s \o t) : \/ i \in 1 .. Len(s) /\ (s \o t)[i] = s[i]
                                  \/ i - Len(s) \in 1 .. Len(t) /\ (s \o t)[i] = t[i - Len(s)]
  OBVIOUS
<1> QED BY <1>1 DEF Replies

\* Questions on their way: as they are, with a message more behind them, and with one read.
LEMMA QuestionsStay ==
  ASSUME Typed, AskedOnce, Questions(up, docs, got, asked)
  PROVE  Questions(up, docs, got', asked')
<1> SUFFICES ASSUME NEW i \in 1 .. Len(up), up[i].kind = "request"
             PROVE  /\ got'[up[i].id] # Unasked
                    /\ Leads(up, up[i].doc, i - 1, docs[up[i].doc], asked'[up[i].id])
  BY DEF Questions
<1>1. up[i] \in ToServer
  BY DEF Typed
<1>2. up[i].id \in Requests
  BY <1>1, Kinds
<1> QED BY <1>2 DEF Questions, AskedOnce

LEMMA QuestionsAppend ==
  ASSUME NEW s \in Seq(ToServer), NEW m \in ToServer, NEW copies, NEW g, NEW texts,
         Questions(s, copies, g, texts),
         m.kind = "request" => /\ g[m.id] # Unasked
                               /\ Leads(s, m.doc, Len(s), copies[m.doc], texts[m.id])
  PROVE  Questions(Append(s, m), copies, g, texts)
<1> DEFINE t == Append(s, m)
<1>1. Len(t) = Len(s) + 1 /\ Len(s) \in Nat /\ t[Len(s) + 1] = m /\ \A i \in 1 .. Len(s) : t[i] = s[i]
  BY AppendFacts
<1> HIDE DEF t
<1>2. ASSUME NEW i \in 1 .. Len(t), t[i].kind = "request"
      PROVE  g[t[i].id] # Unasked /\ Leads(t, t[i].doc, i - 1, copies[t[i].doc], texts[t[i].id])
  <2>1. i - 1 \in Nat /\ \A j \in 1 .. i - 1 : t[j] = s[j]
    BY <1>1
  <2>2. g[t[i].id] # Unasked /\ Leads(s, t[i].doc, i - 1, copies[t[i].doc], texts[t[i].id])
    <3>1. CASE i = Len(s) + 1
      <4>1. t[i] = m /\ i - 1 = Len(s)
        BY <1>1, <3>1
      <4> QED BY <1>2, <4>1
    <3>2. CASE i # Len(s) + 1
      <4>1. i \in 1 .. Len(s) /\ t[i] = s[i]
        BY <1>1, <3>2
      <4> QED BY <1>2, <4>1 DEF Questions
    <3> QED BY <3>1, <3>2
  <2> QED BY <2>1, <2>2, LeadsSame
<1>3. Questions(t, copies, g, texts)
  BY <1>2 DEF Questions
<1> QED BY <1>3 DEF t

LEMMA QuestionsTail ==
  ASSUME NEW s \in Seq(ToServer), s # <<>>, NEW copies, NEW after, NEW g, NEW texts,
         \A d \in Docs : after[d] = IF About(s[1], d) THEN Brings(s[1]) ELSE copies[d],
         Questions(s, copies, g, texts)
  PROVE  Questions(Tail(s), after, g, texts)
<1> DEFINE t == Tail(s)
<1>1. /\ Len(t) = Len(s) - 1 /\ Len(s) \in Nat \ {0} /\ t \in Seq(ToServer)
      /\ \A i \in 1 .. Len(s) - 1 : t[i] = s[i + 1]
  BY TailFacts
<1> HIDE DEF t
<1>2. ASSUME NEW i \in 1 .. Len(t), t[i].kind = "request"
      PROVE  g[t[i].id] # Unasked /\ Leads(t, t[i].doc, i - 1, after[t[i].doc], texts[t[i].id])
  <2>1. i \in Nat \ {0} /\ i + 1 \in 1 .. Len(s) /\ t[i] = s[i + 1] /\ \A j \in 1 .. i - 1 : t[j] = s[j + 1]
    BY <1>1
  <2>2. g[t[i].id] # Unasked /\ Leads(s, t[i].doc, i, copies[t[i].doc], texts[t[i].id])
    <3>1. /\ g[s[i + 1].id] # Unasked
          /\ Leads(s, s[i + 1].doc, (i + 1) - 1, copies[s[i + 1].doc], texts[s[i + 1].id])
      BY <1>2, <2>1 DEF Questions
    <3>2. (i + 1) - 1 = i
      BY <2>1
    <3> QED BY <2>1, <3>1, <3>2
  <2>3. t[i].doc \in Docs
    BY <1>1, <1>2, Kinds
  <2>4. Leads(t, t[i].doc, i - 1,
              IF About(s[1], t[i].doc) THEN Brings(s[1]) ELSE copies[t[i].doc], texts[t[i].id])
    BY <2>1, <2>2, LeadsRest
  <2> QED BY <2>2, <2>3, <2>4
<1>3. Questions(t, after, g, texts)
  BY <1>2 DEF Questions
<1> QED BY <1>3 DEF t

\* What was answered before was answered as it was asked.
LEMMA AnswersStay ==
  ASSUME Typed, AskedOnce, AnsweredAsAsked, \A id \in Requests : got'[id] \in Texts => got'[id] = got[id]
  PROVE  AnsweredAsAsked'
<1> SUFFICES ASSUME NEW id \in Requests, got'[id] \in Texts
             PROVE  got'[id] = asked'[id]
  BY DEF AnsweredAsAsked
<1>1. got[id] \in Texts /\ got[id] # Unasked
  BY NotNone
<1> QED BY <1>1 DEF AnsweredAsAsked, AskedOnce

\* Whatever is told to the server.
LEMMA ToldAsks ==
  ASSUME Typed, Standing, Asks, AskedOnce, NEW m \in ToServer, Sent(<<m>>),
         UNCHANGED <<docs, down, old>>,
         \A id \in Requests : got'[id] \in Texts => got'[id] = got[id],
         process = "running" /\ m.kind = "request" =>
           got'[m.id] # Unasked /\ Leads(up, m.doc, Len(up), docs[m.doc], asked'[m.id])
  PROVE  Asks'
<1>1. up \in Seq(ToServer) /\ down \in Seq(ToClient) /\ old \in Seq(ToClient) /\ process \in {"running", "dead"}
  BY DEF Typed, TypeOK
<1>2. Questions(up, docs, got', asked') /\ Replies(down, got', asked') /\ Replies(old, got', asked')
  BY <1>1, QuestionsStay, RepliesStay DEF Asks
<1>3. AnsweredAsAsked'
  BY AnswersStay DEF Asks
<1>4. CASE process = "running"
  <2>1. up' = Append(up, m)
    BY <1>4, SentAt DEF Standing
  <2>2. Questions(Append(up, m), docs, got', asked')
    BY <1>1, <1>2, <1>4, QuestionsAppend
  <2> QED BY <1>2, <1>3, <2>1, <2>2 DEF Asks
<1>5. CASE process = "dead"
  <2>1. up' = up
    BY <1>5, SentAt
  <2> QED BY <1>2, <1>3, <2>1 DEF Asks
<1> QED BY <1>1, <1>4, <1>5

LEMMA EditorAsks ==
  ASSUME Typed, Standing, Tracks, Asks, AskedOnce, NEW d \in Docs,
         Open(d) \/ Type(d) \/ Save(d) \/ Close(d) \/ Ask(d)
  PROVE  Asks'
<1>1. /\ open \in [Docs -> BOOLEAN] /\ buffer \in [Docs -> Texts] /\ disk \in [Docs -> Texts]
      /\ edits \in 0 .. MaxEdits /\ MaxEdits \in Nat
      /\ got \in [Requests -> Texts \cup {None, Unasked, Waiting}]
      /\ asked \in [Requests -> Texts \cup {None}]
      /\ up \in Seq(ToServer) /\ down \in Seq(ToClient) /\ old \in Seq(ToClient)
  BY LspAssumption DEF Typed, TypeOK
<1>2. CASE Open(d)
  <2> DEFINE m == Message("open", d, disk[d])
  <2>1. m \in ToServer /\ m.kind # "request"
    BY <1>1 DEF Message, ToServer
  <2>2. Sent(<<m>>) /\ UNCHANGED <<docs, down, old, got>>
    BY <1>2 DEF Open, requests
  <2> HIDE DEF m
  <2> QED BY <2>1, <2>2, ToldAsks
<1>3. CASE Type(d)
  <2> DEFINE m == Message("change", d, edits + 1)
  <2>1. m \in ToServer /\ m.kind # "request"
    BY <1>1, <1>3 DEF Type, Message, ToServer, Texts
  <2>2. Sent(<<m>>) /\ UNCHANGED <<docs, down, old, got>>
    BY <1>3 DEF Type, requests
  <2> HIDE DEF m
  <2> QED BY <2>1, <2>2, ToldAsks
<1>4. CASE Close(d)
  <2> DEFINE m == [kind |-> "close", doc |-> d]
  <2>1. m \in ToServer /\ m.kind # "request"
    BY DEF ToServer
  <2>2. Sent(<<m>>) /\ UNCHANGED <<docs, down, old, got>>
    BY <1>4 DEF Close, requests
  <2> HIDE DEF m
  <2> QED BY <2>1, <2>2, ToldAsks
<1>5. CASE Save(d)
  <2>1. UNCHANGED <<up, docs, down, old, got, asked>>
    BY <1>5 DEF Save, wire, requests
  <2> QED BY <2>1 DEF Asks, AnsweredAsAsked
<1>6. CASE Ask(d)
  <2>1. PICK id \in Requests :
          /\ got[id] = Unasked /\ asked' = [asked EXCEPT ![id] = buffer[d]]
          /\ IF connected
               THEN got' = [got EXCEPT ![id] = Waiting] /\ Sent(<<[kind |-> "request", id |-> id, doc |-> d]>>)
               ELSE got' = [got EXCEPT ![id] = None] /\ up' = up
    BY <1>6 DEF Ask
  <2>2. UNCHANGED <<docs, down, old>> /\ open[d]
    BY <1>6 DEF Ask
  <2>3. \A other \in Requests : got'[other] \in Texts => got'[other] = got[other]
    BY <1>1, <2>1, NotNone
  <2>4. got'[id] # Unasked /\ asked'[id] = buffer[d]
    BY <1>1, <2>1, NotNone
  <2>5. CASE connected
    <3> DEFINE m == [kind |-> "request", id |-> id, doc |-> d]
    <3>1. m \in ToServer /\ m.id = id /\ m.doc = d
      BY DEF ToServer
    <3>2. Sent(<<m>>)
      BY <2>1, <2>5
    <3>3. process = "running" => Leads(up, d, Len(up), docs[d], buffer[d])
      BY <2>2 DEF Tracks, Now
    <3> HIDE DEF m
    <3> QED BY <2>2, <2>3, <2>4, <3>1, <3>2, <3>3, ToldAsks
  <2>6. CASE ~connected
    <3>1. Questions(up, docs, got', asked') /\ Replies(down, got', asked') /\ Replies(old, got', asked')
      BY <1>1, QuestionsStay, RepliesStay DEF Asks
    <3>2. AnsweredAsAsked'
      BY <2>3, AnswersStay DEF Asks
    <3> QED BY <2>1, <2>2, <2>6, <3>1, <3>2 DEF Asks
  <2> QED BY <2>5, <2>6
<1> QED BY <1>2, <1>3, <1>4, <1>5, <1>6

\* The server answers of the copy it has, which is the one the question was asked about.
LEMMA ServeAsks ==
  ASSUME Typed, Asks, Serve
  PROVE  Asks'
<1>1. /\ up \in Seq(ToServer) /\ up # <<>> /\ down \in Seq(ToClient)
      /\ UNCHANGED <<got, asked, old>> /\ up' = Tail(up)
  BY DEF Typed, Serve, requests
<1>2. Len(up) \in Nat \ {0} /\ up[1] \in ToServer /\ Head(up) = up[1]
  BY <1>1, TailFacts
<1>3. /\ \A d \in Docs : docs'[d] = IF About(up[1], d) THEN Brings(up[1]) ELSE docs[d]
      /\ down' = Append(down, Answer(up[1])) /\ Answer(up[1]) \in ToClient
  BY <1>2, HandledAt DEF Serve
<1>4. Questions(Tail(up), docs', got, asked)
  BY <1>1, <1>3, QuestionsTail DEF Asks
<1>5. ASSUME Answer(up[1]).kind = "reply", Answer(up[1]).id # 0
      PROVE  got[Answer(up[1]).id] # Unasked /\ Answer(up[1]).text = asked[Answer(up[1]).id]
  <2>1. up[1].kind = "request"
    BY <1>2, <1>5, Kinds DEF Answer, Publish
  <2>2. 1 \in 1 .. Len(up) /\ 1 - 1 = 0
    BY <1>2
  <2>3. got[up[1].id] # Unasked /\ Leads(up, up[1].doc, 0, docs[up[1].doc], asked[up[1].id])
    BY <2>1, <2>2 DEF Asks, Questions
  <2>4. docs[up[1].doc] = asked[up[1].id]
    BY <2>3, LeadsNothing
  <2> QED BY <2>1, <2>3, <2>4 DEF Answer
<1>6. Replies(Append(down, Answer(up[1])), got, asked)
  BY <1>1, <1>3, <1>5, RepliesAppend DEF Asks
<1> QED BY <1>1, <1>3, <1>4, <1>6 DEF Asks, AnsweredAsAsked

\* A message is read, of the server there is or of one given up on.
LEMMA PushAsks ==
  ASSUME Typed, Asks, AskedOnce, NEW s \in {down, old}, s # <<>>, Push(Head(s))
  PROVE  AnsweredAsAsked' /\ Replies(Tail(s), got', asked')
<1>1. /\ s \in Seq(ToClient) /\ Replies(s, got, asked)
      /\ got \in [Requests -> Texts \cup {None, Unasked, Waiting}]
      /\ waiting = {id \in Requests : got[id] = Waiting}
  BY DEF Typed, TypeOK, Asks
<1>2. Len(s) \in Nat \ {0} /\ Head(s) = s[1] /\ s[1] \in ToClient /\ Tail(s) \in Seq(ToClient)
  BY <1>1, TailFacts
<1>3. Replies(Tail(s), got, asked)
  BY <1>1, RepliesTail
<1>4. Replies(Tail(s), got', asked')
  BY <1>2, <1>3, RepliesStay
<1>5. Taken(s[1]) \/ Lost(s[1])
  BY <1>2, PushAt
<1>6. CASE Lost(s[1]) \/ (Taken(s[1]) /\ (s[1].kind # "reply" \/ s[1].id \notin waiting))
  <2>1. got' = got
    BY <1>6 DEF Lost, Taken, Received, requests
  <2> QED BY <1>4, <2>1, AnswersStay DEF Asks
<1>7. CASE Taken(s[1]) /\ s[1].kind = "reply" /\ s[1].id \in waiting
  <2>1. got' = [got EXCEPT ![s[1].id] = s[1].text] /\ asked' = asked
    BY <1>7 DEF Taken, Received
  <2>2. s[1].id \in Requests /\ s[1].id # 0
    BY <1>1, <1>7 DEF Requests
  <2>3. 1 \in 1 .. Len(s)
    BY <1>2
  <2>4. s[1].text = asked[s[1].id]
    BY <1>1, <1>7, <2>2, <2>3 DEF Replies
  <2>5. AnsweredAsAsked'
    BY <1>1, <2>1, <2>2, <2>4 DEF AnsweredAsAsked, Asks
  <2> QED BY <1>4, <2>5
<1> QED BY <1>5, <1>6, <1>7

\* A session that begins asks nothing.
LEMMA OpeningAsks ==
  ASSUME open \in [Docs -> BOOLEAN], buffer \in [Docs -> Texts], NEW q \in InSomeOrder,
         NEW copies, NEW g, NEW texts
  PROVE  Questions(Opening(q), copies, g, texts)
<1> DEFINE s == Opening(q)
<1>1. \A i \in 1 .. Len(s) : \/ s[i] = [kind |-> "initialize"]
                             \/ \E d \in OpenDocs : s[i] = Message("open", d, buffer[d])
  BY OpeningAt
<1> HIDE DEF s
<1>2. ASSUME NEW i \in 1 .. Len(s)
      PROVE  s[i].kind # "request"
  <2>1. [kind |-> "initialize"].kind # "request" /\ \A d : Message("open", d, buffer[d]).kind # "request"
    BY DEF Message
  <2> QED BY <1>1, <2>1
<1>3. Questions(s, copies, g, texts)
  BY <1>2 DEF Questions
<1> QED BY <1>3 DEF s

LEMMA StepAsks == Typed /\ Standing /\ Tracks /\ Asks /\ [Next]_vars => Asks'
<1> SUFFICES ASSUME Typed, Standing, Tracks, Asks, [Next]_vars
             PROVE  Asks'
  OBVIOUS
<1>1. AskedOnce
  BY StepAskedOnce
<1>2. /\ up \in Seq(ToServer) /\ down \in Seq(ToClient) /\ old \in Seq(ToClient)
      /\ got \in [Requests -> Texts \cup {None, Unasked, Waiting}]
  BY DEF Typed, TypeOK
<1>3. Questions(up, docs, got', asked') /\ Replies(down, got', asked') /\ Replies(old, got', asked')
  BY <1>1, <1>2, QuestionsStay, RepliesStay DEF Asks
<1>4. CASE UNCHANGED vars
  BY <1>4 DEF vars, wire, requests, Asks, AnsweredAsAsked
<1>5. CASE Die
  <2>1. UNCHANGED <<got, asked, old>> /\ up' = <<>>
        /\ (down' = down \/ down' = Append(down, [kind |-> "half"]))
    BY <1>5 DEF Die, requests
  <2>2. [kind |-> "half"] \in ToClient
    BY DEF ToClient
  <2>3. Replies(Append(down, [kind |-> "half"]), got, asked)
    BY <1>2, <2>2, RepliesAppend DEF Asks
  <2>4. Questions(<<>>, docs', got, asked)
    BY DEF Questions
  <2> QED BY <2>1, <2>3, <2>4 DEF Asks, AnsweredAsAsked
<1>6. CASE FallBack
  <2>1. UNCHANGED <<got, asked, docs>> /\ old' = old \o down /\ down' = <<>>
        /\ (up' = up \/ \E q \in InSomeOrder : up' = Opening(q))
    BY <1>6 DEF FallBack, requests
  <2>2. Replies(old \o down, got, asked)
    BY <1>2, RepliesConcat DEF Asks
  <2>3. Replies(<<>>, got, asked)
    BY DEF Replies
  <2>4. Questions(up', docs, got, asked)
    <3>1. open \in [Docs -> BOOLEAN] /\ buffer \in [Docs -> Texts]
      BY DEF Typed, TypeOK
    <3> QED BY <2>1, <3>1, OpeningAsks DEF Asks
  <2> QED BY <2>1, <2>2, <2>3, <2>4 DEF Asks, AnsweredAsAsked
<1>7. CASE Receive
  <2>1. down # <<>> /\ Push(Head(down)) /\ down' = Tail(down) /\ UNCHANGED <<up, docs, old>>
    BY <1>7 DEF Receive
  <2>2. AnsweredAsAsked' /\ Replies(Tail(down), got', asked')
    BY <1>1, <2>1, PushAsks
  <2> QED BY <1>3, <2>1, <2>2 DEF Asks
<1>8. CASE ReceiveLate
  <2>1. old # <<>> /\ Push(Head(old)) /\ old' = Tail(old) /\ UNCHANGED <<up, docs, down>>
    BY <1>8 DEF ReceiveLate
  <2>2. AnsweredAsAsked' /\ Replies(Tail(old), got', asked')
    BY <1>1, <2>1, PushAsks
  <2> QED BY <1>3, <2>1, <2>2 DEF Asks
<1>9. ASSUME NEW id \in Requests, TimeOut(id)
      PROVE  Asks'
  <2>1. UNCHANGED <<up, docs, down, old, asked>> /\ got' = [got EXCEPT ![id] = None]
    BY <1>9 DEF TimeOut, wire
  <2>2. \A other \in Requests : got'[other] \in Texts => got'[other] = got[other]
    BY <1>2, <2>1, NotNone
  <2>3. AnsweredAsAsked'
    BY <1>1, <2>2, AnswersStay DEF Asks
  <2> QED BY <1>3, <2>1, <2>3 DEF Asks
<1> QED BY <1>1, <1>4, <1>5, <1>6, <1>7, <1>8, <1>9, EditorAsks, ServeAsks DEF Next, Editor, Client

LEMMA InitAsks == Init => Asks
<1> SUFFICES ASSUME Init
             PROVE  Asks
  OBVIOUS
<1>1. PICK q \in InSomeOrder : up = Opening(q)
  BY DEF Init
<1>2. Questions(up, docs, got, asked)
  <2>1. open \in [Docs -> BOOLEAN] /\ buffer \in [Docs -> Texts]
    BY InitTyped DEF Typed, TypeOK
  <2> QED BY <1>1, <2>1, OpeningAsks
<1>3. down = <<>> /\ old = <<>> /\ got = [id \in Requests |-> Unasked]
  BY DEF Init
<1>4. \A id \in Requests : got[id] \notin Texts
  BY <1>3, NotNone
<1> QED BY <1>2, <1>3, <1>4 DEF Asks, Replies, AnsweredAsAsked

\* An answer is about the text the question was asked about, whatever was typed, read,
\* lost and given up on in between.
THEOREM AnsweredAsAskedAlways == Spec => []AnsweredAsAsked
<1>1. Spec => [](Typed /\ Standing /\ Tracks /\ Asks)
  BY InitTyped, InitTracks, InitAsks, StepTyped, StepStanding, StepTracks, StepAsks, PTL DEF Spec
<1>2. Asks => AnsweredAsAsked
  BY DEF Asks
<1> QED BY <1>1, <1>2, PTL

-----------------------------------------------------------------------------
(* What is shown.                                                          *)

\* What a message is answered with says of its document what the server has of it
\* then, and says nothing of another.
LEMMA AnswerSays ==
  ASSUME Typed, NEW m \in ToServer, Handled(m), NEW d \in Docs
  PROVE  /\ About(Answer(m), d) <=> About(m, d)
         /\ About(m, d) => Brings(Answer(m)) \in What /\ Says(Brings(Answer(m)), docs'[d])
         /\ ~About(m, d) => docs'[d] = docs[d]
<1>1. /\ docs'[d] = IF About(m, d) THEN Brings(m) ELSE docs[d]
      /\ docs \in [Docs -> Texts \cup {None}] /\ disk \in [Docs -> Texts] /\ SharedFile \in Docs
  BY HandledAt DEF Typed, TypeOK, Docs
<1>2. CASE m.kind \in {"open", "change"}
  <2>1. m.doc \in Docs /\ m.text \in Texts
    BY <1>2, Kinds
  <2>2. /\ Diagnosed(m.doc, m.text) \in [own : Texts, above : Texts \cup {None}]
        /\ Diagnosed(m.doc, m.text).own = m.text
    BY <1>1, <2>1 DEF Diagnosed, TextOf
  <2>3. Says(Diagnosed(m.doc, m.text), m.text) /\ Diagnosed(m.doc, m.text) \in What
    BY <2>2, NotNone DEF Says, What
  <2>4. /\ Answer(m).kind = "publish" /\ Answer(m).doc = m.doc
        /\ Answer(m).what = Diagnosed(m.doc, m.text)
    BY <1>2 DEF Answer, Publish
  <2>5. Brings(m) = m.text /\ Brings(Answer(m)) = Diagnosed(m.doc, m.text)
    BY <1>2, <2>4 DEF Brings
  <2>6. About(Answer(m), d) <=> About(m, d)
    BY <1>2, <2>4 DEF About
  <2> QED BY <1>1, <2>3, <2>5, <2>6
<1>3. CASE m.kind = "close"
  <2>1. Answer(m).kind = "publish" /\ Answer(m).doc = m.doc /\ Answer(m).what = None
    BY <1>3 DEF Answer, Publish
  <2>2. Brings(m) = None /\ Brings(Answer(m)) = None
    BY <1>3, <2>1 DEF Brings
  <2>3. About(Answer(m), d) <=> About(m, d)
    BY <1>3, <2>1 DEF About
  <2> QED BY <1>1, <2>2, <2>3 DEF Says, What
<1>4. CASE m.kind \in {"request", "initialize"}
  <2>1. Answer(m).kind = "reply"
    BY <1>4 DEF Answer
  <2>2. ~About(Answer(m), d) /\ ~About(m, d)
    BY <1>4, <2>1 DEF About
  <2> QED BY <1>1, <2>2
<1> QED BY <1>2, <1>3, <1>4, Kinds

LEMMA StepUntouched == Typed /\ Untouched /\ [Next]_vars => Untouched'
<1> SUFFICES ASSUME Typed, Untouched, [Next]_vars
             PROVE  Untouched'
  OBVIOUS
<1>1. ASSUME UNCHANGED <<answered, shown>>
      PROVE  Untouched'
  BY <1>1 DEF Untouched
<1>2. CASE UNCHANGED vars
  BY <1>1, <1>2 DEF vars, client
<1>3. ASSUME NEW d \in Docs, Open(d) \/ Type(d) \/ Save(d) \/ Close(d) \/ Ask(d)
      PROVE  Untouched'
  BY <1>1, <1>3 DEF Open, Type, Save, Close, Ask, client
<1>4. CASE Serve \/ Die \/ FallBack \/ \E id \in Requests : TimeOut(id)
  BY <1>1, <1>4 DEF Serve, Die, FallBack, TimeOut, client
<1>5. CASE Receive \/ ReceiveLate
  <2>1. PICK m \in ToClient : Push(m)
    BY <1>5, TailFacts DEF Typed, Receive, ReceiveLate
  <2> QED BY <1>1, <2>1, PushAt DEF Taken, Lost, Untouched
<1> QED BY <1>2, <1>3, <1>4, <1>5 DEF Next, Editor, Client

LEMMA StepWhole == Typed /\ Whole /\ [Next]_vars => Whole'
<1> SUFFICES ASSUME Typed, Whole, [Next]_vars
             PROVE  Whole'
  OBVIOUS
<1>1. ASSUME UNCHANGED <<process, late, reader, down>>
      PROVE  Whole'
  BY <1>1 DEF Whole
<1>2. CASE UNCHANGED vars
  BY <1>1, <1>2 DEF vars, wire
<1>3. ASSUME NEW d \in Docs, Open(d) \/ Type(d) \/ Save(d) \/ Close(d) \/ Ask(d)
      PROVE  Whole'
  BY <1>1, <1>3 DEF Open, Type, Save, Close, Ask, wire
<1>4. CASE \E id \in Requests : TimeOut(id)
  BY <1>1, <1>4 DEF TimeOut, wire
<1>5. CASE Die \/ ReceiveLate
  BY <1>5 DEF Die, ReceiveLate, Whole
<1>6. CASE FallBack
  BY <1>6 DEF FallBack, Whole
<1>7. CASE Serve
  <2>1. up \in Seq(ToServer) /\ up # <<>> /\ Handled(Head(up))
    BY <1>7 DEF Typed, Serve
  <2>2. Head(up) \in ToServer
    BY <2>1, TailFacts
  <2>3. down' = Append(down, Answer(Head(up))) /\ Answer(Head(up)) \in ToClient /\ down \in Seq(ToClient)
    BY <2>1, <2>2, HandledAt DEF Typed
  <2>4. Answer(Head(up)).kind # "half"
    BY <2>2, Kinds DEF Answer, Publish
  <2>5. /\ Len(down') = Len(down) + 1 /\ Len(down) \in Nat /\ down'[Len(down) + 1] = Answer(Head(up))
        /\ \A i \in 1 .. Len(down) : down'[i] = down[i]
    BY <2>3, AppendFacts
  <2>6. UNCHANGED <<process, late, reader>>
    BY <1>7 DEF Serve
  <2>7. (\A i \in 1 .. Len(down) : down[i].kind # "half") => \A i \in 1 .. Len(down') : down'[i].kind # "half"
    BY <2>4, <2>5
  <2> QED BY <2>6, <2>7 DEF Whole
<1>8. CASE Receive
  <2>1. /\ down # <<>> /\ Push(Head(down)) /\ down' = Tail(down) /\ down \in Seq(ToClient)
        /\ UNCHANGED <<process, late>>
    BY <1>8 DEF Typed, Receive
  <2>2. /\ Len(down') = Len(down) - 1 /\ Len(down) \in Nat \ {0} /\ Head(down) = down[1]
        /\ \A i \in 1 .. Len(down) - 1 : down'[i] = down[i + 1]
    BY <2>1, TailFacts
  <2> SUFFICES ASSUME process = "running", ~late
               PROVE  reader' = "at" /\ \A i \in 1 .. Len(down') : down'[i].kind # "half"
    BY <2>1 DEF Whole
  <2>3. reader = "at" /\ \A i \in 1 .. Len(down) : down[i].kind # "half"
    BY DEF Whole
  <2>4. reader' = "at"
    BY <2>1, <2>2, <2>3 DEF Push
  <2>5. \A i \in 1 .. Len(down') : i + 1 \in 1 .. Len(down) /\ down'[i] = down[i + 1]
    BY <2>2
  <2> QED BY <2>3, <2>4, <2>5
<1> QED BY <1>2, <1>3, <1>4, <1>5, <1>6, <1>7, <1>8 DEF Next, Editor, Client

\* The server reads a message, and publishes of what it has then.
LEMMA ServeShows ==
  ASSUME Typed, Shows, Serve
  PROVE  Shows'
<1>1. /\ up \in Seq(ToServer) /\ up # <<>> /\ down \in Seq(ToClient) /\ process = "running"
      /\ UNCHANGED <<process, late, shown>> /\ Handled(Head(up))
  BY DEF Typed, Serve, client
<1>2. Head(up) \in ToServer
  BY <1>1, TailFacts
<1> DEFINE a == Answer(Head(up))
<1>3. down' = Append(down, a) /\ a \in ToClient
  BY <1>1, <1>2, HandledAt
<1> HIDE DEF a
<1>4. /\ Len(down') = Len(down) + 1 /\ Len(down) \in Nat /\ down'[Len(down) + 1] = a
      /\ \A i \in 1 .. Len(down) : down'[i] = down[i]
  BY <1>1, <1>3, AppendFacts
<1> SUFFICES ASSUME ~late, NEW d \in Docs
             PROVE  \E w \in What : Leads(down', d, Len(down'), shown[d], w) /\ Says(w, docs'[d])
  BY <1>1 DEF Shows
<1>5. CASE About(Head(up), d)
  <2>1. About(a, d) /\ Brings(a) \in What /\ Says(Brings(a), docs'[d])
    BY <1>1, <1>2, <1>5, AnswerSays DEF a
  <2>2. Leads(down', d, Len(down) + 1, shown[d], Brings(a))
    BY <1>4, <2>1, LeadsTo
  <2> QED BY <1>4, <2>1, <2>2
<1>6. CASE ~About(Head(up), d)
  <2>1. ~About(a, d) /\ docs'[d] = docs[d]
    BY <1>1, <1>2, <1>6, AnswerSays DEF a
  <2>2. PICK w \in What : Leads(down, d, Len(down), shown[d], w) /\ Says(w, docs[d])
    BY <1>1 DEF Shows
  <2>3. Leads(down', d, Len(down), shown[d], w)
    BY <1>4, <2>2, LeadsSame
  <2>4. Leads(down', d, Len(down) + 1, shown[d], w)
    BY <1>4, <2>1, <2>3, LeadsPast
  <2> QED BY <1>4, <2>1, <2>2, <2>4
<1> QED BY <1>5, <1>6

\* The client reads a message, and shows what it brings.
LEMMA ReceiveShows ==
  ASSUME Typed, Whole, Shows, Receive
  PROVE  Shows'
<1>1. /\ down # <<>> /\ Push(Head(down)) /\ down' = Tail(down) /\ down \in Seq(ToClient)
      /\ UNCHANGED <<process, late, docs>> /\ shown \in [Docs -> What]
  BY DEF Typed, Receive
<1>2. /\ Len(down') = Len(down) - 1 /\ Len(down) \in Nat \ {0} /\ Head(down) = down[1] /\ down[1] \in ToClient
      /\ \A i \in 1 .. Len(down) - 1 : down'[i] = down[i + 1]
  BY <1>1, TailFacts
<1> SUFFICES ASSUME process = "running", ~late, NEW d \in Docs
             PROVE  \E w \in What : Leads(down', d, Len(down'), shown'[d], w) /\ Says(w, docs[d])
  BY <1>1 DEF Shows
<1>3. Taken(down[1])
  <2>1. reader = "at" /\ 1 \in 1 .. Len(down)
    BY <1>2 DEF Whole
  <2>2. down[1].kind # "half"
    BY <2>1 DEF Whole
  <2> QED BY <1>1, <1>2, <2>1, <2>2, PushAt DEF Lost
<1>4. shown'[d] = IF About(down[1], d) THEN Brings(down[1]) ELSE shown[d]
  <2>1. CASE down[1].kind = "publish"
    <3>1. shown' = [shown EXCEPT ![down[1].doc] = down[1].what]
      BY <1>3, <2>1 DEF Taken, Received
    <3> QED BY <1>1, <2>1, <3>1 DEF About, Brings
  <2>2. CASE down[1].kind = "reply"
    <3>1. shown' = shown
      BY <1>3, <2>2 DEF Taken, Received
    <3> QED BY <2>2, <3>1 DEF About
  <2> QED BY <1>3, <2>1, <2>2 DEF Taken
<1>5. PICK w \in What : Leads(down, d, Len(down), shown[d], w) /\ Says(w, docs[d])
  BY DEF Shows
<1>6. Leads(down', d, Len(down) - 1, IF About(down[1], d) THEN Brings(down[1]) ELSE shown[d], w)
  BY <1>2, <1>5, LeadsRest
<1> QED BY <1>2, <1>4, <1>5, <1>6

LEMMA StepShows == Typed /\ Standing /\ Untouched /\ Whole /\ Shows /\ [Next]_vars => Shows'
<1> SUFFICES ASSUME Typed, Standing, Untouched, Whole, Shows, [Next]_vars
             PROVE  Shows'
  OBVIOUS
<1>1. ASSUME UNCHANGED <<process, late, docs, down, shown>>
      PROVE  Shows'
  BY <1>1 DEF Shows
<1>2. CASE UNCHANGED vars
  BY <1>1, <1>2 DEF vars, wire, client
<1>3. ASSUME NEW d \in Docs, Open(d) \/ Type(d) \/ Save(d) \/ Close(d) \/ Ask(d)
      PROVE  Shows'
  BY <1>1, <1>3 DEF Open, Type, Save, Close, Ask, wire, client
<1>4. CASE \E id \in Requests : TimeOut(id)
  BY <1>1, <1>4 DEF TimeOut, wire, client
<1>5. CASE Die \/ ReceiveLate
  BY <1>5 DEF Die, ReceiveLate, Shows
<1>6. CASE FallBack
  <2>1. UNCHANGED <<docs, shown, late>> /\ down' = <<>> /\ docs = [d \in Docs |-> None]
        /\ shown = [d \in Docs |-> None]
    BY <1>6 DEF FallBack, Standing, Untouched
  <2>2. ASSUME NEW d \in Docs
        PROVE  Leads(<<>>, d, 0, None, None) /\ Says(None, None) /\ None \in What
    BY LeadsNothing DEF Says, What
  <2>3. Len(<<>>) = 0
    OBVIOUS
  <2> QED BY <2>1, <2>2, <2>3 DEF Shows
<1> QED BY <1>2, <1>3, <1>4, <1>5, <1>6, ServeShows, ReceiveShows DEF Next, Editor, Client

LEMMA InitShows == Init => Untouched /\ Whole /\ Shows
<1> SUFFICES ASSUME Init
             PROVE  Untouched /\ Whole /\ Shows
  OBVIOUS
<1>1. down = <<>> /\ docs = [d \in Docs |-> None] /\ shown = [d \in Docs |-> None] /\ reader = "at"
  BY DEF Init
<1>2. ASSUME NEW d \in Docs
      PROVE  Leads(<<>>, d, 0, None, None) /\ Says(None, None) /\ None \in What
  BY LeadsNothing DEF Says, What
<1>3. Len(<<>>) = 0
  OBVIOUS
<1> QED BY <1>1, <1>2, <1>3 DEF Untouched, Whole, Shows

\* With everything delivered, what is shown of an open document is of its text as it
\* is, and of a closed one nothing is shown.
THEOREM ShownIsOwnAlways == Spec => []ShownIsOwn
<1>1. Spec => []Inv
  <2>1. Init => Inv
    BY InitTyped, InitTracks, InitAsks, InitShows DEF Inv
  <2>2. Inv /\ [Next]_vars => Inv'
    BY StepTyped, StepStanding, StepTracks, StepAsks, StepUntouched, StepWhole, StepShows DEF Inv
  <2> QED BY <2>1, <2>2, PTL DEF Spec
<1>2. Inv => ShownIsOwn
  <2> SUFFICES ASSUME Inv, Serving, down = <<>>, ~late, NEW d \in Docs
               PROVE  IF open[d] THEN shown[d] # None /\ shown[d].own = buffer[d] ELSE shown[d] = None
    BY DEF ShownIsOwn
  <2>1. Len(up) = 0 /\ Len(down) = 0 /\ process = "running" /\ buffer \in [Docs -> Texts]
    BY DEF Serving, Inv, Typed, TypeOK
  <2>2. docs[d] = Now(d)
    BY <2>1, LeadsNothing DEF Inv, Tracks
  <2>3. Says(shown[d], docs[d])
    BY <2>1, LeadsNothing DEF Inv, Shows
  <2>4. buffer[d] # None
    BY <2>1, NotNone
  <2> QED BY <2>2, <2>3, <2>4 DEF Now, Says
<1> QED BY <1>1, <1>2, PTL


-----------------------------------------------------------------------------
(* The messages run out: how much the two processes and the timers still   *)
(* have to do, and that what is shown is right when they are done.         *)

\* What the second server may be owed: a start, and every document opened again.
Owed == IF fellBack THEN 0 ELSE 2 * (Cardinality(Docs) + 1) + 3
\* A server that runs may die, and leave half a message.
Mortal == IF process = "running" THEN 2 ELSE 0

\* A message to the server is read, and so is its answer.
Work(toServer, toClient, dropped, owed, mortal, waits) == 2 * toServer + toClient + dropped + owed + mortal + waits
WorkLeft == Work(Len(up), Len(down), Len(old), Owed, Mortal, Cardinality(waiting))

Answers == \E id \in Requests : TimeOut(id)
Emptying ==
  /\ Serve \/ Client \/ Die \/ Answers => WorkLeft' < WorkLeft
  /\ WorkLeft' <= WorkLeft + 3

\* The guards of Serve and of Client.
MessagesMove ==
  \/ process = "running" /\ up # <<>>
  \/ down # <<>> \/ old # <<>>
  \/ process = "dead" /\ connected /\ ~answered /\ ~fellBack

LEMMA DocsFinite == IsFiniteSet(Docs) /\ IsFiniteSet(Requests) /\ Cardinality(Docs) \in Nat
<1>1. IsFiniteSet(Docs)
  BY LspAssumption, FS_AddElement DEF Docs
<1>2. IsFiniteSet(Requests)
  BY LspAssumption, FS_Interval DEF Requests
<1> QED BY <1>1, <1>2, FS_CardinalityType

LEMMA OwedTypes ==
  Typed => /\ Len(up) \in Nat /\ Len(down) \in Nat /\ Len(old) \in Nat
           /\ Owed \in Nat /\ Mortal \in {0, 2}
           /\ IsFiniteSet(waiting) /\ Cardinality(waiting) \in Nat
<1> SUFFICES ASSUME Typed
             PROVE  /\ Len(up) \in Nat /\ Len(down) \in Nat /\ Len(old) \in Nat
                    /\ Owed \in Nat /\ Mortal \in {0, 2}
                    /\ IsFiniteSet(waiting) /\ Cardinality(waiting) \in Nat
  OBVIOUS
<1>1. Len(up) \in Nat /\ Len(down) \in Nat /\ Len(old) \in Nat
  BY DEF Typed
<1>2. Owed \in Nat
  <2> DEFINE n == Cardinality(Docs)
  <2>1. n \in Nat
    BY DocsFinite
  <2>2. 2 * (n + 1) + 3 \in Nat
    <3> HIDE DEF n
    <3> QED BY <2>1
  <2> QED BY <2>2 DEF Owed
<1>3. IsFiniteSet(waiting) /\ Cardinality(waiting) \in Nat
  <2>1. waiting \subseteq Requests
    BY DEF Typed, TypeOK
  <2>2. IsFiniteSet(waiting)
    BY <2>1, DocsFinite, FS_Subset
  <2> QED BY <2>2, FS_CardinalityType
<1> QED BY <1>1, <1>2, <1>3 DEF Mortal

LEMMA WorkIsNat == Typed => WorkLeft \in Nat
<1> SUFFICES ASSUME Typed
             PROVE  WorkLeft \in Nat
  OBVIOUS
<1> DEFINE u == Len(up)
           d == Len(down)
           o == Len(old)
           f == Owed
           p == Mortal
           w == Cardinality(waiting)
<1>1. u \in Nat /\ d \in Nat /\ o \in Nat /\ f \in Nat /\ p \in {0, 2} /\ w \in Nat
  BY OwedTypes
<1>2. Work(u, d, o, f, p, w) \in Nat
  <2> HIDE DEF u, d, o, f, p, w
  <2> QED BY <1>1 DEF Work
<1> QED BY <1>2 DEF WorkLeft

\* What a step does to the parts is what it does to the sum.
LEMMA Parts ==
  ASSUME Typed, Typed', NEW n \in Nat
  PROVE  /\ Len(up) = Len(up)' + 1 /\ Len(down)' = Len(down) + 1 /\ Len(old)' = Len(old) /\ Owed' = Owed
              /\ Mortal' = Mortal /\ Cardinality(waiting)' = Cardinality(waiting) => WorkLeft' < WorkLeft
         /\ Len(up)' = Len(up) /\ Len(down) = Len(down)' + 1 /\ Len(old)' = Len(old) /\ Owed' = Owed
              /\ Mortal' = Mortal /\ Cardinality(waiting)' <= Cardinality(waiting) => WorkLeft' < WorkLeft
         /\ Len(up)' = Len(up) /\ Len(down)' = Len(down) /\ Len(old) = Len(old)' + 1 /\ Owed' = Owed
              /\ Mortal' = Mortal /\ Cardinality(waiting)' <= Cardinality(waiting) => WorkLeft' < WorkLeft
         /\ Len(up)' <= Len(up) + n + 1 /\ Len(down)' = 0 /\ Len(old)' = Len(old) + Len(down)
              /\ Owed = 2 * (n + 1) + 3 /\ Owed' = 0
              /\ Cardinality(waiting)' = Cardinality(waiting) => WorkLeft' < WorkLeft
         /\ Len(up)' = 0 /\ Len(down)' <= Len(down) + 1 /\ Len(old)' = Len(old) /\ Owed' = Owed
              /\ Mortal = 2 /\ Mortal' = 0 /\ Cardinality(waiting)' = Cardinality(waiting) => WorkLeft' < WorkLeft
         /\ Len(up)' = Len(up) /\ Len(down)' = Len(down) /\ Len(old)' = Len(old) /\ Owed' = Owed
              /\ Mortal' = Mortal /\ Cardinality(waiting) = Cardinality(waiting)' + 1 => WorkLeft' < WorkLeft
         /\ Len(up)' <= Len(up) + 1 /\ Len(down)' = Len(down) /\ Len(old)' = Len(old) /\ Owed' = Owed
              /\ Mortal' = Mortal /\ Cardinality(waiting)' <= Cardinality(waiting) + 1 => WorkLeft' <= WorkLeft + 3
<1> DEFINE u == Len(up)        v == Len(up)'
           d == Len(down)      e == Len(down)'
           o == Len(old)       r == Len(old)'
           f == Owed           g == Owed'
           p == Mortal         q == Mortal'
           w == Cardinality(waiting)   x == Cardinality(waiting)'
           s == WorkLeft       t == WorkLeft'
<1>1. u \in Nat /\ d \in Nat /\ o \in Nat /\ f \in Nat /\ p \in {0, 2} /\ w \in Nat
  BY OwedTypes
<1>2. v \in Nat /\ e \in Nat /\ r \in Nat /\ g \in Nat /\ q \in {0, 2} /\ x \in Nat
  <2>1. (/\ Len(up) \in Nat /\ Len(down) \in Nat /\ Len(old) \in Nat
         /\ Owed \in Nat /\ Mortal \in {0, 2}
         /\ IsFiniteSet(waiting) /\ Cardinality(waiting) \in Nat)'
    BY OwedTypes, PTL
  <2> QED BY <2>1
<1>3. s = Work(u, d, o, f, p, w) /\ t = Work(v, e, r, g, q, x)
  BY DEF WorkLeft, Work
<1>4. /\ u = v + 1 /\ e = d + 1 /\ r = o /\ g = f /\ q = p /\ x = w => t < s
      /\ v = u /\ d = e + 1 /\ r = o /\ g = f /\ q = p /\ x <= w => t < s
      /\ v = u /\ e = d /\ o = r + 1 /\ g = f /\ q = p /\ x <= w => t < s
      /\ v <= u + n + 1 /\ e = 0 /\ r = o + d /\ f = 2 * (n + 1) + 3 /\ g = 0 /\ x = w => t < s
      /\ v = 0 /\ e <= d + 1 /\ r = o /\ g = f /\ p = 2 /\ q = 0 /\ x = w => t < s
      /\ v = u /\ e = d /\ r = o /\ g = f /\ q = p /\ w = x + 1 => t < s
      /\ v <= u + 1 /\ e = d /\ r = o /\ g = f /\ q = p /\ x <= w + 1 => t <= s + 3
  <2> HIDE DEF u, d, o, f, p, w, v, e, r, g, q, x, s, t
  <2> QED BY <1>1, <1>2, <1>3 DEF Work
<1> QED BY <1>4

LEMMA ServeEmpties == Typed /\ Typed' /\ Serve => WorkLeft' < WorkLeft
<1> SUFFICES ASSUME Typed, Typed', Serve
             PROVE  WorkLeft' < WorkLeft
  OBVIOUS
<1>1. up \in Seq(ToServer) /\ down \in Seq(ToClient) /\ up # <<>> /\ up' = Tail(up) /\ Handled(Head(up))
  BY DEF Typed, Serve
<1>2. Len(up) = Len(up)' + 1 /\ Head(up) \in ToServer
  BY <1>1
<1>3. Answer(Head(up)) \in ToClient /\ down' = Append(down, Answer(Head(up)))
  BY <1>1, <1>2, HandledAt
<1>4. Len(down)' = Len(down) + 1
  BY <1>1, <1>3
<1>5. UNCHANGED <<old, fellBack, process, waiting>>
  BY DEF Serve, client, requests
<1>6. Len(old)' = Len(old) /\ Owed' = Owed /\ Mortal' = Mortal /\ Cardinality(waiting)' = Cardinality(waiting)
  BY <1>5 DEF Owed, Mortal
<1>7. 0 \in Nat
  OBVIOUS
<1> QED BY <1>2, <1>4, <1>6, <1>7, Parts

LEMMA DieEmpties == Typed /\ Typed' /\ Die => WorkLeft' < WorkLeft
<1> SUFFICES ASSUME Typed, Typed', Die
             PROVE  WorkLeft' < WorkLeft
  OBVIOUS
<1>1. /\ process = "running" /\ process' = "dead" /\ up' = <<>> /\ UNCHANGED <<old, fellBack, waiting>>
      /\ down' = down \/ down' = Append(down, [kind |-> "half"])
  BY DEF Die, client, requests
<1>2. Len(up)' = 0 /\ Mortal = 2 /\ Mortal' = 0
  BY <1>1 DEF Mortal
<1>3. Len(down)' <= Len(down) + 1
  <2>1. down \in Seq(ToClient) /\ [kind |-> "half"] \in ToClient
    BY DEF Typed, ToClient
  <2>2. Len(down) \in Nat /\ Len(Append(down, [kind |-> "half"])) = Len(down) + 1
    BY <2>1
  <2> QED BY <1>1, <2>2
<1>4. Len(old)' = Len(old) /\ Owed' = Owed /\ Cardinality(waiting)' = Cardinality(waiting)
  BY <1>1 DEF Owed
<1>5. 0 \in Nat
  OBVIOUS
<1> QED BY <1>2, <1>3, <1>4, <1>5, Parts

\* What was read of a server leaves no more requests waiting than there were.
LEMMA WaitersLeave ==
  ASSUME Typed, Typed', waiting' \subseteq waiting
  PROVE  Cardinality(waiting)' <= Cardinality(waiting)
<1>1. IsFiniteSet(waiting)
  BY OwedTypes
<1>2. Cardinality(waiting') <= Cardinality(waiting)
  BY <1>1, FS_Subset
<1> QED BY <1>2

LEMMA PushWaiting ==
  ASSUME Typed, NEW m \in ToClient, Push(m)
  PROVE  waiting' \subseteq waiting
<1>1. Taken(m) \/ Lost(m)
  BY PushAt
<1>2. CASE Taken(m)
  BY <1>2 DEF Taken, Received, requests
<1>3. CASE Lost(m)
  BY <1>3 DEF Lost, requests
<1> QED BY <1>1, <1>2, <1>3

LEMMA ReceiveEmpties == Typed /\ Typed' /\ (Receive \/ ReceiveLate) => WorkLeft' < WorkLeft
<1> SUFFICES ASSUME Typed, Typed', Receive \/ ReceiveLate
             PROVE  WorkLeft' < WorkLeft
  OBVIOUS
<1>1. 0 \in Nat
  OBVIOUS
<1>2. CASE Receive
  <2>1. down \in Seq(ToClient) /\ down # <<>> /\ down' = Tail(down) /\ Push(Head(down))
    BY <1>2 DEF Typed, Receive
  <2>2. Len(down) = Len(down)' + 1 /\ Head(down) \in ToClient
    BY <2>1
  <2>3. Cardinality(waiting)' <= Cardinality(waiting)
    BY <2>1, <2>2, PushWaiting, WaitersLeave
  <2>4. UNCHANGED <<up, old, process, fellBack>>
    BY <1>2 DEF Receive
  <2>5. Len(up)' = Len(up) /\ Len(old)' = Len(old) /\ Owed' = Owed /\ Mortal' = Mortal
    BY <2>4 DEF Owed, Mortal
  <2> QED BY <1>1, <2>2, <2>3, <2>5, Parts
<1>3. CASE ReceiveLate
  <2>1. old \in Seq(ToClient) /\ old # <<>> /\ old' = Tail(old) /\ Push(Head(old))
    BY <1>3 DEF Typed, ReceiveLate
  <2>2. Len(old) = Len(old)' + 1 /\ Head(old) \in ToClient
    BY <2>1
  <2>3. Cardinality(waiting)' <= Cardinality(waiting)
    BY <2>1, <2>2, PushWaiting, WaitersLeave
  <2>4. UNCHANGED <<up, down, process, fellBack>>
    BY <1>3 DEF ReceiveLate
  <2>5. Len(up)' = Len(up) /\ Len(down)' = Len(down) /\ Owed' = Owed /\ Mortal' = Mortal
    BY <2>4 DEF Owed, Mortal
  <2> QED BY <1>1, <2>2, <2>3, <2>5, Parts
<1> QED BY <1>2, <1>3

\* A session that begins again is no longer than the documents there are.
LEMMA OpeningIsShort ==
  ASSUME Typed, NEW q \in InSomeOrder
  PROVE  Len(Opening(q)) \in Nat /\ Len(Opening(q)) <= Cardinality(Docs) + 1
<1> DEFINE n == Cardinality(OpenDocs)
           opens == [i \in 1 .. Len(q) |-> Message("open", q[i], buffer[q[i]])]
<1>1. IsFiniteSet(OpenDocs) /\ n <= Cardinality(Docs) /\ Cardinality(Docs) \in Nat
  BY DocsFinite, FS_Subset DEF OpenDocs
<1>2. n \in Nat
  BY <1>1, FS_CardinalityType
<1>3. q \in [1 .. n -> OpenDocs]
  BY DEF InSomeOrder
<1> HIDE DEF n
<1>4. Len(q) = n
  BY <1>2, <1>3
<1> HIDE DEF opens
<1>5. opens \in Seq(ToServer) /\ Len(opens) = n
  <2>1. \A i \in 1 .. n : Message("open", q[i], buffer[q[i]]) \in ToServer
    BY <1>3 DEF OpenDocs, Message, ToServer, Typed, TypeOK
  <2>2. opens \in [1 .. n -> ToServer]
    BY <1>4, <2>1 DEF opens
  <2> QED BY <1>2, <2>2
<1>6. Opening(q) = <<[kind |-> "initialize"]>> \o opens
  BY DEF Opening, opens
<1>7. Len(Opening(q)) = n + 1
  BY <1>2, <1>5, <1>6
<1> QED BY <1>1, <1>2, <1>7

LEMMA FallBackEmpties == Typed /\ Typed' /\ FallBack => WorkLeft' < WorkLeft
<1> SUFFICES ASSUME Typed, Typed', FallBack
             PROVE  WorkLeft' < WorkLeft
  OBVIOUS
<1> DEFINE n == Cardinality(Docs)
<1>1. n \in Nat
  BY DocsFinite
<1>2. /\ ~fellBack /\ fellBack' = TRUE /\ old' = old \o down /\ down' = <<>> /\ waiting' = waiting
      /\ up' = up \/ \E q \in InSomeOrder : up' = Opening(q)
  BY DEF FallBack, requests
<1>3. Len(down)' = 0 /\ Len(old)' = Len(old) + Len(down)
  BY <1>2 DEF Typed
<1>4. Owed = 2 * (n + 1) + 3 /\ Owed' = 0 /\ Cardinality(waiting)' = Cardinality(waiting)
  BY <1>2 DEF Owed
<1>5. Len(up)' <= Len(up) + n + 1
  <2>1. Len(up) \in Nat
    BY OwedTypes
  <2>2. CASE up' = up
    BY <1>1, <2>1, <2>2
  <2>3. ASSUME NEW q \in InSomeOrder, up' = Opening(q)
        PROVE  Len(up)' <= Len(up) + n + 1
    <3>1. Len(up)' = Len(Opening(q))
      BY <2>3
    <3>2. Len(Opening(q)) \in Nat /\ Len(Opening(q)) <= n + 1
      BY OpeningIsShort
    <3> HIDE DEF n
    <3> QED BY <1>1, <2>1, <3>1, <3>2
  <2> QED BY <1>2, <2>2, <2>3
<1> QED BY <1>1, <1>3, <1>4, <1>5, Parts

LEMMA AnswersEmpty == Typed /\ Typed' /\ Answers => WorkLeft' < WorkLeft
<1> SUFFICES ASSUME Typed, Typed', NEW id \in Requests, TimeOut(id)
             PROVE  WorkLeft' < WorkLeft
  BY DEF Answers
<1>1. id \in waiting /\ waiting' = waiting \ {id} /\ UNCHANGED <<up, down, old, fellBack, process>>
  BY DEF TimeOut, wire, client
<1>2. IsFiniteSet(waiting) /\ Cardinality(waiting) \in Nat
  BY OwedTypes
<1>3. Cardinality(waiting') = Cardinality(waiting) - 1
  BY <1>1, <1>2, FS_RemoveElement
<1>4. Cardinality(waiting) = Cardinality(waiting)' + 1
  BY <1>2, <1>3
<1>5. Len(up)' = Len(up) /\ Len(down)' = Len(down) /\ Len(old)' = Len(old) /\ Owed' = Owed /\ Mortal' = Mortal
  BY <1>1 DEF Owed, Mortal
<1>6. 0 \in Nat
  OBVIOUS
<1> QED BY <1>4, <1>5, <1>6, Parts

LEMMA EditorAdds ==
  ASSUME Typed, Typed', NEW d \in Docs, Open(d) \/ Type(d) \/ Save(d) \/ Close(d) \/ Ask(d)
  PROVE  WorkLeft' <= WorkLeft + 3
<1>1. /\ open \in [Docs -> BOOLEAN] /\ buffer \in [Docs -> Texts] /\ disk \in [Docs -> Texts]
      /\ edits \in 0 .. MaxEdits /\ MaxEdits \in Nat /\ up \in Seq(ToServer)
  BY LspAssumption DEF Typed, TypeOK
<1>2. UNCHANGED <<down, old, process, fellBack>>
  BY DEF Open, Type, Save, Close, Ask, wire, client
<1>3. ASSUME NEW m \in ToServer, Sent(<<m>>)
      PROVE  Len(up)' <= Len(up) + 1
  BY <1>1, <1>3, SentAt
<1>4. Len(up)' <= Len(up) + 1
  <2>1. CASE Open(d)
    <3>1. Message("open", d, disk[d]) \in ToServer
      BY <1>1 DEF Message, ToServer
    <3> QED BY <1>3, <2>1, <3>1 DEF Open
  <2>2. CASE Type(d)
    <3>1. edits + 1 \in Texts
      BY <1>1, <2>2 DEF Type, Texts
    <3>2. Message("change", d, edits + 1) \in ToServer
      BY <3>1 DEF Message, ToServer
    <3> QED BY <1>3, <2>2, <3>2 DEF Type
  <2>3. CASE Save(d)
    BY <1>1, <2>3 DEF Save, wire
  <2>4. CASE Close(d)
    <3>1. [kind |-> "close", doc |-> d] \in ToServer
      BY DEF ToServer
    <3> QED BY <1>3, <2>4, <3>1 DEF Close
  <2>5. CASE Ask(d)
    <3>1. \A id \in Requests : [kind |-> "request", id |-> id, doc |-> d] \in ToServer
      BY DEF ToServer
    <3>2. up' = up \/ \E m \in ToServer : Sent(<<m>>)
      BY <2>5, <3>1 DEF Ask
    <3>3. CASE up' = up
      BY <1>1, <3>3
    <3> QED BY <1>3, <3>2, <3>3
  <2> QED BY <2>1, <2>2, <2>3, <2>4, <2>5
<1>5. Cardinality(waiting)' <= Cardinality(waiting) + 1
  <2>1. waiting' = waiting \/ \E id \in Requests : waiting' = waiting \cup {id}
    BY DEF Open, Type, Save, Close, Ask, requests
  <2>2. IsFiniteSet(waiting) /\ Cardinality(waiting) \in Nat
    BY OwedTypes
  <2>3. CASE waiting' = waiting
    BY <2>2, <2>3
  <2>4. ASSUME NEW id \in Requests, waiting' = waiting \cup {id}
        PROVE  Cardinality(waiting)' <= Cardinality(waiting) + 1
    <3>1. Cardinality(waiting \cup {id}) \in {Cardinality(waiting), Cardinality(waiting) + 1}
      BY <2>2, FS_AddElement
    <3>2. Cardinality(waiting)' = Cardinality(waiting \cup {id})
      BY <2>4
    <3> QED BY <2>2, <3>1, <3>2
  <2> QED BY <2>1, <2>3, <2>4
<1>6. Len(down)' = Len(down) /\ Len(old)' = Len(old) /\ Owed' = Owed /\ Mortal' = Mortal
  BY <1>2 DEF Owed, Mortal
<1>7. 0 \in Nat
  OBVIOUS
<1> QED BY <1>4, <1>5, <1>6, <1>7, Parts

LEMMA StepEmpties == Typed /\ Typed' /\ Next => Emptying
<1> SUFFICES ASSUME Typed, Typed', Next
             PROVE  Emptying
  OBVIOUS
<1>1. WorkLeft \in Nat /\ (WorkLeft \in Nat)'
  BY WorkIsNat, PTL
<1>2. Serve \/ Client \/ Die \/ Answers => WorkLeft' < WorkLeft
  BY ServeEmpties, DieEmpties, ReceiveEmpties, FallBackEmpties, AnswersEmpty DEF Client
<1>3. Editor => WorkLeft' <= WorkLeft + 3
  BY EditorAdds DEF Editor
<1>4. WorkLeft' <= WorkLeft + 3
  <2> DEFINE s == WorkLeft
             t == WorkLeft'
  <2>1. s \in Nat /\ t \in Nat /\ (t < s \/ t <= s + 3)
    BY <1>1, <1>2, <1>3 DEF Next, Answers
  <2> HIDE DEF s, t
  <2>2. t <= s + 3
    BY <2>1
  <2> QED BY <2>2 DEF s, t
<1> QED BY <1>2, <1>4 DEF Emptying

\* Once nobody edits, the messages run out: a reply, a death, a timer and the start of
\* the second server each leave less to do, however many documents are open, and an
\* edit adds what one message is good for.  (server.rs, serve; lsp.ts, send and fallBack.)
THEOREM MessagesRunOut == Spec => [](WorkLeft \in Nat) /\ [][Emptying]_vars
<1>1. Spec => []Typed
  BY InitTyped, StepTyped, PTL DEF Spec
<1>2. Typed => WorkLeft \in Nat
  BY WorkIsNat
<1>3. Typed /\ Typed' /\ [Next]_vars => [Emptying]_vars
  BY StepEmpties
<1> QED BY <1>1, <1>2, <1>3, PTL DEF Spec

\* And when they have run out, what is shown of every open document is of its text as it
\* is: nothing waits for an edit to be put right but a server that died after it had
\* answered, and what was read of one that was given up on.
THEOREM RestsInStep ==
  Spec => [](MessagesMove \/ process = "dead" \/ late
             \/ \A d \in Docs : open[d] => shown[d] # None /\ shown[d].own = buffer[d])
<1>1. Spec => []TypeOK
  BY TypeCorrect
<1>2. TypeOK /\ ShownIsOwn =>
        (MessagesMove \/ process = "dead" \/ late
         \/ \A d \in Docs : open[d] => shown[d] # None /\ shown[d].own = buffer[d])
  BY DEF TypeOK, ShownIsOwn, Serving, MessagesMove
<1> QED BY <1>1, <1>2, ShownIsOwnAlways, PTL
==============================================================================
