----------------------------- MODULE KeysProofs -----------------------------
(***************************************************************************)
(* What `:env` keeps, however many commands, files and keys there are.     *)
(*                                                                         *)
(* Every step is one that writes a file (Written) or one that writes none  *)
(* and leaves its command with what was at hand (Quiet).  On that rest, in *)
(* this order: Emptied, OneKey, NeverPlain; then Fresh, Known and Rotated, *)
(* by which nothing needs the key a rotation is about to delete; and       *)
(* Readable.                                                               *)
(***************************************************************************)
EXTENDS Keys, TLAPS

Writing  == {"commit", "truncate", "fill"}
Removing == {"unload", "unstore"}

\* Which command is at which place, and with what.
InPlace ==
  \A p \in Proc :
    /\ At(p, "key") => Cmd(p) \notin {"add", "remove"}
    /\ At(p, "load") \/ At(p, "store") => Cmd(p) \in {"rotate", "init", "add"}
    /\ At(p, "make") => Cmd(p) \in {"rotate", "encrypt", "decrypt"}
    /\ job[p].at \in Writing => Cmd(p) \notin {"add", "remove"}
    /\ job[p].at \in Removing => Cmd(p) \in {"rotate", "remove"}
    /\ Cmd(p) \notin {"rotate", "decrypt"} => job[p].key = job[p].task.key
    /\ At(p, "store") \/ (At(p, "make") /\ Cmd(p) = "rotate") => job[p].fresh \in Key
    /\ At(p, "look") => job[p].new = Blank /\ Cmd(p) \notin {"add", "remove"}
    /\ At(p, "unstore") => job[p].key \in Key

Typed == TypeOK /\ InPlace

-----------------------------------------------------------------------------
(* The operators.                                                          *)

LEMMA BlankType == Blank \in Contents
  BY DEF Blank, Contents, Unset, Headers, Entries

LEMMA IdleType == Idle \in Jobs /\ Idle.at = "idle" /\ Idle.seen = Blank /\ Idle.new = Blank
                  /\ Idle.fresh = NoKey /\ Idle.held = {} /\ ~Idle.late
                  /\ Idle.key = NoKey /\ Idle.task.key = NoKey
<1> DEFINE t0 == CHOOSE t \in Tasks : t.key = NoKey
<1>1. t0 \in Tasks /\ t0.key = NoKey
  BY TaskAssumption
<1> HIDE DEF t0
<1>2. Idle = Begun(t0, "idle")
  BY DEF Idle, t0
<1> QED BY <1>1, <1>2, BlankType DEF Begun, Jobs, Places, Headers

LEMMA BegunType ==
  ASSUME NEW t \in Tasks, NEW place \in Places
  PROVE  Begun(t, place) \in Jobs
  BY TaskAssumption, BlankType DEF Begun, Jobs, Headers, Task

LEMMA TextType == TypeOK => \A f \in File : Text(f) \in Contents
  BY BlankType DEF Text, TypeOK

LEMMA RecodeType ==
  ASSUME NEW c \in Contents, NEW from, NEW to \in Key \cup {NoKey}
  PROVE  [header |-> to, vals |-> Recode(c, from, to)] \in Contents
  BY DEF Recode, Contents, Entries, Headers

LEMMA OverlaidType ==
  ASSUME NEW c \in Contents, NEW old \in Contents
  PROVE  Overlaid(c, old) \subseteq Contents
  BY DEF Overlaid, Contents, Entries, Headers

LEMMA OverlaidFacts ==
  ASSUME NEW c \in Contents, NEW old \in Contents, NEW w \in Overlaid(c, old)
  PROVE  /\ w.header \in {c.header, old.header, IF c.header = NoKey THEN NoKey ELSE Cut}
         /\ \A v \in Var : \/ w.vals[v] \in {c.vals[v], old.vals[v]}
                           \/ w.vals[v].by = c.vals[v].by /\ c.vals[v].by # NoKey /\ w.vals[v].is = Cut
  BY DEF Overlaid, Contents, Entries

LEMMA JobType ==
  ASSUME TypeOK, NEW p \in Proc
  PROVE  job[p] \in Jobs /\ job[p].task \in Task /\ To(p) \in File
  BY TaskAssumption DEF TypeOK, Jobs, To, Task

-----------------------------------------------------------------------------
(* What becomes of a process that goes on.                                 *)

\* All of a job but where it is and whether it is late.
SameJob(j, k) ==
  /\ j.task = k.task /\ j.seen = k.seen /\ j.key = k.key /\ j.fresh = k.fresh
  /\ j.held = k.held /\ j.new = k.new

\* p is at a place as j, or is over.
Became(p, place, j) ==
  /\ place \in Places /\ job'[p] \in Jobs /\ job'[p].at = place
  /\ place = "idle" => job'[p] = Idle
  /\ place # "idle" => j \in Jobs /\ SameJob(job'[p], j) /\ job'[p].late = j.late

LEMMA GoesFacts ==
  ASSUME TypeOK, NEW p \in Proc, NEW place \in Places, NEW j, place # "idle" => j \in Jobs,
         Goes(p, place, j)
  PROVE  /\ job' \in [Proc -> Jobs] /\ Became(p, place, j)
         /\ \A q \in Proc \ {p} : job'[q] = job[q]
<1>1. /\ GoneOn(place, j) \in Jobs /\ GoneOn(place, j).at = place
      /\ place = "idle" => GoneOn(place, j) = Idle
      /\ place # "idle" => SameJob(GoneOn(place, j), j) /\ GoneOn(place, j).late = j.late
  BY IdleType DEF GoneOn, Jobs, SameJob
<1>2. job' = [job EXCEPT ![p] = GoneOn(place, j)]
  BY DEF Goes
<1> QED BY <1>1, <1>2 DEF TypeOK, Became

Overtaken(q, p) == job[q].late \/ (job[q].at \notin {"idle", "look"} /\ To(q) = To(p))

LEMMA WritesFacts ==
  ASSUME TypeOK, NEW p \in Proc, NEW c \in Contents, NEW place \in Places, Writes(p, c, place)
  PROVE  /\ job' \in [Proc -> Jobs] /\ job'[p].at = place
         /\ place = "idle" => job'[p] = Idle
         /\ place # "idle" => SameJob(job'[p], job[p]) /\ ~job'[p].late
         /\ \A q \in Proc \ {p} : /\ SameJob(job'[q], job[q]) /\ job'[q].at = job[q].at
                                  /\ job'[q].late <=> Overtaken(q, p)
         /\ file' \in [File -> Contents \cup {Gone}]
         /\ \A f \in File : Text(f)' = IF f = To(p) THEN c ELSE Text(f)
         /\ file'[To(p)] = c /\ \A f \in File \ {To(p)} : file'[f] = file[f]
<1> DEFINE j == [job[p] EXCEPT !.late = FALSE]
<1>1. j \in Jobs /\ SameJob(j, job[p]) /\ ~j.late
  BY JobType DEF Jobs, SameJob
<1>2. /\ GoneOn(place, j) \in Jobs /\ GoneOn(place, j).at = place
      /\ place = "idle" => GoneOn(place, j) = Idle
      /\ place # "idle" => SameJob(GoneOn(place, j), j) /\ ~GoneOn(place, j).late
  <2>1. CASE place = "idle"
    BY <2>1, IdleType DEF GoneOn
  <2>2. CASE place # "idle"
    BY <1>1, <2>2 DEF GoneOn, Jobs, SameJob
  <2> QED BY <2>1, <2>2
<1>3. ASSUME NEW q \in Proc, NEW k, k = [job[q] EXCEPT !.late = Overtaken(q, p)]
      PROVE  k \in Jobs /\ SameJob(k, job[q]) /\ k.at = job[q].at /\ k.late = Overtaken(q, p)
  <2>1. Overtaken(q, p) \in BOOLEAN
    BY DEF Overtaken
  <2> HIDE DEF Overtaken
  <2> QED BY <1>3, <2>1, JobType DEF Jobs, SameJob
<1>4. job' = [q \in Proc |-> IF q = p THEN GoneOn(place, j) ELSE [job[q] EXCEPT !.late = Overtaken(q, p)]]
  BY DEF Writes, Overtaken
<1> HIDE DEF j
<1>5. job' \in [Proc -> Jobs]
  BY <1>2, <1>3, <1>4
<1>6. job'[p] = GoneOn(place, j)
  BY <1>4
<1>7. \A q \in Proc \ {p} : /\ SameJob(job'[q], job[q]) /\ job'[q].at = job[q].at
                            /\ job'[q].late <=> Overtaken(q, p)
  BY <1>3, <1>4
<1>8. /\ file' \in [File -> Contents \cup {Gone}]
      /\ file'[To(p)] = c /\ \A f \in File \ {To(p)} : file'[f] = file[f]
      /\ \A f \in File : Text(f)' = IF f = To(p) THEN c ELSE Text(f)
  BY JobType, NamesAssumption DEF Writes, TypeOK, Text
<1> QED BY <1>1, <1>2, <1>5, <1>6, <1>7, <1>8 DEF SameJob

-----------------------------------------------------------------------------
(* Types and places.                                                       *)

LEMMA InitTyped == Init => Typed
<1> SUFFICES ASSUME Init
             PROVE  Typed
  OBVIOUS
<1>1. \A h \in Key \cup {NoKey}, x \in Open \cup Secret : Given(h, x) \in Contents
  BY DEF Given, Contents, Headers, Entries
<1>2. born \subseteq Key /\ blob \subseteq Key
  BY NamesAssumption DEF Init
<1>3. file \in [File -> Contents \cup {Gone}]
  BY <1>1, <1>2 DEF Init
<1>4. TypeOK
  <2>1. job \in [Proc -> Jobs]
    BY IdleType DEF Init
  <2>2. excused \in [File -> SUBSET Key]
    BY DEF Init
  <2>3. runs \in 0 .. MaxRuns
    BY NamesAssumption DEF Init
  <2>4. keyClash \in BOOLEAN
    BY DEF Init
  <2>5. opened \subseteq File /\ clash \subseteq File /\ mixed \subseteq File
    BY DEF Init
  <2>6. persistent \in BOOLEAN
    BY SMT DEF Init
  <2> QED BY <1>2, <1>3, <2>1, <2>2, <2>3, <2>4, <2>5, <2>6 DEF TypeOK
<1>5. InPlace
  BY IdleType DEF Init, InPlace, At, Cmd, Writing, Removing
<1> QED BY <1>4, <1>5 DEF Typed

\* What InPlace says of a process that is at a place as j.
Fits(place, j) ==
  /\ place = "key" => j.task.cmd \notin {"add", "remove"}
  /\ place \in {"load", "store"} => j.task.cmd \in {"rotate", "init", "add"}
  /\ place = "make" => j.task.cmd \in {"rotate", "encrypt", "decrypt"}
  /\ place \in Writing => j.task.cmd \notin {"add", "remove"}
  /\ place \in Removing => j.task.cmd \in {"rotate", "remove"}
  /\ j.task.cmd \notin {"rotate", "decrypt"} => j.key = j.task.key
  /\ place = "store" \/ (place = "make" /\ j.task.cmd = "rotate") => j.fresh \in Key
  /\ place = "look" => j.new = Blank /\ j.task.cmd \notin {"add", "remove"}
  /\ place = "unstore" => j.key \in Key

LEMMA InPlaceFits == InPlace <=> \A p \in Proc : Fits(job[p].at, job[p])
  BY DEF InPlace, Fits, At, Cmd

LEMMA InPlaceFitsNext == InPlace' <=> \A p \in Proc : Fits(job'[p].at, job'[p])
  BY DEF InPlace, Fits, At, Cmd

LEMMA IdleFits == Fits("idle", Idle)
  BY IdleType DEF Fits, Writing, Removing

LEMMA GoesTyped ==
  ASSUME Typed, NEW p \in Proc, NEW place \in Places, NEW j, Became(p, place, j),
         \A q \in Proc \ {p} : job'[q] = job[q], place # "idle" => Fits(place, j)
  PROVE  InPlace'
<1>1. ASSUME NEW q \in Proc \ {p}
      PROVE  Fits(job'[q].at, job'[q])
  BY InPlaceFits DEF Typed
<1>2. Fits(job'[p].at, job'[p])
  <2>1. CASE place = "idle"
    BY <2>1, IdleFits, IdleType DEF Became
  <2>2. CASE place # "idle"
    <3>1. /\ job'[p].task = j.task /\ job'[p].key = j.key /\ job'[p].fresh = j.fresh
          /\ job'[p].new = j.new /\ job'[p].at = place
      BY <2>2 DEF Became, SameJob
    <3> QED BY <2>2, <3>1 DEF Fits
  <2> QED BY <2>1, <2>2
<1> QED BY <1>1, <1>2, InPlaceFitsNext

\* What each action makes of its process.
StartPlace(t) == CASE t.cmd = "add" -> "load" [] t.cmd = "remove" -> "unload" [] OTHER -> "look"

LEMMA StartMoves ==
  ASSUME TypeOK, NEW p \in Proc, NEW t \in Tasks, Start(p, t)
  PROVE  /\ job' \in [Proc -> Jobs] /\ Became(p, StartPlace(t), Begun(t, StartPlace(t)))
         /\ \A q \in Proc \ {p} : job'[q] = job[q]
         /\ Begun(t, StartPlace(t)) \in Jobs /\ StartPlace(t) \in {"load", "unload", "look"}
<1>1. StartPlace(t) \in {"load", "unload", "look"} /\ StartPlace(t) \in Places
  BY DEF StartPlace, Places
<1>2. Begun(t, StartPlace(t)) \in Jobs
  BY <1>1, BegunType
<1>3. Goes(p, StartPlace(t), Begun(t, StartPlace(t)))
  BY DEF Start, StartPlace
<1> QED BY <1>1, <1>2, <1>3, GoesFacts

LookKey(t) == IF t.cmd \in {"rotate", "decrypt"} THEN Text(t.from).header ELSE t.key
Looked(p) == [job[p] EXCEPT !.seen = Text(To(p)), !.key = LookKey(job[p].task)]
LookPlace(t) == IF Accepts(t) THEN AfterLook(t) ELSE "idle"

LEMMA LookMoves ==
  ASSUME TypeOK, NEW p \in Proc, Look(p)
  PROVE  /\ job' \in [Proc -> Jobs] /\ Became(p, LookPlace(job[p].task), Looked(p))
         /\ \A q \in Proc \ {p} : job'[q] = job[q]
         /\ Looked(p) \in Jobs /\ LookPlace(job[p].task) \in {"key", "truncate", "load", "idle"}
<1>1. LookPlace(job[p].task) \in {"key", "truncate", "load", "idle"} /\ LookPlace(job[p].task) \in Places
  BY DEF LookPlace, AfterLook, Places
<1>2. LookKey(job[p].task) \in Headers
  BY JobType, TextType DEF LookKey, Contents, Task, Headers
<1>3. Looked(p) \in Jobs
  BY <1>2, JobType, TextType DEF Looked, Jobs
<1>4. Goes(p, LookPlace(job[p].task), Looked(p))
  BY DEF Look, LookPlace, Looked, LookKey, To
<1> QED BY <1>1, <1>3, <1>4, GoesFacts

\* A command goes on with no key it lacks, and set and init then have what to write.
LookedUp(p) == [job[p] EXCEPT !.new = Composed(job[p])]

LEMMA LookUpMoves ==
  ASSUME Typed, NEW p \in Proc, LookUp(p)
  PROVE  \E pool \in Pools, place \in Places :
           /\ job' \in [Proc -> Jobs] /\ Became(p, place, LookedUp(p))
           /\ \A q \in Proc \ {p} : job'[q] = job[q]
           /\ place # "idle" => /\ LookedUp(p) \in Jobs /\ Wanted(job[p]) \subseteq pool
                                /\ place = AfterKey(job[p].task)
           /\ pool \subseteq Key
<1>1. PICK pool \in Pools : Goes(p, IF Wanted(job[p]) \subseteq pool THEN AfterKey(job[p].task) ELSE "idle",
                                 LookedUp(p))
  BY DEF LookUp, LookedUp
<1> DEFINE place == IF Wanted(job[p]) \subseteq pool THEN AfterKey(job[p].task) ELSE "idle"
<1>2. pool \subseteq Key
  BY NamesAssumption DEF Pools, Typed, TypeOK
<1>3. place \in Places
  BY DEF AfterKey, Places
<1>4. ASSUME Wanted(job[p]) \subseteq pool
      PROVE  LookedUp(p) \in Jobs
  <2>1. CASE Cmd(p) = "set"
    <3>1. KeyForSet(job[p]) \in Key \/ Wanted(job[p]) = {}
      BY <1>2, <1>4, <2>1 DEF Wanted, Cmd
    <3>2. [by |-> IF Wanted(job[p]) = {} THEN NoKey ELSE KeyForSet(job[p]), is |-> job[p].task.val] \in Entries
      BY <3>1, JobType DEF Entries, Task, Typed
    <3>3. Composed(job[p]) \in Contents
      BY <2>1, <3>2, JobType DEF Composed, Cmd, Contents, Jobs, Typed
    <3> QED BY <3>3, JobType DEF LookedUp, Jobs, Typed
  <2>2. CASE Cmd(p) = "init"
    BY <2>2, JobType, BlankType DEF Composed, Cmd, Contents, Jobs, LookedUp, Typed
  <2>3. CASE Cmd(p) \notin {"set", "init"}
    BY <2>3, JobType DEF Composed, Cmd, LookedUp, Jobs, Typed
  <2> QED BY <2>1, <2>2, <2>3
<1>5. /\ job' \in [Proc -> Jobs] /\ Became(p, place, LookedUp(p))
      /\ \A q \in Proc \ {p} : job'[q] = job[q]
  BY <1>1, <1>3, <1>4, GoesFacts DEF Typed, AfterKey
<1> QED BY <1>2, <1>3, <1>4, <1>5

Loaded(p, k) == [job[p] EXCEPT !.fresh = k, !.held = blob]
LoadPlace(k) == IF k \in blob THEN "idle" ELSE "store"

LEMMA LoadMoves ==
  ASSUME TypeOK, NEW p \in Proc, NEW k \in Key, Load(p, k)
  PROVE  /\ job' \in [Proc -> Jobs] /\ Became(p, LoadPlace(k), Loaded(p, k))
         /\ \A q \in Proc \ {p} : job'[q] = job[q]
         /\ Loaded(p, k) \in Jobs
<1>1. LoadPlace(k) \in Places
  BY DEF LoadPlace, Places
<1>2. Loaded(p, k) \in Jobs
  BY JobType DEF Loaded, Jobs, TypeOK
<1>3. Goes(p, LoadPlace(k), Loaded(p, k))
  BY DEF Load, LoadPlace, Loaded
<1> QED BY <1>1, <1>2, <1>3, GoesFacts

Stored(p) == [job[p] EXCEPT !.new = [Blank EXCEPT !.header = job[p].fresh]]

LEMMA StoreMoves ==
  ASSUME Typed, NEW p \in Proc, Store(p)
  PROVE  /\ job' \in [Proc -> Jobs] /\ Became(p, AfterStore(job[p].task), Stored(p))
         /\ \A q \in Proc \ {p} : job'[q] = job[q]
         /\ Stored(p) \in Jobs /\ AfterStore(job[p].task) \in {"make", "truncate", "idle"}
         /\ job[p].fresh \in Key
<1>1. AfterStore(job[p].task) \in {"make", "truncate", "idle"} /\ AfterStore(job[p].task) \in Places
  BY DEF AfterStore, Places
<1>2. job[p].fresh \in Key
  BY DEF Store, Typed, InPlace, At
<1>3. Stored(p) \in Jobs
  BY <1>2, JobType, BlankType DEF Stored, Jobs, Contents, Headers, Typed
<1>4. Goes(p, AfterStore(job[p].task), Stored(p))
  BY DEF Store, Stored
<1> QED BY <1>1, <1>2, <1>3, <1>4, GoesFacts DEF Typed

\* What is made of which contents, under which key instead of which.
Source(p) == IF Cmd(p) = "rotate" THEN job[p].seen ELSE Text(job[p].task.from)
OpensWith(p) == IF Cmd(p) = "encrypt" THEN NoKey ELSE job[p].key
PutUnder(p) == CASE Cmd(p) = "rotate" -> job[p].fresh [] Cmd(p) = "encrypt" -> job[p].key [] OTHER -> NoKey
Made(p) == [job[p] EXCEPT !.new = [header |-> PutUnder(p),
                                   vals |-> Recode(Source(p), OpensWith(p), PutUnder(p))]]

LEMMA MakeMoves ==
  ASSUME Typed, NEW p \in Proc, Make(p)
  PROVE  \E place \in {"commit", "idle"} :
           /\ job' \in [Proc -> Jobs] /\ Became(p, place, Made(p))
           /\ \A q \in Proc \ {p} : job'[q] = job[q]
           /\ Made(p) \in Jobs /\ Source(p) \in Contents /\ PutUnder(p) \in Key \cup {NoKey}
           /\ place = "commit" => Opens(OpensWith(p), Source(p))
<1> DEFINE there == file[job[p].task.from] # Gone \/ Cmd(p) = "rotate"
           place == IF there /\ Opens(OpensWith(p), Source(p)) THEN "commit" ELSE "idle"
<1>1. place \in {"commit", "idle"} /\ place \in Places
  BY DEF Places
<1>2. Source(p) \in Contents
  BY JobType, TextType DEF Source, Typed, Jobs, Task
<1>3. PutUnder(p) \in Key \cup {NoKey}
  BY JobType DEF PutUnder, Typed, InPlace, Cmd, Jobs, Task
<1>4. Made(p) \in Jobs
  BY <1>2, <1>3, RecodeType, JobType DEF Made, Jobs, Typed
<1>5. Goes(p, place, Made(p))
  BY DEF Make, Made, Source, OpensWith, PutUnder
<1> QED BY <1>1, <1>2, <1>3, <1>4, <1>5, GoesFacts DEF Typed

LEMMA RefusedMoves ==
  ASSUME TypeOK, NEW p \in Proc, Refused(p)
  PROVE  /\ job' \in [Proc -> Jobs] /\ Became(p, "truncate", job[p])
         /\ \A q \in Proc \ {p} : job'[q] = job[q]
  BY GoesFacts, JobType DEF Refused, Places

LEMMA AfterWriteType == \A t : AfterWrite(t) \in {"unload", "idle"}
  BY DEF AfterWrite

LEMMA ReplaceMoves ==
  ASSUME TypeOK, NEW p \in Proc, Replace(p)
  PROVE  job[p].new \in Contents /\ AfterWrite(job[p].task) \in Places
  BY JobType, AfterWriteType DEF Jobs, Places

\* A file written in place ends as one of the two, as neither quite, or not at all.
LEMMA FillMoves ==
  ASSUME TypeOK, NEW p \in Proc, Fill(p)
  PROVE  \E c \in Contents, place \in {"unload", "idle"} :
           /\ Writes(p, c, place) /\ place \in Places
           /\ \/ c \in {job[p].new} \cup Overlaid(job[p].new, Text(To(p)))
              \/ c = Text(To(p)) /\ job[p].late
           /\ place = "unload" => AfterWrite(job[p].task) = "unload" /\ (c = job[p].new \/ job[p].late)
<1> DEFINE old == Text(To(p))
           partly == Overlaid(job[p].new, old)
<1>1. job[p].new \in Contents /\ old \in Contents /\ partly \subseteq Contents
  BY JobType, TextType, OverlaidType DEF Jobs
<1>2. CASE \E c \in (IF job[p].late THEN {job[p].new} \cup partly \cup {old} ELSE {job[p].new}) :
             Writes(p, c, AfterWrite(job[p].task))
  BY <1>1, <1>2, AfterWriteType DEF Places
<1>3. CASE \E c \in partly : Writes(p, c, "idle")
  BY <1>1, <1>3 DEF Places
<1> QED BY <1>2, <1>3 DEF Fill

LEMMA UnloadMoves ==
  ASSUME TypeOK, NEW p \in Proc, Unload(p)
  PROVE  \E place \in {"unstore", "idle"} :
           /\ place = "unstore" => job[p].key \in blob
           /\ job' \in [Proc -> Jobs] /\ Became(p, place, [job[p] EXCEPT !.held = blob])
           /\ \A q \in Proc \ {p} : job'[q] = job[q]
<1>1. [job[p] EXCEPT !.held = blob] \in Jobs
  BY JobType DEF Jobs, TypeOK
<1> QED BY <1>1, GoesFacts DEF Unload, Places

LEMMA EndsMoves ==
  ASSUME TypeOK, NEW p \in Proc, Ends(p)
  PROVE  job' \in [Proc -> Jobs] /\ job'[p] = Idle /\ \A q \in Proc \ {p} : job'[q] = job[q]
  BY GoesFacts, IdleType DEF Ends, Places, Became

\* Every step keeps the types and the places.
LEMMA TypedStep == Typed /\ [Next]_vars => Typed'
<1> SUFFICES ASSUME Typed, [Next]_vars
             PROVE  Typed'
  OBVIOUS
<1> USE DEF Typed
<1>1. ASSUME NEW p \in Proc, NEW t \in Tasks, Start(p, t)
      PROVE  Typed'
  <2>1. TypeOK'
    BY <1>1, StartMoves, NamesAssumption DEF Start, TypeOK, keys, history
  <2>2. Fits(StartPlace(t), Begun(t, StartPlace(t)))
    BY TaskAssumption DEF StartPlace, Begun, Fits, Writing, Removing
  <2>3. InPlace'
    BY <1>1, <2>2, StartMoves, GoesTyped DEF Became
  <2> QED BY <2>1, <2>3
<1>2. ASSUME NEW p \in Proc, Look(p)
      PROVE  Typed'
  <2>1. TypeOK'
    BY <1>2, LookMoves DEF Look, TypeOK, keys, history
  <2>2. LookPlace(job[p].task) # "idle" => Fits(LookPlace(job[p].task), Looked(p))
    BY <1>2, JobType DEF LookPlace, AfterLook, Looked, LookKey, Fits, Look, InPlace, At, Cmd, Writing, Removing, Jobs
  <2>3. InPlace'
    BY <1>2, <2>2, LookMoves, GoesTyped DEF Became
  <2> QED BY <2>1, <2>3
<1>3. ASSUME NEW p \in Proc, LookUp(p)
      PROVE  Typed'
  <2>1. TypeOK'
    BY <1>3, LookUpMoves DEF LookUp, TypeOK, keys, history
  <2>2. Fits(AfterKey(job[p].task), LookedUp(p))
    BY <1>3, JobType DEF LookedUp, AfterKey, LookUp, Fits, InPlace, At, Cmd, Jobs, Task, Commands, Writing, Removing
  <2>3. InPlace'
    BY <1>3, <2>2, LookUpMoves, GoesTyped DEF Became
  <2> QED BY <2>1, <2>3
<1>4. ASSUME NEW p \in Proc, NEW k \in Key, Load(p, k)
      PROVE  Typed'
  <2>1. TypeOK'
    BY <1>4, LoadMoves DEF Load, TypeOK, keys, history
  <2>2. Fits("store", Loaded(p, k))
    BY <1>4, JobType DEF Loaded, Load, Fits, InPlace, At, Cmd, Jobs, Writing, Removing
  <2>3. InPlace'
    BY <1>4, <2>2, LoadMoves, GoesTyped DEF Became, LoadPlace
  <2> QED BY <2>1, <2>3
<1>5. ASSUME NEW p \in Proc, Store(p)
      PROVE  Typed'
  <2>1. TypeOK'
    BY <1>5, StoreMoves, JobType DEF Store, TypeOK, Jobs
  <2>2. AfterStore(job[p].task) # "idle" => Fits(AfterStore(job[p].task), Stored(p))
    BY <1>5, JobType DEF Stored, AfterStore, Store, Fits, InPlace, At, Cmd, Jobs, Writing, Removing
  <2>3. InPlace'
    BY <1>5, <2>2, StoreMoves, GoesTyped DEF Became
  <2> QED BY <2>1, <2>3
<1>6. ASSUME NEW p \in Proc, Make(p)
      PROVE  Typed'
  <2>1. TypeOK'
    BY <1>6, MakeMoves DEF Make, TypeOK, keys, history
  <2>2. Fits("commit", Made(p))
    BY <1>6, JobType DEF Made, Make, Fits, InPlace, At, Cmd, Jobs, Writing, Removing
  <2>3. InPlace'
    BY <1>6, <2>2, MakeMoves, GoesTyped DEF Became
  <2> QED BY <2>1, <2>3
<1>7. ASSUME NEW p \in Proc, NEW c \in Contents, NEW place \in Places, Writes(p, c, place),
             place = "unload" => Cmd(p) = "rotate", place \in {"idle", "unload", "fill"},
             Cmd(p) \notin {"add", "remove"}, mixed' \subseteq File
      PROVE  Typed'
  <2>1. TypeOK'
    <3>1. job' \in [Proc -> Jobs] /\ file' \in [File -> Contents \cup {Gone}]
      BY <1>7, WritesFacts
    <3>2. clash' \subseteq File /\ opened' \subseteq File
      BY <1>7, JobType DEF Writes, TypeOK
    <3> QED BY <1>7, <3>1, <3>2 DEF Writes, TypeOK, keys
  <2>2. ASSUME NEW q \in Proc \ {p}
        PROVE  Fits(job'[q].at, job'[q])
    <3>1. /\ job'[q].at = job[q].at /\ job'[q].task = job[q].task /\ job'[q].key = job[q].key
          /\ job'[q].fresh = job[q].fresh /\ job'[q].new = job[q].new
      BY <1>7, WritesFacts DEF SameJob
    <3> QED BY <3>1, InPlaceFits DEF Fits
  <2>3. Fits(job'[p].at, job'[p])
    <3>1. CASE place = "idle"
      BY <3>1, <1>7, WritesFacts, IdleFits, IdleType
    <3>2. CASE place # "idle"
      <4>1. /\ job'[p].at = place /\ job'[p].task = job[p].task /\ job'[p].key = job[p].key
        BY <1>7, <3>2, WritesFacts DEF SameJob
      <4>2. job[p].task.cmd \notin {"rotate", "decrypt"} => job[p].key = job[p].task.key
        BY DEF InPlace, Cmd
      <4> QED BY <1>7, <3>2, <4>1, <4>2 DEF Fits, Writing, Removing, Cmd
    <3> QED BY <3>1, <3>2
  <2>4. InPlace'
    BY <2>2, <2>3, InPlaceFitsNext
  <2> QED BY <2>1, <2>4
<1>8. ASSUME NEW p \in Proc, Replace(p)
      PROVE  Typed'
  BY <1>7, <1>8, ReplaceMoves, JobType
     DEF Replace, AfterWrite, Cmd, At, InPlace, Writing, TypeOK
<1>9. ASSUME NEW p \in Proc, Refused(p)
      PROVE  Typed'
  <2>1. TypeOK'
    BY <1>9, RefusedMoves DEF Refused, TypeOK, keys, history
  <2>2. Fits("truncate", job[p])
    BY <1>9, JobType DEF Refused, InPlace, Fits, At, Cmd, Writing, Removing
  <2>3. InPlace'
    BY <1>9, <2>2, RefusedMoves, GoesTyped DEF Places
  <2> QED BY <2>1, <2>3
<1>10. ASSUME NEW p \in Proc, Truncate(p)
       PROVE  Typed'
  BY <1>7, <1>10, BlankType, JobType DEF Truncate, Places, Cmd, At, InPlace, Writing, TypeOK
<1>11. ASSUME NEW p \in Proc, Fill(p)
       PROVE  Typed'
  <2>1. mixed' \subseteq File /\ At(p, "fill")
    BY <1>11, JobType DEF Fill, TypeOK
  <2> QED BY <1>7, <1>11, <2>1, FillMoves DEF AfterWrite, Cmd, At, InPlace, Writing
<1>12. ASSUME NEW p \in Proc, Unload(p)
       PROVE  Typed'
  <2>1. TypeOK'
    BY <1>12, UnloadMoves DEF Unload, TypeOK, keys, history
  <2>2. job[p].key \in blob => Fits("unstore", [job[p] EXCEPT !.held = blob])
    BY <1>12, JobType DEF Unload, Fits, InPlace, At, Cmd, Jobs, Writing, Removing, TypeOK
  <2>3. InPlace'
    BY <1>12, <2>2, UnloadMoves, GoesTyped DEF Became
  <2> QED BY <2>1, <2>3
<1>13. ASSUME NEW p \in Proc, Unstore(p)
       PROVE  Typed'
  <2>1. job[p].key \in Key
    BY <1>13 DEF Unstore, InPlace, At
  <2>2. /\ job' \in [Proc -> Jobs] /\ \A q \in Proc : job'[q] \in {job[q], Idle}
    BY <1>13, EndsMoves DEF Unstore
  <2>3. blob' \subseteq Key
    BY <1>13, JobType DEF Unstore, Jobs
  <2>4. excused' \in [File -> SUBSET Key]
    BY <1>13, <2>1 DEF Unstore, TypeOK
  <2>5. clash' \subseteq File /\ keyClash' \in BOOLEAN
    BY <1>13, JobType DEF Unstore, TypeOK
  <2>6. TypeOK'
    BY <1>13, <2>2, <2>3, <2>4, <2>5 DEF Unstore, TypeOK
  <2>7. InPlace'
    BY <2>2, IdleFits, IdleType, InPlaceFits, InPlaceFitsNext
  <2> QED BY <2>6, <2>7
<1>14. ASSUME NEW p \in Proc, Kill(p)
       PROVE  Typed'
  BY <1>14, EndsMoves, IdleType DEF Kill, TypeOK, keys, history, InPlace, At, Cmd, Writing, Removing
<1>15. CASE Reboot
  <2>1. TypeOK'
    BY <1>15, IdleType DEF Reboot, TypeOK
  <2>2. InPlace'
    BY <1>15, IdleType DEF Reboot, InPlace, At, Cmd, Writing, Removing
  <2> QED BY <2>1, <2>2
<1>16. CASE UNCHANGED vars
  BY <1>16 DEF vars, keys, history, TypeOK, InPlace, At, Cmd
<1> QED
  BY <1>1, <1>2, <1>3, <1>4, <1>5, <1>6, <1>8, <1>9, <1>10, <1>11, <1>12, <1>13, <1>14, <1>15, <1>16
     DEF Next, Process

LEMMA TypedAlways == Spec => []Typed
BY InitTyped, TypedStep, PTL DEF Spec

\* Every variable keeps its type (cmd_env: what a command holds, env files, the store).
THEOREM TypeCorrect == Spec => []TypeOK
BY TypedAlways, PTL DEF Typed

-----------------------------------------------------------------------------
(* The two kinds of step.                                                  *)

\* A step that writes no file leaves a job with what is at hand: nothing, the file
\* as it is found, or contents that LookUp, Store or Make work out.
Handled(p) ==
  /\ ~At(p, "fill")'
  /\ \/ job'[p].seen = Blank /\ job'[p].new = Blank
     \/ /\ job'[p].task = job[p].task
        /\ job'[p].seen \in {job[p].seen, Text(To(p))}
        /\ \/ job'[p].new = job[p].new
           \/ At(p, "key") /\ job'[p].new = Composed(job[p]) /\ Wanted(job[p]) \subseteq Key
           \/ \E h \in Key : job'[p].new = [Blank EXCEPT !.header = h]
           \/ At(p, "make") /\ job'[p].new = Made(p).new /\ Opens(OpensWith(p), Source(p))

Quiet ==
  /\ UNCHANGED <<file, opened, mixed>>
  /\ \A q \in Proc : job'[q] = job[q] \/ Handled(q)

\* A step that writes one leaves it with the new contents, with nothing for now, or
\* with what a write in place makes of the two.
WrittenBy(p, c, place) ==
  /\ Writes(p, c, place) /\ job[p].at \in Writing /\ place \in {"fill", "unload", "idle"}
  /\ place = "fill" => c = Blank
  /\ place = "unload" => Cmd(p) = "rotate" /\ (c = job[p].new \/ job[p].late)
  /\ \/ c \in {job[p].new, Blank} /\ mixed' = mixed
     \/ /\ At(p, "fill")
        /\ \/ c \in {job[p].new} \cup Overlaid(job[p].new, Text(To(p)))
           \/ c = Text(To(p)) /\ job[p].late
        /\ mixed' = IF job[p].late THEN mixed \cup {To(p)} ELSE mixed

Written == \E p \in Proc, c \in Contents, place \in Places : WrittenBy(p, c, place)

LEMMA WritesWritten ==
  ASSUME Typed, NEW p \in Proc, Replace(p) \/ Truncate(p) \/ Fill(p)
  PROVE  Written
<1> USE DEF Typed
<1>1. CASE Replace(p)
  BY <1>1, ReplaceMoves, AfterWriteType DEF Replace, Written, WrittenBy, AfterWrite, Cmd, At, Writing
<1>2. CASE Truncate(p)
  BY <1>2, BlankType DEF Truncate, Written, WrittenBy, At, Writing, Places
<1>3. CASE Fill(p)
  BY <1>3, FillMoves DEF Fill, Written, WrittenBy, AfterWrite, Cmd, At, Writing
<1> QED BY <1>1, <1>2, <1>3

LEMMA QuietOrWritten == Typed /\ [Next]_vars => Quiet \/ Written
<1> SUFFICES ASSUME Typed, [Next]_vars
             PROVE  Quiet \/ Written
  OBVIOUS
<1> USE DEF Typed
<1>1. ASSUME NEW p \in Proc, NEW t \in Tasks, Start(p, t)
      PROVE  Quiet
  <2>1. Handled(p)
    BY <1>1, StartMoves DEF Start, Handled, Became, SameJob, Begun, At
  <2> QED BY <1>1, <2>1, StartMoves DEF Start, history, Quiet
<1>2. ASSUME NEW p \in Proc, Look(p)
      PROVE  Quiet
  <2>1. Handled(p)
    BY <1>2, LookMoves, IdleType, JobType DEF Look, Handled, Became, SameJob, Looked, At, Jobs
  <2> QED BY <1>2, <2>1, LookMoves DEF Look, history, Quiet
<1>3. ASSUME NEW p \in Proc, LookUp(p)
      PROVE  Quiet
  <2>1. PICK pool \in Pools, place \in Places :
          /\ Became(p, place, LookedUp(p)) /\ pool \subseteq Key
          /\ \A q \in Proc \ {p} : job'[q] = job[q]
          /\ place # "idle" => LookedUp(p) \in Jobs /\ Wanted(job[p]) \subseteq pool /\ place = AfterKey(job[p].task)
    BY <1>3, LookUpMoves
  <2>2. Handled(p)
    BY <1>3, <2>1, IdleType, JobType DEF LookUp, Handled, Became, SameJob, LookedUp, AfterKey, At, Jobs
  <2> QED BY <1>3, <2>1, <2>2 DEF LookUp, history, Quiet
<1>4. ASSUME NEW p \in Proc, NEW k \in Key, Load(p, k)
      PROVE  Quiet
  <2>1. Handled(p)
    BY <1>4, LoadMoves, IdleType, JobType DEF Load, Handled, Became, SameJob, Loaded, LoadPlace, At, Jobs
  <2> QED BY <1>4, <2>1, LoadMoves DEF Load, history, Quiet
<1>5. ASSUME NEW p \in Proc, Store(p)
      PROVE  Quiet
  <2>1. Handled(p)
    BY <1>5, StoreMoves, IdleType, JobType DEF Store, Handled, Became, SameJob, Stored, AfterStore, At, Jobs
  <2> QED BY <1>5, <2>1, StoreMoves DEF Store, history, Quiet
<1>6. ASSUME NEW p \in Proc, Make(p)
      PROVE  Quiet
  <2>1. Handled(p)
    BY <1>6, MakeMoves, IdleType, JobType DEF Make, Handled, Became, SameJob, Made, At, Jobs
  <2> QED BY <1>6, <2>1, MakeMoves DEF Make, history, Quiet
<1>7. ASSUME NEW p \in Proc, Replace(p) \/ Truncate(p) \/ Fill(p)
      PROVE  Written
  BY <1>7, WritesWritten
<1>8. ASSUME NEW p \in Proc, Refused(p)
      PROVE  Quiet
  <2>1. Handled(p)
    BY <1>8, RefusedMoves, JobType DEF Refused, Handled, Became, SameJob, At, Jobs, Places
  <2> QED BY <1>8, <2>1, RefusedMoves DEF Refused, history, Quiet
<1>11. ASSUME NEW p \in Proc, Unload(p)
      PROVE  Quiet
  <2>1. Handled(p)
    BY <1>11, UnloadMoves, IdleType, JobType DEF Unload, Handled, Became, SameJob, At, Jobs
  <2> QED BY <1>11, <2>1, UnloadMoves DEF Unload, history, Quiet
<1>12. ASSUME NEW p \in Proc, Unstore(p) \/ Kill(p)
      PROVE  Quiet
  <2>1. Handled(p)
    BY <1>12, EndsMoves, IdleType DEF Unstore, Kill, Handled, At
  <2> QED BY <1>12, <2>1, EndsMoves DEF Unstore, Kill, history, Quiet
<1>13. CASE Reboot
  BY <1>13, IdleType DEF Reboot, Quiet, Handled, At
<1>14. CASE UNCHANGED vars
  BY <1>14 DEF vars, history, Quiet
<1> QED
  BY <1>1, <1>2, <1>3, <1>4, <1>5, <1>6, <1>7, <1>8, <1>11, <1>12, <1>13, <1>14
     DEF Next, Process

-----------------------------------------------------------------------------
(* One key to a file.                                                      *)

\* All that is encrypted in c is, under the header's key.
Whole(c) == \A v \in Var : c.header \in Key => c.vals[v].by \in {NoKey, c.header}

\* A file one command alone writes in place is empty until it is filled.
Emptied == \A p \in Proc : At(p, "fill") /\ ~job[p].late => file[To(p)] = Blank

LEMMA EmptiedStep == Typed /\ Emptied /\ (Quiet \/ Written) => Emptied'
<1> SUFFICES ASSUME Typed, Emptied, Quiet \/ Written
             PROVE  Emptied'
  OBVIOUS
<1>1. CASE Quiet
  BY <1>1 DEF Quiet, Handled, Emptied, At, To
<1>2. CASE Written
  <2>1. PICK p \in Proc, c \in Contents, place \in Places : WrittenBy(p, c, place)
    BY <1>2 DEF Written
  <2>2. /\ job'[p].at = place /\ (place = "idle" => job'[p] = Idle)
        /\ place # "idle" => SameJob(job'[p], job[p])
        /\ \A q \in Proc \ {p} : /\ SameJob(job'[q], job[q]) /\ job'[q].at = job[q].at
                                 /\ job'[q].late <=> Overtaken(q, p)
        /\ file'[To(p)] = c /\ \A f \in File \ {To(p)} : file'[f] = file[f]
    <3>1. TypeOK /\ Writes(p, c, place)
      BY <2>1 DEF Typed, WrittenBy
    <3> QED BY <3>1, WritesFacts
  <2>3. ASSUME NEW q \in Proc, At(q, "fill")', ~job'[q].late
        PROVE  file'[To(q)'] = Blank
    <3>1. CASE q = p
      <4>1. place = "fill" /\ To(q)' = To(p)
        BY <2>2, <2>3, <3>1 DEF At, To, SameJob
      <4> QED BY <2>1, <2>2, <4>1 DEF WrittenBy
    <3>2. CASE q # p
      <4>1. /\ At(q, "fill") /\ ~job[q].late /\ To(q) # To(p) /\ To(q)' = To(q)
        BY <2>2, <2>3, <3>2 DEF At, To, SameJob, Overtaken
      <4>2. file'[To(q)] = file[To(q)]
        BY <2>2, <4>1, JobType DEF Typed
      <4> QED BY <4>1, <4>2 DEF Emptied
    <3> QED BY <3>1, <3>2
  <2> QED BY <2>3 DEF Emptied
<1> QED BY <1>1, <1>2

LEMMA EmptiedAlways == Spec => []Emptied
<1>1. Init => Emptied
  BY IdleType DEF Init, Emptied, At
<1>2. Typed /\ Emptied /\ [Next]_vars => Emptied'
  BY EmptiedStep, QuietOrWritten
<1> QED BY <1>1, <1>2, TypedAlways, PTL DEF Spec

\* What a command has found and what it is to write is whole, as every file is.
Wholeness ==
  \A p \in Proc : To(p) \notin mixed => Whole(job[p].seen) /\ Whole(job[p].new)

OneKeyInv == Wholeness /\ OneKey

LEMMA OneKeyIsWhole == OneKey <=> \A f \in File \ mixed : Whole(Text(f))
  BY DEF OneKey, Whole

LEMMA OneKeyIsWholeNext == OneKey' <=> \A f \in File \ mixed' : Whole(Text(f)')
  BY DEF OneKey, Whole

LEMMA BlankWhole == Whole(Blank) /\ \A h \in Key : Whole([Blank EXCEPT !.header = h])
  BY DEF Whole, Blank, Unset

\* key_for_set: a value is set under the header's key or not at all.
LEMMA ComposedWhole ==
  ASSUME Typed, NEW p \in Proc, At(p, "key"), Wanted(job[p]) \subseteq Key,
         Whole(job[p].seen), Whole(job[p].new)
  PROVE  Whole(Composed(job[p]))
<1>1. CASE Cmd(p) = "set"
  <2> DEFINE by == IF Wanted(job[p]) = {} THEN NoKey ELSE KeyForSet(job[p])
             c  == [job[p].seen EXCEPT !.vals[job[p].task.var] = [by |-> by, is |-> job[p].task.val]]
  <2>1. job[p].seen.header \in Key => by \in {NoKey, job[p].seen.header}
    BY <1>1, NamesAssumption DEF Wanted, KeyForSet, Cmd
  <2>2. /\ c.header = job[p].seen.header
        /\ \A v \in Var : c.vals[v].by \in {by, job[p].seen.vals[v].by}
    BY JobType DEF Jobs, Contents, Typed
  <2>3. Composed(job[p]) = c
    BY <1>1 DEF Composed, Cmd
  <2> HIDE DEF by, c
  <2> QED BY <2>1, <2>2, <2>3 DEF Whole
<1>2. CASE Cmd(p) = "init"
  BY <1>2, BlankWhole DEF Composed, Cmd, Wanted
<1>3. CASE Cmd(p) \notin {"set", "init"}
  BY <1>3 DEF Composed, Cmd
<1> QED BY <1>1, <1>2, <1>3

\* decrypt_all_values and encrypt_file_content: contents a key opens, under another.
LEMMA RecodeWhole ==
  ASSUME NEW c \in Contents, NEW from, NEW to \in Key \cup {NoKey}, Opens(from, c)
  PROVE  Whole([header |-> to, vals |-> Recode(c, from, to)])
<1>1. \A v \in Var : Recode(c, from, to)[v].by \in {NoKey, to}
  BY DEF Recode, Opens, Contents, Entries, Unset
<1> QED BY <1>1 DEF Whole

LEMMA MadeWhole ==
  ASSUME Typed, NEW p \in Proc, At(p, "make"), Opens(OpensWith(p), Source(p))
  PROVE  Whole(Made(p).new)
<1>1. Source(p) \in Contents /\ PutUnder(p) \in Key \cup {NoKey}
  BY JobType, TextType DEF Source, PutUnder, Typed, InPlace, Cmd, At, Jobs, Task
<1>2. Made(p).new = [header |-> PutUnder(p), vals |-> Recode(Source(p), OpensWith(p), PutUnder(p))]
  BY JobType DEF Made, Typed, Jobs
<1> QED BY <1>1, <1>2, RecodeWhole

\* A write in place that stops short leaves nothing of another key.
LEMMA OverlaidWhole ==
  ASSUME NEW c \in Contents, Whole(c), NEW w \in Overlaid(c, Blank)
  PROVE  Whole(w)
<1>1. w.header \in {c.header, NoKey, Cut}
  BY OverlaidFacts, BlankType DEF Blank
<1>2. \A v \in Var : w.vals[v].by \in {NoKey, c.vals[v].by}
  BY OverlaidFacts, BlankType DEF Blank, Unset
<1> QED BY <1>1, <1>2, NamesAssumption DEF Whole

LEMMA OneKeyInit == Init => OneKeyInv
<1> SUFFICES ASSUME Init
             PROVE  OneKeyInv
  OBVIOUS
<1>1. \A f \in File : file[f] = Gone \/ \E h \in Key \cup {NoKey} : \E x : file[f] = Given(h, x)
  BY NamesAssumption DEF Init
<1>2. \A h \in Key \cup {NoKey} : \A x : Whole(Given(h, x))
  BY DEF Given, Whole
<1>3. \A f \in File : Whole(Text(f))
  BY <1>1, <1>2, BlankWhole DEF Text
<1>4. Wholeness
  BY IdleType, BlankWhole DEF Init, Wholeness
<1> QED BY <1>3, <1>4, OneKeyIsWhole DEF OneKeyInv

LEMMA OneKeyQuiet == Typed /\ OneKeyInv /\ Quiet => OneKeyInv'
<1> SUFFICES ASSUME Typed, OneKeyInv, Quiet
             PROVE  OneKeyInv'
  OBVIOUS
<1> USE DEF OneKeyInv
<1>1. OneKey'
  BY DEF Quiet, OneKey, Text
<1>2. ASSUME NEW p \in Proc, Handled(p), To(p)' \notin mixed
      PROVE  Whole(job'[p].seen) /\ Whole(job'[p].new)
  <2>1. CASE job'[p].seen = Blank /\ job'[p].new = Blank
    BY <2>1, BlankWhole
  <2>2. CASE job'[p].task = job[p].task
    <3>1. Whole(job[p].seen) /\ Whole(job[p].new) /\ Whole(Text(To(p)))
      BY <1>2, <2>2, OneKeyIsWhole, JobType DEF Wholeness, To, Typed
    <3> QED BY <1>2, <3>1, <2>1, BlankWhole, ComposedWhole, MadeWhole DEF Handled
  <2> QED BY <1>2, <2>1, <2>2 DEF Handled
<1>3. Wholeness'
  BY <1>2 DEF Quiet, Wholeness, To
<1> QED BY <1>1, <1>3

LEMMA OneKeyWritten == Typed /\ Emptied /\ OneKeyInv /\ Written => OneKeyInv'
<1> SUFFICES ASSUME Typed, Emptied, OneKeyInv, Written
             PROVE  OneKeyInv'
  OBVIOUS
<1> USE DEF OneKeyInv
<1>1. PICK p \in Proc, c \in Contents, place \in Places : WrittenBy(p, c, place)
  BY DEF Written
<1>2. mixed \subseteq mixed'
  BY <1>1 DEF WrittenBy
<1>3. /\ job'[p].at = place /\ (place = "idle" => job'[p] = Idle)
      /\ place # "idle" => SameJob(job'[p], job[p]) /\ ~job'[p].late
      /\ \A q \in Proc \ {p} : /\ SameJob(job'[q], job[q]) /\ job'[q].at = job[q].at
                               /\ job'[q].late <=> Overtaken(q, p)
      /\ \A f \in File : Text(f)' = IF f = To(p) THEN c ELSE Text(f)
      /\ file'[To(p)] = c /\ \A f \in File \ {To(p)} : file'[f] = file[f]
  <2>1. TypeOK /\ Writes(p, c, place)
    BY <1>1 DEF Typed, WrittenBy
  <2> QED BY <2>1, WritesFacts
<1>4. To(p) \notin mixed' => Whole(c)
  <2>1. SUFFICES ASSUME To(p) \notin mixed'
                 PROVE  Whole(c)
    OBVIOUS
  <2>2. Whole(job[p].new) /\ job[p].new \in Contents
    BY <1>2, <2>1, JobType DEF Wholeness, Typed, Jobs
  <2>3. At(p, "fill") /\ ~job[p].late => Text(To(p)) = Blank
    BY NamesAssumption, BlankType DEF Emptied, Text
  <2> QED BY <1>1, <2>1, <2>2, <2>3, BlankWhole, OverlaidWhole DEF WrittenBy
<1>5. OneKey'
  BY <1>2, <1>3, <1>4, OneKeyIsWhole, OneKeyIsWholeNext
<1>6. Wholeness'
  <2>1. ASSUME NEW q \in Proc, To(q)' \notin mixed'
        PROVE  Whole(job'[q].seen) /\ Whole(job'[q].new)
    <3>1. CASE job'[q] = Idle
      BY <3>1, IdleType, BlankWhole
    <3>2. CASE SameJob(job'[q], job[q])
      BY <1>2, <2>1, <3>2 DEF Wholeness, To, SameJob
    <3> QED BY <1>3, <3>1, <3>2
  <2> QED BY <2>1 DEF Wholeness
<1> QED BY <1>5, <1>6

\* OneKey: no file has a value under another key than its header's, but one two
\* commands filled at once (key_for_set, cmd_rotate, encrypt_file_content).
THEOREM OneKeyAlways == Spec => []OneKey
<1>1. Init => OneKeyInv
  BY OneKeyInit
<1>2. Typed /\ Emptied /\ OneKeyInv /\ [Next]_vars => OneKeyInv'
  BY QuietOrWritten, OneKeyQuiet, OneKeyWritten
<1>3. OneKeyInv => OneKey
  BY DEF OneKeyInv
<1> QED BY <1>1, <1>2, <1>3, TypedAlways, EmptiedAlways, PTL DEF Spec

-----------------------------------------------------------------------------
(* Nothing secret in the open.                                             *)

Sealed(c) == \A v \in Var : c.vals[v].is \in Secret => c.vals[v].by # NoKey

\* What a command is to write, or has found, gives away nothing; a decryption's may.
Sealing ==
  \A p \in Proc : Cmd(p) # "decrypt" /\ To(p) \notin opened => Sealed(job[p].seen) /\ Sealed(job[p].new)

NeverPlainInv == Sealing /\ NeverPlain

LEMMA PlainIsSealed == NeverPlain <=> \A f \in File \ opened : Sealed(Text(f))
  BY DEF NeverPlain, Sealed

LEMMA PlainIsSealedNext == NeverPlain' <=> \A f \in File \ opened' : Sealed(Text(f)')
  BY DEF NeverPlain, Sealed

LEMMA BlankSealed == Sealed(Blank) /\ \A h \in Key : Sealed([Blank EXCEPT !.header = h])
  BY NamesAssumption DEF Sealed, Blank, Unset

\* A value is set in the open with --plain alone, and that one is no secret.
LEMMA ComposedSealed ==
  ASSUME Typed, NEW p \in Proc, At(p, "key"), Wanted(job[p]) \subseteq Key,
         Sealed(job[p].seen), Sealed(job[p].new)
  PROVE  Sealed(Composed(job[p]))
<1>1. CASE Cmd(p) = "set"
  <2> DEFINE by == IF Wanted(job[p]) = {} THEN NoKey ELSE KeyForSet(job[p])
             e  == [by |-> by, is |-> job[p].task.val]
             c  == [job[p].seen EXCEPT !.vals[job[p].task.var] = e]
  <2>1. job[p].task \in Tasks
    BY JobType DEF Typed, Jobs
  <2>2. e.is \in Secret => e.by # NoKey
    BY <1>1, <2>1, NamesAssumption, TaskAssumption DEF Wanted, Cmd
  <2>3. \A v \in Var : c.vals[v] \in {e, job[p].seen.vals[v]}
    BY JobType DEF Jobs, Contents, Typed
  <2>4. Composed(job[p]) = c
    BY <1>1 DEF Composed, Cmd
  <2> HIDE DEF e, c
  <2> QED BY <2>2, <2>3, <2>4 DEF Sealed
<1>2. CASE Cmd(p) = "init"
  BY <1>2, BlankSealed DEF Composed, Cmd, Wanted
<1>3. CASE Cmd(p) \notin {"set", "init"}
  BY <1>3 DEF Composed, Cmd
<1> QED BY <1>1, <1>2, <1>3

LEMMA RecodeSealed ==
  ASSUME NEW c \in Contents, NEW from, NEW to \in Key, Sealed(c) \/ from = NoKey
  PROVE  Sealed([header |-> to, vals |-> Recode(c, from, to)])
<1> DEFINE w == Recode(c, from, to)
<1>1. ASSUME NEW v \in Var, w[v].is \in Secret
      PROVE  w[v].by # NoKey
  BY <1>1, NamesAssumption DEF Recode, Sealed, Contents, Entries, Unset
<1> QED BY <1>1 DEF Sealed

\* A rotation encrypts what was encrypted, and encrypt everything.
LEMMA MadeSealed ==
  ASSUME Typed, NEW p \in Proc, At(p, "make"), Cmd(p) # "decrypt", Opens(OpensWith(p), Source(p)),
         Sealed(job[p].seen)
  PROVE  Sealed(Made(p).new)
<1>1. Source(p) \in Contents
  BY JobType, TextType DEF Source, Typed, Jobs, Task
<1>2. PutUnder(p) \in Key
  <2>1. job[p].task \in Tasks /\ job[p].task.key \in Key \cup {NoKey}
    BY JobType DEF Typed, Jobs, Task
  <2> QED BY <2>1, TaskAssumption DEF PutUnder, Typed, InPlace, Cmd, At
<1>3. Sealed(Source(p)) \/ OpensWith(p) = NoKey
  BY DEF Source, OpensWith, Typed, InPlace, Cmd, At
<1>4. Made(p).new = [header |-> PutUnder(p), vals |-> Recode(Source(p), OpensWith(p), PutUnder(p))]
  BY JobType DEF Made, Typed, Jobs
<1> QED BY <1>1, <1>2, <1>3, <1>4, RecodeSealed

LEMMA OverlaidSealed ==
  ASSUME NEW c \in Contents, NEW old \in Contents, Sealed(c), Sealed(old), NEW w \in Overlaid(c, old)
  PROVE  Sealed(w)
  BY OverlaidFacts, NamesAssumption DEF Sealed

LEMMA NeverPlainInit == Init => NeverPlainInv
<1> SUFFICES ASSUME Init
             PROVE  NeverPlainInv
  OBVIOUS
<1>1. \A f \in File : \/ file[f] = Gone
                      \/ \E x \in Open : file[f] = Given(NoKey, x)
                      \/ \E h \in Key, x \in Secret : file[f] = Given(h, x)
  BY NamesAssumption DEF Init
<1>2. /\ \A x \in Open : Sealed(Given(NoKey, x))
      /\ \A h \in Key : \A x : Sealed(Given(h, x))
  BY NamesAssumption DEF Given, Sealed
<1>3. \A f \in File : Sealed(Text(f))
  BY <1>1, <1>2, BlankSealed DEF Text
<1>4. Sealing
  BY IdleType, BlankSealed DEF Init, Sealing
<1> QED BY <1>3, <1>4, PlainIsSealed DEF NeverPlainInv

LEMMA NeverPlainQuiet == Typed /\ NeverPlainInv /\ Quiet => NeverPlainInv'
<1> SUFFICES ASSUME Typed, NeverPlainInv, Quiet
             PROVE  NeverPlainInv'
  OBVIOUS
<1> USE DEF NeverPlainInv
<1>1. NeverPlain'
  BY DEF Quiet, NeverPlain, Text
<1>2. ASSUME NEW p \in Proc, Handled(p), To(p)' \notin opened, Cmd(p)' # "decrypt"
      PROVE  Sealed(job'[p].seen) /\ Sealed(job'[p].new)
  <2>1. CASE job'[p].seen = Blank /\ job'[p].new = Blank
    BY <2>1, BlankSealed
  <2>2. CASE job'[p].task = job[p].task
    <3>1. Sealed(job[p].seen) /\ Sealed(job[p].new) /\ Sealed(Text(To(p))) /\ Cmd(p) # "decrypt"
      BY <1>2, <2>2, PlainIsSealed, JobType DEF Sealing, To, Cmd, Typed
    <3> QED BY <1>2, <3>1, <2>1, BlankSealed, ComposedSealed, MadeSealed DEF Handled
  <2> QED BY <1>2, <2>1, <2>2 DEF Handled
<1>3. Sealing'
  BY <1>2 DEF Quiet, Sealing, To, Cmd
<1> QED BY <1>1, <1>3

LEMMA NeverPlainWritten == Typed /\ NeverPlainInv /\ Written => NeverPlainInv'
<1> SUFFICES ASSUME Typed, NeverPlainInv, Written
             PROVE  NeverPlainInv'
  OBVIOUS
<1> USE DEF NeverPlainInv
<1>1. PICK p \in Proc, c \in Contents, place \in Places : WrittenBy(p, c, place)
  BY DEF Written
<1>2. /\ place = "idle" => job'[p] = Idle
      /\ place # "idle" => SameJob(job'[p], job[p])
      /\ \A q \in Proc \ {p} : SameJob(job'[q], job[q])
      /\ \A f \in File : Text(f)' = IF f = To(p) THEN c ELSE Text(f)
  <2>1. TypeOK /\ Writes(p, c, place)
    BY <1>1 DEF Typed, WrittenBy
  <2> QED BY <2>1, WritesFacts
<1>3. opened' = IF Cmd(p) = "decrypt" THEN opened \cup {To(p)} ELSE opened
  BY <1>1 DEF WrittenBy, Writes
<1>4. ASSUME To(p) \notin opened'
      PROVE  Sealed(c)
  <2>1. Cmd(p) # "decrypt" /\ To(p) \notin opened /\ To(p) \in File
    BY <1>3, <1>4, JobType DEF Typed
  <2>2. Sealed(job[p].new) /\ Sealed(Text(To(p)))
    BY <2>1, PlainIsSealed DEF Sealing
  <2>3. job[p].new \in Contents /\ Text(To(p)) \in Contents
    BY <2>1, JobType, TextType DEF Typed, Jobs
  <2> QED BY <1>1, <2>2, <2>3, BlankSealed, OverlaidSealed DEF WrittenBy
<1>5. NeverPlain'
  BY <1>2, <1>3, <1>4, PlainIsSealed, PlainIsSealedNext
<1>6. ASSUME NEW q \in Proc, Cmd(q)' # "decrypt", To(q)' \notin opened'
      PROVE  Sealed(job'[q].seen) /\ Sealed(job'[q].new)
  <2>1. CASE job'[q] = Idle
    BY <2>1, IdleType, BlankSealed
  <2>2. CASE SameJob(job'[q], job[q])
    BY <1>3, <1>6, <2>2 DEF Sealing, To, Cmd, SameJob
  <2> QED BY <1>2, <2>1, <2>2
<1> QED BY <1>5, <1>6 DEF Sealing

\* NeverPlain: a value given to be encrypted lies in the open in no file but one a
\* decrypt was asked to write (key_for_set refuses rather than fall back to plaintext).
THEOREM NeverPlainAlways == Spec => []NeverPlain
<1>1. Init => NeverPlainInv
  BY NeverPlainInit
<1>2. Typed /\ NeverPlainInv /\ [Next]_vars => NeverPlainInv'
  BY QuietOrWritten, NeverPlainQuiet, NeverPlainWritten
<1>3. NeverPlainInv => NeverPlain
  BY DEF NeverPlainInv
<1> QED BY <1>1, <1>2, <1>3, TypedAlways, PTL DEF Spec

\* What a write does to the jobs and to the files.
LEMMA WrittenFacts ==
  ASSUME Typed, NEW p \in Proc, NEW c \in Contents, NEW place \in Places, WrittenBy(p, c, place)
  PROVE  /\ job'[p].at = place /\ (place = "idle" => job'[p] = Idle)
         /\ place # "idle" => SameJob(job'[p], job[p]) /\ ~job'[p].late
         /\ \A q \in Proc \ {p} : /\ SameJob(job'[q], job[q]) /\ job'[q].at = job[q].at
                                  /\ job'[q].late <=> Overtaken(q, p)
         /\ \A f \in File : Text(f)' = IF f = To(p) THEN c ELSE Text(f)
         /\ UNCHANGED <<keys, excused, keyClash>>
         /\ clash' = IF job[p].late THEN clash \cup {To(p)} ELSE clash
<1>1. TypeOK /\ Writes(p, c, place)
  BY DEF Typed, WrittenBy
<1>2. /\ UNCHANGED <<keys, excused, keyClash>>
      /\ clash' = IF job[p].late THEN clash \cup {To(p)} ELSE clash
  BY <1>1 DEF Writes
<1> QED BY <1>1, <1>2, WritesFacts

-----------------------------------------------------------------------------
(* The key a rotation adds is a new one.                                   *)

\* Where a rotation is from when it knows it has the old key.
Settled == {"load", "store", "make"} \cup Writing \cup Removing

Under(ks, c) == \A v \in Var : c.vals[v].by \in ks

FreshJob(j, known) ==
  /\ j.held \subseteq known /\ j.fresh \in known \cup {NoKey}
  /\ j.task.cmd = "rotate" =>
       /\ j.at \in Settled => j.key \in known
       /\ j.at \in Settled \ {"load"} => j.fresh \in Key \ {j.key}
       /\ j.at \in Writing => j.new.header = j.fresh /\ Under({NoKey, j.fresh}, j.new)

\* Every key there is or a command has to do with was generated, and what a rotation
\* writes is under its new key alone.
Fresh == blob \cup Pool \subseteq born /\ \A p \in Proc : FreshJob(job[p], born)

LEMMA FreshIdle == \A known : FreshJob(Idle, known)
  BY IdleType DEF FreshJob, Settled, Writing, Removing

LEMMA FreshSame ==
  ASSUME NEW j, NEW k, NEW known, NEW more, SameJob(k, j), k.at = j.at, known \subseteq more, FreshJob(j, known)
  PROVE  FreshJob(k, more)
  BY DEF FreshJob, SameJob

LEMMA FreshMoves ==
  ASSUME Fresh, NEW p \in Proc, \A q \in Proc \ {p} : job'[q] = job[q],
         born \subseteq born', blob' \subseteq born', FreshJob(job'[p], born')
  PROVE  Fresh'
<1>1. \A q \in Proc \ {p} : FreshJob(job'[q], born')
  BY FreshSame DEF Fresh, SameJob
<1>2. Pool \subseteq born'
  BY DEF Fresh
<1> QED BY <1>1, <1>2 DEF Fresh

\* Values under one key, when a key opens all of them.
LEMMA RecodeUnder ==
  ASSUME NEW c \in Contents, NEW from, NEW to \in Key \cup {NoKey}, Opens(from, c)
  PROVE  Under({NoKey, to}, [header |-> to, vals |-> Recode(c, from, to)])
<1>1. \A v \in Var : Recode(c, from, to)[v].by \in {NoKey, to}
  BY DEF Recode, Opens, Contents, Entries, Unset
<1> QED BY <1>1 DEF Under

LEMMA MadeFacts ==
  ASSUME Typed, NEW p \in Proc, Make(p)
  PROVE  \/ job'[p] = Idle
         \/ /\ job'[p].at = "commit" /\ job'[p].task = job[p].task /\ job'[p].fresh = job[p].fresh
            /\ job'[p].key = job[p].key /\ job'[p].held = job[p].held /\ job'[p].late = job[p].late
            /\ job'[p].new.header = PutUnder(p) /\ Under({NoKey, PutUnder(p)}, job'[p].new)
            /\ job'[p].seen = job[p].seen
<1>1. PICK place \in {"commit", "idle"} :
        /\ Became(p, place, Made(p)) /\ Source(p) \in Contents /\ PutUnder(p) \in Key \cup {NoKey}
        /\ place = "commit" => Opens(OpensWith(p), Source(p))
  BY MakeMoves
<1>2. /\ Made(p).new = [header |-> PutUnder(p), vals |-> Recode(Source(p), OpensWith(p), PutUnder(p))]
      /\ Made(p).task = job[p].task /\ Made(p).fresh = job[p].fresh /\ Made(p).key = job[p].key
      /\ Made(p).held = job[p].held /\ Made(p).late = job[p].late /\ Made(p).seen = job[p].seen
  BY JobType DEF Made, Typed, Jobs
<1>3. place = "commit" => Under({NoKey, PutUnder(p)}, Made(p).new)
  BY <1>1, <1>2, RecodeUnder
<1> QED BY <1>1, <1>2, <1>3 DEF Became, SameJob

LEMMA FreshStep == Typed /\ Typed' /\ Fresh /\ [Next]_vars => Fresh'
<1> SUFFICES ASSUME Typed, Typed', Fresh, [Next]_vars
             PROVE  Fresh'
  OBVIOUS
<1>a. TypeOK
  BY DEF Typed
<1>1. ASSUME NEW p \in Proc, NEW t \in Tasks, Start(p, t)
      PROVE  Fresh'
  <2>1. FreshJob(job'[p], born)
    BY <1>a, <1>1, StartMoves DEF Became, SameJob, Begun, StartPlace, FreshJob, Settled, Writing, Removing
  <2> QED BY <1>a, <1>1, <2>1, StartMoves, FreshMoves DEF Start, keys, Fresh
<1>2. ASSUME NEW p \in Proc, Look(p)
      PROVE  Fresh'
  <2>1. LookPlace(job[p].task) # "idle" =>
          /\ job'[p].held = job[p].held /\ job'[p].fresh = job[p].fresh /\ job'[p].task = job[p].task
          /\ job'[p].task.cmd = "rotate" => job'[p].at = "key"
    BY <1>a, <1>2, LookMoves, JobType DEF Became, SameJob, Looked, Jobs, LookPlace, AfterLook
  <2>2. FreshJob(job'[p], born)
    BY <1>a, <1>2, <2>1, LookMoves, FreshIdle DEF Fresh, FreshJob, Became, Settled, Writing, Removing
  <2> QED BY <1>a, <1>2, <2>2, LookMoves, FreshMoves DEF Look, keys, Fresh
<1>3. ASSUME NEW p \in Proc, LookUp(p)
      PROVE  Fresh'
  <2>1. PICK pool \in Pools, place \in Places :
          /\ Became(p, place, LookedUp(p)) /\ \A q \in Proc \ {p} : job'[q] = job[q]
          /\ place # "idle" => Wanted(job[p]) \subseteq pool /\ place = AfterKey(job[p].task)
    BY <1>3, LookUpMoves
  <2>2. place # "idle" =>
          /\ job'[p].held = job[p].held /\ job'[p].fresh = job[p].fresh /\ job'[p].task = job[p].task
          /\ job'[p].key = job[p].key
          /\ job'[p].task.cmd = "rotate" => job'[p].at = "load" /\ job[p].key \in pool
    BY <1>a, <2>1, JobType DEF Became, SameJob, LookedUp, Jobs, AfterKey, Wanted
  <2>3. pool \subseteq born
    BY DEF Pools, Fresh
  <2>4. FreshJob(job'[p], born)
    BY <2>1, <2>2, <2>3, FreshIdle DEF Fresh, FreshJob, Became, Settled, Writing, Removing
  <2> QED BY <1>3, <2>1, <2>4, FreshMoves DEF LookUp, keys, Fresh
<1>4. ASSUME NEW p \in Proc, NEW k \in Key, Load(p, k)
      PROVE  Fresh'
  <2>1. born' = born \cup {k} /\ blob' = blob /\ (Cmd(p) = "rotate" => k \notin born)
    BY <1>4 DEF Load, Cmd
  <2>2. k \notin blob =>
          /\ job'[p].held = blob /\ job'[p].fresh = k /\ job'[p].task = job[p].task
          /\ job'[p].key = job[p].key /\ job'[p].at = "store"
    BY <1>a, <1>4, LoadMoves, JobType DEF Became, SameJob, Loaded, LoadPlace, Jobs
  <2>3. Cmd(p) = "rotate" => job[p].key \in born
    BY <1>4 DEF Fresh, FreshJob, Load, At, Cmd, Settled
  <2>4. k \in blob => job'[p] = Idle
    BY <1>a, <1>4, LoadMoves DEF Became, LoadPlace
  <2>5. FreshJob(job'[p], born')
    BY <2>1, <2>2, <2>3, <2>4, FreshIdle DEF Fresh, FreshJob, Settled, Writing, Removing, Cmd
  <2> QED BY <1>a, <1>4, <2>1, <2>5, LoadMoves, FreshMoves DEF Fresh
<1>5. ASSUME NEW p \in Proc, Store(p)
      PROVE  Fresh'
  <2>1. AfterStore(job[p].task) # "idle" =>
          /\ job'[p].held = job[p].held /\ job'[p].fresh = job[p].fresh /\ job'[p].task = job[p].task
          /\ job'[p].key = job[p].key /\ (job'[p].task.cmd = "rotate" => job'[p].at = "make")
    BY <1>5, StoreMoves, JobType, <1>a DEF Became, SameJob, Stored, AfterStore, Jobs
  <2>2. AfterStore(job[p].task) = "idle" => job'[p] = Idle
    BY <1>5, StoreMoves DEF Became
  <2>3. FreshJob(job'[p], born)
    BY <1>5, <2>1, <2>2, FreshIdle DEF Store, At, Fresh, FreshJob, Settled, Writing, Removing
  <2>4. born' = born /\ blob' \subseteq born
    BY <1>5, StoreMoves, NamesAssumption DEF Store, Fresh, FreshJob
  <2> QED BY <1>5, <2>3, <2>4, StoreMoves, FreshMoves
<1>6. ASSUME NEW p \in Proc, Make(p)
      PROVE  Fresh'
  <2>1. FreshJob(job'[p], born)
    BY <1>6, MadeFacts, FreshIdle DEF Make, At, Cmd, Fresh, FreshJob, PutUnder, Settled, Writing, Removing
  <2> QED BY <1>6, <2>1, MakeMoves, FreshMoves DEF Make, keys, Fresh
<1>7. CASE Written
  <2>1. PICK p \in Proc, c \in Contents, place \in Places : WrittenBy(p, c, place)
    BY <1>7 DEF Written
  <2>2. ASSUME NEW q \in Proc \ {p}
        PROVE  FreshJob(job'[q], born)
    BY <2>1, WrittenFacts, FreshSame DEF Fresh
  <2>3. FreshJob(job'[p], born)
    BY <2>1, WrittenFacts, FreshIdle DEF WrittenBy, Fresh, FreshJob, SameJob, Settled, Writing, Removing
  <2> QED BY <2>1, <2>2, <2>3, WrittenFacts DEF keys, Fresh
<1>8. ASSUME NEW p \in Proc, Refused(p)
      PROVE  Fresh'
  <2>1. SameJob(job'[p], job[p]) /\ job[p].at = "commit" /\ job'[p].at = "truncate"
    BY <1>a, <1>8, RefusedMoves DEF Refused, At, Became
  <2>2. FreshJob(job'[p], born)
    BY <2>1 DEF Fresh, FreshJob, SameJob, Settled, Writing, Removing
  <2> QED BY <1>a, <1>8, <2>2, RefusedMoves, FreshMoves DEF Refused, keys, Fresh
<1>9. ASSUME NEW p \in Proc, Unload(p)
      PROVE  Fresh'
  <2>1. \/ job'[p] = Idle
        \/ /\ job'[p].held = blob /\ job'[p].fresh = job[p].fresh /\ job'[p].task = job[p].task
           /\ job'[p].key = job[p].key /\ job'[p].at = "unstore"
    BY <1>a, <1>9, UnloadMoves, JobType DEF Became, SameJob, Jobs
  <2>2. FreshJob(job'[p], born)
    BY <1>9, <2>1, FreshIdle DEF Unload, At, Fresh, FreshJob, Settled, Writing, Removing
  <2> QED BY <1>a, <1>9, <2>2, UnloadMoves, FreshMoves DEF Unload, keys, Fresh
<1>10. ASSUME NEW p \in Proc, Unstore(p) \/ Kill(p)
       PROVE  Fresh'
  <2>1. born' = born /\ blob' \subseteq born
    BY <1>10 DEF Unstore, Kill, keys, Fresh, FreshJob
  <2> QED BY <1>a, <1>10, <2>1, EndsMoves, FreshIdle, FreshMoves DEF Unstore, Kill
<1>11. CASE Reboot
  BY <1>11, FreshIdle DEF Reboot, Fresh
<1>12. CASE UNCHANGED vars
  BY <1>12 DEF vars, keys, Fresh
<1> QED
  BY <1>1, <1>2, <1>3, <1>4, <1>5, <1>6, <1>7, <1>8, <1>9, <1>10, <1>11, <1>12, WritesWritten
     DEF Next, Process

LEMMA FreshAlways == Spec => []Fresh
<1>1. Init => Fresh
  BY FreshIdle DEF Init, Fresh
<1> QED BY <1>1, FreshStep, TypedAlways, PTL DEF Spec

-----------------------------------------------------------------------------
(* What is left of a job by each step that writes no file.                 *)

LEMMA LookFacts ==
  ASSUME Typed, NEW p \in Proc, Look(p)
  PROVE  \/ job'[p] = Idle
         \/ /\ job'[p].task = job[p].task /\ job'[p].seen = Text(To(p)) /\ job'[p].new = Blank
            /\ job'[p].late = job[p].late /\ job'[p].at = AfterLook(job[p].task) /\ Accepts(job[p].task)
<1>1. TypeOK
  BY DEF Typed
<1>2. job[p].new = Blank
  BY DEF Typed, InPlace, Look, At
<1>3. /\ Looked(p).task = job[p].task /\ Looked(p).seen = Text(To(p)) /\ Looked(p).new = Blank
      /\ Looked(p).late = job[p].late
  BY <1>1, <1>2, JobType DEF Looked, Jobs
<1> QED BY <1>1, <1>3, LookMoves DEF Became, SameJob, LookPlace

LEMMA LookUpFacts ==
  ASSUME Typed, NEW p \in Proc, LookUp(p)
  PROVE  \E pool \in Pools :
           \/ job'[p] = Idle
           \/ /\ job'[p].task = job[p].task /\ job'[p].seen = job[p].seen /\ job'[p].late = job[p].late
              /\ job'[p].key = job[p].key /\ job'[p].fresh = job[p].fresh
              /\ job'[p].new = Composed(job[p]) /\ job'[p].at = AfterKey(job[p].task)
              /\ Wanted(job[p]) \subseteq pool /\ pool \subseteq Key
<1>1. PICK pool \in Pools, place \in Places :
        /\ Became(p, place, LookedUp(p)) /\ pool \subseteq Key
        /\ place # "idle" => Wanted(job[p]) \subseteq pool /\ place = AfterKey(job[p].task)
  BY LookUpMoves
<1>2. /\ LookedUp(p).task = job[p].task /\ LookedUp(p).seen = job[p].seen /\ LookedUp(p).late = job[p].late
      /\ LookedUp(p).key = job[p].key /\ LookedUp(p).fresh = job[p].fresh
      /\ LookedUp(p).new = Composed(job[p])
  BY JobType DEF LookedUp, Typed, Jobs
<1> QED BY <1>1, <1>2 DEF Became, SameJob

LEMMA LoadFacts ==
  ASSUME Typed, NEW p \in Proc, NEW k \in Key, Load(p, k)
  PROVE  \/ job'[p] = Idle
         \/ /\ job'[p].task = job[p].task /\ job'[p].seen = job[p].seen /\ job'[p].late = job[p].late
            /\ job'[p].fresh = k /\ job'[p].at = "store"
<1>1. TypeOK
  BY DEF Typed
<1>2. /\ Loaded(p, k).task = job[p].task /\ Loaded(p, k).seen = job[p].seen
      /\ Loaded(p, k).late = job[p].late /\ Loaded(p, k).fresh = k
  BY <1>1, JobType DEF Loaded, Jobs
<1> QED BY <1>1, <1>2, LoadMoves DEF Became, SameJob, LoadPlace

LEMMA StoreFacts ==
  ASSUME Typed, NEW p \in Proc, Store(p)
  PROVE  \/ job'[p] = Idle
         \/ /\ job'[p].task = job[p].task /\ job'[p].seen = job[p].seen /\ job'[p].late = job[p].late
            /\ job'[p].fresh = job[p].fresh /\ job'[p].at = AfterStore(job[p].task)
            /\ Under({NoKey}, job'[p].new)
<1>1. /\ Stored(p).task = job[p].task /\ Stored(p).seen = job[p].seen /\ Stored(p).late = job[p].late
      /\ Stored(p).fresh = job[p].fresh /\ Under({NoKey}, Stored(p).new)
  BY JobType DEF Stored, Typed, Jobs, Under, Blank, Unset
<1> QED BY <1>1, StoreMoves DEF Became, SameJob

-----------------------------------------------------------------------------
(* What a command knows of its file.                                       *)

Ready == {"key", "load", "store", "make", "commit", "truncate"}

KnownJob(j, text) ==
  /\ j.at \in Ready /\ j.task.cmd # "add" /\ ~j.late => j.seen = text
  /\ j.at \in {"key", "make"} /\ j.task.cmd = "encrypt" => j.seen.header = NoKey

\* A command that is not late has the file before it as it found it; encrypt found it
\* without a header.
Known == \A p \in Proc : KnownJob(job[p], Text(To(p)))

LEMMA KnownMoves ==
  ASSUME Known, NEW p \in Proc, \A q \in Proc \ {p} : job'[q] = job[q], file' = file,
         KnownJob(job'[p], Text(job'[p].task.to))
  PROVE  Known'
<1>1. \A q \in Proc : KnownJob(job'[q], Text(job'[q].task.to))
  BY DEF Known, To
<1>2. \A q \in Proc : Text(To(q))' = Text(job'[q].task.to)
  BY DEF Text, To
<1> QED BY <1>1, <1>2 DEF Known

LEMMA KnownIdle == \A text : KnownJob(Idle, text)
  BY IdleType DEF KnownJob, Ready

\* p goes on from where it knew its file.
LEMMA KnownOnward ==
  ASSUME Typed, Known, NEW p \in Proc, job[p].at \in Ready,
         \A q \in Proc \ {p} : job'[q] = job[q], file' = file,
         \/ job'[p] = Idle
         \/ /\ job'[p].task = job[p].task /\ job'[p].seen = job[p].seen /\ job'[p].late = job[p].late
            /\ job'[p].at = "make" /\ Cmd(p) = "encrypt" => job[p].at = "key"
            /\ job'[p].at # "key"
  PROVE  Known'
<1>1. KnownJob(job'[p], Text(job'[p].task.to))
  BY KnownIdle DEF Known, KnownJob, To, Cmd
<1> QED BY <1>1, KnownMoves

LEMMA KnownStep == Typed /\ Known /\ [Next]_vars => Known'
<1> SUFFICES ASSUME Typed, Known, [Next]_vars
             PROVE  Known'
  OBVIOUS
<1>a. TypeOK
  BY DEF Typed
<1>1. ASSUME NEW p \in Proc, NEW t \in Tasks, Start(p, t)
      PROVE  Known'
  <2>1. job'[p].task = t /\ job'[p].at = StartPlace(t)
    BY <1>a, <1>1, StartMoves DEF Became, SameJob, Begun
  <2>2. KnownJob(job'[p], Text(job'[p].task.to))
    BY <2>1 DEF KnownJob, StartPlace, Ready
  <2> QED BY <1>a, <1>1, <2>2, StartMoves, KnownMoves DEF Start
<1>2. ASSUME NEW p \in Proc, Look(p)
      PROVE  Known'
  <2>1. KnownJob(job'[p], Text(job'[p].task.to))
    BY <1>2, LookFacts, KnownIdle DEF KnownJob, To, Accepts
  <2> QED BY <1>a, <1>2, <2>1, LookMoves, KnownMoves DEF Look
<1>3. ASSUME NEW p \in Proc, LookUp(p)
      PROVE  Known'
  <2>1. AfterKey(job[p].task) # "key"
    BY DEF AfterKey
  <2> QED BY <1>3, <2>1, LookUpFacts, LookUpMoves, KnownOnward DEF LookUp, At, Ready
<1>4. ASSUME NEW p \in Proc, NEW k \in Key, Load(p, k)
      PROVE  Known'
  BY <1>a, <1>4, LoadFacts, LoadMoves, KnownOnward DEF Load, At, Ready
<1>5. ASSUME NEW p \in Proc, Store(p)
      PROVE  Known'
  <2>1. AfterStore(job[p].task) # "key" /\ (Cmd(p) = "encrypt" => AfterStore(job[p].task) # "make")
    BY DEF AfterStore, Cmd
  <2> QED BY <1>5, <2>1, StoreFacts, StoreMoves, KnownOnward DEF Store, At, Ready
<1>6. ASSUME NEW p \in Proc, Make(p)
      PROVE  Known'
  BY <1>6, MadeFacts, MakeMoves, KnownOnward DEF Make, At, Ready
<1>7. CASE Written
  <2>1. PICK p \in Proc, c \in Contents, place \in Places : WrittenBy(p, c, place)
    BY <1>7 DEF Written
  <2>2. ASSUME NEW q \in Proc \ {p}
        PROVE  KnownJob(job'[q], Text(To(q))')
    <3>1. /\ SameJob(job'[q], job[q]) /\ job'[q].at = job[q].at /\ (job'[q].late <=> Overtaken(q, p))
          /\ Text(To(q))' = IF To(q) = To(p) THEN c ELSE Text(To(q))
      BY <2>1, WrittenFacts, JobType, <1>a DEF To, SameJob
    <3>2. KnownJob(job[q], Text(To(q)))
      BY DEF Known
    <3> QED BY <3>1, <3>2 DEF KnownJob, SameJob, Overtaken, Ready
  <2>3. KnownJob(job'[p], Text(To(p))')
    BY <2>1, WrittenFacts, KnownIdle DEF WrittenBy, KnownJob, Ready
  <2> QED BY <2>2, <2>3 DEF Known
<1>8. ASSUME NEW p \in Proc, Refused(p)
      PROVE  Known'
  <2>1. SameJob(job'[p], job[p]) /\ job'[p].at = "truncate" /\ job'[p].late = job[p].late
    BY <1>a, <1>8, RefusedMoves DEF Became
  <2> QED BY <1>a, <1>8, <2>1, RefusedMoves, KnownOnward DEF Refused, At, Ready, SameJob
<1>9. ASSUME NEW p \in Proc, Unload(p)
      PROVE  Known'
  <2>1. KnownJob(job'[p], Text(job'[p].task.to))
    BY <1>a, <1>9, UnloadMoves, KnownIdle DEF Became, KnownJob, Ready
  <2> QED BY <1>a, <1>9, <2>1, UnloadMoves, KnownMoves DEF Unload
<1>10. ASSUME NEW p \in Proc, Unstore(p) \/ Kill(p)
       PROVE  Known'
  BY <1>a, <1>10, EndsMoves, KnownIdle, KnownMoves DEF Unstore, Kill
<1>11. CASE Reboot
  BY <1>11, KnownIdle DEF Reboot, Known
<1>12. CASE UNCHANGED vars
  BY <1>12 DEF vars, Known, Text, To
<1> QED
  BY <1>1, <1>2, <1>3, <1>4, <1>5, <1>6, <1>7, <1>8, <1>9, <1>10, <1>11, <1>12, WritesWritten
     DEF Next, Process

LEMMA KnownAlways == Spec => []Known
<1>1. Init => Known
  BY KnownIdle DEF Init, Known
<1> QED BY <1>1, KnownStep, TypedAlways, PTL DEF Spec

-----------------------------------------------------------------------------
(* The old key of a rotation goes last.                                    *)

\* Nobody has written p's file since p looked at it, nor has it been lost track of.
Good(p) == ~job[p].late /\ To(p) \notin clash

\* p is about to delete the key it has replaced.
Retiring(p) == Cmd(p) = "rotate" /\ job[p].at \in Removing

\* A job that brings key k into no file.
Without(j, k) ==
  /\ j.task.cmd = "rotate" /\ j.at \in {"store", "make"} => j.fresh # k
  /\ j.at \in Writing => \A v \in Var : j.new.vals[v].by # k

\* Contents that have an encrypted header and need k for nothing.
Rid(c, k) == c.header \in Key \ {k} /\ \A v \in Var : c.vals[v].by # k

\* By then neither the file nor any command that is to write it needs the old key.
Rotated ==
  \A q \in Proc : Retiring(q) /\ Good(q) =>
    /\ Rid(Text(To(q)), job[q].key)
    /\ \A p \in Proc \ {q} : To(p) = To(q) /\ ~job[p].late => Without(job[p], job[q].key)

LEMMA IdleWithout == \A k : Without(Idle, k)
  BY IdleType DEF Without, Writing

\* key_for_set keeps to the header's key.
LEMMA ComposedWithout ==
  ASSUME Typed, NEW p \in Proc, Cmd(p) \in {"set", "init"}, Wanted(job[p]) \subseteq Key, NEW k \in Key,
         Rid(job[p].seen, k)
  PROVE  \A v \in Var : Composed(job[p]).vals[v].by # k
<1>1. CASE Cmd(p) = "set"
  <2> DEFINE by == IF Wanted(job[p]) = {} THEN NoKey ELSE KeyForSet(job[p])
             e  == [by |-> by, is |-> job[p].task.val]
             c  == [job[p].seen EXCEPT !.vals[job[p].task.var] = e]
  <2>1. by # k
    BY <1>1, NamesAssumption DEF Wanted, KeyForSet, Cmd, Rid
  <2>2. \A v \in Var : c.vals[v] \in {e, job[p].seen.vals[v]}
    BY JobType DEF Jobs, Contents, Typed
  <2>3. Composed(job[p]) = c /\ e.by = by
    BY <1>1 DEF Composed, Cmd
  <2> HIDE DEF by, e, c
  <2> QED BY <2>1, <2>2, <2>3 DEF Rid
<1>2. CASE Cmd(p) = "init"
  BY <1>2, NamesAssumption DEF Composed, Cmd, Blank, Unset
<1> QED BY <1>1, <1>2

Quietly(p) ==
  \/ \E t \in Tasks : Start(p, t)
  \/ Look(p) \/ LookUp(p) \/ Store(p) \/ Make(p)
  \/ \E k \in Key : Load(p, k)
  \/ Refused(p) \/ Unload(p) \/ Unstore(p) \/ Kill(p)

\* A step of p that writes nothing brings k, a key there is, into no file that is rid
\* of it.
LEMMA StaysWithout ==
  ASSUME Typed, Fresh, Known, NEW p \in Proc, NEW k \in Key, k \in born, Quietly(p),
         To(p)' = To(p) => Rid(Text(To(p)), k) /\ (job[p].late \/ Without(job[p], k)),
         ~job'[p].late
  PROVE  Without(job'[p], k)
<1>a. TypeOK
  BY DEF Typed
<1>b. k # NoKey
  BY NamesAssumption
<1>1. ASSUME NEW t \in Tasks, Start(p, t)
      PROVE  Without(job'[p], k)
  BY <1>a, <1>1, StartMoves DEF Became, StartPlace, Without, Writing
<1>2. CASE Look(p)
  <2>1. \/ job'[p] = Idle
        \/ job'[p].at \in {"key", "truncate", "load"} /\ job'[p].new = Blank
    BY <1>2, LookFacts DEF AfterLook
  <2>2. \A v \in Var : Blank.vals[v].by # k
    BY <1>b DEF Blank, Unset
  <2> QED BY <2>1, <2>2, IdleWithout DEF Without, Writing
<1>3. CASE LookUp(p)
  <2>1. PICK pool \in Pools :
           \/ job'[p] = Idle
           \/ /\ job'[p].task = job[p].task /\ job'[p].seen = job[p].seen /\ job'[p].late = job[p].late
              /\ job'[p].new = Composed(job[p]) /\ job'[p].at = AfterKey(job[p].task)
              /\ Wanted(job[p]) \subseteq pool /\ pool \subseteq Key
    BY <1>3, LookUpFacts
  <2>2. CASE job'[p] # Idle
    <3>1. job[p].seen = Text(To(p)) /\ To(p)' = To(p)
      BY <1>3, <2>1, <2>2 DEF LookUp, At, Known, KnownJob, Ready, Typed, InPlace, Cmd, To
    <3>2. Cmd(p) \in {"set", "init"} => \A v \in Var : Composed(job[p]).vals[v].by # k
      BY <2>1, <2>2, <3>1, ComposedWithout
    <3>3. job'[p].at = AfterKey(job[p].task) /\ job'[p].new = Composed(job[p]) /\ job'[p].task = job[p].task
      BY <2>1, <2>2
    <3> QED BY <3>2, <3>3 DEF Without, AfterKey, Cmd, Writing
  <2> QED BY <2>2, IdleWithout
<1>4. CASE \E x \in Key : Load(p, x)
  <2>1. PICK x \in Key : Load(p, x)
    BY <1>4
  <2>2. Cmd(p) = "rotate" => x # k
    BY <2>1 DEF Load, Cmd
  <2> QED BY <2>1, <2>2, LoadFacts, IdleWithout DEF Without, Cmd, Writing
<1>5. CASE Store(p)
  <2>1. job'[p] # Idle => job'[p].fresh = job[p].fresh /\ job'[p].task = job[p].task /\ ~job[p].late
                          /\ Under({NoKey}, job'[p].new) /\ To(p)' = To(p)
    BY <1>5, StoreFacts DEF To
  <2>2. job[p].at = "store"
    BY <1>5 DEF Store, At
  <2> QED BY <1>b, <2>1, <2>2, IdleWithout DEF Without, Under, Writing
<1>6. CASE Make(p)
  <2>1. CASE job'[p] # Idle
    <3>1. /\ job'[p].at = "commit" /\ ~job[p].late /\ Under({NoKey, PutUnder(p)}, job'[p].new)
          /\ job[p].at = "make" /\ job'[p].task = job[p].task /\ job'[p].fresh = job[p].fresh
          /\ To(p)' = To(p)
      BY <1>6, <2>1, MadeFacts DEF Make, At, To
    <3>2. CASE Cmd(p) = "rotate"
      BY <1>b, <3>1, <3>2 DEF PutUnder, Without, Under, Cmd, Writing
    <3>3. CASE Cmd(p) = "encrypt"
      <4>1. job[p].seen.header = NoKey /\ job[p].seen = Text(To(p))
        BY <3>1, <3>3 DEF Known, KnownJob, Ready, Cmd
      <4> QED BY <3>1, <4>1, NamesAssumption DEF Rid
    <3>4. CASE Cmd(p) = "decrypt"
      BY <1>b, <3>1, <3>4 DEF PutUnder, Without, Under, Cmd, Writing
    <3> QED BY <3>1, <3>2, <3>3, <3>4 DEF Typed, InPlace, At
  <2> QED BY <2>1, IdleWithout
<1>7. CASE Refused(p)
  <2>1. SameJob(job'[p], job[p]) /\ job'[p].at = "truncate" /\ job'[p].late = job[p].late
    BY <1>a, <1>7, RefusedMoves DEF Became
  <2>2. job[p].at = "commit"
    BY <1>7 DEF Refused, At
  <2>3. To(p)' = To(p)
    BY <2>1 DEF SameJob, To
  <2> QED BY <2>1, <2>2, <2>3 DEF Without, SameJob, Writing
<1>8. CASE Unload(p)
  BY <1>a, <1>8, UnloadMoves DEF Became, Without, Writing
<1>9. CASE Unstore(p) \/ Kill(p)
  BY <1>a, <1>9, EndsMoves, IdleWithout DEF Unstore, Kill
<1> QED BY <1>1, <1>2, <1>3, <1>4, <1>5, <1>6, <1>7, <1>8, <1>9 DEF Quietly

\* A process that is about to delete its old key after such a step was before.
LEMMA RetiringMover ==
  ASSUME Typed, NEW p \in Proc, Quietly(p), Retiring(p)'
  PROVE  Retiring(p) /\ job'[p].key = job[p].key /\ To(p)' = To(p) /\ job'[p].late = job[p].late
<1>a. TypeOK
  BY DEF Typed
<1> USE DEF Retiring, Removing, Cmd
<1>1. ASSUME NEW t \in Tasks, Start(p, t)
      PROVE  FALSE
  BY <1>a, <1>1, StartMoves DEF Became, SameJob, Begun, StartPlace
<1>2. ~Look(p)
  BY LookFacts, IdleType DEF AfterLook
<1>3. ~LookUp(p)
  BY LookUpFacts, IdleType DEF AfterKey
<1>4. \A k \in Key : ~Load(p, k)
  BY LoadFacts, IdleType
<1>5. ~Store(p) /\ ~Make(p)
  BY StoreFacts, MadeFacts, IdleType DEF AfterStore
<1>6. ~Refused(p)
  BY <1>a, RefusedMoves DEF Became
<1>7. ~Unstore(p) /\ ~Kill(p)
  BY <1>a, EndsMoves, IdleType DEF Unstore, Kill
<1>8. Unload(p)
  BY <1>1, <1>2, <1>3, <1>4, <1>5, <1>6, <1>7 DEF Quietly
<1>9. LET j == [job[p] EXCEPT !.held = blob]
      IN  j.task = job[p].task /\ j.key = job[p].key /\ j.late = job[p].late
  BY <1>a, JobType DEF Jobs
<1> QED BY <1>a, <1>8, <1>9, UnloadMoves, IdleType DEF Became, SameJob, Unload, At, To

\* Nothing of the files and of the other processes changes with it.
LEMMA QuietlyFacts ==
  ASSUME Typed, NEW p \in Proc, Quietly(p)
  PROVE  /\ file' = file /\ clash \subseteq clash' /\ born \subseteq born'
         /\ \A q \in Proc \ {p} : job'[q] = job[q]
<1>a. TypeOK
  BY DEF Typed
<1>1. file' = file /\ clash \subseteq clash' /\ born \subseteq born'
  BY DEF Quietly, Start, Look, LookUp, Store, Make, Load, Refused, Unload, Unstore, Kill, keys, history
<1>2. \A q \in Proc \ {p} : job'[q] = job[q]
  BY <1>a, StartMoves, LookMoves, LookUpMoves, StoreMoves, MakeMoves, LoadMoves, RefusedMoves, UnloadMoves,
     EndsMoves DEF Quietly, Unstore, Kill
<1> QED BY <1>1, <1>2

LEMMA RotatedStep == Typed /\ Fresh /\ Known /\ Rotated /\ [Next]_vars => Rotated'
<1> SUFFICES ASSUME Typed, Fresh, Known, Rotated, [Next]_vars,
                    NEW q \in Proc, Retiring(q)', Good(q)'
             PROVE  /\ Rid(Text(To(q))', job'[q].key)
                    /\ \A p \in Proc \ {q} : To(p)' = To(q)' /\ ~job'[p].late => Without(job'[p], job'[q].key)
  BY DEF Rotated
<1>a. TypeOK
  BY DEF Typed
<1>1. ASSUME NEW p \in Proc, Quietly(p)
      PROVE  /\ Rid(Text(To(q))', job'[q].key)
             /\ \A r \in Proc \ {q} : To(r)' = To(q)' /\ ~job'[r].late => Without(job'[r], job'[q].key)
  <2>1. /\ file' = file /\ clash \subseteq clash' /\ born \subseteq born'
        /\ \A r \in Proc \ {p} : job'[r] = job[r]
    BY <1>1, QuietlyFacts
  <2>2. Retiring(q) /\ Good(q) /\ job'[q].key = job[q].key /\ To(q)' = To(q)
    <3>1. CASE q = p
      BY <1>1, <2>1, <3>1, RetiringMover DEF Good
    <3>2. CASE q # p
      BY <2>1, <3>2 DEF Retiring, Good, To, Cmd
    <3> QED BY <3>1, <3>2
  <2>3. job[q].key \in born /\ job[q].key \in Key
    BY <1>a, <2>2 DEF Retiring, Fresh, FreshJob, Settled, Cmd, TypeOK
  <2>4. Text(To(q))' = Text(To(q))
    BY <2>1, <2>2 DEF Text
  <2>5. ASSUME NEW r \in Proc \ {q}, To(r)' = To(q)', ~job'[r].late
        PROVE  Without(job'[r], job[q].key)
    <3>1. CASE r # p
      BY <2>1, <2>2, <2>5, <3>1 DEF Rotated, To
    <3>2. CASE r = p
      BY <1>1, <2>2, <2>3, <2>5, <3>2, StaysWithout DEF Rotated
    <3> QED BY <3>1, <3>2
  <2> QED BY <2>2, <2>4, <2>5 DEF Rotated
<1>2. ASSUME NEW p \in Proc, NEW c \in Contents, NEW place \in Places, WrittenBy(p, c, place)
      PROVE  /\ Rid(Text(To(q))', job'[q].key)
             /\ \A r \in Proc \ {q} : To(r)' = To(q)' /\ ~job'[r].late => Without(job'[r], job'[q].key)
  <2>1. /\ job'[p].at = place /\ (place = "idle" => job'[p] = Idle)
        /\ place # "idle" => SameJob(job'[p], job[p]) /\ ~job'[p].late
        /\ \A r \in Proc \ {p} : /\ SameJob(job'[r], job[r]) /\ job'[r].at = job[r].at
                                 /\ job'[r].late <=> Overtaken(r, p)
        /\ \A f \in File : Text(f)' = IF f = To(p) THEN c ELSE Text(f)
        /\ clash' = IF job[p].late THEN clash \cup {To(p)} ELSE clash
    BY <1>2, WrittenFacts
  <2>2. CASE q = p
    <3>1. place = "unload" /\ SameJob(job'[p], job[p]) /\ To(p)' = To(p) /\ Cmd(p) = "rotate"
      BY <1>2, <2>1, <2>2 DEF Retiring, Removing, WrittenBy, SameJob, To, Cmd
    <3>2. c = job[p].new
      BY <1>2, <2>1, <2>2, <3>1, JobType, <1>a DEF WrittenBy, Good
    <3>3. job[p].key \in Key /\ Rid(job[p].new, job[p].key)
      <4>1. /\ job[p].key \in born /\ job[p].fresh \in Key \ {job[p].key} /\ job[p].new.header = job[p].fresh
            /\ Under({NoKey, job[p].fresh}, job[p].new)
        BY <1>2, <3>1 DEF WrittenBy, Fresh, FreshJob, Settled, Cmd, Writing
      <4> QED BY <1>a, <4>1, NamesAssumption DEF TypeOK, Rid, Under
    <3>4. Text(To(p))' = c
      BY <1>a, <2>1, <3>1, JobType DEF Text, To
    <3>5. ASSUME NEW r \in Proc \ {p}, To(r)' = To(p)', ~job'[r].late
          PROVE  Without(job'[r], job[p].key)
      <4>1. job'[r].at \in {"idle", "look"}
        BY <2>1, <3>1, <3>5 DEF Overtaken, SameJob, To
      <4> QED BY <4>1 DEF Without, Writing
    <3> QED BY <2>2, <3>1, <3>2, <3>3, <3>4, <3>5 DEF SameJob
  <2>3. CASE q # p
    <3>1. /\ Retiring(q) /\ Good(q) /\ job'[q].key = job[q].key /\ To(q)' = To(q) /\ To(q) # To(p)
      BY <2>1, <2>3 DEF Retiring, Good, SameJob, To, Cmd, Overtaken, Removing
    <3>2. Text(To(q))' = Text(To(q))
      BY <1>a, <2>1, <3>1, JobType DEF Text, To
    <3>3. ASSUME NEW r \in Proc \ {q}, To(r)' = To(q)', ~job'[r].late
          PROVE  Without(job'[r], job[q].key)
      <4>1. CASE r = p
        BY <2>1, <3>1, <3>3, <4>1, IdleWithout DEF SameJob, To
      <4>2. CASE r # p
        <5>1. To(r) = To(q) /\ ~job[r].late /\ SameJob(job'[r], job[r]) /\ job'[r].at = job[r].at
          BY <2>1, <3>1, <3>3, <4>2 DEF SameJob, To, Overtaken
        <5>2. Without(job[r], job[q].key)
          BY <3>1, <5>1 DEF Rotated
        <5> QED BY <5>1, <5>2 DEF Without, SameJob
      <4> QED BY <4>1, <4>2
    <3> QED BY <3>1, <3>2, <3>3 DEF Rotated
  <2> QED BY <2>2, <2>3
<1>3. ~Reboot
  BY IdleType DEF Reboot, Retiring, Removing
<1>4. CASE UNCHANGED vars
  BY <1>4 DEF vars, history, Rotated, Retiring, Good, Text, To, Cmd
<1> QED BY <1>1, <1>2, <1>3, <1>4, WritesWritten DEF Next, Process, Quietly, Written

LEMMA RotatedAlways == Spec => []Rotated
<1>1. Init => Rotated
  BY IdleType DEF Init, Rotated, Retiring, Removing
<1> QED BY <1>1, RotatedStep, TypedAlways, FreshAlways, KnownAlways, PTL DEF Spec

-----------------------------------------------------------------------------
(* Every value can be opened.                                              *)

\* The keys a file's values can be opened with, or were given up.
Held(f) == {NoKey} \cup blob \cup Pool \cup excused[f]

\* What j is about to write needs no key but those.
Backed(j, ks) ==
  /\ j.at = "make" /\ j.task.cmd = "rotate" => j.fresh \in ks
  /\ j.at = "make" /\ j.task.cmd = "encrypt" => j.key \in ks
  /\ j.at \in Writing => Under(ks, j.new)

\* A command goes on with no key that nobody has, and none goes while it needs it.
Supplied == ~keyClash => \A p \in Proc : Good(p) => Backed(job[p], Held(To(p)))

ReadableInv == Supplied /\ Readable

LEMMA ReadableIsUnder == Readable <=> (~keyClash => \A f \in File \ clash : Under(Held(f), Text(f)))
  BY DEF Readable, Under, Held

LEMMA ReadableIsUnderNext ==
  Readable' <=> (~keyClash' => \A f \in File \ clash' : Under(Held(f)', Text(f)'))
  BY DEF Readable, Under, Held

LEMMA UnderMore == \A ks, more, c : ks \subseteq more /\ Under(ks, c) => Under(more, c)
  BY DEF Under

LEMMA BackedMore == \A j, ks, more : ks \subseteq more /\ Backed(j, ks) => Backed(j, more)
  BY UnderMore DEF Backed

LEMMA BackedIdle == \A ks : Backed(Idle, ks)
  BY IdleType DEF Backed, Writing

LEMMA BlankUnder == \A ks : NoKey \in ks => Under(ks, Blank)
  BY DEF Under, Blank, Unset

\* What was backed is still, when at most k has gone and the job does without k.
LEMMA BackedWithout ==
  ASSUME Typed, Known, NEW p \in Proc, NEW k, NEW ks, NEW less, ks \ {k} \subseteq less,
         Backed(job[p], ks), ~job[p].late, Without(job[p], k), Rid(Text(To(p)), k)
  PROVE  Backed(job[p], less)
<1>1. ~(At(p, "make") /\ Cmd(p) = "encrypt")
  <2>1. At(p, "make") /\ Cmd(p) = "encrypt" => job[p].seen.header = NoKey /\ job[p].seen = Text(To(p))
    BY DEF Known, KnownJob, Ready, Cmd, At
  <2> QED BY <2>1, NamesAssumption DEF Rid
<1> QED BY <1>1 DEF Backed, Without, Under, At, Cmd

\* A command goes on only with keys somebody has.
LEMMA ComposedBacked ==
  ASSUME Typed, NEW p \in Proc, Cmd(p) \in {"set", "init"}, NEW ks, NoKey \in ks,
         Wanted(job[p]) \subseteq ks, Under(ks, job[p].seen)
  PROVE  Under(ks, Composed(job[p]))
<1>1. CASE Cmd(p) = "set"
  <2> DEFINE by == IF Wanted(job[p]) = {} THEN NoKey ELSE KeyForSet(job[p])
             e  == [by |-> by, is |-> job[p].task.val]
             c  == [job[p].seen EXCEPT !.vals[job[p].task.var] = e]
  <2>1. by \in ks
    BY <1>1 DEF Wanted, Cmd
  <2>2. \A v \in Var : c.vals[v] \in {e, job[p].seen.vals[v]}
    BY JobType DEF Jobs, Contents, Typed
  <2>3. Composed(job[p]) = c /\ e.by = by
    BY <1>1 DEF Composed, Cmd
  <2> HIDE DEF by, e, c
  <2> QED BY <2>1, <2>2, <2>3 DEF Under
<1>2. CASE Cmd(p) = "init"
  BY <1>2 DEF Composed, Cmd, Blank, Unset, Under
<1> QED BY <1>1, <1>2

\* No key goes but where one is deleted.
LEMMA HeldGrows ==
  ASSUME Typed, NEW p \in Proc, Quietly(p), ~Unstore(p), ~keyClash'
  PROVE  ~keyClash /\ \A f \in File : Held(f) \subseteq Held(f)'
<1>1. CASE Store(p)
  BY <1>1 DEF Store, Held
<1>2. CASE ~Store(p)
  <2>1. UNCHANGED <<blob, excused, keyClash>>
    BY <1>2 DEF Quietly, Start, Look, LookUp, Make, Load, Refused, Unload, Kill, keys, history
  <2> QED BY <2>1 DEF Held
<1> QED BY <1>1, <1>2

LEMMA UnstoreTakes ==
  ASSUME Typed, NEW p \in Proc, Unstore(p), ~keyClash'
  PROVE  /\ ~keyClash
         /\ \A f \in File : Held(f) \ {job[p].key} \subseteq Held(f)'
         /\ \A f \in File : ~(Cmd(p) = "rotate" /\ f = To(p)) => Held(f) \subseteq Held(f)'
         /\ Cmd(p) = "rotate" /\ job[p].late => To(p) \in clash'
         /\ Cmd(p) = "rotate" => Retiring(p)
<1>1. ~keyClash /\ blob' = blob \ {job[p].key}
  BY DEF Unstore
<1>2. \A f \in File : excused[f]' = IF Cmd(p) = "rotate" /\ f = To(p) THEN excused[f]
                                    ELSE excused[f] \cup {job[p].key}
  BY DEF Unstore, Typed, TypeOK
<1>3. \A f \in File : /\ Held(f) \ {job[p].key} \subseteq Held(f)'
                      /\ ~(Cmd(p) = "rotate" /\ f = To(p)) => Held(f) \subseteq Held(f)'
  BY <1>1, <1>2 DEF Held
<1>4. Cmd(p) = "rotate" /\ job[p].late => To(p) \in clash'
  BY DEF Unstore
<1>5. Cmd(p) = "rotate" => Retiring(p)
  BY DEF Unstore, Retiring, Removing, At
<1> QED BY <1>1, <1>3, <1>4, <1>5

\* p's step leaves p with what is backed.
LEMMA StaysBacked ==
  ASSUME Typed, Known, Supplied, Readable, NEW p \in Proc, Quietly(p), ~keyClash', Good(p)',
         NEW f \in File, f = To(p)'
  PROVE  Backed(job'[p], Held(f)')
<1>a. TypeOK
  BY DEF Typed
<1>b. NoKey \in Held(f)'
  BY DEF Held
<1>c. clash \subseteq clash' /\ f \notin clash' /\ ~job'[p].late
  BY QuietlyFacts DEF Good
<1>1. ASSUME NEW t \in Tasks, Start(p, t)
      PROVE  Backed(job'[p], Held(f)')
  BY <1>a, <1>1, StartMoves DEF Became, StartPlace, Backed, Writing
<1>2. CASE Look(p)
  <2>1. \/ job'[p] = Idle
        \/ job'[p].at \in {"key", "truncate", "load"} /\ job'[p].new = Blank
    BY <1>2, LookFacts DEF AfterLook
  <2> QED BY <1>b, <2>1, BackedIdle, BlankUnder DEF Backed, Writing
<1>3. CASE LookUp(p)
  <2>1. PICK pool \in Pools :
           \/ job'[p] = Idle
           \/ /\ job'[p].task = job[p].task /\ job'[p].seen = job[p].seen /\ job'[p].late = job[p].late
              /\ job'[p].key = job[p].key /\ job'[p].new = Composed(job[p])
              /\ job'[p].at = AfterKey(job[p].task) /\ Wanted(job[p]) \subseteq pool
    BY <1>3, LookUpFacts
  <2>2. CASE job'[p] # Idle
    <3>1. job[p].seen = Text(f) /\ To(p) = f
      BY <1>3, <1>c, <2>1, <2>2 DEF LookUp, At, Known, KnownJob, Ready, Typed, InPlace, Cmd, To
    <3>2. Held(f)' = Held(f) /\ ~keyClash
      BY <1>3 DEF LookUp, keys, history, Held
    <3>3. pool \subseteq Held(f)
      BY DEF Pools, Held
    <3>4. Under(Held(f), job[p].seen)
      BY <1>c, <3>1, <3>2, ReadableIsUnder
    <3>5. Wanted(job[p]) \subseteq Held(f)
      BY <2>1, <2>2, <3>3
    <3>6. Cmd(p) \in {"set", "init"} => Under(Held(f), Composed(job[p]))
      BY <1>b, <3>2, <3>4, <3>5, ComposedBacked
    <3>7. Cmd(p) = "encrypt" => job[p].key \in Held(f)
      BY <3>5 DEF Wanted, Cmd
    <3>8. /\ job'[p].task = job[p].task /\ job'[p].key = job[p].key /\ job'[p].new = Composed(job[p])
          /\ job'[p].at = AfterKey(job[p].task)
      BY <2>1, <2>2
    <3> QED BY <3>2, <3>6, <3>7, <3>8 DEF Backed, AfterKey, Cmd, Writing
  <2> QED BY <2>2, BackedIdle
<1>4. CASE \E k \in Key : Load(p, k)
  BY <1>4, LoadFacts, BackedIdle DEF Backed, Writing
<1>5. CASE Store(p)
  <2>1. \/ job'[p] = Idle
        \/ /\ job'[p].task = job[p].task /\ job'[p].fresh = job[p].fresh
           /\ job'[p].at = AfterStore(job[p].task) /\ Under({NoKey}, job'[p].new)
    BY <1>5, StoreFacts
  <2>2. job[p].fresh \in Held(f)'
    BY <1>5 DEF Store, Held
  <2> QED BY <1>b, <2>1, <2>2, BackedIdle, UnderMore DEF Backed, AfterStore, Writing
<1>6. CASE Make(p)
  <2>1. CASE job'[p] # Idle
    <3>1. /\ job'[p].at = "commit" /\ job'[p].late = job[p].late /\ To(p) = f
          /\ Under({NoKey, PutUnder(p)}, job'[p].new) /\ At(p, "make")
      BY <1>6, <2>1, MadeFacts DEF Make, To
    <3>2. Held(f)' = Held(f) /\ ~keyClash
      BY <1>6 DEF Make, keys, history, Held
    <3>3. Backed(job[p], Held(f))
      BY <1>c, <3>1, <3>2 DEF Supplied, Good
    <3>4. PutUnder(p) \in Held(f)
      BY <3>1, <3>3 DEF PutUnder, Backed, Held, At, Cmd
    <3> QED BY <1>b, <3>1, <3>2, <3>4, UnderMore DEF Backed
  <2> QED BY <2>1, BackedIdle
<1>7. CASE Refused(p)
  <2>1. /\ SameJob(job'[p], job[p]) /\ job'[p].at = "truncate" /\ job'[p].late = job[p].late
        /\ job[p].at = "commit" /\ To(p) = f
    BY <1>a, <1>7, RefusedMoves DEF Became, Refused, At, SameJob, To
  <2>2. Held(f)' = Held(f) /\ ~keyClash
    BY <1>7 DEF Refused, keys, history, Held
  <2>3. Backed(job[p], Held(f))
    BY <1>c, <2>1, <2>2 DEF Supplied, Good
  <2> QED BY <2>1, <2>2, <2>3 DEF Backed, SameJob, Writing
<1>8. CASE Unload(p)
  BY <1>a, <1>8, UnloadMoves DEF Became, Backed, Writing
<1>9. CASE Unstore(p) \/ Kill(p)
  BY <1>a, <1>9, EndsMoves, BackedIdle DEF Unstore, Kill
<1> QED BY <1>1, <1>2, <1>3, <1>4, <1>5, <1>6, <1>7, <1>8, <1>9 DEF Quietly

LEMMA ReadableInvNext ==
  ASSUME Typed',
         ~keyClash' => /\ \A q \in Proc, f \in File : Good(q)' /\ f = To(q)' => Backed(job'[q], Held(f)')
                       /\ \A f \in File \ clash' : Under(Held(f)', Text(f)')
  PROVE  ReadableInv'
<1>1. \A q \in Proc : To(q)' \in File
  BY TaskAssumption DEF Typed, TypeOK, Jobs, Task, To
<1>2. ASSUME NEW q \in Proc, NEW f \in File, f = To(q)'
      PROVE  Held(To(q))' = Held(f)'
  BY <1>2 DEF Held
<1>3. Supplied'
  BY <1>1, <1>2 DEF Supplied
<1> QED BY <1>3, ReadableIsUnderNext DEF ReadableInv

LEMMA ReadableQuiet ==
  ASSUME Typed, Typed', Known, Rotated, ReadableInv, NEW p \in Proc, Quietly(p)
  PROVE  ReadableInv'
<1> SUFFICES ASSUME ~keyClash'
             PROVE  /\ \A q \in Proc, f \in File : Good(q)' /\ f = To(q)' => Backed(job'[q], Held(f)')
                    /\ \A f \in File \ clash' : Under(Held(f)', Text(f)')
  BY ReadableInvNext
<1>1. /\ file' = file /\ clash \subseteq clash' /\ \A q \in Proc \ {p} : job'[q] = job[q]
  BY QuietlyFacts
<1>2. \A f \in File : Text(f)' = Text(f)
  BY <1>1 DEF Text
<1>3. ~keyClash
  BY HeldGrows, UnstoreTakes
<1>4. \A f \in File \ clash' : Under(Held(f), Text(f))
  BY <1>1, <1>3, ReadableIsUnder DEF ReadableInv
<1>5. ASSUME NEW q \in Proc \ {p}, Good(q)'
      PROVE  /\ Good(q) /\ job'[q] = job[q] /\ To(q)' = To(q) /\ Backed(job[q], Held(To(q)))
             /\ To(q) \notin clash'
  <2>1. job'[q] = job[q] /\ To(q)' = To(q)
    BY <1>1, <1>5 DEF To
  <2>2. Good(q)
    BY <1>1, <1>5, <2>1 DEF Good
  <2> QED BY <1>3, <1>5, <2>1, <2>2 DEF ReadableInv, Supplied, Good
<1>6. CASE Unstore(p)
  <2>1. Cmd(p) = "rotate" /\ To(p) \notin clash' => /\ Rid(Text(To(p)), job[p].key)
          /\ \A q \in Proc \ {p} : To(q) = To(p) /\ ~job[q].late => Without(job[q], job[p].key)
    BY <1>1, <1>6, UnstoreTakes DEF Rotated, Good
  <2>2. ASSUME NEW f \in File \ clash'
        PROVE  Under(Held(f)', Text(f)')
    <3>1. CASE Cmd(p) = "rotate" /\ f = To(p)
      BY <1>2, <1>4, <1>6, <2>1, <3>1, UnstoreTakes DEF Under, Rid
    <3>2. CASE ~(Cmd(p) = "rotate" /\ f = To(p))
      BY <1>2, <1>4, <1>6, <3>2, UnstoreTakes, UnderMore
    <3> QED BY <3>1, <3>2
  <2>3. ASSUME NEW q \in Proc, NEW f \in File, Good(q)', f = To(q)'
        PROVE  Backed(job'[q], Held(f)')
    <3>1. CASE q = p
      BY <1>6, <3>1, EndsMoves, BackedIdle DEF Unstore, Typed
    <3>2. CASE q # p /\ Cmd(p) = "rotate" /\ To(q) = To(p)
      <4>1. /\ Backed(job[q], Held(f)) /\ Without(job[q], job[p].key) /\ Rid(Text(To(q)), job[p].key)
            /\ ~job[q].late /\ job'[q] = job[q]
        BY <1>5, <2>1, <2>3, <3>2 DEF Good
      <4>2. Held(f) \ {job[p].key} \subseteq Held(f)'
        BY <1>6, UnstoreTakes
      <4> QED BY <4>1, <4>2, BackedWithout
    <3>3. CASE q # p /\ ~(Cmd(p) = "rotate" /\ To(q) = To(p))
      BY <1>5, <1>6, <2>3, <3>3, UnstoreTakes, BackedMore
    <3> QED BY <3>1, <3>2, <3>3
  <2> QED BY <2>2, <2>3
<1>7. CASE ~Unstore(p)
  <2>1. \A f \in File : Held(f) \subseteq Held(f)'
    BY <1>7, HeldGrows
  <2>2. \A f \in File \ clash' : Under(Held(f)', Text(f)')
    BY <1>2, <1>4, <2>1, UnderMore
  <2>3. ASSUME NEW q \in Proc, NEW f \in File, Good(q)', f = To(q)'
        PROVE  Backed(job'[q], Held(f)')
    <3>1. CASE q = p
      BY <2>3, <3>1, StaysBacked DEF ReadableInv
    <3>2. CASE q # p
      BY <1>5, <2>1, <2>3, <3>2, BackedMore
    <3> QED BY <3>1, <3>2
  <2> QED BY <2>2, <2>3
<1> QED BY <1>6, <1>7

LEMMA OverlaidUnder ==
  ASSUME NEW c \in Contents, NEW old \in Contents, NEW ks, Under(ks, c), Under(ks, old),
         NEW w \in Overlaid(c, old)
  PROVE  Under(ks, w)
  BY OverlaidFacts DEF Under

LEMMA ReadableWritten == Typed /\ Typed' /\ ReadableInv /\ Written => ReadableInv'
<1> SUFFICES ASSUME Typed, Typed', ReadableInv, Written, ~keyClash'
             PROVE  /\ \A q \in Proc, f \in File : Good(q)' /\ f = To(q)' => Backed(job'[q], Held(f)')
                    /\ \A f \in File \ clash' : Under(Held(f)', Text(f)')
  BY ReadableInvNext
<1>1. PICK p \in Proc, c \in Contents, place \in Places : WrittenBy(p, c, place)
  BY DEF Written
<1>2. /\ job'[p].at = place /\ (place = "idle" => job'[p] = Idle)
      /\ place # "idle" => SameJob(job'[p], job[p]) /\ ~job'[p].late
      /\ \A q \in Proc \ {p} : /\ SameJob(job'[q], job[q]) /\ job'[q].at = job[q].at
                               /\ job'[q].late <=> Overtaken(q, p)
      /\ \A f \in File : Text(f)' = IF f = To(p) THEN c ELSE Text(f)
      /\ UNCHANGED <<keys, excused, keyClash>>
      /\ clash' = IF job[p].late THEN clash \cup {To(p)} ELSE clash
  BY <1>1, WrittenFacts
<1>3. ~keyClash /\ clash \subseteq clash' /\ \A f \in File : Held(f)' = Held(f)
  BY <1>2 DEF keys, Held
<1>4. \A f \in File \ clash : Under(Held(f), Text(f))
  BY <1>3, ReadableIsUnder DEF ReadableInv
<1>5. To(p) \notin clash' => Under(Held(To(p)), job[p].new)
  <2>1. To(p) \notin clash' => Good(p)
    BY <1>2 DEF Good
  <2> QED BY <1>1, <1>3, <2>1 DEF ReadableInv, Supplied, Backed, WrittenBy
<1>6. ASSUME NEW f \in File \ clash'
      PROVE  Under(Held(f)', Text(f)')
  <2>1. CASE f = To(p)
    <3>1. job[p].new \in Contents /\ Text(f) \in Contents /\ NoKey \in Held(f)
      BY JobType, TextType DEF Typed, Jobs, Held
    <3>2. Under(Held(f), job[p].new) /\ Under(Held(f), Text(f))
      BY <1>3, <1>4, <1>5, <2>1
    <3>3. Under(Held(f), c)
      BY <1>1, <2>1, <3>1, <3>2, BlankUnder, OverlaidUnder DEF WrittenBy
    <3> QED BY <1>2, <1>3, <2>1, <3>3
  <2>2. CASE f # To(p)
    BY <1>2, <1>3, <1>4, <2>2
  <2> QED BY <2>1, <2>2
<1>7. ASSUME NEW q \in Proc, NEW f \in File, Good(q)', f = To(q)'
      PROVE  Backed(job'[q], Held(f)')
  <2>1. CASE job'[q] = Idle
    BY <2>1, BackedIdle
  <2>2. CASE q = p /\ job'[p] # Idle
    <3>1. SameJob(job'[p], job[p]) /\ f = To(p) /\ f \notin clash'
      BY <1>2, <1>7, <2>2 DEF SameJob, To, Good
    <3> QED BY <1>1, <1>2, <1>3, <1>5, <2>2, <3>1 DEF Backed, SameJob, WrittenBy, Writing
  <2>3. CASE q # p
    <3>1. SameJob(job'[q], job[q]) /\ job'[q].at = job[q].at /\ f = To(q) /\ Good(q)
      BY <1>2, <1>3, <1>7, <2>3 DEF SameJob, To, Good, Overtaken
    <3>2. Backed(job[q], Held(f))
      BY <1>3, <3>1 DEF ReadableInv, Supplied
    <3> QED BY <1>3, <3>1, <3>2 DEF Backed, SameJob
  <2> QED BY <2>1, <2>2, <2>3
<1> QED BY <1>6, <1>7

LEMMA ReadableStep == Typed /\ Typed' /\ Known /\ Rotated /\ ReadableInv /\ [Next]_vars => ReadableInv'
<1> SUFFICES ASSUME Typed, Typed', Known, Rotated, ReadableInv, [Next]_vars
             PROVE  ReadableInv'
  OBVIOUS
<1>1. CASE Reboot
  <2>1. ASSUME NEW f \in File
        PROVE  Held(f) \subseteq Held(f)' /\ Text(f)' = Text(f)
    BY <1>1 DEF Reboot, Held, Text
  <2>2. keyClash' = keyClash /\ clash' = clash /\ \A q \in Proc : job'[q] = Idle
    BY <1>1 DEF Reboot
  <2> QED BY <2>1, <2>2, BackedIdle, UnderMore, ReadableIsUnder, ReadableInvNext DEF ReadableInv
<1>2. CASE UNCHANGED vars
  BY <1>2 DEF vars, keys, history, ReadableInv, Supplied, Readable, Good, Held, Text, To
<1> QED BY <1>1, <1>2, ReadableQuiet, ReadableWritten, WritesWritten DEF Next, Process, Quietly

LEMMA ReadableInit == Init => ReadableInv
<1> SUFFICES ASSUME Init
             PROVE  ReadableInv
  OBVIOUS
<1>1. \A f \in File : file[f] = Gone \/ \E h \in born \cup {NoKey} : \E x : file[f] = Given(h, x)
  BY DEF Init
<1>2. \A h \in born \cup {NoKey} : \A f \in File : \A x : Under(Held(f), Given(h, x))
  BY DEF Init, Given, Under, Held
<1>3. \A f \in File : Under(Held(f), Text(f))
  <2>1. \A f \in File : NoKey \in Held(f)
    BY DEF Held
  <2> QED BY <1>1, <1>2, <2>1, BlankUnder DEF Text
<1>4. Supplied
  BY BackedIdle DEF Init, Supplied
<1> QED BY <1>3, <1>4, ReadableIsUnder DEF ReadableInv

\* Readable: at every moment of every command, killed or rebooted where it may be, all
\* that is encrypted opens with a key somebody has or gave up on purpose; but where
\* two commands changed the keys, or one file, at the same time (cmd_rotate adds the new
\* key, writes the file, and only then removes the old one).
THEOREM ReadableAlways == Spec => []Readable
<1>1. Init => ReadableInv
  BY ReadableInit
<1>2. Typed /\ Typed' /\ Known /\ Rotated /\ ReadableInv /\ [Next]_vars => ReadableInv'
  BY ReadableStep
<1>3. ReadableInv => Readable
  BY DEF ReadableInv
<1> QED BY <1>1, <1>2, <1>3, TypedAlways, KnownAlways, RotatedAlways, PTL DEF Spec
=============================================================================
