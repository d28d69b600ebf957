--------------------------- MODULE SessionProofs ---------------------------
(***************************************************************************)
(* What Session promises however many changes, presses and temp files there *)
(* are.  Each property follows from a part of IInv that speaks of the other *)
(* places of the process too: what is on its way to a run (Fresh), what is  *)
(* still to be removed (Tracked), what a pool may hold (Pools), where a     *)
(* press that is still pending was aimed (Aims).                            *)
(*                                                                         *)
(* And why a change is answered: StepsLeft counts how far the session is   *)
(* from a rest, and what is on its way (Fresh) that it rests on no change. *)
(***************************************************************************)
EXTENDS Session, TLAPS

Has(q) == \E i \in 1 .. Len(q) : q[i] = "match"

\* Only a target that watches gets to these places, and it has armed the watch first.
ArmedInLoop ==
  /\ pc \in {"clear", "cleanup", "wait", "debounce", "decide"} => armed
  /\ pc = "run" /\ watching => armed
  /\ pc = "start" /\ watching => armed
  /\ pc \in {"clear", "cleanup", "wait", "debounce", "decide"} => watching

\* A change no run has seen is still to be read, unless a run is on its way.
Fresh ==
  stale /\ alive /\ armed /\ pc \in {"run", "clear", "cleanup", "wait"} => Has(kernel) \/ Has(queue)

Tracked ==
  /\ disk \subseteq tracked \cup torn \cup kept
  /\ pc \in {"probe", "arm", "start"} \/ Between => tracked = {}

Pools ==
  /\ pc = "run" /\ openAt => keyring = "open"
  /\ ~first /\ pc \notin {"run", "ended"} => pool = "none"
  /\ pc \in {"probe", "arm"} => first
  /\ NextSaveRetries

Aims == interrupted /\ pc \in {"probe", "arm", "start"} => aimed \in {"probe", "arm", "start"}

IInv == TypeOK /\ ArmedInLoop /\ Fresh /\ Tracked /\ Pools /\ Aims

LEMMA InitHolds == Init => IInv
<1> SUFFICES ASSUME Init
             PROVE  IInv
  OBVIOUS
<1>1. ProcessOK /\ KeysOK
  BY DEF Init, ProcessOK, KeysOK, Places
<1>2. FilesOK /\ WatcherOK /\ SignalsOK
  <2>1. made = 0 /\ disk = {} /\ tracked = {} /\ torn = {} /\ kept = {} /\ kernel = <<>> /\ queue = <<>>
    BY DEF Init
  <2>2. changes = 0 /\ presses = 0 /\ aimed = "none"
    BY DEF Init
  <2>3. armed \in BOOLEAN /\ alive \in BOOLEAN /\ stale \in BOOLEAN /\ interrupted \in BOOLEAN
    BY DEF Init
  <2> QED BY <2>1, <2>2, <2>3, SessionAssumption DEF FilesOK, WatcherOK, SignalsOK
<1>3. ArmedInLoop /\ Fresh /\ Tracked /\ Pools /\ Aims
  BY DEF Init, ArmedInLoop, Fresh, Tracked, Pools, Aims, NextSaveRetries
<1> QED BY <1>1, <1>2, <1>3 DEF IInv, TypeOK

-----------------------------------------------------------------------------
(* Who changes what.                                                       *)

Returns == \E ok \in BOOLEAN : RunReturns(ok)
Changed == \E e \in Events : Change(e)

LEMMA WhoMovesFiles ==
  [Next]_vars => MakeTemp \/ Panic \/ Drop \/ CleanupTemps \/ UNCHANGED files
<1> SUFFICES ASSUME [Next]_vars
             PROVE  MakeTemp \/ Panic \/ Drop \/ CleanupTemps \/ UNCHANGED files
  OBVIOUS
<1>1. CASE Probe \/ Arm \/ Begin \/ Decrypt \/ Returns \/ Clear
  BY <1>1 DEF Probe, Arm, Begin, Decrypt, Returns, RunReturns, Clear
<1>2. CASE Wait \/ Absorb \/ Settled \/ Disconnected \/ Decide
  BY <1>2 DEF Wait, Absorb, Settled, Disconnected, Decide
<1>3. CASE World
  BY <1>3 DEF World, Change, Deliver, WatcherDies, Press, Unlock
<1> QED BY <1>1, <1>2, <1>3 DEF Next, Process, Returns, vars

LEMMA WhoMovesWatcher ==
  [Next]_vars => \/ Arm \/ Begin \/ Wait \/ Absorb \/ Changed \/ Deliver \/ WatcherDies
                 \/ UNCHANGED watcher
<1> SUFFICES ASSUME [Next]_vars
             PROVE  \/ Arm \/ Begin \/ Wait \/ Absorb \/ Changed \/ Deliver \/ WatcherDies
                    \/ UNCHANGED watcher
  OBVIOUS
<1>1. CASE Probe \/ MakeTemp \/ Decrypt \/ Returns \/ Panic \/ Drop \/ Clear \/ CleanupTemps
  BY <1>1 DEF Probe, MakeTemp, Decrypt, Returns, RunReturns, Panic, Drop, Clear, CleanupTemps
<1>2. CASE Settled \/ Disconnected \/ Decide \/ Press \/ Unlock
  BY <1>2 DEF Settled, Disconnected, Decide, Press, Unlock
<1> QED BY <1>1, <1>2 DEF Next, Process, World, Returns, Changed, vars

LEMMA WhoMovesSignals == [Next]_vars => Clear \/ Press \/ UNCHANGED signals
<1> SUFFICES ASSUME [Next]_vars
             PROVE  Clear \/ Press \/ UNCHANGED signals
  OBVIOUS
<1>1. CASE Probe \/ Arm \/ Begin \/ MakeTemp \/ Decrypt \/ Returns \/ Panic \/ Drop \/ CleanupTemps
  BY <1>1 DEF Probe, Arm, Begin, MakeTemp, Decrypt, Returns, RunReturns, Panic, Drop, CleanupTemps
<1>2. CASE Wait \/ Absorb \/ Settled \/ Disconnected \/ Decide
  BY <1>2 DEF Wait, Absorb, Settled, Disconnected, Decide
<1>3. CASE Changed \/ Deliver \/ WatcherDies \/ Unlock
  BY <1>3 DEF Changed, Change, Deliver, WatcherDies, Unlock
<1> QED BY <1>1, <1>2, <1>3 DEF Next, Process, World, Returns, Changed, vars

LEMMA WhoMovesKeys ==
  [Next]_vars => Probe \/ Begin \/ Decrypt \/ Returns \/ Unlock \/ UNCHANGED keys
<1> SUFFICES ASSUME [Next]_vars
             PROVE  Probe \/ Begin \/ Decrypt \/ Returns \/ Unlock \/ UNCHANGED keys
  OBVIOUS
<1>1. CASE Arm \/ MakeTemp \/ Panic \/ Drop \/ Clear \/ CleanupTemps
  BY <1>1 DEF Arm, MakeTemp, Panic, Drop, Clear, CleanupTemps
<1>2. CASE Wait \/ Absorb \/ Settled \/ Disconnected \/ Decide
  BY <1>2 DEF Wait, Absorb, Settled, Disconnected, Decide
<1>3. CASE Changed \/ Deliver \/ WatcherDies \/ Press
  BY <1>3 DEF Changed, Change, Deliver, WatcherDies, Press
<1> QED BY <1>1, <1>2, <1>3 DEF Next, Process, World, Returns, Changed, vars

\* Where the process may go from where it is.
LEMMA Moves ==
  ASSUME [Next]_vars
  PROVE  \/ UNCHANGED <<pc, watching, status, first>>
         \/ /\ <<pc, pc'>> \in {"probe"} \X {"arm", "start", "ended"}
            /\ pc' = "arm" => watching
            /\ pc' = "start" => ~watching
            /\ UNCHANGED <<watching, first>>
         \/ pc = "arm" /\ pc' = "start" /\ armed' /\ UNCHANGED <<watching, first>>
         \/ pc = "start" /\ pc' = "run" /\ UNCHANGED <<watching, first>>
         \/ pc = "run" /\ pc' = (IF watching THEN "clear" ELSE "drop") /\ first' = FALSE /\ UNCHANGED watching
         \/ pc = "clear" /\ pc' = "cleanup" /\ UNCHANGED <<watching, first>>
         \/ pc = "cleanup" /\ pc' = "wait" /\ UNCHANGED <<watching, first>>
         \/ /\ pc = "wait" /\ pc' = "debounce" /\ UNCHANGED <<watching, first>>
         \/ pc = "debounce" /\ pc' = "decide" /\ UNCHANGED <<watching, first>>
         \/ pc = "decide" /\ pc' = "start" /\ ~interrupted /\ UNCHANGED <<watching, first>>
         \/ pc' = "ended" /\ UNCHANGED <<watching, first>>
<1>1. CASE Probe \/ Arm \/ Begin \/ MakeTemp \/ Decrypt
  BY <1>1 DEF Probe, Arm, Begin, MakeTemp, Decrypt, GoTo, Finish
<1>2. CASE Returns \/ Panic \/ Drop \/ Clear \/ CleanupTemps
  BY <1>2 DEF Returns, RunReturns, Panic, Drop, Clear, CleanupTemps, GoTo, Finish
<1>3. CASE Wait \/ Absorb \/ Settled \/ Disconnected \/ Decide
  BY <1>3 DEF Wait, Absorb, Settled, Disconnected, Decide, GoTo, Finish
<1>4. CASE World
  BY <1>4 DEF World, Change, Deliver, WatcherDies, Press, Unlock
<1> QED BY <1>1, <1>2, <1>3, <1>4 DEF Next, Process, Returns, vars

LEMMA OnlyBeginRuns == [Next]_vars /\ pc = "start" /\ pc' # "start" => Begin /\ ~stale'
<1> SUFFICES ASSUME [Next]_vars, pc = "start", pc' # "start"
             PROVE  Begin /\ ~stale'
  OBVIOUS
<1>1. CASE Process
  BY <1>1 DEF Process, Probe, Arm, Begin, MakeTemp, Decrypt, RunReturns, Panic, Drop, Clear,
              CleanupTemps, Wait, Absorb, Settled, Disconnected, Decide
<1>2. CASE World
  BY <1>2 DEF World, Change, Deliver, WatcherDies, Press, Unlock
<1> QED BY <1>1, <1>2 DEF Next, vars

LEMMA OnlyReturnsLeaves == [Next]_vars /\ pc = "run" /\ pc' \notin {"run", "ended"} => Returns
<1> SUFFICES ASSUME [Next]_vars, pc = "run", pc' \notin {"run", "ended"}
             PROVE  Returns
  OBVIOUS
<1>1. CASE Process
  BY <1>1 DEF Process, Probe, Arm, Begin, MakeTemp, Decrypt, Returns, Panic, Finish, Drop, Clear,
              CleanupTemps, Wait, Absorb, Settled, Disconnected, Decide
<1>2. CASE World
  BY <1>2 DEF World, Change, Deliver, WatcherDies, Press, Unlock
<1> QED BY <1>1, <1>2 DEF Next, vars

-----------------------------------------------------------------------------
(* Types.                                                                  *)

LEMMA TypesKept == TypeOK /\ [Next]_vars => TypeOK'
<1> SUFFICES ASSUME TypeOK, [Next]_vars
             PROVE  TypeOK'
  OBVIOUS
<1>1. ProcessOK'
  <2>1. pc' \in Places /\ watching' \in BOOLEAN /\ first' \in BOOLEAN
    BY Moves DEF TypeOK, ProcessOK, Places
  <2>2. /\ status' \in {"none", "0", "1", "code", "101", "130"}
        /\ status' = "none" <=> pc' \notin {"drop", "ended"}
    <3>1. CASE Probe \/ Arm \/ Begin \/ MakeTemp \/ Decrypt
      BY <3>1 DEF Probe, Arm, Begin, MakeTemp, Decrypt, GoTo, Finish, Failure, Ends, TypeOK, ProcessOK
    <3>2. CASE Returns \/ Panic \/ Drop \/ Clear \/ CleanupTemps
      BY <3>2 DEF Returns, RunReturns, Panic, Drop, Clear, CleanupTemps, GoTo, Finish, Failure, Ends,
                  TypeOK, ProcessOK
    <3>3. CASE Wait \/ Absorb \/ Settled \/ Disconnected \/ Decide
      BY <3>3 DEF Wait, Absorb, Settled, Disconnected, Decide, GoTo, Finish, TypeOK, ProcessOK
    <3>4. CASE World
      BY <3>4 DEF World, Change, Deliver, WatcherDies, Press, Unlock, TypeOK, ProcessOK
    <3>5. CASE UNCHANGED vars
      BY <3>5 DEF vars, TypeOK, ProcessOK
    <3> QED BY <3>1, <3>2, <3>3, <3>4, <3>5 DEF Next, Process, Returns
  <2> QED BY <2>1, <2>2 DEF ProcessOK
<1>2. FilesOK'
  <2>1. CASE MakeTemp
    <3>1. /\ made \in Nat /\ made < MaxTemps /\ made' = made + 1 /\ disk' = disk \cup {made}
          /\ tracked' \subseteq tracked \cup {made} /\ torn' \subseteq torn \cup {made} /\ kept' = kept
      BY <2>1, SessionAssumption DEF MakeTemp, TypeOK, FilesOK
    <3>2. made' \in 0 .. MaxTemps /\ made \in 0 .. (made' - 1) /\ 0 .. (made - 1) \subseteq 0 .. (made' - 1)
      BY <3>1, SessionAssumption
    <3> QED BY <3>1, <3>2 DEF TypeOK, FilesOK
  <2>2. CASE Panic \/ Drop \/ CleanupTemps
    <3>1. PICK k \in SUBSET tracked :
            /\ disk' = (disk \ tracked) \cup k /\ kept' = kept \cup k /\ tracked' = {}
            /\ UNCHANGED <<torn, made>>
      BY <2>2 DEF Panic, Drop, CleanupTemps, CleanUp
    <3> QED BY <3>1 DEF TypeOK, FilesOK
  <2>3. CASE UNCHANGED files
    BY <2>3 DEF files, TypeOK, FilesOK
  <2> QED BY <2>1, <2>2, <2>3, WhoMovesFiles
<1>3. WatcherOK'
  <2>1. CASE Arm \/ Begin
    BY <2>1 DEF Arm, Begin, TypeOK, WatcherOK
  <2>2. CASE Wait \/ Absorb
    BY <2>2 DEF Wait, Absorb, Received, TypeOK, WatcherOK
  <2>3. ASSUME NEW e \in Events, Change(e)
        PROVE  WatcherOK'
    BY <2>3, SessionAssumption DEF Change, TypeOK, WatcherOK
  <2>4. CASE Deliver
    <3>1. kernel # <<>> /\ kernel' = Tail(kernel) /\ queue' = Append(queue, Head(kernel))
          /\ UNCHANGED <<armed, alive, changes, stale>>
      BY <2>4 DEF Deliver
    <3>2. Head(kernel) \in Events /\ Tail(kernel) \in Seq(Events)
      BY <3>1 DEF TypeOK, WatcherOK
    <3> QED BY <3>1, <3>2 DEF TypeOK, WatcherOK
  <2>6. CASE WatcherDies
    <3>1. alive' = FALSE /\ kernel' = <<>> /\ UNCHANGED <<armed, queue, changes, stale>>
      BY <2>6 DEF WatcherDies
    <3>2. kernel' \in Seq(Events)
      BY <3>1
    <3>3. alive' \in BOOLEAN
      BY <3>1
    <3> QED BY <3>1, <3>2, <3>3 DEF TypeOK, WatcherOK
  <2>5. CASE UNCHANGED watcher
    BY <2>5 DEF watcher, TypeOK, WatcherOK
  <2> QED BY <2>1, <2>2, <2>3, <2>4, <2>5, <2>6, WhoMovesWatcher DEF Changed
<1>4. SignalsOK'
  <2>1. CASE Clear
    BY <2>1 DEF Clear, TypeOK, SignalsOK
  <2>2. CASE Press
    BY <2>2, SessionAssumption DEF Press, TypeOK, SignalsOK, ProcessOK
  <2>3. CASE UNCHANGED signals
    BY <2>3 DEF signals, TypeOK, SignalsOK
  <2> QED BY <2>1, <2>2, <2>3, WhoMovesSignals
<1>5. KeysOK'
  <2>1. CASE Probe \/ Begin \/ Decrypt
    BY <2>1 DEF Probe, Begin, Decrypt, Asked, TypeOK, KeysOK
  <2>2. CASE Returns \/ Unlock
    BY <2>2 DEF Returns, RunReturns, Unlock, TypeOK, KeysOK
  <2>3. CASE UNCHANGED keys
    BY <2>3 DEF keys, TypeOK, KeysOK
  <2> QED BY <2>1, <2>2, <2>3, WhoMovesKeys
<1> QED BY <1>1, <1>2, <1>3, <1>4, <1>5 DEF TypeOK

-----------------------------------------------------------------------------
(* The parts of the invariant.                                             *)

\* Taking what does not match from a queue leaves what does.
LEMMA TailHas ==
  ASSUME NEW q \in Seq(Events), q # <<>>, Head(q) # "match"
  PROVE  Has(q) => Has(Tail(q))
<1> SUFFICES ASSUME NEW i \in 1 .. Len(q), q[i] = "match"
             PROVE  Has(Tail(q))
  BY DEF Has
<1>1. i # 1 /\ i - 1 \in 1 .. Len(Tail(q)) /\ Tail(q)[i - 1] = q[i]
  OBVIOUS
<1> QED BY <1>1 DEF Has

\* Adding to a queue keeps what is in it, and adds what is added.
LEMMA AppendHas ==
  ASSUME NEW q \in Seq(Events), NEW e \in Events
  PROVE  Has(q) \/ e = "match" => Has(Append(q, e))
<1>1. Len(Append(q, e)) = Len(q) + 1 /\ Append(q, e)[Len(q) + 1] = e
  OBVIOUS
<1>2. \A i \in 1 .. Len(q) : Append(q, e)[i] = q[i]
  OBVIOUS
<1> QED BY <1>1, <1>2 DEF Has

LEMMA ArmedKept == TypeOK /\ ArmedInLoop /\ [Next]_vars => ArmedInLoop'
<1> SUFFICES ASSUME TypeOK, ArmedInLoop, [Next]_vars
             PROVE  ArmedInLoop'
  OBVIOUS
<1>1. armed => armed'
  <2>1. CASE Arm \/ Begin \/ Wait \/ Absorb
    BY <2>1 DEF Arm, Begin, Wait, Absorb, Received
  <2>2. CASE Changed \/ Deliver \/ WatcherDies
    BY <2>2 DEF Changed, Change, Deliver, WatcherDies
  <2>3. CASE UNCHANGED watcher
    BY <2>3 DEF watcher
  <2> QED BY <2>1, <2>2, <2>3, WhoMovesWatcher
<1>2. pc' \in {"clear", "cleanup", "wait", "debounce", "decide"} => armed' /\ watching'
  BY <1>1, Moves DEF ArmedInLoop
<1>3. pc' \in {"run", "start"} /\ watching' => armed'
  BY <1>1, Moves DEF ArmedInLoop
<1> QED BY <1>2, <1>3 DEF ArmedInLoop

LEMMA FreshKept == TypeOK /\ ArmedInLoop /\ Fresh /\ [Next]_vars => Fresh'
<1> SUFFICES ASSUME TypeOK, ArmedInLoop, Fresh, [Next]_vars,
                    stale', alive', armed', pc' \in {"run", "clear", "cleanup", "wait"}
             PROVE  Has(kernel)' \/ Has(queue)'
  BY DEF Fresh
<1> USE DEF TypeOK, WatcherOK
<1>1. CASE Arm \/ Begin
  BY <1>1 DEF Arm, Begin, GoTo, Finish
<1>2. CASE Wait
  <2>1. queue # <<>> /\ Head(queue) # "match" /\ queue' = Tail(queue) /\ kernel' = kernel
    BY <1>2 DEF Wait, Received, GoTo
  <2>2. Has(kernel) \/ Has(queue)
    BY <1>2 DEF Wait, Received, Fresh
  <2> QED BY <2>1, <2>2, TailHas DEF Has
<1>3. CASE Absorb
  BY <1>3 DEF Absorb, GoTo
<1>4. ASSUME NEW e \in Events, Change(e)
      PROVE  Has(kernel)' \/ Has(queue)'
  <2>1. /\ kernel' = Append(kernel, e) /\ queue' = queue
        /\ stale \/ e = "match"
        /\ UNCHANGED <<pc, armed, alive>>
    BY <1>4 DEF Change
  <2>2. CASE e = "match"
    BY <2>1, <2>2, AppendHas DEF Has
  <2>3. CASE stale
    BY <2>1, <2>3, AppendHas DEF Fresh, Has
  <2> QED BY <2>1, <2>2, <2>3
<1>5. CASE Deliver
  <2>1. /\ kernel # <<>> /\ kernel' = Tail(kernel) /\ queue' = Append(queue, Head(kernel))
        /\ UNCHANGED <<pc, armed, alive, stale>>
    BY <1>5 DEF Deliver
  <2>2. Head(kernel) \in Events
    BY <2>1
  <2>3. Has(kernel) \/ Has(queue)
    BY <2>1 DEF Fresh
  <2>4. CASE Head(kernel) = "match" \/ Has(queue)
    BY <2>1, <2>2, <2>4, AppendHas DEF Has
  <2>5. CASE Head(kernel) # "match" /\ Has(kernel)
    BY <2>1, <2>5, TailHas DEF Has
  <2> QED BY <2>3, <2>4, <2>5
<1>6. CASE WatcherDies
  BY <1>6 DEF WatcherDies
<1>7. CASE UNCHANGED watcher
  <2>1. UNCHANGED <<kernel, queue, stale, alive, armed>>
    BY <1>7 DEF watcher
  <2>2. pc \in {"run", "clear", "cleanup", "wait"} \/ pc = "start"
    BY Moves
  <2>3. CASE pc = "start"
    BY <1>7, <2>1, <2>3, OnlyBeginRuns
  <2>4. CASE pc # "start"
    BY <2>1, <2>2, <2>4 DEF Fresh, Has
  <2> QED BY <2>3, <2>4
<1> QED BY <1>1, <1>2, <1>3, <1>4, <1>5, <1>6, <1>7, WhoMovesWatcher DEF Changed

LEMMA TrackedKept == TypeOK /\ Tracked /\ [Next]_vars => Tracked'
<1> SUFFICES ASSUME TypeOK, Tracked, [Next]_vars
             PROVE  Tracked'
  OBVIOUS
<1>1. CASE MakeTemp
  BY <1>1 DEF MakeTemp, Tracked, Between
<1>2. CASE Panic \/ Drop \/ CleanupTemps
  <2>1. PICK k \in SUBSET tracked :
          /\ disk' = (disk \ tracked) \cup k /\ kept' = kept \cup k /\ tracked' = {}
          /\ UNCHANGED <<torn, made>>
    BY <1>2 DEF Panic, Drop, CleanupTemps, CleanUp
  <2> QED BY <2>1 DEF Tracked
<1>3. CASE UNCHANGED files /\ ~(Panic \/ Drop \/ CleanupTemps)
  <2>1. UNCHANGED <<disk, tracked, torn, kept>>
    BY <1>3 DEF files
  <2>2. pc' \in {"probe", "arm", "start"} \/ Between' => pc \in {"probe", "arm", "start"} \/ Between
    <3>1. CASE Probe \/ Arm \/ Begin \/ MakeTemp \/ Decrypt \/ Returns \/ Clear
      BY <3>1 DEF Probe, Arm, Begin, MakeTemp, Decrypt, Returns, RunReturns, Clear, GoTo, Finish, Between
    <3>2. CASE Wait \/ Absorb \/ Settled \/ Disconnected \/ Decide
      BY <3>2 DEF Wait, Absorb, Settled, Disconnected, Decide, GoTo, Finish, Between
    <3>3. CASE World
      BY <3>3 DEF World, Change, Deliver, WatcherDies, Press, Unlock, Between
    <3>4. CASE UNCHANGED vars
      BY <3>4 DEF vars, Between
    <3> QED BY <1>3, <3>1, <3>2, <3>3, <3>4 DEF Next, Process, Returns
  <2> QED BY <2>1, <2>2 DEF Tracked
<1> QED BY <1>1, <1>2, <1>3, WhoMovesFiles

LEMMA PoolsKept == TypeOK /\ Pools /\ [Next]_vars => Pools'
<1> SUFFICES ASSUME TypeOK, Pools, [Next]_vars
             PROVE  Pools'
  OBVIOUS
<1> USE DEF Pools, NextSaveRetries, TypeOK, KeysOK
<1>1. CASE Probe
  <2>1. pc = "probe" /\ pc' # "run" /\ first' = first
    BY <1>1 DEF Probe, GoTo, Finish
  <2> QED BY <2>1, Moves
<1>2. CASE Begin
  BY <1>2 DEF Begin, GoTo
<1>3. CASE Decrypt
  BY <1>3 DEF Decrypt, Asked
<1>4. CASE Returns
  BY <1>4 DEF Returns, RunReturns, GoTo
<1>5. CASE Unlock
  BY <1>5 DEF Unlock
<1>6. CASE UNCHANGED keys
  <2>1. UNCHANGED <<pool, keyring, openAt>>
    BY <1>6 DEF keys
  <2>2. CASE UNCHANGED <<pc, first>>
    BY <2>1, <2>2
  <2>3. CASE pc = "start" /\ pc' = "run"
    <3>1. openAt' = (keyring = "open") /\ first' = first /\ pool' = pool
      BY <2>3, OnlyBeginRuns DEF Begin
    <3> QED BY <2>1, <2>3, <3>1
  <2>4. CASE pc = "run" /\ pc' \notin {"run", "ended"}
    BY <1>4, <2>4, OnlyReturnsLeaves
  <2>5. CASE pc' = "ended" /\ first' = first
    BY <2>1, <2>5
  <2>6. CASE pc \notin {"start", "run", "ended"} /\ pc' \notin {"run", "ended"} /\ first' = first
    <3>1. pc' \in {"probe", "arm"} => pc \in {"probe", "arm"}
      BY <2>6, Moves
    <3> QED BY <2>1, <2>6, <3>1
  <2> QED BY <2>2, <2>3, <2>4, <2>5, <2>6, Moves
<1> QED BY <1>1, <1>2, <1>3, <1>4, <1>5, <1>6, WhoMovesKeys

LEMMA AimsKept == TypeOK /\ Aims /\ [Next]_vars => Aims'
<1> SUFFICES ASSUME TypeOK, Aims, [Next]_vars,
                    interrupted', pc' \in {"probe", "arm", "start"}
             PROVE  aimed' \in {"probe", "arm", "start"}
  BY DEF Aims
<1>1. CASE Clear
  BY <1>1 DEF Clear
<1>2. CASE Press
  BY <1>2 DEF Press
<1>3. CASE UNCHANGED signals
  <2>1. interrupted /\ aimed' = aimed
    BY <1>3 DEF signals
  <2>2. pc \in {"probe", "arm", "start"}
    BY <2>1, Moves
  <2> QED BY <2>1, <2>2 DEF Aims
<1> QED BY <1>1, <1>2, <1>3, WhoMovesSignals

LEMMA StepKeeps == IInv /\ [Next]_vars => IInv'
  BY TypesKept, ArmedKept, FreshKept, TrackedKept, PoolsKept, AimsKept DEF IInv

LEMMA Inductive == Spec => []IInv
  BY InitHolds, StepKeeps, PTL DEF Spec

-----------------------------------------------------------------------------
(* The theorems.                                                           *)

\* Every variable stays in its type, and the process has a status exactly when its
\* last run has returned and none is to follow.
THEOREM TypeCorrect == Spec => []TypeOK
  BY Inductive, PTL DEF IInv

\* Watch mode loses no change, however many there are and wherever they fall among
\* the places of the loop: with nothing left to read, it waits on what the last run saw.
THEOREM NoChangeLost == Spec => []IdleIsFresh
<1>1. IInv => IdleIsFresh
  <2> SUFFICES ASSUME IInv, pc = "wait", alive, kernel = <<>>, queue = <<>>, stale
               PROVE  FALSE
    BY DEF IdleIsFresh, IInv, TypeOK, WatcherOK
  <2>1. Has(kernel) \/ Has(queue)
    BY DEF IInv, Fresh, ArmedInLoop
  <2> QED BY <2>1 DEF Has
<1> QED BY <1>1, Inductive, PTL

\* Between runs and at the end nothing is left of the temp files but what could not
\* be written or removed, whatever the runs made and however they ended.
THEOREM NothingLeft == Spec => []TempsGone
<1>1. IInv => TempsGone
  BY DEF IInv, Tracked, TempsGone
<1> QED BY <1>1, Inductive, PTL

\* No run inherits the answer a locked keyring gave to an earlier one.
THEOREM PoolsGoWithRuns == Spec => []NextSaveRetries
<1>1. IInv => NextSaveRetries
  BY DEF IInv, Pools
<1> QED BY <1>1, Inductive, PTL

\* A Ctrl+C aimed at one run, or at the wait after it, stops no later run.
THEOREM NoRunPoisoned == Spec => RunsStartClean
<1>1. IInv /\ [Next]_vars =>
        [pc = "start" /\ pc' = "run" /\ interrupted => aimed \in {"probe", "arm", "start"}]_vars
  BY DEF IInv, Aims
<1> QED BY <1>1, Inductive, PTL DEF Spec, RunsStartClean

-----------------------------------------------------------------------------
(* A change is answered: how far it is to the next rest, and that only a    *)
(* session with nothing to do rests.                                       *)

\* The steps from a place to the end of its round: a run may still ask for its keys.
ToGo ==
  CASE pc = "ended"                 -> 0
    [] pc \in {"wait", "drop"}      -> 1
    [] pc = "cleanup"               -> 2
    [] pc = "clear"                 -> 3
    [] pc = "run"                   -> IF pool = "none" THEN 6 ELSE 5
    [] pc = "start"                 -> 7
    [] pc \in {"arm", "decide"}     -> 8
    [] pc \in {"probe", "debounce"} -> 9

\* Each event on its way is good for one more round at most: from the kernel to the
\* queue, and from the wait that reads it back to the wait.
Sum(toGo, temps, queued, seen) == toGo + temps + 10 * queued + 11 * seen
StepsLeft == Sum(ToGo, MaxTemps - made, Len(queue), Len(kernel))

\* What the process and the watcher's thread do brings the session closer to its rest;
\* of the world only a change takes it further away, by as much as one event is good for.
Settling ==
  /\ Process \/ Deliver => StepsLeft' < StepsLeft
  /\ ~Changed => StepsLeft' <= StepsLeft
  /\ StepsLeft' <= StepsLeft + 11

\* The guards of Process: the process has something to do.
ProcessMay ==
  \/ pc \in {"probe", "arm", "start", "run", "clear", "cleanup", "drop", "debounce", "decide"}
  \/ pc = "wait" /\ (queue # <<>> \/ ~alive)

LEMMA LeftTypes ==
  TypeOK => ToGo \in 0 .. 9 /\ MaxTemps - made \in Nat /\ Len(queue) \in Nat /\ Len(kernel) \in Nat
<1>1. TypeOK => ToGo \in 0 .. 9
  BY DEF TypeOK, ProcessOK, Places, ToGo
<1>2. TypeOK => MaxTemps - made \in Nat
  BY SessionAssumption DEF TypeOK, FilesOK
<1> QED BY <1>1, <1>2 DEF TypeOK, WatcherOK

LEMMA Fewer == \A n \in Nat : \A i, j \in 0 .. n : n - i \in Nat /\ (j = i + 1 => n - i = (n - j) + 1)
OBVIOUS

LEMMA LeftIsNat == TypeOK => StepsLeft \in Nat
<1> SUFFICES ASSUME TypeOK
             PROVE  StepsLeft \in Nat
  OBVIOUS
<1> DEFINE g == ToGo
           m == MaxTemps - made
           q == Len(queue)
           k == Len(kernel)
<1>1. g \in 0 .. 9 /\ m \in Nat /\ q \in Nat /\ k \in Nat
  BY LeftTypes
<1>2. Sum(g, m, q, k) \in Nat
  <2> HIDE DEF g, m, q, k
  <2> QED BY <1>1 DEF Sum
<1> QED BY <1>2 DEF StepsLeft

\* What a step does to the parts of the sum is what it does to the sum.
LEMMA Left ==
  ASSUME TypeOK, TypeOK'
  PROVE  /\ StepsLeft \in Nat
         /\ ToGo' < ToGo /\ made' = made /\ Len(queue)' = Len(queue) /\ Len(kernel)' = Len(kernel)
              => StepsLeft' < StepsLeft
         /\ ToGo' = ToGo /\ made' = made + 1 /\ Len(queue)' = Len(queue) /\ Len(kernel)' = Len(kernel)
              => StepsLeft' < StepsLeft
         /\ ToGo' <= ToGo + 8 /\ made' = made /\ Len(queue) = Len(queue)' + 1 /\ Len(kernel)' = Len(kernel)
              => StepsLeft' < StepsLeft
         /\ ToGo' = ToGo /\ made' = made /\ Len(queue)' = Len(queue) + 1 /\ Len(kernel) = Len(kernel)' + 1
              => StepsLeft' < StepsLeft
         /\ ToGo' <= ToGo /\ made' = made /\ Len(queue)' = Len(queue) /\ Len(kernel)' <= Len(kernel)
              => StepsLeft' <= StepsLeft
         /\ ToGo' = ToGo /\ made' = made /\ Len(queue)' = Len(queue) /\ Len(kernel)' <= Len(kernel) + 1
              => StepsLeft' <= StepsLeft + 11
<1> DEFINE g == ToGo
           m == MaxTemps - made
           q == Len(queue)
           k == Len(kernel)
           h == ToGo'
           n == MaxTemps - made'
           r == Len(queue)'
           l == Len(kernel)'
<1>1. g \in Nat /\ m \in Nat /\ q \in Nat /\ k \in Nat
  BY LeftTypes
<1>2. MaxTemps \in Nat /\ made \in 0 .. MaxTemps /\ made' \in 0 .. MaxTemps
  BY SessionAssumption DEF TypeOK, FilesOK
<1>3. n \in Nat /\ (made' = made => n = m) /\ (made' = made + 1 => m = n + 1)
  BY <1>2, Fewer
<1>4. h \in Nat
  BY DEF TypeOK, ProcessOK, Places, ToGo
<1>5. r \in Nat /\ l \in Nat
  BY DEF TypeOK, WatcherOK
<1> DEFINE s == StepsLeft
           t == StepsLeft'
<1>6. s = Sum(g, m, q, k) /\ t = Sum(h, n, r, l)
  BY DEF StepsLeft, Sum
<1>7. /\ s \in Nat
      /\ h < g /\ n = m /\ r = q /\ l = k => t < s
      /\ h = g /\ m = n + 1 /\ r = q /\ l = k => t < s
      /\ h <= g + 8 /\ n = m /\ q = r + 1 /\ l = k => t < s
      /\ h = g /\ n = m /\ r = q + 1 /\ k = l + 1 => t < s
      /\ h <= g /\ n = m /\ r = q /\ l <= k => t <= s
      /\ h = g /\ n = m /\ r = q /\ l <= k + 1 => t <= s + 11
  <2> HIDE DEF g, m, q, k, h, n, r, l, s, t
  <2> QED BY <1>1, <1>3, <1>4, <1>5, <1>6 DEF Sum
<1> QED BY <1>3, <1>7

LEMMA ProcessSettles == TypeOK /\ TypeOK' /\ Process => StepsLeft' < StepsLeft
<1> SUFFICES ASSUME TypeOK, TypeOK', Process
             PROVE  StepsLeft' < StepsLeft
  OBVIOUS
<1>1. CASE UNCHANGED <<made, queue, kernel>> /\ ToGo' < ToGo
  BY <1>1, Left
<1>2. ASSUME pc # pc', pc' = "ended" \/ <<pc, pc'>> \in
                {<<"probe", "arm">>, <<"probe", "start">>, <<"arm", "start">>, <<"start", "run">>,
                 <<"run", "clear">>, <<"run", "drop">>, <<"clear", "cleanup">>, <<"cleanup", "wait">>,
                 <<"debounce", "decide">>, <<"decide", "start">>}
      PROVE  ToGo' < ToGo
  BY <1>2 DEF ToGo, TypeOK, ProcessOK, Places
<1>3. CASE Probe \/ Arm \/ Begin
  BY <1>1, <1>2, <1>3 DEF Probe, Arm, Begin, GoTo, Finish, files, watcher
<1>4. CASE Returns \/ Clear \/ Disconnected \/ Settled \/ Decide
  BY <1>1, <1>2, <1>4 DEF Returns, RunReturns, Clear, Disconnected, Settled, Decide, GoTo, Finish, files, watcher
<1>5. CASE Panic \/ Drop \/ CleanupTemps
  <2>1. made' = made /\ UNCHANGED <<queue, kernel>>
    BY <1>5 DEF Panic, Drop, CleanupTemps, CleanUp, watcher
  <2>2. ToGo' < ToGo
    BY <1>2, <1>5 DEF Panic, Drop, CleanupTemps, GoTo, Finish
  <2> QED BY <1>1, <2>1, <2>2
<1>6. CASE MakeTemp
  <2>1. made' = made + 1 /\ UNCHANGED <<pc, pool, queue, kernel>>
    BY <1>6 DEF MakeTemp, watcher, keys
  <2> QED BY <2>1, Left DEF ToGo
<1>7. CASE Decrypt
  <2>1. UNCHANGED <<pc, made, queue, kernel>> /\ pc = "run" /\ pool = "none" /\ pool' # "none"
    BY <1>7 DEF Decrypt, Asked, files, watcher, TypeOK, KeysOK
  <2>2. ToGo' < ToGo
    BY <2>1 DEF ToGo
  <2> QED BY <1>1, <2>1, <2>2
<1>8. CASE Wait \/ Absorb
  <2>1. queue # <<>> /\ queue' = Tail(queue) /\ UNCHANGED <<made, kernel>>
    BY <1>8 DEF Wait, Absorb, Received, files
  <2>2. Len(queue) = Len(queue)' + 1
    BY <2>1 DEF TypeOK, WatcherOK
  <2>3. ToGo' <= ToGo + 8
    BY <1>8 DEF Wait, Absorb, GoTo, ToGo
  <2> QED BY <2>1, <2>2, <2>3, Left
<1> QED BY <1>3, <1>4, <1>5, <1>6, <1>7, <1>8 DEF Process, Returns

LEMMA DeliverSettles == TypeOK /\ TypeOK' /\ Deliver => StepsLeft' < StepsLeft
<1> SUFFICES ASSUME TypeOK, TypeOK', Deliver
             PROVE  StepsLeft' < StepsLeft
  OBVIOUS
<1>1. /\ kernel # <<>> /\ kernel' = Tail(kernel) /\ queue' = Append(queue, Head(kernel))
      /\ UNCHANGED <<pc, pool, made>>
  BY DEF Deliver, files, keys
<1>2. Len(queue)' = Len(queue) + 1 /\ Len(kernel) = Len(kernel)' + 1
  BY <1>1 DEF TypeOK, WatcherOK
<1> QED BY <1>1, <1>2, Left DEF ToGo

LEMMA WorldSettles ==
  TypeOK /\ TypeOK' => /\ Changed => StepsLeft' <= StepsLeft + 11
                       /\ WatcherDies \/ Press \/ Unlock \/ UNCHANGED vars => StepsLeft' <= StepsLeft
<1> SUFFICES ASSUME TypeOK, TypeOK'
             PROVE  /\ Changed => StepsLeft' <= StepsLeft + 11
                    /\ WatcherDies \/ Press \/ Unlock \/ UNCHANGED vars => StepsLeft' <= StepsLeft
  OBVIOUS
<1>1. ASSUME NEW e \in Events, Change(e)
      PROVE  StepsLeft' <= StepsLeft + 11
  <2>1. UNCHANGED <<pc, pool, made, queue>> /\ kernel' \in {kernel, Append(kernel, e)}
    BY <1>1 DEF Change, files, keys
  <2>2. Len(kernel)' <= Len(kernel) + 1
    BY <2>1 DEF TypeOK, WatcherOK
  <2> QED BY <2>1, <2>2, Left DEF ToGo
<1>2. ASSUME WatcherDies \/ Press \/ Unlock \/ UNCHANGED vars
      PROVE  StepsLeft' <= StepsLeft
  <2>1. UNCHANGED <<pc, pool, made, queue>> /\ kernel' \in {kernel, <<>>}
    BY <1>2 DEF WatcherDies, Press, Unlock, vars, files, keys, watcher
  <2>2. Len(kernel)' <= Len(kernel)
    BY <2>1 DEF TypeOK, WatcherOK
  <2>3. ToGo' = ToGo
    BY <2>1 DEF ToGo
  <2>4. ToGo' <= ToGo
    BY <2>3, LeftTypes
  <2> QED BY <2>1, <2>2, <2>4, Left
<1> QED BY <1>1, <1>2 DEF Changed

LEMMA Settles == TypeOK /\ TypeOK' /\ [Next]_vars => Settling
<1> SUFFICES ASSUME TypeOK, TypeOK', [Next]_vars
             PROVE  Settling
  OBVIOUS
<1>1. StepsLeft \in Nat /\ (StepsLeft \in Nat)'
  BY LeftIsNat, PTL
<1>2. Process \/ Deliver => StepsLeft' < StepsLeft
  BY ProcessSettles, DeliverSettles
<1>3. ~Changed => StepsLeft' <= StepsLeft
  <2> SUFFICES ASSUME ~Changed
               PROVE  StepsLeft' <= StepsLeft
    OBVIOUS
  <2>1. Process \/ Deliver \/ WatcherDies \/ Press \/ Unlock \/ UNCHANGED vars
    BY DEF Next, World, Changed
  <2> DEFINE s == StepsLeft
             t == StepsLeft'
  <2>2. s \in Nat /\ t \in Nat /\ (t < s \/ t <= s)
    BY <1>1, <1>2, <2>1, WorldSettles
  <2> HIDE DEF s, t
  <2>3. t <= s
    BY <2>2
  <2> QED BY <2>3 DEF s, t
<1>4. StepsLeft' <= StepsLeft + 11
  <2> DEFINE s == StepsLeft
             t == StepsLeft'
  <2>1. s \in Nat /\ t \in Nat /\ (t <= s \/ t <= s + 11)
    BY <1>1, <1>3, WorldSettles
  <2> HIDE DEF s, t
  <2>2. t <= s + 11
    BY <2>1
  <2> QED BY <2>2 DEF s, t
<1> QED BY <1>2, <1>3, <1>4 DEF Settling

\* A session cannot go on without changes: whatever the process and the watcher's thread
\* do brings it closer to a rest, by a count that only a change raises, and by so much
\* at most.  (watch.rs, the loop: one run answers a burst, and an event is read once.)
THEOREM SettlesBetweenChanges == Spec => [](StepsLeft \in Nat) /\ [][Settling]_vars
<1>1. IInv => StepsLeft \in Nat
  BY LeftIsNat DEF IInv
<1>2. IInv /\ [Next]_vars => [Settling]_vars
  BY Settles, TypesKept DEF IInv
<1> QED BY <1>1, <1>2, Inductive, PTL DEF Spec

\* And it does not rest on a change no run has seen: the process has something to do,
\* or the watcher's thread has something to send, until the process has ended.
THEOREM StaleGoesOn == Spec => [](stale /\ pc # "ended" => ProcessMay \/ kernel # <<>>)
<1>1. IInv => (stale /\ pc # "ended" => ProcessMay \/ kernel # <<>>)
  <2> SUFFICES ASSUME IInv, stale, pc # "ended", ~ProcessMay
               PROVE  kernel # <<>>
    OBVIOUS
  <2>1. pc = "wait" /\ queue = <<>> /\ alive
    BY DEF ProcessMay, IInv, TypeOK, ProcessOK, WatcherOK, Places
  <2>2. Has(kernel) \/ Has(queue)
    BY <2>1 DEF IInv, Fresh, ArmedInLoop, TypeOK, WatcherOK
  <2> QED BY <2>1, <2>2 DEF Has
<1> QED BY <1>1, Inductive, PTL
=============================================================================
