------------------------------ MODULE Session ------------------------------
(***************************************************************************)
(* One `run <target>` process around the walk itself: real_main's run path *)
(* (main.rs), watch mode (watch.rs), and what a Host keeps from one run to *)
(* the next -- its temp files and its key pool (dispatch.rs).  The walk is *)
(* Walk's; here a run makes temp files, asks for keys and returns.  What   *)
(* prepare::record then writes is read by other processes only.            *)
(*                                                                         *)
(* Beside it: an editor changing files, the thread that delivers what the  *)
(* file system reports, a terminal sending signals, a keyring.             *)
(***************************************************************************)
EXTENDS Naturals, Sequences, FiniteSets

CONSTANTS
  MaxChanges,  \* bound: how many times a file is changed
  MaxPresses,  \* bound: how many times Ctrl+C is pressed
  MaxTemps     \* bound: how many temp files the runs make between them

ASSUME SessionAssumption == MaxChanges \in Nat /\ MaxPresses \in Nat /\ MaxTemps \in Nat

VARIABLES
  pc,          \* where the process is
  watching,    \* whether the target declares `.watch` and its header does not exit()
  armed,       \* whether the directories are being watched
  kernel,      \* changes the file system has seen and not yet reported
  queue,       \* the channel from the watcher's thread to next_change
  alive,       \* whether that thread still holds its end of the channel
  interrupted, \* the flag a signal sets
  disk,        \* temp files that exist
  tracked,     \* Host::temps
  pool,        \* Host::pool: no key asked for yet, or what the keyring said
  keyring,     \* whether the credential store is locked
  status,      \* the status of the process, once it has one
  stale,       \* history: something matching changed since the last run began
  aimed,       \* history: where the process was when Ctrl+C was last pressed
  openAt,      \* history: the keyring was open when this run began
  first,       \* history: no run has returned yet
  torn, kept,  \* history: temp files that could not be written, or not removed
  changes, presses, made

files   == <<disk, tracked, torn, kept, made>>
watcher == <<armed, kernel, queue, alive, changes, stale>>
signals == <<interrupted, presses, aimed>>
keys    == <<pool, keyring, openAt>>
vars    == <<pc, watching, status, first, files, watcher, signals, keys>>

Events == {"match", "noise"}
\* The places of the process: between them another thread or a signal may act.
Places == {"probe", "arm", "start", "run", "clear", "cleanup", "drop",
           "wait", "debounce", "decide", "ended"}

GoTo(place) == pc' = place /\ UNCHANGED <<watching, status>>
Finish(code) == pc' = "ended" /\ status' = code /\ UNCHANGED watching
Failure == IF interrupted THEN "130" ELSE "1"
\* A run that is not ok failed, or said with exit() what its status is.
Ends(ok) == IF ok THEN {"0"} ELSE {Failure, "code"}

-----------------------------------------------------------------------------
(* Before the first run.                                                   *)

Asked(yes) == pool' = IF yes /\ pool = "none" THEN keyring ELSE pool

\* header_props: the header is evaluated for `.watch`, and may have to decrypt.
Probe ==
  /\ pc = "probe"
  /\ \E yes \in BOOLEAN : Asked(yes)
  /\ \/ GoTo(IF watching THEN "arm" ELSE "start")
     \/ Finish(Failure)
  /\ UNCHANGED <<first, files, watcher, signals, keyring, openAt>>

\* watch: the patterns are compiled and the directories watched, then once() is called.
Arm ==
  /\ pc = "arm"
  /\ \/ armed' = TRUE /\ GoTo("start")
     \/ armed' = armed /\ Finish(Failure)
  /\ UNCHANGED <<first, files, kernel, queue, alive, changes, stale, signals, keys>>

-----------------------------------------------------------------------------
(* A run: once() in watch mode, or the only one.                           *)

Begin ==
  /\ pc = "start" /\ GoTo("run")
  /\ stale' = FALSE
  /\ openAt' = (keyring = "open")
  /\ UNCHANGED <<first, files, armed, kernel, queue, alive, changes, signals, pool, keyring>>

\* temp_file: created, then written, then tracked -- a write that fails returns first.
MakeTemp ==
  /\ pc = "run" /\ made < MaxTemps
  /\ made' = made + 1
  /\ disk' = disk \cup {made}
  /\ \/ tracked' = tracked \cup {made} /\ torn' = torn
     \/ tracked' = tracked /\ torn' = torn \cup {made}
  /\ UNCHANGED <<pc, watching, status, first, kept, watcher, signals, keys>>

Decrypt ==
  /\ pc = "run" /\ pool = "none" /\ Asked(TRUE)
  /\ UNCHANGED <<pc, watching, status, first, files, watcher, signals, keyring, openAt>>

\* A slip: a run that failed keeps the pool it failed with.
RunReturnsKeepingPool(ok) ==
  /\ pc = "run"
  /\ pool' = IF ok THEN "none" ELSE pool
  /\ first' = FALSE
  /\ IF watching THEN GoTo("clear")
     ELSE pc' = "drop" /\ status' \in Ends(ok) /\ UNCHANGED watching
  /\ UNCHANGED <<files, watcher, signals, keyring, openAt>>

\* A slip: what changed while the run was going is taken for its own doing.
RunReturnsDraining(ok) ==
  /\ pc = "run"
  /\ pool' = "none" /\ first' = FALSE /\ queue' = <<>>
  /\ IF watching THEN GoTo("clear")
     ELSE pc' = "drop" /\ status' \in Ends(ok) /\ UNCHANGED watching
  /\ UNCHANGED <<files, armed, kernel, alive, changes, stale, signals, keyring, openAt>>

\* A slip: what a run returns is taken for what the session does.
RunReturnsStatus(ok) ==
  /\ pc = "run"
  /\ pool' = "none" /\ first' = FALSE
  /\ pc' = (IF watching THEN "clear" ELSE "drop")
  /\ status' \in Ends(ok)
  /\ UNCHANGED <<watching, files, watcher, signals, keyring, openAt>>

\* Host::run: the pool is dropped however the run ended.
RunReturns(ok) ==
  /\ pc = "run"
  /\ pool' = "none" /\ first' = FALSE
  /\ IF watching THEN GoTo("clear")
     ELSE pc' = "drop" /\ status' \in Ends(ok) /\ UNCHANGED watching
  /\ UNCHANGED <<files, watcher, signals, keyring, openAt>>

\* cleanup_temps: best effort; a file that cannot be removed is forgotten too.
CleanUp ==
  \E k \in SUBSET tracked :
    /\ disk' = (disk \ tracked) \cup k
    /\ kept' = kept \cup k
    /\ tracked' = {}
    /\ UNCHANGED <<torn, made>>

\* A slip: nothing guards the run, and an unwind skips the call below it.
PanicUnguarded ==
  /\ pc = "run" /\ Finish("101")
  /\ UNCHANGED <<first, files, watcher, signals, keys>>

\* TempGuard: an unwind drops the guard on its way out.
Panic ==
  /\ pc = "run" /\ Finish("101") /\ CleanUp
  /\ UNCHANGED <<first, watcher, signals, keys>>

\* The one run of a target that does not watch: drop(temps), then the status.
Drop ==
  /\ pc = "drop" /\ GoTo("ended") /\ CleanUp
  /\ UNCHANGED <<first, watcher, signals, keys>>

\* interrupt::clear.
Clear ==
  /\ pc = "clear" /\ GoTo("cleanup")
  /\ interrupted' = FALSE
  /\ UNCHANGED <<first, files, watcher, presses, aimed, keys>>

CleanupTemps ==
  /\ pc = "cleanup" /\ GoTo("wait") /\ CleanUp
  /\ UNCHANGED <<first, watcher, signals, keys>>

-----------------------------------------------------------------------------
(* Between runs: next_change and the loop around it.                       *)

Received == queue' = Tail(queue) /\ UNCHANGED <<armed, kernel, alive, changes, stale>>

\* recv: whatever does not match is passed over.
Wait ==
  /\ pc = "wait" /\ queue # <<>> /\ Received
  /\ GoTo(IF Head(queue) = "match" THEN "debounce" ELSE "wait")
  /\ UNCHANGED <<first, files, signals, keys>>

\* recv_timeout: the rest of the burst; a message that is there comes before the time is up.
Absorb ==
  /\ pc = "debounce" /\ queue # <<>> /\ Received
  /\ GoTo("debounce")
  /\ UNCHANGED <<first, files, signals, keys>>

\* A slip: the quiet period is waited out and the change it followed forgotten.
SettledForgetting ==
  /\ pc = "debounce" /\ queue = <<>> /\ alive
  /\ GoTo("wait")
  /\ UNCHANGED <<first, files, watcher, signals, keys>>

\* DEBOUNCE has gone by without another.
Settled ==
  /\ pc = "debounce" /\ queue = <<>> /\ alive
  /\ GoTo("decide")
  /\ UNCHANGED <<first, files, watcher, signals, keys>>

\* The watcher's thread is gone and everything it sent is read.
Disconnected ==
  /\ pc \in {"wait", "debounce"} /\ queue = <<>> /\ ~alive
  /\ Finish("0")
  /\ UNCHANGED <<first, files, watcher, signals, keys>>

\* A slip: nothing looks.
DecideBlindly ==
  /\ pc = "decide" /\ GoTo("start")
  /\ UNCHANGED <<first, files, watcher, signals, keys>>

\* The loop's only look at the flag.
Decide ==
  /\ pc = "decide"
  /\ IF interrupted THEN Finish("0") ELSE GoTo("start")
  /\ UNCHANGED <<first, files, watcher, signals, keys>>

-----------------------------------------------------------------------------
(* The world around the process.                                           *)

\* A file is changed, by the editor or by the run itself.
Change(e) ==
  /\ changes < MaxChanges /\ pc # "ended"
  /\ changes' = changes + 1
  /\ kernel' = IF armed /\ alive THEN Append(kernel, e) ELSE kernel
  /\ stale' = (stale \/ e = "match")
  /\ UNCHANGED <<pc, watching, status, first, files, armed, queue, alive, signals, keys>>

\* The watcher's callback.
Deliver ==
  /\ kernel # <<>> /\ pc # "ended"
  /\ kernel' = Tail(kernel)
  /\ queue' = Append(queue, Head(kernel))
  /\ UNCHANGED <<pc, watching, status, first, files, armed, alive, changes, stale, signals, keys>>

WatcherDies ==
  /\ armed /\ alive /\ pc # "ended"
  /\ alive' = FALSE /\ kernel' = <<>>
  /\ UNCHANGED <<pc, watching, status, first, files, armed, queue, changes, stale, signals, keys>>

\* on_signal.
Press ==
  /\ presses < MaxPresses /\ pc # "ended"
  /\ presses' = presses + 1
  /\ interrupted' = TRUE /\ aimed' = pc
  /\ UNCHANGED <<pc, watching, status, first, files, watcher, keys>>

Unlock ==
  /\ keyring = "locked" /\ pc # "ended"
  /\ keyring' = "open"
  /\ UNCHANGED <<pc, watching, status, first, files, watcher, signals, pool, openAt>>

-----------------------------------------------------------------------------

Init ==
  /\ pc = "probe" /\ watching \in BOOLEAN /\ status = "none" /\ first = TRUE
  /\ armed = FALSE /\ kernel = <<>> /\ queue = <<>> /\ alive = TRUE
  /\ changes = 0 /\ stale = FALSE
  /\ interrupted = FALSE /\ presses = 0 /\ aimed = "none"
  /\ disk = {} /\ tracked = {} /\ torn = {} /\ kept = {} /\ made = 0
  /\ pool = "none" /\ keyring \in {"locked", "open"} /\ openAt = FALSE

Process ==
  \/ Probe \/ Arm \/ Begin \/ MakeTemp \/ Decrypt \/ Panic \/ Drop
  \/ \E ok \in BOOLEAN : RunReturns(ok)
  \/ Clear \/ CleanupTemps \/ Wait \/ Absorb \/ Settled \/ Disconnected \/ Decide

World ==
  \/ \E e \in Events : Change(e)
  \/ Deliver \/ WatcherDies \/ Press \/ Unlock

Next == Process \/ World

\* The process and the watcher's thread are scheduled, and the commands of a run
\* end.  Nobody has to edit, press or unlock anything.
Spec == Init /\ [][Next]_vars /\ WF_vars(Process) /\ WF_vars(Deliver)

-----------------------------------------------------------------------------
(* Properties.                                                             *)

ProcessOK ==
  /\ pc \in Places /\ watching \in BOOLEAN /\ first \in BOOLEAN
  /\ status \in {"none", "0", "1", "code", "101", "130"}
  /\ status = "none" <=> pc \notin {"drop", "ended"}
FilesOK ==
  /\ made \in 0 .. MaxTemps
  /\ disk \cup tracked \cup torn \cup kept \subseteq 0 .. (made - 1)
WatcherOK ==
  /\ armed \in BOOLEAN /\ alive \in BOOLEAN /\ stale \in BOOLEAN
  /\ kernel \in Seq(Events) /\ queue \in Seq(Events) /\ changes \in 0 .. MaxChanges
SignalsOK == interrupted \in BOOLEAN /\ presses \in 0 .. MaxPresses /\ aimed \in Places \cup {"none"}
KeysOK ==
  /\ pool \in {"none", "locked", "open"} /\ keyring \in {"locked", "open"}
  /\ openAt \in BOOLEAN

TypeOK == ProcessOK /\ FilesOK /\ WatcherOK /\ SignalsOK /\ KeysOK

\* Watch mode loses no change: when it is waiting with nothing left to read, the
\* last run began after everything that changed -- whenever that was: before the
\* watch was armed, during a run, in the middle of a burst, between a check and a
\* start (watch.rs, next_change and watch).
IdleIsFresh ==
  pc = "wait" /\ alive /\ kernel = <<>> /\ queue = <<>> => ~stale

\* Outside a run no temp file is left but what could not be written or removed,
\* however the runs before ended: well, badly, interrupted or with a panic
\* (cleanup_temps and TempGuard).
Between == pc \in {"wait", "debounce", "decide", "ended"}
TempsGone == Between => disk \subseteq torn \cup kept

\* A Ctrl+C pressed while a run is going or watch mode waits never stops a later
\* run: it ends that run or, at the next change, the session.  A run finds the flag
\* set only by a press before the first one, or after the loop's look at it
\* (main.rs:301, "each iteration starts clean").
RunsStartClean ==
  [][pc = "start" /\ pc' = "run" /\ interrupted => aimed \in {"probe", "arm", "start"}]_vars

\* A run begun with the keyring open finds it open, whatever the runs before it
\* found: the pool goes with its run.  The first may have the header probe's.
NextSaveRetries == pc = "run" /\ openAt /\ ~first => pool # "locked"

\* A change is followed by a run, or by the end of the session.
FreshAgain == stale ~> (~stale \/ pc = "ended")

\* watch.rs:141 and :165: watch mode ends with Ctrl+C, and the line on the screen
\* says so while it waits.
CtrlCEndsWatch == (pc = "wait" /\ interrupted) ~> pc = "ended"
=============================================================================
