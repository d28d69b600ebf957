------------------------------ MODULE Prepare ------------------------------
(***************************************************************************)
(* The prepare gate (runfile-cli's prepare.rs, its calls in main.rs) and   *)
(* the file it keeps its record in (runfile-state's prepare_state.rs).     *)
(*                                                                         *)
(* `run` processes share state.json without a lock, and setup files with   *)
(* whoever edits them: between any two of a process's reads and writes the *)
(* others act.  A definition is what fingerprint() makes of a file, so two *)
(* texts that differ in layout only are one definition here.               *)
(***************************************************************************)
EXTENDS Naturals, FiniteSets

CONSTANTS
  Proc,      \* the places a `run` process can be started from
  Target,    \* the targets that are run
  GateOf,    \* the `setup` of each target's directory, NoGate for one that has none
  NoGate,
  Defs,      \* the definitions a file can have
  Broken,    \* a file that is gone or does not parse
  None,      \* no fingerprint
  Torn,      \* a state.json that is not JSON
  Ways,      \* how a process may be started: subsets of AllWays
  MaxRuns,   \* bound: how many processes are started
  MaxEdits   \* bound: how many times a file is edited

AllWays == {"dry", "ci", "skip", "watch"}

ASSUME PrepareAssumption ==
  /\ GateOf \in [Target -> Target \cup {NoGate}] /\ NoGate \notin Target /\ Target # {}
  /\ \A t \in Target : GateOf[t] # NoGate => GateOf[GateOf[t]] = NoGate
  /\ Broken \notin Defs /\ None \notin Defs /\ Broken # None
  /\ Ways \subseteq SUBSET AllWays
  /\ MaxRuns \in Nat /\ MaxEdits \in Nat

\* gate_for finds no gate for a setup, nor where there is no setup.
Ungated == {t \in Target : GateOf[t] = NoGate}
Records == [Ungated -> Defs \cup {None}]
Empty   == [t \in Ungated |-> None]

ASSUME TornAssumption == Torn \notin Records

VARIABLES
  file,     \* what is in the file of each target nothing gates
  disk,     \* state.json; one that does not exist is Empty
  at,       \* where each process is
  target,   \* what it was asked to run
  way,      \* how it was started
  want,     \* the fingerprint it last made
  held,     \* the state it loaded to record in
  vouched,  \* history: the definitions a file had while a run of it that went well was about to be recorded
  last,     \* history: what the records so far were meant to leave
  clash,    \* history: two records overlapped, or one was cut short
  runs, edits

procs   == <<at, target, way, want, held>>
history == <<vouched, last, clash>>
vars    == <<file, disk, procs, history, runs, edits>>

Places == {"idle", "enforce", "look", "run", "running", "record", "load", "save", "write"}

\* A watch goes back for the next change; anything else is over.
Rests(p) == IF "watch" \in way[p] /\ "dry" \notin way[p] THEN "run" ELSE "idle"
Goes(p, place) == at' = [at EXCEPT ![p] = place]
Stays == UNCHANGED <<file, disk, history, runs, edits>>

\* A record is being made of p's run, and one of another's.
Recording(p) == at[p] \in {"save", "write"}
Overlaps(p)  == \E q \in Proc \ {p} : Recording(q)

-----------------------------------------------------------------------------
(* A process starts: the gate, unless it is a preview.                     *)

Start(p, t, w) ==
  /\ at[p] = "idle" /\ runs < MaxRuns
  /\ runs' = runs + 1
  /\ Goes(p, IF "dry" \in w THEN "run" ELSE "enforce")
  /\ target' = [target EXCEPT ![p] = t]
  /\ way'    = [way EXCEPT ![p] = w]
  /\ want'   = [want EXCEPT ![p] = None]
  /\ held'   = [held EXCEPT ![p] = Empty]
  /\ UNCHANGED <<file, disk, history, edits>>

Exempt(p) == way[p] \cap {"ci", "skip"} # {}
Gate(p)   == GateOf[target[p]]

\* enforce, as far as digest(gate): a gate that cannot be read is no gate.
Enforce(p) ==
  /\ at[p] = "enforce"
  /\ IF Exempt(p) \/ Gate(p) = NoGate \/ file[Gate(p)] = Broken
     THEN Goes(p, "run") /\ want' = want
     ELSE Goes(p, "look") /\ want' = [want EXCEPT ![p] = file[Gate(p)]]
  /\ Stays /\ UNCHANGED <<target, way, held>>

\* PrepareState::load().unwrap_or_default().
Loaded == IF disk = Torn THEN Empty ELSE disk

\* The rest of enforce: run on what is recorded, and on nothing else.
Look(p) ==
  /\ at[p] = "look"
  /\ Goes(p, IF Loaded[Gate(p)] = want[p] THEN "run" ELSE "idle")
  /\ Stays /\ UNCHANGED <<target, way, want, held>>

-----------------------------------------------------------------------------
(* The run.                                                                *)

\* Host::run loads the file afresh; one that does not parse is a failed run.
RunBegins(p) ==
  /\ at[p] = "run"
  /\ IF target[p] \in Ungated /\ file[target[p]] = Broken
     THEN Goes(p, Rests(p)) ELSE Goes(p, "running")
  /\ Stays /\ UNCHANGED <<target, way, want, held>>

\* A slip: a preview of a setup counts as a setup.
WorthRecordingDry(p) == "ci" \notin way[p] /\ target[p] \in Ungated

\* What record is called for, and what it returns early from.
WorthRecording(p) == way[p] \cap {"dry", "ci"} = {} /\ target[p] \in Ungated

RunReturns(p, ok) ==
  /\ at[p] = "running"
  /\ Goes(p, IF ok /\ WorthRecording(p) THEN "record" ELSE Rests(p))
  /\ IF ok /\ way[p] \cap {"dry", "ci"} = {} /\ target[p] \in Ungated
     THEN vouched' = [vouched EXCEPT ![target[p]] = @ \cup ({file[target[p]]} \ {Broken})]
     ELSE UNCHANGED vouched
  /\ UNCHANGED <<file, disk, target, way, want, held, last, clash, runs, edits>>

-----------------------------------------------------------------------------
(* prepare::record.                                                        *)

\* A slip: what cannot be read is recorded as it is.
DigestAnything(p) ==
  /\ at[p] = "record"
  /\ Goes(p, "load") /\ want' = [want EXCEPT ![p] = file[target[p]]]
  /\ Stays /\ UNCHANGED <<target, way, held>>

\* digest, of the file as it is by now.
Digest(p) ==
  /\ at[p] = "record"
  /\ IF file[target[p]] = Broken
     THEN Goes(p, Rests(p)) /\ want' = want
     ELSE Goes(p, "load") /\ want' = [want EXCEPT ![p] = file[target[p]]]
  /\ Stays /\ UNCHANGED <<target, way, held>>

\* A slip: the state starts from nothing.
LoadNothing(p) ==
  /\ at[p] = "load" /\ Goes(p, "save")
  /\ held' = [held EXCEPT ![p] = Empty]
  /\ clash' = (clash \/ Overlaps(p))
  /\ UNCHANGED <<file, disk, target, way, want, vouched, last, runs, edits>>

Load(p) ==
  /\ at[p] = "load" /\ Goes(p, "save")
  /\ held' = [held EXCEPT ![p] = Loaded]
  /\ clash' = (clash \/ Overlaps(p))
  /\ UNCHANGED <<file, disk, target, way, want, vouched, last, runs, edits>>

Cut == clash' = TRUE /\ last' = last

\* save_to, opening: fs::write empties the file, or cannot.
Truncate(p) ==
  /\ at[p] = "save"
  /\ \/ disk' = Torn /\ Goes(p, "write") /\ UNCHANGED <<last, clash>>
     \/ disk' = disk /\ Goes(p, Rests(p)) /\ Cut
  /\ UNCHANGED <<file, target, way, want, held, vouched, runs, edits>>

\* save_to, writing.  A write can stop short, or land on the longer text of a
\* record that was made in between and leave the end of it behind.
Write(p) ==
  /\ at[p] = "write" /\ Goes(p, Rests(p))
  /\ \/ /\ disk' = [held[p] EXCEPT ![target[p]] = want[p]]
        /\ last' = [last EXCEPT ![target[p]] = want[p]] /\ clash' = clash
     \/ disk' = Torn /\ Cut
  /\ UNCHANGED <<file, target, way, want, held, vouched, runs, edits>>

-----------------------------------------------------------------------------
(* The world around the processes.                                         *)

\* A process is killed wherever it is.
Kill(p) ==
  /\ at[p] # "idle" /\ Goes(p, "idle")
  /\ clash' = (clash \/ Recording(p))
  /\ UNCHANGED <<file, disk, target, way, want, held, vouched, last, runs, edits>>

\* A file is edited, broken, removed or put back.
Edit(t, d) ==
  /\ edits < MaxEdits /\ d # file[t]
  /\ edits' = edits + 1
  /\ file' = [file EXCEPT ![t] = d]
  /\ vouched' = IF \E p \in Proc : at[p] = "record" /\ target[p] = t
                THEN [vouched EXCEPT ![t] = @ \cup ({d} \ {Broken})] ELSE vouched
  /\ UNCHANGED <<disk, procs, last, clash, runs>>

-----------------------------------------------------------------------------

Init ==
  /\ file \in [Ungated -> Defs \cup {Broken}]
  /\ disk = Empty
  /\ at = [p \in Proc |-> "idle"]
  /\ target = [p \in Proc |-> CHOOSE t \in Target : TRUE] /\ way = [p \in Proc |-> {}]
  /\ want = [p \in Proc |-> None] /\ held = [p \in Proc |-> Empty]
  /\ vouched = [t \in Ungated |-> {}]
  /\ last = Empty /\ clash = FALSE
  /\ runs = 0 /\ edits = 0

Process(p) ==
  \/ \E t \in Target, w \in Ways : Start(p, t, w)
  \/ Enforce(p) \/ Look(p) \/ RunBegins(p)
  \/ \E ok \in BOOLEAN : RunReturns(p, ok)
  \/ Digest(p) \/ Load(p) \/ Truncate(p) \/ Write(p) \/ Kill(p)

Next ==
  \/ \E p \in Proc : Process(p)
  \/ \E t \in Ungated, d \in Defs \cup {Broken} : Edit(t, d)

Spec == Init /\ [][Next]_vars

-----------------------------------------------------------------------------
(* Properties.                                                             *)

TypeOK ==
  /\ file \in [Ungated -> Defs \cup {Broken}]
  /\ disk \in Records \cup {Torn}
  /\ at \in [Proc -> Places]
  /\ target \in [Proc -> Target]
  /\ way \in [Proc -> SUBSET AllWays]
  /\ want \in [Proc -> Defs \cup {None}]
  /\ held \in [Proc -> Records]
  /\ vouched \in [Ungated -> SUBSET Defs]
  /\ last \in Records /\ clash \in BOOLEAN
  /\ runs \in 0 .. MaxRuns /\ edits \in 0 .. MaxEdits

PassesGate(p) == at[p] = "look" /\ at'[p] = "run"

\* A gate that can be read lets a process through only on a definition its file
\* had when a setup that had just gone well -- a real one, not a preview -- was
\* to be recorded.  No race, torn file, crash or exempted run makes one up.
OpenedBySetup == [][\A p \in Proc : PassesGate(p) => want[p] \in vouched[Gate(p)]]_vars

\* A record is lost only to another that overlaps it or to one cut short: short of
\* those, state.json remembers every setup that was recorded, each at its last
\* definition, whatever was recorded after it and for which directory.
RecordsSurvive == ~clash /\ (\A p \in Proc : at[p] # "write") => disk = last

=============================================================================
