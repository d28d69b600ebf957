--------------------------- MODULE PrepareProofs ---------------------------
(***************************************************************************)
(* What the gate promises however many processes share the file and however *)
(* many targets and definitions there are.  The invariant follows a vouched *)
(* definition on its way: from the file into a fingerprint, with it into    *)
(* the state a record loaded, and with that to the disk.                    *)
(***************************************************************************)
EXTENDS Prepare, TLAPS

\* Only what is ungated is recorded, and only what has a gate is looked up.
Sorted ==
  \A p \in Proc :
    /\ at[p] \in {"record", "load", "save", "write"} => target[p] \in Ungated
    /\ at[p] = "look" => Gate(p) \in Ungated /\ want[p] \in Defs

\* Wherever a fingerprint is that the gate may come to read, it is vouched for.
Vouching ==
  /\ disk # Torn => \A t \in Ungated : disk[t] # None => disk[t] \in vouched[t]
  /\ \A p \in Proc : Recording(p) =>
       \A t \in Ungated : held[p][t] # None => held[p][t] \in vouched[t]
  /\ \A p \in Proc : at[p] \in {"load", "save", "write"} => want[p] \in vouched[target[p]]
  /\ \A p \in Proc : at[p] = "record" => file[target[p]] \in vouched[target[p]] \cup {Broken}

\* Short of a clash, one record is made at a time, on top of all there were.
Surviving ==
  ~clash =>
    /\ \A p, q \in Proc : Recording(p) /\ Recording(q) => p = q
    /\ \A p \in Proc : Recording(p) => held[p] = last
    /\ (\A p \in Proc : at[p] # "write") => disk = last

IInv == TypeOK /\ Sorted /\ Vouching /\ Surviving

LEMMA GateFacts == \A t \in Target : GateOf[t] # NoGate => GateOf[t] \in Ungated
  BY PrepareAssumption DEF Ungated

LEMMA UngatedAreTargets == Ungated \subseteq Target
  BY DEF Ungated

LEMMA EmptyType == Empty \in Records /\ \A t \in Ungated : Empty[t] = None
  BY DEF Empty, Records

LEMMA LoadedType ==
  TypeOK => Loaded \in Records /\ (disk # Torn => Loaded = disk) /\ (disk = Torn => Loaded = Empty)
  BY EmptyType DEF Loaded, TypeOK

LEMMA RestsType == \A p \in Proc : Rests(p) \in {"run", "idle"}
  BY DEF Rests

LEMMA InitHolds == Init => IInv
<1> SUFFICES ASSUME Init
             PROVE  IInv
  OBVIOUS
<1>1. TypeOK
  <2>1. (CHOOSE t \in Target : TRUE) \in Target
    BY PrepareAssumption
  <2>2. /\ target \in [Proc -> Target] /\ way \in [Proc -> SUBSET AllWays]
        /\ disk \in Records /\ last \in Records /\ held \in [Proc -> Records]
    BY <2>1, EmptyType DEF Init
  <2>3. /\ at \in [Proc -> Places]
        /\ want \in [Proc -> Defs \cup {None}]
        /\ runs \in 0 .. MaxRuns /\ edits \in 0 .. MaxEdits
    BY PrepareAssumption DEF Init, Places
  <2>4. /\ vouched \in [Ungated -> SUBSET Defs]
        /\ file \in [Ungated -> Defs \cup {Broken}] /\ clash \in BOOLEAN
    BY DEF Init
  <2> QED BY <2>2, <2>3, <2>4 DEF TypeOK
<1>2. Sorted
  BY DEF Init, Sorted
<1>3. Vouching /\ Surviving
  BY EmptyType DEF Init, Vouching, Surviving, Recording
<1> QED BY <1>1, <1>2, <1>3 DEF IInv

-----------------------------------------------------------------------------
(* One lemma per action.                                                   *)

LEMMA StartKeeps ==
  ASSUME IInv, NEW p \in Proc, NEW t \in Target, NEW w \in Ways, Start(p, t, w)
  PROVE  IInv'
<1> USE DEF Start, Goes, history
<1>1. TypeOK'
  BY EmptyType, PrepareAssumption, UngatedAreTargets DEF IInv, TypeOK, Places, AllWays
<1>2. Sorted'
  BY EmptyType DEF IInv, TypeOK, Sorted, Gate
<1>3. Vouching'
  BY EmptyType DEF IInv, TypeOK, Sorted, Vouching, Recording
<1>4. Surviving'
  BY EmptyType DEF IInv, TypeOK, Surviving, Recording
<1> QED BY <1>1, <1>2, <1>3, <1>4 DEF IInv

LEMMA EnforceKeeps ==
  ASSUME IInv, NEW p \in Proc, Enforce(p)
  PROVE  IInv'
<1> USE DEF Enforce, Goes, Stays, history
<1>1. TypeOK'
  BY GateFacts, PrepareAssumption, UngatedAreTargets DEF IInv, TypeOK, Places, AllWays, Gate
<1>2. Sorted'
  BY GateFacts DEF IInv, TypeOK, Sorted, Gate
<1>3. Vouching'
  BY GateFacts DEF IInv, TypeOK, Sorted, Vouching, Recording
<1>4. Surviving'
  BY GateFacts DEF IInv, TypeOK, Surviving, Recording
<1> QED BY <1>1, <1>2, <1>3, <1>4 DEF IInv

LEMMA LookKeeps ==
  ASSUME IInv, NEW p \in Proc, Look(p)
  PROVE  IInv'
<1> USE DEF Look, Goes, Stays, history
<1>1. TypeOK'
  BY PrepareAssumption, UngatedAreTargets DEF IInv, TypeOK, Places, AllWays
<1>2. Sorted'
  BY DEF IInv, TypeOK, Sorted, Gate
<1>3. Vouching'
  BY DEF IInv, TypeOK, Sorted, Vouching, Recording
<1>4. Surviving'
  BY DEF IInv, TypeOK, Surviving, Recording
<1> QED BY <1>1, <1>2, <1>3, <1>4 DEF IInv

LEMMA RunBeginsKeeps ==
  ASSUME IInv, NEW p \in Proc, RunBegins(p)
  PROVE  IInv'
<1> USE DEF RunBegins, Goes, Stays, history
<1>1. TypeOK'
  BY RestsType, PrepareAssumption, UngatedAreTargets DEF IInv, TypeOK, Places, AllWays
<1>2. Sorted'
  BY RestsType DEF IInv, TypeOK, Sorted, Gate
<1>3. Vouching'
  BY RestsType DEF IInv, TypeOK, Sorted, Vouching, Recording
<1>4. Surviving'
  BY RestsType DEF IInv, TypeOK, Surviving, Recording
<1> QED BY <1>1, <1>2, <1>3, <1>4 DEF IInv

LEMMA RunReturnsKeeps ==
  ASSUME IInv, NEW p \in Proc, NEW ok \in BOOLEAN, RunReturns(p, ok)
  PROVE  IInv'
<1> USE DEF RunReturns, WorthRecording, Goes
<1>1. TypeOK'
  BY RestsType, PrepareAssumption, UngatedAreTargets DEF IInv, TypeOK, Places, AllWays
<1>2. Sorted'
  BY RestsType DEF IInv, TypeOK, Sorted, Gate
<1>3. Vouching'
  BY RestsType DEF IInv, TypeOK, Sorted, Vouching, Recording
<1>4. Surviving'
  BY RestsType DEF IInv, TypeOK, Surviving, Recording
<1> QED BY <1>1, <1>2, <1>3, <1>4 DEF IInv

LEMMA DigestKeeps ==
  ASSUME IInv, NEW p \in Proc, Digest(p)
  PROVE  IInv'
<1> USE DEF Digest, Goes, Stays, history
<1>1. TypeOK'
  <2>1. at' \in [Proc -> Places]
    BY RestsType, PrepareAssumption DEF IInv, TypeOK, Places
  <2>2. want' \in [Proc -> Defs \cup {None}]
    BY DEF IInv, TypeOK, Sorted
  <2>3. held' \in [Proc -> Records]
    BY RestsType, UngatedAreTargets DEF IInv, TypeOK
  <2>4. disk' \in Records \cup {Torn} /\ last' \in Records /\ clash' \in BOOLEAN
    BY DEF IInv, TypeOK, Records, Sorted
  <2>5. UNCHANGED <<file, target, way, vouched, runs, edits>>
    OBVIOUS
  <2> QED BY <2>1, <2>2, <2>3, <2>4, <2>5 DEF IInv, TypeOK
<1>2. Sorted'
  BY RestsType DEF IInv, TypeOK, Sorted, Gate
<1>3. Vouching'
  BY RestsType DEF IInv, TypeOK, Sorted, Vouching, Recording
<1>4. Surviving'
  BY RestsType DEF IInv, TypeOK, Surviving, Recording
<1> QED BY <1>1, <1>2, <1>3, <1>4 DEF IInv

LEMMA LoadKeeps ==
  ASSUME IInv, NEW p \in Proc, Load(p)
  PROVE  IInv'
<1> USE DEF Load, Overlaps, Goes
<1>1. TypeOK'
  <2>1. at' \in [Proc -> Places]
    BY LoadedType, PrepareAssumption DEF IInv, TypeOK, Places
  <2>2. want' \in [Proc -> Defs \cup {None}]
    BY DEF IInv, TypeOK, Sorted
  <2>3. held' \in [Proc -> Records]
    BY LoadedType, UngatedAreTargets DEF IInv, TypeOK
  <2>4. disk' \in Records \cup {Torn} /\ last' \in Records /\ clash' \in BOOLEAN
    BY DEF IInv, TypeOK, Records, Sorted, Overlaps, Recording
  <2>5. UNCHANGED <<file, target, way, vouched, runs, edits>>
    OBVIOUS
  <2> QED BY <2>1, <2>2, <2>3, <2>4, <2>5 DEF IInv, TypeOK
<1>2. Sorted'
  BY LoadedType DEF IInv, TypeOK, Sorted, Gate
<1>3. /\ \A q \in Proc \ {p} : (at'[q] = at[q] /\ held'[q] = held[q])
      /\ at'[p] = "save" /\ held'[p] = Loaded
      /\ UNCHANGED <<disk, file, target, want, vouched, last>>
  BY DEF IInv, TypeOK
<1>4. /\ Loaded \in Records
      /\ disk # Torn => Loaded = disk
      /\ disk = Torn => Loaded = Empty
  BY LoadedType DEF IInv
<1>5. Vouching'
  <2>1. (\A q \in Proc : Recording(q) =>
           \A t \in Ungated : held[q][t] # None => held[q][t] \in vouched[t])'
    BY <1>3, <1>4, EmptyType DEF IInv, Vouching, Recording
  <2>2. \A q \in Proc : at'[q] \in {"load", "save", "write"} => want'[q] \in vouched'[target'[q]]
    BY <1>3 DEF IInv, Vouching
  <2>3. \A q \in Proc : at'[q] = "record" => file'[target'[q]] \in vouched'[target'[q]] \cup {Broken}
    BY <1>3 DEF IInv, Vouching
  <2>4. disk' # Torn => \A t \in Ungated : disk'[t] # None => disk'[t] \in vouched'[t]
    BY <1>3 DEF IInv, Vouching
  <2> QED BY <2>1, <2>2, <2>3, <2>4 DEF Vouching
<1>6. Surviving'
  <2> SUFFICES ASSUME ~clash'
               PROVE  /\ \A q, o \in Proc : Recording(q)' /\ Recording(o)' => q = o
                      /\ \A q \in Proc : Recording(q)' => held'[q] = last'
                      /\ (\A q \in Proc : at'[q] # "write") => disk' = last'
    BY DEF Surviving
  <2>1. ~clash /\ \A q \in Proc \ {p} : ~Recording(q)
    OBVIOUS
  <2>2. disk = last
    BY <2>1 DEF IInv, Surviving, Recording
  <2>3. Loaded = last
    BY <1>4, <2>2, TornAssumption DEF IInv, TypeOK
  <2> QED BY <1>3, <2>1, <2>2, <2>3 DEF Recording
<1> QED BY <1>1, <1>2, <1>5, <1>6 DEF IInv

LEMMA TruncateKeeps ==
  ASSUME IInv, NEW p \in Proc, Truncate(p)
  PROVE  IInv'
<1> USE DEF Truncate, Cut, Goes
<1>1. TypeOK'
  <2>1. at' \in [Proc -> Places]
    BY RestsType, PrepareAssumption DEF IInv, TypeOK, Places
  <2>2. want' \in [Proc -> Defs \cup {None}]
    BY DEF IInv, TypeOK, Sorted
  <2>3. held' \in [Proc -> Records]
    BY RestsType, UngatedAreTargets DEF IInv, TypeOK
  <2>4. disk' \in Records \cup {Torn} /\ last' \in Records /\ clash' \in BOOLEAN
    BY DEF IInv, TypeOK, Records, Sorted
  <2>5. UNCHANGED <<file, target, way, vouched, runs, edits>>
    OBVIOUS
  <2> QED BY <2>1, <2>2, <2>3, <2>4, <2>5 DEF IInv, TypeOK
<1>2. Sorted'
  BY RestsType DEF IInv, TypeOK, Sorted, Gate
<1>3. Vouching'
  BY RestsType DEF IInv, TypeOK, Sorted, Vouching, Recording
<1>4. Surviving'
  BY RestsType DEF IInv, TypeOK, Surviving, Recording
<1> QED BY <1>1, <1>2, <1>3, <1>4 DEF IInv

LEMMA WriteKeeps ==
  ASSUME IInv, NEW p \in Proc, Write(p)
  PROVE  IInv'
<1> USE DEF Write, Cut, Goes
<1>1. TypeOK'
  <2>1. at' \in [Proc -> Places]
    BY RestsType, PrepareAssumption DEF IInv, TypeOK, Places
  <2>2. want' \in [Proc -> Defs \cup {None}]
    BY DEF IInv, TypeOK, Sorted
  <2>3. held' \in [Proc -> Records]
    BY RestsType, UngatedAreTargets DEF IInv, TypeOK
  <2>4. disk' \in Records \cup {Torn} /\ last' \in Records /\ clash' \in BOOLEAN
    <3>1. /\ target[p] \in Ungated /\ want[p] \in Defs \cup {None}
          /\ held[p] \in Records /\ last \in Records
      BY DEF IInv, TypeOK, Sorted
    <3>2. /\ [held[p] EXCEPT ![target[p]] = want[p]] \in Records
          /\ [last EXCEPT ![target[p]] = want[p]] \in Records
      BY <3>1 DEF Records
    <3> QED BY <3>1, <3>2 DEF IInv, TypeOK
  <2>5. UNCHANGED <<file, target, way, vouched, runs, edits>>
    OBVIOUS
  <2> QED BY <2>1, <2>2, <2>3, <2>4, <2>5 DEF IInv, TypeOK
<1>2. Sorted'
  BY RestsType DEF IInv, TypeOK, Sorted, Gate
<1>3. Vouching'
  <2>1. /\ \A q \in Proc \ {p} : at'[q] = at[q]
        /\ at'[p] \in {"run", "idle"}
        /\ UNCHANGED <<file, target, want, held, vouched>>
    BY RestsType DEF IInv, TypeOK
  <2>2. disk' # Torn => \A t \in Ungated : disk'[t] # None => disk'[t] \in vouched'[t]
    <3> SUFFICES ASSUME disk' # Torn, NEW t \in Ungated, disk'[t] # None
                 PROVE  disk'[t] \in vouched[t]
      BY <2>1
    <3>1. held[p] \in Records /\ target[p] \in Ungated /\ want[p] \in vouched[target[p]]
      BY DEF IInv, TypeOK, Sorted, Vouching
    <3>2. disk'[t] = IF t = target[p] THEN want[p] ELSE held[p][t]
      BY <3>1 DEF Records
    <3> QED BY <3>1, <3>2 DEF IInv, Vouching, Recording
  <2> QED BY <2>1, <2>2 DEF IInv, Vouching, Recording
<1>4. Surviving'
  BY RestsType DEF IInv, TypeOK, Surviving, Recording
<1> QED BY <1>1, <1>2, <1>3, <1>4 DEF IInv

LEMMA KillKeeps ==
  ASSUME IInv, NEW p \in Proc, Kill(p)
  PROVE  IInv'
<1> USE DEF Kill, Goes
<1>1. TypeOK'
  BY PrepareAssumption, UngatedAreTargets DEF IInv, TypeOK, Places, AllWays
<1>2. Sorted'
  BY DEF IInv, TypeOK, Sorted, Gate
<1>3. Vouching'
  BY DEF IInv, TypeOK, Sorted, Vouching, Recording
<1>4. Surviving'
  BY DEF IInv, TypeOK, Surviving, Recording
<1> QED BY <1>1, <1>2, <1>3, <1>4 DEF IInv

LEMMA EditKeeps ==
  ASSUME IInv, NEW t \in Ungated, NEW d \in Defs \cup {Broken}, Edit(t, d)
  PROVE  IInv'
<1> USE DEF Edit, procs
<1>1. TypeOK'
  BY PrepareAssumption DEF IInv, TypeOK, Places
<1>2. Sorted'
  BY DEF IInv, TypeOK, Sorted, Gate
<1>3. Vouching'
  BY DEF IInv, TypeOK, Sorted, Vouching, Recording
<1>4. Surviving'
  BY DEF IInv, TypeOK, Surviving, Recording
<1> QED BY <1>1, <1>2, <1>3, <1>4 DEF IInv

LEMMA StepKeeps == IInv /\ [Next]_vars => IInv'
<1> SUFFICES ASSUME IInv, [Next]_vars
             PROVE  IInv'
  OBVIOUS
<1>1. ASSUME NEW p \in Proc, Process(p)
      PROVE  IInv'
  BY <1>1, StartKeeps, EnforceKeeps, LookKeeps, RunBeginsKeeps, RunReturnsKeeps, DigestKeeps,
     LoadKeeps, TruncateKeeps, WriteKeeps, KillKeeps DEF Process
<1>2. CASE UNCHANGED vars
  <2>1. TypeOK' /\ Sorted'
    BY <1>2 DEF vars, procs, history, IInv, TypeOK, Sorted, Gate
  <2>2. Vouching' /\ Surviving'
    BY <1>2 DEF vars, procs, history, IInv, Vouching, Surviving, Recording
  <2> QED BY <2>1, <2>2 DEF IInv
<1> QED BY <1>1, <1>2, EditKeeps DEF Next

LEMMA Inductive == Spec => []IInv
  BY InitHolds, StepKeeps, PTL DEF Spec

-----------------------------------------------------------------------------
(* The theorems.                                                           *)

\* Every variable stays in its type: no broken file is ever fingerprinted, and what
\* is on the disk is a record or is torn.
THEOREM TypeCorrect == Spec => []TypeOK
  BY Inductive, PTL DEF IInv

\* No record is lost but to an overlap or to one cut short, for any number of
\* processes recording any number of setups.
THEOREM NoRecordLost == Spec => []RecordsSurvive
<1>1. IInv => RecordsSurvive
  BY DEF IInv, Surviving, RecordsSurvive
<1> QED BY <1>1, Inductive, PTL

\* Only a setup that went well opens its gate, whatever the processes, the editor,
\* a torn file and a kill do in between.
THEOREM GateOpenedBySetup == Spec => OpenedBySetup
<1>1. IInv /\ [Next]_vars =>
        [\A p \in Proc : PassesGate(p) => want[p] \in vouched[Gate(p)]]_vars
  <2> SUFFICES ASSUME IInv, Next, NEW p \in Proc, PassesGate(p)
               PROVE  want[p] \in vouched[Gate(p)]
    BY DEF vars, procs, PassesGate
  <2>1. Look(p)
    <3>1. PICK q \in Proc : Process(q)
      BY DEF PassesGate, Next, Edit, procs
    <3>2. q = p
      BY <3>1 DEF PassesGate, Process, Start, Enforce, Look, RunBegins, RunReturns, Digest, Load,
                  Truncate, Write, Kill, Goes, IInv, TypeOK
    <3> QED BY <3>1, <3>2, RestsType DEF PassesGate, Process, Start, Enforce, Look, RunBegins,
                  RunReturns, Digest, Load, Truncate, Write, Kill, Goes, IInv, TypeOK
  <2>2. Loaded[Gate(p)] = want[p] /\ Gate(p) \in Ungated /\ want[p] \in Defs
    BY <2>1 DEF Look, Goes, PassesGate, IInv, TypeOK, Sorted
  <2> QED BY <2>2, LoadedType, EmptyType, PrepareAssumption DEF IInv, Vouching
<1> QED BY <1>1, Inductive, PTL DEF Spec, OpenedBySetup
=============================================================================
