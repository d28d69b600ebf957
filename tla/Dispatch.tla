------------------------------ MODULE Dispatch ------------------------------
(***************************************************************************)
(* One run of a named target and of the targets it runs in turn            *)
(* (dispatch.rs), each with the environment the one before it hands over   *)
(* (env.rs, runfile-env).  What targets there are is Discovery's.          *)
(*                                                                         *)
(* A frame is a target under way.  Its lines are a choice: a property that *)
(* changes the environment, `run` of any name, or its end.  The            *)
(* environment is one variable and the PATH; a value is who set it.        *)
(***************************************************************************)
EXTENDS Discovery

CONSTANTS
  Worlds,    \* the file trees, each with where its machine-wide files belong
  Stands,    \* where `run` may be called from
  Names,     \* the names that are called
  PathDirs,  \* the directories that are put on PATH
  Paths,     \* the PATHs `run` may be given
  MaxLines   \* bound: properties and calls in one run

\* Where a value of the variable can be from; None is that it has none.
FromEnv  == Nat \X {"shell", "env"}
FromFile == Nat \X {"file"} \X Nat

ASSUME DispatchAssumption == MaxLines \in Nat /\ Paths \subseteq Seq(PathDirs) /\ None \notin FromFile

\* What paths and names are made of.
Parts(w) ==
  ToSet(Home) \cup GlobalNames \cup (UNION {ToSet(f) : f \in w.files}) \cup (UNION {ToSet(n) : n \in Names})

\* A path is a sequence of names, and so is the name of a target; of the files, which
\* are finitely many, every one has a name, and a scope, be it an empty one.
ASSUME WorldsAssumption ==
  /\ Home \in Seq(ToSet(Home))
  /\ \A w \in Worlds : IsFiniteSet(w.files)
  /\ \A w \in Worlds : DOMAIN w.scopes = w.files /\ \A f \in w.files : f \in Seq(ToSet(f)) /\ f # <<>>
  /\ \A n \in Names : n \in Seq(ToSet(n)) /\ n # <<>>
  /\ \A w \in Worlds : None \notin Seq(Parts(w))

VARIABLES
  world, from, preview,  \* the file tree, where `run` was called, --dry-run
  process,               \* the variable and the PATH of the process
  catalog,               \* what was discovered
  frames,                \* the targets under way, the innermost last
  status,                \* how the run stands
  lines                  \* bound

fixed == <<world, from, preview, process>>
vars  == <<fixed, catalog, frames, status, lines>>

Top == frames[Len(frames)]
Chain == [i \in DOMAIN frames |-> frames[i].name]

\* s without what is in T.
Keep(s, T) ==
  LET kept[n \in 0 .. Len(s)] ==
        IF n = 0 THEN <<>> ELSE IF s[n] \in T THEN kept[n - 1] ELSE Append(kept[n - 1], s[n])
  IN kept[Len(s)]

-----------------------------------------------------------------------------
(* The environment of a frame.                                             *)

\* Mutant: an entry PATH already holds stays where it is.
BuiltPathKept(f) ==
  LET file == IF preview \/ f.files = <<>> THEN f.defaults ELSE Last(f.files)
      base == IF f.exported # None THEN f.exported ELSE file
  IN [var |-> IF f.env # None THEN f.env ELSE base, path |-> Keep(f.added, ToSet(f.path)) \o f.path]

\* build_env: what the files of callers say, this target's files, what it was run
\* with, its `.env`; and its `.add-path` in front of the PATH it was given.
Built(f) ==
  LET file == IF preview \/ f.files = <<>> THEN f.defaults ELSE Last(f.files)
      base == IF f.exported # None THEN f.exported ELSE file
  IN [var |-> IF f.env # None THEN f.env ELSE base, path |-> f.added \o Keep(f.path, ToSet(f.added))]

\* Mutant: all of it is exported, as to a process.
HandedOverWhole(f) == [exported |-> Built(f).var, defaults |-> None, path |-> Built(f).path]

\* handed_over: a value is a file's when neither what the caller was run with nor
\* its `.env` put it there.
HandedOver(f) ==
  IF f.exported = None /\ f.env = None
    THEN [exported |-> None, defaults |-> Built(f).var, path |-> Built(f).path]
    ELSE [exported |-> Built(f).var, defaults |-> None, path |-> Built(f).path]

Frame(name, handed) ==
  [name |-> name, exported |-> handed.exported, defaults |-> handed.defaults, path |-> handed.path,
   files |-> <<>>, env |-> None, added |-> <<>>]

Init ==
  /\ world \in Worlds /\ from \in Stands /\ preview \in BOOLEAN
  /\ process \in [var : {None, <<0, "shell">>}, path : Paths]
  /\ catalog = {} /\ frames = <<>> /\ status = "asked" /\ lines = 0

Find ==
  /\ status = "asked"
  /\ LET found == Discover(world.files, world.scopes, from, TRUE) IN
       IF found.error = None THEN catalog' = found.targets /\ status' = "found"
       ELSE status' = "failed" /\ UNCHANGED catalog
  /\ UNCHANGED <<fixed, frames, lines>>

\* Mutant: what is compared with the chain is the name as it was written.
EntersAsWritten(caller, name, handed) ==
  LET t == Resolve(catalog, caller, name) IN
  /\ t # {}
  /\ \A i \in DOMAIN frames : Chain[i] # name
  /\ frames' = Append(frames, Frame((CHOOSE u \in t : TRUE).name, handed))

\* run_with_chain finds the target, which must not be under way already.
Enters(caller, name, handed) ==
  LET t == Resolve(catalog, caller, name) IN
  /\ t # {}
  /\ \A u \in t, i \in DOMAIN frames : Chain[i] # u.name
  /\ frames' = Append(frames, Frame((CHOOSE u \in t : TRUE).name, handed))

Start(name) ==
  /\ status = "found"
  /\ \/ /\ Enters(None, name, [exported |-> process.var, defaults |-> None, path |-> process.path])
        /\ status' = "running"
     \/ /\ Resolve(catalog, None, name) = {} /\ status' = "failed" /\ UNCHANGED frames
  /\ UNCHANGED <<fixed, catalog, lines>>

Line == status = "running" /\ lines < MaxLines /\ lines' = lines + 1 /\ UNCHANGED <<fixed, catalog, status>>
With(field, value) == frames' = [frames EXCEPT ![Len(frames)][field] = value]

EnvFile == Line /\ With("files", Append(Top.files, <<Len(frames), "file", Len(Top.files)>>))
Env     == Line /\ With("env", <<Len(frames), "env">>)
AddPath == Line /\ \E d \in PathDirs \ ToSet(Top.added) : With("added", Append(Top.added, d))

\* A call of a name that is not there, or is under way, fails its line as any
\* command does: the target goes on, or ends.
Call(name) ==
  /\ Line
  /\ \/ Enters(Top.name, name, HandedOver(Top))
     \/ /\ \A u \in Resolve(catalog, Top.name, name) : u.name \in Range(Chain)
        /\ frames' = frames

\* It ends, well or not, and what ran it goes on or ends as well.
Return ==
  /\ status = "running"
  /\ frames' = Front(frames)
  /\ status' = IF Len(frames) = 1 THEN "over" ELSE "running"
  /\ UNCHANGED <<fixed, catalog, lines>>

Next ==
  \/ Find \/ (\E name \in Names : Start(name) \/ Call(name))
  \/ EnvFile \/ Env \/ AddPath \/ Return

Spec == Init /\ [][Next]_vars

-----------------------------------------------------------------------------
FrameType ==
  [name : {t.name : t \in catalog}, path : Seq(PathDirs), added : Seq(PathDirs), files : Seq(FromFile),
   exported : {None} \cup FromEnv, defaults : {None} \cup FromFile, env : {None} \cup FromEnv]
TypeOK ==
  /\ world \in Worlds /\ from \in Stands /\ preview \in BOOLEAN /\ lines \in 0 .. MaxLines
  /\ process \in [var : {None, <<0, "shell">>}, path : Paths]
  /\ status \in {"asked", "found", "running", "failed", "over"}
  /\ (status = "running") = (frames # <<>>)
  /\ frames \in Seq(FrameType)

\* No target is under way inside itself, by whatever of its names it was called:
\* with as many frames as there are targets at most, every run comes to an end.
NotInsideItself == \A i, j \in DOMAIN frames : i # j => frames[i].name # frames[j].name

\* Who says what the variable is, over all the targets under way at once: the
\* innermost `.env`, then the shell, then the innermost file -- as if the halves
\* that are handed from one to the next were never taken apart.
Innermost(said) ==
  LET who == {i \in DOMAIN said : said[i] # None} IN
  IF who = {} THEN None ELSE said[CHOOSE i \in who : \A j \in who : j <= i]
EnvWithin(n)  == Innermost([i \in 1 .. n |-> frames[i].env])
FileWithin(n) == Innermost([i \in 1 .. n |-> IF preview \/ frames[i].files = <<>> THEN None
                                             ELSE Last(frames[i].files)])
Precedence ==
  frames # <<>> =>
    Built(Top).var = IF EnvWithin(Len(frames)) # None THEN EnvWithin(Len(frames))
                     ELSE IF process.var # None THEN process.var ELSE FileWithin(Len(frames))

\* Where a program is looked for: in this target's directories, its caller's, and
\* so on to the shell's, with none of them lost and none of them moved back, as if
\* each had only ever been added in front (apply_add_to_path).
Level(i) == IF i = 0 THEN process.path ELSE frames[i].added
Ahead(s, d, e) == \E i \in DOMAIN s : s[i] = d /\ \A j \in 1 .. i : s[j] # e
AheadWithin(n, d, e) ==
  \E i \in 0 .. n : Ahead(Level(i), d, e) /\ \A j \in i + 1 .. n : e \notin ToSet(Level(j))
Searches(path, n) ==
  /\ ToSet(path) = UNION {ToSet(Level(i)) : i \in 0 .. n}
  /\ \A d, e \in PathDirs : AheadWithin(n, d, e) => Ahead(path, d, e)
LookupOrder == frames # <<>> => Searches(Built(Top).path, Len(frames))

\* A machine-wide target is offered exactly where every `_shared.run` above it and
\* it itself say: no level lets back in what another leaves out, and all else there
\* is, is offered.  What stands above it is found the other way round, from the file up.
OfferedWhereSaid ==
  status = "found" =>
    catalog = {t \in Targets(world.files, world.scopes, from, FALSE) :
                 t.origin = "global" =>
                   \A f \in {t.path} \cup {SharedIn(d) : d \in SharedChain(world.files, t)} :
                     Covers(world.scopes[f], from)}

\* What an editor says of a project's file is what a run of it does, where the file is
\* of the same project to both and a target once.  The editor discovers from where the
\* file is and reads no scope, and still: a call it underlines is one that fails, a
\* call it leaves alone one that is found, there at least; and a `_shared.run`
\* inherits, to it, from those above it that a target below inherits from.
Editors(t) == Discover(world.files, world.scopes, Dir(t.path), FALSE)
Understood(t) ==
  /\ Editors(t).error = None /\ FindUpward(world.files, Dir(t.path)) = t.anchor
  /\ \A u, v \in Editors(t).targets : u.path = v.path => u = v
EditorAgrees ==
  status = "found" =>
    \A t \in {u \in catalog : u.origin = "local"} :
      Understood(t) =>
        /\ \A n \in Names :
             /\ Resolve(catalog, t.name, n) # {} => n \in TargetNames(Editors(t).targets, t.path)
             /\ n \in TargetNames(Editors(t).targets, t.path) => Resolve(Editors(t).targets, t.name, n) # {}
        /\ \A d \in SharedChain(world.files, t) :
             ChainAbove(world.files, Editors(t).targets, SharedIn(d)) =
               {e \in SharedChain(world.files, t) : Below(e, d)}
=============================================================================
