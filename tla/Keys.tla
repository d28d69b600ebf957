-------------------------------- MODULE Keys --------------------------------
(***************************************************************************)
(* `:env` (runfile-cli's cmd_env) over what it keeps: encrypted env files, *)
(* replaced by runfile-lang's atomic::write, and the private keys, one     *)
(* entry of the OS credential store (runfile-state's keyring_keys).        *)
(*                                                                         *)
(* Commands run side by side and share both without a lock; a command can  *)
(* be killed, a write can be refused or cut short, the machine rebooted.   *)
(* A key stands for its public and its private half, and a ciphertext is a *)
(* value and the key that opens it.  Commands that only read, what is      *)
(* printed and the mode of a file are left out.                            *)
(***************************************************************************)
EXTENDS Naturals, FiniteSets

CONSTANTS
  Proc,      \* the places a command can be started from
  File,      \* the env files
  Var,       \* the variables they define
  Key,       \* every key there will be
  Open,      \* values given with --plain
  Secret,    \* values given to be encrypted
  NoValue,   \* the value of a variable that is not defined
  Cut,       \* what is left of a line that was cut short
  NoKey,     \* no key: a value in the open, a file without a header
  Gone,      \* a file that does not exist
  Tasks,     \* the commands that are given
  Pool,      \* RUNFILE_PRIVATE_KEYS
  MaxRuns    \* bound: how many commands are started

Headers  == Key \cup {NoKey, Cut}
Entries  == [by : Key \cup {NoKey}, is : Open \cup Secret \cup {NoValue, Cut}]
Contents == [header : Headers, vals : [Var -> Entries]]
Unset    == [by |-> NoKey, is |-> NoValue]
Blank    == [header |-> NoKey, vals |-> [v \in Var |-> Unset]]

Commands == {"set", "rotate", "encrypt", "decrypt", "init", "add", "remove"}
\* flag is --plain of set and init, and --delete-current-key of rotate.
Task == [cmd : Commands, from : File, to : File, var : Var, val : Open \cup Secret,
         key : Key \cup {NoKey}, flag : BOOLEAN]

ASSUME NamesAssumption ==
  /\ NoKey \notin Key /\ Cut \notin Key /\ Cut # NoKey /\ Gone \notin Contents
  /\ NoValue \notin Open \cup Secret /\ Cut \notin Open \cup Secret /\ Cut # NoValue
  /\ Open \cap Secret = {}
  /\ Pool \subseteq Key /\ MaxRuns \in Nat

\* What the command line makes sure of, and which value says how it was given.
ASSUME TaskAssumption ==
  /\ Tasks \subseteq Task /\ \E t \in Tasks : t.key = NoKey
  /\ \A t \in Tasks :
       /\ t.cmd = "set" => (IF t.flag THEN t.key = NoKey /\ t.val \in Open ELSE t.val \in Secret)
       /\ t.cmd = "init" /\ t.flag => t.key = NoKey
       /\ t.cmd \in {"encrypt", "remove"} => t.key # NoKey
       /\ t.cmd \in {"set", "rotate"} => t.from = t.to
       /\ t.cmd \in {"rotate", "decrypt"} => t.key = NoKey

VARIABLES
  blob,        \* the keys in the credential store
  persistent,  \* whether the store survives a reboot
  born,        \* the keys that have been generated
  file,        \* the env files
  job,         \* the command each process runs, see Jobs
  excused,     \* history: keys a file may need that went on purpose, or with a reboot
  opened,      \* history: the files a decrypt was asked to write to
  clash,       \* history: files written between a command's look and its own write
  mixed,       \* history: files written in place by two commands at once
  keyClash,    \* history: the keys changed between a command's read and its write
  runs

keys    == <<blob, persistent, born>>
history == <<excused, opened, clash, mixed, keyClash>>
vars    == <<keys, file, job, history, runs>>

Places == {"idle", "look", "key", "load", "store", "make", "commit", "truncate", "fill",
           "unload", "unstore"}

\* Where a command is, what it was told, the file it is to write as it found it, the
\* key it works with, the key it adds, the keys it read to write back with one more
\* or one less, what it is to write, and whether another command has written the
\* file since this one looked at or wrote it.
Jobs == [at : Places, task : Tasks, seen : Contents, key : Headers, fresh : Key \cup {NoKey},
         held : SUBSET Key, new : Contents, late : BOOLEAN]
Begun(t, place) == [at |-> place, task |-> t, seen |-> Blank, key |-> t.key, fresh |-> NoKey,
                    held |-> {}, new |-> Blank, late |-> FALSE]
Idle == Begun(CHOOSE t \in Tasks : t.key = NoKey, "idle")

At(p, place) == job[p].at = place
Cmd(p)  == job[p].task.cmd
To(p)   == job[p].task.to
Text(f) == IF file[f] = Gone THEN Blank ELSE file[f]

\* p goes on to a place as j, or is over.
GoneOn(place, j) == IF place = "idle" THEN Idle ELSE [j EXCEPT !.at = place]
Goes(p, place, j) == job' = [job EXCEPT ![p] = GoneOn(place, j)]
Ends(p) == Goes(p, "idle", Idle)

-----------------------------------------------------------------------------
(* Contents.                                                               *)

\* Every value under the first key, under the second instead.
Recode(c, from, to) ==
  [v \in Var |-> IF c.vals[v].by = from /\ c.vals[v] # Unset
                 THEN [c.vals[v] EXCEPT !.by = to] ELSE c.vals[v]]

\* Whether k opens every encrypted value.
Opens(k, c) == \A v \in Var : c.vals[v].by # NoKey => c.vals[v].by = k /\ c.vals[v].is # Cut

\* What a write over `old` can leave when it does not run to its end, or `old` is
\* longer: lines of either, and a ciphertext or a header cut short.
Overlaid(c, old) ==
  [header : {c.header, old.header, IF c.header = NoKey THEN NoKey ELSE Cut},
   vals : {w \in [Var -> {c.vals[v] : v \in Var} \cup {old.vals[v] : v \in Var}
                          \cup {[c.vals[v] EXCEPT !.is = Cut] : v \in {u \in Var : c.vals[u].by # NoKey}}] :
             \A v \in Var : \/ w[v] \in {c.vals[v], old.vals[v]}
                            \/ c.vals[v].by # NoKey /\ w[v] = [c.vals[v] EXCEPT !.is = Cut]}]

-----------------------------------------------------------------------------
(* A command starts and looks at the file it is about.                     *)

Start(p, t) ==
  /\ At(p, "idle") /\ runs < MaxRuns
  /\ runs' = runs + 1
  /\ LET place == CASE t.cmd = "add" -> "load" [] t.cmd = "remove" -> "unload" [] OTHER -> "look"
     IN  Goes(p, place, Begun(t, place))
  /\ UNCHANGED <<keys, file, history>>

\* What each command insists on before it goes on.
Accepts(t) ==
  CASE t.cmd = "set"     -> TRUE
    [] t.cmd = "encrypt" -> Text(t.to).header = NoKey
    [] t.cmd = "init"    -> file[t.to] = Gone
    [] OTHER             -> Text(t.from).header # NoKey

AfterLook(t) ==
  IF t.cmd # "init" THEN "key"
  ELSE IF t.flag THEN "truncate" ELSE IF t.key = NoKey THEN "load" ELSE "key"

Look(p) ==
  /\ At(p, "look")
  /\ LET t == job[p].task
         k == IF t.cmd \in {"rotate", "decrypt"} THEN Text(t.from).header ELSE t.key
     IN  Goes(p, IF Accepts(t) THEN AfterLook(t) ELSE "idle",
              [job[p] EXCEPT !.seen = Text(t.to), !.key = k])
  /\ UNCHANGED <<keys, file, history, runs>>

-----------------------------------------------------------------------------
(* The key a command works with.                                           *)

\* A slip: --key is taken as it is, whatever the header says.
KeyForSetAsGiven(j) == IF j.task.key = NoKey THEN j.seen.header ELSE j.task.key

\* key_for_set: the header's key; --key has to be that one, if there is a header.
KeyForSet(j) ==
  IF j.task.key = NoKey THEN j.seen.header
  ELSE IF j.seen.header \in {NoKey, j.task.key} THEN j.task.key ELSE NoKey

\* A slip: with nothing to say which key, the value is written as it is.
WantedOrPlain(j) ==
  IF j.task.cmd # "set" THEN {j.key} ELSE IF j.task.flag THEN {} ELSE {KeyForSet(j)} \ {NoKey}

\* The key a command needs; none to set a value in the open.
Wanted(j) == IF j.task.cmd # "set" THEN {j.key} ELSE IF j.task.flag THEN {} ELSE {KeyForSet(j)}

\* all_private_keys: a store that cannot be read holds nothing.
Pools == {Pool \cup blob, Pool}

\* What set and init are to write, once the key is known.
Composed(j) ==
  CASE j.task.cmd = "set"  -> [j.seen EXCEPT !.vals[j.task.var] =
                                [by |-> IF Wanted(j) = {} THEN NoKey ELSE KeyForSet(j), is |-> j.task.val]]
    [] j.task.cmd = "init" -> [Blank EXCEPT !.header = j.key]
    [] OTHER               -> j.new

AfterKey(t) ==
  CASE t.cmd = "set" -> "commit" [] t.cmd = "init" -> "truncate" [] t.cmd = "rotate" -> "load"
    [] OTHER -> "make"

\* A slip: the header is believed, whether there is such a key or not.
LookUpUnchecked(p) ==
  /\ At(p, "key")
  /\ Goes(p, AfterKey(job[p].task), [job[p] EXCEPT !.new = Composed(job[p])])
  /\ UNCHANGED <<keys, file, history, runs>>

LookUp(p) ==
  /\ At(p, "key")
  /\ \E pool \in Pools :
       Goes(p, IF Wanted(job[p]) \subseteq pool THEN AfterKey(job[p].task) ELSE "idle",
            [job[p] EXCEPT !.new = Composed(job[p])])
  /\ UNCHANGED <<keys, file, history, runs>>

-----------------------------------------------------------------------------
(* keyring_keys::add, for rotate, for init and for secret-keys add.        *)

\* A key is generated or handed in; then the whole entry is read, and a key that is
\* in it ends the command.
Load(p, k) ==
  /\ At(p, "load")
  /\ IF Cmd(p) = "add" /\ job[p].key # NoKey THEN k = job[p].key ELSE k \notin born
  /\ born' = born \cup {k}
  /\ Goes(p, IF k \in blob THEN "idle" ELSE "store", [job[p] EXCEPT !.fresh = k, !.held = blob])
  /\ UNCHANGED <<blob, persistent, file, history, runs>>

AfterStore(t) == CASE t.cmd = "rotate" -> "make" [] t.cmd = "init" -> "truncate" [] OTHER -> "idle"

\* A slip: the entry is written from nothing.
StoreAlone(p) ==
  /\ At(p, "store")
  /\ blob' = {job[p].fresh}
  /\ keyClash' = (keyClash \/ blob # job[p].held)
  /\ Goes(p, AfterStore(job[p].task), [job[p] EXCEPT !.new = [Blank EXCEPT !.header = job[p].fresh]])
  /\ UNCHANGED <<persistent, born, file, excused, opened, clash, mixed, runs>>

\* And written back with the key.
Store(p) ==
  /\ At(p, "store")
  /\ blob' = job[p].held \cup {job[p].fresh}
  /\ keyClash' = (keyClash \/ blob # job[p].held)
  /\ Goes(p, AfterStore(job[p].task), [job[p] EXCEPT !.new = [Blank EXCEPT !.header = job[p].fresh]])
  /\ UNCHANGED <<persistent, born, file, excused, opened, clash, mixed, runs>>

-----------------------------------------------------------------------------
(* The new contents.                                                       *)

\* A value under another key than the header's ends a rotation or a decryption, and
\* encrypt_file_content's round trip ends with any value already encrypted.
Make(p) ==
  /\ At(p, "make")
  /\ LET j == job[p]
         source == IF Cmd(p) = "rotate" THEN j.seen ELSE Text(j.task.from)
         opens  == IF Cmd(p) = "encrypt" THEN NoKey ELSE j.key
         under  == CASE Cmd(p) = "rotate" -> j.fresh [] Cmd(p) = "encrypt" -> j.key [] OTHER -> NoKey
         there  == file[j.task.from] # Gone \/ Cmd(p) = "rotate"
     IN  Goes(p, IF there /\ Opens(opens, source) THEN "commit" ELSE "idle",
              [j EXCEPT !.new = [header |-> under, vals |-> Recode(source, opens, under)]])
  /\ UNCHANGED <<keys, file, history, runs>>

-----------------------------------------------------------------------------
(* atomic::write, and fs::write for a file that init creates.              *)

\* A rotation then deletes the old key, unless the new one would go with a reboot.
AfterWrite(t) == IF t.cmd = "rotate" /\ t.flag /\ persistent THEN "unload" ELSE "idle"

\* p leaves its file with contents c and goes on; every other command that has
\* looked at the file is late.
Writes(p, c, place) ==
  /\ file' = [file EXCEPT ![To(p)] = c]
  /\ job' = [q \in Proc |->
       IF q = p THEN GoneOn(place, [job[p] EXCEPT !.late = FALSE])
       ELSE [job[q] EXCEPT !.late = @ \/ (job[q].at \notin {"idle", "look"} /\ To(q) = To(p))]]
  /\ opened' = IF Cmd(p) = "decrypt" THEN opened \cup {To(p)} ELSE opened
  /\ clash' = IF job[p].late THEN clash \cup {To(p)} ELSE clash
  /\ UNCHANGED <<keys, excused, keyClash, runs>>

\* The new contents, written beside the file and renamed over it.
Replace(p) ==
  /\ At(p, "commit")
  /\ Writes(p, job[p].new, AfterWrite(job[p].task))
  /\ UNCHANGED mixed

\* No file can be made beside it, or none renamed: it is to be written in place.
Refused(p) ==
  /\ At(p, "commit") /\ Goes(p, "truncate", job[p])
  /\ UNCHANGED <<keys, file, history, runs>>

Truncate(p) ==
  /\ At(p, "truncate")
  /\ Writes(p, Blank, "fill")
  /\ UNCHANGED mixed

\* To the end, over what another command has put there since or into a file that
\* has lost its name to it; or not to the end.
Fill(p) ==
  /\ At(p, "fill")
  /\ LET whole == {job[p].new}
         partly == Overlaid(job[p].new, Text(To(p)))
         aside == {Text(To(p))}
     IN  \/ \E c \in IF job[p].late THEN whole \cup partly \cup aside ELSE whole :
              Writes(p, c, AfterWrite(job[p].task))
         \/ \E c \in partly : Writes(p, c, "idle")
  /\ mixed' = IF job[p].late THEN mixed \cup {To(p)} ELSE mixed

-----------------------------------------------------------------------------
(* keyring_keys::remove, for rotate and for secret-keys remove.            *)

Unload(p) ==
  /\ At(p, "unload")
  /\ Goes(p, IF job[p].key \in blob THEN "unstore" ELSE "idle", [job[p] EXCEPT !.held = blob])
  /\ UNCHANGED <<keys, file, history, runs>>

\* Whoever deletes a key has asked for what that does to every other file.
Unstore(p) ==
  /\ At(p, "unstore") /\ Ends(p)
  /\ blob' = job[p].held \ {job[p].key}
  /\ keyClash' = (keyClash \/ blob # job[p].held)
  /\ excused' = [f \in File |-> IF Cmd(p) = "rotate" /\ f = To(p) THEN excused[f]
                                ELSE excused[f] \cup {job[p].key}]
  /\ clash' = IF Cmd(p) = "rotate" THEN clash \cup {f \in {To(p)} : job[p].late} ELSE clash
  /\ UNCHANGED <<persistent, born, file, opened, mixed, runs>>

-----------------------------------------------------------------------------
(* The world around the commands.                                          *)

\* A command ends where it is: an error nothing above says, a Ctrl+C, a kill.
Kill(p) ==
  /\ ~At(p, "idle") /\ Ends(p)
  /\ UNCHANGED <<keys, file, history, runs>>

Reboot ==
  /\ job' = [p \in Proc |-> Idle]
  /\ blob' = IF persistent THEN blob ELSE {}
  /\ excused' = [f \in File |-> IF persistent THEN excused[f] ELSE excused[f] \cup blob]
  /\ UNCHANGED <<persistent, born, file, opened, clash, mixed, keyClash, runs>>

-----------------------------------------------------------------------------

\* Files that are not there, plain, or encrypted with a key there is.
Given(h, x) == [header |-> h, vals |-> [v \in Var |-> [by |-> h, is |-> x]]]
Init ==
  /\ blob \in SUBSET Key /\ born = blob \cup Pool
  /\ persistent \in BOOLEAN
  /\ file \in [File -> {Gone} \cup {Given(NoKey, x) : x \in Open}
                            \cup {Given(h, x) : h \in born, x \in Secret}]
  /\ job = [p \in Proc |-> Idle]
  /\ excused = [f \in File |-> {}]
  /\ opened = {} /\ clash = {} /\ mixed = {} /\ keyClash = FALSE
  /\ runs = 0

Process(p) ==
  \/ \E t \in Tasks : Start(p, t)
  \/ Look(p) \/ LookUp(p) \/ Store(p) \/ Make(p)
  \/ \E k \in Key : Load(p, k)
  \/ Replace(p) \/ Refused(p) \/ Truncate(p) \/ Fill(p)
  \/ Unload(p) \/ Unstore(p) \/ Kill(p)

Next == (\E p \in Proc : Process(p)) \/ Reboot

Spec == Init /\ [][Next]_vars

-----------------------------------------------------------------------------
(* Properties.                                                             *)

TypeOK ==
  /\ blob \subseteq Key /\ born \subseteq Key /\ persistent \in BOOLEAN
  /\ file \in [File -> Contents \cup {Gone}]
  /\ job \in [Proc -> Jobs]
  /\ excused \in [File -> SUBSET Key]
  /\ opened \subseteq File /\ clash \subseteq File /\ mixed \subseteq File /\ keyClash \in BOOLEAN
  /\ runs \in 0 .. MaxRuns

\* Every encrypted value can be opened with a key somebody still has, at every
\* moment of every command and whatever stops it: a key goes only where it was
\* asked for, or with a reboot of a store that does not survive one.  A rotation is
\* no excuse for its own file (cmd_rotate's order: add, write, remove).  Two commands
\* that change the keys, or one file, at the same time are beyond it: nothing locks.
Readable ==
  ~keyClash => \A f \in File \ clash : \A v \in Var :
    Text(f).vals[v].by \in {NoKey} \cup blob \cup Pool \cup excused[f]

\* A file with a header holds no value under another key, so whoever can read one
\* can read all and rotate them (key_for_set, cmd_rotate, encrypt_file_content),
\* but for one that two commands wrote in place at once.
OneKey ==
  \A f \in File \ mixed : \A v \in Var :
    Text(f).header \in Key => Text(f).vals[v].by \in {NoKey, Text(f).header}

\* A value given to be encrypted is nowhere in the open but in a file a decrypt was
\* asked to write to (key_for_set refuses rather than fall back to plaintext).
NeverPlain ==
  \A f \in File \ opened : \A v \in Var : Text(f).vals[v].is \in Secret => Text(f).vals[v].by # NoKey
=============================================================================
