# A verification project for `run`

`run` executes the targets written in `.run` files. This directory holds TLA+
models of the parts of it whose correctness is a matter of control -- who may
forgive which error, what is still running when a run has ended, what two
processes do to one file -- with TLC configurations that check them and proofs
that TLAPS checks. Paths below are those of the repository; `crates/` is
`src/crates/`.

| module | what it is |
| --- | --- |
| `Walk`, `MCWalk` | the statement walker: `run.rs`, with dispatch and the status of the process; five programs for it, as one table |
| `WalkProofs` | of every program: types, structured concurrency, the environment in effect, stops that are final, no silent failure, and why a run is never stuck and runs out |
| `Session`, `MCSession` | one `run <target>` process around the walk: watch mode, signals, temp files, the key pool |
| `SessionProofs` | type correctness, every safety property `Session.cfg` checks, and why a change is answered |
| `Prepare`, `MCPrepare` | the prepare gate and the unlocked file it keeps its record in; two processes, two directories |
| `PrepareProofs` | type correctness and every property `Prepare.cfg` checks |
| `Keys`, `MCKeys` | the `:env` commands over the env files and the credential store they share |
| `KeysProofs` | type correctness and every property `Keys.cfg` checks |
| `Exec`, `MCExec` | the calls of `exec::spawn`, the pipes, the relays, and the processes they start |
| `Streams` | what a branch promises of its commands' output: the abstract specification `Exec` implements |
| `ExecProofs` | type correctness, `OverWhenReturned`, that `Exec` implements `Streams`, and why a call returns |
| `Lsp`, `MCLsp` | the language server, the editor's client, the pipes between them, and the server that stands in |
| `LspProofs` | type correctness, every safety property `Lsp.cfg` checks, and why the problem list catches up |
| `Discovery` | which targets there are from where somebody stands, as operators on a file tree |
| `Dispatch`, `MCDispatch` | one run of a named target and of those it runs: names, the call path, what each is handed |
| `DispatchProofs` | type correctness, every property `Dispatch.cfg` checks, and how many targets can be under way |
| `Lexer`, `Grammar`, `Parser` | text to tree: tokens, expressions, statements |
| `Format`, `Tidy`, `MCFormat` | the formatter, a file that is formatted, and the files there are |
| `Trees` | the tree of a target, by the parts it is walked by |
| `Values`, `Expressions`, `Runs` | the values, the evaluation of an expression, and *all* the runs of a target at once |
| `Scopes`, `Types`, `Checks`, `Needs` | the static checks: unresolved names, types, mistakes, inputs |
| `Refusals`, `MCRefusals` | what those say of a target against what its runs can show, and the targets there are |
| `MCLanguage` | the files of `MCFormat` and the targets of `MCRefusals` in one run |

## The system

`run build` finds the `.run` file that declares `build`, checks that the
directory's `setup` has been run (the prepare gate), evaluates the header,
and walks the body statement by statement; a `run other` line in it dispatches
to another target. With `.watch` it does so again whenever a matching file
changes. Around that are commands of its own (`:env`, `:lint`, `:update`, …), a
language server and editor extensions.

What interacts with what:

- **main** → prepare gate → watch mode → **Host** → **Runner**. A `Host` lives
  as long as the process; a `Runner` is one thread's walk of one body, and
  `run_branches` forks one per parallel branch inside a thread scope.
- A **signal** only sets a process-global flag, `interrupt::interrupted()`;
  everything else looks at it. The terminal sends the signal to the commands
  too.
- The **watcher** is a thread of the `notify` library; it talks to the main
  thread through one channel.
- Processes share, without locks: `state.json` (prepare), the env files and the
  single entry of the **credential store** that holds every private key.
- A command's output reaches the terminal through relay threads (`exec.rs`).

### Components, their state and what makes them correct

**Statement walker** (`crates/runfile-runtime/src/run.rs`, `props.rs`,
`interrupt.rs`). State: the environment in effect, the properties a block was
handed, what each construct has left to do. Operations: one per construct.
Hard: errors cross constructs that may forgive, retry or swallow them; parallel
branches end in any order; Ctrl+C can be seen at any statement. Correct when
nothing outlives the construct it belongs to, the environment is put back on
every way out, a failure is forgiven only by what says so, and `exit()` or a
declined `confirm()` is final. *Modelled: `Walk`.*

**Host and dispatch** (`dispatch.rs`). State: per-run temp files and key pool,
the call path. Operations: resolve a name, refuse a cycle, walk the target, turn
its end into a status. Correct when a cycle is always found, what one run cached
does not poison the next, and temp files go. *Modelled: `Dispatch` has names, the
call path and what is handed over, `Walk` the walk and its ends, `Session` what a
Host keeps.*

**Run session and watch mode** (`crates/runfile-cli/src/main.rs`, `watch.rs`).
State: the watcher, its channel, the interrupt flag, the status. Hard: changes
arriving before the watch is armed, during a run, inside a burst; signals at any
moment; panics. Correct when no change is lost, each run starts clean, nothing is
left behind. *Modelled: `Session`.*

**Prepare gate and its state file** (`prepare.rs`,
`crates/runfile-state/src/prepare_state.rs`). State: `state.json`, the
definitions of setup files. Hard: load, change and save without a lock, editing
while a setup runs, torn writes. Correct when a gate only opens on a definition
that was successfully set up, and a record is not lost. *Modelled: `Prepare`.*

**Key store and encrypted files** (`crates/runfile-cli/src/cmd_env/`,
`crates/runfile-state/src/keyring_keys.rs`, `crates/runfile-lang/src/atomic.rs`).
State: env files, one blob of private keys. Hard: a rotation is three writes to
two places; writes that fall back to truncation; a store that does not survive a
reboot. Correct when every encrypted value can be opened with a key somebody
has, a file has one key, and a secret is never written in the open. *Modelled but
for the commands that only read: `Keys`.*

**Environment layering** (`env.rs`, `runfile-env`). A list of layers, what
shadows what, and which of them a dispatched target is handed as its environment
and which as defaults. Hard: one layer put in the wrong half shows two dispatches
down. Correct when the innermost `.env` wins, then the shell, then the innermost
file, and PATH loses nothing. *Partly: `Dispatch` has the order and the halves,
`Walk` where a layer is in effect; the syntax of a `.env` file is left out.*

**Command execution** (`exec.rs`, `shell.rs`, `term.rs`). A child, its pipes, two
relay threads. Hard: full pipes on both sides, a grandchild holding one open, a
command that ends before it has read what it is given. Correct when no line is
lost or cut, a call returns after the last one, and everything ends that can.
*Modelled: `Exec`, which implements `Streams`.*

**Discovery and the catalog** (`runfile-discovery`). No state; a tree of files and
a place to stand. Hard: a scope prunes what is below it, the same tree is read by
the runner and by an editor, and one target answers to several names. *Partly:
`Discovery`; ownership, links and unreadable files are left out.*

**Language front end** (`lexer.rs`, `parser.rs`, `format.rs`). No state. Hard: two
readers of one text, the parser and the line-oriented formatter, that have to
agree about bodies, spilled lists and continued lines. Correct when formatting
loses nothing, changes no meaning and is stable. *Partly: `Lexer`, `Grammar`,
`Parser`, `Format`.*

**Static checks** (`resolve.rs`, `types.rs`, `check.rs`, `inputs.rs`). No state; a
finding stops a run before it begins. Hard: what they say has to hold of every run
there could be, through loops, branches, fallbacks and `try`. Correct when nothing
that works is refused and nothing needed goes unlisted. *Partly: `Scopes`, `Types`,
`Checks`, `Needs`, against `Runs`.*

**Expression evaluation and functions** (`eval.rs`, `functions.rs`). The scope, the
temp files and the key pool. *Partly: `Values`, `Expressions`; `Session` has the
shared state, `Walk` how `exit()`, `confirm()` and failures leave an expression.*

**Language server** (`runfile-lsp`) and **editor client** (`lsp.ts`, `pure.ts`).
Open documents on both sides, published diagnostics, requests with timers. Hard:
the server may die at any message, another stands in, and a pipe delivers late.
Correct when the server's copies and what is shown are of the text as it is.
*Partly: `Lsp`; what a completion or a diagnostic says is a function of texts
(`analysis.rs`) and is left out.*

**Not modelled**: the shell checker (a linter over shell text no run depends on),
the cryptography (a ciphertext is a value and its key wherever one is met),
self-update (a comparison of versions, and an installer that is another program),
help, listing, completions and file generators (output), npm and CI configuration.

The full list is in `PROJECT.json`, with the places where each of these can go
wrong in a way a test would hardly reach (`hazards`).

## Walk

A program is a forest of nodes -- blocks, statements, properties -- given by
constants: `Kind`, `Kids`, `Anc`, `Times`, `IgnoreProp`, `EnvProps`. A call's
target is below the call, since a cycle is refused before a body is entered.
Conditions, commands and expressions are choices over the ways they can end; one of
those, wherever an expression is written, is the stop that an `exit()` or a declined
`confirm()` in it raises (`Raised`).

| in `Walk` | in the code |
| --- | --- |
| `phase`, `pos` | the Rust call stack: which call is running, and how far its loop over statements, attempts, items or branches has come |
| `props` | the `Props` handed to `walk` and changed by trailing properties |
| `runner`, `env`, `saved` | which `Runner` walks a node, its `env`, and the one put aside while a block's is in effect |
| `Begin`, `Take`, `EndOfBlock` | `Runner::walk`, `walk_body` |
| `Leaf`, `Choose`, `Attempt`, `NextItem`, … | the arms of `statement` |
| `Raised` | `From<PropError>` and the `?` after each `eval`: what leaves a property, a header, a list, a condition or an argument |
| `NextPass`, `Test` | the two halves of a turn of `loop_passes`: the look at the flag, and the condition |
| `Dispatch`, `Refused`, `Answer` | `Host::run_with_chain`, `run_inner`, `ended`, `dispatch_code` |
| `Fork`, `Join`, `JoinAnswer` | `run_branches` |
| `Exit` | `main`'s mapping of a result to a status |

`bad` and `halted` are history: the failures nodes ended with, each with whether
something around it was to forgive it at that moment (`Forgivable`: a block or a
loop under `.ignore-errors`, a branch that is, a `retry`, a `code_of`) or a parallel
block has carried out an `exit()` from beside it (`Outranks`); and the Runners that
met an `exit()` or a declined `confirm()`. Nothing forgives the latter (`Forgiven`).
`reached` is history too: the nodes whose command was running when Ctrl+C came, and so
got the signal from the terminal themselves. What the parser refuses is assumed, and no
more: a `break` has a loop around it that no parallel block or target comes between
(`WithinFence`), a target is below a call and nothing else is.

`Walk.cfg` (58,377 states) runs five programs with `--dry-run` and `-y` on and
off and one Ctrl+C at any moment: a retry with an `else` and a forgiving block and
a dispatch to a target that exits; a `for` and a `loop` with `break`, `continue`,
a `score` and a `confirm`; a parallel `do` with properties between its branches;
a forgiven parallel `for`, of bodies whose property may raise a stop, inside a retry;
and a `for` that forgives what a property at the end of its body no longer does, round
a dispatch to a target that exits from one branch and fails in the other. Each construct
occurs inside another that catches what it throws, which is where the rules
meet. Retries and `for`s have two turns: the first and the last differ, and a
third would repeat the second. It checks

- `NothingOutlives`: whatever is under way, everything it is part of waits for it;
- `EnvInEffect`: a node finds the environment it is written under;
- `NoSilentFailure`: status 0 means no failure but one that was to be forgiven where
  it happened, and no declined `confirm()`, written as a line or in any expression; but
  for what was outranked by an `exit()` beside it;
- `StopIsFinal`: after `exit()` or a declined `confirm()`, as a line or from inside a
  property, a condition, a list or an argument, that walk begins nothing. Its mutant
  (`TrailingPropertyWraps`) is the slip that the comment on `From<PropError>` remembers:
  what a property's value raised, kept as an error of the property, could be forgiven;
- `InterruptEndsRun`, `PreviewEnds`: a run that is interrupted ends, once the commands
  the signal came too early for have, and so does every preview.

*Fairness*: weak fairness of `Progress`: the process is scheduled, and someone asked by
`confirm()` answers. A command (`AtCommand`: an exec line, the `$` of a condition or of a
list) is taken to end only if it was running when the signal came (`reached`) or under
`--dry-run`, where none starts (`Ends`). One that begins after the signal never got it,
and the code has two ways to begin one: between the look at the flag (`run.rs:339`) and
the spawn, and as a branch of a `parallel do`, which begins its statement without
looking (`run.rs:1151`). So `Interrupt` lets any of the commands that have begun go
unreached, and `InterruptEndsRun` has a premise, `LateEnds`: again and again there is a
moment at which none of those under way is one the signal came too early for. Without
it TLC finds a run that waits for such a command for ever. What the property then says
is that the walker itself goes round no loop, retry or block after a Ctrl+C. A run that
is not interrupted may go on for ever, and nothing here says otherwise.

## Session

`pc` is where `real_main` is; between two places another thread or a signal may
act. `kernel` and `queue` are what the file system has seen and what the watcher
has sent; `disk`, `tracked` are temp files and `Host::temps`; `pool` is
`Host::pool`. The walk is one place, `run`, where temp files are made and keys
asked for.

`Session.cfg` (468,998 states) allows three changes, one Ctrl+C and two temp
files: one change for the burst, one during the run it causes, one while waiting;
one press at every place; one temp file that is tracked and one that could not
be. `IdleIsFresh`, `TempsGone`, `NextSaveRetries` and `RunsStartClean` are its
safety properties, `FreshAgain` the liveness one: a change is followed by a run or
by the end of the session.

*Fairness*: the process is scheduled and a run's commands end, and the operating
system delivers events. Nobody has to edit, press or unlock anything. Changes are
bounded, which is what lets the debounce settle; an editor that saves every
200 ms for ever starves it, by the design of `settle`.
`CHECK_DEADLOCK FALSE`: the process ends.

## Prepare

Processes start, look, run, fingerprint, load, write (truncate, then fill) and are
killed, while an editor changes setup files. A definition is what
`fingerprint` makes of a file. `vouched` is history: the definitions a file had
when a successful run of it was about to be recorded.

`Prepare.cfg` (479,133 states) has two processes, a setup, a target it gates and
a second directory's setup, two definitions, three runs and one edit: two runs
can race to record while a third is at the gate, and the edit can fall inside any
of them. `RecordsSurvive` says what the missing lock can and cannot lose: with no
overlap and no cut, `state.json` holds every record. `OpenedBySetup` says no
race, torn file or crash makes up a record. No fairness, no liveness.
`CHECK_DEADLOCK FALSE`: runs are used up.

A comment in `main.rs` says `record` only writes for a setup target; it writes
for any target nothing gates, and so does the model.

## Keys

Each process runs one `:env` command, a `job` with its place, its task, the file
as it found it, the key it works with, and the blob it read in order to write it
back. `Look`, `LookUp`, `Make` and the write are separate steps, since another
command may act between them; so are reading and writing the blob. `Replace` is
the rename of `atomic::write`; `Refused`, `Truncate`, `Fill` its fallback, which
can stop part way or meet another command's, so a file can be left with lines of
either and a ciphertext cut short (`Overlaid`). A value is who can open it and
what it is.

Nothing in the code locks a file or the credential store. Rather than leave that
out, the history variables `clash`, `mixed` and `keyClash` name exactly the files
and the moments where two commands met, and the properties are about the others:

- `Readable`: every encrypted value can be opened with a key that is still there,
  at every moment of every command, whatever kills it. This is the order
  *add, write, remove* in `cmd_rotate`, and the write's being atomic or leaving
  part of the new file;
- `OneKey`: a file with a header holds no value under another key, which `rotate`
  and `decrypt` would stop at;
- `NeverPlain`: a value given to be encrypted is in the open only where a
  `decrypt` was asked to put it.

`Keys.cfg` (1,631,002 states, two minutes) has two processes, two files, one
variable, two keys -- the one a file has and the one it is rotated to -- and three
commands: two that race and one that finds what they left. One variable is
enough because commands treat values one by one; that a file can hold two under
different keys shows in its header against its value. `Reboot` is always enabled,
so deadlock says nothing here; there is no liveness.

## Exec and Streams

One call of `exec::spawn` per thread: `pc` is where it is, `left` what of the body
is still to be written. A pipe is bounded (`Cap`), and a writer that finds it full
is `blocked`. The command is any program: it reads, closes its stdin, writes pieces
of lines to either stream, ends with any status and may leave a process behind
(`kept`) that holds on to its pipes. `Start`, `Feed`, `Fed`, `Relay`, `Joined`,
`Collect` and `Reap` are the lines of `spawn`, `relay` and `wait_with_output` at
which a thread can be made to wait. `Sigpipe` is what `main.rs` makes of a closed
pipe on a Unix, `BrokenPipe` what happens elsewhere.

`Streams` says what a parallel branch promises and no more: each stream arrives
line by line, whole and in order, and a call returns after the last. `Exec`
implements it under the mapping `Promise` -- `sent` is what was written, `screen`
what was printed, `returned` the calls that answered -- and `KeepsPromise` checks
that every step of `Exec` is one of `Streams` or changes nothing of it.

`Exec.cfg` (98,050 states): each way to run a command beside a call that does
nothing, and one pair that runs at once; a pipe that holds one unit, two units of
body and three of output, so that each pipe fills, a line ends and begins again,
and the last line has no end. `OverWhenReturned` also says a capture is all there
was. `Returns`: a call returns unless the runner is gone, somebody left behind
holds a pipe, or the body and the output have filled both pipes (`BothFull`), which
is the one deadlock there is (`exec.rs:488`): the property names it, and would not catch it.

*Fairness*: the runner's threads and the command are scheduled; a process left
behind may stay for ever. `CHECK_DEADLOCK FALSE`: the calls end.

## Lsp

Both sides and the two pipes. `docs` is `Server::docs`, `Handled` one turn of
`Server::handle`; `open`, `buffer` are the editor's, `shown` its problem list,
`waiting` and `got` the client's pending requests. `Push` is `MessageReader.push`, with
the message a dying server leaves half written; `FallBack` is the one time the
client starts another server and opens every document again. The text of a
document is a number, new at every edit, and a diagnostic *is* the texts it was
computed from, its own and that of the `_shared.run` above.

`Lsp.cfg` (726,179 states): a target and the `_shared.run` above it, two edits, a
request, one open or close, two messages on the wire when the editor acts, and a
server that may die whenever it runs. `InStep`: a server that has read everything
has the editor's documents. `ShownIsOwn`: once all is delivered, what is shown of a
document is of its text. `AnsweredAsAsked`: an answer is about the text it was asked
about. `CatchesUp`: what is shown catches up.

*Fairness*: both processes are scheduled and timers run out; nobody has to edit.
The properties that speak of what is shown exclude two things that happen: a server
that dies after it has answered is never replaced, and what a dead server had
written can be read after the fallback began (`late`).
`CHECK_DEADLOCK FALSE`: edits run out.

## Discovery and Dispatch

`Discovery` is operators on a set of paths: the project at or above, its
subprojects, the machine-wide directory, `_shared.run` chains, names, and scopes,
once as `run` reads them and once as an editor does. `Dispatch` is one run: `Find`
discovers, `Start` and `Call` resolve a name and enter a target that is not under
way, `EnvFile`, `Env` and `AddPath` are properties, `Return` ends a target. A frame
holds what it was handed (`exported`, `defaults`, `path`) and what it set itself;
`Built` is `build_env`, `HandedOver` is `handed_over`.

`Dispatch.cfg` (428,452 states): forty-five trees -- a project with a nested
directory and a subproject, machine-wide files with every scope out of three,
directories that clash, a `runfiles/` inside a `runfiles/` -- seen from the project, the subproject and beside them;
four names, four lines. Four are what the shortest cycle through two names and a
layer handed twice take. `NotInsideItself`: no target runs inside itself.
`Precedence` and `LookupOrder` say over all frames at once what each frame's
environment must be. `OfferedWhereSaid`: a machine-wide target is offered exactly
where every scope above it says. `EditorAgrees`: the editor underlines the calls that
fail, and inherits what a run inherits. It speaks of the files an editor can place
(`Understood`): discovery from where the file is finds no error and the project the file
is run as part of, and each file is a target once. A file below a `runfiles/` that is
itself inside a `runfiles/` is of another project to the editor than to the run, and TLC
finds the property false of it. `CHECK_DEADLOCK FALSE`: the run ends.

## The language

`Tokenize`, `ParseExpr`, `Parse` and `Formatted` are what `tokenize`, `parse_expr`,
`parse` and `format` compute, on lines whose words are values (`Parser` says what a
line is). A body is its lines and their indentation; an expression is a sequence of
characters, since spaces between them are what the formatter decides. `Tidy` is a
file that is written and formatted:

- `FormatKeeps`: the formatted file parses to the same tree, properties in the same
  places, the same description, and every line and comment is still there. The
  formatter's own check (`fingerprint`) knows of neither comments nor places;
- `FormatOnce`: formatting what was formatted changes nothing, and the formatter
  refuses two kinds of file only.

`Runs` evaluates a target from every scope it may be entered with to all it may end
with: a command may succeed or fail, an input be there or not, a `for` have
no item or some. `Refusals` puts that beside what is said of the target from its
text alone:

- `UnresolvedIsUnbound`: a name reported as bound by nothing is bound in no run
  where it is read;
- `FailsEveryTime`: what a check says goes wrong goes wrong in every run that gets
  there;
- `TypesHold`: no name ever holds a value its type leaves out. Like `FailsEveryTime` it
  is checked with `NestedTry = FALSE`, without operations on what a `try` may have caught:
  both fail for `number(try(ARG.n))`, which is the run `refusals_try`;
- `NeedsAreListed`: an input some run fails without is listed, and as required.

The two state machines take the parts as constant operators (`WellFormed`, `Said`,
`TypesOf` and `Shows` in `Refusals`, `Reading` and `Tidied` in `Tidy`); `MCRefusals`
and `MCLanguage` give them the definitions of `Scopes`, `Checks`, `Types`, `Needs`,
`Runs`, `Parser` and `Format`. Under `-coverage` TLC would otherwise unfold every call
of those definitions into one tree, and run out of memory; as it is, it says of many
expressions that it found no cost model for them, which concerns its timings only.

`Language.cfg` (62,133 states) has 10,383 files -- every text of two or three of
sixteen characters, pieces of expressions side by side, every four plain lines,
lists and bodies with whatever lines in them, every construct inside every other --
and 20,683 targets: two names, every function on every kind of value, every
construct with two statements in it, loops that feed one name from another, `.env`
properties above and below what reads them. Files and targets are apart: nothing
joins the two in one behaviour. `Next` chooses one and computes, so a behaviour has
three states; the breadth is in the choice. `CHECK_DEADLOCK FALSE`: there is nothing to do
after the answer.

## Findings

Each is a run of its own that TLC ends with a counterexample.

- `walk_interrupt_forgiven`: an interrupt noticed in a nested block is an error
  like any other to the blocks outside it, and `.ignore-errors` there forgives it.
- `session_ctrl_c`: Ctrl+C pressed while watch mode waits does nothing until a
  matching file changes, though the line on the screen offers it.
- `exec_unread_body`: `main.rs` puts SIGPIPE back to its default, so a command that
  ends before it has read its body takes the runner with it, its branches and its
  temp files too; elsewhere it is answered as one that could not be started.
- `refusals_try`: after `let n = number(try(ARG.n))` the checks take `n` for a number,
  and refuse `n == ""` as never true; where `try` caught something `n` is an empty
  string.

Noticed while modelling, and not a run:

- a branch of a `parallel do` begins its line without a look at the flag (`run.rs:1151`):
  after a Ctrl+C while the branches are set up each still starts its command, which did
  not get the signal;
- `prepare` runs before `run_inner` gives the target its branch (`dispatch.rs:402-406`),
  so a `confirm()` in the `_shared.run` of a target that a branch dispatched is asked,
  where the comment says "it asks the terminal nothing";
- a parallel block reports the first branch that failed, not the interrupted one
  it says comes first (`run.rs`, `run_branches`);
- a temp file whose content could not be written is never tracked, and stays
  (`functions.rs:1810`); `TempsGone` speaks of the others;
- a setup edited while it runs is recorded as it reads afterwards, though
  `prepare.rs:4` says *run against its current definition* (`prepare.rs:78`);
- `rotate --delete-current-key` keeps the old key when the store is volatile, but the
  file is under the new key by then, which a reboot takes (`crypt.rs:374`);
- `encrypt_file_content` says an encrypted value is written as it is; the round-trip
  check below it refuses it;
- a bare name is tried behind the caller's whole prefix only, so that a file two
  levels down in a subproject calls one target from the root and another from
  inside (`README.md:989`, `dispatch.rs:204`);
- the server publishes for the document that changed and no other (`server.rs:79`),
  where `document.rs:7` has an editor and `:lint` say the same;
- `exec_body` of `format.rs` empties a line of blanks in a body, which the parser
  keeps beyond the body's indentation, so such a file is refused as one formatting
  would change; so is one that ends in a backslash. `FormatOnce` names both;
- a blank line inside a spilled list moves behind it (`format.rs`, `finish`);
- a `match` with a comment or a blank line above its first `case` does not parse
  (`parser.rs:626`, `peek_kw`);
- `fingerprint` drops every position, also that of a property among statements:
  moving a `.env` below a command leaves the prepare gate open (`lib.rs:47`);
- `let x=["a["]` is refused: a line that does not tokenise by itself has its brackets
  counted by character (`lexer.rs:300`);
- a `for` over a list whose header fails under `.ignore-errors` returns before its
  names are put back (`run.rs`, `Statement::For`);
- `let x = try($ cmd)` is an unknown function when it runs, and no check says so.

## What is proved

TLAPS proves the following for every value of the constants that meets the named
assumptions (`TreeAssumption`, `ProgramAssumption`, `SessionAssumption`,
`PrepareAssumption`, `TornAssumption`, `NamesAssumption`, `TaskAssumption`,
`ExecAssumption`, `LspAssumption`, `NoneAssumption`, `DispatchAssumption`,
`WorldsAssumption`): any program, any number of processes, files, keys, calls, targets
and documents, any file trees, any bounds.

- **WalkProofs** -- `TypeCorrect`, `Structured` (`NothingOutlives`),
  `EnvInEffectAlways`, `StopIsFinalAlways`, `NoSilentFailureAlways`. For the first two the
  invariant is `TypeOK /\ NothingOutlives /\ OneAtATime /\ NoPropWalks`.
  `NothingOutlives` alone is not inductive: a sequential construct that ends has to
  know that its one child is the only thing under it, which is `OneAtATime` (outside
  parallel constructs at most one child is not idle), and no node may be entered
  that is only a property (`NoPropWalks`). The tree lemmas turn `Kids` into
  statements about `Anc`. The other three rest on a second invariant over the first,
  `KInv`. A Runner began at a node or above it, at the nearest call or branch, and what
  it walks is a single line of nested constructs (`Lineage`): so whoever changes or puts
  back its environment does so while everyone else on that line waits. Whoever's turn it
  is finds the environment of its properties, and what a node put aside is what the node
  around it handed down, which an `else` gets without the body's (`EnvKept`). A Runner
  that halted, in a line or in the middle of an expression, is at nobody's turn, and what
  it answers with is a stop (`HaltedLeaves`);
  in a branch there is no loop to leave and nobody to ask (`StopsReach`), so that
  a join never swallows one. A failure nothing forgives has somebody around it that is
  ending with it (`Carried`); at the end that could only be the root.
  `WalkGoesOn`, `WalkRunsOut` and `DescentEnds` are about progress, without fairness.
  `Place` says how far each kind of node can be in each phase, which is an invariant too;
  of the nodes under way, the tree being finite, one is deepest, and from its place that
  one can always go on. `Stages` gives each node what it has ahead: the kids, attempts or
  items not begun, the test of a loop, the else of a retry, being started and entered. Every
  step lowers one node's and touches none that is not below it, except a further pass of a
  `loop` that is neither interrupted nor in a preview; and such a descent is well-founded (a node that
  keeps falling, with none above it that does, would fall for ever in the naturals).
- **SessionProofs** -- `TypeCorrect` and all four safety properties. The invariant
  adds to `TypeOK` that the watch is armed in the loop (`ArmedInLoop`), that a
  stale session has something to read or is about to run (`Fresh`), that every
  temp file there is is tracked or excused (`Tracked`), how the pool relates to the
  keyring at the start of the run (`Pools`), and where a set flag can have come
  from (`Aims`). `SettlesBetweenChanges` counts how far the session is from a rest: the
  process and the watcher lower it, and a matching change raises it by a fixed amount at
  most. `StaleGoesOn` says that a session with a change behind it has not come to a rest.
- **PrepareProofs** -- `TypeCorrect` and both properties. The invariant adds that
  only targets nothing gates are recorded and a gate is looked up with a definition
  (`Sorted`), that every definition on disk, loaded or about to be written was
  vouched for (`Vouching`), and that short of a clash there is one writer, which
  loaded what was last meant (`Surviving`).

- **KeysProofs** -- `TypeCorrect`, `OneKeyAlways`, `NeverPlainAlways`,
  `ReadableAlways`. Fourteen actions become two kinds of step: `Written`, which leaves a
  file with what its command was to write, with nothing for now or with what a write in
  place makes of the two, and `Quiet`, which leaves its command with what is at hand.
  `OneKey` and `NeverPlain` then only need what a command *holds* to be as good as the
  files are (`Wholeness`, `Sealing`), and that a file being written in place by one
  command is empty (`Emptied`). `Readable` is a matter of order and takes more: a
  rotation's key is new (`Fresh`), a command that was not overtaken has its file as it
  found it (`Known`), so that by the time a rotation deletes the old key neither the file
  nor anybody about to write it needs that key (`Rotated`), and what a command is to
  write can be opened already (`Supplied`).
- **ExecProofs** -- `TypeCorrect`, `OverWhenReturnedAlways`, and `Implements`: every step
  of `Exec` is one of `Streams` or changes nothing of it. The invariant says of every
  call where each piece a command wrote is: what was written *is* what the screen has,
  then the line the relay is at, then the pipe (`Relayed`); so a line that is printed is
  the next one of the stream, whole. A relay that is over has seen the end of its
  stream, and a call that answers has collected them all (`Collected`, `Answers`).
  `StepsRunOut` bounds what a call has left to do, and shows that each step of it lowers
  that and no other call's. `NeverStuck` says that there is always somebody to take the
  next step, short of both pipes being full (`BothFull`), a process that was
  left behind with a pipe, and the death of the runner.
- **LspProofs** -- `TypeCorrect`, `InStepAlways`, `AnsweredAsAskedAlways`,
  `ShownIsOwnAlways`. None of them is inductive: each speaks of pipes that are empty, or
  of an answer that has arrived. The invariant reads the pipes ahead (`Leads`): with all
  of `up` read the server will have the editor's documents (`Tracks`), a question meets
  the copy it was asked about (`Questions`), and with all of `down` read what is shown is
  of the server's copies as they are (`Shows`). Once a pipe is empty that is the
  property. A server dies into no copies and an empty pipe; the one that stands in is
  told of every open document once, which a counting argument over `InSomeOrder` gives.
  `MessagesRunOut` weighs each message by what it can still lead to; only the editor
  adds to the sum, and no step by more than three. `RestsInStep` says what a rest is:
  once nothing can move, what is shown of every open document is of its text as it is,
  unless the server is dead or something of one that was given up on was read.
- **DispatchProofs** -- `TypeCorrect`, `NotInsideItselfAlways`, `PrecedenceAlways`,
  `LookupOrderAlways`, `OfferedWhereSaidAlways`, `EditorAgreesAlways`. The invariant says of *every* frame what
  `Precedence` and `LookupOrder` say of the innermost: what it was handed is what the
  frames under it set, in the right half (`HandedTo`). A call then needs `Built` of the
  caller alone, and a return needs nothing, since what was handed to a frame does not
  change when one above it goes. `AheadWithin` compares two directories over all levels
  at once, which is what makes it inductive: a directory added again moves in front of
  everything, and keeps no place further back. For `OfferedWhereSaid` the walk's recursive
  function is unfolded once (`WalkedIs`: a directory is reached when every `_shared.run`
  from the tree down to it covers us), and the levels of the walk down are shown to be the
  chain walked up (`LevelsAre`). `EditorAgrees` rests on what a project's trees hold, whoever
  asks (`Seen`): it is all a run may be offered (`Placed`); what `TargetNames` takes off a
  name is what `Resolve` puts back (`NamesAgree`); and any target below a `_shared.run` of
  the project gives the same chain, for such a file would else be two targets
  (`ChainsAgree`). `DepthBounded` follows from `NotInsideItself` by the pigeonhole
  principle: the frames map into the targets, one to one.

Only model-checked: liveness under fairness (`InterruptEndsRun`, `PreviewEnds`,
`FreshAgain`, `Returns`, `CatchesUp`), which with ENABLED is out of the prover's
reach. What those rest on *is* proved, in two halves: a measure that every step lowers
(`WalkRunsOut` with `DescentEnds`, `SettlesBetweenChanges`, `StepsRunOut`,
`MessagesRunOut`), and that where the measure has come to a rest the promise is kept
(`WalkGoesOn`, `StaleGoesOn`, `NeverStuck`, `RestsInStep`). The step from there to
`~>` is the fairness of the specification, and TLC's.

The properties of the language (`UnresolvedIsUnbound`, `FailsEveryTime`, `TypesHold`,
`NeedsAreListed`, `FormatKeeps`, `FormatOnce`) are about what recursive definitions
compute of every tree or text. They stay with TLC: such a proof is by induction over the
tree, and the induction theorems take an operator as a parameter, which the provers
cannot instantiate; nor do they see through recursive operators.

## What the models leave out

Text: names, formatting, what is printed, the `.env` syntax, the insides of strings.
The modes of files. In `Prepare`, a read of `state.json` that fails, which the code takes
for an empty file (`prepare.rs:79`) and then writes over. Errors of the operating system that the code answers by ending
(they are in `Kill` or in a failing outcome). In `Session`, events a watcher reports
without paths. In `Dispatch`, values of files that are encrypted, what `load`
refuses, the byte an exit code becomes, and the size of the thread's stack:
how many targets can be under way is bounded by how many there are (`DepthBounded`), which
a project large enough could still have too many of. In `Discovery`,
ownership and trust, links, and file systems that do not tell cases apart. In the
language: fractions, the order of texts, structured values, hints and fixes, calls
that hold a command, several names in the parser, how deep things nest, and a
`retry`'s delay. All processes are on one machine, and a step between two system
calls is atomic.

Not modelled at all, and why: `analysis.rs` (completions, hovers and the like: a
function from a text and a place to a list), the shell checker (`runfile-shell`, a
linter whose findings are advice), the generators, completions, help and listing
(output), the extension's explorer tree, and the cryptography (library primitives).

## What is left

Every safety property of the passing runs outside the language is a theorem. A proof
about the language would first need it written without recursion over trees, which would
no longer be a translation of the code. The hazards of `PROJECT.json` that no property
covers each say why.
