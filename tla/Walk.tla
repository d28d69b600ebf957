------------------------------- MODULE Walk -------------------------------
(***************************************************************************)
(* The statement walker of runfile-runtime (run.rs, with the dispatch and  *)
(* exit rules of dispatch.rs and the command line's mapping of a finished  *)
(* run to a process status, main.rs).                                      *)
(*                                                                         *)
(* A program is a forest of nodes.  A node is a block (a sequence of       *)
(* statements), a statement, or a property written below a statement; what *)
(* a `run` line dispatches to is the body of the target, so a call is an   *)
(* edge of the tree like any other (cycles are refused before a body is    *)
(* entered).  Data is left out: a condition, a command and an expression   *)
(* are choices over the ways they can end.  What is kept is the control:   *)
(* which error leaves which construct, who forgives it, who retries it,    *)
(* what a parallel block reports, when Ctrl+C is looked at, and the        *)
(* environment every block builds and puts back.                           *)
(***************************************************************************)
EXTENDS Integers, Sequences, FiniteSets

CONSTANTS
  Node,        \* the nodes of every program
  Roots,       \* the target bodies that can be named on the command line
  Kind,        \* what each node is, see Kinds
  Kids,        \* the nodes directly below each node, in source order
  Anc,         \* the proper ancestors of each node
  Times,       \* attempts of a retry, items of a for
  IgnoreProp,  \* `.ignore-errors` as the node itself declares it
  EnvProps     \* the nodes declaring `.env`, `.env-file` or `.add-path`

Loops    == {"for", "loop"}
Parallel == {"pardo", "parfor"}
Calls    == {"run", "score"}
\* The constructs that go through with_block_env around a body of their own.
Owners   == {"do", "retry"} \cup Loops \cup Parallel
Leaves   == {"exec", "call", "confirm", "exit", "break", "continue"}
Kinds    == {"target", "block", "prop", "choose"} \cup Calls \cup Owners \cup Leaves

\* The errors a target may not forgive, and the ones a person caused.
Stops    == {"exit0", "exitN", "cancelled", "break", "continue"}
Refusals == {"cancelled", "interrupted"}
Troubles == {"failed", "exited", "cancelled", "interrupted"}
Results  == {"ok", "failed", "exited", "interrupted"} \cup Stops
Phases   == {"idle", "forked", "enter", "run"} \cup Results
Statuses == {"running", "0", "1", "code", "130"}

KidSet(n) == {Kids[n][i] : i \in DOMAIN Kids[n]}
IsBlock(n) == Kind[n] \in {"target", "block"}

\* A finite forest: every node is below one node at most, and Anc is its ancestry.
ASSUME TreeAssumption ==
  /\ IsFiniteSet(Node)
  /\ Roots \subseteq Node
  /\ Kids \in [Node -> Seq(Node)]
  /\ Anc \in [Node -> SUBSET Node]
  /\ \A n \in Node : n \notin Anc[n]
  /\ \A n \in Node : \A k \in KidSet(n) : Anc[k] = Anc[n] \cup {n}
  /\ \A n, m \in Node : \A i \in DOMAIN Kids[n], j \in DOMAIN Kids[m] :
       Kids[n][i] = Kids[m][j] => n = m /\ i = j
  /\ \A n \in Node : \A a \in Anc[n] : Anc[a] \subseteq Anc[n]
  /\ \A n \in Node : \A a \in Anc[n] : \E k \in KidSet(a) : n = k \/ k \in Anc[n]
  /\ \A r \in Roots : Anc[r] = {}

\* Neither a parallel block nor a target lies between n and what is around it.
WithinFence(n, l) == \A f \in Anc[n] : Kind[f] \in Parallel \cup {"target"} => f \in Anc[l] \cup {l}

\* What the parser guarantees of the shape of a program.
ASSUME ProgramAssumption ==
  /\ Kind \in [Node -> Kinds]
  /\ Times \in [Node -> Nat]
  /\ IgnoreProp \in [Node -> {"same", "on", "off"}]
  /\ EnvProps \subseteq Node
  /\ \A r \in Roots : Kind[r] = "target"
  /\ \A n \in Node : Kind[n] \in Leaves \cup {"prop"} => Kids[n] = <<>>
  /\ \A n \in Node : Kind[n] \in {"do"} \cup Loops => Len(Kids[n]) = 1
  /\ \A n \in Node : Kind[n] = "retry" => Len(Kids[n]) \in {1, 2} /\ Times[n] >= 1
  /\ \A n \in Node : \A k \in KidSet(n) : Kind[k] = "prop" => IsBlock(n) \/ Kind[n] = "pardo"
  /\ \A n \in Node : Kind[n] \in Calls => Len(Kids[n]) <= 1
  /\ \A n \in Node : \A k \in KidSet(n) : Kind[k] = "target" <=> Kind[n] \in Calls
  /\ \A n \in Node : Kind[n] = "break" => \E l \in Anc[n] : Kind[l] \in Loops /\ WithinFence(n, l)
  /\ \A n \in Node : Kind[n] = "continue" =>
       \E l \in Anc[n] : Kind[l] \in Loops \cup {"parfor"} /\ WithinFence(n, l)

VARIABLES
  root,        \* the target this process was asked to run
  flags,       \* --dry-run, and -y (or CI)
  phase,       \* where each node is
  pos,         \* how many of its kids, attempts or items a node has begun
  props,       \* the properties a node was handed, then its own as it walks
  runner,      \* the Runner each node is walked by, named by where it began
  env,         \* the environment each Runner holds: the layers it is made of
  saved,       \* the environment a node found, which it puts back
  interrupted, \* the process-global flag a signal sets
  reached,     \* history: the nodes whose command was running when it did
  status,      \* the status of the process, once it has one
  bad,         \* history: every failure or refusal a node has ended with, and
               \* whether something was to forgive it
  halted       \* history: every Runner that met an exit() or a declined confirm()

walkVars == <<phase, pos, props, runner, env, saved>>
history  == <<bad, halted>>
vars     == <<root, flags, interrupted, reached, status, walkVars, history>>

Props == [ignore : BOOLEAN, layers : SUBSET Node]

-----------------------------------------------------------------------------
(* Properties (props.rs).                                                  *)

\* Props::extend and Props::apply: the node's own settings over the given ones.
Extend(p, n) ==
  [ignore |-> IF IgnoreProp[n] = "same" THEN p.ignore ELSE IgnoreProp[n] = "on",
   layers |-> p.layers \cup ({n} \cap EnvProps)]

\* The properties of the body of n.  A retry's body has to see its failures.
Inner(n) ==
  IF Kind[n] = "retry" THEN [Extend(props[n], n) EXCEPT !.ignore = FALSE]
                       ELSE Extend(props[n], n)

\* The properties of the i-th branch of a parallel do: the ones written between
\* the branches above it count, the last of each winning.
BranchProps(n, i) ==
  LET above == {j \in 1 .. (i - 1) : Kind[Kids[n][j]] = "prop"}
      says  == {j \in above : IgnoreProp[Kids[n][j]] # "same"}
      last  == CHOOSE j \in says : \A l \in says : l <= j
  IN  [ignore |-> IF says = {} THEN Inner(n).ignore ELSE IgnoreProp[Kids[n][last]] = "on",
       layers |-> Inner(n).layers \cup ({Kids[n][j] : j \in above} \cap EnvProps)]

Forgives(p, e) == p.ignore /\ e \notin Stops

\* A failure is forgiven only where the program says so: somewhere around n there
\* is a block or a loop under `.ignore-errors`, a branch that is, a retry or a
\* code_of.
Forgivable(n) ==
  \E a \in Anc[n] :
    \/ IsBlock(a) /\ props[a].ignore
    \/ Kind[a] \in Loops /\ Inner(a).ignore
    \/ Kind[a] \in {"retry", "score"}
    \/ Kind[a] = "pardo" /\ \E k \in KidSet(a) \cap (Anc[n] \cup {n}) : props[k].ignore

\* Nothing forgives a declined confirm().
Forgiven(n, e) == e # "cancelled" /\ Forgivable(n)

\* Or a parallel block carries out the exit() of a branch beside it.
Outranks(n, e, m) == Kind[n] \in Parallel /\ n \in Anc[m] /\ e \in {"exit0", "exitN"}

-----------------------------------------------------------------------------
(* Steps every construct is made of.                                       *)

Quiet(n) == \A k \in KidSet(n) : phase[k] = "idle"
Ready(n) == phase[n] = "run" /\ Quiet(n)
\* Under a parallel block, whatever was dispatched on the way: a labelled scope.
InBranch(n) == \E a \in Anc[n] : Kind[a] \in Parallel
HasTrailing(n) == \E k \in KidSet(n) : Kind[k] = "prop"

\* A slip: what a block wrote below its statements is left behind.
PutsBackOwnOnly(n) == Kind[n] \in Owners /\ Inner(n).layers # props[n].layers

\* with_block_env rebuilds only for a body whose environment differs, and walk
\* and parallel_do save theirs only when a property is written below a statement.
PutsBack(n) ==
  \/ Kind[n] \in Owners /\ Inner(n).layers # props[n].layers
  \/ IsBlock(n) /\ HasTrailing(n)

\* A command of n's own is under way: its line, the `$` of its condition or its list.
AtCommand(n) ==
  \/ Kind[n] \in {"exec", "call"} /\ phase[n] = "run"
  \/ Kind[n] = "choose" /\ Ready(n) /\ pos[n] = 0
  \/ Kind[n] = "loop" /\ Ready(n) /\ pos[n] = 1
  \/ Kind[n] \in {"for", "parfor"} /\ phase[n] = "enter"

\* What an expression can end with instead of a value, wherever it is written: an
\* exit() and a declined confirm() leave a property, a header, a list, a condition
\* or an argument as the stops they are.  A branch does not ask.
Raised(n) ==
  {"failed", "exit0", "exitN"}
    \cup (IF flags.yes \/ flags.dry \/ InBranch(n) THEN {} ELSE {"cancelled"})

FirstPhase(k) == IF Kind[k] \in Owners \cup {"target"} THEN "enter" ELSE "run"
Counted(n)    == IF Kind[n] = "loop" THEN 2 ELSE pos[n] + 1

\* n begins its kid k with properties p, in its own Runner whose environment is en.
Begin(n, k, p, en) ==
  /\ phase'  = [phase EXCEPT ![k] = FirstPhase(k)]
  /\ pos'    = [pos EXCEPT ![n] = Counted(n), ![k] = 0]
  /\ props'  = [props EXCEPT ![k] = p]
  /\ runner' = [runner EXCEPT ![k] = runner[n]]
  /\ saved'  = [saved EXCEPT ![k] = en]
  /\ env'    = [env EXCEPT ![runner[n]] = en]
  /\ UNCHANGED history

\* n ends with e: what is below it is done with, and what it changed is undone.
End(n, e) ==
  /\ phase' = [m \in Node |-> IF m = n THEN e
                              ELSE IF m \in KidSet(n) THEN "idle" ELSE phase[m]]
  /\ env'   = IF PutsBack(n) THEN [env EXCEPT ![runner[n]] = saved[n]] ELSE env
  /\ bad'   = {<<b[1], b[2], b[3] \/ Outranks(n, e, b[1])>> : b \in bad}
                \cup (IF e \in Troubles THEN {<<n, e, Forgiven(n, e)>>} ELSE {})
  /\ halted' = IF e \in {"exit0", "exitN", "cancelled"} THEN halted \cup {runner[n]} ELSE halted
  /\ UNCHANGED <<pos, props, runner, saved>>

\* n takes the answer of its kid k and carries on.
Take(n, k) ==
  /\ phase' = [phase EXCEPT ![k] = "idle"]
  /\ UNCHANGED <<pos, props, runner, env, saved, history>>

Returned(n, k) == phase[n] = "run" /\ k \in KidSet(n) /\ phase[k] \in Results

-----------------------------------------------------------------------------
(* Blocks: walk_body.                                                      *)

Following(n) == Kids[n][pos[n] + 1]
AtLine(n)    == IsBlock(n) /\ Ready(n) /\ pos[n] < Len(Kids[n])

\* Between statements, the flag is looked at before the next one begins.
NextStatement(n) ==
  /\ AtLine(n)
  /\ Kind[Following(n)] # "prop"
  /\ IF interrupted THEN End(n, "interrupted")
                    ELSE Begin(n, Following(n), props[n], env[runner[n]])

TakesProperty(n) ==
  LET p == Extend(props[n], Following(n)) IN
  /\ props' = [props EXCEPT ![n] = p]
  /\ env'   = IF Following(n) \in EnvProps THEN [env EXCEPT ![runner[n]] = p.layers] ELSE env
  /\ pos'   = [pos EXCEPT ![n] = @ + 1]
  /\ UNCHANGED <<phase, runner, saved, history>>

\* A slip, the one From<PropError> remembers: what a value raises, a stop as well,
\* leaves the block as a failure.
TrailingPropertyWraps(n) ==
  /\ AtLine(n)
  /\ Kind[Following(n)] = "prop"
  /\ \/ TakesProperty(n)
     \/ \E e \in Raised(n) :
          /\ phase'  = [phase EXCEPT ![n] = "failed"]
          /\ env'    = IF PutsBack(n) THEN [env EXCEPT ![runner[n]] = saved[n]] ELSE env
          /\ bad'    = bad \cup {<<n, "failed", Forgivable(n)>>}
          /\ halted' = IF e = "failed" THEN halted ELSE halted \cup {runner[n]}
          /\ UNCHANGED <<pos, props, runner, saved>>

\* apply_trailing: evaluated and built where it is written, forgiven by nobody here.
TrailingProperty(n) ==
  /\ AtLine(n)
  /\ Kind[Following(n)] = "prop"
  /\ TakesProperty(n) \/ \E e \in Raised(n) : End(n, e)

\* An error leaves the block unless `.ignore-errors` forgives it.
StatementReturned(n, k) ==
  /\ IsBlock(n) /\ Returned(n, k)
  /\ IF phase[k] = "ok" \/ Forgives(props[n], phase[k]) THEN Take(n, k) ELSE End(n, phase[k])

EndOfBlock(n) ==
  /\ IsBlock(n) /\ Ready(n) /\ pos[n] = Len(Kids[n])
  /\ End(n, "ok")

-----------------------------------------------------------------------------
(* Statements without a body.                                              *)

Outcomes(n) ==
  CASE Kind[n] \in {"exec", "call"} -> {"ok"} \cup Raised(n)
    [] Kind[n] = "exit"    -> {"exit0", "exitN"}
    [] Kind[n] = "confirm" -> IF flags.yes \/ flags.dry THEN {"ok"}
                              ELSE IF InBranch(n) THEN {"failed"} ELSE {"ok", "cancelled"}
    [] OTHER               -> {Kind[n]}

Leaf(n) ==
  /\ Kind[n] \in Leaves /\ phase[n] = "run"
  /\ \E e \in Outcomes(n) : End(n, e)

\* `if` and `match`: an arm, no arm, or what the condition raised.
Choose(n) ==
  /\ Kind[n] = "choose" /\ Ready(n)
  /\ \/ pos[n] = 0 /\ \E k \in KidSet(n) : Begin(n, k, props[n], env[runner[n]])
     \/ pos[n] = 0 /\ \E e \in {"ok"} \cup Raised(n) : End(n, e)

ChoiceReturned(n, k) == Kind[n] = "choose" /\ Returned(n, k) /\ End(n, phase[k])

-----------------------------------------------------------------------------
(* Entering a construct with an environment of its own.                    *)

\* nested, with_block_env, run_target_with: the properties, then the environment.
\* Either can fail, by what a value raised or a file that is not there.
Enter(n) ==
  /\ phase[n] = "enter"
  /\ LET p == Inner(n) IN
     \/ /\ phase' = [phase EXCEPT ![n] = "run"]
        /\ props' = IF Kind[n] = "target" THEN [props EXCEPT ![n] = p] ELSE props
        /\ env'   = IF Kind[n] = "target" \/ p.layers # props[n].layers
                    THEN [env EXCEPT ![runner[n]] = p.layers] ELSE env
        /\ saved' = IF Kind[n] = "target" THEN [saved EXCEPT ![n] = p.layers] ELSE saved
        /\ UNCHANGED <<pos, runner, history>>
     \/ \E e \in Raised(n) : End(n, e)

\* The body of a do, or one pass of a retry, a for or a loop.
BodyBegins(n) == Begin(n, Kids[n][1], Inner(n), env[runner[n]])

Do(n) == Kind[n] = "do" /\ Ready(n) /\ pos[n] = 0 /\ BodyBegins(n)

DoReturned(n, k) == Kind[n] = "do" /\ Returned(n, k) /\ End(n, phase[k])

\* The kid body has given up: the environment is put back and the else begins.
ElseBegins(n, body) ==
  LET k  == Kids[n][2]
      en == IF PutsBack(n) THEN saved[n] ELSE env[runner[n]]
  IN  /\ phase'  = [phase EXCEPT ![body] = "idle", ![k] = FirstPhase(k)]
      /\ pos'    = [pos EXCEPT ![k] = 0]
      /\ props'  = [props EXCEPT ![k] = props[n]]
      /\ runner' = [runner EXCEPT ![k] = runner[n]]
      /\ saved'  = [saved EXCEPT ![k] = en]
      /\ env'    = [env EXCEPT ![runner[n]] = en]
      /\ UNCHANGED history

\* retry_attempts.
Attempt(n) ==
  /\ Kind[n] = "retry" /\ Ready(n) /\ pos[n] < Times[n]
  /\ IF interrupted THEN End(n, "interrupted") ELSE BodyBegins(n)

\* What ends a retry: an attempt that worked, and what no retry may have another go at.
Settles(e) == e = "ok" \/ e \in Stops

\* The else is walked outside the body's environment and under the outer properties.
AttemptReturned(n, k) ==
  /\ Kind[n] = "retry" /\ Returned(n, k) /\ k = Kids[n][1]
  /\ \/ Settles(phase[k]) /\ End(n, phase[k])
     \/ ~Settles(phase[k]) /\ pos[n] < Times[n] /\ Take(n, k)
     \/ /\ ~Settles(phase[k]) /\ pos[n] = Times[n]
        /\ IF Len(Kids[n]) = 1 THEN End(n, phase[k]) ELSE ElseBegins(n, k)

ElseReturned(n, k) ==
  Kind[n] = "retry" /\ Returned(n, k) /\ k # Kids[n][1] /\ End(n, phase[k])
-----------------------------------------------------------------------------
(* Loops: for_body and loop_passes.                                        *)

\* A slip: one item too many.
NextItemOneMore(n) ==
  /\ Kind[n] = "for" /\ Ready(n)
  /\ \/ pos[n] <= Times[n] /\ BodyBegins(n)
     \/ pos[n] > Times[n] /\ End(n, "ok")

\* An item may not unpack into the loop's names, which nothing inside forgives.
NextItem(n) ==
  /\ Kind[n] = "for" /\ Ready(n)
  /\ \/ pos[n] < Times[n] /\ (BodyBegins(n) \/ End(n, "failed"))
     \/ pos[n] = Times[n] /\ End(n, "ok")

AtTest(n) ==
  /\ pos' = [pos EXCEPT ![n] = 1]
  /\ UNCHANGED <<phase, props, runner, env, saved, history>>

\* A slip: the flag is only looked at between statements.
NextPassUnchecked(n) ==
  /\ Kind[n] = "loop" /\ Ready(n) /\ pos[n] # 1
  /\ AtTest(n)

\* The flag is looked at on every pass: an empty body has no statement to do it.
NextPass(n) ==
  /\ Kind[n] = "loop" /\ Ready(n) /\ pos[n] # 1
  /\ IF interrupted THEN End(n, "interrupted") ELSE AtTest(n)

\* Then the condition is asked: go on, stop, or what it raised.
Test(n) ==
  /\ Kind[n] = "loop" /\ Ready(n) /\ pos[n] = 1
  /\ BodyBegins(n) \/ \E e \in {"ok"} \cup Raised(n) : End(n, e)

\* A slip: a preview repeats a loop.
PassReturnedInPreview(n, k) ==
  /\ Kind[n] \in Loops /\ Returned(n, k)
  /\ IF phase[k] = "break" THEN End(n, "ok")
     ELSE IF phase[k] \notin {"ok", "continue"} /\ ~Forgives(Inner(n), phase[k])
          THEN End(n, phase[k])
     ELSE Take(n, k)

\* A preview walks the body of a loop once.
PassReturned(n, k) ==
  /\ Kind[n] \in Loops /\ Returned(n, k)
  /\ IF phase[k] = "break" THEN End(n, "ok")
     ELSE IF phase[k] \notin {"ok", "continue"} /\ ~Forgives(Inner(n), phase[k])
          THEN End(n, phase[k])
     ELSE IF Kind[n] = "loop" /\ flags.dry THEN End(n, "ok")
     ELSE Take(n, k)

-----------------------------------------------------------------------------
(* Parallel blocks: branches_of, fork, run_branches.                       *)

Branches(n) == {i \in DOMAIN Kids[n] : Kind[Kids[n][i]] # "prop"}

\* The environment a branch is forked with: a property written above it, if
\* there is one, has rebuilt the block's.
BranchEnv(n, i) ==
  IF \E j \in 1 .. (i - 1) : Kids[n][j] \in EnvProps /\ Kind[Kids[n][j]] = "prop"
  THEN BranchProps(n, i).layers ELSE env[runner[n]]

\* Every branch is set up, in order and on the caller's thread, before one starts.
Fork(n) ==
  /\ Kind[n] \in Parallel /\ Ready(n) /\ pos[n] = 0
  /\ \/ LET forks == {Kids[n][i] : i \in Branches(n)}
            Nth(k) == CHOOSE i \in Branches(n) : Kids[n][i] = k
        IN
        /\ phase'  = [m \in Node |-> IF m \in forks THEN "forked" ELSE phase[m]]
        /\ pos'    = [m \in Node |-> IF m = n THEN 1 ELSE IF m \in forks THEN 0 ELSE pos[m]]
        /\ props'  = [m \in Node |-> IF m \in forks THEN BranchProps(n, Nth(m)) ELSE props[m]]
        /\ runner' = [m \in Node |-> IF m \in forks THEN m ELSE runner[m]]
        /\ env'    = [m \in Node |-> IF m \in forks THEN BranchEnv(n, Nth(m)) ELSE env[m]]
        /\ saved'  = [m \in Node |-> IF m \in forks THEN BranchEnv(n, Nth(m)) ELSE saved[m]]
        /\ halted' = halted \ forks
        /\ UNCHANGED bad
     \/ HasTrailing(n) /\ \E e \in Raised(n) : End(n, e)
     \/ Kind[n] = "parfor" /\ End(n, "failed") \* an item does not unpack

\* A thread begins its branch; a preview takes them in turn.
BranchStarts(n, k) ==
  /\ Kind[n] \in Parallel /\ phase[n] = "run"
  /\ k \in KidSet(n) /\ phase[k] = "forked"
  /\ flags.dry => \A i, j \in DOMAIN Kids[n] :
                    k = Kids[n][j] /\ i < j /\ i \in Branches(n) => phase[Kids[n][i]] \in Results
  /\ phase' = [phase EXCEPT ![k] = FirstPhase(k)]
  /\ UNCHANGED <<pos, props, runner, env, saved, history>>

\* What the branch itself makes of its answer, before the join sees it.
BranchAnswer(n, k) ==
  IF \/ Kind[n] = "pardo" /\ Forgives(props[k], phase[k])
     \/ Kind[n] = "parfor" /\ phase[k] = "continue"
  THEN "ok" ELSE phase[k]

\* A slip: failures are lost where no branch was stopped.
JoinAnswerStopOnly(n) ==
  LET stops == {i \in Branches(n) : BranchAnswer(n, Kids[n][i]) \in Stops}
  IN  IF stops # {} THEN BranchAnswer(n, Kids[n][CHOOSE i \in stops : \A j \in stops : i <= j])
      ELSE "ok"

\* The first stop in source order, else the first failure, else a good end.
JoinAnswer(n) ==
  LET answer(i) == BranchAnswer(n, Kids[n][i])
      first(S)  == CHOOSE i \in S : \A j \in S : i <= j
      stops     == {i \in Branches(n) : answer(i) \in Stops}
      failures  == {i \in Branches(n) : answer(i) # "ok"}
  IN  IF stops # {} THEN answer(first(stops))
      ELSE IF failures # {} THEN answer(first(failures)) ELSE "ok"

\* A slip: the join answers with the first branch to end.
JoinAtFirst(n) ==
  /\ Kind[n] \in Parallel /\ phase[n] = "run" /\ pos[n] = 1
  /\ \E i \in Branches(n) : phase[Kids[n][i]] \in Results
  /\ End(n, "ok")

Join(n) ==
  /\ Kind[n] \in Parallel /\ phase[n] = "run" /\ pos[n] = 1
  /\ \A i \in Branches(n) : phase[Kids[n][i]] \in Results
  /\ End(n, JoinAnswer(n))

-----------------------------------------------------------------------------
(* Dispatch: Host::run_with_chain, run_inner, ended, dispatch_code.        *)

\* What an exit() is to everything outside the target it is written in.
Ended(e) == IF e = "exit0" THEN "ok" ELSE IF e = "exitN" THEN "exited" ELSE e

\* `code_of(run ...)` scores every outcome but a person's refusal.
Answer(n, e) == IF Kind[n] = "score" /\ Ended(e) \notin Refusals THEN "ok" ELSE Ended(e)

\* The name is not a target, is already on this call path, or its file, its
\* arguments or its `_shared.run` chain are refused: no line of it is walked.  A
\* `_shared.run` is evaluated before the target knows it is part of a branch, so
\* a confirm() in it asks even there.
Refused(n) ==
  LET asked == IF flags.yes \/ flags.dry THEN {} ELSE {"cancelled"}
  IN  \E e \in {"failed", "exit0", "exitN"} \cup asked : End(n, Answer(n, e))

Dispatch(n) ==
  /\ Kind[n] \in Calls /\ Ready(n) /\ pos[n] = 0
  /\ \/ \E k \in KidSet(n) :
          /\ phase'  = [phase EXCEPT ![k] = "enter"]
          /\ pos'    = [pos EXCEPT ![n] = 1, ![k] = 0]
          /\ props'  = [props EXCEPT ![k] = [ignore |-> FALSE, layers |-> env[runner[n]]]]
          /\ runner' = [runner EXCEPT ![k] = k]
          /\ env'    = [env EXCEPT ![k] = env[runner[n]]]
          /\ saved'  = [saved EXCEPT ![k] = env[runner[n]]]
          /\ halted' = halted \ {k}
          /\ UNCHANGED bad
     \/ Refused(n)
     \/ \E e \in Raised(n) : End(n, e) \* the line itself does not evaluate

TargetReturned(n, k) == Kind[n] \in Calls /\ Returned(n, k) /\ End(n, Answer(n, phase[k]))

-----------------------------------------------------------------------------
(* The process.                                                            *)

Step(n) ==
  \/ NextStatement(n) \/ TrailingProperty(n) \/ EndOfBlock(n)
  \/ Choose(n) \/ Enter(n) \/ Do(n) \/ Attempt(n) \/ NextItem(n)
  \/ NextPass(n) \/ Test(n) \/ Fork(n) \/ Join(n) \/ Dispatch(n)

Return(n, k) ==
  \/ StatementReturned(n, k) \/ ChoiceReturned(n, k) \/ DoReturned(n, k)
  \/ AttemptReturned(n, k) \/ ElseReturned(n, k) \/ PassReturned(n, k)
  \/ TargetReturned(n, k) \/ BranchStarts(n, k)

Active  == {n \in Node : phase[n] \in {"enter", "run"}}
Walking == status = "running" /\ UNCHANGED <<root, flags, interrupted, reached, status>>

\* on_signal: an atomic store, at any time.  The commands running then get the
\* signal too; one whose line has begun but which is not spawned yet does not.
Interrupt ==
  /\ ~interrupted /\ status = "running"
  /\ interrupted' = TRUE
  /\ reached' \in SUBSET {n \in Active : AtCommand(n) /\ ~flags.dry}
  /\ UNCHANGED <<root, flags, status, walkVars, history>>

\* main and real_main: the status a finished run is given.
Exit ==
  /\ status = "running" /\ phase[root] \in Results
  /\ LET e == Ended(phase[root])
     IN  status' = IF e = "ok" THEN "0" ELSE IF e = "exited" THEN "code"
                   ELSE IF interrupted THEN "130" ELSE "1"
  /\ UNCHANGED <<root, flags, interrupted, reached, walkVars, history>>

Init ==
  /\ root \in Roots
  /\ flags \in [dry : BOOLEAN, yes : BOOLEAN]
  /\ phase = [n \in Node |-> IF n = root THEN "enter" ELSE "idle"]
  /\ pos = [n \in Node |-> 0]
  /\ props = [n \in Node |-> [ignore |-> FALSE, layers |-> {}]]
  /\ runner = [n \in Node |-> n]
  /\ env = [n \in Node |-> {}]
  /\ saved = [n \in Node |-> {}]
  /\ interrupted = FALSE /\ reached = {}
  /\ status = "running"
  /\ bad = {} /\ halted = {}

Next ==
  \/ \E n \in Active : Walking /\ Step(n)
  \/ \E n \in Active : Walking /\ Leaf(n)
  \/ \E n \in Active : \E k \in KidSet(n) : Walking /\ Return(n, k)
  \/ Interrupt
  \/ Exit

\* A command is only sure to end when the signal reached it, or under --dry-run,
\* where none is started.
Ends(n) == AtCommand(n) => flags.dry \/ n \in reached

\* The process is scheduled, and whoever is asked by a confirm() answers.
Progress ==
  \/ \E n \in Active : Walking /\ Ends(n) /\ (Step(n) \/ Leaf(n))
  \/ \E n \in Active : \E k \in KidSet(n) : Walking /\ Return(n, k)
  \/ Exit

Spec == Init /\ [][Next]_vars /\ WF_vars(Progress)

-----------------------------------------------------------------------------
(* Properties.                                                             *)

\* The types of the variables; a retry makes no more attempts than it was given,
\* and a loop, a block or a call begins nothing it does not have.
Most(n) == CASE Kind[n] \in {"retry", "for"} -> Times[n]
             [] IsBlock(n)                   -> Len(Kids[n])
             [] Kind[n] = "loop"             -> 2
             [] OTHER                        -> 1
TypeOK ==
  /\ root \in Roots
  /\ flags \in [dry : BOOLEAN, yes : BOOLEAN]
  /\ phase \in [Node -> Phases]
  /\ pos \in [Node -> Nat] /\ \A n \in Node : pos[n] <= Most(n)
  /\ props \in [Node -> Props]
  /\ runner \in [Node -> Node]
  /\ env \in [Node -> SUBSET Node]
  /\ saved \in [Node -> SUBSET Node]
  /\ interrupted \in BOOLEAN /\ reached \subseteq Node
  /\ status \in Statuses
  /\ bad \subseteq Node \X Troubles \X BOOLEAN
  /\ halted \subseteq Node

\* Structured concurrency (thread::scope in run_branches, and a walk that is only
\* ever left through its caller): whatever is under way, everything it is part
\* of is still waiting for it.  So a run that has ended has nothing left running.
NothingOutlives ==
  \A n \in Node : phase[n] # "idle" =>
    /\ n = root \/ root \in Anc[n]
    /\ \A a \in Anc[n] : phase[a] = "run"

\* The environment a node finds in its Runner is the one its properties describe,
\* whichever way every block, pass, attempt and branch before it ended
\* (with_block_env, walk, parallel_do and their putting back).
EnvOf(n) == IF Kind[n] \in Owners /\ phase[n] = "run" THEN Inner(n).layers ELSE props[n].layers
EnvInEffect ==
  \A n \in Node : phase[n] \in {"enter", "run"} /\ Quiet(n) => env[runner[n]] = EnvOf(n)

\* A run whose status is 0 met no failure that nothing forgave, and nobody declined
\* a confirm() in it, written as a line or in any expression; but for what the
\* exit() of a branch beside it outranked (is_stop, walk_body, run_branches, main).
NoSilentFailure == status = "0" => \A b \in bad : b[3]

\* exit() and a declined confirm() are carried out, whether a line of their own or
\* a property, a condition, a list or an argument raised them: the walk that met
\* one begins nothing more, whatever it was inside of (is_stop, From<PropError>,
\* cond_of and every catcher they name).
StopIsFinal ==
  [][\A k \in Node :
       phase[k] \in {"idle", "forked"} /\ phase'[k] \in {"enter", "run"} => runner'[k] \notin halted'
    ]_vars

\* A run that is interrupted ends, once the commands the signal came too early for
\* have: those begun between the look at the flag and the spawn, and the branches
\* of a parallel do, which begin without a look (run.rs:1151).  The walker itself
\* goes round no loop, retry or block for ever (walk_body, retry_attempts,
\* loop_passes).
LateEnds == []<>(\A n \in Active : Ends(n))
InterruptEndsRun == LateEnds => (interrupted ~> status # "running")

\* A preview ends, whatever loops the program has: loop_passes walks a body once.
PreviewEnds == flags.dry ~> status # "running"

\* What the code's comments and tests say of Ctrl+C, and the code does not do.
\* run.rs:337 and src/tests/interrupt.rs:59: an interrupt is not a failure a target
\* may shrug off, so a run in which a walk stopped for one does not end with 0.
InterruptNotForgiven == status = "0" => \A b \in bad : b[2] # "interrupted"
=============================================================================
