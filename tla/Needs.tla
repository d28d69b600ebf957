-------------------------------- MODULE Needs --------------------------------
(***************************************************************************)
(* The inputs a target reads (inputs.rs), which is what `--help` lists and    *)
(* `--stdin-args` asks for: <<input, required>> for each use of one, with       *)
(* `required` where nothing forgives its absence.  A name a `.env` property has *)
(* set above is no input.  Defaults and choices are left out.                   *)
(***************************************************************************)
EXTENDS Trees

Use(input, guarded) == {<<input, ~guarded>>}

RECURSIVE Uses(_, _, _)
Uses(e, guarded, set) ==
  LET Unguarded(es) == UNION {Uses(x, FALSE, set) : x \in ToSet(es)} IN
  CASE e.is = "source" /\ e.kind = "ARG" -> Use("ARG", guarded)
    [] e.is = "source" /\ e.kind = "ENV" -> IF set THEN {} ELSE Use("ENV", guarded)
    [] e.is = "chain" -> Uses(e.lhs, TRUE, set) \cup Uses(e.rhs, guarded, set)
    [] e.is = "call" /\ e.name = "try" -> UNION {Uses(x, TRUE, set) : x \in ToSet(e.args)}
    [] OTHER -> Unguarded(Parts(e))

Uses1(set, out) == [set |-> set, out |-> out]
\* Mutant: a property is set in its own value.
AfterItself(acc, p) == Uses1(acc.set \/ p.env, acc.out \cup Uses(p.value, FALSE, acc.set \/ p.env))
After(acc, p) == Uses1(acc.set \/ p.env, acc.out \cup Uses(p.value, FALSE, acc.set))

RECURSIVE WalkUses(_, _)
\* A block, as the runner applies it, from what is set above it: a nested block's is its own.
WalkUses(b, set) ==
  FoldLeft(LAMBDA acc, st :
             IF st.is = "property" THEN After(acc, st)
             ELSE Uses1(acc.set, acc.out \cup UNION {Uses(e, FALSE, acc.set) : e \in ToSet(Evaluated(st))}
                                   \cup UNION {WalkUses(x, acc.set).out : x \in ToSet(Blocks(st))}),
           FoldLeft(After, Uses1(set, {}), b.properties), b.statements)

\* of_chain: what a `_shared.run` sets is set in the target under it.
InputsOf(program) ==
  LET shared == WalkUses(program.shared, FALSE) IN shared.out \cup WalkUses(program.body, shared.set).out
=============================================================================
