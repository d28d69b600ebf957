-------------------------------- MODULE Trees --------------------------------
(***************************************************************************)
(* The tree of a target (ast.rs), by the parts it is walked by.  A tree is    *)
(* records: `is` says which variant, `at` is the place it is written at, a     *)
(* block is its `properties` and its `statements`, among which is a property   *)
(* written below the first.                                                    *)
(***************************************************************************)
EXTENDS Naturals, Sequences, SequencesExt, FiniteSets

\* An expression's own parts, left to right.
Parts(e) ==
  CASE e.is \in {"lit", "ident", "source"} -> <<>>
    [] e.is \in {"text", "list", "capture"} -> e.items
    [] e.is \in {"not", "neg"} -> <<e.rhs>>
    [] e.is \in {"both", "equal", "arith", "chain", "index"} -> <<e.lhs, e.rhs>>
    [] e.is = "call" -> e.args

\* What a statement evaluates itself, and the blocks inside it, in the order they are written.
Evaluated(st) ==
  CASE st.is \in {"let", "set", "call", "property"} -> <<st.value>>
    [] st.is = "run" -> st.parts
    [] st.is = "if" -> <<st.cond>>
    [] st.is = "match" -> <<st.subject>>
    [] st.is = "retry" -> <<st.attempts>>
    [] st.is = "loop" -> st.test
    [] st.is \in {"for", "parallel for"} -> <<st.iter>>
    [] st.is \in {"break", "continue", "do", "parallel do"} -> <<>>

Blocks(st) ==
  CASE st.is = "if" -> <<st.then>> \o st.otherwise
    [] st.is = "match" -> [i \in DOMAIN st.cases |-> st.cases[i].body] \o st.default
    [] st.is = "retry" -> <<st.body>> \o st.otherwise
    [] st.is \in {"do", "parallel do", "loop", "for", "parallel for"} -> <<st.body>>
    [] st.is \in {"let", "set", "call", "property", "run", "break", "continue"} -> <<>>

\* Block::declaration and the properties between its statements.
AllProperties(b) == b.properties \o SelectSeq(b.statements, LAMBDA st : st.is = "property")
Runnable(b) == SelectSeq(b.statements, LAMBDA st : st.is # "property")

-----------------------------------------------------------------------------
(* What the parser refuses of such a tree: a statement nothing comes of, and, *)
(* in a parallel branch, a name bound to it that is not the branch's own.      *)

RECURSIVE HasEffect(_)
HasEffect(e) ==
  \/ e.is \in {"call", "capture"}
  \/ e.is \in {"not", "neg", "both", "equal", "arith", "chain", "index", "list"} /\ \E p \in ToSet(Parts(e)) : HasEffect(p)

\* `own` is what the branch has bound, once there is a branch.
Read(ok, own) == [ok |-> ok, own |-> own]
RECURSIVE Parsed(_, _, _)
ParsedAll(sts, own, branch) ==
  FoldLeft(LAMBDA acc, st : LET r == Parsed(st, acc.own, branch) IN Read(acc.ok /\ r.ok, r.own), Read(TRUE, own), sts)
Parsed(st, own, branch) ==
  LET Inner(b, from, within) == ParsedAll(b.statements, from, within)
      bs == Blocks(st) IN
  CASE st.is = "let" -> Read(TRUE, own \cup ToSet(st.names))
    [] st.is = "set" -> Read(branch => ToSet(st.names) \subseteq own, own)
    [] st.is = "call" -> Read(HasEffect(st.value), own)
    [] st.is = "parallel do" -> Read(\A s \in ToSet(st.body.statements) : s.is # "let" /\ Parsed(s, {}, TRUE).ok, own)
    [] st.is = "parallel for" -> Read(Inner(st.body, ToSet(st.names), TRUE).ok, own)
    [] st.is = "for" -> LET r == Inner(st.body, own \cup ToSet(st.names), branch) IN Read(r.ok, r.own \ (ToSet(st.names) \ own))
    [] OTHER -> FoldLeft(LAMBDA acc, b : LET r == Inner(b, acc.own, branch) IN Read(acc.ok /\ r.ok, r.own), Read(TRUE, own), bs)
Parses(b) == ParsedAll(b.statements, {}, FALSE).ok
=============================================================================
