------------------------------- MODULE Scopes -------------------------------
(***************************************************************************)
(* Names nothing defines (resolve.rs): which names can be bound at each line  *)
(* of a target, worked out from the text above it, and so which reads and      *)
(* reassignments have nothing to find.  A report is what it says can never be   *)
(* seen: <<"read", at>> of a name or a key of RUN, <<"done", at>> of a call to  *)
(* a function there is none of, <<"rebound", at, name>> of a reassignment.      *)
(* The hints, and a file whose chain cannot be read, are left out.              *)
(***************************************************************************)
EXTENDS Trees

CONSTANT Functions   \* the names of functions there are

Walked(sc, out) == [sc |-> sc, out |-> out]

RECURSIVE Unresolved(_, _)
Unresolved(e, sc) ==
  UNION {Unresolved(p, sc) : p \in ToSet(Parts(e))}
    \cup (IF e.is = "ident" /\ e.name \notin sc THEN {<<"read", e.at>>} ELSE {})
    \cup (IF e.is = "source" /\ e.kind = "RUN" /\ e.key # "os" THEN {<<"read", e.at>>} ELSE {})
    \cup (IF e.is = "call" /\ e.name \notin Functions THEN {<<"done", e.at>>} ELSE {})
AllUnresolved(es, sc) == UNION {Unresolved(e, sc) : e \in ToSet(es)}
PropertiesOf(b, sc) == UNION {Unresolved(p.value, sc) : p \in ToSet(b.properties)}

\* Every name a block can leave bound behind it: not a loop's own, nor what a parallel block binds.
RECURSIVE Carried(_)
Carried(b) ==
  UNION {LET st == b.statements[i]
             inner == UNION {Carried(x) : x \in ToSet(Blocks(st))} IN
         CASE st.is \in {"let", "set"} -> ToSet(st.names)
           [] st.is = "for" -> inner \ ToSet(st.names)
           [] st.is \in {"parallel do", "parallel for"} -> {}
           [] OTHER -> inner : i \in DOMAIN b.statements}

RECURSIVE WalkStatement(_, _)
\* A block's statements, in order, from a scope.
WalkBody(b, sc) ==
  FoldLeft(LAMBDA acc, st : LET w == WalkStatement(st, acc.sc) IN Walked(w.sc, acc.out \cup w.out),
           Walked(sc, {}), b.statements)
WalkBlock(b, sc) == LET w == WalkBody(b, sc) IN Walked(w.sc, PropertiesOf(b, sc) \cup w.out)
\* Blocks of which one or none is taken, each from the same scope.
OneOf(bs, sc) ==
  LET ws == {WalkBlock(b, sc) : b \in ToSet(bs)} IN
  Walked(sc \cup UNION {w.sc : w \in ws}, UNION {w.out : w \in ws})
\* A branch binds on a copy.
OnCopies(b, sc) ==
  Walked(sc, PropertiesOf(b, sc) \cup UNION {WalkStatement(st, sc).out : st \in ToSet(b.statements)})

\* A pass sees what the passes before it bound.  A loop's names end with it.
WalkFor(st, sc) ==
  LET own == ToSet(st.names)
      parallel == st.is = "parallel for"
      header == IF parallel THEN sc ELSE sc \ own
      pass == WalkBody(st.body, sc \cup own \cup (IF parallel THEN {} ELSE Carried(st.body)))
      out == Unresolved(st.iter, sc) \cup PropertiesOf(st.body, header) \cup pass.out IN
  Walked(IF parallel THEN sc ELSE (sc \cup pass.sc) \ (own \ sc), out)

WalkRetry(st, sc) ==
  LET attempt == WalkBody(st.body, sc \cup Carried(st.body))
      tried == sc \cup attempt.sc
      other == OneOf(st.otherwise, tried) IN
  Walked(other.sc, Unresolved(st.attempts, sc) \cup PropertiesOf(st.body, sc) \cup attempt.out \cup other.out)

\* Mutant: only the first pass is thought of.
WalkLoopOnce(st, sc) ==
  LET w == WalkBody(st.body, sc) IN
  Walked(sc \cup w.sc, PropertiesOf(st.body, sc) \cup AllUnresolved(st.test, sc) \cup w.out)
WalkLoop(st, sc) ==
  LET pass == sc \cup Carried(st.body)
      w == WalkBody(st.body, pass) IN
  Walked(sc \cup w.sc, PropertiesOf(st.body, sc) \cup AllUnresolved(st.test, pass) \cup w.out)

WalkStatement(st, sc) ==
  LET own == AllUnresolved(Evaluated(st), sc)
      Also(w) == Walked(w.sc, own \cup w.out) IN
  CASE st.is = "let" -> Walked(sc \cup ToSet(st.names), own)
    [] st.is = "set" -> Walked(sc \cup ToSet(st.names), own \cup {<<"rebound", st.at, n>> : n \in ToSet(st.names) \ sc})
    [] st.is \in {"call", "run", "property", "break", "continue"} -> Walked(sc, own)
    [] st.is = "do" -> WalkBlock(st.body, sc)
    [] st.is = "parallel do" -> OnCopies(st.body, sc)
    [] st.is \in {"if", "match"} -> Also(OneOf(Blocks(st), sc))
    [] st.is = "retry" -> WalkRetry(st, sc)
    [] st.is = "loop" -> WalkLoop(st, sc)
    [] st.is \in {"for", "parallel for"} -> WalkFor(st, sc)

\* What a `_shared.run` binds for the files below it.
Exported(b) == UNION {ToSet(st.names) : st \in {x \in ToSet(b.statements) : x.is = "let"}}
\* of_shared: folded; what is in it besides is walked on copies.
OfShared(b) ==
  LET w == FoldLeft(LAMBDA acc, st : LET s == WalkStatement(st, acc.sc) IN
                      Walked(IF st.is = "let" THEN s.sc ELSE acc.sc, acc.out \cup s.out),
                    Walked({}, PropertiesOf(b, {})), b.statements) IN w.out
\* of_chain, and of_shared for the file above.
NamesUnresolved(program) ==
  OfShared(program.shared) \cup WalkBlock(program.body, Exported(program.shared)).out
=============================================================================
