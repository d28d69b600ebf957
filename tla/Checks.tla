-------------------------------- MODULE Checks --------------------------------
(***************************************************************************)
(* Mistakes a target makes every time it runs, found before it does           *)
(* (check.rs).  A finding is what it says can never be seen: <<"done", at>>,   *)
(* <<"right", at>>, <<"equal", at>>, <<"item", at>>, <<"case", at, i>>.         *)
(* Walking an expression also answers whether it fails every time, since what   *)
(* would be asked of such a value is not.  Left out: a list glued to text in a  *)
(* command, and how a finding is worded.                                        *)
(***************************************************************************)
EXTENDS Types

CONSTANTS
  Compiles(_),     \* whether a text is a pattern
  IsTime(_),       \* a format `now` knows
  IsFormat(_),     \* one `printf` can read
  Verbs(_)         \* and the kinds of what that puts in

Walk(fails, out) == [fails |-> fails, out |-> out]
Report(at, what) == {<<what, at>>}

LiteralNumber(e) ==
  IF e.is = "lit" /\ e.val[1] = "num" THEN {e.val[2]}
  ELSE IF e.is = "neg" /\ e.rhs.is = "lit" /\ e.rhs.val[1] = "num" THEN {-e.rhs.val[2]} ELSE {}
LiteralWord(e) == IF e.is = "lit" /\ e.val[1] = "str" THEN {e.val[2]} ELSE {}

\* It has to be one of `needs`, and never is.
NeverOf(e, needs, names) == Refused(TypeOf(e, names), needs)

RECURSIVE Expr(_, _, _)
All(es, names) ==
  LET ws == {Expr(e, FALSE, names) : e \in ToSet(es)} IN
  Walk(\E w \in ws : w.fails, UNION {w.out : w \in ws})

\* Of what is walked already, and unless that fails anyway: an operation that `never` has what it needs.
Unless(w, at, never) ==
  IF w.fails \/ ~never THEN w ELSE Walk(TRUE, w.out \cup Report(at, "done"))

\* The right side is asked only when the left does not settle it.
ShortCircuited(e, names) ==
  LET l == Expr(e.lhs, FALSE, names)
      r == Expr(e.rhs, FALSE, names)
      left == Unless(Walk(l.fails, l.out \cup r.out), e.at, NeverOf(e.lhs, {"bool"}, names))
      settled == e.lhs.is = "lit" /\ e.lhs.val = <<"bool", e.op = "||">> IN
  IF ~left.fails /\ ~settled /\ ~r.fails /\ NeverOf(e.rhs, {"bool"}, names)
  THEN Walk(TRUE, left.out \cup Report(e.at, "right")) ELSE left

\* Mutant: types that are not the same are taken for types with nothing in common.
NeverEqualUnlessSame(e, names) ==
  LET l == TypeOf(e.lhs, names)  r == TypeOf(e.rhs, names) IN l.kinds # {} /\ r.kinds # {} /\ l.kinds # r.kinds
NeverEqual(e, names) ==
  LET l == TypeOf(e.lhs, names)
      r == TypeOf(e.rhs, names)
      NotAmong(side, other) == LET v == KnownValues(side, names) IN v # {} /\ LiteralWord(other) # {} /\ LiteralWord(other) \cap v = {} IN
  \/ l.kinds # {} /\ r.kinds # {} /\ l.kinds \cap r.kinds = {}
  \/ NotAmong(e.lhs, e.rhs) \/ NotAmong(e.rhs, e.lhs)

Equality(e, names) ==
  LET w == All(<<e.lhs, e.rhs>>, names) IN
  IF ~w.fails /\ NeverEqual(e, names) THEN Walk(FALSE, w.out \cup Report(e.at, "equal")) ELSE w

\* What a call's arguments, written out, can be seen to do wrong: a pattern, a format, or a count below 0.
Negative(args, i) == i \in DOMAIN args /\ \E n \in LiteralNumber(args[i]) : n < 0
BadFormat(args, names) ==
  \E t \in LiteralWord(args[1]) :
    \/ ~IsFormat(t)
    \/ Len(Verbs(t)) # Len(args) - 1
    \/ \E i \in DOMAIN Verbs(t) : Verbs(t)[i] = "d" /\ NeverOf(args[i + 1], N, names)
BadLiterals(name, args, names) ==
  LET BadPattern(i) == \E t \in LiteralWord(args[i]) : ~Compiles(t) IN
  CASE name \in {"regex_matches", "regex_replace", "regex_remove"} -> BadPattern(2)
    [] name \in {"regex_capture", "regex_capture_all"} -> BadPattern(2) \/ Negative(args, 3)
    [] name = "glob" -> BadPattern(1)
    [] name = "printf" -> BadFormat(args, names)
    [] name = "now" -> args # <<>> /\ \E t \in LiteralWord(args[1]) : ~IsTime(t)
    [] name \in {"substring", "repeat"} -> Negative(args, 2) \/ Negative(args, 3)
    [] name = "sleep" -> Negative(args, 1)
    [] OTHER -> FALSE

\* A command can be the last argument of a call that is a statement's whole value.
Call(e, whole, names) ==
  LET ws == {Expr(e.args[i], whole /\ i = Len(e.args) /\ e.args[i].is = "capture", names) : i \in DOMAIN e.args}
      w == Walk(\E x \in ws : x.fails, UNION {x.out : x \in ws})
      types == [i \in DOMAIN e.args |-> TypeOf(e.args[i], names)] IN
  IF e.name \notin DOMAIN Signatures THEN Walk(TRUE, w.out)
  ELSE IF ~TakesCount(Signatures[e.name], Len(e.args)) THEN Walk(TRUE, w.out \cup Report(e.at, "done"))
  ELSE Unless(w, e.at, \/ e.name = "code_of" /\ e.args[1].is # "capture"
                       \/ \E i \in DOMAIN e.args : Refused(types[i], Accepts(e.name, i, types))
                       \/ BadLiterals(e.name, e.args, names))

Expr(e, whole, names) ==
  CASE e.is \in {"lit", "ident", "source"} -> Walk(FALSE, {})
    [] e.is \in {"text", "list"} -> All(e.items, names)
    [] e.is = "capture" -> LET w == All(e.items, names) IN IF whole THEN w ELSE Walk(TRUE, w.out \cup Report(e.at, "done"))
    [] e.is = "chain" -> LET l == Expr(e.lhs, FALSE, names)  r == Expr(e.rhs, FALSE, names) IN
                         Walk(l.fails /\ r.fails, l.out \cup r.out)
    [] e.is = "not" -> Unless(Expr(e.rhs, FALSE, names), e.at, NeverOf(e.rhs, {"bool"}, names))
    [] e.is = "neg" -> Unless(Expr(e.rhs, FALSE, names), e.at, NeverOf(e.rhs, {"num"}, names))
    [] e.is = "both" -> ShortCircuited(e, names)
    [] e.is = "equal" -> Equality(e, names)
    [] e.is = "arith" -> Unless(All(<<e.lhs, e.rhs>>, names), e.at,
                                \/ NeverOf(e.lhs, {"num"}, names) \/ NeverOf(e.rhs, {"num"}, names)
                                \/ e.op = "/" /\ LiteralNumber(e.rhs) = {0})
    [] e.is = "index" -> Unless(All(<<e.lhs, e.rhs>>, names), e.at,
                                \/ NeverOf(e.rhs, {"num"}, names) \/ NeverOf(e.lhs, {"list"}, names)
                                \/ \E n \in LiteralNumber(e.rhs) : n < 0)
    [] e.is = "call" -> Call(e, whole, names)

-----------------------------------------------------------------------------
(* Statements: what each asks of the value it is handed.                      *)

Findings(b, Statement(_)) == UNION {Statement(b.statements[i]) : i \in DOMAIN b.statements}
Bound(st, whole, names) ==
  LET w == Expr(st.value, whole, names)
      t == TypeOf(st.value, names)
      several == Len(st.names) > 1
      short == st.value.is = "list" /\ Len(st.value.items) < Len(st.names) IN
  IF several THEN Unless(w, st.at, Refused(t, {"list"}) \/ short).out ELSE w.out

Walked(st, names) ==
  LET w == Expr(st.iter, TRUE, names)
      t == TypeOf(st.iter, names)
      short == /\ st.iter.is = "list" /\ st.iter.items # <<>>
               /\ st.iter.items[1].is = "list" /\ Len(st.iter.items[1].items) < Len(st.names)
      listed == Unless(w, st.at, Refused(t, {"list"})) IN
  IF ~listed.fails /\ Len(st.names) > 1 /\ (Refused(Item(t), {"list"}) \/ short)
  THEN listed.out \cup Report(st.at, "item") ELSE listed.out

Condition(c, at, names) ==
  IF c.is = "capture" THEN All(c.items, names).out ELSE Unless(Expr(c, FALSE, names), at, NeverOf(c, {"bool"}, names)).out

\* `case`: repeated, no exit status, no value it can have, or no text of a type it can be.
Reachable(label, st, names) ==
  LET t == TypeOf(st.subject, names)
      known == KnownValues(st.subject, names) IN
  IF st.subject.is = "capture" THEN label \in {"0", "1"}
  ELSE IF known # {} THEN label \in known
  ELSE \/ t.kinds = {} \/ t.kinds \cap {"str", "list"} # {}
       \/ "num" \in t.kinds /\ label \in {"0", "1"}
       \/ "bool" \in t.kinds /\ label \in {"true", "false"}
Matched(st, names) ==
  LET w == IF st.subject.is = "capture" THEN All(st.subject.items, names) ELSE Expr(st.subject, FALSE, names)
      Repeats(i) == \E j \in 1..(i - 1) : st.cases[j].label = st.cases[i].label IN
  w.out \cup {<<"case", st.at, i>> : i \in {j \in DOMAIN st.cases :
                 Repeats(j) \/ (~w.fails /\ ~Reachable(st.cases[j].label, st, names))}}

RECURSIVE Statement(_, _)
Block(b, names) == UNION {Expr(p.value, FALSE, names).out : p \in ToSet(AllProperties(b))}
                     \cup Findings([b EXCEPT !.statements = Runnable(b)], LAMBDA st : Statement(st, names))
Statement(st, names) ==
  UNION {Block(b, names) : b \in ToSet(Blocks(st))} \cup
  CASE st.is \in {"let", "set"} -> Bound(st, TRUE, names)
    [] st.is = "call" -> Expr(st.value, TRUE, names).out
    [] st.is = "run" -> All(st.parts, names).out
    [] st.is = "if" -> Condition(st.cond, st.at, names)
    [] st.is = "loop" -> UNION {Condition(c, st.at, names) : c \in ToSet(st.test)}
    [] st.is = "retry" -> Unless(Expr(st.attempts, FALSE, names), st.at, NeverOf(st.attempts, {"num"}, names)).out
    [] st.is \in {"for", "parallel for"} -> Walked(st, names)
    [] st.is = "match" -> Matched(st, names)
    [] st.is \in {"do", "parallel do", "break", "continue"} -> {}

\* A `_shared.run`: its `let`s are folded, with nothing to run a command in.
SharedFindings(b, names) ==
  UNION {Expr(p.value, FALSE, names).out : p \in ToSet(AllProperties(b))}
    \cup Findings([b EXCEPT !.statements = Runnable(b)],
                  LAMBDA st : IF st.is = "let" THEN Bound(st, FALSE, names) ELSE Statement(st, names))
Found(program) ==
  LET names == NamesOf(program) IN
  Block(program.body, names)
    \cup SharedFindings(program.shared, NamesOf([program EXCEPT !.shared.statements = <<>>, !.body = program.shared]))
=============================================================================
