----------------------------- MODULE Expressions -----------------------------
(***************************************************************************)
(* What an expression may come to (eval.rs, and value_of in run.rs): the      *)
(* values there may be of it, the ways it may fail, and what may have been    *)
(* `seen` on the way.                                                         *)
(*                                                                            *)
(* A place in the tree is a number, `at`.  What can be seen there is           *)
(* <<"read", at>>, a name or a key found; <<"done", at>>, an operation that had *)
(* what it takes; <<"right", at>>, a right side that counted; <<"equal", at>>,  *)
(* two sides that were.  A failure is "failed", "caught" once a `try` has it,   *)
(* "exited", or the input that is missing, "ARG" or "ENV".  A command prints a  *)
(* word or fails.                                                               *)
(***************************************************************************)
EXTENDS Values

CONSTANTS
  Names,     \* the names a target binds
  Unbound    \* the value of one that is not bound

Inputs == {"ARG", "ENV"}
\* What a chain falls back from, and a `try` catches: not `exit`.
Failures == {"failed", "caught"} \cup Inputs

Result(ok, bad, seen) == [ok |-> ok, bad |-> bad, seen |-> seen]
Nothing == Result({}, {}, {})
\* An operation at a place: the operands there may be, those it takes, its answers.
Done(at, given, taken, answers, operands) ==
  Result(answers, operands.bad \cup (IF taken = given THEN {} ELSE {"failed"}),
         operands.seen \cup (IF taken = {} THEN {} ELSE {<<"done", at>>}))

\* eval_boundary: what a `try` caught is an empty string from here on.
Boundary(r) ==
  IF "caught" \in r.bad THEN [r EXCEPT !.ok = @ \cup {Str("")}, !.bad = @ \ {"caught"}] ELSE r

-----------------------------------------------------------------------------
(* Expressions.  A scope is a value for each name, and for "ENV": what a      *)
(* `.env` property set it to.                                                  *)

Source(e, sc) ==
  CASE e.kind = "ARG" -> Result({Str(w) : w \in Words}, {"ARG"}, {})
    [] e.kind = "ENV" -> IF sc["ENV"] = Unbound THEN Result({Str(w) : w \in Words}, {"ENV"}, {}) ELSE Result({sc["ENV"]}, {}, {})
    [] e.kind = "FLAG" -> Result({Bool(b) : b \in BOOLEAN}, {}, {})
    [] e.kind = "ARGS" -> Result({ListOf(<<>>), ListOf(<<Str("1"), Str("word")>>)}, {}, {})
    [] e.kind = "RUN" /\ e.key = "os" -> Result({Str(o) : o \in OsNames}, {}, {<<"read", e.at>>})
    [] e.kind = "RUN" /\ e.key = "oss" -> Result({}, {"failed"}, {})

RECURSIVE Eval(_, _), EvalAll(_, _, _)
\* The values there may be, left to right; interpolations are each a boundary.
EvalAll(es, sc, interpolated) ==
  IF es = <<>> THEN Result({<<>>}, {}, {})
  ELSE LET first == IF interpolated THEN Boundary(Eval(Head(es), sc)) ELSE Eval(Head(es), sc)
           rest  == IF first.ok = {} THEN Nothing ELSE EvalAll(Tail(es), sc, interpolated) IN
       Result({<<p[1]>> \o p[2] : p \in first.ok \X rest.ok}, first.bad \cup rest.bad, first.seen \cup rest.seen)

\* `&&` and `||`: the right side is asked only where the left does not settle it.
ShortCircuit(e, sc) ==
  LET l == Eval(e.lhs, sc)
      t == {x \in l.ok : Is(x, {"bool"})}
      settled == {x \in t : x[2] = (e.op = "||")}
      r == IF t = settled THEN Nothing ELSE Eval(e.rhs, sc)
      u == {x \in r.ok : Is(x, {"bool"})} IN
  Result(settled \cup u, l.bad \cup r.bad \cup (IF t = l.ok /\ u = r.ok THEN {} ELSE {"failed"}),
         l.seen \cup r.seen \cup (IF t = {} THEN {} ELSE {<<"done", e.at>>}) \cup (IF u = {} THEN {} ELSE {<<"right", e.at>>}))

Equality(e, sc) ==
  LET v == EvalAll(<<e.lhs, e.rhs>>, sc, FALSE) IN
  Result({Bool(p[1] = p[2]) : p \in v.ok}, v.bad,
         v.seen \cup (IF \E p \in v.ok : p[1] = p[2] THEN {<<"equal", e.at>>} ELSE {}))

Arithmetic(e, sc) ==
  LET v == EvalAll(<<e.lhs, e.rhs>>, sc, FALSE)
      t == {p \in v.ok : ArithTakes(e.op, p[1], p[2])} IN
  Done(e.at, v.ok, t, {Arith(e.op, p[1][2], p[2][2]) : p \in t}, v)

Chain(e, sc) ==
  LET l == Eval(e.lhs, sc)
      r == IF l.bad \cap Failures # {} THEN Eval(e.rhs, sc) ELSE Nothing IN
  Result(l.ok \cup r.ok, (l.bad \ Failures) \cup r.bad, l.seen \cup r.seen)

Indexing(e, sc) ==
  LET v == EvalAll(<<e.lhs, e.rhs>>, sc, FALSE)
      t == {p \in v.ok : Is(p[1], {"list"}) /\ Is(p[2], {"num"}) /\ p[2][2] + 1 \in DOMAIN p[1][2]} IN
  Done(e.at, v.ok, t, {p[1][2][p[2][2] + 1] : p \in t}, v)

\* call_with, of the values the arguments came to; `exit` ends the target, and so does a `confirm` declined.
Applied(e, v) ==
  IF e.name = "exit"
  THEN LET t == {s \in v.ok : s = <<>> \/ (Len(s) = 1 /\ Numbers(s))} IN
       Result({}, v.bad \cup (IF t = {} THEN {} ELSE {"exited"}) \cup (IF t = v.ok THEN {} ELSE {"failed"}),
              v.seen \cup (IF t = {} THEN {} ELSE {<<"done", e.at>>}))
  ELSE LET t == {s \in v.ok : Takes(e.name, s)}
           r == Done(e.at, v.ok, t, UNION {Answers(e.name, s) : s \in t}, v) IN
       [r EXCEPT !.bad = @ \cup (IF t # {} /\ e.name \in MayFail THEN {"failed"} ELSE {})
                            \cup (IF t # {} /\ e.name = "confirm" THEN {"exited"} ELSE {})]

Try(e, sc) ==
  LET r == IF Len(e.args) = 1 THEN Eval(e.args[1], sc) ELSE Result({}, {"failed"}, {}) IN
  IF Len(e.args) # 1 THEN r
  ELSE Result(r.ok, (r.bad \ Failures) \cup (IF r.bad \cap Failures = {} THEN {} ELSE {"caught"}),
              r.seen \cup {<<"done", e.at>>})

Eval(e, sc) ==
  CASE e.is = "lit" -> Result({e.val}, {}, {})
    [] e.is = "text" -> LET v == EvalAll(e.items, sc, TRUE) IN
                        Result(IF v.ok = {} THEN {} ELSE {Str(w) : w \in Words}, v.bad, v.seen)
    [] e.is = "list" -> LET v == EvalAll(e.items, sc, FALSE) IN Result({ListOf(s) : s \in v.ok}, v.bad, v.seen)
    [] e.is = "ident" -> IF sc[e.name] = Unbound THEN Result({}, {"failed"}, {})
                         ELSE Result({sc[e.name]}, {}, {<<"read", e.at>>})
    [] e.is = "source" -> Source(e, sc)
    [] e.is = "not" -> LET v == Eval(e.rhs, sc)  t == {x \in v.ok : Is(x, {"bool"})} IN
                       Done(e.at, v.ok, t, {Bool(~x[2]) : x \in t}, v)
    [] e.is = "neg" -> LET v == Eval(e.rhs, sc)  t == {x \in v.ok : Is(x, {"num"})} IN
                       Done(e.at, v.ok, t, {Num(-x[2]) : x \in t}, v)
    [] e.is = "both" -> ShortCircuit(e, sc)
    [] e.is = "equal" -> Equality(e, sc)
    [] e.is = "arith" -> Arithmetic(e, sc)
    [] e.is = "chain" -> Chain(e, sc)
    [] e.is = "index" -> Indexing(e, sc)
    [] e.is = "call" /\ e.name = "try" -> Try(e, sc)
    [] e.is = "call" /\ e.name # "try" -> Applied(e, EvalAll(e.args, sc, FALSE))
    [] e.is = "capture" -> Result({}, {"failed"}, {})   \* needs a process host

\* value_of: a command can be run where it is the whole value, or the last argument of the call that is.
Ran(e, sc, printed) ==
  LET v == EvalAll(e.items, sc, TRUE) IN
  IF v.ok = {} THEN Result({}, v.bad, v.seen) ELSE Result(printed, v.bad \cup {"failed"}, v.seen \cup {<<"done", e.at>>})
RanWithin(e, sc) ==
  LET v == EvalAll(Front(e.args), sc, TRUE)
      c == IF v.ok = {} THEN Nothing ELSE Ran(Last(e.args), sc, {Str("word")}) IN
  Applied(e, Result({Append(p[1], p[2]) : p \in v.ok \X c.ok}, v.bad \cup c.bad, v.seen \cup c.seen))
ValueOf(e, sc) ==
  IF e.is = "call" /\ e.name = "code_of" /\ Len(e.args) = 1
  THEN IF e.args[1].is = "capture"
       THEN LET c == Ran(e.args[1], sc, {Num(0), Num(1)}) IN
            [c EXCEPT !.seen = @ \cup {<<o[1], e.at>> : o \in {x \in @ : x[2] = e.args[1].at}}]
       ELSE Result({}, {"failed"}, {})
  ELSE IF e.is = "call" /\ e.args # <<>> /\ Last(e.args).is = "capture" THEN RanWithin(e, sc)
  ELSE IF e.is = "capture" THEN Ran(e, sc, {Str("word")})
  ELSE Boundary(Eval(e, sc))

\* cond_of and subject_of: a command is asked for its status.
Asked(e, sc, statuses) == IF e.is = "capture" THEN Ran(e, sc, statuses) ELSE Boundary(Eval(e, sc))
=============================================================================
