-------------------------------- MODULE Format --------------------------------
(***************************************************************************)
(* A file as the formatter writes it (format.rs): every line where its block   *)
(* puts it, an expression with one space where one belongs, the lines of a list  *)
(* by their brackets, a body by what opened it, and blank lines between what     *)
(* does not belong together.  A result that means something else is not given.    *)
(***************************************************************************)
EXTENDS Parser

\* What is written so far, the blocks open, and whether this is still the comment a file begins with.
Empty == [lines |-> <<>>, stack |-> <<>>, heading |-> TRUE]
Depth(o) == Len(o.stack)
Line(kind, l) == [kind |-> kind, line |-> l]
BlankLine == [is |-> "blank", ind |-> 0, rhs |-> "code", code |-> <<>>, name |-> "", text |-> "", more |-> FALSE, note |-> FALSE]

\* Out::push, Out::blank and Out::opaque.
Push(o, depth, l, kind) ==
  [o EXCEPT !.lines = Append(@, IF Blank(l) THEN Line("blank", BlankLine) ELSE Line(kind, [l EXCEPT !.ind = depth])),
            !.heading = @ /\ kind \in {"comment", "description"}]
\* Mutant: the comment a file begins with goes on below a blank line.
PushBlankOn(o) == [o EXCEPT !.lines = Append(@, Line("blank", BlankLine))]
PushBlank(o) ==
  [o EXCEPT !.lines = Append(@, Line("blank", BlankLine)),
            !.heading = @ /\ \A i \in DOMAIN o.lines : o.lines[i].kind # "description"]
Opaque(o, ls) == [o EXCEPT !.lines = @ \o [i \in DOMAIN ls |-> Line("opaque", ls[i])]]

\* What a line does to the blocks that are open.
Opens(l) ==
  CASE l.is = "match" -> <<"match">>
    [] l.is \in {"do", "loop", "if", "while", "until", "retry", "for", "parallel for", "parallel do"} -> <<"body">>
    [] OTHER -> <<>>
Less(stack, n) == SubSeq(stack, 1, IF Len(stack) < n THEN 0 ELSE Len(stack) - n)
InCase(stack) == stack # <<>> /\ Last(stack) = "case"
OutOfCase(stack) == Less(stack, IF InCase(stack) THEN 1 ELSE 0)

Rendered(l) == IF l.rhs = "code" THEN [l EXCEPT !.code = Spaced(@)] ELSE l

\* The lines of a list that has not ended, each as deep as the brackets round it.
RECURSIVE Spill(_, _, _, _, _)
Spill(f, i, open, depth, o) ==
  IF open <= 0 \/ i > Len(f) THEN [i |-> i, o |-> o]
  ELSE LET b == Brackets(CodeOf(f[i]))
           level == depth + (IF open > b.leading THEN open - b.leading ELSE 0) IN
       Spill(f, i + 1, open + b.delta, depth, Push(o, level, Rendered(f[i]), "opaque"))

\* A body: the lines up to its `end`, moved together.
\* Mutant: each is moved to where a statement would be.
BodyFlat(body, depth) == [i \in DOMAIN body |-> IF Blank(body[i]) THEN BlankLine ELSE [body[i] EXCEPT !.ind = depth + 1]]
Body(body, depth) ==
  [i \in DOMAIN body |-> IF Blank(body[i]) THEN BlankLine ELSE [Dedented(body)[i] EXCEPT !.ind = @ + depth + 1]]
CopyBody(f, i, ind, depth, o) ==
  LET j == BodyEnd(f, i, ind)
      copied == Opaque(o, Body(SubSeq(f, i, j - 1), depth)) IN
  [i |-> j + 1, o |-> IF j <= Len(f) THEN Push(copied, depth, f[j], "close") ELSE copied]

KindOf(l) ==
  CASE Opens(l) # <<>> -> "open"
    [] l.is = "property" -> "property"
    [] l.is = "let" -> "let"
    [] OTHER -> "other"

\* One line, and the lines that are part of it.
LineAt(f, i, o) ==
  LET l == f[i]
      d == Depth(o)
      only(next) == [i |-> i + 1, o |-> next]
      spilled(at, next) == Spill(f, i + 1, Brackets(Rendered(l).code).delta, at, next) IN
  CASE Blank(l) -> only(PushBlank(o))
    [] l.is = "comment" -> only(Push(o, d, l, IF o.heading THEN "description" ELSE "comment"))
    [] l.is \in {"$", "detach $"} ->
         [i |-> Extent(f, i) + 1, o |-> Opaque(Push(o, d, l, "other"), SubSeq(f, i + 1, Extent(f, i)))]
    [] l.is \in {"exec", "detach exec"} \/ l.rhs = "exec" -> CopyBody(f, i + 1, l.ind, d, Push(o, d, l, "open"))
    [] l.is = "end" ->
         LET stack == Less(OutOfCase(o.stack), 1) IN only(Push([o EXCEPT !.stack = stack], Len(stack), l, "close"))
    [] l.is \in {"else", "else if"} ->
         LET stack == Less(o.stack, 1) IN
         spilled(Len(stack), Push([o EXCEPT !.stack = Append(stack, "body")], Len(stack), Rendered(l), "mid"))
    [] l.is \in {"case", "default"} ->
         LET stack == OutOfCase(o.stack) IN only(Push([o EXCEPT !.stack = Append(stack, "case")], Len(stack), l, "mid"))
    [] OTHER ->
         LET r == spilled(d, Push(o, d, Rendered(l), KindOf(l))) IN
         [r EXCEPT !.o.stack = @ \o Opens(l)]

RECURSIVE RenderFrom(_, _, _)
RenderFrom(f, i, o) == IF i > Len(f) THEN o.lines ELSE LET r == LineAt(f, i, o) IN RenderFrom(f, r.i, r.o)

-----------------------------------------------------------------------------
\* A statement and the comments above it, and whether its author left a blank line before it.
Unit(kind, lines, apart) == [kind |-> kind, lines |-> lines, apart |-> apart]

\* Where a missing blank line makes a file harder to read.
WantsBlank(before, kind) ==
  CASE kind \in {"close", "mid"} \/ before \in {"open", "mid"} -> FALSE
    [] before \in {"description", "close"} \/ kind = "open" -> TRUE
    [] before = "let" -> kind # "let"
    [] kind = "let" -> TRUE
    [] before = "property" -> kind # "property"
    [] OTHER -> FALSE

\* Comments wait for what they are about, and what is part of a statement goes with it.
Onto(units, l) == [units EXCEPT ![Len(units)].lines = Append(@, l)]
Grouped(acc, x) ==
  LET some == acc.units # <<>> IN
  CASE x.kind = "blank" ->
         LET apart == IF acc.pending = <<>> THEN acc.apart ELSE FALSE
             units == IF acc.pending = <<>> THEN acc.units ELSE Append(acc.units, Unit("comment", acc.pending, acc.apart)) IN
         [units |-> units, pending |-> <<>>, apart |-> apart \/ units # <<>>]
    [] x.kind = "comment" -> [acc EXCEPT !.pending = Append(@, x.line)]
    [] (x.kind = "description" /\ some /\ Last(acc.units).kind = "description") \/ (x.kind = "opaque" /\ some) ->
         [acc EXCEPT !.units = Onto(@, x.line)]
    [] x.kind \in {"description", "opaque"} /\ ~(some /\ (x.kind = "opaque" \/ Last(acc.units).kind = "description")) ->
         [acc EXCEPT !.units = Append(@, Unit(IF x.kind = "opaque" THEN "other" ELSE x.kind, <<x.line>>, FALSE))]
    [] OTHER -> [units |-> Append(acc.units, Unit(x.kind, Append(acc.pending, x.line), acc.apart)), pending |-> <<>>, apart |-> FALSE]
Units(lines) ==
  LET acc == FoldLeft(Grouped, [units |-> <<>>, pending |-> <<>>, apart |-> FALSE], lines) IN
  IF acc.pending = <<>> THEN acc.units ELSE Append(acc.units, Unit("comment", acc.pending, acc.apart))
\* finish: the units, a blank line where one was or belongs, and the file ended.
Finish(lines) ==
  LET us == Units(lines)
      Gapped(i) == (IF i > 1 /\ (us[i].apart \/ WantsBlank(us[i - 1].kind, us[i].kind)) THEN <<BlankLine>> ELSE <<>>) \o us[i].lines IN
  FoldLeft(LAMBDA out, i : out \o Gapped(i), <<>>, [i \in DOMAIN us |-> i]) \o <<BlankLine>>

Render(f) == Finish(RenderFrom(f, 1, Empty))
\* format: what was written, unless it would mean something else.
Formatted(f) ==
  LET before == Parse(f, FALSE)
      out == Render(f)
      after == Parse(out, FALSE) IN
  IF before.ok /\ after.ok /\ before.body = after.body THEN <<out>> ELSE <<>>
=============================================================================
