-------------------------------- MODULE Parser --------------------------------
(***************************************************************************)
(* The tree of a file (parser.rs, P), line by line.  A line is a record: `is`   *)
(* is what it begins with, `ind` how far it is indented, `name` what it binds,   *)
(* `code` its expression as text, unless `rhs` says that a command or a body     *)
(* stands there, `text` a command or a comment, `more` whether it ends in a      *)
(* backslash, `note` whether a comment is written after it.  A blank line has    *)
(* the blanks it is made of as its indentation.                                   *)
(* Only a binding has a body.  Left out: spans, `json` blocks, calls that hold    *)
(* a command, several names at once, interpolations, and how deep blocks nest.     *)
(***************************************************************************)
EXTENDS Grammar, FiniteSetsExt

Blank(l) == l.is = "blank"
Skipped(l) == l.is \in {"blank", "comment"}
Closers == {"end", "else", "else if", "case", "default"}
Is(f, i, kinds) == i \in DOMAIN f /\ f[i].is \in kinds
Skip(f, i) == CHOOSE j \in i .. Len(f) + 1 : /\ \A k \in i .. j - 1 : Skipped(f[k])
                                             /\ j = Len(f) + 1 \/ ~Skipped(f[j])

\* Where a line stands: the loops round it, the innermost parallel block, in a branch what it has bound,
\* and whether the tree is to say where a property stands.
NoFence == [loops |-> 0, iterates |-> FALSE, there |-> FALSE]
Top == [loops |-> 0, fence |-> NoFence, branch |-> FALSE, own |-> {}, placed |-> TRUE]

\* What was read: where it ends, the tree, and what the branch has bound by then.
Parsed(i, tree, own) == [ok |-> TRUE, i |-> i, tree |-> tree, own |-> own]
Failed == [ok |-> FALSE, i |-> 0, tree |-> <<>>, own |-> {}]
If(ok, r) == IF ok THEN r ELSE Failed

-----------------------------------------------------------------------------
\* The code of a line inside a list: a word that is a statement is a word there, and what begins
\* any other statement has no place in one.
CodeOf(l) ==
  CASE l.is = "call" -> l.code
    [] Skipped(l) -> <<>>
    [] l.is \in Words -> <<l.is>>
    [] OTHER -> <<"@">>
\* A statement goes on while its brackets are open.
RECURSIVE Gather(_, _, _, _)
Gather(f, i, code, depth) ==
  IF depth > 0 /\ i <= Len(f)
  THEN Gather(f, i + 1, code \o <<" ">> \o CodeOf(f[i]), depth + Brackets(CodeOf(f[i])).delta)
  ELSE [code |-> code, i |-> i]
Logical(f, i) == Gather(f, i + 1, f[i].code, Brackets(f[i].code).delta)

\* A body ends at an `end` as far in as what opened it, and at no other.
ClosesBody(l, ind) == l.is = "end" /\ l.ind = ind
BodyEnd(f, i, ind) == CHOOSE j \in i .. Len(f) + 1 : /\ \A k \in i .. j - 1 : ~ClosesBody(f[k], ind)
                                                     /\ j = Len(f) + 1 \/ ClosesBody(f[j], ind)
\* A body's lines, less the indentation they share.  A line of blanks keeps what it has beyond that.
Base(body) == LET inds == {body[i].ind : i \in {k \in DOMAIN body : ~Blank(body[k])}} IN IF inds = {} THEN 0 ELSE Min(inds)
Dedented(body) == [i \in DOMAIN body |-> [body[i] EXCEPT !.ind = IF @ >= Base(body) THEN @ - Base(body) ELSE 0]]
ExecBody(f, i, ind) ==
  LET j == BodyEnd(f, i, ind) IN
  [ok |-> j <= Len(f), i |-> j + 1, body |-> Dedented(SubSeq(f, i, j - 1))]

\* A command's lines, each as it is written after the first.
RECURSIVE Extent(_, _)
Extent(f, j) == IF f[j].more /\ j < Len(f) THEN Extent(f, j + 1) ELSE j
Command(f, j) == <<f[j].text>> \o SubSeq(f, j + 1, Extent(f, j))
\* `$` lines are one process, whatever blank lines and comments stand between them.
RECURSIVE RunOf(_, _, _, _)
RunOf(f, j, last, body) ==
  CASE Is(f, j, {"$"}) -> RunOf(f, Extent(f, j) + 1, Extent(f, j), Append(body, Command(f, j)))
    [] j \in DOMAIN f /\ Skipped(f[j]) -> RunOf(f, j + 1, last, body)
    [] OTHER -> [i |-> last + 1, body |-> body]
ShellRun(f, i, single) ==
  LET first == [i |-> Extent(f, i) + 1, body |-> <<Command(f, i)>>]
      all == IF single THEN first ELSE RunOf(f, first.i, first.i - 1, first.body) IN
  [i |-> all.i, tree |-> [is |-> "exec", detach |-> f[i].is = "detach $", body |-> all.body]]

\* The value at the end of a line: an expression, or a command, whose body may follow the line.
Value(f, g, l) ==
  LET e == ParseExpr(g.code)
      b == ExecBody(f, g.i, l.ind) IN
  CASE l.rhs = "code" -> [ok |-> e.ok, i |-> g.i, e |-> e.e]
    [] l.rhs = "$" -> [ok |-> TRUE, i |-> g.i, e |-> [is |-> "capture", command |-> l.text]]
    [] l.rhs = "exec" -> [ok |-> b.ok, i |-> b.i, e |-> [is |-> "capture", command |-> l.text, body |-> b.body]]

-----------------------------------------------------------------------------
RECURSIVE Statement(_, _, _, _), Block(_, _, _, _, _, _)

EmptyBlock == [properties |-> <<>>, statements |-> <<>>]
\* A property is one line, and is applied where it stands.
Property(b, l, c) ==
  LET after == IF c.placed THEN Len(b.statements) ELSE 0 IN
  [b EXCEPT !.properties = Append(@, [name |-> l.name, value |-> ParseExpr(l.code).e, after |-> after])]
\* In a `parallel do`, a name bound at once is bound for nobody, and a `$` line is a branch of its own.
BranchStatement(f, i, c) ==
  LET r == Statement(f, i, [c EXCEPT !.branch = TRUE, !.own = {}], TRUE) IN
  If(r.ok /\ r.tree.is # "let", Parsed(r.i, r.tree, c.own))
Block(f, from, inner, branches, c, b) ==
  LET i == Skip(f, from) IN
  CASE i > Len(f) \/ (inner /\ f[i].is \in Closers) -> Parsed(i, b, c.own)
    [] ~inner /\ Is(f, i, Closers) -> Failed
    [] Is(f, i, {"property"}) -> If(ParseExpr(f[i].code).ok, Block(f, i + 1, inner, branches, c, Property(b, f[i], c)))
    [] OTHER ->
         LET r == IF branches THEN BranchStatement(f, i, c) ELSE Statement(f, i, c, FALSE) IN
         If(r.ok, Block(f, r.i, inner, branches, [c EXCEPT !.own = r.own], [b EXCEPT !.statements = Append(@, r.tree)]))
Inside(f, i, c) == Block(f, i, TRUE, FALSE, c, EmptyBlock)
LoopBody(f, i, c) == Inside(f, i, [c EXCEPT !.loops = @ + 1])

\* The `end` that closes what was opened.
Closed(f, r) == If(r.ok /\ Is(f, r.i, {"end"}), [r EXCEPT !.i = @ + 1])
Made(r, Tree(_)) == If(r.ok, [r EXCEPT !.tree = Tree(r.tree)])

\* A chain is one block with one `end`: an `else if` is an `if` alone in its `else`.
RECURSIVE IfTail(_, _, _, _)
IfTail(f, i, cond, c) ==
  LET then == Inside(f, i, c)
      g == Logical(f, then.i)
      after == [c EXCEPT !.own = then.own]
      Tree(otherwise) == [is |-> "if", cond |-> cond, then |-> then.tree, otherwise |-> otherwise] IN
  CASE ~then.ok -> Failed
    [] then.ok /\ Is(f, then.i, {"else"}) -> Made(Inside(f, g.i, after), LAMBDA b : Tree(<<b>>))
    [] then.ok /\ Is(f, then.i, {"else if"}) ->
         LET v == Value(f, g, f[then.i]) IN
         If(v.ok, Made(IfTail(f, v.i, v.e, after), LAMBDA st : Tree(<<[EmptyBlock EXCEPT !.statements = <<st>>]>>)))
    [] OTHER -> Parsed(then.i, Tree(<<>>), then.own)

\* The cases of a match, and the last `default` there is.  Nothing stands before the first of them.
RECURSIVE Cases(_, _, _, _)
Cases(f, i, c, tree) ==
  LET r == Inside(f, i + 1, c)
      after == [c EXCEPT !.own = r.own] IN
  CASE Is(f, i, {"case"}) -> If(r.ok, Cases(f, r.i, after, [tree EXCEPT !.cases = Append(@, [label |-> f[i].text, body |-> r.tree])]))
    [] Is(f, i, {"default"}) -> If(r.ok, Cases(f, r.i, after, [tree EXCEPT !.default = <<r.tree>>]))
    [] OTHER -> Parsed(i, tree, c.own)

Retry(f, i, attempts, c) ==
  LET body == Inside(f, i, c)
      other == Inside(f, body.i + 1, [c EXCEPT !.own = body.own])
      Tree(otherwise) == [is |-> "retry", attempts |-> attempts, body |-> body.tree, otherwise |-> otherwise] IN
  IF Is(f, body.i, {"else", "else if"}) THEN Made(other, LAMBDA b : Tree(<<b>>)) ELSE Made(body, LAMBDA b : Tree(<<>>))

Fence(c, iterates) == [c EXCEPT !.fence = [loops |-> c.loops, iterates |-> iterates, there |-> TRUE]]
ParallelDo(f, i, c) ==
  Made(Block(f, i, TRUE, TRUE, Fence(c, FALSE), EmptyBlock), LAMBDA b : [is |-> "parallel do", body |-> b])
\* An iteration is a branch, and what it binds ends with it.
ParallelFor(f, i, l, e, c) ==
  LET r == LoopBody(f, i, [Fence(c, TRUE) EXCEPT !.branch = TRUE, !.own = {l.name}]) IN
  If(r.ok, Parsed(r.i, [is |-> "parallel for", name |-> l.name, iter |-> e, body |-> r.tree], c.own))
\* A loop's name is the branch's own while it goes on.
For(f, i, l, e, c) ==
  LET r == LoopBody(f, i, IF c.branch THEN [c EXCEPT !.own = @ \cup {l.name}] ELSE c) IN
  If(r.ok, Parsed(r.i, [is |-> "for", name |-> l.name, iter |-> e, body |-> r.tree], r.own \ ({l.name} \ c.own)))

\* `break` and `continue` leave a loop that is inside every parallel block round them, and a
\* `parallel for` is only left by `continue`.
Leaves(is, c) ==
  LET opened == c.loops - c.fence.loops IN
  /\ c.loops > 0
  /\ c.fence.there => opened # 0 /\ ~(c.fence.iterates /\ opened = 1 /\ is = "break")
\* A name bound outside a branch is not reassigned in it.
MayReassign(l, c) == c.branch => l.name \in c.own

Statement(f, i, c, unfold) ==
  LET l == f[i]
      g == Logical(f, i)
      v == Value(f, g, l)
      block == ExecBody(f, i + 1, l.ind)
      Binds(is) == [is |-> is, name |-> l.name, value |-> v.e] IN
  CASE l.is \in {"$", "detach $"} -> LET r == ShellRun(f, i, unfold \/ l.is = "detach $") IN Parsed(r.i, r.tree, c.own)
    [] l.is \in {"exec", "detach exec"} ->
         If(block.ok, Parsed(block.i, [is |-> "exec", command |-> l.text, detach |-> l.is = "detach exec", body |-> block.body], c.own))
    [] l.is = "let" -> If(v.ok, Parsed(v.i, Binds("let"), IF c.branch THEN c.own \cup {l.name} ELSE c.own))
    [] l.is = "set" -> If(v.ok /\ MayReassign(l, c), Parsed(v.i, Binds("set"), c.own))
    [] l.is = "call" -> If(v.ok /\ HasEffect(v.e), Parsed(v.i, [is |-> "call", value |-> v.e], c.own))
    [] l.is = "run" -> Parsed(i + 1, [is |-> "run", words |-> l.text], c.own)
    [] l.is \in {"break", "continue"} -> If(Leaves(l.is, c), Parsed(i + 1, [is |-> l.is], c.own))
    [] l.is = "do" -> Closed(f, Made(Inside(f, i + 1, c), LAMBDA b : [is |-> "do", body |-> b]))
    [] l.is = "if" -> If(v.ok, Closed(f, IfTail(f, v.i, v.e, c)))
    [] l.is = "loop" -> Closed(f, Made(LoopBody(f, i + 1, c), LAMBDA b : [is |-> "loop", body |-> b]))
    [] l.is \in {"while", "until"} -> If(v.ok, Closed(f, Made(LoopBody(f, v.i, c), LAMBDA b : [is |-> l.is, cond |-> v.e, body |-> b])))
    [] l.is = "retry" -> If(v.ok, Closed(f, Retry(f, v.i, v.e, c)))
    [] l.is = "match" -> If(v.ok, Closed(f, Cases(f, v.i, c, [is |-> "match", subject |-> v.e, cases |-> <<>>, default |-> <<>>])))
    [] l.is = "for" -> If(v.ok, Closed(f, For(f, v.i, l, v.e, c)))
    [] l.is = "parallel for" -> If(v.ok, Closed(f, ParallelFor(f, v.i, l, v.e, c)))
    [] l.is = "parallel do" -> Closed(f, ParallelDo(f, i + 1, c))

\* The whole file, and what it says of itself above the first line of code.
Description(f) ==
  LET from == CHOOSE i \in 1 .. Len(f) + 1 : /\ \A k \in 1 .. i - 1 : Blank(f[k])
                                             /\ i = Len(f) + 1 \/ ~Blank(f[i])
      to == CHOOSE j \in from .. Len(f) + 1 : /\ \A k \in from .. j - 1 : f[k].is = "comment"
                                              /\ j = Len(f) + 1 \/ f[j].is # "comment" IN
  [i \in 1 .. to - from |-> f[from + i - 1].text]
Parse(f, placed) ==
  LET r == Block(f, 1, FALSE, FALSE, [Top EXCEPT !.placed = placed], EmptyBlock) IN
  [ok |-> r.ok, body |-> r.tree, description |-> Description(f)]

\* fingerprint: what a target does, without its positions, a property's among the statements included.
Fingerprint(f) == Parse(f, FALSE).body
=============================================================================
