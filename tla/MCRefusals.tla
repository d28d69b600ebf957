----------------------------- MODULE MCRefusals -----------------------------
(* Targets of a few shapes.  Every node of one is at a place of its own.      *)
EXTENDS Refusals, Integers, Sequences, FiniteSets

CONSTANT NestedTry   \* whether an operation may be applied to what a `try` may have caught

MCNames == {"x", "y"}

\* The parts of the program, and what each answers.
C == INSTANCE Checks WITH Os <- R!OsNames, Compiles <- R!Compiles, IsTime <- R!IsTime, IsFormat <- R!IsFormat, Verbs <- R!Verbs
S == INSTANCE Scopes WITH Functions <- DOMAIN C!Signatures
I == INSTANCE Needs
MCWellFormed(target) == LET read == {target.shared, target.body} IN \A b \in read : S!Parses(b)
MCSaid(target) == LET found == C!Found(target) IN
  [unresolved |-> S!NamesUnresolved(target), mistakes |-> found, inputs |-> I!InputsOf(target)]
MCTypesOf(target) == LET types == C!NamesOf(target) IN types
MCShows(target) == LET run == R!RunTarget(target) IN run.seen

Lit(v) == [is |-> "lit", val |-> v]
Word(w) == Lit(R!Str(w))
Number(n) == Lit(R!Num(n))
True == Lit(R!Bool(TRUE))
Ident(n, at) == [is |-> "ident", name |-> n, at |-> at]
Input(kind) == [is |-> "source", kind |-> kind]
Run(key, at) == [is |-> "source", kind |-> "RUN", key |-> key, at |-> at]
ListOf(es) == [is |-> "list", items |-> es]
Not(e, at) == [is |-> "not", rhs |-> e, at |-> at]
Neg(e, at) == [is |-> "neg", rhs |-> e, at |-> at]
Op(is, op, l, r, at) == [is |-> is, op |-> op, lhs |-> l, rhs |-> r, at |-> at]
Call(name, args, at) == [is |-> "call", name |-> name, args |-> args, at |-> at]
Capture(at) == [is |-> "capture", items |-> <<>>, at |-> at]
Try(e, at) == Call("try", <<e>>, at)

\* A property above the first statement is the block's.
Block(ps, sts) ==
  LET rest == {i \in DOMAIN sts : sts[i].is # "property"}
      k == IF rest = {} THEN Len(sts) ELSE (CHOOSE i \in rest : \A j \in rest : i <= j) - 1 IN
  [properties |-> ps \o SubSeq(sts, 1, k), statements |-> SubSeq(sts, k + 1, Len(sts))]
Sts(sts) == Block(<<>>, sts)
Env(e) == [is |-> "property", value |-> e, env |-> TRUE]
Plain(e) == [is |-> "property", value |-> e, env |-> FALSE]
Let(names, e, at) == [is |-> "let", names |-> names, value |-> e, at |-> at]
Set(names, e, at) == [is |-> "set", names |-> names, value |-> e, at |-> at]
CallSt(e, at) == [is |-> "call", value |-> e, at |-> at]
Echo(n, at) == CallSt(Call("concat", <<Ident(n, at + 1)>>, at + 2), at)
RunSt(e, at) == [is |-> "run", parts |-> <<e>>, at |-> at]
IfSt(c, b, o, at) == [is |-> "if", cond |-> c, then |-> b, otherwise |-> o, at |-> at]
Match(s, cases, d, at) == [is |-> "match", subject |-> s, cases |-> cases, default |-> d, at |-> at]
Case(label, b) == [label |-> label, body |-> b]
Retry(n, b, o, at) == [is |-> "retry", attempts |-> n, body |-> b, otherwise |-> o, at |-> at]
Loop(t, w, b, at) == [is |-> "loop", test |-> t, while |-> w, body |-> b, at |-> at]
For(is, names, e, b, at) == [is |-> is, names |-> names, iter |-> e, body |-> b, at |-> at]
Do(is, b) == [is |-> is, body |-> b]
Target(shared, body, ignored) == [shared |-> shared, body |-> body, ignored |-> ignored]
Alone(sts) == Target(Sts(<<>>), Sts(sts), FALSE)

-----------------------------------------------------------------------------
Atoms(at) == {Word("word"), Word("1"), Number(0), True, Ident("x", at), Input("ARG"), Input("FLAG"), Input("ARGS"),
              Run("os", at), Run("oss", at), ListOf(<<>>), ListOf(<<Number(1), Word("word")>>)}
Few(at) == {Word("word"), Number(0), True, Ident("x", at), Input("ARG"), Input("ARGS")}

Unary(at, As) ==
  {Not(e, at) : e \in As} \cup {Neg(e, at) : e \in As} \cup {Try(e, at) : e \in As}
  \cup {Call(f, <<e>>, at) : f \in {"first", "sort", "flatten", "length", "number", "lines", "exit", "code_of", "exists"}, e \in As}
Binary(at, Ls, Rs) ==
  {Op("both", o, l, r, at) : o \in {"&&", "||"}, l \in Ls, r \in Rs}
  \cup {Op("arith", o, l, r, at) : o \in {"+", "/", "<"}, l \in Ls, r \in Rs}
  \cup {Op(k, k, l, r, at) : k \in {"equal", "chain", "index"}, l \in Ls, r \in Rs}
  \cup {Call(f, <<l, r>>, at) : f \in {"append", "contains", "one_of", "zip", "index_of"}, l \in Ls, r \in Rs}
  \cup {Call("slice", <<l, r, Number(1)>>, at) : l \in Ls, r \in Rs} \cup {Call("exit", <<l, r>>, at) : l \in Ls, r \in Rs}

Captures(at) == {Capture(at), Call("code_of", <<Capture(at + 1)>>, at), Call("lines", <<Capture(at + 1)>>, at),
                 Call("one_of", <<Input("ARG"), Capture(at + 1)>>, at), Try(Capture(at + 1), at)}
\* What `try` caught reaches the operation around it as no value at all.
Tries(at) == IF NestedTry THEN {Call("number", <<Try(Input("ARG"), at + 1)>>, at), Not(Try(Input("ARG"), at + 1), at)} ELSE {}
Firsts == Atoms(10) \cup Captures(10) \cup Tries(10)
            \cup {Op("chain", "?", Input("ARG"), Number(1), 10), Try(Input("ARG"), 10), Call("number", <<Input("ARG")>>, 10),
                  Call("zip", <<Input("ARGS"), Input("ARGS")>>, 10), Op("equal", "==", Run("os", 11), Word("linux"), 10)}
\* What is asked of a name, and of anything else.
OfX(at) == Unary(at, {Ident("x", at + 1)}) \cup Binary(at, {Ident("x", at + 1)}, Few(at + 2)) \cup Binary(at, Few(at + 1), {Ident("x", at + 2)})
Exprs(at) == Atoms(at) \cup Unary(at, Atoms(at + 1)) \cup Binary(at, Few(at + 1), Few(at + 2)) \cup Captures(at) \cup Tries(at)

\* A value bound, and an expression of it, in each place a statement has for one.
InPlaces(e) == {Let(<<"y">>, e, 30), CallSt(e, 30), Let(<<"x", "y">>, e, 30), IfSt(e, Sts(<<Echo("x", 40)>>), <<>>, 30),
                For("for", <<"y">>, e, Sts(<<Echo("y", 40)>>), 30), For("parallel for", <<"x", "y">>, e, Sts(<<>>), 30),
                Match(e, <<Case("1", Sts(<<>>)), Case("true", Sts(<<>>)), Case("1", Sts(<<>>))>>, <<Sts(<<>>)>>, 30)}
\* The parser reads no command in these.
InOthers(e) == {Retry(e, Sts(<<Echo("x", 40)>>), <<>>, 30), RunSt(e, 30)}
AskExpression ==
  \/ \E f \in Firsts, e \in OfX(20) : Load(Alone(<<Let(<<"x">>, f, 1), Let(<<"y">>, e, 30)>>))
  \/ \E e \in Exprs(20) : Load(Alone(<<Let(<<"x">>, Number(1), 1), Let(<<"y">>, e, 30)>>))
  \/ \E f \in Firsts : \E st \in InPlaces(Ident("x", 20)) \cup InOthers(Ident("x", 20)) : Load(Alone(<<Let(<<"x">>, f, 1), st>>))
  \/ \E e \in Atoms(20) \cup Captures(20) : \E st \in InPlaces(e) : Load(Alone(<<Let(<<"x">>, Number(1), 1), st>>))
  \/ \E e \in Atoms(20) : \E st \in InOthers(e) : Load(Alone(<<Let(<<"x">>, Number(1), 1), st>>))

\* Every function there is, of every few values, and one there is not.
Functions == DOMAIN C!Signatures \cup {"exists"}
Atoms1 == {Word("word"), Word("1"), Number(0), Neg(Number(1), 25), True, ListOf(<<Word("word")>>), Input("ARG")}
Special == {Word("["), Word("%"), Word("%d"), Word("%s"), Word("year")}
AskCall ==
  \E f \in Functions \ {"try"} :
    \E args \in {<<>>} \cup {<<a>> : a \in Atoms1 \cup Special} \cup (Atoms1 \X Atoms1) \cup (Special \X Atoms1) \cup (Atoms1 \X Special)
                  \cup ({Word("word"), Number(0), True} \X {Word("word"), Number(0), Word("[")} \X {Word("word"), Number(0), Neg(Number(1), 25)}) :
      Load(Alone(<<Let(<<"y">>, Call(f, args, 20), 30), Let(<<"x">>, Call("length", <<Ident("y", 21)>>, 22), 40)>>))

AskMatch ==
  \/ \E f \in {Run("os", 10), Op("chain", "?", Run("os", 10), Run("os", 11), 12), Number(1), Word("word"), True},
        c \in {Ident("x", 20), Capture(20), Op("chain", "?", Ident("x", 20), Word("word"), 21)},
        a \in {"linux", "true", "1"}, b \in {"darwin", "1", "word"}, d \in {<<>>, <<Sts(<<>>)>>} :
        Load(Alone(<<Let(<<"x">>, f, 1), Match(c, <<Case(a, Sts(<<>>)), Case(b, Sts(<<>>))>>, d, 30)>>))
  \/ \E f \in {Run("os", 10), Op("chain", "?", Run("os", 10), Word("word"), 11)}, w \in {"linux", "darwin", "word"} :
        Load(Alone(<<Let(<<"x">>, f, 1), Let(<<"y">>, Op("equal", "==", Ident("x", 20), Word(w), 21), 30)>>))

-----------------------------------------------------------------------------
\* Statements that bind, read and fail, in the blocks there are.
Simple(at) == {Let(<<"x">>, Word("word"), at), Let(<<"y">>, Ident("x", at + 1), at), Set(<<"y">>, True, at),
               CallSt(Call("length", <<Ident("y", at + 1)>>, at + 2), at), RunSt(Ident("x", at + 1), at)}
Leaves(is) == IF is \in {"for", "while", "loop"} THEN {[is |-> "break"], [is |-> "continue"]}
              ELSE IF is = "parallel for" THEN {[is |-> "continue"]} ELSE {}
Constructs == {"if", "match", "do", "retry", "retry else", "while", "loop", "for", "parallel for", "parallel do"}
Bodies(is, at) == {<<a, b>> : a \in Simple(at), b \in Simple(at + 10) \cup Leaves(is)}
Construct(is, b, at) ==
  CASE is = "if" -> IfSt(Input("FLAG"), b, <<Sts(<<Let(<<"y">>, Number(1), at + 5)>>)>>, at)
    [] is = "match" -> Match(Input("ARG"), <<Case("1", b)>>, <<Sts(<<Echo("y", at + 5)>>)>>, at)
    [] is = "do" -> Do("do", b)
    [] is = "parallel do" -> Do("parallel do", b)
    [] is = "retry" -> Retry(Number(2), b, <<>>, at)
    [] is = "retry else" -> Retry(Number(2), b, <<Sts(<<Echo("y", at + 5)>>)>>, at)
    [] is = "while" -> Loop(<<Op("chain", "?", Op("equal", "==", Ident("y", at + 1), True, at + 2), Input("FLAG"), at + 3)>>, TRUE, b, at)
    [] is = "loop" -> Loop(<<>>, TRUE, b, at)
    [] is \in {"for", "parallel for"} -> For(is, <<"x">>, Input("ARGS"), b, at)

Headers(at) == {<<>>, <<Plain(Ident("x", at))>>}
Before(at) == {<<>>, <<Let(<<"x">>, Number(1), at)>>, <<Let(<<"y">>, Number(1), at)>>}
After(at) == <<Echo("x", at), Echo("y", at + 5)>>
AskBlock ==
  \E is \in Constructs, pre \in Before(1), h \in Headers(2), ignored \in BOOLEAN : \E b \in Bodies(is, 20) :
    /\ ignored => h = <<>>
    /\ Load(Target(Sts(<<>>), Sts(pre \o <<Construct(is, Block(h, b), 50)>> \o After(80)), ignored))
\* Three lines round a loop: what the last binds, the first may read.
AskRound ==
  \E is \in {"while", "loop", "retry", "for"}, a \in Simple(20), b \in Simple(30) :
    Load(Alone(<<Let(<<"x">>, Number(1), 1), Construct(is, Sts(<<a, b, Let(<<"x">>, Word("word"), 40)>>), 50)>>))
AskNested ==
  \E is, in \in Constructs \ {"retry"}, pre \in Before(1), b \in Simple(20), c \in {Let(<<"y">>, Ident("x", 31), 30), Set(<<"y">>, True, 30)} :
    Load(Alone(pre \o <<Construct(is, Sts(<<Construct(in, Sts(<<b>>), 60), c>>), 50)>> \o After(80)))

\* A property between two lines, a `.env` above or below what reads it, and a shared file.
Reads(at) == {RunSt(Input("ENV"), at), RunSt(Op("chain", "?", Input("ENV"), Input("ARG"), at + 1), at),
              RunSt(Op("chain", "?", Input("ARG"), Input("ENV"), at + 1), at), RunSt(Try(Input("ENV"), at + 1), at),
              RunSt(Op("chain", "?", Number(1), Input("ENV"), at + 1), at), Env(Input("ENV")), Env(Word("word"))}
Wrapped(b) == {Do("do", b), Do("parallel do", b), Retry(Number(1), b, <<Sts(<<RunSt(Input("ENV"), 70)>>)>>, 71),
               Loop(<<Op("equal", "==", Input("ENV"), Word("word"), 72)>>, TRUE, b, 73)}
AskEnvironment ==
  \E h, h2 \in {<<>>, <<Env(Word("word"))>>}, a \in Reads(20), b \in Reads(30), c \in {RunSt(Input("ENV"), 60), Env(Word("word"))} :
    \E w \in Wrapped(Block(h2, <<a, b>>)) : Load(Target(Block(h, <<>>), Sts(<<w, c>>), FALSE))
AskShared ==
  \E a \in Simple(20) \cup {Env(Ident("x", 29)), Let(<<"x">>, Capture(21), 20)},
     b \in Simple(30) \cup {Do("do", Sts(<<Let(<<"y">>, True, 30)>>))}, c \in Simple(40) :
    Load(Target(Sts(<<a, b>>), Sts(<<c>> \o After(80)), FALSE))

Ask == AskExpression \/ AskCall \/ AskMatch \/ AskBlock \/ AskRound \/ AskNested \/ AskEnvironment \/ AskShared
MCNext == (asked = <<>> /\ Ask) \/ RunIt
MCSpec == Init /\ [][MCNext]_vars
=============================================================================
