------------------------------- MODULE MCFormat -------------------------------
(* Files of a few shapes: every few lines, and every construct with lines in it. *)
EXTENDS Tidy

New(is) == [BlankLine EXCEPT !.is = is]
B(n) == [BlankLine EXCEPT !.ind = n]
Comment == [New("comment") EXCEPT !.text = "c"]
Shell == [New("$") EXCEPT !.text = "t"]
Goes(l) == [l EXCEPT !.more = TRUE]
Code(is, code) == [New(is) EXCEPT !.code = code]
A == <<"a">>
CallA == <<"a", "(", ")">>
Call == Code("call", CallA)
Let(code) == [Code("let", code) EXCEPT !.name = "x"]
Set(code) == [Code("set", code) EXCEPT !.name = "x"]
Rhs(l, rhs) == [l EXCEPT !.rhs = rhs, !.text = "t", !.code = <<>>]
In(n, l) == [l EXCEPT !.ind = n]
Also(l) == [l EXCEPT !.note = TRUE]
Prop == [Code("property", <<"1">>) EXCEPT !.name = "p"]
Exec == [New("exec") EXCEPT !.text = "t"]
End == New("end")
Case == [New("case") EXCEPT !.text = "l"]

\* Every character after every other, and pieces of expressions side by side.
Chars == {"a", "1", "-", "!", "=", "<", "[", "]", "(", ")", ",", ".", "?", Literal, "ARG", " "}
Codes == (Chars \X Chars) \cup (Chars \X Chars \X Chars)
Pieces == {<<"a">>, <<"1">>, <<"-">>, <<" ", "-", " ">>, <<"!">>, <<"=", "=">>, <<"?">>, <<" ">>, <<"+">>, <<",">>, <<"a", "-">>,
           <<"a", "[", "1", "]">>, <<"(", "a", ")">>, <<"[", "a", ",", "]">>, <<"a", "(", "-", "a", ")">>, <<"ARG", " ", ".", "a">>, <<Literal>>}
WriteExpression ==
  \/ \E c \in Codes : Write(<<Let(c)>>)
  \/ \E p, q, r \in Pieces : Write(<<Let(p \o q \o r)>>)

\* Lines that open no block.
Plain == {B(0), Comment, Shell, Goes(Shell), Also(Call), Let(A), Prop, Rhs(Let(A), "$"), [Shell EXCEPT !.is = "detach $"]}
WritePlain == \E a, b, c \in Plain, d \in {Comment, Shell, Goes(Shell)} : Write(<<a, b, c, d>>)

\* A list on lines of its own, and bodies, wherever their lines stand.
InList == {B(0), Comment, Also(Code("call", <<"1", ",">>)), Code("call", <<"[", "a">>), Code("call", <<"]", ",">>), Code("call", <<"]">>), Code("call", <<"]", "]">>), End}
WriteList ==
  \E l \in {Let(<<"[">>), Set(<<"a", "(", "[">>), Code("for", <<"[">>), Code("if", <<"a", "[">>)}, a, b, c \in InList, d \in {Call, Let(A), End} :
    Write(<<l, a, b, c, d, IF l.is \in {"for", "if"} THEN End ELSE B(0)>>)
InBody == {B(0), B(3), Comment, In(2, Goes(Shell)), In(1, End), In(3, Also(Call)), End}
WriteBody ==
  \E l \in {Exec, [Exec EXCEPT !.is = "detach exec"], Rhs(Let(A), "exec")}, n \in 0 .. 1, a, b, c \in InBody, d \in {End, Also(In(1, End)), Let(A)} :
    Write(<<Shell, In(n, l), a, b, c, d>>)

\* Every construct, with lines above it, in it and below it.
Opener == {Code("if", A), Rhs(New("while"), "$"), New("loop"), New("do"), New("parallel do"), Code("for", A), Code("parallel for", A), Code("retry", <<"1">>)}
Lines == {B(0), Comment, Shell, Let(A), Set(A), Prop, New("break"), New("continue")}
Few == {B(0), Comment, Shell, Let(A), Prop}
WriteBlock ==
  \/ \E o \in Opener, a \in {Let(A), Shell, Comment}, b \in Lines, c \in Few, d \in Few : Write(<<a, In(1, o), b, c, Also(End), d>>)
  \/ \E o \in Opener, p \in Opener, a, b \in Lines \ {Comment, Shell, Prop} : Write(<<o, p, a, Let(A), End, b, End>>)
  \/ \E o \in {Code("if", A), Code("retry", <<"1">>), New("do")}, e \in {New("else"), Code("else if", A), Rhs(New("else if"), "$")}, f \in {New("else"), B(0)},
        a, b \in Few : Write(<<o, a, Also(e), b, f, a, End>>)
  \/ \E m \in {Code("match", A), Rhs(New("match"), "$")}, e \in {Case, New("default"), Comment}, f \in {Case, New("default"), B(0)}, a, b \in Few :
        Write(<<m, e, a, Code("if", A), b, End, f, b, End, a>>)

TNext == (file = <<>> /\ (WriteExpression \/ WritePlain \/ WriteList \/ WriteBody \/ WriteBlock)) \/ Format
TSpec == TInit /\ [][TNext]_tvars
=============================================================================
