------------------------------- MODULE Grammar -------------------------------
(***************************************************************************)
(* Expressions: the tree of a sequence of tokens (parser.rs, E).  Every        *)
(* operator answers with where it stopped, 0 when there is no reading.  How     *)
(* deep an expression may nest is left out.                                      *)
(***************************************************************************)
EXTENDS Lexer

At(at, e) == [at |-> at, e |-> e]
NoExpr == At(0, <<>>)
Sees(t, i, text) == i \in DOMAIN t /\ t[i] = Punct(text)

\* The operators of each level, the loosest first.
Levels == << {<<"?">>}, {<<"|", "|">>}, {<<"&", "&">>},
             {<<"=", "=">>, <<"!", "=">>, <<"<", "=">>, <<">", "=">>, <<"<">>, <<">">>},
             {<<"+">>, <<"-">>}, {<<"*">>, <<"/">>, <<"%">>} >>
OperatorAt(t, i, n) == i \in DOMAIN t /\ t[i].is = "punct" /\ t[i].text \in Levels[n]

RECURSIVE Level(_, _, _), Unary(_, _)
\* What follows an operand at its level, taken to the left.
RECURSIVE Climb(_, _, _)
Climb(t, lhs, n) ==
  IF lhs.at = 0 \/ ~OperatorAt(t, lhs.at, n) THEN lhs
  ELSE LET rhs == Level(t, lhs.at + 1, n + 1) IN
       IF rhs.at = 0 THEN NoExpr
       ELSE Climb(t, At(rhs.at, [is |-> "both", op |-> t[lhs.at].text, lhs |-> lhs.e, rhs |-> rhs.e]), n)
Level(t, i, n) == IF n > Len(Levels) THEN Unary(t, i) ELSE Climb(t, Level(t, i, n + 1), n)
Chain(t, i) == Level(t, i, 1)

\* Expressions with commas between them, and one allowed after the last.
RECURSIVE ItemsTo(_, _, _, _)
ItemsTo(t, i, close, items) ==
  LET r == Chain(t, i)
      all == Append(items, r.e) IN
  CASE r.at = 0 -> NoExpr
    [] r.at # 0 /\ Sees(t, r.at, close) -> At(r.at + 1, all)
    [] r.at # 0 /\ Sees(t, r.at, <<",">>) /\ Sees(t, r.at + 1, close) -> At(r.at + 2, all)
    [] r.at # 0 /\ Sees(t, r.at, <<",">>) /\ ~Sees(t, r.at + 1, close) -> ItemsTo(t, r.at + 1, close, all)
    [] OTHER -> NoExpr
Items(t, i, close) == IF Sees(t, i, close) THEN At(i + 1, <<>>) ELSE ItemsTo(t, i, close, <<>>)

\* The expression from i to a closing sign.
Enclosed(t, i, close) == LET r == Chain(t, i) IN IF r.at # 0 /\ Sees(t, r.at, close) THEN At(r.at + 1, r.e) ELSE NoExpr

Named(t, i, word) ==
  CASE word = <<"ARG">> ->
         IF Sees(t, i, <<".">>) /\ i + 1 \in DOMAIN t /\ t[i + 1].is = "word"
         THEN At(i + 2, [is |-> "source", key |-> t[i + 1].text]) ELSE NoExpr
    [] word = <<"ARGS">> -> At(i, [is |-> "source", key |-> <<>>])
    [] word = <<"true">> -> At(i, [is |-> "bool"])
    [] OTHER -> At(i, [is |-> "ident", name |-> word])
Primary(t, i) ==
  CASE i \notin DOMAIN t -> NoExpr
    [] i \in DOMAIN t /\ t[i].is \in {"num", "str"} -> At(i + 1, [is |-> t[i].is, val |-> t[i].text])
    [] i \in DOMAIN t /\ t[i].is = "word" -> Named(t, i + 1, t[i].text)
    [] Sees(t, i, <<"[">>) -> LET r == Items(t, i + 1, <<"]">>) IN IF r.at = 0 THEN r ELSE At(r.at, [is |-> "list", items |-> r.e])
    [] Sees(t, i, <<"(">>) -> Enclosed(t, i + 1, <<")">>)
    [] OTHER -> NoExpr

RECURSIVE Postfix(_, _)
\* An index of anything, a call of a name only.
Postfix(t, r) ==
  CASE r.at # 0 /\ Sees(t, r.at, <<"[">>) ->
         LET i == Enclosed(t, r.at + 1, <<"]">>) IN
         IF i.at = 0 THEN i ELSE Postfix(t, At(i.at, [is |-> "index", lhs |-> r.e, rhs |-> i.e]))
    [] r.at # 0 /\ Sees(t, r.at, <<"(">>) ->
         LET args == Items(t, r.at + 1, <<")">>) IN
         IF args.at = 0 \/ r.e.is # "ident" THEN NoExpr
         ELSE Postfix(t, At(args.at, [is |-> "call", name |-> r.e.name, args |-> args.e]))
    [] OTHER -> r
Unary(t, i) ==
  IF Sees(t, i, <<"!">>) \/ Sees(t, i, <<"-">>)
  THEN LET r == Unary(t, i + 1) IN IF r.at = 0 THEN r ELSE At(r.at, [is |-> "unary", op |-> t[i].text, rhs |-> r.e])
  ELSE Postfix(t, Primary(t, i))

\* parse_expr: all of the text, and the tree of it.
ParseExpr(s) ==
  LET t == Tokenize(s)
      r == IF Lexes(s) THEN Chain(t, 1) ELSE NoExpr IN
  [ok |-> r.at = Len(t) + 1, e |-> r.e]

RECURSIVE HasEffect(_)
HasEffect(e) ==
  \/ e.is \in {"call", "capture"}
  \/ e.is = "unary" /\ HasEffect(e.rhs)
  \/ e.is \in {"both", "index"} /\ (HasEffect(e.lhs) \/ HasEffect(e.rhs))
  \/ e.is = "list" /\ \E i \in DOMAIN e.items : HasEffect(e.items[i])
=============================================================================
