-------------------------------- MODULE Lexer --------------------------------
(***************************************************************************)
(* An expression as text, as tokens, and as the formatter writes it again     *)
(* (lexer.rs, and `spaced` of format.rs).  A text is a sequence of characters;  *)
(* a word of several letters is one of them, and so is a whole string literal,   *)
(* which both sides copy as it is.  What is between quotes, its escapes and       *)
(* its interpolations are left out.                                              *)
(***************************************************************************)
EXTENDS Integers, Sequences, SequencesExt

Words == {"end", "else", "default", "do", "loop", "break", "continue"}
Letters == {"a", "b", "ARG", "ARGS", "true"} \cup Words
Digits == {"1"}
WordChars == Letters \cup Digits \cup {"-"}
Literal == "\"a\""
Signs == {"+", "-", "*", "/", "%", "<", ">", "!", "?", "[", "]", "(", ")", ",", "."}
Pairs == {<<"=", "=">>, <<"!", "=">>, <<"<", "=">>, <<">", "=">>, <<"&", "&">>, <<"|", "|">>}

Token(is, text) == [is |-> is, text |-> text]
Bad == Token("bad", <<>>)
Punct(text) == Token("punct", text)

\* How far the characters of C go on from i.
Through(s, i, C) == CHOOSE j \in i - 1 .. Len(s) : /\ \A k \in i .. j : s[k] \in C
                                                   /\ j = Len(s) \/ s[j + 1] \notin C
Dots(text) == Len(SelectSeq(text, LAMBDA ch : ch = "."))

\* The token that begins at i: the longest there is, and a name takes a `-` with it.
TokenAt(s, i) ==
  CASE s[i] = Literal -> Token("str", <<s[i]>>)
    [] s[i] \in Digits -> LET n == SubSeq(s, i, Through(s, i, Digits \cup {"."})) IN IF Dots(n) <= 1 THEN Token("num", n) ELSE Bad
    [] s[i] \in Letters -> Token("word", SubSeq(s, i, Through(s, i, WordChars)))
    [] i < Len(s) /\ SubSeq(s, i, i + 1) \in Pairs -> Punct(SubSeq(s, i, i + 1))
    [] s[i] \in Signs /\ ~(i < Len(s) /\ SubSeq(s, i, i + 1) \in Pairs) -> Punct(<<s[i]>>)
    [] OTHER -> Bad

RECURSIVE TokensFrom(_, _)
TokensFrom(s, i) ==
  CASE i > Len(s) -> <<>>
    [] i <= Len(s) /\ s[i] = " " -> TokensFrom(s, i + 1)
    [] OTHER -> LET t == TokenAt(s, i) IN IF t = Bad THEN <<Bad>> ELSE <<t>> \o TokensFrom(s, i + Len(t.text))
Tokenize(s) == TokensFrom(s, 1)
Lexes(s) == \A i \in DOMAIN Tokenize(s) : Tokenize(s)[i] # Bad

-----------------------------------------------------------------------------
\* How a line moves the depth of its brackets, and how many it closes before anything else.
Opening == Punct(<<"[">>)
Closing == Punct(<<"]">>)
Brackets(s) ==
  FoldLeft(LAMBDA acc, t :
             CASE t = Opening -> [acc EXCEPT !.delta = @ + 1, !.still = FALSE]
               [] t = Closing -> [acc EXCEPT !.delta = @ - 1, !.leading = IF acc.still THEN @ + 1 ELSE @]
               [] t = Punct(<<",">>) -> acc
               [] OTHER -> [acc EXCEPT !.still = FALSE],
           [delta |-> 0, leading |-> 0, still |-> TRUE], Tokenize(s))

\* What a token is to the gap before it and after it.
Class(t) ==
  CASE t.is # "punct" -> "atom"
    [] t.text \in {<<"(">>, <<"[">>} -> "open"
    [] t.text \in {<<")">>, <<"]">>} -> "close"
    [] t.text = <<",">> -> "comma"
    [] t.text = <<".">> -> "dot"
    [] OTHER -> "op"

\* Whether there is a space before a token of this class.
Gap(before, unary, class) ==
  CASE class \in {"close", "comma", "dot"} -> FALSE
    [] class = "open" -> before \notin {"atom", "close", "open", "dot"}
    [] OTHER -> ~(before \in {"dot", "open"} \/ (before = "op" /\ unary))

\* The text again, from its tokens.  A `-` or `!` with nothing before it to work on is tight.
Spaced(s) ==
  FoldLeft(LAMBDA acc, t :
             LET class == Class(t)
                 gap == acc.class # "none" /\ Gap(acc.class, acc.unary, class) IN
             [text |-> acc.text \o (IF gap THEN <<" ">> ELSE <<>>) \o t.text,
              class |-> class,
              unary |-> t.text \in {<<"-">>, <<"!">>} /\ acc.class \in {"none", "op", "open", "comma"}],
           [text |-> <<>>, class |-> "none", unary |-> FALSE], Tokenize(s)).text
=============================================================================
