------------------------------- MODULE Values -------------------------------
(***************************************************************************)
(* The value model (value.rs) and what the functions of the language take   *)
(* and answer with (functions.rs).  A text is one of a few words; a function *)
(* from text to text answers with any of them, and so does one that asks the *)
(* disk, a clock or a document.  A number is whole.                          *)
(***************************************************************************)
EXTENDS Integers, Sequences, SequencesExt, FiniteSets, FiniteSetsExt, TLC

Words == {"", "1", "word"}
OsNames == {"linux", "mac"}

Str(t) == <<"str", t>>
Num(n) == <<"num", n>>
Bool(b) == <<"bool", b>>
ListOf(s) == <<"list", s>>
Is(v, kinds) == v[1] \in kinds
Lists(v) == \A i \in DOMAIN v : Is(v[i], {"list"})
Numbers(v) == \A i \in DOMAIN v : Is(v[i], {"num"})
Strings(v) == \A i \in DOMAIN v : Is(v[i], {"str"})

\* Display: what a value is written as.
RECURSIVE Text(_)
Text(v) ==
  CASE Is(v, {"str"}) -> v[2] [] Is(v, {"num"}) -> ToString(v[2])
    [] Is(v, {"bool"}) -> IF v[2] THEN "true" ELSE "false"
    [] Is(v, {"list"}) -> IF v[2] = <<>> THEN "" ELSE IF Len(v[2]) = 1 THEN Text(v[2][1]) ELSE "several words"

\* parse_number, of the words there are.
ParseNumber(t) == IF t = "1" THEN {1} ELSE {}
ReadsAsNumber(v) == Strings(v) /\ ParseNumber(v[1][2]) # {}

Before(a, b) == Is(a, {"num"}) /\ (Is(b, {"num"}) => a[2] < b[2])

-----------------------------------------------------------------------------
(* call_with and call_io: each function as whether it takes the values it is *)
(* given, and the set of what it may answer with.  What takes none fails.    *)

OfText == {"base64_decode", "base64_encode", "basename", "capitalize", "dirname", "escape", "extname", "md5", "read_file", "sha256", "stem",
           "to_lower", "to_upper", "trim", "trim_end", "trim_start", "url_decode", "url_encode", "lines", "glob", "confirm"}
AsksOfText == {"directory_exists", "file_exists", "is_executable"}
OfTwoTexts == {"decrypt", "json_get", "json_query", "regex_remove", "remove_all", "remove_prefix", "remove_suffix", "split", "write_file"}
AsksOfTwoTexts == {"ends_with", "regex_matches", "starts_with"}
OfThreeTexts == {"regex_replace", "replace_all"}
OfDocuments == {"json_format", "json_keys", "json_type"}
OfPatterns == {"regex_capture", "regex_capture_all", "regex_matches", "regex_remove", "regex_replace"}
OfCounts == {"repeat", "substring"}
Anywhere == {"concat", "contains", "join", "join_path", "json_encode", "json_set", "length", "now", "print", "printf", "temp_dir", "temp_file", "uuid"}
TextFunctions == OfText \cup AsksOfText \cup OfTwoTexts \cup AsksOfTwoTexts \cup OfThreeTexts \cup OfDocuments \cup OfPatterns
                   \cup OfCounts \cup Anywhere

\* compile and glob_plan; now_formatted; parse_format, as the kinds of what it substitutes.
Compiles(t) == t # "["
IsTime(t) == t = "year"
IsFormat(t) == t # "%"
Verbs(t) == CASE t = "%d" -> <<"d">> [] t = "%s" -> <<"s">> [] OTHER -> <<>>
Counts(v) == Numbers(v) /\ \A i \in DOMAIN v : v[i][2] >= 0

TextTakes(name, v) ==
  CASE name = "glob" -> Len(v) = 1 /\ Strings(v) /\ Compiles(v[1][2])
    [] name \in {"regex_capture", "regex_capture_all"} ->
         Len(v) = 3 /\ Strings(Front(v)) /\ Compiles(v[2][2]) /\ Counts(<<v[3]>>)
    [] name \in OfPatterns \ {"regex_capture", "regex_capture_all"} ->
         Len(v) = (IF name = "regex_replace" THEN 3 ELSE 2) /\ Strings(v) /\ Compiles(v[2][2])
    [] name \in (OfText \ {"glob"}) \cup AsksOfText -> Len(v) = 1 /\ Strings(v)
    [] name \in (OfTwoTexts \cup AsksOfTwoTexts) \ OfPatterns -> Len(v) = 2 /\ Strings(v)
    [] name = "replace_all" -> Len(v) = 3 /\ Strings(v)
    [] name \in OfDocuments -> Len(v) \in {1, 2} /\ Strings(v)
    [] name = "json_set" -> Len(v) = 3 /\ Strings(Front(v))
    [] name = "repeat" -> Len(v) = 2 /\ Strings(<<v[1]>>) /\ Counts(Tail(v))
    [] name = "substring" -> Len(v) \in {2, 3} /\ Strings(<<v[1]>>) /\ Counts(Tail(v))
    [] name = "length" -> Len(v) = 1 /\ Is(v[1], {"str", "list"})
    [] name = "contains" -> Len(v) = 2 /\ (Is(v[1], {"list"}) \/ Strings(v))
    [] name = "json_encode" -> Len(v) = 1
    [] name \in {"concat", "print"} -> Len(v) >= 1
    [] name = "join" -> Len(v) >= 1 /\ Strings(<<v[1]>>)
    [] name = "join_path" -> Len(v) >= 1 /\ Strings(v)
    [] name = "printf" -> /\ Len(v) >= 1 /\ Strings(<<v[1]>>) /\ IsFormat(v[1][2]) /\ Len(Verbs(v[1][2])) = Len(v) - 1
                          /\ \A i \in DOMAIN Verbs(v[1][2]) : Verbs(v[1][2])[i] = "d" => Is(v[i + 1], {"num"})
    [] name = "now" -> v = <<>> \/ (Len(v) = 1 /\ Strings(v) /\ IsTime(v[1][2]))
    [] name = "temp_file" -> Len(v) <= 2 /\ Strings(v)
    [] name \in {"temp_dir", "uuid"} -> v = <<>>

\* A document holds texts, numbers and truths; what is nested in it is text.
Scalars == {Str("word"), Num(1), Bool(TRUE)}
\* json_walk never fails: a path that reaches nothing has the empty list.
Reached == {ListOf(<<>>)} \cup {ListOf(<<h>>) : h \in Scalars}
TextAnswers(name, v) ==
  CASE name = "length" -> {Num(IF Is(v[1], {"list"}) THEN Len(v[1][2]) ELSE IF v[1] = Str("") THEN 0 ELSE IF v[1] = Str("1") THEN 1 ELSE 4)}
    [] name = "contains" -> IF Is(v[1], {"list"}) THEN {Bool(v[2] \in ToSet(v[1][2]))} ELSE {Bool(v[1] = v[2] \/ v[2] = Str(""))}
    [] name \in AsksOfText \cup AsksOfTwoTexts -> {Bool(b) : b \in BOOLEAN}
    [] name = "confirm" -> {Bool(TRUE)}
    [] name = "split" -> {ListOf(<<v[1]>>), ListOf(<<Str(""), Str("word")>>)}
    [] name = "lines" -> {ListOf(IF v[1] = Str("") THEN <<>> ELSE <<v[1]>>)}
    [] name \in {"glob", "regex_capture_all"} -> {ListOf(<<>>), ListOf(<<Str("word")>>)}
    [] name = "json_get" -> Scalars \cup {Str("")}
    [] name = "json_query" -> Reached
    [] name = "json_keys" -> {ListOf(<<>>), ListOf(<<Str("word")>>), ListOf(<<Num(0)>>)}
    [] name \in {"print", "printf", "write_file", "decrypt"} -> {Str("")}
    [] OTHER -> {Str(w) : w \in Words}

\* What fails of values it takes: a text that decodes to nothing, a document that does
\* not parse, has nothing at a path or has no place for a value there, a disk in the
\* way, a line no key opens, an output that is closed; and, of its own code each, an
\* answer that is no, or another branch's terminal, and a result too large.
DecodesNothing == {"base64_decode", "url_decode"}
ParsesDocument == {"json_format", "json_get", "json_keys", "json_query", "json_set", "json_type"}
SeeksInIt      == {"json_get", "json_keys", "json_type"}
SetsInIt       == {"json_set"}
OnDisk         == {"read_file", "write_file"}
InTempDir      == {"temp_dir", "temp_file"}
Deciphers      == {"decrypt"}
ToOutput       == {"print", "printf"}
MayFail == UNION {DecodesNothing, ParsesDocument, SeeksInIt, SetsInIt, OnDisk, InTempDir, Deciphers, ToOutput}
             \cup {"confirm", "power", "range", "repeat"}

ListTakes(name, v) ==
  CASE name \in {"first", "last", "sort", "reverse", "unique", "flatten"} -> Len(v) = 1 /\ Lists(v)
    [] name \in {"append", "prepend", "without"} -> Len(v) >= 2 /\ Is(v[1], {"list"})
    [] name = "index_of" -> Len(v) = 2 /\ Is(v[1], {"list"})
    [] name = "concat_lists" -> Len(v) >= 1 /\ Lists(v)
    [] name = "zip" -> Len(v) = 2 /\ Lists(v)
    [] name = "slice" -> Len(v) \in {2, 3} /\ Is(v[1], {"list"}) /\ Numbers(Tail(v))

Flat(s) == FlattenSeq([i \in DOMAIN s |-> IF Is(s[i], {"list"}) THEN s[i][2] ELSE <<s[i]>>])
Items(v) == [i \in DOMAIN v |-> v[i][2]]

ListAnswer(name, v) ==
  LET s == v[1][2] IN
  CASE name = "first" -> IF s = <<>> THEN Str("") ELSE Head(s)
    [] name = "last" -> IF s = <<>> THEN Str("") ELSE Last(s)
    [] name = "append" -> ListOf(s \o Tail(v))
    [] name = "prepend" -> ListOf(Tail(v) \o s)
    [] name = "concat_lists" -> ListOf(FlattenSeq(Items(v)))
    [] name = "sort" -> ListOf(SortSeq(s, Before))
    [] name = "reverse" -> ListOf(Reverse(s))
    [] name = "unique" -> ListOf(FoldLeft(LAMBDA out, x : IF x \in ToSet(out) THEN out ELSE Append(out, x), <<>>, s))
    [] name = "slice" ->
         LET from == Min({Max({v[2][2], 0}), Len(s)})
             to   == IF Len(v) = 3 THEN Min({from + Max({v[3][2], 0}), Len(s)}) ELSE Len(s) IN
         ListOf(SubSeq(s, from + 1, to))
    [] name = "flatten" -> ListOf(Flat(s))
    [] name = "index_of" -> Num(LET at == {i \in DOMAIN s : s[i] = v[2]} IN IF at = {} THEN -1 ELSE Min(at) - 1)
    [] name = "without" -> ListOf(SelectSeq(s, LAMBDA x : x \notin ToSet(Tail(v))))
    [] name = "zip" -> ListOf([i \in 1..Min({Len(s), Len(v[2][2])}) |-> ListOf(<<s[i], v[2][2][i]>>)])

NumberTakes(name, v) ==
  CASE name = "number" -> Len(v) = 1 /\ (Numbers(v) \/ ReadsAsNumber(v))
    [] name = "is_number" -> Len(v) = 1
    [] name \in {"abs", "ceil", "floor", "round"} -> Len(v) = 1 /\ Numbers(v)
    [] name \in {"max", "min"} -> Len(v) >= 1 /\ Numbers(v)
    [] name = "power" -> Len(v) = 2 /\ Numbers(v)
    [] name = "range" -> Len(v) \in {1, 2} /\ Numbers(v)
    [] name = "sleep" -> Len(v) = 1 /\ Counts(v)

NumberAnswers(name, v) ==
  CASE name = "number" -> {IF Numbers(v) THEN v[1] ELSE Num(CHOOSE n \in ParseNumber(v[1][2]) : TRUE)}
    [] name = "is_number" -> {Bool(Numbers(v) \/ ReadsAsNumber(v))}
    [] name = "abs" -> {Num(IF v[1][2] < 0 THEN -v[1][2] ELSE v[1][2])}
    [] name \in {"ceil", "floor", "round"} -> {v[1]}
    [] name = "max" -> {Num(Max(ToSet(Items(v))))}
    [] name = "min" -> {Num(Min(ToSet(Items(v))))}
    [] name = "power" -> {Num(0), Num(1)}
    [] name = "range" -> LET from == IF Len(v) = 1 THEN 0 ELSE v[1][2]
                             to   == IF Len(v) = 1 THEN v[1][2] - 1 ELSE v[2][2] IN
                         {ListOf([i \in 1..Max({to - from + 1, 0}) |-> Num(from + i - 1)])}
    [] name = "sleep" -> {Str("")}

Options(v) == ToSet(IF Len(v) = 2 /\ Is(v[2], {"list"}) THEN v[2][2] ELSE Tail(v))

ListFunctions == {"first", "last", "sort", "reverse", "unique", "flatten", "append", "prepend", "without",
                  "index_of", "concat_lists", "zip", "slice"}
NumberFunctions == {"abs", "ceil", "floor", "is_number", "max", "min", "number", "power", "range", "round", "sleep"}

\* The table's own order; `error` always fails, and so does what is no function.
Takes(name, v) ==
  CASE name \in TextFunctions -> TextTakes(name, v)
    [] name \in ListFunctions -> ListTakes(name, v)
    [] name \in NumberFunctions -> NumberTakes(name, v)
    [] name = "one_of" -> Len(v) >= 2 /\ v[1] \in Options(v)
    [] OTHER -> FALSE

Answers(name, v) ==
  CASE name \in TextFunctions -> TextAnswers(name, v)
    [] name \in ListFunctions -> {ListAnswer(name, v)}
    [] name \in NumberFunctions -> NumberAnswers(name, v)
    [] name = "one_of" -> {v[1]}

Arith(op, a, b) ==
  CASE op = "+" -> Num(a + b) [] op = "-" -> Num(a - b) [] op = "/" -> Num(a \div b) [] op = "<" -> Bool(a < b)
ArithTakes(op, l, r) == Is(l, {"num"}) /\ Is(r, {"num"}) /\ (op = "/" => r[2] # 0)

\* destructure: the values of one name or of several, or none.
Unpacks(names, v) == Len(names) = 1 \/ (Is(v, {"list"}) /\ Len(v[2]) >= Len(names))
Part(names, v, i) == IF Len(names) = 1 THEN v ELSE v[2][i]
=============================================================================
