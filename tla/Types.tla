-------------------------------- MODULE Types --------------------------------
(***************************************************************************)
(* What a value can be, as far as the text of a target says (types.rs).  A    *)
(* type is a set of kinds and, where one is a list, the kinds of its items; a  *)
(* name holds whatever any line binds it to, anywhere in the file.             *)
(***************************************************************************)
EXTENDS Trees, Integers, FiniteSetsExt

CONSTANTS Os   \* what RUN.os can be

Kinds == {"str", "num", "bool", "list"}
Ty(kinds, items) == [kinds |-> kinds, items |-> items]
Of(kinds) == Ty(kinds, IF "list" \in kinds THEN Kinds ELSE {})
List(items) == Ty({"list"}, items)
None == Ty({}, {})
ItemsOf(t) == IF "list" \in t.kinds THEN t.items ELSE {}
Union2(s, t) == Ty(s.kinds \cup t.kinds, ItemsOf(s) \cup ItemsOf(t))
Item(t) == IF "list" \in t.kinds THEN Of(t.items) ELSE None
\* A value exists, and none of what it can be is accepted.
Refused(t, accepted) == t.kinds # {} /\ t.kinds \cap accepted = {}

-----------------------------------------------------------------------------
(* What each function takes, and what it answers with.                        *)

Gives(min, max, params, returns) == [min |-> min, max |-> max, params |-> params, returns |-> returns, ty |-> None]
Sig(min, max, params, ty) == [Gives(min, max, params, "Is") EXCEPT !.ty = ty]
Many == 99
S == {"str"}
N == {"num"}
L == {"list"}

\* All of some names, alike.
Alike(names, sig) == [n \in names |-> sig]
Text == Of(S)
Truth == Of({"bool"})
Number == Of(N)
Signatures ==
  Alike({"base64_decode", "base64_encode", "basename", "capitalize", "dirname", "escape", "extname", "md5", "read_file", "sha256", "stem",
         "to_lower", "to_upper", "trim", "trim_end", "trim_start", "url_decode", "url_encode"}, Sig(1, 1, <<S>>, Text))
  @@ Alike({"confirm", "directory_exists", "file_exists", "is_executable"}, Sig(1, 1, <<S>>, Truth))
  @@ Alike({"decrypt", "regex_remove", "remove_all", "remove_prefix", "remove_suffix", "write_file"}, Sig(2, 2, <<S, S>>, Text))
  @@ Alike({"ends_with", "regex_matches", "starts_with"}, Sig(2, 2, <<S, S>>, Truth))
  @@ Alike({"regex_replace", "replace_all"}, Sig(3, 3, <<S, S, S>>, Text))
  @@ Alike({"json_format", "json_type"}, Sig(1, 2, <<S, S>>, Text))
  @@ Alike({"abs", "ceil", "floor", "round"}, Sig(1, 1, <<N>>, Number))
  @@ Alike({"max", "min"}, Sig(1, Many, <<N>>, Number))
  @@ Alike({"first", "last"}, Gives(1, 1, <<L>>, "Item"))
  @@ Alike({"reverse", "sort", "unique"}, Gives(1, 1, <<L>>, "Same"))
  @@ Alike({"append", "prepend"}, Gives(2, Many, <<L, Kinds>>, "Added"))
  @@ Alike({"glob", "lines"}, Sig(1, 1, <<S>>, List(S)))
  @@ Alike({"temp_dir", "uuid"}, Sig(0, 0, <<>>, Text))
  @@ Alike({"concat", "print"}, Sig(1, Many, <<Kinds>>, Text))
  @@ Alike({"join", "printf"}, Sig(1, Many, <<S, Kinds>>, Text))
  @@ [code_of |-> Sig(1, 1, <<Kinds>>, Number), concat_lists |-> Gives(1, Many, <<L>>, "Joined"),
      contains |-> Sig(2, 2, <<S \cup L, Kinds>>, Truth), error |-> Sig(1, 1, <<S>>, None), exit |-> Sig(0, 1, <<N>>, None),
      flatten |-> Gives(1, 1, <<L>>, "Flattened"), index_of |-> Sig(2, 2, <<L, Kinds>>, Number), is_number |-> Sig(1, 1, <<Kinds>>, Truth),
      join_path |-> Sig(1, Many, <<S>>, Text), json_encode |-> Sig(1, 1, <<Kinds>>, Text),
      json_get |-> Sig(2, 2, <<S, S>>, Of(S \cup N \cup {"bool"})), json_keys |-> Sig(1, 2, <<S, S>>, List(S \cup N)),
      json_query |-> Sig(2, 2, <<S, S>>, List(S \cup N \cup {"bool"})), json_set |-> Sig(3, 3, <<S, S, Kinds>>, Text),
      length |-> Sig(1, 1, <<S \cup L>>, Number), now |-> Sig(0, 1, <<S>>, Text), number |-> Sig(1, 1, <<N \cup S>>, Number),
      one_of |-> Gives(2, Many, <<Kinds>>, "Subject"), power |-> Sig(2, 2, <<N, N>>, Number), range |-> Sig(1, 2, <<N, N>>, List(N)),
      regex_capture |-> Sig(3, 3, <<S, S, N>>, Text), regex_capture_all |-> Sig(3, 3, <<S, S, N>>, List(S)),
      repeat |-> Sig(2, 2, <<S, N>>, Text), sleep |-> Sig(1, 1, <<N>>, Text), slice |-> Gives(2, 3, <<L, N, N>>, "Same"),
      split |-> Sig(2, 2, <<S, S>>, List(S)), substring |-> Sig(2, 3, <<S, N, N>>, Text), temp_file |-> Sig(0, 2, <<S, S>>, Text),
      try |-> Gives(1, 1, <<Kinds>>, "Caught"), without |-> Gives(2, Many, <<L, Kinds>>, "Same"), zip |-> Sig(2, 2, <<L, L>>, List(L))]

TakesCount(sig, n) == n >= sig.min /\ n <= sig.max
\* `contains` is the one whose answer depends on another argument.
Accepts(name, i, args) ==
  LET ps == Signatures[name].params IN
  IF name = "contains" /\ i = 2 THEN IF args[1].kinds = {} \/ "list" \in args[1].kinds THEN Kinds ELSE S
  ELSE ps[Min({i, Len(ps)})]

AnswerOf(name, args) ==
  LET returns == Signatures[name].returns
      first == IF args = <<>> THEN Of(Kinds) ELSE args[1]
      Of1(items) == IF "list" \in first.kinds THEN List(items) ELSE None IN
  CASE returns = "Subject" -> first
    [] returns = "Item" -> Union2(Item(first), Of(S))
    [] returns = "Same" -> Of1(first.items)
    [] returns = "Added" -> Of1(first.items \cup UNION {args[i].kinds : i \in 2..Len(args)})
    [] returns = "Joined" -> List(UNION {Item(args[i]).kinds : i \in DOMAIN args})
    [] returns = "Flattened" -> Of1(IF "list" \in first.items THEN Kinds ELSE first.items)
    [] returns = "Caught" -> Union2(first, Of(S))
    [] returns = "Is" -> Signatures[name].ty

-----------------------------------------------------------------------------
(* Names: a type for each, and the values it can have where those are known:  *)
(* a set of words, none before any line is read, and {"any"} for the rest.     *)

Join(a, b) == IF "any" \in a \cup b THEN {"any"} ELSE a \cup b

RECURSIVE TypeOf(_, _), RunValues(_, _)
TypeOf(e, names) ==
  CASE e.is = "lit" -> Of({e.val[1]})
    [] e.is \in {"text", "capture"} -> Of(S)
    [] e.is = "list" -> List(UNION {TypeOf(e.items[i], names).kinds : i \in DOMAIN e.items})
    [] e.is = "ident" -> IF e.name \in DOMAIN names THEN names[e.name].ty ELSE Of(Kinds)
    [] e.is = "source" -> (CASE e.kind \in {"ARG", "ENV"} -> Of(S) [] e.kind = "FLAG" -> Of({"bool"})
                             [] e.kind = "ARGS" -> List(S) [] e.kind = "RUN" -> IF e.key = "os" THEN Of(S) ELSE Of(Kinds))
    [] e.is \in {"not", "both", "equal"} -> Of({"bool"})
    [] e.is = "neg" -> Of(N)
    [] e.is = "arith" -> IF e.op = "<" THEN Of({"bool"}) ELSE Of(N)
    [] e.is = "chain" -> Union2(TypeOf(e.lhs, names), TypeOf(e.rhs, names))
    [] e.is = "index" -> Item(TypeOf(e.lhs, names))
    [] e.is = "call" -> IF e.name \in DOMAIN Signatures
                        THEN AnswerOf(e.name, [i \in DOMAIN e.args |-> TypeOf(e.args[i], names)]) ELSE Of(Kinds)

RunValues(e, names) ==
  CASE e.is = "source" /\ e.kind = "RUN" /\ e.key = "os" -> Os
    [] e.is = "ident" /\ e.name \in DOMAIN names -> names[e.name].values
    [] e.is = "chain" -> Join(RunValues(e.lhs, names), RunValues(e.rhs, names))
    [] OTHER -> {"any"}
\* Every value it can have, or none where that is not known.
KnownValues(e, names) == LET v == RunValues(e, names) IN IF "any" \in v THEN {} ELSE v

Site(names, e, depth) == [names |-> names, value |-> e, depth |-> depth]
\* Every line in a block that binds a name, however deep.
RECURSIVE Sites(_)
Sites(b) ==
  FlattenSeq([i \in DOMAIN b.statements |->
    LET st == b.statements[i]
        inner == FlattenSeq([j \in DOMAIN Blocks(st) |-> Sites(Blocks(st)[j])]) IN
    CASE st.is \in {"let", "set"} -> <<Site(st.names, st.value, IF Len(st.names) = 1 THEN 0 ELSE 1)>>
      [] st.is \in {"for", "parallel for"} -> <<Site(st.names, st.iter, IF Len(st.names) = 1 THEN 1 ELSE 2)>> \o inner
      [] OTHER -> inner])
SharedSites(b) == Sites([b EXCEPT !.statements = SelectSeq(@, LAMBDA st : st.is = "let")])

Held(site, names) ==
  LET t == TypeOf(site.value, names) IN
  [ty |-> CASE site.depth = 0 -> t [] site.depth = 1 -> Item(t) [] site.depth = 2 -> Item(Item(t)),
   values |-> IF site.depth = 0 THEN RunValues(site.value, names) ELSE {"any"}]
\* Each pass can only add to what a name holds.
Pass(sites, names) ==
  FoldLeft(LAMBDA held, site : LET h == Held(site, held) IN
             [n \in DOMAIN held |-> IF n \in ToSet(site.names)
                THEN [ty |-> Union2(held[n].ty, h.ty), values |-> Join(held[n].values, h.values)] ELSE held[n]],
           names, sites)
\* Mutant: the lines are gone over once.
SettledOnce(sites, names) == Pass(sites, names)
RECURSIVE Settled(_, _)
Settled(sites, names) == LET next == Pass(sites, names) IN IF next = names THEN names ELSE Settled(sites, next)
NamesOf(program) ==
  LET sites == SharedSites(program.shared) \o Sites(program.body) IN
  Settled(sites, [n \in UNION {ToSet(sites[i].names) : i \in DOMAIN sites} |-> [ty |-> None, values |-> {}]])
=============================================================================
