-------------------------------- MODULE Runs --------------------------------
(***************************************************************************)
(* All the runs of a target at once (run.rs, props.rs): from the scope a      *)
(* statement is entered with to those it may end with, and how.               *)
(*                                                                            *)
(* A run is "on", "failed", or on its way out of the blocks around it:         *)
(* "broke", "continued", "exited".  Besides what an expression shows,          *)
(* <<"done", at>> is a statement that had the value it takes, <<"item", at>> an *)
(* item that was unpacked, <<"rebound", at>> an assignment to a name that was   *)
(* bound, <<"case", at, i>> a case taken, <<"holds", name, value>> what a name   *)
(* was bound to, and <<"needs", "ARG">> an input that a statement failed       *)
(* without.  `ignored` is `.ignore-errors` at the top.                          *)
(***************************************************************************)
EXTENDS Expressions

Ends(ends, seen) == [ends |-> ends, seen |-> seen]
NoEnds == Ends({}, {})
State(sc, how) == [sc |-> sc, how |-> how]
Going(ends) == {s.sc : s \in {t \in ends : t.how = "on"}}
\* From each of some scopes.
FromAll(scopes, run(_)) ==
  LET rs == {run(sc) : sc \in scopes} IN Ends(UNION {r.ends : r \in rs}, UNION {r.seen : r \in rs})
Both(a, b) == Ends(a.ends \cup b.ends, a.seen \cup b.seen)

\* What becomes of a statement whose value does not come.
Stopped(bad, sc) ==
  Ends({State(sc, IF how = "exited" THEN how ELSE "failed") : how \in bad}, {<<"needs", i>> : i \in bad \cap Inputs})
\* A statement that needs a value `takes`: it fails with any other.
With(at, r, sc, takes(_), run(_)) ==
  LET t == {v \in r.ok : takes(v)} IN
  Both(Both(Stopped(r.bad \cup (IF t = r.ok THEN {} ELSE {"failed"}), sc), FromAll(t, run)),
       Ends({}, r.seen \cup (IF t = {} THEN {} ELSE {<<"done", at>>})))
AnyValue(v) == TRUE
IsBool(v) == Is(v, {"bool"})
IsNumber(v) == Is(v, {"num"})
IsList(v) == Is(v, {"list"})

Bind(sc, names, v) ==
  [n \in DOMAIN sc |-> IF n \in ToSet(names) THEN Part(names, v, CHOOSE i \in DOMAIN names : names[i] = n) ELSE sc[n]]
Held(names, v) == {<<"holds", names[i], Part(names, v, i)>> : i \in DOMAIN names}

\* Props::apply: the value is worked out, and a `.env` property's is there from here on.
Property(p, sc) ==
  LET r == Boundary(Eval(p.value, sc)) IN
  Both(Ends({State([sc EXCEPT !["ENV"] = IF p.env THEN Str(Text(v)) ELSE @], "on") : v \in r.ok}, r.seen), Stopped(r.bad, sc))
\* Props::extend: a block's properties, in order, before anything in it.
Header(b, sc) ==
  FoldLeft(LAMBDA acc, p : LET r == FromAll(Going(acc.ends), LAMBDA s : Property(p, s)) IN
             Ends({s \in acc.ends : s.how # "on"} \cup r.ends, acc.seen \cup r.seen),
           Ends({State(sc, "on")}, {}), b.properties)
\* with_block_env: the environment is put back as the block ends.
PutBack(r, sc) == Ends({State([s.sc EXCEPT !["ENV"] = sc["ENV"]], s.how) : s \in r.ends}, r.seen)
Enter(b, sc, then(_)) ==
  LET h == Header(b, sc) IN
  PutBack(Both(Ends({s \in h.ends : s.how # "on"}, h.seen), FromAll(Going(h.ends), then)), sc)

RECURSIVE Statement(_, _, _), Passes(_, _, _, _, _), Attempts(_, _, _)

\* walk: statements and the properties between them.  Only a statement's failure can be ignored.
Walk(b, sc, ignored) ==
  PutBack(FoldLeft(LAMBDA acc, st :
                     LET Next(s) == IF st.is = "property" THEN Property(st, s)
                                    ELSE LET r == Statement(st, s, ignored) IN
                                         Ends({IF ignored /\ e.how = "failed" THEN State(e.sc, "on") ELSE e : e \in r.ends}, r.seen)
                         r == FromAll(Going(acc.ends), Next) IN
                     Ends({s \in acc.ends : s.how # "on"} \cup r.ends, acc.seen \cup r.seen),
                   Ends({State(sc, "on")}, {}), b.statements), sc)
Nested(b, sc, ignored) == Enter(b, sc, LAMBDA s : Walk(b, s, ignored))

\* A pass of a loop: `continue` ends it, and a failure where one is ignored.
Pass(b, sc, ignored) ==
  LET r == Walk(b, sc, ignored) IN
  Ends({IF s.how = "continued" \/ (ignored /\ s.how = "failed") THEN State(s.sc, "on") ELSE s : s \in r.ends}, r.seen)

\* loop_passes: each scope the condition may be asked in is asked once.
Passes(st, ignored, asked, todo, acc) ==
  IF todo = {} THEN acc
  ELSE LET Again(sc) == LET c == IF st.test = <<>> THEN Result({Bool(TRUE)}, {}, {}) ELSE Asked(st.test[1], sc, {Bool(TRUE), Bool(FALSE)}) IN
                        With(st.at, c, sc, IsBool,
                             LAMBDA v : IF v = Bool(st.while) THEN Pass(st.body, sc, ignored) ELSE Ends({State(sc, "broke")}, {}))
           r == FromAll(todo, Again)
           more == Going(r.ends) \ (asked \cup todo) IN
       Passes(st, ignored, asked \cup todo, more, Both(acc, Ends({s \in r.ends : s.how # "on"}, r.seen)))

\* retry_attempts: a failure is another attempt, or the last one's.
Attempts(st, tried, todo) ==
  LET r == FromAll(todo, LAMBDA sc : Walk(st.body, sc, FALSE))
      more == {s.sc : s \in {t \in r.ends : t.how = "failed"}} \ (tried \cup todo) IN
  IF more = {} THEN r ELSE Both(r, Attempts(st, tried \cup todo, more))

\* for_body: an item after another.  One that does not unpack ends the loop, whatever is ignored.
EachItem(st, items, sc, ignored) ==
  FoldLeft(LAMBDA acc, v :
             LET Next(s) == IF Unpacks(st.names, v) THEN Both(Pass(st.body, Bind(s, st.names, v), ignored), Ends({}, {<<"item", st.at>>} \cup Held(st.names, v)))
                            ELSE Ends({State(s, "failed")}, {})
                 r == FromAll(Going(acc.ends), Next) IN
             Ends({s \in acc.ends : s.how # "on"} \cup r.ends, acc.seen \cup r.seen),
           Ends({State(sc, "on")}, {}), items)
\* What a loop's own way out is, outside it.
LoopEnds(r) == Ends({State(s.sc, IF s.how = "broke" THEN "on" ELSE s.how) : s \in r.ends}, r.seen)

\* run_branches: the block ends well where every branch can, and otherwise as one of them does.
Branches(rs, sc) ==
  Ends({State(sc, how) : how \in {h \in {"on"} : \A r \in rs : \E s \in r.ends : s.how = "on"}
                                   \cup {s.how : s \in {t \in UNION {r.ends : r \in rs} : t.how # "on"}}},
       UNION {r.seen : r \in rs})
\* branches_of: every statement is a branch, under the properties above it, once all are set up.
ParallelDo(b, sc, ignored) ==
  LET SetUp == FoldLeft(LAMBDA acc, st :
                   IF st.is # "property" THEN [acc EXCEPT !.branches = @ \cup {<<st, s>> : s \in Going(acc.all.ends)}]
                   ELSE [acc EXCEPT !.all = LET r == FromAll(Going(@.ends), LAMBDA s : Property(st, s)) IN
                                            Ends({s \in @.ends : s.how # "on"} \cup r.ends, @.seen \cup r.seen)],
                 [branches |-> {}, all |-> Ends({State(sc, "on")}, {})], b.statements)
      Branch(w) == LET r == Statement(w[1], w[2], ignored) IN
                   Ends({IF ignored /\ e.how = "failed" THEN State(e.sc, "on") ELSE e : e \in r.ends}, r.seen)
      run == Branches({Branch(w) : w \in SetUp.branches}, sc) IN
  Both(Ends({s \in SetUp.all.ends : s.how # "on"}, SetUp.all.seen), IF Going(SetUp.all.ends) = {} THEN NoEnds ELSE run)
\* An item is a branch, and `continue` ends it.
ParallelFor(st, items, sc, ignored) ==
  LET Branch(v) == LET r == Walk(st.body, Bind(sc, st.names, v), ignored) IN
                   Ends({IF s.how = "continued" THEN State(s.sc, "on") ELSE s : s \in r.ends}, r.seen \cup {<<"item", st.at>>} \cup Held(st.names, v)) IN
  IF \A v \in ToSet(items) : Unpacks(st.names, v) THEN Branches({Branch(v) : v \in ToSet(items)}, sc)
  ELSE Ends({State(sc, "failed")}, {})

-----------------------------------------------------------------------------
(* The statements.                                                            *)

Binding(st, sc) ==
  LET rebound == {<<"rebound", st.at, n>> : n \in {m \in ToSet(st.names) : st.is = "set" /\ sc[m] # Unbound}} IN
  Both(Ends({}, rebound),
       With(st.at, ValueOf(st.value, sc), sc, LAMBDA v : Unpacks(st.names, v),
            LAMBDA v : Ends({State(Bind(sc, st.names, v), "on")}, Held(st.names, v))))

Called(st, sc) == With(st.at, ValueOf(st.value, sc), sc, AnyValue, LAMBDA v : Ends({State(sc, "on")}, {}))

\* A command or another target: its words, and then it does or does not succeed.
RunStatement(st, sc) ==
  With(st.at, EvalAll(st.parts, sc, TRUE), sc, AnyValue, LAMBDA v : Ends({State(sc, "on"), State(sc, "failed")}, {}))

If(st, sc, ignored) ==
  With(st.at, Asked(st.cond, sc, {Bool(TRUE), Bool(FALSE)}), sc, IsBool,
       LAMBDA v : IF v[2] THEN Nested(st.then, sc, ignored)
                  ELSE IF st.otherwise = <<>> THEN Ends({State(sc, "on")}, {}) ELSE Nested(st.otherwise[1], sc, ignored))

Match(st, sc, ignored) ==
  LET Labelled(v) == {i \in DOMAIN st.cases : st.cases[i].label = Text(v)}
      Taken(v) == IF Labelled(v) # {}
                  THEN LET i == Min(Labelled(v)) IN Both(Nested(st.cases[i].body, sc, ignored), Ends({}, {<<"case", st.at, i>>}))
                  ELSE IF st.default = <<>> THEN Ends({State(sc, "failed")}, {}) ELSE Nested(st.default[1], sc, ignored) IN
  With(st.at, Asked(st.subject, sc, {Num(0), Num(1)}), sc, AnyValue, Taken)

\* The body sees its own failures, and the `else` is outside its environment.
Retry(st, sc, ignored) ==
  LET Tried(v) == LET r == Enter(st.body, sc, LAMBDA s : Attempts(st, {}, {s}))
                      gone == {s \in r.ends : s.how = "failed"} IN
                  IF st.otherwise = <<>> THEN r
                  ELSE Both(Ends(r.ends \ gone, r.seen), FromAll({s.sc : s \in gone}, LAMBDA s : Nested(st.otherwise[1], s, ignored))) IN
  With(st.at, Boundary(Eval(st.attempts, sc)), sc, IsNumber, Tried)

\* A sequential `for` puts its names aside first, and back unless its properties fail.
For(st, sc, ignored) ==
  LET own == ToSet(st.names)
      aside == [n \in DOMAIN sc |-> IF n \in own THEN Unbound ELSE sc[n]]
      Restored(s) == [n \in DOMAIN sc |-> IF n \in own THEN sc[n] ELSE s[n]]
      Body(v) == LoopEnds(Enter(st.body, aside, LAMBDA s : LET b == EachItem(st, v[2], s, ignored) IN
                                Ends({State(Restored(e.sc), e.how) : e \in b.ends}, b.seen))) IN
  With(st.at, ValueOf(st.iter, sc), sc, IsList, Body)

Statement(st, sc, ignored) ==
  CASE st.is \in {"let", "set"} -> Binding(st, sc)
    [] st.is = "call" -> Called(st, sc)
    [] st.is = "run" -> RunStatement(st, sc)
    [] st.is = "break" -> Ends({State(sc, "broke")}, {})
    [] st.is = "continue" -> Ends({State(sc, "continued")}, {})
    [] st.is = "if" -> If(st, sc, ignored)
    [] st.is = "match" -> Match(st, sc, ignored)
    [] st.is = "do" -> Nested(st.body, sc, ignored)
    [] st.is = "parallel do" -> Enter(st.body, sc, LAMBDA s : ParallelDo(st.body, s, ignored))
    [] st.is = "retry" -> Retry(st, sc, ignored)
    [] st.is = "loop" -> LoopEnds(Enter(st.body, sc, LAMBDA s : Passes(st, ignored, {}, {s}, NoEnds)))
    [] st.is = "for" -> For(st, sc, ignored)
    [] st.is = "parallel for" ->
         With(st.at, ValueOf(st.iter, sc), sc, IsList,
              LAMBDA v : Enter(st.body, sc, LAMBDA s : ParallelFor(st, v[2], s, ignored)))

\* fold_shared: a `_shared.run`'s properties and top-level `let`s, and nothing else in it.
Folded(b, sc) ==
  LET Next(s, st) == IF st.is = "property" THEN Property(st, s)
                     ELSE IF st.is = "let" THEN With(st.at, Boundary(Eval(st.value, s)), s, LAMBDA v : Unpacks(st.names, v),
                                                     LAMBDA v : Ends({State(Bind(s, st.names, v), "on")}, Held(st.names, v)))
                     ELSE Ends({State(s, "on")}, {}) IN
  FoldLeft(LAMBDA acc, st : LET r == FromAll(Going(acc.ends), LAMBDA s : Next(s, st)) IN
             Ends({s \in acc.ends : s.how # "on"} \cup r.ends, acc.seen \cup r.seen),
           Header(b, sc), b.statements)

\* A target under its `_shared.run`, from its first line.
RunTarget(program) ==
  LET shared == Folded(program.shared, [n \in Names \cup {"ENV"} |-> Unbound])
      Body(sc) == Enter(program.body, sc, LAMBDA s : Walk(program.body, s, program.ignored)) IN
  Both(Ends({s \in shared.ends : s.how # "on"}, shared.seen), FromAll(Going(shared.ends), Body))
=============================================================================
