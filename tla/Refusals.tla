------------------------------ MODULE Refusals ------------------------------
(***************************************************************************)
(* What is said of a target before it runs, which can refuse it (Host::load), *)
(* against everything its runs can do: the names of Scopes, the findings of    *)
(* Checks, the types of Types and the inputs of Needs, each of which reads the  *)
(* text, with the runs of Runs, which do what the runner does.  The parts are   *)
(* parameters: what each of them answers of a target.                          *)
(***************************************************************************)
CONSTANTS
  Names,          \* the names a target binds
  Unbound,        \* the value of one that is not bound
  WellFormed(_),  \* whether it parses
  Said(_),        \* the names called unresolved, the mistakes found and the inputs listed
  TypesOf(_),     \* the type each name is taken to have
  Shows(_)        \* what its runs can show

VARIABLES
  asked,      \* the target that is asked about, if one is: a sequence of at most one
  said,       \* what is said of it
  seen        \* what its runs can show, once they have been

vars == <<asked, said, seen>>

R == INSTANCE Runs

NothingSaid == [unresolved |-> {}, mistakes |-> {}, inputs |-> {}]

Init == asked = <<>> /\ said = NothingSaid /\ seen = {}
\* Host::load: what would be reported of a file that parses, and what it is told to need.
Load(target) ==
  /\ asked = <<>> /\ WellFormed(target)
  /\ asked' = <<target>> /\ said' = Said(target)
  /\ UNCHANGED seen
\* All the runs there would be of it if it were not refused.
RunIt ==
  /\ asked # <<>> /\ seen = {}
  /\ seen' = Shows(asked[1])
  /\ UNCHANGED <<asked, said>>

\* What resolve.rs reports can never be found: no run reads the name bound, or reassigns it where
\* it was.  "a file whose every read can be reached with its name bound is never refused"
\* (resolve.rs:33): a `for` that puts its names aside, a pass that sees the last one's, a branch's copy.
UnresolvedIsUnbound == said.unresolved \cap seen = {}

\* What check.rs reports goes wrong every time it is reached (check.rs:12): no run gets past it, finds
\* the two sides equal or takes the case.  It does not hold of an operation on what a `try` caught
\* (NestedTry in MCRefusals), and nor does TypesHold.
FailsEveryTime == said.mistakes \cap seen = {}

\* A name never holds a value its type leaves out, whatever the order its lines run in and however
\* often: in a loop that feeds one name from another, under a `_shared.run`, item by item; but for
\* number(try(ARG.n)), which is checked apart.
Shown == {o \in seen : o[1] = "holds"}
TypesHold ==
  Shown # {} => LET types == TypesOf(asked[1]) IN
    \A o \in Shown : LET t == types[o[2]].ty  v == o[3] IN
      /\ R!Is(v, t.kinds)
      /\ R!IsList(v) => \A i \in DOMAIN v[2] : R!Is(v[2][i], t.items)
      /\ "any" \notin types[o[2]].values => R!Text(v) \in types[o[2]].values

\* An input some run fails without is listed, and listed as required (inputs.rs:216): none is hidden
\* by a `.env` property that is not above it, or by a fallback that does not reach it.
NeedsAreListed == \A i \in R!Inputs : <<"needs", i>> \in seen => <<i, TRUE>> \in said.inputs
=============================================================================
