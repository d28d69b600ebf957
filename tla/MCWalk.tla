------------------------------- MODULE MCWalk -------------------------------
(* Programs for Walk, written as one table: a row is a node, a target names  *)
(* its rows by number.  Five targets can be run, each for its own hazards.   *)
EXTENDS Walk

Row(kind, kids) == [kind |-> kind, kids |-> kids, times |-> 0, ignore |-> "same", env |-> FALSE]
N(kind)         == Row(kind, <<>>)
Rep(n, row)     == [row EXCEPT !.times = n]
Ign(row)        == [row EXCEPT !.ignore = "on"]
Env(row)        == [row EXCEPT !.env = TRUE]

Program == <<
  \* 1: a retry with an else, a forgiving block whose environment changes on the
  \* way, and a dispatch to a target that exits.
  Env(Row("target", <<2, 7>>)),
    Rep(2, Env(Row("retry", <<3, 5>>))), Row("block", <<4>>), N("exec"),
      Row("do", <<6>>), Row("block", <<>>),
    Ign(Row("do", <<8>>)), Row("block", <<9, 10, 11>>),
      N("exec"), Env(N("prop")), Row("run", <<12>>),
  Row("target", <<13>>), N("exit"),

  \* 14: loops, left every way a loop can be left, and a scored target that asks.
  Row("target", <<15, 22, 24>>),
    Rep(2, Env(Row("for", <<16>>))), Row("block", <<17>>),
      Row("choose", <<18, 20>>), Row("do", <<19>>), Row("block", <<30>>),
        Row("do", <<21>>), Row("block", <<31>>),
    Row("loop", <<23>>), Row("block", <<>>),
    Row("score", <<25>>),
  Row("target", <<26, 27>>), N("confirm"), Rep(2, Row("retry", <<28>>)),
    Row("block", <<29>>), N("exit"),
  N("break"), N("continue"),

  \* 32: parallel branches under different properties, one of them a target.
  Row("target", <<33, 41>>),
    Env(Row("pardo", <<34, 35, 36, 38>>)),
      N("exec"), Env(N("prop")),
      Env(Row("do", <<37>>)), Row("block", <<>>),
      Row("run", <<39>>), Row("target", <<40>>), N("confirm"),
    N("exec"),

  \* 42: a forgiven, nested fan-out inside a retry.
  Ign(Row("target", <<43>>)),
    Rep(2, Row("retry", <<44>>)), Row("block", <<45, 52>>),
      Row("parfor", <<46, 48>>),
        Row("block", <<47>>), N("continue"),
        Row("block", <<49>>), Row("do", <<50>>), Row("block", <<51>>), Env(N("prop")),
      N("call"),

  \* 53: a loop that forgives what the end of its body does not, and a target
  \* that is run again after a branch of it has exited beside a failure.
  Row("target", <<54>>),
    Rep(2, Ign(Row("for", <<55>>))), Row("block", <<56, 57>>),
      [N("prop") EXCEPT !.ignore = "off"], Row("run", <<58>>),
  Row("target", <<59>>), Row("pardo", <<60, 61>>), N("exec"), N("exit")
>>

MCNode       == DOMAIN Program
MCRoots      == {1, 14, 32, 42, 53}
MCKind       == [n \in MCNode |-> Program[n].kind]
MCKids       == [n \in MCNode |-> Program[n].kids]
MCTimes      == [n \in MCNode |-> Program[n].times]
MCIgnoreProp == [n \in MCNode |-> Program[n].ignore]
MCEnvProps   == {n \in MCNode : Program[n].env}
MCAnc ==
  LET Above(n) == {m \in MCNode : \E i \in DOMAIN Program[m].kids : Program[m].kids[i] = n}
      anc[d \in 0 .. Cardinality(MCNode), n \in MCNode] ==
        IF d = 0 THEN {} ELSE Above(n) \cup UNION {anc[d - 1, m] : m \in Above(n)}
  IN  [n \in MCNode |-> anc[12, n]]
=============================================================================
