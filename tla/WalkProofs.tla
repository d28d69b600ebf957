----------------------------- MODULE WalkProofs -----------------------------
(***************************************************************************)
(* What Walk promises of every program, proved: its types, that what is    *)
(* under way never outlives what it is part of, that every node is walked  *)
(* in the environment its properties describe, that nothing begins after   *)
(* an exit(), and that a status of 0 hides no failure.                     *)
(*                                                                         *)
(* A step of the walker is one of a few moves: a node ends and what is     *)
(* below it is cleared, it begins a kid, it takes a kid's answer.  Each    *)
(* move has a lemma; each action is a case of them.  IInv says what shape  *)
(* the walk has, and is inductive by itself.  KInv rests on it and says    *)
(* what the Runners hold: a Runner walks a single line of constructs below *)
(* the place it began at (Lineage), so that whoever acts on its            *)
(* environment acts alone, and what a node put aside is what the node      *)
(* around it was handed (EnvKept).                                         *)
(*                                                                         *)
(* Then, why a walk is never stuck: the deepest node that is under way can *)
(* go on, because of how far each kind of node is in each phase (Place).   *)
(* And why it runs out: every step but a further pass of a loop brings one *)
(* node closer to its end at the cost of none that is not below it         *)
(* (WalkRunsOut), which cannot go on for ever (DescentEnds).               *)
(***************************************************************************)
EXTENDS Walk, FiniteSetTheorems, WellFoundedInduction, TLAPS

-----------------------------------------------------------------------------
(* The inductive invariant.                                                *)

\* Outside a parallel block, one statement is under way at a time.
OneAtATime ==
  \A n \in Node : Kind[n] \notin Parallel =>
    \A k, l \in KidSet(n) : phase[k] # "idle" /\ phase[l] # "idle" => k = l

\* A property is applied, never walked.
NoPropWalks == \A n \in Node : Kind[n] = "prop" => phase[n] = "idle"

IInv == TypeOK /\ NothingOutlives /\ OneAtATime /\ NoPropWalks

-----------------------------------------------------------------------------
(* The tree.                                                               *)

\* Kids are nodes, one level below, with one parent.
LEMMA KidFacts ==
  /\ \A n \in Node : KidSet(n) \subseteq Node
  /\ \A n \in Node : \A k \in KidSet(n) : k # n /\ n \notin KidSet(k) /\ Anc[k] = Anc[n] \cup {n}
  /\ \A n, m \in Node : \A k \in KidSet(n) : k \in KidSet(m) => n = m
<1>1. \A n \in Node : DOMAIN Kids[n] = 1 .. Len(Kids[n]) /\ KidSet(n) \subseteq Node
  BY TreeAssumption DEF KidSet
<1>2. \A n \in Node : \A k \in KidSet(n) : k # n /\ Anc[k] = Anc[n] \cup {n}
  BY <1>1, TreeAssumption
<1>3. \A n \in Node : \A k \in KidSet(n) : n \notin KidSet(k)
  BY <1>1, <1>2, TreeAssumption
<1>4. \A n, m \in Node : \A k \in KidSet(n) : k \in KidSet(m) => n = m
  BY <1>1, TreeAssumption DEF KidSet
<1> QED BY <1>1, <1>2, <1>3, <1>4

\* A node that is not in "run" has nothing live below it.
LEMMA NothingBelow ==
  ASSUME IInv, NEW n \in Node, phase[n] # "run"
  PROVE  \A m \in Node : n \in Anc[m] => phase[m] = "idle"
BY DEF IInv, NothingOutlives

\* Beginning a node, whichever it is, gives it a phase of its own.
LEMMA FirstPhaseType == \A k \in Node : FirstPhase(k) \in {"enter", "run"}
BY DEF FirstPhase

LEMMA RaisedType ==
  \A n \in Node : Raised(n) \subseteq {"failed", "exit0", "exitN", "cancelled"} /\ Raised(n) \subseteq Results
BY DEF Raised, Results, Stops

LEMMA MostType == \A n \in Node : Most(n) \in Nat
<1>1. \A n \in Node : Len(Kids[n]) \in Nat /\ Times[n] \in Nat
  BY TreeAssumption, ProgramAssumption
<1> QED BY <1>1 DEF Most

LEMMA ExtendType ==
  ASSUME NEW p \in Props, NEW n \in Node
  PROVE  Extend(p, n) \in Props
BY ProgramAssumption DEF Extend, Props

LEMMA InnerType ==
  ASSUME TypeOK, NEW n \in Node
  PROVE  Inner(n) \in Props
<1>1. props[n] \in Props
  BY DEF TypeOK
<1>2. Extend(props[n], n) \in Props
  BY <1>1, ExtendType
<1>3. [Extend(props[n], n) EXCEPT !.ignore = FALSE] \in Props
  BY <1>2 DEF Props
<1> QED BY <1>2, <1>3 DEF Inner

-----------------------------------------------------------------------------
(* The moves.                                                              *)

\* n ends, and none of its kids is in the middle of anything.
LEMMA EndMove ==
  ASSUME IInv, NEW n \in Node, NEW e \in Results, End(n, e),
         UNCHANGED <<root, flags, interrupted, reached, status>>,
         phase[n] \in {"enter", "run"}, \A k \in KidSet(n) : phase[k] # "run"
  PROVE  IInv'
<1>1. /\ phase' = [m \in Node |-> IF m = n THEN e
                                 ELSE IF m \in KidSet(n) THEN "idle" ELSE phase[m]]
      /\ UNCHANGED <<pos, props, runner, saved, root, flags, interrupted, reached, status>>
  BY DEF End
<1>2. TypeOK'
  <2>1. phase' \in [Node -> Phases]
    BY <1>1 DEF IInv, TypeOK, Phases
  <2>2. env' \in [Node -> SUBSET Node]
    BY DEF End, IInv, TypeOK
  <2>3. bad' \subseteq Node \X Troubles \X BOOLEAN
    <3>1. ASSUME NEW b \in bad
          PROVE  <<b[1], b[2], b[3] \/ Outranks(n, e, b[1])>> \in Node \X Troubles \X BOOLEAN
      BY DEF IInv, TypeOK
    <3>2. e \in Troubles => <<n, e, Forgiven(n, e)>> \in Node \X Troubles \X BOOLEAN
      BY DEF Forgiven, Forgivable
    <3> QED BY <3>1, <3>2 DEF End
  <2>4. halted' \subseteq Node
    BY DEF End, IInv, TypeOK
  <2>5. \A m \in Node : pos'[m] <= Most(m)
    BY <1>1 DEF IInv, TypeOK
  <2> QED BY <1>1, <2>1, <2>2, <2>3, <2>4, <2>5 DEF IInv, TypeOK, Most
<1>3. ASSUME NEW m \in Node, n \in Anc[m]
      PROVE  phase'[m] = "idle"
  <2>1. PICK k \in KidSet(n) : m = k \/ k \in Anc[m]
    BY <1>3, TreeAssumption
  <2>2. m # n
    BY <1>3, TreeAssumption
  <2>3. CASE m = k
    BY <2>2, <2>3, <1>1
  <2>4. CASE k \in Anc[m]
    <3>1. k \in Node
      BY KidFacts
    <3>2. phase[m] = "idle"
      BY <2>4, <3>1, NothingBelow
    <3> QED BY <3>2, <2>2, <1>1
  <2> QED BY <2>1, <2>3, <2>4
<1>4. ASSUME NEW m \in Node, phase'[m] # "idle"
      PROVE  phase[m] # "idle"
  BY <1>1, <1>4
<1>5. NothingOutlives'
  <2> SUFFICES ASSUME NEW m \in Node, phase'[m] # "idle"
               PROVE  /\ m = root \/ root \in Anc[m]
                      /\ \A a \in Anc[m] : phase'[a] = "run"
    BY <1>1 DEF NothingOutlives
  <2>1. /\ m = root \/ root \in Anc[m]
        /\ \A a \in Anc[m] : phase[a] = "run"
    BY <1>4 DEF IInv, NothingOutlives
  <2>2. \A a \in Anc[m] : a \notin KidSet(n)
    BY <2>1
  <2>3. n \notin Anc[m]
    BY <1>3
  <2>4. \A a \in Anc[m] : a \in Node
    BY TreeAssumption
  <2> QED BY <1>1, <2>1, <2>2, <2>3, <2>4
<1>6. OneAtATime' /\ NoPropWalks'
  BY <1>4, KidFacts DEF IInv, OneAtATime, NoPropWalks
<1> QED BY <1>2, <1>5, <1>6 DEF IInv

\* n, with nothing live below it, begins its kid k: phases, and what they are part of.
LEMMA LiveMove ==
  ASSUME IInv, NEW n \in Node, NEW k \in KidSet(n), NEW ph \in {"enter", "run", "forked"},
         phase[n] = "run", phase[k] = "idle", Kind[k] # "prop",
         Kind[n] \in Parallel \/ Quiet(n),
         phase' = [phase EXCEPT ![k] = ph], root' = root
  PROVE  NothingOutlives' /\ OneAtATime' /\ NoPropWalks'
<1>1. /\ k \in Node /\ k # n /\ Anc[k] = Anc[n] \cup {n}
      /\ phase \in [Node -> Phases]
  BY KidFacts DEF IInv, TypeOK
<1>2. NothingOutlives'
  <2> SUFFICES ASSUME NEW m \in Node, phase'[m] # "idle"
               PROVE  /\ m = root \/ root \in Anc[m]
                      /\ \A a \in Anc[m] : phase'[a] = "run"
    BY DEF NothingOutlives
  <2>1. CASE m = k
    <3>1. /\ n = root \/ root \in Anc[n]
          /\ \A a \in Anc[n] : phase[a] = "run"
      BY DEF IInv, NothingOutlives
    <3>2. \A a \in Anc[k] : a \in Node /\ a # k
      BY <1>1, TreeAssumption
    <3> QED BY <2>1, <3>1, <3>2, <1>1
  <2>2. CASE m # k
    <3>1. phase[m] # "idle"
      BY <2>2, <1>1
    <3>2. /\ m = root \/ root \in Anc[m]
          /\ \A a \in Anc[m] : phase[a] = "run"
      BY <3>1 DEF IInv, NothingOutlives
    <3>3. \A a \in Anc[m] : a \in Node /\ a # k
      BY <3>2, TreeAssumption
    <3> QED BY <3>2, <3>3, <1>1
  <2> QED BY <2>1, <2>2
<1>3. OneAtATime'
  <2> SUFFICES ASSUME NEW m \in Node, Kind[m] \notin Parallel,
                      NEW i \in KidSet(m), NEW j \in KidSet(m),
                      phase'[i] # "idle", phase'[j] # "idle"
               PROVE  i = j
    BY DEF OneAtATime
  <2>1. i \in Node /\ j \in Node
    BY KidFacts
  <2>2. CASE m = n
    BY <2>1, <2>2, <1>1 DEF Quiet
  <2>3. CASE m # n
    <3>1. i # k /\ j # k
      BY <2>3, KidFacts
    <3> QED BY <3>1, <2>1, <1>1 DEF IInv, OneAtATime
  <2> QED BY <2>2, <2>3
<1>4. NoPropWalks'
  BY <1>1 DEF IInv, NoPropWalks
<1> QED BY <1>2, <1>3, <1>4

LEMMA BeginMove ==
  ASSUME IInv, NEW n \in Node, NEW k \in KidSet(n), NEW p \in Props, NEW en \in SUBSET Node,
         Begin(n, k, p, en), UNCHANGED <<root, flags, interrupted, reached, status>>,
         Ready(n), Kind[k] # "prop", Counted(n) <= Most(n)
  PROVE  IInv'
<1>1. /\ k \in Node /\ k # n /\ Anc[k] = Anc[n] \cup {n}
      /\ TypeOK /\ phase[n] = "run" /\ Quiet(n) /\ phase[k] = "idle"
  BY KidFacts DEF IInv, Ready, Quiet
<1>2. NothingOutlives' /\ OneAtATime' /\ NoPropWalks'
  <2>1. FirstPhase(k) \in {"enter", "run", "forked"} /\ phase' = [phase EXCEPT ![k] = FirstPhase(k)]
    BY <1>1, FirstPhaseType DEF Begin
  <2> HIDE DEF FirstPhase
  <2> QED BY <1>1, <2>1, LiveMove
<1>3. TypeOK'
  <2>1. phase' \in [Node -> Phases]
    BY <1>1, FirstPhaseType DEF Begin, TypeOK, Phases
  <2>2. Counted(n) \in Nat /\ \A m \in Node : 0 <= Most(m)
    BY <1>1, MostType DEF Counted, TypeOK
  <2>3. pos' \in [Node -> Nat] /\ \A m \in Node : pos'[m] <= Most(m)
    BY <1>1, <2>2 DEF Begin, TypeOK
  <2>4. props' \in [Node -> Props] /\ runner' \in [Node -> Node]
    BY <1>1 DEF Begin, TypeOK
  <2>5. env' \in [Node -> SUBSET Node] /\ saved' \in [Node -> SUBSET Node]
    BY <1>1 DEF Begin, TypeOK
  <2> QED BY <1>1, <2>1, <2>3, <2>4, <2>5 DEF Begin, TypeOK, history, Most
<1> QED BY <1>2, <1>3 DEF IInv

LEMMA TakeMove ==
  ASSUME IInv, NEW n \in Node, NEW k \in KidSet(n), Take(n, k), Returned(n, k),
         UNCHANGED <<root, flags, interrupted, reached, status>>
  PROVE  IInv'
<1>1. /\ k \in Node /\ TypeOK /\ phase[k] # "run"
      /\ phase' = [phase EXCEPT ![k] = "idle"]
  BY KidFacts DEF IInv, Take, Returned, Results, Stops
<1>2. TypeOK'
  BY <1>1 DEF Take, TypeOK, Phases, history, Most
<1>3. NothingOutlives'
  <2> SUFFICES ASSUME NEW m \in Node, phase'[m] # "idle"
               PROVE  /\ m = root \/ root \in Anc[m]
                      /\ \A a \in Anc[m] : phase'[a] = "run"
    BY <1>1 DEF NothingOutlives
  <2>1. phase[m] # "idle"
    BY <1>1 DEF TypeOK
  <2>2. /\ m = root \/ root \in Anc[m]
        /\ \A a \in Anc[m] : phase[a] = "run" /\ a \in Node
    BY <2>1, TreeAssumption DEF IInv, NothingOutlives
  <2> QED BY <2>2, <1>1 DEF TypeOK
<1>4. OneAtATime' /\ NoPropWalks'
  BY <1>1, KidFacts DEF IInv, OneAtATime, NoPropWalks, TypeOK
<1> QED BY <1>2, <1>3, <1>4 DEF IInv

\* Nothing below n is in the middle of anything when n is ready, or when n is not
\* parallel and one of its kids has answered.
LEMMA EndReady ==
  ASSUME IInv, NEW n \in Node, NEW e \in Results, End(n, e), Ready(n),
         UNCHANGED <<root, flags, interrupted, reached, status>>
  PROVE  IInv'
BY EndMove DEF Ready, Quiet

LEMMA EndReturned ==
  ASSUME IInv, NEW n \in Node, NEW k \in KidSet(n), NEW e \in Results, End(n, e), Returned(n, k),
         Kind[n] \notin Parallel, UNCHANGED <<root, flags, interrupted, reached, status>>
  PROVE  IInv'
<1>1. phase[n] = "run" /\ phase[k] # "idle" /\ phase[k] # "run"
  BY DEF Returned, Results, Stops
<1>2. \A l \in KidSet(n) : phase[l] # "run"
  BY <1>1 DEF IInv, OneAtATime
<1> QED BY <1>1, <1>2, EndMove

\* The body of a do, or a pass of a retry, a for or a loop.
LEMMA BodyMove ==
  ASSUME IInv, NEW n \in Node, Kind[n] \in {"do", "retry"} \cup Loops, BodyBegins(n), Ready(n),
         Counted(n) <= Most(n), UNCHANGED <<root, flags, interrupted, reached, status>>
  PROVE  IInv'
<1>1. Len(Kids[n]) \in {1, 2}
  BY ProgramAssumption
<1>2. Kids[n][1] \in KidSet(n)
  BY <1>1, TreeAssumption DEF KidSet
<1>3. Kind[Kids[n][1]] # "prop"
  BY <1>2, ProgramAssumption DEF IsBlock, Loops
<1>4. Inner(n) \in Props /\ env[runner[n]] \in SUBSET Node
  BY InnerType DEF IInv, TypeOK
<1> QED BY <1>2, <1>3, <1>4, BeginMove DEF BodyBegins

-----------------------------------------------------------------------------
(* The actions: blocks and leaves.                                         *)

LEMMA NextStatementKeeps ==
  ASSUME IInv, NEW n \in Node, NextStatement(n), UNCHANGED <<root, flags, interrupted, reached, status>>
  PROVE  IInv'
<1>1. CASE interrupted
  BY <1>1, EndReady DEF NextStatement, AtLine, Results
<1>2. CASE ~interrupted
  <2>1. IsBlock(n) /\ Ready(n) /\ pos[n] < Len(Kids[n]) /\ pos[n] \in Nat
    BY DEF NextStatement, AtLine, IInv, TypeOK
  <2>2. Following(n) \in KidSet(n)
    BY <2>1, TreeAssumption DEF Following, KidSet
  <2>3. Counted(n) <= Most(n)
    BY <2>1, TreeAssumption DEF Counted, Most, IsBlock
  <2>4. Begin(n, Following(n), props[n], env[runner[n]]) /\ Kind[Following(n)] # "prop"
    BY <1>2 DEF NextStatement
  <2>5. props[n] \in Props /\ env[runner[n]] \in SUBSET Node
    BY DEF IInv, TypeOK
  <2> QED BY <2>1, <2>2, <2>3, <2>4, <2>5, BeginMove
<1> QED BY <1>1, <1>2

LEMMA TrailingPropertyKeeps ==
  ASSUME IInv, NEW n \in Node, TrailingProperty(n), UNCHANGED <<root, flags, interrupted, reached, status>>
  PROVE  IInv'
<1>1. ASSUME NEW e \in Results, End(n, e)
      PROVE  IInv'
  BY <1>1, EndReady DEF TrailingProperty, AtLine
<1>2. CASE TakesProperty(n)
  <2> DEFINE p == Extend(props[n], Following(n))
  <2>1. /\ props' = [props EXCEPT ![n] = p]
        /\ env' = IF Following(n) \in EnvProps THEN [env EXCEPT ![runner[n]] = p.layers] ELSE env
        /\ pos' = [pos EXCEPT ![n] = @ + 1]
        /\ UNCHANGED <<phase, runner, saved, history>>
        /\ IsBlock(n) /\ pos[n] < Len(Kids[n])
    BY <1>2 DEF TrailingProperty, TakesProperty, AtLine
  <2>2. TypeOK
    BY DEF IInv
  <2>3. Following(n) \in Node
    BY <2>1, <2>2, TreeAssumption DEF Following, TypeOK
  <2>4. p \in Props
    BY <2>2, <2>3, ExtendType DEF TypeOK
  <2> HIDE DEF p
  <2>5. pos' \in [Node -> Nat] /\ \A m \in Node : pos'[m] <= Most(m)
    <3>1. pos \in [Node -> Nat] /\ \A m \in Node : pos[m] <= Most(m)
      BY <2>2 DEF TypeOK
    <3>2. Most(n) = Len(Kids[n]) /\ Len(Kids[n]) \in Nat
      BY <2>1, TreeAssumption DEF Most, IsBlock
    <3>3. pos' \in [Node -> Nat] /\ pos'[n] = pos[n] + 1 /\ \A m \in Node : m # n => pos'[m] = pos[m]
      BY <2>1, <3>1
    <3>4. pos'[n] <= Most(n)
      BY <2>1, <3>1, <3>2, <3>3
    <3> QED BY <3>1, <3>3, <3>4
  <2>6. env' \in [Node -> SUBSET Node]
    BY <2>1, <2>2, <2>4 DEF TypeOK, Props
  <2>7. TypeOK'
    BY <2>1, <2>2, <2>4, <2>5, <2>6 DEF TypeOK, history, Most
  <2> QED BY <2>1, <2>7 DEF IInv, NothingOutlives, OneAtATime, NoPropWalks, history
<1> QED BY <1>1, <1>2, RaisedType DEF TrailingProperty

LEMMA LeafKeeps ==
  ASSUME IInv, NEW n \in Node, Leaf(n), UNCHANGED <<root, flags, interrupted, reached, status>>
  PROVE  IInv'
<1>1. PICK e \in Outcomes(n) : End(n, e)
  BY DEF Leaf
<1>2. e \in Results
  BY RaisedType DEF Leaf, Outcomes, Results, Stops, Leaves
<1>3. Kids[n] = <<>> /\ phase[n] = "run"
  BY ProgramAssumption DEF Leaf
<1>4. \A k \in KidSet(n) : phase[k] # "run"
  BY <1>3 DEF KidSet
<1> QED BY <1>1, <1>2, <1>3, <1>4, EndMove

\* A block, a choice, a do and a call answer with what their kid answered, or less.
LEMMA AnswersKeep ==
  ASSUME IInv, NEW n \in Node, NEW k \in KidSet(n), UNCHANGED <<root, flags, interrupted, reached, status>>,
         \/ StatementReturned(n, k) \/ ChoiceReturned(n, k) \/ DoReturned(n, k)
         \/ ElseReturned(n, k) \/ PassReturned(n, k) \/ TargetReturned(n, k)
  PROVE  IInv'
<1>1. Returned(n, k) /\ Kind[n] \notin Parallel /\ phase[k] \in Results
  BY DEF StatementReturned, ChoiceReturned, DoReturned, ElseReturned, PassReturned,
         TargetReturned, IsBlock, Loops, Calls, Parallel, Returned
<1>2. Take(n, k) \/ \E e \in {phase[k], Ended(phase[k]), "ok"} : End(n, e)
  BY DEF StatementReturned, ChoiceReturned, DoReturned, ElseReturned, PassReturned, TargetReturned, Answer
<1>3. {phase[k], Ended(phase[k]), "ok"} \subseteq Results
  BY <1>1 DEF Ended, Results
<1> QED BY <1>1, <1>2, <1>3, TakeMove, EndReturned

LEMMA EndOfBlockKeeps ==
  ASSUME IInv, NEW n \in Node, EndOfBlock(n), UNCHANGED <<root, flags, interrupted, reached, status>>
  PROVE  IInv'
BY EndReady DEF EndOfBlock, Results

LEMMA ChooseKeeps ==
  ASSUME IInv, NEW n \in Node, Choose(n), UNCHANGED <<root, flags, interrupted, reached, status>>
  PROVE  IInv'
<1>1. Kind[n] = "choose" /\ Ready(n)
  BY DEF Choose
<1>2. ASSUME pos[n] = 0, NEW k \in KidSet(n), Begin(n, k, props[n], env[runner[n]])
      PROVE  IInv'
  <2>1. Kind[k] # "prop"
    BY <1>1, ProgramAssumption DEF IsBlock
  <2>2. Counted(n) <= Most(n)
    BY <1>1, <1>2 DEF Counted, Most, IsBlock
  <2>3. props[n] \in Props /\ env[runner[n]] \in SUBSET Node
    BY DEF IInv, TypeOK
  <2> QED BY <1>1, <1>2, <2>1, <2>2, <2>3, BeginMove
<1>3. ASSUME NEW e \in Results, End(n, e)
      PROVE  IInv'
  BY <1>1, <1>3, EndReady
<1> QED BY <1>2, <1>3, RaisedType DEF Choose, Results

-----------------------------------------------------------------------------
(* The actions: constructs with an environment of their own.               *)

LEMMA EnterKeeps ==
  ASSUME IInv, NEW n \in Node, Enter(n), UNCHANGED <<root, flags, interrupted, reached, status>>
  PROVE  IInv'
<1>1. phase[n] = "enter" /\ TypeOK /\ Inner(n) \in Props
  BY InnerType DEF Enter, IInv
<1>2. ASSUME NEW e \in Raised(n), End(n, e)
      PROVE  IInv'
  <2>1. \A k \in KidSet(n) : phase[k] = "idle"
    BY <1>1, KidFacts, NothingBelow
  <2> QED BY <1>1, <1>2, <2>1, EndMove, RaisedType
<1>3. CASE \A e \in Raised(n) : ~End(n, e)
  <2> DEFINE p == Inner(n)
  <2>1. /\ phase' = [phase EXCEPT ![n] = "run"]
        /\ props' = IF Kind[n] = "target" THEN [props EXCEPT ![n] = p] ELSE props
        /\ env'   = IF Kind[n] = "target" \/ p.layers # props[n].layers
                    THEN [env EXCEPT ![runner[n]] = p.layers] ELSE env
        /\ saved' = IF Kind[n] = "target" THEN [saved EXCEPT ![n] = p.layers] ELSE saved
        /\ UNCHANGED <<pos, runner, history>>
    BY <1>3 DEF Enter
  <2>2. p \in Props /\ p.layers \in SUBSET Node
    BY <1>1 DEF Props
  <2> HIDE DEF p
  <2>3. phase' \in [Node -> Phases] /\ props' \in [Node -> Props]
    BY <1>1, <2>1, <2>2 DEF TypeOK, Phases
  <2>4. env' \in [Node -> SUBSET Node] /\ saved' \in [Node -> SUBSET Node]
    BY <1>1, <2>1, <2>2 DEF TypeOK
  <2>5. TypeOK'
    BY <1>1, <2>1, <2>3, <2>4 DEF TypeOK, history, Most
  <2>6. \A m \in Node : phase'[m] # "idle" <=> phase[m] # "idle"
    BY <1>1, <2>1 DEF TypeOK
  <2>7. NothingOutlives'
    BY <1>1, <2>1, <2>6, TreeAssumption DEF IInv, NothingOutlives, TypeOK
  <2>8. OneAtATime' /\ NoPropWalks'
    BY <2>6, KidFacts DEF IInv, OneAtATime, NoPropWalks
  <2> QED BY <2>5, <2>7, <2>8 DEF IInv
<1> QED BY <1>2, <1>3

\* A loop looks at the flag and is about to ask its test.
LEMMA AtTestKeeps ==
  ASSUME IInv, NEW n \in Node, Kind[n] = "loop", AtTest(n), UNCHANGED <<root, flags, interrupted, reached, status>>
  PROVE  IInv'
<1>1. /\ pos' = [pos EXCEPT ![n] = 1] /\ Most(n) = 2
      /\ UNCHANGED <<phase, props, runner, env, saved, bad, halted>>
  BY DEF AtTest, history, Most, IsBlock
<1>2. TypeOK'
  BY <1>1 DEF IInv, TypeOK, Most
<1> QED BY <1>1, <1>2 DEF IInv, NothingOutlives, OneAtATime, NoPropWalks

LEMMA BodiesKeep ==
  ASSUME IInv, NEW n \in Node, Do(n) \/ Attempt(n) \/ NextItem(n) \/ NextPass(n) \/ Test(n),
         UNCHANGED <<root, flags, interrupted, reached, status>>
  PROVE  IInv'
<1>1. Ready(n) /\ Kind[n] \in {"do", "retry"} \cup Loops /\ pos[n] \in Nat /\ Times[n] \in Nat
  BY ProgramAssumption DEF Do, Attempt, NextItem, NextPass, Test, Loops, IInv, TypeOK
<1>2. \/ BodyBegins(n)
      \/ Kind[n] = "loop" /\ AtTest(n)
      \/ \E e \in {"ok", "failed", "interrupted"} \cup Raised(n) : End(n, e)
  BY DEF Do, Attempt, NextItem, NextPass, Test
<1>3. ASSUME NEW e \in {"ok", "failed", "interrupted"} \cup Raised(n), End(n, e)
      PROVE  IInv'
  <2>1. e \in Results
    BY RaisedType DEF Results
  <2> QED BY <1>1, <1>3, <2>1, EndReady
<1>4. CASE BodyBegins(n) /\ Counted(n) <= Most(n)
  BY <1>1, <1>4, BodyMove
<1>5. CASE ~(Counted(n) <= Most(n))
  <2>1. Kind[n] \in {"retry", "for"} /\ ~(pos[n] < Times[n])
    BY <1>1, <1>5 DEF Counted, Most, Do, Attempt, NextItem, NextPass, Test, IsBlock, Loops
  <2>2. \E e \in {"ok", "failed", "interrupted"} : End(n, e)
    BY <2>1 DEF Do, Attempt, NextItem, NextPass, Test
  <2> QED BY <2>2, <1>3
<1> QED BY <1>2, <1>3, <1>4, <1>5, AtTestKeeps

LEMMA ElseBeginsKeeps ==
  ASSUME IInv, NEW n \in Node, NEW body \in KidSet(n), Returned(n, body), ElseBegins(n, body),
         Kind[n] = "retry", Len(Kids[n]) = 2, body = Kids[n][1], UNCHANGED <<root, flags, interrupted, reached, status>>
  PROVE  IInv'
<1> DEFINE k == Kids[n][2]
           en == IF PutsBack(n) THEN saved[n] ELSE env[runner[n]]
<1>1. k \in KidSet(n) /\ k # body
  BY TreeAssumption DEF KidSet
<1>2. /\ TypeOK /\ k \in Node /\ body \in Node /\ n \in Node /\ phase[n] = "run"
      /\ phase[body] # "idle" /\ phase[body] # "run" /\ k # n /\ Anc[k] = Anc[n] \cup {n}
  BY <1>1, KidFacts DEF IInv, Returned, Results, Stops
<1>3. \A l \in KidSet(n) : l # body => phase[l] = "idle"
  BY <1>2 DEF IInv, OneAtATime, Parallel
<1>4. Kind[k] # "prop"
  BY <1>1, ProgramAssumption DEF IsBlock
<1>5. /\ phase'  = [phase EXCEPT ![body] = "idle", ![k] = FirstPhase(k)]
      /\ pos'    = [pos EXCEPT ![k] = 0]
      /\ props'  = [props EXCEPT ![k] = props[n]]
      /\ runner' = [runner EXCEPT ![k] = runner[n]]
      /\ saved'  = [saved EXCEPT ![k] = en]
      /\ env'    = [env EXCEPT ![runner[n]] = en]
      /\ UNCHANGED history
  BY DEF ElseBegins
<1>6. en \in SUBSET Node
  BY <1>2 DEF TypeOK
<1>7. k \in KidSet(n) /\ k # body /\ k \in Node
  BY <1>1, <1>2
<1> HIDE DEF k, en
<1>8. TypeOK'
  <2>1. phase' \in [Node -> Phases]
    BY <1>2, <1>5, FirstPhaseType DEF TypeOK, Phases
  <2>2. pos' \in [Node -> Nat] /\ \A m \in Node : pos'[m] <= Most(m)
    BY <1>2, <1>5, MostType DEF TypeOK
  <2>3. props' \in [Node -> Props] /\ runner' \in [Node -> Node]
    BY <1>2, <1>5 DEF TypeOK
  <2>4. env' \in [Node -> SUBSET Node] /\ saved' \in [Node -> SUBSET Node]
    BY <1>2, <1>5, <1>6 DEF TypeOK
  <2> QED BY <1>2, <1>5, <2>1, <2>2, <2>3, <2>4 DEF TypeOK, history, Most
<1>9. NothingOutlives'
  <2> SUFFICES ASSUME NEW m \in Node, phase'[m] # "idle"
               PROVE  /\ m = root \/ root \in Anc[m]
                      /\ \A a \in Anc[m] : phase'[a] = "run"
    BY DEF NothingOutlives
  <2>1. \A a \in Node : phase[a] = "run" => phase'[a] = "run"
    BY <1>2, <1>3, <1>5, <1>7 DEF TypeOK
  <2>2. CASE m = k
    <3>1. n = root \/ root \in Anc[n]
      BY <1>2 DEF IInv, NothingOutlives
    <3>2. \A a \in Anc[n] \cup {n} : a \in Node /\ phase[a] = "run"
      BY <1>2, TreeAssumption DEF IInv, NothingOutlives
    <3> QED BY <2>2, <2>1, <3>1, <3>2, <1>2
  <2>3. CASE m # k
    <3>1. phase[m] # "idle"
      BY <2>3, <1>2, <1>5 DEF TypeOK
    <3> QED BY <3>1, <2>1, TreeAssumption DEF IInv, NothingOutlives
  <2> QED BY <2>2, <2>3
<1>10. OneAtATime'
  <2> SUFFICES ASSUME NEW m \in Node, Kind[m] \notin Parallel,
                      NEW i \in KidSet(m), NEW j \in KidSet(m),
                      phase'[i] # "idle", phase'[j] # "idle"
               PROVE  i = j
    BY DEF OneAtATime
  <2>1. i \in Node /\ j \in Node
    BY KidFacts
  <2>2. CASE m = n
    BY <2>1, <2>2, <1>2, <1>3, <1>5, <1>7 DEF TypeOK
  <2>3. CASE m # n
    <3>1. i # k /\ j # k /\ i # body /\ j # body
      BY <2>3, <1>7, KidFacts
    <3> QED BY <3>1, <2>1, <1>2, <1>5 DEF IInv, OneAtATime, TypeOK
  <2> QED BY <2>2, <2>3
<1>11. NoPropWalks'
  BY <1>2, <1>4, <1>5 DEF IInv, NoPropWalks, TypeOK
<1> QED BY <1>8, <1>9, <1>10, <1>11 DEF IInv

LEMMA AttemptReturnedKeeps ==
  ASSUME IInv, NEW n \in Node, NEW k \in KidSet(n), AttemptReturned(n, k), UNCHANGED <<root, flags, interrupted, reached, status>>
  PROVE  IInv'
<1>1. Returned(n, k) /\ Kind[n] = "retry" /\ k = Kids[n][1] /\ phase[k] \in Results
  BY DEF AttemptReturned, Returned
<1>2. CASE End(n, phase[k])
  BY <1>1, <1>2, EndReturned DEF Parallel
<1>3. CASE Take(n, k)
  BY <1>1, <1>3, TakeMove
<1>4. CASE ElseBegins(n, k) /\ Len(Kids[n]) # 1
  <2>1. Len(Kids[n]) = 2
    BY <1>1, <1>4, ProgramAssumption
  <2> QED BY <1>1, <1>4, <2>1, ElseBeginsKeeps
<1> QED BY <1>2, <1>3, <1>4 DEF AttemptReturned

-----------------------------------------------------------------------------
(* The actions: parallel blocks and dispatch.                              *)

LEMMA BranchPropsType ==
  ASSUME TypeOK, NEW n \in Node, NEW i
  PROVE  BranchProps(n, i) \in Props
<1>1. Inner(n).ignore \in BOOLEAN /\ Inner(n).layers \in SUBSET Node
  BY InnerType DEF Props
<1> QED BY <1>1, ProgramAssumption DEF BranchProps, Props

LEMMA ForkKeeps ==
  ASSUME IInv, NEW n \in Node, Fork(n), UNCHANGED <<root, flags, interrupted, reached, status>>
  PROVE  IInv'
<1>1. Kind[n] \in Parallel /\ Ready(n) /\ pos[n] = 0 /\ TypeOK
  BY DEF Fork, IInv
<1>2. ASSUME NEW e \in Results, End(n, e)
      PROVE  IInv'
  BY <1>1, <1>2, EndReady
<1>3. CASE \A e \in Results : ~End(n, e)
  <2> DEFINE forks  == {Kids[n][i] : i \in Branches(n)}
             Nth(k) == CHOOSE i \in Branches(n) : Kids[n][i] = k
  <2>1. /\ phase'  = [m \in Node |-> IF m \in forks THEN "forked" ELSE phase[m]]
        /\ pos'    = [m \in Node |-> IF m = n THEN 1 ELSE IF m \in forks THEN 0 ELSE pos[m]]
        /\ props'  = [m \in Node |-> IF m \in forks THEN BranchProps(n, Nth(m)) ELSE props[m]]
        /\ runner' = [m \in Node |-> IF m \in forks THEN m ELSE runner[m]]
        /\ env'    = [m \in Node |-> IF m \in forks THEN BranchEnv(n, Nth(m)) ELSE env[m]]
        /\ saved'  = [m \in Node |-> IF m \in forks THEN BranchEnv(n, Nth(m)) ELSE saved[m]]
        /\ halted' = halted \ forks
        /\ UNCHANGED bad
    BY <1>3, RaisedType DEF Fork, Results
  <2>2. \A m \in Node : BranchProps(n, Nth(m)) \in Props /\ BranchEnv(n, Nth(m)) \in SUBSET Node
    <3> TAKE m \in Node
    <3>1. BranchProps(n, Nth(m)) \in Props
      BY <1>1, BranchPropsType
    <3> HIDE DEF Nth
    <3> QED BY <3>1, <1>1 DEF BranchEnv, Props, TypeOK
  <2>3. \A m \in forks : m \in KidSet(n) /\ Kind[m] # "prop"
    BY DEF Branches, KidSet
  <2> HIDE DEF forks, Nth
  <2>4. TypeOK'
    <3>1. phase' \in [Node -> Phases] /\ props' \in [Node -> Props] /\ runner' \in [Node -> Node]
      BY <1>1, <2>1, <2>2 DEF TypeOK, Phases
    <3>2. env' \in [Node -> SUBSET Node] /\ saved' \in [Node -> SUBSET Node]
      BY <1>1, <2>1, <2>2 DEF TypeOK
    <3>3. Most(n) = 1
      BY <1>1 DEF Most, Parallel, IsBlock
    <3>4. pos' \in [Node -> Nat] /\ \A m \in Node : pos'[m] <= Most(m)
      BY <1>1, <2>1, <3>3, MostType DEF TypeOK
    <3> QED BY <1>1, <2>1, <3>1, <3>2, <3>4 DEF TypeOK, Most
  <2>5. phase[n] = "run" /\ \A k \in KidSet(n) : k \in Node /\ phase[k] = "idle"
    BY <1>1, KidFacts DEF Ready, Quiet
  <2>6. \A a \in Node : phase[a] = "run" => phase'[a] = "run"
    BY <2>1, <2>3, <2>5
  <2>7. NothingOutlives'
    <3> SUFFICES ASSUME NEW m \in Node, phase'[m] # "idle"
                 PROVE  /\ m = root \/ root \in Anc[m]
                        /\ \A a \in Anc[m] : phase'[a] = "run"
      BY DEF NothingOutlives
    <3>1. CASE m \in forks
      <4>1. Anc[m] = Anc[n] \cup {n}
        BY <3>1, <2>3, KidFacts
      <4>2. n = root \/ root \in Anc[n]
        BY <2>5 DEF IInv, NothingOutlives
      <4>3. \A a \in Anc[n] \cup {n} : a \in Node /\ phase[a] = "run"
        BY <2>5, TreeAssumption DEF IInv, NothingOutlives
      <4> QED BY <4>1, <4>2, <4>3, <2>6
    <3>2. CASE m \notin forks
      <4>1. phase[m] # "idle"
        BY <3>2, <2>1
      <4> QED BY <4>1, <2>6, TreeAssumption DEF IInv, NothingOutlives
    <3> QED BY <3>1, <3>2
  <2>8. OneAtATime'
    <3> SUFFICES ASSUME NEW m \in Node, Kind[m] \notin Parallel,
                        NEW i \in KidSet(m), NEW j \in KidSet(m),
                        phase'[i] # "idle", phase'[j] # "idle"
                 PROVE  i = j
      BY DEF OneAtATime
    <3>1. i \in Node /\ j \in Node
      BY KidFacts
    <3>2. i \notin forks /\ j \notin forks
      BY <1>1, <2>3, KidFacts
    <3> QED BY <3>1, <3>2, <2>1 DEF IInv, OneAtATime
  <2>9. NoPropWalks'
    BY <2>1, <2>3 DEF IInv, NoPropWalks
  <2> QED BY <2>4, <2>7, <2>8, <2>9 DEF IInv
<1> QED BY <1>2, <1>3

LEMMA BranchStartsKeeps ==
  ASSUME IInv, NEW n \in Node, NEW k \in KidSet(n), BranchStarts(n, k), UNCHANGED <<root, flags, interrupted, reached, status>>
  PROVE  IInv'
<1>1. /\ TypeOK /\ k \in Node /\ k # n /\ phase[k] = "forked"
      /\ phase' = [phase EXCEPT ![k] = FirstPhase(k)]
      /\ UNCHANGED <<pos, props, runner, env, saved, history>>
  BY KidFacts DEF IInv, BranchStarts
<1>2. FirstPhase(k) \in {"enter", "run"}
  BY <1>1, FirstPhaseType
<1>3. TypeOK'
  BY <1>1, <1>2 DEF TypeOK, Phases, history, Most
<1>4. \A m \in Node : /\ phase'[m] # "idle" <=> phase[m] # "idle"
                      /\ phase[m] = "run" => phase'[m] = "run"
  BY <1>1, <1>2 DEF TypeOK
<1>5. NothingOutlives'
  BY <1>4, TreeAssumption DEF IInv, NothingOutlives
<1>6. OneAtATime' /\ NoPropWalks'
  BY <1>4, KidFacts DEF IInv, OneAtATime, NoPropWalks
<1> QED BY <1>3, <1>5, <1>6 DEF IInv

\* What a join answers with: the good end of all of them, or the answer of one
\* that had none, a failure only if nobody was stopped.
LEMMA JoinAnswers ==
  ASSUME NEW n \in Node
  PROVE  \/ /\ JoinAnswer(n) = "ok"
            /\ \A i \in Branches(n) : BranchAnswer(n, Kids[n][i]) = "ok"
         \/ /\ \E i \in Branches(n) : JoinAnswer(n) = BranchAnswer(n, Kids[n][i])
            /\ JoinAnswer(n) # "ok"
            /\ \/ JoinAnswer(n) \in Stops
               \/ \A i \in Branches(n) : BranchAnswer(n, Kids[n][i]) \notin Stops
<1> DEFINE answer(i) == BranchAnswer(n, Kids[n][i])
           first(S)  == CHOOSE i \in S : \A j \in S : i <= j
           stops     == {i \in Branches(n) : answer(i) \in Stops}
           failures  == {i \in Branches(n) : answer(i) # "ok"}
<1>1. \A S \in SUBSET Branches(n) : S # {} => first(S) \in S
  <2> SUFFICES ASSUME NEW S \in SUBSET Branches(n), S # {}
               PROVE  \E i \in S : \A j \in S : i <= j
    OBVIOUS
  <2>1. S \subseteq Nat
    BY TreeAssumption DEF Branches
  <2>2. PICK i \in S : \A j \in S : <<j, i>> \notin OpToRel(<, Nat)
    BY <2>1, NatLessThanWellFounded, WFMin, Zenon
  <2>3. \A j \in S : ~(j < i)
    BY <2>1, <2>2 DEF OpToRel
  <2> QED BY <2>1, <2>3
<1>2. JoinAnswer(n) = IF stops # {} THEN answer(first(stops))
                      ELSE IF failures # {} THEN answer(first(failures)) ELSE "ok"
  BY DEF JoinAnswer
<1>3. \A i \in Branches(n) : (i \in stops <=> answer(i) \in Stops) /\ (i \in failures <=> answer(i) # "ok")
  OBVIOUS
<1>4. stops \in SUBSET Branches(n) /\ failures \in SUBSET Branches(n) /\ "ok" \notin Stops
  BY DEF Stops
<1> HIDE DEF first, stops, failures
<1> QED BY <1>1, <1>2, <1>3, <1>4

LEMMA JoinResult ==
  ASSUME NEW n \in Node, \A i \in Branches(n) : phase[Kids[n][i]] \in Results
  PROVE  JoinAnswer(n) \in Results
<1>1. \A i \in Branches(n) : BranchAnswer(n, Kids[n][i]) \in Results
  BY DEF BranchAnswer, Results
<1>2. "ok" \in Results
  BY DEF Results
<1> QED BY <1>1, <1>2, JoinAnswers

LEMMA JoinKeeps ==
  ASSUME IInv, NEW n \in Node, Join(n), UNCHANGED <<root, flags, interrupted, reached, status>>
  PROVE  IInv'
<1>1. /\ phase[n] = "run" /\ End(n, JoinAnswer(n))
      /\ \A i \in Branches(n) : phase[Kids[n][i]] \in Results
  BY DEF Join
<1>2. \A k \in KidSet(n) : phase[k] # "run"
  <2> TAKE k \in KidSet(n)
  <2>1. PICK i \in DOMAIN Kids[n] : k = Kids[n][i]
    BY DEF KidSet
  <2>2. CASE i \in Branches(n)
    BY <1>1, <2>1, <2>2 DEF Results, Stops
  <2>3. CASE i \notin Branches(n)
    BY <2>1, <2>3, KidFacts DEF Branches, IInv, NoPropWalks
  <2> QED BY <2>2, <2>3
<1> QED BY <1>1, <1>2, JoinResult, EndMove

\* A refused dispatch ends the line that made it.
LEMMA RefusedEnds ==
  \A n \in Node : Refused(n) =>
    \E e \in {"ok", "failed", "exited", "cancelled"} : End(n, e)
BY DEF Refused, Answer, Ended

LEMMA DispatchKeeps ==
  ASSUME IInv, NEW n \in Node, Dispatch(n), UNCHANGED <<root, flags, interrupted, reached, status>>
  PROVE  IInv'
<1>1. Kind[n] \in Calls /\ Ready(n) /\ pos[n] = 0 /\ TypeOK
  BY DEF Dispatch, IInv
<1>2. CASE \E e \in Results : End(n, e)
  BY <1>1, <1>2, EndReady
<1>3. ASSUME NEW k \in KidSet(n),
             /\ phase'  = [phase EXCEPT ![k] = "enter"]
             /\ pos'    = [pos EXCEPT ![n] = 1, ![k] = 0]
             /\ props'  = [props EXCEPT ![k] = [ignore |-> FALSE, layers |-> env[runner[n]]]]
             /\ runner' = [runner EXCEPT ![k] = k]
             /\ env'    = [env EXCEPT ![k] = env[runner[n]]]
             /\ saved'  = [saved EXCEPT ![k] = env[runner[n]]]
             /\ halted' = halted \ {k}
             /\ UNCHANGED bad
      PROVE  IInv'
  <2>1. k \in Node /\ k # n /\ phase[n] = "run" /\ Quiet(n) /\ phase[k] = "idle"
    BY <1>1, KidFacts DEF Ready, Quiet
  <2>2. Kind[k] # "prop" /\ Most(n) = 1
    BY <1>1, ProgramAssumption DEF IsBlock, Calls, Most
  <2>3. NothingOutlives' /\ OneAtATime' /\ NoPropWalks'
    BY <1>3, <2>1, <2>2, LiveMove
  <2>4. [ignore |-> FALSE, layers |-> env[runner[n]]] \in Props /\ env[runner[n]] \in SUBSET Node
    BY <1>1 DEF TypeOK, Props
  <2>5. phase' \in [Node -> Phases] /\ props' \in [Node -> Props] /\ runner' \in [Node -> Node]
    BY <1>1, <1>3, <2>1, <2>4 DEF TypeOK, Phases
  <2>6. env' \in [Node -> SUBSET Node] /\ saved' \in [Node -> SUBSET Node]
    BY <1>1, <1>3, <2>1, <2>4 DEF TypeOK
  <2>7. pos' \in [Node -> Nat] /\ \A m \in Node : pos'[m] <= Most(m)
    BY <1>1, <1>3, <2>1, <2>2, MostType DEF TypeOK
  <2>8. TypeOK'
    BY <1>1, <1>3, <2>5, <2>6, <2>7 DEF TypeOK, Most
  <2> QED BY <2>3, <2>8 DEF IInv
<1>4. Refused(n) => \E e \in Results : End(n, e)
  BY RefusedEnds DEF Results, Stops
<1>5. (\E e \in Raised(n) : End(n, e)) => \E e \in Results : End(n, e)
  BY RaisedType
<1>6. CASE Refused(n) \/ \E e \in Raised(n) : End(n, e)
  BY <1>2, <1>4, <1>5, <1>6
<1> QED BY <1>3, <1>6 DEF Dispatch

-----------------------------------------------------------------------------
(* What else is invariant: who walks what, the environment each Runner      *)
(* holds, what a halted Runner still does, and who carries a failure.       *)

\* The kids of a call or a parallel block begin Runners of their own.
Own(n) == Kind[n] \in Parallel \cup Calls

\* A Runner is at n: it is there to act on, or its branches have it wait.
Turn(n) == phase[n] \in {"forked", "enter", "run"} /\ (Own(n) \/ Quiet(n))

Entering == \A n \in Node : phase[n] = "enter" => Kind[n] \in Owners \cup {"target"}

\* The Runner of a node began at it or above it, at the nearest call or branch.
RunnerAbove == \A n \in Node : phase[n] # "idle" => runner[n] \in Anc[n] \cup {n}
RunnerOfKid ==
  \A n \in Node : \A k \in KidSet(n) : phase[k] # "idle" =>
    runner[k] = IF Own(n) THEN k ELSE runner[n]
RunnerFenced ==
  \A n \in Node : phase[n] # "idle" => \A a \in Anc[n] : Own(a) => runner[n] \notin Anc[a] \cup {a}
\* What one Runner walks is a single line of nested constructs.
RunnerChain ==
  \A m, n \in Node : phase[m] # "idle" /\ phase[n] # "idle" /\ runner[m] = runner[n] =>
    m = n \/ m \in Anc[n] \/ n \in Anc[m]
Lineage == RunnerAbove /\ RunnerOfKid /\ RunnerFenced /\ RunnerChain

\* The environment n hands its kid k: an else is walked outside the body's.
Handed(n, k) == IF Kind[n] = "retry" /\ k # Kids[n][1] THEN props[n].layers ELSE EnvOf(n)

EnvNow == \A n \in Node : Turn(n) => env[runner[n]] = EnvOf(n)
EnvHanded ==
  \A n \in Node : \A k \in KidSet(n) : ~Own(n) /\ phase[k] # "idle" =>
    /\ saved[k] = Handed(n, k)
    /\ phase[k] \in Results => env[runner[n]] = Handed(n, k)
\* What is put aside is what a node's own properties describe, unless it has
\* changed them on the way, and then it puts it back.
EnvFound ==
  \A n \in Node : phase[n] # "idle" /\ ~(IsBlock(n) /\ HasTrailing(n)) => saved[n] = props[n].layers
EnvKept == EnvNow /\ EnvHanded /\ EnvFound

\* A halted Runner is on its way out: nothing of it is there to act.
Halts == {"exit0", "exitN", "cancelled"}
HaltedLeaves ==
  \A n \in Node :
    /\ Turn(n) => runner[n] \notin halted
    /\ phase[n] \in Results /\ runner[n] \in halted => phase[n] \in Halts

\* break and continue have a loop to reach.
StopsReach ==
  \A n \in Node :
    /\ phase[n] = "break" => \E l \in Anc[n] : Kind[l] \in Loops /\ WithinFence(n, l)
    /\ phase[n] = "continue" =>
         \E l \in Anc[n] : Kind[l] \in Loops \cup {"parfor"} /\ WithinFence(n, l)

\* A refusal, and a failure nothing forgives, is on its way up.
Carried ==
  \A b \in bad :
    ~b[3] => \E a \in Anc[b[1]] \cup {b[1]} : phase[a] \in Troubles /\ ~Forgiven(a, phase[a])

StatusSays == status = "0" => phase[root] \in {"ok", "exit0"}

KInv == IInv /\ Entering /\ Lineage /\ EnvKept /\ HaltedLeaves /\ StopsReach /\ Carried /\ StatusSays

-----------------------------------------------------------------------------
(* Lemmas on one state.                                                    *)

LEMMA AncNodes == \A n \in Node : Anc[n] \subseteq Node /\ n \notin Anc[n]
BY TreeAssumption

\* Below a node whose kids are idle, everything is.
LEMMA QuietBelow ==
  ASSUME IInv, NEW n \in Node, Quiet(n)
  PROVE  \A m \in Node : n \in Anc[m] => phase[m] = "idle"
<1> SUFFICES ASSUME NEW m \in Node, n \in Anc[m]
             PROVE  phase[m] = "idle"
  OBVIOUS
<1>1. PICK k \in KidSet(n) : m = k \/ k \in Anc[m]
  BY TreeAssumption
<1>2. phase[k] = "idle" /\ k \in Node
  BY KidFacts DEF Quiet
<1> QED BY <1>1, <1>2 DEF IInv, NothingOutlives

\* Under a live node everything above is in "run".
LEMMA AboveRuns ==
  ASSUME IInv, NEW n \in Node, phase[n] # "idle"
  PROVE  \A a \in Anc[n] : a \in Node /\ phase[a] = "run"
BY TreeAssumption DEF IInv, NothingOutlives

\* Whoever else a Runner is at when it acts on n is above n and waiting, or a kid
\* of n which is done.
LEMMA Alone ==
  ASSUME IInv, Lineage, NEW n \in Node, phase[n] \in {"enter", "run"},
         Own(n) \/ \A k \in KidSet(n) : phase[k] # "run",
         NEW m \in Node, m # n, phase[m] # "idle", runner[m] = runner[n]
  PROVE  \/ /\ m \in Anc[n] /\ phase[m] = "run" /\ ~Own(m)
            /\ \E j \in KidSet(m) : phase[j] # "idle" /\ (j = n \/ j \in Anc[n])
         \/ m \in KidSet(n) /\ ~Own(n)
<1>1. CASE m \in Anc[n]
  <2>1. phase[m] = "run"
    BY <1>1, AboveRuns
  <2>2. ~Own(m)
    <3>1. runner[m] \in Anc[m] \cup {m}
      BY DEF Lineage, RunnerAbove
    <3> QED BY <1>1, <3>1 DEF Lineage, RunnerFenced
  <2>3. PICK j \in KidSet(m) : n = j \/ j \in Anc[n]
    BY <1>1, TreeAssumption
  <2>4. phase[j] # "idle"
    BY <2>3, AboveRuns
  <2> QED BY <1>1, <2>1, <2>2, <2>3, <2>4
<1>2. CASE n \in Anc[m]
  <2>1. ~Own(n)
    <3>1. runner[n] \in Anc[n] \cup {n}
      BY DEF Lineage, RunnerAbove
    <3> QED BY <1>2, <3>1 DEF Lineage, RunnerFenced
  <2>2. PICK j \in KidSet(n) : m = j \/ j \in Anc[m]
    BY <1>2, TreeAssumption
  <2>3. j \notin Anc[m]
    BY <2>1, <2>2, AboveRuns
  <2> QED BY <2>1, <2>2, <2>3
<1>3. m \in Anc[n] \/ n \in Anc[m]
  BY DEF Lineage, RunnerChain
<1> QED BY <1>1, <1>2, <1>3

\* So nobody else of that Runner has a turn.
LEMMA OneTurn ==
  ASSUME IInv, Lineage, NEW n \in Node, phase[n] \in {"enter", "run"},
         Own(n) \/ \A k \in KidSet(n) : phase[k] # "run",
         NEW m \in Node, m # n, m \notin KidSet(n), Turn(m)
  PROVE  runner[m] # runner[n]
<1> SUFFICES ASSUME runner[m] = runner[n]
             PROVE  FALSE
  OBVIOUS
<1>1. phase[m] # "idle"
  BY DEF Turn
<1>2. ~Own(m) /\ \E j \in KidSet(m) : phase[j] # "idle"
  BY <1>1, Alone
<1> QED BY <1>2 DEF Turn, Quiet

\* And nobody else of it has a kid which is done.
LEMMA OneWaits ==
  ASSUME IInv, Lineage, NEW n \in Node, phase[n] \in {"enter", "run"},
         Own(n) \/ \A k \in KidSet(n) : phase[k] # "run",
         NEW m \in Node, m # n, ~Own(m), NEW k \in KidSet(m), phase[k] \in Results
  PROVE  runner[m] # runner[n]
<1> SUFFICES ASSUME runner[m] = runner[n]
             PROVE  FALSE
  OBVIOUS
<1>1. k \in Node /\ phase[k] # "idle" /\ phase[k] \notin {"run", "enter"} /\ Anc[k] = Anc[m] \cup {m}
  BY KidFacts DEF Results, Stops
<1>2. phase[m] = "run"
  BY <1>1, AboveRuns
<1>3. m \notin KidSet(n) \/ Own(n)
  BY <1>2
<1>4. PICK j \in KidSet(m) : phase[j] # "idle" /\ (j = n \/ j \in Anc[n])
  BY <1>2, <1>3, Alone
<1>5. j = k
  BY <1>1, <1>4 DEF IInv, OneAtATime, Own
<1>6. phase[j] \in {"enter", "run"}
  BY <1>4, AboveRuns
<1> QED BY <1>1, <1>5, <1>6

LEMMA EnvOfSame ==
  ASSUME NEW m \in Node, props'[m] = props[m], phase'[m] = "run" <=> phase[m] = "run"
  PROVE  EnvOf(m)' = EnvOf(m)
BY DEF EnvOf, Inner, Extend

\* A node which has not changed its environment on the way has the one it found.
LEMMA NotPutBack ==
  ASSUME IInv, EnvFound, NEW n \in Node, phase[n] # "idle", ~PutsBack(n)
  PROVE  EnvOf(n) = saved[n] /\ props[n].layers = saved[n]
<1>1. props[n].layers = saved[n]
  BY DEF EnvFound, PutsBack
<1>2. Kind[n] \in Owners => Inner(n).layers = props[n].layers
  BY DEF PutsBack
<1> QED BY <1>1, <1>2 DEF EnvOf

LEMMA ForgivableSame ==
  ASSUME NEW n \in Node, \A a \in Anc[n] \cup {n} : props'[a] = props[a]
  PROVE  Forgivable(n)' <=> Forgivable(n)
BY DEF Forgivable, Inner, Extend

LEMMA ForgivableUp ==
  ASSUME NEW n \in Node, NEW k \in KidSet(n), Forgivable(n)
  PROVE  Forgivable(k)
<1>1. Anc[k] = Anc[n] \cup {n}
  BY KidFacts
<1> QED BY <1>1 DEF Forgivable

-----------------------------------------------------------------------------
(* Frames: what a move leaves of each part.                                *)

\* Nothing begins, and everyone keeps its Runner.
LEMMA LineageShrinks ==
  ASSUME Lineage, runner' = runner,
         \A m \in Node : phase'[m] # "idle" => phase[m] # "idle"
  PROVE  Lineage'
<1>1. RunnerAbove' /\ RunnerOfKid' /\ RunnerFenced'
  BY KidFacts DEF Lineage, RunnerAbove, RunnerOfKid, RunnerFenced, Own
<1>2. RunnerChain'
  BY DEF Lineage, RunnerChain
<1> QED BY <1>1, <1>2 DEF Lineage

\* Kids of n begin, alone unless each has a Runner of its own.
LEMMA LineageGrows ==
  ASSUME IInv, Lineage, NEW n \in Node, NEW S \in SUBSET KidSet(n), phase[n] = "run",
         runner' = [m \in Node |-> IF m \in S THEN IF Own(n) THEN m ELSE runner[n] ELSE runner[m]],
         \A m \in S : phase[m] = "idle",
         \A m \in Node : phase'[m] # "idle" => phase[m] # "idle" \/ m \in S,
         \A k, l \in S : Own(n) \/ k = l,
         Own(n) \/ \A m \in Node \ S : n \in Anc[m] => phase'[m] = "idle"
  PROVE  Lineage'
<1> DEFINE r(m) == runner[m]
<1>1. S \subseteq Node /\ \A k \in S : Anc[k] = Anc[n] \cup {n} /\ k # n
  BY KidFacts
<1>2. runner[n] \in Anc[n] \cup {n}
  BY DEF Lineage, RunnerAbove
<1>3. \A m \in Node \ S : runner'[m] = runner[m]
  OBVIOUS
<1>4. \A m \in S : runner'[m] = IF Own(n) THEN m ELSE runner[n]
  BY <1>1
<1>5. RunnerAbove'
  BY <1>1, <1>2, <1>3, <1>4 DEF Lineage, RunnerAbove
<1>6. n \notin S
  BY <1>1
<1>7. ASSUME NEW m \in Node \ S, phase'[m] # "idle"
      PROVE  Anc[m] \cap S = {} /\ runner[m] \notin S
  <2>1. phase[m] # "idle"
    BY <1>7
  <2>2. Anc[m] \cap S = {}
    BY <2>1, AboveRuns
  <2> QED BY <2>1, <2>2 DEF Lineage, RunnerAbove
<1>8. RunnerOfKid'
  <2> SUFFICES ASSUME NEW m \in Node, NEW k \in KidSet(m), phase'[k] # "idle"
               PROVE  runner'[k] = IF Own(m) THEN k ELSE runner'[m]
    BY DEF RunnerOfKid, Own
  <2>1. k \in Node /\ Anc[k] = Anc[m] \cup {m}
    BY KidFacts
  <2>2. CASE k \in S
    <3>1. m = n
      BY <2>2, KidFacts
    <3> QED BY <2>2, <3>1, <1>3, <1>4, <1>6
  <2>3. CASE k \notin S
    <3>1. m \notin S
      BY <2>1, <2>3, <1>7
    <3> QED BY <2>1, <2>3, <3>1, <1>3 DEF Lineage, RunnerOfKid
  <2> QED BY <2>2, <2>3
<1>9. RunnerFenced'
  <2> SUFFICES ASSUME NEW m \in Node, phase'[m] # "idle", NEW a \in Anc[m], Own(a)
               PROVE  runner'[m] \notin Anc[a] \cup {a}
    BY DEF RunnerFenced, Own
  <2>1. a \in Node /\ Anc[a] \subseteq Anc[m] /\ m \notin Anc[m]
    BY TreeAssumption
  <2>2. CASE m \notin S
    BY <2>2, <1>3 DEF Lineage, RunnerFenced
  <2>3. CASE m \in S /\ Own(n)
    BY <2>1, <2>3, <1>4
  <2>4. CASE m \in S /\ ~Own(n)
    <3>1. a \in Anc[n]
      BY <2>4, <1>1
    <3> QED BY <2>4, <3>1, <1>4 DEF Lineage, RunnerFenced
  <2> QED BY <2>2, <2>3, <2>4
<1>10. ASSUME NEW k \in S, NEW m \in Node, phase'[m] # "idle", runner'[m] = runner'[k]
       PROVE  m = k \/ m \in Anc[k] \/ k \in Anc[m]
  <2>1. CASE m \in S
    BY <2>1, <1>10, <1>4
  <2>2. CASE m \notin S /\ Own(n)
    BY <2>2, <1>10, <1>3, <1>4, <1>7
  <2>3. CASE m \notin S /\ ~Own(n)
    <3>1. runner[m] = runner[n] /\ phase[m] # "idle"
      BY <2>3, <1>10, <1>3, <1>4
    <3>2. m = n \/ m \in Anc[n] \/ n \in Anc[m]
      BY <3>1 DEF Lineage, RunnerChain
    <3>3. n \notin Anc[m]
      BY <2>3, <1>10
    <3> QED BY <3>2, <3>3, <1>1
  <2> QED BY <2>1, <2>2, <2>3
<1>11. RunnerChain'
  <2> SUFFICES ASSUME NEW l \in Node, NEW m \in Node, phase'[l] # "idle", phase'[m] # "idle",
                      runner'[l] = runner'[m]
               PROVE  l = m \/ l \in Anc[m] \/ m \in Anc[l]
    BY DEF RunnerChain
  <2>1. CASE l \in S \/ m \in S
    BY <2>1, <1>10
  <2>2. CASE l \notin S /\ m \notin S
    BY <2>2, <1>3 DEF Lineage, RunnerChain
  <2> QED BY <2>1, <2>2
<1> QED BY <1>5, <1>8, <1>9, <1>11 DEF Lineage

LEMMA LineageGrowsBy ==
  ASSUME IInv, Lineage, NEW n \in Node, NEW k \in KidSet(n), phase[n] = "run", phase[k] = "idle",
         runner' = [runner EXCEPT ![k] = IF Own(n) THEN k ELSE runner[n]],
         \A m \in Node : phase'[m] # "idle" => phase[m] # "idle" \/ m = k,
         \A m \in Node : m # k /\ n \in Anc[m] => phase'[m] = "idle"
  PROVE  Lineage'
<1> DEFINE S == {k}
<1>1. runner \in [Node -> Node] /\ k \in Node
  BY KidFacts DEF IInv, TypeOK
<1>2. runner' = [m \in Node |-> IF m \in S THEN IF Own(n) THEN m ELSE runner[n] ELSE runner[m]]
  BY <1>1
<1>3. S \in SUBSET KidSet(n) /\ \A l, m \in S : Own(n) \/ l = m
  OBVIOUS
<1>4. \A m \in S : phase[m] = "idle"
  OBVIOUS
<1>5. \A m \in Node : phase'[m] # "idle" => phase[m] # "idle" \/ m \in S
  OBVIOUS
<1>6. Own(n) \/ \A m \in Node \ S : n \in Anc[m] => phase'[m] = "idle"
  OBVIOUS
<1> HIDE DEF S
<1> QED BY <1>2, <1>3, <1>4, <1>5, <1>6, LineageGrows

\* Nothing ends: who carried a failure carries it, or something forgave it.
LEMMA CarriedFrame ==
  ASSUME IInv, Carried, bad' = bad,
         \A a \in Node : phase[a] \in Troubles =>
           \/ phase[a] # "cancelled" /\ Forgivable(a)
           \/ phase'[a] = phase[a] /\ \A c \in Anc[a] \cup {a} : props'[c] = props[c]
  PROVE  Carried'
<1> SUFFICES ASSUME NEW b \in bad, ~b[3]
             PROVE  \E a \in Anc[b[1]] \cup {b[1]} : phase'[a] \in Troubles /\ ~Forgiven(a, phase[a])'
  BY DEF Carried
<1>1. b[1] \in Node /\ Anc[b[1]] \cup {b[1]} \subseteq Node
  BY TreeAssumption DEF IInv, TypeOK
<1>2. PICK a \in Anc[b[1]] \cup {b[1]} : phase[a] \in Troubles /\ ~Forgiven(a, phase[a])
  BY DEF Carried
<1>3. phase'[a] = phase[a] /\ \A c \in Anc[a] \cup {a} : props'[c] = props[c]
  BY <1>1, <1>2 DEF Forgiven
<1>4. Forgivable(a)' <=> Forgivable(a)
  BY <1>1, <1>3, ForgivableSame
<1>5. ~Forgiven(a, phase[a])'
  BY <1>2, <1>3, <1>4 DEF Forgiven
<1> QED BY <1>2, <1>3, <1>5

\* Nobody breaks or goes on who did not.
LEMMA StopsFrame ==
  ASSUME StopsReach,
         \A m \in Node : phase'[m] \in {"break", "continue"} => phase'[m] = phase[m]
  PROVE  StopsReach'
BY DEF StopsReach, WithinFence

-----------------------------------------------------------------------------
(* The moves again.                                                        *)

\* n ends: it is the one its Runner is at, and what it changed is put back.
LEMMA EndPutsBack ==
  ASSUME KInv, NEW n \in Node, NEW e \in Results, End(n, e), phase[n] \in {"enter", "run"},
         Turn(n) \/ (~Own(n) /\ \E k \in KidSet(n) : phase[k] \in Results)
  PROVE  env'[runner[n]] = saved[n]
<1>1. env \in [Node -> SUBSET Node] /\ runner[n] \in Node
  BY DEF KInv, IInv, TypeOK
<1>2. CASE PutsBack(n)
  BY <1>1, <1>2 DEF End
<1>3. CASE ~PutsBack(n)
  <2>1. env' = env
    BY <1>3 DEF End
  <2>2. EnvOf(n) = saved[n] /\ props[n].layers = saved[n]
    BY <1>3, NotPutBack DEF KInv, EnvKept
  <2>3. CASE Turn(n)
    BY <2>1, <2>2, <2>3 DEF KInv, EnvKept, EnvNow
  <2>4. ASSUME ~Own(n), NEW k \in KidSet(n), phase[k] \in Results
        PROVE  env[runner[n]] = saved[n]
    <3>1. env[runner[n]] = Handed(n, k)
      BY <2>4 DEF KInv, EnvKept, EnvHanded, Results, Stops
    <3> QED BY <2>2, <3>1 DEF Handed
  <2> QED BY <2>1, <2>3, <2>4
<1> QED BY <1>2, <1>3

LEMMA EndKeepsRunners ==
  ASSUME KInv, NEW n \in Node, NEW e \in Results, End(n, e), phase[n] \in {"enter", "run"},
         \A k \in KidSet(n) : phase[k] # "run",
         Turn(n) \/ (~Own(n) /\ \E k \in KidSet(n) : phase[k] \in Results),
         \A k \in KidSet(n) : ~Own(n) /\ phase[k] \in Halts => e \in Halts
  PROVE  Entering' /\ Lineage' /\ EnvKept' /\ HaltedLeaves'
<1>1. /\ phase' = [m \in Node |-> IF m = n THEN e
                                 ELSE IF m \in KidSet(n) THEN "idle" ELSE phase[m]]
      /\ UNCHANGED <<pos, props, runner, saved>>
      /\ env' = IF PutsBack(n) THEN [env EXCEPT ![runner[n]] = saved[n]] ELSE env
      /\ halted' = IF e \in Halts THEN halted \cup {runner[n]} ELSE halted
  BY DEF End, Halts
<1>2. /\ IInv /\ Lineage /\ env \in [Node -> SUBSET Node] /\ runner \in [Node -> Node]
      /\ e \notin {"idle", "forked", "enter", "run"}
  BY DEF KInv, IInv, TypeOK, Results, Stops
<1>3. \A m \in Node : m # n /\ m \notin KidSet(n) => phase'[m] = phase[m]
  BY <1>1
<1>4. phase'[n] = e /\ \A k \in KidSet(n) : k \in Node /\ k # n /\ phase'[k] = "idle"
  BY <1>1, KidFacts
<1>5. \A m \in Node : phase'[m] # "idle" => phase[m] # "idle" /\ m \notin KidSet(n)
  BY <1>3, <1>4
<1>6. env'[runner[n]] = saved[n] /\ \A r \in Node : r # runner[n] => env'[r] = env[r]
  BY <1>1, <1>2, EndPutsBack
<1> HIDE DEF KInv
<1>7. ASSUME NEW m \in Node, Turn(m)'
      PROVE  /\ m # n /\ m \notin KidSet(n) /\ phase'[m] = phase[m]
             /\ Turn(m) /\ runner[m] # runner[n]
  <2>1. phase'[m] \in {"forked", "enter", "run"} /\ (Own(m) \/ \A k \in KidSet(m) : phase'[k] = "idle")
    BY <1>7 DEF Turn, Quiet, Own
  <2>2. m # n /\ m \notin KidSet(n) /\ phase'[m] = phase[m]
    BY <1>2, <1>3, <1>4, <2>1
  <2>3. Own(m) \/ Quiet(m)
    <3> SUFFICES ASSUME ~Own(m), NEW k \in KidSet(m)
                 PROVE  phase[k] = "idle"
      BY DEF Quiet
    <3>1. phase'[k] = "idle" /\ k \in Node
      BY <2>1, KidFacts
    <3>2. k # n /\ k \notin KidSet(n)
      BY <1>2, <1>4, <3>1, <2>2, KidFacts
    <3> QED BY <3>1, <3>2, <1>3
  <2>4. Turn(m)
    BY <2>1, <2>2, <2>3 DEF Turn
  <2> QED BY <2>2, <2>4, <1>2, OneTurn
<1>8. Entering'
  BY <1>2, <1>3, <1>4 DEF KInv, Entering
<1>9. Lineage'
  BY <1>1, <1>2, <1>5, LineageShrinks
<1>10. EnvNow'
  <2> SUFFICES ASSUME NEW m \in Node, Turn(m)'
               PROVE  env'[runner'[m]] = EnvOf(m)'
    BY DEF EnvNow
  <2>1. env[runner[m]] = EnvOf(m)
    BY <1>7 DEF KInv, EnvKept, EnvNow
  <2>2. EnvOf(m)' = EnvOf(m)
    BY <1>1, <1>7, EnvOfSame
  <2>3. env'[runner[m]] = env[runner[m]]
    BY <1>2, <1>6, <1>7
  <2> QED BY <2>1, <2>2, <2>3, <1>1
<1>11. EnvHanded'
  <2> SUFFICES ASSUME NEW m \in Node, NEW k \in KidSet(m), ~Own(m), phase'[k] # "idle"
               PROVE  /\ saved'[k] = Handed(m, k)'
                      /\ phase'[k] \in Results => env'[runner'[m]] = Handed(m, k)'
    BY DEF EnvHanded, Own
  <2>1. k \in Node /\ phase[k] # "idle" /\ k \notin KidSet(n) /\ m # n /\ Anc[k] = Anc[m] \cup {m}
    BY <1>5, KidFacts
  <2>2. phase[m] = "run" /\ m \notin KidSet(n)
    BY <2>1, <1>2, AboveRuns
  <2>3. EnvOf(m)' = EnvOf(m)
    BY <1>1, <1>3, <2>1, <2>2, EnvOfSame
  <2>4. Handed(m, k)' = Handed(m, k) /\ saved'[k] = Handed(m, k)
    BY <1>1, <2>1, <2>3 DEF Handed, KInv, EnvKept, EnvHanded
  <2>5. CASE k = n
    <3>1. runner[n] = runner[m]
      BY <2>1, <2>5, <1>2 DEF Lineage, RunnerOfKid
    <3> QED BY <2>4, <2>5, <3>1, <1>1, <1>6
  <2>6. ASSUME k # n, phase'[k] \in Results
        PROVE  env'[runner[m]] = Handed(m, k)
    <3>1. phase[k] \in Results
      BY <1>3, <2>1, <2>6
    <3>2. env[runner[m]] = Handed(m, k)
      BY <2>1, <3>1 DEF KInv, EnvKept, EnvHanded
    <3>3. runner[m] # runner[n]
      BY <1>2, <2>1, <3>1, OneWaits
    <3> QED BY <3>2, <3>3, <1>2, <1>6
  <2> QED BY <2>4, <2>5, <2>6, <1>1
<1>12. EnvFound'
  BY <1>1, <1>5 DEF KInv, EnvKept, EnvFound, HasTrailing
<1>13. HaltedLeaves'
  <2>1. \A m \in Node : Turn(m)' => runner'[m] \notin halted'
    BY <1>1, <1>7 DEF KInv, HaltedLeaves
  <2>2. ASSUME NEW m \in Node, phase'[m] \in Results, runner'[m] \in halted'
        PROVE  phase'[m] \in Halts
    <3>0. phase'[m] # "idle" /\ m \notin KidSet(n)
      BY <2>2, <1>4 DEF Results, Stops
    <3>1. CASE e \in Halts /\ m = n
      BY <3>1, <1>4
    <3>2. CASE e \in Halts /\ m # n /\ runner[m] = runner[n]
      <4>1. phase[m] = phase'[m]
        BY <3>0, <3>2, <1>3
      <4>2. phase[m] # "run" /\ phase[m] # "idle"
        BY <4>1, <2>2 DEF Results, Stops
      <4> QED BY <3>0, <3>2, <4>2, <1>2, Alone
    <3>3. CASE m # n /\ ~(e \in Halts /\ runner[m] = runner[n])
      <4>1. phase[m] = phase'[m] /\ runner[m] \in halted
        BY <3>0, <3>3, <1>1, <1>3, <2>2
      <4> QED BY <4>1, <2>2 DEF KInv, HaltedLeaves
    <3>4. CASE m = n /\ e \notin Halts
      <4>1. runner[n] \in halted
        BY <3>4, <1>1, <2>2
      <4>2. ~Turn(n)
        BY <4>1 DEF KInv, HaltedLeaves
      <4>3. PICK k \in KidSet(n) : phase[k] \in Results /\ ~Own(n)
        BY <4>2
      <4>4. runner[k] = runner[n] /\ k \in Node
        BY <4>3, <1>2, KidFacts DEF Lineage, RunnerOfKid, Results, Stops
      <4>5. phase[k] \in Halts
        BY <4>1, <4>3, <4>4 DEF KInv, HaltedLeaves
      <4> QED BY <4>3, <4>5, <3>4
    <3> QED BY <3>1, <3>2, <3>3, <3>4
  <2> QED BY <2>1, <2>2 DEF HaltedLeaves
<1> QED BY <1>8, <1>9, <1>10, <1>11, <1>12, <1>13 DEF EnvKept

\* n ends, and what it ends with accounts for what its kids ended with.
LEMMA EndCarries ==
  ASSUME KInv, NEW n \in Node, NEW e \in Results, End(n, e), phase[n] \in {"enter", "run"},
         \A k \in KidSet(n) : phase[k] = "cancelled" =>
           e = "cancelled" \/ (Kind[n] \in Parallel /\ e \in {"exit0", "exitN"}),
         \A k \in KidSet(n) : phase[k] \in Troubles =>
           e \in Troubles \/ Forgivable(k) \/ (Kind[n] \in Parallel /\ e \in {"exit0", "exitN"})
  PROVE  Carried'
<1>1. /\ phase' = [m \in Node |-> IF m = n THEN e
                                 ELSE IF m \in KidSet(n) THEN "idle" ELSE phase[m]]
      /\ props' = props
      /\ bad' = {<<b[1], b[2], b[3] \/ Outranks(n, e, b[1])>> : b \in bad}
                  \cup (IF e \in Troubles THEN {<<n, e, Forgiven(n, e)>>} ELSE {})
  BY DEF End
<1>2. \A b \in bad : b[1] \in Node /\ b[3] \in BOOLEAN
  BY DEF KInv, IInv, TypeOK
<1>3. \A k \in KidSet(n) : k \in Node /\ k # n /\ Anc[k] = Anc[n] \cup {n}
  BY KidFacts
<1>4. \A m \in Node : Forgivable(m)' <=> Forgivable(m)
  <2> TAKE m \in Node
  <2>1. \A a \in Anc[m] \cup {m} : props'[a] = props[a]
    BY <1>1
  <2> QED BY <2>1, ForgivableSame
<1>5. phase'[n] = e /\ \A m \in Node : m # n /\ m \notin KidSet(n) => phase'[m] = phase[m]
  BY <1>1
<1>6. ASSUME NEW b \in bad, ~b[3], ~Outranks(n, e, b[1])
      PROVE  \E a \in Anc[b[1]] \cup {b[1]} : phase'[a] \in Troubles /\ ~Forgiven(a, phase'[a])
  <2>1. PICK a \in Anc[b[1]] \cup {b[1]} : phase[a] \in Troubles /\ ~Forgiven(a, phase[a])
    BY <1>6 DEF KInv, Carried
  <2>2. a \in Node /\ a # n
    BY <1>2, <2>1, AncNodes DEF Troubles
  <2>3. CASE a \in KidSet(n)
    <3>1. n \in Anc[b[1]]
      BY <1>2, <1>3, <2>1, <2>3, TreeAssumption
    <3>2. ~(Kind[n] \in Parallel /\ e \in {"exit0", "exitN"})
      BY <1>6, <3>1 DEF Outranks
    <3>3. CASE phase[a] = "cancelled"
      BY <2>3, <3>1, <3>2, <3>3, <1>5 DEF Forgiven, Troubles
    <3>4. CASE phase[a] # "cancelled"
      <4>1. ~Forgivable(a)
        BY <2>1, <3>4 DEF Forgiven
      <4>2. e \in Troubles /\ ~Forgivable(n)
        BY <2>1, <2>3, <3>2, <4>1, ForgivableUp
      <4> QED BY <3>1, <4>2, <1>5 DEF Forgiven
    <3> QED BY <3>3, <3>4
  <2>4. CASE a \notin KidSet(n)
    BY <2>1, <2>2, <2>4, <1>5
  <2> QED BY <2>3, <2>4
<1>7. ASSUME NEW b \in bad', ~b[3]
      PROVE  \E a \in Anc[b[1]] \cup {b[1]} : phase'[a] \in Troubles /\ ~Forgiven(a, phase'[a])
  <2>1. CASE e \in Troubles /\ b = <<n, e, Forgiven(n, e)>>
    BY <2>1, <1>5, <1>7
  <2>2. ASSUME NEW c \in bad, b = <<c[1], c[2], c[3] \/ Outranks(n, e, c[1])>>
        PROVE  \E a \in Anc[b[1]] \cup {b[1]} : phase'[a] \in Troubles /\ ~Forgiven(a, phase'[a])
    <3>1. b[1] = c[1] /\ ~c[3] /\ ~Outranks(n, e, c[1])
      BY <1>7, <2>2
    <3> QED BY <3>1, <1>6
  <2> QED BY <2>1, <2>2, <1>1
<1>8. \A b \in bad' : Anc[b[1]] \cup {b[1]} \subseteq Node
  <2>1. \A b \in bad' : b[1] \in Node
    BY <1>1, <1>2
  <2> QED BY <2>1, AncNodes
<1>9. \A m \in Node : Forgiven(m, phase[m])' <=> Forgiven(m, phase'[m])
  BY <1>4 DEF Forgiven
<1> QED BY <1>7, <1>8, <1>9 DEF Carried

LEMMA EndStops ==
  ASSUME KInv, NEW n \in Node, NEW e \in Results, End(n, e),
         e = "break" => \E l \in Anc[n] : Kind[l] \in Loops /\ WithinFence(n, l),
         e = "continue" => \E l \in Anc[n] : Kind[l] \in Loops \cup {"parfor"} /\ WithinFence(n, l)
  PROVE  StopsReach'
<1>1. \A m \in Node : phase'[m] = IF m = n THEN e ELSE IF m \in KidSet(n) THEN "idle" ELSE phase[m]
  BY DEF End
<1> QED BY <1>1 DEF KInv, StopsReach, WithinFence

\* n ends, and nothing below it had begun.
LEMMA EndAlone ==
  ASSUME KInv, IInv', NEW n \in Node, NEW e \in Results, End(n, e),
         phase[n] \in {"enter", "run"}, Quiet(n), status = "running", status' = status,
         e = "break" => \E l \in Anc[n] : Kind[l] \in Loops /\ WithinFence(n, l),
         e = "continue" => \E l \in Anc[n] : Kind[l] \in Loops \cup {"parfor"} /\ WithinFence(n, l)
  PROVE  KInv'
<1>1. \A k \in KidSet(n) : phase[k] = "idle"
  BY DEF Quiet
<1>2. Turn(n)
  BY DEF Turn
<1>3. \A k \in KidSet(n) : phase[k] # "run" /\ phase[k] \notin Halts /\ phase[k] \notin Troubles
  BY <1>1 DEF Halts, Troubles
<1>4. Entering' /\ Lineage' /\ EnvKept' /\ HaltedLeaves'
  BY <1>2, <1>3, EndKeepsRunners
<1>5. Carried'
  BY <1>1, <1>3, EndCarries
<1>6. StopsReach'
  BY EndStops
<1> QED BY <1>4, <1>5, <1>6 DEF KInv, StatusSays

\* What a loop around a kid is, it is around the node, unless it is the node.
LEMMA FenceUp ==
  ASSUME NEW n \in Node, NEW k \in KidSet(n), NEW l \in Anc[k], l # n, WithinFence(k, l)
  PROVE  l \in Anc[n] /\ WithinFence(n, l)
<1>1. Anc[k] = Anc[n] \cup {n}
  BY KidFacts
<1> QED BY <1>1 DEF WithinFence

\* n, which is not parallel, ends with what its kid answered, or with something
\* that accounts for it.
LEMMA EndAnswers ==
  ASSUME KInv, IInv', NEW n \in Node, NEW k \in KidSet(n), NEW e \in Results, End(n, e),
         Returned(n, k), Kind[n] \notin Parallel, status = "running", status' = status,
         \/ e = phase[k] /\ (Kind[n] \in Loops => e \notin {"break", "continue"})
         \/ /\ e \notin {"break", "continue", "cancelled"} /\ phase[k] # "cancelled"
            /\ phase[k] \in Troubles => e \in Troubles \/ Forgivable(k)
            /\ ~Own(n) => phase[k] \notin Halts
  PROVE  KInv'
<1>1. phase[n] = "run" /\ phase[k] \in Results /\ k \in Node /\ Anc[k] = Anc[n] \cup {n}
  BY KidFacts DEF Returned
<1>2. \A l \in KidSet(n) : l = k \/ phase[l] = "idle"
  BY <1>1 DEF KInv, IInv, OneAtATime, Results, Stops
<1>3. phase[k] \notin {"idle", "run"}
  BY <1>1 DEF Results, Stops
<1>4. Entering' /\ Lineage' /\ EnvKept' /\ HaltedLeaves'
  <2>1. \A l \in KidSet(n) : phase[l] # "run"
    BY <1>2, <1>3
  <2>2. Turn(n) \/ (~Own(n) /\ \E l \in KidSet(n) : phase[l] \in Results)
    BY <1>1 DEF Turn
  <2>3. \A l \in KidSet(n) : ~Own(n) /\ phase[l] \in Halts => e \in Halts
    BY <1>2 DEF Halts
  <2> QED BY <1>1, <2>1, <2>2, <2>3, EndKeepsRunners
<1>5. Carried'
  <2>1. \A l \in KidSet(n) : phase[l] = "cancelled" => e = "cancelled"
    BY <1>2
  <2>2. \A l \in KidSet(n) : phase[l] \in Troubles =>
          e \in Troubles \/ Forgivable(l) \/ (Kind[n] \in Parallel /\ e \in {"exit0", "exitN"})
    BY <1>2 DEF Troubles
  <2> QED BY <1>1, <2>1, <2>2, EndCarries
<1>6. StopsReach'
  <2>1. e = "break" => \E l \in Anc[n] : Kind[l] \in Loops /\ WithinFence(n, l)
    <3>1. SUFFICES ASSUME e = "break"
                   PROVE  \E l \in Anc[n] : Kind[l] \in Loops /\ WithinFence(n, l)
      OBVIOUS
    <3>2. PICK l \in Anc[k] : Kind[l] \in Loops /\ WithinFence(k, l)
      BY <1>1, <3>1 DEF KInv, StopsReach
    <3> QED BY <3>1, <3>2, FenceUp
  <2>2. e = "continue" => \E l \in Anc[n] : Kind[l] \in Loops \cup {"parfor"} /\ WithinFence(n, l)
    <3>1. SUFFICES ASSUME e = "continue"
                   PROVE  \E l \in Anc[n] : Kind[l] \in Loops \cup {"parfor"} /\ WithinFence(n, l)
      OBVIOUS
    <3>2. PICK l \in Anc[k] : Kind[l] \in Loops \cup {"parfor"} /\ WithinFence(k, l)
      BY <1>1, <3>1 DEF KInv, StopsReach
    <3> QED BY <3>1, <3>2, FenceUp DEF Parallel
  <2> QED BY <2>1, <2>2, EndStops
<1> QED BY <1>4, <1>5, <1>6 DEF KInv, StatusSays

\* n, at rest, begins its kid k in its own Runner.
LEMMA BeginHolds ==
  ASSUME KInv, IInv', NEW n \in Node, NEW k \in KidSet(n), NEW p \in Props,
         Begin(n, k, p, env[runner[n]]), Ready(n), ~Own(n), p.layers = EnvOf(n),
         Kind[n] = "retry" => k = Kids[n][1], status = "running", status' = status
  PROVE  KInv'
<1>1. /\ phase'  = [phase EXCEPT ![k] = FirstPhase(k)]
      /\ props'  = [props EXCEPT ![k] = p]
      /\ runner' = [runner EXCEPT ![k] = runner[n]]
      /\ saved'  = [saved EXCEPT ![k] = env[runner[n]]]
      /\ env'    = [env EXCEPT ![runner[n]] = env[runner[n]]]
      /\ UNCHANGED <<bad, halted>>
  BY DEF Begin, history
<1>2. /\ IInv /\ Lineage /\ phase \in [Node -> Phases] /\ props \in [Node -> Props]
      /\ runner \in [Node -> Node] /\ env \in [Node -> SUBSET Node] /\ saved \in [Node -> SUBSET Node]
  BY DEF KInv, IInv, TypeOK
<1>3. /\ k \in Node /\ k # n /\ Anc[k] = Anc[n] \cup {n} /\ n \notin KidSet(k)
      /\ phase[n] = "run" /\ Quiet(n) /\ phase[k] = "idle"
  BY KidFacts DEF Ready, Quiet
<1>4. /\ FirstPhase(k) \in {"enter", "run"}
      /\ FirstPhase(k) = "enter" => Kind[k] \in Owners \cup {"target"}
      /\ FirstPhase(k) = "run" => Kind[k] \notin Owners
  BY DEF FirstPhase
<1>5. phase'[k] = FirstPhase(k) /\ \A m \in Node : m # k => phase'[m] = phase[m]
  BY <1>1, <1>2, <1>3
<1>6. props'[k] = p /\ \A m \in Node : m # k => props'[m] = props[m]
  BY <1>1, <1>2, <1>3
<1>7. runner'[k] = runner[n] /\ \A m \in Node : m # k => runner'[m] = runner[m]
  BY <1>1, <1>2, <1>3
<1>8. saved'[k] = env[runner[n]] /\ \A m \in Node : m # k => saved'[m] = saved[m]
  BY <1>1, <1>2, <1>3
<1>9. env' = env
  BY <1>1, <1>2
<1>10. \A m \in Node : k \in Anc[m] => phase[m] = "idle"
  BY <1>2, <1>3, NothingBelow
<1>11. \A m \in Node : n \in Anc[m] => phase[m] = "idle"
  BY <1>2, <1>3, QuietBelow
<1> HIDE DEF KInv, FirstPhase
<1>12. Entering'
  BY <1>3, <1>4, <1>5 DEF KInv, Entering
<1>13. Lineage'
  <2>1. runner' = [runner EXCEPT ![k] = IF Own(n) THEN k ELSE runner[n]]
    BY <1>1
  <2>2. \A m \in Node : phase'[m] # "idle" => phase[m] # "idle" \/ m = k
    BY <1>5
  <2>3. \A m \in Node : m # k /\ n \in Anc[m] => phase'[m] = "idle"
    BY <1>5, <1>11
  <2> QED BY <1>2, <1>3, <2>1, <2>2, <2>3, LineageGrowsBy
<1>14. ASSUME NEW m \in Node, m # k, Turn(m)'
       PROVE  m # n /\ Turn(m)
  <2>1. phase'[m] \in {"forked", "enter", "run"} /\ (Own(m) \/ \A j \in KidSet(m) : phase'[j] = "idle")
    BY <1>14 DEF Turn, Quiet, Own
  <2>2. m # n
    BY <2>1, <1>4, <1>5
  <2>3. Own(m) \/ Quiet(m)
    BY <2>1, <2>2, <1>5, KidFacts DEF Quiet
  <2> QED BY <2>1, <2>2, <2>3, <1>5, <1>14 DEF Turn
<1>15. EnvOf(n) = env[runner[n]]
  BY <1>3 DEF KInv, EnvKept, EnvNow, Turn
<1>16. EnvNow'
  <2> SUFFICES ASSUME NEW m \in Node, Turn(m)'
               PROVE  env'[runner'[m]] = EnvOf(m)'
    BY DEF EnvNow
  <2>1. CASE m = k
    <3>1. EnvOf(k)' = p.layers
      BY <1>4, <1>5, <1>6 DEF EnvOf
    <3> QED BY <2>1, <3>1, <1>7, <1>9, <1>15
  <2>2. CASE m # k
    <3>1. Turn(m)
      BY <2>2, <1>14
    <3>2. EnvOf(m)' = EnvOf(m)
      BY <2>2, <1>5, <1>6, EnvOfSame
    <3> QED BY <2>2, <3>1, <3>2, <1>7, <1>9 DEF KInv, EnvKept, EnvNow
  <2> QED BY <2>1, <2>2
<1>17. EnvHanded'
  <2> SUFFICES ASSUME NEW m \in Node, NEW j \in KidSet(m), ~Own(m), phase'[j] # "idle"
               PROVE  /\ saved'[j] = Handed(m, j)'
                      /\ phase'[j] \in Results => env'[runner'[m]] = Handed(m, j)'
    BY DEF EnvHanded, Own
  <2>1. j \in Node /\ Anc[j] = Anc[m] \cup {m}
    BY KidFacts
  <2>2. CASE j = k
    <3>1. m = n
      BY <2>2, KidFacts
    <3>2. EnvOf(n)' = EnvOf(n)
      BY <1>3, <1>5, <1>6, EnvOfSame
    <3>3. Handed(n, k)' = EnvOf(n)
      BY <3>2 DEF Handed
    <3>4. phase'[k] \notin Results
      BY <1>4, <1>5 DEF Results, Stops
    <3> QED BY <2>2, <3>1, <3>3, <3>4, <1>8, <1>15
  <2>3. CASE j # k
    <3>1. m # k
      BY <2>1, <2>3, <1>5, <1>10
    <3>2. EnvOf(m)' = EnvOf(m)
      BY <3>1, <1>5, <1>6, EnvOfSame
    <3>3. Handed(m, j)' = Handed(m, j)
      BY <3>1, <3>2, <1>6 DEF Handed
    <3> QED BY <2>1, <2>3, <3>1, <3>3, <1>5, <1>7, <1>8, <1>9 DEF KInv, EnvKept, EnvHanded
  <2> QED BY <2>2, <2>3
<1>18. EnvFound'
  BY <1>5, <1>6, <1>8, <1>15 DEF KInv, EnvKept, EnvFound, HasTrailing
<1>19. HaltedLeaves'
  <2>1. runner[n] \notin halted
    BY <1>3 DEF KInv, HaltedLeaves, Turn
  <2>2. phase'[k] \notin Results
    BY <1>4, <1>5 DEF Results, Stops
  <2> QED BY <1>1, <1>5, <1>7, <1>14, <2>1, <2>2 DEF KInv, HaltedLeaves
<1>20. StopsReach'
  BY <1>4, <1>5, StopsFrame DEF KInv
<1>21. Carried'
  <2>1. ASSUME NEW a \in Node, phase[a] \in Troubles
        PROVE  phase'[a] = phase[a] /\ \A c \in Anc[a] \cup {a} : props'[c] = props[c]
    <3>1. a # k /\ k \notin Anc[a]
      BY <2>1, <1>3, <1>10 DEF Troubles
    <3> QED BY <3>1, <1>5, <1>6, AncNodes
  <2> QED BY <1>1, <1>2, <2>1, CarriedFrame DEF KInv
<1> QED BY <1>12, <1>13, <1>16, <1>17, <1>18, <1>19, <1>20, <1>21 DEF KInv, EnvKept, StatusSays

\* n takes its kid's answer: one that worked, or one that something forgives.
LEMMA TakeHolds ==
  ASSUME KInv, IInv', NEW n \in Node, NEW k \in KidSet(n), Take(n, k), Returned(n, k),
         ~Own(n), Kind[n] = "retry" => k = Kids[n][1], phase[k] \notin Halts,
         phase[k] \in Troubles => Forgivable(k), status = "running", status' = status
  PROVE  KInv'
<1>1. /\ phase' = [phase EXCEPT ![k] = "idle"]
      /\ UNCHANGED <<pos, props, runner, env, saved, bad, halted>>
  BY DEF Take, history
<1>2. /\ IInv /\ Lineage /\ phase \in [Node -> Phases]
  BY DEF KInv, IInv, TypeOK
<1>3. /\ k \in Node /\ k # n /\ phase[n] = "run" /\ phase[k] \in Results /\ Kind[n] \notin Parallel
      /\ phase[k] \notin {"idle", "forked", "enter", "run"}
  BY KidFacts DEF Returned, Results, Stops, Own
<1>4. phase'[k] = "idle" /\ \A m \in Node : m # k => phase'[m] = phase[m]
  BY <1>1, <1>2, <1>3
<1>5. \A m \in Node : phase'[m] # "idle" => phase[m] # "idle" /\ m # k
  BY <1>4
<1>6. \A l \in KidSet(n) : l = k \/ phase[l] = "idle"
  BY <1>2, <1>3 DEF IInv, OneAtATime
<1> HIDE DEF KInv
<1>7. Entering' /\ Lineage'
  BY <1>1, <1>2, <1>4, <1>5, LineageShrinks DEF KInv, Entering
<1>8. ASSUME NEW m \in Node, m # n, Turn(m)'
      PROVE  m # k /\ Turn(m)
  <2>1. phase'[m] \in {"forked", "enter", "run"} /\ (Own(m) \/ \A j \in KidSet(m) : phase'[j] = "idle")
    BY <1>8 DEF Turn, Quiet, Own
  <2>2. Own(m) \/ Quiet(m)
    BY <2>1, <1>4, <1>8, KidFacts DEF Quiet
  <2> QED BY <2>1, <2>2, <1>4 DEF Turn
<1>9. env[runner[n]] = EnvOf(n) /\ saved[k] = EnvOf(n)
  <2>1. Handed(n, k) = EnvOf(n)
    BY DEF Handed
  <2> QED BY <1>3, <2>1 DEF KInv, EnvKept, EnvHanded
<1>10. runner[n] \notin halted
  <2>1. runner[k] = runner[n]
    BY <1>2, <1>3 DEF Lineage, RunnerOfKid
  <2> QED BY <1>3, <2>1 DEF KInv, HaltedLeaves
<1>11. \A m \in Node : m # k => EnvOf(m)' = EnvOf(m)
  BY <1>1, <1>4, EnvOfSame
<1>12. EnvNow'
  BY <1>1, <1>3, <1>8, <1>9, <1>11 DEF KInv, EnvKept, EnvNow, Turn
<1>13. EnvHanded'
  <2> SUFFICES ASSUME NEW m \in Node, NEW j \in KidSet(m), ~Own(m), phase'[j] # "idle"
               PROVE  /\ saved'[j] = Handed(m, j)'
                      /\ phase'[j] \in Results => env'[runner'[m]] = Handed(m, j)'
    BY DEF EnvHanded, Own
  <2>1. j \in Node /\ j # k /\ phase[j] # "idle" /\ phase'[j] = phase[j] /\ Anc[j] = Anc[m] \cup {m}
    BY <1>4, <1>5, KidFacts
  <2>2. m # k
    BY <2>1, <1>2, <1>3, AboveRuns
  <2>3. Handed(m, j)' = Handed(m, j)
    BY <2>2, <1>1, <1>11 DEF Handed
  <2> QED BY <1>1, <2>1, <2>3 DEF KInv, EnvKept, EnvHanded
<1>14. EnvFound'
  BY <1>1, <1>5 DEF KInv, EnvKept, EnvFound, HasTrailing
<1>15. HaltedLeaves'
  <2>1. \A m \in Node : Turn(m)' => runner'[m] \notin halted'
    BY <1>1, <1>8, <1>10 DEF KInv, HaltedLeaves
  <2>2. \A m \in Node : phase'[m] \in Results => phase[m] = phase'[m]
    BY <1>4 DEF Results, Stops
  <2> QED BY <1>1, <2>1, <2>2 DEF KInv, HaltedLeaves
<1>16. StopsReach'
  BY <1>4, StopsFrame DEF KInv
<1>17. Carried'
  <2>1. ASSUME NEW a \in Node, phase[a] \in Troubles
        PROVE  \/ phase[a] # "cancelled" /\ Forgivable(a)
               \/ phase'[a] = phase[a] /\ \A c \in Anc[a] \cup {a} : props'[c] = props[c]
    BY <2>1, <1>1, <1>4 DEF Halts
  <2> QED BY <1>1, <1>2, <2>1, CarriedFrame DEF KInv
<1> QED BY <1>7, <1>12, <1>13, <1>14, <1>15, <1>16, <1>17 DEF KInv, EnvKept, StatusSays

\* n goes in, or a property below its statements is applied: n keeps its kids, its
\* Runner and its halts, and the Runner's environment becomes what n now describes.
LEMMA ChangeHolds ==
  ASSUME KInv, IInv', NEW n \in Node, phase[n] \in {"enter", "run"}, Quiet(n),
         phase' = [phase EXCEPT ![n] = "run"],
         UNCHANGED <<runner, bad, halted>>, status = "running", status' = status,
         \A m \in Node : m # n => props'[m] = props[m] /\ saved'[m] = saved[m],
         \A r \in Node : r # runner[n] => env'[r] = env[r],
         env'[runner[n]] = EnvOf(n)',
         saved'[n] = saved[n] \/ Kind[n] = "target",
         ~(IsBlock(n) /\ HasTrailing(n)) => saved'[n] = props'[n].layers
  PROVE  KInv'
<1>1. /\ IInv /\ Lineage /\ phase \in [Node -> Phases] /\ runner \in [Node -> Node]
  BY DEF KInv, IInv, TypeOK
<1>2. phase'[n] = "run" /\ \A m \in Node : m # n => phase'[m] = phase[m]
  BY <1>1
<1>3. \A m \in Node : phase'[m] # "idle" <=> phase[m] # "idle"
  BY <1>2
<1>4. \A m \in Node : n \in Anc[m] => phase[m] = "idle"
  BY <1>1, QuietBelow
<1>5. \A k \in KidSet(n) : phase[k] = "idle" /\ k # n /\ k \in Node
  BY KidFacts DEF Quiet
<1> HIDE DEF KInv
<1>6. Entering' /\ Lineage'
  BY <1>1, <1>2, <1>3, LineageShrinks DEF KInv, Entering
<1>7. ASSUME NEW m \in Node, Turn(m)'
      PROVE  Turn(m)
  <2>1. phase'[m] \in {"forked", "enter", "run"} /\ (Own(m) \/ \A j \in KidSet(m) : phase'[j] = "idle")
    BY <1>7 DEF Turn, Quiet, Own
  <2>2. Own(m) \/ Quiet(m)
    BY <2>1, <1>3, KidFacts DEF Quiet
  <2> QED BY <2>1, <2>2, <1>2 DEF Turn
<1>8. ASSUME NEW m \in Node, m # n, Turn(m)
      PROVE  runner[m] # runner[n] /\ EnvOf(m)' = EnvOf(m)
  <2>1. m \notin KidSet(n)
    BY <1>5, <1>8 DEF Turn
  <2>2. runner[m] # runner[n]
    BY <2>1, <1>1, <1>5, <1>8, OneTurn
  <2> QED BY <2>2, <1>2, <1>8, EnvOfSame
<1>9. EnvNow'
  BY <1>1, <1>7, <1>8 DEF KInv, EnvKept, EnvNow
<1>10. EnvHanded'
  <2> SUFFICES ASSUME NEW m \in Node, NEW j \in KidSet(m), ~Own(m), phase'[j] # "idle"
               PROVE  /\ saved'[j] = Handed(m, j)'
                      /\ phase'[j] \in Results => env'[runner'[m]] = Handed(m, j)'
    BY DEF EnvHanded, Own
  <2>1. j \in Node /\ phase[j] # "idle" /\ Anc[j] = Anc[m] \cup {m}
    BY <1>3, KidFacts
  <2>2. m # n
    BY <2>1, <1>5
  <2>3. EnvOf(m)' = EnvOf(m)
    BY <2>2, <1>2, EnvOfSame
  <2>4. Handed(m, j)' = Handed(m, j)
    BY <2>2, <2>3 DEF Handed
  <2>5. saved'[j] = saved[j]
    <3>1. Kind[j] # "target"
      BY ProgramAssumption DEF Own
    <3> QED BY <2>1, <3>1
  <2>6. ASSUME phase'[j] \in Results
        PROVE  env'[runner[m]] = Handed(m, j)
    <3>1. phase[j] \in Results
      BY <2>1, <2>6, <1>2 DEF Results, Stops
    <3>2. runner[m] # runner[n]
      BY <2>2, <3>1, <1>1, <1>5, OneWaits
    <3> QED BY <2>1, <3>1, <3>2, <1>1 DEF KInv, EnvKept, EnvHanded
  <2> QED BY <2>1, <2>4, <2>5, <2>6 DEF KInv, EnvKept, EnvHanded
<1>11. EnvFound'
  BY <1>3 DEF KInv, EnvKept, EnvFound, HasTrailing
<1>12. HaltedLeaves'
  <2>1. \A m \in Node : phase'[m] \in Results => phase[m] = phase'[m]
    BY <1>2 DEF Results, Stops
  <2> QED BY <1>7, <2>1 DEF KInv, HaltedLeaves
<1>13. StopsReach'
  BY <1>2, StopsFrame DEF KInv
<1>14. Carried'
  <2>1. ASSUME NEW a \in Node, phase[a] \in Troubles
        PROVE  phase'[a] = phase[a] /\ \A c \in Anc[a] \cup {a} : props'[c] = props[c]
    <3>1. a # n /\ n \notin Anc[a]
      BY <2>1, <1>4 DEF Troubles
    <3> QED BY <3>1, <1>2, AncNodes
  <2> QED BY <1>1, <2>1, CarriedFrame DEF KInv
<1> QED BY <1>6, <1>9, <1>10, <1>11, <1>12, <1>13, <1>14 DEF KInv, EnvKept, StatusSays

\* A retry gives up on its body and begins its else, outside the body's environment.
LEMMA ElseHolds ==
  ASSUME KInv, IInv', NEW n \in Node, NEW body \in KidSet(n), Returned(n, body),
         ElseBegins(n, body), Kind[n] = "retry", Len(Kids[n]) = 2, body = Kids[n][1],
         phase[body] \notin Halts, status = "running", status' = status
  PROVE  KInv'
<1> DEFINE k  == Kids[n][2]
           en == IF PutsBack(n) THEN saved[n] ELSE env[runner[n]]
<1>1. k \in KidSet(n) /\ k # body
  BY TreeAssumption DEF KidSet
<1>2. /\ phase'  = [phase EXCEPT ![body] = "idle", ![k] = FirstPhase(k)]
      /\ props'  = [props EXCEPT ![k] = props[n]]
      /\ runner' = [runner EXCEPT ![k] = runner[n]]
      /\ saved'  = [saved EXCEPT ![k] = en]
      /\ env'    = [env EXCEPT ![runner[n]] = en]
      /\ UNCHANGED <<bad, halted>>
  BY DEF ElseBegins, history
<1>3. /\ IInv /\ Lineage /\ phase \in [Node -> Phases] /\ props \in [Node -> Props]
      /\ runner \in [Node -> Node] /\ env \in [Node -> SUBSET Node] /\ saved \in [Node -> SUBSET Node]
  BY DEF KInv, IInv, TypeOK
<1>4. ~Own(n) /\ ~IsBlock(n)
  BY DEF Own, Parallel, Calls, IsBlock
<1>5. /\ k \in Node /\ k # n /\ Anc[k] = Anc[n] \cup {n}
      /\ body \in Node /\ body # n /\ phase[n] = "run"
      /\ phase[body] \in Results /\ phase[body] \notin {"idle", "forked", "enter", "run"}
  BY <1>1, KidFacts DEF Returned, Results, Stops
<1>6. \A l \in KidSet(n) : l = body \/ phase[l] = "idle"
  BY <1>3, <1>4, <1>5 DEF IInv, OneAtATime, Own
<1>7. phase[k] = "idle"
  BY <1>1, <1>6
<1>8. en = props[n].layers
  <2>1. saved[n] = props[n].layers
    BY <1>4, <1>5 DEF KInv, EnvKept, EnvFound
  <2>2. CASE PutsBack(n)
    BY <2>1, <2>2
  <2>3. CASE ~PutsBack(n)
    <3>1. EnvOf(n) = props[n].layers
      BY <1>3, <1>5, <2>3, NotPutBack DEF KInv, EnvKept
    <3>2. env[runner[n]] = Handed(n, body)
      BY <1>4, <1>5 DEF KInv, EnvKept, EnvHanded
    <3> QED BY <2>3, <3>1, <3>2 DEF Handed
  <2> QED BY <2>2, <2>3
<1>9. Kind[k] # "target" /\ k = Kids[n][2]
  BY <1>1, <1>4, ProgramAssumption DEF Own
<1> HIDE DEF KInv, k, en
<1>10. /\ FirstPhase(k) \in {"enter", "run"}
       /\ FirstPhase(k) = "enter" => Kind[k] \in Owners \cup {"target"}
       /\ FirstPhase(k) = "run" => Kind[k] \notin Owners
  BY DEF FirstPhase
<1> HIDE DEF FirstPhase
<1>11. /\ phase'[k] = FirstPhase(k) /\ phase'[body] = "idle"
       /\ \A m \in Node : m # k /\ m # body => phase'[m] = phase[m]
  BY <1>1, <1>2, <1>3, <1>5
<1>12. props'[k] = props[n] /\ \A m \in Node : m # k => props'[m] = props[m]
  BY <1>2, <1>3, <1>5
<1>13. runner'[k] = runner[n] /\ \A m \in Node : m # k => runner'[m] = runner[m]
  BY <1>2, <1>3, <1>5
<1>14. saved'[k] = en /\ \A m \in Node : m # k => saved'[m] = saved[m]
  BY <1>2, <1>3, <1>5
<1>15. env'[runner[n]] = en /\ \A r \in Node : r # runner[n] => env'[r] = env[r]
  BY <1>2, <1>3
<1>16. \A m \in Node : k \in Anc[m] \/ body \in Anc[m] => phase[m] = "idle"
  BY <1>3, <1>5, <1>7, NothingBelow
<1>17. \A m \in Node : n \in Anc[m] /\ m # body => phase[m] = "idle"
  <2> SUFFICES ASSUME NEW m \in Node, n \in Anc[m], m # body
               PROVE  phase[m] = "idle"
    OBVIOUS
  <2>1. PICK l \in KidSet(n) : m = l \/ l \in Anc[m]
    BY TreeAssumption
  <2>2. l = body \/ (phase[l] = "idle" /\ l \in Node)
    BY <1>6, KidFacts
  <2> QED BY <2>1, <2>2, <1>3, <1>16, NothingBelow
<1>18. Entering'
  BY <1>3, <1>10, <1>11 DEF KInv, Entering
<1>19. Lineage'
  <2>1. runner' = [runner EXCEPT ![k] = IF Own(n) THEN k ELSE runner[n]]
    BY <1>2, <1>4
  <2>2. \A m \in Node : phase'[m] # "idle" => phase[m] # "idle" \/ m = k
    BY <1>11
  <2>3. \A m \in Node : m # k /\ n \in Anc[m] => phase'[m] = "idle"
    BY <1>11, <1>17
  <2> QED BY <1>1, <1>3, <1>5, <1>7, <2>1, <2>2, <2>3, LineageGrowsBy
<1>20. \A l \in KidSet(n) : phase[l] # "run"
  BY <1>5, <1>6
<1>21. ASSUME NEW m \in Node, m # k, Turn(m)'
       PROVE  m # n /\ m # body /\ Turn(m) /\ runner[m] # runner[n]
  <2>1. phase'[m] \in {"forked", "enter", "run"} /\ (Own(m) \/ \A j \in KidSet(m) : phase'[j] = "idle")
    BY <1>21 DEF Turn, Quiet, Own
  <2>2. m # n /\ m # body
    BY <2>1, <1>1, <1>4, <1>10, <1>11
  <2>3. Own(m) \/ Quiet(m)
    BY <2>1, <2>2, <1>1, <1>11, KidFacts DEF Quiet
  <2>4. Turn(m)
    BY <2>1, <2>2, <2>3, <1>11, <1>21 DEF Turn
  <2>5. m \notin KidSet(n)
    BY <2>2, <2>4, <1>6 DEF Turn
  <2> QED BY <2>2, <2>4, <2>5, <1>3, <1>5, <1>20, OneTurn
<1>22. EnvNow'
  <2> SUFFICES ASSUME NEW m \in Node, Turn(m)'
               PROVE  env'[runner'[m]] = EnvOf(m)'
    BY DEF EnvNow
  <2>1. CASE m = k
    <3>1. EnvOf(k)' = props[n].layers
      BY <1>10, <1>11, <1>12 DEF EnvOf
    <3> QED BY <2>1, <3>1, <1>8, <1>13, <1>15
  <2>2. CASE m # k
    <3>1. EnvOf(m)' = EnvOf(m)
      BY <2>2, <1>11, <1>12, <1>21, EnvOfSame
    <3> QED BY <2>2, <3>1, <1>3, <1>13, <1>15, <1>21 DEF KInv, EnvKept, EnvNow
  <2> QED BY <2>1, <2>2
<1>23. EnvHanded'
  <2> SUFFICES ASSUME NEW m \in Node, NEW j \in KidSet(m), ~Own(m), phase'[j] # "idle"
               PROVE  /\ saved'[j] = Handed(m, j)'
                      /\ phase'[j] \in Results => env'[runner'[m]] = Handed(m, j)'
    BY DEF EnvHanded, Own
  <2>1. j \in Node /\ j # body /\ Anc[j] = Anc[m] \cup {m}
    BY <1>11, KidFacts
  <2>2. CASE j = k
    <3>1. m = n
      BY <2>2, <1>1, KidFacts
    <3>2. Handed(n, k)' = props[n].layers
      BY <1>1, <1>5, <1>12 DEF Handed
    <3>3. phase'[k] \notin Results
      BY <1>10, <1>11 DEF Results, Stops
    <3> QED BY <2>2, <3>1, <3>2, <3>3, <1>8, <1>14
  <2>3. CASE j # k
    <3>1. phase'[j] = phase[j] /\ phase[m] = "run"
      BY <2>1, <2>3, <1>3, <1>11, AboveRuns
    <3>2. m # k /\ m # body /\ m # n
      BY <3>1, <2>1, <2>3, <1>5, <1>6, <1>7
    <3>3. EnvOf(m)' = EnvOf(m)
      BY <3>2, <1>11, <1>12, EnvOfSame
    <3>4. Handed(m, j)' = Handed(m, j)
      BY <3>2, <3>3, <1>12 DEF Handed
    <3>5. ASSUME phase[j] \in Results
          PROVE  runner[m] # runner[n]
      BY <3>2, <3>5, <1>3, <1>5, <1>20, OneWaits
    <3>6. saved'[j] = Handed(m, j) /\ (phase[j] \in Results => env[runner[m]] = Handed(m, j))
      BY <2>1, <2>3, <3>1, <1>14 DEF KInv, EnvKept, EnvHanded
    <3>7. phase[j] \in Results => env'[runner'[m]] = env[runner[m]]
      BY <3>2, <3>5, <1>3, <1>13, <1>15
    <3> QED BY <3>1, <3>4, <3>6, <3>7
  <2> QED BY <2>2, <2>3
<1>24. EnvFound'
  BY <1>8, <1>11, <1>12, <1>14 DEF KInv, EnvKept, EnvFound, HasTrailing
<1>25. HaltedLeaves'
  <2>1. runner[n] \notin halted
    <3>1. runner[body] = runner[n]
      BY <1>3, <1>4, <1>5 DEF Lineage, RunnerOfKid
    <3> QED BY <1>5, <3>1 DEF KInv, HaltedLeaves
  <2>2. phase'[k] \notin Results
    BY <1>10, <1>11 DEF Results, Stops
  <2>3. phase'[body] \notin Results
    BY <1>11 DEF Results, Stops
  <2>4. ASSUME NEW m \in Node, Turn(m)'
        PROVE  runner'[m] \notin halted
    <3>1. CASE m = k
      BY <2>1, <3>1, <1>13
    <3>2. CASE m # k
      BY <2>4, <3>2, <1>13, <1>21 DEF KInv, HaltedLeaves
    <3> QED BY <3>1, <3>2
  <2>5. ASSUME NEW m \in Node, phase'[m] \in Results, runner'[m] \in halted
        PROVE  phase'[m] \in Halts
    <3>1. m # k /\ m # body
      BY <2>2, <2>3, <2>5
    <3> QED BY <2>5, <3>1, <1>11, <1>13 DEF KInv, HaltedLeaves
  <2> QED BY <1>2, <2>4, <2>5 DEF HaltedLeaves
<1>26. StopsReach'
  BY <1>10, <1>11, StopsFrame DEF KInv
<1>27. Carried'
  <2>1. ASSUME NEW a \in Node, phase[a] \in Troubles
        PROVE  \/ phase[a] # "cancelled" /\ Forgivable(a)
               \/ phase'[a] = phase[a] /\ \A c \in Anc[a] \cup {a} : props'[c] = props[c]
    <3>1. CASE a = body
      <4>1. n \in Anc[body]
        BY KidFacts
      <4> QED BY <3>1, <4>1 DEF Forgivable, Halts
    <3>2. CASE a # body
      <4>1. a # k /\ k \notin Anc[a]
        BY <2>1, <1>7, <1>16 DEF Troubles
      <4> QED BY <3>2, <4>1, <1>11, <1>12, AncNodes
    <3> QED BY <3>1, <3>2
  <2> QED BY <1>2, <1>3, <2>1, CarriedFrame DEF KInv
<1> QED BY <1>18, <1>19, <1>22, <1>23, <1>24, <1>25, <1>26, <1>27 DEF KInv, EnvKept, StatusSays

\* n, a call or a parallel block at rest, sets kids up with Runners of their own.
LEMMA OwnBegins ==
  ASSUME KInv, IInv', NEW n \in Node, NEW S \in SUBSET KidSet(n), NEW ph \in {"forked", "enter"},
         Ready(n), Own(n), ph = "enter" => \A k \in S : Kind[k] = "target",
         runner' = [m \in Node |-> IF m \in S THEN IF Own(n) THEN m ELSE runner[n] ELSE runner[m]],
         halted' = halted \ S, bad' = bad, status = "running", status' = status,
         \A k \in S : phase'[k] = ph /\ env'[k] = props'[k].layers /\ saved'[k] = props'[k].layers,
         \A m \in Node \ S : /\ phase'[m] = phase[m] /\ env'[m] = env[m]
                             /\ props'[m] = props[m] /\ saved'[m] = saved[m]
  PROVE  KInv'
<1>1. /\ IInv /\ Lineage /\ runner \in [Node -> Node]
  BY DEF KInv, IInv, TypeOK
<1>2. /\ S \subseteq Node /\ n \notin S /\ phase[n] = "run"
      /\ \A k \in S : phase[k] = "idle" /\ Anc[k] = Anc[n] \cup {n} /\ k # n
  BY KidFacts DEF Ready, Quiet
<1>3. \A m \in Node : runner'[m] = IF m \in S THEN m ELSE runner[m]
  OBVIOUS
<1>4. \A m \in Node : phase[m] # "idle" => m \notin S /\ Anc[m] \cap S = {} /\ runner[m] \notin S
  <2>1. \A m \in Node : phase[m] # "idle" => m \notin S /\ Anc[m] \cap S = {}
    BY <1>1, <1>2, AboveRuns
  <2> QED BY <2>1, <1>1 DEF Lineage, RunnerAbove
<1>5. \A m \in Node : phase'[m] # "idle" => phase[m] # "idle" \/ m \in S
  OBVIOUS
<1> HIDE DEF KInv
<1>6. Entering'
  BY <1>2 DEF KInv, Entering
<1>7. Lineage'
  BY <1>1, <1>2, <1>5, LineageGrows
<1>8. ASSUME NEW m \in Node, m \notin S, Turn(m)'
      PROVE  Turn(m)
  <2>1. phase[m] \in {"forked", "enter", "run"} /\ (Own(m) \/ \A j \in KidSet(m) : phase'[j] = "idle")
    BY <1>8 DEF Turn, Quiet, Own
  <2>2. Own(m) \/ Quiet(m)
    BY <2>1, KidFacts DEF Quiet
  <2> QED BY <2>1, <2>2 DEF Turn
<1>9. \A m \in Node : m \notin S => EnvOf(m)' = EnvOf(m)
  BY EnvOfSame
<1>10. \A k \in S : EnvOf(k)' = props'[k].layers
  BY DEF EnvOf
<1>11. EnvNow'
  <2> SUFFICES ASSUME NEW m \in Node, Turn(m)'
               PROVE  env'[runner'[m]] = EnvOf(m)'
    BY DEF EnvNow
  <2>1. CASE m \in S
    BY <2>1, <1>3, <1>10
  <2>2. CASE m \notin S
    <3>1. Turn(m)
      BY <2>2, <1>8
    <3>2. runner[m] \in Node \ S
      BY <3>1, <1>1, <1>4 DEF Turn
    <3>3. env[runner[m]] = EnvOf(m)
      BY <3>1 DEF KInv, EnvKept, EnvNow
    <3> QED BY <2>2, <3>2, <3>3, <1>3, <1>9
  <2> QED BY <2>1, <2>2
<1>12. EnvHanded'
  <2> SUFFICES ASSUME NEW m \in Node, NEW j \in KidSet(m), ~Own(m), phase'[j] # "idle"
               PROVE  /\ saved'[j] = Handed(m, j)'
                      /\ phase'[j] \in Results => env'[runner'[m]] = Handed(m, j)'
    BY DEF EnvHanded, Own
  <2>1. j \in Node /\ j \notin S /\ Anc[j] = Anc[m] \cup {m}
    BY KidFacts
  <2>2. phase[j] # "idle" /\ phase'[j] = phase[j]
    BY <2>1
  <2>3. phase[m] = "run"
    BY <2>1, <2>2, <1>1, AboveRuns
  <2>4. m \notin S /\ runner[m] \in Node \ S
    BY <2>3, <1>1, <1>4
  <2>5. Handed(m, j)' = Handed(m, j)
    BY <2>4, <1>9 DEF Handed
  <2>6. saved[j] = Handed(m, j) /\ (phase[j] \in Results => env[runner[m]] = Handed(m, j))
    BY <2>2 DEF KInv, EnvKept, EnvHanded
  <2> QED BY <2>1, <2>2, <2>4, <2>5, <2>6, <1>3
<1>13. EnvFound'
  <2> SUFFICES ASSUME NEW m \in Node, phase'[m] # "idle", ~(IsBlock(m) /\ HasTrailing(m))'
               PROVE  saved'[m] = props'[m].layers
    BY DEF EnvFound
  <2>1. CASE m \in S
    BY <2>1
  <2>2. CASE m \notin S
    BY <2>2 DEF KInv, EnvKept, EnvFound, HasTrailing, IsBlock
  <2> QED BY <2>1, <2>2
<1>14. HaltedLeaves'
  <2>1. ASSUME NEW m \in Node, Turn(m)'
        PROVE  runner'[m] \notin halted'
    <3>1. CASE m \in S
      BY <3>1, <1>3
    <3>2. CASE m \notin S
      BY <3>2, <2>1, <1>3, <1>8 DEF KInv, HaltedLeaves
    <3> QED BY <3>1, <3>2
  <2>2. ASSUME NEW m \in Node, phase'[m] \in Results, runner'[m] \in halted'
        PROVE  phase'[m] \in Halts
    <3>1. m \notin S
      BY <2>2 DEF Results, Stops
    <3> QED BY <2>2, <3>1, <1>3 DEF KInv, HaltedLeaves
  <2> QED BY <2>1, <2>2 DEF HaltedLeaves
<1>15. StopsReach'
  <2>1. \A m \in Node : phase'[m] \in {"break", "continue"} => phase'[m] = phase[m]
    OBVIOUS
  <2> QED BY <2>1, StopsFrame DEF KInv
<1>16. Carried'
  <2>1. ASSUME NEW a \in Node, phase[a] \in Troubles
        PROVE  phase'[a] = phase[a] /\ \A c \in Anc[a] \cup {a} : props'[c] = props[c]
    <3>1. a \notin S /\ Anc[a] \cap S = {}
      BY <2>1, <1>4 DEF Troubles
    <3> QED BY <3>1, AncNodes
  <2> QED BY <1>1, <2>1, CarriedFrame DEF KInv
<1> QED BY <1>6, <1>7, <1>11, <1>12, <1>13, <1>14, <1>15, <1>16 DEF KInv, EnvKept, StatusSays

\* A branch which was set up starts.
LEMMA BranchStartsHolds ==
  ASSUME KInv, IInv', NEW n \in Node, NEW k \in KidSet(n), BranchStarts(n, k),
         status = "running", status' = status
  PROVE  KInv'
<1>1. /\ phase' = [phase EXCEPT ![k] = FirstPhase(k)] /\ phase[k] = "forked"
      /\ UNCHANGED <<pos, props, runner, env, saved, bad, halted>>
  BY DEF BranchStarts, history
<1>2. IInv /\ Lineage /\ phase \in [Node -> Phases] /\ k \in Node
  BY KidFacts DEF KInv, IInv, TypeOK
<1>3. /\ FirstPhase(k) \in {"enter", "run"}
      /\ FirstPhase(k) = "enter" => Kind[k] \in Owners \cup {"target"}
      /\ FirstPhase(k) = "run" => Kind[k] \notin Owners
  BY DEF FirstPhase
<1> HIDE DEF KInv, FirstPhase
<1>4. phase'[k] = FirstPhase(k) /\ \A m \in Node : m # k => phase'[m] = phase[m]
  BY <1>1, <1>2
<1>5. \A m \in Node : phase'[m] # "idle" <=> phase[m] # "idle"
  BY <1>1, <1>3, <1>4
<1>6. Quiet(k)
  BY <1>1, <1>2, NothingBelow, KidFacts DEF Quiet
<1>7. Entering' /\ Lineage'
  BY <1>1, <1>2, <1>3, <1>4, <1>5, LineageShrinks DEF KInv, Entering
<1>8. ASSUME NEW m \in Node, Turn(m)'
      PROVE  Turn(m)
  <2>1. phase'[m] \in {"forked", "enter", "run"} /\ (Own(m) \/ \A j \in KidSet(m) : phase'[j] = "idle")
    BY <1>8 DEF Turn, Quiet, Own
  <2>2. Own(m) \/ Quiet(m)
    BY <2>1, <1>5, KidFacts DEF Quiet
  <2> QED BY <2>1, <2>2, <1>1, <1>4 DEF Turn
<1>9. \A m \in Node : EnvOf(m)' = EnvOf(m)
  <2> TAKE m \in Node
  <2>1. CASE m = k
    <3>1. EnvOf(k) = props[k].layers /\ EnvOf(k)' = props'[k].layers
      BY <1>1, <1>3, <1>4 DEF EnvOf
    <3> QED BY <2>1, <3>1, <1>1
  <2>2. CASE m # k
    BY <2>2, <1>1, <1>4, EnvOfSame
  <2> QED BY <2>1, <2>2
<1>10. EnvNow' /\ EnvFound'
  BY <1>1, <1>5, <1>8, <1>9 DEF KInv, EnvKept, EnvNow, EnvFound, HasTrailing
<1>11. \A m \in Node : phase'[m] \in Results => phase[m] = phase'[m]
  BY <1>3, <1>4 DEF Results, Stops
<1>12. EnvHanded'
  <2> SUFFICES ASSUME NEW m \in Node, NEW j \in KidSet(m), ~Own(m), phase'[j] # "idle"
               PROVE  /\ saved'[j] = Handed(m, j)'
                      /\ phase'[j] \in Results => env'[runner'[m]] = Handed(m, j)'
    BY DEF EnvHanded, Own
  <2>1. j \in Node /\ phase[j] # "idle"
    BY <1>5, KidFacts
  <2>2. Handed(m, j)' = Handed(m, j)
    BY <1>1, <1>9 DEF Handed
  <2> QED BY <1>1, <1>11, <2>1, <2>2 DEF KInv, EnvKept, EnvHanded
<1>13. HaltedLeaves'
  BY <1>1, <1>8, <1>11 DEF KInv, HaltedLeaves
<1>14. StopsReach'
  BY <1>3, <1>4, StopsFrame DEF KInv
<1>15. Carried'
  <2>1. ASSUME NEW a \in Node, phase[a] \in Troubles
        PROVE  phase'[a] = phase[a] /\ \A c \in Anc[a] \cup {a} : props'[c] = props[c]
    BY <2>1, <1>1, <1>4 DEF Troubles
  <2> QED BY <1>1, <1>2, <2>1, CarriedFrame DEF KInv
<1> QED BY <1>7, <1>10, <1>12, <1>13, <1>14, <1>15 DEF KInv, EnvKept, StatusSays

-----------------------------------------------------------------------------
(* The actions again: blocks, choices, leaves, and a node going in.         *)

LEMMA BlocksHold ==
  ASSUME KInv, IInv', NEW n \in Node, Walking,
         NextStatement(n) \/ TrailingProperty(n) \/ EndOfBlock(n)
  PROVE  KInv'
<1>1. /\ IsBlock(n) /\ Ready(n) /\ phase[n] = "run" /\ Quiet(n) /\ Kind[n] \notin Owners
      /\ status = "running" /\ status' = status /\ ~Own(n) /\ Kind[n] # "retry"
  BY DEF NextStatement, TrailingProperty, EndOfBlock, AtLine, IsBlock, Ready, Owners, Walking,
         Own, Parallel, Calls, Loops
<1>2. ASSUME NEW e \in {"ok", "interrupted"} \cup Raised(n), End(n, e)
      PROVE  KInv'
  <2>1. e \in Results /\ e \notin {"break", "continue"}
    BY RaisedType DEF Results
  <2> QED BY <1>1, <1>2, <2>1, EndAlone
<1>3. /\ TypeOK /\ pos[n] \in Nat /\ DOMAIN Kids[n] = 1 .. Len(Kids[n]) /\ Len(Kids[n]) \in Nat
  <2>1. TypeOK
    BY DEF KInv, IInv
  <2>2. pos[n] \in Nat
    BY <2>1 DEF TypeOK
  <2>3. DOMAIN Kids[n] = 1 .. Len(Kids[n]) /\ Len(Kids[n]) \in Nat
    BY TreeAssumption
  <2> QED BY <2>1, <2>2, <2>3
<1>4. pos[n] < Len(Kids[n]) => Following(n) \in KidSet(n)
  BY <1>3 DEF Following, KidSet
<1>5. EnvOf(n) = props[n].layers
  BY <1>1 DEF EnvOf
<1>6. CASE NextStatement(n)
  <2>1. CASE interrupted
    BY <1>2, <1>6, <2>1 DEF NextStatement
  <2>2. CASE ~interrupted
    <3>1. Begin(n, Following(n), props[n], env[runner[n]]) /\ Following(n) \in KidSet(n)
      BY <1>4, <1>6, <2>2 DEF NextStatement, AtLine
    <3>2. props[n] \in Props
      BY <1>3 DEF TypeOK
    <3> QED BY <1>1, <1>5, <3>1, <3>2, BeginHolds
  <2> QED BY <2>1, <2>2
<1>7. CASE TrailingProperty(n)
  <2>1. CASE \E e \in Raised(n) : End(n, e)
    BY <1>2, <2>1
  <2>2. CASE TakesProperty(n)
    <3> DEFINE p == Extend(props[n], Following(n))
    <3>1. /\ props' = [props EXCEPT ![n] = p]
          /\ env' = IF Following(n) \in EnvProps THEN [env EXCEPT ![runner[n]] = p.layers] ELSE env
          /\ UNCHANGED <<phase, runner, saved, bad, halted>>
          /\ Following(n) \in KidSet(n) /\ Kind[Following(n)] = "prop"
      BY <1>4, <1>7, <2>2 DEF TrailingProperty, TakesProperty, AtLine, history
    <3>2. p.layers = props[n].layers \cup ({Following(n)} \cap EnvProps)
      BY DEF Extend
    <3>3. HasTrailing(n)
      BY <3>1 DEF HasTrailing
    <3>4. env[runner[n]] = props[n].layers
      BY <1>1, <1>5 DEF KInv, EnvKept, EnvNow, Turn
    <3> HIDE DEF p
    <3>5. props'[n] = p /\ \A m \in Node : m # n => props'[m] = props[m] /\ saved'[m] = saved[m]
      BY <1>3, <3>1 DEF TypeOK
    <3>6. EnvOf(n)' = p.layers
      BY <1>1, <3>5 DEF EnvOf
    <3>7. env'[runner[n]] = EnvOf(n)' /\ \A r \in Node : r # runner[n] => env'[r] = env[r]
      BY <1>3, <3>1, <3>2, <3>4, <3>6 DEF TypeOK
    <3>8. phase' = [phase EXCEPT ![n] = "run"]
      BY <1>1, <1>3, <3>1 DEF TypeOK
    <3> QED BY <1>1, <3>1, <3>3, <3>5, <3>7, <3>8, ChangeHolds
  <2> QED BY <1>7, <2>1, <2>2 DEF TrailingProperty
<1>8. CASE EndOfBlock(n)
  BY <1>2, <1>8 DEF EndOfBlock
<1> QED BY <1>6, <1>7, <1>8

LEMMA ChooseHolds ==
  ASSUME KInv, IInv', NEW n \in Node, Walking, Choose(n)
  PROVE  KInv'
<1>1. /\ Ready(n) /\ phase[n] = "run" /\ Quiet(n) /\ Kind[n] = "choose" /\ Kind[n] \notin Owners
      /\ status = "running" /\ status' = status /\ ~Own(n)
  BY DEF Choose, Ready, Owners, Walking, Own, Parallel, Calls, Loops
<1>2. ASSUME NEW e \in {"ok"} \cup Raised(n), End(n, e)
      PROVE  KInv'
  <2>1. e \in Results /\ e \notin {"break", "continue"}
    BY RaisedType DEF Results
  <2> QED BY <1>1, <1>2, <2>1, EndAlone
<1>3. ASSUME NEW k \in KidSet(n), Begin(n, k, props[n], env[runner[n]])
      PROVE  KInv'
  <2>1. props[n] \in Props /\ props[n].layers = EnvOf(n)
    BY <1>1 DEF KInv, IInv, TypeOK, EnvOf
  <2> QED BY <1>1, <1>3, <2>1, BeginHolds
<1> QED BY <1>2, <1>3 DEF Choose

LEMMA LeafHolds ==
  ASSUME KInv, IInv', NEW n \in Node, Walking, Leaf(n)
  PROVE  KInv'
<1>1. PICK e \in Outcomes(n) : End(n, e)
  BY DEF Leaf
<1>2. /\ e \in Results /\ phase[n] = "run" /\ Kids[n] = <<>>
      /\ status = "running" /\ status' = status
  BY ProgramAssumption, RaisedType DEF Leaf, Outcomes, Results, Stops, Leaves, Walking
<1>3. Quiet(n)
  BY <1>2 DEF Quiet, KidSet
<1>4. /\ e = "break" => Kind[n] = "break"
      /\ e = "continue" => Kind[n] = "continue"
  BY <1>1, RaisedType DEF Leaf, Outcomes, Leaves
<1>5. /\ e = "break" => \E l \in Anc[n] : Kind[l] \in Loops /\ WithinFence(n, l)
      /\ e = "continue" => \E l \in Anc[n] : Kind[l] \in Loops \cup {"parfor"} /\ WithinFence(n, l)
  BY <1>4, ProgramAssumption
<1> QED BY <1>1, <1>2, <1>3, <1>5, EndAlone

LEMMA EnterHolds ==
  ASSUME KInv, IInv', NEW n \in Node, Walking, Enter(n)
  PROVE  KInv'
<1>1. /\ phase[n] = "enter" /\ TypeOK /\ IInv /\ status = "running" /\ status' = status
  BY DEF Enter, KInv, IInv, Walking
<1>2. Quiet(n)
  BY <1>1, KidFacts, NothingBelow DEF Quiet
<1>3. ASSUME NEW e \in Raised(n), End(n, e)
      PROVE  KInv'
  <2>1. e \in Results /\ e \notin {"break", "continue"}
    BY RaisedType
  <2> QED BY <1>1, <1>2, <1>3, <2>1, EndAlone
<1>4. CASE \A e \in Raised(n) : ~End(n, e)
  <2> DEFINE p == Inner(n)
  <2>1. /\ phase' = [phase EXCEPT ![n] = "run"]
        /\ props' = IF Kind[n] = "target" THEN [props EXCEPT ![n] = p] ELSE props
        /\ env'   = IF Kind[n] = "target" \/ p.layers # props[n].layers
                    THEN [env EXCEPT ![runner[n]] = p.layers] ELSE env
        /\ saved' = IF Kind[n] = "target" THEN [saved EXCEPT ![n] = p.layers] ELSE saved
        /\ UNCHANGED <<runner, bad, halted>>
    BY <1>4 DEF Enter, history
  <2>2. Kind[n] \in Owners \cup {"target"} /\ "target" \notin Owners
    BY <1>1 DEF KInv, Entering, Owners, Loops, Parallel
  <2>3. env[runner[n]] = props[n].layers
    <3>1. EnvOf(n) = props[n].layers
      BY <1>1 DEF EnvOf
    <3> QED BY <1>1, <1>2, <3>1 DEF KInv, EnvKept, EnvNow, Turn
  <2>4. EnvOf(n)' = p.layers
    <3>1. CASE Kind[n] = "target"
      <4>1. props'[n] = p
        BY <1>1, <2>1, <3>1 DEF TypeOK
      <4> QED BY <2>2, <3>1, <4>1 DEF EnvOf
    <3>2. CASE Kind[n] \in Owners
      <4>1. phase'[n] = "run" /\ Inner(n)' = Inner(n)
        BY <1>1, <2>1, <2>2, <3>2 DEF TypeOK, Inner, Extend
      <4> QED BY <3>2, <4>1 DEF EnvOf
    <3> QED BY <2>2, <3>1, <3>2
  <2> HIDE DEF p
  <2>5. /\ \A m \in Node : m # n => props'[m] = props[m] /\ saved'[m] = saved[m]
        /\ saved'[n] = saved[n] \/ Kind[n] = "target"
    BY <1>1, <2>1 DEF TypeOK
  <2>6. env'[runner[n]] = EnvOf(n)' /\ \A r \in Node : r # runner[n] => env'[r] = env[r]
    BY <1>1, <2>1, <2>3, <2>4 DEF TypeOK
  <2>7. ASSUME ~(IsBlock(n) /\ HasTrailing(n))
        PROVE  saved'[n] = props'[n].layers
    <3>1. CASE Kind[n] = "target"
      BY <1>1, <2>1, <3>1 DEF TypeOK
    <3>2. CASE Kind[n] # "target"
      BY <1>1, <2>1, <2>7, <3>2 DEF KInv, EnvKept, EnvFound
    <3> QED BY <3>1, <3>2
  <2> QED BY <1>1, <1>2, <2>1, <2>5, <2>6, <2>7, ChangeHolds
<1> QED BY <1>3, <1>4

\* A loop about to ask its test has changed nothing that is said of it.
LEMMA AtTestHolds ==
  ASSUME KInv, IInv', NEW n \in Node, Walking, Ready(n), Kind[n] = "loop", AtTest(n)
  PROVE  KInv'
<1>1. /\ UNCHANGED <<phase, props, runner, env, saved, bad, halted>>
      /\ status = "running" /\ status' = status /\ phase[n] = "run" /\ Quiet(n) /\ ~Own(n)
  BY DEF AtTest, history, Walking, Ready, Own, Parallel, Calls
<1>2. /\ phase' = [phase EXCEPT ![n] = "run"]
      /\ EnvOf(n)' = EnvOf(n)
  BY <1>1, EnvOfSame DEF KInv, IInv, TypeOK
<1>3. env'[runner[n]] = EnvOf(n)'
  BY <1>1, <1>2 DEF KInv, EnvKept, EnvNow, Turn
<1>4. ~(IsBlock(n) /\ HasTrailing(n)) => saved'[n] = props'[n].layers
  BY <1>1 DEF KInv, EnvKept, EnvFound
<1> QED BY <1>1, <1>2, <1>3, <1>4, ChangeHolds

LEMMA BodiesHold ==
  ASSUME KInv, IInv', NEW n \in Node, Walking,
         Do(n) \/ Attempt(n) \/ NextItem(n) \/ NextPass(n) \/ Test(n)
  PROVE  KInv'
<1>1. /\ Ready(n) /\ Kind[n] \in {"do", "retry"} \cup Loops /\ status = "running" /\ status' = status
  BY DEF Do, Attempt, NextItem, NextPass, Test, Loops, Walking
<1>2. /\ Quiet(n) /\ phase[n] = "run" /\ Kind[n] \in Owners /\ ~Own(n)
  BY <1>1 DEF Ready, Owners, Own, Parallel, Calls, Loops
<1>3. \/ BodyBegins(n)
      \/ Kind[n] = "loop" /\ AtTest(n)
      \/ \E e \in {"ok", "failed", "interrupted"} \cup Raised(n) : End(n, e)
  BY DEF Do, Attempt, NextItem, NextPass, Test
<1>4. ASSUME NEW e \in {"ok", "failed", "interrupted"} \cup Raised(n), End(n, e)
      PROVE  KInv'
  <2>1. e \in Results /\ e \notin {"break", "continue"}
    BY RaisedType DEF Results
  <2> QED BY <1>1, <1>2, <1>4, <2>1, EndAlone
<1>5. CASE BodyBegins(n)
  <2>1. Len(Kids[n]) \in {1, 2}
    BY <1>1, ProgramAssumption
  <2>2. Kids[n][1] \in KidSet(n)
    BY <2>1, TreeAssumption DEF KidSet
  <2>3. Inner(n) \in Props /\ Inner(n).layers = EnvOf(n)
    BY <1>2, InnerType DEF KInv, IInv, EnvOf
  <2> QED BY <1>1, <1>2, <1>5, <2>2, <2>3, BeginHolds DEF BodyBegins
<1> QED BY <1>1, <1>3, <1>4, <1>5, AtTestHolds

-----------------------------------------------------------------------------
(* The actions again: parallel blocks, dispatch, and answers.               *)

\* A branch is forked with the environment its properties describe.
LEMMA BranchEnvIs ==
  ASSUME NEW n \in Node, NEW i, env[runner[n]] = Inner(n).layers
  PROVE  BranchEnv(n, i) = BranchProps(n, i).layers
<1> DEFINE above == {j \in 1 .. (i - 1) : Kind[Kids[n][j]] = "prop"}
<1>1. BranchProps(n, i).layers = Inner(n).layers \cup ({Kids[n][j] : j \in above} \cap EnvProps)
  BY DEF BranchProps
<1>2. CASE \E j \in 1 .. (i - 1) : Kids[n][j] \in EnvProps /\ Kind[Kids[n][j]] = "prop"
  BY <1>2 DEF BranchEnv
<1>3. CASE ~(\E j \in 1 .. (i - 1) : Kids[n][j] \in EnvProps /\ Kind[Kids[n][j]] = "prop")
  <2>1. {Kids[n][j] : j \in above} \cap EnvProps = {}
    BY <1>3
  <2>2. BranchEnv(n, i) = env[runner[n]]
    BY <1>3 DEF BranchEnv
  <2> QED BY <1>1, <2>1, <2>2
<1> QED BY <1>2, <1>3

LEMMA ForkHolds ==
  ASSUME KInv, IInv', NEW n \in Node, Walking, Fork(n)
  PROVE  KInv'
<1>1. /\ Kind[n] \in Parallel /\ Ready(n) /\ Own(n) /\ Turn(n) /\ TypeOK /\ Quiet(n)
      /\ Kind[n] \in Owners /\ phase[n] = "run" /\ status = "running" /\ status' = status
  BY DEF Fork, Own, Ready, Turn, Owners, Walking, KInv, IInv
<1>2. ASSUME NEW e \in {"failed"} \cup Raised(n), End(n, e)
      PROVE  KInv'
  <2>1. e \in Results /\ e \notin {"break", "continue"}
    BY RaisedType DEF Results
  <2> QED BY <1>1, <1>2, <2>1, EndAlone
<1>3. CASE \A e \in {"failed"} \cup Raised(n) : ~End(n, e)
  <2> DEFINE forks  == {Kids[n][i] : i \in Branches(n)}
             Nth(k) == CHOOSE i \in Branches(n) : Kids[n][i] = k
  <2>1. /\ phase'  = [m \in Node |-> IF m \in forks THEN "forked" ELSE phase[m]]
        /\ props'  = [m \in Node |-> IF m \in forks THEN BranchProps(n, Nth(m)) ELSE props[m]]
        /\ runner' = [m \in Node |-> IF m \in forks THEN m ELSE runner[m]]
        /\ env'    = [m \in Node |-> IF m \in forks THEN BranchEnv(n, Nth(m)) ELSE env[m]]
        /\ saved'  = [m \in Node |-> IF m \in forks THEN BranchEnv(n, Nth(m)) ELSE saved[m]]
        /\ halted' = halted \ forks
        /\ bad' = bad
    BY <1>3 DEF Fork
  <2>2. forks \in SUBSET KidSet(n) /\ forks \subseteq Node
    BY KidFacts DEF Branches, KidSet
  <2>3. env[runner[n]] = Inner(n).layers
    <3>1. EnvOf(n) = Inner(n).layers
      BY <1>1 DEF EnvOf
    <3> QED BY <1>1, <3>1 DEF KInv, EnvKept, EnvNow
  <2>4. \A m \in Node : BranchEnv(n, Nth(m)) = BranchProps(n, Nth(m)).layers
    BY <2>3, BranchEnvIs
  <2> HIDE DEF forks, Nth
  <2>5. \A k \in forks : /\ phase'[k] = "forked" /\ env'[k] = props'[k].layers
                         /\ saved'[k] = props'[k].layers
    BY <2>1, <2>2, <2>4
  <2>6. \A m \in Node \ forks : /\ phase'[m] = phase[m] /\ env'[m] = env[m]
                                /\ props'[m] = props[m] /\ saved'[m] = saved[m]
    BY <2>1
  <2>7. runner' = [m \in Node |-> IF m \in forks THEN IF Own(n) THEN m ELSE runner[n] ELSE runner[m]]
    BY <1>1, <2>1
  <2> QED BY <1>1, <2>1, <2>2, <2>5, <2>6, <2>7, OwnBegins
<1> QED BY <1>2, <1>3

LEMMA DispatchHolds ==
  ASSUME KInv, IInv', NEW n \in Node, Walking, Dispatch(n)
  PROVE  KInv'
<1>1. /\ Kind[n] \in Calls /\ Ready(n) /\ Own(n) /\ TypeOK /\ Quiet(n)
      /\ phase[n] = "run" /\ status = "running" /\ status' = status
  BY DEF Dispatch, Own, Ready, Walking, KInv, IInv
<1>2. ASSUME NEW e \in {"ok", "failed", "exited", "cancelled"} \cup Raised(n), End(n, e)
      PROVE  KInv'
  <2>1. e \in Results /\ e \notin {"break", "continue"}
    BY RaisedType DEF Results, Stops
  <2> QED BY <1>1, <1>2, <2>1, EndAlone
<1>3. ASSUME NEW k \in KidSet(n),
             /\ phase'  = [phase EXCEPT ![k] = "enter"]
             /\ props'  = [props EXCEPT ![k] = [ignore |-> FALSE, layers |-> env[runner[n]]]]
             /\ runner' = [runner EXCEPT ![k] = k]
             /\ env'    = [env EXCEPT ![k] = env[runner[n]]]
             /\ saved'  = [saved EXCEPT ![k] = env[runner[n]]]
             /\ halted' = halted \ {k}
             /\ bad' = bad
      PROVE  KInv'
  <2> DEFINE S == {k}
  <2>1. k \in Node /\ S \in SUBSET KidSet(n) /\ Kind[k] = "target" /\ halted' = halted \ S
    BY <1>1, <1>3, KidFacts, ProgramAssumption
  <2>2. \A j \in S : phase'[j] = "enter" /\ env'[j] = props'[j].layers /\ saved'[j] = props'[j].layers
    BY <1>1, <1>3, <2>1 DEF TypeOK
  <2>3. \A m \in Node \ S : /\ phase'[m] = phase[m] /\ env'[m] = env[m]
                            /\ props'[m] = props[m] /\ saved'[m] = saved[m]
    BY <1>1, <1>3, <2>1 DEF TypeOK
  <2>4. runner' = [m \in Node |-> IF m \in S THEN IF Own(n) THEN m ELSE runner[n] ELSE runner[m]]
    BY <1>1, <1>3, <2>1 DEF TypeOK
  <2>5. \A j \in S : Kind[j] = "target"
    BY <2>1
  <2> HIDE DEF S
  <2> QED BY <1>1, <1>3, <2>1, <2>2, <2>3, <2>4, <2>5, OwnBegins
<1>4. CASE Refused(n) \/ \E e \in Raised(n) : End(n, e)
  BY <1>2, <1>4, RefusedEnds
<1> QED BY <1>3, <1>4 DEF Dispatch, history

LEMMA JoinHolds ==
  ASSUME KInv, IInv', NEW n \in Node, Walking, Join(n)
  PROVE  KInv'
<1> DEFINE e == JoinAnswer(n)
<1>1. /\ phase[n] = "run" /\ End(n, e) /\ Kind[n] \in Parallel /\ Own(n) /\ Turn(n)
      /\ \A i \in Branches(n) : phase[Kids[n][i]] \in Results
      /\ status = "running" /\ status' = status /\ IInv
  BY DEF Join, Own, Turn, Walking, KInv
<1>2. ASSUME NEW k \in KidSet(n), phase[k] # "idle"
      PROVE  /\ phase[k] \in Results
             /\ \E i \in Branches(n) : k = Kids[n][i]
  <2>1. PICK i \in DOMAIN Kids[n] : k = Kids[n][i]
    BY DEF KidSet
  <2>2. i \in Branches(n)
    BY <1>1, <1>2, <2>1, KidFacts DEF Branches, IInv, NoPropWalks
  <2> QED BY <1>1, <2>1, <2>2
<1>3. \A i \in Branches(n) : Kids[n][i] \in KidSet(n)
  BY DEF Branches, KidSet
\* From inside a branch no loop around it can be left.
<1>4. ASSUME NEW k \in KidSet(n)
      PROVE  BranchAnswer(n, k) \notin {"break", "continue"}
  <2>1. k \in Node /\ Anc[k] = Anc[n] \cup {n}
    BY KidFacts
  <2>2. ASSUME NEW l \in Anc[k], WithinFence(k, l)
        PROVE  l = n
    <3>1. n \in Anc[l] \cup {l}
      BY <1>1, <2>1, <2>2 DEF WithinFence
    <3>2. l \in Anc[n] => Anc[l] \subseteq Anc[n]
      BY TreeAssumption
    <3> QED BY <2>1, <3>1, <3>2, AncNodes
  <2>3. Kind[n] \notin Loops
    BY <1>1 DEF Parallel, Loops
  <2>4. phase[k] # "break"
    BY <2>1, <2>2, <2>3 DEF KInv, StopsReach
  <2>5. phase[k] = "continue" => Kind[n] = "parfor"
    BY <2>1, <2>2, <2>3 DEF KInv, StopsReach
  <2> QED BY <2>4, <2>5 DEF BranchAnswer
<1>5. \A i \in Branches(n) : BranchAnswer(n, Kids[n][i]) \in Results
  BY <1>1 DEF BranchAnswer, Results
<1>6. e \in Results /\ e \notin {"break", "continue"}
  BY <1>3, <1>4, <1>5, JoinAnswers DEF Results
<1>7. \A k \in KidSet(n) : phase[k] # "run"
  BY <1>2 DEF Results, Stops
<1>8. Entering' /\ Lineage' /\ EnvKept' /\ HaltedLeaves'
  BY <1>1, <1>6, <1>7, EndKeepsRunners
<1>9. StopsReach'
  BY <1>1, <1>6, EndStops
<1>10. ASSUME NEW k \in KidSet(n), phase[k] \in Troubles
       PROVE  e \in Troubles \/ Forgivable(k) \/ (Kind[n] \in Parallel /\ e \in {"exit0", "exitN"})
  <2>1. PICK i \in Branches(n) : k = Kids[n][i]
    BY <1>2, <1>10 DEF Troubles
  <2>2. CASE BranchAnswer(n, k) # phase[k]
    <3>1. Kind[n] = "pardo" /\ Forgives(props[k], phase[k])
      BY <1>10, <2>2 DEF BranchAnswer, Troubles
    <3>2. n \in Anc[k] /\ k \in KidSet(n) \cap (Anc[k] \cup {k})
      BY KidFacts
    <3> QED BY <3>1, <3>2 DEF Forgivable, Forgives
  <2>3. CASE BranchAnswer(n, k) = phase[k]
    <3>1. e # "ok"
      BY <1>10, <2>1, <2>3, JoinAnswers DEF Troubles
    <3> QED BY <1>1, <1>6, <3>1 DEF Results, Stops, Troubles
  <2> QED BY <2>2, <2>3
<1>11. Carried'
  <2>1. ASSUME NEW k \in KidSet(n), phase[k] = "cancelled"
        PROVE  e \in {"cancelled", "exit0", "exitN"}
    <3>1. PICK i \in Branches(n) : k = Kids[n][i]
      BY <1>2, <2>1
    <3>2. BranchAnswer(n, k) = "cancelled" /\ "cancelled" \in Stops
      BY <2>1 DEF BranchAnswer, Forgives, Stops
    <3>3. e \in Stops
      BY <3>1, <3>2, JoinAnswers
    <3> QED BY <1>6, <3>3 DEF Stops
  <2> QED BY <1>1, <1>6, <1>10, <2>1, EndCarries
<1> QED BY <1>1, <1>8, <1>9, <1>11 DEF KInv, StatusSays

LEMMA AnswersHold ==
  ASSUME KInv, IInv', NEW n \in Node, NEW k \in KidSet(n), Walking,
         \/ StatementReturned(n, k) \/ ChoiceReturned(n, k) \/ DoReturned(n, k)
         \/ AttemptReturned(n, k) \/ ElseReturned(n, k) \/ PassReturned(n, k)
         \/ TargetReturned(n, k)
  PROVE  KInv'
<1>1. /\ Returned(n, k) /\ phase[k] \in Results /\ Kind[n] \notin Parallel
      /\ status = "running" /\ status' = status /\ n \in Anc[k]
  BY KidFacts DEF StatementReturned, ChoiceReturned, DoReturned, AttemptReturned, ElseReturned,
     PassReturned, TargetReturned, IsBlock, Loops, Calls, Parallel, Returned, Walking
\* An answer passed on as it is, which no loop does to what leaves a loop.
<1>2. ASSUME End(n, phase[k]), Kind[n] \in Loops => phase[k] \notin {"break", "continue"}
      PROVE  KInv'
  BY <1>1, <1>2, EndAnswers
\* An answer that is over with: there is nothing in it to pass on.
<1>3. ASSUME NEW e \in Results, End(n, e), e \notin {"break", "continue", "cancelled"},
             phase[k] # "cancelled", phase[k] \in Troubles => e \in Troubles \/ Forgivable(k),
             ~Own(n) => phase[k] \notin Halts
      PROVE  KInv'
  BY <1>1, <1>3, EndAnswers
<1>4. ASSUME Take(n, k), ~Own(n), Kind[n] = "retry" => k = Kids[n][1], phase[k] \notin Halts,
             phase[k] \in Troubles => Forgivable(k)
      PROVE  KInv'
  BY <1>1, <1>4, TakeHolds
<1>5. CASE StatementReturned(n, k)
  <2>1. IsBlock(n) /\ Kind[n] \notin Loops /\ ~Own(n) /\ Kind[n] # "retry"
    BY <1>5 DEF StatementReturned, IsBlock, Loops, Own, Parallel, Calls
  <2>2. CASE phase[k] = "ok" \/ Forgives(props[n], phase[k])
    <3>1. Take(n, k)
      BY <1>5, <2>2 DEF StatementReturned
    <3>2. phase[k] \notin Halts /\ (phase[k] \in Troubles => Forgivable(k))
      BY <1>1, <2>1, <2>2 DEF Forgives, Forgivable, Halts, Stops, Troubles
    <3> QED BY <1>4, <2>1, <3>1, <3>2
  <2>3. CASE ~(phase[k] = "ok" \/ Forgives(props[n], phase[k]))
    BY <1>2, <1>5, <2>1, <2>3 DEF StatementReturned
  <2> QED BY <2>2, <2>3
<1>6. CASE ChoiceReturned(n, k) \/ DoReturned(n, k) \/ ElseReturned(n, k)
  BY <1>2, <1>6 DEF ChoiceReturned, DoReturned, ElseReturned, Loops
<1>7. CASE AttemptReturned(n, k)
  <2>1. Kind[n] = "retry" /\ ~Own(n) /\ Kind[n] \notin Loops /\ k = Kids[n][1] /\ Forgivable(k)
    BY <1>1, <1>7 DEF AttemptReturned, Own, Parallel, Calls, Loops, Forgivable
  <2>2. CASE End(n, phase[k])
    BY <1>2, <2>1, <2>2
  <2>3. CASE ~Settles(phase[k]) /\ (Take(n, k) \/ (ElseBegins(n, k) /\ Len(Kids[n]) # 1))
    <3>1. phase[k] \notin Halts
      BY <2>3 DEF Settles, Stops, Halts
    <3>2. Len(Kids[n]) # 1 => Len(Kids[n]) = 2
      BY <2>1, ProgramAssumption
    <3>3. CASE Take(n, k)
      BY <1>4, <2>1, <3>1, <3>3
    <3>4. CASE ElseBegins(n, k) /\ Len(Kids[n]) # 1
      BY <1>1, <2>1, <3>1, <3>2, <3>4, ElseHolds
    <3> QED BY <2>3, <3>3, <3>4
  <2> QED BY <1>7, <2>2, <2>3 DEF AttemptReturned
<1>8. CASE PassReturned(n, k)
  <2>1. Kind[n] \in Loops /\ ~Own(n) /\ Kind[n] # "retry"
    BY <1>8 DEF PassReturned, Loops, Own, Parallel, Calls
  <2>2. CASE phase[k] = "break"
    BY <1>3, <1>8, <2>1, <2>2 DEF PassReturned, Results, Troubles, Halts
  <2>3. CASE phase[k] \notin {"break", "ok", "continue"} /\ ~Forgives(Inner(n), phase[k])
    BY <1>2, <1>8, <2>3 DEF PassReturned
  <2>4. CASE phase[k] \in {"ok", "continue"} \/ (phase[k] # "break" /\ Forgives(Inner(n), phase[k]))
    <3>1. phase[k] # "cancelled" /\ phase[k] \notin Halts /\ (phase[k] \in Troubles => Forgivable(k))
      BY <1>1, <2>1, <2>4 DEF Forgives, Forgivable, Halts, Stops, Troubles
    <3>2. Take(n, k) \/ End(n, "ok")
      BY <1>8, <2>4 DEF PassReturned
    <3> QED BY <1>3, <1>4, <2>1, <3>1, <3>2 DEF Results
  <2> QED BY <2>2, <2>3, <2>4
<1>9. CASE TargetReturned(n, k)
  <2> DEFINE e == Ended(phase[k])
  <2>1. Own(n) /\ Kind[n] \notin Loops
    BY <1>9 DEF TargetReturned, Own, Calls, Loops
  <2>2. CASE Kind[n] = "score" /\ e \notin Refusals
    <3>1. End(n, "ok") /\ Forgivable(k) /\ phase[k] # "cancelled"
      BY <1>1, <1>9, <2>2 DEF TargetReturned, Answer, Forgivable, Refusals, Ended
    <3> QED BY <1>3, <2>1, <3>1 DEF Results
  <2>3. CASE ~(Kind[n] = "score" /\ e \notin Refusals)
    <3>1. End(n, e)
      BY <1>9, <2>3 DEF TargetReturned, Answer
    <3>2. CASE phase[k] \in {"exit0", "exitN"}
      <4>1. e \in {"ok", "exited"} /\ e \in Results /\ phase[k] \notin Troubles
        BY <3>2 DEF Ended, Results, Troubles
      <4> QED BY <1>3, <2>1, <3>1, <3>2, <4>1
    <3>3. CASE phase[k] \notin {"exit0", "exitN"}
      <4>1. e = phase[k]
        BY <3>3 DEF Ended
      <4> QED BY <1>2, <2>1, <3>1, <4>1
    <3> QED BY <3>2, <3>3
  <2> QED BY <2>2, <2>3
<1> QED BY <1>5, <1>6, <1>7, <1>8, <1>9

-----------------------------------------------------------------------------
(* What a step begins, it begins below a node that was walking already.     *)

LEMMA BeginsBelow ==
  ASSUME TypeOK, NEW n \in Node, NEW k \in KidSet(n), NEW p, NEW en, Begin(n, k, p, en)
  PROVE  \A j \in Node : phase'[j] # phase[j] => j = k
BY KidFacts DEF Begin, TypeOK

\* A node that acts ends, or whatever changes phase and is not left idle is itself
\* or, if it was walking, one of its kids.
LEMMA Actors ==
  ASSUME IInv, NEW n \in Active, Step(n) \/ Leaf(n) \/ \E k \in KidSet(n) : Return(n, k),
         NEW j \in Node, phase[j] = "idle", phase'[j] # "idle"
  PROVE  phase[n] = "run" /\ j \in KidSet(n)
<1>1. /\ n \in Node /\ phase[n] # "idle" /\ TypeOK /\ phase \in [Node -> Phases]
  BY DEF Active, IInv, TypeOK
<1>2. ASSUME NEW e, End(n, e)
      PROVE  FALSE
  BY <1>1, <1>2 DEF End
<1>3. ASSUME NEW k \in KidSet(n), Take(n, k)
      PROVE  FALSE
  BY <1>1, <1>3, KidFacts DEF Take, TypeOK
<1>4. ASSUME NEW k \in KidSet(n), NEW p, NEW en, Begin(n, k, p, en), Ready(n)
      PROVE  phase[n] = "run" /\ j \in KidSet(n)
  BY <1>1, <1>4, BeginsBelow DEF Ready
<1>5. /\ DOMAIN Kids[n] = 1 .. Len(Kids[n]) /\ Len(Kids[n]) \in Nat
      /\ pos[n] \in Nat
  BY <1>1, TreeAssumption DEF TypeOK
<1>6. CASE NextStatement(n)
  <2>1. Following(n) \in KidSet(n) /\ Ready(n)
    BY <1>5, <1>6 DEF NextStatement, AtLine, Following, KidSet
  <2> QED BY <1>2, <1>4, <1>6, <2>1 DEF NextStatement
<1>7. CASE TrailingProperty(n) \/ EndOfBlock(n)
  BY <1>2, <1>7 DEF TrailingProperty, TakesProperty, EndOfBlock
<1>8. CASE Choose(n)
  BY <1>2, <1>4, <1>8 DEF Choose
<1>9. CASE Enter(n)
  BY <1>1, <1>2, <1>9 DEF Enter
<1>10. CASE Do(n) \/ Attempt(n) \/ NextItem(n) \/ NextPass(n) \/ Test(n)
  <2>1. /\ Kind[n] \in {"do", "retry"} \cup Loops /\ Ready(n)
        /\ BodyBegins(n) \/ AtTest(n) \/ \E e : End(n, e)
    BY <1>10 DEF Do, Attempt, NextItem, NextPass, Test, Loops
  <2>2. Len(Kids[n]) \in {1, 2}
    BY <1>1, <2>1, ProgramAssumption
  <2>3. Kids[n][1] \in KidSet(n)
    BY <1>5, <2>2 DEF KidSet
  <2> QED BY <1>2, <1>4, <2>1, <2>3 DEF BodyBegins, AtTest
<1>11. CASE Fork(n)
  <2>1. CASE \E e : End(n, e)
    BY <1>2, <2>1
  <2>2. CASE ~\E e : End(n, e)
    <3>1. j \in {Kids[n][i] : i \in Branches(n)} \/ phase'[j] = phase[j]
      BY <1>11, <2>2 DEF Fork
    <3> QED BY <1>11, <3>1 DEF Fork, Ready, Branches, KidSet
  <2> QED BY <2>1, <2>2
<1>12. CASE Join(n)
  BY <1>2, <1>12 DEF Join
<1>13. CASE Dispatch(n)
  BY <1>1, <1>2, <1>13, KidFacts DEF Dispatch, Refused, Ready
<1>14. CASE Leaf(n)
  BY <1>2, <1>14 DEF Leaf
<1>15. ASSUME NEW k \in KidSet(n), Return(n, k)
       PROVE  phase[n] = "run" /\ j \in KidSet(n)
  <2>1. CASE BranchStarts(n, k)
    BY <1>1, <2>1, KidFacts DEF BranchStarts
  <2>2. CASE AttemptReturned(n, k)
    <3>1. CASE ElseBegins(n, k) /\ Len(Kids[n]) # 1 /\ Kind[n] = "retry" /\ phase[n] = "run"
      <4> DEFINE kid == Kids[n][2]
      <4>1. Len(Kids[n]) = 2
        BY <1>1, <3>1, ProgramAssumption
      <4>2. kid \in KidSet(n)
        BY <1>5, <4>1 DEF KidSet
      <4>3. phase' = [phase EXCEPT ![k] = "idle", ![kid] = FirstPhase(kid)]
        BY <3>1 DEF ElseBegins
      <4> HIDE DEF kid
      <4> QED BY <1>1, <3>1, <4>2, <4>3, KidFacts
    <3> QED BY <1>2, <1>3, <2>2, <3>1 DEF AttemptReturned, Returned
  <2>3. CASE ~(BranchStarts(n, k) \/ AttemptReturned(n, k))
    <3>1. Take(n, k) \/ \E e \in {phase[k], Ended(phase[k]), "ok"} : End(n, e)
      BY <1>15, <2>3 DEF Return, StatementReturned, ChoiceReturned, DoReturned, ElseReturned,
         PassReturned, TargetReturned, Answer
    <3> QED BY <1>2, <1>3, <3>1
  <2> QED BY <2>1, <2>2, <2>3
<1> QED BY <1>6, <1>7, <1>8, <1>9, <1>10, <1>11, <1>12, <1>13, <1>14, <1>15 DEF Step

-----------------------------------------------------------------------------
(* The theorems.                                                           *)

LEMMA InitHolds == Init => IInv
<1> SUFFICES ASSUME Init
             PROVE  IInv
  OBVIOUS
<1>1. root \in Node /\ Kind[root] = "target" /\ Anc[root] = {}
  BY TreeAssumption, ProgramAssumption DEF Init
<1>2. TypeOK
  <2>1. /\ phase \in [Node -> Phases] /\ props \in [Node -> Props]
        /\ runner \in [Node -> Node] /\ status \in Statuses
    BY <1>1 DEF Init, Phases, Props, Statuses
  <2>2. pos \in [Node -> Nat] /\ \A n \in Node : pos[n] <= Most(n)
    BY <1>1, MostType DEF Init
  <2> QED BY <2>1, <2>2 DEF Init, TypeOK, Most
<1>3. NothingOutlives /\ OneAtATime /\ NoPropWalks
  BY <1>1, KidFacts DEF Init, NothingOutlives, OneAtATime, NoPropWalks
<1> QED BY <1>2, <1>3 DEF IInv

LEMMA StepKeeps == IInv /\ [Next]_vars => IInv'
<1> SUFFICES ASSUME IInv, [Next]_vars
             PROVE  IInv'
  OBVIOUS
<1>1. ASSUME NEW n \in Active, Walking, Step(n)
      PROVE  IInv'
  <2>1. n \in Node /\ UNCHANGED <<root, flags, interrupted, reached, status>>
    BY <1>1 DEF Active, Walking
  <2>2. CASE NextStatement(n) \/ TrailingProperty(n) \/ EndOfBlock(n)
    BY <2>1, <2>2, NextStatementKeeps, TrailingPropertyKeeps, EndOfBlockKeeps
  <2>3. CASE Choose(n) \/ Enter(n)
    BY <2>1, <2>3, ChooseKeeps, EnterKeeps
  <2>4. CASE Do(n) \/ Attempt(n) \/ NextItem(n) \/ NextPass(n) \/ Test(n)
    BY <2>1, <2>4, BodiesKeep
  <2>5. CASE Fork(n) \/ Join(n) \/ Dispatch(n)
    BY <2>1, <2>5, ForkKeeps, JoinKeeps, DispatchKeeps
  <2> QED BY <1>1, <2>2, <2>3, <2>4, <2>5 DEF Step
<1>2. ASSUME NEW n \in Active, Walking, Leaf(n)
      PROVE  IInv'
  BY <1>2, LeafKeeps DEF Active, Walking
<1>3. ASSUME NEW n \in Active, NEW k \in KidSet(n), Walking, Return(n, k)
      PROVE  IInv'
  <2>1. n \in Node /\ UNCHANGED <<root, flags, interrupted, reached, status>>
    BY <1>3 DEF Active, Walking
  <2>2. CASE AttemptReturned(n, k) \/ BranchStarts(n, k)
    BY <2>1, <2>2, AttemptReturnedKeeps, BranchStartsKeeps
  <2>3. CASE ~(AttemptReturned(n, k) \/ BranchStarts(n, k))
    BY <1>3, <2>1, <2>3, AnswersKeep DEF Return
  <2> QED BY <2>2, <2>3
<1>4. CASE Interrupt \/ Exit
  <2>1. UNCHANGED <<phase, pos, props, runner, env, saved, bad, halted, root, flags>>
    BY <1>4 DEF Interrupt, Exit, walkVars, history
  <2>2. interrupted' \in BOOLEAN /\ reached' \subseteq Node /\ status' \in Statuses
    BY <1>4 DEF Interrupt, Exit, Active, IInv, TypeOK, Statuses
  <2>3. TypeOK'
    BY <2>1, <2>2 DEF IInv, TypeOK, Most
  <2> QED BY <2>1, <2>3 DEF IInv, NothingOutlives, OneAtATime, NoPropWalks
<1>5. CASE UNCHANGED vars
  <2>1. TypeOK'
    BY <1>5 DEF vars, walkVars, history, IInv, TypeOK, Most
  <2> QED BY <1>5, <2>1 DEF vars, walkVars, IInv, NothingOutlives, OneAtATime, NoPropWalks
<1> QED BY <1>1, <1>2, <1>3, <1>4, <1>5 DEF Next

LEMMA Inductive == Spec => []IInv
BY InitHolds, StepKeeps, PTL DEF Spec

\* Every variable keeps its type, and no retry, for or block begins more than it
\* has, in every program.
THEOREM TypeCorrect == Spec => []TypeOK
<1>1. IInv => TypeOK
  BY DEF IInv
<1> QED BY <1>1, Inductive, PTL

\* In every program, whatever is under way, all of what it is part of is waiting
\* for it: thread::scope and the call stack never leave work behind.
THEOREM Structured == Spec => []NothingOutlives
<1>1. IInv => NothingOutlives
  BY DEF IInv
<1> QED BY <1>1, Inductive, PTL

LEMMA KInitHolds == Init => KInv
<1> SUFFICES ASSUME Init
             PROVE  KInv
  OBVIOUS
<1>1. /\ root \in Node /\ Kind[root] = "target" /\ Anc[root] = {}
      /\ \A n \in Node : phase[n] = IF n = root THEN "enter" ELSE "idle"
  BY TreeAssumption, ProgramAssumption DEF Init
<1>2. \A n \in Node : \A k \in KidSet(n) : phase[k] = "idle"
  <2>1. \A n \in Node : \A k \in KidSet(n) : k \in Node /\ Anc[k] = Anc[n] \cup {n}
    BY KidFacts
  <2> QED BY <1>1, <2>1
<1>3. Entering /\ StopsReach
  BY <1>1 DEF Entering, StopsReach
<1>4. Lineage
  <2>1. RunnerAbove /\ RunnerFenced /\ RunnerChain
    BY <1>1 DEF Init, RunnerAbove, RunnerFenced, RunnerChain
  <2>2. RunnerOfKid
    BY <1>2 DEF RunnerOfKid
  <2> QED BY <2>1, <2>2 DEF Lineage
<1>5. EnvKept
  <2>1. EnvNow
    BY <1>1 DEF Init, EnvNow, Turn, EnvOf
  <2>2. EnvHanded /\ EnvFound
    BY <1>1, <1>2 DEF Init, EnvHanded, EnvFound
  <2> QED BY <2>1, <2>2 DEF EnvKept
<1>6. HaltedLeaves /\ Carried /\ StatusSays
  BY DEF Init, HaltedLeaves, Carried, StatusSays
<1> QED BY InitHolds, <1>3, <1>4, <1>5, <1>6 DEF KInv

\* What KInv says is about the walk, so a step that is not of the walk keeps it.
LEMMA KInvFrame ==
  ASSUME KInv, IInv', UNCHANGED <<walkVars, history>>, StatusSays'
  PROVE  KInv'
<1>1. UNCHANGED <<phase, props, runner, env, saved, bad, halted>>
  BY DEF walkVars, history
<1>2. \A n \in Node : (Turn(n)' <=> Turn(n)) /\ EnvOf(n)' = EnvOf(n)
  BY <1>1 DEF Turn, Own, Quiet, EnvOf, Inner, Extend
<1>3. \A n \in Node : Forgivable(n)' <=> Forgivable(n)
  BY <1>1, ForgivableSame, AncNodes
<1>4. Entering' /\ StopsReach'
  BY <1>1 DEF KInv, Entering, StopsReach, WithinFence
<1>5. Lineage'
  BY <1>1 DEF KInv, Lineage, RunnerAbove, RunnerOfKid, RunnerFenced, RunnerChain, Own
<1>6. EnvNow' /\ EnvFound'
  BY <1>1, <1>2 DEF KInv, EnvKept, EnvNow, EnvFound, HasTrailing
<1>7. EnvHanded'
  BY <1>1, <1>2 DEF KInv, EnvKept, EnvHanded, Handed, Own
<1>8. HaltedLeaves'
  BY <1>1, <1>2 DEF KInv, HaltedLeaves
<1>9. Carried'
  <2>1. \A b \in bad : Anc[b[1]] \cup {b[1]} \subseteq Node
    BY AncNodes DEF KInv, IInv, TypeOK
  <2> QED BY <1>1, <1>3, <2>1 DEF KInv, Carried, Forgiven
<1> QED BY <1>4, <1>5, <1>6, <1>7, <1>8, <1>9 DEF KInv, EnvKept

LEMMA KStep == KInv /\ [Next]_vars => KInv'
<1> SUFFICES ASSUME KInv, [Next]_vars
             PROVE  KInv'
  OBVIOUS
<1>1. IInv'
  BY StepKeeps DEF KInv
<1>2. ASSUME NEW n \in Active, Walking, Step(n)
      PROVE  KInv'
  <2>1. n \in Node
    BY DEF Active
  <2>2. CASE NextStatement(n) \/ TrailingProperty(n) \/ EndOfBlock(n)
    BY <1>1, <1>2, <2>1, <2>2, BlocksHold
  <2>3. CASE Do(n) \/ Attempt(n) \/ NextItem(n) \/ NextPass(n) \/ Test(n)
    BY <1>1, <1>2, <2>1, <2>3, BodiesHold
  <2>4. CASE Choose(n)
    BY <1>1, <1>2, <2>1, <2>4, ChooseHolds
  <2>5. CASE Enter(n)
    BY <1>1, <1>2, <2>1, <2>5, EnterHolds
  <2>6. CASE Fork(n)
    BY <1>1, <1>2, <2>1, <2>6, ForkHolds
  <2>7. CASE Join(n)
    BY <1>1, <1>2, <2>1, <2>7, JoinHolds
  <2>8. CASE Dispatch(n)
    BY <1>1, <1>2, <2>1, <2>8, DispatchHolds
  <2> QED BY <1>2, <2>2, <2>3, <2>4, <2>5, <2>6, <2>7, <2>8 DEF Step
<1>3. ASSUME NEW n \in Active, Walking, Leaf(n)
      PROVE  KInv'
  BY <1>1, <1>3, LeafHolds DEF Active
<1>4. ASSUME NEW n \in Active, NEW k \in KidSet(n), Walking, Return(n, k)
      PROVE  KInv'
  <2>1. n \in Node /\ status = "running" /\ status' = status
    BY <1>4 DEF Active, Walking
  <2>2. CASE BranchStarts(n, k)
    BY <1>1, <2>1, <2>2, BranchStartsHolds
  <2>3. CASE ~BranchStarts(n, k)
    BY <1>1, <1>4, <2>1, <2>3, AnswersHold DEF Return
  <2> QED BY <2>2, <2>3
<1>5. CASE Interrupt
  <2>1. UNCHANGED <<root, status, phase, walkVars, history>>
    BY <1>5 DEF Interrupt, walkVars
  <2>2. StatusSays'
    BY <2>1 DEF KInv, StatusSays
  <2> QED BY <1>1, <2>1, <2>2, KInvFrame
<1>6. CASE Exit
  <2>1. UNCHANGED <<root, phase, walkVars, history>>
    BY <1>6 DEF Exit, walkVars
  <2>2. status' = "0" => phase[root] \in {"ok", "exit0"}
    BY <1>6 DEF Exit, Ended
  <2>3. StatusSays'
    BY <2>1, <2>2 DEF StatusSays
  <2> QED BY <1>1, <2>1, <2>3, KInvFrame
<1>7. CASE UNCHANGED vars
  <2>1. UNCHANGED <<root, status, phase, walkVars, history>>
    BY <1>7 DEF vars, walkVars
  <2>2. StatusSays'
    BY <2>1 DEF KInv, StatusSays
  <2> QED BY <1>1, <2>1, <2>2, KInvFrame
<1> QED BY <1>2, <1>3, <1>4, <1>5, <1>6, <1>7 DEF Next

LEMMA KInductive == Spec => []KInv
BY KInitHolds, KStep, PTL DEF Spec

\* Whichever way every block, pass, attempt and branch before it ended, a node
\* finds in its Runner the environment its properties describe: with_block_env,
\* walk and parallel_do put back exactly what they changed, in every program.
THEOREM EnvInEffectAlways == Spec => []EnvInEffect
<1>1. KInv => EnvInEffect
  BY DEF KInv, EnvKept, EnvNow, EnvInEffect, Turn
<1> QED BY <1>1, KInductive, PTL

\* A status of 0 hides no failure: each one that was met was forgiven where the
\* program says so, or outranked by the exit() of a branch beside it, and nobody
\* declined a confirm(), in a line or in an expression, that was not outranked too.
THEOREM NoSilentFailureAlways == Spec => []NoSilentFailure
<1>1. KInv => NoSilentFailure
  <2> SUFFICES ASSUME KInv, status = "0", NEW b \in bad
               PROVE  b[3]
    BY DEF NoSilentFailure
  <2>1. phase[root] \in {"ok", "exit0"} /\ root \in Node /\ b[1] \in Node
    BY TreeAssumption DEF KInv, StatusSays, IInv, TypeOK
  <2>2. ASSUME NEW a \in Anc[b[1]] \cup {b[1]}, phase[a] \in Troubles
        PROVE  FALSE
    <3>1. a \in Node /\ phase[a] # "idle"
      BY <2>1, <2>2, AncNodes DEF Troubles
    <3>2. a = root \/ root \in Anc[a]
      BY <3>1 DEF KInv, IInv, NothingOutlives
    <3>3. CASE a = root
      BY <2>1, <2>2, <3>3 DEF Troubles
    <3>4. CASE root \in Anc[a]
      <4>1. phase[root] = "run"
        BY <3>1, <3>4 DEF KInv, IInv, NothingOutlives
      <4> QED BY <2>1, <4>1
    <3> QED BY <3>2, <3>3, <3>4
  <2> QED BY <2>2 DEF KInv, Carried
<1> QED BY <1>1, KInductive, PTL

\* A Runner that met an exit() or a declined confirm(), in a line of its own or in a
\* property, a condition, a list or an argument it evaluated, begins nothing more,
\* whatever catches, retries, loops or branches it is inside of.
THEOREM StopIsFinalAlways == Spec => StopIsFinal
<1>1. ASSUME KInv, KInv', [Next]_vars, NEW k \in Node,
             phase[k] \in {"idle", "forked"}, phase'[k] \in {"enter", "run"}
      PROVE  runner'[k] \notin halted'
  <2>1. ASSUME NEW j \in KidSet(k), phase'[j] # "idle"
        PROVE  FALSE
    <3>1. j \in Node /\ phase[j] = "idle"
      BY <1>1, KidFacts, NothingBelow DEF KInv
    <3>2. PICK n \in Active : Step(n) \/ Leaf(n) \/ \E l \in KidSet(n) : Return(n, l)
      BY <1>1, <2>1, <3>1 DEF Next, Interrupt, Exit, vars, walkVars
    <3>3. phase[n] = "run" /\ j \in KidSet(n) /\ n \in Node
      BY <1>1, <2>1, <3>1, <3>2, Actors DEF KInv, Active
    <3>4. n = k
      BY <3>3, KidFacts
    <3> QED BY <1>1, <3>3, <3>4
  <2>2. Turn(k)'
    BY <1>1, <2>1 DEF Turn, Quiet
  <2> QED BY <1>1, <2>2 DEF KInv, HaltedLeaves
<1>2. KInv /\ KInv' /\ [Next]_vars =>
        [\A k \in Node : phase[k] \in {"idle", "forked"} /\ phase'[k] \in {"enter", "run"}
           => runner'[k] \notin halted']_vars
  BY <1>1
<1> QED BY <1>2, KInductive, PTL DEF Spec, StopIsFinal

-----------------------------------------------------------------------------
(* The walk is never stuck.                                                 *)

\* What a node waits for, read off the guards of Step and Leaf: n can be taken
\* further by itself.
MayStep(n) ==
  \/ phase[n] = "enter"
  \/ phase[n] = "run" /\ Kind[n] \in Leaves
  \/ Ready(n) /\ IsBlock(n) /\ pos[n] <= Len(Kids[n])
  \/ Ready(n) /\ Kind[n] \in {"choose", "do"} \cup Calls \cup Parallel /\ pos[n] = 0
  \/ Ready(n) /\ Kind[n] = "retry" /\ pos[n] < Times[n]
  \/ Ready(n) /\ Kind[n] = "for" /\ pos[n] <= Times[n]
  \/ Ready(n) /\ Kind[n] = "loop"
  \/ /\ Kind[n] \in Parallel /\ phase[n] = "run" /\ pos[n] = 1
     /\ \A i \in Branches(n) : phase[Kids[n][i]] \in Results

\* Or, of Return, by the answer of its kid k, or by the turn of its branch k.
MayReturn(n, k) ==
  \/ Kind[n] \notin Parallel \cup {"retry"} /\ Returned(n, k)
  \/ /\ Kind[n] = "retry" /\ Returned(n, k)
     /\ k = Kids[n][1] /\ ~Settles(phase[k]) => pos[n] <= Times[n]
  \/ /\ Kind[n] \in Parallel /\ phase[n] = "run" /\ phase[k] = "forked"
     /\ flags.dry => \A i, j \in DOMAIN Kids[n] :
                       k = Kids[n][j] /\ i < j /\ i \in Branches(n) => phase[Kids[n][i]] \in Results

MayGoOn ==
  \/ phase[root] \in Results
  \/ \E n \in Active : MayStep(n) \/ \E k \in KidSet(n) : MayReturn(n, k)

\* How far a node can be for the phase it is in: what is not begun has counted
\* nothing, a construct with a single body is done once that has answered, and so is
\* a loop in a preview, and the branches of a parallel block are set up together or
\* not at all.
Place(n) ==
  /\ phase[n] \in {"forked", "enter"} => pos[n] = 0
  /\ Ready(n) /\ Kind[n] \in {"choose", "do"} \cup Calls => pos[n] = 0
  /\ Ready(n) /\ Kind[n] = "retry" => pos[n] < Times[n]
  /\ Ready(n) /\ Kind[n] = "loop" /\ flags.dry => pos[n] \in {0, 1}
  /\ phase[n] = "run" /\ Kind[n] \in Parallel =>
       \/ pos[n] = 0 /\ Quiet(n)
       \/ pos[n] = 1 /\ \A i \in Branches(n) : phase[Kids[n][i]] # "idle"
  /\ Kind[n] \notin Parallel => \A k \in KidSet(n) : phase[k] # "forked"

RootThere == phase[root] \notin {"idle", "forked"}

\* The root is nobody's kid.
LEMMA RootAlone ==
  ASSUME TypeOK
  PROVE  root \in Node /\ \A n \in Node : root \notin KidSet(n)
<1>1. root \in Node /\ Anc[root] = {}
  BY TreeAssumption DEF TypeOK
<1> QED BY <1>1, KidFacts

\* Where neither a node nor what its kids are doing has changed, its place has not.
LEMMA SamePlace ==
  ASSUME NEW n \in Node, Place(n), UNCHANGED flags, phase'[n] = phase[n], pos'[n] = pos[n],
         \A k \in KidSet(n) : /\ phase'[k] = "idle" <=> phase[k] = "idle"
                              /\ phase'[k] = "forked" => phase[k] = "forked"
  PROVE  Place(n)'
<1>1. Quiet(n)' <=> Quiet(n)
  BY DEF Quiet
<1>2. Ready(n)' <=> Ready(n)
  BY <1>1 DEF Ready
<1>3. \A i \in Branches(n) : Kids[n][i] \in KidSet(n)
  BY DEF Branches, KidSet
<1> QED BY <1>1, <1>2, <1>3 DEF Place, Branches

\* A node that is not under way has nothing begun below it.
LEMMA RestPlace ==
  ASSUME IInv', NEW n \in Node, phase'[n] \notin {"forked", "enter", "run"}
  PROVE  Place(n)'
<1>1. \A k \in KidSet(n) : k \in Node /\ n \in Anc[k]
  BY KidFacts
<1>2. \A k \in KidSet(n) : phase'[k] = "idle"
  BY <1>1 DEF IInv, NothingOutlives
<1> QED BY <1>2 DEF Place, Ready

\* And one that is about to begin has counted nothing.
LEMMA StartPlace ==
  ASSUME NEW n \in Node, pos'[n] = 0, Quiet(n)'
  PROVE  Place(n)'
<1>1. Kind[n] = "retry" => Times[n] \in Nat /\ Times[n] >= 1
  BY ProgramAssumption
<1> QED BY <1>1 DEF Place, Quiet

\* n ends.
LEMMA EndPlaces ==
  ASSUME IInv, IInv', RootThere, \A m \in Node : Place(m), UNCHANGED <<root, flags>>,
         NEW n \in Node, NEW e \in Results, phase[n] \in {"enter", "run"}, End(n, e)
  PROVE  RootThere' /\ \A m \in Node : Place(m)'
<1>1. /\ phase' = [m \in Node |-> IF m = n THEN e
                                 ELSE IF m \in KidSet(n) THEN "idle" ELSE phase[m]]
      /\ pos' = pos /\ TypeOK
  BY DEF End, IInv
<1>2. e \notin {"idle", "forked", "enter", "run"}
  BY DEF Results, Stops
<1>3. RootThere'
  BY <1>1, <1>2, RootAlone DEF RootThere
<1>4. ASSUME NEW m \in Node
      PROVE  Place(m)'
  <2>1. CASE m = n \/ m \in KidSet(n)
    BY <1>1, <1>2, <2>1, RestPlace
  <2>2. CASE m # n /\ m \notin KidSet(n)
    <3>1. phase'[m] = phase[m] /\ pos'[m] = pos[m]
      BY <1>1, <2>2
    <3>2. ASSUME NEW k \in KidSet(m)
          PROVE  /\ phase'[k] = "idle" <=> phase[k] = "idle"
                 /\ phase'[k] = "forked" => phase[k] = "forked"
      <4>1. k \in Node /\ k \notin KidSet(n)
        BY <2>2, KidFacts
      <4> QED BY <1>1, <1>2, <4>1
    <3> QED BY <3>1, <3>2, SamePlace
  <2> QED BY <2>1, <2>2
<1> QED BY <1>3, <1>4

\* n begins its kid k.
LEMMA BeginPlaces ==
  ASSUME IInv, IInv', RootThere, \A m \in Node : Place(m), UNCHANGED <<root, flags>>,
         NEW n \in Node, NEW k \in KidSet(n), Ready(n), Kind[n] \notin Parallel,
         phase' = [phase EXCEPT ![k] = phase'[k]], phase'[k] \in {"enter", "run"},
         pos'[k] = 0, \A m \in Node : m # n /\ m # k => pos'[m] = pos[m]
  PROVE  RootThere' /\ \A m \in Node : Place(m)'
<1>1. k \in Node /\ k # n /\ phase[k] = "idle" /\ TypeOK /\ phase[n] = "run"
  BY KidFacts DEF Ready, Quiet, IInv
<1>2. \A m \in Node : m # k => phase'[m] = phase[m]
  BY <1>1 DEF TypeOK
<1>3. RootThere'
  BY <1>1, <1>2, RootAlone DEF RootThere
<1>4. Place(k)'
  <2>1. \A l \in KidSet(k) : l \in Node /\ l # k /\ k \in Anc[l]
    BY <1>1, KidFacts
  <2>2. \A l \in KidSet(k) : phase'[l] = "idle"
    BY <1>1, <1>2, <2>1, NothingBelow
  <2> QED BY <1>1, <2>2, StartPlace DEF Quiet
<1>5. Place(n)'
  <2>1. \A l \in KidSet(n) : phase'[l] # "forked"
    BY <1>1, <1>2, KidFacts DEF Ready, Quiet
  <2>2. ~Ready(n)' /\ phase'[n] = "run"
    BY <1>1, <1>2 DEF Ready, Quiet
  <2> QED BY <2>1, <2>2 DEF Place
<1>6. ASSUME NEW m \in Node, m # n, m # k
      PROVE  Place(m)'
  <2>1. \A l \in KidSet(m) : l \in Node /\ l # k
    BY <1>6, KidFacts
  <2> QED BY <1>2, <1>6, <2>1, SamePlace
<1> QED BY <1>3, <1>4, <1>5, <1>6

\* n takes the answer of its kid k and carries on.
LEMMA TakePlaces ==
  ASSUME IInv, IInv', RootThere, \A m \in Node : Place(m), UNCHANGED <<root, flags>>,
         NEW n \in Node, NEW k \in KidSet(n), Returned(n, k), Take(n, k),
         Kind[n] \notin {"choose", "do"} \cup Calls \cup Parallel,
         Kind[n] = "retry" => pos[n] < Times[n], ~(Kind[n] = "loop" /\ flags.dry)
  PROVE  RootThere' /\ \A m \in Node : Place(m)'
<1>1. k \in Node /\ k # n /\ TypeOK /\ phase[n] = "run" /\ pos' = pos
  BY KidFacts DEF Returned, Take, IInv
<1>2. phase'[k] = "idle" /\ \A m \in Node : m # k => phase'[m] = phase[m]
  BY <1>1 DEF TypeOK, Take
<1>3. RootThere'
  BY <1>1, <1>2, RootAlone DEF RootThere
<1>4. Place(k)'
  BY <1>1, <1>2, RestPlace
<1>5. Place(n)'
  <2>1. \A l \in KidSet(n) : phase'[l] # "forked"
    <3>1. \A l \in KidSet(n) : l \in Node /\ phase[l] # "forked"
      BY KidFacts DEF Place
    <3> QED BY <1>2, <3>1
  <2>2. phase'[n] = "run"
    BY <1>1, <1>2
  <2> QED BY <1>1, <2>1, <2>2 DEF Place
<1>6. ASSUME NEW m \in Node, m # n, m # k
      PROVE  Place(m)'
  <2>1. \A l \in KidSet(m) : l \in Node /\ l # k
    BY <1>6, KidFacts
  <2> QED BY <1>1, <1>2, <1>6, <2>1, SamePlace
<1> QED BY <1>3, <1>4, <1>5, <1>6

\* A retry gives up and walks its else.
LEMMA ElsePlaces ==
  ASSUME IInv, IInv', RootThere, \A m \in Node : Place(m), UNCHANGED <<root, flags>>,
         NEW n \in Node, NEW k \in KidSet(n), Kind[n] = "retry", Returned(n, k), k = Kids[n][1],
         Len(Kids[n]) # 1, ElseBegins(n, k)
  PROVE  RootThere' /\ \A m \in Node : Place(m)'
<1> DEFINE body == k
           else == Kids[n][2]
<1>1. /\ Len(Kids[n]) = 2 /\ DOMAIN Kids[n] = 1 .. 2 /\ TypeOK
      /\ phase[n] = "run" /\ phase[k] \in Results
  <2>1. Len(Kids[n]) = 2 /\ DOMAIN Kids[n] = 1 .. 2
    BY ProgramAssumption, TreeAssumption
  <2> QED BY <2>1 DEF IInv, Returned
<1>2. else \in KidSet(n) /\ else \in Node /\ else # k
  BY <1>1, TreeAssumption DEF KidSet
<1>3. k \in Node /\ k # n /\ else # n
  BY <1>2, KidFacts
<1>4. /\ phase' = [phase EXCEPT ![k] = "idle", ![else] = FirstPhase(else)]
      /\ pos' = [pos EXCEPT ![else] = 0]
  BY DEF ElseBegins
<1>5. phase[else] = "idle"
  BY <1>1, <1>2 DEF IInv, OneAtATime, Parallel, Results, Stops
<1> HIDE DEF else
<1>6. /\ phase'[k] = "idle" /\ phase'[else] = FirstPhase(else) /\ pos'[else] = 0
      /\ \A m \in Node : m # k /\ m # else => phase'[m] = phase[m] /\ pos'[m] = pos[m]
      /\ FirstPhase(else) \in {"enter", "run"}
  BY <1>1, <1>2, <1>3, <1>4, FirstPhaseType DEF TypeOK
<1>7. RootThere'
  BY <1>1, <1>2, <1>3, <1>6, RootAlone DEF RootThere
<1>8. Place(k)'
  BY <1>3, <1>6, RestPlace
<1>9. Place(else)'
  <2>1. \A l \in KidSet(else) : l \in Node /\ l # k /\ l # else /\ else \in Anc[l]
    BY <1>2, <1>3, KidFacts
  <2>2. \A l \in KidSet(else) : phase'[l] = "idle"
    BY <1>2, <1>5, <1>6, <2>1, NothingBelow
  <2> QED BY <1>2, <1>6, <2>2, StartPlace DEF Quiet
<1>10. Place(n)'
  <2>1. \A l \in KidSet(n) : l \in Node /\ phase[l] # "forked"
    BY KidFacts DEF Place, Parallel
  <2>2. \A l \in KidSet(n) : phase'[l] # "forked"
    BY <1>6, <2>1
  <2>3. phase'[n] = "run" /\ ~Ready(n)'
    BY <1>1, <1>2, <1>3, <1>6 DEF Ready, Quiet
  <2> QED BY <2>2, <2>3 DEF Place, Parallel
<1>11. ASSUME NEW m \in Node, m # n, m # k, m # else
       PROVE  Place(m)'
  <2>1. \A l \in KidSet(m) : l \in Node /\ l # k /\ l # else
    BY <1>2, <1>11, KidFacts
  <2> QED BY <1>6, <1>11, <2>1, SamePlace
<1> QED BY <1>7, <1>8, <1>9, <1>10, <1>11

\* Where n itself goes on, and nothing below it does.
LEMMA GoOnPlaces ==
  ASSUME IInv, IInv', RootThere, \A m \in Node : Place(m), UNCHANGED <<root, flags>>,
         NEW n \in Node, phase[n] # "idle", phase'[n] \notin {"idle", "forked"}, Place(n)',
         \A m \in Node : m # n => phase'[m] = phase[m] /\ pos'[m] = pos[m]
  PROVE  RootThere' /\ \A m \in Node : Place(m)'
<1>1. RootThere'
  BY RootAlone DEF RootThere, IInv
<1>2. ASSUME NEW m \in Node, m # n
      PROVE  Place(m)'
  <2>1. ASSUME NEW k \in KidSet(m)
        PROVE  /\ phase'[k] = "idle" <=> phase[k] = "idle"
               /\ phase'[k] = "forked" => phase[k] = "forked"
    <3>1. k \in Node
      BY KidFacts
    <3> QED BY <3>1
  <2> QED BY <1>2, <2>1, SamePlace
<1> QED BY <1>1, <1>2

LEMMA EnterPlaces ==
  ASSUME IInv, IInv', RootThere, \A m \in Node : Place(m), UNCHANGED <<root, flags>>,
         NEW n \in Node, Enter(n)
  PROVE  RootThere' /\ \A m \in Node : Place(m)'
<1>1. CASE \E e \in Raised(n) : End(n, e)
  BY <1>1, RaisedType, EndPlaces DEF Enter
<1>2. CASE ~\E e \in Raised(n) : End(n, e)
  <2>1. phase[n] = "enter" /\ phase' = [phase EXCEPT ![n] = "run"] /\ pos' = pos /\ TypeOK
    BY <1>2 DEF Enter, IInv
  <2>2. phase'[n] = "run" /\ \A m \in Node : m # n => phase'[m] = phase[m]
    BY <2>1 DEF TypeOK
  <2>3. \A k \in KidSet(n) : k \in Node /\ k # n /\ n \in Anc[k]
    BY KidFacts
  <2>4. Quiet(n)'
    BY <2>1, <2>2, <2>3, NothingBelow DEF Quiet
  <2>5. pos'[n] = 0
    BY <2>1 DEF Place
  <2> QED BY <2>1, <2>2, <2>4, <2>5, StartPlace, GoOnPlaces
<1> QED BY <1>1, <1>2

\* A property below a statement moves a block on.
LEMMA TrailingPlaces ==
  ASSUME IInv, IInv', RootThere, \A m \in Node : Place(m), UNCHANGED <<root, flags>>,
         NEW n \in Node, TrailingProperty(n)
  PROVE  RootThere' /\ \A m \in Node : Place(m)'
<1>1. IsBlock(n) /\ Ready(n) /\ phase[n] = "run" /\ TypeOK
  BY DEF TrailingProperty, AtLine, Ready, IInv
<1>2. CASE \E e \in Raised(n) : End(n, e)
  BY <1>1, <1>2, RaisedType, EndPlaces
<1>3. CASE TakesProperty(n)
  <2>1. phase' = phase /\ pos' = [pos EXCEPT ![n] = @ + 1]
    BY <1>3 DEF TakesProperty
  <2>2. \A m \in Node : m # n => pos'[m] = pos[m]
    BY <1>1, <2>1 DEF TypeOK
  <2>3. Place(n)'
    BY <1>1, <2>1 DEF Place, IsBlock, Calls, Parallel
  <2> QED BY <1>1, <2>1, <2>2, <2>3, GoOnPlaces
<1> QED BY <1>2, <1>3 DEF TrailingProperty

\* The branches of a parallel block are set up together.
LEMMA ForkPlaces ==
  ASSUME IInv, IInv', RootThere, \A m \in Node : Place(m), UNCHANGED <<root, flags>>,
         NEW n \in Node, Fork(n)
  PROVE  RootThere' /\ \A m \in Node : Place(m)'
<1>1. phase[n] = "run" /\ Quiet(n) /\ Kind[n] \in Parallel /\ TypeOK
  BY DEF Fork, Ready, IInv
<1>2. CASE \E e \in Raised(n) \cup {"failed"} : End(n, e)
  BY <1>1, <1>2, RaisedType, EndPlaces DEF Results
<1>3. CASE ~\E e \in Raised(n) \cup {"failed"} : End(n, e)
  <2> DEFINE forks == {Kids[n][i] : i \in Branches(n)}
  <2>1. /\ phase' = [m \in Node |-> IF m \in forks THEN "forked" ELSE phase[m]]
        /\ pos' = [m \in Node |-> IF m = n THEN 1 ELSE IF m \in forks THEN 0 ELSE pos[m]]
    BY <1>3 DEF Fork
  <2>2. forks \subseteq KidSet(n) /\ \A i \in Branches(n) : Kids[n][i] \in forks
    BY DEF Branches, KidSet
  <2>3. KidSet(n) \subseteq Node /\ n \notin KidSet(n)
    BY KidFacts
  <2> HIDE DEF forks
  <2>4. RootThere'
    BY <2>1, <2>2, RootAlone DEF RootThere, IInv
  <2>5. Place(n)'
    <3>1. phase'[n] = "run" /\ pos'[n] = 1
      BY <1>1, <2>1, <2>2, <2>3
    <3>2. \A i \in Branches(n) : phase'[Kids[n][i]] # "idle"
      BY <2>1, <2>2, <2>3
    <3> QED BY <1>1, <3>1, <3>2 DEF Place, Branches, Parallel, Calls
  <2>6. ASSUME NEW m \in forks
        PROVE  Place(m)'
    <3>1. phase'[m] = "forked" /\ pos'[m] = 0 /\ m \in Node
      BY <2>1, <2>2, <2>3
    <3>2. \A k \in KidSet(m) : k \in Node /\ m \in Anc[k]
      BY <3>1, KidFacts
    <3>3. Quiet(m)'
      BY <3>1, <3>2 DEF IInv, NothingOutlives, Quiet
    <3> QED BY <3>1, <3>3, StartPlace
  <2>7. ASSUME NEW m \in Node \ forks, m # n
        PROVE  Place(m)'
    <3>1. \A k \in KidSet(m) : k \in Node /\ k \notin forks
      BY <2>2, <2>7, KidFacts
    <3>2. phase'[m] = phase[m] /\ pos'[m] = pos[m] /\ \A k \in KidSet(m) : phase'[k] = phase[k]
      BY <2>1, <2>7, <3>1
    <3> QED BY <3>2, SamePlace
  <2> QED BY <2>4, <2>5, <2>6, <2>7
<1> QED BY <1>2, <1>3

LEMMA BranchStartsPlaces ==
  ASSUME IInv, IInv', RootThere, \A m \in Node : Place(m), UNCHANGED <<root, flags>>,
         NEW n \in Node, NEW k \in KidSet(n), BranchStarts(n, k)
  PROVE  RootThere' /\ \A m \in Node : Place(m)'
<1>1. k \in Node /\ phase[k] = "forked" /\ phase' = [phase EXCEPT ![k] = FirstPhase(k)] /\ pos' = pos /\ TypeOK
  BY KidFacts DEF BranchStarts, IInv
<1>2. phase'[k] \in {"enter", "run"} /\ \A m \in Node : m # k => phase'[m] = phase[m]
  BY <1>1, FirstPhaseType DEF TypeOK
<1>3. \A l \in KidSet(k) : l \in Node /\ l # k /\ k \in Anc[l]
  BY <1>1, KidFacts
<1>4. Quiet(k)'
  BY <1>1, <1>2, <1>3, NothingBelow DEF Quiet
<1>5. Place(k)'
  BY <1>1, <1>4, StartPlace DEF Place
<1> QED BY <1>1, <1>2, <1>5, GoOnPlaces

LEMMA DispatchPlaces ==
  ASSUME IInv, IInv', RootThere, \A m \in Node : Place(m), UNCHANGED <<root, flags>>,
         NEW n \in Node, Dispatch(n)
  PROVE  RootThere' /\ \A m \in Node : Place(m)'
<1>1. Ready(n) /\ phase[n] = "run" /\ Kind[n] \notin Parallel /\ TypeOK
  BY DEF Dispatch, Ready, Calls, Parallel, IInv
<1>2. CASE \E e \in Results : End(n, e)
  BY <1>1, <1>2, EndPlaces
<1>3. CASE ~\E e \in Results : End(n, e)
  <2>1. ~Refused(n) /\ ~\E e \in Raised(n) : End(n, e)
    BY <1>3, RefusedEnds, RaisedType DEF Results, Stops
  <2>2. PICK k \in KidSet(n) : /\ phase' = [phase EXCEPT ![k] = "enter"]
                               /\ pos' = [pos EXCEPT ![n] = 1, ![k] = 0]
    BY <2>1 DEF Dispatch
  <2>3. k \in Node /\ k # n
    BY KidFacts
  <2>4. phase'[k] = "enter" /\ pos'[k] = 0 /\ \A m \in Node : m # n /\ m # k => pos'[m] = pos[m]
    BY <1>1, <2>2, <2>3 DEF TypeOK
  <2> QED BY <1>1, <2>2, <2>4, BeginPlaces
<1> QED BY <1>2, <1>3

\* A kid that is begun the way every construct begins one.
LEMMA BegunPlaces ==
  ASSUME IInv, IInv', RootThere, \A m \in Node : Place(m), UNCHANGED <<root, flags>>,
         NEW n \in Node, NEW k \in KidSet(n), Ready(n), Kind[n] \notin Parallel,
         NEW p, NEW en, Begin(n, k, p, en)
  PROVE  RootThere' /\ \A m \in Node : Place(m)'
<1>1. k \in Node /\ k # n /\ TypeOK
  BY KidFacts DEF IInv
<1>2. phase' = [phase EXCEPT ![k] = FirstPhase(k)] /\ pos' = [pos EXCEPT ![n] = Counted(n), ![k] = 0]
  BY DEF Begin
<1>3. /\ phase'[k] = FirstPhase(k) /\ FirstPhase(k) \in {"enter", "run"}
      /\ pos'[k] = 0 /\ \A m \in Node : m # n /\ m # k => pos'[m] = pos[m]
  BY <1>1, <1>2, FirstPhaseType DEF TypeOK
<1> QED BY <1>2, <1>3, BeginPlaces

LEMMA BlocksPlaces ==
  ASSUME IInv, IInv', RootThere, \A m \in Node : Place(m), UNCHANGED <<root, flags>>, NEW n \in Node,
         NextStatement(n) \/ EndOfBlock(n) \/ Choose(n) \/ Leaf(n)
  PROVE  RootThere' /\ \A m \in Node : Place(m)'
<1>1. phase[n] = "run"
  BY DEF NextStatement, AtLine, EndOfBlock, Choose, Leaf, Ready
<1>2. CASE \E e \in Results : End(n, e)
  BY <1>1, <1>2, EndPlaces
<1>3. CASE ~\E e \in Results : End(n, e)
  <2>1. ~Leaf(n)
    <3>1. \A e \in Outcomes(n) : Kind[n] \in Leaves => e \in Results
      BY RaisedType DEF Outcomes, Leaves, Results, Stops
    <3> QED BY <1>3, <3>1 DEF Leaf
  <2>2. /\ Ready(n) /\ Kind[n] \notin Parallel
        /\ \E k \in KidSet(n) : Begin(n, k, props[n], env[runner[n]])
    <3>1. CASE NextStatement(n)
      <4>1. Begin(n, Following(n), props[n], env[runner[n]]) /\ Ready(n) /\ IsBlock(n)
        BY <1>3, <3>1 DEF NextStatement, AtLine, Results
      <4>2. pos[n] \in Nat /\ pos[n] < Len(Kids[n]) /\ DOMAIN Kids[n] = 1 .. Len(Kids[n])
        BY <3>1, TreeAssumption DEF NextStatement, AtLine, IInv, TypeOK
      <4>3. Following(n) \in KidSet(n)
        BY <4>2, TreeAssumption DEF Following, KidSet
      <4> QED BY <4>1, <4>3 DEF IsBlock, Parallel
    <3>2. CASE Choose(n)
      BY <1>3, <3>2, RaisedType DEF Choose, Results, Parallel
    <3>3. CASE EndOfBlock(n)
      BY <1>3, <3>3 DEF EndOfBlock, Results
    <3> QED BY <2>1, <3>1, <3>2, <3>3
  <2> QED BY <2>2, BegunPlaces
<1> QED BY <1>2, <1>3

LEMMA BodiesPlaces ==
  ASSUME IInv, IInv', RootThere, \A m \in Node : Place(m), UNCHANGED <<root, flags>>, NEW n \in Node,
         Do(n) \/ Attempt(n) \/ NextItem(n) \/ NextPass(n) \/ Test(n)
  PROVE  RootThere' /\ \A m \in Node : Place(m)'
<1>1. /\ Kind[n] \in {"do", "retry"} \cup Loops /\ Ready(n) /\ phase[n] = "run" /\ TypeOK
      /\ BodyBegins(n) \/ (\E e \in Results : End(n, e)) \/ (Kind[n] = "loop" /\ AtTest(n))
  BY RaisedType DEF Do, Attempt, NextItem, NextPass, Test, Loops, Results, Ready, IInv
<1>2. Len(Kids[n]) \in {1, 2}
  BY <1>1, ProgramAssumption
<1>3. Kids[n][1] \in KidSet(n)
  BY <1>2, TreeAssumption DEF KidSet
<1>4. Kind[n] \notin Parallel
  BY <1>1 DEF Loops, Parallel
<1>5. CASE BodyBegins(n)
  BY <1>1, <1>3, <1>4, <1>5, BegunPlaces DEF BodyBegins
<1>6. CASE \E e \in Results : End(n, e)
  BY <1>1, <1>6, EndPlaces
<1>7. CASE Kind[n] = "loop" /\ AtTest(n)
  <2>1. phase' = phase /\ pos' = [pos EXCEPT ![n] = 1]
    BY <1>7 DEF AtTest
  <2>2. pos'[n] = 1 /\ \A m \in Node : m # n => pos'[m] = pos[m]
    BY <1>1, <2>1 DEF TypeOK
  <2>3. Place(n)'
    BY <1>1, <1>7, <2>1, <2>2 DEF Place, Calls, Parallel
  <2> QED BY <1>1, <2>1, <2>2, <2>3, GoOnPlaces
<1> QED BY <1>1, <1>5, <1>6, <1>7

LEMMA AnswersPlaces ==
  ASSUME IInv, IInv', RootThere, \A m \in Node : Place(m), UNCHANGED <<root, flags>>,
         NEW n \in Node, NEW k \in KidSet(n), Return(n, k)
  PROVE  RootThere' /\ \A m \in Node : Place(m)'
<1>1. CASE BranchStarts(n, k)
  BY <1>1, BranchStartsPlaces
<1>2. CASE ~BranchStarts(n, k)
  <2>1. Returned(n, k) /\ phase[n] = "run" /\ phase[k] \in Results
    BY <1>2 DEF Return, StatementReturned, ChoiceReturned, DoReturned, AttemptReturned, ElseReturned,
       PassReturned, TargetReturned, Returned
  <2>2. {phase[k], Ended(phase[k]), "ok"} \subseteq Results
    BY <2>1 DEF Ended, Results
  <2>3. CASE \E e \in {phase[k], Ended(phase[k]), "ok"} : End(n, e)
    BY <2>1, <2>2, <2>3, EndPlaces
  <2>4. CASE ~\E e \in {phase[k], Ended(phase[k]), "ok"} : End(n, e)
    <3>1. \/ Take(n, k) /\ (IsBlock(n) \/ (Kind[n] \in Loops /\ ~(Kind[n] = "loop" /\ flags.dry)))
          \/ Take(n, k) /\ Kind[n] = "retry" /\ pos[n] < Times[n]
          \/ Kind[n] = "retry" /\ k = Kids[n][1] /\ Len(Kids[n]) # 1 /\ ElseBegins(n, k)
      BY <1>2, <2>4 DEF Return, StatementReturned, ChoiceReturned, DoReturned, AttemptReturned,
         ElseReturned, PassReturned, TargetReturned, Answer
    <3>2. CASE Take(n, k) /\ (IsBlock(n) \/ (Kind[n] \in Loops /\ ~(Kind[n] = "loop" /\ flags.dry)))
      <4>1. Kind[n] \notin {"choose", "do", "retry"} \cup Calls \cup Parallel /\ ~(Kind[n] = "loop" /\ flags.dry)
        BY <3>2 DEF IsBlock, Loops, Calls, Parallel
      <4> QED BY <2>1, <3>2, <4>1, TakePlaces
    <3>3. CASE Take(n, k) /\ Kind[n] = "retry" /\ pos[n] < Times[n]
      <4>1. Kind[n] \notin {"choose", "do"} \cup Calls \cup Parallel /\ Kind[n] # "loop"
        BY <3>3 DEF Calls, Parallel
      <4> QED BY <2>1, <3>3, <4>1, TakePlaces
    <3>4. CASE Kind[n] = "retry" /\ k = Kids[n][1] /\ Len(Kids[n]) # 1 /\ ElseBegins(n, k)
      BY <2>1, <3>4, ElsePlaces
    <3> QED BY <3>1, <3>2, <3>3, <3>4
  <2> QED BY <2>3, <2>4
<1> QED BY <1>1, <1>2

LEMMA PlacesKept ==
  ASSUME KInv, KInv', RootThere, \A m \in Node : Place(m), [Next]_vars
  PROVE  RootThere' /\ \A m \in Node : Place(m)'
<1>1. IInv /\ IInv'
  BY DEF KInv
<1>2. ASSUME NEW n \in Active, Walking, Step(n)
      PROVE  RootThere' /\ \A m \in Node : Place(m)'
  <2>1. n \in Node /\ UNCHANGED <<root, flags>>
    BY <1>2 DEF Active, Walking
  <2>2. CASE NextStatement(n) \/ EndOfBlock(n) \/ Choose(n)
    BY <1>1, <2>1, <2>2, BlocksPlaces
  <2>3. CASE TrailingProperty(n)
    BY <1>1, <2>1, <2>3, TrailingPlaces
  <2>4. CASE Enter(n)
    BY <1>1, <2>1, <2>4, EnterPlaces
  <2>5. CASE Do(n) \/ Attempt(n) \/ NextItem(n) \/ NextPass(n) \/ Test(n)
    BY <1>1, <2>1, <2>5, BodiesPlaces
  <2>6. CASE Fork(n)
    BY <1>1, <2>1, <2>6, ForkPlaces
  <2>7. CASE Join(n)
    <3>1. phase[n] = "run" /\ JoinAnswer(n) \in Results
      BY <2>7, <2>1, JoinResult DEF Join
    <3> QED BY <1>1, <2>1, <2>7, <3>1, EndPlaces DEF Join
  <2>8. CASE Dispatch(n)
    BY <1>1, <2>1, <2>8, DispatchPlaces
  <2> QED BY <1>2, <2>2, <2>3, <2>4, <2>5, <2>6, <2>7, <2>8 DEF Step
<1>3. ASSUME NEW n \in Active, Walking, Leaf(n)
      PROVE  RootThere' /\ \A m \in Node : Place(m)'
  BY <1>1, <1>3, BlocksPlaces DEF Active, Walking
<1>4. ASSUME NEW n \in Active, NEW k \in KidSet(n), Walking, Return(n, k)
      PROVE  RootThere' /\ \A m \in Node : Place(m)'
  BY <1>1, <1>4, AnswersPlaces DEF Active, Walking
<1>5. CASE Interrupt \/ Exit \/ UNCHANGED vars
  <2>1. UNCHANGED <<root, flags, phase, pos>>
    BY <1>5 DEF Interrupt, Exit, vars, walkVars
  <2> QED BY <2>1, SamePlace DEF RootThere
<1> QED BY <1>2, <1>3, <1>4, <1>5 DEF Next

LEMMA PlacesAtFirst == Init => RootThere /\ \A n \in Node : Place(n)
<1> SUFFICES ASSUME Init
             PROVE  RootThere /\ \A n \in Node : Place(n)
  OBVIOUS
<1>1. /\ root \in Node /\ pos = [n \in Node |-> 0]
      /\ \A n \in Node : phase[n] = IF n = root THEN "enter" ELSE "idle"
  BY TreeAssumption DEF Init
<1>2. \A n \in Node : Kind[n] = "retry" => Times[n] >= 1 /\ Times[n] \in Nat
  BY ProgramAssumption
<1>3. \A n \in Node : \A k \in KidSet(n) : k \in Node
  BY KidFacts
<1> QED BY <1>1, <1>2, <1>3 DEF RootThere, Place, Ready

LEMMA PlacesAlways == Spec => [](KInv /\ RootThere /\ \A n \in Node : Place(n))
<1> DEFINE WInv == RootThere /\ \A n \in Node : Place(n)
<1>1. KInv /\ KInv' /\ WInv /\ [Next]_vars => WInv'
  BY PlacesKept
<1>2. Init => WInv
  BY PlacesAtFirst
<1> HIDE DEF WInv
<1>3. Spec => []WInv
  BY <1>1, <1>2, KInductive, PTL DEF Spec
<1>4. KInv /\ WInv => KInv /\ RootThere /\ \A n \in Node : Place(n)
  BY DEF WInv
<1> QED BY <1>3, <1>4, KInductive, PTL

\* Of the nodes of a set, one has none of the others below it.
LEMMA Deepest ==
  ASSUME NEW S \in SUBSET Node, S # {}
  PROVE  \E n \in S : \A m \in S : n \notin Anc[m]
<1>1. /\ IsFiniteSet(Node) /\ Cardinality(Node) \in Nat
      /\ \A n \in Node : /\ IsFiniteSet(Anc[n]) /\ Cardinality(Anc[n]) \in Nat
                         /\ Cardinality(Anc[n]) <= Cardinality(Node)
  BY TreeAssumption, FS_Subset, FS_CardinalityType
<1> DEFINE Room(n) == Cardinality(Node) - Cardinality(Anc[n])
           Rooms == {Room(n) : n \in S}
<1>2. \A n \in Node : Room(n) \in Nat
  BY <1>1
<1>3. Rooms # {} /\ Rooms \subseteq Nat
  BY <1>2
<1>4. PICK r \in Rooms : \A q \in Rooms : <<q, r>> \notin OpToRel(<, Nat)
  BY <1>3, NatLessThanWellFounded, WFMin, Zenon
<1>5. PICK n \in S : r = Room(n)
  BY <1>4
<1>6. ASSUME NEW m \in S, n \in Anc[m]
      PROVE  FALSE
  <2>1. Anc[n] \subseteq Anc[m] /\ n \notin Anc[n] /\ n \in Node /\ m \in Node
    BY <1>6, TreeAssumption
  <2>2. Cardinality(Anc[n]) <= Cardinality(Anc[m]) /\ Cardinality(Anc[n]) # Cardinality(Anc[m])
    BY <1>1, <1>6, <2>1, FS_Subset
  <2>3. Room(m) < Room(n) /\ Room(m) \in Nat /\ Room(n) \in Nat
    BY <1>1, <1>2, <2>1, <2>2
  <2>4. <<Room(m), r>> \notin OpToRel(<, Nat)
    BY <1>4
  <2> QED BY <1>5, <2>3, <2>4 DEF OpToRel
<1> QED BY <1>6

\* What a node that has none under way below it waits for is its own turn, or the
\* answer or the turn of a kid.
LEMMA DeepestGoesOn ==
  ASSUME KInv, NEW n \in Active, Place(n), \A m \in Active : n \notin Anc[m]
  PROVE  MayStep(n) \/ \E k \in KidSet(n) : MayReturn(n, k)
<1>1. n \in Node /\ TypeOK /\ Kind[n] \in Kinds /\ pos[n] \in Nat /\ pos[n] <= Most(n)
  BY ProgramAssumption DEF Active, KInv, IInv, TypeOK
<1>2. \A k \in KidSet(n) : k \in Node /\ phase[k] \in {"idle", "forked"} \cup Results
  <2>1. \A k \in KidSet(n) : k \in Node /\ n \in Anc[k] /\ phase[k] \in Phases
    BY <1>1, KidFacts DEF TypeOK
  <2> QED BY <2>1 DEF Active, Phases
<1>3. CASE phase[n] = "enter"
  BY <1>3 DEF MayStep
<1>4. CASE phase[n] = "run" /\ Kind[n] \notin Parallel
  <2>1. CASE Quiet(n)
    <3>1. Ready(n) /\ Kind[n] # "prop"
      BY <1>1, <1>4, <2>1 DEF Ready, KInv, IInv, NoPropWalks
    <3>2. CASE IsBlock(n)
      <4>1. Most(n) = Len(Kids[n])
        BY <3>2 DEF Most, IsBlock
      <4> QED BY <1>1, <3>1, <3>2, <4>1 DEF MayStep
    <3>3. CASE Kind[n] = "for"
      <4>1. Most(n) = Times[n]
        BY <3>3 DEF Most, IsBlock
      <4> QED BY <1>1, <3>1, <3>3, <4>1 DEF MayStep
    <3>4. CASE Kind[n] \in {"choose", "do", "retry", "loop"} \cup Calls \cup Leaves
      BY <1>4, <3>1, <3>4 DEF Place, MayStep
    <3> QED BY <1>1, <1>4, <3>1, <3>2, <3>3, <3>4 DEF Kinds, Owners, Loops, IsBlock
  <2>2. CASE ~Quiet(n)
    <3>1. PICK k \in KidSet(n) : phase[k] # "idle"
      BY <2>2 DEF Quiet
    <3>2. phase[k] \in Results
      BY <1>2, <1>4, <3>1 DEF Place
    <3>3. Returned(n, k)
      BY <1>4, <3>2 DEF Returned
    <3>4. Kind[n] = "retry" => Most(n) = Times[n]
      BY DEF Most, IsBlock
    <3> QED BY <1>1, <1>4, <3>3, <3>4 DEF MayReturn
  <2> QED BY <2>1, <2>2
<1>5. CASE phase[n] = "run" /\ Kind[n] \in Parallel
  <2> DEFINE Unended == {i \in Branches(n) : phase[Kids[n][i]] \notin Results}
  <2>1. CASE pos[n] = 0 /\ Quiet(n)
    BY <1>5, <2>1 DEF MayStep, Ready
  <2>2. CASE pos[n] = 1 /\ Unended = {}
    BY <1>5, <2>2 DEF MayStep
  <2>3. CASE pos[n] = 1 /\ Unended # {}
    <3>1. Unended \subseteq Nat /\ \A i \in Branches(n) : i \in DOMAIN Kids[n] /\ Kids[n][i] \in KidSet(n)
      BY <1>1, TreeAssumption DEF Branches, KidSet
    <3>2. PICK i \in Unended : \A j \in Unended : <<j, i>> \notin OpToRel(<, Nat)
      BY <2>3, <3>1, NatLessThanWellFounded, WFMin, Zenon
    <3>3. \A j \in Unended : ~(j < i)
      BY <3>1, <3>2 DEF OpToRel
    <3>4. phase[Kids[n][i]] = "forked" /\ Kids[n][i] \in KidSet(n) /\ i \in DOMAIN Kids[n]
      BY <1>2, <1>5, <2>3, <3>1 DEF Place
    <3>5. ASSUME NEW h \in DOMAIN Kids[n], NEW j \in DOMAIN Kids[n],
                 Kids[n][i] = Kids[n][j], h < j, h \in Branches(n)
          PROVE  phase[Kids[n][h]] \in Results
      <4>1. i = j
        BY <1>1, <3>4, <3>5, TreeAssumption
      <4> QED BY <3>3, <3>5, <4>1
    <3>6. MayReturn(n, Kids[n][i])
      BY <1>5, <3>4, <3>5 DEF MayReturn
    <3> QED BY <3>4, <3>6
  <2> QED BY <1>1, <1>5, <2>1, <2>2, <2>3 DEF Place
<1> QED BY <1>3, <1>4, <1>5 DEF Active

\* A run is never stuck: whatever the program, whatever has failed, been retried,
\* stopped or interrupted, and however the branches of its parallel blocks take
\* turns, as long as the process has no status either the root has ended, or a node
\* under way is at a statement, an attempt, a pass or a join it can take, or has a
\* kid whose answer it takes or a branch whose turn it is.
THEOREM WalkGoesOn == Spec => [](status = "running" => MayGoOn)
<1>1. ASSUME KInv, RootThere, \A n \in Node : Place(n)
      PROVE  MayGoOn
  <2>1. root \in Node /\ phase[root] \in Phases
    BY <1>1, TreeAssumption DEF KInv, IInv, TypeOK
  <2>2. CASE phase[root] \in Results
    BY <2>2 DEF MayGoOn
  <2>3. CASE phase[root] \notin Results
    <3>1. root \in Active /\ Active \in SUBSET Node
      BY <1>1, <2>1, <2>3 DEF RootThere, Phases, Active
    <3>2. PICK n \in Active : \A m \in Active : n \notin Anc[m]
      BY <3>1, Deepest
    <3>3. n \in Node
      BY <3>1
    <3>4. MayStep(n) \/ \E k \in KidSet(n) : MayReturn(n, k)
      BY <1>1, <3>2, <3>3, DeepestGoesOn
    <3> QED BY <3>2, <3>4 DEF MayGoOn
  <2> QED BY <2>2, <2>3
<1>2. KInv /\ RootThere /\ (\A n \in Node : Place(n)) => (status = "running" => MayGoOn)
  BY <1>1
<1> QED BY <1>2, PlacesAlways, PTL
-----------------------------------------------------------------------------
(* A walk runs out.  Each node has so much ahead of it: the kids, attempts *)
(* or items it has not begun, the else of a retry, and, before those, being *)
(* started and being entered.  Every step takes something from one node,   *)
(* and gives something only to nodes below it.  What can go on for ever in *)
(* a finite tree is then only what goes round a loop.                      *)

\* The else a retry has not come to.
Toll(n) == IF Kind[n] = "retry" /\ Len(Kids[n]) = 2 /\ phase[Kids[n][2]] = "idle" THEN 1 ELSE 0
Ahead(n) == (Most(n) - pos[n]) + Toll(n)

Stage(n) ==
  CASE phase[n] = "forked" -> 4 + Ahead(n)
    [] phase[n] = "enter"  -> 3 + Ahead(n)
    [] phase[n] = "run"    -> 2 + Ahead(n)
    [] phase[n] = "idle"   -> 0
    [] OTHER               -> 1

Stages == [n \in Node |-> Stage(n)]

\* Some node comes closer to its end, and nothing but what is below it is touched.
Lower(t, s) ==
  \E n \in Node : t[n] < s[n] /\ \A m \in Node : t[m] # s[m] => m = n \/ n \in Anc[m]
Descent  == {ts \in [Node -> Nat] \X [Node -> Nat] : Lower(ts[1], ts[2])}
Descends == Lower(Stages', Stages)

\* A loop whose body has answered finds no interrupt, and is about to ask once more
\* whether to go on.
Again == \E n \in Active : Kind[n] = "loop" /\ Ready(n) /\ pos[n] = 2 /\ ~interrupted /\ ~flags.dry

LEMMA AheadType == TypeOK => \A n \in Node : Ahead(n) \in Nat
<1> SUFFICES ASSUME TypeOK, NEW n \in Node
             PROVE  Ahead(n) \in Nat
  OBVIOUS
<1> DEFINE most == Most(n)
           at   == pos[n]
           toll == Toll(n)
<1>1. most \in Nat /\ at \in Nat /\ at <= most
  BY MostType DEF TypeOK
<1>2. toll \in {0, 1}
  BY DEF Toll
<1>3. Ahead(n) = (most - at) + toll
  BY DEF Ahead
<1> HIDE DEF most, at, toll
<1> QED BY <1>1, <1>2, <1>3

LEMMA StageType == TypeOK => \A n \in Node : Stage(n) \in Nat
<1> SUFFICES ASSUME TypeOK, NEW n \in Node
             PROVE  Stage(n) \in Nat
  OBVIOUS
<1>1. Ahead(n) \in Nat
  BY AheadType
<1> QED BY <1>1 DEF Stage

\* What a node has ahead of it depends on nothing but itself and its else.
LEMMA StageSame ==
  ASSUME NEW n \in Node, phase'[n] = phase[n], pos'[n] = pos[n],
         Kind[n] = "retry" /\ Len(Kids[n]) = 2 =>
           (phase'[Kids[n][2]] = "idle" <=> phase[Kids[n][2]] = "idle")
  PROVE  Stage(n)' = Stage(n)
<1>1. Toll(n)' = Toll(n)
  BY DEF Toll
<1>2. Most(n)' = Most(n)
  BY DEF Most, IsBlock
<1>3. Ahead(n)' = Ahead(n)
  BY <1>1, <1>2 DEF Ahead
<1> QED BY <1>3 DEF Stage

LEMMA ElseIsKid ==
  ASSUME NEW n \in Node, Len(Kids[n]) = 2
  PROVE  Kids[n][1] \in KidSet(n) /\ Kids[n][2] \in KidSet(n) /\ Kids[n][1] # Kids[n][2]
<1>1. DOMAIN Kids[n] = 1 .. 2
  BY TreeAssumption
<1> QED BY <1>1, TreeAssumption DEF KidSet

\* A step that brings n closer to its end, and changes nothing else but below n.
LEMMA Falls ==
  ASSUME NEW n \in Node, Stage(n)' < Stage(n),
         \A m \in Node : m # n /\ n \notin Anc[m] => phase'[m] = phase[m] /\ pos'[m] = pos[m],
         \/ phase'[n] = "idle" <=> phase[n] = "idle"
         \/ \A m \in Node : Kind[m] = "retry" /\ Len(Kids[m]) = 2 => n # Kids[m][2]
  PROVE  Descends
<1>1. ASSUME NEW m \in Node, m # n, n \notin Anc[m]
      PROVE  Stage(m)' = Stage(m)
  <2>1. phase'[m] = phase[m] /\ pos'[m] = pos[m]
    BY <1>1
  <2>2. ASSUME Kind[m] = "retry", Len(Kids[m]) = 2
        PROVE  phase'[Kids[m][2]] = "idle" <=> phase[Kids[m][2]] = "idle"
    <3>1. Kids[m][2] \in Node /\ Anc[Kids[m][2]] = Anc[m] \cup {m}
      BY <2>2, ElseIsKid, KidFacts
    <3>2. CASE Kids[m][2] = n
      BY <2>2, <3>2
    <3>3. CASE Kids[m][2] # n
      BY <1>1, <3>1, <3>3
    <3> QED BY <3>2, <3>3
  <2> QED BY <2>1, <2>2, StageSame
<1>2. \A m \in Node : Stages[m] = Stage(m) /\ Stages'[m] = Stage(m)'
  BY DEF Stages
<1> QED BY <1>1, <1>2 DEF Descends, Lower

\* n goes on in the same phase, with less to begin.
LEMMA RunsDown ==
  ASSUME TypeOK, TypeOK', NEW n \in Node, phase[n] = "run", phase'[n] = "run",
         \/ pos[n] < pos'[n] /\ Toll(n)' = Toll(n)
         \/ pos[n] = pos'[n] /\ Toll(n)' < Toll(n),
         \A m \in Node : m # n /\ n \notin Anc[m] => phase'[m] = phase[m] /\ pos'[m] = pos[m]
  PROVE  Descends
<1> DEFINE most == Most(n)
           at   == pos[n]
           next == pos'[n]
           toll == Toll(n)
           left == Toll(n)'
<1>1. most \in Nat /\ at \in Nat /\ next \in Nat
  BY MostType DEF TypeOK
<1>2. toll \in {0, 1} /\ left \in {0, 1}
  BY DEF Toll
<1>3. Most(n)' = most
  BY DEF Most, IsBlock
<1>4. Stage(n) = 2 + ((most - at) + toll) /\ Stage(n)' = 2 + ((most - next) + left)
  BY <1>3 DEF Stage, Ahead
<1>5. (at < next /\ left = toll) \/ (at = next /\ left < toll)
  OBVIOUS
<1> HIDE DEF most, at, next, toll, left
<1>6. Stage(n)' < Stage(n)
  BY <1>1, <1>2, <1>4, <1>5
<1> QED BY <1>6, Falls

\* n ends.
LEMMA EndFalls ==
  ASSUME TypeOK, NEW n \in Node, NEW e \in Results, phase[n] \in {"enter", "run"}, End(n, e)
  PROVE  Descends
<1>1. /\ phase' = [m \in Node |-> IF m = n THEN e
                                 ELSE IF m \in KidSet(n) THEN "idle" ELSE phase[m]]
      /\ pos' = pos
  BY DEF End
<1>2. phase'[n] = e /\ e \notin {"idle", "forked", "enter", "run"}
  BY <1>1 DEF Results, Stops
<1>3. Stage(n)' = 1
  BY <1>2 DEF Stage
<1>4. Ahead(n) \in Nat
  BY AheadType
<1>5. Stage(n) \in {2 + Ahead(n), 3 + Ahead(n)}
  BY DEF Stage
<1>6. Stage(n)' < Stage(n)
  BY <1>3, <1>4, <1>5
<1>7. \A m \in KidSet(n) : n \in Anc[m]
  BY KidFacts
<1> QED BY <1>1, <1>2, <1>6, <1>7, Falls

\* n begins its kid k, which is not the else of a retry.
LEMMA BeginFalls ==
  ASSUME TypeOK, TypeOK', NEW n \in Node, NEW k \in KidSet(n), phase[n] = "run",
         Kind[n] = "retry" => k = Kids[n][1], pos[n] < pos'[n],
         phase' = [phase EXCEPT ![k] = phase'[k]],
         \A m \in Node : m # n /\ m # k => pos'[m] = pos[m]
  PROVE  Descends
<1>1. k \in Node /\ k # n /\ n \in Anc[k]
  BY KidFacts
<1>2. \A m \in Node : m # k => phase'[m] = phase[m]
  BY <1>1 DEF TypeOK
<1>3. ASSUME Kind[n] = "retry", Len(Kids[n]) = 2
      PROVE  phase'[Kids[n][2]] = phase[Kids[n][2]]
  <2>1. Kids[n][2] \in Node /\ Kids[n][2] # k
    BY <1>3, ElseIsKid, KidFacts
  <2> QED BY <1>2, <2>1
<1>4. Toll(n)' = Toll(n)
  BY <1>3 DEF Toll
<1> QED BY <1>1, <1>2, <1>4, RunsDown

\* The way every construct begins a kid: a pass of a loop is begun from its test.
LEMMA BegunFalls ==
  ASSUME TypeOK, TypeOK', NEW n \in Node, NEW k \in KidSet(n), phase[n] = "run",
         Kind[n] = "retry" => k = Kids[n][1], Kind[n] = "loop" => pos[n] = 1,
         NEW p, NEW en, Begin(n, k, p, en)
  PROVE  Descends
<1>1. k \in Node /\ k # n
  BY KidFacts
<1>2. phase' = [phase EXCEPT ![k] = FirstPhase(k)] /\ pos' = [pos EXCEPT ![n] = Counted(n), ![k] = 0]
  BY DEF Begin
<1>3. phase'[k] = FirstPhase(k) /\ pos'[n] = Counted(n)
  BY <1>1, <1>2 DEF TypeOK
<1>4. pos[n] \in Nat
  BY DEF TypeOK
<1>5. pos[n] < Counted(n)
  BY <1>4 DEF Counted
<1>6. \A m \in Node : m # n /\ m # k => pos'[m] = pos[m]
  BY <1>2 DEF TypeOK
<1> QED BY <1>2, <1>3, <1>5, <1>6, BeginFalls

LEMMA EnterFalls ==
  ASSUME TypeOK, NEW n \in Node, Enter(n)
  PROVE  Descends
<1>1. CASE \E e \in Raised(n) : End(n, e)
  BY <1>1, RaisedType, EndFalls DEF Enter
<1>2. CASE ~\E e \in Raised(n) : End(n, e)
  <2>1. phase[n] = "enter" /\ phase' = [phase EXCEPT ![n] = "run"] /\ pos' = pos
    BY <1>2 DEF Enter
  <2>2. phase'[n] = "run" /\ \A m \in Node : m # n => phase'[m] = phase[m]
    BY <2>1 DEF TypeOK
  <2>3. ASSUME Len(Kids[n]) = 2
        PROVE  phase'[Kids[n][2]] = phase[Kids[n][2]]
    <3>1. Kids[n][2] \in Node /\ Kids[n][2] # n
      BY <2>3, ElseIsKid, KidFacts
    <3> QED BY <2>2, <3>1
  <2>4. Toll(n)' = Toll(n) /\ Most(n)' = Most(n)
    BY <2>3 DEF Toll, Most, IsBlock
  <2>5. Ahead(n)' = Ahead(n) /\ Ahead(n) \in Nat
    BY <2>1, <2>4, AheadType DEF Ahead
  <2>6. Stage(n) = 3 + Ahead(n) /\ Stage(n)' = 2 + Ahead(n)
    BY <2>1, <2>2, <2>5 DEF Stage
  <2>7. Stage(n)' < Stage(n)
    BY <2>5, <2>6
  <2> QED BY <2>1, <2>2, <2>7, Falls
<1> QED BY <1>1, <1>2

LEMMA TrailingFalls ==
  ASSUME TypeOK, TypeOK', NEW n \in Node, TrailingProperty(n)
  PROVE  Descends
<1>1. IsBlock(n) /\ phase[n] = "run" /\ pos[n] \in Nat
  BY DEF TrailingProperty, AtLine, Ready, TypeOK
<1>2. CASE \E e \in Raised(n) : End(n, e)
  BY <1>1, <1>2, RaisedType, EndFalls
<1>3. CASE TakesProperty(n)
  <2>1. phase' = phase /\ pos' = [pos EXCEPT ![n] = @ + 1]
    BY <1>3 DEF TakesProperty
  <2>2. pos'[n] = pos[n] + 1 /\ \A m \in Node : m # n => pos'[m] = pos[m]
    BY <2>1 DEF TypeOK
  <2>3. pos[n] < pos'[n]
    BY <1>1, <2>2
  <2>4. Toll(n)' = Toll(n)
    BY <2>1 DEF Toll
  <2> QED BY <1>1, <2>1, <2>2, <2>3, <2>4, RunsDown
<1> QED BY <1>2, <1>3 DEF TrailingProperty

LEMMA ForkFalls ==
  ASSUME TypeOK, TypeOK', NEW n \in Node, Fork(n)
  PROVE  Descends
<1>1. phase[n] = "run" /\ pos[n] = 0 /\ Kind[n] \in Parallel
  BY DEF Fork, Ready
<1>2. CASE \E e \in Raised(n) \cup {"failed"} : End(n, e)
  BY <1>1, <1>2, RaisedType, EndFalls DEF Results
<1>3. CASE ~\E e \in Raised(n) \cup {"failed"} : End(n, e)
  <2> DEFINE forks == {Kids[n][i] : i \in Branches(n)}
  <2>1. /\ phase' = [m \in Node |-> IF m \in forks THEN "forked" ELSE phase[m]]
        /\ pos' = [m \in Node |-> IF m = n THEN 1 ELSE IF m \in forks THEN 0 ELSE pos[m]]
    BY <1>3 DEF Fork
  <2>2. forks \subseteq KidSet(n)
    BY DEF Branches, KidSet
  <2>3. n \notin forks /\ \A m \in forks : n \in Anc[m]
    BY <2>2, KidFacts
  <2> HIDE DEF forks
  <2>4. phase'[n] = "run" /\ pos'[n] = 1
    BY <1>1, <2>1, <2>3
  <2>5. \A m \in Node : m # n /\ n \notin Anc[m] => phase'[m] = phase[m] /\ pos'[m] = pos[m]
    BY <2>1, <2>3
  <2>6. Toll(n)' = Toll(n)
    BY <1>1 DEF Toll, Parallel
  <2>7. pos[n] < pos'[n]
    BY <1>1, <2>4
  <2> QED BY <1>1, <2>4, <2>5, <2>6, <2>7, RunsDown
<1> QED BY <1>2, <1>3

LEMMA DispatchFalls ==
  ASSUME TypeOK, TypeOK', NEW n \in Node, Dispatch(n)
  PROVE  Descends
<1>1. phase[n] = "run" /\ pos[n] = 0 /\ Kind[n] \in Calls
  BY DEF Dispatch, Ready
<1>2. CASE \E e \in Results : End(n, e)
  BY <1>1, <1>2, EndFalls
<1>3. CASE ~\E e \in Results : End(n, e)
  <2>1. ~Refused(n) /\ ~\E e \in Raised(n) : End(n, e)
    BY <1>3, RefusedEnds, RaisedType DEF Results, Stops
  <2>2. PICK k \in KidSet(n) : /\ phase' = [phase EXCEPT ![k] = "enter"]
                               /\ pos' = [pos EXCEPT ![n] = 1, ![k] = 0]
    BY <2>1 DEF Dispatch
  <2>3. k \in Node /\ k # n
    BY KidFacts
  <2>4. phase'[k] = "enter" /\ pos'[n] = 1 /\ \A m \in Node : m # n /\ m # k => pos'[m] = pos[m]
    BY <2>2, <2>3 DEF TypeOK
  <2>5. Kind[n] # "retry"
    BY <1>1 DEF Calls
  <2>6. pos[n] < pos'[n]
    BY <1>1, <2>4
  <2> QED BY <1>1, <2>2, <2>4, <2>5, <2>6, BeginFalls
<1> QED BY <1>2, <1>3

\* What is taken from a kid that has answered, or has its turn, is the kid's own.
LEMMA KidFalls ==
  ASSUME TypeOK, NEW k \in Node, Stage(k)' < Stage(k), phase' = [phase EXCEPT ![k] = phase'[k]],
         pos' = pos, \/ phase'[k] = "idle" <=> phase[k] = "idle"
                     \/ \A m \in Node : Kind[m] = "retry" /\ Len(Kids[m]) = 2 => k # Kids[m][2]
  PROVE  Descends
<1>1. \A m \in Node : m # k => phase'[m] = phase[m]
  BY DEF TypeOK
<1> QED BY <1>1, Falls

LEMMA TakeFalls ==
  ASSUME TypeOK, NEW n \in Node, NEW k \in KidSet(n), Returned(n, k), Take(n, k),
         Kind[n] = "retry" => k = Kids[n][1]
  PROVE  Descends
<1>1. k \in Node /\ phase[k] \in Results /\ pos' = pos /\ phase' = [phase EXCEPT ![k] = "idle"]
  BY KidFacts DEF Returned, Take
<1>2. phase'[k] = "idle" /\ phase[k] \notin {"idle", "forked", "enter", "run"}
  BY <1>1 DEF TypeOK, Results, Stops
<1>3. Stage(k) = 1 /\ Stage(k)' = 0
  BY <1>2 DEF Stage
<1>4. ASSUME NEW m \in Node, Kind[m] = "retry", Len(Kids[m]) = 2, k = Kids[m][2]
      PROVE  FALSE
  <2>1. m = n
    BY <1>4, ElseIsKid, KidFacts
  <2> QED BY <1>4, <2>1, ElseIsKid
<1>5. Stage(k)' < Stage(k)
  BY <1>3
<1> QED BY <1>1, <1>2, <1>4, <1>5, KidFalls

LEMMA BranchStartsFalls ==
  ASSUME TypeOK, NEW n \in Node, NEW k \in KidSet(n), BranchStarts(n, k)
  PROVE  Descends
<1>1. k \in Node /\ phase[k] = "forked" /\ phase' = [phase EXCEPT ![k] = FirstPhase(k)] /\ pos' = pos
  BY KidFacts DEF BranchStarts
<1>2. phase'[k] = FirstPhase(k) /\ phase'[k] \in {"enter", "run"}
  BY <1>1, FirstPhaseType DEF TypeOK
<1>3. ASSUME Len(Kids[k]) = 2
      PROVE  phase'[Kids[k][2]] = phase[Kids[k][2]]
  <2>1. Kids[k][2] \in Node /\ Kids[k][2] # k
    BY <1>1, <1>3, ElseIsKid, KidFacts
  <2> QED BY <1>1, <2>1 DEF TypeOK
<1>4. Toll(k)' = Toll(k) /\ Most(k)' = Most(k)
  BY <1>3 DEF Toll, Most, IsBlock
<1>5. Ahead(k)' = Ahead(k) /\ Ahead(k) \in Nat
  BY <1>1, <1>4, AheadType DEF Ahead
<1>6. Stage(k) = 4 + Ahead(k) /\ Stage(k)' \in {2 + Ahead(k), 3 + Ahead(k)}
  BY <1>1, <1>2, <1>5 DEF Stage
<1>7. Stage(k)' < Stage(k)
  BY <1>5, <1>6
<1> QED BY <1>1, <1>2, <1>7, KidFalls

\* A retry gives up and walks its else.
LEMMA ElseFalls ==
  ASSUME IInv, TypeOK', NEW n \in Node, NEW k \in KidSet(n), Kind[n] = "retry", Returned(n, k),
         k = Kids[n][1], Len(Kids[n]) # 1, ElseBegins(n, k)
  PROVE  Descends
<1> DEFINE else == Kids[n][2]
<1>1. Len(Kids[n]) = 2 /\ TypeOK /\ phase[n] = "run" /\ phase[k] \in Results
  BY ProgramAssumption DEF IInv, Returned
<1>2. else \in KidSet(n) /\ else # k
  BY <1>1, ElseIsKid
<1>3. k \in Node /\ k # n /\ n \in Anc[k] /\ else \in Node /\ else # n /\ n \in Anc[else]
  BY <1>2, KidFacts
<1>4. phase[else] = "idle"
  BY <1>1, <1>2 DEF IInv, OneAtATime, Parallel, Results, Stops
<1>5. /\ phase' = [phase EXCEPT ![k] = "idle", ![else] = FirstPhase(else)]
      /\ pos' = [pos EXCEPT ![else] = 0]
  BY DEF ElseBegins
<1>6. /\ phase'[else] \in {"enter", "run"} /\ phase'[n] = "run" /\ pos'[n] = pos[n]
      /\ \A m \in Node : m # k /\ m # else => phase'[m] = phase[m] /\ pos'[m] = pos[m]
  BY <1>1, <1>2, <1>3, <1>5, FirstPhaseType DEF TypeOK
<1>7. Toll(n) = 1 /\ Toll(n)' = 0
  BY <1>1, <1>4, <1>6 DEF Toll
<1>8. Toll(n)' < Toll(n)
  BY <1>7
<1>9. \A m \in Node : m # n /\ n \notin Anc[m] => phase'[m] = phase[m] /\ pos'[m] = pos[m]
  BY <1>3, <1>6
<1> HIDE DEF else
<1> QED BY <1>1, <1>6, <1>8, <1>9, RunsDown

LEMMA BlocksFall ==
  ASSUME TypeOK, TypeOK', NEW n \in Node, NextStatement(n) \/ EndOfBlock(n) \/ Choose(n) \/ Leaf(n)
  PROVE  Descends
<1>1. phase[n] = "run"
  BY DEF NextStatement, AtLine, EndOfBlock, Choose, Leaf, Ready
<1>2. CASE \E e \in Results : End(n, e)
  BY <1>1, <1>2, EndFalls
<1>3. CASE ~\E e \in Results : End(n, e)
  <2>1. ~Leaf(n)
    <3>1. \A e \in Outcomes(n) : Kind[n] \in Leaves => e \in Results
      BY RaisedType DEF Outcomes, Leaves, Results, Stops
    <3> QED BY <1>3, <3>1 DEF Leaf
  <2>2. /\ Kind[n] \notin {"retry", "loop"}
        /\ \E k \in KidSet(n) : Begin(n, k, props[n], env[runner[n]])
    <3>1. CASE NextStatement(n)
      <4>1. Begin(n, Following(n), props[n], env[runner[n]]) /\ IsBlock(n)
        BY <1>3, <3>1 DEF NextStatement, AtLine, Results
      <4>2. pos[n] \in Nat /\ pos[n] < Len(Kids[n]) /\ DOMAIN Kids[n] = 1 .. Len(Kids[n])
        BY <3>1, TreeAssumption DEF NextStatement, AtLine, TypeOK
      <4>3. Following(n) \in KidSet(n)
        BY <4>2, TreeAssumption DEF Following, KidSet
      <4> QED BY <4>1, <4>3 DEF IsBlock
    <3>2. CASE Choose(n)
      BY <1>3, <3>2, RaisedType DEF Choose, Results
    <3>3. CASE EndOfBlock(n)
      BY <1>3, <3>3 DEF EndOfBlock, Results
    <3> QED BY <2>1, <3>1, <3>2, <3>3
  <2> QED BY <1>1, <2>2, BegunFalls
<1> QED BY <1>2, <1>3

LEMMA BodiesFall ==
  ASSUME TypeOK, TypeOK', NEW n \in Node, Place(n),
         Do(n) \/ Attempt(n) \/ NextItem(n) \/ NextPass(n) \/ Test(n)
  PROVE  Descends \/ Again
<1>1. /\ Kind[n] \in {"do", "retry"} \cup Loops /\ Ready(n) /\ phase[n] = "run"
      /\ \/ BodyBegins(n) /\ (Kind[n] = "loop" => pos[n] = 1)
         \/ \E e \in Results : End(n, e)
         \/ Kind[n] = "loop" /\ pos[n] # 1 /\ ~interrupted /\ AtTest(n)
  BY RaisedType DEF Do, Attempt, NextItem, NextPass, Test, Loops, Results, Ready
<1>2. CASE \E e \in Results : End(n, e)
  BY <1>1, <1>2, EndFalls
<1>3. CASE BodyBegins(n) /\ (Kind[n] = "loop" => pos[n] = 1)
  <2>1. Len(Kids[n]) \in {1, 2}
    BY <1>1, ProgramAssumption
  <2>2. Kids[n][1] \in KidSet(n)
    BY <2>1, TreeAssumption DEF KidSet
  <2>3. Begin(n, Kids[n][1], Inner(n), env[runner[n]]) /\ phase[n] = "run"
    BY <1>1, <1>3 DEF BodyBegins
  <2> QED BY <1>3, <2>2, <2>3, BegunFalls
<1>4. CASE Kind[n] = "loop" /\ pos[n] # 1 /\ ~interrupted /\ AtTest(n)
  <2>1. Most(n) = 2
    BY <1>4 DEF Most, IsBlock
  <2>2. pos[n] \in {0, 2}
    <3> DEFINE at == pos[n]
    <3>1. at \in Nat /\ at <= 2 /\ at # 1
      BY <1>4, <2>1 DEF TypeOK
    <3> HIDE DEF at
    <3>2. at \in {0, 2}
      BY <3>1
    <3> QED BY <3>2 DEF at
  <2>3. CASE pos[n] = 0
    <3>1. phase' = phase /\ pos' = [pos EXCEPT ![n] = 1]
      BY <1>4 DEF AtTest
    <3>2. pos'[n] = 1 /\ \A m \in Node : m # n => pos'[m] = pos[m]
      BY <3>1 DEF TypeOK
    <3>3. Toll(n)' = Toll(n) /\ pos[n] < pos'[n]
      BY <2>3, <3>1, <3>2 DEF Toll
    <3> QED BY <1>1, <3>1, <3>2, <3>3, RunsDown
  <2>4. CASE pos[n] = 2
    <3>1. ~flags.dry
      BY <1>1, <1>4, <2>4 DEF Place
    <3> QED BY <1>1, <1>4, <2>4, <3>1 DEF Again, Active
  <2> QED BY <2>2, <2>3, <2>4
<1> QED BY <1>1, <1>2, <1>3, <1>4

LEMMA AnswersFall ==
  ASSUME IInv, TypeOK', NEW n \in Node, NEW k \in KidSet(n), Return(n, k)
  PROVE  Descends
<1>1. TypeOK
  BY DEF IInv
<1>2. CASE BranchStarts(n, k)
  BY <1>1, <1>2, BranchStartsFalls
<1>3. CASE ~BranchStarts(n, k)
  <2>1. Returned(n, k) /\ phase[n] = "run" /\ phase[k] \in Results
    BY <1>3 DEF Return, StatementReturned, ChoiceReturned, DoReturned, AttemptReturned, ElseReturned,
       PassReturned, TargetReturned, Returned
  <2>2. {phase[k], Ended(phase[k]), "ok"} \subseteq Results
    BY <2>1 DEF Ended, Results
  <2>3. CASE \E e \in {phase[k], Ended(phase[k]), "ok"} : End(n, e)
    BY <1>1, <2>1, <2>2, <2>3, EndFalls
  <2>4. CASE ~\E e \in {phase[k], Ended(phase[k]), "ok"} : End(n, e)
    <3>1. \/ Take(n, k) /\ (Kind[n] = "retry" => k = Kids[n][1])
          \/ Kind[n] = "retry" /\ k = Kids[n][1] /\ Len(Kids[n]) # 1 /\ ElseBegins(n, k)
      BY <1>3, <2>4 DEF Return, StatementReturned, ChoiceReturned, DoReturned, AttemptReturned,
         ElseReturned, PassReturned, TargetReturned, Answer, IsBlock, Loops
    <3> QED BY <1>1, <2>1, <3>1, TakeFalls, ElseFalls
  <2> QED BY <2>3, <2>4
<1> QED BY <1>2, <1>3

\* Whatever a step of a run does to the walk, it brings one node closer to its end
\* and touches nothing but what is below that node; the one step that does not is a
\* further pass of a loop, which an interrupt and a preview do away with (next_item,
\* retry_attempts, loop_passes).
THEOREM WalkRunsOut ==
  Spec => [](Stages \in [Node -> Nat]) /\ [][walkVars' # walkVars => Descends \/ Again]_vars
<1>1. ASSUME KInv, KInv', \A n \in Node : Place(n), Next, walkVars' # walkVars
      PROVE  Descends \/ Again
  <2>1. IInv /\ TypeOK /\ TypeOK'
    BY <1>1 DEF KInv, IInv
  <2>2. ASSUME NEW n \in Active, Step(n)
        PROVE  Descends \/ Again
    <3>1. n \in Node /\ Place(n)
      BY <1>1 DEF Active
    <3>2. CASE NextStatement(n) \/ EndOfBlock(n) \/ Choose(n)
      BY <2>1, <3>1, <3>2, BlocksFall
    <3>3. CASE Do(n) \/ Attempt(n) \/ NextItem(n) \/ NextPass(n) \/ Test(n)
      BY <2>1, <3>1, <3>3, BodiesFall
    <3>4. CASE Join(n)
      <4>1. phase[n] = "run" /\ JoinAnswer(n) \in Results
        BY <3>1, <3>4, JoinResult DEF Join
      <4> QED BY <2>1, <3>1, <3>4, <4>1, EndFalls DEF Join
    <3>5. CASE TrailingProperty(n) \/ Enter(n) \/ Fork(n) \/ Dispatch(n)
      BY <2>1, <3>1, <3>5, TrailingFalls, EnterFalls, ForkFalls, DispatchFalls
    <3> QED BY <2>2, <3>2, <3>3, <3>4, <3>5 DEF Step
  <2>3. ASSUME NEW n \in Active, Leaf(n)
        PROVE  Descends
    BY <2>1, <2>3, BlocksFall DEF Active
  <2>4. ASSUME NEW n \in Active, NEW k \in KidSet(n), Return(n, k)
        PROVE  Descends
    BY <2>1, <2>4, AnswersFall DEF Active
  <2>5. CASE Interrupt \/ Exit
    BY <1>1, <2>5 DEF Interrupt, Exit
  <2> QED BY <1>1, <2>2, <2>3, <2>4, <2>5 DEF Next
<1>2. ASSUME KInv, KInv', \A n \in Node : Place(n), [Next]_vars
      PROVE  [walkVars' # walkVars => Descends \/ Again]_vars
  BY <1>1, <1>2
<1>3. KInv => Stages \in [Node -> Nat]
  BY StageType DEF KInv, IInv, Stages
<1> QED BY <1>2, <1>3, PlacesAlways, PTL DEF Spec

\* And such steps cannot go on for ever, in a tree of any finite size: of the nodes
\* that keep coming closer to their end, take one with none of the others above it;
\* from some point on nothing adds to what it has ahead of it.
THEOREM DescentEnds == IsWellFoundedOn(Descent, [Node -> Nat])
<1> SUFFICES ASSUME NEW f \in [Nat -> [Node -> Nat]], \A i \in Nat : Lower(f[i + 1], f[i])
             PROVE  FALSE
  BY DEF IsWellFoundedOn, Descent
<1> DEFINE Acts(i, n) == /\ f[i + 1][n] < f[i][n]
                         /\ \A m \in Node : f[i + 1][m] # f[i][m] => m = n \/ n \in Anc[m]
           act == [i \in Nat |-> CHOOSE n \in Node : Acts(i, n)]
           Only(T, j) == \A i \in Nat : i >= j => act[i] \in T
           Lasting == {T \in SUBSET Node : \E j \in Nat : Only(T, j)}
<1>1. \A i \in Nat : act[i] \in Node /\ Acts(i, act[i])
  BY DEF Lower
<1>2. \A i \in Nat, n \in Node : f[i][n] \in Nat /\ f[i + 1][n] \in Nat
  OBVIOUS
<1> HIDE DEF act
<1>3. IsWellFoundedOn(StrictSubsetOrdering(Node), SUBSET Node)
  <2>1. IsFiniteSet(Node)
    BY TreeAssumption
  <2>2. FiniteSubsetsOf(Node) = SUBSET Node
    BY <2>1, FS_FiniteSubsetsOfFinite
  <2>3. IsWellFoundedOn(StrictSubsetOrdering(Node), FiniteSubsetsOf(Node))
    BY FS_StrictSubsetOrderingWellFounded
  <2> QED BY <2>2, <2>3
<1>4. PICK T \in Lasting : \A U \in Lasting : ~(<<U, T>> \in StrictSubsetOrdering(Node))
  <2>1. Only(Node, 0)
    BY <1>1
  <2>2. Lasting # {} /\ Lasting \subseteq SUBSET Node
    BY <2>1
  <2> HIDE DEF Lasting
  <2> QED BY <1>3, <2>2, WFMin
<1>5. PICK j \in Nat : Only(T, j)
  OBVIOUS
\* Each of them comes closer again and again.
<1>6. ASSUME NEW n \in T, NEW i \in Nat
      PROVE  \E h \in Nat : h >= i /\ act[h] = n
  <2> SUFFICES ASSUME \A h \in Nat : h >= i => act[h] # n
               PROVE  FALSE
    OBVIOUS
  <2> DEFINE late == IF i >= j THEN i ELSE j
  <2>1. late \in Nat /\ late >= i /\ late >= j
    OBVIOUS
  <2> HIDE DEF late
  <2>2. Only(T \ {n}, late)
    BY <1>5, <2>1
  <2>3. T \ {n} \in Lasting /\ T \in SUBSET Node
    BY <2>1, <2>2
  <2> HIDE DEF Lasting
  <2>4. <<T \ {n}, T>> \in StrictSubsetOrdering(Node)
    BY <2>3 DEF StrictSubsetOrdering
  <2> QED BY <1>4, <2>3, <2>4
<1>7. PICK n \in T : \A m \in T : m \notin Anc[n]
  <2> DEFINE Lines == {Anc[m] : m \in T}
  <2>1. act[j] \in T /\ T \subseteq Node
    BY <1>5
  <2>2. \A m \in T : Anc[m] \in SUBSET Node
    BY <2>1, TreeAssumption
  <2>3. Lines # {} /\ Lines \subseteq SUBSET Node
    BY <2>1, <2>2
  <2> HIDE DEF Lines
  <2>4. PICK L \in Lines : \A M \in Lines : ~(<<M, L>> \in StrictSubsetOrdering(Node))
    BY <1>3, <2>3, WFMin
  <2>5. PICK n \in T : L = Anc[n]
    BY DEF Lines
  <2>6. ASSUME NEW m \in T, m \in Anc[n]
        PROVE  FALSE
    <3>1. Anc[m] \in Lines
      BY DEF Lines
    <3>2. m \in Node /\ n \in Node /\ Anc[m] \subseteq Anc[n] /\ m \notin Anc[m]
      BY <2>1, <2>6, TreeAssumption
    <3>3. <<Anc[m], L>> \in StrictSubsetOrdering(Node)
      BY <2>2, <2>5, <2>6, <3>2 DEF StrictSubsetOrdering
    <3> QED BY <2>4, <3>1, <3>3
  <2> QED BY <2>6
\* From j on, nothing else touches n.
<1>8. ASSUME NEW i \in Nat, i >= j, f[i + 1][n] # f[i][n]
      PROVE  act[i] = n
  <2>1. act[i] \in T /\ n \in Node /\ Acts(i, act[i])
    BY <1>1, <1>5, <1>8
  <2> QED BY <1>7, <1>8, <2>1
<1> DEFINE Values == {f[i][n] : i \in {h \in Nat : h >= j}}
<1>9. Values # {} /\ Values \subseteq Nat
  <2>1. f[j][n] \in Values
    OBVIOUS
  <2> QED BY <1>2, <2>1
<1>10. PICK v \in Values : \A w \in Values : <<w, v>> \notin OpToRel(<, Nat)
  <2> HIDE DEF Values
  <2> QED BY <1>9, NatLessThanWellFounded, WFMin, Zenon
<1>11. PICK s \in Nat : s >= j /\ f[s][n] = v
  OBVIOUS
\* The first time it does so after its least, it is at its least.
<1> DEFINE Turns == {h \in Nat : h >= s /\ act[h] = n}
<1>12. PICK h \in Turns : \A g \in Turns : <<g, h>> \notin OpToRel(<, Nat)
  <2>1. Turns # {} /\ Turns \subseteq Nat
    BY <1>6
  <2> HIDE DEF Turns
  <2> QED BY <2>1, NatLessThanWellFounded, WFMin, Zenon
<1> DEFINE Off == {i \in Nat : s <= i /\ i <= h /\ f[i][n] # v}
<1>13. Off = {}
  <2> SUFFICES ASSUME Off # {}
               PROVE  FALSE
    OBVIOUS
  <2>1. PICK i \in Off : \A g \in Off : <<g, i>> \notin OpToRel(<, Nat)
    <3>1. Off \subseteq Nat
      OBVIOUS
    <3> HIDE DEF Off
    <3> QED BY <3>1, NatLessThanWellFounded, WFMin, Zenon
  <2>2. i - 1 \in Nat /\ s <= i - 1 /\ i - 1 < i /\ i - 1 < h /\ (i - 1) + 1 = i
    <3>1. i \in Nat /\ s <= i /\ i <= h /\ f[i][n] # v /\ h \in Nat
      BY <1>12, <2>1
    <3>2. i # s
      BY <1>11, <3>1
    <3> HIDE DEF Off, Turns
    <3> QED BY <3>1, <3>2
  <2>3. i - 1 \notin Off
    BY <2>1, <2>2 DEF OpToRel
  <2>4. f[i - 1][n] = v /\ f[i][n] # v
    BY <2>2, <2>3
  <2>5. i - 1 >= j
    BY <1>11, <2>2
  <2>6. act[i - 1] = n
    BY <1>8, <2>2, <2>4, <2>5
  <2>7. i - 1 \in Turns
    BY <2>2, <2>6
  <2> QED BY <1>12, <2>2, <2>7 DEF OpToRel
<1>14. h \in Nat /\ h >= s /\ act[h] = n /\ f[h][n] = v
  BY <1>13
<1>15. f[h + 1][n] < v /\ f[h + 1][n] \in Nat /\ v \in Nat
  BY <1>1, <1>2, <1>9, <1>14
<1>16. f[h + 1][n] \in Values
  <2>1. h + 1 \in Nat /\ h + 1 >= j
    BY <1>11, <1>14
  <2> QED BY <2>1
<1> QED BY <1>10, <1>15, <1>16 DEF OpToRel
=============================================================================
