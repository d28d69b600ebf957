----------------------------- MODULE MCPrepare -----------------------------
(* Two directories with a setup each, a target that one of them gates, and  *)
(* two processes.                                                           *)
EXTENDS Prepare, TLC
CONSTANTS p1, p2, setup, build, otherSetup, d1, d2
MCProc   == {p1, p2}
MCTarget == {setup, build, otherSetup}
MCGateOf == setup :> NoGate @@ build :> setup @@ otherSetup :> NoGate
MCDefs   == {d1, d2}
MCWays   == {{}, {"dry"}, {"skip"}, {"ci", "watch"}}
MCMaxRuns  == 3
MCMaxEdits == 1
Symmetry == Permutations(MCProc) \cup Permutations(MCDefs)
=============================================================================
