----------------------------- MODULE MCSession -----------------------------
(* Session with changes enough to interrupt a burst, a run and a wait.     *)
EXTENDS Session
MCMaxChanges == 3
MCMaxPresses == 1
MCMaxTemps   == 2
=============================================================================
