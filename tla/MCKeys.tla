------------------------------- MODULE MCKeys -------------------------------
(* Two files, two commands at a time, and a key to rotate to.              *)
EXTENDS Keys, TLC
CONSTANTS p1, p2, f, g, v, k1, k2, open, secret
MCProc   == {p1, p2}
MCFile   == {f, g}
MCVar    == {v}
MCKey    == {k1, k2}
MCOpen   == {open}
MCSecret == {secret}
Told(cmd, from, to, val, key, flag) ==
  [cmd |-> cmd, from |-> from, to |-> to, var |-> v, val |-> val, key |-> key, flag |-> flag]
\* A rotation that keeps the old key is one with --delete-current-key killed in time.
MCTasks ==
  {Told("set", f, f, open, NoKey, TRUE), Told("set", f, f, secret, NoKey, FALSE),
   Told("rotate", f, f, open, NoKey, TRUE), Told("rotate", g, g, open, NoKey, TRUE),
   Told("init", f, f, open, NoKey, FALSE), Told("init", g, g, open, NoKey, TRUE),
   Told("decrypt", f, g, open, NoKey, FALSE)}
  \cup {Told("set", f, f, secret, k, FALSE) : k \in MCKey}
  \cup {Told("encrypt", f, f, open, k, FALSE) : k \in MCKey}
  \cup {Told("add", g, g, open, k, FALSE) : k \in MCKey}
  \cup {Told("remove", g, g, open, k, FALSE) : k \in MCKey}
MCPool    == {}
MCMaxRuns == 3
Symmetry == Permutations(MCProc) \cup Permutations(MCKey)
=============================================================================
