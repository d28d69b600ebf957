----------------------------- MODULE MCDispatch -----------------------------
(* A project with a nested directory and a subproject, below a home with its *)
(* machine-wide targets.                                                     *)
EXTENDS Dispatch

h   == <<"home">>
p   == <<"home", "p">>
web == <<"home", "p", "web">>

InProject == {Runfiles(p) \o f : f \in {<<"build">>, <<"api", "build">>}}
InWeb     == {Runfiles(web) \o f : f \in {<<"build">>, <<"compile">>, <<"api", "build">>}}
Always    == {Runfiles(p) \o f : f \in {<<"api", "_shared">>, <<"_shared">>}}
Machine   == {<<"home", ".runfiles">> \o f : f \in {<<"api", "tool">>, <<"api", "_shared">>, <<"_shared">>}}
Within    == {Runfiles(p) \o f : f \in {<<"api">>, <<"x", "runfiles", "y">>}}
Clash     == {<<"home", "runfiles", "tool">>, <<"home", ".runfiles", "build">>}

World(files, scopes) == [files |-> files, scopes |-> [f \in files |-> IF f \in DOMAIN scopes THEN scopes[f] ELSE {}]]
Unscoped == <<>>
Scopes == [Machine -> {{}, {p}, {web}}]

\* What calls what, and who says where it belongs.
MCWorlds ==
  {World(Always \cup project \cup sub, Unscoped) :
      project \in SUBSET InProject, sub \in {{}, InWeb, {Append(Runfiles(web), "compile")}}}
  \cup {World(InProject \cup InWeb \cup Machine, scopes) : scopes \in Scopes}
  \cup {World(InProject \cup clash, Unscoped) : clash \in SUBSET Clash}
  \cup {World({<<"home", "runfiles", "tool">>}, Unscoped), World(Always \cup InProject \cup Within, Unscoped)}

q   == <<"home", "q">>

MCStands == {p, web, q}
MCPaths == {<<"a">>}
MCNames == {<<"build">>, <<"compile">>, <<"api", "build">>, <<"web", "build">>}
=============================================================================
