----------------------------- MODULE Discovery -----------------------------
(***************************************************************************)
(* Which targets there are from where somebody stands (runfile-discovery), *)
(* as operators on a file tree: the project's `runfiles/` at or above, the *)
(* ones of its subprojects, the machine-wide one and what its files say of *)
(* where they belong; the `_shared.run` files above a target; and what the *)
(* linter and an editor make of the same tree (document.rs, cmd_lint.rs).  *)
(*                                                                         *)
(* A path is a sequence of names and a file's name is its stem; a          *)
(* directory is there when a file is below it.  A target's name is a       *)
(* sequence too, where the code joins it by `:`.  Who owns a directory,    *)
(* links, and file systems that do not tell cases apart are left out.      *)
(***************************************************************************)
EXTENDS Naturals, Sequences, SequencesExt, FiniteSets

CONSTANTS Home, Skipped, MaxDepth, None

Shared == "_shared"
GlobalNames == {".runfiles", "Runfiles", "runfiles"}

Dir(f) == Front(f)
Below(d, p) == IsStrictPrefix(d, p)
Exists(files, d) == \E f \in files : Below(d, f)
AtOrAbove(d) == {SubSeq(d, 1, i) : i \in 0 .. Len(d)}
Runfiles(d) == Append(d, "runfiles")
SharedIn(d) == Append(d, Shared)

\* The nearest project, the home directory's `runfiles/` being passed over.
FindUpward(files, from) ==
  LET found == {d \in AtOrAbove(from) : d # Home /\ Exists(files, Runfiles(d))} IN
  IF found = {} THEN None ELSE CHOOSE d \in found : \A e \in found : Len(e) <= Len(d)

\* global_dir: it is an error when there are two.
GlobalDirs(files) == {d \in {Append(Home, n) : n \in GlobalNames} : Exists(files, d)}

\* scan_subprojects: every directory so far below the project that has its own.
Subprojects(files, root) ==
  {p \in UNION {AtOrAbove(f) : f \in files} :
     /\ Below(root, p) /\ Len(p) <= Len(root) + MaxDepth
     /\ \A i \in Len(root) + 1 .. Len(p) : p[i] \notin Skipped \cup {".runfiles", "runfiles"}
     /\ p # Home /\ Exists(files, Runfiles(p))}

Tree(dir, anchor, prefix, origin) == [dir |-> dir, anchor |-> anchor, prefix |-> prefix, origin |-> origin]

\* The trees discover_with collects.  A subproject's prefix is its own name alone.
Trees(files, from) ==
  LET root == FindUpward(files, from) IN
  (IF root = None THEN {}
   ELSE {Tree(Runfiles(root), root, <<>>, "local")}
        \cup {Tree(Runfiles(p), p, <<Last(p)>>, "included") : p \in Subprojects(files, root)})
  \cup {Tree(g, Home, <<>>, "global") : g \in GlobalDirs(files)}

\* A scope is the directories it names: none where there is no such property.
Covers(scope, from) == scope = {} \/ \E d \in scope : IsPrefix(d, from)

\* Mutant: a file that covers us is let back in below a directory that does not.
WalkedLast(scopes, tree, dir, from) ==
  LET in[i \in Len(tree.dir) .. Len(dir)] ==
        SharedIn(SubSeq(dir, 1, i)) \notin DOMAIN scopes \/ Covers(scopes[SharedIn(SubSeq(dir, 1, i))], from)
  IN in[Len(dir)]

\* Whether walk_runs gets as far as a directory: a `_shared.run` that does not
\* cover us prunes all below it.
Walked(scopes, tree, dir, from) ==
  LET in[i \in Len(tree.dir) .. Len(dir)] ==
        /\ i = Len(tree.dir) \/ in[i - 1]
        /\ SharedIn(SubSeq(dir, 1, i)) \notin DOMAIN scopes \/ Covers(scopes[SharedIn(SubSeq(dir, 1, i))], from)
  IN in[Len(dir)]

\* A target's name is its path below its tree, behind the tree's prefix.
NameOf(tree, f) == tree.prefix \o SubSeq(f, Len(tree.dir) + 1, Len(f))

\* collect: scopes are only read in the machine-wide tree, and by `run`, not by
\* the linter or an editor.
Collected(files, scopes, tree, from, scoped) ==
  {[name |-> NameOf(tree, f), path |-> f, anchor |-> tree.anchor, origin |-> tree.origin] :
     f \in {g \in files :
              /\ Below(tree.dir, g) /\ Last(g) # Shared
              /\ scoped /\ tree.origin = "global" =>
                   Walked(scopes, tree, Dir(g), from) /\ Covers(scopes[g], from)}}

Targets(files, scopes, from, scoped) ==
  UNION {Collected(files, scopes, tree, from, scoped) : tree \in Trees(files, from)}

\* discover_with, whose errors are for everybody below the directory.
Discover(files, scopes, from, scoped) ==
  LET targets == Targets(files, scopes, from, scoped) IN
  [targets |-> targets,
   error |-> CASE Cardinality(GlobalDirs(files)) > 1 -> "ambiguous"
               [] \E t, u \in targets : t # u /\ t.name = u.name -> "duplicate"
               [] targets = {} /\ FindUpward(files, from) = None -> "not found"
               [] OTHER -> None]

\* Catalog::resolve.
Named(catalog, name) == {t \in catalog : t.name = name}

\* Catalog::shared_chain, walked up from the target's own file to its anchor:
\* the directories whose `_shared.run` it inherits from.
SharedChain(files, target) ==
  {d \in AtOrAbove(Dir(target.path)) : Below(target.anchor, d) /\ SharedIn(d) \in files}

\* document::shared_chain of a `_shared.run`: that of some target below it, cut
\* off at its own directory.
ChainAbove(files, catalog, here) ==
  LET below == {t \in catalog : Below(Dir(here), t.path)} IN
  IF below = {} THEN {}
  ELSE {d \in SharedChain(files, CHOOSE t \in below : TRUE) : d # Dir(here) /\ IsPrefix(d, Dir(here))}

\* What a file calls its siblings by: its own name, less the last of it.
PrefixOf(name) == Front(name)

\* Mutant: the catalog's names alone.
TargetNamesFull(catalog, here) == {t.name : t \in catalog}

\* document::target_names: every name there is, and the siblings' bare ones.
TargetNames(catalog, here) ==
  {t.name : t \in catalog}
  \cup UNION {{SubSeq(t.name, Len(PrefixOf(u.name)) + 1, Len(t.name)) :
                 t \in {v \in catalog : PrefixOf(u.name) # <<>> /\ IsStrictPrefix(PrefixOf(u.name), v.name)}} :
              u \in {v \in catalog : v.path = here}}

\* run_with_chain: the caller's own prefix first, and then the name as written.
Resolve(catalog, caller, name) ==
  LET own == IF caller = None \/ PrefixOf(caller) = <<>> THEN {} ELSE Named(catalog, PrefixOf(caller) \o name) IN
  IF own # {} THEN own ELSE Named(catalog, name)
=============================================================================
