----------------------------- MODULE MCPipeline -----------------------------
(***************************************************************************)
(* An instance of Pipeline: a module that contains a nested workspace      *)
(* module with a file of the same relative name, a package outside any     *)
(* module, a package seen again as its test variant; one run that writes   *)
(* the baseline or not, and one that uses it.                              *)
(***************************************************************************)
EXTENDS Pipeline

CONSTANTS W, R, Root, RootTest, Nested, Loose

MCAnchor == <<"r">>
MCModuleOf == (Root :> [dir |-> <<"r">>, path |-> "m"])
           @@ (RootTest :> [dir |-> <<"r">>, path |-> "m"])
           @@ (Nested :> [dir |-> <<"r", "n">>, path |-> "m/n"])
           @@ (Loose :> NoModule)

At(f, n, pkgs) == [file |-> f, at |-> n, id |-> "PS1", msg |-> "x", generated |-> FALSE,
                   fixable |-> FALSE, pkgs |-> pkgs]
S1 == At(<<"r", "a.go">>, 1, {Root, RootTest})
S2 == [At(<<"r", "a.go">>, 2, {RootTest}) EXCEPT !.fixable = TRUE]
S3 == At(<<"r", "n", "a.go">>, 1, {Nested})
S4 == [At(<<"g", "a.go">>, 1, {Loose}) EXCEPT !.generated = TRUE]
S5 == [S1 EXCEPT !.msg = "y", !.pkgs = {RootTest}]
MCSite == {S1, S2, S3, S4, S5}
ASSUME InnermostModules == SitesOwned(MCModuleOf)
MCSources == {S \in SUBSET MCSite : {S1, S3, S4} \subseteq S}
MCLegacy == {S1, S3}

Report0 == [mode |-> "report", baseline |-> TRUE, exitZero |-> FALSE, includeGenerated |-> FALSE,
            exclude |-> {}, scope |-> Package]
MCOption ==
  {Report0,
   [Report0 EXCEPT !.scope = {Nested}, !.exitZero = TRUE],
   [Report0 EXCEPT !.scope = {Root, Loose}, !.includeGenerated = TRUE],
   [Report0 EXCEPT !.mode = "fix"],
   [Report0 EXCEPT !.mode = "diff", !.baseline = FALSE, !.exclude = {<<"r", "a.go">>}],
   [Report0 EXCEPT !.mode = "write", !.includeGenerated = TRUE],
   [Report0 EXCEPT !.mode = "write", !.baseline = FALSE]}

Runs == Permutations({W, R})

\* Two modules with one directory (two replacements of one checkout).
SharedModuleOf == [MCModuleOf EXCEPT ![RootTest].path = "fork"]
=============================================================================
