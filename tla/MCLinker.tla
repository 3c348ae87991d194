------------------------------ MODULE MCLinker ------------------------------
(***************************************************************************)
(* Three formulae: `app' with two versions, a keg-only `alt' of its family *)
(* that ships the same framework as the second, and `lib', which           *)
(* shares a directory with the first and with `alt'.  Aliases, which no    *)
(* property here tells apart, are left to the proofs.                      *)
(***************************************************************************)
EXTENDS Linker

MCFormulae == {"app", "alt", "lib"}
MCVersionsOf == [f \in MCFormulae |->
    CASE f = "app" -> <<"app1", "app2">> [] f = "alt" -> <<"alt1">> [] OTHER -> <<"lib1">>]
MCOrder == <<
    <<"bin">>, <<"bin", "tool">>,
    <<"share">>, <<"share", "aux">>, <<"share", "aux", ".DS_Store">>, <<"share", "aux", "data">>,
    <<"share", "aux", "more">>,
    <<"share", "man">>, <<"share", "man", "x">>,
    <<"Frameworks">>, <<"Frameworks", "F">> >>
Files(paths) == [p \in paths |-> "file"]
Dirs(paths) == [p \in paths |-> "dir"]
MCTree == [k \in {"app1", "app2", "alt1", "lib1"} |->
    CASE k = "app1" -> Dirs({<<"share">>, <<"share", "aux">>}) @@ Files({<<"share", "aux", "data">>})
      [] k = "app2" -> Dirs({<<"Frameworks">>}) @@ Files({<<"Frameworks", "F">>})
      [] k = "alt1" ->
            Dirs({<<"bin">>, <<"share">>, <<"share", "aux">>, <<"Frameworks">>})
            @@ Files({<<"bin", "tool">>, <<"Frameworks", "F">>})
      [] OTHER ->
            Dirs({<<"share">>, <<"share", "aux">>, <<"share", "man">>})
            @@ Files({<<"share", "aux", ".DS_Store">>, <<"share", "aux", "more">>})
            @@ <<"share", "man", "x">> :> "broken"]
MCUserTrees == {<<"share", "aux">> :> RealDir, <<"bin", "tool">> :> Outside}
MCFamily == [f \in MCFormulae |-> CASE f = "app" -> <<"alt">> [] f = "alt" -> <<"app">> [] OTHER -> <<>>]
MCAliasesOf == [f \in MCFormulae |-> {}]
=============================================================================
