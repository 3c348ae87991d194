----------------------------- MODULE MCCaskTxn -----------------------------
(***************************************************************************)
(* From a's v1 to its v2 one file stays, one goes, one is new, and two of  *)
(* them are in the directory cask b deploys to as well.  a's v3 is a pkg   *)
(* with uninstall directives, one of which names b's file, and the zap     *)
(* directives of a's v2 name the whole directory.  b's v2 and v3 are       *)
(* refused: one wants to run code, the other is said to deploy nothing and *)
(* does.                                                                   *)
(***************************************************************************)
EXTENDS CaskTxn

MCDir == [p \in {"stays", "goes", "comes", "other"} |-> IF p = "stays" THEN "apps" ELSE "site"]

Artifact(kind, target) == [kind |-> kind, target |-> target]
MCArtifacts ==
    [k \in {"a", "b"} |->
        IF k = "a"
        THEN [v1 |-> <<Artifact("app", "stays"), Artifact("binary", "goes")>>,
              v2 |-> <<Artifact("app", "stays"), Artifact("artifact", "comes"),
                       Artifact("zap", "none")>>,
              v3 |-> <<Artifact("pkg", "none"), Artifact("uninstall", "none")>>]
        ELSE [v1 |-> <<Artifact("artifact", "other")>>,
              v2 |-> <<Artifact("preflight", "none"), Artifact("artifact", "other")>>,
              v3 |-> <<Artifact("stage_only", "none"), Artifact("artifact", "other")>>]]

Directive(do, on) == [do |-> do, on |-> on]
MCDirectives ==
    [k \in {"a", "b"} |-> [v \in {"v1", "v2", "v3"} |->
        [uninstall |->
            IF k = "a" /\ v = "v3"
            THEN << Directive("launchctl", <<"path", "goes">>),
                    Directive("rmdir", <<"dir", "apps">>),
                    Directive("delete", <<"path", "other">>) >>
            ELSE <<>>,
         zap |->
            IF k = "a" /\ v = "v2"
            THEN <<Directive("delete", <<"dir", "site">>), Directive("pkgutil", "none")>>
            ELSE <<>>]]]
=============================================================================
