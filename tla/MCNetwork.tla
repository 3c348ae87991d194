------------------------------ MODULE MCNetwork ------------------------------
(***************************************************************************)
(* The two halves of the cache directory that are filled from the network. *)
(* They share nothing, so a behaviour is about one of them.                *)
(*                                                                         *)
(* The catalog: two processes, a mirror and the default API domain, two    *)
(* versions.  A download: one client, two versions of a file of two        *)
(* chunks, two attempts per origin; a bottle may have a mirror and the     *)
(* origin of the catalog; an artifact has one, is asked for with or        *)
(* without a forced transfer.                                              *)
(***************************************************************************)
EXTENDS CatalogCache, Downloads, TLC

CONSTANTS a, b

VARIABLE part

Both == {a, b}
Interchangeable == Permutations(Both)
Mirrored == 1 .. 2

TwoBodies == <<"v1", "v2">>
Bottle(want, origins) == [kind |-> "bottle", want |-> want, force |-> FALSE, origins |-> origins]
Artifact(want, force) == [kind |-> "artifact", want |-> want, force |-> force, origins |-> 1]
Checksummed == {Bottle("v2", 2), Artifact("v2", FALSE), Artifact("v2", TRUE),
                Artifact("v1", FALSE)}

networkVars == <<part, vars, fetchVars>>

NetworkInit ==
    /\ Init /\ FetchInit
    /\ \/ part = "catalog" /\ alias = "ours" /\ served = [o \in 1 .. 2 |-> "v1"]
          /\ entry = [n \in Names |-> 0]
       \/ part = "download" /\ cache = [body |-> Absent, mtime |-> 0]

NetworkNext ==
    /\ UNCHANGED part
    /\ \/ part = "catalog" /\ Next /\ UNCHANGED fetchVars
       \/ part = "download" /\ FetchNext /\ UNCHANGED vars

NetworkSpec == NetworkInit /\ [][NetworkNext]_networkVars
=============================================================================
