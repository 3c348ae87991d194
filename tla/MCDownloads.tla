----------------------------- MODULE MCDownloads -----------------------------
(* Two clients that ask for the same artifact. *)
EXTENDS Downloads

MCBodies == <<"v1", "v2">>
Pair == {[kind |-> "artifact", want |-> "v2", force |-> FALSE, origins |-> 1]}
=============================================================================
