---------------------------- MODULE MCRemovalTxn ----------------------------
(***************************************************************************)
(* Two formulae.  "a" has two versions; only the second links a file, at a *)
(* destination other formulae may take.                                    *)
(***************************************************************************)
EXTENDS RemovalTxn

MCOrder == <<"a", "b">>
MCKegs == {"a1", "a2", "b1"}
MCRacks == [f \in {"a", "b"} |-> IF f = "a" THEN <<"a1", "a2">> ELSE <<"b1">>]
MCShips == [k \in MCKegs |-> IF k = "a2" THEN {"bin"} ELSE {}]
MCFiles == {"bin"}
=============================================================================
