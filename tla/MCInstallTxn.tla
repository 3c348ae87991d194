---------------------------- MODULE MCInstallTxn ----------------------------
(***************************************************************************)
(* A formula with two versions.  Both ship a file at the destination they  *)
(* share (bin/tool), and the one being poured has one of its own.          *)
(***************************************************************************)
EXTENDS InstallTxn

MCVersions == {"v1", "v2"}
MCFiles == {"tool", "only2"}
MCShips == [v \in MCVersions |-> IF v = "v1" THEN {"tool"} ELSE {"tool", "only2"}]

\* The bounds of the run.  Alone, a transaction meets two failures, or one in it
\* and one in the run after it; beside processes of other formulae it meets one
\* and is not repeated, and its skeleton is there already.
Begins == runs' > runs
Bounded ==
    /\ Begins /\ runs = 1 => faults = 1 /\ ~input'.kegOnly
    /\ ~input'.alone => /\ runs' <= 1 /\ faults' <= 1
                        /\ Begins => conf["etc"] = "user"

MCSpec == Init /\ [][Next /\ Bounded]_vars

\* Bounded leaves Apply \/ RollBack a step without a fault wherever it had one.
FairMCSpec == MCSpec /\ WF_vars(Apply \/ RollBack)
=============================================================================
