----------------------------- MODULE RackUpdate -----------------------------
(***************************************************************************)
(* What one formula transaction promises about the kegs of a rack, with    *)
(* no staging directory, journal or rollback in sight: `rack' says which   *)
(* versions are installed and whether each is the keg that was there       *)
(* before or the one this transaction pours.  A transaction changes the    *)
(* rack in one step or not at all.  Only one that gives up and says so     *)
(* ("incomplete": RollbackIncomplete) or a killed process may leave the    *)
(* rack otherwise, and then only at the version being poured.              *)
(***************************************************************************)
CONSTANTS Versions, New

VARIABLES rack, result

rackVars == <<rack, result>>

Content == {"none", "old", "new", "torn"}

RackInit ==
    /\ rack \in [Versions -> {"none", "old"}]
    /\ result = "none"

\* A transaction starts: whatever is installed is, from here on, "old".
Start ==
    /\ result \notin {"running", "committed"}
    /\ rack' = [v \in Versions |-> IF rack[v] = "none" THEN "none" ELSE "old"]
    /\ result' = "running"

\* The commit point: the new keg takes its place, every other version is kept.
Commit ==
    /\ result = "running"
    /\ rack' = [rack EXCEPT ![New] = "new"]
    /\ result' = "committed"

\* The transaction is over; "cleanup" is CleanupIncomplete, after a commit.
Finish ==
    /\ result = "committed"
    /\ result' \in {"ok", "cleanup"}
    /\ UNCHANGED rack

\* It failed and was undone completely.
Abort ==
    /\ result = "running"
    /\ result' = "failed"
    /\ UNCHANGED rack

\* It failed and says that it could not be undone, or the process was killed.
GiveUp ==
    /\ result = "running"
    /\ result' \in {"incomplete", "crashed"}
    /\ \E c \in Content : rack' = [rack EXCEPT ![New] = c]

\* Killed after the commit point: nothing is lost.
CrashLate ==
    /\ result = "committed"
    /\ result' = "crashed"
    /\ UNCHANGED rack

RackNext == Start \/ Commit \/ Finish \/ Abort \/ GiveUp \/ CrashLate

RackSpec == RackInit /\ [][RackNext]_rackVars
=============================================================================
