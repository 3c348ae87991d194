----------------------------- MODULE BulkRemoval -----------------------------
(***************************************************************************)
(* What removing kegs of several formulae promises, with no trash          *)
(* directory or journal in sight: the chosen kegs go together or stay      *)
(* together.  Only a removal that gives up and says so, or a killed one,   *)
(* may leave some of them, and it never removes any other keg.             *)
(***************************************************************************)
CONSTANT Kegs

VARIABLES
    installed,  \* kegs that are there
    doomed,     \* kegs the running removal was asked for
    outcome

removalVars == <<installed, doomed, outcome>>

RemovalInit == installed \subseteq Kegs /\ doomed = {} /\ outcome = "none"

Start ==
    /\ outcome \notin {"running", "committed"}
    /\ doomed' \subseteq installed
    /\ outcome' = "running" /\ UNCHANGED installed

Remove ==
    /\ outcome = "running"
    /\ installed' = installed \ doomed
    /\ outcome' = "committed" /\ UNCHANGED doomed

\* "cleanup": the kegs are gone from the rack, their trash could not be deleted.
Finish ==
    /\ outcome = "committed" /\ outcome' \in {"ok", "cleanup"}
    /\ UNCHANGED <<installed, doomed>>

Abort ==
    /\ outcome = "running" /\ outcome' = "failed"
    /\ UNCHANGED <<installed, doomed>>

GiveUp ==
    /\ outcome = "running" /\ outcome' \in {"incomplete", "crashed"}
    /\ installed' \subseteq installed /\ installed \ doomed \subseteq installed'
    /\ UNCHANGED doomed

CrashLate ==
    /\ outcome = "committed" /\ outcome' = "crashed"
    /\ UNCHANGED <<installed, doomed>>

RemovalNext == Start \/ Remove \/ Finish \/ Abort \/ GiveUp \/ CrashLate

RemovalSpec == RemovalInit /\ [][RemovalNext]_removalVars
=============================================================================
