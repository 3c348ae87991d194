--------------------------- MODULE ReadersWriters ---------------------------
(***************************************************************************)
(* What the lock files are for: on every name, any number of readers or    *)
(* one writer.  LockFiles, where a lock lives on an inode and a name is    *)
(* only a directory entry, is checked to implement this.                   *)
(***************************************************************************)
CONSTANTS Procs, Names

VARIABLE held       \* held[n][p]: the mode in which p holds n

Modes == {"none", "shared", "exclusive"}

\* Two modes that two processes may hold on one name at the same time.
Compatible(a, b) == a = "none" \/ b = "none" \/ (a = "shared" /\ b = "shared")

Init == held = [n \in Names |-> [p \in Procs |-> "none"]]

Acquire(p, n, mode) ==
  /\ held[n][p] = "none"
  /\ \A q \in Procs \ {p} : Compatible(mode, held[n][q])
  /\ held' = [held EXCEPT ![n][p] = mode]

Release(p, n) ==
  /\ held[n][p] # "none"
  /\ held' = [held EXCEPT ![n][p] = "none"]

Next == \E p \in Procs, n \in Names :
          \/ \E mode \in Modes \ {"none"} : Acquire(p, n, mode)
          \/ Release(p, n)

Spec == Init /\ [][Next]_held
=============================================================================
