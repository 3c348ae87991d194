------------------------------ MODULE LockFiles ------------------------------
(***************************************************************************)
(* The lock files under var/homebrew/locks and the commands that take      *)
(* them.  LockGuard::acquire opens a path, creating the file when it is    *)
(* missing, and then tries a lock on the inode it opened: two steps, so    *)
(* the name may meanwhile have come to mean another inode.  No command     *)
(* ever waits; a busy lock ends it.  `cleanup` removes lock files.         *)
(*                                                                         *)
(* Each process runs one command to its end.  A process may be killed at   *)
(* any point: the kernel closes its files, the lock files stay.            *)
(***************************************************************************)
EXTENDS Naturals, Sequences, SequencesExt, Loops

CONSTANTS
  Procs,
  FormulaFiles, CaskFiles, TapFiles,    \* the lock files, by what they guard
  Listing,          \* all of them, in path order
  Inodes, NoInode,
  Commands          \* the commands a process may be given

Names == FormulaFiles \cup CaskFiles \cup TapFiles

\* Files directly in the locks directory; tap locks live in subdirectories.
TopFiles == FormulaFiles \cup CaskFiles

Ops == {"install", "upgrade", "reinstall", "uninstall", "untap", "cleanup"}

ASSUME ProcsAssumption == Procs # {}
ASSUME NoInodeAssumption == NoInode \notin Inodes
\* A BTreeSet, or a Vec sorted before it is locked.
Sorted == [S \in SUBSET Names |-> Chosen(Listing, S)]
InOrder(S) == Sorted[S]

\* A formula's lock file ends in .formula.lock, a cask's in .cask.lock.
ASSUME FilesAssumption == TapFiles \cap TopFiles = {} /\ FormulaFiles \cap CaskFiles = {}
ASSUME ListingAssumption == Listing \in Seq(Names) /\ IsInjective(Listing)

\* `cleanup' locks the racks it works on.
ASSUME CommandsAssumption ==
  /\ Commands \subseteq [op : Ops, files : SUBSET Names]
  /\ \A c \in Commands : c.op = "cleanup" => c.files \subseteq FormulaFiles

VARIABLES
  entry,            \* entry[n]: the inode the path names, or NoInode
  lock,             \* lock[i][p]: the mode of p's lock on the inode
  guard,            \* guard[p][n]: the inode behind p's LockGuard for n
  opened,           \* opened[p]: opened and not yet locked
  command, pc, got, todo, result

fileVars == <<entry, lock, guard, opened>>
ctlVars == <<command, pc, got, todo, result>>
vars == <<fileVars, ctlVars>>

Modes == {"none", "shared", "exclusive"}
Compatible(a, b) == a = "none" \/ b = "none" \/ (a = "shared" /\ b = "shared")

MutWants(c) == IF c.op = "uninstall" THEN Reverse(InOrder(c.files)) ELSE InOrder(c.files)

(* The order in which a command locks.  Every command takes its shared tap
   locks, then its formulae, then its casks; `reinstall` has its cask locks
   before it prepares the formulae. *)
Wants(c) ==
  LET taps == InOrder(c.files \cap TapFiles)
      formulae == InOrder(c.files \cap FormulaFiles)
      casks == InOrder(c.files \cap CaskFiles)
  IN  IF c.op = "reinstall" THEN casks \o taps \o formulae
                            ELSE taps \o formulae \o casks

\* Installs and upgrades only read a tap; `tap` and `untap` write it.
ModeFor(c, n) ==
  IF n \in TapFiles /\ c.op # "untap" THEN "shared" ELSE "exclusive"

Guards(p) == {n \in Names : guard[p][n] # NoInode}

\* An inode with no name and no open descriptor.
Free == {i \in Inodes : /\ \A n \in Names : entry[n] # i
                        /\ \A p \in Procs : /\ opened[p] # i
                                            /\ \A n \in Names : guard[p][n] # i}

Init ==
  /\ entry = [n \in Names |-> NoInode]
  /\ lock = [i \in Inodes |-> [p \in Procs |-> "none"]]
  /\ guard = [p \in Procs |-> [n \in Names |-> NoInode]]
  /\ opened = [p \in Procs |-> NoInode]
  /\ command \in [Procs -> Commands]
  /\ pc = [p \in Procs |-> "idle"]
  /\ got = [p \in Procs |-> 0]
  /\ todo = [p \in Procs |-> <<>>]
  /\ result = [p \in Procs |-> "none"]
----------------------------------------------------------------------------
\* The name p wants next, and the mode in which it wants it.
Target(p) == IF pc[p] = "lock" THEN Wants(command[p])[got[p] + 1] ELSE Head(todo[p])
Mode(p) == ModeFor(command[p], Target(p))

\* open(O_CREAT): the inode the path names, or a new one.
Open(p) ==
  /\ opened[p] = NoInode
  /\ \/ /\ entry[Target(p)] # NoInode
        /\ opened' = [opened EXCEPT ![p] = entry[Target(p)]]
        /\ UNCHANGED entry
     \/ /\ entry[Target(p)] = NoInode
        /\ Free # {}
        /\ LET new == CHOOSE i \in Free : TRUE
           IN  /\ entry' = [entry EXCEPT ![Target(p)] = new]
               /\ opened' = [opened EXCEPT ![p] = new]
  /\ UNCHANGED <<lock, guard>>

MutContended(p) == \E q \in Procs \ {p} : lock[opened[p]][q] = "exclusive"

\* Another process holds the inode p has opened in a conflicting mode.
Contended(p) == \E q \in Procs \ {p} : ~Compatible(Mode(p), lock[opened[p]][q])

\* try_lock succeeds: the guard is the open file.
Lock(p) ==
  /\ opened[p] # NoInode
  /\ ~Contended(p)
  /\ lock' = [lock EXCEPT ![opened[p]][p] = Mode(p)]
  /\ guard' = [guard EXCEPT ![p][Target(p)] = opened[p]]
  /\ opened' = [opened EXCEPT ![p] = NoInode]
  /\ UNCHANGED entry

\* Closing a guard's file gives its lock up.
Drop(p, n) ==
  /\ lock' = [lock EXCEPT ![guard[p][n]][p] = "none"]
  /\ guard' = [guard EXCEPT ![p][n] = NoInode]

\* remove_file takes the path, whatever inode it names by now.
RemoveFile(n) == entry' = [entry EXCEPT ![n] = NoInode]

\* From here p only closes its files.
End(p, how) ==
  /\ pc' = [pc EXCEPT ![p] = "drop"]
  /\ result' = [result EXCEPT ![p] = how]
----------------------------------------------------------------------------
Start(p) ==
  /\ pc[p] = "idle"
  /\ pc' = [pc EXCEPT ![p] = "lock"]
  /\ UNCHANGED <<fileVars, command, got, todo, result>>

OpenNext(p) ==
  /\ pc[p] = "lock"
  /\ got[p] < Len(Wants(command[p]))
  /\ Open(p)
  /\ UNCHANGED ctlVars

LockNext(p) ==
  /\ pc[p] = "lock"
  /\ Lock(p)
  /\ got' = [got EXCEPT ![p] = @ + 1]
  /\ UNCHANGED <<command, pc, todo, result>>

MutRefused(p) == FALSE /\ UNCHANGED vars

\* LockBusy: the command fails and drops the guards it has.
Refused(p) ==
  /\ pc[p] = "lock"
  /\ opened[p] # NoInode
  /\ Contended(p)
  /\ opened' = [opened EXCEPT ![p] = NoInode]
  /\ End(p, "busy")
  /\ UNCHANGED <<entry, lock, guard, command, got, todo>>

AllLocked(p) ==
  /\ pc[p] = "lock"
  /\ got[p] = Len(Wants(command[p]))
  /\ pc' = [pc EXCEPT ![p] = "work"]
  /\ UNCHANGED <<fileVars, command, got, todo, result>>

\* The command's own work is done, well or not.
Finish(p) ==
  /\ pc[p] = "work"
  /\ command[p].op # "cleanup"
  /\ End(p, "ok")
  /\ UNCHANGED <<fileVars, command, got, todo>>

\* `cleanup` then removes the file of every lock it holds ...
StartUnlink(p) ==
  /\ pc[p] = "work"
  /\ command[p].op = "cleanup"
  /\ pc' = [pc EXCEPT ![p] = "unlink"]
  /\ todo' = [todo EXCEPT ![p] = InOrder(Guards(p))]
  /\ UNCHANGED <<fileVars, command, got, result>>

UnlinkGuard(p) ==
  /\ pc[p] = "unlink"
  /\ todo[p] # <<>>
  /\ RemoveFile(Head(todo[p]))
  /\ todo' = [todo EXCEPT ![p] = Tail(@)]
  /\ UNCHANGED <<lock, guard, opened, command, pc, got, result>>

UnlinkDone(p) ==
  /\ pc[p] = "unlink"
  /\ todo[p] = <<>>
  /\ End(p, "ok")
  /\ UNCHANGED <<fileVars, command, got, todo>>

DropGuard(p) ==
  /\ pc[p] = "drop"
  /\ \E n \in Guards(p) : Drop(p, n)
  /\ UNCHANGED <<entry, opened, ctlVars>>

\* ... drops them, and lists the directory for stale ones.
StartSweep(p) ==
  /\ pc[p] = "drop"
  /\ Guards(p) = {}
  /\ command[p].op = "cleanup" /\ result[p] = "ok"
  /\ pc' = [pc EXCEPT ![p] = "sweep"]
  /\ todo' = [todo EXCEPT ![p] = InOrder({n \in TopFiles : entry[n] # NoInode})]
  /\ UNCHANGED <<fileVars, command, got, result>>

\* A listed file that has gone by now is passed over.
SweepGone(p) ==
  /\ pc[p] = "sweep" /\ todo[p] # <<>>
  /\ opened[p] = NoInode /\ Guards(p) = {}
  /\ entry[Head(todo[p])] = NoInode
  /\ todo' = [todo EXCEPT ![p] = Tail(@)]
  /\ UNCHANGED <<fileVars, command, pc, got, result>>

SweepOpen(p) ==
  /\ pc[p] = "sweep" /\ todo[p] # <<>>
  /\ Guards(p) = {}
  /\ Open(p)
  /\ UNCHANGED ctlVars

SweepLock(p) ==
  /\ pc[p] = "sweep"
  /\ Lock(p)
  /\ UNCHANGED ctlVars

\* A busy lock is not stale.
SweepBusy(p) ==
  /\ pc[p] = "sweep"
  /\ opened[p] # NoInode
  /\ Contended(p)
  /\ opened' = [opened EXCEPT ![p] = NoInode]
  /\ todo' = [todo EXCEPT ![p] = Tail(@)]
  /\ UNCHANGED <<entry, lock, guard, command, pc, got, result>>

SweepRemove(p) ==
  /\ pc[p] = "sweep"
  /\ Guards(p) # {}
  /\ RemoveFile(Head(todo[p]))
  /\ pc' = [pc EXCEPT ![p] = "swept"]
  /\ UNCHANGED <<lock, guard, opened, command, got, todo, result>>

\* The guard is dropped at the end of the iteration, its file removed.
SweepNext(p) ==
  /\ pc[p] = "swept"
  /\ Drop(p, Head(todo[p]))
  /\ pc' = [pc EXCEPT ![p] = "sweep"]
  /\ todo' = [todo EXCEPT ![p] = Tail(@)]
  /\ UNCHANGED <<entry, opened, command, got, result>>

Exit(p) ==
  /\ \/ pc[p] = "sweep" /\ todo[p] = <<>>
     \/ /\ pc[p] = "drop" /\ Guards(p) = {}
        /\ ~(command[p].op = "cleanup" /\ result[p] = "ok")
  /\ pc' = [pc EXCEPT ![p] = "done"]
  /\ UNCHANGED <<fileVars, command, got, todo, result>>

\* Killed: the kernel closes the files one after the other.
Kill(p) ==
  /\ pc[p] \notin {"idle", "done"}
  /\ result[p] # "killed"
  /\ opened' = [opened EXCEPT ![p] = NoInode]
  /\ End(p, "killed")
  /\ UNCHANGED <<entry, lock, guard, command, got, todo>>

AllDone == (\A p \in Procs : pc[p] = "done") /\ UNCHANGED vars

Step(p) ==
  \/ OpenNext(p) \/ LockNext(p) \/ Refused(p) \/ AllLocked(p) \/ Finish(p)
  \/ StartUnlink(p) \/ UnlinkGuard(p) \/ UnlinkDone(p) \/ DropGuard(p)
  \/ StartSweep(p) \/ SweepGone(p) \/ SweepOpen(p) \/ SweepLock(p)
  \/ SweepBusy(p) \/ SweepRemove(p) \/ SweepNext(p) \/ Exit(p)

Next == (\E p \in Procs : Start(p) \/ Step(p) \/ Kill(p)) \/ AllDone

Spec == Init /\ [][Next]_vars

\* A started process is scheduled until it exits; no lock call blocks it.
FairSpec == Spec /\ \A p \in Procs : WF_vars(Step(p))
----------------------------------------------------------------------------
TypeOK ==
  /\ entry \in [Names -> Inodes \cup {NoInode}]
  /\ lock \in [Inodes -> [Procs -> Modes]]
  /\ guard \in [Procs -> [Names -> Inodes \cup {NoInode}]]
  /\ opened \in [Procs -> Inodes \cup {NoInode}]
  /\ command \in [Procs -> Commands]
  /\ pc \in [Procs -> {"idle", "lock", "work", "unlink", "drop", "sweep",
                       "swept", "done"}]
  /\ got \in [Procs -> 0 .. Len(Listing)]
  /\ todo \in [Procs -> Seq(Names)]
  /\ result \in [Procs -> {"none", "ok", "busy", "killed"}]

\* The mode in which p holds the name n.
Held(p, n) == IF guard[p][n] = NoInode THEN "none" ELSE lock[guard[p][n]][p]

(* No two processes hold the guards of one file of S in conflicting modes,
   whichever inodes their guards are on. *)
ExclusiveOn(S) ==
  \A n \in S, p, q \in Procs : p # q => Compatible(Held(p, n), Held(q, n))

(* path.rs 288-290: no lock can be acquired on a lock file "while an
   exclusive lock is held". *)
FormulaeExclusive == ExclusiveOn(FormulaFiles)

\* The files no process at work may delete: a tap's, and all of them while
\* nobody runs `cleanup`.
Kept ==
  IF \E p \in Procs : command[p].op = "cleanup" THEN TapFiles ELSE Names

(* Name by name, those lock files act as reader-writer locks: an acquired
   guard excludes every conflicting guard for that name until it is dropped
   (path.rs 291-330).  A tap's file is among them even while `cleanup' deletes
   lock files: what it deletes is never a tap's (cleanup.rs 804-835). *)
Seen(n, p) == IF n \in Kept THEN Held(p, n) ELSE "none"
HeldNames == [n \in Names |-> [p \in Procs |-> Seen(n, p)]]
RW == INSTANCE ReadersWriters WITH held <- HeldNames
ImplementsRW == RW!Spec

(* Commands that lock in one order cannot all refuse each other: of those
   that have run, one was not refused.  `reinstall' has an order of its own
   (transaction.rs 121-126). *)
SomeoneProceeds ==
  (\A p \in Procs : pc[p] = "done" /\ command[p].op # "reinstall")
     => \E p \in Procs : result[p] # "busy"

(* Whatever the locking orders, a started command comes to its end: a busy
   lock is an error, never a wait. *)
Terminates == \A p \in Procs : pc[p] # "idle" ~> pc[p] = "done"
=============================================================================
