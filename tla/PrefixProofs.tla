----------------------------- MODULE PrefixProofs -----------------------------
(***************************************************************************)
(* What the prefix keeps for any number of users: its lock files, and the  *)
(* files that were there before its links.                                 *)
(*                                                                         *)
(* LockFiles: for any number of processes and files, the lock files that   *)
(* nobody may delete are, name by name, reader-writer locks; and processes *)
(* that lock in one order cannot all refuse each other.  A lock lives on   *)
(* an inode, a guard is for a name.  The invariant says when the two       *)
(* agree: an inode has at most one name, nobody reaches it under another,  *)
(* and the guards of a kept name are all on its inode, in the mode the     *)
(* command asked for.  Deleting a name breaks the last part, which is why  *)
(* only the kept names are in the theorems.                                *)
(*                                                                         *)
(* Linker: for any formulae, kegs, trees and prefix, no sequence of        *)
(* commands loses a file of the user, and the records and the prefix agree *)
(* both ways.  A plan is made on the disk as it is and carried out on the  *)
(* disk as the plan changes it: the invariant of its loop says what of it  *)
(* is still true (Pending), and what is linked by now (PlacedBy).          *)
(***************************************************************************)
EXTENDS LockFiles, Linker, LoopsProofs, SequenceTheorems, TLAPS

FileTypes ==
  /\ entry \in [Names -> Inodes \cup {NoInode}]
  /\ lock \in [Inodes -> [Procs -> Modes]]
  /\ guard \in [Procs -> [Names -> Inodes \cup {NoInode}]]
  /\ opened \in [Procs -> Inodes \cup {NoInode}]

ControlTypes ==
  /\ command \in [Procs -> Commands]
  /\ pc \in [Procs -> {"idle", "lock", "work", "unlink", "drop", "sweep", "swept", "done"}]
  /\ got \in [Procs -> Nat]
  /\ todo \in [Procs -> Seq(Names)]

\* When a process has a file open and not locked, what it may delete and which
\* guards it has then.
Placed(p) ==
  /\ opened[p] # NoInode =>
       \/ pc[p] = "lock" /\ got[p] < Len(Wants(command[p]))
       \/ pc[p] = "sweep" /\ todo[p] # <<>> /\ Guards(p) = {}
  /\ pc[p] \in {"unlink", "sweep", "swept"} =>
       command[p].op = "cleanup" /\ todo[p] \in Seq(TopFiles)
  /\ pc[p] = "sweep" /\ Guards(p) # {} => todo[p] # <<>> /\ Guards(p) = {Head(todo[p])}
  /\ pc[p] = "swept" => todo[p] # <<>> /\ Guards(p) = {Head(todo[p])}
  /\ command[p].op = "cleanup" => Guards(p) \cap TapFiles = {}

\* An inode has one name, and is reached by no other.
Named ==
  /\ \A m, n \in Names : entry[m] = entry[n] /\ entry[n] # NoInode => m = n
  /\ \A p \in Procs, m, n \in Names : guard[p][m] = entry[n] /\ entry[n] # NoInode => m = n
  /\ \A p \in Procs, n \in Names : opened[p] = entry[n] /\ entry[n] # NoInode => Target(p) = n

\* What is open or locked under a kept name is its inode.
KeptGuards ==
  \A p \in Procs, n \in Kept :
     /\ guard[p][n] # NoInode =>
          guard[p][n] = entry[n] /\ lock[entry[n]][p] = ModeFor(command[p], n)
     /\ opened[p] # NoInode /\ Target(p) = n => opened[p] = entry[n]

\* flock on one inode.
Exclusion ==
  \A i \in Inodes, p, q \in Procs : p # q => Compatible(lock[i][p], lock[i][q])

FileInv == FileTypes /\ Named /\ KeptGuards /\ Exclusion
LockInv == FileInv /\ ControlTypes /\ \A p \in Procs : Placed(p)

-----------------------------------------------------------------------------
\* A command locks only files it was given.
LEMMA WantsGiven == ASSUME NEW c \in Commands PROVE Wants(c) \in Seq(c.files)
<1>1. c.files \subseteq Names
  BY CommandsAssumption
<1>2. \A S \in SUBSET Names : InOrder(S) \in Seq(S)
  BY ListingAssumption, ChosenKind DEF InOrder, Sorted
<1>3. ASSUME NEW S \in SUBSET Names PROVE InOrder(c.files \cap S) \in Seq(c.files)
  <2>1. InOrder(c.files \cap S) \in Seq(c.files \cap S)
    BY <1>2
  <2>2. Seq(c.files \cap S) \subseteq Seq(c.files)
    BY SeqMonotonic
  <2> QED
    BY <2>1, <2>2
<1>4. /\ InOrder(c.files \cap TapFiles) \in Seq(c.files)
      /\ InOrder(c.files \cap FormulaFiles) \in Seq(c.files)
      /\ InOrder(c.files \cap CaskFiles) \in Seq(c.files)
  BY <1>3 DEF Names
<1>5. \A r, s, t \in Seq(c.files) : r \o s \o t \in Seq(c.files)
  BY ConcatProperties
<1> QED
  BY <1>4, <1>5, Zenon DEF Wants

\* What a process is about to open or lock has a name, and never is a tap's when
\* the process is a cleanup.
LEMMA TargetNamed ==
  ASSUME ControlTypes, NEW p \in Procs, Placed(p),
         \/ opened[p] # NoInode
         \/ pc[p] = "lock" /\ got[p] < Len(Wants(command[p]))
         \/ pc[p] = "sweep" /\ todo[p] # <<>>
  PROVE  Target(p) \in Names /\ (command[p].op = "cleanup" => Target(p) \notin TapFiles)
<1>1. command[p] \in Commands /\ command[p].files \subseteq Names
  BY CommandsAssumption DEF ControlTypes
<1>2. CASE pc[p] = "lock" /\ got[p] < Len(Wants(command[p]))
  <2>1. Wants(command[p]) \in Seq(command[p].files)
    BY <1>1, WantsGiven
  <2>2. Target(p) \in command[p].files
    BY <1>2, <2>1 DEF Target, ControlTypes
  <2> QED
    BY <1>1, <2>2, CommandsAssumption, FilesAssumption DEF TopFiles
<1>3. CASE pc[p] = "sweep" /\ todo[p] # <<>>
  <2>1. Head(todo[p]) \in TopFiles
    BY <1>3 DEF Placed
  <2> QED
    BY <1>3, <2>1, FilesAssumption DEF Target, TopFiles, Names
<1> QED
  BY <1>2, <1>3 DEF Placed

\* A name that a cleanup deletes is not a kept one.
LEMMA NotKept ==
  ASSUME NEW p \in Procs, command[p].op = "cleanup", NEW n \in TopFiles
  PROVE  n \notin Kept
BY FilesAssumption DEF Kept

LEMMA ModesOfCommands == \A c, n : ModeFor(c, n) \in {"shared", "exclusive"}
BY DEF ModeFor

LEMMA KeptAreNames == Kept \subseteq Names
BY DEF Kept, Names

LEMMA InitInv == Init => LockInv
<1> SUFFICES ASSUME Init PROVE LockInv
  OBVIOUS
<1>1. FileTypes /\ ControlTypes
  BY DEF Init, FileTypes, ControlTypes, Modes
<1>2. Named /\ KeptGuards /\ Exclusion
  BY KeptAreNames DEF Init, Named, KeptGuards, Exclusion, Compatible
<1>3. \A p \in Procs : Placed(p)
  BY DEF Init, Placed, Guards
<1> QED
  BY <1>1, <1>2, <1>3 DEF LockInv, FileInv

-----------------------------------------------------------------------------
(* What each kind of step does to the files.                               *)

\* No step changes commands, and only p's own control state.
Alone(p) ==
  /\ command' = command
  /\ \A q \in Procs \ {p} : pc'[q] = pc[q] /\ got'[q] = got[q] /\ todo'[q] = todo[q]

LEMMA OtherTargets ==
  ASSUME NEW p \in Procs, Alone(p), NEW q \in Procs, q # p PROVE Target(q)' = Target(q)
BY DEF Alone, Target

LEMMA KeptStays == ASSUME command' = command PROVE Kept' = Kept
BY DEF Kept

\* p at most closes the file it had opened.
Quiet(p) ==
  /\ Alone(p) /\ UNCHANGED <<entry, lock, guard>>
  /\ \/ opened' = [opened EXCEPT ![p] = NoInode]
     \/ opened' = opened /\ (Target(p)' = Target(p) \/ opened[p] = NoInode)

LEMMA QuietFiles == ASSUME FileInv, NEW p \in Procs, Quiet(p) PROVE FileInv'
<1>1. FileTypes /\ FileTypes'
  BY DEF FileInv, FileTypes, Quiet
<1>2. \A q \in Procs : opened'[q] # NoInode => opened'[q] = opened[q] /\ Target(q)' = Target(q)
  <2> SUFFICES ASSUME NEW q \in Procs, opened'[q] # NoInode
               PROVE  opened'[q] = opened[q] /\ Target(q)' = Target(q)
    OBVIOUS
  <2>1. opened'[q] = opened[q]
    BY <1>1 DEF Quiet, FileTypes
  <2>2. CASE q = p
    BY <1>1, <2>2 DEF Quiet, FileTypes
  <2>3. CASE q # p
    BY <2>1, <2>3, OtherTargets DEF Quiet
  <2> QED
    BY <2>1, <2>2, <2>3
<1>3. Named'
  BY <1>1, <1>2 DEF FileInv, Named, Quiet
<1>4. Kept' = Kept /\ command' = command
  BY KeptStays DEF Quiet, Alone
<1>5. KeptGuards'
  BY <1>2, <1>4 DEF FileInv, KeptGuards, Quiet
<1>6. Exclusion'
  BY DEF FileInv, Exclusion, Quiet
<1> QED
  BY <1>1, <1>3, <1>5, <1>6 DEF FileInv

LEMMA OpenFiles ==
  ASSUME FileInv, NEW p \in Procs, Alone(p), Open(p), Target(p) \in Names,
         Target(p)' = Target(p)
  PROVE  FileInv'
<1>1. FileTypes
  BY DEF FileInv
<1>2. \A q \in Procs : Target(q)' = Target(q)
  BY OtherTargets
<1>3. Kept' = Kept /\ command' = command /\ Kept \subseteq Names
  BY KeptStays, KeptAreNames DEF Alone
<1>4. lock' = lock /\ guard' = guard
  BY DEF Open
<1>5. Exclusion'
  BY <1>4 DEF FileInv, Exclusion
<1>6. CASE /\ entry[Target(p)] # NoInode /\ entry' = entry
           /\ opened' = [opened EXCEPT ![p] = entry[Target(p)]]
  <2>1. FileTypes'
    BY <1>1, <1>4, <1>6 DEF FileTypes
  <2>2. Named'
    BY <1>1, <1>2, <1>4, <1>6 DEF FileInv, Named, FileTypes
  <2>3. KeptGuards'
    BY <1>1, <1>2, <1>3, <1>4, <1>6 DEF FileInv, KeptGuards, FileTypes
  <2> QED
    BY <1>5, <2>1, <2>2, <2>3 DEF FileInv
<1>7. ASSUME NEW i \in Free, entry[Target(p)] = NoInode,
             entry' = [entry EXCEPT ![Target(p)] = i], opened' = [opened EXCEPT ![p] = i]
      PROVE  FileInv'
  <2>1. /\ i \in Inodes /\ i # NoInode
        /\ \A n \in Names : entry[n] # i
        /\ \A q \in Procs : opened[q] # i /\ \A n \in Names : guard[q][n] # i
    BY <1>7, NoInodeAssumption DEF Free
  <2>2. FileTypes'
    BY <1>1, <1>4, <1>7, <2>1 DEF FileTypes
  <2>3. Named'
    BY <1>1, <1>2, <1>4, <1>7, <2>1 DEF FileInv, Named, FileTypes
  <2>4. ASSUME NEW q \in Procs, NEW n \in Kept
        PROVE /\ guard'[q][n] # NoInode => guard'[q][n] = entry'[n]
                                           /\ lock'[entry'[n]][q] = ModeFor(command'[q], n)
              /\ opened'[q] # NoInode /\ Target(q)' = n => opened'[q] = entry'[n]
    <3>1. n \in Names
      BY <1>3
    <3>2. CASE n = Target(p)
      <4>1. guard[q][n] = NoInode
        BY <1>7, <3>2 DEF FileInv, KeptGuards
      <4>2. q # p => opened[q] = NoInode \/ Target(q) # n
        BY <1>7, <3>2 DEF FileInv, KeptGuards
      <4> QED
        BY <1>1, <1>2, <1>4, <1>7, <3>1, <3>2, <4>1, <4>2 DEF FileTypes
    <3>3. CASE n # Target(p)
      BY <1>1, <1>2, <1>3, <1>4, <1>7, <3>1, <3>3 DEF FileInv, KeptGuards, FileTypes
    <3> QED
      BY <3>2, <3>3
  <2>5. KeptGuards'
    BY <1>3, <2>4 DEF KeptGuards
  <2> QED
    BY <1>5, <2>2, <2>3, <2>5 DEF FileInv
<1>8. Free # {} => (CHOOSE i \in Free : TRUE) \in Free
  OBVIOUS
<1> QED
  BY <1>6, <1>7, <1>8 DEF Open

LEMMA LockedFiles ==
  ASSUME FileInv, NEW p \in Procs, Alone(p), Lock(p), Target(p) \in Names PROVE FileInv'
<1> DEFINE i == opened[p]
           T == Target(p)
<1>1. FileTypes /\ i \in Inodes /\ Mode(p) \in Modes
  BY ModesOfCommands DEF FileInv, FileTypes, Lock, Mode, Modes
<1>2. /\ lock' = [lock EXCEPT ![i][p] = Mode(p)]
      /\ guard' = [guard EXCEPT ![p][T] = i]
      /\ opened' = [opened EXCEPT ![p] = NoInode] /\ entry' = entry
      /\ \A q \in Procs \ {p} : Compatible(Mode(p), lock[i][q])
  BY DEF Lock, Contended
<1>3. FileTypes'
  BY <1>1, <1>2 DEF FileTypes
<1>4. \A q \in Procs : q # p => Target(q)' = Target(q)
  BY OtherTargets
<1>5. \A n \in Names : i = entry[n] => n = T
  BY <1>1, NoInodeAssumption DEF FileInv, Named
<1>6. Named'
  BY <1>1, <1>2, <1>4, <1>5 DEF FileInv, Named, FileTypes
<1>7. Kept' = Kept /\ command' = command /\ Kept \subseteq Names
  BY KeptStays, KeptAreNames DEF Alone
<1>8. ASSUME NEW q \in Procs, NEW n \in Kept
      PROVE /\ guard'[q][n] # NoInode => guard'[q][n] = entry'[n]
                                         /\ lock'[entry'[n]][q] = ModeFor(command'[q], n)
            /\ opened'[q] # NoInode /\ Target(q)' = n => opened'[q] = entry'[n]
  <2>1. n \in Names
    BY <1>7
  <2>2. CASE q # p
    BY <1>1, <1>2, <1>4, <1>7, <2>1, <2>2 DEF FileInv, KeptGuards, FileTypes
  <2>3. CASE q = p /\ n = T
    <3>1. i = entry[n]
      BY <1>1, <2>3, NoInodeAssumption DEF FileInv, KeptGuards
    <3> QED
      BY <1>1, <1>2, <1>7, <2>1, <2>3, <3>1 DEF FileTypes, Mode
  <2>4. CASE q = p /\ n # T
    <3>1. i # entry[n]
      BY <1>5, <2>1, <2>4
    <3>2. guard[p][n] # NoInode => guard[p][n] = entry[n]
                                   /\ lock[entry[n]][p] = ModeFor(command[p], n)
      BY DEF FileInv, KeptGuards
    <3>3. guard'[p][n] = guard[p][n] /\ opened'[p] = NoInode /\ lock'[entry[n]] = lock[entry[n]]
      BY <1>1, <1>2, <2>1, <2>4, <3>1 DEF FileTypes
    <3> QED
      BY <1>2, <1>7, <2>4, <3>2, <3>3
  <2> QED
    BY <2>2, <2>3, <2>4
<1>9. KeptGuards'
  BY <1>7, <1>8 DEF KeptGuards
<1>10. Exclusion'
  <2> SUFFICES ASSUME NEW j \in Inodes, NEW q \in Procs, NEW r \in Procs, q # r
               PROVE  Compatible(lock'[j][q], lock'[j][r])
    BY DEF Exclusion
  <2>1. Compatible(lock[j][q], lock[j][r])
    BY DEF FileInv, Exclusion
  <2>2. CASE j = i /\ q = p
    <3>1. lock'[j][q] = Mode(p) /\ lock'[j][r] = lock[j][r]
      BY <1>1, <1>2, <2>2 DEF FileTypes
    <3> QED
      BY <1>2, <2>2, <3>1
  <2>3. CASE j = i /\ r = p
    <3>1. lock'[j][r] = Mode(p) /\ lock'[j][q] = lock[j][q]
      BY <1>1, <1>2, <2>3 DEF FileTypes
    <3> QED
      BY <1>2, <2>3, <3>1 DEF Compatible
  <2>4. CASE j # i \/ (q # p /\ r # p)
    <3>1. lock'[j][q] = lock[j][q] /\ lock'[j][r] = lock[j][r]
      BY <1>1, <1>2, <2>4 DEF FileTypes
    <3> QED
      BY <2>1, <3>1
  <2> QED
    BY <2>2, <2>3, <2>4
<1> QED
  BY <1>3, <1>6, <1>9, <1>10 DEF FileInv

LEMMA DroppedFiles ==
  ASSUME FileInv, NEW p \in Procs, Alone(p), NEW n \in Names, Drop(p, n),
         entry' = entry, opened' = opened, Target(p)' = Target(p) \/ opened[p] = NoInode
  PROVE  FileInv'
<1>1. FileTypes
  BY DEF FileInv
<1>2. /\ lock' = [lock EXCEPT ![guard[p][n]][p] = "none"]
      /\ guard' = [guard EXCEPT ![p][n] = NoInode]
  BY DEF Drop
<1>3. FileTypes'
  BY <1>1, <1>2 DEF FileTypes, Modes
<1>4. \A q \in Procs : q # p => Target(q)' = Target(q)
  BY OtherTargets
<1>5. Named'
  BY <1>1, <1>2, <1>4 DEF FileInv, Named, FileTypes
<1>6. Kept' = Kept /\ command' = command /\ Kept \subseteq Names
  BY KeptStays, KeptAreNames DEF Alone
<1>7. ASSUME NEW q \in Procs, NEW m \in Kept
      PROVE /\ guard'[q][m] # NoInode => guard'[q][m] = entry'[m]
                                         /\ lock'[entry'[m]][q] = ModeFor(command'[q], m)
            /\ opened'[q] # NoInode /\ Target(q)' = m => opened'[q] = entry'[m]
  <2>1. m \in Names
    BY <1>6
  <2>2. /\ guard[q][m] # NoInode => guard[q][m] = entry[m]
                                    /\ lock[entry[m]][q] = ModeFor(command[q], m)
        /\ opened'[q] # NoInode /\ Target(q)' = m => opened'[q] = entry'[m]
    BY <1>4 DEF FileInv, KeptGuards
  <2>3. CASE q # p
    BY <1>1, <1>2, <1>6, <2>1, <2>2, <2>3 DEF FileTypes
  <2>4. CASE q = p /\ m = n
    BY <1>1, <1>2, <2>1, <2>2, <2>4 DEF FileTypes
  <2>5. CASE q = p /\ m # n
    <3>1. entry[m] # NoInode => guard[p][n] # entry[m]
      BY <2>1, <2>5 DEF FileInv, Named
    <3>2. guard'[p][m] = guard[p][m]
      BY <1>1, <1>2, <2>1, <2>5 DEF FileTypes
    <3>3. entry[m] # NoInode => lock'[entry[m]] = lock[entry[m]]
      BY <1>1, <1>2, <2>1, <3>1 DEF FileTypes
    <3> QED
      BY <1>6, <2>2, <2>5, <3>2, <3>3
  <2> QED
    BY <2>3, <2>4, <2>5
<1>8. KeptGuards'
  BY <1>6, <1>7 DEF KeptGuards
<1>9. Exclusion'
  <2>1. \A j \in Inodes, q \in Procs : lock'[j][q] \in {lock[j][q], "none"}
    BY <1>1, <1>2 DEF FileTypes
  <2> QED
    BY <2>1 DEF FileInv, Exclusion, Compatible
<1> QED
  BY <1>3, <1>5, <1>8, <1>9 DEF FileInv

LEMMA RemovedFiles ==
  ASSUME FileInv, NEW p \in Procs, Alone(p), NEW n \in Names \ Kept, RemoveFile(n),
         lock' = lock, guard' = guard, opened' = opened,
         Target(p)' = Target(p) \/ opened[p] = NoInode
  PROVE  FileInv'
<1>1. FileTypes /\ entry' = [entry EXCEPT ![n] = NoInode]
  BY DEF FileInv, RemoveFile
<1>2. \A q \in Procs : Target(q)' = Target(q) \/ opened[q] = NoInode
  BY OtherTargets
<1>3. FileTypes' /\ Named'
  BY <1>1, <1>2 DEF FileInv, FileTypes, Named
<1>4. Kept' = Kept /\ command' = command /\ Kept \subseteq Names
  BY KeptStays, KeptAreNames DEF Alone
<1>5. KeptGuards'
  BY <1>1, <1>2, <1>4 DEF FileInv, KeptGuards, FileTypes
<1>6. Exclusion'
  BY DEF FileInv, Exclusion
<1> QED
  BY <1>3, <1>5, <1>6 DEF FileInv

-----------------------------------------------------------------------------
(* The steps.                                                              *)

\* Each process has its own open files and guards.
OwnFiles(p) == \A q \in Procs \ {p} : guard'[q] = guard[q] /\ opened'[q] = opened[q]

LEMMA StepKeeps ==
  ASSUME LockInv, NEW p \in Procs, Alone(p), OwnFiles(p), FileInv', ControlTypes', Placed(p)'
  PROVE  LockInv'
<1>1. ASSUME NEW q \in Procs, q # p PROVE Placed(q)'
  <2>1. /\ pc'[q] = pc[q] /\ got'[q] = got[q] /\ todo'[q] = todo[q] /\ command' = command
        /\ opened'[q] = opened[q] /\ Guards(q)' = Guards(q)
    BY <1>1 DEF Alone, OwnFiles, Guards
  <2>2. Placed(q)
    BY DEF LockInv
  <2> QED
    BY <2>1, <2>2 DEF Placed
<1> QED
  BY <1>1 DEF LockInv

\* A quiet step to another place.
LEMMA MoveKeeps ==
  ASSUME LockInv, NEW p \in Procs,
         NEW to \in {"lock", "work", "drop", "done"}, pc' = [pc EXCEPT ![p] = to],
         UNCHANGED <<entry, lock, guard, command, got, todo>>,
         opened' = [opened EXCEPT ![p] = NoInode]
  PROVE  LockInv'
<1>1. FileTypes /\ ControlTypes /\ Placed(p)
  BY DEF LockInv, FileInv
<1>2. Alone(p) /\ OwnFiles(p) /\ ControlTypes'
  BY <1>1 DEF Alone, OwnFiles, ControlTypes, FileTypes
<1>3. FileInv'
  BY <1>2, QuietFiles DEF LockInv, Quiet
<1>4. opened'[p] = NoInode /\ pc'[p] = to /\ Guards(p)' = Guards(p)
  BY <1>1 DEF FileTypes, ControlTypes, Guards
<1>5. Placed(p)'
  BY <1>1, <1>4 DEF Placed
<1> QED
  BY <1>2, <1>3, <1>5, StepKeeps

LEMMA ClosedStays ==
  ASSUME FileTypes, NEW p \in Procs, opened[p] = NoInode, opened' = opened
  PROVE  opened' = [opened EXCEPT ![p] = NoInode]
BY DEF FileTypes

LEMMA MovesKeep ==
  ASSUME LockInv, NEW p \in Procs,
         \/ Start(p) \/ Refused(p) \/ AllLocked(p) \/ Finish(p) \/ UnlinkDone(p) \/ Exit(p)
         \/ Kill(p)
  PROVE  LockInv'
<1>1. FileTypes /\ ControlTypes /\ Placed(p)
  BY DEF LockInv, FileInv
<1>2. CASE Start(p)
  <2>1. opened[p] = NoInode
    BY <1>1, <1>2 DEF Start, Placed
  <2> QED
    BY <1>1, <1>2, <2>1, ClosedStays, MoveKeeps DEF Start, fileVars
<1>3. CASE Refused(p)
  BY <1>3, MoveKeeps DEF Refused, End
<1>4. CASE AllLocked(p)
  <2>1. ~(got[p] < Len(Wants(command[p])))
    <3>1. got[p] \in Nat
      BY <1>1 DEF ControlTypes
    <3> QED
      BY <1>4, <3>1 DEF AllLocked
  <2>2. opened[p] = NoInode
    BY <1>1, <1>4, <2>1 DEF AllLocked, Placed
  <2> QED
    BY <1>1, <1>4, <2>2, ClosedStays, MoveKeeps DEF AllLocked, fileVars
<1>5. CASE Finish(p) \/ UnlinkDone(p)
  <2>1. opened[p] = NoInode
    BY <1>1, <1>5 DEF Finish, UnlinkDone, Placed
  <2> QED
    BY <1>1, <1>5, <2>1, ClosedStays, MoveKeeps DEF Finish, UnlinkDone, End, fileVars
<1>6. CASE Exit(p)
  <2>1. opened[p] = NoInode
    BY <1>1, <1>6 DEF Exit, Placed
  <2> QED
    BY <1>1, <1>6, <2>1, ClosedStays, MoveKeeps DEF Exit, fileVars
<1>7. CASE Kill(p)
  BY <1>7, MoveKeeps DEF Kill, End
<1> QED
  BY <1>2, <1>3, <1>4, <1>5, <1>6, <1>7

LEMMA OpensKeep ==
  ASSUME LockInv, NEW p \in Procs, OpenNext(p) \/ SweepOpen(p) PROVE LockInv'
<1>1. FileInv /\ FileTypes /\ ControlTypes /\ Placed(p)
  BY DEF LockInv, FileInv
<1>2. Open(p) /\ UNCHANGED ctlVars /\ Alone(p) /\ ControlTypes'
  BY <1>1 DEF OpenNext, SweepOpen, ctlVars, Alone, ControlTypes
<1>3. Target(p) \in Names /\ Target(p)' = Target(p)
  BY <1>1, <1>2, TargetNamed DEF OpenNext, SweepOpen, ctlVars, Target
<1>4. FileInv'
  BY <1>1, <1>2, <1>3, OpenFiles
<1>5. OwnFiles(p) /\ Guards(p)' = Guards(p)
  BY <1>1, <1>2 DEF Open, OwnFiles, FileTypes, Guards
<1>6. Placed(p)'
  BY <1>1, <1>2, <1>5 DEF Placed, OpenNext, SweepOpen, ctlVars
<1> QED
  BY <1>2, <1>4, <1>5, <1>6, StepKeeps

LEMMA LocksKeep ==
  ASSUME LockInv, NEW p \in Procs, LockNext(p) \/ SweepLock(p) PROVE LockInv'
<1>1. FileInv /\ FileTypes /\ ControlTypes /\ Placed(p)
  BY DEF LockInv, FileInv
<1>2. /\ Lock(p) /\ opened[p] # NoInode /\ command' = command /\ pc' = pc /\ todo' = todo
      /\ got' = got \/ got' = [got EXCEPT ![p] = @ + 1]
  BY DEF LockNext, SweepLock, ctlVars, Lock
<1>3. Alone(p) /\ ControlTypes'
  <2>1. got \in [Procs -> Nat]
    BY <1>1 DEF ControlTypes
  <2>2. got' \in [Procs -> Nat] /\ \A q \in Procs \ {p} : got'[q] = got[q]
    BY <1>2, <2>1
  <2> QED
    BY <1>1, <1>2, <2>2 DEF Alone, ControlTypes
<1>4. Target(p) \in Names /\ (command[p].op = "cleanup" => Target(p) \notin TapFiles)
  BY <1>1, <1>2, TargetNamed
<1>5. FileInv'
  BY <1>1, <1>2, <1>3, <1>4, LockedFiles
<1>6. /\ OwnFiles(p) /\ opened'[p] = NoInode
      /\ Guards(p)' = Guards(p) \cup {Target(p)}
  BY <1>1, <1>2, <1>4, NoInodeAssumption DEF Lock, OwnFiles, FileTypes, Guards
<1>7. pc[p] = "sweep" => todo[p] # <<>> /\ Guards(p) = {} /\ Target(p) = Head(todo[p])
  BY <1>1, <1>2 DEF Placed, Target
<1>8. pc[p] \in {"lock", "sweep"}
  BY DEF LockNext, SweepLock
<1>9. Placed(p)'
  BY <1>1, <1>2, <1>4, <1>6, <1>7, <1>8 DEF Placed
<1> QED
  BY <1>3, <1>5, <1>6, <1>9, StepKeeps

LEMMA DropKeeps == ASSUME LockInv, NEW p \in Procs, DropGuard(p) PROVE LockInv'
<1>1. FileInv /\ FileTypes /\ ControlTypes /\ Placed(p)
  BY DEF LockInv, FileInv
<1>2. PICK n \in Names : Drop(p, n)
  BY DEF DropGuard, Guards
<1>3. /\ pc[p] = "drop" /\ UNCHANGED ctlVars /\ entry' = entry /\ opened' = opened
      /\ Alone(p) /\ ControlTypes'
  BY <1>1 DEF DropGuard, ctlVars, Alone, ControlTypes
<1>4. Target(p)' = Target(p)
  BY <1>3 DEF Target, ctlVars
<1>5. FileInv'
  BY <1>1, <1>2, <1>3, <1>4, DroppedFiles
<1>6. OwnFiles(p) /\ Guards(p)' \subseteq Guards(p)
  BY <1>1, <1>2, <1>3 DEF Drop, OwnFiles, FileTypes, Guards
<1>7. Placed(p)'
  BY <1>1, <1>3, <1>6 DEF Placed, ctlVars
<1> QED
  BY <1>3, <1>5, <1>6, <1>7, StepKeeps

LEMMA StartUnlinkKeeps == ASSUME LockInv, NEW p \in Procs, StartUnlink(p) PROVE LockInv'
<1>1. FileInv /\ FileTypes /\ ControlTypes /\ Placed(p)
  BY DEF LockInv, FileInv
<1> DEFINE list == InOrder(Guards(p))
<1>2. /\ pc[p] = "work" /\ command[p].op = "cleanup" /\ pc' = [pc EXCEPT ![p] = "unlink"]
      /\ todo' = [todo EXCEPT ![p] = list] /\ UNCHANGED <<fileVars, command, got>>
  BY DEF StartUnlink
<1>3. Guards(p) \subseteq TopFiles /\ TopFiles \subseteq Names
  BY <1>1, <1>2 DEF Placed, Guards, Names, TopFiles
<1>4. list \in Seq(TopFiles) /\ list \in Seq(Names)
  <2>1. list \in Seq(Guards(p))
    BY <1>3, ListingAssumption, ChosenKind DEF InOrder, Sorted
  <2>2. Seq(Guards(p)) \subseteq Seq(TopFiles) /\ Seq(Guards(p)) \subseteq Seq(Names)
    BY <1>3, SeqMonotonic
  <2> QED
    BY <2>1, <2>2
<1> HIDE DEF list
<1>5. /\ pc'[p] = "unlink" /\ todo'[p] = list /\ opened[p] = NoInode
      /\ Alone(p) /\ OwnFiles(p) /\ ControlTypes' /\ Guards(p)' = Guards(p)
  BY <1>1, <1>2, <1>4 DEF fileVars, Alone, OwnFiles, ControlTypes, Guards, Placed
<1>6. FileInv'
  BY <1>1, <1>2, <1>5, QuietFiles DEF Quiet, fileVars
<1>7. Placed(p)'
  BY <1>1, <1>2, <1>4, <1>5 DEF Placed, fileVars
<1> QED
  BY <1>5, <1>6, <1>7, StepKeeps

LEMMA StartSweepKeeps == ASSUME LockInv, NEW p \in Procs, StartSweep(p) PROVE LockInv'
<1>1. FileInv /\ FileTypes /\ ControlTypes /\ Placed(p)
  BY DEF LockInv, FileInv
<1> DEFINE there == {n \in TopFiles : entry[n] # NoInode}
           list == InOrder(there)
<1>2. /\ pc[p] = "drop" /\ Guards(p) = {} /\ command[p].op = "cleanup"
      /\ pc' = [pc EXCEPT ![p] = "sweep"]
      /\ todo' = [todo EXCEPT ![p] = list] /\ UNCHANGED <<fileVars, command, got>>
  BY DEF StartSweep
<1>3. there \subseteq TopFiles /\ TopFiles \subseteq Names
  BY DEF Names, TopFiles
<1>4. list \in Seq(TopFiles) /\ list \in Seq(Names)
  <2> HIDE DEF there
  <2>1. list \in Seq(there)
    BY <1>3, ListingAssumption, ChosenKind DEF InOrder, Sorted
  <2>2. Seq(there) \subseteq Seq(TopFiles) /\ Seq(there) \subseteq Seq(Names)
    BY <1>3, SeqMonotonic
  <2> QED
    BY <2>1, <2>2
<1> HIDE DEF list
<1>5. /\ pc'[p] = "sweep" /\ todo'[p] = list /\ opened[p] = NoInode
      /\ Alone(p) /\ OwnFiles(p) /\ ControlTypes' /\ Guards(p)' = {}
  BY <1>1, <1>2, <1>4 DEF fileVars, Alone, OwnFiles, ControlTypes, Guards, Placed
<1>6. FileInv'
  BY <1>1, <1>2, <1>5, QuietFiles DEF Quiet, fileVars
<1>7. Placed(p)'
  BY <1>1, <1>2, <1>4, <1>5 DEF Placed, fileVars
<1> QED
  BY <1>5, <1>6, <1>7, StepKeeps

\* A step of unlink or sweep that goes to the next file of the list.
LEMMA PassesKeep ==
  ASSUME LockInv, NEW p \in Procs, SweepGone(p) \/ SweepBusy(p) \/ UnlinkGuard(p)
  PROVE  LockInv'
<1>1. FileInv /\ FileTypes /\ ControlTypes /\ Placed(p)
  BY DEF LockInv, FileInv
<1>2. /\ todo[p] # <<>> /\ pc[p] \in {"unlink", "sweep"}
      /\ pc[p] = "sweep" => Guards(p) = {}
      /\ todo' = [todo EXCEPT ![p] = Tail(@)] /\ UNCHANGED <<lock, guard, command, pc, got>>
  BY <1>1 DEF SweepGone, SweepBusy, UnlinkGuard, Placed, fileVars
<1>3. todo[p] \in Seq(TopFiles) /\ todo[p] \in Seq(Names) /\ command[p].op = "cleanup"
  BY <1>1, <1>2 DEF Placed, ControlTypes
<1>4. Tail(todo[p]) \in Seq(TopFiles) /\ Tail(todo[p]) \in Seq(Names) /\ Head(todo[p]) \in TopFiles
  BY <1>2, <1>3
<1>5. opened' = [opened EXCEPT ![p] = NoInode]
  BY <1>1, ClosedStays DEF SweepGone, SweepBusy, UnlinkGuard, Placed, fileVars
<1>6. /\ Alone(p) /\ OwnFiles(p) /\ ControlTypes' /\ Guards(p)' = Guards(p)
      /\ opened'[p] = NoInode /\ todo'[p] = Tail(todo[p])
  BY <1>1, <1>2, <1>4, <1>5 DEF Alone, OwnFiles, ControlTypes, FileTypes, Guards
<1>7. FileInv'
  <2>1. CASE UnlinkGuard(p)
    <3>1. Head(todo[p]) \in Names \ Kept /\ opened[p] = NoInode
      BY <1>1, <1>3, <1>4, <2>1, NotKept DEF Placed, TopFiles, Names, UnlinkGuard
    <3> QED
      BY <1>1, <1>2, <1>6, <2>1, <3>1, RemovedFiles DEF UnlinkGuard
  <2>2. CASE SweepGone(p) \/ SweepBusy(p)
    <3>1. entry' = entry
      BY <2>2 DEF SweepGone, SweepBusy, fileVars
    <3> QED
      BY <1>1, <1>2, <1>5, <1>6, <3>1, QuietFiles DEF Quiet
  <2> QED
    BY <2>1, <2>2
<1>8. Placed(p)'
  BY <1>1, <1>2, <1>3, <1>4, <1>6 DEF Placed
<1> QED
  BY <1>6, <1>7, <1>8, StepKeeps

LEMMA SweepRemoveKeeps == ASSUME LockInv, NEW p \in Procs, SweepRemove(p) PROVE LockInv'
<1>1. FileInv /\ FileTypes /\ ControlTypes /\ Placed(p)
  BY DEF LockInv, FileInv
<1>2. /\ pc[p] = "sweep" /\ Guards(p) # {} /\ pc' = [pc EXCEPT ![p] = "swept"]
      /\ RemoveFile(Head(todo[p])) /\ UNCHANGED <<lock, guard, opened, command, got, todo>>
  BY DEF SweepRemove
<1>3. /\ todo[p] # <<>> /\ todo[p] \in Seq(TopFiles) /\ Guards(p) = {Head(todo[p])}
      /\ command[p].op = "cleanup" /\ opened[p] = NoInode
  BY <1>1, <1>2 DEF Placed
<1>4. Head(todo[p]) \in Names \ Kept
  <2>1. Head(todo[p]) \in TopFiles
    BY <1>3
  <2> QED
    BY <1>3, <2>1, NotKept DEF Names, TopFiles
<1>5. /\ Alone(p) /\ OwnFiles(p) /\ ControlTypes' /\ Guards(p)' = Guards(p)
      /\ pc'[p] = "swept"
  BY <1>1, <1>2 DEF Alone, OwnFiles, ControlTypes, Guards
<1>6. FileInv'
  BY <1>1, <1>2, <1>3, <1>4, <1>5, RemovedFiles
<1>7. Placed(p)'
  BY <1>1, <1>2, <1>3, <1>5 DEF Placed
<1> QED
  BY <1>5, <1>6, <1>7, StepKeeps

LEMMA SweepNextKeeps == ASSUME LockInv, NEW p \in Procs, SweepNext(p) PROVE LockInv'
<1>1. FileInv /\ FileTypes /\ ControlTypes /\ Placed(p)
  BY DEF LockInv, FileInv
<1>2. /\ pc[p] = "swept" /\ pc' = [pc EXCEPT ![p] = "sweep"]
      /\ todo' = [todo EXCEPT ![p] = Tail(@)] /\ Drop(p, Head(todo[p]))
      /\ UNCHANGED <<entry, opened, command, got>>
  BY DEF SweepNext
<1>3. /\ todo[p] # <<>> /\ todo[p] \in Seq(TopFiles) /\ Guards(p) = {Head(todo[p])}
      /\ command[p].op = "cleanup" /\ opened[p] = NoInode /\ todo[p] \in Seq(Names)
  BY <1>1, <1>2 DEF Placed, ControlTypes
<1>4. /\ Head(todo[p]) \in Names /\ Tail(todo[p]) \in Seq(Names)
      /\ Tail(todo[p]) \in Seq(TopFiles)
  BY <1>3
<1>5. /\ Alone(p) /\ OwnFiles(p) /\ ControlTypes'
      /\ pc'[p] = "sweep" /\ todo'[p] = Tail(todo[p])
  BY <1>1, <1>2, <1>4 DEF Drop, Alone, OwnFiles, ControlTypes, FileTypes
<1>6. FileInv'
  BY <1>1, <1>2, <1>3, <1>4, <1>5, DroppedFiles
<1>7. Guards(p)' = {}
  BY <1>1, <1>2, <1>3, <1>4 DEF Drop, FileTypes, Guards
<1>8. Placed(p)'
  BY <1>1, <1>2, <1>3, <1>4, <1>5, <1>7 DEF Placed
<1> QED
  BY <1>5, <1>6, <1>8, StepKeeps

LEMMA NextKeeps == LockInv /\ [Next]_vars => LockInv'
<1> SUFFICES ASSUME LockInv, [Next]_vars PROVE LockInv'
  OBVIOUS
<1>1. CASE UNCHANGED vars
  <2>1. /\ Kept' = Kept /\ \A p \in Procs : Target(p)' = Target(p) /\ Guards(p)' = Guards(p)
        /\ UNCHANGED <<entry, lock, guard, opened, command, pc, got, todo>>
    BY <1>1 DEF vars, fileVars, ctlVars, Kept, Target, Guards
  <2>2. FileInv'
    BY <2>1 DEF LockInv, FileInv, FileTypes, Named, KeptGuards, Exclusion
  <2>3. ControlTypes'
    BY <2>1 DEF LockInv, ControlTypes
  <2>4. \A p \in Procs : Placed(p)'
    BY <2>1 DEF LockInv, Placed
  <2> QED
    BY <2>2, <2>3, <2>4 DEF LockInv
<1>2. ASSUME NEW p \in Procs, Start(p) \/ Step(p) \/ Kill(p) PROVE LockInv'
  BY <1>2, MovesKeep, OpensKeep, LocksKeep, DropKeeps, StartUnlinkKeeps, StartSweepKeeps,
     PassesKeep, SweepRemoveKeeps, SweepNextKeeps DEF Step
<1> QED
  BY <1>1, <1>2 DEF Next, AllDone

-----------------------------------------------------------------------------
\* Files, locks and guards are where the code can have them.
THEOREM Consistent == Spec => []LockInv
  BY InitInv, NextKeeps, PTL DEF Spec

\* No two processes hold a file in conflicting modes, unless it is one that some
\* process may delete: a tap's never, the others while nobody runs `cleanup'.
THEOREM KeptExclusive == Spec => []ExclusiveOn(Kept)
<1>1. LockInv => ExclusiveOn(Kept)
  <2> SUFFICES ASSUME LockInv, NEW n \in Kept, NEW p \in Procs, NEW q \in Procs, p # q
               PROVE  Compatible(Held(p, n), Held(q, n))
    BY DEF ExclusiveOn
  <2>1. n \in Names /\ FileTypes
    BY KeptAreNames DEF LockInv, FileInv
  <2>2. CASE guard[p][n] # NoInode /\ guard[q][n] # NoInode
    <3>1. guard[p][n] = entry[n] /\ guard[q][n] = entry[n] /\ entry[n] \in Inodes
      BY <2>1, <2>2 DEF LockInv, FileInv, KeptGuards, FileTypes
    <3> QED
      BY <2>2, <3>1 DEF LockInv, FileInv, Exclusion, Held
  <2>3. CASE guard[p][n] = NoInode \/ guard[q][n] = NoInode
    BY <2>3 DEF Held, Compatible
  <2> QED
    BY <2>2, <2>3
<1> QED
  BY <1>1, Consistent, PTL

-----------------------------------------------------------------------------
(* Refinement.                                                             *)

\* As reader-writer locks see it, a step acquires, releases or does nothing.
LEMMA StepShape ==
  ASSUME LockInv, NEW p \in Procs, Start(p) \/ Step(p) \/ Kill(p)
  PROVE  /\ command' = command
         /\ \/ lock' = lock /\ guard' = guard
            \/ Lock(p) /\ Target(p) \in Names
            \/ \E n \in Names : Drop(p, n)
<1>1. ControlTypes /\ Placed(p)
  BY DEF LockInv
<1>2. CASE LockNext(p) \/ SweepLock(p)
  BY <1>1, <1>2, TargetNamed DEF LockNext, SweepLock, Lock, ctlVars
<1>3. CASE DropGuard(p)
  BY <1>3 DEF DropGuard, Guards, ctlVars
<1>4. CASE SweepNext(p)
  <2>1. todo[p] # <<>> /\ todo[p] \in Seq(Names)
    BY <1>1, <1>4 DEF SweepNext, Placed, ControlTypes
  <2> QED
    BY <1>4, <2>1 DEF SweepNext
<1>5. CASE \/ Start(p) \/ OpenNext(p) \/ Refused(p) \/ AllLocked(p) \/ Finish(p)
           \/ StartUnlink(p) \/ UnlinkGuard(p) \/ UnlinkDone(p) \/ StartSweep(p)
  BY <1>5 DEF Start, OpenNext, Refused, AllLocked, Finish, StartUnlink, UnlinkGuard,
              UnlinkDone, StartSweep, Open, fileVars, ctlVars
<1>6. CASE \/ SweepGone(p) \/ SweepOpen(p) \/ SweepBusy(p) \/ SweepRemove(p) \/ Exit(p)
           \/ Kill(p)
  BY <1>6 DEF SweepGone, SweepOpen, SweepBusy, SweepRemove, Exit, Kill, Open, fileVars, ctlVars
<1> QED
  BY <1>2, <1>3, <1>4, <1>5, <1>6 DEF Step

\* Locking changes what is seen of the target alone, and only from nothing.
LEMMA LockSeen ==
  ASSUME LockInv, NEW p \in Procs, Lock(p), NEW T \in Names, T = Target(p),
         NEW mode, mode = Mode(p), command' = command
  PROVE  /\ \A n \in Names, q \in Procs : n # T \/ q # p => Seen(n, q)' = Seen(n, q)
         /\ T \notin Kept => Seen(T, p)' = Seen(T, p)
         /\ T \in Kept =>
              /\ Seen(T, p)' = mode /\ Seen(T, p) \in {"none", mode}
              /\ \A q \in Procs \ {p} : Compatible(mode, Seen(T, q))
<1>0. PICK i : i = opened[p]
  OBVIOUS
<1>1. FileTypes /\ i \in Inodes /\ Named /\ KeptGuards
  BY <1>0 DEF LockInv, FileInv, FileTypes, Lock
<1>2. /\ lock' = [lock EXCEPT ![i][p] = mode]
      /\ guard' = [guard EXCEPT ![p][T] = i] /\ entry' = entry
      /\ \A q \in Procs \ {p} : Compatible(mode, lock[i][q])
  BY <1>0 DEF Lock, Contended
<1>3. Kept' = Kept /\ Kept \subseteq Names
  BY KeptStays, KeptAreNames
<1>4. ASSUME NEW n \in Names, NEW q \in Procs, n # T \/ q # p PROVE Seen(n, q)' = Seen(n, q)
  <2>1. guard'[q][n] = guard[q][n]
    BY <1>1, <1>2, <1>4 DEF FileTypes
  <2>2. CASE n \notin Kept
    BY <1>3, <2>2 DEF Seen
  <2>3. CASE n \in Kept /\ guard[q][n] = NoInode
    BY <1>3, <2>1, <2>3 DEF Seen, Held
  <2>4. CASE n \in Kept /\ guard[q][n] # NoInode
    <3>1. guard[q][n] = entry[n] /\ entry[n] \in Inodes
      BY <1>1, <2>4 DEF KeptGuards, FileTypes
    <3>2. q = p => entry[n] # i
      BY <1>0, <1>1, <1>4, <3>1, NoInodeAssumption DEF Named
    <3>3. lock'[entry[n]][q] = lock[entry[n]][q]
      BY <1>1, <1>2, <3>1, <3>2 DEF FileTypes
    <3> QED
      BY <1>3, <2>1, <2>4, <3>1, <3>3 DEF Seen, Held
  <2> QED
    BY <2>2, <2>3, <2>4
<1>5. ASSUME T \in Kept PROVE Seen(T, p)' = mode
  <2>1. guard'[p][T] = i /\ lock'[i][p] = mode
    BY <1>1, <1>2 DEF FileTypes
  <2> QED
    BY <1>1, <1>3, <1>5, <2>1, NoInodeAssumption DEF Seen, Held
<1>6. ASSUME T \in Kept PROVE Seen(T, p) \in {"none", mode}
  <2>1. guard[p][T] # NoInode =>
          guard[p][T] = entry[T] /\ lock[entry[T]][p] = ModeFor(command[p], T)
    BY <1>1, <1>6 DEF KeptGuards
  <2> QED
    BY <1>6, <2>1 DEF Seen, Held, Mode
<1>7. ASSUME T \in Kept, NEW q \in Procs \ {p} PROVE Compatible(mode, Seen(T, q))
  <2>1. i = entry[T]
    BY <1>0, <1>1, <1>7, NoInodeAssumption DEF KeptGuards
  <2>2. guard[q][T] # NoInode => guard[q][T] = entry[T]
    BY <1>1, <1>7 DEF KeptGuards
  <2> QED
    BY <1>2, <1>7, <2>1, <2>2 DEF Seen, Held, Compatible
<1>8. T \notin Kept => Seen(T, p)' = Seen(T, p)
  BY <1>3 DEF Seen
<1> QED
  BY <1>4, <1>5, <1>6, <1>7, <1>8

\* Dropping a guard changes what is seen of its name alone, to nothing.
LEMMA DropSeen ==
  ASSUME LockInv, NEW p \in Procs, NEW m \in Names, Drop(p, m), command' = command
  PROVE  /\ \A n \in Names, q \in Procs : n # m \/ q # p => Seen(n, q)' = Seen(n, q)
         /\ Seen(m, p)' = "none"
<1>1. FileTypes /\ Named /\ KeptGuards
  BY DEF LockInv, FileInv
<1>2. /\ lock' = [lock EXCEPT ![guard[p][m]][p] = "none"]
      /\ guard' = [guard EXCEPT ![p][m] = NoInode]
  BY DEF Drop
<1>3. Kept' = Kept /\ Kept \subseteq Names
  BY KeptStays, KeptAreNames
<1>4. ASSUME NEW n \in Names, NEW q \in Procs, n # m \/ q # p PROVE Seen(n, q)' = Seen(n, q)
  <2>1. guard'[q][n] = guard[q][n]
    BY <1>1, <1>2, <1>4 DEF FileTypes
  <2>2. CASE n \notin Kept
    BY <1>3, <2>2 DEF Seen
  <2>3. CASE n \in Kept /\ guard[q][n] = NoInode
    BY <1>3, <2>1, <2>3 DEF Seen, Held
  <2>4. CASE n \in Kept /\ guard[q][n] # NoInode
    <3>1. guard[q][n] = entry[n] /\ entry[n] \in Inodes /\ entry[n] # NoInode
      BY <1>1, <2>4, NoInodeAssumption DEF KeptGuards, FileTypes
    <3>2. q = p => guard[p][m] # entry[n]
      BY <1>1, <1>4, <3>1 DEF Named
    <3>3. lock'[entry[n]][q] = lock[entry[n]][q]
      BY <1>1, <1>2, <3>1, <3>2 DEF FileTypes
    <3> QED
      BY <1>3, <2>1, <2>4, <3>1, <3>3 DEF Seen, Held
  <2> QED
    BY <2>2, <2>3, <2>4
<1>5. Seen(m, p)' = "none"
  <2>1. guard'[p][m] = NoInode
    BY <1>1, <1>2 DEF FileTypes
  <2> QED
    BY <2>1 DEF Seen, Held
<1> QED
  BY <1>4, <1>5

\* One entry of the table of held locks changes.
LEMMA OneEntry ==
  ASSUME NEW p \in Procs, NEW m \in Names, NEW mode, Seen(m, p)' = mode,
         \A n \in Names, q \in Procs : n # m \/ q # p => Seen(n, q)' = Seen(n, q)
  PROVE  HeldNames' = [HeldNames EXCEPT ![m][p] = mode]
<1>1. \A n \in Names, q \in Procs :
        Seen(n, q)' = IF n = m /\ q = p THEN mode ELSE Seen(n, q)
  OBVIOUS
<1>2. HeldNames' = [n \in Names |-> [q \in Procs |->
                      IF n = m /\ q = p THEN mode ELSE Seen(n, q)]]
  BY <1>1 DEF HeldNames
<1>3. [HeldNames EXCEPT ![m][p] = mode] =
        [n \in Names |-> [q \in Procs |-> IF n = m /\ q = p THEN mode ELSE Seen(n, q)]]
  BY DEF HeldNames
<1> QED
  BY <1>2, <1>3

LEMMA RefinesStep == LockInv /\ [Next]_vars => [RW!Next]_HeldNames
<1> SUFFICES ASSUME LockInv, [Next]_vars PROVE [RW!Next]_HeldNames
  OBVIOUS
<1>1. ASSUME command' = command, lock' = lock, guard' = guard PROVE HeldNames' = HeldNames
  BY <1>1 DEF HeldNames, Seen, Held, Kept
<1>2. ASSUME NEW p \in Procs, command' = command, Lock(p), Target(p) \in Names
      PROVE  [RW!Next]_HeldNames
  <2>1. PICK T \in Names, mode \in {"shared", "exclusive"} : T = Target(p) /\ mode = Mode(p)
    BY <1>2, ModesOfCommands DEF Mode
  <2>2. /\ \A n \in Names, q \in Procs : n # T \/ q # p => Seen(n, q)' = Seen(n, q)
        /\ T \notin Kept => Seen(T, p)' = Seen(T, p)
        /\ T \in Kept =>
             /\ Seen(T, p)' = mode /\ Seen(T, p) \in {"none", mode}
             /\ \A q \in Procs \ {p} : Compatible(mode, Seen(T, q))
    BY <1>2, <2>1, LockSeen
  <2>3. CASE Seen(T, p)' = Seen(T, p)
    <3>1. \A n \in Names, q \in Procs : Seen(n, q)' = Seen(n, q)
      BY <2>2, <2>3
    <3> QED
      BY <3>1 DEF HeldNames
  <2>4. CASE Seen(T, p)' # Seen(T, p)
    <3>1. T \in Kept /\ Seen(T, p)' = mode /\ Seen(T, p) = "none"
      BY <2>2, <2>4
    <3>2. HeldNames' = [HeldNames EXCEPT ![T][p] = mode]
      BY <2>2, <3>1, OneEntry
    <3>3. RW!Acquire(p, T, mode)
      BY <2>2, <3>1, <3>2 DEF RW!Acquire, HeldNames, RW!Compatible, Compatible
    <3> QED
      BY <2>1, <3>3 DEF RW!Next, RW!Modes
  <2> QED
    BY <2>3, <2>4
<1>3. ASSUME NEW p \in Procs, command' = command, NEW m \in Names, Drop(p, m)
      PROVE  [RW!Next]_HeldNames
  <2>1. /\ \A n \in Names, q \in Procs : n # m \/ q # p => Seen(n, q)' = Seen(n, q)
        /\ Seen(m, p)' = "none"
    BY <1>3, DropSeen
  <2>2. HeldNames' = [HeldNames EXCEPT ![m][p] = "none"]
    BY <2>1, OneEntry
  <2>3. CASE Seen(m, p) = "none"
    <3>1. \A n \in Names, q \in Procs : Seen(n, q)' = Seen(n, q)
      BY <2>1, <2>3
    <3> QED
      BY <3>1 DEF HeldNames
  <2>4. CASE Seen(m, p) # "none"
    <3>1. RW!Release(p, m)
      BY <2>2, <2>4 DEF RW!Release, HeldNames
    <3> QED
      BY <3>1 DEF RW!Next
  <2> QED
    BY <2>3, <2>4
<1>4. CASE UNCHANGED vars
  BY <1>1, <1>4 DEF vars, fileVars, ctlVars
<1>5. ASSUME NEW p \in Procs, Start(p) \/ Step(p) \/ Kill(p) PROVE [RW!Next]_HeldNames
  BY <1>1, <1>2, <1>3, <1>5, StepShape
<1> QED
  BY <1>4, <1>5 DEF Next, AllDone

LEMMA RefinesInit == Init => RW!Init
BY DEF Init, RW!Init, HeldNames, Seen, Held

\* Name by name the kept lock files implement reader-writer locks, though the
\* locks are on inodes, opening and locking are two steps, and any process may be
\* killed at any point.
THEOREM Implements == Spec => ImplementsRW
<1> QED
  BY Consistent, RefinesInit, RefinesStep, PTL DEF Spec, ImplementsRW, RW!Spec

-----------------------------------------------------------------------------
(* Someone proceeds.                                                       *)

\* The order of locking: by kind, then by the listing.
Kind(n) == IF n \in TapFiles THEN 1 ELSE IF n \in FormulaFiles THEN 2 ELSE 3
Place(n) == CHOOSE i \in 1 .. Len(Listing) : Listing[i] = n
Before(m, n) == Kind(m) < Kind(n) \/ (Kind(m) = Kind(n) /\ Place(m) < Place(n))

Wanted(p) == Wants(command[p])
Orderly == \A p \in Procs : command[p].op # "reinstall"

\* q has locked n or a file after it.
Reached(q, n) == \E i \in 1 .. got[q] : Wanted(q)[i] = n \/ Before(n, Wanted(q)[i])

\* Whoever reaches an inode reaches it under one name ...
Sharing ==
  /\ \A p, q \in Procs, m, n \in Names :
        guard[p][m] = guard[q][n] /\ guard[p][m] # NoInode => m = n
  /\ \A p, q \in Procs, n \in Names :
        opened[p] = guard[q][n] /\ opened[p] # NoInode => Target(p) = n
  /\ \A p, q \in Procs : opened[p] = opened[q] /\ opened[p] # NoInode => Target(p) = Target(q)

\* ... and who has it locked has a guard on it.
Backed == \A i \in Inodes, p \in Procs : lock[i][p] # "none" => \E n \in Names : guard[p][n] = i

\* Until it ends well or is killed, a process guards what it has locked in turn.
Course(p) ==
  /\ got[p] \in 0 .. Len(Wanted(p))
  /\ result[p] = "none" <=> pc[p] \in {"idle", "lock", "work", "unlink"}
  /\ result[p] = "busy" => got[p] < Len(Wanted(p)) /\ pc[p] \in {"drop", "done"}
  /\ result[p] \in {"none", "busy"} => \A n \in Guards(p) : \E i \in 1 .. got[p] : Wanted(p)[i] = n

\* For every process that was refused there is one that was not, and is at that
\* file or past it.
Proceeding ==
  (\A p \in Procs : result[p] \in {"none", "busy"}) =>
     \A p \in Procs : result[p] = "busy" =>
        \E q \in Procs : result[q] = "none" /\ Reached(q, Wanted(p)[got[p] + 1])

Results == result \in [Procs -> {"none", "ok", "busy", "killed"}]
Turns == Results /\ \A p \in Procs : Course(p)
OrderInv == Sharing /\ Backed /\ Turns /\ Proceeding

\* A command other than `reinstall' locks in that order, each file once.
LEMMA WantsSorted ==
  ASSUME NEW c \in Commands, c.op # "reinstall",
         NEW i \in 1 .. Len(Wants(c)), NEW j \in 1 .. Len(Wants(c)), i < j
  PROVE  Before(Wants(c)[i], Wants(c)[j])
<1> DEFINE S == c.files \cap TapFiles
           F == c.files \cap FormulaFiles
           K == c.files \cap CaskFiles
           s == InOrder(S)
           f == InOrder(F)
           k == InOrder(K)
<1>0. Listing \in Seq(Names) /\ IsInjective(Listing)
  BY ListingAssumption
<1>1. S \in SUBSET Names /\ F \in SUBSET Names /\ K \in SUBSET Names
  BY CommandsAssumption DEF Names
<1>2. \A S0 \in SUBSET Names : /\ InOrder(S0) = Chosen(Listing, S0) /\ InOrder(S0) \in Seq(S0)
  BY ListingAssumption, ChosenKind DEF InOrder, Sorted
<1>3. ASSUME NEW S0 \in SUBSET Names, NEW a \in 1 .. Len(InOrder(S0)),
             NEW b \in 1 .. Len(InOrder(S0)), a < b
      PROVE  Place(InOrder(S0)[a]) < Place(InOrder(S0)[b])
  <2> DEFINE o == InOrder(S0)
  <2>0. o = Chosen(Listing, S0) /\ a \in 1 .. Len(o) /\ b \in 1 .. Len(o)
    BY <1>2, <1>3
  <2> HIDE DEF o
  <2>1. \E x, y \in 1 .. Len(Listing) : x < y /\ o[a] = Listing[x] /\ o[b] = Listing[y]
    <3>1. ASSUME NEW C, C = Chosen(Listing, S0), NEW x \in 1 .. Len(C), NEW y \in 1 .. Len(C), x < y
          PROVE  \E v, z \in 1 .. Len(Listing) : v < z /\ C[x] = Listing[v] /\ C[y] = Listing[z]
      BY ONLY <1>0, <3>1, ChosenOrder, SMTT(60)
    <3> QED
      BY ONLY <1>3, <2>0, <3>1, SMTT(60)
  <2>2. \A z \in 1 .. Len(Listing) : Place(Listing[z]) = z
    BY ListingAssumption DEF Place, IsInjective
  <2> QED
    BY <2>1, <2>2 DEF o
<1>4. Wants(c) = s \o f \o k /\ s \in Seq(S) /\ f \in Seq(F) /\ k \in Seq(K)
  BY <1>1, <1>2 DEF Wants
<1>5. /\ \A a \in 1 .. Len(s) : Kind(s[a]) = 1
      /\ \A a \in 1 .. Len(f) : Kind(f[a]) = 2
      /\ \A a \in 1 .. Len(k) : Kind(k[a]) = 3
  <2>1. /\ \A n \in S : Kind(n) = 1
        /\ \A n \in F : Kind(n) = 2
        /\ \A n \in K : Kind(n) = 3
    BY FilesAssumption DEF Kind, TopFiles
  <2>2. /\ \A a \in 1 .. Len(s) : s[a] \in S
        /\ \A a \in 1 .. Len(f) : f[a] \in F
        /\ \A a \in 1 .. Len(k) : k[a] \in K
    BY <1>4
  <2> HIDE DEF s, f, k, S, F, K
  <2> QED
    BY <2>1, <2>2
<1>6. /\ \A a, b \in 1 .. Len(s) : a < b => Place(s[a]) < Place(s[b])
      /\ \A a, b \in 1 .. Len(f) : a < b => Place(f[a]) < Place(f[b])
      /\ \A a, b \in 1 .. Len(k) : a < b => Place(k[a]) < Place(k[b])
  BY <1>1, <1>3
<1> DEFINE w == Wants(c)
<1> HIDE DEF s, f, k, S, F, K
<1>7. /\ Len(w) = Len(s) + Len(f) + Len(k)
      /\ Len(s) \in Nat /\ Len(f) \in Nat /\ Len(k) \in Nat
      /\ \A a \in 1 .. Len(w) :
            w[a] = IF a <= Len(s) THEN s[a]
                   ELSE IF a <= Len(s) + Len(f) THEN f[a - Len(s)]
                   ELSE k[a - Len(s) - Len(f)]
  BY <1>4
<1> HIDE DEF w
<1>8. Before(w[i], w[j])
  <2>1. i \in Nat /\ j \in Nat /\ i \in 1 .. Len(w) /\ j \in 1 .. Len(w)
    BY DEF w
  <2>2. CASE j <= Len(s)
    BY <1>5, <1>6, <1>7, <2>1, <2>2 DEF Before
  <2>3. CASE Len(s) < j /\ j <= Len(s) + Len(f)
    <3>1. w[j] = f[j - Len(s)] /\ j - Len(s) \in 1 .. Len(f)
      BY <1>7, <2>1, <2>3
    <3>2. CASE i <= Len(s)
      <4>1. w[i] = s[i] /\ i \in 1 .. Len(s)
        BY <1>7, <2>1, <3>2
      <4>2. Kind(w[i]) = 1 /\ Kind(w[j]) = 2
        BY <1>5, <3>1, <4>1
      <4> QED
        BY <4>2 DEF Before
    <3>3. CASE Len(s) < i
      <4>1. w[i] = f[i - Len(s)] /\ i - Len(s) \in 1 .. Len(f) /\ i - Len(s) < j - Len(s)
        BY <1>7, <2>1, <2>3, <3>3
      <4> QED
        BY <1>5, <1>6, <3>1, <4>1 DEF Before
    <3> QED
      BY <1>7, <2>1, <3>2, <3>3
  <2>4. CASE Len(s) + Len(f) < j
    <3>1. w[j] = k[j - Len(s) - Len(f)] /\ j - Len(s) - Len(f) \in 1 .. Len(k)
      BY <1>7, <2>1, <2>4
    <3>2. CASE i <= Len(s) + Len(f)
      <4>1. Kind(w[i]) \in {1, 2}
        <5>1. CASE i <= Len(s)
          BY <1>5, <1>7, <2>1, <5>1
        <5>2. CASE Len(s) < i
          <6>1. w[i] = f[i - Len(s)] /\ i - Len(s) \in 1 .. Len(f)
            BY <1>7, <2>1, <3>2, <5>2
          <6> QED
            BY <1>5, <6>1
        <5> QED
          BY <1>7, <2>1, <5>1, <5>2
      <4> QED
        BY <1>5, <3>1, <4>1 DEF Before
    <3>3. CASE Len(s) + Len(f) < i
      <4>1. /\ w[i] = k[i - Len(s) - Len(f)] /\ i - Len(s) - Len(f) \in 1 .. Len(k)
            /\ i - Len(s) - Len(f) < j - Len(s) - Len(f)
        <5>1. ~(i <= Len(s)) /\ ~(i <= Len(s) + Len(f)) /\ i <= Len(s) + Len(f) + Len(k)
          BY ONLY <1>7, <2>1, <3>3
        <5>2. w[i] = k[i - Len(s) - Len(f)]
          BY ONLY <1>7, <2>1, <5>1
        <5> QED
          BY ONLY <1>7, <2>1, <3>3, <5>1, <5>2, i < j
      <4> QED
        BY <1>5, <1>6, <3>1, <4>1 DEF Before
    <3> QED
      BY <1>7, <2>1, <3>2, <3>3
  <2> QED
    BY <1>7, <2>1, <2>2, <2>3, <2>4
<1> QED
  BY <1>8 DEF w

\* What a command locks is listed, so it has a place in the order.
LEMMA WantsPlaced ==
  ASSUME NEW c \in Commands, NEW i \in 1 .. Len(Wants(c))
  PROVE  Place(Wants(c)[i]) \in Nat /\ Wants(c)[i] \in Names
<1> DEFINE Listed == {Listing[x] : x \in 1 .. Len(Listing)}
<1>1. c.files \subseteq Names
  BY CommandsAssumption
<1>2. ASSUME NEW S \in SUBSET Names PROVE InOrder(S) \in Seq(Listed)
  <2>1. InOrder(S) = Chosen(Listing, S)
    BY DEF InOrder, Sorted
  <2>2. IsChosen(Names, Listing, S, InOrder(S))
    BY <2>1, ListingAssumption, ChosenFacts
  <2> DEFINE o == InOrder(S)
  <2>3. o \in Seq(Names) /\ \A x \in 1 .. Len(o) : o[x] \in Listed
    BY <2>2 DEF IsChosen
  <2> HIDE DEF o, Listed
  <2>4. o \in Seq(Listed)
    BY <2>3
  <2> QED
    BY <2>4 DEF o
<1>3. Wants(c) \in Seq(Listed)
  <2> HIDE DEF Listed
  <2>1. /\ InOrder(c.files \cap TapFiles) \in Seq(Listed)
        /\ InOrder(c.files \cap FormulaFiles) \in Seq(Listed)
        /\ InOrder(c.files \cap CaskFiles) \in Seq(Listed)
    BY <1>1, <1>2
  <2>2. \A r, s, t \in Seq(Listed) : r \o s \o t \in Seq(Listed)
    BY ConcatProperties
  <2> QED
    BY <2>1, <2>2, Zenon DEF Wants
<1>4. Wants(c)[i] \in Listed
  BY <1>3
<1>5. PICK x \in 1 .. Len(Listing) : Wants(c)[i] = Listing[x]
  BY <1>4
<1>6. Place(Wants(c)[i]) \in 1 .. Len(Listing)
  BY <1>5 DEF Place
<1> QED
  BY <1>5, <1>6, ListingAssumption

Shared == Sharing /\ Backed

LEMMA QuietShared ==
  ASSUME FileTypes, Shared, NEW p \in Procs, Quiet(p) PROVE Shared'
<1>1. \A q \in Procs : opened'[q] # NoInode => opened'[q] = opened[q] /\ Target(q)' = Target(q)
  <2> SUFFICES ASSUME NEW q \in Procs, opened'[q] # NoInode
               PROVE  opened'[q] = opened[q] /\ Target(q)' = Target(q)
    OBVIOUS
  <2>1. opened'[q] = opened[q]
    BY DEF Quiet, FileTypes
  <2>2. CASE q = p
    BY <2>2 DEF Quiet, FileTypes
  <2>3. CASE q # p
    BY <2>1, <2>3, OtherTargets DEF Quiet
  <2> QED
    BY <2>1, <2>2, <2>3
<1>2. guard' = guard /\ lock' = lock
  BY DEF Quiet
<1>3. Sharing'
  BY <1>1, <1>2 DEF Shared, Sharing
<1> QED
  BY <1>2, <1>3 DEF Shared, Backed

LEMMA OpenShared ==
  ASSUME FileInv, Shared, NEW p \in Procs, Alone(p), Open(p), Target(p) \in Names,
         Target(p)' = Target(p)
  PROVE  Shared'
<1>1. FileTypes /\ Named
  BY DEF FileInv
<1>2. \A q \in Procs : Target(q)' = Target(q)
  BY OtherTargets
<1>3. guard' = guard /\ lock' = lock
  BY DEF Open
<1>4. CASE entry[Target(p)] # NoInode /\ opened' = [opened EXCEPT ![p] = entry[Target(p)]]
  <2>1. Sharing'
    BY <1>1, <1>2, <1>3, <1>4 DEF Shared, Sharing, Named, FileTypes
  <2> QED
    BY <1>3, <2>1 DEF Shared, Backed
<1>5. ASSUME NEW i \in Free, opened' = [opened EXCEPT ![p] = i]
      PROVE  Shared'
  <2>1. \A q \in Procs : opened[q] # i /\ \A n \in Names : guard[q][n] # i
    BY <1>5 DEF Free
  <2>2. Sharing'
    BY <1>1, <1>2, <1>3, <1>5, <2>1 DEF Shared, Sharing, FileTypes
  <2> QED
    BY <1>3, <2>2 DEF Shared, Backed
<1>6. Free # {} => (CHOOSE i \in Free : TRUE) \in Free
  OBVIOUS
<1> QED
  BY <1>4, <1>5, <1>6 DEF Open

LEMMA LockShared ==
  ASSUME FileTypes, Shared, NEW p \in Procs, Alone(p), Lock(p), Target(p) \in Names,
         guard[p][Target(p)] = NoInode
  PROVE  Shared'
<1> DEFINE i == opened[p]
           T == Target(p)
<1>1. /\ lock' = [lock EXCEPT ![i][p] = Mode(p)]
      /\ guard' = [guard EXCEPT ![p][T] = i]
      /\ opened' = [opened EXCEPT ![p] = NoInode] /\ i # NoInode /\ i \in Inodes
  BY DEF Lock, FileTypes
<1>2. \A q \in Procs : q # p => Target(q)' = Target(q)
  BY OtherTargets
<1>3. \A q \in Procs, n \in Names :
         guard'[q][n] = IF q = p /\ n = T THEN i ELSE guard[q][n]
  BY <1>1 DEF FileTypes
<1>4. \A q \in Procs : opened'[q] = IF q = p THEN NoInode ELSE opened[q]
  BY <1>1 DEF FileTypes
<1>5. Sharing'
  <2>1. \A q, r \in Procs, m, n \in Names :
           guard'[q][m] = guard'[r][n] /\ guard'[q][m] # NoInode => m = n
    BY <1>1, <1>3 DEF Shared, Sharing
  <2>2. \A q, r \in Procs, n \in Names :
           opened'[q] = guard'[r][n] /\ opened'[q] # NoInode => Target(q)' = n
    BY <1>1, <1>2, <1>3, <1>4 DEF Shared, Sharing
  <2>3. \A q, r \in Procs :
           opened'[q] = opened'[r] /\ opened'[q] # NoInode => Target(q)' = Target(r)'
    BY <1>2, <1>4 DEF Shared, Sharing
  <2> QED
    BY <2>1, <2>2, <2>3 DEF Sharing
<1>6. ASSUME NEW j \in Inodes, NEW q \in Procs, lock'[j][q] # "none"
      PROVE  \E n \in Names : guard'[q][n] = j
  <2>1. CASE j = i /\ q = p
    BY <1>3, <2>1
  <2>2. CASE ~(j = i /\ q = p)
    <3>1. lock'[j][q] = lock[j][q]
      BY <1>1, <2>2 DEF FileTypes
    <3>2. PICK n \in Names : guard[q][n] = j
      BY <1>6, <3>1 DEF Shared, Backed
    <3>3. guard'[q][n] = j
      BY <1>3, <3>2, NoInodeAssumption
    <3> QED
      BY <3>3
  <2> QED
    BY <2>1, <2>2
<1> QED
  BY <1>5, <1>6 DEF Shared, Backed

LEMMA DropShared ==
  ASSUME FileTypes, Shared, NEW p \in Procs, Alone(p), NEW n \in Guards(p), Drop(p, n),
         opened' = opened, Target(p)' = Target(p) \/ opened[p] = NoInode
  PROVE  Shared'
<1>1. /\ lock' = [lock EXCEPT ![guard[p][n]][p] = "none"]
      /\ guard' = [guard EXCEPT ![p][n] = NoInode]
      /\ n \in Names /\ guard[p][n] \in Inodes
  BY DEF Drop, Guards, FileTypes
<1>2. \A q \in Procs : Target(q)' = Target(q) \/ opened[q] = NoInode
  BY OtherTargets
<1>3. \A q \in Procs, m \in Names :
         guard'[q][m] = IF q = p /\ m = n THEN NoInode ELSE guard[q][m]
  BY <1>1 DEF FileTypes
<1>4. Sharing'
  BY <1>2, <1>3 DEF Shared, Sharing
<1>5. ASSUME NEW j \in Inodes, NEW q \in Procs, lock'[j][q] # "none"
      PROVE  \E m \in Names : guard'[q][m] = j
  <2>1. lock'[j][q] = lock[j][q] /\ ~(q = p /\ j = guard[p][n])
    BY <1>1, <1>5 DEF FileTypes
  <2>2. PICK m \in Names : guard[q][m] = j
    BY <1>5, <2>1 DEF Shared, Backed
  <2>3. guard'[q][m] = j
    BY <1>3, <2>1, <2>2
  <2> QED
    BY <2>3
<1> QED
  BY <1>4, <1>5 DEF Shared, Backed

LEMMA RemoveShared ==
  ASSUME FileTypes, Shared, NEW p \in Procs, Alone(p),
         lock' = lock, guard' = guard, opened' = opened,
         Target(p)' = Target(p) \/ opened[p] = NoInode
  PROVE  Shared'
<1>1. \A q \in Procs : Target(q)' = Target(q) \/ opened[q] = NoInode
  BY OtherTargets
<1>2. Sharing'
  BY <1>1 DEF Shared, Sharing
<1> QED
  BY <1>2 DEF Shared, Backed

\* A step of p leaves the course of the others alone.
LEMMA TurnsStep ==
  ASSUME Turns, NEW p \in Procs, Alone(p), OwnFiles(p), Results',
         \A q \in Procs \ {p} : result'[q] = result[q], Course(p)'
  PROVE  Turns'
<1>1. ASSUME NEW q \in Procs, q # p PROVE Course(q)'
  <2>1. /\ pc'[q] = pc[q] /\ got'[q] = got[q] /\ command' = command /\ result'[q] = result[q]
        /\ Guards(q)' = Guards(q) /\ Wanted(q)' = Wanted(q)
    BY <1>1 DEF Alone, OwnFiles, Guards, Wanted
  <2>2. Course(q)
    BY DEF Turns
  <2> QED
    BY <2>1, <2>2 DEF Course
<1> QED
  BY <1>1 DEF Turns

\* While nobody ends, who has gone past a file stays past it.
LEMMA ProceedingStays ==
  ASSUME Turns, Proceeding, result' = result, command' = command,
         \A q \in Procs : got'[q] \in Nat /\ got[q] <= got'[q],
         \A q \in Procs : result[q] = "busy" => got'[q] = got[q]
  PROVE  Proceeding'
<1>1. \A q \in Procs : Wanted(q)' = Wanted(q)
  BY DEF Wanted
<1>2. \A q \in Procs : got[q] \in Nat
  BY DEF Turns, Course
<1>3. ASSUME NEW q \in Procs, NEW n, Reached(q, n) PROVE Reached(q, n)'
  <2>1. PICK i \in 1 .. got[q] : Wanted(q)[i] = n \/ Before(n, Wanted(q)[i])
    BY <1>3 DEF Reached
  <2>2. i \in 1 .. got'[q]
    BY <1>2
  <2> QED
    BY <1>1, <2>1, <2>2 DEF Reached
<1> SUFFICES ASSUME \A p \in Procs : result'[p] \in {"none", "busy"},
                    NEW p \in Procs, result'[p] = "busy"
             PROVE  \E q \in Procs : result'[q] = "none" /\ Reached(q, Wanted(p)[got[p] + 1])'
  BY DEF Proceeding
<1>4. PICK q \in Procs : result[q] = "none" /\ Reached(q, Wanted(p)[got[p] + 1])
  BY DEF Proceeding
<1>5. Wanted(p)'[got'[p] + 1] = Wanted(p)[got[p] + 1]
  BY <1>1
<1>6. Reached(q, Wanted(p)[got[p] + 1])'
  <2> DEFINE n == Wanted(p)[got[p] + 1]
  <2>1. \E i \in 1 .. got'[q] : Wanted(q)'[i] = n \/ Before(n, Wanted(q)'[i])
    <3>1. PICK i \in 1 .. got[q] : Wanted(q)[i] = n \/ Before(n, Wanted(q)[i])
      BY <1>4 DEF Reached
    <3>2. i \in 1 .. got'[q]
      BY <1>2
    <3> QED
      BY <1>1, <3>1, <3>2
  <2> QED
    BY <1>5, <2>1 DEF Reached, Before
<1> QED
  BY <1>4, <1>6

LEMMA EndsWell ==
  ASSUME NEW p \in Procs, result'[p] \in {"ok", "killed"} PROVE Proceeding'
BY DEF Proceeding

LEMMA BeforeOrder ==
  ASSUME NEW l, NEW m, NEW n, Place(l) \in Nat, Place(m) \in Nat, Place(n) \in Nat
  PROVE  /\ Before(l, m) /\ Before(m, n) => Before(l, n)
         /\ ~(Before(l, m) /\ Before(m, l))
<1>1. Kind(l) \in Nat /\ Kind(m) \in Nat /\ Kind(n) \in Nat
  BY DEF Kind
<1> QED
  BY <1>1 DEF Before

\* What p wants at i, and in what order.
LEMMA WantedFacts ==
  ASSUME ControlTypes, Orderly, NEW p \in Procs
  PROVE  /\ \A i \in 1 .. Len(Wanted(p)) : Wanted(p)[i] \in Names /\ Place(Wanted(p)[i]) \in Nat
         /\ \A i, j \in 1 .. Len(Wanted(p)) : i < j => Before(Wanted(p)[i], Wanted(p)[j])
         /\ Len(Wanted(p)) \in Nat
<1>1. command[p] \in Commands /\ command[p].op # "reinstall"
  BY DEF ControlTypes, Orderly
<1>2. Len(Wanted(p)) \in Nat
  BY <1>1, WantsGiven DEF Wanted
<1> QED
  BY <1>1, <1>2, WantsSorted, WantsPlaced DEF Wanted

\* Whoever has gone past a file has gone past what comes before it.
LEMMA ReachedBefore ==
  ASSUME ControlTypes, Orderly, Turns, NEW q \in Procs, NEW m, NEW n,
         Place(m) \in Nat, Place(n) \in Nat, Before(m, n), Reached(q, n)
  PROVE  Reached(q, m)
<1>1. PICK i \in 1 .. got[q] : Wanted(q)[i] = n \/ Before(n, Wanted(q)[i])
  BY DEF Reached
<1>2. i \in 1 .. Len(Wanted(q))
  BY WantedFacts DEF Turns, Course
<1>3. Place(Wanted(q)[i]) \in Nat
  BY <1>2, WantedFacts
<1>4. Before(m, Wanted(q)[i])
  BY <1>1, <1>3, BeforeOrder
<1> QED
  BY <1>1, <1>4 DEF Reached

\* Of those that have what p is refused, one is not refused itself.
LEMMA HolderProceeds ==
  ASSUME LockInv, OrderInv, Orderly, NEW p \in Procs, Refused(p),
         \A q \in Procs : result[q] \in {"none", "busy"}
  PROVE  /\ got[p] + 1 \in 1 .. Len(Wanted(p)) /\ Target(p) = Wanted(p)[got[p] + 1]
         /\ \E s \in Procs \ {p} : result[s] = "none" /\ Reached(s, Target(p))
<1> DEFINE n == Target(p)
<1>1. ControlTypes /\ Turns /\ Sharing /\ Backed /\ Proceeding /\ Placed(p) /\ FileTypes
  BY DEF LockInv, OrderInv, FileInv
<1>2. got[p] + 1 \in 1 .. Len(Wanted(p)) /\ n = Wanted(p)[got[p] + 1]
  <2>1. got[p] < Len(Wanted(p)) /\ pc[p] = "lock"
    BY <1>1 DEF Refused, Placed, Wanted
  <2>2. got[p] \in 0 .. Len(Wanted(p)) /\ Len(Wanted(p)) \in Nat
    BY <1>1, WantedFacts DEF Turns, Course
  <2> QED
    BY <2>1, <2>2 DEF Target, Wanted
<1>3. PICK r \in Procs \ {p} : lock[opened[p]][r] # "none"
  BY DEF Refused, Contended, Compatible
<1>4. opened[p] \in Inodes /\ opened[p] # NoInode
  BY <1>1 DEF Refused, FileTypes
<1>5. PICK m \in Names : guard[r][m] = opened[p]
  BY <1>1, <1>3, <1>4 DEF Backed
<1>6. m = n /\ n \in Guards(r)
  BY <1>1, <1>4, <1>5 DEF Sharing, Guards
<1>7. PICK i \in 1 .. got[r] : Wanted(r)[i] = n
  BY <1>1, <1>6 DEF Turns, Course
<1>8. CASE result[r] = "none"
  BY <1>2, <1>7, <1>8 DEF Reached
<1>9. CASE result[r] = "busy"
  <2> DEFINE w == Wanted(r)[got[r] + 1]
  <2>1. got[r] \in 0 .. Len(Wanted(r)) /\ got[r] < Len(Wanted(r)) /\ Len(Wanted(r)) \in Nat
    BY <1>1, <1>9, WantedFacts DEF Turns, Course
  <2>2. i \in 1 .. Len(Wanted(r)) /\ got[r] + 1 \in 1 .. Len(Wanted(r)) /\ i < got[r] + 1
    BY <2>1
  <2>3. Before(n, w) /\ Place(n) \in Nat /\ Place(w) \in Nat
    BY <1>1, <1>7, <2>2, WantedFacts
  <2>4. PICK t \in Procs : result[t] = "none" /\ Reached(t, w)
    BY <1>1, <1>9 DEF Proceeding
  <2>5. Reached(t, n)
    BY <1>1, <2>3, <2>4, ReachedBefore
  <2>6. t # p
    <3> SUFFICES ASSUME t = p PROVE FALSE
      OBVIOUS
    <3>1. PICK k \in 1 .. got[p] : Wanted(p)[k] = w \/ Before(w, Wanted(p)[k])
      BY <2>4 DEF Reached
    <3>2. k \in 1 .. Len(Wanted(p)) /\ k < got[p] + 1
      BY <1>1, <1>2, WantedFacts DEF Turns, Course
    <3>3. Before(Wanted(p)[k], n) /\ Place(Wanted(p)[k]) \in Nat
      BY <1>1, <1>2, <3>2, WantedFacts
    <3>4. Before(n, Wanted(p)[k])
      BY <2>3, <3>1, <3>3, BeforeOrder
    <3> QED
      BY <2>3, <3>3, <3>4, BeforeOrder
  <2> QED
    BY <1>2, <2>4, <2>5, <2>6
<1> QED
  BY <1>8, <1>9

LEMMA RefusedProceeds ==
  ASSUME LockInv, OrderInv, Orderly, NEW p \in Procs, Refused(p) PROVE Proceeding'
<1>1. ControlTypes /\ Turns /\ Proceeding
  BY DEF LockInv, OrderInv
<1>2. /\ got' = got /\ command' = command /\ result' = [result EXCEPT ![p] = "busy"]
      /\ result[p] = "none"
  BY <1>1 DEF Refused, End, Turns, Course
<1>3. \A q \in Procs : result'[q] = IF q = p THEN "busy" ELSE result[q]
  BY <1>1, <1>2 DEF Turns, Results
<1> SUFFICES ASSUME \A q \in Procs : result'[q] \in {"none", "busy"},
                    NEW q \in Procs, result'[q] = "busy"
             PROVE  \E t \in Procs : result'[t] = "none" /\ Reached(t, Wanted(q)[got[q] + 1])'
  BY DEF Proceeding
<1>4. \A r \in Procs : result[r] \in {"none", "busy"}
  BY <1>2, <1>3
<1>5. \A n : \A t \in Procs : Reached(t, n)' <=> Reached(t, n)
  BY <1>2 DEF Reached, Wanted
<1>6. Wanted(q)'[got'[q] + 1] = Wanted(q)[got[q] + 1]
  BY <1>2 DEF Wanted
<1>7. PICK s \in Procs \ {p} : result[s] = "none" /\ Reached(s, Target(p))
  BY <1>4, HolderProceeds
<1>8. got[p] + 1 \in 1 .. Len(Wanted(p)) /\ Target(p) = Wanted(p)[got[p] + 1]
  BY <1>4, HolderProceeds
<1> DEFINE w == Wanted(q)[got[q] + 1]
<1>9. \E t \in Procs \ {p} : result[t] = "none" /\ Reached(t, w)
  <2>1. CASE q = p
    BY <1>7, <1>8, <2>1
  <2>2. CASE q # p
    <3>1. result[q] = "busy"
      BY <1>3, <2>2
    <3>2. PICK t \in Procs : result[t] = "none" /\ Reached(t, w)
      BY <1>1, <1>4, <3>1 DEF Proceeding
    <3>3. CASE t = p
      <4>1. PICK k \in 1 .. got[p] : Wanted(p)[k] = w \/ Before(w, Wanted(p)[k])
        BY <3>2, <3>3 DEF Reached
      <4>2. k \in 1 .. Len(Wanted(p)) /\ k < got[p] + 1
        BY <1>1, <1>8, WantedFacts DEF Turns, Course
      <4>3. /\ Before(Wanted(p)[k], Target(p)) /\ Place(Wanted(p)[k]) \in Nat
            /\ Place(Target(p)) \in Nat
        BY <1>1, <1>8, <4>2, WantedFacts
      <4>4. Place(w) \in Nat
        <5>1. got[q] + 1 \in 1 .. Len(Wanted(q))
          BY <1>1, <3>1, WantedFacts DEF Turns, Course
        <5> QED
          BY <1>1, <5>1, WantedFacts
      <4>5. Before(w, Target(p))
        BY <4>1, <4>3, <4>4, BeforeOrder
      <4>6. Reached(s, w)
        BY <1>1, <1>7, <4>3, <4>4, <4>5, ReachedBefore
      <4> QED
        BY <1>7, <4>6
    <3> QED
      BY <3>2, <3>3
  <2> QED
    BY <2>1, <2>2
<1>10. PICK t \in Procs \ {p} : result[t] = "none" /\ Reached(t, w)
  BY <1>9
<1>11. result'[t] = "none" /\ Reached(t, Wanted(q)[got[q] + 1])'
  <2>1. Reached(t, Wanted(q)[got[q] + 1])' <=> Reached(t, w)'
    BY <1>6 DEF Reached, Before
  <2> QED
    BY <1>2, <1>3, <1>5, <1>6, <1>10 DEF Reached, Wanted
<1> QED
  BY <1>11

\* Steps that neither end a command nor lock for it.
LEMMA QuietOrder ==
  ASSUME LockInv, OrderInv, NEW p \in Procs, Alone(p), OwnFiles(p), Shared',
         UNCHANGED <<command, got, result>>, Course(p)'
  PROVE  OrderInv'
<1>1. Turns /\ Proceeding
  BY DEF OrderInv
<1>2. Turns'
  BY <1>1, TurnsStep DEF Turns, Results
<1>3. \A q \in Procs : got[q] \in Nat
  BY <1>1 DEF Turns, Course
<1>4. Proceeding'
  BY <1>1, <1>3, ProceedingStays
<1> QED
  BY <1>2, <1>4 DEF OrderInv, Shared

LEMMA EndOrder ==
  ASSUME LockInv, OrderInv, NEW p \in Procs, Alone(p), OwnFiles(p), Shared',
         UNCHANGED <<command, got>>, NEW how \in {"ok", "killed"}, End(p, how)
  PROVE  OrderInv'
<1>1. Turns /\ ControlTypes
  BY DEF OrderInv, LockInv
<1>2. result'[p] = how /\ pc'[p] = "drop" /\ got' = got /\ Wanted(p)' = Wanted(p)
      /\ Results' /\ \A q \in Procs \ {p} : result'[q] = result[q]
  BY <1>1 DEF End, Turns, Results, ControlTypes, Wanted
<1>3. Course(p)'
  BY <1>1, <1>2 DEF Turns, Course
<1> QED
  BY <1>1, <1>2, <1>3, TurnsStep, EndsWell DEF OrderInv, Shared

LEMMA OpensOrder ==
  ASSUME LockInv, OrderInv, NEW p \in Procs, OpenNext(p) \/ SweepOpen(p) PROVE OrderInv'
<1>1. FileInv /\ FileTypes /\ ControlTypes /\ Placed(p) /\ Shared /\ Course(p)
  BY DEF LockInv, FileInv, OrderInv, Shared, Turns
<1>2. Open(p) /\ UNCHANGED ctlVars /\ Alone(p)
  BY <1>1 DEF OpenNext, SweepOpen, ctlVars, Alone
<1>3. Target(p) \in Names /\ Target(p)' = Target(p)
  BY <1>1, <1>2, TargetNamed DEF OpenNext, SweepOpen, ctlVars, Target
<1>4. OwnFiles(p) /\ Guards(p)' = Guards(p)
  BY <1>1, <1>2 DEF Open, OwnFiles, FileTypes, Guards
<1>5. Course(p)'
  BY <1>1, <1>2, <1>4 DEF Course, Wanted, ctlVars
<1> QED
  BY <1>1, <1>2, <1>3, <1>4, <1>5, OpenShared, QuietOrder DEF ctlVars

LEMMA LockNextOrder ==
  ASSUME LockInv, OrderInv, Orderly, NEW p \in Procs, LockNext(p) PROVE OrderInv'
<1>1. FileTypes /\ ControlTypes /\ Placed(p) /\ Shared /\ Turns /\ Proceeding /\ Course(p)
  BY DEF LockInv, FileInv, OrderInv, Shared, Turns
<1>2. /\ Lock(p) /\ opened[p] # NoInode /\ pc[p] = "lock"
      /\ UNCHANGED <<command, pc, todo, result>> /\ got' = [got EXCEPT ![p] = @ + 1]
  BY DEF LockNext, Lock
<1>3. got \in [Procs -> Nat]
  BY <1>1 DEF ControlTypes
<1>4. Alone(p) /\ \A q \in Procs : got'[q] = IF q = p THEN got[q] + 1 ELSE got[q]
  BY <1>2, <1>3 DEF Alone
<1>5. Target(p) = Wanted(p)[got[p] + 1] /\ got[p] + 1 \in 1 .. Len(Wanted(p))
      /\ Len(Wanted(p)) \in Nat
  BY <1>1, <1>2, <1>3, WantedFacts DEF Placed, Target, Wanted
<1>6. Target(p) \in Names /\ Place(Target(p)) \in Nat
  BY <1>1, <1>5, WantedFacts
<1>7. result[p] = "none"
  BY <1>1, <1>2 DEF Course
<1>8. guard[p][Target(p)] = NoInode
  <2> SUFFICES ASSUME guard[p][Target(p)] # NoInode PROVE FALSE
    OBVIOUS
  <2>1. Target(p) \in Guards(p)
    BY <1>6 DEF Guards
  <2>2. PICK i \in 1 .. got[p] : Wanted(p)[i] = Target(p)
    BY <1>1, <1>7, <2>1 DEF Course
  <2>3. i \in 1 .. Len(Wanted(p)) /\ i < got[p] + 1
    BY <1>3, <1>5
  <2>4. Before(Target(p), Target(p))
    BY <1>1, <1>5, <2>2, <2>3, WantedFacts
  <2> QED
    BY <1>6, <2>4, BeforeOrder
<1>9. Shared'
  BY <1>1, <1>2, <1>4, <1>6, <1>8, LockShared
<1>10. OwnFiles(p) /\ Guards(p)' = Guards(p) \cup {Target(p)}
  BY <1>1, <1>2, <1>6, NoInodeAssumption DEF Lock, OwnFiles, FileTypes, Guards
<1>11. Course(p)'
  <2>1. /\ got'[p] = got[p] + 1 /\ Wanted(p)' = Wanted(p) /\ result'[p] = "none"
        /\ pc'[p] = pc[p] /\ got'[p] \in 0 .. Len(Wanted(p))
    BY <1>2, <1>3, <1>4, <1>5, <1>7 DEF Wanted
  <2>2. ASSUME NEW n \in Guards(p)' PROVE \E i \in 1 .. got'[p] : Wanted(p)[i] = n
    <3>1. CASE n \in Guards(p)
      <4>1. PICK i \in 1 .. got[p] : Wanted(p)[i] = n
        BY <1>1, <1>7, <3>1 DEF Course
      <4>2. i \in 1 .. got'[p]
        BY <1>3, <2>1
      <4> QED
        BY <4>1, <4>2
    <3>2. CASE n = Target(p)
      BY <1>3, <1>5, <2>1, <3>2
    <3> QED
      BY <1>10, <3>1, <3>2
  <2> QED
    BY <1>1, <1>2, <2>1, <2>2 DEF Course
<1>12. Turns'
  BY <1>1, <1>2, <1>4, <1>10, <1>11, TurnsStep DEF Turns, Results
<1>13. Proceeding'
  <2>1. \A q \in Procs : result[q] = "busy" => got'[q] = got[q]
    BY <1>4, <1>7
  <2>2. \A q \in Procs : got'[q] \in Nat /\ got[q] <= got'[q]
    BY <1>3, <1>4
  <2> QED
    BY <1>1, <1>2, <2>1, <2>2, ProceedingStays
<1> QED
  BY <1>9, <1>12, <1>13 DEF OrderInv, Shared

LEMMA SweepLockOrder ==
  ASSUME LockInv, OrderInv, NEW p \in Procs, SweepLock(p) PROVE OrderInv'
<1>1. FileTypes /\ ControlTypes /\ Placed(p) /\ Shared /\ Course(p)
  BY DEF LockInv, FileInv, OrderInv, Shared, Turns
<1>2. Lock(p) /\ opened[p] # NoInode /\ pc[p] = "sweep" /\ UNCHANGED ctlVars
  BY DEF SweepLock, Lock
<1>3. Alone(p)
  BY <1>2 DEF Alone, ctlVars
<1>4. Target(p) \in Names /\ Guards(p) = {}
  BY <1>1, <1>2, TargetNamed DEF Placed
<1>5. guard[p][Target(p)] = NoInode
  BY <1>4 DEF Guards
<1>6. Shared'
  BY <1>1, <1>2, <1>3, <1>4, <1>5, LockShared
<1>7. OwnFiles(p)
  BY <1>1, <1>2, <1>4 DEF Lock, OwnFiles, FileTypes
<1>8. result[p] \notin {"none", "busy"}
  BY <1>1, <1>2 DEF Course
<1>9. Course(p)'
  BY <1>1, <1>2, <1>8 DEF Course, Wanted, ctlVars
<1> QED
  BY <1>2, <1>3, <1>6, <1>7, <1>9, QuietOrder DEF ctlVars

LEMMA DropsOrder ==
  ASSUME LockInv, OrderInv, NEW p \in Procs, DropGuard(p) \/ SweepNext(p) PROVE OrderInv'
<1>1. FileTypes /\ ControlTypes /\ Placed(p) /\ Shared /\ Course(p)
  BY DEF LockInv, FileInv, OrderInv, Shared, Turns
<1>2. PICK n \in Guards(p) : Drop(p, n)
  BY <1>1 DEF DropGuard, SweepNext, Placed
<1>3. /\ entry' = entry /\ opened' = opened /\ UNCHANGED <<command, got, result>> /\ Alone(p)
      /\ \/ pc[p] = "drop" /\ pc' = pc /\ todo' = todo
         \/ pc[p] = "swept" /\ pc' = [pc EXCEPT ![p] = "sweep"]
  BY <1>1 DEF DropGuard, SweepNext, ctlVars, Alone, ControlTypes
<1>4. Target(p)' = Target(p) \/ opened[p] = NoInode
  BY <1>1, <1>3 DEF Placed, Target
<1>5. Shared'
  BY <1>1, <1>2, <1>3, <1>4, DropShared
<1>6. OwnFiles(p) /\ Guards(p)' \subseteq Guards(p)
  <2>1. n \in Names
    BY DEF Guards
  <2>2. guard' = [guard EXCEPT ![p][n] = NoInode]
    BY <1>2 DEF Drop
  <2> QED
    BY <1>1, <1>3, <2>1, <2>2 DEF OwnFiles, FileTypes, Guards
<1>7. Course(p)'
  <2>1. /\ got'[p] = got[p] /\ Wanted(p)' = Wanted(p) /\ result'[p] = result[p]
        /\ pc'[p] = pc[p] \/ (pc[p] = "swept" /\ pc'[p] = "sweep")
    BY <1>1, <1>3 DEF Wanted, ControlTypes
  <2> QED
    BY <1>1, <1>6, <2>1 DEF Course
<1> QED
  BY <1>3, <1>5, <1>6, <1>7, QuietOrder

LEMMA RemovesOrder ==
  ASSUME LockInv, OrderInv, NEW p \in Procs, UnlinkGuard(p) \/ SweepRemove(p) PROVE OrderInv'
<1>1. FileTypes /\ ControlTypes /\ Placed(p) /\ Shared /\ Course(p)
  BY DEF LockInv, FileInv, OrderInv, Shared, Turns
<1>2. /\ UNCHANGED <<lock, guard, opened, command, got, result>> /\ Alone(p)
      /\ \/ pc[p] = "unlink" /\ pc' = pc
         \/ pc[p] = "sweep" /\ Guards(p) # {} /\ pc' = [pc EXCEPT ![p] = "swept"]
  BY <1>1 DEF UnlinkGuard, SweepRemove, Alone, ControlTypes
<1>3. opened[p] = NoInode
  BY <1>1, <1>2 DEF Placed
<1>4. Shared' /\ OwnFiles(p) /\ Guards(p)' = Guards(p)
  BY <1>1, <1>2, <1>3, RemoveShared DEF OwnFiles, Guards
<1>5. Course(p)'
  <2>1. /\ got'[p] = got[p] /\ Wanted(p)' = Wanted(p) /\ result'[p] = result[p]
        /\ pc'[p] = pc[p] \/ (pc[p] = "sweep" /\ pc'[p] = "swept")
    BY <1>1, <1>2 DEF Wanted, ControlTypes
  <2> QED
    BY <1>1, <1>4, <2>1 DEF Course
<1> QED
  BY <1>2, <1>4, <1>5, QuietOrder

\* The rest at most close a file that was opened and go on.
LEMMA MovesOrder ==
  ASSUME LockInv, OrderInv, NEW p \in Procs,
         \/ Start(p) \/ AllLocked(p) \/ StartUnlink(p) \/ StartSweep(p) \/ SweepGone(p)
         \/ SweepBusy(p) \/ Exit(p)
  PROVE  OrderInv'
<1>1. FileTypes /\ ControlTypes /\ Placed(p) /\ Shared /\ Course(p)
  BY DEF LockInv, FileInv, OrderInv, Shared, Turns
<1>2. /\ UNCHANGED <<entry, lock, guard, command, got, result>> /\ Alone(p)
      /\ \/ opened' = [opened EXCEPT ![p] = NoInode]
         \/ opened' = opened /\ opened[p] = NoInode
         \/ opened' = opened /\ pc[p] # "sweep" /\ UNCHANGED <<todo>> /\ pc'[p] # "lock"
            /\ pc[p] # "lock"
  <2>1. got[p] \in Nat
    BY <1>1 DEF ControlTypes
  <2> QED
    BY <1>1, <2>1 DEF Start, AllLocked, StartUnlink, StartSweep, SweepGone, SweepBusy, Exit, fileVars,
      Alone, ControlTypes, Placed
<1>3. Target(p)' = Target(p) \/ opened[p] = NoInode \/ opened' = [opened EXCEPT ![p] = NoInode]
  BY <1>1, <1>2 DEF Target, Placed
<1>4. Quiet(p) /\ OwnFiles(p) /\ Guards(p)' = Guards(p)
  BY <1>1, <1>2, <1>3 DEF Quiet, OwnFiles, Guards, FileTypes
<1>5. Shared'
  BY <1>1, <1>4, QuietShared
<1>6. \/ pc[p] \in {"idle", "lock", "work", "unlink"} /\ pc'[p] \in {"idle", "lock", "work", "unlink"}
      \/ pc[p] \in {"drop", "sweep"} /\ pc'[p] \in {"sweep", "done"}
         /\ (pc'[p] = "sweep" => result[p] = "ok" \/ pc[p] = "sweep")
  BY <1>1 DEF Start, AllLocked, StartUnlink, StartSweep, SweepGone, SweepBusy, Exit, ControlTypes
<1>7. Course(p)'
  <2>1. got'[p] = got[p] /\ Wanted(p)' = Wanted(p) /\ result'[p] = result[p]
    BY <1>2 DEF Wanted
  <2> QED
    BY <1>1, <1>4, <1>6, <2>1 DEF Course
<1> QED
  BY <1>2, <1>4, <1>5, <1>7, QuietOrder

LEMMA EndsOrder ==
  ASSUME LockInv, OrderInv, Orderly, NEW p \in Procs,
         Refused(p) \/ Finish(p) \/ UnlinkDone(p) \/ Kill(p)
  PROVE  OrderInv'
<1>1. FileTypes /\ ControlTypes /\ Placed(p) /\ Shared /\ Course(p) /\ Turns
  BY DEF LockInv, FileInv, OrderInv, Shared, Turns
<1>2. UNCHANGED <<entry, lock, guard, command, got, todo>> /\ Alone(p)
  BY <1>1 DEF Refused, Finish, UnlinkDone, Kill, End, fileVars, Alone, ControlTypes
<1>3. opened' = [opened EXCEPT ![p] = NoInode] \/ (opened' = opened /\ opened[p] = NoInode)
  BY <1>1 DEF Refused, Finish, UnlinkDone, Kill, fileVars, Placed
<1>4. Quiet(p) /\ OwnFiles(p) /\ Guards(p)' = Guards(p)
  BY <1>1, <1>2, <1>3 DEF Quiet, OwnFiles, Guards, FileTypes
<1>5. Shared'
  BY <1>1, <1>4, QuietShared
<1>6. CASE Refused(p)
  <2>1. Proceeding'
    BY <1>6, RefusedProceeds
  <2>2. /\ result'[p] = "busy" /\ pc'[p] = "drop" /\ got'[p] = got[p] /\ Wanted(p)' = Wanted(p)
        /\ Results' /\ \A q \in Procs \ {p} : result'[q] = result[q]
    BY <1>1, <1>2, <1>6 DEF Refused, End, Turns, Results, ControlTypes, Wanted
  <2>3. result[p] = "none" /\ got[p] < Len(Wanted(p))
    BY <1>1, <1>6 DEF Refused, Course, Placed, Wanted
  <2>4. Course(p)'
    BY <1>1, <1>4, <2>2, <2>3 DEF Course
  <2> QED
    BY <1>1, <1>2, <1>4, <1>5, <2>1, <2>2, <2>4, TurnsStep DEF OrderInv, Shared
<1>7. CASE Finish(p) \/ UnlinkDone(p) \/ Kill(p)
  <2>1. End(p, "ok") \/ End(p, "killed")
    BY <1>7 DEF Finish, UnlinkDone, Kill
  <2> QED
    BY <1>2, <1>4, <1>5, <2>1, EndOrder
<1> QED
  BY <1>6, <1>7

LEMMA OrderInit == Init => OrderInv
<1> SUFFICES ASSUME Init PROVE OrderInv
  OBVIOUS
<1>1. Sharing /\ Backed /\ Proceeding
  BY DEF Init, Sharing, Backed, Proceeding
<1>2. ASSUME NEW p \in Procs PROVE Course(p)
  <2>1. Len(Wanted(p)) \in Nat
    BY WantsGiven DEF Init, Wanted
  <2> QED
    BY <2>1 DEF Init, Course, Guards
<1>3. Results
  BY DEF Init, Results
<1> QED
  BY <1>1, <1>2, <1>3 DEF OrderInv, Turns

LEMMA OrderKeeps == LockInv /\ OrderInv /\ Orderly /\ [Next]_vars => OrderInv'
<1> SUFFICES ASSUME LockInv, OrderInv, Orderly, [Next]_vars PROVE OrderInv'
  OBVIOUS
<1>1. CASE UNCHANGED vars
  BY <1>1 DEF vars, fileVars, ctlVars, OrderInv, Sharing, Backed, Turns, Results, Course, Proceeding,
    Target, Guards, Wanted, Reached, Before
<1>2. ASSUME NEW p \in Procs, Start(p) \/ Step(p) \/ Kill(p) PROVE OrderInv'
  BY <1>2, OpensOrder, LockNextOrder, SweepLockOrder, DropsOrder, RemovesOrder, MovesOrder, EndsOrder
    DEF Step
<1> QED
  BY <1>1, <1>2 DEF Next, AllDone

LEMMA CommandsStay == [Next]_vars => command' = command
BY DEF Next, AllDone, vars, fileVars, ctlVars, Start, Step, Kill, OpenNext, LockNext, Refused, AllLocked,
  Finish, StartUnlink, UnlinkGuard, UnlinkDone, DropGuard, StartSweep, SweepGone, SweepOpen, SweepLock,
  SweepBusy, SweepRemove, SweepNext, Exit

LEMMA OrderProceeds == OrderInv => SomeoneProceeds
<1> SUFFICES ASSUME OrderInv, \A p \in Procs : pc[p] = "done" /\ command[p].op # "reinstall"
             PROVE  \E p \in Procs : result[p] # "busy"
  BY DEF SomeoneProceeds
<1>1. \A p \in Procs : result[p] # "none"
  BY DEF OrderInv, Turns, Course
<1>2. PICK p \in Procs : TRUE
  BY ProcsAssumption
<1>3. CASE \A q \in Procs : result[q] = "busy"
  BY <1>1, <1>2, <1>3 DEF OrderInv, Proceeding
<1> QED
  BY <1>3

\* Commands that lock in one order cannot all refuse each other, however many there
\* are and whatever they lock: the one that has gone furthest in that order is not
\* refused (transaction.rs, lock_targets; tap.rs; cask/mod.rs).
THEOREM Proceeds == Spec => []SomeoneProceeds
<1>1. Init => (Orderly => OrderInv) /\ (~Orderly => SomeoneProceeds)
  BY OrderInit DEF SomeoneProceeds, Orderly
<1>2. LockInv /\ (Orderly => OrderInv) /\ [Next]_vars => (Orderly => OrderInv)'
  <2>1. [Next]_vars => (Orderly' <=> Orderly)
    BY CommandsStay DEF Orderly
  <2> QED
    BY <2>1, OrderKeeps
<1>3. (Orderly => OrderInv) => SomeoneProceeds
  BY OrderProceeds DEF SomeoneProceeds, Orderly
<1> QED
  BY <1>1, <1>2, <1>3, Consistent, PTL DEF Spec
-----------------------------------------------------------------------------
(* The linker.  No command loses a file of the user: the planner has seen  *)
(* every destination before the first write, so the invariant follows the  *)
(* plan: what is still to come finds its destination, and what is below it,*)
(* as it was planned (Pending).                                            *)

\* What is above a path is totally ordered.
LEMMA PathOrder ==
    ASSUME NEW p \in Paths, NEW q \in Paths, NEW r \in Paths
    PROVE  /\ Above(p) \subseteq Paths
           /\ p \notin Above(p)
           /\ p \in Above(q) /\ q \in Above(r) => p \in Above(r)
           /\ p \in Above(r) /\ q \in Above(r) => p = q \/ p \in Above(q) \/ q \in Above(p)
           /\ Len(p) = 1 => Above(p) = {}
<1> DEFINE N == UNION {ToSet(x) : x \in Paths}
           Starts(x, y) == Len(x) < Len(y) /\ \A i \in 1 .. Len(x) : x[i] = y[i]
<1>1. \A x \in Paths : x \in Seq(N) /\ x # <<>>
  <2> TAKE x \in Paths
  <2>1. x \in Seq(ToSet(x)) /\ x # <<>>
    BY LinkerAssumption
  <2>2. \A i \in 1 .. Len(x) : x[i] \in N
    BY <2>1
  <2> QED
    BY <2>1, <2>2
<1> HIDE DEF N
<1>2. ASSUME NEW x \in Paths, NEW y \in Paths PROVE x \in Above(y) <=> Starts(x, y)
  <2>1. x \in Seq(N) /\ y \in Seq(N) /\ x # <<>> /\ Len(x) \in Nat /\ Len(x) > 0 /\ Len(y) \in Nat
    BY <1>1
  <2>2. Above(y) = {SubSeq(y, 1, n) : n \in 1 .. Len(y) - 1}
    BY DEF Above, AbovePath
  <2>3. ASSUME x \in Above(y) PROVE Starts(x, y)
    <3>1. PICK n \in 1 .. Len(y) - 1 : x = SubSeq(y, 1, n)
      BY <2>2, <2>3
    <3> QED
      BY <2>1, <3>1
  <2>4. ASSUME Starts(x, y) PROVE x \in Above(y)
    <3>1. Len(x) \in 1 .. Len(y) - 1
      BY <2>1, <2>4
    <3>2. SubSeq(y, 1, Len(x)) \in Seq(N) /\ Len(SubSeq(y, 1, Len(x))) = Len(x)
      BY <2>1, <3>1
    <3>3. \A i \in 1 .. Len(x) : SubSeq(y, 1, Len(x))[i] = x[i]
      BY <2>1, <2>4, <3>1
    <3>4. x = SubSeq(y, 1, Len(x))
      BY <2>1, <3>2, <3>3, SeqEqual
    <3> QED
      BY <2>2, <3>1, <3>4
  <2> QED
    BY <2>3, <2>4
<1>3. ASSUME NEW x \in Paths, NEW y \in Paths, Len(x) = Len(y), \A i \in 1 .. Len(x) : x[i] = y[i]
      PROVE  x = y
  BY <1>1, <1>3, SeqEqual
<1>4. Len(p) \in Nat /\ Len(q) \in Nat /\ Len(r) \in Nat /\ Len(p) > 0
  BY <1>1
<1>5. Above(p) \subseteq Paths
  BY LinkerAssumption
<1>6. p \notin Above(p)
  BY <1>2, <1>4
<1>7. p \in Above(q) /\ q \in Above(r) => p \in Above(r)
  BY <1>2, <1>4
<1>8. p \in Above(r) /\ q \in Above(r) => p = q \/ p \in Above(q) \/ q \in Above(p)
  <2>1. CASE Len(p) < Len(q)
    BY <1>2, <1>4, <2>1
  <2>2. CASE Len(q) < Len(p)
    BY <1>2, <1>4, <2>2
  <2>3. CASE Len(p) = Len(q)
    BY <1>2, <1>3, <1>4, <2>3
  <2> QED
    BY <1>4, <2>1, <2>2, <2>3
<1>9. Len(p) = 1 => Above(p) = {}
  <2>1. \A x \in Paths : Len(x) \in Nat /\ Len(x) > 0
    BY <1>1
  <2> QED
    BY <1>2, <1>5, <2>1
<1> QED
  BY <1>5, <1>6, <1>7, <1>8, <1>9

\* From, by Above.
LEMMA FromAbove ==
    ASSUME NEW p \in Paths
    PROVE  /\ From(p) \subseteq Paths /\ p \in From(p)
           /\ \A q : q \in From(p) <=> q \in Paths /\ (q = p \/ p \in Above(q))
BY DEF From, FromPath

-----------------------------------------------------------------------------
(* Nodes and disks                                                         *)

Nodes == {Absent, RealDir, File, Outside} \cup {LinkTo(k, p) : k \in Kegs, p \in Paths}
Disks == [at : [Paths -> Nodes], backedUp : [Paths -> Nodes],
          opt : [Formulae -> Kegs \cup {NoKegHere, "directory"}],
          linked : [Formulae -> Kegs \cup {NoKegHere}],
          alias : [AliasNames -> Formulae \cup {NoKegHere}]]

LEMMA NodeKinds ==
    /\ Absent \in Nodes /\ RealDir \in Nodes /\ File \in Nodes /\ Outside \in Nodes
    /\ \A k \in Kegs, p \in Paths : LinkTo(k, p) \in Nodes /\ IsLink(LinkTo(k, p))
    /\ ~IsLink(Absent) /\ ~IsLink(RealDir) /\ ~IsLink(File) /\ ~IsLink(Outside)
    /\ Absent # RealDir /\ Absent # File /\ Absent # Outside
    /\ RealDir # File /\ RealDir # Outside /\ File # Outside
    /\ \A n \in Nodes : IsLink(n) => n[2] \in Kegs
    /\ \A n \in Nodes : n \in {Absent, RealDir, File, Outside} \/ IsLink(n)
<1>1. Absent[1] = "absent" /\ RealDir[1] = "dir" /\ File[1] = "file" /\ Outside[1] = "outside"
  BY DEF Absent, RealDir, File, Outside
<1>2. \A k, p : LinkTo(k, p)[1] = "link" /\ LinkTo(k, p)[2] = k
  BY DEF LinkTo
<1> QED
  BY <1>1, <1>2 DEF Nodes, IsLink

\* No file of the user is lost, given what is in the prefix and in Backup.
NoneLost(m, b) ==
    \A p \in Paths : mine[p] \in {File, Outside} /\ Name(p) # ".DS_Store"
        => m[p] = mine[p] \/ b[p] = mine[p] \/ IsLink(b[p])
\* Only the user makes files and foreign links.
Theirs(m) == \A p \in Paths : m[p] \in {File, Outside} => m[p] = mine[p]
Fine(m, b) ==
    /\ m \in [Paths -> Nodes] /\ b \in [Paths -> Nodes]
    /\ Treelike(m) /\ Theirs(m) /\ NoneLost(m, b)
FineDisk(d) == d \in Disks /\ Fine(d.at, d.backedUp)

\* Nothing but directories above.
OpenAbove(m, p) == \A a \in Above(p) : m[a] \in {RealDir, Absent}

LEMMA TreeFacts ==
    ASSUME NEW m, Treelike(m), NEW p \in Paths
    PROVE  /\ m[p] # Absent => \A a \in Above(p) : m[a] = RealDir
           /\ m[p] # RealDir => \A q \in From(p) : q = p \/ m[q] = Absent
BY FromAbove DEF Treelike, Absent, RealDir

\* create_dir_all where nothing of the user is.
LEMMA DirsFine ==
    ASSUME NEW m, NEW b, Fine(m, b), NEW p \in Paths, OpenAbove(m, p), m[p] \notin {File, Outside}
    PROVE  /\ Fine(WithDirs(m, p), b)
           /\ \A q \in Paths : q # p /\ q \notin Above(p) => WithDirs(m, p)[q] = m[q]
           /\ \A q \in Paths : q = p \/ q \in Above(p) => WithDirs(m, p)[q] = RealDir
<1> DEFINE w == WithDirs(m, p)
<1>1. /\ w \in [Paths -> Nodes]
      /\ \A q \in Paths : q = p \/ q \in Above(p) => w[q] = RealDir
      /\ \A q \in Paths : q # p /\ q \notin Above(p) => w[q] = m[q]
  BY NodeKinds DEF WithDirs, Fine
<1> HIDE DEF w
<1>2. \A q \in Paths : w[q] = m[q] \/ (w[q] = RealDir /\ m[q] \notin {File, Outside})
  BY <1>1, NodeKinds DEF OpenAbove
<1>3. Theirs(w) /\ NoneLost(w, b)
  BY <1>2, NodeKinds DEF Fine, Theirs, NoneLost
<1>4. Treelike(w)
  <2> SUFFICES ASSUME NEW q \in Paths, w[q] # Absent, NEW a \in Above(q) PROVE w[a] = RealDir
    BY DEF Treelike, Absent, RealDir
  <2>1. a \in Paths
    BY PathOrder
  <2>2. CASE q = p \/ q \in Above(p)
    BY <1>1, <2>1, <2>2, PathOrder
  <2>3. CASE q # p /\ q \notin Above(p)
    <3>1. m[a] = RealDir
      BY <1>1, <2>3, TreeFacts DEF Fine
    <3> QED
      BY <1>1, <2>1, <3>1
  <2> QED
    BY <2>2, <2>3
<1> QED
  BY <1>1, <1>3, <1>4 DEF Fine, w

\* One node changes below real directories, where nothing is below it.
LEMMA NodeFine ==
    ASSUME NEW m, NEW b, Fine(m, b), NEW p \in Paths, NEW n \in Nodes, n \notin {File, Outside},
           m[p] \notin {File, Outside},
           n # Absent => \A a \in Above(p) : m[a] = RealDir,
           n = RealDir \/ \A q \in From(p) : q = p \/ m[q] = Absent
    PROVE  Fine([m EXCEPT ![p] = n], b)
<1> DEFINE w == [m EXCEPT ![p] = n]
<1>1. /\ w \in [Paths -> Nodes] /\ w[p] = n
      /\ \A q \in Paths : q # p => w[q] = m[q]
  BY DEF Fine
<1> HIDE DEF w
<1>2. Theirs(w) /\ NoneLost(w, b)
  BY <1>1, NodeKinds DEF Fine, Theirs, NoneLost
<1>3. Treelike(w)
  <2> SUFFICES ASSUME NEW q \in Paths, w[q] # Absent, NEW a \in Above(q) PROVE w[a] = RealDir
    BY DEF Treelike, Absent, RealDir
  <2>1. a \in Paths /\ (a = p => q # p)
    BY PathOrder
  <2>2. CASE q = p
    BY <1>1, <2>1, <2>2
  <2>3. CASE q # p
    <3>1. m[a] = RealDir
      BY <1>1, <2>3, TreeFacts DEF Fine
    <3>2. a = p => n = RealDir
      BY <1>1, <2>3, FromAbove
    <3> QED
      BY <1>1, <2>1, <3>1, <3>2
  <2> QED
    BY <2>2, <2>3
<1> QED
  BY <1>1, <1>2, <1>3 DEF Fine, w

LEMMA LinkFine ==
    ASSUME NEW m, NEW b, Fine(m, b), NEW p \in Paths, NEW k \in Kegs, OpenAbove(m, p),
           m[p] \notin {File, Outside, RealDir}
    PROVE  /\ Fine(WithLink(m, k, p), b)
           /\ \A q \in Paths : q # p /\ q \notin Above(p) => WithLink(m, k, p)[q] = m[q]
           /\ \A q \in Above(p) : WithLink(m, k, p)[q] = RealDir
<1> DEFINE w == WithDirs(m, p)
<1>1. /\ Fine(w, b)
      /\ \A q \in Paths : q # p /\ q \notin Above(p) => w[q] = m[q]
      /\ \A q \in Paths : q = p \/ q \in Above(p) => w[q] = RealDir
  BY DirsFine
<1> HIDE DEF w
<1>2. \A q \in From(p) : q = p \/ (q # p /\ q \notin Above(p) /\ q \in Paths)
  BY PathOrder, FromAbove
<1>3. \A q \in From(p) : q = p \/ w[q] = Absent
  BY <1>1, <1>2, TreeFacts DEF Fine
<1>4. Above(p) \subseteq Paths /\ p \notin Above(p)
  BY PathOrder
<1>5. Fine([w EXCEPT ![p] = LinkTo(k, p)], b)
  BY <1>1, <1>3, <1>4, NodeFine, NodeKinds
<1>6. w \in [Paths -> Nodes]
  BY <1>1 DEF Fine
<1> QED
  BY <1>1, <1>4, <1>5, <1>6 DEF WithLink, w

\* expand_dir leaves directories above every link it makes.
LEMMA ExpandFine ==
    ASSUME NEW m, NEW b, Fine(m, b), NEW p \in Paths, IsLink(m[p])
    PROVE  /\ Fine(ExpandDir(m, p), b)
           /\ \A q \in Paths : q \notin From(p) => ExpandDir(m, p)[q] = m[q]
<1> DEFINE k == m[p][2]
           shipped == (From(p) \ {p}) \cap DOMAIN Tree[k]
           w == ExpandDir(m, p)
<1>1. k \in Kegs
  BY NodeKinds DEF Fine
<1>2. \A q \in shipped : /\ q \in Paths /\ q # p /\ p \in Above(q)
                         /\ \A a \in Above(q) : a \in DOMAIN Tree[k] /\ Tree[k][a] = "dir"
  BY <1>1, LinkerAssumption, FromAbove
<1>3. /\ w \in [Paths -> Nodes]
      /\ \A q \in Paths : q = p \/ (q \in shipped /\ Tree[k][q] = "dir") => w[q] = RealDir
      /\ \A q \in Paths : q # p /\ q \in shipped /\ Tree[k][q] # "dir" => w[q] = LinkTo(k, q)
      /\ \A q \in Paths : q # p /\ q \notin shipped => w[q] = m[q]
  BY <1>1, NodeKinds DEF ExpandDir, Fine
<1>4. m[p] \notin {Absent, RealDir, File, Outside}
  BY NodeKinds
<1>5. /\ \A a \in Above(p) : m[a] = RealDir
      /\ \A q \in From(p) : q = p \/ m[q] = Absent
  BY <1>4, TreeFacts DEF Fine
<1>6. \A q \in shipped : m[q] = Absent /\ q \in From(p)
  BY <1>2, <1>5
<1> HIDE DEF w, shipped
<1>7. \A q \in Paths : w[q] = m[q] \/ (w[q] \notin {File, Outside} /\ m[q] \notin {File, Outside})
  BY <1>1, <1>3, <1>4, <1>6, NodeKinds
<1>8. Theirs(w) /\ NoneLost(w, b)
  BY <1>7, NodeKinds DEF Fine, Theirs, NoneLost
<1>9. Treelike(w)
  <2> SUFFICES ASSUME NEW q \in Paths, w[q] # Absent, NEW a \in Above(q) PROVE w[a] = RealDir
    BY DEF Treelike, Absent, RealDir
  <2>1. a \in Paths
    BY PathOrder
  <2>2. ASSUME a \in Above(p) PROVE w[a] = RealDir
    <3>1. a # p /\ a \notin From(p) /\ m[a] = RealDir
      BY <1>5, <2>1, <2>2, PathOrder, FromAbove
    <3> QED
      BY <1>3, <1>6, <2>1, <3>1
  <2>3. CASE q = p
    BY <2>2, <2>3
  <2>4. CASE q # p /\ q \in shipped
    <3>1. a \in Above(p) \/ a = p \/ p \in Above(a)
      BY <1>2, <2>1, <2>4, PathOrder
    <3>2. ASSUME p \in Above(a) PROVE a \in shipped /\ Tree[k][a] = "dir"
      <4>1. a \in From(p) /\ a # p
        BY <2>1, <3>2, FromAbove, PathOrder
      <4>2. a \in DOMAIN Tree[k] /\ Tree[k][a] = "dir"
        BY <1>2, <2>4
      <4> QED
        BY <4>1, <4>2 DEF shipped
    <3> QED
      BY <1>3, <2>1, <2>2, <3>1, <3>2
  <2>5. CASE q # p /\ q \notin shipped
    <3>1. m[q] # Absent
      BY <1>3, <2>5
    <3>2. m[a] = RealDir
      BY <3>1, TreeFacts DEF Fine
    <3>3. a # p /\ a \notin shipped
      BY <1>4, <1>6, <3>2, NodeKinds
    <3> QED
      BY <1>3, <2>1, <3>2, <3>3
  <2> QED
    BY <2>3, <2>4, <2>5
<1>10. \A q \in Paths : q \notin From(p) => w[q] = m[q]
  BY <1>3, <1>6, FromAbove
<1> QED
  BY <1>3, <1>8, <1>9, <1>10 DEF Fine, w

\* What is taken away with all that is below it, and is nothing of the user's.
LEMMA WithoutFine ==
    ASSUME NEW m, NEW b, Fine(m, b), NEW S \in SUBSET Paths,
           \A p \in S : m[p] \in {File, Outside} => Name(p) = ".DS_Store",
           \A p \in S : \A q \in From(p) : m[q] = Absent \/ q \in S
    PROVE  Fine(WithoutAll(m, S), b)
<1> DEFINE w == WithoutAll(m, S)
<1>1. /\ w \in [Paths -> Nodes]
      /\ \A q \in Paths : q \in S => w[q] = Absent
      /\ \A q \in Paths : q \notin S => w[q] = m[q]
  BY NodeKinds DEF WithoutAll, Fine
<1> HIDE DEF w
<1>2. Theirs(w) /\ NoneLost(w, b)
  BY <1>1, NodeKinds DEF Fine, Theirs, NoneLost
<1>3. Treelike(w)
  <2> SUFFICES ASSUME NEW q \in Paths, w[q] # Absent, NEW a \in Above(q) PROVE w[a] = RealDir
    BY DEF Treelike, Absent, RealDir
  <2>1. a \in Paths /\ q \in From(a)
    BY PathOrder, FromAbove
  <2>2. q \notin S /\ m[q] # Absent
    BY <1>1
  <2>3. m[a] = RealDir
    BY <2>2, TreeFacts DEF Fine
  <2> QED
    BY <1>1, <2>1, <2>2, <2>3
<1> QED
  BY <1>1, <1>2, <1>3 DEF Fine, w

\* A backup that is not refused.
LEMMA MoveFine ==
    ASSUME NEW d, FineDisk(d), NEW p \in Paths, NEW op \in {"backup", "backup_mkdir"},
           ~BackupRefused(d, p, op), d.at[p] # Absent
    PROVE  /\ FineDisk(MoveAway(d, p))
           /\ \A q \in From(p) : MoveAway(d, p).at[q] = Absent
           /\ \A q \in Paths : q \notin From(p) => MoveAway(d, p).at[q] = d.at[q]
           /\ OpenAbove(MoveAway(d, p).at, p)
<1> DEFINE m == d.at  b == d.backedUp
           v == WithoutAll(m, From(p))
           c == [q \in Paths |-> IF q \in From(p) THEN m[q] ELSE b[q]]
<1>1. Fine(m, b) /\ d \in Disks
  BY DEF FineDisk
<1>2. /\ v \in [Paths -> Nodes] /\ c \in [Paths -> Nodes]
      /\ \A q \in From(p) : v[q] = Absent /\ c[q] = m[q]
      /\ \A q \in Paths : q \notin From(p) => v[q] = m[q] /\ c[q] = b[q]
  BY <1>1, FromAbove, NodeKinds DEF WithoutAll, Fine
<1>3. MoveAway(d, p) = [d EXCEPT !.backedUp = c, !.at = v]
  BY DEF MoveAway
<1> HIDE DEF v, c
<1>4. MoveAway(d, p).at = v /\ MoveAway(d, p).backedUp = c /\ MoveAway(d, p) \in Disks
  BY <1>1, <1>2, <1>3 DEF Disks
<1>5. /\ b[p] \notin {Outside, RealDir} /\ ~IsLink(b[p])
      /\ m[p] = RealDir => b[p] = Absent
      /\ \A q \in From(p) : q # p => b[q] = Absent
  BY DEF BackupRefused, IsSymlink
<1>6. Theirs(v)
  BY <1>1, <1>2, NodeKinds, FromAbove DEF Fine, Theirs
<1>7. NoneLost(v, c)
  <2> SUFFICES ASSUME NEW q \in Paths, mine[q] \in {File, Outside}, Name(q) # ".DS_Store"
               PROVE  v[q] = mine[q] \/ c[q] = mine[q] \/ IsLink(c[q])
    BY DEF NoneLost
  <2>1. m[q] = mine[q] \/ b[q] = mine[q] \/ IsLink(b[q])
    BY <1>1 DEF Fine, NoneLost
  <2>2. CASE q \notin From(p)
    BY <1>2, <2>1, <2>2
  <2>3. CASE q \in From(p) /\ m[q] # mine[q]
    <3>1. q = p /\ b[p] = mine[p] /\ mine[p] = File
      BY <1>5, <2>1, <2>3, NodeKinds
    <3>2. m[p] \notin {Absent, RealDir, File, Outside} /\ m[p] \in Nodes
      BY <1>1, <1>5, <2>3, <3>1, NodeKinds DEF Fine, Theirs
    <3> QED
      BY <1>2, <2>3, <3>1, <3>2, NodeKinds
  <2>4. CASE q \in From(p) /\ m[q] = mine[q]
    BY <1>2, <2>4
  <2> QED
    BY <2>2, <2>3, <2>4
<1>8. Treelike(v)
  <2> SUFFICES ASSUME NEW q \in Paths, v[q] # Absent, NEW a \in Above(q) PROVE v[a] = RealDir
    BY DEF Treelike, Absent, RealDir
  <2>1. a \in Paths /\ q \notin From(p)
    BY <1>2, PathOrder
  <2>2. a \notin From(p)
    BY <2>1, PathOrder, FromAbove
  <2>3. m[a] = RealDir
    BY <1>1, <1>2, <2>1, TreeFacts DEF Fine
  <2> QED
    BY <1>2, <2>1, <2>2, <2>3
<1>9. \A a \in Above(p) : v[a] = RealDir
  <2> TAKE a \in Above(p)
  <2>1. a \in Paths /\ a \notin From(p)
    BY PathOrder, FromAbove
  <2>2. m[a] = RealDir
    BY <1>1, TreeFacts DEF Fine
  <2> QED
    BY <1>2, <2>1, <2>2
<1> QED
  BY <1>2, <1>4, <1>6, <1>7, <1>8, <1>9 DEF FineDisk, Fine, OpenAbove

-----------------------------------------------------------------------------
(* The plan                                                                *)

LEMMA ClassKinds ==
    ASSUME NEW d, FineDisk(d), NEW k \in Kegs, NEW p \in Paths
    PROVE  /\ Classify(d, k, p) \in {"absent", "broken", "to_keg", "cellar_dir", "real_dir", "conflict"}
           /\ Classify(d, k, p) = "absent" <=> d.at[p] = Absent
           /\ Classify(d, k, p) \in {"broken", "to_keg", "cellar_dir"} => IsLink(d.at[p])
           /\ d.at[p] = RealDir <=> Classify(d, k, p) = "real_dir"
<1>1. d.at[p] \in Nodes
  BY DEF FineDisk, Fine
<1>2. Resolves(Outside)
  BY DEF Resolves
<1>3. ~IsSymlink(RealDir) /\ ~MergeDir(RealDir) /\ ~ResolvesTo(RealDir, k, p)
  BY NodeKinds DEF IsSymlink, MergeDir, ResolvesTo
<1>4. IsSymlink(d.at[p]) /\ ~Resolves(d.at[p]) => IsLink(d.at[p])
  BY <1>2 DEF IsSymlink
<1>5. ResolvesTo(d.at[p], k, p) \/ MergeDir(d.at[p]) => IsLink(d.at[p])
  BY NodeKinds DEF ResolvesTo, MergeDir
<1> QED
  BY <1>1, <1>3, <1>4, <1>5, NodeKinds DEF Classify

OpKinds == {"none", "symlink", "replace", "mkdir", "replace_mkdir", "expand", "backup", "backup_mkdir"}
\* What a plan made on disk d finds there.
Fits(d, plan) ==
    /\ plan \in [Paths -> OpKinds]
    /\ \A p \in Paths : /\ plan[p] # "none" => OpenAbove(d.at, p) /\ Len(p) > 1
                        /\ plan[p] \in {"mkdir", "symlink"} => d.at[p] = Absent
                        /\ plan[p] \in {"replace", "replace_mkdir", "expand"} => IsLink(d.at[p])
                        /\ plan[p] \in {"backup", "backup_mkdir"} => d.at[p] # Absent
    /\ \A p, q \in Paths : plan[p] # "none" /\ plan[q] # "none" /\ p \in Above(q) => plan[p] = "mkdir"

LEMMA OpFits ==
    ASSUME NEW d, FineDisk(d), NEW k \in Kegs, NEW overwrite \in BOOLEAN, NEW p \in Classified(d, k),
           PlannedOp(d, k, p, overwrite) # "conflict"
    PROVE  LET op == PlannedOp(d, k, p, overwrite) IN
           /\ p \in Paths /\ Len(p) > 1 /\ p \in Visited(d, k)
           /\ op \in OpKinds
           /\ op \in {"mkdir", "symlink"} => d.at[p] = Absent
           /\ op \in {"replace", "replace_mkdir", "expand"} => IsLink(d.at[p])
           /\ op \in {"backup", "backup_mkdir"} => d.at[p] # Absent
           /\ Tree[k][p] = "dir" /\ op # "none" /\ ~IsLink(d.at[p]) /\ Descends(d, k, p) /\ OpenAbove(d.at, p)
                /\ d.at[p] \in {RealDir, Absent} => op = "mkdir"
<1> DEFINE c == Classify(d, k, p)
<1>1. p \in Paths /\ Len(p) > 1 /\ p \in Visited(d, k)
  BY LinkerAssumption DEF Classified, Visited
<1>2. /\ c \in {"absent", "broken", "to_keg", "cellar_dir", "real_dir", "conflict"}
      /\ c = "absent" <=> d.at[p] = Absent
      /\ c \in {"broken", "to_keg", "cellar_dir"} => IsLink(d.at[p])
      /\ d.at[p] = RealDir <=> c = "real_dir"
  BY <1>1, ClassKinds
<1>3. Absent # RealDir
  BY NodeKinds
<1>4. PlannedOp(d, k, p, overwrite) \in OpKinds
  BY <1>2 DEF PlannedOp, OpKinds
<1>5. /\ PlannedOp(d, k, p, overwrite) \in {"mkdir", "symlink"} => c = "absent"
      /\ PlannedOp(d, k, p, overwrite) \in {"replace", "replace_mkdir", "expand"}
             => c \in {"broken", "to_keg", "cellar_dir"}
      /\ PlannedOp(d, k, p, overwrite) \in {"backup", "backup_mkdir"} => c # "absent"
  BY <1>2 DEF PlannedOp
<1>6. Tree[k][p] = "dir" /\ PlannedOp(d, k, p, overwrite) # "none" /\ Descends(d, k, p)
          /\ c \in {"real_dir", "absent"} => PlannedOp(d, k, p, overwrite) = "mkdir"
  BY <1>2, <1>3 DEF PlannedOp, Descends
<1> QED
  BY <1>1, <1>2, <1>4, <1>5, <1>6

LEMMA PlanFits ==
    ASSUME NEW d, FineDisk(d), NEW k \in Kegs, NEW overwrite \in BOOLEAN,
           ~PlanRefused(d, k), PlanConflicts(d, k, overwrite) = {}
    PROVE  Fits(d, Plan(d, k, overwrite))
<1> DEFINE plan == Plan(d, k, overwrite)
           C == Classified(d, k)
<1>1. \A p \in Paths : plan[p] = IF p \in C THEN PlannedOp(d, k, p, overwrite) ELSE "none"
  BY DEF Plan
<1>2. \A p \in C : PlannedOp(d, k, p, overwrite) # "conflict"
  BY DEF PlanConflicts
<1>3. \A p \in C : /\ p \in Paths /\ Len(p) > 1 /\ p \in Visited(d, k) /\ plan[p] \in OpKinds
                   /\ plan[p] \in {"mkdir", "symlink"} => d.at[p] = Absent
                   /\ plan[p] \in {"replace", "replace_mkdir", "expand"} => IsLink(d.at[p])
                   /\ plan[p] \in {"backup", "backup_mkdir"} => d.at[p] # Absent
                   /\ Tree[k][p] = "dir" /\ plan[p] # "none" /\ ~IsLink(d.at[p]) /\ Descends(d, k, p)
                        /\ OpenAbove(d.at, p) /\ d.at[p] \in {RealDir, Absent} => plan[p] = "mkdir"
  <2> TAKE p \in C
  <2>1. p \in Paths
    BY LinkerAssumption DEF Classified, Visited
  <2> QED
    BY <1>1, <1>2, <2>1, OpFits
<1>4. \A p \in C : OpenAbove(d.at, p)
  BY DEF PlanRefused, AncestorsReal, OpenAbove
<1>5. plan \in [Paths -> OpKinds]
  BY <1>1, <1>3 DEF Plan, OpKinds
<1>6. ASSUME NEW p \in Paths, NEW q \in Paths, plan[p] # "none", plan[q] # "none", p \in Above(q)
      PROVE  plan[p] = "mkdir"
  <2>1. p \in C /\ q \in C
    BY <1>1, <1>6
  <2>2. Tree[k][p] = "dir" /\ Descends(d, k, p)
    BY <1>3, <1>6, <2>1, LinkerAssumption DEF Visited
  <2>3. d.at[p] \in {RealDir, Absent}
    BY <1>4, <1>6, <2>1 DEF OpenAbove
  <2> QED
    BY <1>3, <1>4, <1>6, <2>1, <2>2, <2>3, NodeKinds
<1> HIDE DEF plan, C
<1>7. \A p \in Paths : plan[p] # "none" => p \in C
  BY <1>1
<1>8. \A p \in Paths : plan[p] \in OpKinds
  BY <1>5
<1> QED
  BY <1>3, <1>4, <1>5, <1>6, <1>7 DEF Fits, plan

-----------------------------------------------------------------------------
(* Carrying it out                                                         *)

\* An operation changes its destination, what is below it, and makes what is above it real.
Changes(e, d, p) ==
    \A q \in Paths : e.at[q] = d.at[q] \/ q \in From(p) \/ (q \in Above(p) /\ e.at[q] = RealDir)

LEMMA AtFine ==
    ASSUME NEW d, FineDisk(d), NEW m, Fine(m, d.backedUp)
    PROVE  FineDisk([d EXCEPT !.at = m]) /\ [d EXCEPT !.at = m].at = m
BY DEF FineDisk, Fine, Disks

LEMMA OpFine ==
    ASSUME NEW d, FineDisk(d), NEW p \in Paths, NEW k \in Kegs, NEW op \in OpKinds \ {"none"},
           OpenAbove(d.at, p), ~BackupRefused(d, p, op),
           op \in {"mkdir", "symlink"} => d.at[p] = Absent,
           op \in {"replace", "replace_mkdir", "expand"} => IsLink(d.at[p]),
           op \in {"backup", "backup_mkdir"} => d.at[p] # Absent
    PROVE  /\ FineDisk(ApplyOp(d, k, p, op)) /\ FineDisk(Halfway(d, p, op))
           /\ Changes(ApplyOp(d, k, p, op), d, p)
           /\ op = "mkdir" => \A q \in From(p) : q # p => ApplyOp(d, k, p, op).at[q] = d.at[q]
           /\ op = "mkdir" => ApplyOp(d, k, p, op).at[p] = RealDir
<1>1. Fine(d.at, d.backedUp) /\ d.at[p] \in Nodes
  BY DEF FineDisk, Fine
<1>2. p \in From(p) /\ From(p) \subseteq Paths /\ Above(p) \subseteq Paths /\ p \notin Above(p)
      /\ \A q \in From(p) : q \notin Above(p)
  BY FromAbove, PathOrder
<1>3. CASE op \in {"mkdir", "replace_mkdir"}
  <2>1. d.at[p] \notin {File, Outside, RealDir}
    BY <1>3, NodeKinds
  <2> DEFINE w == WithDirs(d.at, p)
  <2>2. /\ Fine(w, d.backedUp)
        /\ \A q \in Paths : q # p /\ q \notin Above(p) => w[q] = d.at[q]
        /\ \A q \in Paths : q = p \/ q \in Above(p) => w[q] = RealDir
    BY <1>1, <2>1, DirsFine
  <2>3. ApplyOp(d, k, p, op) = [d EXCEPT !.at = w]
    BY <1>3 DEF ApplyOp
  <2>4. FineDisk(ApplyOp(d, k, p, op)) /\ ApplyOp(d, k, p, op).at = w
    BY <2>2, <2>3, AtFine
  <2>5. FineDisk(Halfway(d, p, op))
    <3>1. CASE op = "mkdir"
      BY <3>1 DEF Halfway
    <3>2. CASE op = "replace_mkdir"
      <4>1. Fine([d.at EXCEPT ![p] = Absent], d.backedUp)
        BY <1>1, <2>1, NodeKinds, NodeFine, TreeFacts DEF Fine
      <4>2. Halfway(d, p, op) = [d EXCEPT !.at = [d.at EXCEPT ![p] = Absent]]
        BY <3>2 DEF Halfway, FineDisk, Disks
      <4> QED
        BY <4>1, <4>2, AtFine
    <3> QED
      BY <1>3, <3>1, <3>2
  <2> HIDE DEF w
  <2> QED
    BY <1>2, <2>2, <2>4, <2>5 DEF Changes
<1>4. CASE op = "backup_mkdir"
  <2> DEFINE v == MoveAway(d, p)
  <2>1. /\ FineDisk(v) /\ OpenAbove(v.at, p)
        /\ \A q \in From(p) : v.at[q] = Absent
        /\ \A q \in Paths : q \notin From(p) => v.at[q] = d.at[q]
    BY <1>4, MoveFine
  <2> HIDE DEF v
  <2> DEFINE w == WithDirs(v.at, p)
  <2>2. v.at[p] \notin {File, Outside} /\ Fine(v.at, v.backedUp)
    BY <1>2, <2>1, NodeKinds DEF FineDisk
  <2>3. /\ Fine(w, v.backedUp)
        /\ \A q \in Paths : q # p /\ q \notin Above(p) => w[q] = v.at[q]
        /\ \A q \in Paths : q = p \/ q \in Above(p) => w[q] = RealDir
    BY <2>1, <2>2, DirsFine
  <2>4. ApplyOp(d, k, p, op) = [v EXCEPT !.at = w] /\ Halfway(d, p, op) = v
    BY <1>4 DEF ApplyOp, Halfway, v
  <2>5. FineDisk(ApplyOp(d, k, p, op)) /\ ApplyOp(d, k, p, op).at = w
    BY <2>1, <2>3, <2>4, AtFine
  <2> HIDE DEF w
  <2> QED
    BY <1>2, <1>4, <2>1, <2>3, <2>4, <2>5 DEF Changes
<1>5. CASE op = "expand"
  <2> DEFINE w == ExpandDir(d.at, p)
  <2>1. Fine(w, d.backedUp) /\ \A q \in Paths : q \notin From(p) => w[q] = d.at[q]
    BY <1>1, <1>5, ExpandFine
  <2>2. ApplyOp(d, k, p, op) = [d EXCEPT !.at = w]
    BY <1>5 DEF ApplyOp
  <2>3. FineDisk(ApplyOp(d, k, p, op)) /\ ApplyOp(d, k, p, op).at = w
    BY <2>1, <2>2, AtFine
  <2>4. d.at[p] \notin {Absent, File, Outside}
    BY <1>5, NodeKinds
  <2>5. Fine([d.at EXCEPT ![p] = RealDir], d.backedUp)
    BY <1>1, <2>4, NodeKinds, NodeFine, TreeFacts DEF Fine
  <2>6. Halfway(d, p, op) = [d EXCEPT !.at = [d.at EXCEPT ![p] = RealDir]]
    BY <1>5 DEF Halfway, FineDisk, Disks
  <2>7. FineDisk(Halfway(d, p, op))
    BY <2>5, <2>6, AtFine
  <2> HIDE DEF w
  <2> QED
    BY <1>5, <2>1, <2>3, <2>7 DEF Changes
<1>6. CASE op = "backup"
  <2> DEFINE v == MoveAway(d, p)
  <2>1. /\ FineDisk(v) /\ OpenAbove(v.at, p)
        /\ \A q \in From(p) : v.at[q] = Absent
        /\ \A q \in Paths : q \notin From(p) => v.at[q] = d.at[q]
    BY <1>6, MoveFine
  <2> HIDE DEF v
  <2> DEFINE w == WithLink(v.at, k, p)
  <2>2. v.at[p] \notin {File, Outside, RealDir} /\ Fine(v.at, v.backedUp)
    BY <1>2, <2>1, NodeKinds DEF FineDisk
  <2>3. /\ Fine(w, v.backedUp)
        /\ \A q \in Paths : q # p /\ q \notin Above(p) => w[q] = v.at[q]
        /\ \A q \in Above(p) : w[q] = RealDir
    BY <2>1, <2>2, LinkFine
  <2>4. ApplyOp(d, k, p, op) = [v EXCEPT !.at = w] /\ Halfway(d, p, op) = v
    BY <1>6 DEF ApplyOp, Halfway, v
  <2>5. FineDisk(ApplyOp(d, k, p, op)) /\ ApplyOp(d, k, p, op).at = w
    BY <2>1, <2>3, <2>4, AtFine
  <2> HIDE DEF w
  <2> QED
    BY <1>2, <1>6, <2>1, <2>3, <2>4, <2>5 DEF Changes
<1>7. CASE op \in {"symlink", "replace"}
  <2>1. d.at[p] \notin {File, Outside, RealDir}
    BY <1>7, NodeKinds
  <2> DEFINE w == WithLink(d.at, k, p)
  <2>2. /\ Fine(w, d.backedUp)
        /\ \A q \in Paths : q # p /\ q \notin Above(p) => w[q] = d.at[q]
        /\ \A q \in Above(p) : w[q] = RealDir
    BY <1>1, <2>1, LinkFine
  <2>3. ApplyOp(d, k, p, op) = [d EXCEPT !.at = w]
    BY <1>7 DEF ApplyOp
  <2>4. FineDisk(ApplyOp(d, k, p, op)) /\ ApplyOp(d, k, p, op).at = w
    BY <2>2, <2>3, AtFine
  <2>5. FineDisk(Halfway(d, p, op))
    <3>1. CASE op = "symlink"
      BY <3>1 DEF Halfway
    <3>2. CASE op = "replace"
      <4>1. Fine([d.at EXCEPT ![p] = Absent], d.backedUp)
        BY <1>1, <2>1, NodeKinds, NodeFine, TreeFacts DEF Fine
      <4>2. Halfway(d, p, op) = [d EXCEPT !.at = [d.at EXCEPT ![p] = Absent]]
        BY <3>2 DEF Halfway, FineDisk, Disks
      <4> QED
        BY <4>1, <4>2, AtFine
    <3> QED
      BY <1>7, <3>1, <3>2
  <2> HIDE DEF w
  <2> QED
    BY <1>2, <1>7, <2>2, <2>4, <2>5 DEF Changes
<1> QED
  BY <1>3, <1>4, <1>5, <1>6, <1>7 DEF OpKinds
\* What is still to come is as it was planned.
Pending(d, e, plan, i) ==
    \A j \in i + 1 .. Len(Order) : plan[Order[j]] # "none" =>
        /\ \A q \in From(Order[j]) : e.at[q] = d.at[q]
        /\ OpenAbove(e.at, Order[j])

LEMMA OrderFacts ==
    /\ Len(Order) \in Nat
    /\ \A i \in 1 .. Len(Order) : Order[i] \in Paths
    /\ \A i, j \in 1 .. Len(Order) : i < j => Order[i] # Order[j] /\ Order[j] \notin Above(Order[i])
BY LinkerAssumption

LEMMA PendingStays ==
    ASSUME NEW d, NEW e, NEW g, NEW plan, Fits(d, plan), NEW i \in 1 .. Len(Order),
           Pending(d, e, plan, i - 1), plan[Order[i]] # "none", Changes(g, e, Order[i]),
           plan[Order[i]] = "mkdir" => /\ g.at[Order[i]] = RealDir
                                       /\ \A q \in From(Order[i]) : q # Order[i] => g.at[q] = e.at[q]
    PROVE  Pending(d, g, plan, i)
<1> SUFFICES ASSUME NEW j \in i + 1 .. Len(Order), plan[Order[j]] # "none"
             PROVE  /\ \A q \in From(Order[j]) : g.at[q] = d.at[q]
                    /\ OpenAbove(g.at, Order[j])
  BY DEF Pending
<1> DEFINE p == Order[i]
           r == Order[j]
<1>1. /\ j \in i - 1 + 1 .. Len(Order) /\ p \in Paths /\ r \in Paths
      /\ p # r /\ r \notin Above(p)
  BY OrderFacts
<1>2. (\A q \in From(r) : e.at[q] = d.at[q]) /\ OpenAbove(e.at, r)
  BY <1>1 DEF Pending
<1> HIDE DEF p, r
<1>3. From(r) \subseteq Paths /\ Above(r) \subseteq Paths
  BY <1>1, FromAbove, PathOrder
<1>4. CASE p \in Above(r)
  <2>1. plan[p] = "mkdir"
    BY <1>1, <1>4 DEF Fits, p, r
  <2>2. \A q \in From(r) : q \in From(p) /\ q # p
    BY <1>1, <1>4, FromAbove, PathOrder
  <2>3. \A q \in From(r) : g.at[q] = d.at[q]
    BY <1>2, <2>1, <2>2 DEF p
  <2>4. ASSUME NEW a \in Above(r) PROVE g.at[a] \in {RealDir, Absent}
    <3>1. e.at[a] \in {RealDir, Absent} /\ a \in Paths
      BY <1>2, <1>3, <2>4 DEF OpenAbove
    <3>2. g.at[a] = e.at[a] \/ a \in From(p) \/ g.at[a] = RealDir
      BY <3>1 DEF Changes, p
    <3> QED
      BY <2>1, <3>1, <3>2 DEF p
  <2> QED
    BY <2>3, <2>4 DEF OpenAbove, r
<1>5. CASE p \notin Above(r)
  <2>1. ASSUME NEW q \in From(r) PROVE q \notin From(p) /\ q \notin Above(p)
    <3>1. q \in Paths /\ (q = r \/ r \in Above(q))
      BY <1>1, FromAbove
    <3>2. q \notin Above(p)
      BY <1>1, <3>1, PathOrder
    <3>3. q \notin From(p)
      <4>1. q # p
        BY <1>1, <3>1
      <4>2. p \notin Above(q)
        BY <1>1, <1>5, <3>1, PathOrder
      <4> QED
        BY <1>1, <4>1, <4>2, FromAbove
    <3> QED
      BY <3>2, <3>3
  <2>2. \A q \in From(r) : g.at[q] = d.at[q]
    BY <1>2, <1>3, <2>1 DEF Changes, p
  <2>3. ASSUME NEW a \in Above(r) PROVE g.at[a] \in {RealDir, Absent}
    <3>1. e.at[a] \in {RealDir, Absent} /\ a \in Paths
      BY <1>2, <1>3, <2>3 DEF OpenAbove
    <3>2. a \notin From(p)
      BY <1>1, <1>5, <2>3, <3>1, FromAbove, PathOrder
    <3> QED
      BY <3>1, <3>2 DEF Changes, p
  <2> QED
    BY <2>2, <2>3 DEF OpenAbove, r
<1> QED
  BY <1>4, <1>5

\* The operation that is next in the plan.
LEMMA NextOp ==
    ASSUME NEW d, NEW e, NEW plan, NEW k \in Kegs, Fits(d, plan), FineDisk(e), NEW i \in 1 .. Len(Order),
           Pending(d, e, plan, i - 1), plan[Order[i]] # "none", ~BackupRefused(e, Order[i], plan[Order[i]])
    PROVE  /\ FineDisk(ApplyOp(e, k, Order[i], plan[Order[i]]))
           /\ FineDisk(Halfway(e, Order[i], plan[Order[i]]))
           /\ Pending(d, ApplyOp(e, k, Order[i], plan[Order[i]]), plan, i)
<1> DEFINE p == Order[i]
           op == plan[p]
<1>1. p \in Paths /\ i \in i - 1 + 1 .. Len(Order)
  BY OrderFacts
<1>2. (\A q \in From(p) : e.at[q] = d.at[q]) /\ OpenAbove(e.at, p)
  BY <1>1 DEF Pending
<1>3. e.at[p] = d.at[p]
  BY <1>1, <1>2, FromAbove
<1>4. op \in OpKinds \ {"none"}
  BY <1>1 DEF Fits
<1>5. /\ op \in {"mkdir", "symlink"} => e.at[p] = Absent
      /\ op \in {"replace", "replace_mkdir", "expand"} => IsLink(e.at[p])
      /\ op \in {"backup", "backup_mkdir"} => e.at[p] # Absent
  BY <1>1, <1>3 DEF Fits
<1>6. ~BackupRefused(e, p, op)
  OBVIOUS
<1> HIDE DEF p, op
<1>7. /\ FineDisk(ApplyOp(e, k, p, op)) /\ FineDisk(Halfway(e, p, op))
      /\ Changes(ApplyOp(e, k, p, op), e, p)
      /\ op = "mkdir" => \A q \in From(p) : q # p => ApplyOp(e, k, p, op).at[q] = e.at[q]
      /\ op = "mkdir" => ApplyOp(e, k, p, op).at[p] = RealDir
  BY <1>1, <1>2, <1>4, <1>5, <1>6, OpFine
<1> USE DEF p, op
<1>8. Pending(d, ApplyOp(e, k, p, op), plan, i)
  BY <1>7, PendingStays
<1> QED
  BY <1>7, <1>8

-----------------------------------------------------------------------------
(* The loop over the plan                                                  *)

\* The recursive function inside Stages, up to m.
StagesTo(g, d, k, plan, m) ==
    g = [i \in 0 .. m |-> IF i = 0 THEN [disk |-> Ready(d), going |-> TRUE]
                          ELSE Turn(g[i - 1], k, Order[i], plan[Order[i]])]

LEMMA StagesExist ==
    ASSUME NEW d, NEW k, NEW plan, NEW n \in Nat
    PROVE  \E g : StagesTo(g, d, k, plan, n)
<1> DEFINE Bad == {m \in Nat : ~\E g : StagesTo(g, d, k, plan, m)}
<1> SUFFICES ASSUME Bad # {} PROVE FALSE
  OBVIOUS
<1>1. \A m \in Nat : m \in Bad \/ \E g : StagesTo(g, d, k, plan, m)
  OBVIOUS
<1>2. \A m \in Bad : m \in Nat /\ ~\E g : StagesTo(g, d, k, plan, m)
  OBVIOUS
<1>3. Bad \in SUBSET Nat
  OBVIOUS
<1> HIDE DEF Bad
<1>4. PICK m \in Bad : \A j \in Bad : m <= j
  BY <1>3, FirstOf
<1>5. m \in Nat
  BY <1>2
<1>6. CASE m = 0
  <2> DEFINE g == [i \in 0 .. 0 |-> [disk |-> Ready(d), going |-> TRUE]]
  <2>1. StagesTo(g, d, k, plan, 0)
    BY DEF StagesTo
  <2> QED
    BY <1>2, <1>6, <2>1
<1>7. CASE m # 0
  <2>1. m - 1 \in Nat /\ m - 1 \notin Bad
    BY <1>4, <1>5, <1>7
  <2>2. PICK g : StagesTo(g, d, k, plan, m - 1)
    BY <1>1, <2>1
  <2> DEFINE h == [i \in 0 .. m |-> IF i = m THEN Turn(g[m - 1], k, Order[m], plan[Order[m]]) ELSE g[i]]
  <2>3. \A i \in 0 .. m - 1 : g[i] = IF i = 0 THEN [disk |-> Ready(d), going |-> TRUE]
                                      ELSE Turn(g[i - 1], k, Order[i], plan[Order[i]])
    BY <2>1, <2>2 DEF StagesTo
  <2>4. /\ \A i \in 0 .. m : i # m => i \in 0 .. m - 1
        /\ \A i \in 0 .. m : i # 0 => i - 1 \in 0 .. m /\ i - 1 # m
    BY <1>5, <1>7
  <2>5. \A i \in 0 .. m : h[i] = IF i = 0 THEN [disk |-> Ready(d), going |-> TRUE]
                                  ELSE Turn(h[i - 1], k, Order[i], plan[Order[i]])
    <3> TAKE i \in 0 .. m
    <3>1. CASE i = m
      BY <1>7, <2>4, <3>1
    <3>2. CASE i # m
      <4>1. h[i] = g[i]
        BY <3>2
      <4>2. i # 0 => h[i - 1] = g[i - 1]
        BY <2>4
      <4> QED
        BY <2>3, <2>4, <3>2, <4>1, <4>2
    <3> QED
      BY <3>1, <3>2
  <2>6. StagesTo(h, d, k, plan, m)
    BY <2>5 DEF StagesTo
  <2> QED
    BY <1>2, <1>4, <2>6
<1> QED
  BY <1>6, <1>7

LEMMA StagesFacts ==
    ASSUME NEW d, NEW k, NEW plan
    PROVE  LET s == Stages(d, k, plan) IN
           /\ s[0] = [disk |-> Ready(d), going |-> TRUE]
           /\ \A i \in 1 .. Len(Order) : s[i] = Turn(s[i - 1], k, Order[i], plan[Order[i]])
<1>1. Len(Order) \in Nat
  BY OrderFacts
<1>2. \E g : StagesTo(g, d, k, plan, Len(Order))
  BY <1>1, StagesExist
<1> DEFINE s == CHOOSE g : StagesTo(g, d, k, plan, Len(Order))
<1>3. StagesTo(s, d, k, plan, Len(Order))
  BY <1>2
<1>4. Stages(d, k, plan) = s
  BY DEF Stages, StagesTo
<1> HIDE DEF s
<1>5. \A i \in 0 .. Len(Order) : s[i] = IF i = 0 THEN [disk |-> Ready(d), going |-> TRUE]
                                        ELSE Turn(s[i - 1], k, Order[i], plan[Order[i]])
  BY <1>3 DEF StagesTo
<1>6. s[0] = [disk |-> Ready(d), going |-> TRUE]
  <2>1. 0 \in 0 .. Len(Order)
    BY <1>1
  <2> QED
    BY <1>5, <2>1
<1>7. ASSUME NEW i \in 1 .. Len(Order) PROVE s[i] = Turn(s[i - 1], k, Order[i], plan[Order[i]])
  <2>1. i \in 0 .. Len(Order) /\ i # 0
    BY <1>1
  <2> QED
    BY <1>5, <2>1
<1> QED
  BY <1>4, <1>6, <1>7

StageFine(d, plan, s, i) ==
    /\ s = [disk |-> s.disk, going |-> s.going] /\ s.going \in BOOLEAN /\ FineDisk(s.disk)
    /\ s.going => Pending(d, s.disk, plan, i)

LEMMA ReadyFine ==
    ASSUME NEW d, FineDisk(d), ~PreflightRefused(d), NEW plan, Fits(d, plan)
    PROVE  FineDisk(Ready(d)) /\ Pending(d, Ready(d), plan, 0)
<1> DEFINE T == {q \in Paths : Len(q) = 1 /\ q[1] \in MustExistTop}
           m == d.at
           w == [q \in Paths |-> IF Len(q) = 1 /\ q[1] \in MustExistTop THEN RealDir ELSE d.at[q]]
<1>1. \A q \in T : m[q] \in {RealDir, Absent}
  <2> TAKE q \in T
  <2>1. q \in Paths /\ q \in Seq(ToSet(q)) /\ Len(q) = 1 /\ q[1] \in MustExistTop
    BY LinkerAssumption
  <2>2. q = <<q[1]>>
    BY <2>1
  <2> QED
    BY <2>1, <2>2 DEF PreflightRefused
<1>2. Fine(m, d.backedUp) /\ d \in Disks
  BY DEF FineDisk
<1>3. /\ w \in [Paths -> Nodes]
      /\ \A q \in Paths : q \in T => w[q] = RealDir
      /\ \A q \in Paths : q \notin T => w[q] = m[q]
  BY <1>2, NodeKinds DEF Fine
<1>4. \A q \in T : q \in Paths /\ Len(q) = 1 /\ Above(q) = {}
  BY PathOrder
<1>5. Ready(d) = [d EXCEPT !.at = w]
  BY DEF Ready
<1> HIDE DEF w, T
<1>6. \A q \in Paths : w[q] = m[q] \/ (w[q] = RealDir /\ m[q] \notin {File, Outside})
  BY <1>1, <1>3, NodeKinds
<1>7. Theirs(w) /\ NoneLost(w, d.backedUp)
  BY <1>2, <1>6, NodeKinds DEF Fine, Theirs, NoneLost
<1>8. Treelike(w)
  <2> SUFFICES ASSUME NEW q \in Paths, w[q] # Absent, NEW a \in Above(q) PROVE w[a] = RealDir
    BY DEF Treelike, Absent, RealDir
  <2>1. a \in Paths /\ q \notin T
    BY <1>4, PathOrder
  <2>2. m[a] = RealDir
    BY <1>2, <1>3, <2>1, TreeFacts DEF Fine
  <2> QED
    BY <1>3, <2>1, <2>2
<1>9. FineDisk(Ready(d)) /\ Ready(d).at = w
  BY <1>2, <1>3, <1>5, <1>7, <1>8, AtFine DEF Fine
<1>10. ASSUME NEW j \in 0 + 1 .. Len(Order), plan[Order[j]] # "none"
       PROVE  (\A q \in From(Order[j]) : w[q] = d.at[q]) /\ OpenAbove(w, Order[j])
  <2>1. Order[j] \in Paths
    BY OrderFacts
  <2>2. OpenAbove(m, Order[j]) /\ Len(Order[j]) > 1
    BY <1>10, <2>1 DEF Fits
  <2>5. ASSUME Order[j] \in T PROVE FALSE
    <3>1. Len(Order[j]) = 1
      BY <1>4, <2>5
    <3>2. Len(Order[j]) > 1
      BY <2>2
    <3>3. 1 > 1
      BY <3>1, <3>2
    <3> QED
      BY <3>3
  <2>3. \A q \in From(Order[j]) : q \in Paths /\ q \notin T
    BY <1>4, <2>1, <2>5, FromAbove
  <2>4. Above(Order[j]) \subseteq Paths
    BY <2>1, PathOrder
  <2> QED
    BY <1>3, <2>2, <2>3, <2>4 DEF OpenAbove
<1> QED
  BY <1>9, <1>10 DEF Pending

LEMMA StagesFine ==
    ASSUME NEW d, FineDisk(d), ~PreflightRefused(d), NEW k \in Kegs, NEW plan, Fits(d, plan)
    PROVE  \A i \in 0 .. Len(Order) : StageFine(d, plan, Stages(d, k, plan)[i], i)
<1> DEFINE s == Stages(d, k, plan)
           Bad == {i \in 0 .. Len(Order) : ~StageFine(d, plan, s[i], i)}
<1>1. /\ s[0] = [disk |-> Ready(d), going |-> TRUE]
      /\ \A i \in 1 .. Len(Order) : s[i] = Turn(s[i - 1], k, Order[i], plan[Order[i]])
  BY StagesFacts
<1>2. Len(Order) \in Nat
  BY OrderFacts
<1> HIDE DEF s
<1> SUFFICES ASSUME Bad # {} PROVE FALSE
  BY DEF s
<1>3. Bad \in SUBSET Nat /\ \A i \in Bad : i \in 0 .. Len(Order) /\ ~StageFine(d, plan, s[i], i)
  BY <1>2
<1>4. \A i \in 0 .. Len(Order) : i \in Bad \/ StageFine(d, plan, s[i], i)
  OBVIOUS
<1> HIDE DEF Bad
<1>5. PICK i \in Bad : \A j \in Bad : i <= j
  BY <1>3, FirstOf
<1>6. CASE i = 0
  <2>1. FineDisk(Ready(d)) /\ Pending(d, Ready(d), plan, 0)
    BY ReadyFine
  <2>2. StageFine(d, plan, s[0], 0)
    BY <1>1, <2>1 DEF StageFine
  <2> QED
    BY <1>3, <1>6, <2>2
<1>7. CASE i # 0
  <2>1. i \in 1 .. Len(Order) /\ i - 1 \in 0 .. Len(Order) /\ i - 1 \notin Bad
    BY <1>2, <1>3, <1>5, <1>7
  <2> DEFINE e == s[i - 1]
             p == Order[i]
             op == plan[p]
  <2>2. StageFine(d, plan, e, i - 1)
    BY <1>4, <2>1
  <2>3. s[i] = Turn(e, k, p, op)
    BY <1>1, <2>1
  <2> HIDE DEF e
  <2>4. CASE ~e.going
    <3>1. s[i] = e
      BY <2>3, <2>4 DEF Turn
    <3>2. StageFine(d, plan, s[i], i)
      BY <2>2, <2>4, <3>1 DEF StageFine
    <3> QED
      BY <1>3, <3>2
  <2>5. CASE e.going /\ op = "none"
    <3>1. s[i] = e
      BY <2>3, <2>5 DEF Turn
    <3>2. \A j \in i + 1 .. Len(Order) : j \in i - 1 + 1 .. Len(Order)
      BY <1>2, <2>1
    <3>3. Pending(d, e.disk, plan, i)
      BY <2>2, <2>5, <3>2 DEF StageFine, Pending
    <3>4. StageFine(d, plan, s[i], i)
      BY <2>2, <3>1, <3>3 DEF StageFine
    <3> QED
      BY <1>3, <3>4
  <2>6. CASE e.going /\ op # "none" /\ BackupRefused(e.disk, p, op)
    <3>1. s[i] = [e EXCEPT !.going = FALSE]
      BY <2>3, <2>6 DEF Turn
    <3>2. s[i] = [disk |-> e.disk, going |-> FALSE]
      BY <2>2, <3>1 DEF StageFine
    <3>3. StageFine(d, plan, s[i], i)
      BY <2>2, <3>2 DEF StageFine
    <3> QED
      BY <1>3, <3>3
  <2>7. CASE e.going /\ op # "none" /\ ~BackupRefused(e.disk, p, op)
    <3>1. s[i] = [e EXCEPT !.disk = ApplyOp(e.disk, k, p, op)]
      BY <2>3, <2>7 DEF Turn
    <3>2. s[i] = [disk |-> ApplyOp(e.disk, k, p, op), going |-> e.going]
      BY <2>2, <3>1 DEF StageFine
    <3>3. FineDisk(e.disk) /\ Pending(d, e.disk, plan, i - 1) /\ e.going \in BOOLEAN
      BY <2>2, <2>7 DEF StageFine
    <3>4. FineDisk(ApplyOp(e.disk, k, p, op)) /\ Pending(d, ApplyOp(e.disk, k, p, op), plan, i)
      BY <2>1, <2>7, <3>3, NextOp
    <3>5. StageFine(d, plan, s[i], i)
      BY <3>2, <3>3, <3>4 DEF StageFine
    <3> QED
      BY <1>3, <3>5
  <2> QED
    BY <2>2, <2>4, <2>5, <2>6, <2>7
<1> QED
  BY <1>6, <1>7
LEMMA PrunedFine ==
    ASSUME NEW d, FineDisk(d), NEW dirs \in SUBSET Paths, \A p \in dirs : d.at[p] \in {RealDir, Absent}
    PROVE  FineDisk(Pruned(d, dirs))
<1> DEFINE stores == {q \in Paths : /\ Name(q) = ".DS_Store" /\ Front(q) \in dirs
                                    /\ d.at[q] # RealDir}
           bare == WithoutAll(d.at, stores)
           gone == {p \in dirs : \A q \in From(p) : bare[q] = Absent \/ q \in dirs}
<1>1. Fine(d.at, d.backedUp)
  BY DEF FineDisk
<1>2. \A p \in stores : p \in Paths /\ Name(p) = ".DS_Store" /\ \A q \in From(p) : d.at[q] = Absent \/ q \in stores
  <2> TAKE p \in stores
  <2>1. \A q \in From(p) : q = p \/ d.at[q] = Absent
    BY <1>1, TreeFacts DEF Fine
  <2> QED
    BY <2>1
<1>3. stores \in SUBSET Paths
  OBVIOUS
<1>4. \A p \in dirs : bare[p] \in {RealDir, Absent}
  BY DEF WithoutAll
<1> HIDE DEF stores
<1>5. Fine(bare, d.backedUp)
  BY <1>1, <1>2, <1>3, WithoutFine
<1> HIDE DEF bare
<1>6. \A p \in gone : p \in dirs /\ bare[p] \notin {File, Outside}
  BY <1>4, NodeKinds
<1>7. ASSUME NEW p \in gone, NEW q \in From(p) PROVE bare[q] = Absent \/ q \in gone
  <2>1. p \in Paths /\ q \in Paths /\ From(q) \subseteq From(p)
    BY FromAbove, PathOrder
  <2>2. \A r \in From(p) : bare[r] = Absent \/ r \in dirs
    OBVIOUS
  <2> QED
    BY <2>1, <2>2
<1>8. gone \in SUBSET Paths
  OBVIOUS
<1>9. Pruned(d, dirs) = [d EXCEPT !.at = WithoutAll(bare, gone)]
  BY DEF Pruned, stores, bare
<1> HIDE DEF gone
<1>10. Fine(WithoutAll(bare, gone), d.backedUp)
  BY <1>5, <1>6, <1>7, <1>8, WithoutFine
<1> QED
  BY <1>9, <1>10, AtFine

-----------------------------------------------------------------------------
(* What the records say of the prefix                                      *)

\* Every link is where its keg ships something, every directory that was made
\* is below one of the linked ones.
ShippedLinks(m) ==
    \A p \in Paths : IsLink(m[p]) =>
        /\ Len(p) > 1 /\ p[1] \in LinkDirs
        /\ \E k \in Kegs : m[p] = LinkTo(k, p) /\ p \in DOMAIN Tree[k]
MadeDirs(m) == \A p \in Paths : m[p] = RealDir /\ mine[p] # RealDir /\ Len(p) > 1 => p[1] \in LinkDirs

\* A keg that is linked, or one of the kegs K nothing is claimed of.
Counted(d, K, k) == k \in K \/ d.linked[FormulaOfKeg(k)] = k
LinkBroken(d, p) == \E k \in Kegs : d.at[p] = LinkTo(k, p) /\ Tree[k][p] = "broken"
LinksCounted(d, K) ==
    \A p \in Paths, k \in Kegs :
        p[1] # "Frameworks" /\ d.at[p] = LinkTo(k, p) /\ Tree[k][p] # "broken" => Counted(d, K, k)
HasDir(k, p) == p \in DOMAIN Tree[k] /\ Tree[k][p] = "dir"
DirsCounted(d, K) ==
    \A p \in Paths : p[1] # "Frameworks" /\ d.at[p] = RealDir /\ Len(p) > 1 /\ mine[p] # RealDir =>
        \/ \E k \in Kegs : HasDir(k, p) /\ Counted(d, K, k)
        \/ \E q \in From(p) : LinkBroken(d, q)

FoundIn(d, k, p) == \E q \in {p} \cup Above(p) : d.at[q] = LinkTo(k, q) \/ d.backedUp[q] = LinkTo(k, q)
AllFound(d, k) == \A p \in Eligible(k) : FoundIn(d, k, p)
LinkedFound(d, K) ==
    \A f \in Formulae \ KegOnly : d.linked[f] # NoKegHere /\ d.linked[f] \notin K => AllFound(d, d.linked[f])

\* The records name kegs of P, each under its formula.
RecordsFit(d, P) ==
    \A f \in Formulae : d.linked[f] # NoKegHere => d.linked[f] \in P /\ FormulaOfKeg(d.linked[f]) = f

\* The two records of a keg name the same one.
Paired(d, K) == \A f \in Formulae : d.linked[f] # NoKegHere /\ d.linked[f] \notin K => d.opt[f] = d.linked[f]

Sound(d, K, P) ==
    /\ FineDisk(d) /\ ShippedLinks(d.at) /\ MadeDirs(d.at) /\ RecordsFit(d, P) /\ Paired(d, K)
    /\ LinksCounted(d, K) /\ DirsCounted(d, K) /\ LinkedFound(d, K)

\* The records are the same.
SameRecords(d, g) == g.linked = d.linked /\ g.opt = d.opt /\ g.alias = d.alias

LEMMA LinkNames ==
    /\ \A k, p, j, q : LinkTo(k, p) = LinkTo(j, q) => k = j /\ p = q
    /\ \A k, p : LinkTo(k, p)[2] = k /\ LinkTo(k, p)[3] = p
BY DEF LinkTo

LEMMA PathRoot ==
    ASSUME NEW p \in Paths, NEW q \in Paths
    PROVE  /\ q \in Above(p) => q[1] = p[1] /\ Len(q) < Len(p)
           /\ q \in From(p) => q[1] = p[1] /\ Len(q) >= Len(p)
           /\ Len(p) \in Nat /\ Len(p) > 0
<1>1. ASSUME NEW x \in Paths PROVE x \in Seq(ToSet(x)) /\ Len(x) \in Nat /\ Len(x) > 0
  BY LinkerAssumption
<1>2. ASSUME NEW x \in Paths, NEW y \in Above(x) PROVE y[1] = x[1] /\ Len(y) < Len(x)
  <2>1. PICK n \in 1 .. Len(x) - 1 : y = SubSeq(x, 1, n)
    BY DEF Above, AbovePath
  <2> QED
    BY <1>1, <2>1
<1> QED
  BY <1>1, <1>2, FromAbove

LEMMA TreeClosed ==
    ASSUME NEW k \in Kegs, NEW p \in DOMAIN Tree[k]
    PROVE  /\ p \in Paths
           /\ \A q \in Above(p) : q \in DOMAIN Tree[k] /\ Tree[k][q] = "dir"
BY LinkerAssumption

\* Fewer claims hold a fortiori.
LEMMA SoundMore ==
    ASSUME NEW d, NEW K, NEW P, Sound(d, K, P), NEW L, K \subseteq L, NEW Q, P \subseteq Q
    PROVE  Sound(d, L, Q)
BY DEF Sound, RecordsFit, Paired, LinksCounted, DirsCounted, LinkedFound, Counted

-----------------------------------------------------------------------------
(* One operation                                                           *)

\* Between disks e and g something happens at p: kegs of Y link or make
\* directories there, below it and above.
Grows(e, g, p, Y) ==
    /\ \A q \in Paths :
          \/ g.at[q] = e.at[q]
          \/ q \in From(p) /\ g.at[q] = Absent
          \/ q \in From(p) \cup Above(p) /\ g.at[q] = RealDir
          \/ q \in From(p) /\ \E y \in Y : q \in DOMAIN Tree[y] /\ g.at[q] = LinkTo(y, q)
    /\ \A q \in From(p) : g.at[q] = RealDir => \E y \in Y : HasDir(y, q)

\* What kegs other than K have linked is still linked, expanded or in Backup.
StillFound(e, g, K) ==
    \A y \in poured \ K, q \in Paths :
        /\ e.backedUp[q] = LinkTo(y, q) => g.backedUp[q] = LinkTo(y, q)
        /\ e.at[q] = LinkTo(y, q) /\ q \in DOMAIN Tree[y] /\ Tree[y][q] # "broken" =>
              \/ g.at[q] = LinkTo(y, q) \/ g.backedUp[q] = LinkTo(y, q)
              \/ /\ Tree[y][q] = "dir"
                 /\ \A v \in DOMAIN Tree[y] : q \in Above(v) /\ Tree[y][v] = "file" => g.at[v] = LinkTo(y, v)

LEMMA FoundStays ==
    ASSUME NEW e, NEW g, NEW K, StillFound(e, g, K), NEW y \in Kegs, y \in poured \ K
    PROVE  /\ \A v \in Eligible(y) : FoundIn(e, y, v) => FoundIn(g, y, v)
           /\ AllFound(e, y) => AllFound(g, y)
<1>1. ASSUME NEW v \in Eligible(y), FoundIn(e, y, v) PROVE FoundIn(g, y, v)
  <2>1. v \in DOMAIN Tree[y] /\ Tree[y][v] = "file" /\ v \in Paths
    BY TreeClosed DEF Eligible
  <2>2. PICK q \in {v} \cup Above(v) : e.at[q] = LinkTo(y, q) \/ e.backedUp[q] = LinkTo(y, q)
    BY <1>1 DEF FoundIn
  <2>3. q \in DOMAIN Tree[y] /\ Tree[y][q] # "broken" /\ (Tree[y][q] = "dir" => q # v) /\ q \in Paths
    BY <2>1, <2>2, TreeClosed
  <2>4. \/ g.at[q] = LinkTo(y, q) \/ g.backedUp[q] = LinkTo(y, q)
        \/ q # v /\ \A w \in DOMAIN Tree[y] : q \in Above(w) /\ Tree[y][w] = "file" => g.at[w] = LinkTo(y, w)
    BY <2>2, <2>3 DEF StillFound
  <2> QED
    BY <2>1, <2>2, <2>4 DEF FoundIn
<1> QED
  BY <1>1 DEF AllFound

LEMMA GrowSound ==
    ASSUME NEW K, NEW L, K \subseteq L, NEW P, P \ L \subseteq poured, P \subseteq Kegs, NEW e, Sound(e, K, P),
           NEW g, FineDisk(g), SameRecords(e, g),
           NEW p \in Paths, Len(p) > 1, p[1] \in LinkDirs, OpenAbove(e.at, p),
           NEW Y \in SUBSET Kegs, \E k \in Y : p \in DOMAIN Tree[k],
           p[1] # "Frameworks" => \A y \in Y : Counted(e, K, y),
           Grows(e, g, p, Y), StillFound(e, g, L)
    PROVE  Sound(g, L, P)
<1>1. \A q \in From(p) \cup Above(p) : q \in Paths /\ q[1] = p[1]
  BY PathRoot, FromAbove, PathOrder
<1>2. \A q \in From(p) : Len(q) > 1
  BY <1>1, PathRoot
<1>0. g.linked = e.linked /\ g.opt = e.opt
  BY DEF SameRecords
<1>3. \A k \in Kegs : Counted(e, K, k) => Counted(g, L, k)
  BY <1>0 DEF Counted
<1>4. ShippedLinks(g.at)
  <2> SUFFICES ASSUME NEW q \in Paths, IsLink(g.at[q])
               PROVE  /\ Len(q) > 1 /\ q[1] \in LinkDirs
                      /\ \E k \in Kegs : g.at[q] = LinkTo(k, q) /\ q \in DOMAIN Tree[k]
    BY DEF ShippedLinks
  <2>1. CASE g.at[q] = e.at[q]
    BY <2>1 DEF Sound, ShippedLinks
  <2>2. CASE q \in From(p) /\ \E y \in Y : q \in DOMAIN Tree[y] /\ g.at[q] = LinkTo(y, q)
    BY <1>1, <1>2, <2>2
  <2> QED
    BY <2>1, <2>2, NodeKinds DEF Grows
<1>5. MadeDirs(g.at)
  <2> SUFFICES ASSUME NEW q \in Paths, g.at[q] = RealDir, mine[q] # RealDir, Len(q) > 1
               PROVE  q[1] \in LinkDirs
    BY DEF MadeDirs
  <2>1. CASE g.at[q] = e.at[q]
    BY <2>1 DEF Sound, MadeDirs
  <2>2. CASE q \in From(p) \cup Above(p)
    BY <1>1, <2>2
  <2> QED
    BY <2>1, <2>2 DEF Grows
<1>6. RecordsFit(g, P) /\ Paired(g, L)
  BY <1>0 DEF Sound, RecordsFit, Paired
<1>7. LinksCounted(g, L)
  <2> SUFFICES ASSUME NEW q \in Paths, NEW k \in Kegs, q[1] # "Frameworks", g.at[q] = LinkTo(k, q),
                      Tree[k][q] # "broken"
               PROVE  Counted(g, L, k)
    BY DEF LinksCounted
  <2>1. CASE g.at[q] = e.at[q]
    BY <1>3, <2>1 DEF Sound, LinksCounted
  <2>2. CASE q \in From(p) /\ \E y \in Y : q \in DOMAIN Tree[y] /\ g.at[q] = LinkTo(y, q)
    <3>1. PICK y \in Y : q \in DOMAIN Tree[y] /\ g.at[q] = LinkTo(y, q)
      BY <2>2
    <3>2. y = k
      <4>1. LinkTo(y, q) = LinkTo(k, q)
        BY <3>1
      <4> QED
        BY <4>1, LinkNames
    <3>3. q[1] = p[1]
      BY <1>1, <2>2
    <3> QED
      BY <1>3, <3>2, <3>3
  <2> QED
    BY <2>1, <2>2, NodeKinds DEF Grows
<1>8. DirsCounted(g, L)
  <2> SUFFICES ASSUME NEW q \in Paths, q[1] # "Frameworks", g.at[q] = RealDir, Len(q) > 1, mine[q] # RealDir
               PROVE  \/ \E k \in Kegs : HasDir(k, q) /\ Counted(g, L, k)
                      \/ \E r \in From(q) : LinkBroken(g, r)
    BY DEF DirsCounted
  <2>1. ASSUME q \in From(p) \cup Above(p) PROVE \E k \in Kegs : HasDir(k, q) /\ Counted(g, L, k)
    <3>1. \E y \in Y : HasDir(y, q)
      <4>1. CASE q \in From(p)
        BY <4>1 DEF Grows
      <4>2. CASE q \in Above(p)
        BY <4>2, TreeClosed DEF HasDir
      <4> QED
        BY <2>1, <4>1, <4>2
    <3>2. q[1] = p[1]
      BY <1>1, <2>1
    <3> QED
      BY <1>3, <3>1, <3>2
  <2>2. CASE g.at[q] # e.at[q]
    <3>1. q \in From(p) \cup Above(p)
      BY <2>2 DEF Grows
    <3> QED
      BY <2>1, <3>1
  <2>3. CASE \E k \in Kegs : HasDir(k, q) /\ Counted(e, K, k)
    BY <1>3, <2>3
  <2>4. ASSUME g.at[q] = e.at[q], NEW r \in From(q), LinkBroken(e, r)
        PROVE  \/ \E k \in Kegs : HasDir(k, q) /\ Counted(g, L, k)
               \/ LinkBroken(g, r)
    <3>1. r \in Paths /\ (q = r \/ q \in Above(r)) /\ IsLink(e.at[r])
      BY <2>4, FromAbove, NodeKinds DEF LinkBroken
    <3>2. CASE g.at[r] = e.at[r]
      BY <2>4, <3>2 DEF LinkBroken
    <3>3. CASE g.at[r] # e.at[r]
      <4>1. r \notin Above(p)
        BY <3>1, NodeKinds DEF OpenAbove
      <4>2. r \in From(p)
        BY <3>1, <3>3, <4>1 DEF Grows
      <4>3. q = p \/ q \in Above(p) \/ p \in Above(q)
        BY <3>1, <4>2, FromAbove, PathOrder
      <4>4. q \in From(p) \cup Above(p)
        BY <4>3, FromAbove
      <4> QED
        BY <2>1, <4>4
    <3> QED
      BY <3>2, <3>3
  <2>5. CASE g.at[q] = e.at[q]
    <3>1. \/ \E k \in Kegs : HasDir(k, q) /\ Counted(e, K, k)
          \/ \E r \in From(q) : LinkBroken(e, r)
      BY <2>5 DEF Sound, DirsCounted
    <3> QED
      BY <2>3, <2>4, <2>5, <3>1
  <2> QED
    BY <2>2, <2>5
<1>9. LinkedFound(g, L)
  <2> SUFFICES ASSUME NEW f \in Formulae \ KegOnly, g.linked[f] # NoKegHere, g.linked[f] \notin L
               PROVE  AllFound(g, g.linked[f])
    BY DEF LinkedFound
  <2>1. g.linked[f] \in P /\ AllFound(e, g.linked[f])
    BY <1>0 DEF Sound, RecordsFit, LinkedFound
  <2> QED
    BY <2>1, FoundStays
<1> QED
  BY <1>4, <1>5, <1>6, <1>7, <1>8, <1>9 DEF Sound

-----------------------------------------------------------------------------
(* What the operations make of the nodes                                   *)

\* Between e and g: the destination and what is above it, by the operation.
OpNodes(e, g, k, p, op) ==
    /\ \A q \in Paths :
          \/ g.at[q] = e.at[q]
          \/ q \in {p} \cup Above(p) /\ g.at[q] = RealDir
          \/ q = p /\ g.at[q] = LinkTo(k, p)
          \/ op \in {"backup", "backup_mkdir"} /\ q \in From(p) /\ g.at[q] = Absent
    /\ op \in {"backup", "backup_mkdir"} => \A q \in From(p) : q # p => g.at[q] = Absent
    /\ op \in {"symlink", "replace", "backup"} => g.at[p] = LinkTo(k, p)
    /\ g.backedUp = IF op \in {"backup", "backup_mkdir"}
                    THEN [q \in Paths |-> IF q \in From(p) THEN e.at[q] ELSE e.backedUp[q]]
                    ELSE e.backedUp
    /\ SameRecords(e, g)

LEMMA OpParts ==
    ASSUME NEW e \in Disks, NEW k \in Kegs, NEW p \in Paths, NEW op \in OpKinds \ {"none", "expand"}
    PROVE  OpNodes(e, ApplyOp(e, k, p, op), k, p, op)
<1> DEFINE m == e.at
           v == [q \in Paths |-> IF q \in From(p) THEN Absent ELSE m[q]]
           b == [q \in Paths |-> IF q \in From(p) THEN m[q] ELSE e.backedUp[q]]
           backs == op \in {"backup", "backup_mkdir"}
           n == IF backs THEN v ELSE m
           w == WithDirs(n, p)
           l == [w EXCEPT ![p] = LinkTo(k, p)]
           top == IF op \in {"mkdir", "replace_mkdir", "backup_mkdir"} THEN w ELSE l
           g == ApplyOp(e, k, p, op)
<1>1. MoveAway(e, p) = [e EXCEPT !.backedUp = b, !.at = v]
  BY DEF MoveAway, WithoutAll
<1> HIDE DEF v, b
<1>2. MoveAway(e, p).at = v /\ MoveAway(e, p).backedUp = b /\ SameRecords(e, MoveAway(e, p))
      /\ MoveAway(e, p) = [at |-> v, backedUp |-> b, opt |-> e.opt, linked |-> e.linked, alias |-> e.alias]
  BY <1>1 DEF Disks, SameRecords
<1>3. g.at = top /\ SameRecords(e, g) /\ g.backedUp = IF backs THEN b ELSE e.backedUp
  <2>1. CASE op \in {"mkdir", "replace_mkdir"}
    BY <2>1 DEF ApplyOp, Disks, SameRecords
  <2>2. CASE op = "backup_mkdir"
    BY <1>2, <2>2 DEF ApplyOp, SameRecords
  <2>3. CASE op = "backup"
    BY <1>2, <2>3 DEF ApplyOp, WithLink, SameRecords
  <2>4. CASE op \in {"symlink", "replace"}
    BY <2>4 DEF ApplyOp, Disks, WithLink, SameRecords
  <2> QED
    BY <2>1, <2>2, <2>3, <2>4 DEF OpKinds
<1>4. \A q \in Paths : w[q] = IF q = p \/ q \in Above(p) THEN RealDir ELSE n[q]
  BY DEF WithDirs
<1>5. \A q \in Paths : top[q] = IF q = p /\ op \in {"symlink", "replace", "backup"} THEN LinkTo(k, p) ELSE w[q]
  BY DEF OpKinds, WithDirs
<1>6. \A q \in Paths : n[q] = IF backs /\ q \in From(p) THEN Absent ELSE m[q]
  BY DEF v
<1>7. \A q \in From(p) : q \in Paths /\ q \notin Above(p)
  BY FromAbove, PathOrder
<1> HIDE DEF w, n, top
<1>8. /\ \A q \in Paths :
          \/ g.at[q] = m[q]
          \/ q \in {p} \cup Above(p) /\ g.at[q] = RealDir
          \/ q = p /\ g.at[q] = LinkTo(k, p)
          \/ backs /\ q \in From(p) /\ g.at[q] = Absent
  BY <1>3, <1>4, <1>5, <1>6
<1>9. backs => \A q \in From(p) : q # p => g.at[q] = Absent
  BY <1>3, <1>4, <1>5, <1>6, <1>7
<1>10. op \in {"symlink", "replace", "backup"} => g.at[p] = LinkTo(k, p)
  BY <1>3, <1>5
<1> QED
  BY <1>3, <1>8, <1>9, <1>10 DEF OpNodes, b

LEMMA ExpandParts ==
    ASSUME NEW e \in Disks, NEW k \in Kegs, NEW p \in Paths, NEW x \in Kegs, e.at[p] = LinkTo(x, p)
    PROVE  LET g == ApplyOp(e, k, p, "expand") IN
           /\ g.backedUp = e.backedUp /\ SameRecords(e, g)
           /\ \A q \in Paths :
                \/ g.at[q] = e.at[q] /\ q # p /\ ~(p \in Above(q) /\ q \in DOMAIN Tree[x])
                \/ q = p /\ g.at[q] = RealDir
                \/ q \in From(p) \cap DOMAIN Tree[x] /\ g.at[q] = RealDir /\ Tree[x][q] = "dir"
                \/ q \in From(p) \cap DOMAIN Tree[x] /\ g.at[q] = LinkTo(x, q) /\ Tree[x][q] # "dir"
<1> DEFINE g == ApplyOp(e, k, p, "expand")
           w == ExpandDir(e.at, p)
<1>1. g.at = w /\ g.backedUp = e.backedUp /\ SameRecords(e, g)
  BY DEF ApplyOp, Disks, SameRecords
<1>2. e.at[p][2] = x
  BY LinkNames
<1>3. \A q \in Paths : w[q] = IF q = p \/ (q \in (From(p) \ {p}) \cap DOMAIN Tree[x] /\ Tree[x][q] = "dir")
                              THEN RealDir
                              ELSE IF q \in (From(p) \ {p}) \cap DOMAIN Tree[x] THEN LinkTo(x, q) ELSE e.at[q]
  BY <1>2 DEF ExpandDir
<1> HIDE DEF w
<1>4. \A q \in Paths : q \in From(p) <=> (q = p \/ p \in Above(q))
  BY FromAbove
<1> QED
  BY <1>1, <1>3, <1>4

-----------------------------------------------------------------------------
(* One operation, on what the records say                                  *)

\* What an operation of keg k's plan finds at p when its turn comes.
OpFinds(e, k, p, op) ==
    /\ p \in DOMAIN Tree[k] /\ p[1] \in LinkDirs /\ Len(p) > 1
    /\ OpenAbove(e.at, p)
    /\ op \in {"mkdir", "symlink"} => e.at[p] = Absent
    /\ op \in {"replace", "replace_mkdir"} => IsLink(e.at[p]) /\ ~Resolves(e.at[p])
    /\ op = "expand" => \E x \in Kegs : e.at[p] = LinkTo(x, p) /\ p \in DOMAIN Tree[x] /\ Tree[x][p] = "dir"
    /\ op \in {"backup", "backup_mkdir"} => e.at[p] # Absent
    /\ op \in {"mkdir", "replace_mkdir", "backup_mkdir"} => Tree[k][p] = "dir"

\* Nothing of a poured keg is in the way of an operation that is not an expansion or a backup.
LEMMA NoneHeld ==
    ASSUME NEW e, FineDisk(e), NEW k \in Kegs, NEW p \in Paths,
           NEW op \in {"mkdir", "symlink", "replace", "replace_mkdir"}, OpFinds(e, k, p, op),
           NEW y \in poured, NEW q \in Paths, e.at[q] = LinkTo(y, q), Tree[y][q] # "broken"
    PROVE  q \notin From(p) /\ q \notin Above(p)
<1>1. e.at[q] \notin {Absent, RealDir} /\ IsLink(e.at[q])
  <2>1. e.at[q][1] = "link"
    BY DEF LinkTo
  <2> QED
    BY <2>1, NodeKinds DEF IsLink
<1>2. q \notin Above(p)
  BY <1>1 DEF OpFinds, OpenAbove
<1>3. e.at[p] # RealDir
  BY NodeKinds DEF OpFinds
<1>4. q \in From(p) => q = p
  BY <1>1, <1>3, TreeFacts DEF FineDisk, Fine
<1>5. q # p
  <2>1. Resolves(e.at[q])
    BY <1>1, LinkNames DEF Resolves
  <2> QED
    BY <1>1, <2>1 DEF OpFinds
<1> QED
  BY <1>2, <1>4, <1>5

LEMMA OpStill ==
    ASSUME NEW e, FineDisk(e), NEW k \in Kegs, NEW p \in Paths, NEW op \in OpKinds \ {"none", "expand"},
           OpFinds(e, k, p, op), ~BackupRefused(e, p, op), NEW g, OpNodes(e, g, k, p, op), NEW L
    PROVE  StillFound(e, g, L)
<1> SUFFICES ASSUME NEW y \in poured \ L, NEW q \in Paths
             PROVE  /\ e.backedUp[q] = LinkTo(y, q) => g.backedUp[q] = LinkTo(y, q)
                    /\ e.at[q] = LinkTo(y, q) /\ q \in DOMAIN Tree[y] /\ Tree[y][q] # "broken" =>
                          g.at[q] = LinkTo(y, q) \/ g.backedUp[q] = LinkTo(y, q)
  BY DEF StillFound
<1> DEFINE link == LinkTo(y, q)
<1>1. IsLink(link)
  BY DEF LinkTo, IsLink
<1> HIDE DEF link
<1>2. CASE op \in {"backup", "backup_mkdir"}
  <2>1. ASSUME e.backedUp[q] = link PROVE q \notin From(p)
    BY <1>1, <1>2, <2>1, NodeKinds DEF BackupRefused, IsSymlink
  <2>2. ASSUME e.at[q] = link PROVE q \notin Above(p)
    BY <1>1, <2>2, NodeKinds DEF OpFinds, OpenAbove
  <2>3. /\ q \in From(p) => g.backedUp[q] = e.at[q]
        /\ q \notin From(p) => g.backedUp[q] = e.backedUp[q]
    BY <1>2 DEF OpNodes
  <2>4. q \notin From(p) /\ q \notin Above(p) => g.at[q] = e.at[q]
    BY FromAbove DEF OpNodes
  <2> QED
    BY <2>1, <2>2, <2>3, <2>4 DEF link
<1>3. CASE op \in {"mkdir", "symlink", "replace", "replace_mkdir"}
  <2>1. g.backedUp = e.backedUp
    BY <1>3 DEF OpNodes
  <2>2. ASSUME e.at[q] = LinkTo(y, q), Tree[y][q] # "broken" PROVE g.at[q] = e.at[q]
    <3>1. q \notin From(p) /\ q \notin Above(p)
      BY <1>3, <2>2, NoneHeld
    <3> QED
      BY <3>1, FromAbove DEF OpNodes
  <2> QED
    BY <2>1, <2>2
<1> QED
  BY <1>2, <1>3 DEF OpKinds

LEMMA ExpandStill ==
    ASSUME NEW e, FineDisk(e), NEW k \in Kegs, NEW p \in Paths, OpFinds(e, k, p, "expand"), NEW L
    PROVE  StillFound(e, ApplyOp(e, k, p, "expand"), L)
<1> DEFINE g == ApplyOp(e, k, p, "expand")
<1>1. PICK x \in Kegs : e.at[p] = LinkTo(x, p) /\ p \in DOMAIN Tree[x] /\ Tree[x][p] = "dir"
  BY DEF OpFinds
<1>2. e \in Disks
  BY DEF FineDisk
<1>3. /\ g.backedUp = e.backedUp
      /\ \A q \in Paths :
                \/ g.at[q] = e.at[q] /\ q # p /\ ~(p \in Above(q) /\ q \in DOMAIN Tree[x])
                \/ q = p /\ g.at[q] = RealDir
                \/ q \in From(p) \cap DOMAIN Tree[x] /\ g.at[q] = RealDir /\ Tree[x][q] = "dir"
                \/ q \in From(p) \cap DOMAIN Tree[x] /\ g.at[q] = LinkTo(x, q) /\ Tree[x][q] # "dir"
  BY <1>1, <1>2, ExpandParts
<1> HIDE DEF g
<1>4. e.at[p] \notin {Absent, RealDir}
  BY <1>1, NodeKinds
<1>5. \A q \in Paths : p \in Above(q) => e.at[q] = Absent
  BY <1>4, TreeFacts, FromAbove DEF FineDisk, Fine
<1> SUFFICES ASSUME NEW y \in poured \ L, NEW q \in Paths, e.at[q] = LinkTo(y, q), g.at[q] # LinkTo(y, q)
             PROVE  /\ Tree[y][q] = "dir"
                    /\ \A v \in DOMAIN Tree[y] : q \in Above(v) /\ Tree[y][v] = "file" => g.at[v] = LinkTo(y, v)
  BY <1>3 DEF StillFound, g
<1>6. e.at[q] # Absent
  <2>1. IsLink(e.at[q])
    BY DEF LinkTo, IsLink
  <2> QED
    BY <2>1, NodeKinds
<1>7. q = p
  BY <1>3, <1>5, <1>6, FromAbove
<1>8. y = x
  BY <1>1, <1>7, LinkNames
<1>9. ASSUME NEW v \in DOMAIN Tree[x], p \in Above(v), Tree[x][v] = "file" PROVE g.at[v] = LinkTo(x, v)
  <2>1. v \in Paths /\ v # p
    BY <1>9, TreeClosed, PathOrder
  <2> QED
    BY <1>3, <1>9, <2>1
<1> QED
  BY <1>1, <1>7, <1>8, <1>9

LEMMA OpSound ==
    ASSUME NEW K \in SUBSET Kegs, NEW P \in SUBSET Kegs, P \ K \subseteq poured, NEW e, Sound(e, K, P),
           NEW k \in K, NEW p \in Paths, NEW op \in OpKinds \ {"none"},
           OpFinds(e, k, p, op), ~BackupRefused(e, p, op)
    PROVE  /\ Sound(ApplyOp(e, k, p, op), K, P) /\ SameRecords(e, ApplyOp(e, k, p, op))
           /\ op \in {"symlink", "replace", "backup"} => ApplyOp(e, k, p, op).at[p] = LinkTo(k, p)
<1> DEFINE g == ApplyOp(e, k, p, op)
<1>1. FineDisk(e) /\ e \in Disks /\ FineDisk(g)
  <2>1. FineDisk(e) /\ e \in Disks
    BY DEF Sound, FineDisk
  <2>2. op \in {"replace", "replace_mkdir", "expand"} => IsLink(e.at[p])
    BY NodeKinds DEF OpFinds
  <2> QED
    BY <2>1, <2>2, OpFine DEF OpFinds
<1>2. \A q \in {p} \cup Above(p) : q \in Paths /\ q \in DOMAIN Tree[k]
  BY TreeClosed, PathOrder DEF OpFinds
<1>3. Counted(e, K, k)
  BY DEF Counted
<1>4. CASE op # "expand"
  <2>1. OpNodes(e, g, k, p, op)
    BY <1>1, <1>4, OpParts
  <2>2. StillFound(e, g, K)
    BY <1>1, <1>4, <2>1, OpStill
  <2>3. SameRecords(e, g) /\ (op \in {"symlink", "replace", "backup"} => g.at[p] = LinkTo(k, p))
    BY <2>1 DEF OpNodes
  <2> HIDE DEF g
  <2>4. Grows(e, g, p, {k})
    <3>1. \A q \in Paths :
          \/ g.at[q] = e.at[q]
          \/ q \in From(p) /\ g.at[q] = Absent
          \/ q \in From(p) \cup Above(p) /\ g.at[q] = RealDir
          \/ q \in From(p) /\ \E y \in {k} : q \in DOMAIN Tree[y] /\ g.at[q] = LinkTo(y, q)
      BY <1>2, <2>1, FromAbove DEF OpNodes
    <3>2. ASSUME NEW q \in From(p), q # p, g.at[q] = RealDir PROVE FALSE
      <4>1. q \in Paths /\ q \notin Above(p)
        BY <3>2, FromAbove, PathOrder
      <4>2. CASE op \in {"backup", "backup_mkdir"}
        BY <2>1, <3>2, <4>1, <4>2, NodeKinds DEF OpNodes
      <4>3. CASE op \notin {"backup", "backup_mkdir"}
        <5>1. e.at[p] # RealDir
          BY <1>4, <4>3, NodeKinds DEF OpFinds, OpKinds
        <5>2. e.at[q] = Absent
          BY <1>1, <3>2, <5>1, TreeFacts DEF FineDisk, Fine
        <5>3. g.at[q] = e.at[q]
          BY <2>1, <3>2, <4>1, <4>3 DEF OpNodes
        <5> QED
          BY <3>2, <5>2, <5>3, NodeKinds
      <4> QED
        BY <4>2, <4>3
    <3>3. g.at[p] = RealDir => HasDir(k, p)
      <4>1. CASE op \in {"symlink", "replace", "backup"}
        BY <2>3, <4>1, NodeKinds
      <4>2. CASE op \in {"mkdir", "replace_mkdir", "backup_mkdir"}
        BY <4>2 DEF OpFinds, HasDir
      <4> QED
        BY <1>4, <4>1, <4>2 DEF OpKinds
    <3> QED
      BY <3>1, <3>2, <3>3 DEF Grows
  <2>5. Sound(g, K, P)
    <3> DEFINE Y == {k}
    <3>1. Y \in SUBSET Kegs /\ (\E y \in Y : p \in DOMAIN Tree[y]) /\ \A y \in Y : Counted(e, K, y)
      BY <1>2, <1>3
    <3>2. Grows(e, g, p, Y)
      BY <2>4
    <3>3. Len(p) > 1 /\ p[1] \in LinkDirs /\ OpenAbove(e.at, p)
      BY DEF OpFinds
    <3> HIDE DEF Y
    <3> QED
      BY <1>1, <2>2, <2>3, <3>1, <3>2, <3>3, GrowSound
  <2> QED
    BY <2>3, <2>5 DEF g
<1>5. CASE op = "expand"
  <2>1. PICK x \in Kegs : e.at[p] = LinkTo(x, p) /\ p \in DOMAIN Tree[x] /\ Tree[x][p] = "dir"
    BY <1>5 DEF OpFinds
  <2>2. /\ g.backedUp = e.backedUp /\ SameRecords(e, g)
        /\ \A q \in Paths :
                \/ g.at[q] = e.at[q] /\ q # p /\ ~(p \in Above(q) /\ q \in DOMAIN Tree[x])
                \/ q = p /\ g.at[q] = RealDir
                \/ q \in From(p) \cap DOMAIN Tree[x] /\ g.at[q] = RealDir /\ Tree[x][q] = "dir"
                \/ q \in From(p) \cap DOMAIN Tree[x] /\ g.at[q] = LinkTo(x, q) /\ Tree[x][q] # "dir"
    BY <1>1, <1>5, <2>1, ExpandParts
  <2> HIDE DEF g
  <2>3. e.at[p] \notin {Absent, RealDir}
    BY <2>1, NodeKinds
  <2>4. \A q \in Paths : p \in Above(q) => e.at[q] = Absent
    BY <1>1, <2>3, TreeFacts, FromAbove DEF FineDisk, Fine
  <2>5. Grows(e, g, p, {k, x})
    <3>1. \A q \in From(p) : g.at[q] = RealDir => HasDir(x, q)
      BY <2>1, <2>2, <2>4, FromAbove, NodeKinds DEF HasDir
    <3>2. \A q \in Paths :
          \/ g.at[q] = e.at[q]
          \/ q \in From(p) \cup Above(p) /\ g.at[q] = RealDir
          \/ q \in From(p) /\ \E y \in {k, x} : q \in DOMAIN Tree[y] /\ g.at[q] = LinkTo(y, q)
      BY <2>2, FromAbove
    <3> QED
      BY <3>1, <3>2 DEF Grows
  <2>6. StillFound(e, g, K)
    BY <1>1, <1>5, ExpandStill DEF g
  <2>7. p[1] # "Frameworks" => Counted(e, K, x)
    BY <2>1 DEF Sound, LinksCounted
  <2>8. Sound(g, K, P)
    <3> DEFINE Y == {k, x}
    <3>1. /\ Y \in SUBSET Kegs /\ (\E y \in Y : p \in DOMAIN Tree[y])
          /\ p[1] # "Frameworks" => \A y \in Y : Counted(e, K, y)
      BY <1>3, <2>1, <2>7
    <3>2. Grows(e, g, p, Y)
      BY <2>5
    <3>3. Len(p) > 1 /\ p[1] \in LinkDirs /\ OpenAbove(e.at, p)
      BY DEF OpFinds
    <3> HIDE DEF Y
    <3> QED
      BY <1>1, <2>2, <2>6, <3>1, <3>2, <3>3, GrowSound
  <2> QED
    BY <1>5, <2>2, <2>8 DEF g
<1> QED
  BY <1>4, <1>5

LEMMA AnswerParts ==
    /\ \A d, status : /\ Answer(d, status).disk = d /\ Answer(d, status).status = status
                      /\ Answer(d, status).hurt = {}
    /\ \A d, status, kegs : LET a == Hurting(Answer(d, status), kegs) IN
          a.disk = d /\ a.status = status /\ a.hurt = kegs
BY DEF Answer, Hurting

\* Half an operation: of an expansion, the keg that was linked has lost what was there.
LEMMA HalfSound ==
    ASSUME NEW K \in SUBSET Kegs, NEW P \in SUBSET Kegs, P \ K \subseteq poured, NEW e, Sound(e, K, P),
           NEW k \in K, NEW p \in Paths, NEW op \in OpKinds \ {"none"},
           OpFinds(e, k, p, op), ~BackupRefused(e, p, op)
    PROVE  LET t == TornOp(e, p, op) IN
           t.status = "torn" /\ t.hurt \in SUBSET Kegs /\ Sound(t.disk, K \cup t.hurt, P)
<1> DEFINE g == Halfway(e, p, op)
           H == IF op = "expand" THEN {e.at[p][2]} ELSE {}
           t == TornOp(e, p, op)
<1>1. FineDisk(e) /\ e \in Disks /\ FineDisk(g)
  <2>1. FineDisk(e) /\ e \in Disks
    BY DEF Sound, FineDisk
  <2>2. op \in {"replace", "replace_mkdir", "expand"} => IsLink(e.at[p])
    BY NodeKinds DEF OpFinds
  <2> QED
    BY <2>1, <2>2, OpFine DEF OpFinds
<1>2. t.status = "torn" /\ t.hurt = H /\ t.disk = g
  BY AnswerParts DEF TornOp
<1> HIDE DEF t
<1> SUFFICES H \in SUBSET Kegs /\ Sound(g, K \cup H, P)
  BY <1>2 DEF t
<1>3. Counted(e, K, k) /\ p \in DOMAIN Tree[k]
  BY DEF Counted, OpFinds
<1>4. Len(p) > 1 /\ p[1] \in LinkDirs /\ OpenAbove(e.at, p)
  BY DEF OpFinds
<1>5. \A q \in From(p) : q = p \/ (q # p /\ p \in Above(q))
  BY FromAbove
<1>6. CASE op \in {"symlink", "mkdir"}
  <2>1. g = e /\ H = {}
    BY <1>6 DEF Halfway
  <2>2. K \cup H = K /\ H \in SUBSET Kegs
    BY <2>1
  <2> HIDE DEF g, H
  <2> QED
    BY <2>1, <2>2
<1>7. CASE op \in {"backup", "backup_mkdir"}
  <2>1. g = MoveAway(e, p) /\ H = {}
    BY <1>7 DEF Halfway
  <2>2. /\ \A q \in From(p) : g.at[q] = Absent
        /\ \A q \in Paths : q \notin From(p) => g.at[q] = e.at[q]
    BY <1>1, <1>7, <2>1, MoveFine DEF OpFinds
  <2>3. SameRecords(e, g) /\ g.backedUp = [q \in Paths |-> IF q \in From(p) THEN e.at[q] ELSE e.backedUp[q]]
    BY <1>1, <2>1 DEF MoveAway, Disks, SameRecords
  <2> HIDE DEF g
  <2>4. Grows(e, g, p, {k})
    BY <2>2, NodeKinds DEF Grows
  <2>5. StillFound(e, g, K)
    <3> SUFFICES ASSUME NEW y \in poured \ K, NEW q \in Paths
                 PROVE  /\ e.backedUp[q] = LinkTo(y, q) => g.backedUp[q] = LinkTo(y, q)
                        /\ e.at[q] = LinkTo(y, q) => g.at[q] = LinkTo(y, q) \/ g.backedUp[q] = LinkTo(y, q)
      BY DEF StillFound
    <3> DEFINE link == LinkTo(y, q)
    <3>1. IsLink(link)
      BY DEF LinkTo, IsLink
    <3> HIDE DEF link
    <3>2. ASSUME e.backedUp[q] = link PROVE q \notin From(p)
      BY <1>7, <3>1, <3>2, NodeKinds DEF BackupRefused, IsSymlink
    <3> QED
      BY <2>2, <2>3, <3>2 DEF link
  <2>6. Sound(g, K, P)
    <3> DEFINE Y == {k}
    <3>1. Y \in SUBSET Kegs /\ (\E y \in Y : p \in DOMAIN Tree[y]) /\ \A y \in Y : Counted(e, K, y)
      BY <1>3
    <3>2. Grows(e, g, p, Y)
      BY <2>4
    <3> HIDE DEF Y
    <3> QED
      BY <1>1, <1>4, <2>3, <2>5, <3>1, <3>2, GrowSound DEF g
  <2>7. K \cup H = K /\ H \in SUBSET Kegs
    BY <2>1
  <2> HIDE DEF H
  <2> QED
    BY <2>6, <2>7
<1>8. CASE op \in {"replace", "replace_mkdir"}
  <2>1. H = {} /\ g.at = [e.at EXCEPT ![p] = Absent] /\ g.backedUp = e.backedUp /\ SameRecords(e, g)
    BY <1>1, <1>8 DEF Halfway, Disks, SameRecords
  <2>2. g.at[p] = Absent /\ \A q \in Paths : q # p => g.at[q] = e.at[q]
    BY <1>1, <2>1 DEF Disks
  <2>3. e.at[p] # RealDir
    BY <1>8, NodeKinds DEF OpFinds
  <2>4. \A q \in From(p) : q = p \/ e.at[q] = Absent
    BY <1>1, <2>3, TreeFacts DEF FineDisk, Fine
  <2> HIDE DEF g
  <2>5. Grows(e, g, p, {k})
    BY <1>5, <2>2, <2>4, NodeKinds, FromAbove DEF Grows
  <2>6. StillFound(e, g, K)
    <3> SUFFICES ASSUME NEW y \in poured \ K, NEW q \in Paths, e.at[q] = LinkTo(y, q), Tree[y][q] # "broken"
                 PROVE  g.at[q] = LinkTo(y, q)
      BY <2>1 DEF StillFound
    <3>1. q \notin From(p)
      BY <1>1, <1>8, NoneHeld
    <3> QED
      BY <2>2, <3>1, FromAbove
  <2>7. Sound(g, K, P)
    <3> DEFINE Y == {k}
    <3>1. Y \in SUBSET Kegs /\ (\E y \in Y : p \in DOMAIN Tree[y]) /\ \A y \in Y : Counted(e, K, y)
      BY <1>3
    <3>2. Grows(e, g, p, Y)
      BY <2>5
    <3> HIDE DEF Y
    <3> QED
      BY <1>1, <1>4, <2>1, <2>6, <3>1, <3>2, GrowSound DEF g
  <2>8. K \cup H = K /\ H \in SUBSET Kegs
    BY <2>1
  <2> HIDE DEF H
  <2> QED
    BY <2>7, <2>8
<1>9. CASE op = "expand"
  <2>1. PICK x \in Kegs : e.at[p] = LinkTo(x, p) /\ p \in DOMAIN Tree[x] /\ Tree[x][p] = "dir"
    BY <1>9 DEF OpFinds
  <2>2. H = {x} /\ g.at = [e.at EXCEPT ![p] = RealDir] /\ g.backedUp = e.backedUp /\ SameRecords(e, g)
    BY <1>1, <1>9, <2>1, LinkNames DEF Halfway, Disks, SameRecords
  <2>3. g.at[p] = RealDir /\ \A q \in Paths : q # p => g.at[q] = e.at[q]
    BY <1>1, <2>2 DEF Disks
  <2>4. e.at[p] # RealDir
    BY <2>1, NodeKinds
  <2>5. \A q \in From(p) : q = p \/ e.at[q] = Absent
    BY <1>1, <2>4, TreeFacts DEF FineDisk, Fine
  <2> HIDE DEF g
  <2>6. Grows(e, g, p, {k, x})
    <3>1. \A q \in From(p) : g.at[q] = RealDir => HasDir(x, q)
      BY <2>1, <2>3, <2>5, FromAbove, NodeKinds DEF HasDir
    <3>2. \A q \in Paths : g.at[q] = e.at[q] \/ (q \in From(p) /\ g.at[q] = RealDir)
      BY <2>3, FromAbove
    <3> QED
      BY <3>1, <3>2 DEF Grows
  <2>7. StillFound(e, g, K \cup {x})
    <3> SUFFICES ASSUME NEW y \in poured \ (K \cup {x}), NEW q \in Paths, e.at[q] = LinkTo(y, q)
                 PROVE  g.at[q] = LinkTo(y, q)
      BY <2>2 DEF StillFound
    <3>1. q # p
      BY <2>1, LinkNames
    <3> QED
      BY <2>3, <3>1
  <2>8. p[1] # "Frameworks" => Counted(e, K, x)
    BY <2>1 DEF Sound, LinksCounted
  <2>9. Sound(g, K \cup {x}, P)
    <3> DEFINE Y == {k, x}
               L == K \cup {x}
    <3>1. /\ Y \in SUBSET Kegs /\ (\E y \in Y : p \in DOMAIN Tree[y])
          /\ p[1] # "Frameworks" => \A y \in Y : Counted(e, K, y)
      BY <1>3, <2>8
    <3>2. Grows(e, g, p, Y) /\ StillFound(e, g, L) /\ K \subseteq L /\ P \ L \subseteq poured
      BY <2>6, <2>7
    <3> HIDE DEF Y, L
    <3>3. Sound(g, L, P)
      BY <1>1, <1>4, <2>2, <3>1, <3>2, GrowSound DEF g
    <3> QED
      BY <3>3 DEF L
  <2>10. H \in SUBSET Kegs /\ K \cup H = K \cup {x}
    BY <2>1, <2>2
  <2> HIDE DEF H
  <2> QED
    BY <2>9, <2>10
<1> QED
  BY <1>6, <1>7, <1>8, <1>9 DEF OpKinds

\* The directories every prefix has.
LEMMA ReadySound ==
    ASSUME NEW d, NEW K, NEW P, Sound(d, K, P), ~PreflightRefused(d)
    PROVE  /\ Sound(Ready(d), K, P) /\ SameRecords(d, Ready(d))
           /\ \A q \in Paths : Len(q) > 1 => Ready(d).at[q] = d.at[q]
<1> DEFINE g == Ready(d)
           T == {q \in Paths : Len(q) = 1 /\ q[1] \in MustExistTop}
           none == [q \in Paths |-> "none"]
<1>1. FineDisk(d) /\ d \in Disks
  BY DEF Sound, FineDisk
<1>2. FineDisk(g)
  <2>1. Fits(d, none)
    BY DEF Fits, OpKinds
  <2> HIDE DEF none, g
  <2> QED
    BY <1>1, <2>1, ReadyFine DEF g
<1>3. /\ SameRecords(d, g) /\ g.linked = d.linked /\ g.opt = d.opt /\ g.backedUp = d.backedUp
      /\ \A q \in Paths : g.at[q] = d.at[q] \/ (q \in T /\ g.at[q] = RealDir)
      /\ \A q \in Paths : Len(q) > 1 => g.at[q] = d.at[q]
  <2> DEFINE w == [q \in Paths |-> IF Len(q) = 1 /\ q[1] \in MustExistTop THEN RealDir ELSE d.at[q]]
  <2>1. g = [d EXCEPT !.at = w]
    BY DEF Ready
  <2>2. \A q \in Paths : w[q] = d.at[q] \/ (q \in T /\ w[q] = RealDir)
    OBVIOUS
  <2>3. \A q \in T : Len(q) = 1
    OBVIOUS
  <2>4. \A q \in Paths : Len(q) > 1 => w[q] = d.at[q]
    <3> SUFFICES ASSUME NEW q \in Paths, Len(q) > 1, w[q] # d.at[q] PROVE FALSE
      OBVIOUS
    <3>1. Len(q) = 1
      OBVIOUS
    <3>2. 1 > 1
      BY <3>1
    <3> QED
      BY <3>2
  <2> HIDE DEF w, T, g
  <2>5. g.at = w /\ SameRecords(d, g) /\ g.backedUp = d.backedUp
    BY <1>1, <2>1 DEF Disks, SameRecords
  <2> QED
    BY <2>2, <2>4, <2>5 DEF SameRecords
<1>4. \A q \in Paths : d.at[q] \notin {Absent, RealDir} => g.at[q] = d.at[q]
  <2> SUFFICES ASSUME NEW q \in T PROVE d.at[q] \in {RealDir, Absent}
    BY <1>3
  <2>1. q \in Paths /\ q \in Seq(ToSet(q)) /\ Len(q) = 1 /\ q[1] \in MustExistTop
    BY LinkerAssumption
  <2>2. q = <<q[1]>>
    BY <2>1
  <2> QED
    BY <2>1, <2>2 DEF PreflightRefused
<1>5. \A q \in T : Len(q) = 1
  OBVIOUS
<1> HIDE DEF g, T
<1>6. \A q \in Paths : IsLink(g.at[q]) => g.at[q] = d.at[q]
  BY <1>3, NodeKinds
<1>7. \A q \in Paths : IsLink(d.at[q]) => g.at[q] = d.at[q]
  BY <1>4, NodeKinds
<1>8. \A k, q : IsLink(LinkTo(k, q))
  BY DEF LinkTo, IsLink
<1>9. ShippedLinks(g.at)
  BY <1>6 DEF Sound, ShippedLinks
<1>10. MadeDirs(g.at)
  BY <1>3 DEF Sound, MadeDirs
<1>11. RecordsFit(g, P) /\ Paired(g, K)
  BY <1>3 DEF Sound, RecordsFit, Paired
<1>12. LinksCounted(g, K)
  BY <1>3, <1>6, <1>8 DEF Sound, LinksCounted, Counted
<1>13. DirsCounted(g, K)
  <2>1. \A q \in Paths : LinkBroken(d, q) => LinkBroken(g, q)
    BY <1>7, <1>8 DEF LinkBroken
  <2>2. \A q \in Paths : From(q) \subseteq Paths
    BY FromAbove
  <2> QED
    BY <1>3, <2>1, <2>2 DEF Sound, DirsCounted, Counted
<1>14. LinkedFound(g, K)
  <2>1. \A k, p : p \in Eligible(k) => {p} \cup Above(p) \subseteq Paths
    BY PathOrder DEF Eligible, Inner
  <2>2. \A k, p : p \in Eligible(k) /\ FoundIn(d, k, p) => FoundIn(g, k, p)
    BY <1>3, <1>7, <1>8, <2>1 DEF FoundIn
  <2> QED
    BY <1>3, <2>2 DEF Sound, LinkedFound, AllFound
<1> QED
  BY <1>2, <1>3, <1>9, <1>10, <1>11, <1>12, <1>13, <1>14 DEF Sound, g

-----------------------------------------------------------------------------
(* What a plan is made of                                                  *)

\* Every operation is of an entry of the keg, with what apply_op relies on.
PlanLooks(d, k, plan) ==
    \A p \in Paths : plan[p] # "none" =>
        /\ p \in DOMAIN Tree[k] /\ p[1] \in LinkDirs
        /\ plan[p] \in {"replace", "replace_mkdir"} => ~Resolves(d.at[p])
        /\ plan[p] = "expand" => \E x \in Kegs : d.at[p] = LinkTo(x, p) /\ HasDir(x, p)
        /\ plan[p] \in {"mkdir", "replace_mkdir", "backup_mkdir"} => Tree[k][p] = "dir"

\* Nothing is planned at a, below it or above.
Untouched(plan, a) == \A r \in Paths : plan[r] # "none" => a \notin From(r) /\ a \notin Above(r)
\* The plan links every file of the keg, or finds it linked.
PlanCovers(d, k, plan) ==
    \A v \in Eligible(k) : \E a \in {v} \cup Above(v) :
        /\ a \in Inner
        /\ \/ plan[a] \in {"symlink", "replace", "backup"}
           \/ d.at[a] = LinkTo(k, a) /\ Untouched(plan, a)

LEMMA ClassFinds ==
    ASSUME NEW d, FineDisk(d), ShippedLinks(d.at), NEW k \in Kegs, NEW p \in Paths
    PROVE  /\ Classify(d, k, p) = "broken" => ~Resolves(d.at[p])
           /\ Classify(d, k, p) = "to_keg" => d.at[p] = LinkTo(k, p)
           /\ Classify(d, k, p) = "cellar_dir" => \E x \in Kegs : d.at[p] = LinkTo(x, p) /\ HasDir(x, p)
<1>1. Classify(d, k, p) = "broken" => ~Resolves(d.at[p])
  BY DEF Classify
<1>2. Classify(d, k, p) = "to_keg" => d.at[p] = LinkTo(k, p)
  BY DEF Classify, ResolvesTo
<1>3. ASSUME Classify(d, k, p) = "cellar_dir" PROVE \E x \in Kegs : d.at[p] = LinkTo(x, p) /\ HasDir(x, p)
  <2>1. MergeDir(d.at[p])
    BY <1>3 DEF Classify
  <2>2. PICK x \in Kegs : d.at[p] = LinkTo(x, p) /\ p \in DOMAIN Tree[x]
    BY <2>1 DEF MergeDir, ShippedLinks
  <2>3. d.at[p][2] = x /\ d.at[p][3] = p
    BY <2>2, LinkNames
  <2> QED
    BY <2>1, <2>2, <2>3 DEF MergeDir, HasDir
<1> QED
  BY <1>1, <1>2, <1>3

LEMMA PlanIsLooked ==
    ASSUME NEW d, FineDisk(d), ShippedLinks(d.at), NEW k \in Kegs, NEW overwrite \in BOOLEAN
    PROVE  PlanLooks(d, k, Plan(d, k, overwrite))
<1> DEFINE plan == Plan(d, k, overwrite)
           C == Classified(d, k)
<1> SUFFICES ASSUME NEW p \in Paths, plan[p] # "none"
             PROVE  /\ p \in DOMAIN Tree[k] /\ p[1] \in LinkDirs
                    /\ plan[p] \in {"replace", "replace_mkdir"} => ~Resolves(d.at[p])
                    /\ plan[p] = "expand" => \E x \in Kegs : d.at[p] = LinkTo(x, p) /\ HasDir(x, p)
                    /\ plan[p] \in {"mkdir", "replace_mkdir", "backup_mkdir"} => Tree[k][p] = "dir"
  BY DEF PlanLooks
<1>1. p \in C /\ plan[p] = PlannedOp(d, k, p, overwrite)
  BY DEF Plan
<1> HIDE DEF plan
<1>2. p \in DOMAIN Tree[k] /\ p[1] \in LinkDirs
  BY <1>1 DEF Classified, Visited
<1> DEFINE c == Classify(d, k, p)
           op == PlannedOp(d, k, p, overwrite)
<1>3. /\ c \in {"absent", "broken", "to_keg", "cellar_dir", "real_dir", "conflict"}
      /\ c = "broken" => ~Resolves(d.at[p])
      /\ c = "to_keg" => d.at[p] = LinkTo(k, p)
      /\ c = "cellar_dir" => \E x \in Kegs : d.at[p] = LinkTo(x, p) /\ HasDir(x, p)
  BY ClassKinds, ClassFinds
<1>4. /\ op \in {"replace", "replace_mkdir"} => c = "broken"
      /\ op = "expand" => c \in {"to_keg", "cellar_dir"} /\ Tree[k][p] = "dir"
      /\ op \in {"mkdir", "replace_mkdir", "backup_mkdir"} => Tree[k][p] = "dir"
  BY <1>3 DEF PlannedOp
<1> HIDE DEF c, op
<1>5. plan[p] = op
  BY <1>1 DEF op
<1>6. op = "expand" => \E x \in Kegs : d.at[p] = LinkTo(x, p) /\ HasDir(x, p)
  <2>1. CASE c = "to_keg"
    BY <1>2, <1>3, <1>4, <2>1 DEF HasDir
  <2>2. CASE c = "cellar_dir"
    BY <1>3, <2>2
  <2> QED
    BY <1>4, <2>1, <2>2
<1> QED
  BY <1>2, <1>3, <1>4, <1>5, <1>6

LEMMA SkipDirs ==
    ASSUME NEW p \in Inner, Strategy[p] = "skip_dir"
    PROVE  p[1] \in {"bin", "sbin"}
<1>1. Strategy[p] = StrategyFor(p)
  BY DEF Strategy
<1>2. \A r : ShareStrategy(r) # "skip_dir" /\ LibStrategy(r) # "skip_dir"
  BY DEF ShareStrategy, LibStrategy
<1> QED
  BY <1>1, <1>2 DEF StrategyFor

LEMMA PlanDoesCover ==
    ASSUME NEW d, FineDisk(d), ShippedLinks(d.at), NEW k \in Kegs, NEW overwrite \in BOOLEAN,
           ~PlanRefused(d, k), PlanConflicts(d, k, overwrite) = {}
    PROVE  PlanCovers(d, k, Plan(d, k, overwrite))
<1> DEFINE plan == Plan(d, k, overwrite)
           C == Classified(d, k)
<1> SUFFICES ASSUME NEW v \in Eligible(k)
             PROVE  \E a \in {v} \cup Above(v) :
                       /\ a \in Inner
                       /\ \/ plan[a] \in {"symlink", "replace", "backup"}
                          \/ d.at[a] = LinkTo(k, a) /\ Untouched(plan, a)
  BY DEF PlanCovers
<1>1. /\ v \in DOMAIN Tree[k] /\ v \in Paths /\ Tree[k][v] = "file" /\ v[1] \in LinkDirs
      /\ v \in Inner \ NeverLinked /\ (\A a \in Above(v) : ~IsApp(a))
      /\ v[1] \in {"bin", "sbin"} => Len(v) = 2
  BY TreeClosed DEF Eligible
<1>2. \A a \in {v} \cup Above(v) : a \in DOMAIN Tree[k] /\ a \in Paths /\ a[1] = v[1] /\ Len(a) \in Nat
                                   /\ (a # v => Tree[k][a] = "dir" /\ Len(a) < Len(v))
  <2> TAKE a \in {v} \cup Above(v)
  <2>1. a \in DOMAIN Tree[k] /\ a \in Paths /\ (a # v => Tree[k][a] = "dir")
    BY <1>1, TreeClosed
  <2> QED
    BY <1>1, <2>1, PathRoot
<1> DEFINE S == {a \in {v} \cup Above(v) : Len(a) > 1 /\ (a = v \/ ~Descends(d, k, a))}
           N == {Len(a) : a \in S}
<1>3. v \in S
  BY <1>1 DEF Inner
<1>4. N \in SUBSET Nat /\ N # {}
  BY <1>2, <1>3
<1>5. PICK n \in N : \A m \in N : n <= m
  BY <1>4, FirstOf
<1>6. PICK a \in S : n = Len(a)
  BY <1>5
<1>7. \A b \in S : Len(a) <= Len(b)
  BY <1>5, <1>6
<1>8. /\ a \in {v} \cup Above(v) /\ Len(a) > 1 /\ (a = v \/ ~Descends(d, k, a))
      /\ \A b \in {v} \cup Above(v) : Len(b) > 1 /\ ~Descends(d, k, b) => b \in S
  OBVIOUS
<1> HIDE DEF S, N
<1>9. a \in DOMAIN Tree[k] /\ a \in Paths /\ a[1] = v[1] /\ a \in Inner
  BY <1>2, <1>8 DEF Inner
<1>10. \A b \in Above(a) : b \in Above(v) /\ Len(b) \in Nat /\ Len(b) < Len(a)
  <2> TAKE b \in Above(a)
  <2>1. b \in Paths /\ b \in Above(v)
    BY <1>1, <1>8, <1>9, PathOrder
  <2> QED
    BY <1>9, <2>1, PathRoot
<1>11. \A b \in Above(a) : Len(b) > 1 => Descends(d, k, b)
  <2> SUFFICES ASSUME NEW b \in Above(a), Len(b) > 1, ~Descends(d, k, b) PROVE FALSE
    OBVIOUS
  <2>1. b \in S
    BY <1>8, <1>10
  <2>2. Len(a) <= Len(b) /\ Len(b) < Len(a) /\ Len(a) \in Nat /\ Len(b) \in Nat
    BY <1>2, <1>7, <1>8, <1>10, <2>1
  <2> QED
    BY <2>2
<1>12. a \in Visited(d, k)
  BY <1>1, <1>8, <1>9, <1>11 DEF Visited
<1>13. a \in C
  BY <1>1, <1>2, <1>8, <1>12 DEF Classified
<1> DEFINE c == Classify(d, k, a)
           op == PlannedOp(d, k, a, overwrite)
<1>14. plan[a] = op /\ op # "conflict"
  BY <1>9, <1>13 DEF Plan, PlanConflicts
<1>15. /\ c \in {"absent", "broken", "to_keg", "cellar_dir", "real_dir", "conflict"}
       /\ d.at[a] = RealDir <=> c = "real_dir"
       /\ c = "to_keg" => d.at[a] = LinkTo(k, a)
  BY <1>9, ClassKinds, ClassFinds
<1>16. op \in {"symlink", "replace", "backup"} \/ c = "to_keg"
  <2>1. CASE a = v
    <3>1. Tree[k][a] # "dir"
      BY <1>1, <2>1
    <3> QED
      BY <1>14, <1>15, <3>1 DEF PlannedOp
  <2>2. CASE a # v
    <3>1. a \in Above(v) /\ Tree[k][a] = "dir" /\ ~IsApp(a) /\ ~Descends(d, k, a)
      BY <1>1, <1>2, <1>8, <2>2
    <3>2. Strategy[a] # "skip_dir"
      <4>1. ASSUME a[1] \in {"bin", "sbin"} PROVE FALSE
        <5>1. Len(v) = 2 /\ Len(a) < Len(v) /\ Len(a) > 1 /\ Len(a) \in Nat
          BY <1>1, <1>2, <1>8, <1>9, <2>2, <4>1
        <5> QED
          BY <5>1
      <4> QED
        BY <1>9, <4>1, SkipDirs
    <3>3. Strategy[a] # "mkpath" /\ c # "cellar_dir" /\ c # "real_dir"
      BY <1>15, <3>1, <3>2 DEF Descends
    <3> QED
      BY <1>14, <1>15, <3>1, <3>2, <3>3 DEF PlannedOp
  <2> QED
    BY <2>1, <2>2
<1> HIDE DEF plan, c, op
<1>17. ASSUME c = "to_keg", op \notin {"symlink", "replace", "backup"} PROVE Untouched(plan, a)
  <2> SUFFICES ASSUME NEW r \in Paths, plan[r] # "none" PROVE a \notin From(r) /\ a \notin Above(r)
    BY DEF Untouched
  <2>1. IsLink(d.at[a]) /\ d.at[a] \notin {Absent, RealDir} /\ d.at[a] = LinkTo(k, a)
    BY <1>9, <1>15, <1>17, NodeKinds
  <2>2. r \in C
    BY DEF Plan, plan
  <2>3. a \notin Above(r)
    BY <2>1, <2>2 DEF PlanRefused, AncestorsReal
  <2>4. a # r
    <3>1. op = "none"
      <4>1. CASE Tree[k][a] # "dir"
        BY <1>17, <4>1 DEF PlannedOp, op, c
      <4>2. CASE Tree[k][a] = "dir"
        <5>1. a # v /\ a \in Above(v) /\ ~IsApp(a) /\ ~Descends(d, k, a)
          BY <1>1, <1>8, <4>2
        <5>2. Strategy[a] # "mkpath"
          BY <5>1 DEF Descends
        <5> QED
          BY <1>17, <4>2, <5>1, <5>2 DEF PlannedOp, op, c
      <4> QED
        BY <4>1, <4>2
    <3> QED
      BY <1>14, <3>1
  <2>5. ASSUME r \in Above(a) PROVE FALSE
    <3>1. d.at[r] = RealDir
      BY <1>9, <2>1, <2>5, TreeFacts DEF FineDisk, Fine
    <3>2. Classify(d, k, r) = "real_dir"
      BY <3>1, ClassKinds
    <3>3. Tree[k][r] = "dir"
      BY <1>9, <2>5, TreeClosed
    <3>4. PlannedOp(d, k, r, overwrite) = "none"
      BY <3>2, <3>3 DEF PlannedOp
    <3>5. plan[r] = PlannedOp(d, k, r, overwrite)
      BY <2>2 DEF Plan, plan
    <3> QED
      BY <3>4, <3>5
  <2> QED
    BY <1>9, <2>3, <2>4, <2>5, FromAbove
<1> QED
  BY <1>8, <1>9, <1>14, <1>15, <1>16, <1>17

-----------------------------------------------------------------------------
(* Carrying the plan out, on what the records say                          *)

Placing == {"symlink", "replace", "backup"}
\* What was linked and is not touched still is, what was planned so far is linked.
PlacedBy(d, e, k, plan, i) ==
    /\ \A a \in Inner : d.at[a] = LinkTo(k, a) /\ Untouched(plan, a) => e.at[a] = LinkTo(k, a)
    /\ \A j \in 1 .. i : plan[Order[j]] \in Placing => e.at[Order[j]] = LinkTo(k, Order[j])
StageSound(d, k, plan, K, P, s, i) ==
    /\ Sound(s.disk, K, P) /\ SameRecords(d, s.disk)
    /\ s.going => PlacedBy(d, s.disk, k, plan, i)

LEMMA TurnFinds ==
    ASSUME NEW d, NEW e, NEW k, NEW plan, Fits(d, plan), PlanLooks(d, k, plan), NEW i \in 1 .. Len(Order),
           Pending(d, e, plan, i - 1), plan[Order[i]] # "none"
    PROVE  OpFinds(e, k, Order[i], plan[Order[i]]) /\ plan[Order[i]] \in OpKinds \ {"none"} /\ Order[i] \in Paths
<1> DEFINE p == Order[i]
<1>1. p \in Paths /\ i \in i - 1 + 1 .. Len(Order)
  BY OrderFacts
<1>2. (\A q \in From(p) : e.at[q] = d.at[q]) /\ OpenAbove(e.at, p)
  BY <1>1 DEF Pending
<1>3. e.at[p] = d.at[p]
  BY <1>1, <1>2, FromAbove
<1> HIDE DEF p
<1>4. /\ plan[p] \in OpKinds /\ Len(p) > 1
      /\ plan[p] \in {"mkdir", "symlink"} => d.at[p] = Absent
      /\ plan[p] \in {"replace", "replace_mkdir", "expand"} => IsLink(d.at[p])
      /\ plan[p] \in {"backup", "backup_mkdir"} => d.at[p] # Absent
  BY <1>1 DEF Fits, p
<1>5. /\ p \in DOMAIN Tree[k] /\ p[1] \in LinkDirs
      /\ plan[p] \in {"replace", "replace_mkdir"} => ~Resolves(d.at[p])
      /\ plan[p] = "expand" => \E x \in Kegs : d.at[p] = LinkTo(x, p) /\ HasDir(x, p)
      /\ plan[p] \in {"mkdir", "replace_mkdir", "backup_mkdir"} => Tree[k][p] = "dir"
  BY <1>1 DEF PlanLooks, p
<1>6. OpFinds(e, k, p, plan[p])
  BY <1>2, <1>3, <1>4, <1>5 DEF OpFinds, HasDir
<1> QED
  BY <1>1, <1>4, <1>6 DEF p

LEMMA PlacedStays ==
    ASSUME NEW d, NEW e, NEW g, NEW k, NEW plan, Fits(d, plan), NEW i \in 1 .. Len(Order),
           PlacedBy(d, e, k, plan, i - 1), plan[Order[i]] # "none", Changes(g, e, Order[i]),
           plan[Order[i]] \in Placing => g.at[Order[i]] = LinkTo(k, Order[i])
    PROVE  PlacedBy(d, g, k, plan, i)
<1> DEFINE p == Order[i]
<1>1. p \in Paths /\ Len(Order) \in Nat
  BY OrderFacts
<1>2. ASSUME NEW a \in Inner, d.at[a] = LinkTo(k, a), Untouched(plan, a) PROVE g.at[a] = LinkTo(k, a)
  <2>1. a \in Paths /\ a \notin From(p) /\ a \notin Above(p)
    BY <1>1, <1>2 DEF Inner, Untouched
  <2>2. e.at[a] = LinkTo(k, a)
    BY <1>2 DEF PlacedBy
  <2> QED
    BY <2>1, <2>2 DEF Changes
<1>3. ASSUME NEW j \in 1 .. i, plan[Order[j]] \in Placing PROVE g.at[Order[j]] = LinkTo(k, Order[j])
  <2>1. CASE j = i
    BY <1>3, <2>1
  <2>2. CASE j # i
    <3> DEFINE r == Order[j]
    <3>1. j \in 1 .. i - 1 /\ j < i /\ j \in 1 .. Len(Order)
      BY <1>1, <2>2
    <3>2. r \in Paths /\ r # p /\ p \notin Above(r)
      BY <3>1, OrderFacts
    <3>3. e.at[r] = LinkTo(k, r)
      BY <1>3, <3>1 DEF PlacedBy
    <3>4. plan[r] # "none" /\ plan[r] # "mkdir"
      BY <1>3 DEF Placing
    <3> HIDE DEF p, r
    <3>5. r \notin Above(p)
      <4>1. plan[p] # "none"
        BY DEF p
      <4> QED
        BY <1>1, <3>2, <3>4, <4>1 DEF Fits
    <3>6. r \notin From(p)
      BY <1>1, <3>2, FromAbove
    <3>7. g.at[r] = e.at[r]
      BY <3>2, <3>5, <3>6 DEF Changes, p
    <3> QED
      BY <3>3, <3>7 DEF r
  <2> QED
    BY <2>1, <2>2
<1> QED
  BY <1>2, <1>3 DEF PlacedBy

LEMMA StagesSound ==
    ASSUME NEW K \in SUBSET Kegs, NEW P \in SUBSET Kegs, P \ K \subseteq poured, NEW d, Sound(d, K, P),
           NEW k \in K, ~PreflightRefused(d), NEW plan, Fits(d, plan), PlanLooks(d, k, plan)
    PROVE  \A i \in 0 .. Len(Order) : StageSound(d, k, plan, K, P, Stages(d, k, plan)[i], i)
<1> DEFINE s == Stages(d, k, plan)
           Bad == {i \in 0 .. Len(Order) : ~StageSound(d, k, plan, K, P, s[i], i)}
<1>1. /\ s[0] = [disk |-> Ready(d), going |-> TRUE]
      /\ \A i \in 1 .. Len(Order) : s[i] = Turn(s[i - 1], k, Order[i], plan[Order[i]])
  BY StagesFacts
<1>2. Len(Order) \in Nat /\ FineDisk(d) /\ k \in Kegs
  BY OrderFacts DEF Sound
<1>3. \A i \in 0 .. Len(Order) : StageFine(d, plan, s[i], i)
  BY <1>2, StagesFine
<1> HIDE DEF s
<1> SUFFICES ASSUME Bad # {} PROVE FALSE
  BY DEF s
<1>4. Bad \in SUBSET Nat /\ \A i \in Bad : i \in 0 .. Len(Order) /\ ~StageSound(d, k, plan, K, P, s[i], i)
  BY <1>2
<1>5. \A i \in 0 .. Len(Order) : i \in Bad \/ StageSound(d, k, plan, K, P, s[i], i)
  OBVIOUS
<1> HIDE DEF Bad
<1>6. PICK i \in Bad : \A j \in Bad : i <= j
  BY <1>4, FirstOf
<1>7. CASE i = 0
  <2> DEFINE e == Ready(d)
  <2>1. /\ Sound(e, K, P) /\ SameRecords(d, e)
        /\ \A q \in Paths : Len(q) > 1 => e.at[q] = d.at[q]
    BY ReadySound
  <2> HIDE DEF e
  <2>2. PlacedBy(d, e, k, plan, 0)
    BY <2>1 DEF PlacedBy, Inner
  <2>3. s[0].disk = e
    BY <1>1 DEF e
  <2>4. StageSound(d, k, plan, K, P, s[0], 0)
    BY <2>1, <2>2, <2>3 DEF StageSound
  <2> QED
    BY <1>4, <1>7, <2>4
<1>8. CASE i # 0
  <2>1. i \in 1 .. Len(Order) /\ i - 1 \in 0 .. Len(Order) /\ i - 1 \notin Bad
    BY <1>2, <1>4, <1>6, <1>8
  <2> DEFINE e == s[i - 1]
             p == Order[i]
             op == plan[p]
  <2>2. StageSound(d, k, plan, K, P, e, i - 1) /\ StageFine(d, plan, e, i - 1)
    BY <1>3, <1>5, <2>1
  <2>3. s[i] = Turn(e, k, p, op)
    BY <1>1, <2>1
  <2> HIDE DEF e
  <2>4. CASE ~e.going
    <3>1. s[i] = e
      BY <2>3, <2>4 DEF Turn
    <3>2. StageSound(d, k, plan, K, P, s[i], i)
      BY <2>2, <2>4, <3>1 DEF StageSound
    <3> QED
      BY <1>4, <3>2
  <2>5. CASE e.going /\ op = "none"
    <3>1. s[i] = e
      BY <2>3, <2>5 DEF Turn
    <3>2. \A j \in 1 .. i : j = i \/ j \in 1 .. i - 1
      BY <2>1
    <3>3. op \notin Placing
      BY <2>5 DEF Placing
    <3>4. PlacedBy(d, e.disk, k, plan, i)
      BY <2>2, <2>5, <3>2, <3>3 DEF StageSound, PlacedBy
    <3>5. StageSound(d, k, plan, K, P, s[i], i)
      BY <2>2, <3>1, <3>4 DEF StageSound
    <3> QED
      BY <1>4, <3>5
  <2>6. CASE e.going /\ op # "none" /\ BackupRefused(e.disk, p, op)
    <3>1. s[i] = [e EXCEPT !.going = FALSE]
      BY <2>3, <2>6 DEF Turn
    <3>2. s[i] = [disk |-> e.disk, going |-> FALSE]
      BY <2>2, <3>1 DEF StageFine
    <3>3. StageSound(d, k, plan, K, P, s[i], i)
      BY <2>2, <3>2 DEF StageSound
    <3> QED
      BY <1>4, <3>3
  <2>7. CASE e.going /\ op # "none" /\ ~BackupRefused(e.disk, p, op)
    <3> DEFINE g == ApplyOp(e.disk, k, p, op)
    <3>1. s[i] = [e EXCEPT !.disk = g]
      BY <2>3, <2>7 DEF Turn
    <3>2. s[i] = [disk |-> g, going |-> e.going]
      BY <2>2, <3>1 DEF StageFine
    <3>3. /\ Sound(e.disk, K, P) /\ SameRecords(d, e.disk) /\ PlacedBy(d, e.disk, k, plan, i - 1)
          /\ FineDisk(e.disk) /\ Pending(d, e.disk, plan, i - 1)
      BY <2>2, <2>7 DEF StageFine, StageSound
    <3>4. OpFinds(e.disk, k, p, op) /\ op \in OpKinds \ {"none"} /\ p \in Paths
      BY <2>1, <2>7, <3>3, TurnFinds
    <3> HIDE DEF p, op
    <3>5. Sound(g, K, P) /\ SameRecords(e.disk, g) /\ (op \in Placing => g.at[p] = LinkTo(k, p))
      BY <2>7, <3>3, <3>4, OpSound DEF Placing
    <3>6. Changes(g, e.disk, p)
      <4>1. op \in {"replace", "replace_mkdir", "expand"} => IsLink(e.disk.at[p])
        BY <3>4, NodeKinds DEF OpFinds
      <4> QED
        BY <1>2, <2>7, <3>3, <3>4, <4>1, OpFine DEF OpFinds
    <3>10. SameRecords(d, g)
      BY <3>3, <3>5 DEF SameRecords
    <3> HIDE DEF g
    <3> USE DEF p, op
    <3>7. PlacedBy(d, g, k, plan, i)
      BY <2>1, <2>7, <3>3, <3>5, <3>6, PlacedStays
    <3>8. s[i].disk = g
      BY <3>2
    <3>9. StageSound(d, k, plan, K, P, s[i], i)
      BY <3>3, <3>5, <3>7, <3>8, <3>10 DEF StageSound
    <3> QED
      BY <1>4, <3>9
  <2> QED
    BY <2>2, <2>4, <2>5, <2>6, <2>7 DEF StageFine
<1> QED
  BY <1>7, <1>8

\* At the end of the loop the keg is found.
LEMMA PlacedFound ==
    ASSUME NEW d, NEW e, NEW k \in Kegs, NEW plan, PlanCovers(d, k, plan), PlacedBy(d, e, k, plan, Len(Order))
    PROVE  AllFound(e, k)
<1> SUFFICES ASSUME NEW v \in Eligible(k) PROVE FoundIn(e, k, v)
  BY DEF AllFound
<1>1. PICK a \in {v} \cup Above(v) :
        /\ a \in Inner
        /\ \/ plan[a] \in Placing
           \/ d.at[a] = LinkTo(k, a) /\ Untouched(plan, a)
  BY DEF PlanCovers, Placing
<1>2. a \in ToSet(Order)
  BY <1>1 DEF Inner, Paths
<1>3. PICK j \in DOMAIN Order : Order[j] = a
  BY <1>2 DEF ToSet
<1>4. j \in 1 .. Len(Order)
  BY <1>3, LinkerAssumption
<1>5. e.at[a] = LinkTo(k, a)
  BY <1>1, <1>3, <1>4 DEF PlacedBy
<1> QED
  BY <1>5 DEF FoundIn

-----------------------------------------------------------------------------
(* The records                                                             *)

LEMMA KegFormula ==
    ASSUME NEW k \in Kegs
    PROVE  FormulaOfKeg(k) \in Formulae /\ k \in ToSet(VersionsOf[FormulaOfKeg(k)])
<1>1. PICK f \in Formulae : k \in ToSet(VersionsOf[f])
  BY LinkerAssumption
<1>2. \A g \in Formulae : VersionsOf[g] \in Seq(Kegs)
  BY LinkerAssumption
<1>3. \A g \in Formulae : Contains(VersionsOf[g], k) <=> k \in ToSet(VersionsOf[g])
  BY <1>2 DEF Contains, ToSet
<1> QED
  BY <1>1, <1>3 DEF FormulaOfKeg

LEMMA FormulaOfIts ==
    ASSUME NEW f \in Formulae, NEW k \in ToSet(VersionsOf[f])
    PROVE  k \in Kegs /\ FormulaOfKeg(k) = f
<1>1. k \in Kegs
  BY LinkerAssumption
<1>2. FormulaOfKeg(k) \in Formulae /\ k \in ToSet(VersionsOf[FormulaOfKeg(k)])
  BY <1>1, KegFormula
<1> DEFINE g == FormulaOfKeg(k)
<1>3. k \in ToSet(VersionsOf[f]) \cap ToSet(VersionsOf[g])
  BY <1>2
<1> HIDE DEF g
<1>4. f = g \/ ToSet(VersionsOf[f]) \cap ToSet(VersionsOf[g]) = {}
  BY <1>2, LinkerAssumption DEF g
<1> QED
  BY <1>1, <1>3, <1>4 DEF g

\* The record of k's formula is free, or k's.
Claims(d, T) == \A k \in T : d.linked[FormulaOfKeg(k)] \in {NoKegHere, k}
\* Between d and g only the records of k's formula may have changed.
OnlyRecord(d, g, k) ==
    /\ g.alias = d.alias
    /\ \A f \in Formulae :
        \/ g.linked[f] = d.linked[f] /\ g.opt[f] = d.opt[f]
        \/ f = FormulaOfKeg(k) /\ g.linked[f] \in {NoKegHere, k}
\* Nothing but records differs.
SameTrees(d, g) == g \in Disks /\ g.at = d.at /\ g.backedUp = d.backedUp

LEMMA RecordSound ==
    ASSUME NEW K \in SUBSET Kegs, NEW P, NEW k \in K, k \in P, NEW e, Sound(e, K, P), Claims(e, {k}),
           NEW g, SameTrees(e, g), OnlyRecord(e, g, k)
    PROVE  /\ Sound(g, K, P)
           /\ g.linked[FormulaOfKeg(k)] = k /\ g.opt[FormulaOfKeg(k)] = k /\ (AllFound(e, k) \/ FormulaOfKeg(k) \in KegOnly)
                => Sound(g, K \ {k}, P)
<1> DEFINE f == FormulaOfKeg(k)
<1>1. f \in Formulae /\ k # NoKegHere /\ NoKegHere \notin Kegs
  BY KegFormula, LinkerAssumption
<1>2. e.linked[f] \in {NoKegHere, k}
  BY DEF Claims
<1>3. \A j \in Kegs : FormulaOfKeg(j) \in Formulae
  BY KegFormula
<1>4. g.at = e.at /\ g.backedUp = e.backedUp
  BY DEF SameTrees
<1>5. FineDisk(g)
  BY DEF Sound, FineDisk, SameTrees
<1>6. RecordsFit(g, P)
  BY <1>1 DEF Sound, RecordsFit, OnlyRecord
<1> DEFINE Keeps(L) == \A j \in Kegs : Counted(e, K, j) => Counted(g, L, j)
           Finds(L) == \A h \in Formulae \ KegOnly : g.linked[h] # NoKegHere /\ g.linked[h] \notin L
                         => AllFound(e, g.linked[h])
<1>7. ASSUME NEW L, Keeps(L), Finds(L), Paired(g, L) PROVE Sound(g, L, P)
  <2>1. LinksCounted(g, L)
    BY <1>4, <1>7 DEF Sound, LinksCounted
  <2>2. DirsCounted(g, L)
    <3>1. \A q \in Paths : LinkBroken(e, q) => LinkBroken(g, q)
      BY <1>4 DEF LinkBroken
    <3>2. \A q \in Paths : From(q) \subseteq Paths
      BY FromAbove
    <3> QED
      BY <1>4, <1>7, <3>1, <3>2 DEF Sound, DirsCounted
  <2>3. \A j : AllFound(e, j) => AllFound(g, j)
    BY <1>4 DEF AllFound, FoundIn
  <2>4. LinkedFound(g, L)
    BY <1>7, <2>3 DEF LinkedFound
  <2> QED
    BY <1>4, <1>5, <1>6, <1>7, <2>1, <2>2, <2>4 DEF Sound
<1>8. \A j \in Kegs : j # k /\ e.linked[FormulaOfKeg(j)] = j => g.linked[FormulaOfKeg(j)] = j
  BY <1>1, <1>2, <1>3 DEF OnlyRecord
<1>9. Keeps(K)
  BY <1>8 DEF Counted
<1>10. g.linked[f] = k => Keeps(K \ {k})
  BY <1>8 DEF Counted
<1>11. \A h \in Formulae \ KegOnly : h # f /\ g.linked[h] # NoKegHere /\ g.linked[h] \notin K => AllFound(e, g.linked[h])
  BY DEF OnlyRecord, Sound, LinkedFound
<1>12. g.linked[f] \in {NoKegHere, k}
  BY <1>1, <1>2 DEF OnlyRecord
<1>13. Finds(K)
  BY <1>11, <1>12
<1>14. ASSUME g.linked[f] = k, AllFound(e, k) \/ f \in KegOnly PROVE Finds(K \ {k})
  <2>1. \A h \in Formulae : g.linked[h] = k => h = f
    BY <1>1, <1>6 DEF RecordsFit
  <2> QED
    BY <1>11, <1>14, <2>1
<1>15. \A h \in Formulae : h # f /\ g.linked[h] # NoKegHere /\ g.linked[h] \notin K => g.opt[h] = g.linked[h]
  BY DEF OnlyRecord, Sound, Paired
<1>16. Paired(g, K)
  BY <1>12, <1>15 DEF Paired
<1>17. ASSUME g.linked[f] = k, g.opt[f] = k PROVE Paired(g, K \ {k})
  <2>1. \A h \in Formulae : g.linked[h] = k => h = f
    BY <1>1, <1>6 DEF RecordsFit
  <2> QED
    BY <1>15, <1>17, <2>1 DEF Paired
<1> QED
  BY <1>7, <1>9, <1>10, <1>13, <1>14, <1>16, <1>17

\* How writing the records ends, on disk e.
RecordedWell(e, K, P, k, a) ==
    /\ a.status \in {"ok", "stuck", "torn"} /\ a.hurt = {}
    /\ Sound(a.disk, K, P) /\ OnlyRecord(e, a.disk, k) /\ SameTrees(e, a.disk)
    /\ a.status = "ok" => /\ Sound(a.disk, K \ {k}, P)
                          /\ a.disk.linked[FormulaOfKeg(k)] = k /\ a.disk.opt[FormulaOfKeg(k)] = k

LEMMA WriteRecordsSound ==
    ASSUME NEW K \in SUBSET Kegs, NEW P, NEW k \in K, k \in P, NEW e, Sound(e, K, P), Claims(e, {k}),
           AllFound(e, k) \/ FormulaOfKeg(k) \in KegOnly,
           NEW a \in WriteRecords(e, k)
    PROVE  RecordedWell(e, K, P, k, a)
<1> USE DEF RecordedWell
<1> DEFINE f == FormulaOfKeg(k)
           withOpt == [e EXCEPT !.opt[f] = k]
           noOpt == [e EXCEPT !.opt[f] = NoKegHere]
           written == [withOpt EXCEPT !.linked[f] = k]
           none == [withOpt EXCEPT !.linked[f] = NoKegHere]
<1>1. e \in Disks /\ k \in Kegs /\ f \in Formulae
  BY KegFormula DEF Sound, FineDisk
<1> HIDE DEF f
<1>2. /\ SameTrees(e, e) /\ SameTrees(e, withOpt) /\ SameTrees(e, noOpt) /\ withOpt \in Disks
      /\ withOpt.linked = e.linked /\ withOpt.alias = e.alias /\ withOpt.opt = [e.opt EXCEPT ![f] = k]
      /\ noOpt.linked = e.linked /\ noOpt.alias = e.alias /\ noOpt.opt = [e.opt EXCEPT ![f] = NoKegHere]
  BY <1>1 DEF SameTrees, Disks
<1>9. e.linked[f] \in {NoKegHere, k} /\ \A h \in Formulae : h # f => withOpt.opt[h] = e.opt[h] /\ noOpt.opt[h] = e.opt[h]
  BY <1>1, <1>2 DEF Claims, f, Disks
<1>3. OnlyRecord(e, e, k) /\ OnlyRecord(e, withOpt, k) /\ OnlyRecord(e, noOpt, k)
  BY <1>2, <1>9 DEF OnlyRecord, f
<1> HIDE DEF withOpt, noOpt
<1>4. SameTrees(e, written) /\ written.linked = [e.linked EXCEPT ![f] = k] /\ written.linked[f] = k
      /\ written.opt = withOpt.opt /\ written.alias = e.alias
  BY <1>1, <1>2 DEF SameTrees, Disks
<1>5. SameTrees(e, none) /\ none.linked = [e.linked EXCEPT ![f] = NoKegHere] /\ none.linked[f] = NoKegHere
      /\ none.opt = withOpt.opt /\ none.alias = e.alias
  BY <1>1, <1>2 DEF SameTrees, Disks
<1> HIDE DEF written, none
<1>6. OnlyRecord(e, written, k) /\ OnlyRecord(e, none, k)
  <2>1. \A h \in Formulae : h # f => written.linked[h] = e.linked[h] /\ none.linked[h] = e.linked[h]
    BY <1>1, <1>4, <1>5 DEF Disks
  <2> QED
    BY <1>4, <1>5, <1>9, <2>1 DEF OnlyRecord, f
<1>7. \/ a.disk = e /\ a.status \in {"stuck", "torn"} /\ a.hurt = {}
      \/ a.disk \in {noOpt, withOpt, none} /\ a.status = "torn" /\ a.hurt = {}
      \/ a.disk = written /\ a.status = "ok" /\ a.hurt = {}
  <2>1. WriteRecords(e, k) = IF e.opt[f] = "directory" THEN {Answer(e, "stuck")}
                             ELSE {Answer(written, "ok")} \cup Torn({e, noOpt, withOpt, none})
    BY DEF WriteRecords, f, withOpt, written, noOpt, none
  <2>2. Torn({e, noOpt, withOpt, none}) \subseteq {Answer(g, "torn") : g \in {e, noOpt, withOpt, none}}
    BY DEF Torn, Failing
  <2>3. \/ a = Answer(e, "stuck") \/ a = Answer(written, "ok")
        \/ \E g \in {e, noOpt, withOpt, none} : a = Answer(g, "torn")
    BY <2>1, <2>2
  <2>4. CASE a = Answer(e, "stuck")
    BY <2>4, AnswerParts
  <2>5. CASE a = Answer(written, "ok")
    BY <2>5, AnswerParts
  <2>6. ASSUME NEW g \in {e, noOpt, withOpt, none}, a = Answer(g, "torn")
        PROVE  a.disk = g /\ a.status = "torn" /\ a.hurt = {}
    BY <2>6, AnswerParts
  <2> QED
    BY <2>3, <2>4, <2>5, <2>6
<1>8. ASSUME NEW g, SameTrees(e, g), OnlyRecord(e, g, k)
      PROVE  Sound(g, K, P) /\ (g.linked[f] = k /\ g.opt[f] = k => Sound(g, K \ {k}, P))
  BY <1>8, RecordSound DEF f
<1>10. written.opt[f] = k
  BY <1>1, <1>2, <1>4 DEF Disks
<1> QED
  BY <1>2, <1>3, <1>4, <1>5, <1>6, <1>7, <1>8, <1>10 DEF f

-----------------------------------------------------------------------------
(* link(keg)                                                               *)

\* What a failing call of the loop answers.
TornWell(d, K, P, a) ==
    /\ a.status = "torn" /\ a.hurt \in SUBSET Kegs
    /\ Sound(a.disk, K \cup a.hurt, P) /\ SameRecords(d, a.disk)

\* The plan has been carried out up to a failing call: its answer.
LEMMA TornOpSound ==
    ASSUME NEW K \in SUBSET Kegs, NEW P \in SUBSET Kegs, P \ K \subseteq poured, NEW d, Sound(d, K, P),
           NEW k \in K, ~PreflightRefused(d), NEW plan, Fits(d, plan), PlanLooks(d, k, plan),
           NEW s, s = Stages(d, k, plan), NEW i \in 1 .. Len(Order), s[i].going
    PROVE  TornWell(d, K, P, TornOp(s[i - 1].disk, Order[i], plan[Order[i]]))
<1> DEFINE e == s[i - 1]
           p == Order[i]
           op == plan[p]
           a == TornOp(e.disk, p, op)
<1>1. Len(Order) \in Nat /\ i - 1 \in 0 .. Len(Order) /\ FineDisk(d) /\ k \in Kegs
  BY OrderFacts DEF Sound
<1>2. \A j \in 0 .. Len(Order) : StageFine(d, plan, s[j], j)
  BY <1>1, StagesFine
<1>3. \A j \in 0 .. Len(Order) : StageSound(d, k, plan, K, P, s[j], j)
  BY StagesSound
<1>12. \A j \in 1 .. Len(Order) : s[j] = Turn(s[j - 1], k, Order[j], plan[Order[j]])
  <2>1. /\ s[0] = [disk |-> Ready(d), going |-> TRUE]
        /\ \A j \in 1 .. Len(Order) : s[j] = Turn(s[j - 1], k, Order[j], plan[Order[j]])
    BY StagesFacts
  <2> QED
    BY <2>1
<1>5. s[i].going
  OBVIOUS
<1>4. s[i] = Turn(e, k, p, op)
  BY <1>12
<1>6. StageFine(d, plan, e, i - 1) /\ StageSound(d, k, plan, K, P, e, i - 1)
  BY <1>1, <1>2, <1>3
<1> HIDE DEF e
<1>7. Sound(e.disk, K, P) /\ SameRecords(d, e.disk) /\ e.disk \in Disks
  BY <1>6 DEF StageSound, Sound, FineDisk
<1>8. a.disk = Halfway(e.disk, p, op) /\ a.status = "torn" /\ a.hurt = IF op = "expand" THEN {e.disk.at[p][2]} ELSE {}
  BY AnswerParts DEF TornOp
<1>9. SameRecords(d, a.disk)
  BY <1>7, <1>8 DEF Halfway, MoveAway, Disks, SameRecords
<1>10. CASE op = "none"
  <2>1. a.disk = e.disk /\ a.hurt = {}
    BY <1>8, <1>10 DEF Halfway
  <2>2. K \cup a.hurt = K
    BY <2>1
  <2> HIDE DEF a
  <2> QED
    BY <1>7, <1>8, <1>9, <2>1, <2>2 DEF a, e, TornWell
<1>11. CASE op # "none"
  <2>1. e.going
    BY <1>4, <1>5, <1>11 DEF Turn
  <2>2. ~BackupRefused(e.disk, p, op)
    <3> SUFFICES ASSUME BackupRefused(e.disk, p, op) PROVE FALSE
      OBVIOUS
    <3>1. s[i] = [e EXCEPT !.going = FALSE]
      BY <1>4, <1>11, <2>1 DEF Turn
    <3>2. s[i].going = FALSE
      BY <1>6, <3>1 DEF StageFine
    <3> QED
      BY <1>5, <3>2
  <2>3. Pending(d, e.disk, plan, i - 1)
    BY <1>6, <2>1 DEF StageFine
  <2>4. OpFinds(e.disk, k, p, op) /\ op \in OpKinds \ {"none"} /\ p \in Paths
    BY <1>11, <2>3, TurnFinds
  <2> HIDE DEF p, op
  <2>5. a.hurt \in SUBSET Kegs /\ Sound(a.disk, K \cup a.hurt, P)
    BY <1>7, <2>2, <2>4, HalfSound
  <2> HIDE DEF a
  <2> QED
    BY <1>8, <1>9, <2>5 DEF a, e, p, op, TornWell
<1> QED
  BY <1>10, <1>11

\* How `link' of keg k ends, on disk d.
LinkedWell(d, K, P, k, a) ==
    /\ a.status \in {"ok", "refused", "conflict", "stuck", "torn"} /\ a.hurt \in SUBSET Kegs
    /\ a.status \in {"refused", "conflict"} => a.disk = d /\ a.hurt = {}
    /\ a.status = "ok" => a.hurt = {} /\ Sound(a.disk, K \ {k}, P)
    /\ Sound(a.disk, K \cup {k} \cup a.hurt, P)
    /\ OnlyRecord(d, a.disk, k)

\* Without its files only a keg-only one is linked.
Records(k, fileLinks) == fileLinks \/ FormulaOfKeg(k) \in KegOnly

LEMMA LinkKegSound ==
    ASSUME NEW K \in SUBSET Kegs, NEW P \in SUBSET Kegs, NEW d, Sound(d, K, P), NEW k \in P,
           P \ (K \cup {k}) \subseteq poured, Claims(d, {k}),
           NEW overwrite \in BOOLEAN, NEW fileLinks \in BOOLEAN, Records(k, fileLinks),
           NEW a \in LinkKeg(d, k, overwrite, fileLinks)
    PROVE  LinkedWell(d, K, P, k, a)
<1> USE DEF LinkedWell, Records
<1> DEFINE L == K \cup {k}
           plan == IF fileLinks THEN Plan(d, k, overwrite) ELSE [p \in Paths |-> "none"]
           s == Stages(d, k, plan)
           n == Len(Order)
           refused == (fileLinks /\ PlanRefused(d, k)) \/ (fileLinks /\ PlanConflicts(d, k, overwrite) # {})
                         \/ PreflightRefused(d)
           Half(i) == TornOp(s[i - 1].disk, Order[i], plan[Order[i]])
<1>1. L \in SUBSET Kegs /\ k \in L /\ K \subseteq L /\ L \ {k} = K \ {k} /\ P \ L \subseteq poured /\ k \in Kegs
  OBVIOUS
<1>2. K \cup {k} \cup a.hurt = L \cup a.hurt
  OBVIOUS
<1>3. \/ refused /\ (a = Answer(d, "refused") \/ a = Answer(d, "conflict"))
      \/ ~refused /\ s[n].going /\ a \in WriteRecords(s[n].disk, k)
      \/ ~refused /\ a = Answer(s[n].disk, "stuck")
      \/ ~refused /\ \E i \in 0 .. n : a = Answer(s[i].disk, "torn")
      \/ ~refused /\ \E i \in 1 .. n : s[i].going /\ a = Half(i)
  BY DEF LinkKeg, Torn, Failing
<1> HIDE DEF L
<1>4. Sound(d, L, P) /\ FineDisk(d) /\ ShippedLinks(d.at)
  BY <1>1, SoundMore DEF Sound
<1> SUFFICES /\ a.status \in {"ok", "refused", "conflict", "stuck", "torn"} /\ a.hurt \in SUBSET Kegs
             /\ a.status \in {"refused", "conflict"} => a.disk = d /\ a.hurt = {}
             /\ a.status = "ok" => a.hurt = {} /\ Sound(a.disk, L \ {k}, P)
             /\ Sound(a.disk, L \cup a.hurt, P) /\ OnlyRecord(d, a.disk, k)
  BY <1>1, <1>2
<1>5. OnlyRecord(d, d, k)
  BY DEF OnlyRecord
<1>6. ASSUME a.hurt = {} PROVE L \cup a.hurt = L
  BY <1>6
<1>7. CASE refused
  <2>1. a.disk = d /\ a.hurt = {} /\ a.status \in {"refused", "conflict"}
    <3>1. CASE a = Answer(d, "refused")
      BY <3>1, AnswerParts
    <3>2. CASE a = Answer(d, "conflict")
      BY <3>2, AnswerParts
    <3> HIDE DEF refused
    <3> QED
      BY <1>3, <1>7, <3>1, <3>2
  <2> HIDE DEF refused
  <2> QED
    BY <1>4, <1>5, <1>6, <2>1
<1>8. CASE ~refused
  <2>1. ~PreflightRefused(d)
    BY <1>8
  <2>2. Fits(d, plan) /\ PlanLooks(d, k, plan) /\ (fileLinks => PlanCovers(d, k, plan))
    <3>1. CASE fileLinks
      <4>1. plan = Plan(d, k, overwrite) /\ ~PlanRefused(d, k) /\ PlanConflicts(d, k, overwrite) = {}
        BY <1>8, <3>1
      <4> HIDE DEF plan
      <4> QED
        BY <1>1, <1>4, <4>1, PlanFits, PlanIsLooked, PlanDoesCover
    <3>2. CASE ~fileLinks
      BY <3>2 DEF Fits, OpKinds, PlanLooks
    <3> QED
      BY <3>1, <3>2
  <2> HIDE DEF plan, refused
  <2>3. \A i \in 0 .. n : StageSound(d, k, plan, L, P, s[i], i)
    BY <1>1, <1>4, <2>1, <2>2, StagesSound
  <2>4. n \in Nat /\ n \in 0 .. n
    BY OrderFacts
  <2>14. s = Stages(d, k, plan)
    OBVIOUS
  <2> HIDE DEF s
  <2>5. ASSUME NEW i \in 1 .. n, s[i].going
        PROVE  /\ Half(i).status = "torn" /\ Half(i).hurt \in SUBSET Kegs
               /\ Sound(Half(i).disk, L \cup Half(i).hurt, P) /\ SameRecords(d, Half(i).disk)
    <3>1. L \in SUBSET Kegs /\ k \in L /\ P \ L \subseteq poured /\ P \in SUBSET Kegs
      BY <1>1
    <3>2. Sound(d, L, P) /\ Fits(d, plan) /\ PlanLooks(d, k, plan)
      BY <1>4, <2>2
    <3>3. s[i].going /\ i \in 1 .. Len(Order)
      BY <2>5
    <3>4. TornWell(d, L, P, TornOp(s[i - 1].disk, Order[i], plan[Order[i]]))
      BY <2>1, <2>14, <3>1, <3>2, <3>3, TornOpSound
    <3> QED
      BY <3>4 DEF TornWell
  <2> HIDE DEF n
  <2>6. \A i \in 0 .. n : Sound(s[i].disk, L, P) /\ SameRecords(d, s[i].disk)
    BY <2>3 DEF StageSound
  <2>7. ASSUME NEW g, SameRecords(d, g) PROVE OnlyRecord(d, g, k)
    BY <2>7 DEF OnlyRecord, SameRecords
  <2>8. CASE s[n].going /\ a \in WriteRecords(s[n].disk, k)
    <3> DEFINE e == s[n].disk
    <3>1. Sound(e, L, P) /\ SameRecords(d, e) /\ Claims(e, {k})
      BY <2>4, <2>6 DEF Claims, SameRecords
    <3>2. AllFound(e, k) \/ FormulaOfKeg(k) \in KegOnly
      <4>1. CASE fileLinks
        <5>1. PlacedBy(d, e, k, plan, n)
          BY <2>3, <2>4, <2>8 DEF StageSound
        <5> QED
          BY <1>1, <2>2, <4>1, <5>1, PlacedFound DEF n
      <4> QED
        BY <4>1
    <3>3. a \in WriteRecords(e, k)
      BY <2>8
    <3> HIDE DEF e
    <3>6. RecordedWell(e, L, P, k, a)
      BY <1>1, <3>1, <3>2, <3>3, WriteRecordsSound
    <3>4. /\ a.status \in {"ok", "stuck", "torn"} /\ a.hurt = {}
          /\ Sound(a.disk, L, P) /\ OnlyRecord(e, a.disk, k)
          /\ a.status = "ok" => Sound(a.disk, L \ {k}, P)
      BY <3>6 DEF RecordedWell
    <3>5. OnlyRecord(d, a.disk, k)
      BY <3>1, <3>4 DEF OnlyRecord, SameRecords
    <3> QED
      BY <1>6, <3>4, <3>5
  <2>9. CASE a = Answer(s[n].disk, "stuck")
    <3>1. a.disk = s[n].disk /\ a.status = "stuck" /\ a.hurt = {}
      BY <2>9, AnswerParts
    <3>2. Sound(a.disk, L, P) /\ OnlyRecord(d, a.disk, k)
      BY <2>4, <2>6, <2>7, <3>1
    <3> QED
      BY <1>6, <3>1, <3>2
  <2>10. ASSUME NEW i \in 0 .. n, a = Answer(s[i].disk, "torn")
         PROVE  a.hurt = {} /\ a.status = "torn" /\ Sound(a.disk, L, P) /\ OnlyRecord(d, a.disk, k)
    <3>1. a.disk = s[i].disk /\ a.status = "torn" /\ a.hurt = {}
      BY <2>10, AnswerParts
    <3> QED
      BY <2>6, <2>7, <3>1
  <2>11. CASE \E i \in 0 .. n : a = Answer(s[i].disk, "torn")
    BY <1>6, <2>10, <2>11
  <2>12. ASSUME NEW i \in 1 .. n, s[i].going, a = Half(i)
         PROVE  /\ a.status = "torn" /\ a.hurt \in SUBSET Kegs
                /\ Sound(a.disk, L \cup a.hurt, P) /\ OnlyRecord(d, a.disk, k)
    <3>1. /\ a.status = "torn" /\ a.hurt \in SUBSET Kegs
          /\ Sound(a.disk, L \cup a.hurt, P) /\ SameRecords(d, a.disk)
      BY <2>5, <2>12
    <3> QED
      BY <2>7, <3>1
  <2> HIDE DEF Half
  <2>13. CASE \E i \in 1 .. n : s[i].going /\ a = Half(i)
    BY <2>12, <2>13
  <2> QED
    BY <1>3, <1>8, <2>8, <2>9, <2>11, <2>13 
<1> QED
  BY <1>7, <1>8

-----------------------------------------------------------------------------
(* unlink(keg)                                                             *)

\* Links of k through which something resolves are taken away.
LEMMA ThinSound ==
    ASSUME NEW K \in SUBSET Kegs, NEW P, NEW d, Sound(d, K, P), NEW k \in Kegs,
           NEW S \in SUBSET Paths, \A q \in S : d.at[q] = LinkTo(k, q) /\ Tree[k][q] # "broken"
    PROVE  LET g == WithoutLinks(d, S) IN
           /\ Sound(g, K \cup {k}, P)
           /\ SameRecords(d, g) /\ g.at = WithoutAll(d.at, S) /\ g.backedUp = d.backedUp
<1> DEFINE g == WithoutLinks(d, S)
           w == WithoutAll(d.at, S)
           L == K \cup {k}
<1>1. FineDisk(d) /\ d \in Disks /\ Fine(d.at, d.backedUp)
  BY DEF Sound, FineDisk
<1>2. \A p \in S : p \in Paths /\ IsLink(d.at[p]) /\ d.at[p] \notin {File, Outside, RealDir}
  BY NodeKinds
<1>3. \A p \in S : \A q \in From(p) : d.at[q] = Absent \/ q \in S
  BY <1>1, <1>2, TreeFacts DEF Fine
<1>4. Fine(w, d.backedUp)
  BY <1>1, <1>2, <1>3, WithoutFine
<1>5. g = [d EXCEPT !.at = w]
  BY DEF WithoutLinks
<1>6. \A q \in Paths : w[q] = IF q \in S THEN Absent ELSE d.at[q]
  BY DEF WithoutAll
<1> HIDE DEF w, g
<1>7. FineDisk(g) /\ g.at = w /\ SameRecords(d, g) /\ g.linked = d.linked /\ g.opt = d.opt /\ g.backedUp = d.backedUp
  BY <1>1, <1>4, <1>5, AtFine DEF Disks, SameRecords
<1>8. \A k_1, q : IsLink(LinkTo(k_1, q))
  BY DEF LinkTo, IsLink
<1>9. \A q \in Paths, y \in Kegs : w[q] = LinkTo(y, q) => d.at[q] = LinkTo(y, q)
  BY <1>6, <1>8, NodeKinds
<1>10. \A q \in Paths, y \in Kegs : d.at[q] = LinkTo(y, q) /\ (y # k \/ Tree[k][q] = "broken") => w[q] = LinkTo(y, q)
  <2> TAKE q \in Paths, y \in Kegs
  <2>1. q \in S /\ d.at[q] = LinkTo(y, q) => y = k
    <3> SUFFICES ASSUME q \in S, d.at[q] = LinkTo(y, q) PROVE y = k
      OBVIOUS
    <3>1. LinkTo(y, q) = LinkTo(k, q)
      OBVIOUS
    <3> QED
      BY <3>1, LinkNames
  <2> QED
    BY <1>6, <2>1
<1>11. ShippedLinks(w) /\ MadeDirs(w)
  BY <1>6, NodeKinds DEF Sound, ShippedLinks, MadeDirs
<1>12. \A j \in Kegs : Counted(d, K, j) => Counted(g, L, j)
  BY <1>7 DEF Counted
<1>13. RecordsFit(g, P) /\ Paired(g, L)
  BY <1>7 DEF Sound, RecordsFit, Paired
<1>14. LinksCounted(g, L)
  BY <1>7, <1>9, <1>12 DEF Sound, LinksCounted
<1>15. DirsCounted(g, L)
  <2>1. \A q \in Paths : LinkBroken(d, q) => LinkBroken(g, q)
    BY <1>7, <1>10 DEF LinkBroken
  <2>2. \A q \in Paths : From(q) \subseteq Paths
    BY FromAbove
  <2>3. \A q \in Paths : w[q] = RealDir => d.at[q] = RealDir
    BY <1>6, NodeKinds
  <2> QED
    BY <1>7, <1>12, <2>1, <2>2, <2>3 DEF Sound, DirsCounted
<1>16. LinkedFound(g, L)
  <2>1. ASSUME NEW y \in Kegs, y # k, NEW v \in Eligible(y), FoundIn(d, y, v) PROVE FoundIn(g, y, v)
    <3>1. {v} \cup Above(v) \subseteq Paths
      BY PathOrder DEF Eligible, Inner
    <3> QED
      BY <1>7, <1>10, <2>1, <3>1 DEF FoundIn
  <2>2. \A f \in Formulae : d.linked[f] # NoKegHere => d.linked[f] \in Kegs
    BY <1>1 DEF Disks
  <2> QED
    BY <1>7, <2>1, <2>2 DEF Sound, LinkedFound, AllFound
<1> QED
  BY <1>7, <1>11, <1>13, <1>14, <1>15, <1>16 DEF Sound, g, w

\* What prune makes of the nodes.
LEMMA PrunedNodes ==
    ASSUME NEW u \in Disks, NEW dirs \in SUBSET Paths, \A p \in dirs : u.at[p] = RealDir
    PROVE  LET g == Pruned(u, dirs) IN
           /\ SameRecords(u, g) /\ g.backedUp = u.backedUp
           /\ \A q \in Paths : g.at[q] = u.at[q] \/ g.at[q] = Absent
           /\ \A q \in Paths : g.at[q] # u.at[q] /\ u.at[q] # RealDir =>
                 Name(q) = ".DS_Store" /\ Front(q) \in dirs
           /\ \A q \in Paths : g.at[q] # u.at[q] /\ u.at[q] = RealDir => q \in dirs
           /\ \A p \in dirs : g.at[p] # Absent => \E q \in From(p) : g.at[q] # Absent /\ q \notin dirs
<1> DEFINE g == Pruned(u, dirs)
           stores == {q \in Paths : /\ Name(q) = ".DS_Store" /\ Front(q) \in dirs
                                    /\ u.at[q] # RealDir}
           bare == WithoutAll(u.at, stores)
           gone == {p \in dirs : \A q \in From(p) : bare[q] = Absent \/ q \in dirs}
           w == WithoutAll(bare, gone)
<1>1. g = [u EXCEPT !.at = w]
  BY DEF Pruned
<1>2. \A q \in Paths : bare[q] = IF q \in stores THEN Absent ELSE u.at[q]
  BY DEF WithoutAll
<1>3. \A q \in Paths : w[q] = IF q \in gone THEN Absent ELSE bare[q]
  BY DEF WithoutAll
<1>4. \A q \in stores : Name(q) = ".DS_Store" /\ Front(q) \in dirs
  OBVIOUS
<1>5. \A p \in dirs : p \notin gone => \E q \in From(p) : bare[q] # Absent /\ q \notin dirs
  OBVIOUS
<1>6. gone \subseteq dirs
  OBVIOUS
<1> HIDE DEF w, g, bare, stores, gone
<1>7. g.at = w /\ SameRecords(u, g) /\ g.backedUp = u.backedUp
  <2> HIDE DEF Disks
  <2>1. DOMAIN u = {"at", "backedUp", "opt", "linked", "alias"}
    BY DEF Disks
  <2> QED
    BY <1>1, <2>1 DEF SameRecords
<1>8. \A p \in dirs : p \in Paths /\ From(p) \subseteq Paths
  BY FromAbove
<1>9. \A q \in Paths : w[q] = u.at[q] \/ w[q] = Absent
  BY <1>2, <1>3
<1>10. \A q \in Paths : w[q] # u.at[q] /\ u.at[q] # RealDir => Name(q) = ".DS_Store" /\ Front(q) \in dirs
  BY <1>2, <1>3, <1>4, <1>6
<1>12. \A q \in Paths : w[q] # u.at[q] /\ u.at[q] = RealDir => q \in dirs
  <2>1. \A q \in stores : u.at[q] # RealDir
    BY DEF stores
  <2> QED
    BY <1>2, <1>3, <1>6, <2>1
<1>11. \A p \in dirs : w[p] # Absent => \E q \in From(p) : w[q] # Absent /\ q \notin dirs
  <2> SUFFICES ASSUME NEW p \in dirs, w[p] # Absent PROVE \E q \in From(p) : w[q] # Absent /\ q \notin dirs
    OBVIOUS
  <2>1. p \notin gone
    BY <1>3, <1>8
  <2>2. PICK q \in From(p) : bare[q] # Absent /\ q \notin dirs
    BY <1>5, <2>1
  <2>3. w[q] = bare[q]
    BY <1>3, <1>6, <1>8, <2>2
  <2> QED
    BY <2>2, <2>3
<1> QED
  BY <1>7, <1>9, <1>10, <1>11, <1>12 DEF g

LEMMA FrontIsAbove ==
    ASSUME NEW r \in Paths, Front(r) \in Paths
    PROVE  Front(r) \in Above(r)
<1> DEFINE n == Len(r)
<1>1. r \in Seq(ToSet(r)) /\ n \in Nat /\ n > 0
  BY LinkerAssumption, PathRoot
<1>2. Front(r) = SubSeq(r, 1, n - 1)
  BY DEF Front
<1>3. Len(Front(r)) > 0 /\ Len(SubSeq(r, 1, 0)) = 0
  BY <1>1, PathRoot
<1> HIDE DEF n
<1>4. n # 1
  BY <1>2, <1>3
<1>5. n - 1 \in 1 .. n - 1
  BY <1>1, <1>4
<1> QED
  BY <1>2, <1>5 DEF Above, AbovePath, n

LEMMA FrontAbove ==
    ASSUME NEW r \in Paths, NEW q \in Above(r), Front(r) \in Paths
    PROVE  q = Front(r) \/ q \in Above(Front(r))
<1> DEFINE f == Front(r)
<1>1. r \in Seq(ToSet(r)) /\ Len(r) \in Nat /\ Len(r) > 0 /\ q \in Paths
  BY LinkerAssumption, PathRoot, PathOrder
<1>2. f = SubSeq(r, 1, Len(r) - 1)
  BY DEF Front
<1>8. Len(q) \in Nat /\ Len(q) > 0 /\ Len(q) < Len(r)
  BY <1>1, PathRoot
<1>9. Len(r) - 1 \in 1 .. Len(r) - 1
  BY <1>1, <1>8
<1>3. Len(f) = Len(r) - 1
  BY <1>1, <1>2, <1>9
<1>4. Len(f) \in Nat /\ Len(f) > 0 /\ Len(q) \in Nat /\ Len(q) > 0 /\ Len(q) < Len(r)
  BY <1>3, <1>8, <1>9
<1>5. f \in Above(r)
  BY <1>2, <1>9 DEF Above, AbovePath
<1>6. f \notin Above(q)
  <2> SUFFICES ASSUME f \in Above(q) PROVE FALSE
    OBVIOUS
  <2>1. Len(f) < Len(q)
    BY <1>1, PathRoot
  <2> HIDE DEF f
  <2> QED
    BY <1>1, <1>3, <1>4, <2>1
<1> HIDE DEF f
<1>7. f \in Paths
  BY DEF f
<1> QED
  BY <1>1, <1>5, <1>6, <1>7, PathOrder DEF f

\* Where the user's prefix was before any command.
TheirPrefix == mine \in [Paths -> Nodes] /\ Treelike(mine)

\* Nothing of k is linked any more; dirs are the directories it has in the prefix.
CutOff(u, k) ==
    /\ u.linked[FormulaOfKeg(k)] # k
    /\ \A q \in Paths : q[1] # "Frameworks" /\ u.at[q] = LinkTo(k, q) => Tree[k][q] = "broken"
ItsDirs(u, k, dirs) ==
    /\ dirs \in SUBSET Paths /\ \A p \in dirs : u.at[p] = RealDir /\ HasDir(k, p)
    /\ \A p \in Paths : HasDir(k, p) /\ u.at[p] = RealDir /\ Len(p) > 1 /\ p[1] \in UnlinkDirs => p \in dirs

\* The links of k are gone and its record: the directories that only k counted
\* are among those that are pruned.
LEMMA PrunedSound ==
    ASSUME TheirPrefix, NEW K \in SUBSET Kegs, NEW P, NEW k \in Kegs, NEW u, Sound(u, K \cup {k}, P),
           CutOff(u, k), NEW dirs, ItsDirs(u, k, dirs)
    PROVE  Sound(Pruned(u, dirs), K \ {k}, P) /\ SameRecords(u, Pruned(u, dirs))
<1> DEFINE g == Pruned(u, dirs)
           L == K \cup {k}
           M == K \ {k}
<1>1. FineDisk(u) /\ u \in Disks /\ Fine(u.at, u.backedUp)
  BY DEF Sound, FineDisk
<1> USE DEF CutOff, ItsDirs
<1>2. FineDisk(g)
  BY <1>1, PrunedFine
<1>12. SameRecords(u, g)
  BY <1>1, PrunedNodes
<1>3. /\ g.linked = u.linked /\ g.opt = u.opt /\ g.backedUp = u.backedUp
      /\ \A q \in Paths : g.at[q] = u.at[q] \/ g.at[q] = Absent
      /\ \A q \in Paths : g.at[q] # u.at[q] /\ u.at[q] # RealDir => Name(q) = ".DS_Store" /\ Front(q) \in dirs
      /\ \A p \in dirs : g.at[p] # Absent => \E q \in From(p) : g.at[q] # Absent /\ q \notin dirs
  <2> HIDE DEF g
  <2>1. g.linked = u.linked /\ g.opt = u.opt
    BY <1>12 DEF SameRecords
  <2> USE DEF g
  <2> QED
    BY <1>1, <2>1, PrunedNodes
<1> HIDE DEF g
<1>4. /\ Sound(u, L, P) /\ \A j \in Kegs : j # k /\ Counted(u, L, j) => Counted(g, M, j)
  BY <1>3 DEF Counted
<1> HIDE DEF L
<1>5. \A j, q : IsLink(LinkTo(j, q))
  BY DEF LinkTo, IsLink
<1>6. ShippedLinks(g.at) /\ MadeDirs(g.at)
  BY <1>3, <1>4, NodeKinds DEF Sound, ShippedLinks, MadeDirs
<1>7. RecordsFit(g, P)
  BY <1>3, <1>4 DEF Sound, RecordsFit
<1>13. Paired(g, M)
  <2> SUFFICES ASSUME NEW f \in Formulae, g.linked[f] # NoKegHere, g.linked[f] \notin M
               PROVE  g.opt[f] = g.linked[f]
    BY DEF Paired
  <2> DEFINE y == u.linked[f]
  <2>1. y = g.linked[f] /\ FormulaOfKeg(y) = f
    BY <1>3, <1>4 DEF Sound, RecordsFit
  <2>2. y # k
    BY <2>1
  <2>3. y \notin L
    BY <2>1, <2>2 DEF L
  <2> QED
    BY <1>3, <1>4, <2>1, <2>3 DEF Sound, Paired
<1>8. \A q \in Paths, j \in Kegs : g.at[q] = LinkTo(j, q) => u.at[q] = LinkTo(j, q)
  BY <1>3, <1>5, NodeKinds
<1>9. LinksCounted(g, M)
  <2> SUFFICES ASSUME NEW q \in Paths, NEW j \in Kegs, q[1] # "Frameworks", g.at[q] = LinkTo(j, q),
                      Tree[j][q] # "broken"
               PROVE  Counted(g, M, j)
    BY DEF LinksCounted
  <2>1. u.at[q] = LinkTo(j, q)
    BY <1>8
  <2>2. Counted(u, L, j) /\ j # k
    BY <1>4, <2>1 DEF Sound, LinksCounted
  <2> QED
    BY <1>4, <2>2
<1>10. LinkedFound(g, M)
  <2> SUFFICES ASSUME NEW f \in Formulae \ KegOnly, g.linked[f] # NoKegHere, g.linked[f] \notin M
               PROVE  AllFound(g, g.linked[f])
    BY DEF LinkedFound
  <2> DEFINE y == u.linked[f]
  <2>1. y = g.linked[f] /\ FormulaOfKeg(y) = f
    BY <1>3, <1>4 DEF Sound, RecordsFit
  <2>2. y # k
    BY <2>1
  <2>3. y \notin L
    BY <2>1, <2>2 DEF L
  <2>4. AllFound(u, y)
    BY <1>4, <2>1, <2>3 DEF Sound, LinkedFound
  <2>5. ASSUME NEW v \in Eligible(y) PROVE FoundIn(g, y, v)
    <3>1. FoundIn(u, y, v)
      BY <2>4 DEF AllFound
    <3>2. PICK q \in {v} \cup Above(v) : u.at[q] = LinkTo(y, q) \/ u.backedUp[q] = LinkTo(y, q)
      BY <3>1 DEF FoundIn
    <3>3. q \in Paths /\ Name(q) # ".DS_Store"
      BY PathOrder DEF Eligible, Inner, NeverLinked
    <3>4. u.at[q] = LinkTo(y, q) => g.at[q] = LinkTo(y, q)
      BY <1>3, <1>5, <3>3, NodeKinds
    <3> QED
      BY <1>3, <3>2, <3>4 DEF FoundIn
  <2> QED
    BY <2>1, <2>5 DEF AllFound
<1>11. DirsCounted(g, M)
  <2> SUFFICES ASSUME NEW p \in Paths, p[1] # "Frameworks", g.at[p] = RealDir, Len(p) > 1, mine[p] # RealDir,
                      \A j \in Kegs : ~(HasDir(j, p) /\ Counted(g, M, j)),
                      \A r \in From(p) : ~LinkBroken(g, r)
               PROVE  FALSE
    BY DEF DirsCounted
  <2>1. u.at[p] = RealDir /\ p[1] \in LinkDirs
    BY <1>3, <1>6, NodeKinds DEF MadeDirs
  <2>2. p[1] \in UnlinkDirs
    BY <2>1 DEF LinkDirs, UnlinkDirs
  <2>3. \A q \in From(p) : q \in Paths /\ q[1] = p[1] /\ Len(q) > 1 /\ From(q) \subseteq From(p)
                           /\ (q # p => p \in Above(q))
    <3> TAKE q \in From(p)
    <3>1. q \in Paths /\ (q # p => p \in Above(q)) /\ From(q) \subseteq From(p)
      BY FromAbove, PathOrder
    <3>2. q[1] = p[1] /\ Len(q) >= Len(p) /\ Len(q) \in Nat /\ Len(p) \in Nat
      BY <3>1, PathRoot
    <3> QED
      BY <3>1, <3>2
  <2>4. ASSUME NEW q \in From(p), NEW j \in Kegs, q \in DOMAIN Tree[j], q # p \/ HasDir(j, q) PROVE HasDir(j, p)
    BY <2>3, <2>4, TreeClosed DEF HasDir
  <2>5. ASSUME NEW q \in From(p), u.at[q] = RealDir, mine[q] # RealDir PROVE q \in dirs
    <3>1. \/ \E j \in Kegs : HasDir(j, q) /\ Counted(u, L, j)
          \/ \E r \in From(q) : LinkBroken(u, r)
      BY <1>4, <2>3, <2>5 DEF Sound, DirsCounted
    <3>2. HasDir(k, q) => q \in dirs
      BY <2>2, <2>3, <2>5
    <3>3. ASSUME NEW j \in Kegs, HasDir(j, q), Counted(u, L, j) PROVE q \in dirs
      <4>1. HasDir(j, p)
        BY <2>4, <3>3 DEF HasDir
      <4>2. j = k
        BY <1>4, <3>3, <4>1
      <4> QED
        BY <3>2, <3>3, <4>2
    <3>4. ASSUME NEW r \in From(q), LinkBroken(u, r) PROVE q \in dirs
      <4>1. r \in From(p) /\ r \in Paths
        BY <2>3
      <4>2. IsLink(u.at[r])
        BY <1>5, <3>4 DEF LinkBroken
      <4>3. g.at[r] # u.at[r]
        BY <3>4, <4>1 DEF LinkBroken
      <4>4. Front(r) \in dirs
        BY <1>3, <4>1, <4>2, <4>3, NodeKinds
      <4>5. q \in Above(r)
        BY <2>3, <2>5, <4>2, FromAbove, NodeKinds
      <4>6. q = Front(r) \/ q \in Above(Front(r))
        BY <4>1, <4>4, <4>5, FrontAbove
      <4>7. HasDir(k, Front(r))
        BY <4>4
      <4>8. HasDir(k, q)
        BY <4>6, <4>7, TreeClosed DEF HasDir
      <4> QED
        BY <3>2, <4>8
    <3> QED
      BY <3>1, <3>3, <3>4
  <2>6. p \in dirs /\ g.at[p] # Absent
    BY <2>1, <2>5, FromAbove, NodeKinds
  <2>7. PICK q \in From(p) : g.at[q] # Absent /\ q \notin dirs
    BY <1>3, <2>6
  <2>8. q \in Paths /\ q # p /\ p \in Above(q) /\ q[1] = p[1] /\ u.at[q] = g.at[q]
    BY <1>3, <2>3, <2>6, <2>7
  <2>9. mine[q] = Absent
    BY <2>8, TreeFacts DEF TheirPrefix
  <2>10. g.at[q] \in Nodes
    BY <1>2, <2>8 DEF FineDisk, Fine
  <2>11. CASE g.at[q] \in {File, Outside}
    <3>1. mine[q] = u.at[q]
      BY <1>1, <2>8, <2>11 DEF Fine, Theirs
    <3> QED
      BY <2>8, <2>9, <2>11, <3>1, NodeKinds
  <2>12. CASE g.at[q] = RealDir
    BY <2>5, <2>7, <2>8, <2>9, <2>12, NodeKinds
  <2>13. CASE IsLink(g.at[q])
    <3>1. PICK j \in Kegs : g.at[q] = LinkTo(j, q) /\ q \in DOMAIN Tree[j]
      BY <1>6, <2>8, <2>13 DEF ShippedLinks
    <3>2. HasDir(j, p)
      BY <2>4, <2>8, <3>1
    <3>3. CASE Tree[j][q] = "broken"
      BY <3>1, <3>3 DEF LinkBroken
    <3>4. CASE Tree[j][q] # "broken"
      BY <1>9, <2>8, <3>1, <3>2, <3>4 DEF LinksCounted
    <3> QED
      BY <3>3, <3>4
  <2> QED
    BY <2>7, <2>10, <2>11, <2>12, <2>13, NodeKinds
<1> QED
  BY <1>2, <1>6, <1>7, <1>9, <1>10, <1>11, <1>12, <1>13 DEF Sound, g

\* How `unlink' of keg k ends, on disk d.
UnlinkedWell(d, K, P, k, a) ==
    /\ a.status \in {"ok", "torn"} /\ a.hurt = {} /\ OnlyRecord(d, a.disk, k)
    /\ a.status = "ok" => Sound(a.disk, K \ {k}, P) /\ a.disk.linked[FormulaOfKeg(k)] # k
    /\ Sound(a.disk, K \cup {k}, P)

LEMMA UnlinkKegSound ==
    ASSUME TheirPrefix, NEW K \in SUBSET Kegs, NEW P, NEW d, Sound(d, K, P), NEW k \in Kegs, k \in poured,
           NEW a \in UnlinkKeg(d, k)
    PROVE  UnlinkedWell(d, K, P, k, a)
<1> USE DEF UnlinkedWell
<1> DEFINE links == OwnLinks(d, k)
           dirs == OwnDirs(d, k)
           f == FormulaOfKeg(k)
           bare == WithoutLinks(d, links)
           u == IF d.linked[f] = k THEN [bare EXCEPT !.linked[f] = NoKegHere] ELSE bare
           L == K \cup {k}
           M == K \ {k}
<1>1. L \in SUBSET Kegs /\ k \in L /\ M \subseteq L /\ f \in Formulae /\ k # NoKegHere
  BY KegFormula, LinkerAssumption
<1>2. FineDisk(d) /\ Fine(d.at, d.backedUp) /\ d \in Disks
  BY DEF Sound, FineDisk
<1>3. \A p \in links : p \in Paths /\ d.at[p] = LinkTo(k, p) /\ Tree[k][p] # "broken"
  <2> TAKE p \in links
  <2>1. p \in DOMAIN Tree[k] /\ d.at[p] = LinkTo(k, p) /\ Resolves(d.at[p])
    BY DEF OwnLinks, UnlinkVisited, ResolvesTo
  <2>2. IsLink(LinkTo(k, p)) /\ LinkTo(k, p) # Outside
    BY <2>1, TreeClosed, NodeKinds
  <2> QED
    BY <2>1, <2>2, LinkNames, TreeClosed DEF Resolves
<1>4. \A p \in dirs : p \in Paths /\ d.at[p] = RealDir /\ HasDir(k, p)
  BY TreeClosed DEF OwnDirs, UnlinkVisited, HasDir
<1>5. ASSUME NEW p \in DOMAIN Tree[k], Len(p) > 1, p[1] \in UnlinkDirs, d.at[p] # Absent PROVE p \in UnlinkVisited(d, k)
  <2>1. \A a_1 \in Above(p) : d.at[a_1] = RealDir
    BY <1>2, <1>5, TreeClosed, TreeFacts DEF Fine
  <2>2. ~IsSymlink(RealDir)
    BY NodeKinds DEF IsSymlink
  <2> QED
    BY <1>5, <2>1, <2>2 DEF UnlinkVisited
<1>6. \A p \in Paths : HasDir(k, p) /\ d.at[p] = RealDir /\ Len(p) > 1 /\ p[1] \in UnlinkDirs => p \in dirs
  BY <1>5, NodeKinds DEF OwnDirs, HasDir
<1>7. ASSUME NEW q \in Paths, q[1] # "Frameworks", d.at[q] = LinkTo(k, q), Tree[k][q] # "broken" PROVE q \in links
  <2>1. IsLink(d.at[q]) /\ d.at[q] # Absent
    BY <1>7, NodeKinds
  <2>2. Len(q) > 1 /\ q[1] \in LinkDirs /\ \E j \in Kegs : d.at[q] = LinkTo(j, q) /\ q \in DOMAIN Tree[j]
    BY <2>1 DEF Sound, ShippedLinks
  <2>3. q \in DOMAIN Tree[k]
    <3>1. PICK j \in Kegs : d.at[q] = LinkTo(j, q) /\ q \in DOMAIN Tree[j]
      BY <2>2
    <3>2. LinkTo(j, q) = LinkTo(k, q)
      BY <1>7, <3>1
    <3>3. j = k
      BY <3>2, LinkNames
    <3> QED
      BY <3>1, <3>3
  <2>4. q[1] \in UnlinkDirs
    BY <1>7, <2>2 DEF LinkDirs, UnlinkDirs
  <2>5. q \in UnlinkVisited(d, k)
    BY <1>5, <2>1, <2>2, <2>3, <2>4
  <2>6. ResolvesTo(d.at[q], k, q)
    BY <1>7, <2>1, LinkNames DEF ResolvesTo, Resolves
  <2> QED
    BY <2>5, <2>6 DEF OwnLinks
<1>8. \/ a = Answer(Pruned(u, dirs), "ok")
      \/ \E n \in 0 .. Len(Order) : a = Answer(WithoutLinks(d, links \cap {Order[i] : i \in 1 .. n}), "torn")
  BY DEF UnlinkKeg, Torn, Failing
<1>9. links \in SUBSET Paths /\ dirs \in SUBSET Paths
  BY <1>3, <1>4
<1> HIDE DEF links, dirs, f, L, M
<1>10. ASSUME NEW S \in SUBSET links
       PROVE  /\ Sound(WithoutLinks(d, S), L, P) /\ SameRecords(d, WithoutLinks(d, S))
              /\ WithoutLinks(d, S).at = WithoutAll(d.at, S)
  <2>1. S \in SUBSET Paths /\ \A q \in S : d.at[q] = LinkTo(k, q) /\ Tree[k][q] # "broken"
    BY <1>3
  <2> QED
    BY <2>1, ThinSound DEF L
<1>11. CASE a = Answer(Pruned(u, dirs), "ok")
  <2>1. Sound(bare, L, P) /\ SameRecords(d, bare) /\ bare.at = WithoutAll(d.at, links)
    BY <1>10
  <2> HIDE DEF bare
  <2>2. bare \in Disks
    BY <2>1 DEF Sound, FineDisk
  <2>3. u.at = bare.at /\ u.linked[f] # k /\ OnlyRecord(d, u, k) /\ Sound(u, L, P)
    <3>1. CASE d.linked[f] = k
      <4>1. u = [bare EXCEPT !.linked[f] = NoKegHere]
        BY <3>1
      <4> HIDE DEF u
      <4>2. SameTrees(bare, u) /\ u.linked = [bare.linked EXCEPT ![f] = NoKegHere]
            /\ u.opt = bare.opt /\ u.alias = bare.alias
        BY <1>1, <2>2, <4>1 DEF SameTrees, Disks
      <4>3. u.linked[f] = NoKegHere /\ \A h \in Formulae : h # f => u.linked[h] = bare.linked[h]
        BY <1>1, <2>2, <4>2 DEF Disks
      <4>4. OnlyRecord(bare, u, k) /\ OnlyRecord(d, u, k)
        BY <2>1, <4>2, <4>3 DEF OnlyRecord, SameRecords, f
      <4>5. Claims(bare, {k}) /\ k \in P
        BY <1>1, <2>1, <3>1 DEF Claims, f, Sound, RecordsFit, SameRecords
      <4>6. Sound(u, L, P)
        BY <1>1, <2>1, <4>2, <4>4, <4>5, RecordSound
      <4> QED
        BY <1>1, <4>2, <4>3, <4>4, <4>6 DEF SameTrees
    <3>2. CASE d.linked[f] # k
      <4>1. u = bare
        BY <3>2
      <4> HIDE DEF u
      <4> QED
        BY <2>1, <3>2, <4>1 DEF OnlyRecord, SameRecords
    <3> QED
      BY <3>1, <3>2
  <2> HIDE DEF u
  <2>4. \A q \in Paths : u.at[q] = IF q \in links THEN Absent ELSE d.at[q]
    BY <2>1, <2>3 DEF WithoutAll
  <2>5. \A q \in Paths : q[1] # "Frameworks" /\ u.at[q] = LinkTo(k, q) => Tree[k][q] = "broken"
    BY <1>7, <2>4, NodeKinds
  <2>6. /\ \A p \in dirs : u.at[p] = RealDir /\ HasDir(k, p)
        /\ \A p \in Paths : HasDir(k, p) /\ u.at[p] = RealDir /\ Len(p) > 1 /\ p[1] \in UnlinkDirs => p \in dirs
    <3>1. \A p \in Paths : u.at[p] = RealDir <=> d.at[p] = RealDir
      BY <1>3, <2>4, NodeKinds
    <3> QED
      BY <1>4, <1>6, <3>1
  <2>7. Sound(Pruned(u, dirs), M, P) /\ SameRecords(u, Pruned(u, dirs))
    <3>1. Sound(u, K \cup {k}, P) /\ CutOff(u, k)
      BY <2>3, <2>5 DEF L, f, CutOff
    <3>2. ItsDirs(u, k, dirs)
      BY <1>9, <2>6 DEF ItsDirs
    <3>3. Sound(Pruned(u, dirs), K \ {k}, P) /\ SameRecords(u, Pruned(u, dirs))
      BY <3>1, <3>2, PrunedSound
    <3> QED
      BY <3>3 DEF M
  <2>8. a.disk = Pruned(u, dirs) /\ a.status = "ok" /\ a.hurt = {}
    BY <1>11, AnswerParts
  <2>9. Sound(a.disk, L, P)
    BY <1>1, <2>7, <2>8, SoundMore
  <2> QED
    BY <2>3, <2>7, <2>8, <2>9 DEF OnlyRecord, SameRecords, L, M, f
<1>12. ASSUME NEW n \in 0 .. Len(Order), a = Answer(WithoutLinks(d, links \cap {Order[i] : i \in 1 .. n}), "torn")
       PROVE  a.status = "torn" /\ a.hurt = {} /\ OnlyRecord(d, a.disk, k) /\ Sound(a.disk, L, P)
  <2> DEFINE S == links \cap {Order[i] : i \in 1 .. n}
  <2>1. S \in SUBSET links /\ a = Answer(WithoutLinks(d, S), "torn")
    BY <1>12
  <2> HIDE DEF S
  <2>2. a.disk = WithoutLinks(d, S) /\ a.status = "torn" /\ a.hurt = {}
    BY <2>1, AnswerParts
  <2> QED
    BY <1>10, <2>1, <2>2 DEF OnlyRecord, SameRecords
<1> QED
  BY <1>8, <1>11, <1>12 DEF L

-----------------------------------------------------------------------------
(* What a keg that is linked, or unlinked, leaves as it was                *)

\* One of the kegs S ships something at p or above it.
OfKegs(S, p) == \E j \in S \cap Kegs : \E a \in {p} \cup Above(p) : Len(a) > 1 /\ a \in DOMAIN Tree[j]
\* Between d and e only the kegs S were moved: nothing of the user's has changed, nothing
\* but what S ship, and what another keg has in reach it still has.
NodesKept(d, e, S) ==
    /\ e.backedUp = d.backedUp
    /\ \A p \in Paths : d.at[p] \in {File, Outside} /\ Name(p) # ".DS_Store" => e.at[p] = d.at[p]
    /\ \A p \in Paths : e.at[p] # d.at[p] /\ Len(p) > 1 => OfKegs(S, p)
    /\ \A y \in (poured \cap Kegs) \ S : \A p \in Eligible(y) : FoundIn(d, y, p) => FoundIn(e, y, p)
RecordsKept(d, e, S) ==
    /\ e.alias = d.alias
    /\ \A f \in Formulae : \/ e.linked[f] = d.linked[f] /\ e.opt[f] = d.opt[f]
                           \/ \E j \in S \cap Kegs : FormulaOfKeg(j) = f
OnlyMoved(d, e, S) == NodesKept(d, e, S) /\ RecordsKept(d, e, S)

LEMMA KeptMore ==
    ASSUME NEW d, NEW e, NEW S, NEW Q, S \subseteq Q, OnlyMoved(d, e, S)
    PROVE  OnlyMoved(d, e, Q)
BY DEF OnlyMoved, NodesKept, RecordsKept, OfKegs

LEMMA KeptTwice ==
    ASSUME NEW d, NEW e, NEW g, NEW S, OnlyMoved(d, e, S), OnlyMoved(e, g, S)
    PROVE  OnlyMoved(d, g, S)
<1>1. NodesKept(d, g, S)
  BY DEF OnlyMoved, NodesKept
<1>2. RecordsKept(d, g, S)
  BY DEF OnlyMoved, RecordsKept
<1> QED
  BY <1>1, <1>2 DEF OnlyMoved

\* What is in the prefix does not change at all.
LEMMA NodesSame ==
    ASSUME NEW d, NEW e, e.at = d.at, e.backedUp = d.backedUp, NEW S
    PROVE  NodesKept(d, e, S)
BY DEF NodesKept, FoundIn

-----------------------------------------------------------------------------
(* link(keg), without --overwrite                                          *)

GentleOps == {"mkdir", "symlink", "replace", "replace_mkdir", "expand"}

LEMMA GentleOp ==
    ASSUME NEW e, FineDisk(e), NEW k \in Kegs, NEW p \in Paths, NEW op \in GentleOps, OpFinds(e, k, p, op)
    PROVE  NodesKept(e, ApplyOp(e, k, p, op), {k})
<1> DEFINE g == ApplyOp(e, k, p, op)
<1>1. e \in Disks /\ op \in OpKinds \ {"none"} /\ ~BackupRefused(e, p, op) /\ Treelike(e.at)
  BY DEF FineDisk, Fine, GentleOps, OpKinds, BackupRefused
<1>2. p \in DOMAIN Tree[k] /\ Len(p) > 1 /\ OpenAbove(e.at, p)
  BY DEF OpFinds
<1>3. /\ g.backedUp = e.backedUp
      /\ \A q \in Paths : g.at[q] = e.at[q] \/ q \in From(p) \cup Above(p)
      /\ StillFound(e, g, {k})
  <2>1. CASE op = "expand"
    <3>1. PICK x \in Kegs : e.at[p] = LinkTo(x, p)
      BY <2>1 DEF OpFinds
    <3>2. g.backedUp = e.backedUp /\ \A q \in Paths : g.at[q] = e.at[q] \/ q = p \/ q \in From(p)
      BY <1>1, <2>1, <3>1, ExpandParts
    <3>3. StillFound(e, g, {k})
      BY <2>1, ExpandStill
    <3> HIDE DEF g
    <3> QED
      BY <3>2, <3>3, FromAbove
  <2>2. CASE op # "expand"
    <3>1. op \in OpKinds \ {"none", "expand"} /\ op \notin {"backup", "backup_mkdir"}
      BY <1>1, <2>2 DEF GentleOps
    <3>2. OpNodes(e, g, k, p, op)
      BY <1>1, <3>1, OpParts
    <3> HIDE DEF g
    <3>3. StillFound(e, g, {k})
      BY <1>1, <3>1, <3>2, OpStill
    <3>4. g.backedUp = e.backedUp /\ \A q \in Paths : g.at[q] = e.at[q] \/ q \in {p} \cup Above(p)
      BY <3>1, <3>2 DEF OpNodes
    <3> QED
      BY <3>3, <3>4, FromAbove
  <2> QED
    BY <2>1, <2>2
<1> HIDE DEF g
<1>4. e.at[p] # RealDir /\ e.at[p] \notin {File, Outside}
  BY NodeKinds DEF OpFinds, GentleOps
<1>5. \A q \in From(p) \cup Above(p) : e.at[q] \notin {File, Outside}
  <2>1. \A q \in From(p) : q = p \/ e.at[q] = Absent
    BY <1>1, <1>4, TreeFacts
  <2> QED
    BY <1>2, <1>4, <2>1, NodeKinds DEF OpenAbove
<1>6. \A q \in From(p) \cup Above(p) : Len(q) > 1 => OfKegs({k}, q)
  <2>1. ASSUME NEW q \in From(p) PROVE OfKegs({k}, q)
    <3>1. p \in {q} \cup Above(q)
      BY FromAbove
    <3> QED
      BY <1>2, <3>1 DEF OfKegs
  <2>2. ASSUME NEW q \in Above(p), Len(q) > 1 PROVE OfKegs({k}, q)
    BY <1>2, <2>2, TreeClosed DEF OfKegs
  <2> QED
    BY <2>1, <2>2
<1>7. \A y \in (poured \cap Kegs) \ {k} : \A v \in Eligible(y) : FoundIn(e, y, v) => FoundIn(g, y, v)
  BY <1>3, FoundStays
<1> QED
  BY <1>3, <1>5, <1>6, <1>7 DEF NodesKept, g

LEMMA ReadyKept ==
    ASSUME NEW d, d \in Disks, ~PreflightRefused(d), NEW S
    PROVE  NodesKept(d, Ready(d), S)
<1> DEFINE g == Ready(d)
           T == {q \in Paths : Len(q) = 1 /\ q[1] \in MustExistTop}
           w == [q \in Paths |-> IF q \in T THEN RealDir ELSE d.at[q]]
<1>1. Ready(d) = [d EXCEPT !.at = w]
  BY DEF Ready
<1>2. \A q \in T : q \in Paths /\ Len(q) = 1 /\ d.at[q] \in {RealDir, Absent}
  <2> TAKE q \in T
  <2>1. q \in Paths /\ q \in Seq(ToSet(q)) /\ Len(q) = 1 /\ q[1] \in MustExistTop
    BY LinkerAssumption
  <2>2. q = <<q[1]>>
    BY <2>1
  <2> QED
    BY <2>1, <2>2 DEF PreflightRefused
<1>3. \A q \in Paths : w[q] = IF q \in T THEN RealDir ELSE d.at[q]
  OBVIOUS
<1> HIDE DEF w, T
<1>4. g.at = w /\ g.backedUp = d.backedUp
  BY <1>1 DEF Disks
<1> HIDE DEF g
<1>5. \A q \in Paths : /\ d.at[q] \in {File, Outside} => g.at[q] = d.at[q]
                       /\ IsLink(d.at[q]) => g.at[q] = d.at[q]
  BY <1>2, <1>3, <1>4, NodeKinds
<1>6. ASSUME NEW q \in Paths, g.at[q] # d.at[q], Len(q) > 1 PROVE FALSE
  <2>1. Len(q) = 1
    BY <1>2, <1>3, <1>4, <1>6
  <2>2. 1 > 1
    BY <1>6, <2>1
  <2> QED
    BY <2>2
<1>7. ASSUME NEW y \in Kegs, NEW v \in Eligible(y), FoundIn(d, y, v) PROVE FoundIn(g, y, v)
  <2>1. PICK q \in {v} \cup Above(v) : d.at[q] = LinkTo(y, q) \/ d.backedUp[q] = LinkTo(y, q)
    BY <1>7 DEF FoundIn
  <2>2. q \in Paths /\ IsLink(LinkTo(y, q))
    <3>1. v \in Paths
      BY DEF Eligible, Inner
    <3> QED
      BY <3>1, PathOrder DEF LinkTo, IsLink
  <2> QED
    BY <1>4, <1>5, <2>1, <2>2 DEF FoundIn
<1> QED
  BY <1>4, <1>5, <1>6, <1>7 DEF NodesKept, g

LEMMA StagesKept ==
    ASSUME NEW d, FineDisk(d), NEW k \in Kegs, ~PreflightRefused(d), NEW plan, Fits(d, plan), PlanLooks(d, k, plan),
           plan \in [Paths -> GentleOps \cup {"none"}]
    PROVE  \A i \in 0 .. Len(Order) : NodesKept(d, Stages(d, k, plan)[i].disk, {k})
<1> DEFINE s == Stages(d, k, plan)
           Bad == {i \in 0 .. Len(Order) : ~NodesKept(d, s[i].disk, {k})}
<1>1. /\ s[0] = [disk |-> Ready(d), going |-> TRUE]
      /\ \A i \in 1 .. Len(Order) : s[i] = Turn(s[i - 1], k, Order[i], plan[Order[i]])
  BY StagesFacts
<1>2. Len(Order) \in Nat /\ d \in Disks
  BY OrderFacts DEF FineDisk
<1>3. \A i \in 0 .. Len(Order) : StageFine(d, plan, s[i], i)
  BY StagesFine
<1> HIDE DEF s
<1> SUFFICES ASSUME Bad # {} PROVE FALSE
  BY DEF s
<1>4. Bad \in SUBSET Nat /\ \A i \in Bad : i \in 0 .. Len(Order) /\ ~NodesKept(d, s[i].disk, {k})
  BY <1>2
<1>5. \A i \in 0 .. Len(Order) : i \in Bad \/ NodesKept(d, s[i].disk, {k})
  OBVIOUS
<1> HIDE DEF Bad
<1>6. PICK i \in Bad : \A j \in Bad : i <= j
  BY <1>4, FirstOf
<1>7. CASE i = 0
  <2>1. NodesKept(d, Ready(d), {k})
    BY <1>2, ReadyKept
  <2> QED
    BY <1>1, <1>4, <1>7, <2>1
<1>8. CASE i # 0
  <2>1. i \in 1 .. Len(Order) /\ i - 1 \in 0 .. Len(Order) /\ i - 1 \notin Bad
    BY <1>2, <1>4, <1>6, <1>8
  <2> DEFINE e == s[i - 1]
             p == Order[i]
             op == plan[p]
  <2>2. NodesKept(d, e.disk, {k}) /\ StageFine(d, plan, e, i - 1)
    BY <1>3, <1>5, <2>1
  <2>3. s[i] = Turn(e, k, p, op)
    BY <1>1, <2>1
  <2> HIDE DEF e
  <2>4. s[i].disk = e.disk \/ (e.going /\ op # "none" /\ s[i].disk = ApplyOp(e.disk, k, p, op))
    <3>1. e = [disk |-> e.disk, going |-> e.going]
      BY <2>2 DEF StageFine
    <3>2. [e EXCEPT !.going = FALSE].disk = e.disk
      BY <3>1
    <3>3. \A x : [e EXCEPT !.disk = x].disk = x
      BY <3>1
    <3> HIDE DEF p, op
    <3> QED
      BY <2>3, <3>2, <3>3 DEF Turn
  <2>5. ASSUME e.going, op # "none", s[i].disk = ApplyOp(e.disk, k, p, op) PROVE NodesKept(d, s[i].disk, {k})
    <3>1. FineDisk(e.disk) /\ Pending(d, e.disk, plan, i - 1)
      BY <2>2, <2>5 DEF StageFine
    <3>2. OpFinds(e.disk, k, p, op) /\ p \in Paths
      BY <2>1, <2>5, <3>1, TurnFinds
    <3>3. op \in GentleOps
      BY <2>5, <3>2
    <3> HIDE DEF p, op
    <3>4. NodesKept(e.disk, s[i].disk, {k})
      BY <2>5, <3>1, <3>2, <3>3, GentleOp
    <3> QED
      BY <2>2, <3>4 DEF NodesKept
  <2> QED
    BY <1>4, <2>2, <2>4, <2>5
<1> QED
  BY <1>7, <1>8

LEMMA GentlePlan ==
    ASSUME NEW d, FineDisk(d), NEW k \in Kegs, NEW no, no = FALSE, ~PlanRefused(d, k), PlanConflicts(d, k, no) = {}
    PROVE  Plan(d, k, no) \in [Paths -> GentleOps \cup {"none"}]
<1> DEFINE plan == Plan(d, k, no)
<1>1. plan \in [Paths -> OpKinds]
  <2>1. no \in BOOLEAN
    OBVIOUS
  <2> QED
    BY <2>1, PlanFits DEF Fits
<1>2. \A p \in Paths : plan[p] = "none" \/ (p \in Classified(d, k) /\ plan[p] = PlannedOp(d, k, p, no))
  BY DEF Plan
<1>3. \A p : PlannedOp(d, k, p, no) \notin {"backup", "backup_mkdir"}
  BY DEF PlannedOp
<1> HIDE DEF plan
<1>4. \A p \in Paths : plan[p] \in GentleOps \cup {"none"}
  BY <1>1, <1>2, <1>3 DEF GentleOps, OpKinds
<1> QED
  BY <1>1, <1>4 DEF plan

\* Every keg of S is in the prefix and on record.
Restored(e, S) ==
    \A j \in S \cap Kegs : AllFound(e, j) /\ e.linked[FormulaOfKeg(j)] = j /\ e.opt[FormulaOfKeg(j)] = j

LEMMA LinkKept ==
    ASSUME NEW K \in SUBSET Kegs, NEW P \in SUBSET Kegs, NEW d, Sound(d, K, P), NEW k \in P,
           P \ (K \cup {k}) \subseteq poured, Claims(d, {k}), NEW no, no = FALSE, NEW yes, yes = TRUE,
           NEW a \in LinkKeg(d, k, no, yes), a.status = "ok"
    PROVE  OnlyMoved(d, a.disk, {k}) /\ Restored(a.disk, {k})
<1> DEFINE L == K \cup {k}
           plan == Plan(d, k, no)
           s == Stages(d, k, plan)
           n == Len(Order)
           e == s[n].disk
           Half(i) == TornOp(s[i - 1].disk, Order[i], plan[Order[i]])
<1>1. L \in SUBSET Kegs /\ k \in L /\ K \subseteq L /\ P \ L \subseteq poured /\ k \in Kegs
  OBVIOUS
<1> HIDE DEF L
<1>2. /\ ~PlanRefused(d, k) /\ PlanConflicts(d, k, no) = {} /\ ~PreflightRefused(d)
      /\ s[n].going /\ a \in WriteRecords(e, k)
  <2>1. \/ a = Answer(d, "refused") \/ a = Answer(d, "conflict")
        \/ /\ ~PlanRefused(d, k) /\ PlanConflicts(d, k, no) = {} /\ ~PreflightRefused(d)
           /\ \/ s[n].going /\ a \in WriteRecords(e, k)
              \/ a = Answer(e, "stuck")
              \/ \E g : a = Answer(g, "torn")
              \/ \E i \in 1 .. n : a = Half(i)
    BY DEF LinkKeg, Torn, Failing
  <2>2. \A i : Half(i).status = "torn"
    BY AnswerParts DEF TornOp
  <2> HIDE DEF Half, s, e
  <2>3. \A g, status : a = Answer(g, status) => status = "ok"
    BY AnswerParts
  <2> QED
    BY <2>1, <2>2, <2>3
<1> HIDE DEF Half
<1>3. Sound(d, L, P) /\ FineDisk(d) /\ ShippedLinks(d.at) /\ no \in BOOLEAN
  BY <1>1, SoundMore DEF Sound
<1>4. Fits(d, plan) /\ PlanLooks(d, k, plan) /\ PlanCovers(d, k, plan) /\ plan \in [Paths -> GentleOps \cup {"none"}]
  BY <1>1, <1>2, <1>3, PlanFits, PlanIsLooked, PlanDoesCover, GentlePlan
<1>5. n \in Nat /\ n \in 0 .. n
  BY OrderFacts
<1> HIDE DEF plan
<1>6. \A i \in 0 .. n : StageSound(d, k, plan, L, P, s[i], i)
  BY <1>1, <1>2, <1>3, <1>4, StagesSound
<1>7. \A i \in 0 .. n : NodesKept(d, s[i].disk, {k})
  BY <1>1, <1>2, <1>3, <1>4, StagesKept
<1> HIDE DEF s
<1>8. Sound(e, L, P) /\ SameRecords(d, e) /\ PlacedBy(d, e, k, plan, n) /\ NodesKept(d, e, {k})
  BY <1>2, <1>5, <1>6, <1>7 DEF StageSound
<1> HIDE DEF e
<1>9. AllFound(e, k)
  BY <1>1, <1>4, <1>8, PlacedFound
<1>10. Claims(e, {k})
  BY <1>8 DEF Claims, SameRecords
<1>11. /\ OnlyRecord(e, a.disk, k) /\ SameTrees(e, a.disk)
       /\ a.disk.linked[FormulaOfKeg(k)] = k /\ a.disk.opt[FormulaOfKeg(k)] = k
  <2>1. AllFound(e, k) \/ FormulaOfKeg(k) \in KegOnly
    BY <1>9
  <2>2. a \in WriteRecords(e, k)
    BY <1>2
  <2>3. Sound(e, L, P) /\ k \in L /\ L \in SUBSET Kegs /\ k \in P
    BY <1>1, <1>8
  <2>4. RecordedWell(e, L, P, k, a)
    BY <1>10, <2>1, <2>2, <2>3, WriteRecordsSound
  <2> QED
    BY <2>4 DEF RecordedWell
<1>12. NodesKept(d, a.disk, {k}) /\ AllFound(a.disk, k)
  <2>1. a.disk.at = e.at /\ a.disk.backedUp = e.backedUp
    BY <1>11 DEF SameTrees
  <2> QED
    BY <1>8, <1>9, <2>1 DEF NodesKept, AllFound, FoundIn
<1>13. RecordsKept(d, a.disk, {k})
  BY <1>1, <1>8, <1>11 DEF RecordsKept, OnlyRecord, SameRecords
<1> QED
  BY <1>11, <1>12, <1>13 DEF OnlyMoved, Restored

-----------------------------------------------------------------------------
(* unlink(keg)                                                             *)

LEMMA UnlinkKept ==
    ASSUME NEW K \in SUBSET Kegs, NEW P, NEW d, Sound(d, K, P), NEW k \in Kegs,
           NEW a \in UnlinkKeg(d, k), a.status = "ok"
    PROVE  OnlyMoved(d, a.disk, {k})
<1> DEFINE links == OwnLinks(d, k)
           dirs == OwnDirs(d, k)
           f == FormulaOfKeg(k)
           bare == WithoutLinks(d, links)
           u == IF d.linked[f] = k THEN [bare EXCEPT !.linked[f] = NoKegHere] ELSE bare
           g == Pruned(u, dirs)
           w == WithoutAll(d.at, links)
<1>1. d \in Disks /\ f \in Formulae
  BY KegFormula DEF Sound, FineDisk
<1>2. a.disk = g
  <2>1. a = Answer(g, "ok") \/ \E e : a = Answer(e, "torn")
    BY DEF UnlinkKeg, Torn, Failing
  <2> HIDE DEF g
  <2> QED
    BY <2>1, AnswerParts
<1>3. \A p \in links : p \in Paths /\ Len(p) > 1 /\ p \in DOMAIN Tree[k] /\ d.at[p] = LinkTo(k, p) /\ IsLink(d.at[p])
  BY TreeClosed, NodeKinds DEF OwnLinks, UnlinkVisited, ResolvesTo
<1>4. \A p \in dirs : p \in Paths /\ Len(p) > 1 /\ p \in DOMAIN Tree[k] /\ d.at[p] = RealDir
  BY TreeClosed DEF OwnDirs, UnlinkVisited
<1>5. \A q \in Paths : w[q] = IF q \in links THEN Absent ELSE d.at[q]
  BY DEF WithoutAll
<1>6. w \in [Paths -> Nodes]
  BY <1>1, NodeKinds DEF WithoutAll, Disks
<1>7. bare = [d EXCEPT !.at = w]
  BY DEF WithoutLinks
<1> HIDE DEF links, dirs, w
<1>8. /\ bare \in Disks /\ bare.at = w /\ bare.backedUp = d.backedUp /\ bare.opt = d.opt
      /\ bare.alias = d.alias /\ bare.linked = d.linked
  BY <1>1, <1>6, <1>7 DEF Disks
<1> HIDE DEF bare
<1>9. /\ u \in Disks /\ u.at = w /\ u.backedUp = d.backedUp /\ u.opt = d.opt /\ u.alias = d.alias
      /\ \A h \in Formulae : h # f => u.linked[h] = d.linked[h]
  <2>1. CASE d.linked[f] = k
    BY <1>1, <1>8, <2>1 DEF Disks
  <2>2. CASE d.linked[f] # k
    BY <1>8, <2>2
  <2> QED
    BY <2>1, <2>2
<1> HIDE DEF u
<1>10. dirs \in SUBSET Paths /\ \A p \in dirs : u.at[p] = RealDir
  BY <1>3, <1>4, <1>5, <1>9, NodeKinds
<1>11. /\ SameRecords(u, g) /\ g.backedUp = u.backedUp
       /\ \A q \in Paths : g.at[q] = u.at[q] \/ g.at[q] = Absent
       /\ \A q \in Paths : g.at[q] # u.at[q] /\ u.at[q] # RealDir => Name(q) = ".DS_Store" /\ Front(q) \in dirs
       /\ \A q \in Paths : g.at[q] # u.at[q] /\ u.at[q] = RealDir => q \in dirs
  BY <1>9, <1>10, PrunedNodes
<1> HIDE DEF g
<1>12. \A q \in Paths : g.at[q] = d.at[q] \/ q \in links \/ q \in dirs \/ (Name(q) = ".DS_Store" /\ Front(q) \in dirs)
  BY <1>5, <1>9, <1>11
<1>13. ASSUME NEW q \in Paths, Name(q) # ".DS_Store", g.at[q] # d.at[q] PROVE d.at[q] \in {RealDir, LinkTo(k, q)}
  BY <1>3, <1>4, <1>12, <1>13
<1>14. \A q \in Paths : d.at[q] \in {File, Outside} /\ Name(q) # ".DS_Store" => g.at[q] = d.at[q]
  BY <1>13, NodeKinds
<1>15. ASSUME NEW q \in Paths, g.at[q] # d.at[q] PROVE OfKegs({k}, q)
  <2>1. CASE q \in links \/ q \in dirs
    BY <1>3, <1>4, <2>1 DEF OfKegs
  <2>2. CASE Front(q) \in dirs
    <3>1. Front(q) \in Above(q) /\ Len(Front(q)) > 1 /\ Front(q) \in DOMAIN Tree[k]
      BY <1>4, <2>2, FrontIsAbove
    <3> QED
      BY <3>1 DEF OfKegs
  <2> QED
    BY <1>12, <1>15, <2>1, <2>2
<1>16. ASSUME NEW y \in (poured \cap Kegs) \ {k}, NEW v \in Eligible(y), FoundIn(d, y, v) PROVE FoundIn(g, y, v)
  <2>1. PICK q \in {v} \cup Above(v) : d.at[q] = LinkTo(y, q) \/ d.backedUp[q] = LinkTo(y, q)
    BY <1>16 DEF FoundIn
  <2>2. q \in Paths /\ Name(q) # ".DS_Store"
    <3>1. v \in Paths /\ v \notin NeverLinked /\ v \in Inner /\ \A b \in Above(v) : Name(b) # ".DS_Store"
      BY DEF Eligible, Inner
    <3>2. Name(v) # ".DS_Store"
      BY <3>1 DEF NeverLinked
    <3> QED
      BY <3>1, <3>2, PathOrder
  <2>3. LinkTo(y, q) # RealDir /\ LinkTo(y, q) # LinkTo(k, q)
    BY <2>2, NodeKinds, LinkNames
  <2>4. d.at[q] = LinkTo(y, q) => g.at[q] = d.at[q]
    BY <1>13, <2>2, <2>3
  <2> QED
    BY <1>9, <1>11, <2>1, <2>4 DEF FoundIn
<1>17. NodesKept(d, g, {k})
  BY <1>9, <1>11, <1>14, <1>15, <1>16 DEF NodesKept
<1>18. RecordsKept(d, g, {k})
  BY <1>9, <1>11 DEF RecordsKept, SameRecords, f
<1> QED
  BY <1>2, <1>17, <1>18 DEF OnlyMoved

-----------------------------------------------------------------------------
(* One sibling                                                             *)

\* It has the parts of an answer, no other.
Formed(a) == a = [disk |-> a.disk, status |-> a.status, hurt |-> a.hurt]

LEMMA FormedAnswers ==
    /\ \A d, status : Formed(Answer(d, status))
    /\ \A a, kegs : Formed(a) => LET h == Hurting(a, kegs) IN
          Formed(h) /\ h.disk = a.disk /\ h.status = a.status /\ h.hurt = a.hurt \cup kegs
    /\ \A disks : \A a \in Torn(disks) : Formed(a)
    /\ \A d, p, op : Formed(TornOp(d, p, op))
<1>1. \A d, status : Formed(Answer(d, status))
  BY DEF Formed, Answer
<1>2. ASSUME NEW a, NEW kegs, Formed(a)
      PROVE  LET h == Hurting(a, kegs) IN
             Formed(h) /\ h.disk = a.disk /\ h.status = a.status /\ h.hurt = a.hurt \cup kegs
  <2> DEFINE r == [disk |-> a.disk, status |-> a.status, hurt |-> a.hurt]
  <2>1. a = r
    BY <1>2 DEF Formed
  <2>2. Hurting(a, kegs) = [disk |-> a.disk, status |-> a.status, hurt |-> a.hurt \cup kegs]
    <3>1. [r EXCEPT !.hurt = r.hurt \cup kegs] = [disk |-> a.disk, status |-> a.status, hurt |-> a.hurt \cup kegs]
      OBVIOUS
    <3> HIDE DEF r
    <3>2. Hurting(a, kegs) = [r EXCEPT !.hurt = r.hurt \cup kegs]
      BY <2>1 DEF Hurting
    <3> QED
      BY <3>1, <3>2
  <2> QED
    BY <2>2 DEF Formed
<1>3. \A disks : \A a \in Torn(disks) : Formed(a)
  <2> TAKE disks
  <2> TAKE a \in Torn(disks)
  <2>1. \E d \in disks : a = Answer(d, "torn")
    BY DEF Torn, Failing
  <2> QED
    BY <1>1, <2>1
<1>4. \A d, p, op : Formed(TornOp(d, p, op))
  <2> TAKE d, p, op
  <2> DEFINE H == IF op = "expand" THEN {d.at[p][2]} ELSE {}
             h == Answer(Halfway(d, p, op), "torn")
  <2>1. TornOp(d, p, op) = Hurting(h, H)
    BY DEF TornOp
  <2>2. Formed(h)
    BY <1>1
  <2> HIDE DEF h, H
  <2> QED
    BY <1>2, <2>1, <2>2
<1> QED
  BY <1>1, <1>2, <1>3, <1>4

LEMMA LinkKegFormed ==
    ASSUME NEW d, NEW k, NEW overwrite, NEW fileLinks, NEW a \in LinkKeg(d, k, overwrite, fileLinks)
    PROVE  Formed(a)
<1> DEFINE plan == IF fileLinks THEN Plan(d, k, overwrite) ELSE [p \in Paths |-> "none"]
           s == Stages(d, k, plan)
           n == Len(Order)
<1>1. \/ \E e, status : a = Answer(e, status)
      \/ a \in WriteRecords(s[n].disk, k)
      \/ \E disks : a \in Torn(disks)
      \/ \E e, p, op : a = TornOp(e, p, op)
  <2>1. \/ a = Answer(d, "refused") \/ a = Answer(d, "conflict")
        \/ a \in WriteRecords(s[n].disk, k) \/ a = Answer(s[n].disk, "stuck")
        \/ a \in Torn({s[i].disk : i \in 0 .. n})
        \/ a \in Failing({TornOp(s[i - 1].disk, Order[i], plan[Order[i]]) :
                            i \in {j \in 1 .. n : s[j].going}})
    BY DEF LinkKeg
  <2> HIDE DEF s, plan, n
  <2>2. ASSUME a \in Failing({TornOp(s[i - 1].disk, Order[i], plan[Order[i]]) :
                            i \in {j \in 1 .. n : s[j].going}})
        PROVE  \E e, p, op : a = TornOp(e, p, op)
    BY <2>2 DEF Failing
  <2> QED
    BY <2>1, <2>2
<1>2. ASSUME a \in WriteRecords(s[n].disk, k)
      PROVE  (\E e, status : a = Answer(e, status)) \/ \E disks : a \in Torn(disks)
  BY <1>2 DEF WriteRecords
<1> HIDE DEF s
<1> QED
  BY <1>1, <1>2, FormedAnswers

LEMMA UnlinkKegFormed ==
    ASSUME NEW d, NEW k, NEW a \in UnlinkKeg(d, k)
    PROVE  Formed(a)
<1>1. (\E e, status : a = Answer(e, status)) \/ \E disks : a \in Torn(disks)
  BY DEF UnlinkKeg
<1> QED
  BY <1>1, FormedAnswers

\* No two of T are kegs of one formula.
Separate(T) == \A j, k \in T : FormulaOfKeg(j) = FormulaOfKeg(k) => j = k

LEMMA ClaimsStay ==
    ASSUME NEW T \in SUBSET Kegs, Separate(T), NEW k \in T, NEW d, Claims(d, T), NEW g, OnlyRecord(d, g, k)
    PROVE  Claims(g, T)
<1> SUFFICES ASSUME NEW j \in T PROVE g.linked[FormulaOfKeg(j)] \in {NoKegHere, j}
  BY DEF Claims
<1>1. FormulaOfKeg(j) \in Formulae /\ d.linked[FormulaOfKeg(j)] \in {NoKegHere, j}
  BY KegFormula DEF Claims
<1>2. FormulaOfKeg(j) = FormulaOfKeg(k) => j = k
  BY DEF Separate
<1> QED
  BY <1>1, <1>2 DEF OnlyRecord

\* The kegs of one command: in the Cellar, each of a formula of its own.
Company(T) == T \in SUBSET Kegs /\ T \subseteq poured /\ Separate(T)

LEMMA RestoredStays ==
    ASSUME NEW T, Company(T), NEW S, S \subseteq T \cup {NoKegHere}, NEW j \in T,
           NEW e, Restored(e, S), NEW g, OnlyMoved(e, g, {j}), Restored(g, {j})
    PROVE  Restored(g, S \cup {j})
<1> SUFFICES ASSUME NEW i \in S \cap Kegs, i # j
             PROVE  AllFound(g, i) /\ g.linked[FormulaOfKeg(i)] = i /\ g.opt[FormulaOfKeg(i)] = i
  BY DEF Restored
<1>1. i \in T /\ i \in poured /\ j \in Kegs /\ FormulaOfKeg(i) \in Formulae /\ FormulaOfKeg(i) # FormulaOfKeg(j)
  BY LinkerAssumption, KegFormula DEF Company, Separate
<1>2. AllFound(e, i) /\ e.linked[FormulaOfKeg(i)] = i /\ e.opt[FormulaOfKeg(i)] = i
  BY DEF Restored
<1>3. AllFound(g, i)
  BY <1>1, <1>2 DEF OnlyMoved, NodesKept, AllFound
<1>4. g.linked[FormulaOfKeg(i)] = e.linked[FormulaOfKeg(i)] /\ g.opt[FormulaOfKeg(i)] = e.opt[FormulaOfKeg(i)]
  BY <1>1 DEF OnlyMoved, RecordsKept
<1> QED
  BY <1>2, <1>3, <1>4

\* What a call has answered, on disk d, that was to settle keg j.
Settled(a, d, K, T, j, restoring) ==
    /\ Formed(a) /\ a.status \in {"ok", "torn", "stuck"} /\ a.hurt \in SUBSET Kegs /\ Claims(a.disk, T)
    /\ a.status = "ok" => a.hurt = {} /\ Sound(a.disk, K \ {j}, poured)
    /\ a.status = "ok" => OnlyMoved(d, a.disk, {j}) /\ (restoring => Restored(a.disk, {j}))
    /\ Sound(a.disk, K \cup {j} \cup a.hurt, poured)

LEMMA SiblingSound ==
    ASSUME TheirPrefix, poured \in SUBSET Kegs, NEW K \in SUBSET Kegs, NEW d, Sound(d, K, poured),
           NEW T, Company(T), Claims(d, T), NEW j \in T, NEW restoring \in BOOLEAN,
           NEW a \in SiblingAnswers(d, j, restoring)
    PROVE  Settled(a, d, K, T, j, restoring)
<1>1. T \in SUBSET Kegs /\ j \in Kegs /\ j \in poured /\ Separate(T) /\ Claims(d, {j})
  BY DEF Company, Claims
<1>2. CASE ~restoring
  <2>1. a \in UnlinkKeg(d, j)
    BY <1>2 DEF SiblingAnswers
  <2>6. UnlinkedWell(d, K, poured, j, a)
    BY <1>1, <2>1, UnlinkKegSound
  <2>2. /\ a.status \in {"ok", "torn"} /\ a.hurt = {} /\ OnlyRecord(d, a.disk, j)
        /\ a.status = "ok" => Sound(a.disk, K \ {j}, poured)
        /\ Sound(a.disk, K \cup {j}, poured)
    BY <2>6 DEF UnlinkedWell
  <2>3. Formed(a)
    BY <2>1, UnlinkKegFormed
  <2>4. Claims(a.disk, T)
    BY <1>1, <2>2, ClaimsStay
  <2>5. K \cup {j} \cup a.hurt = K \cup {j}
    BY <2>2
  <2>7. a.status = "ok" => OnlyMoved(d, a.disk, {j})
    BY <1>1, <2>1, UnlinkKept
  <2> QED
    BY <1>2, <2>2, <2>3, <2>4, <2>5, <2>7 DEF Settled
<1>3. CASE restoring
  <2>1. PICK r \in LinkKeg(d, j, FALSE, TRUE) :
          a = [r EXCEPT !.status = IF r.status \in {"ok", "torn"} THEN r.status ELSE "stuck"]
    BY <1>3 DEF SiblingAnswers, RestoreLink
  <2>2. poured \ (K \cup {j}) \subseteq poured
    OBVIOUS
  <2> DEFINE no == FALSE
             yes == TRUE
  <2>8. no \in BOOLEAN /\ yes \in BOOLEAN /\ Records(j, yes) /\ no = FALSE /\ yes = TRUE
    BY DEF Records
  <2>9. r \in LinkKeg(d, j, no, yes)
    OBVIOUS
  <2> HIDE DEF no, yes
  <2>10. LinkedWell(d, K, poured, j, r)
    BY <1>1, <2>2, <2>8, <2>9, LinkKegSound
  <2>3. /\ r.status \in {"ok", "refused", "conflict", "stuck", "torn"} /\ r.hurt \in SUBSET Kegs
        /\ r.status = "ok" => r.hurt = {} /\ Sound(r.disk, K \ {j}, poured)
        /\ Sound(r.disk, K \cup {j} \cup r.hurt, poured)
        /\ OnlyRecord(d, r.disk, j)
    BY <2>10 DEF LinkedWell
  <2>4. Formed(r)
    BY LinkKegFormed
  <2> DEFINE status == IF r.status \in {"ok", "torn"} THEN r.status ELSE "stuck"
             x == [disk |-> r.disk, status |-> r.status, hurt |-> r.hurt]
  <2>5. a = [disk |-> r.disk, status |-> status, hurt |-> r.hurt]
    <3>1. [x EXCEPT !.status = status] = [disk |-> r.disk, status |-> status, hurt |-> r.hurt]
      OBVIOUS
    <3>2. r = x
      BY <2>4 DEF Formed
    <3>3. a = [r EXCEPT !.status = status]
      BY <2>1
    <3> HIDE DEF x, status
    <3> QED
      BY <3>1, <3>2, <3>3
  <2>6. Formed(a) /\ a.disk = r.disk /\ a.status = status /\ a.hurt = r.hurt
    BY <2>5 DEF Formed
  <2>7. Claims(r.disk, T)
    BY <1>1, <2>3, ClaimsStay
  <2>11. r.status = "ok" => OnlyMoved(d, r.disk, {j}) /\ Restored(r.disk, {j})
    BY <1>1, <2>2, <2>8, <2>9, LinkKept
  <2>12. a.status = "ok" => OnlyMoved(d, a.disk, {j}) /\ Restored(a.disk, {j})
    BY <2>6, <2>11
  <2> QED
    BY <2>3, <2>6, <2>7, <2>12 DEF Settled
<1> QED
  BY <1>2, <1>3

-----------------------------------------------------------------------------
(* One keg of a sequence after the other                                   *)

KegList(ks, T) == Len(ks) \in Nat /\ \A i \in 1 .. Len(ks) : ks[i] \in T \cup {NoKegHere}
FirstKegs(ks, i) == {ks[j] : j \in 1 .. i}

\* What becomes of answer a at keg k.
TurnOf(a, k, restoring) ==
    IF a.status = "ok" /\ k # NoKegHere THEN SiblingAnswers(a.disk, k, restoring) ELSE {a}
\* The recursive function inside InTurn, up to m.
InTurnTo(g, d, ks, restoring, m) ==
    g = [i \in 0 .. m |-> IF i = 0 THEN {Answer(d, "ok")}
                          ELSE UNION {TurnOf(a, ks[i], restoring) : a \in g[i - 1]}]

\* As long as all goes well, nothing is claimed too little of the kegs that had their turn,
\* and between disk d and now nothing but those was moved.
Passed(a, d, K, T, done, restoring) ==
    /\ Formed(a) /\ a.status \in {"ok", "torn", "stuck"} /\ a.hurt \in SUBSET Kegs /\ Claims(a.disk, T)
    /\ a.status = "ok" => a.hurt = {} /\ Sound(a.disk, K \ done, poured)
    /\ a.status = "ok" => OnlyMoved(d, a.disk, done) /\ (restoring => Restored(a.disk, done))
    /\ Sound(a.disk, K \cup T \cup a.hurt, poured)
AllPassed(answers, d, K, T, done, restoring) == \A a \in answers : Passed(a, d, K, T, done, restoring)

LEMMA TurnPassed ==
    ASSUME TheirPrefix, poured \in SUBSET Kegs, NEW K \in SUBSET Kegs, NEW T, Company(T), NEW d,
           NEW done, done \subseteq T \cup {NoKegHere}, NEW restoring \in BOOLEAN,
           NEW a, Passed(a, d, K, T, done, restoring), NEW j \in T \cup {NoKegHere}
    PROVE  AllPassed(TurnOf(a, j, restoring), d, K, T, done \cup {j}, restoring)
<1>1. NoKegHere \notin Kegs /\ T \in SUBSET Kegs
  BY LinkerAssumption DEF Company
<1>2. CASE a.status = "ok" /\ j # NoKegHere
  <2> DEFINE M == K \ done
             e == a.disk
  <2>1. M \in SUBSET Kegs /\ Sound(e, M, poured) /\ Claims(e, T) /\ j \in T
    BY <1>2 DEF Passed
  <2>5. OnlyMoved(d, e, done) /\ (restoring => Restored(e, done))
    BY <1>2 DEF Passed
  <2>2. ASSUME NEW b \in SiblingAnswers(e, j, restoring) PROVE Settled(b, e, M, T, j, restoring)
    <3>1. Sound(e, M, poured) /\ Claims(e, T) /\ j \in T /\ M \in SUBSET Kegs /\ b \in SiblingAnswers(e, j, restoring)
      BY <2>1, <2>2
    <3> HIDE DEF e, M
    <3> QED
      BY <3>1, SiblingSound
  <2>3. M \ {j} = K \ (done \cup {j})
    OBVIOUS
  <2>4. ASSUME NEW b, Settled(b, e, M, T, j, restoring) PROVE Passed(b, d, K, T, done \cup {j}, restoring)
    <3>1. Sound(b.disk, M \cup {j} \cup b.hurt, poured)
      BY <2>4 DEF Settled
    <3>2. M \cup {j} \cup b.hurt \subseteq K \cup T \cup b.hurt
      BY <2>1
    <3>3. Sound(b.disk, K \cup T \cup b.hurt, poured)
      BY <3>1, <3>2, SoundMore
    <3> HIDE DEF M, e
    <3>4. ASSUME b.status = "ok" PROVE OnlyMoved(d, b.disk, done \cup {j})
      <4> DEFINE more == done \cup {j}
                 g == b.disk
      <4>1. OnlyMoved(e, g, {j}) /\ {j} \subseteq more /\ done \subseteq more
        BY <2>4, <3>4 DEF Settled
      <4> HIDE DEF more, g
      <4>2. OnlyMoved(d, e, more) /\ OnlyMoved(e, g, more)
        BY <2>5, <4>1, KeptMore
      <4>3. OnlyMoved(d, g, more)
        BY <4>2, KeptTwice
      <4> QED
        BY <4>3 DEF more, g
    <3>5. ASSUME b.status = "ok", restoring PROVE Restored(b.disk, done \cup {j})
      <4> DEFINE g == b.disk
      <4>1. OnlyMoved(e, g, {j}) /\ Restored(g, {j})
        BY <2>4, <3>5 DEF Settled
      <4>2. Restored(e, done)
        BY <2>5, <3>5
      <4> HIDE DEF g
      <4>3. Restored(g, done \cup {j})
        BY <2>1, <4>1, <4>2, RestoredStays
      <4> QED
        BY <4>3 DEF g
    <3> QED
      BY <2>3, <2>4, <3>3, <3>4, <3>5 DEF Settled, Passed
  <2> HIDE DEF M
  <2> QED
    BY <1>2, <2>2, <2>4 DEF AllPassed, TurnOf
<1>3. CASE ~(a.status = "ok" /\ j # NoKegHere)
  <2>1. j = NoKegHere => K \ (done \cup {j}) = K \ done
    BY <1>1
  <2>3. ASSUME a.status = "ok" PROVE OnlyMoved(d, a.disk, done \cup {j})
    <3> DEFINE more == done \cup {j}
               e == a.disk
    <3>1. OnlyMoved(d, e, done) /\ done \subseteq more
      BY <2>3 DEF Passed
    <3> HIDE DEF more, e
    <3>2. OnlyMoved(d, e, more)
      BY <3>1, KeptMore
    <3> QED
      BY <3>2 DEF more, e
  <2>4. ASSUME a.status = "ok", restoring PROVE Restored(a.disk, done \cup {j})
    <3>1. j \notin Kegs
      BY <1>1, <1>3, <2>4
    <3> QED
      BY <2>4, <3>1 DEF Passed, Restored
  <2>2. Passed(a, d, K, T, done \cup {j}, restoring)
    BY <1>3, <2>1, <2>3, <2>4 DEF Passed
  <2> QED
    BY <1>3, <2>2 DEF AllPassed, TurnOf
<1> QED
  BY <1>2, <1>3

\* It exists, and every one of its answers is as it should be.
LEMMA InTurnExists ==
    ASSUME TheirPrefix, poured \in SUBSET Kegs, NEW K \in SUBSET Kegs, NEW T, Company(T),
           NEW d, Sound(d, K, poured), Claims(d, T), NEW ks, KegList(ks, T), NEW restoring \in BOOLEAN,
           NEW n \in 0 .. Len(ks)
    PROVE  \E g : InTurnTo(g, d, ks, restoring, n) /\ AllPassed(g[n], d, K, T, FirstKegs(ks, n), restoring)
<1> DEFINE Good(m) == \E g : InTurnTo(g, d, ks, restoring, m) /\ AllPassed(g[m], d, K, T, FirstKegs(ks, m), restoring)
           Bad == {m \in 0 .. Len(ks) : ~Good(m)}
<1> SUFFICES ASSUME Bad # {} PROVE FALSE
  OBVIOUS
<1>1. \A m \in 0 .. Len(ks) : m \in Bad \/ Good(m)
  OBVIOUS
<1>2. Bad \in SUBSET Nat /\ \A m \in Bad : m \in 0 .. Len(ks) /\ ~Good(m)
  BY DEF KegList
<1> HIDE DEF Bad
<1>3. PICK m \in Bad : \A j \in Bad : m <= j
  BY <1>2, FirstOf
<1>4. Len(ks) \in Nat /\ m \in 0 .. Len(ks)
  BY <1>2 DEF KegList
<1>5. CASE m = 0
  <2> DEFINE g == [i \in 0 .. 0 |-> {Answer(d, "ok")}]
             a == Answer(d, "ok")
             done == FirstKegs(ks, 0)
  <2>1. InTurnTo(g, d, ks, restoring, 0)
    BY DEF InTurnTo
  <2>2. done = {}
    BY DEF FirstKegs
  <2>3. K \ done = K /\ K \subseteq K \cup T \cup {}
    BY <2>2
  <2>4. Sound(d, K \cup T \cup {}, poured)
    BY <2>3, SoundMore
  <2>5. a.disk = d /\ a.status = "ok" /\ a.hurt = {} /\ Formed(a)
    BY AnswerParts, FormedAnswers
  <2>6. g[0] = {a}
    OBVIOUS
  <2> HIDE DEF g, a, done
  <2>9. OnlyMoved(d, d, done) /\ Restored(d, done)
    BY <2>2, NodesSame DEF OnlyMoved, RecordsKept, Restored
  <2>7. Passed(a, d, K, T, done, restoring)
    BY <2>3, <2>4, <2>5, <2>9 DEF Passed
  <2>8. AllPassed(g[0], d, K, T, done, restoring)
    BY <2>6, <2>7 DEF AllPassed
  <2> QED
    BY <1>2, <1>5, <2>1, <2>8 DEF done
<1>6. CASE m # 0
  <2>1. m - 1 \in 0 .. Len(ks) /\ m - 1 \notin Bad /\ m \in 1 .. Len(ks)
    BY <1>3, <1>4, <1>6
  <2>2. PICK g : InTurnTo(g, d, ks, restoring, m - 1) /\ AllPassed(g[m - 1], d, K, T, FirstKegs(ks, m - 1), restoring)
    BY <1>1, <2>1
  <2> DEFINE new == UNION {TurnOf(a, ks[m], restoring) : a \in g[m - 1]}
             h == [i \in 0 .. m |-> IF i = m THEN new ELSE g[i]]
             done == FirstKegs(ks, m - 1)
             then == FirstKegs(ks, m)
  <2>3. AllPassed(new, d, K, T, then, restoring)
    <3>1. then = done \cup {ks[m]}
      <4>1. 1 .. m = (1 .. m - 1) \cup {m}
        BY <1>4, <1>6
      <4> QED
        BY <4>1 DEF FirstKegs
    <3>2. ks[m] \in T \cup {NoKegHere} /\ done \subseteq T \cup {NoKegHere}
      BY <1>4, <2>1 DEF KegList, FirstKegs
    <3> HIDE DEF then, done
    <3> SUFFICES ASSUME NEW a \in g[m - 1] PROVE AllPassed(TurnOf(a, ks[m], restoring), d, K, T, then, restoring)
      BY DEF AllPassed
    <3>3. Passed(a, d, K, T, done, restoring)
      BY <2>2 DEF AllPassed, done
    <3> DEFINE j == ks[m]
    <3>4. j \in T \cup {NoKegHere} /\ then = done \cup {j}
      BY <3>1, <3>2
    <3> HIDE DEF j
    <3>5. AllPassed(TurnOf(a, j, restoring), d, K, T, done \cup {j}, restoring)
      BY <3>2, <3>3, <3>4, TurnPassed
    <3> QED
      BY <3>4, <3>5 DEF j
  <2>4. \A i \in 0 .. m - 1 : g[i] = IF i = 0 THEN {Answer(d, "ok")}
                                      ELSE UNION {TurnOf(a, ks[i], restoring) : a \in g[i - 1]}
    BY <2>2 DEF InTurnTo
  <2>5. /\ \A i \in 0 .. m : i # m => i \in 0 .. m - 1
        /\ \A i \in 0 .. m : i # 0 => i - 1 \in 0 .. m /\ i - 1 # m
        /\ m \in 0 .. m
    BY <1>4
  <2> HIDE DEF then, done
  <2>6. \A i \in 0 .. m : h[i] = IF i = 0 THEN {Answer(d, "ok")}
                                  ELSE UNION {TurnOf(a, ks[i], restoring) : a \in h[i - 1]}
    <3> TAKE i \in 0 .. m
    <3>1. CASE i = m
      <4>1. h[i] = new /\ h[m - 1] = g[m - 1]
        BY <1>6, <2>5, <3>1
      <4> QED
        BY <1>6, <3>1, <4>1
    <3>2. CASE i # m
      <4>1. h[i] = g[i]
        BY <3>2
      <4>2. i # 0 => h[i - 1] = g[i - 1]
        BY <2>5
      <4> HIDE DEF h
      <4> QED
        BY <2>4, <2>5, <3>2, <4>1, <4>2
    <3> QED
      BY <3>1, <3>2
  <2>7. h[m] = new
    BY <2>5
  <2>8. InTurnTo(h, d, ks, restoring, m)
    BY <2>6 DEF InTurnTo
  <2> HIDE DEF h, new
  <2> QED
    BY <1>2, <1>3, <2>3, <2>7, <2>8 DEF then
<1> QED
  BY <1>5, <1>6

LEMMA InTurnUnique ==
    ASSUME NEW d, NEW ks, NEW restoring, NEW n \in Nat, NEW g, NEW h,
           InTurnTo(g, d, ks, restoring, n), InTurnTo(h, d, ks, restoring, n)
    PROVE  g[n] = h[n]
<1> DEFINE Bad == {i \in 0 .. n : g[i] # h[i]}
<1> SUFFICES ASSUME Bad # {} PROVE FALSE
  OBVIOUS
<1>1. \A i \in 0 .. n : i \in Bad \/ g[i] = h[i]
  OBVIOUS
<1>2. Bad \in SUBSET Nat /\ \A i \in Bad : i \in 0 .. n /\ g[i] # h[i]
  OBVIOUS
<1>3. \A i \in 0 .. n : /\ g[i] = IF i = 0 THEN {Answer(d, "ok")}
                                  ELSE UNION {TurnOf(a, ks[i], restoring) : a \in g[i - 1]}
                        /\ h[i] = IF i = 0 THEN {Answer(d, "ok")}
                                  ELSE UNION {TurnOf(a, ks[i], restoring) : a \in h[i - 1]}
  BY DEF InTurnTo
<1> HIDE DEF Bad
<1>4. PICK i \in Bad : \A j \in Bad : i <= j
  BY <1>2, FirstOf
<1>5. i # 0 => i - 1 \in 0 .. n /\ i - 1 \notin Bad
  BY <1>2, <1>4
<1>6. i # 0 => g[i - 1] = h[i - 1]
  BY <1>1, <1>5
<1> QED
  BY <1>2, <1>3, <1>6

LEMMA InTurnPassed ==
    ASSUME TheirPrefix, poured \in SUBSET Kegs, NEW K \in SUBSET Kegs, NEW T, Company(T),
           NEW d, Sound(d, K, poured), Claims(d, T), NEW ks, KegList(ks, T), NEW restoring \in BOOLEAN
    PROVE  AllPassed(InTurn(d, ks, restoring), d, K, T, FirstKegs(ks, Len(ks)), restoring)
<1> DEFINE s == CHOOSE g : InTurnTo(g, d, ks, restoring, Len(ks))
           done == FirstKegs(ks, Len(ks))
<1>1. Len(ks) \in Nat /\ Len(ks) \in 0 .. Len(ks)
  BY DEF KegList
<1>2. PICK g : InTurnTo(g, d, ks, restoring, Len(ks)) /\ AllPassed(g[Len(ks)], d, K, T, done, restoring)
  BY <1>1, InTurnExists
<1>3. InTurnTo(s, d, ks, restoring, Len(ks))
  BY <1>2
<1>4. InTurn(d, ks, restoring) = s[Len(ks)]
  BY DEF InTurn, InTurnTo, TurnOf
<1> HIDE DEF s, done
<1> QED
  BY <1>1, <1>2, <1>3, <1>4, InTurnUnique DEF done

-----------------------------------------------------------------------------
(* link_one                                                                *)

LEMMA ReverseList ==
    ASSUME NEW ks, NEW T, KegList(ks, T)
    PROVE  KegList(Reverse(ks), T) /\ FirstKegs(Reverse(ks), Len(Reverse(ks))) = FirstKegs(ks, Len(ks))
<1>1. Len(ks) \in Nat /\ Reverse(ks) = [i \in 1 .. Len(ks) |-> ks[Len(ks) - i + 1]]
  BY DEF KegList, Reverse
<1>2. Reverse(ks) \in Seq(T \cup {NoKegHere}) /\ Len(Reverse(ks)) = Len(ks)
  BY <1>1 DEF KegList
<1>3. KegList(Reverse(ks), T)
  BY <1>1, <1>2 DEF KegList
<1>4. ASSUME NEW j \in 1 .. Len(ks) PROVE Len(ks) - j + 1 \in 1 .. Len(ks) /\ Reverse(ks)[Len(ks) - j + 1] = ks[j]
  <2> DEFINE n == Len(ks)
             i == n - j + 1
  <2>1. i \in 1 .. n /\ n - i + 1 = j
    BY <1>1
  <2> HIDE DEF i
  <2>2. Reverse(ks)[i] = ks[n - i + 1]
    BY <1>1, <2>1
  <2> QED
    BY <2>1, <2>2 DEF i
<1>5. \A j \in 1 .. Len(ks) : Reverse(ks)[j] = ks[Len(ks) - j + 1] /\ Len(ks) - j + 1 \in 1 .. Len(ks)
  BY <1>1
<1>6. FirstKegs(Reverse(ks), Len(ks)) = FirstKegs(ks, Len(ks))
  BY <1>4, <1>5 DEF FirstKegs
<1> QED
  BY <1>2, <1>3, <1>6

LEMMA SelectedIn ==
    ASSUME NEW f \in Formulae, Poured(f) # {}
    PROVE  Selected(f) \in Kegs /\ Selected(f) \in poured /\ FormulaOfKeg(Selected(f)) = f
<1> DEFINE v == VersionsOf[f]
           S == {i \in DOMAIN v : v[i] \in poured}
           B == {Len(v) - i : i \in S}
<1>1. v \in Seq(Kegs) /\ Len(v) \in Nat /\ DOMAIN v = 1 .. Len(v) /\ ToSet(v) = {v[i] : i \in 1 .. Len(v)}
  BY LinkerAssumption DEF ToSet
<1>2. S # {} /\ \A i \in S : i \in 1 .. Len(v) /\ v[i] \in poured /\ v[i] \in ToSet(v)
  BY <1>1 DEF Poured
<1>8. Selected(f) = v[Max(S)]
  BY DEF Selected
<1>9. \A k \in ToSet(v) : k \in Kegs /\ FormulaOfKeg(k) = f
  BY FormulaOfIts
<1> HIDE DEF v, S
<1>3. B # {} /\ B \in SUBSET Nat
  BY <1>1, <1>2
<1>4. PICK b \in B : \A c \in B : b <= c
  BY <1>3, FirstOf
<1>5. PICK m \in S : b = Len(v) - m
  BY <1>4
<1>6. \A i \in S : i \in Nat /\ m >= i
  <2> TAKE i \in S
  <2>1. Len(v) - i \in B
    OBVIOUS
  <2>2. i \in Nat /\ m \in Nat
    BY <1>1, <1>2
  <2>3. Len(v) - m <= Len(v) - i
    BY <1>4, <1>5, <2>1
  <2> QED
    BY <1>1, <2>2, <2>3
<1>7. Max(S) \in S
  BY <1>6 DEF Max
<1> QED
  BY <1>2, <1>7, <1>8, <1>9

\* The siblings of f are kegs of the records, each of a formula of its own.
LEMMA SiblingList ==
    ASSUME NEW f \in Formulae, NEW K, Sound(Disk, K, poured), poured \in SUBSET Kegs,
           linked[f] = NoKegHere, NEW k \in poured, FormulaOfKeg(k) = f
    PROVE  LET ks == LinkedSiblings(f)
               T == {k} \cup SiblingKegs(f)
           IN  Company(T) /\ Claims(Disk, T) /\ KegList(ks, T)
               /\ FirstKegs(ks, Len(ks)) \cup {k} \cup {NoKegHere} = T \cup {NoKegHere}
               /\ \A j \in FirstKegs(ks, Len(ks)) \cap Kegs : linked[FormulaOfKeg(j)] = j
<1> DEFINE ks == LinkedSiblings(f)
           S == SiblingKegs(f)
           T == {k} \cup S
<1>1. Family[f] \in Seq(Formulae) /\ NoKegHere \notin Kegs /\ k \in Kegs
  BY LinkerAssumption
<1>2. Disk.linked = linked
  BY DEF Disk
<1>3. \A g \in Formulae : linked[g] # NoKegHere => linked[g] \in poured /\ FormulaOfKeg(linked[g]) = g
  BY <1>2 DEF Sound, RecordsFit
<1>4. ks \in [1 .. Len(Family[f]) -> {linked[g] : g \in Formulae} \cup {NoKegHere}] /\ Len(Family[f]) \in Nat
  BY <1>1 DEF LinkedSiblings
<1>5. ks \in Seq({linked[g] : g \in Formulae} \cup {NoKegHere})
  BY <1>4
<1>6. S = ToSet(ks) \ {NoKegHere}
  BY DEF SiblingKegs
<1> HIDE DEF ks, S
<1>7. Len(ks) \in Nat /\ ToSet(ks) = FirstKegs(ks, Len(ks))
  BY <1>5 DEF ToSet, FirstKegs
<1>8. \A i \in 1 .. Len(ks) : ks[i] \in {linked[g] : g \in Formulae} \cup {NoKegHere} /\ ks[i] \in S \cup {NoKegHere}
  <2> TAKE i \in 1 .. Len(ks)
  <2>1. ks[i] \in FirstKegs(ks, Len(ks))
    BY DEF FirstKegs
  <2> QED
    BY <1>5, <1>6, <1>7, <2>1
<1>9. \A j \in S : \E g \in Formulae : j = linked[g] /\ linked[g] # NoKegHere
  BY <1>6, <1>7, <1>8 DEF FirstKegs
<1>10. \A j \in S : j \in poured /\ linked[FormulaOfKeg(j)] = j /\ j # NoKegHere
  BY <1>3, <1>9
<1>11. Separate(T)
  <2> SUFFICES ASSUME NEW i \in T, NEW j \in T, FormulaOfKeg(i) = FormulaOfKeg(j) PROVE i = j
    BY DEF Separate
  <2> QED
    BY <1>10
<1>12. Company(T)
  BY <1>10, <1>11 DEF Company
<1>13. Claims(Disk, T)
  BY <1>2, <1>10 DEF Claims
<1>14. KegList(ks, T)
  BY <1>7, <1>8 DEF KegList
<1>15. FirstKegs(ks, Len(ks)) \cup {k} \cup {NoKegHere} = T \cup {NoKegHere}
  BY <1>6, <1>7
<1>16. \A j \in FirstKegs(ks, Len(ks)) \cap Kegs : linked[FormulaOfKeg(j)] = j
  BY <1>1, <1>6, <1>7, <1>10
<1> QED
  BY <1>12, <1>13, <1>14, <1>15, <1>16 DEF ks, T, S

\* Nothing of what the records are held against differs.
LEMMA SameSound ==
    ASSUME NEW K, NEW P, NEW d, Sound(d, K, P), NEW g \in Disks,
           g.at = d.at, g.backedUp = d.backedUp, g.linked = d.linked, Paired(g, K)
    PROVE  Sound(g, K, P)
<1>1. FineDisk(g)
  BY DEF Sound, FineDisk
<1>2. \A q : LinkBroken(d, q) <=> LinkBroken(g, q)
  BY DEF LinkBroken
<1>3. \A k : Counted(d, K, k) <=> Counted(g, K, k)
  BY DEF Counted
<1>4. \A k : AllFound(d, k) <=> AllFound(g, k)
  BY DEF AllFound, FoundIn
<1>5. LinksCounted(g, K)
  BY <1>3 DEF Sound, LinksCounted
<1>6. DirsCounted(g, K)
  BY <1>2, <1>3 DEF Sound, DirsCounted
<1>7. LinkedFound(g, K)
  BY <1>4 DEF Sound, LinkedFound
<1>8. RecordsFit(g, P)
  BY DEF Sound, RecordsFit
<1> QED
  BY <1>1, <1>5, <1>6, <1>7, <1>8 DEF Sound

LEMMA AliasesSound ==
    ASSUME NEW K, NEW P, NEW d, Sound(d, K, P), NEW f \in Formulae, NEW k
    PROVE  Sound(WithAliases(d, f), K, P) /\ Sound(WithoutAliases(d, f, k), K, P)
           /\ WithoutAliases(d, f, k).linked = d.linked
<1> DEFINE with == [n \in AliasNames |-> IF n \in AliasesOf[f] THEN f ELSE d.alias[n]]
           without == [n \in AliasNames |->
                        IF n \in AliasesOf[f] /\ d.alias[n] # NoKegHere /\ d.opt[d.alias[n]] = k
                        THEN NoKegHere ELSE d.alias[n]]
<1>0. d \in Disks
  BY DEF Sound, FineDisk
<1>1. with \in [AliasNames -> Formulae \cup {NoKegHere}] /\ without \in [AliasNames -> Formulae \cup {NoKegHere}]
  BY <1>0 DEF Disks
<1>2. WithAliases(d, f) = [d EXCEPT !.alias = with] /\ WithoutAliases(d, f, k) = [d EXCEPT !.alias = without]
  BY DEF WithAliases, WithoutAliases
<1> HIDE DEF with, without
<1>3. ASSUME NEW al \in [AliasNames -> Formulae \cup {NoKegHere}]
      PROVE  LET g == [d EXCEPT !.alias = al] IN
             g \in Disks /\ g.at = d.at /\ g.backedUp = d.backedUp /\ g.linked = d.linked /\ g.opt = d.opt
  BY <1>0 DEF Disks
<1>4. ASSUME NEW al \in [AliasNames -> Formulae \cup {NoKegHere}]
      PROVE  Sound([d EXCEPT !.alias = al], K, P)
  <2> DEFINE g == [d EXCEPT !.alias = al]
  <2>1. g \in Disks /\ g.at = d.at /\ g.backedUp = d.backedUp /\ g.linked = d.linked /\ g.opt = d.opt
    BY <1>3
  <2> HIDE DEF g
  <2>3. Paired(g, K)
    BY <2>1 DEF Sound, Paired
  <2>2. Sound(g, K, P)
    BY <2>1, <2>3, SameSound
  <2> QED
    BY <2>2 DEF g
<1> QED
  BY <1>1, <1>2, <1>3, <1>4

\* How a command ends that was to relink the kegs T.
Ended(a, K, T) ==
    /\ a.status \in {"torn", "stuck"} => a.hurt \in SUBSET Kegs /\ Sound(a.disk, K \cup T \cup a.hurt, poured)
    /\ a.status = "ok" => Sound(a.disk, K \ T, poured)
    /\ a.status \notin {"torn", "stuck", "ok"} => Sound(a.disk, K, poured)
\* When it has refused, the kegs S, which were unlinked on disk d, are linked again.
Undone(a, d, S) ==
    a.status \notin {"torn", "stuck", "ok"} => a.disk = d \/ (OnlyMoved(d, a.disk, S) /\ Restored(a.disk, S))
AllEnded(answers, d, K, T, S) == \A a \in answers : Ended(a, K, T) /\ Undone(a, d, S)

\* The keg could not be linked: the siblings are linked again.
LEMMA BackSound ==
    ASSUME TheirPrefix, poured \in SUBSET Kegs, NEW K \in SUBSET Kegs, NEW T, Company(T),
           NEW M, M \subseteq K, NEW u, Sound(u, M, poured), Claims(u, T),
           NEW k \in T, NEW ks, KegList(ks, T), NEW r, LinkedWell(u, M, poured, k, r), r.status # "ok",
           NEW b \in RestoreLinks(r.disk, ks), NEW d, OnlyMoved(d, u, FirstKegs(ks, Len(ks)))
    PROVE  LET a == Hurting(IF b.status = "ok" THEN Answer(b.disk, r.status) ELSE b, r.hurt)
           IN  Ended(a, K, T) /\ Undone(a, d, FirstKegs(ks, Len(ks)))
<1> DEFINE x == IF b.status = "ok" THEN Answer(b.disk, r.status) ELSE b
           a == Hurting(x, r.hurt)
           early == r.status \in {"refused", "conflict"}
           N == IF early THEN M ELSE M \cup {k} \cup r.hurt
           e == r.disk
           back == Reverse(ks)
           done == FirstKegs(back, Len(back))
           yes == TRUE
<1>1. /\ T \in SUBSET Kegs /\ Separate(T) /\ k \in Kegs /\ KegList(back, T) /\ yes \in BOOLEAN /\ yes
      /\ done = FirstKegs(ks, Len(ks))
  BY ReverseList DEF Company
<1>15. early => e = u
  BY DEF LinkedWell
<1>2. r.hurt \in SUBSET Kegs /\ N \in SUBSET Kegs /\ (early => r.hurt = {})
  BY <1>1 DEF LinkedWell
<1>3. Sound(e, N, poured)
  BY DEF LinkedWell
<1>4. Claims(e, T)
  <2>1. OnlyRecord(u, e, k)
    BY DEF LinkedWell
  <2> QED
    BY <1>1, <2>1, ClaimsStay
<1>5. b \in InTurn(e, back, yes)
  BY DEF RestoreLinks
<1>6. N \subseteq K \cup T \cup r.hurt /\ (early => N \subseteq K)
  OBVIOUS
<1> HIDE DEF N, e, back, yes
<1>7. AllPassed(InTurn(e, back, yes), e, N, T, done, yes)
  BY <1>1, <1>2, <1>3, <1>4, InTurnPassed
<1> HIDE DEF done
<1>8. Passed(b, e, N, T, done, yes)
  BY <1>5, <1>7 DEF AllPassed
<1>9. Formed(x) /\ x.disk = b.disk /\ x.status = IF b.status = "ok" THEN r.status ELSE b.status
  BY <1>8, FormedAnswers, AnswerParts DEF Passed
<1>10. x.hurt = IF b.status = "ok" THEN {} ELSE b.hurt
  BY AnswerParts
<1> HIDE DEF x
<1>11. a.disk = b.disk /\ a.status = (IF b.status = "ok" THEN r.status ELSE b.status) /\ a.hurt = x.hurt \cup r.hurt
  BY <1>9, FormedAnswers
<1> HIDE DEF a
<1> SUFFICES Ended(a, K, T) /\ Undone(a, d, done)
  BY <1>1 DEF a, x
<1>12. CASE b.status = "ok" /\ early
  <2>1. Sound(b.disk, N \ done, poured) /\ N \ done \subseteq K
    BY <1>6, <1>8, <1>12 DEF Passed
  <2>2. Sound(b.disk, K, poured)
    BY <2>1, SoundMore
  <2>3. a.status \in {"refused", "conflict"} /\ a.disk = b.disk
    BY <1>11, <1>12
  <2>4. OnlyMoved(d, e, done) /\ OnlyMoved(e, b.disk, done) /\ Restored(b.disk, done)
    BY <1>1, <1>8, <1>12, <1>15 DEF Passed
  <2>5. OnlyMoved(d, b.disk, done)
    BY <2>4, KeptTwice
  <2> QED
    BY <2>2, <2>3, <2>4, <2>5 DEF Ended, Undone
<1>13. CASE b.status = "ok" /\ ~early
  <2>1. r.status \in {"stuck", "torn"}
    BY <1>13 DEF LinkedWell
  <2>2. a.status \in {"stuck", "torn"} /\ a.hurt = r.hurt /\ a.disk = b.disk
    BY <1>10, <1>11, <1>13, <2>1
  <2>3. Sound(b.disk, N \ done, poured) /\ N \ done \subseteq K \cup T \cup a.hurt
    BY <1>6, <1>8, <1>13, <2>2 DEF Passed
  <2>4. Sound(b.disk, K \cup T \cup a.hurt, poured)
    BY <2>3, SoundMore
  <2> QED
    BY <1>2, <2>2, <2>4 DEF Ended, Undone
<1>14. CASE b.status # "ok"
  <2>1. b.status \in {"stuck", "torn"} /\ b.hurt \in SUBSET Kegs /\ Sound(b.disk, N \cup T \cup b.hurt, poured)
    BY <1>8, <1>14 DEF Passed
  <2>2. a.status \in {"stuck", "torn"} /\ a.hurt = b.hurt \cup r.hurt /\ a.disk = b.disk
    BY <1>10, <1>11, <1>14, <2>1
  <2>3. N \cup T \cup b.hurt \subseteq K \cup T \cup a.hurt
    BY <1>6, <2>2
  <2>4. Sound(b.disk, K \cup T \cup a.hurt, poured)
    BY <2>1, <2>3, SoundMore
  <2> QED
    BY <1>2, <2>1, <2>2, <2>4 DEF Ended, Undone
<1> QED
  BY <1>12, <1>13, <1>14

LEMMA ForthSound ==
    ASSUME NEW K \in SUBSET Kegs, NEW T \in SUBSET Kegs, NEW M, M \subseteq K \ T, NEW d, Sound(d, M, poured),
           NEW f \in Formulae, NEW c, NEW S
    PROVE  AllEnded({Answer(WithAliases(d, f), "ok")} \cup Torn({d}), c, K, T, S)
<1> DEFINE w == WithAliases(d, f)
<1>1. Sound(w, K \ T, poured)
  <2>1. Sound(w, M, poured)
    BY AliasesSound
  <2> HIDE DEF w
  <2> QED
    BY <2>1, SoundMore
<1>2. Sound(d, K \cup T \cup {}, poured)
  <2>1. M \subseteq K \cup T \cup {}
    OBVIOUS
  <2> QED
    BY <2>1, SoundMore
<1> HIDE DEF w
<1>3. Ended(Answer(w, "ok"), K, T) /\ Undone(Answer(w, "ok"), c, S)
  BY <1>1, AnswerParts DEF Ended, Undone
<1>4. \A a \in Torn({d}) : a = Answer(d, "torn")
  BY DEF Torn, Failing
<1>5. Ended(Answer(d, "torn"), K, T) /\ Undone(Answer(d, "torn"), c, S)
  <2> DEFINE a == Answer(d, "torn")
  <2>1. a.status = "torn" /\ a.disk = d /\ a.hurt = {}
    BY AnswerParts
  <2> HIDE DEF a
  <2>2. Sound(a.disk, K \cup T \cup a.hurt, poured)
    BY <1>2, <2>1
  <2> QED
    BY <2>1, <2>2 DEF Ended, Undone, a
<1> QED
  BY <1>3, <1>4, <1>5 DEF AllEnded, w

LEMMA RelinkSound ==
    ASSUME TheirPrefix, poured \in SUBSET Kegs, NEW K \in SUBSET Kegs, NEW T, Company(T),
           NEW d, Sound(d, K, poured), Claims(d, T), NEW ks, KegList(ks, T), NEW k \in T,
           FirstKegs(ks, Len(ks)) \cup {k} \cup {NoKegHere} = T \cup {NoKegHere},
           NEW f \in Formulae, NEW overwrite \in BOOLEAN
    PROVE  AllEnded(Relink(d, f, k, ks, overwrite), d, K, T, FirstKegs(ks, Len(ks)))
<1> DEFINE Back(r) == {Hurting(IF b.status = "ok" THEN Answer(b.disk, r.status) ELSE b, r.hurt) :
                         b \in RestoreLinks(r.disk, ks)}
           Forth(r) == {Answer(WithAliases(r.disk, f), "ok")} \cup Torn({r.disk})
           Then(u) == UNION {IF r.status = "ok" THEN Forth(r) ELSE Back(r) :
                               r \in LinkKeg(u.disk, k, overwrite, TRUE)}
           done == FirstKegs(ks, Len(ks))
           M == K \ done
           no == FALSE
           yes == TRUE
<1>1. T \in SUBSET Kegs /\ k \in Kegs /\ k \in poured /\ M \subseteq K /\ M \in SUBSET Kegs /\ NoKegHere \notin Kegs
      /\ no \in BOOLEAN /\ yes \in BOOLEAN /\ Records(k, yes) /\ poured \ (M \cup {k}) \subseteq poured
  BY LinkerAssumption DEF Company, Records
<1>2. M \ {k} \subseteq K \ T
  BY <1>1
<1>3. UnlinkSiblings(d, ks) = InTurn(d, ks, no)
  BY DEF UnlinkSiblings
<1>4. Relink(d, f, k, ks, overwrite)
        = UNION {IF u.status # "ok" THEN {u} ELSE Then(u) : u \in UnlinkSiblings(d, ks)}
  BY DEF Relink
<1> HIDE DEF done, no
<1>5. AllPassed(InTurn(d, ks, no), d, K, T, done, no)
  BY <1>1, InTurnPassed DEF done
<1>6. ASSUME NEW u, Passed(u, d, K, T, done, no), u.status # "ok" PROVE Ended(u, K, T) /\ Undone(u, d, done)
  BY <1>6 DEF Passed, Ended, Undone
<1>7. ASSUME NEW u, Passed(u, d, K, T, done, no), u.status = "ok" PROVE AllEnded(Then(u), d, K, T, done)
  <2> DEFINE e == u.disk
  <2>1. Sound(e, M, poured) /\ Claims(e, T)
    BY <1>7 DEF Passed
  <2>5. OnlyMoved(d, e, FirstKegs(ks, Len(ks)))
    BY <1>7 DEF Passed, done
  <2>2. Claims(e, {k})
    BY <2>1 DEF Claims
  <2>3. Then(u) = UNION {IF r.status = "ok" THEN Forth(r) ELSE Back(r) : r \in LinkKeg(e, k, overwrite, yes)}
    OBVIOUS
  <2> HIDE DEF e, yes, M, Back, Forth, Then
  <2>4. ASSUME NEW r \in LinkKeg(e, k, overwrite, yes)
        PROVE  AllEnded(IF r.status = "ok" THEN Forth(r) ELSE Back(r), d, K, T, done)
    <3>1. LinkedWell(e, M, poured, k, r)
      BY <1>1, <2>1, <2>2, LinkKegSound
    <3>2. ASSUME r.status = "ok" PROVE AllEnded(Forth(r), d, K, T, done)
      <4> DEFINE g == r.disk
                 N == M \ {k}
      <4>1. Sound(g, N, poured) /\ N \subseteq K \ T
        BY <1>2, <3>1, <3>2 DEF LinkedWell
      <4>2. Forth(r) = {Answer(WithAliases(g, f), "ok")} \cup Torn({g})
        BY DEF Forth
      <4> HIDE DEF g, N
      <4> QED
        BY <1>1, <4>1, <4>2, ForthSound
    <3>3. ASSUME r.status # "ok" PROVE AllEnded(Back(r), d, K, T, done)
      <4>1. ASSUME NEW b \in RestoreLinks(r.disk, ks)
            PROVE  LET a == Hurting(IF b.status = "ok" THEN Answer(b.disk, r.status) ELSE b, r.hurt)
                   IN  Ended(a, K, T) /\ Undone(a, d, done)
        BY <1>1, <2>1, <2>5, <3>1, <3>3, <4>1, BackSound DEF done
      <4> QED
        BY <4>1 DEF AllEnded, Back
    <3> QED
      BY <3>2, <3>3
  <2> QED
    BY <2>3, <2>4 DEF AllEnded
<1> HIDE DEF Then
<1> QED
  BY <1>3, <1>4, <1>5, <1>6, <1>7 DEF AllEnded, AllPassed, done

LEMMA LinkOneSound ==
    ASSUME TheirPrefix, poured \in SUBSET Kegs, NEW K \in SUBSET Kegs, Sound(Disk, K, poured),
           NEW f \in Formulae, Poured(f) # {}, NEW overwrite \in BOOLEAN, NEW force
    PROVE  /\ LET ks == LinkedSiblings(f) IN
              AllEnded(LinkOneAnswers(f, overwrite, force), Disk, K, {Selected(f)} \cup SiblingKegs(f),
                       FirstKegs(ks, Len(ks)))
           /\ {Selected(f)} \cup SiblingKegs(f) \in SUBSET Kegs
<1> DEFINE k == Selected(f)
           ks == LinkedSiblings(f)
           S == SiblingKegs(f)
           T == {k} \cup S
           done == FirstKegs(ks, Len(ks))
<1>1. k \in Kegs /\ k \in poured /\ FormulaOfKeg(k) = f
  BY SelectedIn
<1>2. \/ LinkOneAnswers(f, overwrite, force) = Relink(Disk, f, k, ks, overwrite) /\ linked[f] = NoKegHere
      \/ \E status \in {"already", "another", "declined", "refused", "conflict"} :
            LinkOneAnswers(f, overwrite, force) = {Answer(Disk, status)}
  BY DEF LinkOneAnswers
<1>3. S \in SUBSET Kegs
  <2>1. Family[f] \in Seq(Formulae) /\ linked \in [Formulae -> Kegs \cup {NoKegHere}]
    BY LinkerAssumption DEF Sound, FineDisk, Disk, Disks
  <2>2. ks \in [1 .. Len(Family[f]) -> Kegs \cup {NoKegHere}] /\ Len(Family[f]) \in Nat
    BY <2>1 DEF LinkedSiblings
  <2>3. ks \in Seq(Kegs \cup {NoKegHere})
    BY <2>2
  <2> HIDE DEF ks
  <2>4. \A x \in ToSet(ks) : x \in Kegs \cup {NoKegHere}
    BY <2>3 DEF ToSet
  <2> QED
    BY <2>4 DEF SiblingKegs, ks
<1>4. ASSUME linked[f] = NoKegHere
      PROVE  Company(T) /\ Claims(Disk, T) /\ KegList(ks, T)
             /\ FirstKegs(ks, Len(ks)) \cup {k} \cup {NoKegHere} = T \cup {NoKegHere}
  <2> HIDE DEF k
  <2> QED
    BY <1>1, <1>4, SiblingList
<1> DEFINE d == Disk
<1>5. ASSUME NEW status \in {"already", "another", "declined", "refused", "conflict"}
      PROVE  AllEnded({Answer(d, status)}, d, K, T, done)
  BY AnswerParts DEF AllEnded, Ended, Undone
<1>6. k \in T /\ Sound(d, K, poured)
  OBVIOUS
<1> HIDE DEF k, ks, S, T, d
<1>7. ASSUME linked[f] = NoKegHere PROVE AllEnded(Relink(d, f, k, ks, overwrite), d, K, T, done)
  <2>1. Company(T) /\ Claims(d, T) /\ KegList(ks, T)
        /\ FirstKegs(ks, Len(ks)) \cup {k} \cup {NoKegHere} = T \cup {NoKegHere}
    BY <1>4, <1>7 DEF d
  <2> QED
    BY <1>6, <2>1, RelinkSound
<1>8. AllEnded(LinkOneAnswers(f, overwrite, force), d, K, T, done)
  BY <1>2, <1>5, <1>7 DEF d
<1> QED
  BY <1>1, <1>3, <1>8 DEF T, k, S, d, ks

-----------------------------------------------------------------------------
(* The steps                                                               *)

\* The records and the prefix agree, but for the kegs that are torn.
Known == torn \in SUBSET Kegs /\ poured \in SUBSET Kegs
InSync == Sound(Disk, torn, poured)
Agreed == TheirPrefix /\ Known /\ InSync

LEMMA SoundNext ==
    ASSUME TheirPrefix, NEW d, NEW K \in SUBSET Kegs, NEW P \in SUBSET Kegs, Sound(d, K, P),
           SetDisk(d), torn' = K, poured' = P
    PROVE  Agreed'
<1>1. /\ mine' = mine
      /\ at' = d.at /\ backedUp' = d.backedUp /\ opt' = d.opt
      /\ linked' = d.linked /\ alias' = d.alias
  BY DEF SetDisk
<1>2. Disk' = d
  <2>1. d \in Disks
    BY DEF Sound, FineDisk
  <2> QED
    BY <1>1, <2>1 DEF Disk, Disks
<1>3. TheirPrefix'
  BY <1>1 DEF TheirPrefix, Treelike
<1>4. FineDisk(Disk)'
  BY <1>1, <1>2 DEF Sound, FineDisk, Fine, Theirs, NoneLost
<1>5. ShippedLinks(Disk.at)' /\ MadeDirs(Disk.at)'
  BY <1>1, <1>2 DEF Sound, ShippedLinks, MadeDirs
<1>6. RecordsFit(Disk, poured)'
  BY <1>1, <1>2 DEF Sound, RecordsFit
<1>7. LinksCounted(Disk, torn)'
  BY <1>1, <1>2 DEF Sound, LinksCounted, Counted
<1>8. DirsCounted(Disk, torn)'
  BY <1>1, <1>2 DEF Sound, DirsCounted, Counted, LinkBroken
<1>9. LinkedFound(Disk, torn)'
  BY <1>1, <1>2 DEF Sound, LinkedFound, AllFound, FoundIn
<1>12. Paired(Disk, torn)'
  BY <1>1, <1>2 DEF Sound, Paired
<1>10. Known'
  BY DEF Known
<1>11. InSync'
  BY <1>4, <1>5, <1>6, <1>7, <1>8, <1>9, <1>12 DEF InSync, Sound
<1> QED
  BY <1>3, <1>10, <1>11 DEF Agreed

LEMMA EndSound ==
    ASSUME Agreed, NEW linking, NEW T, NEW a, Ended(a, torn, T), T \in SUBSET Kegs,
           EndCommand(linking, T, a), UNCHANGED poured
    PROVE  Agreed'
<1>1. SetDisk(a.disk) /\ torn' = CASE a.status \in {"torn", "stuck"} -> torn \cup T \cup a.hurt
                                   [] a.status = "ok" -> torn \ T
                                   [] OTHER -> torn
  BY DEF EndCommand
<1>2. torn \in SUBSET Kegs /\ poured \in SUBSET Kegs /\ TheirPrefix
  BY DEF Agreed, Known, InSync
<1> DEFINE K == CASE a.status \in {"torn", "stuck"} -> torn \cup T \cup a.hurt
                  [] a.status = "ok" -> torn \ T
                  [] OTHER -> torn
           P == poured
<1>4. K \in SUBSET Kegs /\ Sound(a.disk, K, P)
  <2>1. CASE a.status \in {"torn", "stuck"}
    <3>1. K = torn \cup T \cup a.hurt /\ a.hurt \in SUBSET Kegs
      BY <2>1 DEF Ended
    <3>2. Sound(a.disk, torn \cup T \cup a.hurt, P)
      BY <2>1 DEF Ended
    <3> HIDE DEF K
    <3> QED
      BY <1>2, <3>1, <3>2
  <2>2. CASE a.status = "ok"
    <3>1. K = torn \ T
      BY <2>2
    <3>2. Sound(a.disk, torn \ T, P)
      BY <2>2 DEF Ended
    <3> HIDE DEF K
    <3> QED
      BY <1>2, <3>1, <3>2
  <2>3. CASE a.status \notin {"torn", "stuck", "ok"}
    <3>1. K = torn
      BY <2>3
    <3>2. Sound(a.disk, torn, P)
      BY <2>3 DEF Ended
    <3> HIDE DEF K
    <3> QED
      BY <1>2, <3>1, <3>2
  <2> QED
    BY <2>1, <2>2, <2>3
<1>5. torn' = K /\ poured' = P
  BY <1>1
<1> HIDE DEF K, P
<1>6. P \in SUBSET Kegs
  BY <1>2 DEF P
<1> QED
  BY <1>1, <1>2, <1>4, <1>5, <1>6, SoundNext

LEMMA LinkCommandSound ==
    ASSUME Agreed, NEW f \in Formulae, NEW overwrite \in BOOLEAN, NEW force, LinkCommand(f, overwrite, force)
    PROVE  Agreed'
<1> DEFINE T == {Selected(f)} \cup SiblingKegs(f)
           K == torn
<1>1. Poured(f) # {} /\ UNCHANGED poured
  BY DEF LinkCommand
<1>2. PICK a \in LinkOneAnswers(f, overwrite, force) : EndCommand(TRUE, T, a)
  BY DEF LinkCommand
<1>3. TheirPrefix /\ poured \in SUBSET Kegs /\ K \in SUBSET Kegs /\ Sound(Disk, K, poured)
  BY DEF Agreed, Known, InSync
<1> DEFINE ks == LinkedSiblings(f)
<1>4. AllEnded(LinkOneAnswers(f, overwrite, force), Disk, K, T, FirstKegs(ks, Len(ks))) /\ T \in SUBSET Kegs
  <2> HIDE DEF K
  <2> QED
    BY <1>1, <1>3, LinkOneSound
<1>5. Ended(a, torn, T)
  BY <1>4 DEF AllEnded
<1> DEFINE yes == TRUE
<1>6. EndCommand(yes, T, a)
  BY <1>2
<1> HIDE DEF T, yes
<1> QED
  BY <1>1, <1>4, <1>5, <1>6, EndSound

LEMMA UnlinkCommandSound ==
    ASSUME Agreed, NEW f \in Formulae, UnlinkCommand(f)
    PROVE  Agreed'
<1> DEFINE k == IF linked[f] # NoKegHere THEN linked[f] ELSE Selected(f)
           d == WithoutAliases(Disk, f, k)
           K == torn
           T == {k}
           no == FALSE
<1>1. Poured(f) # {} /\ UNCHANGED poured
  BY DEF UnlinkCommand
<1>2. PICK a \in UnlinkKeg(d, k) : EndCommand(no, T, a)
  BY DEF UnlinkCommand
<1>3. TheirPrefix /\ poured \in SUBSET Kegs /\ K \in SUBSET Kegs /\ Sound(Disk, K, poured)
  BY DEF Agreed, Known, InSync
<1>4. k \in Kegs /\ k \in poured
  <2>1. linked[f] # NoKegHere => linked[f] \in poured
    BY <1>3 DEF Sound, RecordsFit, Disk
  <2> QED
    BY <1>1, <1>3, <2>1, SelectedIn
<1> HIDE DEF k, K
<1>5. Sound(d, K, poured)
  BY <1>3, AliasesSound
<1> HIDE DEF d
<1>9. UnlinkedWell(d, K, poured, k, a)
  BY <1>2, <1>3, <1>4, <1>5, UnlinkKegSound
<1>6. /\ a.status \in {"ok", "torn"} /\ a.hurt = {}
      /\ a.status = "ok" => Sound(a.disk, K \ {k}, poured)
      /\ Sound(a.disk, K \cup {k}, poured)
  BY <1>9 DEF UnlinkedWell
<1>7. K \cup T \cup a.hurt = K \cup {k} /\ T \in SUBSET Kegs /\ K \ T = K \ {k}
  BY <1>4, <1>6
<1> HIDE DEF T, no
<1>8. Ended(a, torn, T)
  <2>1. Sound(a.disk, K \cup T \cup a.hurt, poured)
    BY <1>6, <1>7
  <2>2. a.status = "ok" => Sound(a.disk, K \ T, poured)
    BY <1>6, <1>7
  <2> QED
    BY <1>6, <2>1, <2>2 DEF Ended, K
<1> QED
  BY <1>1, <1>2, <1>7, <1>8, EndSound

LEMMA TargetKegIn ==
    ASSUME NEW f \in Formulae, Poured(f) # {}, NEW K, poured \in SUBSET Kegs, Sound(Disk, K, poured)
    PROVE  TargetKeg(f) \in Kegs /\ TargetKeg(f) \in poured /\ FormulaOfKeg(TargetKeg(f)) = f
<1>1. CASE linked[f] # NoKegHere
  <2>1. linked[f] \in poured /\ linked[f] \in Kegs /\ FormulaOfKeg(linked[f]) = f
    BY <1>1 DEF Sound, RecordsFit, Disk
  <2> QED
    BY <1>1, <2>1 DEF TargetKeg
<1>2. CASE linked[f] = NoKegHere /\ opt[f] \in Poured(f)
  <2>1. opt[f] \in Kegs /\ FormulaOfKeg(opt[f]) = f /\ opt[f] \in poured
    BY <1>2, FormulaOfIts DEF Poured
  <2> QED
    BY <1>2, <2>1 DEF TargetKeg
<1>3. CASE linked[f] = NoKegHere /\ opt[f] \notin Poured(f)
  BY <1>3, SelectedIn DEF TargetKeg
<1> QED
  BY <1>1, <1>2, <1>3

LEMMA UninstallSound ==
    ASSUME Agreed, NEW f \in Formulae, Uninstall(f)
    PROVE  Agreed'
<1> DEFINE k == TargetKeg(f)
           unlinked == IF linked[f] = k THEN UnlinkKeg(Disk, k) ELSE {Answer(Disk, "ok")}
           ks == IF linked[f] = k THEN {k} ELSE {}
           K == torn
           P == poured \ {k}
           d == Disk
<1>1. Poured(f) # {} /\ poured' = P
  BY DEF Uninstall
<1>2. PICK u \in unlinked : /\ u.status = "ok"
        /\ EndCommand(FALSE, ks, Answer([u.disk EXCEPT !.opt[f] = IF @ = k THEN NoKegHere ELSE @], "ok"))
  BY DEF Uninstall
<1>3. TheirPrefix /\ poured \in SUBSET Kegs /\ K \in SUBSET Kegs /\ Sound(d, K, poured) /\ d.linked = linked
  BY DEF Agreed, Known, InSync, Disk
<1>4. k \in Kegs /\ k \in poured /\ FormulaOfKeg(k) = f
  BY <1>1, <1>3, TargetKegIn
<1>5. ks \in SUBSET Kegs /\ P \in SUBSET Kegs /\ K \ ks \in SUBSET Kegs
  BY <1>3, <1>4
<1>6. linked[f] # k => u = Answer(d, "ok")
  BY <1>2
<1>7. linked[f] = k => u \in UnlinkKeg(d, k) /\ ks = {k}
  BY <1>2
<1>8. linked[f] # k => ks = {}
  OBVIOUS
<1> DEFINE e == [u.disk EXCEPT !.opt[f] = IF u.disk.opt[f] = k THEN NoKegHere ELSE u.disk.opt[f]]
           a == Answer(e, "ok")
<1>9. EndCommand(FALSE, ks, a)
  BY <1>2
<1> HIDE DEF k, ks, unlinked, K, P, d
<1>10. Sound(u.disk, K \ ks, poured) /\ u.disk.linked[f] # k
  <2>1. CASE linked[f] = k
    <3>1. UnlinkedWell(d, K, poured, k, u)
      BY <1>3, <1>4, <1>7, <2>1, UnlinkKegSound
    <3> QED
      BY <1>2, <1>4, <1>7, <2>1, <3>1 DEF UnlinkedWell
  <2>2. CASE linked[f] # k
    <3>1. u.disk = d /\ K \ ks = K
      BY <1>6, <1>8, <2>2, AnswerParts
    <3> QED
      BY <1>3, <2>2, <3>1
  <2> QED
    BY <2>1, <2>2
<1>11. u.disk \in Disks
  BY <1>10 DEF Sound, FineDisk
<1>12. e \in Disks /\ e.at = u.disk.at /\ e.backedUp = u.disk.backedUp /\ e.linked = u.disk.linked
       /\ \A h \in Formulae : e.opt[h] = u.disk.opt[h] \/ u.disk.opt[h] = k
  BY <1>11 DEF Disks
<1>13. a.disk = e /\ a.status = "ok"
  BY AnswerParts
<1> DEFINE g == u.disk
           L == K \ ks
<1>14. Sound(g, L, poured) /\ e.at = g.at /\ e.backedUp = g.backedUp /\ e.linked = g.linked /\ g.linked[f] # k
  BY <1>10, <1>12
<1> HIDE DEF e, a, g, L
<1>19. Paired(e, L)
  <2>1. \A h \in Formulae : g.linked[h] # NoKegHere => g.linked[h] # k
    BY <1>4, <1>14 DEF Sound, RecordsFit
  <2>2. \A h \in Formulae : e.opt[h] = g.opt[h] \/ g.opt[h] = k
    BY <1>12 DEF g
  <2> QED
    BY <1>14, <2>1, <2>2 DEF Sound, Paired
<1>15. Sound(e, L, poured)
  BY <1>12, <1>14, <1>19, SameSound
<1>16. Sound(e, L, P)
  <2>1. RecordsFit(e, P)
    BY <1>4, <1>14, <1>15 DEF Sound, RecordsFit, P
  <2> QED
    BY <1>15, <2>1 DEF Sound
<1>17. SetDisk(e) /\ torn' = L
  BY <1>9, <1>13 DEF EndCommand, K, L
<1>18. L \in SUBSET Kegs
  BY <1>5 DEF L
<1> QED
  BY <1>1, <1>3, <1>5, <1>16, <1>17, <1>18, SoundNext

LEMMA InstallSound ==
    ASSUME Agreed, NEW f \in Formulae, NEW k \in Kegs, Install(f, k)
    PROVE  Agreed'
<1> DEFINE j == linked[f]
           d == Disk
           K == torn
           P == poured \cup {k}
           unlinked == IF j = NoKegHere THEN {Answer(d, "ok")} ELSE UnlinkKeg(d, j)
           fileLinks == f \notin KegOnly
           no == FALSE
<1>1. k \in ToSet(VersionsOf[f]) /\ k \notin poured /\ poured' = P
  BY DEF Install
<1>2. PICK u \in unlinked : u.status = "ok" /\ \E a \in LinkKeg(u.disk, k, no, fileLinks) :
          a.status = "ok" /\ EndCommand(FALSE, {k, j}, a)
  BY DEF Install
<1>3. PICK a \in LinkKeg(u.disk, k, no, fileLinks) : a.status = "ok" /\ EndCommand(FALSE, {k, j}, a)
  BY <1>2
<1>4. TheirPrefix /\ poured \in SUBSET Kegs /\ K \in SUBSET Kegs /\ Sound(d, K, poured) /\ d.linked = linked
  BY DEF Agreed, Known, InSync, Disk
<1>5. FormulaOfKeg(k) = f
  BY <1>1, FormulaOfIts
<1>6. j # NoKegHere => j \in poured /\ j \in Kegs /\ FormulaOfKeg(j) = f
  BY <1>4 DEF Sound, RecordsFit
<1>7. fileLinks \in BOOLEAN /\ Records(k, fileLinks) /\ no \in BOOLEAN
  BY <1>5 DEF Records
<1>8. j = NoKegHere => u = Answer(d, "ok")
  BY <1>2
<1>9. j # NoKegHere => u \in UnlinkKeg(d, j)
  BY <1>2
<1> HIDE DEF j, d, K, unlinked, fileLinks, no
<1> DEFINE M == K \ {j}
           e == u.disk
<1>10. Sound(e, M, poured) /\ e.linked[f] = NoKegHere
  <2>1. CASE j = NoKegHere
    <3>1. e = d
      BY <1>8, <2>1, AnswerParts
    <3>2. M = K
      BY <1>4, <2>1, LinkerAssumption
    <3> HIDE DEF M, e
    <3> QED
      BY <1>4, <2>1, <3>1, <3>2 DEF j
  <2>2. CASE j # NoKegHere
    <3>1. UnlinkedWell(d, K, poured, j, u)
      BY <1>4, <1>6, <1>9, <2>2, UnlinkKegSound
    <3>2. e.linked[f] \in {NoKegHere, j}
      BY <1>4, <3>1 DEF UnlinkedWell, OnlyRecord, j
    <3> QED
      BY <1>2, <1>6, <2>2, <3>1, <3>2 DEF UnlinkedWell
  <2> QED
    BY <2>1, <2>2
<1>11. M \in SUBSET Kegs /\ P \in SUBSET Kegs /\ poured \subseteq P /\ k \in P /\ P \ (M \cup {k}) \subseteq poured
  BY <1>4
<1> DEFINE L == M \ {k}
<1>12. a.status = "ok" /\ SetDisk(a.disk) /\ torn' = L
  <2>1. torn \ {k, j} = L
    BY DEF K
  <2> QED
    BY <1>3, <2>1 DEF EndCommand
<1>13. L \in SUBSET Kegs
  BY <1>11
<1> HIDE DEF M, P, L
<1>14. a \in LinkKeg(e, k, no, fileLinks)
  OBVIOUS
<1> HIDE DEF e
<1>15. Sound(e, M, P)
  BY <1>10, <1>11, SoundMore
<1>16. Claims(e, {k})
  BY <1>5, <1>10 DEF Claims
<1>17. LinkedWell(e, M, P, k, a)
  BY <1>7, <1>11, <1>14, <1>15, <1>16, LinkKegSound
<1>18. Sound(a.disk, L, P)
  BY <1>12, <1>17 DEF LinkedWell, L
<1> QED
  BY <1>1, <1>4, <1>11, <1>12, <1>13, <1>18, SoundNext

LEMMA AgreedStep ==
    ASSUME Agreed, LinkNext
    PROVE  Agreed'
<1>1. PICK f \in Formulae :
        \/ \E overwrite \in BOOLEAN, force \in {FALSE, (f \in KegOnly)} : LinkCommand(f, overwrite, force)
        \/ UnlinkCommand(f) \/ Uninstall(f) \/ \E k \in Kegs : Install(f, k)
  BY DEF LinkNext
<1> QED
  BY <1>1, LinkCommandSound, UnlinkCommandSound, UninstallSound, InstallSound

LEMMA PrefixFine ==
    ASSUME LinkInit
    PROVE  FineDisk(Disk) /\ TheirPrefix /\ \A p \in Paths : ~IsLink(at[p])
<1>1. PICK t \in UserTrees : at = UserPrefix(t)
  BY DEF LinkInit
<1>2. mine = at /\ backedUp = [p \in Paths |-> Absent]
  BY DEF LinkInit
<1>3. \A p \in DOMAIN t : t[p] \in Nodes /\ ~IsLink(t[p])
  BY LinkerAssumption, NodeKinds DEF RealDir, File, Outside
<1>4. at \in [Paths -> Nodes] /\ backedUp \in [Paths -> Nodes]
  BY <1>1, <1>2, <1>3, NodeKinds DEF UserPrefix
<1>5. Treelike(at)
  BY <1>1, UserTreesAssumption
<1>6. Theirs(at) /\ NoneLost(at, backedUp)
  BY <1>2 DEF Theirs, NoneLost
<1>7. opt \in [Formulae -> Kegs \cup {NoKegHere, "directory"}]
  BY DEF LinkInit
<1>8. linked \in [Formulae -> Kegs \cup {NoKegHere}] /\ alias \in [AliasNames -> Formulae \cup {NoKegHere}]
  BY DEF LinkInit
<1>9. Disk \in Disks
  BY <1>4, <1>7, <1>8 DEF Disk, Disks
<1>10. FineDisk(Disk)
  BY <1>4, <1>5, <1>6, <1>9 DEF FineDisk, Fine, Disk
<1>11. TheirPrefix
  BY <1>2, <1>4, <1>5 DEF TheirPrefix
<1>12. \A p \in Paths : ~IsLink(at[p])
  BY <1>1, <1>3, NodeKinds DEF UserPrefix
<1> QED
  BY <1>10, <1>11, <1>12

LEMMA AgreedFirst ==
    ASSUME LinkInit
    PROVE  Agreed
<1>1. /\ mine = at /\ linked = [f \in Formulae |-> NoKegHere] /\ poured = {} /\ torn = {}
      /\ Disk.at = at /\ Disk.linked = linked
  BY DEF LinkInit, Disk
<1>2. FineDisk(Disk) /\ TheirPrefix /\ \A p \in Paths : ~IsLink(at[p])
  BY PrefixFine
<1>3. ShippedLinks(Disk.at) /\ MadeDirs(Disk.at)
  BY <1>1, <1>2 DEF ShippedLinks, MadeDirs
<1>4. RecordsFit(Disk, poured) /\ Paired(Disk, torn) /\ LinkedFound(Disk, torn)
  BY <1>1 DEF RecordsFit, Paired, LinkedFound
<1>5. LinksCounted(Disk, torn)
  BY <1>1, <1>2, NodeKinds DEF LinksCounted
<1>6. DirsCounted(Disk, torn)
  BY <1>1 DEF DirsCounted
<1>7. InSync
  BY <1>2, <1>3, <1>4, <1>5, <1>6 DEF InSync, Sound
<1>8. Known
  BY <1>1 DEF Known
<1> QED
  BY <1>2, <1>7, <1>8 DEF Agreed

LEMMA AgreedMeans ==
    ASSUME Agreed
    PROVE  RecordsTrue /\ UserFilesKept
<1>1. /\ FineDisk(Disk) /\ ShippedLinks(Disk.at) /\ LinksCounted(Disk, torn) /\ DirsCounted(Disk, torn)
      /\ LinkedFound(Disk, torn) /\ Paired(Disk, torn) /\ Disk.opt = opt
      /\ Disk.at = at /\ Disk.linked = linked /\ Disk.backedUp = backedUp
  BY DEF Agreed, InSync, Sound, Disk
<1>2. UserFilesKept
  BY <1>1 DEF FineDisk, Fine, NoneLost, UserFilesKept
<1>3. LinkedReachable
  BY <1>1 DEF LinkedFound, AllFound, FoundIn, LinkedReachable, Reachable
<1>4. NothingLeftBehind
  <2> SUFFICES ASSUME NEW p \in Paths, p[1] # "Frameworks"
               PROVE  /\ IsLink(at[p]) /\ at[p][2] \notin torn /\ Tree[at[p][2]][at[p][3]] # "broken"
                            => linked[FormulaOfKeg(at[p][2])] = at[p][2]
                      /\ at[p] = RealDir /\ Len(p) > 1 /\ mine[p] # RealDir
                            => \/ \E k \in Kegs : /\ p \in DOMAIN Tree[k] /\ Tree[k][p] = "dir"
                                                  /\ k \in torn \/ linked[FormulaOfKeg(k)] = k
                               \/ \E q \in From(p) : IsLink(at[q]) /\ Tree[at[q][2]][at[q][3]] = "broken"
    BY DEF NothingLeftBehind
  <2>1. ASSUME IsLink(at[p]), at[p][2] \notin torn, Tree[at[p][2]][at[p][3]] # "broken"
        PROVE  linked[FormulaOfKeg(at[p][2])] = at[p][2]
    <3>1. PICK k \in Kegs : at[p] = LinkTo(k, p)
      BY <1>1, <2>1 DEF ShippedLinks
    <3>2. at[p][2] = k /\ at[p][3] = p
      BY <3>1, LinkNames
    <3> QED
      BY <1>1, <2>1, <3>1, <3>2 DEF LinksCounted, Counted
  <2>2. ASSUME at[p] = RealDir, Len(p) > 1, mine[p] # RealDir
        PROVE  \/ \E k \in Kegs : /\ p \in DOMAIN Tree[k] /\ Tree[k][p] = "dir"
                                  /\ k \in torn \/ linked[FormulaOfKeg(k)] = k
               \/ \E q \in From(p) : IsLink(at[q]) /\ Tree[at[q][2]][at[q][3]] = "broken"
    <3>1. \/ \E k \in Kegs : HasDir(k, p) /\ Counted(Disk, torn, k)
          \/ \E q \in From(p) : LinkBroken(Disk, q)
      BY <1>1, <2>2 DEF DirsCounted
    <3>2. ASSUME NEW q \in From(p), LinkBroken(Disk, q)
          PROVE  IsLink(at[q]) /\ Tree[at[q][2]][at[q][3]] = "broken"
      <4>1. PICK k \in Kegs : at[q] = LinkTo(k, q) /\ Tree[k][q] = "broken"
        BY <1>1, <3>2 DEF LinkBroken
      <4>2. at[q][2] = k /\ at[q][3] = q /\ IsLink(at[q])
        BY <4>1, LinkNames DEF IsLink, LinkTo
      <4> QED
        BY <4>1, <4>2
    <3> QED
      BY <1>1, <3>1, <3>2 DEF HasDir, Counted
  <2> QED
    BY <2>1, <2>2
<1>5. RecordsPaired
  BY <1>1 DEF Paired, RecordsPaired
<1> QED
  BY <1>2, <1>3, <1>4, <1>5 DEF RecordsTrue

LEMMA AlwaysAgreed == LinkSpec => []Agreed
<1>1. LinkInit => Agreed
  BY AgreedFirst
<1>2. Agreed /\ [LinkNext]_linkVars => Agreed'
  <2>1. Agreed /\ LinkNext => Agreed'
    BY AgreedStep
  <2>2. Agreed /\ UNCHANGED linkVars => Agreed'
    <3> SUFFICES ASSUME Agreed, UNCHANGED linkVars PROVE Agreed'
      OBVIOUS
    <3>1. TheirPrefix /\ torn \in SUBSET Kegs /\ poured \in SUBSET Kegs /\ Sound(Disk, torn, poured)
      BY DEF Agreed, Known, InSync
    <3>2. SetDisk(Disk) /\ torn' = torn /\ poured' = poured
      BY DEF SetDisk, Disk, linkVars
    <3> DEFINE d == Disk
               K == torn
               P == poured
    <3>3. TheirPrefix /\ K \in SUBSET Kegs /\ P \in SUBSET Kegs /\ Sound(d, K, P) /\ SetDisk(d)
          /\ torn' = K /\ poured' = P
      BY <3>1, <3>2
    <3> HIDE DEF d, K, P
    <3> QED
      BY <3>3, SoundNext
  <2> QED
    BY <2>1, <2>2
<1> QED
  BY <1>1, <1>2, PTL DEF LinkSpec

\* After any sequence of commands, wherever calls failed, the records and the prefix
\* agree both ways: a keg recorded as linked, and not torn, has every file it ships in
\* the prefix, and every link and made directory is of a recorded or a torn keg.
\* (zapbrew-pour link.rs: link, apply_op, expand_dir, unlink; zapbrew-ops link.rs.)
THEOREM RecordsAgree == LinkSpec => []RecordsTrue
<1>1. Agreed => RecordsTrue
  BY AgreedMeans
<1> QED
  BY <1>1, AlwaysAgreed, PTL

\* Whatever is linked, unlinked, installed and removed, in whatever order, with
\* --overwrite or without, and wherever a call fails: what the user had in the
\* prefix is there or in Backup.  (zapbrew-pour link.rs: backup, apply_op, unlink.)
THEOREM UserFilesSafe == LinkSpec => []UserFilesKept
<1>1. Agreed => UserFilesKept
  BY AgreedMeans
<1> QED
  BY <1>1, AlwaysAgreed, PTL

-----------------------------------------------------------------------------
(* A `link' that refuses                                                   *)

\* What RefusalChangesNothing says of the step.
Refusing(status) == status \in {"conflict", "refused", "declined", "another"}
Harmless ==
    /\ UNCHANGED <<opt, linked, alias, backedUp>>
    /\ \A p \in Paths :
          /\ at[p] \in {File, Outside} /\ Name(p) # ".DS_Store" => at'[p] = at[p]
          /\ at'[p] # at[p] /\ Len(p) > 1 => OfLinked(p)
    /\ \A k \in poured : \A p \in Eligible(k) : Reachable(k, p) => Reachable(k, p)'

\* Disk e, where the kegs S that were on record have been linked again.
LEMMA BackAsBefore ==
    ASSUME Agreed, torn = {}, NEW e \in Disks, SetDisk(e), NEW S,
           OnlyMoved(Disk, e, S), Restored(e, S),
           \A j \in S \cap Kegs : linked[FormulaOfKeg(j)] = j
    PROVE  Harmless
<1> DEFINE d == Disk
<1>1. /\ d.at = at /\ d.backedUp = backedUp /\ d.opt = opt /\ d.linked = linked /\ d.alias = alias
  BY DEF Disk
<1>2. /\ at' = e.at /\ backedUp' = e.backedUp /\ opt' = e.opt /\ linked' = e.linked /\ alias' = e.alias
  BY DEF SetDisk
<1>3. Sound(d, torn, poured) /\ poured \in SUBSET Kegs /\ NoKegHere \notin Kegs
  BY LinkerAssumption DEF Agreed, Known, InSync
<1>4. Paired(d, {}) /\ d \in Disks
  BY <1>3 DEF Sound, FineDisk
<1>5. NodesKept(d, e, S) /\ RecordsKept(d, e, S)
  BY DEF OnlyMoved
<1>6. ASSUME NEW f \in Formulae PROVE linked'[f] = linked[f] /\ opt'[f] = opt[f]
  <2>1. CASE e.linked[f] = d.linked[f] /\ e.opt[f] = d.opt[f]
    BY <1>1, <1>2, <2>1
  <2>2. ASSUME NEW j \in S \cap Kegs, FormulaOfKeg(j) = f PROVE linked'[f] = linked[f] /\ opt'[f] = opt[f]
    <3>1. linked[f] = j /\ j # NoKegHere
      BY <1>3, <2>2
    <3>2. opt[f] = j
      BY <1>1, <1>4, <3>1 DEF Paired
    <3>3. e.linked[f] = j /\ e.opt[f] = j
      BY <2>2 DEF Restored
    <3> QED
      BY <1>2, <3>1, <3>2, <3>3
  <2> QED
    BY <1>5, <2>1, <2>2 DEF RecordsKept
<1>7. UNCHANGED <<opt, linked, alias, backedUp>>
  <2>1. UNCHANGED <<alias, backedUp>>
    BY <1>1, <1>2, <1>5 DEF RecordsKept, NodesKept
  <2>2. UNCHANGED linked
    <3>1. linked = [f \in Formulae |-> linked[f]] /\ linked' = [f \in Formulae |-> linked'[f]]
      BY <1>1, <1>2, <1>4 DEF Disks
    <3> QED
      BY <1>6, <3>1
  <2>3. UNCHANGED opt
    <3>1. opt = [f \in Formulae |-> opt[f]] /\ opt' = [f \in Formulae |-> opt'[f]]
      BY <1>1, <1>2, <1>4 DEF Disks
    <3> QED
      BY <1>6, <3>1
  <2> QED
    BY <2>1, <2>2, <2>3
<1>8. ASSUME NEW p \in Paths, OfKegs(S, p) PROVE OfLinked(p)
  <2>1. PICK j \in S \cap Kegs : \E a \in {p} \cup Above(p) : Len(a) > 1 /\ a \in DOMAIN Tree[j]
    BY <1>8 DEF OfKegs
  <2> DEFINE g == FormulaOfKeg(j)
  <2>2. g \in Formulae /\ linked[g] = j /\ linked[g] # NoKegHere
    BY <1>3, KegFormula
  <2> HIDE DEF g
  <2> QED
    BY <2>1, <2>2 DEF OfLinked
<1>9. ASSUME NEW p \in Paths
      PROVE  /\ at[p] \in {File, Outside} /\ Name(p) # ".DS_Store" => at'[p] = at[p]
             /\ at'[p] # at[p] /\ Len(p) > 1 => OfLinked(p)
  BY <1>1, <1>2, <1>5, <1>8 DEF NodesKept
<1>10. ASSUME NEW k \in poured, NEW p \in Eligible(k), Reachable(k, p) PROVE Reachable(k, p)'
  <2>1. FoundIn(d, k, p)
    BY <1>1, <1>10 DEF Reachable, FoundIn
  <2>2. FoundIn(e, k, p)
    <3>1. CASE k \in S
      BY <1>3, <3>1 DEF Restored, AllFound
    <3>2. CASE k \notin S
      BY <1>3, <1>5, <2>1, <3>2 DEF NodesKept
    <3> QED
      BY <3>1, <3>2
  <2> QED
    BY <1>2, <2>2 DEF Reachable, FoundIn
<1> QED
  BY <1>7, <1>9, <1>10 DEF Harmless

\* Nothing was written.
LEMMA AsBefore ==
    ASSUME SetDisk(Disk)
    PROVE  Harmless
<1>1. UNCHANGED <<at, opt, linked, alias, backedUp>>
  BY DEF SetDisk, Disk
<1>2. ASSUME NEW k \in poured, NEW p \in Eligible(k), Reachable(k, p) PROVE Reachable(k, p)'
  BY <1>1, <1>2 DEF Reachable
<1> QED
  BY <1>1, <1>2 DEF Harmless

LEMMA RefusalStep ==
    ASSUME Agreed, torn = {}, NEW f \in Formulae, NEW overwrite \in BOOLEAN, NEW force,
           LinkCommand(f, overwrite, force), Refusing(asked')
    PROVE  Harmless
<1> DEFINE answers == LinkOneAnswers(f, overwrite, force)
           ks == LinkedSiblings(f)
           S == FirstKegs(ks, Len(ks))
           T == {Selected(f)} \cup SiblingKegs(f)
           K == torn
<1>1. Poured(f) # {}
  BY DEF LinkCommand
<1>2. PICK a \in answers : EndCommand(TRUE, T, a)
  BY DEF LinkCommand
<1>3. SetDisk(a.disk) /\ Refusing(a.status)
  BY <1>2 DEF EndCommand
<1>4. TheirPrefix /\ poured \in SUBSET Kegs /\ K \in SUBSET Kegs /\ Sound(Disk, K, poured)
  BY DEF Agreed, Known, InSync
<1>5. AllEnded(answers, Disk, K, T, S)
  <2> HIDE DEF K
  <2> QED
    BY <1>1, <1>4, LinkOneSound
<1>6. Ended(a, K, T) /\ Undone(a, Disk, S)
  BY <1>5 DEF AllEnded
<1>7. a.status \notin {"torn", "stuck", "ok"}
  BY <1>3 DEF Refusing
<1>8. a.disk \in Disks
  BY <1>6, <1>7 DEF Ended, Sound, FineDisk
<1>9. CASE linked[f] # NoKegHere
  <2>1. a = Answer(Disk, "already") \/ a = Answer(Disk, "another")
    BY <1>9 DEF LinkOneAnswers
  <2>2. a.disk = Disk
    BY <2>1, AnswerParts
  <2> QED
    BY <1>3, <2>2, AsBefore
<1>10. CASE linked[f] = NoKegHere
  <2>1. Selected(f) \in poured /\ FormulaOfKeg(Selected(f)) = f
    BY <1>1, <1>4, SelectedIn
  <2>2. \A j \in S \cap Kegs : linked[FormulaOfKeg(j)] = j
    BY <1>4, <1>10, <2>1, SiblingList
  <2> HIDE DEF S
  <2> QED
    BY <1>3, <1>6, <1>7, <1>8, <2>2, AsBefore, BackAsBefore DEF Undone
<1> QED
  BY <1>9, <1>10

LEMMA NextHarmless ==
    ASSUME Agreed, LinkNext, Refusing(asked'), torn = {}
    PROVE  Harmless
<1>1. PICK f \in Formulae :
        \/ \E overwrite \in BOOLEAN, force \in {FALSE, (f \in KegOnly)} : LinkCommand(f, overwrite, force)
        \/ UnlinkCommand(f) \/ Uninstall(f) \/ \E k \in Kegs : Install(f, k)
  BY DEF LinkNext
<1>2. ASSUME UnlinkCommand(f) \/ Uninstall(f) \/ \E k \in Kegs : Install(f, k) PROVE asked' = "other"
  BY <1>2 DEF UnlinkCommand, Uninstall, Install, EndCommand
<1> QED
  BY <1>1, <1>2, RefusalStep DEF Refusing

\* A `link' that refuses - a conflict, a destination that is not a directory, a keg-only
\* formula, another keg linked - leaves both records, the aliases and Backup as they were,
\* and in the prefix what the user put there and what each keg has in reach; it has changed
\* something only where a linked keg ships something.  Claimed while no call has failed
\* for a keg.  (zapbrew-ops link.rs: link_one, unlink_siblings, restore_links.)
THEOREM RefusalsHarmless == LinkSpec => RefusalChangesNothing
<1>1. Agreed /\ [LinkNext]_linkVars => [Refusing(asked') /\ torn = {} => Harmless]_linkVars
  BY NextHarmless
<1>2. LinkSpec => [][Refusing(asked') /\ torn = {} => Harmless]_linkVars
  BY <1>1, AlwaysAgreed, PTL DEF LinkSpec
<1> QED
  BY <1>2 DEF RefusalChangesNothing, Refusing, Harmless
=============================================================================
