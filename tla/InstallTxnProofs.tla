-------------------------- MODULE InstallTxnProofs --------------------------
(***************************************************************************)
(* What holds of InstallTxn for any versions, destinations, skeleton,      *)
(* number of failing calls and number of runs: its types, that no          *)
(* installed keg is ever lost, that it implements RackUpdate, and that a   *)
(* commit is complete and a plain failure undone.                          *)
(***************************************************************************)
EXTENDS InstallTxn, TLAPS

\* The program counter, the result and the journal's commit mark agree.
ControlInv ==
    /\ (result = "running") = (pc \in ApplyLabels \cup UndoLabels)
    /\ (result = "committed") = (pc \in DropLabels)
    /\ result = "running" => ~journal.committed
    /\ result = "committed" => journal.committed

\* Kegs of other versions are never touched.
OthersInv == \A v \in Versions \ {New} : keg[v] = before.keg[v]

Untouched == {"rack", "stage", "unpack", "unlink", "unlinkFile", "prune", "aside"}
Promoted  == {"shell", "link", "linkFile", "linkRecord", "skeleton", "steps"}
Undoing   == {"undoSteps", "undoSkeleton", "undoLinkFile", "undoKeg"}
Undone    == {"relink", "relinkFile", "relinkRecord", "undoStage", "undoRack"}

\* Where the keg of the poured version is, by program counter.  The point is
\* Undoing: rollback removes final_keg only when journal.promoted is set, and
\* then what stood there before is in the backup.
NewKegInv ==
    /\ pc # "idle" => input.target = (before.keg[New] = "old")
    /\ pc \in Untouched =>
          /\ keg[New] = before.keg[New] /\ backup = "none"
          /\ ~journal.promoted /\ ~journal.backup
    /\ pc = "promote" =>
          /\ keg[New] = "none" /\ ~journal.promoted /\ journal.backup = input.target
          /\ backup = before.keg[New]
    /\ pc \in Promoted =>
          /\ keg[New] = "new" /\ journal.promoted /\ journal.backup = input.target
          /\ backup = before.keg[New]
    /\ pc \in DropLabels => keg[New] = "new"
    /\ pc \in Undoing =>
          \/ /\ keg[New] = before.keg[New] /\ backup = "none" /\ ~journal.promoted
          \/ /\ keg[New] \in {"none", "new"} /\ backup = before.keg[New]
             /\ (keg[New] = "new" => journal.promoted)
             /\ (backup = "old" => journal.backup)
    /\ pc = "undoBackup" =>
          \/ /\ keg[New] = before.keg[New] /\ backup = "none"
          \/ /\ keg[New] \in {"none", "new", "torn"} /\ backup = before.keg[New]
             /\ (keg[New] # "none" => leftovers # {})
             /\ (backup = "old" => journal.backup)
    /\ pc \in Undone =>
          \/ /\ keg[New] = before.keg[New] /\ backup = "none"
          \/ /\ keg[New] \in {"none", "new", "torn"} /\ backup = before.keg[New]
             /\ leftovers # {}

RackInv == TypeOK /\ ControlInv /\ OthersInv /\ NewKegInv /\ KegSurvives

-----------------------------------------------------------------------------
(* Types.                                                                  *)

\* Setting a field of the journal keeps its type.
LEMMA JournalMark ==
    ASSUME journal \in JournalType
    PROVE  /\ \A b \in BOOLEAN :
                 \A field \in DOMAIN EmptyJournal \ {"skeleton"} :
                     [journal EXCEPT ![field] = b] \in JournalType
           /\ \A S \in SUBSET Configs : [journal EXCEPT !["skeleton"] = S] \in JournalType
           /\ journal.skeleton \in SUBSET Configs
BY DEF JournalType, EmptyJournal

LEMMA JournalStart == EmptyJournal \in JournalType
BY DEF JournalType, EmptyJournal

LEMMA InputTyped ==
    ASSUME input \in InputType
    PROVE  input.old \in Records /\ input.target \in BOOLEAN /\ input.kegOnly \in BOOLEAN
BY DEF InputType

LEMMA SnapshotTyped ==
    ASSUME NEW k \in [Versions -> {"none", "old"}], NEW l \in [Files -> Owners],
           NEW o \in Records, NEW d \in Records,
           NEW c \in [Configs -> {"absent", "user"}], NEW r \in BOOLEAN
    PROVE  [keg |-> k, link |-> l, opt |-> o, linked |-> d, conf |-> c, rackDir |-> r]
              \in SnapshotType
BY DEF SnapshotType

LEMMA InitTyped == Init => TypeOK
<1> SUFFICES ASSUME Init PROVE TypeOK
  OBVIOUS
<1>1. /\ link \in [Files -> Owners] /\ opt \in Records /\ linked \in Records
      /\ keg \in [Versions -> {"none", "old"}]
  BY InstallAssumption DEF Init, Installed, Owners, Records
<1>2. input \in InputType
  BY DEF Init, InputType, Records
<1>3. before \in SnapshotType
  BY <1>1, SnapshotTyped DEF Init
<1>4. DiskTypes
  BY <1>1 DEF Init, DiskTypes, Content, Stages
<1>5. PrefixTypes
  BY <1>1 DEF Init, PrefixTypes
<1>6. ControlTypes
  BY <1>2, <1>3, JournalStart, InstallAssumption
  DEF Init, ControlTypes, Results, Labels
<1> QED
  BY <1>4, <1>5, <1>6 DEF TypeOK

\* The keg linked before exists wherever its name is used.
OldInv ==
    /\ pc \in {"unlink", "unlinkFile", "prune"} => input.old # NoVersion
    /\ pc \in {"relink", "relinkFile", "relinkRecord"} => journal.unlinked
    /\ journal.unlinked => input.old # NoVersion

LEMMA StepTyped == TypeOK /\ OldInv /\ [Next]_vars => TypeOK' /\ OldInv'
<1> SUFFICES ASSUME TypeOK, OldInv, [Next]_vars PROVE TypeOK' /\ OldInv'
  OBVIOUS
<1>0. DiskTypes /\ PrefixTypes /\ ControlTypes
  BY DEF TypeOK
<1>j. /\ \A b \in BOOLEAN :
            \A field \in {"created", "stage", "unlinked", "bare", "backup", "promoted",
                          "linkTried", "committed"} :
                Mark(field, b) => journal' \in JournalType
      /\ \A S \in SUBSET Configs : Mark("skeleton", S) => journal' \in JournalType
      /\ journal.skeleton \in SUBSET Configs /\ EmptyJournal \in JournalType
  BY <1>0, JournalMark, JournalStart DEF Mark, EmptyJournal, ControlTypes
<1>n. /\ input.old \in Records /\ input.target \in BOOLEAN /\ input.kegOnly \in BOOLEAN
      /\ input.old # NoVersion => input.old \in Versions
      /\ New \in Versions /\ New \in Records /\ NoVersion \in Records
  BY <1>0, InputTyped, InstallAssumption DEF Records, ControlTypes
<1>p. /\ "idle" \in Labels /\ "rack" \in Labels /\ "stage" \in Labels
      /\ "unpack" \in Labels /\ "unlink" \in Labels /\ "unlinkFile" \in Labels
      /\ "prune" \in Labels /\ "aside" \in Labels /\ "promote" \in Labels
      /\ "shell" \in Labels /\ "link" \in Labels /\ "linkFile" \in Labels
      /\ "linkRecord" \in Labels /\ "skeleton" \in Labels /\ "steps" \in Labels
      /\ "dropBackup" \in Labels /\ "dropScratch" \in Labels /\ "undoSteps" \in Labels
      /\ "undoSkeleton" \in Labels /\ "undoLinkFile" \in Labels /\ "undoKeg" \in Labels
      /\ "undoBackup" \in Labels /\ "relink" \in Labels /\ "relinkFile" \in Labels
      /\ "relinkRecord" \in Labels /\ "undoStage" \in Labels /\ "undoRack" \in Labels
  BY DEF Labels, ApplyLabels, DropLabels, UndoLabels
<1>q. Fault \/ NoFault => faults' \in 0 .. MaxFaults
  BY <1>0, InstallAssumption DEF Fault, NoFault, ControlTypes
<1>k. /\ \A k \in Content : [keg EXCEPT ![New] = k] \in [Versions -> Content]
      /\ \A c \in Configs, k \in {"absent", "user", "new"} :
            [conf EXCEPT ![c] = k] \in [Configs -> {"absent", "user", "new"}]
      /\ keg[New] \in Content
  BY <1>0, <1>n DEF DiskTypes
<1>l. \A f \in Files, o \in Versions \cup {"free", "other"} :
         [link EXCEPT ![f] = o] \in [Files -> Owners]
  BY <1>0 DEF PrefixTypes, Owners
<1>b. Begin => input' \in InputType /\ before' \in SnapshotType /\ runs' \in 0 .. MaxRuns
  <2> SUFFICES ASSUME Begin PROVE input' \in InputType /\ before' \in SnapshotType /\ runs' \in 0 .. MaxRuns
    OBVIOUS
  <2>1. (IF linked \in Installed THEN linked ELSE NoVersion) \in Records
    BY DEF Installed, Records
  <2>2. PICK kegOnly \in BOOLEAN, alone \in {TRUE, ~Neighbours} :
            input' = [old |-> IF linked \in Installed THEN linked ELSE NoVersion,
                      target |-> keg[New] # "none", kegOnly |-> kegOnly, alone |-> alone]
    BY DEF Begin
  <2>6. alone \in BOOLEAN /\ (keg[New] # "none") \in BOOLEAN
    BY InstallAssumption
  <2>7. input' \in InputType
    BY <2>1, <2>2, <2>6 DEF InputType
  <2>3. keg' \in [Versions -> {"none", "old"}] /\ conf' \in [Configs -> {"absent", "user"}]
    BY DEF Begin
  <2>4. before' \in SnapshotType
    BY <2>3, <1>0, SnapshotTyped DEF Begin, DiskTypes, PrefixTypes
  <2>5. runs' \in 0 .. MaxRuns
    BY <1>0, InstallAssumption DEF Begin, ControlTypes
  <2> QED  BY <2>7, <2>4, <2>5
<1>s. \A v \in Versions : Ships[v] \subseteq Files /\ Planned(v) \subseteq Files
  BY InstallAssumption DEF Planned
<1>1. CASE Begin
  <2>1. DiskTypes'
    BY <1>1, <1>0, <1>k DEF Begin, DiskTypes, diskVars, Content, Stages
  <2>2. PrefixTypes'
    BY <1>1, <1>0, <1>l, <1>n DEF Begin, PrefixTypes, prefixVars, loopVars
  <2>3. ControlTypes'
    BY <1>1, <1>0, <1>j, <1>p, <1>q, <1>b DEF Begin, ControlTypes, Goto, Fail, Results
  <2>4. OldInv'
    BY <1>1, <1>0, <1>n DEF Begin, OldInv, Goto, Fail, EmptyJournal
  <2>5. QED  BY <2>1, <2>2, <2>3, <2>4 DEF TypeOK
<1>2. CASE EnsureRack
  <2>1. DiskTypes'
    BY <1>2, <1>0, <1>k DEF EnsureRack, DiskTypes, diskVars
  <2>2. PrefixTypes'
    BY <1>2, <1>0, <1>l, <1>n DEF EnsureRack, PrefixTypes, prefixVars, loopVars
  <2>3. ControlTypes'
    BY <1>2, <1>0, <1>j, <1>p, <1>q DEF EnsureRack, ControlTypes, Goto, Fail
  <2>4. OldInv'
    BY <1>2, <1>0, <1>n DEF EnsureRack, OldInv, Goto, Fail, Mark, ControlTypes, JournalType
  <2>5. QED  BY <2>1, <2>2, <2>3, <2>4 DEF TypeOK
<1>3. CASE CreateStage
  <2>1. DiskTypes'
    BY <1>3, <1>0, <1>k DEF CreateStage, DiskTypes, diskVars, Stages
  <2>2. PrefixTypes'
    BY <1>3, <1>0, <1>l, <1>n DEF CreateStage, PrefixTypes, prefixVars, loopVars
  <2>3. ControlTypes'
    BY <1>3, <1>0, <1>j, <1>p, <1>q DEF CreateStage, ControlTypes, Goto, Fail
  <2>4. OldInv'
    BY <1>3, <1>0, <1>n DEF CreateStage, OldInv, Goto, Fail, Mark, ControlTypes, JournalType
  <2>5. QED  BY <2>1, <2>2, <2>3, <2>4 DEF TypeOK
<1>4. CASE Unpack
  <2>1. DiskTypes'
    BY <1>4, <1>0, <1>k DEF Unpack, DiskTypes, diskVars, Stages
  <2>2. PrefixTypes'
    BY <1>4, <1>0, <1>l, <1>n DEF Unpack, PrefixTypes, prefixVars, loopVars
  <2>3. ControlTypes'
    BY <1>4, <1>0, <1>j, <1>p, <1>q DEF Unpack, ControlTypes, Goto, Fail
  <2>4. OldInv'
    BY <1>4, <1>0, <1>n DEF Unpack, OldInv, Goto, Fail
  <2>5. QED  BY <2>1, <2>2, <2>3, <2>4 DEF TypeOK
<1>5. CASE UnlinkOld
  <2>1. DiskTypes'
    BY <1>5, <1>0, <1>k DEF UnlinkOld, DiskTypes, diskVars
  <2>2. PrefixTypes'
    BY <1>5, <1>0, <1>l, <1>n, <1>s, OldInv DEF UnlinkOld, PrefixTypes, prefixVars, loopVars, OldInv
  <2>3. ControlTypes'
    BY <1>5, <1>0, <1>j, <1>p, <1>q DEF UnlinkOld, ControlTypes, Goto, Fail
  <2>4. OldInv'
    BY <1>5, <1>0, <1>n DEF UnlinkOld, OldInv, Goto, Fail
  <2>5. QED  BY <2>1, <2>2, <2>3, <2>4 DEF TypeOK
<1>6. CASE UnlinkOldRecord
  <2>1. DiskTypes'
    BY <1>6, <1>0, <1>k DEF UnlinkOldRecord, DiskTypes, diskVars
  <2>2. PrefixTypes'
    BY <1>6, <1>0, <1>l, <1>n DEF UnlinkOldRecord, PrefixTypes, prefixVars, loopVars
  <2>3. ControlTypes'
    BY <1>6, <1>0, <1>j, <1>p, <1>q DEF UnlinkOldRecord, ControlTypes, Goto, Fail
  <2>4. OldInv'
    BY <1>6, <1>0, <1>n DEF UnlinkOldRecord, OldInv, Goto, Fail
  <2>5. QED  BY <2>1, <2>2, <2>3, <2>4 DEF TypeOK
<1>7. CASE Prune
  <2>1. DiskTypes'
    BY <1>7, <1>0, <1>k DEF Prune, DiskTypes, diskVars
  <2>2. PrefixTypes'
    BY <1>7, <1>0, <1>l, <1>n DEF Prune, PrefixTypes, prefixVars, loopVars
  <2>3. ControlTypes'
    BY <1>7, <1>0, <1>j, <1>p, <1>q DEF Prune, ControlTypes, Goto, Fail
  <2>4. OldInv'
    BY <1>7, <1>0, <1>n DEF Prune, OldInv, Goto, Fail, Mark, ControlTypes, JournalType
  <2>5. QED  BY <2>1, <2>2, <2>3, <2>4 DEF TypeOK
<1>8. CASE SetAside
  <2>1. DiskTypes'
    BY <1>8, <1>0, <1>k DEF SetAside, DiskTypes, diskVars, Content
  <2>2. PrefixTypes'
    BY <1>8, <1>0, <1>l, <1>n DEF SetAside, PrefixTypes, prefixVars, loopVars
  <2>3. ControlTypes'
    BY <1>8, <1>0, <1>j, <1>p, <1>q DEF SetAside, ControlTypes, Goto, Fail
  <2>4. OldInv'
    BY <1>8, <1>0, <1>n DEF SetAside, OldInv, Goto, Fail, Mark, ControlTypes, JournalType
  <2>5. QED  BY <2>1, <2>2, <2>3, <2>4 DEF TypeOK
<1>9. CASE Promote
  <2>1. DiskTypes'
    BY <1>9, <1>0, <1>k DEF Promote, DiskTypes, diskVars, Content, Stages
  <2>2. PrefixTypes'
    BY <1>9, <1>0, <1>l, <1>n DEF Promote, PrefixTypes, prefixVars, loopVars
  <2>3. ControlTypes'
    BY <1>9, <1>0, <1>j, <1>p, <1>q DEF Promote, ControlTypes, Goto, Fail
  <2>4. OldInv'
    BY <1>9, <1>0, <1>n DEF Promote, OldInv, Goto, Fail, Mark, ControlTypes, JournalType
  <2>5. QED  BY <2>1, <2>2, <2>3, <2>4 DEF TypeOK
<1>10. CASE RemoveShell
  <2>1. DiskTypes'
    BY <1>10, <1>0, <1>k DEF RemoveShell, DiskTypes, diskVars, Stages
  <2>2. PrefixTypes'
    BY <1>10, <1>0, <1>l, <1>n DEF RemoveShell, PrefixTypes, prefixVars, loopVars
  <2>3. ControlTypes'
    BY <1>10, <1>0, <1>j, <1>p, <1>q DEF RemoveShell, ControlTypes, Goto, Fail
  <2>4. OldInv'
    BY <1>10, <1>0, <1>n DEF RemoveShell, OldInv, Goto, Fail, Mark, ControlTypes, JournalType
  <2>5. QED  BY <2>1, <2>2, <2>3, <2>4 DEF TypeOK
<1>11. CASE LinkNew
  <2>1. DiskTypes'
    BY <1>11, <1>0, <1>k DEF LinkNew, DiskTypes, diskVars
  <2>2. PrefixTypes'
    BY <1>11, <1>0, <1>l, <1>n, <1>s DEF LinkNew, PrefixTypes, prefixVars, loopVars, Planned
  <2>3. ControlTypes'
    BY <1>11, <1>0, <1>j, <1>p, <1>q DEF LinkNew, ControlTypes, Goto, Fail
  <2>4. OldInv'
    BY <1>11, <1>0, <1>n DEF LinkNew, OldInv, Goto, Fail, Mark, ControlTypes, JournalType
  <2>5. QED  BY <2>1, <2>2, <2>3, <2>4 DEF TypeOK
<1>12. CASE LinkNewOpt
  <2>1. DiskTypes'
    BY <1>12, <1>0, <1>k DEF LinkNewOpt, DiskTypes, diskVars
  <2>2. PrefixTypes'
    BY <1>12, <1>0, <1>l, <1>n DEF LinkNewOpt, PrefixTypes, prefixVars, loopVars, RecordError
  <2>3. ControlTypes'
    BY <1>12, <1>0, <1>j, <1>p, <1>q DEF LinkNewOpt, ControlTypes, Goto, Fail, RecordError
  <2>4. OldInv'
    BY <1>12, <1>0, <1>n DEF LinkNewOpt, OldInv, Goto, Fail
  <2>5. QED  BY <2>1, <2>2, <2>3, <2>4 DEF TypeOK
<1>13. CASE LinkNewRecord
  <2>1. DiskTypes'
    BY <1>13, <1>0, <1>k DEF LinkNewRecord, DiskTypes, diskVars
  <2>2. PrefixTypes'
    BY <1>13, <1>0, <1>l, <1>n DEF LinkNewRecord, PrefixTypes, prefixVars, loopVars, RecordError
  <2>3. ControlTypes'
    BY <1>13, <1>0, <1>j, <1>p, <1>q DEF LinkNewRecord, ControlTypes, Goto, Fail, RecordError
  <2>4. OldInv'
    BY <1>13, <1>0, <1>n DEF LinkNewRecord, OldInv, Goto, Fail
  <2>5. QED  BY <2>1, <2>2, <2>3, <2>4 DEF TypeOK
<1>14. CASE SkeletonCopied
  <2>1. DiskTypes'
    BY <1>14, <1>0, <1>k DEF SkeletonCopied, DiskTypes, diskVars
  <2>2. PrefixTypes'
    BY <1>14, <1>0, <1>l, <1>n DEF SkeletonCopied, PrefixTypes, prefixVars, loopVars
  <2>3. ControlTypes'
    BY <1>14, <1>0, <1>j, <1>p, <1>q DEF SkeletonCopied, ControlTypes, Goto, Fail
  <2>4. OldInv'
    BY <1>14, <1>0, <1>n DEF SkeletonCopied, OldInv, Goto, Fail
  <2>5. QED  BY <2>1, <2>2, <2>3, <2>4 DEF TypeOK
<1>15. CASE RunSteps
  <2>1. DiskTypes'
    BY <1>15, <1>0, <1>k DEF RunSteps, DiskTypes, diskVars
  <2>2. PrefixTypes'
    BY <1>15, <1>0, <1>l, <1>n DEF RunSteps, PrefixTypes, prefixVars, loopVars
  <2>3. ControlTypes'
    BY <1>15, <1>0, <1>j, <1>p, <1>q DEF RunSteps, ControlTypes, Goto, Fail, Results
  <2>4. OldInv'
    BY <1>15, <1>0, <1>n DEF RunSteps, OldInv, Goto, Fail, Mark, ControlTypes, JournalType
  <2>5. QED  BY <2>1, <2>2, <2>3, <2>4 DEF TypeOK
<1>16. CASE DropBackup
  <2>1. DiskTypes'
    BY <1>16, <1>0, <1>k DEF DropBackup, DiskTypes, diskVars, Content
  <2>2. PrefixTypes'
    BY <1>16, <1>0, <1>l, <1>n DEF DropBackup, PrefixTypes, prefixVars, loopVars
  <2>3. ControlTypes'
    BY <1>16, <1>0, <1>j, <1>p, <1>q DEF DropBackup, ControlTypes, Goto, Fail
  <2>4. OldInv'
    BY <1>16, <1>0, <1>n DEF DropBackup, OldInv, Goto, Fail
  <2>5. QED  BY <2>1, <2>2, <2>3, <2>4 DEF TypeOK
<1>17. CASE DropScratch
  <2>1. DiskTypes'
    BY <1>17, <1>0, <1>k DEF DropScratch, DiskTypes, diskVars
  <2>2. PrefixTypes'
    BY <1>17, <1>0, <1>l, <1>n DEF DropScratch, PrefixTypes, prefixVars, loopVars
  <2>3. ControlTypes'
    BY <1>17, <1>0, <1>j, <1>p, <1>q DEF DropScratch, ControlTypes, Goto, Fail, Results
  <2>4. OldInv'
    BY <1>17, <1>0, <1>n DEF DropScratch, OldInv, Goto, Fail
  <2>5. QED  BY <2>1, <2>2, <2>3, <2>4 DEF TypeOK
<1>18. ASSUME NEW f \in Files, UnlinkOldFile(f) PROVE TypeOK' /\ OldInv'
  <2>1. DiskTypes'
    BY <1>18, <1>0, <1>k DEF UnlinkOldFile, DiskTypes, diskVars
  <2>2. PrefixTypes'
    <3>1. link' \in [Files -> Owners]
      <4>1. link' = link \/ link' = [link EXCEPT ![f] = "free"]
        BY <1>18 DEF UnlinkOldFile
      <4> QED  BY <4>1, <1>0, <1>l DEF PrefixTypes
    <3>2. todo' \subseteq Files
      BY <1>18, <1>0 DEF UnlinkOldFile, PrefixTypes
    <3>3. UNCHANGED <<opt, linked, clear>>
      BY <1>18 DEF UnlinkOldFile
    <3> QED  BY <1>0, <3>1, <3>2, <3>3 DEF PrefixTypes
  <2>3. ControlTypes'
    BY <1>18, <1>0, <1>j, <1>p, <1>q DEF UnlinkOldFile, ControlTypes, Goto, Fail
  <2>4. OldInv'
    BY <1>18, <1>0, <1>n DEF UnlinkOldFile, OldInv, Goto, Fail, Mark, ControlTypes, JournalType
  <2>5. QED  BY <2>1, <2>2, <2>3, <2>4 DEF TypeOK
<1>19. ASSUME NEW f \in Files, LinkNewFile(f) PROVE TypeOK' /\ OldInv'
  <2>1. DiskTypes'
    BY <1>19, <1>0, <1>k DEF LinkNewFile, DiskTypes, diskVars
  <2>2. PrefixTypes'
    BY <1>19, <1>0, <1>l, <1>n DEF LinkNewFile, PrefixTypes, prefixVars, loopVars, SymlinkOk, SymlinkError
  <2>3. ControlTypes'
    BY <1>19, <1>0, <1>j, <1>p, <1>q DEF LinkNewFile, ControlTypes, Goto, Fail, SymlinkError
  <2>4. OldInv'
    BY <1>19, <1>0, <1>n DEF LinkNewFile, OldInv, Goto, Fail
  <2>5. QED  BY <2>1, <2>2, <2>3, <2>4 DEF TypeOK
<1>20. ASSUME NEW c \in Configs, CopySkeleton(c) PROVE TypeOK' /\ OldInv'
  <2>1. DiskTypes'
    BY <1>20, <1>0, <1>k DEF CopySkeleton, DiskTypes, diskVars
  <2>2. PrefixTypes'
    BY <1>20, <1>0, <1>l, <1>n DEF CopySkeleton, PrefixTypes, prefixVars, loopVars
  <2>3. ControlTypes'
    BY <1>20, <1>0, <1>j, <1>p, <1>q DEF CopySkeleton, ControlTypes, Goto, Fail
  <2>4. OldInv'
    BY <1>20, <1>0, <1>n DEF CopySkeleton, OldInv, Goto, Fail, Mark, ControlTypes, JournalType
  <2>5. QED  BY <2>1, <2>2, <2>3, <2>4 DEF TypeOK
<1>21. CASE UndoSteps
  <2>1. DiskTypes'
    BY <1>21, <1>0, <1>k DEF UndoSteps, DiskTypes, diskVars
  <2>2. PrefixTypes'
    BY <1>21, <1>0, <1>l, <1>n DEF UndoSteps, PrefixTypes, prefixVars, loopVars
  <2>3. ControlTypes'
    BY <1>21, <1>0, <1>j, <1>p, <1>q DEF UndoSteps, ControlTypes, Goto, Fail
  <2>4. OldInv'
    BY <1>21, <1>0, <1>n DEF UndoSteps, OldInv, Goto, Fail
  <2>5. QED  BY <2>1, <2>2, <2>3, <2>4 DEF TypeOK
<1>22. CASE UndoLink
  <2>1. DiskTypes'
    BY <1>22, <1>0, <1>k DEF UndoLink, DiskTypes, diskVars
  <2>2. PrefixTypes'
    BY <1>22, <1>0, <1>l, <1>n, <1>s DEF UndoLink, PrefixTypes, prefixVars, loopVars
  <2>3. ControlTypes'
    BY <1>22, <1>0, <1>j, <1>p, <1>q DEF UndoLink, ControlTypes, Goto, Fail
  <2>4. OldInv'
    BY <1>22, <1>0, <1>n DEF UndoLink, OldInv, Goto, Fail
  <2>5. QED  BY <2>1, <2>2, <2>3, <2>4 DEF TypeOK
<1>23. CASE UndoLinkRecord
  <2>1. DiskTypes'
    BY <1>23, <1>0, <1>k DEF UndoLinkRecord, DiskTypes, diskVars
  <2>2. PrefixTypes'
    BY <1>23, <1>0, <1>l, <1>n DEF UndoLinkRecord, PrefixTypes, prefixVars, loopVars
  <2>3. ControlTypes'
    BY <1>23, <1>0, <1>j, <1>p, <1>q DEF UndoLinkRecord, ControlTypes, Goto, Fail
  <2>4. OldInv'
    BY <1>23, <1>0, <1>n DEF UndoLinkRecord, OldInv, Goto, Fail
  <2>5. QED  BY <2>1, <2>2, <2>3, <2>4 DEF TypeOK
<1>24. CASE UndoKeg
  <2>1. DiskTypes'
    BY <1>24, <1>0, <1>k DEF UndoKeg, DiskTypes, diskVars, Content
  <2>2. PrefixTypes'
    BY <1>24, <1>0, <1>l, <1>n DEF UndoKeg, PrefixTypes, prefixVars, loopVars
  <2>3. ControlTypes'
    BY <1>24, <1>0, <1>j, <1>p, <1>q DEF UndoKeg, ControlTypes, Goto, Fail
  <2>4. OldInv'
    BY <1>24, <1>0, <1>n DEF UndoKeg, OldInv, Goto, Fail
  <2>5. QED  BY <2>1, <2>2, <2>3, <2>4 DEF TypeOK
<1>25. CASE UndoBackup
  <2>1. DiskTypes'
    BY <1>25, <1>0, <1>k DEF UndoBackup, DiskTypes, diskVars, Content
  <2>2. PrefixTypes'
    BY <1>25, <1>0, <1>l, <1>n DEF UndoBackup, PrefixTypes, prefixVars, loopVars
  <2>3. ControlTypes'
    BY <1>25, <1>0, <1>j, <1>p, <1>q DEF UndoBackup, ControlTypes, Goto, Fail
  <2>4. OldInv'
    BY <1>25, <1>0, <1>n DEF UndoBackup, OldInv, Goto, Fail
  <2>5. QED  BY <2>1, <2>2, <2>3, <2>4 DEF TypeOK
<1>26. CASE Relink
  <2>1. DiskTypes'
    BY <1>26, <1>0, <1>k DEF Relink, DiskTypes, diskVars
  <2>2. PrefixTypes'
    BY <1>26, <1>0, <1>l, <1>n, <1>s, OldInv DEF Relink, PrefixTypes, prefixVars, loopVars, OldInv, RelinkError
  <2>3. ControlTypes'
    BY <1>26, <1>0, <1>j, <1>p, <1>q DEF Relink, ControlTypes, Goto, Fail, RelinkError
  <2>4. OldInv'
    BY <1>26, <1>0, <1>n DEF Relink, OldInv, Goto, Fail, RelinkError
  <2>5. QED  BY <2>1, <2>2, <2>3, <2>4 DEF TypeOK
<1>27. CASE RelinkOpt
  <2>1. DiskTypes'
    BY <1>27, <1>0, <1>k DEF RelinkOpt, DiskTypes, diskVars
  <2>2. PrefixTypes'
    BY <1>27, <1>0, <1>l, <1>n DEF RelinkOpt, PrefixTypes, prefixVars, loopVars, RecordError
  <2>3. ControlTypes'
    BY <1>27, <1>0, <1>j, <1>p, <1>q DEF RelinkOpt, ControlTypes, Goto, Fail, RecordError, RelinkError
  <2>4. OldInv'
    BY <1>27, <1>0, <1>n DEF RelinkOpt, OldInv, Goto, Fail, RelinkError
  <2>5. QED  BY <2>1, <2>2, <2>3, <2>4 DEF TypeOK
<1>28. CASE RelinkRecord
  <2>1. DiskTypes'
    BY <1>28, <1>0, <1>k DEF RelinkRecord, DiskTypes, diskVars
  <2>2. PrefixTypes'
    BY <1>28, <1>0, <1>l, <1>n DEF RelinkRecord, PrefixTypes, prefixVars, loopVars, RecordError
  <2>3. ControlTypes'
    BY <1>28, <1>0, <1>j, <1>p, <1>q DEF RelinkRecord, ControlTypes, Goto, Fail, RecordError, RelinkError
  <2>4. OldInv'
    BY <1>28, <1>0, <1>n DEF RelinkRecord, OldInv, Goto, Fail, RelinkError
  <2>5. QED  BY <2>1, <2>2, <2>3, <2>4 DEF TypeOK
<1>29. CASE UndoStage
  <2>1. DiskTypes'
    BY <1>29, <1>0, <1>k DEF UndoStage, DiskTypes, diskVars, Stages
  <2>2. PrefixTypes'
    BY <1>29, <1>0, <1>l, <1>n DEF UndoStage, PrefixTypes, prefixVars, loopVars
  <2>3. ControlTypes'
    BY <1>29, <1>0, <1>j, <1>p, <1>q DEF UndoStage, ControlTypes, Goto, Fail
  <2>4. OldInv'
    BY <1>29, <1>0, <1>n DEF UndoStage, OldInv, Goto, Fail
  <2>5. QED  BY <2>1, <2>2, <2>3, <2>4 DEF TypeOK
<1>30. CASE UndoRack
  <2>1. DiskTypes'
    BY <1>30, <1>0, <1>k DEF UndoRack, DiskTypes, diskVars
  <2>2. PrefixTypes'
    BY <1>30, <1>0, <1>l, <1>n DEF UndoRack, PrefixTypes, prefixVars, loopVars
  <2>3. ControlTypes'
    BY <1>30, <1>0, <1>j, <1>p, <1>q DEF UndoRack, ControlTypes, Goto, Fail, Results
  <2>4. OldInv'
    BY <1>30, <1>0, <1>n DEF UndoRack, OldInv, Goto, Fail
  <2>5. QED  BY <2>1, <2>2, <2>3, <2>4 DEF TypeOK
<1>31. ASSUME NEW f \in Files, UndoLinkFile(f) PROVE TypeOK' /\ OldInv'
  <2>1. DiskTypes'
    BY <1>31, <1>0, <1>k DEF UndoLinkFile, DiskTypes, diskVars
  <2>2. PrefixTypes'
    BY <1>31, <1>0, <1>l, <1>n DEF UndoLinkFile, PrefixTypes, prefixVars, loopVars
  <2>3. ControlTypes'
    BY <1>31, <1>0, <1>j, <1>p, <1>q DEF UndoLinkFile, ControlTypes, Goto, Fail
  <2>4. OldInv'
    BY <1>31, <1>0, <1>n DEF UndoLinkFile, OldInv, Goto, Fail
  <2>5. QED  BY <2>1, <2>2, <2>3, <2>4 DEF TypeOK
<1>32. ASSUME NEW f \in Files, RelinkFile(f) PROVE TypeOK' /\ OldInv'
  <2>1. DiskTypes'
    BY <1>32, <1>0, <1>k DEF RelinkFile, DiskTypes, diskVars
  <2>2. PrefixTypes'
    BY <1>32, <1>0, <1>l, <1>n, OldInv DEF RelinkFile, PrefixTypes, prefixVars, loopVars, OldInv, SymlinkOk, SymlinkError
  <2>3. ControlTypes'
    BY <1>32, <1>0, <1>j, <1>p, <1>q DEF RelinkFile, ControlTypes, Goto, Fail, SymlinkError, RelinkError
  <2>4. OldInv'
    BY <1>32, <1>0, <1>n DEF RelinkFile, OldInv, Goto, Fail, RelinkError
  <2>5. QED  BY <2>1, <2>2, <2>3, <2>4 DEF TypeOK
<1>33. ASSUME NEW c \in Configs, UndoSkeleton(c) PROVE TypeOK' /\ OldInv'
  <2>1. DiskTypes'
    BY <1>33, <1>0, <1>k DEF UndoSkeleton, DiskTypes, diskVars
  <2>2. PrefixTypes'
    BY <1>33, <1>0, <1>l, <1>n DEF UndoSkeleton, PrefixTypes, prefixVars, loopVars
  <2>3. ControlTypes'
    BY <1>33, <1>0, <1>j, <1>p, <1>q DEF UndoSkeleton, ControlTypes, Goto, Fail
  <2>4. OldInv'
    BY <1>33, <1>0, <1>n DEF UndoSkeleton, OldInv, Goto, Fail, Mark, ControlTypes, JournalType
  <2>5. QED  BY <2>1, <2>2, <2>3, <2>4 DEF TypeOK
<1>34. CASE Crash
  <2>1. DiskTypes'
    BY <1>34, <1>0, <1>k DEF Crash, DiskTypes, diskVars
  <2>2. PrefixTypes'
    BY <1>34, <1>0, <1>l, <1>n DEF Crash, PrefixTypes, prefixVars, loopVars
  <2>3. ControlTypes'
    BY <1>34, <1>0, <1>j, <1>p, <1>q DEF Crash, ControlTypes, Goto, Fail, Results
  <2>4. OldInv'
    BY <1>34, <1>0, <1>n DEF Crash, OldInv, Goto, Fail
  <2>5. QED  BY <2>1, <2>2, <2>3, <2>4 DEF TypeOK
<1>35. ASSUME NEW f \in Files, OtherFormula(f) PROVE TypeOK' /\ OldInv'
  <2>1. DiskTypes'
    BY <1>35, <1>0, <1>k DEF OtherFormula, DiskTypes, diskVars
  <2>2. PrefixTypes'
    BY <1>35, <1>0, <1>l, <1>n DEF OtherFormula, PrefixTypes, prefixVars, loopVars
  <2>3. ControlTypes'
    BY <1>35, <1>0, <1>j, <1>p, <1>q DEF OtherFormula, ControlTypes, Goto, Fail, ctlVars
  <2>4. OldInv'
    BY <1>35, <1>0, <1>n DEF OtherFormula, OldInv, Goto, Fail, ctlVars
  <2>5. QED  BY <2>1, <2>2, <2>3, <2>4 DEF TypeOK
<1>36. CASE UNCHANGED vars
  BY <1>36 DEF vars, TypeOK, DiskTypes, PrefixTypes, ControlTypes, OldInv
<1>37. QED
  BY <1>1, <1>2, <1>3, <1>4, <1>5, <1>6, <1>7, <1>8, <1>9, <1>10, <1>11, <1>12,
     <1>13, <1>14, <1>15, <1>16, <1>17, <1>18, <1>19, <1>20, <1>21, <1>22,
     <1>23, <1>24, <1>25, <1>26, <1>27, <1>28, <1>29, <1>30, <1>31, <1>32,
     <1>33, <1>34, <1>35, <1>36
  DEF Next, Apply, RollBack

\* Type correctness for every value of the constants.
THEOREM Typed == Spec => []TypeOK
<1>1. Init => TypeOK /\ OldInv
  BY InitTyped DEF Init, OldInv, EmptyJournal
<1> QED
  BY <1>1, StepTyped, PTL DEF Spec

-----------------------------------------------------------------------------
(* Kegs.                                                                   *)

LEMMA StepRack == RackInv /\ [Next]_vars => ControlInv' /\ OthersInv' /\ NewKegInv'
<1> SUFFICES ASSUME RackInv, [Next]_vars PROVE ControlInv' /\ OthersInv' /\ NewKegInv'
  OBVIOUS
<1>0. /\ keg \in [Versions -> Content] /\ backup \in Content /\ New \in Versions
      /\ before \in SnapshotType /\ journal \in JournalType
      /\ before.keg \in [Versions -> {"none", "old"}]
      /\ ControlInv /\ OthersInv /\ NewKegInv
  BY InstallAssumption DEF RackInv, TypeOK, DiskTypes, ControlTypes, SnapshotType
<1> USE DEF Goto, Fail, ApplyLabels, DropLabels, UndoLabels, Untouched, Promoted,
    Undoing, Undone
<1>1. CASE Begin
  <2>1. ControlInv'
    BY <1>1, <1>0 DEF Begin, ControlInv, EmptyJournal
  <2>2. OthersInv'
    BY <1>1, <1>0 DEF Begin, OthersInv, diskVars, DiskTypes, SnapshotType
  <2>3. NewKegInv'
    BY <1>1, <1>0 DEF Begin, NewKegInv, diskVars, EmptyJournal
  <2>4. QED  BY <2>1, <2>2, <2>3
<1>2. CASE EnsureRack
  <2>1. ControlInv'
    BY <1>2, <1>0 DEF EnsureRack, ControlInv, Mark, JournalType
  <2>2. OthersInv'
    BY <1>2, <1>0 DEF EnsureRack, OthersInv, diskVars
  <2>3. NewKegInv'
    BY <1>2, <1>0 DEF EnsureRack, NewKegInv, diskVars, Mark, JournalType
  <2>4. QED  BY <2>1, <2>2, <2>3
<1>3. CASE CreateStage
  <2>1. ControlInv'
    BY <1>3, <1>0 DEF CreateStage, ControlInv, Mark, JournalType
  <2>2. OthersInv'
    BY <1>3, <1>0 DEF CreateStage, OthersInv, diskVars
  <2>3. NewKegInv'
    BY <1>3, <1>0 DEF CreateStage, NewKegInv, diskVars, Mark, JournalType
  <2>4. QED  BY <2>1, <2>2, <2>3
<1>4. CASE Unpack
  <2>1. ControlInv'
    BY <1>4, <1>0 DEF Unpack, ControlInv
  <2>2. OthersInv'
    BY <1>4, <1>0 DEF Unpack, OthersInv, diskVars
  <2>3. NewKegInv'
    BY <1>4, <1>0 DEF Unpack, NewKegInv, diskVars
  <2>4. QED  BY <2>1, <2>2, <2>3
<1>5. CASE UnlinkOld
  <2>1. ControlInv'
    BY <1>5, <1>0 DEF UnlinkOld, ControlInv
  <2>2. OthersInv'
    BY <1>5, <1>0 DEF UnlinkOld, OthersInv, diskVars
  <2>3. NewKegInv'
    BY <1>5, <1>0 DEF UnlinkOld, NewKegInv, diskVars
  <2>4. QED  BY <2>1, <2>2, <2>3
<1>6. CASE UnlinkOldRecord
  <2>1. ControlInv'
    BY <1>6, <1>0 DEF UnlinkOldRecord, ControlInv
  <2>2. OthersInv'
    BY <1>6, <1>0 DEF UnlinkOldRecord, OthersInv, diskVars
  <2>3. NewKegInv'
    BY <1>6, <1>0 DEF UnlinkOldRecord, NewKegInv, diskVars
  <2>4. QED  BY <2>1, <2>2, <2>3
<1>7. CASE Prune
  <2>1. ControlInv'
    BY <1>7, <1>0 DEF Prune, ControlInv, Mark, JournalType
  <2>2. OthersInv'
    BY <1>7, <1>0 DEF Prune, OthersInv, diskVars
  <2>3. NewKegInv'
    BY <1>7, <1>0 DEF Prune, NewKegInv, diskVars, Mark, JournalType
  <2>4. QED  BY <2>1, <2>2, <2>3
<1>8. CASE SetAside
  <2>1. ControlInv'
    BY <1>8, <1>0 DEF SetAside, ControlInv, Mark, JournalType
  <2>2. OthersInv'
    BY <1>8, <1>0 DEF SetAside, OthersInv, diskVars
  <2>3. NewKegInv'
    <3>1. keg[New] = before.keg[New] /\ backup = "none" /\ ~journal.promoted /\ ~journal.backup
          /\ input.target = (before.keg[New] = "old") /\ before.keg[New] \in {"none", "old"}
      BY <1>8, <1>0 DEF SetAside, NewKegInv
    <3>2. /\ input' = input /\ before' = before /\ ~journal'.promoted
          /\ \/ /\ pc' = "promote" /\ ~input.target
                /\ keg' = keg /\ backup' = backup /\ journal' = journal
             \/ /\ pc' = "promote" /\ input.target
                /\ keg'[New] = "none" /\ backup' = keg[New] /\ journal'.backup
             \/ /\ pc' = "undoSteps" /\ keg' = keg /\ backup' = backup
      BY <1>8, <1>0, <3>1 DEF SetAside, Mark, JournalType
    <3>3. CASE pc' = "undoSteps"
      BY <3>1, <3>2, <3>3 DEF NewKegInv
    <3>4. CASE pc' = "promote" /\ ~input.target
      <4>1. before.keg[New] = "none" /\ keg' = keg /\ backup' = backup /\ journal' = journal
        BY <3>1, <3>2, <3>4
      <4>2. journal.backup = input.target
        BY <1>0, <3>1, <3>4 DEF JournalType
      <4> QED BY <3>1, <3>2, <3>4, <4>1, <4>2 DEF NewKegInv
    <3>5. CASE pc' = "promote" /\ input.target
      BY <1>0, <3>1, <3>2, <3>5 DEF NewKegInv
    <3> QED BY <3>2, <3>3, <3>4, <3>5
  <2>4. QED  BY <2>1, <2>2, <2>3
<1>9. CASE Promote
  <2>1. ControlInv'
    BY <1>9, <1>0 DEF Promote, ControlInv, Mark, JournalType
  <2>2. OthersInv'
    BY <1>9, <1>0 DEF Promote, OthersInv, diskVars
  <2>3. NewKegInv'
    BY <1>9, <1>0 DEF Promote, NewKegInv, diskVars, Mark, JournalType
  <2>4. QED  BY <2>1, <2>2, <2>3
<1>10. CASE RemoveShell
  <2>1. ControlInv'
    BY <1>10, <1>0 DEF RemoveShell, ControlInv, Mark, JournalType
  <2>2. OthersInv'
    BY <1>10, <1>0 DEF RemoveShell, OthersInv, diskVars
  <2>3. NewKegInv'
    BY <1>10, <1>0 DEF RemoveShell, NewKegInv, diskVars, Mark, JournalType
  <2>4. QED  BY <2>1, <2>2, <2>3
<1>11. CASE LinkNew
  <2>1. ControlInv'
    BY <1>11, <1>0 DEF LinkNew, ControlInv, Mark, JournalType
  <2>2. OthersInv'
    BY <1>11, <1>0 DEF LinkNew, OthersInv, diskVars
  <2>3. NewKegInv'
    BY <1>11, <1>0 DEF LinkNew, NewKegInv, diskVars, Mark, JournalType
  <2>4. QED  BY <2>1, <2>2, <2>3
<1>12. CASE LinkNewOpt
  <2>1. ControlInv'
    BY <1>12, <1>0 DEF LinkNewOpt, ControlInv
  <2>2. OthersInv'
    BY <1>12, <1>0 DEF LinkNewOpt, OthersInv, diskVars
  <2>3. NewKegInv'
    BY <1>12, <1>0 DEF LinkNewOpt, NewKegInv, diskVars
  <2>4. QED  BY <2>1, <2>2, <2>3
<1>13. CASE LinkNewRecord
  <2>1. ControlInv'
    BY <1>13, <1>0 DEF LinkNewRecord, ControlInv
  <2>2. OthersInv'
    BY <1>13, <1>0 DEF LinkNewRecord, OthersInv, diskVars
  <2>3. NewKegInv'
    BY <1>13, <1>0 DEF LinkNewRecord, NewKegInv, diskVars
  <2>4. QED  BY <2>1, <2>2, <2>3
<1>14. CASE SkeletonCopied
  <2>1. ControlInv'
    BY <1>14, <1>0 DEF SkeletonCopied, ControlInv
  <2>2. OthersInv'
    BY <1>14, <1>0 DEF SkeletonCopied, OthersInv, diskVars
  <2>3. NewKegInv'
    BY <1>14, <1>0 DEF SkeletonCopied, NewKegInv, diskVars
  <2>4. QED  BY <2>1, <2>2, <2>3
<1>15. CASE RunSteps
  <2>1. ControlInv'
    BY <1>15, <1>0 DEF RunSteps, ControlInv, Mark, JournalType
  <2>2. OthersInv'
    BY <1>15, <1>0 DEF RunSteps, OthersInv, diskVars
  <2>3. NewKegInv'
    BY <1>15, <1>0 DEF RunSteps, NewKegInv, diskVars, Mark, JournalType
  <2>4. QED  BY <2>1, <2>2, <2>3
<1>16. CASE DropBackup
  <2>1. ControlInv'
    BY <1>16, <1>0 DEF DropBackup, ControlInv
  <2>2. OthersInv'
    BY <1>16, <1>0 DEF DropBackup, OthersInv, diskVars
  <2>3. NewKegInv'
    BY <1>16, <1>0 DEF DropBackup, NewKegInv, diskVars
  <2>4. QED  BY <2>1, <2>2, <2>3
<1>17. CASE DropScratch
  <2>1. ControlInv'
    BY <1>17, <1>0 DEF DropScratch, ControlInv
  <2>2. OthersInv'
    BY <1>17, <1>0 DEF DropScratch, OthersInv, diskVars
  <2>3. NewKegInv'
    BY <1>17, <1>0 DEF DropScratch, NewKegInv, diskVars
  <2>4. QED  BY <2>1, <2>2, <2>3
<1>18. ASSUME NEW f \in Files, UnlinkOldFile(f) PROVE ControlInv' /\ OthersInv' /\ NewKegInv'
  <2>1. ControlInv'
    BY <1>18, <1>0 DEF UnlinkOldFile, ControlInv, Mark, JournalType
  <2>2. OthersInv'
    BY <1>18, <1>0 DEF UnlinkOldFile, OthersInv, diskVars
  <2>3. NewKegInv'
    BY <1>18, <1>0 DEF UnlinkOldFile, NewKegInv, diskVars, Mark, JournalType
  <2>4. QED  BY <2>1, <2>2, <2>3
<1>19. ASSUME NEW f \in Files, LinkNewFile(f) PROVE ControlInv' /\ OthersInv' /\ NewKegInv'
  <2>1. ControlInv'
    BY <1>19, <1>0 DEF LinkNewFile, ControlInv
  <2>2. OthersInv'
    BY <1>19, <1>0 DEF LinkNewFile, OthersInv, diskVars
  <2>3. NewKegInv'
    BY <1>19, <1>0 DEF LinkNewFile, NewKegInv, diskVars
  <2>4. QED  BY <2>1, <2>2, <2>3
<1>20. ASSUME NEW c \in Configs, CopySkeleton(c) PROVE ControlInv' /\ OthersInv' /\ NewKegInv'
  <2>1. ControlInv'
    BY <1>20, <1>0 DEF CopySkeleton, ControlInv, Mark, JournalType
  <2>2. OthersInv'
    BY <1>20, <1>0 DEF CopySkeleton, OthersInv, diskVars
  <2>3. NewKegInv'
    BY <1>20, <1>0 DEF CopySkeleton, NewKegInv, diskVars, Mark, JournalType
  <2>4. QED  BY <2>1, <2>2, <2>3
<1>21. CASE UndoSteps
  <2>1. ControlInv'
    BY <1>21, <1>0 DEF UndoSteps, ControlInv
  <2>2. OthersInv'
    BY <1>21, <1>0 DEF UndoSteps, OthersInv, diskVars
  <2>3. NewKegInv'
    BY <1>21, <1>0 DEF UndoSteps, NewKegInv, diskVars
  <2>4. QED  BY <2>1, <2>2, <2>3
<1>22. CASE UndoLink
  <2>1. ControlInv'
    BY <1>22, <1>0 DEF UndoLink, ControlInv
  <2>2. OthersInv'
    BY <1>22, <1>0 DEF UndoLink, OthersInv, diskVars
  <2>3. NewKegInv'
    BY <1>22, <1>0 DEF UndoLink, NewKegInv, diskVars
  <2>4. QED  BY <2>1, <2>2, <2>3
<1>23. CASE UndoLinkRecord
  <2>1. ControlInv'
    BY <1>23, <1>0 DEF UndoLinkRecord, ControlInv
  <2>2. OthersInv'
    BY <1>23, <1>0 DEF UndoLinkRecord, OthersInv, diskVars
  <2>3. NewKegInv'
    BY <1>23, <1>0 DEF UndoLinkRecord, NewKegInv, diskVars
  <2>4. QED  BY <2>1, <2>2, <2>3
<1>24. CASE UndoKeg
  <2>1. ControlInv'
    BY <1>24, <1>0 DEF UndoKeg, ControlInv
  <2>2. OthersInv'
    BY <1>24, <1>0 DEF UndoKeg, OthersInv, diskVars
  <2>3. NewKegInv'
    BY <1>24, <1>0 DEF UndoKeg, NewKegInv, diskVars, Report
  <2>4. QED  BY <2>1, <2>2, <2>3
<1>25. CASE UndoBackup
  <2>1. ControlInv'
    BY <1>25, <1>0 DEF UndoBackup, ControlInv
  <2>2. OthersInv'
    BY <1>25, <1>0 DEF UndoBackup, OthersInv, diskVars
  <2>3. NewKegInv'
    BY <1>25, <1>0 DEF UndoBackup, NewKegInv, diskVars, Report
  <2>4. QED  BY <2>1, <2>2, <2>3
<1>26. CASE Relink
  <2>1. ControlInv'
    BY <1>26, <1>0 DEF Relink, ControlInv, RelinkError
  <2>2. OthersInv'
    BY <1>26, <1>0 DEF Relink, OthersInv, diskVars
  <2>3. NewKegInv'
    BY <1>26, <1>0 DEF Relink, NewKegInv, diskVars, RelinkError, Report
  <2>4. QED  BY <2>1, <2>2, <2>3
<1>27. CASE RelinkOpt
  <2>1. ControlInv'
    BY <1>27, <1>0 DEF RelinkOpt, ControlInv, RelinkError
  <2>2. OthersInv'
    BY <1>27, <1>0 DEF RelinkOpt, OthersInv, diskVars
  <2>3. NewKegInv'
    BY <1>27, <1>0 DEF RelinkOpt, NewKegInv, diskVars, RelinkError, Report
  <2>4. QED  BY <2>1, <2>2, <2>3
<1>28. CASE RelinkRecord
  <2>1. ControlInv'
    BY <1>28, <1>0 DEF RelinkRecord, ControlInv, RelinkError
  <2>2. OthersInv'
    BY <1>28, <1>0 DEF RelinkRecord, OthersInv, diskVars
  <2>3. NewKegInv'
    BY <1>28, <1>0 DEF RelinkRecord, NewKegInv, diskVars, RelinkError, Report
  <2>4. QED  BY <2>1, <2>2, <2>3
<1>29. CASE UndoStage
  <2>1. ControlInv'
    BY <1>29, <1>0 DEF UndoStage, ControlInv
  <2>2. OthersInv'
    BY <1>29, <1>0 DEF UndoStage, OthersInv, diskVars
  <2>3. NewKegInv'
    BY <1>29, <1>0 DEF UndoStage, NewKegInv, diskVars, Report
  <2>4. QED  BY <2>1, <2>2, <2>3
<1>30. CASE UndoRack
  <2>1. ControlInv'
    BY <1>30, <1>0 DEF UndoRack, ControlInv
  <2>2. OthersInv'
    BY <1>30, <1>0 DEF UndoRack, OthersInv, diskVars
  <2>3. NewKegInv'
    BY <1>30, <1>0 DEF UndoRack, NewKegInv, diskVars, Report
  <2>4. QED  BY <2>1, <2>2, <2>3
<1>31. ASSUME NEW f \in Files, UndoLinkFile(f) PROVE ControlInv' /\ OthersInv' /\ NewKegInv'
  <2>1. ControlInv'
    BY <1>31, <1>0 DEF UndoLinkFile, ControlInv
  <2>2. OthersInv'
    BY <1>31, <1>0 DEF UndoLinkFile, OthersInv, diskVars
  <2>3. NewKegInv'
    BY <1>31, <1>0 DEF UndoLinkFile, NewKegInv, diskVars
  <2>4. QED  BY <2>1, <2>2, <2>3
<1>32. ASSUME NEW f \in Files, RelinkFile(f) PROVE ControlInv' /\ OthersInv' /\ NewKegInv'
  <2>1. ControlInv'
    BY <1>32, <1>0 DEF RelinkFile, ControlInv, RelinkError
  <2>2. OthersInv'
    BY <1>32, <1>0 DEF RelinkFile, OthersInv, diskVars
  <2>3. NewKegInv'
    BY <1>32, <1>0 DEF RelinkFile, NewKegInv, diskVars, RelinkError, Report
  <2>4. QED  BY <2>1, <2>2, <2>3
<1>33. ASSUME NEW c \in Configs, UndoSkeleton(c) PROVE ControlInv' /\ OthersInv' /\ NewKegInv'
  <2>1. ControlInv'
    BY <1>33, <1>0 DEF UndoSkeleton, ControlInv, Mark, JournalType
  <2>2. OthersInv'
    BY <1>33, <1>0 DEF UndoSkeleton, OthersInv, diskVars
  <2>3. NewKegInv'
    BY <1>33, <1>0 DEF UndoSkeleton, NewKegInv, diskVars, Mark, JournalType
  <2>4. QED  BY <2>1, <2>2, <2>3
<1>34. CASE Crash
  <2>1. ControlInv'
    BY <1>34, <1>0 DEF Crash, ControlInv
  <2>2. OthersInv'
    BY <1>34, <1>0 DEF Crash, OthersInv, diskVars
  <2>3. NewKegInv'
    BY <1>34, <1>0 DEF Crash, NewKegInv, diskVars
  <2>4. QED  BY <2>1, <2>2, <2>3
<1>35. ASSUME NEW f \in Files, OtherFormula(f) PROVE ControlInv' /\ OthersInv' /\ NewKegInv'
  <2>1. ControlInv'
    BY <1>35, <1>0 DEF OtherFormula, ControlInv, ctlVars
  <2>2. OthersInv'
    BY <1>35, <1>0 DEF OtherFormula, OthersInv, diskVars
  <2>3. NewKegInv'
    BY <1>35, <1>0 DEF OtherFormula, NewKegInv, diskVars, ctlVars
  <2>4. QED  BY <2>1, <2>2, <2>3
<1>36. CASE UNCHANGED vars
  BY <1>36, <1>0 DEF vars, ControlInv, OthersInv, NewKegInv
<1>37. QED
  BY <1>1, <1>2, <1>3, <1>4, <1>5, <1>6, <1>7, <1>8, <1>9, <1>10, <1>11, <1>12,
     <1>13, <1>14, <1>15, <1>16, <1>17, <1>18, <1>19, <1>20, <1>21, <1>22,
     <1>23, <1>24, <1>25, <1>26, <1>27, <1>28, <1>29, <1>30, <1>31, <1>32,
     <1>33, <1>34, <1>35, <1>36
  DEF Next, Apply, RollBack

\* While a transaction runs, where the kegs are settles that none is lost ...
LEMMA KegsPlaced ==
    TypeOK /\ ControlInv /\ OthersInv /\ NewKegInv /\ pc # "idle" => KegSurvives
<1> SUFFICES ASSUME TypeOK, ControlInv, OthersInv, NewKegInv, pc # "idle",
                    NEW v \in Versions, before.keg[v] = "old"
             PROVE  \/ keg[v] = "old"
                    \/ v = New /\ backup = "old"
                    \/ v = New /\ journal.committed /\ keg[v] = "new"
  BY DEF KegSurvives
<1>1. CASE v # New
  BY <1>1 DEF OthersInv
<1>2. CASE v = New
  <2>1. pc \in Labels
    BY DEF TypeOK, ControlTypes
  <2>2. pc \in DropLabels => result = "committed"
    BY DEF ControlInv
  <2> QED
    BY <1>2, <2>1, <2>2
    DEF NewKegInv, ControlInv, Labels, ApplyLabels, DropLabels, UndoLabels, Untouched,
        Promoted, Undoing, Undone
<1> QED  BY <1>1, <1>2

\* ... and its last step, or a kill, changes no keg.
LEMMA LastStep ==
    [Next]_vars /\ pc' = "idle" => UNCHANGED <<keg, backup, before, journal>>
<1> SUFFICES ASSUME [Next]_vars, pc' = "idle"
             PROVE  UNCHANGED <<keg, backup, before, journal>>
  OBVIOUS
<1> USE DEF Goto, Fail, RelinkError, diskVars, ctlVars
<1>1. CASE Begin
  BY <1>1 DEF Begin
<1>2. CASE EnsureRack
  BY <1>2 DEF EnsureRack
<1>3. CASE CreateStage
  BY <1>3 DEF CreateStage
<1>4. CASE Unpack
  BY <1>4 DEF Unpack
<1>5. CASE UnlinkOld
  BY <1>5 DEF UnlinkOld
<1>6. CASE UnlinkOldRecord
  BY <1>6 DEF UnlinkOldRecord
<1>7. CASE Prune
  BY <1>7 DEF Prune
<1>8. CASE SetAside
  BY <1>8 DEF SetAside
<1>9. CASE Promote
  BY <1>9 DEF Promote
<1>10. CASE RemoveShell
  BY <1>10 DEF RemoveShell
<1>11. CASE LinkNew
  BY <1>11 DEF LinkNew
<1>12. CASE LinkNewOpt
  BY <1>12 DEF LinkNewOpt
<1>13. CASE LinkNewRecord
  BY <1>13 DEF LinkNewRecord
<1>14. CASE SkeletonCopied
  BY <1>14 DEF SkeletonCopied
<1>15. CASE RunSteps
  BY <1>15 DEF RunSteps
<1>16. CASE DropBackup
  BY <1>16 DEF DropBackup
<1>17. CASE DropScratch
  BY <1>17 DEF DropScratch
<1>18. ASSUME NEW f \in Files, UnlinkOldFile(f) PROVE UNCHANGED <<keg, backup, before, journal>>
  BY <1>18 DEF UnlinkOldFile
<1>19. ASSUME NEW f \in Files, LinkNewFile(f) PROVE UNCHANGED <<keg, backup, before, journal>>
  BY <1>19 DEF LinkNewFile
<1>20. ASSUME NEW c \in Configs, CopySkeleton(c) PROVE UNCHANGED <<keg, backup, before, journal>>
  BY <1>20 DEF CopySkeleton
<1>21. CASE UndoSteps
  BY <1>21 DEF UndoSteps
<1>22. CASE UndoLink
  BY <1>22 DEF UndoLink
<1>23. CASE UndoLinkRecord
  BY <1>23 DEF UndoLinkRecord
<1>24. CASE UndoKeg
  BY <1>24 DEF UndoKeg
<1>25. CASE UndoBackup
  BY <1>25 DEF UndoBackup
<1>26. CASE Relink
  BY <1>26 DEF Relink
<1>27. CASE RelinkOpt
  BY <1>27 DEF RelinkOpt
<1>28. CASE RelinkRecord
  BY <1>28 DEF RelinkRecord
<1>29. CASE UndoStage
  BY <1>29 DEF UndoStage
<1>30. CASE UndoRack
  BY <1>30 DEF UndoRack
<1>31. ASSUME NEW f \in Files, UndoLinkFile(f) PROVE UNCHANGED <<keg, backup, before, journal>>
  BY <1>31 DEF UndoLinkFile
<1>32. ASSUME NEW f \in Files, RelinkFile(f) PROVE UNCHANGED <<keg, backup, before, journal>>
  BY <1>32 DEF RelinkFile
<1>33. ASSUME NEW c \in Configs, UndoSkeleton(c) PROVE UNCHANGED <<keg, backup, before, journal>>
  BY <1>33 DEF UndoSkeleton
<1>34. CASE Crash
  BY <1>34 DEF Crash
<1>35. ASSUME NEW f \in Files, OtherFormula(f) PROVE UNCHANGED <<keg, backup, before, journal>>
  BY <1>35 DEF OtherFormula
<1>36. CASE UNCHANGED vars
  BY <1>36 DEF vars
<1>37. QED
  BY <1>1, <1>2, <1>3, <1>4, <1>5, <1>6, <1>7, <1>8, <1>9, <1>10, <1>11, <1>12,
     <1>13, <1>14, <1>15, <1>16, <1>17, <1>18, <1>19, <1>20, <1>21, <1>22,
     <1>23, <1>24, <1>25, <1>26, <1>27, <1>28, <1>29, <1>30, <1>31, <1>32,
     <1>33, <1>34, <1>35, <1>36
  DEF Next, Apply, RollBack

LEMMA RackStart == Init => RackInv
<1> SUFFICES ASSUME Init PROVE ControlInv /\ OthersInv /\ NewKegInv /\ KegSurvives
  BY InitTyped DEF RackInv
<1> QED
  BY DEF Init, ControlInv, OthersInv, NewKegInv, KegSurvives, EmptyJournal, ApplyLabels,
     DropLabels, UndoLabels, Untouched, Promoted, Undoing, Undone

LEMMA RackStep == RackInv /\ OldInv /\ [Next]_vars => RackInv'
<1> SUFFICES ASSUME RackInv, OldInv, [Next]_vars PROVE RackInv'
  OBVIOUS
<1>1. TypeOK'
  BY StepTyped DEF RackInv
<1>2. ControlInv' /\ OthersInv' /\ NewKegInv'
  BY StepRack
<1>3. KegSurvives'
  <2>1. CASE pc' # "idle"
    <3>1. (TypeOK /\ ControlInv /\ OthersInv /\ NewKegInv /\ pc # "idle" => KegSurvives)'
      BY KegsPlaced, PTL
    <3> QED  BY <1>1, <1>2, <2>1, <3>1
  <2>2. CASE pc' = "idle"
    BY <2>2, LastStep DEF RackInv, KegSurvives
  <2> QED  BY <2>1, <2>2
<1> QED  BY <1>1, <1>2, <1>3 DEF RackInv

LEMMA RackAlways == Spec => [](RackInv /\ OldInv)
<1>1. Init => OldInv
  BY DEF Init, OldInv, EmptyJournal
<1>2. RackInv => TypeOK
  BY DEF RackInv
<1> QED
  BY <1>1, <1>2, RackStart, RackStep, StepTyped, PTL DEF Spec

\* At every instant, however many calls failed and wherever the process was
\* killed, each keg that was installed is in place or whole in the backup, or
\* replaced by a committed one.
THEOREM KegSafe == Spec => []KegSurvives
<1>1. RackInv => KegSurvives
  BY DEF RackInv
<1> QED
  BY <1>1, RackAlways, PTL

-----------------------------------------------------------------------------
(* Refinement.                                                             *)

\* Before the commit the logical rack is the rack the transaction found.
LEMMA LogicalWhileRunning == RackInv /\ result = "running" => LogicalRack = before.keg
<1> SUFFICES ASSUME RackInv, result = "running" PROVE LogicalRack = before.keg
  OBVIOUS
<1>1. /\ keg \in [Versions -> Content] /\ New \in Versions
      /\ before.keg \in [Versions -> {"none", "old"}]
      /\ ControlInv /\ OthersInv /\ NewKegInv
  BY InstallAssumption DEF RackInv, TypeOK, DiskTypes, ControlTypes, SnapshotType
<1>2. before.keg[New] = (IF backup = "old" \/ keg[New] = "old" THEN "old" ELSE "none")
  BY <1>1 DEF ControlInv, NewKegInv, ApplyLabels, UndoLabels, Untouched, Promoted,
     Undoing, Undone
<1>3. LogicalRack =
        [keg EXCEPT ![New] = IF backup = "old" \/ keg[New] = "old" THEN "old" ELSE "none"]
  BY DEF LogicalRack
<1> QED  BY <1>1, <1>2, <1>3 DEF OthersInv

\* A step that is not one of the transaction's ends changes nothing the abstract
\* rack shows.
LEMMA QuietStep ==
    ASSUME RackInv, RackInv', UNCHANGED <<result, before>>,
           result # "running" => UNCHANGED keg
    PROVE  UNCHANGED <<LogicalRack, result>>
<1>1. (RackInv /\ result = "running" => LogicalRack = before.keg)'
  BY LogicalWhileRunning, PTL
<1>2. CASE result = "running"
  BY <1>1, <1>2, LogicalWhileRunning
<1>3. CASE result # "running"
  BY <1>3 DEF LogicalRack
<1> QED  BY <1>2, <1>3

LEMMA RefinesStart == Init => Abstract!RackInit
<1> SUFFICES ASSUME Init PROVE Abstract!RackInit
  OBVIOUS
<1> QED  BY DEF Init, Abstract!RackInit, LogicalRack

LEMMA RefinesStep ==
    RackInv /\ RackInv' /\ [Next]_vars => [Abstract!RackNext]_(Abstract!rackVars)
<1> SUFFICES ASSUME RackInv, RackInv', [Next]_vars
             PROVE  [Abstract!RackNext]_(Abstract!rackVars)
  OBVIOUS
<1>0. /\ keg \in [Versions -> Content] /\ New \in Versions
      /\ before.keg \in [Versions -> {"none", "old"}]
      /\ ControlInv /\ OthersInv /\ NewKegInv
  BY InstallAssumption DEF RackInv, TypeOK, DiskTypes, ControlTypes, SnapshotType
<1>r. /\ result = "running" => LogicalRack = before.keg
      /\ result' = "running" => LogicalRack' = before'.keg
      /\ result # "running" => LogicalRack = keg
      /\ result' # "running" => LogicalRack' = keg'
  <2>1. (RackInv /\ result = "running" => LogicalRack = before.keg)'
    BY LogicalWhileRunning, PTL
  <2> QED  BY <2>1, LogicalWhileRunning DEF LogicalRack
<1>q. UNCHANGED <<result, before>> /\ (result # "running" => UNCHANGED keg)
         => [Abstract!RackNext]_(Abstract!rackVars)
  BY QuietStep DEF Abstract!rackVars
<1> USE DEF Goto, Fail, diskVars, ctlVars, RelinkError
<1>1. CASE Begin
  <2>1. result \notin {"running", "committed"}
    BY <1>1, <1>0 DEF Begin, ControlInv, ApplyLabels, UndoLabels, DropLabels
  <2>2. LogicalRack' = [v \in Versions |-> IF LogicalRack[v] = "none" THEN "none" ELSE "old"]
    BY <1>1, <1>r, <2>1 DEF Begin
  <2> QED  BY <1>1, <2>1, <2>2 DEF Begin, Abstract!Start, Abstract!RackNext
<1>2. CASE EnsureRack
  BY <1>2, <1>0, <1>q DEF EnsureRack
<1>3. CASE CreateStage
  BY <1>3, <1>0, <1>q DEF CreateStage
<1>4. CASE Unpack
  BY <1>4, <1>0, <1>q DEF Unpack
<1>5. CASE UnlinkOld
  BY <1>5, <1>0, <1>q DEF UnlinkOld
<1>6. CASE UnlinkOldRecord
  BY <1>6, <1>0, <1>q DEF UnlinkOldRecord
<1>7. CASE Prune
  BY <1>7, <1>0, <1>q DEF Prune
<1>8. CASE SetAside
  BY <1>8, <1>0, <1>q DEF SetAside, ControlInv, ApplyLabels, UndoLabels
<1>9. CASE Promote
  BY <1>9, <1>0, <1>q DEF Promote, ControlInv, ApplyLabels, UndoLabels
<1>10. CASE RemoveShell
  BY <1>10, <1>0, <1>q DEF RemoveShell
<1>11. CASE LinkNew
  BY <1>11, <1>0, <1>q DEF LinkNew
<1>12. CASE LinkNewOpt
  BY <1>12, <1>0, <1>q DEF LinkNewOpt
<1>13. CASE LinkNewRecord
  BY <1>13, <1>0, <1>q DEF LinkNewRecord
<1>14. CASE SkeletonCopied
  BY <1>14, <1>0, <1>q DEF SkeletonCopied
<1>15. CASE RunSteps
  <2>1. result = "running" /\ keg[New] = "new" /\ UNCHANGED <<keg, before>>
    BY <1>15, <1>0 DEF RunSteps, ControlInv, NewKegInv, ApplyLabels, Promoted
  <2>2. CASE UNCHANGED result
    BY <2>1, <2>2, <1>q
  <2>3. CASE result' = "committed"
    <3>1. LogicalRack' = [LogicalRack EXCEPT ![New] = "new"]
      BY <1>0, <1>r, <2>1, <2>3 DEF OthersInv
    <3> QED  BY <2>1, <2>3, <3>1 DEF Abstract!Commit, Abstract!RackNext
  <2> QED  BY <1>15, <2>2, <2>3 DEF RunSteps
<1>16. CASE DropBackup
  BY <1>16, <1>0, <1>q DEF DropBackup
<1>17. CASE DropScratch
  <2>1. result = "committed" /\ result' \in {"ok", "cleanup"} /\ UNCHANGED keg
    BY <1>17, <1>0 DEF DropScratch, ControlInv, DropLabels
  <2> QED  BY <1>r, <2>1 DEF Abstract!Finish, Abstract!RackNext
<1>18. ASSUME NEW f \in Files, UnlinkOldFile(f)
      PROVE  [Abstract!RackNext]_(Abstract!rackVars)
  BY <1>18, <1>0, <1>q DEF UnlinkOldFile
<1>19. ASSUME NEW f \in Files, LinkNewFile(f)
      PROVE  [Abstract!RackNext]_(Abstract!rackVars)
  BY <1>19, <1>0, <1>q DEF LinkNewFile
<1>20. ASSUME NEW c \in Configs, CopySkeleton(c)
      PROVE  [Abstract!RackNext]_(Abstract!rackVars)
  BY <1>20, <1>0, <1>q DEF CopySkeleton
<1>21. CASE UndoSteps
  BY <1>21, <1>0, <1>q DEF UndoSteps
<1>22. CASE UndoLink
  BY <1>22, <1>0, <1>q DEF UndoLink
<1>23. CASE UndoLinkRecord
  BY <1>23, <1>0, <1>q DEF UndoLinkRecord
<1>24. CASE UndoKeg
  BY <1>24, <1>0, <1>q DEF UndoKeg, ControlInv, ApplyLabels, UndoLabels
<1>25. CASE UndoBackup
  BY <1>25, <1>0, <1>q DEF UndoBackup, ControlInv, ApplyLabels, UndoLabels
<1>26. CASE Relink
  BY <1>26, <1>0, <1>q DEF Relink
<1>27. CASE RelinkOpt
  BY <1>27, <1>0, <1>q DEF RelinkOpt
<1>28. CASE RelinkRecord
  BY <1>28, <1>0, <1>q DEF RelinkRecord
<1>29. CASE UndoStage
  BY <1>29, <1>0, <1>q DEF UndoStage
<1>30. CASE UndoRack
  <2>1. result = "running" /\ UNCHANGED keg
    BY <1>30, <1>0 DEF UndoRack, ControlInv, UndoLabels
  <2>2. keg = [LogicalRack EXCEPT ![New] = keg[New]] /\ keg[New] \in Content
    BY <1>0, <1>r, <2>1 DEF OthersInv
  <2>3. CASE result' = "incomplete"
    BY <1>r, <2>1, <2>2, <2>3
    DEF Abstract!GiveUp, Abstract!RackNext, Abstract!Content, Content
  <2>4. CASE result' = "failed"
    <3>1. leftovers' = {}
      BY <1>30, <2>4 DEF UndoRack
    <3>2. leftovers = {}
      BY <1>30, <3>1 DEF UndoRack, Report
    <3>3. keg[New] = before.keg[New]
      BY <1>30, <1>0, <3>2 DEF UndoRack, NewKegInv, Undone
    <3>4. keg = LogicalRack
      BY <1>0, <1>r, <2>1, <3>3 DEF OthersInv
    <3> QED  BY <1>r, <2>1, <2>4, <3>4 DEF Abstract!Abort, Abstract!RackNext
  <2> QED  BY <1>30, <2>3, <2>4 DEF UndoRack
<1>31. ASSUME NEW f \in Files, UndoLinkFile(f)
      PROVE  [Abstract!RackNext]_(Abstract!rackVars)
  BY <1>31, <1>0, <1>q DEF UndoLinkFile
<1>32. ASSUME NEW f \in Files, RelinkFile(f)
      PROVE  [Abstract!RackNext]_(Abstract!rackVars)
  BY <1>32, <1>0, <1>q DEF RelinkFile
<1>33. ASSUME NEW c \in Configs, UndoSkeleton(c)
      PROVE  [Abstract!RackNext]_(Abstract!rackVars)
  BY <1>33, <1>0, <1>q DEF UndoSkeleton
<1>34. CASE Crash
  <2>1. result \in {"running", "committed"}
    <3>1. pc \in Labels
      BY DEF RackInv, TypeOK, ControlTypes
    <3> QED
      BY <1>34, <1>0, <3>1 DEF Crash, ControlInv, Labels
  <2>2. result' = "crashed" /\ UNCHANGED keg
    BY <1>34 DEF Crash
  <2>3. CASE result = "committed"
    BY <1>r, <2>2, <2>3 DEF Abstract!CrashLate, Abstract!RackNext
  <2>4. CASE result = "running"
    <3>1. keg = [LogicalRack EXCEPT ![New] = keg[New]] /\ keg[New] \in Content
      BY <1>0, <1>r, <2>4 DEF OthersInv
    <3> QED
      BY <1>r, <2>2, <2>4, <3>1
      DEF Abstract!GiveUp, Abstract!RackNext, Abstract!Content, Content
  <2> QED  BY <2>1, <2>3, <2>4
<1>35. ASSUME NEW f \in Files, OtherFormula(f)
      PROVE  [Abstract!RackNext]_(Abstract!rackVars)
  BY <1>35, <1>0, <1>q DEF OtherFormula
<1>36. CASE UNCHANGED vars
  BY <1>36, <1>q DEF vars
<1>37. QED
  BY <1>1, <1>2, <1>3, <1>4, <1>5, <1>6, <1>7, <1>8, <1>9, <1>10, <1>11, <1>12,
     <1>13, <1>14, <1>15, <1>16, <1>17, <1>18, <1>19, <1>20, <1>21, <1>22,
     <1>23, <1>24, <1>25, <1>26, <1>27, <1>28, <1>29, <1>30, <1>31, <1>32,
     <1>33, <1>34, <1>35, <1>36
  DEF Next, Apply, RollBack

\* The transaction is atomic on the rack whatever fails and wherever it is killed.
THEOREM Atomic == Spec => AtomicOnRack
<1> QED
  BY RackAlways, RefinesStart, RefinesStep, PTL DEF Spec, AtomicOnRack, Abstract!RackSpec

-----------------------------------------------------------------------------
(* Outcomes.  What a transaction commits is complete, and what it fails    *)
(* without leftovers it has undone.                                        *)

\* The labels around the links of the new keg: while they are made, while they may
\* still be there in rollback, and after they are gone.
Linking == {"linkFile", "linkRecord", "skeleton", "steps"}
Installing == {"link"} \cup Linking
Unfreed == {"undoSteps", "undoSkeleton", "undoLinkFile"}
Freed == {"undoKeg", "undoBackup"} \cup Undone

\* What the transaction found: the old keg is installed and was linked; a rack that
\* was not there held nothing.
FoundInv ==
    /\ pc # "idle" =>
          /\ input.old # NoVersion => before.keg[input.old] = "old" /\ before.linked = input.old
          /\ ~before.rackDir => orphans = {} /\ \A v \in Versions : before.keg[v] = "none"
          /\ \A f \in Files : before.link[f] \in Versions => f \in Ships[before.link[f]]
    /\ ~rackDir =>
          /\ stage = "none" /\ backup = "none" /\ orphans = {}
          /\ \A v \in Versions : keg[v] = "none"
    /\ pc \in (ApplyLabels \cup DropLabels) \ {"rack"} => rackDir

\* A link into a keg is at a destination the keg ships a file for.
ShippedInv ==
    /\ \A f \in Files : link[f] \in Versions => f \in Ships[link[f]]
    /\ pc = "linkFile" => todo \subseteq Ships[New]
    /\ pc = "relinkFile" => todo \subseteq Ships[input.old]

\* What the transaction makes besides kegs and links is in its journal until it is
\* removed or left over.
ScratchInv ==
    /\ pc \in ApplyLabels => leftovers = {} /\ ~steps
    /\ pc = "rack" => ~journal.created
    /\ pc \in ApplyLabels \cup UndoLabels =>
          /\ journal.created => ~before.rackDir
          /\ rackDir # before.rackDir => journal.created /\ rackDir
          /\ \A c \in Configs :
                \/ conf[c] = before.conf[c] /\ (c \in journal.skeleton => conf[c] = "absent")
                \/ c \in journal.skeleton /\ before.conf[c] = "absent"
                \/ leftovers # {}
    /\ pc \in (ApplyLabels \cup UndoLabels) \ {"undoRack"} /\ stage # "none" => journal.stage
    /\ pc \in Untouched \cup {"promote", "shell"} => pc \in {"rack", "stage"} \/ journal.stage
    /\ pc \in Installing \cup DropLabels => stage = "none"
    /\ pc = "undoRack" => stage = "none" \/ leftovers # {}
    /\ pc = "dropScratch" => backup = "none" \/ leftovers # {}
    /\ pc \in UndoLabels \ {"undoSteps"} => ~steps \/ leftovers # {}
    /\ pc \in {"undoLinkFile"} \cup Freed => journal.skeleton = {}

\* Links and records of the new keg: complete from the commit on, gone or left over
\* after rollback's unlink; and no link of the old keg outlives its unlink.
LinksInv ==
    /\ pc \in Untouched \cup {"promote", "shell", "link"} => ~journal.linkTried
    /\ pc \in Linking => journal.linkTried
    /\ journal.linkTried /\ pc \in Unfreed => keg[New] = "new"
    /\ pc = "unlinkFile" => \A f \in Files : link[f] = input.old => f \in todo
    /\ pc \in {"prune", "aside", "promote"} \cup Promoted \cup DropLabels =>
          \A f \in Files : link[f] = input.old => input.old = New
    /\ pc = "linkFile" /\ input.kegOnly => todo = {}
    /\ pc \in Linking \cup DropLabels =>
          input.kegOnly \/ \A f \in Ships[New] : link[f] = New \/ (pc = "linkFile" /\ f \in todo)
    /\ pc \in {"linkRecord", "skeleton", "steps"} \cup DropLabels => opt = New
    /\ pc \in {"skeleton", "steps"} \cup DropLabels => linked = New
    /\ pc \in {"steps"} \cup DropLabels => \A c \in Configs : conf[c] # "absent"
    /\ pc \in ApplyLabels \cup Unfreed /\ ~journal.linkTried =>
          /\ linked = New => before.linked = New
          /\ \A f \in Files : link[f] = New => before.link[f] = New
    /\ pc = "undoLinkFile" => journal.linkTried /\ \A f \in Files : link[f] = New => f \in todo
    /\ pc \in Freed /\ leftovers = {} =>
          /\ linked = New => before.linked = New
          /\ \A f \in Files : link[f] = New => before.link[f] = New \/ input.old = New

\* The old keg had the link.
Was(f) == before.link[f] = input.old
\* The old keg's links are out of the way.
Detached == journal.unlinked \/ input.old = NoVersion
FirstAlone == pc # "idle" /\ runs = 1 /\ input.alone

\* The view that the first transaction finds: one keg is linked, with all its links
\* or, as keg-only, with none.
FirstInv ==
    /\ runs = 0 =>
          /\ pc = "idle" /\ (linked # NoVersion => linked \in Installed)
          /\ \A f \in Files : link[f] \in Versions => link[f] = linked
          /\ \/ \A f \in Files : link[f] # linked
             \/ linked # NoVersion /\ \A f \in Ships[linked] : link[f] = linked
    /\ pc # "idle" /\ runs = 1 =>
          /\ before.linked = input.old
          /\ \A f \in Files : before.link[f] \in Versions => Was(f)
          /\ \/ \A f \in Files : ~Was(f)
             \/ input.old # NoVersion /\ \A f \in Ships[input.old] : Was(f)

\* Alone, the unlink of the old keg frees its links one by one, and journal.bare says
\* whether there were any.
UnlinkView ==
    FirstAlone =>
    /\ pc \in {"rack", "stage", "unpack", "unlink"} =>
          link = before.link /\ journal.bare
    /\ pc \in {"rack", "stage", "unpack", "unlink", "unlinkFile"} => linked = before.linked
    /\ pc \in {"rack", "stage", "unpack", "unlink", "unlinkFile", "prune"} => ~journal.unlinked
    /\ pc = "unlinkFile" =>
          \A f \in Files : IF f \in todo THEN Was(f) /\ link[f] = input.old
                           ELSE /\ link[f] \notin Versions
                                /\ Was(f) => link[f] = "free" /\ ~journal.bare
    /\ pc = "prune" =>
          /\ linked = NoVersion
          /\ \A f \in Files : link[f] \notin Versions /\ (Was(f) => link[f] = "free")
    /\ pc = "prune" \/ journal.unlinked => (\A f \in Files : Was(f) => ~journal.bare)
    /\ ~journal.bare => \E f \in Files : Was(f)
    /\ pc \in {"aside", "promote"} \cup Promoted => Detached

\* Alone, only links of the new keg take the places it freed; rollback frees them again
\* and the relink, which then meets no conflict, takes them back.
UndoneView ==
    FirstAlone /\ Detached =>
    /\ pc \in {"aside", "promote"} \cup Promoted \cup Unfreed =>
          /\ linked \in {NoVersion, New} /\ (linked = New => journal.linkTried)
          /\ \A f \in Files : /\ link[f] \in Versions => link[f] = New /\ journal.linkTried
                              /\ Was(f) => link[f] \in {New, "free"}
    /\ pc \in {"undoKeg", "undoBackup", "relink"} /\ leftovers = {} =>
          /\ linked = NoVersion
          /\ \A f \in Files : link[f] \notin Versions /\ (Was(f) => link[f] = "free")
    /\ pc \in {"relinkFile", "relinkRecord"} /\ leftovers = {} =>
          /\ clear = {}
          /\ \A f \in Files :
                IF pc = "relinkFile" /\ f \in todo THEN Was(f) /\ link[f] = "free"
                ELSE IF Was(f) THEN link[f] = input.old ELSE link[f] \notin Versions
    /\ pc \in {"undoStage", "undoRack"} /\ leftovers = {} => ViewRestored

PrefixInv == ShippedInv /\ FoundInv /\ ScratchInv /\ LinksInv
ViewInv == FirstInv /\ UnlinkView /\ UndoneView
Outcome == CommittedComplete /\ CleanFailure
InstallInv == RackInv /\ OldInv /\ PrefixInv /\ ViewInv /\ Outcome

\* Who links, plans first, and the plan is of what the keg ships.
LEMMA ShippedStep == RackInv /\ OldInv /\ ShippedInv /\ [Next]_vars => ShippedInv'
<1> SUFFICES ASSUME RackInv, OldInv, ShippedInv, [Next]_vars PROVE ShippedInv'
  OBVIOUS
<1>0. /\ link \in [Files -> Owners] /\ New \in Versions /\ Ships \in [Versions -> SUBSET Files]
      /\ {"free", "other"} \cap Versions = {} 
      /\ input.old # NoVersion => input.old \in Versions
      /\ ShippedInv /\ OldInv
  BY InstallAssumption, InputTyped DEF RackInv, TypeOK, PrefixTypes, ControlTypes, Records
<1> USE DEF Goto, Fail, diskVars, prefixVars, loopVars, ctlVars, RelinkError
<1>1. CASE LinkNew
  BY <1>1, <1>0 DEF LinkNew, ShippedInv, Planned
<1>2. ASSUME NEW f \in Files, LinkNewFile(f) PROVE ShippedInv'
  BY <1>2, <1>0 DEF LinkNewFile, ShippedInv, SymlinkOk, SymlinkError
<1>3. CASE Relink
  BY <1>3, <1>0 DEF Relink, ShippedInv, Planned, OldInv
<1>4. ASSUME NEW f \in Files, RelinkFile(f) PROVE ShippedInv'
  BY <1>4, <1>0 DEF RelinkFile, ShippedInv, SymlinkOk, SymlinkError, OldInv
<1>5. ASSUME NEW f \in Files, UnlinkOldFile(f) PROVE ShippedInv'
  BY <1>5, <1>0 DEF UnlinkOldFile, ShippedInv
<1>6. ASSUME NEW f \in Files, UndoLinkFile(f) PROVE ShippedInv'
  BY <1>6, <1>0 DEF UndoLinkFile, ShippedInv
<1>7. ASSUME NEW f \in Files, OtherFormula(f) PROVE ShippedInv'
  BY <1>7, <1>0 DEF OtherFormula, ShippedInv
\* The others make no link.
<1>8. CASE Begin \/ EnsureRack \/ CreateStage \/ Unpack \/ UnlinkOld
         \/ UnlinkOldRecord \/ Prune \/ SetAside \/ Promote \/ RemoveShell
         \/ LinkNewOpt \/ LinkNewRecord \/ SkeletonCopied \/ RunSteps
         \/ DropBackup \/ DropScratch \/ (\E c \in Configs : CopySkeleton(c))
         \/ UndoSteps \/ UndoLink \/ UndoLinkRecord \/ UndoKeg \/ UndoBackup
         \/ RelinkOpt \/ RelinkRecord \/ UndoStage \/ UndoRack
         \/ (\E c \in Configs : UndoSkeleton(c)) \/ Crash
  BY <1>8, <1>0
  DEF Begin, EnsureRack, CreateStage, Unpack, UnlinkOld, UnlinkOldRecord,
      Prune, SetAside, Promote, RemoveShell, LinkNewOpt, LinkNewRecord,
      SkeletonCopied, RunSteps, DropBackup, DropScratch, CopySkeleton,
      UndoSteps, UndoLink, UndoLinkRecord, UndoKeg, UndoBackup, RelinkOpt,
      RelinkRecord, UndoStage, UndoRack, UndoSkeleton, Crash, ShippedInv
<1>9. CASE UNCHANGED vars
  BY <1>9, <1>0 DEF vars, ShippedInv
<1> QED
  BY <1>1, <1>2, <1>3, <1>4, <1>5, <1>6, <1>7, <1>8, <1>9
  DEF Next, Apply, RollBack

LEMMA FoundStep == RackInv /\ ShippedInv /\ FoundInv /\ [Next]_vars => FoundInv'
<1> SUFFICES ASSUME RackInv, ShippedInv, FoundInv, [Next]_vars PROVE FoundInv'
  OBVIOUS
<1>0. /\ keg \in [Versions -> Content] /\ New \in Versions
      /\ FoundInv
  BY InstallAssumption DEF RackInv, TypeOK, DiskTypes
<1> USE DEF Goto, Fail, diskVars, prefixVars, loopVars, ctlVars, RelinkError, ApplyLabels, DropLabels
<1>1. CASE Begin
  BY <1>1, <1>0 DEF Begin, FoundInv, ShippedInv, Installed
<1>2. CASE EnsureRack
  BY <1>2, <1>0 DEF EnsureRack, FoundInv
<1>3. CASE Promote
  BY <1>3, <1>0 DEF Promote, FoundInv
<1>4. CASE SetAside
  BY <1>4, <1>0 DEF SetAside, FoundInv
<1>5. CASE UndoKeg
  BY <1>5, <1>0 DEF UndoKeg, FoundInv
<1>6. CASE UndoBackup
  BY <1>6, <1>0 DEF UndoBackup, FoundInv
<1>7. CASE UndoRack
  BY <1>7, <1>0 DEF UndoRack, FoundInv, RackEmpty, Installed
\* The others make nothing in the rack.
<1>8. CASE CreateStage \/ Unpack \/ UnlinkOld \/ UnlinkOldRecord \/ Prune
         \/ RemoveShell \/ LinkNew \/ LinkNewOpt \/ LinkNewRecord
         \/ SkeletonCopied \/ RunSteps \/ DropBackup \/ DropScratch
  <2>1. CASE CreateStage \/ Unpack \/ UnlinkOld \/ UnlinkOldRecord \/ Prune \/ RemoveShell
    BY <2>1, <1>0
    DEF CreateStage, Unpack, UnlinkOld, UnlinkOldRecord, Prune, RemoveShell, FoundInv
  <2>2. CASE LinkNew \/ LinkNewOpt \/ LinkNewRecord \/ SkeletonCopied \/ RunSteps
    BY <2>2, <1>0
    DEF LinkNew, LinkNewOpt, LinkNewRecord, SkeletonCopied, RunSteps, FoundInv
  <2>3. CASE DropBackup \/ DropScratch
    BY <2>3, <1>0 DEF DropBackup, DropScratch, FoundInv
  <2> QED BY <1>8, <2>1, <2>2, <2>3
<1>10. CASE \/ \E f \in Files : UnlinkOldFile(f) \/ LinkNewFile(f)
            \/ \E c \in Configs : CopySkeleton(c) \/ UndoSkeleton(c)
            \/ \E f \in Files : UndoLinkFile(f) \/ RelinkFile(f)
            \/ \E f \in Files : OtherFormula(f)
  <2>1. CASE \E f \in Files : UnlinkOldFile(f) \/ LinkNewFile(f)
    <3>1. UNCHANGED <<diskVars, input, before>> /\ pc \in {"unlinkFile", "linkFile"}
      BY <2>1 DEF UnlinkOldFile, LinkNewFile
    <3> QED BY <3>1, <1>0 DEF FoundInv
  <2>2. CASE \E c \in Configs : CopySkeleton(c) \/ UndoSkeleton(c)
    BY <2>2, <1>0 DEF CopySkeleton, UndoSkeleton, FoundInv
  <2>3. CASE \E f \in Files : UndoLinkFile(f) \/ RelinkFile(f)
    BY <2>3, <1>0 DEF UndoLinkFile, RelinkFile, FoundInv
  <2>4. CASE \E f \in Files : OtherFormula(f)
    BY <2>4, <1>0 DEF OtherFormula, FoundInv
  <2> QED BY <1>10, <2>1, <2>2, <2>3, <2>4
<1>11. CASE UndoSteps \/ UndoLink \/ UndoLinkRecord \/ Relink \/ RelinkOpt
         \/ RelinkRecord \/ UndoStage \/ Crash
  BY <1>11, <1>0
  DEF UndoSteps, UndoLink, UndoLinkRecord, Relink, RelinkOpt, RelinkRecord, UndoStage,
      Crash, FoundInv
<1>9. CASE UNCHANGED vars
  BY <1>9, <1>0 DEF vars, FoundInv
<1> QED
  BY <1>1, <1>2, <1>3, <1>4, <1>5, <1>6, <1>7, <1>8, <1>9, <1>10, <1>11
  DEF Next, Apply, RollBack

LEMMA ScratchStep == RackInv /\ FoundInv /\ ScratchInv /\ [Next]_vars => ScratchInv'
<1> SUFFICES ASSUME RackInv, FoundInv, ScratchInv, [Next]_vars PROVE ScratchInv'
  OBVIOUS
<1>0. /\ conf \in [Configs -> {"absent", "user", "new"}] /\ journal \in JournalType
      /\ FoundInv /\ ScratchInv
  BY DEF RackInv, TypeOK, DiskTypes, ControlTypes
<1> USE DEF Goto, Fail, diskVars, prefixVars, loopVars, ctlVars, RelinkError, ApplyLabels, DropLabels,
    UndoLabels, Untouched, Linking, Installing, Freed, Undone, Mark, JournalType, Report
<1>1. CASE Begin
  BY <1>1, <1>0 DEF Begin, ScratchInv, EmptyJournal
<1>2. CASE EnsureRack
  BY <1>2, <1>0 DEF EnsureRack, ScratchInv, FoundInv
<1>3. CASE CreateStage
  <2>1. /\ pc = "stage" /\ pc' \in {"unpack", "undoSteps"}
        /\ UNCHANGED <<conf, steps, before, rackDir, backup, leftovers>>
        /\ journal'.created = journal.created /\ journal'.skeleton = journal.skeleton
        /\ \/ pc' = "unpack" /\ journal'.stage
           \/ pc' = "undoSteps" /\ stage' = stage /\ journal' = journal
    BY <1>3, <1>0 DEF CreateStage
  <2>2. leftovers = {} /\ ~steps
    BY <2>1, <1>0 DEF ScratchInv
  <2> QED BY <2>1, <2>2, <1>0 DEF ScratchInv
<1>4. ASSUME NEW c \in Configs, CopySkeleton(c) PROVE ScratchInv'
  BY <1>4, <1>0 DEF CopySkeleton, ScratchInv
<1>5. ASSUME NEW c \in Configs, UndoSkeleton(c) PROVE ScratchInv'
  BY <1>5, <1>0 DEF UndoSkeleton, ScratchInv
<1>6. CASE UndoRack
  BY <1>6, <1>0 DEF UndoRack, ScratchInv
<1>7. CASE UndoLink
  BY <1>7, <1>0 DEF UndoLink, ScratchInv, ReportLinks
<1>8. ASSUME NEW f \in Files, UndoLinkFile(f) PROVE ScratchInv'
  BY <1>8, <1>0 DEF UndoLinkFile, ScratchInv, ReportLinks
<1>9. CASE RemoveShell
  BY <1>9, <1>0 DEF RemoveShell, ScratchInv
<1>10. CASE RunSteps
  BY <1>10, <1>0 DEF RunSteps, ScratchInv
<1>11. CASE Unpack \/ UnlinkOld \/ UnlinkOldRecord
         \/ (\E f \in Files : UnlinkOldFile(f)) \/ Prune \/ SetAside
         \/ Promote
  BY <1>11, <1>0
  DEF Unpack, UnlinkOld, UnlinkOldRecord, UnlinkOldFile, Prune, SetAside,
      Promote, ScratchInv
<1>12. CASE LinkNew \/ LinkNewOpt \/ LinkNewRecord
         \/ (\E f \in Files : LinkNewFile(f)) \/ SkeletonCopied \/ DropBackup
         \/ DropScratch \/ Crash \/ (\E f \in Files : OtherFormula(f))
  BY <1>12, <1>0
  DEF LinkNew, LinkNewOpt, LinkNewRecord, LinkNewFile, SkeletonCopied,
      DropBackup, DropScratch, Crash, OtherFormula, ScratchInv
<1>13. CASE UndoSteps \/ UndoLinkRecord \/ UndoKeg \/ UndoBackup \/ Relink
         \/ RelinkOpt \/ RelinkRecord \/ UndoStage
         \/ (\E f \in Files : RelinkFile(f))
  BY <1>13, <1>0
  DEF UndoSteps, UndoLinkRecord, UndoKeg, UndoBackup, Relink, RelinkOpt,
      RelinkRecord, UndoStage, RelinkFile, ScratchInv
<1>14. CASE UNCHANGED vars
  BY <1>14, <1>0 DEF vars, ScratchInv
<1> QED
  BY <1>1, <1>2, <1>3, <1>4, <1>5, <1>6, <1>7, <1>8, <1>9, <1>10, <1>11,
     <1>12, <1>13, <1>14
  DEF Next, Apply, RollBack

LEMMA LinksStep ==
    RackInv /\ OldInv /\ ShippedInv /\ FoundInv /\ LinksInv /\ [Next]_vars => LinksInv'
<1> SUFFICES ASSUME RackInv, OldInv, ShippedInv, FoundInv, LinksInv, [Next]_vars PROVE LinksInv'
  OBVIOUS
<1>0. /\ link \in [Files -> Owners] /\ New \in Versions /\ Ships \in [Versions -> SUBSET Files]
      /\ {"free", "other", "stale", NoVersion} \cap Versions = {} 
      /\ NoVersion \notin {"free", "other", "stale"}
      /\ input.old # NoVersion => input.old \in Versions
      /\ journal \in JournalType /\ todo \subseteq Files /\ keg \in [Versions -> Content]
      /\ ShippedInv /\ OldInv /\ FoundInv /\ LinksInv /\ NewKegInv /\ OthersInv
  BY InstallAssumption, InputTyped DEF RackInv, TypeOK, PrefixTypes, DiskTypes, ControlTypes, Records
<1> USE DEF Goto, Fail, diskVars, prefixVars, loopVars, ctlVars, RelinkError, ApplyLabels, DropLabels,
    UndoLabels, Linking, Installing, Unfreed, Freed, Undone, Undoing, Untouched, Promoted, Mark, JournalType, Report
<1>1. CASE Begin
  BY <1>1, <1>0 DEF Begin, LinksInv, EmptyJournal
<1>2. CASE UnlinkOld
  BY <1>2, <1>0 DEF UnlinkOld, LinksInv, ShippedInv, FoundInv, NewKegInv, OthersInv, Mine, OldInv
<1>3. ASSUME NEW f \in Files, UnlinkOldFile(f) PROVE LinksInv'
  BY <1>3, <1>0 DEF UnlinkOldFile, LinksInv, FoundInv, NewKegInv, OthersInv, Mine, OldInv, Owners
<1>4. CASE UnlinkOldRecord
  BY <1>4, <1>0 DEF UnlinkOldRecord, LinksInv
<1>5. CASE Promote
  BY <1>5, <1>0 DEF Promote, LinksInv
<1>6. CASE LinkNew
  BY <1>6, <1>0 DEF LinkNew, LinksInv, NewKegInv, Conflicts, Planned, Dangling, Mine, Owners
<1>7. ASSUME NEW f \in Files, LinkNewFile(f) PROVE LinksInv'
  BY <1>7, <1>0 DEF LinkNewFile, LinksInv, ShippedInv, NewKegInv, SymlinkOk, SymlinkError, Owners
<1>8. CASE LinkNewOpt
  BY <1>8, <1>0 DEF LinkNewOpt, LinksInv, NewKegInv, RecordError
<1>9. CASE LinkNewRecord
  BY <1>9, <1>0 DEF LinkNewRecord, LinksInv, NewKegInv, RecordError
<1>10. CASE UndoLink
  BY <1>10, <1>0 DEF UndoLink, LinksInv, ReportLinks, ResolvingTo, Mine, ShippedInv
<1>11. ASSUME NEW f \in Files, UndoLinkFile(f) PROVE LinksInv'
  BY <1>11, <1>0 DEF UndoLinkFile, LinksInv, ReportLinks, ResolvingTo, Mine, NewKegInv
<1>12. CASE UndoLinkRecord
  BY <1>12, <1>0 DEF UndoLinkRecord, LinksInv, ResolvingTo
<1>13. ASSUME NEW f \in Files, RelinkFile(f) PROVE LinksInv'
  BY <1>13, <1>0 DEF RelinkFile, LinksInv, SymlinkOk, SymlinkError, OldInv
<1>14. CASE RelinkOpt
  BY <1>14, <1>0 DEF RelinkOpt, LinksInv, RecordError
<1>15. CASE RelinkRecord
  BY <1>15, <1>0 DEF RelinkRecord, LinksInv, RecordError, FoundInv, OldInv
<1>16. ASSUME NEW c \in Configs, CopySkeleton(c) PROVE LinksInv'
  BY <1>16, <1>0 DEF CopySkeleton, LinksInv, NewKegInv
<1>17. CASE SkeletonCopied
  BY <1>17, <1>0 DEF SkeletonCopied, LinksInv
<1>18. CASE RunSteps
  BY <1>18, <1>0 DEF RunSteps, LinksInv, NewKegInv
<1>19. ASSUME NEW f \in Files, OtherFormula(f) PROVE LinksInv'
  BY <1>19, <1>0 DEF OtherFormula, LinksInv, NewKegInv, Dangling
<1>20. CASE EnsureRack \/ CreateStage \/ Unpack
  BY <1>20, <1>0
  DEF EnsureRack, CreateStage, Unpack, LinksInv, NewKegInv, Owners
<1>21. CASE Prune \/ SetAside \/ RemoveShell
  BY <1>21, <1>0
  DEF Prune, SetAside, RemoveShell, LinksInv, NewKegInv
<1>22. CASE DropBackup \/ DropScratch \/ Crash
  BY <1>22, <1>0
  DEF DropBackup, DropScratch, Crash, LinksInv, NewKegInv
<1>23. CASE UndoSteps \/ UndoKeg \/ UndoBackup \/ Relink \/ UndoStage
         \/ UndoRack \/ (\E c \in Configs : UndoSkeleton(c))
  BY <1>23, <1>0
  DEF UndoSteps, UndoKeg, UndoBackup, Relink, UndoStage, UndoRack,
      UndoSkeleton, LinksInv
<1>24. CASE UNCHANGED vars
  BY <1>24, <1>0 DEF vars, LinksInv
<1> QED
  BY <1>1, <1>2, <1>3, <1>4, <1>5, <1>6, <1>7, <1>8, <1>9, <1>10, <1>11,
     <1>12, <1>13, <1>14, <1>15, <1>16, <1>17, <1>18, <1>19, <1>20, <1>21,
     <1>22, <1>23, <1>24
  DEF Next, Apply, RollBack

LEMMA FirstStep ==
    RackInv /\ FirstInv /\ [Next]_vars => FirstInv'
<1> SUFFICES ASSUME RackInv, FirstInv, [Next]_vars PROVE FirstInv'
  OBVIOUS
<1>0. FirstInv /\ runs \in Nat
  BY InstallAssumption DEF RackInv, TypeOK, ControlTypes
<1> USE DEF Goto, Fail, diskVars, prefixVars, loopVars, ctlVars, RelinkError, Was
<1>1. CASE Begin
  BY <1>1, <1>0 DEF Begin, FirstInv, Installed
<1>2. CASE EnsureRack \/ CreateStage \/ Unpack \/ UnlinkOld
         \/ (\E f \in Files : UnlinkOldFile(f)) \/ UnlinkOldRecord \/ Prune
         \/ SetAside \/ Promote \/ RemoveShell
  BY <1>2, <1>0
  DEF EnsureRack, CreateStage, Unpack, UnlinkOld, UnlinkOldFile,
      UnlinkOldRecord, Prune, SetAside, Promote, RemoveShell, FirstInv
<1>3. CASE LinkNew \/ LinkNewOpt \/ LinkNewRecord
         \/ (\E f \in Files : LinkNewFile(f))
         \/ (\E c \in Configs : CopySkeleton(c)) \/ SkeletonCopied \/ RunSteps
         \/ DropBackup \/ DropScratch \/ Crash
         \/ (\E f \in Files : OtherFormula(f))
  BY <1>3, <1>0
  DEF LinkNew, LinkNewOpt, LinkNewRecord, LinkNewFile, CopySkeleton,
      SkeletonCopied, RunSteps, DropBackup, DropScratch, Crash, OtherFormula,
      FirstInv
<1>4. CASE UndoSteps \/ UndoLink \/ UndoLinkRecord \/ UndoKeg \/ UndoBackup
         \/ Relink \/ RelinkOpt \/ RelinkRecord \/ UndoStage \/ UndoRack
         \/ (\E f \in Files : UndoLinkFile(f))
         \/ (\E f \in Files : RelinkFile(f))
         \/ (\E c \in Configs : UndoSkeleton(c))
  BY <1>4, <1>0
  DEF UndoSteps, UndoLink, UndoLinkRecord, UndoKeg, UndoBackup, Relink,
      RelinkOpt, RelinkRecord, UndoStage, UndoRack, UndoLinkFile, RelinkFile,
      UndoSkeleton, FirstInv
<1>5. CASE UNCHANGED vars
  BY <1>5, <1>0 DEF vars, FirstInv, Installed
<1> QED
  BY <1>1, <1>2, <1>3, <1>4, <1>5
  DEF Next, Apply, RollBack

LEMMA UnlinkViewStep ==
    RackInv /\ OldInv /\ FoundInv /\ FirstInv /\ UnlinkView /\ [Next]_vars => UnlinkView'
<1> SUFFICES ASSUME RackInv, OldInv, FoundInv, FirstInv, UnlinkView, [Next]_vars PROVE UnlinkView'
  OBVIOUS
<1>0. /\ link \in [Files -> Owners] /\ New \in Versions /\ Ships \in [Versions -> SUBSET Files]
      /\ NoVersion \notin Versions /\ "free" \notin Versions /\ runs \in Nat
      /\ input.old # NoVersion => input.old \in Versions
      /\ journal \in JournalType /\ todo \subseteq Files /\ keg \in [Versions -> Content]
      /\ OldInv /\ FoundInv /\ NewKegInv /\ OthersInv /\ FirstInv /\ UnlinkView
  BY InstallAssumption, InputTyped DEF RackInv, TypeOK, PrefixTypes, DiskTypes, ControlTypes, Records
<1> USE DEF Goto, Fail, diskVars, prefixVars, loopVars, ctlVars, RelinkError, Promoted, Mark, JournalType, FirstAlone, Was, Detached
<1>1. CASE Begin
  BY <1>1, <1>0 DEF Begin, UnlinkView, EmptyJournal, FirstInv
<1>2. CASE UnlinkOld
  BY <1>2, <1>0 DEF UnlinkOld, UnlinkView, FirstInv, FoundInv, NewKegInv, OthersInv, Untouched, Mine, OldInv, Owners
<1>3. ASSUME NEW f \in Files, UnlinkOldFile(f) PROVE UnlinkView'
  BY <1>3, <1>0 DEF UnlinkOldFile, UnlinkView, FirstInv, FoundInv, NewKegInv, OthersInv, Untouched, Mine, OldInv, Owners
<1>4. CASE UnlinkOldRecord
  BY <1>4, <1>0 DEF UnlinkOldRecord, UnlinkView, FirstInv, Owners
<1>5. CASE Unpack
  BY <1>5, <1>0 DEF Unpack, UnlinkView
<1>6. CASE Prune
  BY <1>6, <1>0 DEF Prune, UnlinkView
<1>7. ASSUME NEW f \in Files, OtherFormula(f) PROVE UnlinkView'
  BY <1>7, <1>0 DEF OtherFormula, UnlinkView
<1>8. CASE EnsureRack \/ CreateStage \/ SetAside \/ Promote \/ RemoveShell
  BY <1>8, <1>0
  DEF EnsureRack, CreateStage, SetAside, Promote, RemoveShell, UnlinkView
<1>9. CASE LinkNew \/ LinkNewOpt \/ LinkNewRecord
         \/ (\E f \in Files : LinkNewFile(f))
         \/ (\E c \in Configs : CopySkeleton(c)) \/ SkeletonCopied
  BY <1>9, <1>0
  DEF LinkNew, LinkNewOpt, LinkNewRecord, LinkNewFile, CopySkeleton,
      SkeletonCopied, UnlinkView
<1>10. CASE RunSteps \/ DropBackup \/ DropScratch \/ Crash
  BY <1>10, <1>0
  DEF RunSteps, DropBackup, DropScratch, Crash, UnlinkView
<1>11. CASE UndoSteps \/ (\E c \in Configs : UndoSkeleton(c)) \/ UndoLink
         \/ UndoLinkRecord \/ (\E f \in Files : UndoLinkFile(f)) \/ UndoKeg
         \/ UndoBackup
  <2>0. CASE UndoSteps
    BY <2>0, <1>0 DEF UndoSteps, UnlinkView
  <2>1. CASE \E c \in Configs : UndoSkeleton(c)
    <3>1. /\ UNCHANGED <<link, linked, input, before, todo, runs, pc>> /\ pc = "undoSkeleton"
          /\ journal'.bare = journal.bare /\ journal'.unlinked = journal.unlinked
      BY <2>1, <1>0 DEF UndoSkeleton
    <3> QED BY <3>1, <1>0 DEF UnlinkView
  <2>2. CASE UndoLink \/ UndoLinkRecord
    BY <2>2, <1>0 DEF UndoLink, UndoLinkRecord, UnlinkView
  <2>3. CASE \E f \in Files : UndoLinkFile(f)
    BY <2>3, <1>0 DEF UndoLinkFile, UnlinkView
  <2>4. CASE UndoKeg \/ UndoBackup
    BY <2>4, <1>0 DEF UndoKeg, UndoBackup, UnlinkView
  <2> QED BY <1>11, <2>0, <2>1, <2>2, <2>3, <2>4
<1>12. CASE Relink \/ RelinkOpt \/ RelinkRecord \/ UndoStage \/ UndoRack
         \/ (\E f \in Files : RelinkFile(f))
  BY <1>12, <1>0
  DEF Relink, RelinkOpt, RelinkRecord, UndoStage, UndoRack, RelinkFile,
      UnlinkView
<1>13. CASE UNCHANGED vars
  BY <1>13, <1>0 DEF vars, UnlinkView
<1> QED
  BY <1>1, <1>2, <1>3, <1>4, <1>5, <1>6, <1>7, <1>8, <1>9, <1>10, <1>11,
     <1>12, <1>13
  DEF Next, Apply, RollBack

LEMMA UndoneViewStep ==
    ASSUME RackInv, OldInv, ShippedInv, FoundInv, LinksInv, FirstInv, UnlinkView, UndoneView, [Next]_vars
    PROVE  UndoneView'
<1>0. /\ link \in [Files -> Owners] /\ New \in Versions /\ Ships \in [Versions -> SUBSET Files]
      /\ (Versions \cup {NoVersion}) \cap {"free", "other", "stale"} = {} /\ NoVersion \notin Versions /\ runs \in Nat
      /\ input.old # NoVersion => input.old \in Versions
      /\ journal \in JournalType /\ todo \subseteq Files /\ keg \in [Versions -> Content]
      /\ OldInv /\ FoundInv /\ NewKegInv /\ OthersInv /\ FirstInv /\ UnlinkView /\ ShippedInv /\ LinksInv /\ UndoneView
  BY InstallAssumption, InputTyped DEF RackInv, TypeOK, PrefixTypes, DiskTypes, ControlTypes, Records
<1> USE DEF Goto, Fail, diskVars, prefixVars, loopVars, ctlVars, RelinkError, Promoted, Unfreed, Undone, Mark, JournalType, FirstAlone, Was, Detached, Report
<1>1. CASE Begin
  BY <1>1, <1>0 DEF Begin, UndoneView
<1>2. CASE Unpack
  BY <1>2, <1>0 DEF Unpack, UndoneView, UnlinkView, FirstInv, Owners
<1>3. CASE Prune
  BY <1>3, <1>0 DEF Prune, UndoneView, UnlinkView
<1>4. CASE LinkNew
  BY <1>4, <1>0 DEF LinkNew, UndoneView
<1>5. ASSUME NEW f \in Files, LinkNewFile(f) PROVE UndoneView'
  BY <1>5, <1>0 DEF LinkNewFile, UndoneView, SymlinkOk, SymlinkError, LinksInv, Linking
<1>6. CASE LinkNewOpt
  BY <1>6, <1>0 DEF LinkNewOpt, UndoneView
<1>7. CASE LinkNewRecord
  BY <1>7, <1>0 DEF LinkNewRecord, UndoneView, RecordError, LinksInv, Linking
<1>8. CASE UndoLink
  BY <1>8, <1>0 DEF UndoLink, UndoneView, ReportLinks, ResolvingTo, Mine, LinksInv, ShippedInv
<1>9. ASSUME NEW f \in Files, UndoLinkFile(f) PROVE UndoneView'
  BY <1>9, <1>0 DEF UndoLinkFile, UndoneView, ReportLinks, ResolvingTo, Mine, LinksInv
<1>10. CASE UndoLinkRecord
  BY <1>10, <1>0 DEF UndoLinkRecord, UndoneView, LinksInv, ResolvingTo
<1>11. CASE UndoBackup
  BY <1>11, <1>0 DEF UndoBackup, UndoneView, UnlinkView, FirstInv, ViewRestored, Owners, OldInv
<1>12. CASE Relink
  BY <1>12, <1>0 DEF Relink, UndoneView, Conflicts, Planned, Dangling, Mine, UnlinkView, FirstInv, FoundInv, NewKegInv, OthersInv, OldInv, Owners
<1>13. ASSUME NEW f \in Files, RelinkFile(f) PROVE UndoneView'
  BY <1>13, <1>0 DEF RelinkFile, UndoneView, SymlinkOk, SymlinkError, OldInv, Owners
<1>14. CASE RelinkOpt
  BY <1>14, <1>0 DEF RelinkOpt, UndoneView
<1>15. CASE RelinkRecord
  BY <1>15, <1>0 DEF RelinkRecord, UndoneView, RecordError, ViewRestored, FirstInv, OldInv
<1>16. CASE UndoStage
  BY <1>16, <1>0 DEF UndoStage, UndoneView, ViewRestored
<1>17. CASE UndoRack
  BY <1>17, <1>0 DEF UndoRack, UndoneView
<1>18. ASSUME NEW f \in Files, OtherFormula(f) PROVE UndoneView'
  BY <1>18, <1>0 DEF OtherFormula, UndoneView
<1>19. CASE UndoKeg
  BY <1>19, <1>0 DEF UndoKeg, UndoneView
<1>20. CASE EnsureRack \/ CreateStage
  BY <1>20, <1>0
  DEF EnsureRack, CreateStage, UndoneView, UnlinkView, FirstInv, Owners
<1>21. CASE UnlinkOld \/ (\E f \in Files : UnlinkOldFile(f))
         \/ UnlinkOldRecord
  BY <1>21, <1>0
  DEF UnlinkOld, UnlinkOldFile, UnlinkOldRecord, UndoneView,
      UnlinkView, OldInv
<1>22. CASE SetAside \/ Promote \/ RemoveShell
  BY <1>22, <1>0
  DEF SetAside, Promote, RemoveShell, UndoneView, UnlinkView
<1>23. CASE (\E c \in Configs : CopySkeleton(c)) \/ SkeletonCopied \/ RunSteps
         \/ DropBackup \/ DropScratch \/ Crash
  BY <1>23, <1>0
  DEF CopySkeleton, SkeletonCopied, RunSteps, DropBackup, DropScratch, Crash,
      UndoneView
<1>24. CASE UndoSteps \/ (\E c \in Configs : UndoSkeleton(c))
  BY <1>24, <1>0
  DEF UndoSteps, UndoSkeleton, UndoneView
<1>25. CASE UNCHANGED vars
  BY <1>25, <1>0 DEF vars, UndoneView, ViewRestored
<1> QED
  BY <1>1, <1>2, <1>3, <1>4, <1>5, <1>6, <1>7, <1>8, <1>9, <1>10, <1>11,
     <1>12, <1>13, <1>14, <1>15, <1>16, <1>17, <1>18, <1>19, <1>20, <1>21,
     <1>22, <1>23, <1>24, <1>25
  DEF Next, Apply, RollBack

\* A label says whether there is a result.
LEMMA ResultOfLabel ==
    ASSUME RackInv
    PROVE  /\ pc = "idle" <=> result \notin {"running", "committed"}
           /\ pc \in Labels
BY DEF RackInv, TypeOK, ControlTypes, ControlInv, Labels, ApplyLabels, DropLabels, UndoLabels

\* From the commit on everything is there.
LEMMA CommitComplete == RackInv /\ PrefixInv /\ result = "committed" => CommittedComplete
BY DEF RackInv, ControlInv, NewKegInv, DropLabels, PrefixInv, ScratchInv, LinksInv, Linking, Installing,
   CommittedComplete

\* The last step of a rollback that leaves nothing over.
LEMMA RolledBack ==
    ASSUME RackInv, OldInv, PrefixInv, ViewInv, UndoRack, result' = "failed"
    PROVE  CleanFailure'
<1>0. /\ keg \in [Versions -> Content] /\ before \in SnapshotType /\ New \in Versions
      /\ before.keg \in [Versions -> {"none", "old"}] /\ rackDir \in BOOLEAN
      /\ conf \in [Configs -> {"absent", "user", "new"}] /\ before.rackDir \in BOOLEAN
      /\ before.conf \in [Configs -> {"absent", "user"}]
      /\ OthersInv /\ NewKegInv /\ FoundInv /\ ScratchInv /\ LinksInv
      /\ journal.created \in BOOLEAN /\ pc = "undoRack" /\ NoVersion # New
  BY InstallAssumption DEF RackInv, TypeOK, DiskTypes, ControlTypes, SnapshotType, PrefixInv, JournalType, UndoRack
<1>1. /\ UNCHANGED <<keg, stage, backup, orphans, link, opt, linked, conf, steps, journal, input, runs, before>>
      /\ leftovers = {} /\ leftovers' = {}
      /\ rackDir' = (rackDir /\ ~(journal.created /\ RackEmpty))
  BY <1>0 DEF UndoRack, prefixVars, Report
<1>2. keg = before.keg /\ backup = "none"
  BY <1>0, <1>1 DEF OthersInv, NewKegInv, Undone
<1>3. stage = "none" /\ ~steps
  BY <1>0, <1>1 DEF ScratchInv, UndoLabels
<1>4. conf = before.conf
  BY <1>0, <1>1 DEF ScratchInv, UndoLabels, Freed, Undone
<1>5. rackDir' = before.rackDir
  <2>1. CASE before.rackDir
    BY <1>0, <1>1, <2>1 DEF ScratchInv, UndoLabels
  <2>2. CASE ~before.rackDir
    BY <1>0, <1>1, <1>2, <1>3, <2>2 DEF ScratchInv, UndoLabels, FoundInv, RackEmpty, Installed
  <2> QED
    BY <1>0, <2>1, <2>2
<1>6. linked = New => before.linked = New
  BY <1>0, <1>1 DEF LinksInv, Freed, Undone
<1>7. \A f \in Files : link[f] = New => keg[New] # "none" \/ before.link[f] = New
  BY <1>0, <1>1, <1>2 DEF LinksInv, Freed, Undone, FoundInv
<1>8. DiskRestored'
  BY <1>1, <1>2, <1>3, <1>4, <1>5, <1>6, <1>7 DEF DiskRestored
<1>9. input.alone /\ runs = 1 /\ (journal.unlinked \/ input.old = NoVersion) => ViewRestored
  BY <1>0, <1>1 DEF ViewInv, UndoneView, FirstAlone, Detached
<1> QED
  BY <1>1, <1>8, <1>9 DEF CleanFailure, ViewRestored

LEMMA OutcomeStep ==
    ASSUME InstallInv, [Next]_vars, RackInv', PrefixInv'
    PROVE  Outcome'
<1>0. RackInv /\ OldInv /\ PrefixInv /\ ViewInv /\ CommittedComplete /\ CleanFailure
  BY DEF InstallInv, Outcome
<1>1. CASE pc' # "idle"
  <2>1. result' \in {"running", "committed"}
    <3>1. (RackInv => (pc = "idle" <=> result \notin {"running", "committed"}))'
      BY ResultOfLabel, PTL
    <3> QED
      BY <1>1, <3>1
  <2>2. (RackInv /\ PrefixInv /\ result = "committed" => CommittedComplete)'
    BY CommitComplete, PTL
  <2> QED
    BY <2>1, <2>2 DEF Outcome, CommittedComplete, CleanFailure
<1>2. CASE pc' = "idle"
  <2> USE <1>2 DEF Goto, Fail, RelinkError
  <2>1. CASE UndoRack
    <3>1. result' \in {"failed", "incomplete"}
      BY <2>1 DEF UndoRack
    <3>2. CommittedComplete'
      BY <3>1 DEF CommittedComplete
    <3>3. CleanFailure'
      BY <1>0, <2>1, <3>1, RolledBack DEF CleanFailure
    <3> QED
      BY <3>2, <3>3 DEF Outcome
  <2>2. CASE DropScratch
    <3>1. /\ pc = "dropScratch" /\ result = "committed" /\ result' \in {"ok", "cleanup"}
          /\ result' = "ok" => backup = "none"
          /\ UNCHANGED <<keg, stage, backup, opt, linked, link, conf, input>>
      BY <1>0, <2>2 DEF DropScratch, RackInv, ControlInv, DropLabels, PrefixInv, ScratchInv, diskVars,
         prefixVars, Report
    <3> QED
      BY <1>0, <3>1 DEF Outcome, CommittedComplete, CleanFailure
  <2>3. CASE Crash
    BY <2>3 DEF Crash, Outcome, CommittedComplete, CleanFailure
  <2>4. CASE UNCHANGED vars
    BY <1>0, <2>4 DEF vars, Outcome, CommittedComplete, CleanFailure, DiskRestored, ViewRestored
  <2>5. UndoRack \/ DropScratch \/ Crash \/ UNCHANGED vars
    <3>1. ~Begin /\ ~EnsureRack /\ ~CreateStage /\ ~Unpack /\ ~UnlinkOld /\ ~UnlinkOldRecord /\ ~Prune
      BY DEF Begin, EnsureRack, CreateStage, Unpack, UnlinkOld, UnlinkOldRecord, Prune
    <3>2. ~SetAside /\ ~Promote /\ ~RemoveShell /\ ~LinkNew /\ ~LinkNewOpt /\ ~LinkNewRecord
      BY DEF SetAside, Promote, RemoveShell, LinkNew, LinkNewOpt, LinkNewRecord
    <3>3. ~SkeletonCopied /\ ~RunSteps /\ ~DropBackup
      BY DEF SkeletonCopied, RunSteps, DropBackup
    <3>4. \A f \in Files : ~UnlinkOldFile(f) /\ ~LinkNewFile(f) /\ ~UndoLinkFile(f) /\ ~RelinkFile(f) /\ ~OtherFormula(f)
      BY DEF UnlinkOldFile, LinkNewFile, UndoLinkFile, RelinkFile, OtherFormula, ctlVars
    <3>5. \A c \in Configs : ~CopySkeleton(c) /\ ~UndoSkeleton(c)
      BY DEF CopySkeleton, UndoSkeleton
    <3>6. ~UndoSteps /\ ~UndoLink /\ ~UndoLinkRecord /\ ~UndoKeg /\ ~UndoBackup
      BY DEF UndoSteps, UndoLink, UndoLinkRecord, UndoKeg, UndoBackup
    <3>7. ~Relink /\ ~RelinkOpt /\ ~RelinkRecord /\ ~UndoStage
      BY DEF Relink, RelinkOpt, RelinkRecord, UndoStage
    <3> QED
      BY <3>1, <3>2, <3>3, <3>4, <3>5, <3>6, <3>7 DEF Next, Apply, RollBack
  <2> QED
    BY <2>1, <2>2, <2>3, <2>4, <2>5
<1> QED
  BY <1>1, <1>2

LEMMA InstallStart == Init => InstallInv
<1> SUFFICES ASSUME Init PROVE InstallInv
  OBVIOUS
<1>1. RackInv /\ OldInv
  BY RackStart DEF Init, OldInv, EmptyJournal
<1>2. ShippedInv /\ FirstInv
  BY InstallAssumption DEF Init, ShippedInv, FirstInv, Installed
<1>3. FoundInv /\ ScratchInv /\ LinksInv
  BY <1>1 DEF Init, FoundInv, ScratchInv, LinksInv, Installed, ApplyLabels, UndoLabels, DropLabels, Linking, Installing,
     Unfreed, Freed, Undone, Untouched, Promoted, RackInv, TypeOK, DiskTypes, Content
<1>4. UnlinkView /\ UndoneView /\ Outcome
  BY DEF Init, UnlinkView, UndoneView, FirstAlone, Outcome, CommittedComplete, CleanFailure
<1> QED
  BY <1>1, <1>2, <1>3, <1>4 DEF InstallInv, PrefixInv, ViewInv

LEMMA InstallStep == InstallInv /\ [Next]_vars => InstallInv'
<1> SUFFICES ASSUME InstallInv, [Next]_vars PROVE InstallInv'
  OBVIOUS
<1>1. RackInv /\ OldInv /\ TypeOK /\ PrefixInv /\ ViewInv
  BY DEF InstallInv, RackInv
<1>2. RackInv' /\ OldInv'
  BY <1>1, RackStep, StepTyped
<1>3. PrefixInv'
  BY <1>1, ShippedStep, FoundStep, ScratchStep, LinksStep DEF PrefixInv
<1>4. ViewInv'
  BY <1>1, FirstStep, UnlinkViewStep, UndoneViewStep DEF PrefixInv, ViewInv
<1> QED
  BY <1>2, <1>3, <1>4, OutcomeStep DEF InstallInv

LEMMA InstallAlways == Spec => []InstallInv
BY InstallStart, InstallStep, PTL DEF Spec

\* A committed transaction has installed everything, whatever failed before it and
\* wherever an earlier one was killed (apply up to Summary).
THEOREM Complete == Spec => []CommittedComplete
<1>1. InstallInv => CommittedComplete
  BY DEF InstallInv, Outcome
<1> QED
  BY <1>1, InstallAlways, PTL

\* A transaction that returns the plain original error has undone its own changes; on a
\* prefix that nobody else works on the links are back (rollback without leftovers).
THEOREM Clean == Spec => []CleanFailure
<1>1. InstallInv => CleanFailure
  BY DEF InstallInv, Outcome
<1> QED
  BY <1>1, InstallAlways, PTL
=============================================================================
