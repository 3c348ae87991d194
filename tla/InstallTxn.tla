----------------------------- MODULE InstallTxn -----------------------------
(***************************************************************************)
(* One formula being poured: FormulaTransaction::apply and ::rollback of   *)
(* zapbrew-ops/src/transaction.rs, with the link and unlink of             *)
(* zapbrew-pour/src/link.rs they call, at the grain of one file-system     *)
(* call per step.  Any call may fail, the process may be killed between    *)
(* any two calls, and the installers of other formulae, which hold other   *)
(* locks, link into the same prefix meanwhile.                             *)
(*                                                                         *)
(* Names follow the code: `target' is replacement.target, `old' is         *)
(* replacement.linked, and the fields of `journal' are those of Journal.   *)
(***************************************************************************)
EXTENDS Naturals, FiniteSets

CONSTANTS
    Versions,   \* package versions of the formula
    New,        \* the version being poured (final_keg)
    Files,      \* prefix destinations the kegs link
    Ships,      \* Ships[v]: the destinations keg v has a file for
    Configs,    \* entries of .bottle/etc and .bottle/var
    NoVersion,  \* Option::None where a version may stand
    Neighbours, \* processes installing other formulae run meanwhile
    MaxFaults,  \* bound: failing calls in one behaviour
    MaxRuns     \* bound: transactions in one behaviour

ASSUME InstallAssumption ==
    /\ New \in Versions
    /\ NoVersion \notin Versions
    /\ Ships \in [Versions -> SUBSET Files]
    /\ Neighbours \in BOOLEAN
    /\ MaxFaults \in Nat /\ MaxRuns \in Nat
    /\ (Versions \cup {NoVersion}) \cap {"free", "other", "stale"} = {}

VARIABLES
    keg,        \* what the directory of each version holds
    stage,      \* the staging directory of this transaction
    backup,     \* the directory the replaced keg was renamed to
    orphans,    \* stage and backup directories of killed processes
    rackDir,    \* the rack directory exists
    link,       \* who each destination in the prefix belongs to
    opt,        \* opt/<name>
    linked,     \* var/homebrew/linked/<name>
    conf,       \* skeleton destinations in the prefix
    steps,      \* effects of the post-install steps are on disk
    journal,    \* Journal
    input,      \* Replacement and formula: [old |-> linked, target |-> is_some,
                \* kegOnly |-> keg_only], and alone: no other formula is worked on
    todo,       \* destinations a link or unlink loop has left
    clear,      \* of those, the dangling links it removes first
    leftovers,  \* what rollback or cleanup could not undo
    pc,
    result,
    faults,
    runs,
    before      \* the disk when the transaction began

diskVars   == <<keg, stage, backup, orphans, rackDir>>
prefixVars == <<link, opt, linked>>
loopVars   == <<todo, clear>>
ctlVars    == <<pc, result, runs>>
vars == <<keg, stage, backup, orphans, rackDir, link, opt, linked, conf, steps,
          journal, input, todo, clear, leftovers, pc, result, faults, runs, before>>

-----------------------------------------------------------------------------
(* States.  A keg is "old" if it was there when the transaction began and  *)
(* "new" if the transaction poured it; "torn" is a tree remove_dir_all     *)
(* left half removed.                                                      *)

Content == {"none", "old", "new", "torn"}
Stages  == {"none", "partial", "ready", "shell", "torn"}
Owners  == Versions \cup {"free", "other", "stale"}
Records == Versions \cup {NoVersion}
Results == {"none", "running", "committed", "ok", "failed", "incomplete",
            "cleanup", "crashed"}

EmptyJournal ==
    [created |-> FALSE, stage |-> FALSE, unlinked |-> FALSE, bare |-> TRUE,
     backup |-> FALSE, promoted |-> FALSE, linkTried |-> FALSE,
     skeleton |-> {}, committed |-> FALSE]

JournalType ==
    [created : BOOLEAN, stage : BOOLEAN, unlinked : BOOLEAN, bare : BOOLEAN,
     backup : BOOLEAN, promoted : BOOLEAN, linkTried : BOOLEAN,
     skeleton : SUBSET Configs, committed : BOOLEAN]
InputType == [old : Records, target : BOOLEAN, kegOnly : BOOLEAN, alone : BOOLEAN]
SnapshotType ==
    [keg : [Versions -> {"none", "old"}], link : [Files -> Owners], opt : Records,
     linked : Records, conf : [Configs -> {"absent", "user"}], rackDir : BOOLEAN]

Installed == {v \in Versions : keg[v] # "none"}

ApplyLabels == {"rack", "stage", "unpack", "unlink", "unlinkFile", "prune", "aside",
                "promote", "shell", "link", "linkFile", "linkRecord", "skeleton",
                "steps"}
DropLabels == {"dropBackup", "dropScratch"}
UndoLabels == {"undoSteps", "undoSkeleton", "undoLinkFile", "undoKeg", "undoBackup",
               "relink", "relinkFile", "relinkRecord", "undoStage", "undoRack"}
Labels == {"idle"} \cup ApplyLabels \cup DropLabels \cup UndoLabels

\* Disk a transaction of this program can start from: records name installed
\* kegs, `linked' implies `opt', and a linked keg has all its links or (linked
\* as keg-only) none.  "other" belongs to another formula or to the user,
\* "stale" is a dangling symlink.
Init ==
    /\ keg \in [Versions -> {"none", "old"}]
    /\ stage = "none" /\ backup = "none" /\ orphans = {}
    /\ rackDir \in BOOLEAN /\ (Installed # {} => rackDir)
    /\ opt \in Installed \cup {NoVersion}
    /\ linked \in {opt, NoVersion}
    /\ \E mine \in {{}, IF linked = NoVersion THEN {} ELSE Ships[linked]} :
          link \in {l \in [Files -> {"free", "other", "stale", linked} \ {NoVersion}] :
                       \A f \in Files : l[f] = linked <=> f \in mine}
    /\ conf \in [Configs -> {"absent", "user"}]
    /\ steps = FALSE
    /\ journal = EmptyJournal
    /\ input = [old |-> NoVersion, target |-> FALSE, kegOnly |-> FALSE, alone |-> TRUE]
    /\ todo = {} /\ clear = {} /\ leftovers = {}
    /\ pc = "idle" /\ result = "none"
    /\ faults = 0 /\ runs = 0
    /\ before = [keg |-> keg, link |-> link, opt |-> opt, linked |-> linked,
                 conf |-> conf, rackDir |-> rackDir]

Goto(label) == pc' = label
Fault == faults < MaxFaults /\ faults' = faults + 1
NoFault == UNCHANGED faults
Mark(field, value) == journal' = [journal EXCEPT ![field] = value]
Report(paths) == leftovers' = leftovers \cup paths

\* `Err(original)' of apply before the commit: install() calls rollback.
Fail == Goto("undoSteps")

-----------------------------------------------------------------------------
(* What link.rs sees at a destination.                                     *)

Dangling(f) == link[f] = "stale" \/ (link[f] \in Versions /\ keg[link[f]] = "none")
Mine(f, v)  == link[f] = v /\ keg[v] # "none"
Conflicts(v) ==
    {f \in Ships[v] : keg[v] # "none" /\ link[f] # "free" /\ ~Dangling(f) /\ ~Mine(f, v)}
Planned(v) ==
    {f \in Ships[v] : keg[v] # "none" /\ (link[f] = "free" \/ Dangling(f))}
ResolvingTo(v) == {f \in Files : Mine(f, v)}

\* Op::Symlink at f: remove_file first if the plan found a dangling link, then
\* symlink(2), which refuses a destination that has appeared meanwhile.
SymlinkOk(f, v) ==
    /\ (f \in clear) = (link[f] # "free")
    /\ link' = [link EXCEPT ![f] = v]
SymlinkError(f) ==
    \/ (f \in clear) # (link[f] # "free") /\ NoFault /\ UNCHANGED link
    \/ Fault /\ UNCHANGED link
    \/ Fault /\ f \in clear /\ link[f] # "free" /\ link' = [link EXCEPT ![f] = "free"]

\* write_record: remove the old symlink, then create the new one.
RecordError(new, old) == Fault /\ new \in {old, NoVersion}

-----------------------------------------------------------------------------
(* Start: the scan that replacement() and linked_replacement() read.       *)

Begin ==
    /\ pc = "idle" /\ runs < MaxRuns
    /\ \E kegOnly \in BOOLEAN, alone \in {TRUE, ~Neighbours} :
          input' = [old |-> IF linked \in Installed THEN linked ELSE NoVersion,
                    target |-> keg[New] # "none", kegOnly |-> kegOnly, alone |-> alone]
    /\ keg' = [v \in Versions |-> IF keg[v] = "none" THEN "none" ELSE "old"]
    /\ conf' = [c \in Configs |-> IF conf[c] = "absent" THEN "absent" ELSE "user"]
    /\ orphans' = orphans \cup (IF stage # "none" THEN {"stage"} ELSE {})
                          \cup (IF backup # "none" THEN {"backup"} ELSE {})
    /\ stage' = "none" /\ backup' = "none" /\ steps' = FALSE
    /\ journal' = EmptyJournal /\ todo' = {} /\ clear' = {} /\ leftovers' = {}
    /\ before' = [keg |-> keg', link |-> link, opt |-> opt, linked |-> linked,
                  conf |-> conf', rackDir |-> rackDir]
    /\ Goto("rack") /\ result' = "running" /\ runs' = runs + 1
    /\ UNCHANGED <<rackDir, prefixVars, faults>>

-----------------------------------------------------------------------------
(* apply                                                                   *)

EnsureRack ==
    /\ pc = "rack"
    /\ \/ rackDir /\ Goto("stage") /\ NoFault /\ UNCHANGED <<rackDir, journal>>
       \/ ~rackDir /\ Mark("created", TRUE)
          /\ \/ rackDir' = TRUE /\ Goto("stage") /\ NoFault
             \/ Fault /\ Fail /\ UNCHANGED rackDir
    /\ UNCHANGED <<keg, stage, backup, orphans, prefixVars, conf, steps, input,
                   loopVars, leftovers, result, runs, before>>

CreateStage ==
    /\ pc = "stage"
    /\ \/ stage' = "shell" /\ Mark("stage", TRUE) /\ Goto("unpack") /\ NoFault
       \/ Fault /\ Fail /\ UNCHANGED <<stage, journal>>
    /\ UNCHANGED <<keg, backup, orphans, rackDir, prefixVars, conf, steps, input,
                   loopVars, leftovers, result, runs, before>>

\* unpack, relocate, the receipt and inventory: all inside the staging directory.
Unpack ==
    /\ pc = "unpack"
    /\ \/ /\ stage' = "ready" /\ NoFault
          /\ Goto(IF input.old = NoVersion THEN "aside" ELSE "unlink")
       \/ Fault /\ stage' = "partial" /\ Fail
    /\ UNCHANGED <<keg, backup, orphans, rackDir, prefixVars, conf, steps, journal,
                   input, loopVars, leftovers, result, runs, before>>

UnlinkOld ==
    /\ pc = "unlink"
    /\ \/ /\ todo' = {f \in Ships[input.old] : Mine(f, input.old)}
          /\ Goto("unlinkFile") /\ NoFault
       \/ Fault /\ Fail /\ UNCHANGED todo
    /\ UNCHANGED <<diskVars, prefixVars, conf, steps, journal, input, clear,
                   leftovers, result, runs, before>>

UnlinkOldFile(f) ==
    /\ pc = "unlinkFile" /\ f \in todo
    /\ \/ /\ Mine(f, input.old) /\ NoFault
          /\ link' = [link EXCEPT ![f] = "free"]
          /\ Mark("bare", FALSE)
          /\ todo' = todo \ {f} /\ UNCHANGED pc
       \/ /\ ~Mine(f, input.old) /\ NoFault
          /\ todo' = todo \ {f} /\ UNCHANGED <<link, journal, pc>>
       \/ Fault /\ Fail /\ todo' = {} /\ UNCHANGED <<link, journal>>
    /\ UNCHANGED <<diskVars, opt, linked, conf, steps, input, clear, leftovers,
                   result, runs, before>>

UnlinkOldRecord ==
    /\ pc = "unlinkFile" /\ todo = {}
    /\ \/ linked' = (IF linked = input.old THEN NoVersion ELSE linked)
          /\ Goto("prune") /\ NoFault
       \/ Fault /\ Fail /\ UNCHANGED linked
    /\ UNCHANGED <<diskVars, link, opt, conf, steps, journal, input, loopVars,
                   leftovers, result, runs, before>>

\* The journal learns of the unlink only once all of it succeeded.
Prune ==
    /\ pc = "prune"
    /\ \/ Mark("unlinked", TRUE) /\ Goto("aside") /\ NoFault
       \/ Fault /\ Fail /\ UNCHANGED journal
    /\ UNCHANGED <<diskVars, prefixVars, conf, steps, input, loopVars, leftovers,
                   result, runs, before>>

\* journal.backup is set before the rename.
SetAside ==
    /\ pc = "aside"
    /\ \/ /\ ~input.target
          /\ Goto("promote") /\ NoFault /\ UNCHANGED <<keg, backup, journal>>
       \/ /\ input.target /\ Mark("backup", TRUE)
          /\ \/ /\ backup' = keg[New] /\ keg' = [keg EXCEPT ![New] = "none"]
                /\ Goto("promote") /\ NoFault
             \/ Fault /\ Fail /\ UNCHANGED <<keg, backup>>
    /\ UNCHANGED <<stage, orphans, rackDir, prefixVars, conf, steps, input, loopVars,
                   leftovers, result, runs, before>>

\* journal.promoted is set before the rename, which refuses an occupied path.
Promote ==
    /\ pc = "promote" /\ Mark("promoted", TRUE)
    /\ \/ /\ keg[New] = "none" /\ keg' = [keg EXCEPT ![New] = "new"]
          /\ stage' = "shell" /\ Goto("shell") /\ NoFault
       \/ keg[New] # "none" /\ Fail /\ NoFault /\ UNCHANGED <<keg, stage>>
       \/ Fault /\ Fail /\ UNCHANGED <<keg, stage>>
    /\ UNCHANGED <<backup, orphans, rackDir, prefixVars, conf, steps, input, loopVars,
                   leftovers, result, runs, before>>

\* Mutant: the journal forgets the staging directory before it is removed.
RemoveShellForgets ==
    /\ pc = "shell" /\ Mark("stage", FALSE)
    /\ \/ stage' = "none" /\ Goto("link") /\ NoFault
       \/ Fault /\ Fail /\ UNCHANGED stage
    /\ UNCHANGED <<keg, backup, orphans, rackDir, prefixVars, conf, steps, input,
                   loopVars, leftovers, result, runs, before>>

RemoveShell ==
    /\ pc = "shell"
    /\ \/ stage' = "none" /\ Mark("stage", FALSE) /\ Goto("link") /\ NoFault
       \/ Fault /\ Fail /\ stage' \in {"shell", "torn"} /\ UNCHANGED journal
    /\ UNCHANGED <<keg, backup, orphans, rackDir, prefixVars, conf, steps, input,
                   loopVars, leftovers, result, runs, before>>

\* Mutant: report.conflicts is not looked at.
LinkNewAnyway ==
    /\ pc = "link" /\ Mark("linkTried", TRUE) /\ NoFault
    /\ todo' = (IF input.kegOnly THEN {} ELSE Planned(New))
    /\ clear' = {f \in todo' : Dangling(f)} /\ Goto("linkFile")
    /\ UNCHANGED <<diskVars, prefixVars, conf, steps, input, leftovers, result, runs,
                   before>>

\* A conflict is a Refusal before anything is written.
LinkNew ==
    /\ pc = "link" /\ Mark("linkTried", TRUE)
    /\ \/ /\ input.kegOnly \/ Conflicts(New) = {}
          /\ todo' = (IF input.kegOnly THEN {} ELSE Planned(New))
          /\ clear' = {f \in todo' : Dangling(f)}
          /\ Goto("linkFile") /\ NoFault
       \/ /\ ~input.kegOnly /\ Conflicts(New) # {}
          /\ Fail /\ NoFault /\ UNCHANGED loopVars
       \/ Fault /\ Fail /\ UNCHANGED loopVars
    /\ UNCHANGED <<diskVars, prefixVars, conf, steps, input, leftovers, result, runs,
                   before>>

LinkNewFile(f) ==
    /\ pc = "linkFile" /\ f \in todo
    /\ \/ SymlinkOk(f, New) /\ todo' = todo \ {f} /\ NoFault /\ UNCHANGED <<pc, clear>>
       \/ SymlinkError(f) /\ Fail /\ todo' = {} /\ clear' = {}
    /\ UNCHANGED <<diskVars, opt, linked, conf, steps, journal, input, leftovers,
                   result, runs, before>>

LinkNewOpt ==
    /\ pc = "linkFile" /\ todo = {} /\ clear' = {}
    /\ \/ opt' = New /\ Goto("linkRecord") /\ NoFault
       \/ RecordError(opt', opt) /\ Fail
    /\ UNCHANGED <<diskVars, link, linked, conf, steps, journal, input, todo,
                   leftovers, result, runs, before>>

LinkNewRecord ==
    /\ pc = "linkRecord"
    /\ \/ linked' = New /\ Goto("skeleton") /\ NoFault
       \/ RecordError(linked', linked) /\ Fail
    /\ UNCHANGED <<diskVars, link, opt, conf, steps, journal, input, loopVars,
                   leftovers, result, runs, before>>

\* copy_absent_tree: the entry is journaled first, then created.
CopySkeleton(c) ==
    /\ pc = "skeleton" /\ conf[c] = "absent"
    /\ Mark("skeleton", journal.skeleton \cup {c})
    /\ \/ conf' = [conf EXCEPT ![c] = "new"] /\ NoFault /\ UNCHANGED pc
       \/ /\ Fault /\ Fail
          /\ \E left \in {"absent", "new"} : conf' = [conf EXCEPT ![c] = left]
    /\ UNCHANGED <<diskVars, prefixVars, steps, input, loopVars, leftovers, result,
                   runs, before>>

SkeletonCopied ==
    /\ pc = "skeleton" /\ \A c \in Configs : conf[c] # "absent"
    /\ Goto("steps")
    /\ UNCHANGED <<diskVars, prefixVars, conf, steps, journal, input, loopVars,
                   leftovers, result, faults, runs, before>>

\* The journaled file-system steps; success is the commit point.
RunSteps ==
    /\ pc = "steps" /\ steps' \in BOOLEAN
    /\ \/ /\ Mark("committed", TRUE) /\ result' = "committed"
          /\ Goto("dropBackup") /\ NoFault
       \/ Fault /\ Fail /\ UNCHANGED <<journal, result>>
    /\ UNCHANGED <<diskVars, prefixVars, conf, input, loopVars, leftovers, runs, before>>

\* remove_after_commit of the backup: a failure is reported, never rolled back.
DropBackup ==
    /\ pc = "dropBackup" /\ Goto("dropScratch")
    /\ \/ backup' = "none" /\ NoFault /\ UNCHANGED leftovers
       \/ /\ backup # "none" /\ Fault
          /\ backup' \in {backup, "torn"} /\ Report({"backup"})
    /\ UNCHANGED <<keg, stage, orphans, rackDir, prefixVars, conf, steps, journal,
                   input, loopVars, result, runs, before>>

DropScratch ==
    /\ pc = "dropScratch" /\ Goto("idle")
    /\ \/ NoFault /\ UNCHANGED leftovers
       \/ steps /\ Fault /\ Report({"scratch"})
    /\ result' = (IF leftovers' = {} THEN "ok" ELSE "cleanup")
    /\ UNCHANGED <<diskVars, prefixVars, conf, steps, journal, input, loopVars, runs,
                   before>>

-----------------------------------------------------------------------------
(* rollback                                                                *)

UndoSteps ==
    /\ pc = "undoSteps" /\ Goto("undoSkeleton")
    /\ \/ steps' = FALSE /\ NoFault /\ UNCHANGED leftovers
       \/ steps /\ Fault /\ Report({"steps"}) /\ UNCHANGED steps
    /\ UNCHANGED <<diskVars, prefixVars, conf, journal, input, loopVars, result, runs,
                   before>>

UndoSkeleton(c) ==
    /\ pc = "undoSkeleton" /\ c \in journal.skeleton
    /\ Mark("skeleton", journal.skeleton \ {c})
    /\ \/ conf' = [conf EXCEPT ![c] = "absent"] /\ NoFault /\ UNCHANGED leftovers
       \/ conf[c] # "absent" /\ Fault /\ Report({c}) /\ UNCHANGED conf
    /\ UNCHANGED <<diskVars, prefixVars, steps, input, loopVars, pc, result, runs,
                   before>>

\* unlink(final_keg) failed: collect_symlinks_to reports what still points there.
ReportLinks ==
    Report(ResolvingTo(New) \cup (IF opt = New THEN {"opt"} ELSE {})
                            \cup (IF linked = New THEN {"linked"} ELSE {}))

UndoLink ==
    /\ pc = "undoSkeleton" /\ journal.skeleton = {}
    /\ \/ /\ ~journal.linkTried
          /\ Goto("undoKeg") /\ NoFault /\ UNCHANGED <<todo, leftovers>>
       \/ /\ journal.linkTried
          /\ \/ /\ todo' = {f \in Ships[New] : Mine(f, New)}
                /\ Goto("undoLinkFile") /\ NoFault /\ UNCHANGED leftovers
             \/ Fault /\ ReportLinks /\ Goto("undoKeg") /\ UNCHANGED todo
    /\ UNCHANGED <<diskVars, prefixVars, conf, steps, journal, input, clear, result,
                   runs, before>>

\* Mutant: a link that is gone already is tried again for ever.
UndoLinkFileRetry(f) ==
    /\ pc = "undoLinkFile" /\ f \in todo /\ NoFault
    /\ link' = (IF Mine(f, New) THEN [link EXCEPT ![f] = "free"] ELSE link)
    /\ UNCHANGED <<diskVars, opt, linked, conf, steps, journal, input, clear, todo,
                   leftovers, pc, result, runs, before>>

UndoLinkFile(f) ==
    /\ pc = "undoLinkFile" /\ f \in todo
    /\ \/ /\ link' = (IF Mine(f, New) THEN [link EXCEPT ![f] = "free"] ELSE link)
          /\ todo' = todo \ {f} /\ NoFault /\ UNCHANGED <<pc, leftovers>>
       \/ /\ Mine(f, New) /\ Fault /\ ReportLinks
          /\ todo' = {} /\ Goto("undoKeg") /\ UNCHANGED link
    /\ UNCHANGED <<diskVars, opt, linked, conf, steps, journal, input, clear, result,
                   runs, before>>

\* The linked record is dropped; opt is kept.
UndoLinkRecord ==
    /\ pc = "undoLinkFile" /\ todo = {} /\ Goto("undoKeg")
    /\ \/ /\ linked' = (IF linked = New THEN NoVersion ELSE linked)
          /\ NoFault /\ UNCHANGED leftovers
       \/ /\ Fault /\ linked' \in {linked, IF linked = New THEN NoVersion ELSE linked}
          /\ Report((IF opt = New THEN {"opt"} ELSE {})
                    \cup (IF linked' = New THEN {"linked"} ELSE {}) \cup ResolvingTo(New))
    /\ UNCHANGED <<diskVars, link, opt, conf, steps, journal, input, loopVars, result,
                   runs, before>>

\* Mutant: rollback removes the final keg path without asking journal.promoted.
UndoKegAlways ==
    /\ pc = "undoKeg" /\ Goto("undoBackup") /\ NoFault
    /\ keg' = [keg EXCEPT ![New] = "none"]
    /\ UNCHANGED <<stage, backup, orphans, rackDir, prefixVars, conf, steps, journal,
                   input, loopVars, leftovers, result, runs, before>>

UndoKeg ==
    /\ pc = "undoKeg" /\ Goto("undoBackup")
    /\ \/ /\ ~(journal.promoted /\ keg[New] # "none")
          /\ NoFault /\ UNCHANGED <<keg, leftovers>>
       \/ /\ journal.promoted /\ keg[New] # "none"
          /\ \/ keg' = [keg EXCEPT ![New] = "none"] /\ NoFault /\ UNCHANGED leftovers
             \/ /\ Fault /\ Report({"keg"})
                /\ \E c \in {keg[New], "torn"} : keg' = [keg EXCEPT ![New] = c]
    /\ UNCHANGED <<stage, backup, orphans, rackDir, prefixVars, conf, steps, journal,
                   input, loopVars, result, runs, before>>

\* Mutant: rollback does not rename the backup back.
UndoBackupSkipped ==
    /\ pc = "undoBackup" /\ Goto(IF journal.unlinked THEN "relink" ELSE "undoStage")
    /\ UNCHANGED <<diskVars, prefixVars, conf, steps, journal, input, loopVars,
                   leftovers, faults, result, runs, before>>

UndoBackup ==
    /\ pc = "undoBackup" /\ Goto(IF journal.unlinked THEN "relink" ELSE "undoStage")
    /\ \/ /\ ~(journal.backup /\ backup # "none")
          /\ NoFault /\ UNCHANGED <<keg, backup, leftovers>>
       \/ /\ journal.backup /\ backup # "none"
          /\ \/ /\ keg[New] = "none" /\ keg' = [keg EXCEPT ![New] = backup]
                /\ backup' = "none" /\ NoFault /\ UNCHANGED leftovers
             \/ /\ keg[New] # "none" /\ NoFault
                /\ Report({"backup"}) /\ UNCHANGED <<keg, backup>>
             \/ Fault /\ Report({"backup"}) /\ UNCHANGED <<keg, backup>>
    /\ UNCHANGED <<stage, orphans, rackDir, prefixVars, conf, steps, journal, input,
                   loopVars, result, runs, before>>

\* link(old, keg_only: bare): an Err is reported, a report with conflicts is not.
RelinkError == Report({"old", "linked", "opt"}) /\ Goto("undoStage")

Relink ==
    /\ pc = "relink"
    /\ \/ /\ journal.bare \/ Conflicts(input.old) = {}
          /\ todo' = (IF journal.bare THEN {} ELSE Planned(input.old))
          /\ clear' = {f \in todo' : Dangling(f)}
          /\ Goto("relinkFile") /\ NoFault /\ UNCHANGED leftovers
       \/ /\ ~journal.bare /\ Conflicts(input.old) # {}
          /\ Goto("undoStage") /\ NoFault /\ UNCHANGED <<loopVars, leftovers>>
       \/ Fault /\ RelinkError /\ UNCHANGED loopVars
    /\ UNCHANGED <<diskVars, prefixVars, conf, steps, journal, input, result, runs,
                   before>>

RelinkFile(f) ==
    /\ pc = "relinkFile" /\ f \in todo
    /\ \/ /\ SymlinkOk(f, input.old) /\ todo' = todo \ {f}
          /\ NoFault /\ UNCHANGED <<pc, clear, leftovers>>
       \/ SymlinkError(f) /\ RelinkError /\ todo' = {} /\ clear' = {}
    /\ UNCHANGED <<diskVars, opt, linked, conf, steps, journal, input, result, runs,
                   before>>

RelinkOpt ==
    /\ pc = "relinkFile" /\ todo = {} /\ clear' = {}
    /\ \/ opt' = input.old /\ Goto("relinkRecord") /\ NoFault /\ UNCHANGED leftovers
       \/ RecordError(opt', opt) /\ RelinkError
    /\ UNCHANGED <<diskVars, link, linked, conf, steps, journal, input, todo, result,
                   runs, before>>

RelinkRecord ==
    /\ pc = "relinkRecord"
    /\ \/ linked' = input.old /\ Goto("undoStage") /\ NoFault /\ UNCHANGED leftovers
       \/ RecordError(linked', linked) /\ RelinkError
    /\ UNCHANGED <<diskVars, link, opt, conf, steps, journal, input, loopVars, result,
                   runs, before>>

UndoStage ==
    /\ pc = "undoStage" /\ Goto("undoRack")
    /\ \/ /\ ~(journal.stage /\ stage # "none")
          /\ NoFault /\ UNCHANGED <<stage, leftovers>>
       \/ /\ journal.stage /\ stage # "none"
          /\ \/ stage' = "none" /\ NoFault /\ UNCHANGED leftovers
             \/ Fault /\ stage' \in {stage, "torn"} /\ Report({"stage"})
    /\ UNCHANGED <<keg, backup, orphans, rackDir, prefixVars, conf, steps, journal,
                   input, loopVars, result, runs, before>>

\* safe_remove_empty_dir: a rack that is not empty stays, without complaint.
RackEmpty == Installed = {} /\ stage = "none" /\ backup = "none" /\ orphans = {}

UndoRack ==
    /\ pc = "undoRack" /\ Goto("idle")
    /\ \/ /\ rackDir' = (rackDir /\ ~(journal.created /\ RackEmpty))
          /\ NoFault /\ UNCHANGED leftovers
       \/ journal.created /\ rackDir /\ Fault /\ Report({"rack"}) /\ UNCHANGED rackDir
    /\ result' = (IF leftovers' = {} THEN "failed" ELSE "incomplete")
    /\ UNCHANGED <<keg, stage, backup, orphans, prefixVars, conf, steps, journal,
                   input, loopVars, runs, before>>

-----------------------------------------------------------------------------
(* The rest of the world.                                                  *)

\* The process is killed: the journal is in memory only, nothing recovers it.
Crash ==
    /\ pc # "idle" /\ Goto("idle") /\ result' = "crashed"
    /\ UNCHANGED <<diskVars, prefixVars, conf, steps, journal, input, loopVars,
                   leftovers, faults, runs, before>>

\* Another formula's process links or unlinks a destination of its own: the
\* formula locks do not cover the prefix.  (Before the transaction Init, and
\* after it nothing, depends on when.)
OtherFormula(f) ==
    /\ pc # "idle" /\ ~input.alone
    /\ \/ (link[f] = "free" \/ Dangling(f)) /\ link' = [link EXCEPT ![f] = "other"]
       \/ link[f] = "other" /\ link' = [link EXCEPT ![f] = "free"]
    /\ UNCHANGED <<diskVars, opt, linked, conf, steps, journal, input, loopVars,
                   leftovers, ctlVars, faults, before>>

Apply ==
    \/ EnsureRack \/ CreateStage \/ Unpack \/ UnlinkOld \/ UnlinkOldRecord \/ Prune
    \/ SetAside \/ Promote \/ RemoveShell \/ LinkNew \/ LinkNewOpt \/ LinkNewRecord
    \/ SkeletonCopied \/ RunSteps \/ DropBackup \/ DropScratch
    \/ \E f \in Files : UnlinkOldFile(f) \/ LinkNewFile(f)
    \/ \E c \in Configs : CopySkeleton(c)

RollBack ==
    \/ UndoSteps \/ UndoLink \/ UndoLinkRecord \/ UndoKeg \/ UndoBackup
    \/ Relink \/ RelinkOpt \/ RelinkRecord \/ UndoStage \/ UndoRack
    \/ \E f \in Files : UndoLinkFile(f) \/ RelinkFile(f)
    \/ \E c \in Configs : UndoSkeleton(c)

Next == Begin \/ Apply \/ RollBack \/ Crash \/ \E f \in Files : OtherFormula(f)

Spec == Init /\ [][Next]_vars

\* A started transaction keeps running: one thread, no waiting, unless killed.
FairSpec == Spec /\ WF_vars(Apply \/ RollBack)

-----------------------------------------------------------------------------
(* Properties                                                              *)

DiskTypes ==
    /\ keg \in [Versions -> Content] /\ stage \in Stages /\ backup \in Content
    /\ orphans \subseteq {"stage", "backup"} /\ rackDir \in BOOLEAN
    /\ conf \in [Configs -> {"absent", "user", "new"}] /\ steps \in BOOLEAN

PrefixTypes ==
    /\ link \in [Files -> Owners] /\ opt \in Records /\ linked \in Records
    /\ todo \subseteq Files /\ clear \subseteq Files

ControlTypes ==
    /\ journal \in JournalType /\ input \in InputType /\ before \in SnapshotType
    /\ pc \in Labels /\ result \in Results
    /\ faults \in 0 .. MaxFaults /\ runs \in 0 .. MaxRuns

\* Type correctness of every variable.
TypeOK == DiskTypes /\ PrefixTypes /\ ControlTypes

\* At every instant, so also where a killed process leaves the disk: a keg that
\* was installed is in place or whole in the backup, until the new keg that
\* replaces that same version is committed.  (The renames of apply, rollback and
\* remove_after_commit.)
KegSurvives ==
    \A v \in Versions : before.keg[v] = "old" =>
        \/ keg[v] = "old"
        \/ v = New /\ backup = "old"
        \/ v = New /\ journal.committed /\ keg[v] = "new"

\* The disk but for the prefix links is as before, and nothing in the prefix has
\* come to link to a keg that is not there.
DiskRestored ==
    /\ keg = before.keg /\ stage = "none" /\ backup = "none"
    /\ rackDir = before.rackDir /\ conf = before.conf /\ ~steps
    /\ linked = New => keg[New] # "none" \/ before.linked = New
    /\ \A f \in Files : link[f] = New => keg[New] # "none" \/ before.link[f] = New

\* A committed transaction has installed everything: the keg, both records,
\* every link (unless keg-only) and the skeleton; no link of the keg it replaced
\* is left; an "ok" one leaves no backup either.  Also when an earlier run was
\* killed at any point or gave up.  (apply up to Summary.)
CommittedComplete ==
    result \in {"committed", "ok", "cleanup"} =>
        /\ keg[New] = "new" /\ stage = "none" /\ opt = New /\ linked = New
        /\ input.kegOnly \/ \A f \in Ships[New] : link[f] = New
        /\ \A c \in Configs : conf[c] # "absent"
        /\ \A f \in Files : link[f] # New => link[f] # input.old
        /\ result = "ok" => backup = "none"

\* The linked record and exactly the links into kegs that were there are back.
ViewRestored ==
    /\ linked = before.linked
    /\ \A f \in Files :
           before.link[f] \in Versions \/ link[f] \in Versions => link[f] = before.link[f]

\* A transaction that returns the plain original error has undone its own disk
\* changes: kegs, staging, backup, rack directory, skeleton and steps are as
\* before, also when an earlier run was killed or could not undo everything.  With
\* nobody else at work and no wreck of an earlier run, after a complete unlink of
\* the old keg or with none to unlink, the prefix links are back too.  (rollback
\* with no leftovers; old_unlinked and the relink.)
CleanFailure ==
    result = "failed" =>
        /\ DiskRestored
        /\ input.alone /\ runs = 1 /\ (journal.unlinked \/ input.old = NoVersion)
              => ViewRestored

\* The rack as a transaction's caller may think of it: before the commit the
\* replaced keg counts as installed while it is in the backup, and the promoted
\* one does not.
LogicalRack ==
    IF result = "running"
    THEN [keg EXCEPT ![New] = IF backup = "old" \/ keg[New] = "old" THEN "old" ELSE "none"]
    ELSE keg

Abstract == INSTANCE RackUpdate WITH rack <- LogicalRack

\* Seen that way the transaction is atomic: it implements RackUpdate.
AtomicOnRack == Abstract!RackSpec

\* A transaction that is not killed comes to an end.
Terminates == result = "running" ~> result \notin {"running", "committed"}

=============================================================================
