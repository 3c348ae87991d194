----------------------------- MODULE RemovalTxn -----------------------------
(***************************************************************************)
(* Removing kegs: RemovalTransaction::apply and ::rollback of              *)
(* zapbrew-ops/src/transaction.rs (uninstall and autoremove, any number of *)
(* formulae at once) and cleanup_replaced_kegs (the old kegs after an      *)
(* upgrade).  Kegs are renamed into one trash directory beside the Cellar; *)
(* deleting it is the last thing that happens.  One file-system call per   *)
(* step; any may fail, and the process may be killed between two.          *)
(*                                                                         *)
(* The nested loops of apply and rollback are run from `tasks', the        *)
(* sequence of calls they have still to make.                              *)
(***************************************************************************)
EXTENDS Naturals, FiniteSets, SequencesExt, Loops

CONSTANTS
    Order,      \* the formulae, in the order of a BTreeSet: a sequence
    Kegs,
    Racks,      \* Racks[f]: the kegs f may have, oldest version first
    Files,      \* prefix destinations the kegs link
    Ships,      \* Ships[k]: the destinations keg k has a file for
    NoKeg,      \* Option::None, or a symlink that is not there
    Neighbours, \* processes of other formulae link meanwhile
    MaxFaults   \* bound: failing calls in one behaviour

Formulae == {Order[i] : i \in 1 .. Len(Order)}
KegsOf(f) == {Racks[f][i] : i \in 1 .. Len(Racks[f])}

ASSUME RemovalAssumption ==
    /\ Order \in Seq(Formulae) /\ IsInjective(Order)
    /\ Racks \in [Formulae -> Seq(Kegs)] /\ \A f \in Formulae : IsInjective(Racks[f])
    /\ Kegs = UNION {KegsOf(f) : f \in Formulae}
    /\ \A f, g \in Formulae : f # g => KegsOf(f) \cap KegsOf(g) = {}
    /\ NoKeg \notin Kegs /\ Kegs \cap {"free", "other"} = {}
    /\ Ships \in [Kegs -> SUBSET Files]
    /\ Neighbours \in BOOLEAN /\ MaxFaults \in Nat

VARIABLES
    place,      \* where each keg is
    rackDir,    \* rack directories that exist
    link,       \* the keg each prefix destination resolves into
    record,     \* the symlinks opt/<f>, var/homebrew/linked/<f>, pinned/<f>
    trash,      \* the trash root exists
    kind,       \* "uninstall" (RemovalTransaction) or "upgrade"
                \* (cleanup_replaced_kegs)
    targets,    \* the kegs to remove
    records,    \* RemovalRecord: formulae whose three symlinks were read
    racked,     \* ... and those with rack_removed
    staged,     \* Vec<StagedRemoval>
    unlinked,   \* Vec<UnlinkedKeg>
    committed,
    tasks,
    todo,       \* destinations a link or unlink loop has left
    clear,      \* of those, the dangling links it removes first
    bare,       \* report.removed of the running unlink is empty
    leftovers, pc, result, faults,
    before      \* the disk when the removal began

diskVars    == <<place, rackDir, link, record, trash>>
journalVars == <<records, racked, staged, unlinked, committed>>
inputVars   == <<kind, targets, before>>
vars == <<diskVars, journalVars, inputVars, tasks, todo, clear, bare, leftovers, pc, result,
          faults>>

Names == {"opt", "linked", "pin"}
FormulaOf(k) == CHOOSE f \in Formulae : k \in KegsOf(f)
Installed == {k \in Kegs : place[k] = "rack"}

\* A loop whose body is one call.
CallEach(op, s) == [i \in 1 .. Len(s) |-> [op |-> op, arg |-> s[i]]]

InstalledSeq(f) == Chosen(Racks[f], Installed)

Fault == faults < MaxFaults /\ faults' = faults + 1
NoFault == UNCHANGED faults
Report(paths) == leftovers' = leftovers \cup paths
Op == Head(tasks).op
Arg == Head(tasks).arg
Done == tasks' = Tail(tasks)

Init ==
    /\ place \in [Kegs -> {"rack", "gone"}]
    /\ rackDir = {f \in Formulae : \E k \in KegsOf(f) : place[k] = "rack"}
    /\ record \in [Names -> [Formulae -> Kegs \cup {NoKeg}]]
    /\ \A f \in Formulae :
          /\ record["opt"][f] \in (Installed \cap KegsOf(f)) \cup {NoKeg}
          /\ record["linked"][f] \in {record["opt"][f], NoKeg}
          /\ record["pin"][f] \in {record["opt"][f], NoKeg}
    /\ link \in [Files -> Kegs \cup {"free", "other"}]
    /\ \A k \in Kegs :
          {d \in Files : link[d] = k}
             \in {{}, IF record["linked"][FormulaOf(k)] = k THEN Ships[k] ELSE {}}
    /\ trash = FALSE /\ kind = "none" /\ targets = {}
    /\ records = {} /\ racked = {} /\ staged = <<>> /\ unlinked = <<>>
    /\ committed = FALSE
    /\ tasks = <<>> /\ todo = {} /\ clear = {} /\ bare = TRUE /\ leftovers = {}
    /\ pc = "idle" /\ result = "none" /\ faults = 0
    /\ before = [place |-> place, rackDir |-> rackDir, link |-> link, record |-> record]

-----------------------------------------------------------------------------
(* What is asked for.                                                      *)

\* targets() of uninstall.rs: every keg with --force, else the linked, the
\* opt-linked or the latest one.
Targets(f, force) ==
    LET one == IF record["linked"][f] # NoKeg THEN record["linked"][f]
               ELSE IF record["opt"][f] # NoKeg THEN record["opt"][f]
               ELSE InstalledSeq(f)[Len(InstalledSeq(f))]
    IN  IF force THEN InstalledSeq(f) ELSE <<one>>

RemoveRack(f, force) == Len(Targets(f, force)) = Len(InstalledSeq(f))

\* Mutant: opt is only removed together with the rack.
KegTasksNoOpt(k) ==
    (IF record["linked"][FormulaOf(k)] = k THEN <<[op |-> "unlink", arg |-> k]>> ELSE <<>>)
    \o <<[op |-> "move", arg |-> k]>>

\* The calls of the body of apply's loop over one keg, and over one formula.
KegTasks(k) ==
    (IF record["linked"][FormulaOf(k)] = k THEN <<[op |-> "unlink", arg |-> k]>> ELSE <<>>)
    \o (IF record["opt"][FormulaOf(k)] = k
        THEN <<[op |-> "opt", arg |-> FormulaOf(k)]>> ELSE <<>>)
    \o <<[op |-> "move", arg |-> k]>>
FormulaTasks(f, force) ==
    (IF RemoveRack(f, force) THEN <<[op |-> "pin", arg |-> f]>> ELSE <<>>)
    \o Each(Targets(f, force), KegTasks)
    \o (IF RemoveRack(f, force)
        THEN <<[op |-> "opt", arg |-> f], [op |-> "linked", arg |-> f],
               [op |-> "rack", arg |-> f]>>
        ELSE <<>>)

\* The removal as asked for; `doomed' are the kegs it will move away.
Start(what, calls) ==
    /\ pc = "idle" /\ result = "none" /\ kind' = what /\ tasks' = calls
    /\ targets' = {calls[i].arg : i \in {j \in 1 .. Len(calls) : calls[j].op = "move"}}
    /\ targets' # {}
    /\ before' = [place |-> place, rackDir |-> rackDir, link |-> link, record |-> record]
    /\ pc' = "begin" /\ result' = "running"
    /\ UNCHANGED <<diskVars, journalVars, todo, clear, bare, leftovers, faults>>

\* uninstall of a set of installed formulae.  A pinned one needs --force.
BeginUninstall ==
    \E names \in SUBSET {f \in Formulae : InstalledSeq(f) # <<>>}, force \in BOOLEAN :
       LET OfFormula(f) == FormulaTasks(f, force)
       IN  /\ force \/ \A f \in names : record["pin"][f] = NoKeg
           /\ Start("uninstall", Each(Chosen(Order, names), OfFormula))

\* After an upgrade linked a keg: the formula's other kegs.
BeginCleanup ==
    \E f \in Formulae :
       /\ record["linked"][f] # NoKeg
       /\ Start("upgrade",
                CallEach("move", Chosen(Racks[f], Installed \ {record["linked"][f]})))

-----------------------------------------------------------------------------
(* apply                                                                   *)

Fail == pc' = "fail" /\ tasks' = <<>>

\* Everything is inspected before anything is changed; a failure leaves the
\* records of the formulae already read.
ReadRecords ==
    /\ pc = "begin"
    /\ LET names == {FormulaOf(k) : k \in targets}
       IN  \/ /\ records' = (IF kind = "uninstall" THEN names ELSE {})
              /\ pc' = "trash" /\ NoFault /\ UNCHANGED tasks
           \/ /\ kind = "uninstall" /\ Fault /\ Fail
              /\ \E n \in 0 .. Len(Order) :
                    /\ records' = names \cap {Order[i] : i \in 1 .. n}
                    /\ records' # names
    /\ UNCHANGED <<diskVars, inputVars, racked, staged, unlinked, committed, todo, clear,
                   bare, leftovers, result>>

CreateTrash ==
    /\ pc = "trash"
    /\ \/ trash' = TRUE /\ pc' = "apply" /\ NoFault /\ UNCHANGED tasks
       \/ Fault /\ Fail /\ UNCHANGED trash
    /\ UNCHANGED <<place, rackDir, link, record, journalVars, inputVars, todo, clear,
                   bare, leftovers, result>>

\* The next call fails and changes nothing.
CallFails ==
    /\ pc = "apply" /\ tasks # <<>> /\ Fault /\ Fail
    /\ UNCHANGED <<diskVars, journalVars, inputVars, todo, clear, bare, leftovers, result>>

\* remove_symlink_entry, whatever the symlink points to.
RemoveRecord ==
    /\ pc = "apply" /\ tasks # <<>> /\ Op \in Names
    /\ record' = [record EXCEPT ![Op][Arg] = NoKeg]
    /\ Done /\ NoFault
    /\ UNCHANGED <<place, rackDir, link, trash, journalVars, inputVars, todo, clear, bare,
                   leftovers, pc, result>>

Dangling(d) == link[d] \in Kegs /\ place[link[d]] # "rack"
Mine(d, k) == link[d] = k /\ place[k] = "rack"

Unlink ==
    /\ pc = "apply" /\ tasks # <<>> /\ Op = "unlink"
    /\ todo' = {d \in Ships[Arg] : Mine(d, Arg)} /\ bare' = TRUE
    /\ pc' = "unlinking" /\ NoFault
    /\ UNCHANGED <<diskVars, journalVars, inputVars, tasks, clear, leftovers, result>>

UnlinkFile(d) ==
    /\ pc = "unlinking" /\ d \in todo
    /\ \/ /\ link' = [link EXCEPT ![d] = "free"] /\ bare' = FALSE
          /\ todo' = todo \ {d} /\ NoFault /\ UNCHANGED <<pc, tasks>>
       \/ Fault /\ Fail /\ todo' = {} /\ UNCHANGED <<link, bare>>
    /\ UNCHANGED <<place, rackDir, record, trash, journalVars, inputVars, clear, leftovers,
                   result>>

\* The linked record goes last; only now does the journal hear of the unlink.
\* Pruning empty directories may still fail after the record is gone.
UnlinkRecord ==
    /\ pc = "unlinking" /\ todo = {}
    /\ LET f == FormulaOf(Arg)
           gone == [record EXCEPT !["linked"][f] =
                       IF record["linked"][f] = Arg THEN NoKeg ELSE record["linked"][f]]
       IN  \/ /\ record' = gone /\ pc' = "apply" /\ Done /\ NoFault
              /\ unlinked' = Append(unlinked, [keg |-> Arg, bare |-> bare])
           \/ record' \in {record, gone} /\ Fault /\ Fail /\ UNCHANGED unlinked
    /\ UNCHANGED <<place, rackDir, link, trash, records, racked, staged, committed,
                   inputVars, todo, clear, bare, leftovers, result>>

\* Mutant: kegs are removed where they are, not renamed into the trash.
MoveAwayDeletes ==
    /\ pc = "apply" /\ tasks # <<>> /\ Op = "move" /\ Done /\ NoFault
    /\ place' = [place EXCEPT ![Arg] = "gone"]
    /\ UNCHANGED <<rackDir, link, record, trash, journalVars, inputVars, todo, clear, bare,
                   leftovers, pc, result>>

\* safe_trash_rename of a keg.
MoveAway ==
    /\ pc = "apply" /\ tasks # <<>> /\ Op = "move"
    /\ place' = [place EXCEPT ![Arg] = "trash"] /\ staged' = Append(staged, Arg)
    /\ Done /\ NoFault
    /\ UNCHANGED <<rackDir, link, record, trash, records, racked, unlinked, committed,
                   inputVars, todo, clear, bare, leftovers, pc, result>>

\* remove_empty_dir_strict: a rack that holds something else than kegs is an error.
RemoveRackDir ==
    /\ pc = "apply" /\ tasks # <<>> /\ Op = "rack"
    /\ \/ /\ rackDir' = rackDir \ {Arg} /\ racked' = racked \cup {Arg}
          /\ Done /\ UNCHANGED pc
       \/ Fail /\ UNCHANGED <<rackDir, racked>>
    /\ NoFault
    /\ UNCHANGED <<place, link, record, trash, records, staged, unlinked, committed,
                   inputVars, todo, clear, bare, leftovers, result>>

-----------------------------------------------------------------------------
(* After the commit.                                                       *)

Commit ==
    /\ pc = "apply" /\ tasks = <<>>
    /\ pc' = "commit" /\ result' = "committed" /\ committed' = TRUE
    /\ tasks' = CallEach("delete", staged)
    /\ NoFault
    /\ UNCHANGED <<diskVars, records, racked, staged, unlinked, inputVars, todo, clear, bare,
                   leftovers>>

\* remove_trash_after_commit: a failure is collected, the others go on.
Delete ==
    /\ pc = "commit" /\ tasks # <<>> /\ Done
    /\ \/ place' = [place EXCEPT ![Arg] = "gone"] /\ NoFault /\ UNCHANGED leftovers
       \/ /\ Fault /\ Report({Arg})
          /\ \E c \in {"trash", "torn"} : place' = [place EXCEPT ![Arg] = c]
    /\ UNCHANGED <<rackDir, link, record, trash, journalVars, inputVars, todo, clear, bare,
                   pc, result>>

\* remove_empty_trash_dirs ignores every error, and stops at what is not empty.
EmptyTrash ==
    /\ pc = "commit" /\ tasks = <<>>
    /\ \/ trash' = (\E k \in Kegs : place[k] \in {"trash", "torn"}) /\ NoFault
       \/ Fault /\ UNCHANGED trash
    /\ result' = (IF leftovers = {} THEN "ok" ELSE "cleanup") /\ pc' = "idle"
    /\ UNCHANGED <<place, rackDir, link, record, journalVars, inputVars, tasks, todo,
                   clear, bare, leftovers>>

-----------------------------------------------------------------------------
(* rollback                                                                *)

\* The calls rollback makes, each loop backwards over its part of the journal:
\* racks, kegs in the trash, links of unlinked kegs, and the three symlinks,
\* which restore_symlink removes and creates again.
Recorded == Reverse(Chosen(Order, records))
Restore(name, f) ==
    LET which == [name |-> name, of |-> f]
    IN  <<[op |-> "clear", arg |-> which], [op |-> "restore", arg |-> which]>>
RestoreTasks(f) == Restore("pin", f) \o Restore("linked", f) \o Restore("opt", f)

\* Mutant: the three symlinks forgotten.
UndoTasksNoRecords ==
    CallEach("makeRack", Chosen(Recorded, racked)) \o CallEach("putBack", Reverse(staged))
    \o CallEach("relink", Reverse(unlinked))

UndoTasks ==
    CallEach("makeRack", Chosen(Recorded, racked)) \o CallEach("putBack", Reverse(staged))
    \o CallEach("relink", Reverse(unlinked)) \o Each(Recorded, RestoreTasks)

Unwind ==
    /\ pc = "fail" /\ pc' = "undo" /\ tasks' = UndoTasks
    /\ UNCHANGED <<diskVars, journalVars, inputVars, todo, clear, bare, leftovers, result,
                   faults>>

RestoreRackDir ==
    /\ pc = "undo" /\ tasks # <<>> /\ Op = "makeRack" /\ Done
    /\ \/ rackDir' = rackDir \cup {Arg} /\ NoFault /\ UNCHANGED leftovers
       \/ Fault /\ Report({Arg}) /\ UNCHANGED rackDir
    /\ UNCHANGED <<place, link, record, trash, journalVars, inputVars, todo, clear, bare,
                   pc, result>>

PutBack ==
    /\ pc = "undo" /\ tasks # <<>> /\ Op = "putBack" /\ Done
    /\ \/ /\ FormulaOf(Arg) \in rackDir
          /\ place' = [place EXCEPT ![Arg] = "rack"] /\ NoFault /\ UNCHANGED leftovers
       \/ /\ FormulaOf(Arg) \notin rackDir /\ NoFault /\ Report({Arg}) /\ UNCHANGED place
       \/ Fault /\ Report({Arg}) /\ UNCHANGED place
    /\ UNCHANGED <<rackDir, link, record, trash, journalVars, inputVars, todo, clear, bare,
                   pc, result>>

\* link() sees no directories to walk in a keg that is not back.
Conflicts(u) ==
    {d \in Ships[u.keg] : /\ ~u.bare /\ place[u.keg] = "rack" /\ link[d] # "free"
                          /\ ~Dangling(d) /\ ~Mine(d, u.keg)}
Planned(u) ==
    {d \in Ships[u.keg] : /\ ~u.bare /\ place[u.keg] = "rack"
                          /\ (link[d] = "free" \/ Dangling(d))}

\* An Err leaves the keg's path, a report leaves its conflicts.
Relink ==
    /\ pc = "undo" /\ tasks # <<>> /\ Op = "relink"
    /\ \/ /\ Conflicts(Arg) = {} /\ todo' = Planned(Arg) /\ NoFault
          /\ clear' = {d \in Planned(Arg) : Dangling(d)}
          /\ pc' = "relinking" /\ UNCHANGED <<tasks, leftovers>>
       \/ /\ Conflicts(Arg) # {} /\ Report(Conflicts(Arg)) /\ NoFault
          /\ Done /\ UNCHANGED <<todo, clear, pc>>
       \/ Fault /\ Report({Arg.keg}) /\ Done /\ UNCHANGED <<todo, clear, pc>>
    /\ UNCHANGED <<diskVars, journalVars, inputVars, bare, result>>

RelinkError ==
    Report({Arg.keg}) /\ Done /\ pc' = "undo" /\ todo' = {} /\ clear' = {}

\* Mutant: a destination that has appeared meanwhile is tried again.
RelinkFileRetry(d) ==
    /\ pc = "relinking" /\ d \in todo /\ (d \in clear) = (link[d] # "free") /\ NoFault
    /\ link' = [link EXCEPT ![d] = Arg.keg] /\ todo' = todo \ {d}
    /\ UNCHANGED <<place, rackDir, record, trash, journalVars, inputVars, bare, result, pc,
                   tasks, clear, leftovers>>

\* Op::Symlink: remove_file if the plan saw a dangling link, then symlink(2), which
\* refuses a destination that has appeared meanwhile.
RelinkFile(d) ==
    /\ pc = "relinking" /\ d \in todo
    /\ \/ /\ (d \in clear) = (link[d] # "free") /\ NoFault
          /\ link' = [link EXCEPT ![d] = Arg.keg] /\ todo' = todo \ {d}
          /\ UNCHANGED <<pc, tasks, clear, leftovers>>
       \/ /\ (d \in clear) # (link[d] # "free") /\ NoFault
          /\ RelinkError /\ UNCHANGED link
       \/ /\ Fault /\ RelinkError
          /\ \/ UNCHANGED link
             \/ d \in clear /\ link[d] # "free" /\ link' = [link EXCEPT ![d] = "free"]
    /\ UNCHANGED <<place, rackDir, record, trash, journalVars, inputVars, bare, result>>

\* write_record of opt, then of linked; each removes the symlink first.
RelinkRecords ==
    /\ pc = "relinking" /\ todo = {}
    /\ LET f == FormulaOf(Arg.keg)
           Set(r, name, k) == [r EXCEPT ![name][f] = k]
           opted == Set(record, "opt", Arg.keg)
       IN  \/ /\ record' = Set(opted, "linked", Arg.keg) /\ NoFault
              /\ Done /\ pc' = "undo" /\ clear' = {} /\ UNCHANGED <<todo, leftovers>>
           \/ /\ Fault /\ RelinkError
              /\ record' \in {record, Set(record, "opt", NoKeg), opted,
                              Set(opted, "linked", NoKeg)}
    /\ UNCHANGED <<place, rackDir, link, trash, journalVars, inputVars, bare, result>>

\* restore_symlink, first half.  If this fails the second half is not tried.
ClearRecord ==
    /\ pc = "undo" /\ tasks # <<>> /\ Op = "clear"
    /\ \/ /\ record' = [record EXCEPT ![Arg.name][Arg.of] = NoKeg] /\ NoFault
          /\ Done /\ UNCHANGED leftovers
       \/ /\ Fault /\ Report({Arg.name}) /\ tasks' = Tail(Tail(tasks)) /\ UNCHANGED record
    /\ UNCHANGED <<place, rackDir, link, trash, journalVars, inputVars, todo, clear, bare,
                   pc, result>>

RestoreRecord ==
    /\ pc = "undo" /\ tasks # <<>> /\ Op = "restore" /\ Done
    /\ LET was == before.record[Arg.name][Arg.of]
       IN  \/ /\ record' = [record EXCEPT ![Arg.name][Arg.of] = was] /\ NoFault
              /\ UNCHANGED leftovers
           \/ was # NoKeg /\ Fault /\ Report({Arg.name}) /\ UNCHANGED record
    /\ UNCHANGED <<place, rackDir, link, trash, journalVars, inputVars, todo, clear, bare,
                   pc, result>>

\* Mutant: what is left over is not looked at.
UndoneSilently ==
    /\ pc = "undo" /\ tasks = <<>> /\ pc' = "idle" /\ result' = "failed" /\ NoFault
    /\ trash' = FALSE
    /\ UNCHANGED <<place, rackDir, link, record, journalVars, inputVars, tasks, todo,
                   clear, bare, leftovers>>

\* The trash root goes only if nothing is left over.  cleanup_replaced_kegs does
\* not mind if it cannot go; its error for leftovers is CleanupIncomplete.
Undone ==
    /\ pc = "undo" /\ tasks = <<>> /\ pc' = "idle"
    /\ \/ trash' = (trash /\ leftovers # {}) /\ NoFault /\ UNCHANGED leftovers
       \/ /\ trash /\ leftovers = {} /\ Fault /\ UNCHANGED trash
          /\ IF kind = "uninstall" THEN Report({"trash"}) ELSE UNCHANGED leftovers
    /\ result' = (IF leftovers' = {} THEN "failed" ELSE "incomplete")
    /\ UNCHANGED <<place, rackDir, link, record, journalVars, inputVars, tasks, todo,
                   clear, bare>>

-----------------------------------------------------------------------------
Crash ==
    /\ pc # "idle" /\ pc' = "idle" /\ result' = "crashed"
    /\ UNCHANGED <<diskVars, journalVars, inputVars, tasks, todo, clear, bare, leftovers,
                   faults>>

\* Another formula's process links or unlinks a destination of its own.  (Before
\* the removal Init, and after it nothing, depends on when.)
OtherFormula(d) ==
    /\ Neighbours /\ pc # "idle"
    /\ \/ (link[d] = "free" \/ Dangling(d)) /\ link' = [link EXCEPT ![d] = "other"]
       \/ link[d] = "other" /\ link' = [link EXCEPT ![d] = "free"]
    /\ UNCHANGED <<place, rackDir, record, trash, journalVars, inputVars, tasks, todo,
                   clear, bare, leftovers, pc, result, faults>>

Apply ==
    \/ ReadRecords \/ CreateTrash \/ CallFails \/ RemoveRecord \/ Unlink \/ UnlinkRecord
    \/ MoveAway \/ RemoveRackDir \/ Commit \/ Delete \/ EmptyTrash
    \/ \E d \in Files : UnlinkFile(d)
RollBack ==
    \/ Unwind \/ RestoreRackDir \/ PutBack \/ Relink \/ RelinkRecords \/ ClearRecord
    \/ RestoreRecord \/ Undone
    \/ \E d \in Files : RelinkFile(d)

Next ==
    \/ BeginUninstall \/ BeginCleanup \/ Apply \/ RollBack \/ Crash
    \/ \E d \in Files : OtherFormula(d)

Spec == Init /\ [][Next]_vars

\* One thread, no waiting: a removal that was started goes on unless killed.
FairSpec == Spec /\ WF_vars(Apply \/ RollBack)

-----------------------------------------------------------------------------
(* Properties                                                              *)

\* Types of the disk and of the control state.
TypeOK ==
    /\ place \in [Kegs -> {"rack", "trash", "torn", "gone"}]
    /\ rackDir \subseteq Formulae /\ trash \in BOOLEAN
    /\ link \in [Files -> Kegs \cup {"free", "other"}]
    /\ record \in [Names -> [Formulae -> Kegs \cup {NoKeg}]]
    /\ records \subseteq Formulae /\ racked \subseteq Formulae
    /\ targets \subseteq Kegs /\ todo \subseteq Files /\ clear \subseteq Files
    /\ committed \in BOOLEAN /\ faults \in 0 .. MaxFaults

\* Until the commit, also at a kill, every keg is whole in its rack or in the
\* trash; a keg that is not a target never moves at all.  (The renames of apply
\* and rollback, and that nothing is deleted before the commit.)
KegsWhole ==
    \A k \in Kegs : before.place[k] = "rack" =>
        \/ place[k] = "rack"
        \/ k \in targets /\ (place[k] = "trash" \/ committed)

\* Every prefix link is back, if the unlink that removed it ran to its end,
\* whatever other formulae link meanwhile.
LinksBack ==
    \A d \in Files :
        LET owner == before.link[d]
        IN  owner \in Kegs
            /\ (owner \notin targets \/ \E i \in 1 .. Len(unlinked) : unlinked[i].keg = owner)
               => link[d] = owner

\* An error that reports nothing has put everything back, of every formula of the
\* bulk removal: kegs, racks, the three symlinks of each, the prefix links, and no
\* trash (which an upgrade's cleanup does not promise).
CleanFailure ==
    result = "failed" =>
        /\ place = before.place /\ rackDir = before.rackDir /\ record = before.record
        /\ kind = "uninstall" => ~trash
        /\ LinksBack

\* After success nothing is left of the targets: no keg, no symlink of the
\* formula, no prefix link, and an emptied rack is gone; other kegs keep all of it.
RemovedCompletely ==
    result \in {"ok", "cleanup"} =>
        /\ \A k \in targets : place[k] # "rack"
        /\ \A k \in targets : result = "ok" => place[k] = "gone"
        /\ \A name \in Names, f \in Formulae : record[name][f] \notin targets
        /\ \A d \in Files : link[d] \notin targets
        /\ kind = "uninstall" => \A f \in rackDir :
              f \in before.rackDir /\ \E k \in KegsOf(f) : place[k] = "rack"
        /\ \A k \in Installed, name \in Names :
              before.record[name][FormulaOf(k)] = k => record[name][FormulaOf(k)] = k

\* Before the commit a keg in the trash still counts as installed.
LogicalInstalled ==
    IF result = "running" THEN {k \in Kegs : place[k] \in {"rack", "trash"}}
                          ELSE Installed

Abstract == INSTANCE BulkRemoval WITH
    installed <- LogicalInstalled, doomed <- targets, outcome <- result

\* So seen, removal is atomic over all formulae it was asked for.
AtomicInBulk == Abstract!RemovalSpec

\* A removal that is not killed ends.
Terminates == result = "running" ~> result \notin {"running", "committed"}
=============================================================================
